# A TLA+ model of the selective_trace plugin

`selective_trace` is an audit plugin for MySQL 8. The server calls it for the
start of every command, every table a statement opens, the end of every command
and the end of every connection. The plugin decides from three filter lists
whether the statement is to be logged, and hands a record to one of two writers:
a log file, written by the statement's own thread, or a log table, written by a
background thread behind a bounded queue.

This directory holds modules that model the plugin, TLC configurations that
check them on small instances, and proofs, checked by TLAPS, of what matters
most for every value of the constants. `PROJECT.json` maps every definition that
models code to the lines it stands for, and lists runs, mutants, findings,
hazards and theorems. Source paths below are relative to the repository.

## 1. Inventory

| Component | Source | State | Operations |
|---|---|---|---|
| TABLE writer | `src/log_writer_table_mysql.cc` | `queue`, `thread_running`, `stop_requested` under `q_mutex`; the writer thread's batch, connection and services; counters | `table_writer_init`, `_enqueue`, `_shutdown`, `_is_self`; `writer_thread_func`, `run_insert`, `ensure_conn` |
| Recycle policy | `src/writer_recycle_policy.h` | `since_recycle_`, `recycles_` | `note_insert`, `note_connection_reset` |
| FILE writer | `src/log_writer_file_mysql.cc` | `log_fp` and its counters under the reader-writer lock `log_lock` | `file_writer_write` (lazy open), `_reopen`, `_close`, `_init`, `_deinit` |
| Event capture | `src/selective_trace_mysql.cc` | `state_map`: one `StatementState` per THD address | `selective_trace_notify`, `notify_impl`, the three handlers, `track_current_db`, `forget_state` |
| System variables | `src/selective_trace_mysql.cc` | `opt_*`, the strings behind them, `active_rules` under `filter_lock` | the check and update callbacks of `SET GLOBAL` |
| Filter lists | `core/filter_engine.cc` | none (pure) | `parse_filter_lists`, `parse_connection_list`, `match_*`, `command_bit` |
| SQL text | `core/filter_engine.cc` | none (pure) | `extract_command`, `mask_secrets`, escaping, tokenising |
| Plugin lifecycle | `src/selective_trace_mysql.cc` | `plugin_ready`, ownership of everything above | `selective_trace_init`, `_deinit` |
| Status variables | `src/selective_trace_mysql.cc` | counters of the writers, `status_events_logged`, `status_callback_errors` | `SHOW STATUS` callbacks |

**How they interact.** Statement threads run the capture callbacks. Each looks
up its own state (shared map, `state_map_lock`), reads the rules (`filter_lock`),
and at the end of the statement calls `file_writer_write` or
`table_writer_enqueue`. The first accepted event starts the writer thread, which
takes the whole queue at once, releases the mutex and inserts row by row through
an internal SQL connection of the server. `SET GLOBAL` runs the update callbacks
in an administrator's thread at any point between these steps. `UNINSTALL PLUGIN`
runs `deinit`, which stops and joins the writer thread and frees everything.

**What is hard.** Statement threads, the writer thread, the thread of `SET GLOBAL` and the thread in
`deinit` meet without one lock over it all:

- the writer thread inserts outside the mutex while statements refill the queue
  and `deinit` asks it to stop;
- an INSERT can fail at any call from connecting to inserting, is retried once, and a lost
  connection does not say whether the row was stored;
- the lazy open gives up its read lock before it takes the write lock;
- events of one statement are separate callbacks, tracing can be switched and
  rules replaced between any two of them, and memory can run out in each;
- the plugin knows a connection by an address the server reuses;
- the writer's own INSERTs raise audit events and enter the plugin's callbacks,
  also while `deinit` waits for the writer;
- counters are incremented by all statement threads without synchronisation;
- statements are read by hand-written scanners, twice in the case of `USE`.

**What makes each part correct.**

- TABLE writer: what was accepted is settled exactly once and in order; memory
  is bounded; no INSERT on a session with a foreign `sql_mode`; no connection
  older than the threshold; shutdown ends, and loses nothing.
- FILE writer: no write to a closed file, no lost handle, no deadlock, lines go
  to the configured path, failures are counted.
- Capture: a record describes its own statement, is permitted by the filters,
  none that the filters ask for is missing, entries do not leak or pass to
  another connection.
- Filter lists: a parsed list matches exactly what its entries say.
- SQL text: the command, the schema, the credentials and the entries found are
  those that are there; what was escaped is what a reader gets back.
- Lifecycle: nothing is used before it was made or after it was destroyed,
  nothing is left behind, whatever step of `init` fails; `UNINSTALL` returns.
- Status variables: no counter says more than what happened, nor nothing when
  something did.

`PROJECT.json` lists the places where these are hard to test under `hazards`.

## 2. Modules

| Module | Models | Used by |
|---|---|---|
| `TableWriter` | TABLE writer and recycle policy | runs `table_*` |
| `TraceSink` | abstract: what `table_writer_enqueue` promises | `TableWriterSink`, `Plugin` |
| `TableWriterSink` | refinement of `TraceSink` by `TableWriter`, liveness | run `table_sink` |
| `TableWriter_proof`, `TableWriterSink_proof` | theorems | TLAPS |
| `FileWriter` | FILE writer and `update_file_path` | runs `file_*` |
| `FileWriter_proof` | theorems | TLAPS |
| `FilterEngine` | lists, parsing, matching, as operators | `Capture` |
| `FilterEngineCheck`, `MCFilterEngine` | lists edited entry by entry, compared with a reference definition | run `filter_engine` |
| `FilterEngine_proof` | lemmas on parsing and matching, induction | `Capture_proof`, `FilterEngineCheck_proof`, `SqlTextCheck_proof` |
| `FilterEngineCheck_proof` | theorems | TLAPS |
| `Capture`, `MCCapture` | callbacks, per-connection state, `SET GLOBAL` | runs `capture*` |
| `Capture_proof` | theorems | TLAPS |
| `SqlText` | the scanners and escapes, as operators | `SqlTextCheck` |
| `SqlTextCheck` | texts put together from pieces whose meaning is known, reference readers | runs `text*` |
| `SqlTextCheck_proof` | theorems | TLAPS |
| `Plugin` | lifecycle, choice of output, shared counters, over `TraceSink` | run `plugin` |
| `Plugin_proof` | theorems | TLAPS |

`Plugin` composes the parts at the level of what they promise: a callback of
`Capture` may log or not, the FILE writer succeeds or fails, and the TABLE writer
is `TraceSink`, which `TableWriter` is proved to implement. `Capture` is composed
with `FilterEngine`, whose operators it uses, and takes from `SqlText` what the
scanners find in a statement.

Operators whose name ends in `_SomeBug` next to an action are that action with a
plausible mistake; `PROJECT.json` (`mutants`) says which property each must break.

### TableWriter

A section under `q_mutex` is one action; outside it the writer thread takes one
step per external call. An event is its *ticket*: the n-th accepted event is n.

| Code | Model |
|---|---|
| `queue` (NULL or not), `thread_running`, `stop_requested` | `queue_exists`, `queue`, same names |
| `table_writer_enqueue` | `Enqueue` = `EnqueueAccepts`, `EnqueueDrops` (full, or `push_back` throws), `EnqueueRefuses` (no queue, `pthread_create` fails) |
| `table_writer_init` | `TableWriterInit` |
| `table_writer_shutdown` | `ShutdownRequestsStop`, `ShutdownJoins`, `ShutdownFrees`, its two sections and the join between them |
| the loop of `writer_thread_func` | `WriterStarts`, `WriterWaits`, `SpuriousWakeup`, `WriterTakesBatch`, `WriterNextInBatch`, `WriterExits` |
| `run_insert` | `RunInsert`, `RunInsertThrows`, `InsertSucceeds`, `InsertFindsNoTable`, `InsertLosesConnection`, `InsertFails`; `attempt` is 2 in the retry |
| `ensure_conn` | `AcquireServices`, `Connect`, `ConnectFails`, `PinSqlMode`, `CreateLogTable` |
| `note_insert` and `close_conn` | `NoteInsert` |

The counters are statics that no function resets: `UNINSTALL` followed by `INSTALL`
keeps them as long as the library stays mapped, and the model keeps them. `CallbacksMayRun` is an
assumption about the server, external to the repository: `deinit` runs only when
no callback of the plugin does. The code relies on it (it frees the queue's
companions without a lock) and cannot check it.

### FileWriter

`log_lock` is modelled as `readers` and `writer`. `file_writer_write` is `Call`,
`TakeReadLock`, `ReleaseToUpgrade`, `TakeWriteLock`, `OpenFile`, `WriteLine` or
`WriteIsShort`/`CountFailure` (an unsynchronised increment is a load and a store),
and `Return`. `update_file_path` is `AssignPath`, `PublishPath`, `CloseFile`,
`ReopenFile`, `AdminUnlocks`.

The path string is not protected by a lock: a thread holds the pointer
`opt_file_path` while `SET GLOBAL` assigns to the `std::string` behind it. What
the pointer shows during or after an assignment that moves the buffer is
undefined behaviour in C++, so `PathAt` returns any path, the empty one or
garbage when the pointer is `Dangling`. The history variable `dangling` says that
the open file was named in this way: `FileFollowsPathUnlessDangling` is what the
locking achieves, `FileFollowsPath` what the documentation says.

### FilterEngine

A list entry is its identifiers and its qualifier tokens, already trimmed, in
lower case and without backticks; a connection id is its characters. A command
mask is a set of commands. `add_entry`, the two parsers (with the rule that
nothing is written when any entry is bad) and the three match functions keep
their names. What a loop over a list has put together is a function of the number
of entries read (`add_entries`, `IdValue`). `WordSize` is 2^64 in the code.

### Capture

A connection is a *slot*, the address of its THD. `Connect`, `Dispatch` and
`Finish` are the server. A callback is two steps: `RaiseLog`, `RaiseTable`,
`RaiseStatus` (`selective_trace_notify` up to its unlocked read of `opt_enabled`),
then `HandleLog`, `HandleTable`, `HandleStatus` under `filter_lock`.
`StatusThrows` and `GetStateThrows` are the exceptions `notify` catches;
`Disconnect` is the event that is handled even with tracing off. `SetEnabled`,
`SetMinDuration` and `UpdateFilterList` are `SET GLOBAL`; the last one may fail to rebuild the rules, and
then the variable shows the new text while the old rules stay active.

A logged record is what the state contributes to it: connection, `query_seq`,
tables, truncation and the command whose dispatch the clock was read at. The
fields from `opened` on in a command, `named` and `schema` are history used only
by properties; `schema` is the session's real schema as far as events tell, and
`Finish` decides whether a USE succeeded. Apart from the schema a USE names, a
command has what the scan of `track_current_db` finds in its text (`found`): the
same for a plain USE, which is what `UseNamesSchema` shows of the scan; for a
`"commented use"` any schema, a word that is none (`ScannedWord`) or nothing,
whatever comments there are and wherever a name ends that the scan cannot read
(letters beyond ASCII, a doubled backtick). The tracked schema is then what was
found, `schema` is unknown until the next plain USE, and `Permits` goes by what is
tracked. `Durations` is -1 without a start
clock; a clock left over from an earlier statement only makes a statement seem
slower. `AlwaysSignsOff` says whether every connection ends with a
DISCONNECT event; the source itself expects connections that raise none
(`src/selective_trace_mysql.cc:140`).

`Permits` is the specification the log is compared with: any of the three lists
is enough. One of InnoDB's statistics tables counts only when the table list
names it, and then also for what the schema list says of its schema
(`PermitsTable`), as `handle_table_access_event` has it.

### SqlText

A text is a sequence of symbols: characters, or runs of identifier characters no
scanner looks into. Case is left out (every comparison ignores it) except in
`clean_token`, which lowers it. `SkipLead` is the loop at the head of
`extract_command` and `LeadNext` one turn of it; `UseSchema` is `track_current_db`
on a statement; `mask_following_quote`, `kw_at`, `split_csv`, `clean_token` and
`strip_ticks` keep their names. The loop of `split_csv` is taken apart into what it
does with a character (`Cut`) and with a finished token (`Keep`). The escapes work
on character codes, since their subject is single characters; `JsonEscape` and
`SqlEscape` are the bodies of the two loops. `ReadEntry` gives the entries `FilterEngine` starts from.

`SqlTextCheck` appends pieces, each with the meaning it has in SQL, JSON or the
documentation of the lists, and the properties compare the scanner's result on
the whole text with the meanings put together. The reference readers of JSON and
of SQL literals take a string apart into units, each with its value and the
position of the next.

### Plugin

| Code | Model |
|---|---|
| `selective_trace_init` | `InstallBegins`, `InitWriters`, `InitStrings`, `InitRules`, and `InitFails`, the label `fail` |
| `selective_trace_deinit` | `DeinitBegins`, `RequestStop`, `ReleaseMutex`, `JoinWriter`, `DeinitFrees` |
| locks, `state_map`, strings, `active_rules` | `live`: 1 once made, one less once destroyed (a lock destroyed twice is below 0) |
| `selective_trace_notify` | `ClientNotify` or `WriterNotify` (the read of `plugin_ready`), `SelfTest`, `Forget`, `Handle`, `Throws` |
| the two outputs of `handle_status_event` | `FileOutput`, `TableOutput`, chosen by `opt_output` as it is then |
| `counter++` | `CountLoad`, `CountStore` |
| `SET GLOBAL` | `SetOutput`, `UpdateBegins`, `UpdateEnds` |
| the writer thread | `WriterStep`: `Store` or `Settle` of `TraceSink` |

Callbacks may arrive in every phase; `plugin_ready` is what turns them away.
That the server calls `deinit` only when no client is in a callback and no
`SET GLOBAL` runs is an assumption about the server, as in `TableWriter`; the
writer's own callbacks may be in flight. The phase `aborted` is an exception that
leaves `init`: see below.

## 3. What the runs check

### Runs that pass

| Run | Shows |
|---|---|
| `table_safety` | With every interleaving of statements, writer, `init` and shutdown and every failure of the services: `QueueConservation` (each accepted event is in exactly one place, in order), `PendingBounded`, `EveryEventAccounted` (in the table or counted, once), `RowsInOrder` (order kept, at most two copies), `InsertOnlyWhenPinned`, `ConnectionBounded`, `NothingHeldAfterExit`, `ShutdownDrains`, and the inductive `Control` |
| `table_sink` | `TableWriter` implements `TraceSink`; every accepted event is handled; a shutdown that began ends |
| `filter_engine` | For every list of up to two entries of each kind, matching equals the union of what the entries say, or the list is refused |
| `capture` | What is logged of a statement whose dispatch was seen is exact (`ObservedIsExact`), permitted by rules active while it ran (`ObservedIsPermitted`), numbered in order (`SeqFollowsOrder`); nothing asked for is missed (`PermittedIsLogged`); no entry outlives its connection (`NoOrphanState`); the tracked schema was found in one of the connection's own commands (`DbIsOwn`) and, after a plain USE or an Init DB that was seen and succeeded, is the session's own (`DbFollowsSession`) |
| `file_safety` | No write through a closed file, no lost handle, torn paths included; after an update only a dangling pointer can have named another file than the path says (`FileFollowsPathUnlessDangling`); `write_failures` may lose counts but never hides that there were failures (`FailuresShow`); every write and every update returns (`CallsReturn`) |
| `text` | `ExtractFindsCommand`, `UseNamesSchema`, `MaskHidesExactly` (the literals right behind their keywords and nothing else), `ListIsItsEntries`, `EscapesReadBack` (the SQL half under the `sql_mode` that `InsertOnlyWhenPinned` is about) |
| `plugin` | However `init` fails, nothing is left and nothing is destroyed twice (`NothingLeaks`, `TypeOK`); `NoUseAfterFree`; `NeverTracesItself`; `CountersHonest`; `UninstallReturns` although the writer needs `q_mutex` and enters callbacks during the join |

### Runs that end in a violation

Each checks one sentence the repository says of itself, quoted in `findings`.

| Run | What the code does |
|---|---|
| `capture_clock` | after tracing was off, a statement can be logged with an earlier one's clock |
| `capture_reuse` | without DISCONNECT, the next connection at the address inherits the schema |
| `text_use` | `/* c */ USE x` tracks a word of the comment |
| `text_mask` | four things masking does otherwise than documented: the literal of `SET PASSWORD FOR u = '...'` stays, so do what is behind a doubled quote and the form `X'...'`; a literal that ends in a keyword makes it replace what follows |
| `file_path_race` | a thread may open whatever the freed path buffer spells |

Other disagreements between code and documents, seen while modelling, have no run;
each follows from one or two actions of the model:

- `NoteInsert` runs also for an insert that never had a connection
  (`AcquireServices` or `ConnectFails` before it), so `since_recycle()` is not
  just the "Inserts accumulated on the current connection"
  (`src/writer_recycle_policy.h:104`) and the next connection is recycled early.
- `selective_trace_events_logged` counts what `EnqueueAccepts` accepts, "Total
  events written since plugin load" (`docs/USAGE.md:208`); `InsertFails` may follow.
- A refused enqueue (`EnqueueRefuses`, `TableOutput`) moves no counter.
- `write_failures++` under the read lock and the counters of `Plugin` lose
  increments when two threads count at once, so that "Total failed writes/opens
  since load" (`src/log_writer_file_mysql.h:56`) is a lower bound. `FailuresShow`
  and `CountersHonest` say what is left.
- `selective_trace_init` has no try block: `std::string` and `parse_filter_lists`
  may throw `bad_alloc` through it into the server (`InitStrings` and `InitRules`
  to `aborted`), which the callbacks take care to avoid
  (`src/selective_trace_mysql.cc:1065-1067`). `rebuild_rules_locked` does not
  delete `fresh` when parsing throws.
- `local_seq` grows with `HandleLog` and an ad-hoc `HandleTable` only: a statement
  of a listed connection whose dispatch was missed and that opens no table is
  logged with the number of the one before, so `query_seq` does not always
  identify a statement within a session (`docs/DECISIONS.md:90-93`).
- A statement that took exactly `min_duration_ms` is logged (`TooFast`), while
  `docs/USAGE.md:109` and the text of the variable
  (`src/selective_trace_mysql.cc:491`) say "slower than". `PermittedIsLogged` asks
  for the slower ones only and leaves that case open.
- `track_current_db` does not look at `general_error_code`: a USE that failed
  changes the tracked schema (`Finish` with a failure in `Capture`).
- `file_writer_write` "Returns true if the line hit the file"
  (`src/log_writer_file_mysql.h:51`), but the result of `fflush` is ignored
  (`WriteLine`).
- With an empty path lines are lost and `write_failures` stays as it was
  (`OpenLocked`), although it is documented as "Failed writes (FILE)"
  (`docs/USAGE.md:209`).
- `docs/USAGE.md:80-86` says that the connection "is established once and reused",
  so that a later grant takes effect only after a reload; the connection is
  replaced every `WRITER_RECONNECT_EVERY_N_INSERTS` inserts and after a loss, and
  `ensure_conn` creates the table anew each time.
- `src/log_writer_file_mysql.h:41-43` says that after a failed reopen "the writer
  stays closed" and writes are no-ops; the next write tries again (`OpenFile`).
- When all lists are emptied while a statement runs, that one statement may still
  be logged, which `ObservedIsPermitted` allows.

### Bounds

- `TableWriter`: capacity 2, threshold 2, five calls of enqueue. The queue fills
  while the batch is full (4 events) and one more is dropped; a threshold of 2
  is reached by successes, failures and across a lost connection; the plugin is
  installed and removed any number of times. `table_sink` uses capacity 1 and
  three events to keep the liveness check small: sleep, wakeup, full queue and
  a stop requested at each step all happen.
- `FileWriter`: two threads race for the lazy open with an update, and a third call
  finds what they left; two updates, to the empty path and back. The safety
  properties are proved for any number of threads, paths and updates.
- `FilterEngine`: two entries per list reach every duplicate, overlap and
  refusal; `add_entry` treats further entries alike. `WordSize` 256 makes a
  three-digit id overflow as a twenty-digit one does in the code; that an id beyond
  the word wraps and is accepted is the contract `core/test_filter_logic.cc:574-577`
  gives (the characters are validated, the range is not). What matching
  says of a list is proved for lists of any length.
- `Capture`: two statements are the fewest between which state can leak; two
  changes switch tracing off and on, or replace a list and switch, and tracing,
  lists and threshold start with any of their values; a buffer of one table
  with two opens reaches truncation; two connections, one after the other, reuse
  the address. The five lists are none, a schema, a table next to the statistics
  table, these with a connection, and the statistics table by its schema and by
  itself for different commands. The properties speak of one connection at a time
  and a handler touches only the entry of its own THD, so one slot is enough; they
  are proved for any set of slots, lists and tables.

- `SqlText`: up to two pieces before the last one. A scanner leaves a piece in the
  state it started from or not at all, so two pieces show every transition
  between them; the pieces are chosen at the edges (overlapping comment marks,
  escapes before a quote, unterminated literals, blank entries). The escapes are
  proved for every string of bytes.
- `Plugin`: two statement threads, three callbacks, a sink of two events and one
  exception: two threads race for a counter and a third callback sees what they
  left; `INSTALL` and `UNINSTALL` repeat without bound.

Deadlock is checked except in `Capture`, where the server really stops when its
bounded connections have ended, in `SqlTextCheck`, where a closed text is final,
and in `Plugin`, where an exception out of `init` ends the server.

### Fairness

`TableWriter!FairSpec` assumes weak fairness of the writer thread and of the
thread in `table_writer_shutdown`, that is, that the operating system runs them
and each call into the server returns. Nothing is assumed of clients or
administrators, and spurious wakeups are not relied on. `FileWriter!FairSpec`
assumes strong fairness of each thread in a call and of the update: a thread
that waits for `log_lock` gets it if it is free again and again. The code uses
the server's `mysql_rwlock`, whose implementation blocks new readers or not
depending on the platform; with a lock that starves writers the lazy open could
wait for ever, and this run would not show it. In every run clients issue a
bounded number of calls, which ends any such overtaking. `Plugin!FairSpec`
assumes weak fairness of each thread inside `init`, `deinit` or a callback and of
the writer thread; nothing makes an administrator install or remove the plugin.

## 4. What is proved

For every queue capacity, every threshold, any number of events, and any sets of
threads and paths:

- `ControlInvariant`. `Control` relates the three kinds of thread: which of them
  may find the queue NULL, when there is a writer thread, and that a stop the
  writer has seen means that the queue is empty. It is inductive on its own and
  everything else needs it; for example `ShutdownFrees` keeps conservation only
  because no writer thread and an empty queue is what `admin = "free"` implies.
- `TypeCorrect`, from `Control` (`Tail(batch)` needs a batch that is not empty).
- `Conservation`, inductive with `TypeOK` and `Control`; `ShutdownLosesNothing`
  follows, as does `MemoryBounded` with `BothBounded` (queue and batch are each
  within the capacity).
- `InsertsArePinned`, `ConnectionsRecycled`, `ExitReleasesEverything` from
  `ConnInv`, which says at each label what is known of connection, `sql_mode`,
  services and the two counts; the heart is that inserts on the connection never
  exceed `since_recycle`.
- `Accounted` from `AccountInv`, which adds the event being inserted: at the
  label `note` it is stored or failed, before that it is not yet failed.
- `RowsOrdered` from `RowsInv`, which counts the copies the event in progress
  may already have at its attempt.
- `Refinement`: with all of these, every step of `TableWriter` is a step of
  `TraceSink` or invisible to it, under the mapping in `TableWriterSink`
  (`up` is `queue_exists`; a failure counts once its event is settled).
- `WritesAreOpen` and `HandlesAreKept` from `LockInv` (a thread at a label inside
  a section holds the lock that section needs, and writer excludes readers) and
  `HandleInv`.
- `PathIsFollowed` from `LockInv`, `HandleInv` and `FollowInv`: between updates the
  open file is the one the path says unless `dangling`, and from the assignment of
  a new path until the close under the write lock nothing is claimed.

- `FailuresAreShown` from `CountInv`: a thread about to store loaded less than the
  failures there were, and after the first failure the count is positive or such
  a thread is still to come. `FileWriterTypeCorrect`, with `HandlesAreKept` for the
  count of open handles.
- `NothingUsedAfterFree` from `CallInv` (outside the phase `ready` only the writer
  is in a callback, and it stops at the test for itself) and `LifeInv` (what exists
  in each phase of `init` and `deinit`). `NothingIsLeaked` adds `SinkInv` (the queue
  is given up only when settled, and on every way out). `PluginTypeCorrect` says
  that nothing is made or destroyed twice.
- `SelfIsNotTraced` from `TraceInv`: lines and accepted events together with the
  number of client callbacks still underway are at most the statements.
  `CountersAreHonest` from `CountInv`: a counter, and what any thread loaded of it,
  leaves room for the increments of all threads that have one pending. Both speak
  of the cardinality of a set of threads, which is shown finite; `Thread` itself
  may be infinite.
- `Capture_proof` starts from `TypeInv` and `StepInv`, which say what events a command
  can have in flight at which point, and goes on from there per connection: a
  step changes only its own (`SlotStepOthers`), and `SET GLOBAL` only what rule
  sets a command has seen (`AdminEffect`).
  - `LoggedIsExact`, `LoggedIsPermitted` from `EntryInv`: from the handling of a
    command's GENERAL_LOG to that of its GENERAL_STATUS its entry has its own clock,
    tables it opened (all but the one whose event is in flight, unless an event was
    missed or the buffer is full) and a mask each of whose commands a rule set it saw
    permits on such a table. The invariant is needed because the properties speak of
    the moment of logging only.
  - `WantedIsLogged`, an action property, from `MaskInv`, the converse: as long as
    the command saw one rule set, every command that set permits on a table
    handled is in the mask.
  - `NumbersFollowOrder` from `SessionInv` (connections have different ids) and
    `SeqInv`: what was logged of a connection has numbers up to that in its entry,
    and lower ones once the next command's dispatch is handled.
  - `SchemaFollowsSession` from `DbInv`, which adds the time between the event and
    the end of a USE or Init DB, and claims nothing of a commented USE. `NoEntryIsLeft` and `EntriesAreOwn` from `NamedInv`;
    the second has `AlwaysSignsOff` as its hypothesis, since the run `capture_reuse`
    refutes it without.

  - `CaptureTypeCorrect` adds `FitInv` (a buffer, in an entry or in a record, never
    holds more than `MaxTables` names, each of a table that exists), `CountInv` and
    `AdminInv`, and that a mask holds commands only (`MasksAreCommands`), which is a
    fact about the parsed lists.
- `TableMatchIsUnion` and `SchemaMatchIsUnion`: what `match_table` and
  `match_schema` find in the parsed rules is what some entry says, and nothing
  else, for accepted lists of any length. The argument is an induction over the
  entries read (`AddEntriesMask`): the mask of a name is the union of the masks of
  its entries so far, since `add_entry` merges duplicates. `MatchTableSays` and
  `MatchSchemaSays` go from the vectors to the three kinds of match.
- `IdsFaithfulBelowWord`: an id of the connection list is the number its digits say
  whenever that number is below the word (`IdIsRemainder`: in general it is that
  number modulo the word, since the code checks no range).
- `JsonReadsBack`, `SqlReadsBack`: for every string of bytes a reader of JSON, or the
  server under the pinned `sql_mode`, gets back what was escaped, and the JSON line
  holds no newline. The n-th escape stands in the result behind those before it
  (`PiecesInPlace`), it is one unit of the reader (`JsonEscapeIsUnit`,
  `SqlEscapeIsUnit`), and an induction from the end of the string puts the units
  together (`UnitsReadBack`). `EscapesAreReadBack` is the property of the run.
- `CommandIsFound` and `SchemaIsNamed`: `extract_command` finds the command behind
  any number of blanks, parentheses, comments and begin marks of executable
  comments, and the scan of `track_current_db` the schema behind any number of
  blanks and parentheses. The tests and loops of a scan look only at what is ahead
  of them, so the scan of a text behind another is the scan of the text, moved
  (`AtShift`, `SpanBehind`, `CommentShift`, `LeadShift`, `LeadLoopShift`,
  `CommandShift`, `NamesShift`). What is in front is `Skipped`: for every text
  behind it the loop arrives where it ends. A blank, any block comment up to its
  end mark that does not begin like an executable one, any line comment with its
  newline and a begin mark with its digits are (`BlankSkipped`, `BlockSkipped`,
  `LineSkipped`, `CodeSkipped`), and so are two of them, one behind the other
  (`SkippedBoth`): that `text` is `Skipped` until it is closed is the inductive
  invariant. A begin mark is skipped only in front of a
  text that does not begin with a digit, which would be taken for its version; the
  pieces do not, and the invariant says so (`NoDigitFirst`).
- `ListIsRead`: a list of any number of entries is read as what they mean. What is
  behind the last separator grows with every other symbol (`SplitRun`) and is
  closed by the next separator (`SplitAtSeparator`), so the pieces of a text are
  those of what is in front of it and its own; `TokensStep` and `ReadAllStep` carry
  that through `split_csv` and the reading of the entries. The inductive invariant
  (`ListText`) says that until a list is closed its text ends with a comma and the
  pieces in front of it are read as the list's meaning so far. What `Trim`,
  `ReadEntry` and `strip_ticks` make of a piece is stated for every text (`TrimIs`,
  `ReadPlain`, `ReadQualified`, `StripIs`) and then applied to the entries offered.

**Induction.** The provers cannot instantiate an induction theorem with a predicate,
so `NatSetInduction` speaks of a set of numbers (its proof takes a least
counterexample by `WFMin`), and each use defines that set. A recursive function is
first shown to exist by the same means (`LoopExists`, `LoopHasValues`, `ReadExists`);
only then its defining equation may be used.

The assumptions are those on the constants: `QueueMaxAssumption` (at least 1),
`ThresholdAssumption`, `MaxEventsAssumption`, `FileWriterAssumption` and
`PluginAssumption` (special values are not paths or threads, bounds are numbers),
`FilterEngineCheckAssumption` (the entries offered have the shape of entries) and
`WordSizeAssumption`. Of `CaptureAssumption` all proofs about `Capture` use that the
empty name is no schema's; only `CaptureTypeCorrect` uses the rest: the lists are
lists that were accepted, a buffer holds at least one name, bounds are numbers.
Nothing else there depends on which lists there are, on the size of the buffer or on
the bounds.

**Only model-checked:** liveness (`AcceptedIsHandled`, `ShutdownTerminates`,
`CallsReturn`, `UninstallReturns`), which is out of the prover's reach; and what
`mask_secrets` hides (`MaskHidesExactly`): `kw_at` looks at what is before a word as
well as behind it, and the scan behind `IDENTIFIED` runs on to a connector or a
literal, so both neighbours of a piece decide how it is read.

## 5. Not modelled

- In `SqlText`: the cut of a command word at 16 characters, of a schema name at
  191 bytes and of the `USE` scan's word buffer; letter case outside `clean_token`;
  bytes that are not ASCII, which end an unquoted schema name. Blanks around the
  dot of a list entry are not trimmed by the code and stay part of the name.
  `MaskHidesExactly` speaks of literals right behind a keyword, with backslash
  escapes or in the form `0x...`; `text_mask` has the forms documented beyond that.
- In `Capture`: what changes a session's schema without a USE or an Init DB
  (`DROP DATABASE` of the current one, COM_CHANGE_USER), which the plugin does not see.
- A table name that contains a comma: `state_add_table` joins names with commas
  and the FILE output splits them there. Names are values of their own here.
- The text and layout of rows, lines and error messages, and the guards against
  repeating messages (`last_logged_errno`, `open_failed_logged`).
- `selective_trace_mask_passwords`, which chooses between a statement's text and
  its masked form; the SHOW callbacks, which add up or copy counters.
- The result of `fflush`, which the code ignores.
- Build scripts and unit tests, which were read for what they say of the code.

## 6. Plan

What changes state is modelled, and every safety property of the state machines,
of the lists, of the escapes and of the scans for commands and schemas is proved.
Left is `MaskHidesExactly`. The command scan's argument, that a scan of one piece
followed by another is the scan of the second from where the first ends, would
have to be extended to the scans of `mask_secrets`, which look past the end of a
clause.
