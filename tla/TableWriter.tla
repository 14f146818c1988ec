----------------------------- MODULE TableWriter -----------------------------
(***************************************************************************)
(* The TABLE output mode of selective_trace (log_writer_table_mysql.cc and *)
(* writer_recycle_policy.h): a bounded queue filled by the statement       *)
(* threads and one background thread that drains it into the log table     *)
(* through an internal SQL connection.                                     *)
(*                                                                         *)
(* Every section under q_mutex is one action.  Between two such sections   *)
(* the writer thread works alone, one action per external call, because    *)
(* the statement threads and the thread that runs plugin deinit interleave *)
(* with it there.  An event is named by its ticket: the n-th event that    *)
(* table_writer_enqueue accepted is n.                                     *)
(***************************************************************************)
EXTENDS Naturals, Sequences, FiniteSets

CONSTANTS QueueMax,   \* QUEUE_MAX_EVENTS (10000 in the code)
          Threshold,  \* WRITER_RECONNECT_EVERY_N_INSERTS; 0 = never recycle
          MaxEvents   \* bound: calls of table_writer_enqueue in a behaviour

ASSUME QueueMaxAssumption  == QueueMax \in Nat \ {0}
ASSUME ThresholdAssumption == Threshold \in Nat
ASSUME MaxEventsAssumption == MaxEvents \in Nat

VARIABLES
  \* shared, under q_mutex
  queue_exists,    \* 0 while queue is NULL
  queue,           \* *queue, a FIFO of tickets
  thread_running, stop_requested,
  \* the thread in plugin init/deinit
  admin,           \* where table_writer_shutdown is
  \* the writer thread
  pc, batch, stopping,
  attempt,         \* run_insert: 1 = first INSERT, 2 = the one retry
  services,        \* "none", "all", or "partial" (a needed one is missing)
  thread_inited,   \* command_thread_inited
  command_h,       \* the internal connection
  since_recycle, recycles,   \* recycle_policy
  \* counters shown by SHOW STATUS
  insert_failures, dropped_events,
  \* history
  accepted,        \* events for which enqueue returned true
  refused,         \* events refused without touching any counter
  handled,         \* events the writer thread is done with
  rows,            \* tickets in the log table, in insertion order
  failed,          \* tickets counted in insert_failures
  sql_mode,        \* what the session behind command_h really runs with
  on_conn          \* inserts completed on the current connection

sharedVars == <<queue_exists, queue, thread_running, stop_requested>>
loopVars   == <<batch, stopping, handled>>
openVars   == <<services, thread_inited>>
connVars   == <<command_h, sql_mode>>
policyVars == <<since_recycle, recycles, on_conn>>
enterVars  == <<accepted, refused, dropped_events>>
failVars   == <<insert_failures, failed>>

vars == <<sharedVars, admin, pc, loopVars, attempt, openVars, connVars,
          policyVars, enterVars, failVars, rows>>

WriterPC == {"none", "start", "loop", "asleep", "next", "insert", "acquire",
             "connect", "pin", "create", "query", "recreate", "note", "exit",
             "ended"}

Init ==
  /\ queue_exists = 0 /\ queue = <<>>
  /\ thread_running = 0 /\ stop_requested = 0
  /\ admin = "down"
  /\ pc = "none" /\ batch = <<>> /\ stopping = 0 /\ attempt = 1
  /\ services = "none" /\ thread_inited = 0
  /\ command_h = "null" /\ sql_mode = "ambient"
  /\ since_recycle = 0 /\ recycles = 0 /\ on_conn = 0
  /\ insert_failures = 0 /\ dropped_events = 0
  /\ accepted = 0 /\ refused = 0 /\ handled = 0
  /\ rows = <<>> /\ failed = {}

-----------------------------------------------------------------------------
(* Statement threads.                                                      *)

(* The server holds a reference on an audit plugin while one of its        *)
(* callbacks runs, and deinit waits for the references to go: deinit frees *)
(* state_map and filter_lock without a lock on the strength of that.       *)
CallbacksMayRun == admin = "up"

(* pthread_cond_signal(&q_cond): wakes the writer if it waits. *)
Signal(at) == IF at = "asleep" THEN "loop" ELSE at

(* start_thread_locked() with its thread running: either it already was,   *)
(* or pthread_create succeeds.                                             *)
StartThreadLocked ==
  /\ thread_running' = 1
  /\ stop_requested' = IF thread_running = 1 THEN stop_requested ELSE 0

ThreadAfterStart == IF thread_running = 1 THEN pc ELSE "start"

(* table_writer_enqueue returns true: the event gets the next ticket. *)
EnqueueAccepts_NoSignal ==
  /\ queue_exists = 1
  /\ StartThreadLocked
  /\ Len(queue) < QueueMax
  /\ queue' = Append(queue, accepted + 1)
  /\ accepted' = accepted + 1
  /\ pc' = ThreadAfterStart
  /\ UNCHANGED <<queue_exists, refused, dropped_events>>

EnqueueAccepts_OffByOne ==
  /\ queue_exists = 1
  /\ StartThreadLocked
  /\ Len(queue) <= QueueMax
  /\ queue' = Append(queue, accepted + 1)
  /\ accepted' = accepted + 1
  /\ pc' = Signal(ThreadAfterStart)
  /\ UNCHANGED <<queue_exists, refused, dropped_events>>

EnqueueAccepts ==
  /\ queue_exists = 1
  /\ StartThreadLocked
  /\ Len(queue) < QueueMax
  /\ queue' = Append(queue, accepted + 1)
  /\ accepted' = accepted + 1
  /\ pc' = Signal(ThreadAfterStart)
  /\ UNCHANGED <<queue_exists, refused, dropped_events>>

(* The queue is full, or push_back throws bad_alloc: counted as dropped. *)
EnqueueDrops ==
  /\ queue_exists = 1
  /\ StartThreadLocked
  /\ dropped_events' = dropped_events + 1
  /\ pc' = ThreadAfterStart
  /\ UNCHANGED <<queue_exists, queue, accepted, refused>>

(* No queue (its allocation failed), or pthread_create fails: enqueue      *)
(* returns false and no counter moves.                                     *)
EnqueueRefuses ==
  /\ \/ queue_exists = 0 /\ UNCHANGED stop_requested
     \/ queue_exists = 1 /\ thread_running = 0 /\ stop_requested' = 0
  /\ refused' = refused + 1
  /\ UNCHANGED <<queue_exists, queue, thread_running, pc, accepted,
                 dropped_events>>

Enqueue ==
  /\ CallbacksMayRun
  /\ accepted + dropped_events + refused < MaxEvents
  /\ EnqueueAccepts \/ EnqueueDrops \/ EnqueueRefuses
  /\ UNCHANGED <<admin, loopVars, attempt, openVars, connVars, policyVars,
                 failVars, rows>>

-----------------------------------------------------------------------------
(* Plugin init and deinit.                                                 *)

(* The queue may be left NULL: its allocation is nothrow. *)
TableWriterInit ==
  /\ admin = "down"
  /\ admin' = "up"
  /\ queue_exists' \in {0, 1}
  /\ UNCHANGED <<queue, thread_running, stop_requested, pc, loopVars,
                 attempt, openVars, connVars, policyVars, enterVars,
                 failVars, rows>>

(* First section of table_writer_shutdown. *)
ShutdownRequestsStop_NoSignal ==
  /\ admin = "up"
  /\ IF thread_running = 1
       THEN admin' = "join" /\ stop_requested' = 1 /\ UNCHANGED pc
       ELSE admin' = "free" /\ UNCHANGED <<stop_requested, pc>>
  /\ UNCHANGED <<queue_exists, queue, thread_running, loopVars, attempt,
                 openVars, connVars, policyVars, enterVars, failVars, rows>>

ShutdownRequestsStop_NoJoin ==
  /\ admin = "up"
  /\ admin' = "free"
  /\ IF thread_running = 1
       THEN stop_requested' = 1 /\ pc' = Signal(pc)
       ELSE UNCHANGED <<stop_requested, pc>>
  /\ UNCHANGED <<queue_exists, queue, thread_running, loopVars, attempt,
                 openVars, connVars, policyVars, enterVars, failVars, rows>>

ShutdownRequestsStop ==
  /\ admin = "up"
  /\ IF thread_running = 1
       THEN admin' = "join" /\ stop_requested' = 1 /\ pc' = Signal(pc)
       ELSE admin' = "free" /\ UNCHANGED <<stop_requested, pc>>
  /\ UNCHANGED <<queue_exists, queue, thread_running, loopVars, attempt,
                 openVars, connVars, policyVars, enterVars, failVars, rows>>

(* pthread_join. *)
ShutdownJoins ==
  /\ admin = "join" /\ pc = "ended"
  /\ admin' = "free" /\ pc' = "none"
  /\ UNCHANGED <<sharedVars, loopVars, attempt, openVars, connVars,
                 policyVars, enterVars, failVars, rows>>

(* Last section: the queue goes, with whatever is still in it. *)
ShutdownFrees ==
  /\ admin = "free"
  /\ admin' = "down"
  /\ thread_running' = 0
  /\ queue_exists' = 0 /\ queue' = <<>>
  /\ UNCHANGED <<stop_requested, pc, loopVars, attempt, openVars, connVars,
                 policyVars, enterVars, failVars, rows>>

-----------------------------------------------------------------------------
(* The writer thread.                                                      *)

(* Entry of writer_thread_func: recycle_policy.note_connection_reset(). *)
WriterStarts ==
  /\ pc = "start"
  /\ pc' = "loop"
  /\ since_recycle' = 0
  /\ UNCHANGED <<sharedVars, admin, loopVars, attempt, openVars, connVars,
                 recycles, on_conn, enterVars, failVars, rows>>

(* The section at the head of the loop: wait while there is nothing to do. *)
WriterWaits ==
  /\ pc = "loop" /\ queue_exists = 1
  /\ queue = <<>> /\ stop_requested = 0
  /\ pc' = "asleep"
  /\ UNCHANGED <<sharedVars, admin, loopVars, attempt, openVars, connVars,
                 policyVars, enterVars, failVars, rows>>

(* pthread_cond_wait may return without a signal. *)
SpuriousWakeup ==
  /\ pc = "asleep"
  /\ pc' = "loop"
  /\ UNCHANGED <<sharedVars, admin, loopVars, attempt, openVars, connVars,
                 policyVars, enterVars, failVars, rows>>

(* The swap of batch and queue; stop_requested is read in the same section. *)
WriterTakesBatch_KeepsQueue ==
  /\ pc = "loop" /\ queue_exists = 1
  /\ queue # <<>> \/ stop_requested = 1
  /\ batch' = queue
  /\ stopping' = stop_requested
  /\ pc' = "next"
  /\ UNCHANGED <<sharedVars, admin, handled, attempt, openVars,
                 connVars, policyVars, enterVars, failVars, rows>>

WriterTakesBatch ==
  /\ pc = "loop" /\ queue_exists = 1
  /\ queue # <<>> \/ stop_requested = 1
  /\ batch' = queue /\ queue' = <<>>
  /\ stopping' = stop_requested
  /\ pc' = "next"
  /\ UNCHANGED <<queue_exists, thread_running, stop_requested, admin,
                 handled, attempt, openVars, connVars, policyVars, enterVars,
                 failVars, rows>>

(* Head of the for loop over the batch, and the test that ends the thread. *)
WriterNextInBatch_StopsEarly ==
  /\ pc = "next"
  /\ pc' = CASE stop_requested = 1 -> "exit"
             [] stop_requested = 0 /\ batch # <<>> -> "insert"
             [] OTHER -> "loop"
  /\ attempt' = 1
  /\ UNCHANGED <<sharedVars, admin, loopVars, openVars, connVars,
                 policyVars, enterVars, failVars, rows>>

WriterNextInBatch ==
  /\ pc = "next"
  /\ pc' = CASE batch # <<>> -> "insert"
             [] batch = <<>> /\ stopping = 1 -> "exit"
             [] OTHER -> "loop"
  /\ attempt' = 1
  /\ UNCHANGED <<sharedVars, admin, loopVars, openVars, connVars,
                 policyVars, enterVars, failVars, rows>>

(* insert_failures++ and back to the loop: every failing path of           *)
(* run_insert ends here.                                                   *)
FailInsert ==
  /\ insert_failures' = insert_failures + 1
  /\ failed' = failed \union {handled + 1}
  /\ pc' = "note"

(* run_insert calls ensure_conn, which is done if there is a connection. *)
RunInsert ==
  /\ pc = "insert"
  /\ pc' = IF command_h = "open" THEN "query" ELSE "acquire"
  /\ UNCHANGED <<sharedVars, admin, loopVars, attempt, openVars, connVars,
                 policyVars, enterVars, failVars, rows>>

(* The catch (...) around run_insert.  The command services handle their   *)
(* own exceptions, so nothing is thrown between two of their calls.        *)
RunInsertThrows ==
  /\ pc = "insert"
  /\ FailInsert
  /\ UNCHANGED <<sharedVars, admin, loopVars, attempt, openVars, connVars,
                 policyVars, enterVars, rows>>

(* acquire_services: the registry may be unavailable (tried again next     *)
(* time), or a needed service may be missing (remembered until the thread  *)
(* ends).                                                                  *)
AcquireServices ==
  /\ pc = "acquire"
  /\ services' \in IF services = "none" THEN {"none", "partial", "all"}
                                        ELSE {services}
  /\ IF services' = "all"
       THEN pc' = "connect" /\ UNCHANGED failVars
       ELSE FailInsert
  /\ UNCHANGED <<sharedVars, admin, loopVars, attempt, thread_inited,
                 connVars, policyVars, enterVars, rows>>

(* com_thread->init, com_factory->init and connect.  A failure of the last *)
(* closes the handle again.                                                *)
ConnectFails ==
  /\ pc = "connect"
  /\ thread_inited' \in {thread_inited, 1}
  /\ FailInsert
  /\ UNCHANGED <<sharedVars, admin, loopVars, attempt, services, connVars,
                 policyVars, enterVars, rows>>

Connect ==
  /\ pc = "connect"
  /\ thread_inited' = 1
  /\ command_h' = "open" /\ sql_mode' = "ambient" /\ on_conn' = 0
  /\ pc' = "pin"
  /\ UNCHANGED <<sharedVars, admin, loopVars, attempt, services,
                 since_recycle, recycles, enterVars, failVars, rows>>

(* close_conn() *)
CloseConn ==
  /\ command_h' = "null" /\ sql_mode' = "ambient"
  /\ on_conn' = 0

(* SET SESSION sql_mode='': a failure closes the connection and fails the  *)
(* insert.                                                                 *)
PinSqlMode_FailureOnlyLogged ==
  /\ pc = "pin"
  /\ sql_mode' \in {"ambient", "pinned"}
  /\ pc' = "create"
  /\ UNCHANGED <<sharedVars, admin, loopVars, attempt, openVars, command_h,
                 policyVars, enterVars, failVars, rows>>

PinSqlMode ==
  /\ pc = "pin"
  /\ \/ /\ sql_mode' = "pinned" /\ pc' = "create"
        /\ UNCHANGED <<command_h, on_conn, failVars>>
     \/ CloseConn /\ FailInsert
  /\ UNCHANGED <<sharedVars, admin, loopVars, attempt, openVars,
                 since_recycle, recycles, enterVars, rows>>

(* CREATE TABLE IF NOT EXISTS, whose failure is only logged: in            *)
(* ensure_conn, and again in run_insert when the table went missing.       *)
CreateLogTable ==
  /\ pc \in {"create", "recreate"}
  /\ attempt' = IF pc = "recreate" THEN 2 ELSE attempt
  /\ pc' = "query"
  /\ UNCHANGED <<sharedVars, admin, loopVars, openVars, connVars,
                 policyVars, enterVars, failVars, rows>>

(* The INSERT succeeds. *)
InsertSucceeds ==
  /\ pc = "query"
  /\ rows' = Append(rows, handled + 1)
  /\ pc' = "note"
  /\ UNCHANGED <<sharedVars, admin, loopVars, attempt, openVars, connVars,
                 policyVars, enterVars, failVars>>

(* The first INSERT fails because the table or schema went missing         *)
(* (1146, 1049).                                                           *)
InsertFindsNoTable ==
  /\ pc = "query" /\ attempt = 1
  /\ pc' = "recreate"
  /\ UNCHANGED <<sharedVars, admin, loopVars, attempt, openVars, connVars,
                 policyVars, enterVars, failVars, rows>>

(* The connection is gone (2006, 2013).  A connection lost during the      *)
(* query says nothing of the row: it may have been stored.                 *)
RowMayBeStored ==
  \/ UNCHANGED rows
  \/ rows' = Append(rows, handled + 1)

InsertLosesConnection_RetriesForever ==
  /\ pc = "query"
  /\ RowMayBeStored
  /\ CloseConn
  /\ since_recycle' = 0
  /\ attempt' = attempt + 1
  /\ pc' = "acquire"
  /\ UNCHANGED <<sharedVars, admin, loopVars, openVars, recycles, enterVars,
                 failVars>>

InsertLosesConnection ==
  /\ pc = "query" /\ attempt = 1
  /\ RowMayBeStored
  /\ CloseConn
  /\ since_recycle' = 0
  /\ attempt' = 2
  /\ pc' = "acquire"
  /\ UNCHANGED <<sharedVars, admin, loopVars, openVars, recycles, enterVars,
                 failVars>>

(* Any other error, or any error of the retry (a lost connection           *)
(* included): the connection stays as it is.                               *)
InsertFails_Uncounted ==
  /\ pc = "query"
  /\ IF attempt = 2 THEN RowMayBeStored ELSE UNCHANGED rows
  /\ pc' = "note"
  /\ UNCHANGED <<sharedVars, admin, loopVars, attempt, openVars, connVars,
                 policyVars, enterVars, failVars>>

InsertFails ==
  /\ pc = "query"
  /\ IF attempt = 2 THEN RowMayBeStored ELSE UNCHANGED rows
  /\ FailInsert
  /\ UNCHANGED <<sharedVars, admin, loopVars, attempt, openVars, connVars,
                 policyVars, enterVars>>

(* recycle_policy.note_insert(), and close_conn() when it returns true. *)
NoteInsert_OffByOne ==
  /\ pc = "note"
  /\ IF Threshold # 0 /\ since_recycle + 1 > Threshold
       THEN since_recycle' = 0 /\ recycles' = recycles + 1 /\ CloseConn
       ELSE /\ since_recycle' = IF Threshold = 0 THEN since_recycle
                                                 ELSE since_recycle + 1
            /\ on_conn' = IF command_h = "open" THEN on_conn + 1 ELSE 0
            /\ UNCHANGED <<recycles, connVars>>
  /\ batch' = Tail(batch) /\ handled' = handled + 1
  /\ pc' = "next"
  /\ UNCHANGED <<sharedVars, admin, stopping, attempt, openVars, enterVars,
                 failVars, rows>>

NoteInsert ==
  /\ pc = "note"
  /\ IF Threshold # 0 /\ since_recycle + 1 >= Threshold
       THEN since_recycle' = 0 /\ recycles' = recycles + 1 /\ CloseConn
       ELSE /\ since_recycle' = IF Threshold = 0 THEN since_recycle
                                                 ELSE since_recycle + 1
            /\ on_conn' = IF command_h = "open" THEN on_conn + 1 ELSE 0
            /\ UNCHANGED <<recycles, connVars>>
  /\ batch' = Tail(batch) /\ handled' = handled + 1
  /\ pc' = "next"
  /\ UNCHANGED <<sharedVars, admin, stopping, attempt, openVars, enterVars,
                 failVars, rows>>

(* After the loop: close_conn, com_thread->end, release_services. *)
WriterExits_KeepsServices ==
  /\ pc = "exit"
  /\ CloseConn
  /\ thread_inited' = 0
  /\ pc' = "ended"
  /\ UNCHANGED <<sharedVars, admin, loopVars, attempt, services,
                 since_recycle, recycles, enterVars, failVars, rows>>

WriterExits ==
  /\ pc = "exit"
  /\ CloseConn
  /\ thread_inited' = 0 /\ services' = "none"
  /\ pc' = "ended"
  /\ UNCHANGED <<sharedVars, admin, loopVars, attempt, since_recycle,
                 recycles, enterVars, failVars, rows>>

-----------------------------------------------------------------------------
Shutdown == ShutdownJoins \/ ShutdownFrees

(* Everything run_insert does for one event. *)
InsertStep ==
  \/ RunInsert \/ RunInsertThrows
  \/ AcquireServices \/ ConnectFails \/ Connect \/ PinSqlMode
  \/ CreateLogTable
  \/ InsertSucceeds \/ InsertFindsNoTable \/ InsertLosesConnection
  \/ InsertFails

WriterStep ==
  \/ WriterStarts \/ WriterWaits \/ WriterTakesBatch \/ WriterNextInBatch
  \/ InsertStep \/ NoteInsert \/ WriterExits

Next ==
  \/ Enqueue
  \/ TableWriterInit \/ ShutdownRequestsStop \/ Shutdown
  \/ WriterStep \/ SpuriousWakeup

Spec == Init /\ [][Next]_vars

(* The operating system runs the writer thread and the thread in deinit,   *)
(* and every call into the server returns.  Nothing makes a client send a  *)
(* statement or an administrator install or remove the plugin.             *)
FairSpec == Spec /\ WF_vars(WriterStep) /\ WF_vars(Shutdown)

-----------------------------------------------------------------------------
(* Properties.                                                             *)

Bit == {0, 1}

(* Type invariant. *)
TypeOK ==
  /\ queue_exists \in Bit /\ thread_running \in Bit /\ stop_requested \in Bit
  /\ queue \in Seq(Nat) /\ batch \in Seq(Nat)
  /\ admin \in {"down", "up", "join", "free"}
  /\ pc \in WriterPC /\ stopping \in Bit /\ attempt \in {1, 2}
  /\ services \in {"none", "partial", "all"} /\ thread_inited \in Bit
  /\ command_h \in {"null", "open"} /\ sql_mode \in {"ambient", "pinned"}
  /\ since_recycle \in Nat /\ recycles \in Nat /\ on_conn \in Nat
  /\ insert_failures \in Nat /\ dropped_events \in Nat
  /\ accepted \in Nat /\ refused \in Nat /\ handled \in Nat
  /\ rows \in Seq(Nat) /\ failed \in SUBSET Nat

(* The writer thread has taken an event out of the queue and is not done   *)
(* with it.                                                                *)
Inserting == {"insert", "acquire", "connect", "pin", "create", "query",
              "recreate", "note"}

(* Where the three kinds of thread stand with respect to each other: which *)
(* of them may find the queue NULL, and what a stop that was requested     *)
(* says of the queue and the batch.  start_thread_locked, the loop of      *)
(* writer_thread_func and the three parts of table_writer_shutdown keep it *)
(* together.                                                               *)
Control ==
  /\ thread_running = 1 => queue_exists = 1
  /\ admin = "down" => thread_running = 0 /\ queue_exists = 0
  /\ admin = "join" => thread_running = 1 /\ stop_requested = 1
  /\ admin = "free" => pc = "none"
  /\ pc # "none" => thread_running = 1
  /\ pc # "none" /\ stop_requested = 1 => admin = "join"
  /\ thread_running = 1 /\ admin # "free" => pc # "none"
  /\ pc = "none" => queue = <<>>
  /\ pc \in Inserting => batch # <<>>
  /\ pc \notin Inserting \union {"next"} => batch = <<>>
  /\ pc \in {"exit", "ended"} => stopping = 1
  /\ stopping = 1 /\ pc \in Inserting \union {"next", "exit", "ended"} =>
       stop_requested = 1 /\ queue = <<>>

(* Conservation, in order: what table_writer_enqueue accepted is what the  *)
(* writer is done with, then the rest of its batch, then the queue, each   *)
(* event once and in the order of acceptance (the swap under q_mutex and   *)
(* the loop over the batch lose, repeat and reorder nothing).              *)
QueueConservation ==
  /\ handled + Len(batch) + Len(queue) = accepted
  /\ \A i \in 1..Len(batch) : batch[i] = handled + i
  /\ \A i \in 1..Len(queue) : queue[i] = handled + Len(batch) + i

(* At most QUEUE_MAX_EVENTS events wait in the queue and as many in the    *)
(* batch: the memory the writer holds is bounded by twice the constant.    *)
PendingBounded ==
  /\ Len(queue) <= QueueMax
  /\ accepted - handled <= 2 * QueueMax

(* Every event the writer is done with is in the log table or was counted  *)
(* in insert_failures, and the counter counts each such event once.        *)
EveryEventAccounted ==
  /\ \A t \in 1..handled : t \in failed \/ \E i \in DOMAIN rows : rows[i] = t
  /\ Cardinality(failed) = insert_failures

(* Rows are stored in the order of acceptance, and the one retry of        *)
(* run_insert can store an event twice but never three times.              *)
RowsInOrder ==
  /\ \A i, j \in DOMAIN rows : i < j => rows[i] <= rows[j]
  /\ \A i \in DOMAIN rows : i + 2 \in DOMAIN rows => rows[i] < rows[i + 2]

(* No INSERT runs on a session whose sql_mode was not set: the escaping of *)
(* sql_escape_append is only sound there ("Refuse to insert rather than    *)
(* insert unsafely").                                                      *)
InsertOnlyWhenPinned ==
  pc \in {"query", "recreate"} => command_h = "open" /\ sql_mode = "pinned"

(* No connection accumulates more than the threshold of inserts, however   *)
(* inserts fail and connections drop ("The property that actually bounds   *)
(* RSS").                                                                  *)
ConnectionBounded ==
  Threshold > 0 => on_conn < Threshold /\ since_recycle < Threshold

(* The queue is only ever NULL while there is no writer thread to          *)
(* dereference it.                                                         *)
NoThreadWithoutQueue == queue_exists = 0 => pc = "none"

(* table_writer_is_self: as long as a writer thread exists, thread_running *)
(* lets notify recognise it, during shutdown too, so its own INSERTs are   *)
(* never traced.                                                           *)
WriterRecognised == pc # "none" => thread_running = 1

(* A writer thread that is gone has closed its connection, ended its       *)
(* session thread and released the services.                               *)
NothingHeldAfterExit ==
  pc \in {"none", "start", "ended"} =>
    command_h = "null" /\ services = "none" /\ thread_inited = 0

(* table_writer_shutdown frees the queue only once everything accepted has *)
(* been handled: a graceful UNINSTALL loses no event.                      *)
ShutdownDrains ==
  [][queue_exists = 1 /\ queue_exists' = 0 => handled = accepted]_vars
=============================================================================
