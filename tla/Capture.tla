------------------------------- MODULE Capture -------------------------------
(***************************************************************************)
(* The event capture of selective_trace (selective_trace_mysql.cc): the    *)
(* audit callbacks of the statement threads, the state the plugin keeps    *)
(* per connection between them, and the system variables an administrator  *)
(* changes meanwhile.                                                      *)
(*                                                                         *)
(* A connection is a slot: the address of its THD, which the server gives  *)
(* to a later connection again.  A callback is two steps, because          *)
(* opt_enabled is read first (Raise) and filter_lock is taken later        *)
(* (Handle): SET GLOBAL may come between.                                  *)
(***************************************************************************)
EXTENDS FilterEngine, FiniteSets, Integers

CONSTANTS Slot,          \* THD addresses
          Lists,         \* values of the three filter variables
          Commands,      \* commands the clients send
          Database,      \* schemas
          ScannedWord,   \* what the scan of a USE may take for a schema
          TableName,     \* tables of a schema
          MaxTables,     \* entries that fit into StatementState.tables
          MaxSessions,   \* bound: connections
          MaxStatements, \* bound: statements in all
          MaxOpens,      \* bound: tables one statement opens
          MaxChanges,    \* bound: SET GLOBAL statements
          MaxDuration,   \* bound: milliseconds a statement takes
          AlwaysSignsOff \* every connection ends with a DISCONNECT event

NoDb    == ""
Unknown == "unknown"

ASSUME CaptureAssumption ==
  /\ NoDb \notin Database
  /\ \A l \in Lists :
       /\ l.schemas \in Seq(EntryText) /\ l.tables \in Seq(EntryText)
       /\ ParseAll(l).ok
  /\ MaxTables \in Nat \ {0}
  /\ MaxSessions \in Nat /\ MaxStatements \in Nat
  /\ MaxOpens \in Nat /\ MaxChanges \in Nat
  /\ MaxDuration \in Nat
  /\ AlwaysSignsOff \in BOOLEAN

(* The two InnoDB statistics tables, one name for both. *)
StatsTable == <<"mysql", "innodb_stats">>

Tables == (Database \X TableName) \union {StatsTable}

VARIABLES
  opt_enabled, opt_min_duration_ms,
  lists,         \* the text of the three filter variables
  active_rules,
  changes,       \* how many SET GLOBAL there were
  state_map,     \* slot -> StatementState, for the slots it has an entry of
  event,         \* slot -> the callback in flight
  \* the server
  session,       \* slot -> connection id, 0 = no connection
  stmt,          \* slot -> the command being executed
  sessions, statements,   \* how many there were
  \* history
  named,         \* slot -> what was found in its connection's commands
  schema,        \* slot -> its connection's schema, as far as events tell
  logged         \* what was handed to the output writers

adminVars  == <<opt_enabled, opt_min_duration_ms, lists, active_rules, changes>>
serverVars == <<session, stmt, sessions, statements>>
pluginVars == <<adminVars, state_map>>

vars == <<pluginVars, event, serverVars, named, schema, logged>>

(* A value-initialised StatementState. *)
FreshState ==
  [local_seq |-> 0, clock |-> 0, have_start |-> FALSE, in_statement |-> FALSE,
   cmd_mask |-> {}, tables |-> <<>>, tables_truncated |-> FALSE,
   current_db |-> NoDb]

Idle    == [kind |-> "none"]
NoEvent == [kind |-> "none"]

Init ==
  /\ opt_enabled \in BOOLEAN /\ opt_min_duration_ms \in 0..MaxDuration
  /\ changes = 0
  /\ lists \in Lists /\ active_rules = ParseAll(lists).rules
  /\ state_map = <<>>
  /\ event = [s \in Slot |-> NoEvent]
  /\ session = [s \in Slot |-> 0]
  /\ stmt = [s \in Slot |-> Idle]
  /\ sessions = 0 /\ statements = 0
  /\ named = [s \in Slot |-> {}] /\ schema = [s \in Slot |-> Unknown]
  /\ logged = {}

-----------------------------------------------------------------------------
(* The server.                                                             *)

(* A connection may come with a schema, of which no event tells. *)
Connect(s) ==
  /\ session[s] = 0 /\ sessions < MaxSessions
  /\ sessions' = sessions + 1
  /\ session' = [session EXCEPT ![s] = sessions + 1]
  /\ named' = [named EXCEPT ![s] = {}]
  /\ schema' = [schema EXCEPT ![s] = Unknown]
  /\ UNCHANGED <<pluginVars, event, stmt, statements, logged>>

(* A command arrives.  "query" and the USEs carry SQL, "Init DB" names a   *)
(* schema, "Ping" stands for the commands without SQL.  db is the schema   *)
(* that a plain USE or an Init DB names, found what track_current_db reads *)
(* out of the command: of those two, db; of a "commented use" - one with a *)
(* comment around the keyword, or a name the scan cannot read - perhaps    *)
(* the schema, perhaps a word of the comment or a part of the name,        *)
(* perhaps nothing.  The fields from opened on are history: the tables it  *)
(* opened, whether the plugin handled its GENERAL_LOG, whether it missed   *)
(* any event, and every rule set that was active meanwhile.                *)
Command(kind, cmd, db, found) ==
  [kind |-> kind, n |-> statements + 1, cmd |-> cmd, db |-> db,
   found |-> found, phase |-> "dispatched", opened |-> {}, begun |-> FALSE,
   missed |-> FALSE, seen |-> {active_rules}]

Arriving ==
  {Command("query", cmd, NoDb, NoDb) : cmd \in Commands}
    \union {Command("use", "USE", d, d) : d \in Database}
    \union {Command("commented use", "USE", NoDb, w) :
              w \in Database \union ScannedWord \union {NoDb}}
    \union {Command("Init DB", "", d, d) : d \in Database}
    \union {Command("Ping", "", NoDb, NoDb)}

Dispatch(s) ==
  /\ session[s] # 0 /\ stmt[s] = Idle
  /\ statements < MaxStatements
  /\ statements' = statements + 1
  /\ \E c \in Arriving : stmt' = [stmt EXCEPT ![s] = c]
  /\ UNCHANGED <<pluginVars, event, session, sessions, logged, named, schema>>

(* selective_trace_notify up to its test of opt_enabled: an event that     *)
(* finds it OFF is ignored.                                                *)
Raise(s, ev, next) ==
  /\ event[s] = NoEvent
  /\ event' = [event EXCEPT ![s] = IF opt_enabled THEN ev ELSE NoEvent]
  /\ stmt' = [stmt EXCEPT ![s] =
                [next EXCEPT !.missed = @ \/ ~opt_enabled]]
  /\ UNCHANGED <<pluginVars, session, sessions, statements, logged, named,
                 schema>>

(* GENERAL_LOG: the dispatch of every command. *)
RaiseLog(s) ==
  /\ stmt[s] # Idle /\ stmt[s].phase = "dispatched"
  /\ Raise(s, [kind |-> "log"], [stmt[s] EXCEPT !.phase = "running"])

(* TABLE_ACCESS: a query opens a table. *)
RaiseTable(s) ==
  /\ stmt[s] # Idle /\ stmt[s].kind = "query" /\ stmt[s].phase = "running"
  /\ Cardinality(stmt[s].opened) < MaxOpens
  /\ \E t \in Tables :
       Raise(s, [kind |-> "table", table |-> t],
             [stmt[s] EXCEPT !.opened = @ \union {t}])

(* GENERAL_STATUS: the end of every command, so long after its dispatch. *)
RaiseStatus(s) ==
  /\ stmt[s] # Idle /\ stmt[s].phase = "running"
  /\ \E ms \in 0..MaxDuration :
       Raise(s, [kind |-> "status", ms |-> ms],
             [stmt[s] EXCEPT !.phase = "ended"])

(* The command is over once its callbacks are.  named keeps what could be  *)
(* read out of it.  A USE that fails leaves the session's schema as it     *)
(* was, and the events do not tell; neither do those the plugin missed,    *)
(* nor the text of a commented USE.                                        *)
Finish(s) ==
  /\ stmt[s] # Idle /\ stmt[s].phase = "ended" /\ event[s] = NoEvent
  /\ IF stmt[s].kind \in {"use", "commented use", "Init DB"}
       THEN /\ named' = [named EXCEPT ![s] = @ \union {stmt[s].found}]
            /\ \E fails \in BOOLEAN :
                 schema' = [schema EXCEPT ![s] =
                   IF \/ fails \/ stmt[s].missed
                      \/ stmt[s].kind = "commented use"
                     THEN Unknown ELSE stmt[s].db]
       ELSE UNCHANGED <<named, schema>>
  /\ stmt' = [stmt EXCEPT ![s] = Idle]
  /\ UNCHANGED <<pluginVars, event, session, sessions, statements, logged>>

-----------------------------------------------------------------------------
(* The callbacks.                                                          *)

(* get_state: the entry of the THD, created on first use. *)
get_state(s) == IF s \in DOMAIN state_map THEN state_map[s] ELSE FreshState

PutState(s, st) ==
  state_map' = [x \in DOMAIN state_map \union {s} |->
                  IF x = s THEN st ELSE state_map[x]]

(* state_begin_statement.  clock names the command whose dispatch the      *)
(* start clock was read at.                                                *)
state_begin_statement_KeepsTables(st, with_start, n) ==
  [st EXCEPT !.local_seq = @ + 1, !.cmd_mask = {}, !.in_statement = TRUE,
             !.have_start = with_start, !.clock = IF with_start THEN n ELSE 0]

state_begin_statement_KeepsMask(st, with_start, n) ==
  [st EXCEPT !.local_seq = @ + 1, !.tables = <<>>, !.tables_truncated = FALSE,
             !.in_statement = TRUE, !.have_start = with_start,
             !.clock = IF with_start THEN n ELSE 0]

state_begin_statement_ForgetsDb(st, with_start, n) ==
  [FreshState EXCEPT !.local_seq = st.local_seq + 1,
                     !.in_statement = TRUE, !.have_start = with_start,
                     !.clock = IF with_start THEN n ELSE 0]

state_begin_statement_NoSeq(st, with_start, n) ==
  [st EXCEPT !.local_seq = IF @ = 0 THEN 1 ELSE @,
             !.cmd_mask = {}, !.tables = <<>>, !.tables_truncated = FALSE,
             !.in_statement = TRUE, !.have_start = with_start,
             !.clock = IF with_start THEN n ELSE 0]

state_begin_statement(st, with_start, n) ==
  [st EXCEPT !.local_seq = @ + 1,
             !.cmd_mask = {}, !.tables = <<>>, !.tables_truncated = FALSE,
             !.in_statement = TRUE, !.have_start = with_start,
             !.clock = IF with_start THEN n ELSE 0]

HandleLog(s) ==
  /\ event[s].kind = "log"
  /\ PutState(s, state_begin_statement(get_state(s), TRUE, stmt[s].n))
  /\ event' = [event EXCEPT ![s] = NoEvent]
  /\ stmt' = [stmt EXCEPT ![s].begun = TRUE]
  /\ UNCHANGED <<adminVars, session, sessions,
                 statements, logged, named, schema>>

is_internal_stats_table(t) == t = StatsTable

(* state_add_table: no duplicates, and no more than the buffer holds. *)
state_add_table_OffByOne(st, t) ==
  CASE t \in ToSet(st.tables)      -> st
    [] Len(st.tables) > MaxTables  -> [st EXCEPT !.tables_truncated = TRUE]
    [] OTHER                       -> [st EXCEPT !.tables = Append(@, t)]

state_add_table(st, t) ==
  CASE t \in ToSet(st.tables)        -> st
    [] Len(st.tables) >= MaxTables /\ t \notin ToSet(st.tables)
                                     -> [st EXCEPT !.tables_truncated = TRUE]
    [] OTHER                         -> [st EXCEPT !.tables = Append(@, t)]

(* handle_table_access_event *)
HandleTable(s) ==
  /\ event[s].kind = "table"
  /\ LET t  == event[s].table
         st == IF get_state(s).in_statement THEN get_state(s)
               ELSE state_begin_statement(get_state(s), FALSE, 0)
         explicit_cmds == match_table(active_rules, t[1], t[2])
         schema_cmds   == match_schema(active_rules, t[1])
     IN  IF explicit_cmds = {} /\ is_internal_stats_table(t)
           THEN PutState(s, st)
           ELSE PutState(s, [state_add_table(st, t) EXCEPT
                               !.cmd_mask = @ \union explicit_cmds
                                              \union schema_cmds])
  /\ event' = [event EXCEPT ![s] = NoEvent]
  /\ UNCHANGED <<adminVars, serverVars, logged, named, schema>>

(* track_current_db keeps what its scan (UseSchema in SqlText) found, and  *)
(* the old schema where it found nothing.  general_error_code is not       *)
(* looked at: a USE that fails is tracked like one that succeeds.          *)
track_current_db(st, command) ==
  IF command.found = NoDb THEN st
  ELSE [st EXCEPT !.current_db = command.found]

is_query_command(command) ==
  command.kind \in {"query", "use", "commented use"}

(* What the statement may be logged for: its tables' mask, and only if     *)
(* that does not do, the connection list and the session's schema.         *)
AllowedCommands_OnlyIfNoTable(st, cmd, conn_id) ==
  LET mask == IF st.in_statement THEN st.cmd_mask ELSE {}
  IN  IF mask # {} THEN mask
      ELSE IF match_connection(active_rules, conn_id) THEN CommandBits
      ELSE match_schema(active_rules, st.current_db)

AllowedCommands(st, cmd, conn_id) ==
  LET mask == IF st.in_statement THEN st.cmd_mask ELSE {}
  IN  IF cmd \in mask THEN mask
      ELSE IF match_connection(active_rules, conn_id) THEN CommandBits
      ELSE IF st.current_db = NoDb THEN mask
      ELSE mask \union match_schema(active_rules, st.current_db)

(* The label reset: the statement is closed. *)
ResetState(st) ==
  [st EXCEPT !.cmd_mask = {}, !.tables = <<>>, !.tables_truncated = FALSE,
             !.have_start = FALSE, !.in_statement = FALSE]

(* Does a rule set permit a command on a table?  One of the "bookkeeping   *)
(* side-effect tables" counts only "when explicitly filtered", and then    *)
(* like any other.                                                         *)
PermitsTable(rules, bit, t) ==
  LET explicit_cmds == match_table(rules, t[1], t[2])
  IN  \/ bit \in explicit_cmds
      \/ /\ bit \in match_schema(rules, t[1])
         /\ ~is_internal_stats_table(t) \/ explicit_cmds # {}

(* Does it permit a command on these tables, from this connection, with    *)
(* this session schema?  The filters as the documentation gives them: any  *)
(* of the three lists is enough.                                           *)
Permits(rules, command, conn_id, db) ==
  LET bit == command_bit(command.cmd)
  IN  \/ \E t \in command.opened : PermitsTable(rules, bit, t)
      \/ match_connection(rules, conn_id)
      \/ bit \in match_schema(rules, db)

(* The line or row: whose it is, and what the state says of the statement. *)
Record(s, st) ==
  [session |-> session[s], n |-> stmt[s].n, query_seq |-> st.local_seq,
   tables |-> IF st.in_statement THEN ToSet(st.tables) ELSE {},
   truncated |-> st.in_statement /\ st.tables_truncated,
   clock |-> IF st.in_statement /\ st.have_start THEN st.clock ELSE 0,
   \* history
   begun |-> stmt[s].begun, missed |-> stmt[s].missed,
   opened |-> stmt[s].opened,
   permitted |-> \E rules \in stmt[s].seen :
                   Permits(rules, stmt[s], session[s], st.current_db)]

(* The duration test: a statement without a start clock is too fast for    *)
(* every threshold.  A clock read at an earlier dispatch makes it seem     *)
(* slower than it was.                                                     *)
Durations(s, st) ==
  IF ~(st.in_statement /\ st.have_start) THEN {-1}
  ELSE IF st.clock = stmt[s].n THEN {event[s].ms}
  ELSE event[s].ms..MaxDuration

TooFast(duration_ms) ==
  /\ opt_min_duration_ms > 0
  /\ duration_ms < 0 \/ duration_ms < opt_min_duration_ms

(* handle_status_event *)
HandleStatus(s) ==
  /\ event[s].kind = "status"
  /\ event' = [event EXCEPT ![s] = NoEvent]
  /\ LET st  == track_current_db(get_state(s), stmt[s])
         bit == command_bit(stmt[s].cmd)
     IN  \/ /\ ~is_query_command(stmt[s])
            /\ PutState(s, st)
            /\ UNCHANGED logged
         \/ /\ is_query_command(stmt[s])
            /\ bit \notin AllowedCommands(st, bit, session[s])
            /\ PutState(s, ResetState(st))
            /\ UNCHANGED logged
         \/ /\ is_query_command(stmt[s])
            /\ bit \in AllowedCommands(st, bit, session[s])
            /\ PutState(s, ResetState(st))
            /\ \E duration_ms \in Durations(s, st) :
                 logged' = IF TooFast(duration_ms) THEN logged
                           ELSE logged \union {Record(s, st)}
  /\ UNCHANGED <<adminVars, serverVars, named, schema>>

(* An allocation fails while the output is put together: the exception     *)
(* leaves through notify, past the label reset.                            *)
StatusThrows(s) ==
  /\ event[s].kind = "status"
  /\ LET st  == track_current_db(get_state(s), stmt[s])
         bit == command_bit(stmt[s].cmd)
     IN  /\ is_query_command(stmt[s])
         /\ bit \in AllowedCommands(st, bit, session[s])
         /\ \E duration_ms \in Durations(s, st) : ~TooFast(duration_ms)
         /\ PutState(s, st)
  /\ event' = [event EXCEPT ![s] = NoEvent]
  /\ UNCHANGED <<adminVars, serverVars, logged,
                 named, schema>>

(* get_state cannot allocate the entry: the event is lost. *)
GetStateThrows(s) ==
  /\ event[s] # NoEvent /\ s \notin DOMAIN state_map
  /\ event' = [event EXCEPT ![s] = NoEvent]
  /\ stmt' = [stmt EXCEPT ![s].missed = TRUE]
  /\ UNCHANGED <<pluginVars, session, sessions, statements, logged,
                 named, schema>>

(* The connection ends.  Its DISCONNECT event, whatever opt_enabled says,  *)
(* makes forget_state erase the entry; a connection that is killed may     *)
(* raise none.                                                             *)
Disconnect_OnlyWhenEnabled(s) ==
  /\ session[s] # 0 /\ stmt[s] = Idle
  /\ session' = [session EXCEPT ![s] = 0]
  /\ IF opt_enabled
       THEN state_map' = [x \in DOMAIN state_map \ {s} |-> state_map[x]]
       ELSE UNCHANGED state_map
  /\ UNCHANGED <<adminVars, event, stmt, sessions,
                 statements, logged, named, schema>>

Disconnect(s) ==
  /\ session[s] # 0 /\ stmt[s] = Idle
  /\ session' = [session EXCEPT ![s] = 0]
  /\ \/ state_map' = [x \in DOMAIN state_map \ {s} |-> state_map[x]]
     \/ ~AlwaysSignsOff /\ UNCHANGED state_map
  /\ UNCHANGED <<adminVars, event, stmt, sessions,
                 statements, logged, named, schema>>

-----------------------------------------------------------------------------
(* The administrator.                                                      *)

SetEnabled ==
  /\ changes < MaxChanges /\ changes' = changes + 1
  /\ opt_enabled' = ~opt_enabled
  /\ UNCHANGED <<opt_min_duration_ms, lists, active_rules, state_map, event,
                 serverVars, logged, named, schema>>

SetMinDuration ==
  /\ changes < MaxChanges /\ changes' = changes + 1
  /\ opt_min_duration_ms' \in 0..MaxDuration \ {opt_min_duration_ms}
  /\ UNCHANGED <<opt_enabled, lists, active_rules, state_map, event,
                 serverVars, logged, named, schema>>

(* update_filter_list on one of the three variables, after its check       *)
(* accepted the value.  rebuild_rules_locked may run out of memory: the    *)
(* text is the new one, the rules are the old ones.                        *)
UpdateFilterList(l) ==
  /\ changes < MaxChanges /\ changes' = changes + 1
  /\ l # lists
  /\ \E kind \in {"schemas", "tables", "connections"} :
       l = [lists EXCEPT ![kind] = l[kind]]
  /\ lists' = l
  /\ \/ active_rules' = ParseAll(l).rules
     \/ UNCHANGED active_rules
  /\ stmt' = [s \in Slot |-> IF stmt[s] = Idle THEN Idle
                ELSE [stmt[s] EXCEPT !.seen = @ \union {active_rules'}]]
  /\ UNCHANGED <<opt_enabled, opt_min_duration_ms, state_map, event, session,
                 sessions, statements, logged, named, schema>>

-----------------------------------------------------------------------------
Next ==
  \/ \E s \in Slot :
       \/ Connect(s) \/ Dispatch(s) \/ Disconnect(s)
       \/ RaiseLog(s) \/ RaiseTable(s) \/ RaiseStatus(s) \/ Finish(s)
       \/ HandleLog(s) \/ HandleTable(s) \/ HandleStatus(s) \/ StatusThrows(s)
       \/ GetStateThrows(s)
  \/ SetEnabled \/ SetMinDuration
  \/ \E l \in Lists : UpdateFilterList(l)

Spec == Init /\ [][Next]_vars
-----------------------------------------------------------------------------
(* Properties.                                                             *)

StateType ==
  [local_seq : Nat, clock : Nat, have_start : BOOLEAN, in_statement : BOOLEAN,
   cmd_mask : SUBSET CommandBits, tables : Seq(Tables),
   tables_truncated : BOOLEAN,
   current_db : Database \union ScannedWord \union {NoDb}]

(* Type invariant: in particular the table buffer is never overrun and the *)
(* entries of the map are complete.                                        *)
TypeOK ==
  /\ opt_enabled \in BOOLEAN /\ opt_min_duration_ms \in 0..MaxDuration
  /\ lists \in Lists
  /\ DOMAIN state_map \subseteq Slot
  /\ \A s \in DOMAIN state_map :
       state_map[s] \in StateType /\ Len(state_map[s].tables) <= MaxTables
  /\ \A s \in Slot : event[s].kind \in {"none", "log", "table", "status"}
  /\ session \in [Slot -> 0..MaxSessions] /\ sessions \in 0..MaxSessions
  /\ statements \in 0..MaxStatements

(* A statement whose dispatch the plugin saw is logged with its own clock  *)
(* and with tables it opened, and with all of them when no event was       *)
(* missed and the buffer sufficed: however tracing was toggled, rules      *)
(* replaced and allocations failed before, nothing of an earlier statement *)
(* of the connection leaks into it (the resets of state_begin_statement    *)
(* and handle_status_event).                                               *)
ObservedIsExact ==
  \A r \in logged : r.begun =>
    /\ r.clock = r.n
    /\ r.tables \subseteq r.opened
    /\ ~r.missed /\ ~r.truncated =>
         r.opened \ {StatsTable} \subseteq r.tables

(* A statement whose dispatch the plugin saw is logged only if a rule set  *)
(* that was active while it ran permits it: a mask accumulated under rules *)
(* that were replaced is never carried into the next statement.            *)
ObservedIsPermitted == \A r \in logged : r.begun => r.permitted

(* No statement the filters ask for is missed: when the plugin saw all its *)
(* events, under one rule set that permits it, and it was slower than      *)
(* min_duration_ms or that is 0, handling its GENERAL_STATUS logs it.      *)
(* (TooFast lets one that took exactly min_duration_ms through as well,    *)
(* which "slower than" does not ask for.)                                  *)
PermittedIsLogged ==
  [][\A s \in Slot : HandleStatus(s) =>
       LET st == track_current_db(get_state(s), stmt[s])
       IN  /\ is_query_command(stmt[s]) /\ stmt[s].begun /\ ~stmt[s].missed
           /\ stmt[s].seen = {active_rules}
           /\ Permits(active_rules, stmt[s], session[s], st.current_db)
           /\ opt_min_duration_ms = 0 \/ event[s].ms > opt_min_duration_ms
           => Record(s, st) \in logged']_vars

(* query_seq tells apart the statements of a connection whose dispatch the *)
(* plugin saw, and follows their order.                                    *)
SeqFollowsOrder ==
  \A r1, r2 \in logged :
    /\ r1.session = r2.session
    /\ r1.begun /\ r2.begun
    /\ r1.n < r2.n
    => r1.query_seq < r2.query_seq

(* When every connection signs off, the map has entries of live            *)
(* connections only, also when tracing was off at the disconnect: nothing  *)
(* leaks, and a new connection at the same address starts from zero.       *)
NoOrphanState ==
  AlwaysSignsOff => \A s \in DOMAIN state_map : session[s] # 0

(* "Plugin enabled mid-statement (no GENERAL_LOG seen): start ad-hoc,      *)
(* without a start clock", as handle_table_access_event has it.            *)
AdHocHasNoClock == \A r \in logged : ~r.begun => r.clock = 0

(* The tracked schema "belongs to the connection": it was found in one of  *)
(* this connection's own USE or Init DB commands (track_current_db), and   *)
(* never in those of an earlier one (forget_state erases it).  Of a        *)
(* commented USE it may be no schema at all.                               *)
DbIsOwn ==
  \A s \in DOMAIN state_map :
    session[s] # 0 /\ stmt[s] = Idle =>
      state_map[s].current_db \in named[s] \union {NoDb}

(* Between statements the tracked schema is the session's own, when the    *)
(* last of its USEs was a plain one or an Init DB, succeeded and had its   *)
(* events seen: tracing that is switched, statements in between and        *)
(* exceptions do not make it stale.                                        *)
DbFollowsSession ==
  \A s \in Slot :
    session[s] # 0 /\ stmt[s] = Idle /\ schema[s] # Unknown =>
      get_state(s).current_db = schema[s]
=============================================================================
