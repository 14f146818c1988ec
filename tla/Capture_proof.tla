---------------------------- MODULE Capture_proof ----------------------------
(***************************************************************************)
(* Proofs about Capture, for every set of connections, filter lists,       *)
(* commands, schemas and tables, and every size of the table buffer.       *)
(*                                                                         *)
(* TypeInv gives the shapes.  StepInv says which events a command can have *)
(* in flight at which point.  EntryInv and MaskInv relate a connection's   *)
(* entry in state_map to the command it is executing, SeqInv to what was   *)
(* logged of the connection, DbInv and NamedInv to the connection's        *)
(* schema.                                                                 *)
(***************************************************************************)
EXTENDS Capture, FilterEngine_proof

RuleSets == {ParseAll(l).rules : l \in Lists}

(* The commands a rule set can contribute to a mask. *)
RuleMasks(r, t) == match_table(r, t[1], t[2]) \union match_schema(r, t[1])

Masks == UNION {RuleMasks(r, t) : r \in RuleSets, t \in Tables}

(* What track_current_db can find. *)
Scanned == Database \union ScannedWord \union {NoDb}

EntryType ==
  [local_seq : Nat, clock : Nat, have_start : BOOLEAN, in_statement : BOOLEAN,
   cmd_mask : SUBSET Masks, tables : Seq(Tables), tables_truncated : BOOLEAN,
   current_db : Scanned]

(* Of a commented USE alone the scan may find what the command did not name. *)
FoundRight(c) ==
  /\ c.kind \in {"use", "Init DB"} => c.found = c.db /\ c.db # NoDb
  /\ c.kind \in {"query", "Ping"} => c.found = NoDb

CommandType ==
  {c \in [kind : {"query", "use", "commented use", "Init DB", "Ping"}, n : Nat,
          cmd : Commands \union {"USE", ""}, db : Database \union {NoDb},
          found : Scanned, phase : {"dispatched", "running", "ended"},
          opened : SUBSET Tables, begun : BOOLEAN, missed : BOOLEAN,
          seen : SUBSET RuleSets] : FoundRight(c)}

EventType ==
  [kind : {"none"}] \union [kind : {"log"}]
    \union [kind : {"table"}, table : Tables]
    \union [kind : {"status"}, ms : 0..MaxDuration]

TypeInv ==
  /\ active_rules \in RuleSets
  /\ DOMAIN state_map \subseteq Slot
  /\ \A s \in Slot : get_state(s) \in EntryType
  /\ event \in [Slot -> EventType]
  /\ session \in [Slot -> Nat] /\ sessions \in Nat
  /\ stmt \in [Slot -> {Idle} \union CommandType]
  /\ statements \in Nat
  /\ named \in [Slot -> SUBSET Scanned]
  /\ schema \in [Slot -> Database \union {NoDb, Unknown}]

Executing(s) == stmt[s] # Idle

(* What a command can be in the middle of. *)
StepAt(s) ==
  /\ ~Executing(s) => event[s] = NoEvent
  /\ Executing(s) =>
       /\ session[s] # 0 /\ active_rules \in stmt[s].seen
       /\ stmt[s].n <= statements
       /\ stmt[s].phase = "dispatched" => event[s] = NoEvent
       /\ stmt[s].phase = "dispatched" \/ event[s].kind = "log" =>
            ~stmt[s].begun /\ stmt[s].opened = {}
       /\ event[s].kind = "table" =>
            stmt[s].phase = "running" /\ event[s].table \in stmt[s].opened
       /\ stmt[s].phase = "ended" => event[s].kind \in {"none", "status"}
       /\ event[s].kind = "status" => stmt[s].phase = "ended"

StepInv == \A s \in Slot : StepAt(s)

(* Connections are told apart by their ids. *)
SessionInv ==
  /\ \A s \in Slot : session[s] <= sessions
  /\ \A s, u \in Slot : session[s] = session[u] /\ session[s] # 0 => s = u

(* The entry is that of a command whose dispatch was seen and whose end    *)
(* was not handled.                                                        *)
Open(s) ==
  /\ Executing(s) /\ stmt[s].begun
  /\ stmt[s].phase # "ended" \/ event[s].kind = "status"

InFlight(s) == IF event[s].kind = "table" THEN {event[s].table} ELSE {}

(* A command of the mask is one a rule set seen permits on an open table.  *)
Justified(mask, seen, opened) ==
  \A bit \in mask : \E rules \in seen, t \in opened :
    PermitsTable(rules, bit, t)

EntryOf(s, st) ==
  /\ st.in_statement /\ st.have_start /\ st.clock = stmt[s].n
  /\ ToSet(st.tables) \subseteq stmt[s].opened
  /\ ~stmt[s].missed /\ ~st.tables_truncated =>
       stmt[s].opened \ {StatsTable} \subseteq ToSet(st.tables) \union InFlight(s)
  /\ Justified(st.cmd_mask, stmt[s].seen, stmt[s].opened)

EntryAt(s) == Open(s) => EntryOf(s, get_state(s))

EntryInv == \A s \in Slot : EntryAt(s)

(* Under one rule set, every command it permits on an open table is in the *)
(* mask.                                                                   *)
Complete(mask, seen, opened) ==
  \A rules \in seen, bit \in CommandBits, t \in opened :
    seen = {rules} /\ PermitsTable(rules, bit, t) => bit \in mask

MaskAt(s) ==
  Open(s) /\ ~stmt[s].missed =>
    Complete(get_state(s).cmd_mask, stmt[s].seen,
             stmt[s].opened \ InFlight(s))

MaskInv == \A s \in Slot : MaskAt(s)

LogType ==
  \A r \in logged : r.session \in Nat /\ r.n \in Nat /\ r.query_seq \in Nat

(* What was logged of the connection is of earlier commands, or of the one *)
(* being executed, and has lower numbers than that one's entry.            *)
SeqFor(s, r) ==
  session[s] # 0 /\ r.session = session[s] =>
    /\ Executing(s) => r.n <= stmt[s].n
    /\ r.begun => r.query_seq <= get_state(s).local_seq
    /\ r.begun /\ Open(s) /\ r.n < stmt[s].n =>
         r.query_seq < get_state(s).local_seq

SeqInv ==
  /\ LogType
  /\ \A r \in logged : r.session <= sessions /\ r.n <= statements
  /\ SeqFollowsOrder
  /\ \A s \in Slot : \A r \in logged : SeqFor(s, r)

(* A USE or Init DB whose GENERAL_STATUS was raised. *)
Ending(s) ==
  /\ Executing(s) /\ stmt[s].kind \in {"use", "commented use", "Init DB"}
  /\ stmt[s].phase = "ended"

DbAt(s) ==
  session[s] # 0 =>
    /\ schema[s] # Unknown /\ ~Ending(s) =>
         get_state(s).current_db = schema[s]
    /\ /\ Ending(s) /\ stmt[s].kind # "commented use"
       /\ event[s] = NoEvent /\ ~stmt[s].missed
       => get_state(s).current_db = stmt[s].db

DbInv == \A s \in Slot : DbAt(s)

(* No entry without a connection, and no schema not found in its commands. *)
NamedAt(s) ==
  /\ session[s] = 0 => s \notin DOMAIN state_map
  /\ \/ get_state(s).current_db \in named[s] \union {NoDb}
     \/ Ending(s) /\ get_state(s).current_db = stmt[s].found

NamedInv == \A s \in Slot : NamedAt(s)

-----------------------------------------------------------------------------
(* What the operations on an entry do.                                     *)

(* A value-initialised entry is well-typed. *)
LEMMA FreshStateType == FreshState \in EntryType
BY DEF FreshState, EntryType, Scanned

(* Writing an entry leaves the others as they are. *)
LEMMA PutStateEffect ==
  ASSUME NEW s \in Slot, NEW st, PutState(s, st)
  PROVE  /\ DOMAIN state_map' = DOMAIN state_map \union {s}
         /\ get_state(s)' = st
         /\ \A u \in Slot \ {s} :
              /\ get_state(u)' = get_state(u)
              /\ u \in DOMAIN state_map' <=> u \in DOMAIN state_map
BY DEF PutState, get_state

(* state_begin_statement: all but the schema starts anew. *)
LEMMA BeginEffect ==
  ASSUME NEW st \in EntryType, NEW with_start \in BOOLEAN, NEW n \in Nat
  PROVE  LET b == state_begin_statement(st, with_start, n)
         IN  /\ b \in EntryType
             /\ b.local_seq = st.local_seq + 1
             /\ b.cmd_mask = {} /\ b.tables = <<>> /\ b.tables_truncated = FALSE
             /\ b.in_statement = TRUE /\ b.have_start = with_start
             /\ with_start => b.clock = n
             /\ b.current_db = st.current_db
<1> DEFINE c == IF with_start THEN n ELSE 0
<1>1. <<>> \in Seq(Tables) /\ {} \in SUBSET Masks
  OBVIOUS
<1>2. c \in Nat /\ (with_start => c = n)
  OBVIOUS
<1>3. state_begin_statement(st, with_start, n) =
        [st EXCEPT !.local_seq = @ + 1,
                   !.cmd_mask = {}, !.tables = <<>>, !.tables_truncated = FALSE,
                   !.in_statement = TRUE, !.have_start = with_start,
                   !.clock = c]
  BY DEF state_begin_statement
<1> HIDE DEF c
<1> DEFINE b == state_begin_statement(st, with_start, n)
<1>4. b \in EntryType
  <2>1. st.local_seq + 1 \in Nat
    BY DEF EntryType
  <2>2. [st EXCEPT !.local_seq = @ + 1, !.clock = c, !.have_start = with_start]
          \in EntryType
    BY <1>2, <2>1 DEF EntryType
  <2>3. QED
    BY <1>1, <1>3, <2>2 DEF EntryType
<1>5. /\ b.local_seq = st.local_seq + 1
      /\ b.cmd_mask = {} /\ b.tables = <<>> /\ b.clock = c
      /\ b.current_db = st.current_db
  BY <1>3 DEF EntryType
<1>6. b.tables_truncated = FALSE /\ b.in_statement = TRUE
  BY <1>3 DEF EntryType
<1>7. b.have_start = with_start
  BY <1>3 DEF EntryType
<1>8. QED
  BY <1>2, <1>4, <1>5, <1>6, <1>7

(* The label reset keeps the sequence number and the schema. *)
LEMMA ResetEffect ==
  ASSUME NEW st \in EntryType
  PROVE  /\ ResetState(st) \in EntryType
         /\ ResetState(st).local_seq = st.local_seq
         /\ ResetState(st).current_db = st.current_db
<1>1. <<>> \in Seq(Tables) /\ {} \in SUBSET Masks
  OBVIOUS
<1>2. QED
  BY <1>1 DEF ResetState, EntryType

(* track_current_db changes the schema only. *)
LEMMA TrackEffect ==
  ASSUME NEW st \in EntryType, NEW command \in CommandType
  PROVE  LET tr == track_current_db(st, command)
         IN  /\ tr \in EntryType
             /\ tr.local_seq = st.local_seq
             /\ tr.in_statement = st.in_statement
             /\ tr.have_start = st.have_start /\ tr.clock = st.clock
             /\ tr.cmd_mask = st.cmd_mask /\ tr.tables = st.tables
             /\ tr.tables_truncated = st.tables_truncated
             /\ command.found # NoDb => tr.current_db = command.found
             /\ command.found = NoDb => tr.current_db = st.current_db
             /\ command.kind \in {"use", "Init DB"} =>
                  command.found # NoDb /\ command.found = command.db
             /\ command.kind \in {"query", "Ping"} => command.found = NoDb
             /\ command.kind \in {"query", "use", "commented use", "Init DB",
                                 "Ping"}
BY DEF track_current_db, EntryType, CommandType, FoundRight

(* The elements of an extended sequence. *)
LEMMA ToSetAppend ==
  ASSUME NEW S, NEW q \in Seq(S), NEW e \in S
  PROVE  ToSet(Append(q, e)) = ToSet(q) \union {e}
<1>1. /\ DOMAIN Append(q, e) = 1..(Len(q) + 1) /\ DOMAIN q = 1..Len(q)
      /\ Len(q) \in Nat
  OBVIOUS
<1>2. /\ \A i \in 1..Len(q) : Append(q, e)[i] = q[i]
      /\ Append(q, e)[Len(q) + 1] = e
  OBVIOUS
<1>3. QED
  BY <1>1, <1>2 DEF ToSet

(* The elements of the empty one. *)
LEMMA ToSetEmpty == ToSet(<<>>) = {}
BY DEF ToSet

(* state_add_table: the table is added, or the truncation noted. *)
LEMMA AddTableEffect ==
  ASSUME NEW st \in EntryType, NEW t \in Tables
  PROVE  LET a == state_add_table(st, t)
         IN  /\ a \in EntryType
             /\ a.local_seq = st.local_seq
             /\ a.in_statement = st.in_statement
             /\ a.have_start = st.have_start /\ a.clock = st.clock
             /\ a.cmd_mask = st.cmd_mask /\ a.current_db = st.current_db
             /\ ToSet(a.tables) \subseteq ToSet(st.tables) \union {t}
             /\ ToSet(st.tables) \subseteq ToSet(a.tables)
             /\ a.tables_truncated = FALSE =>
                  st.tables_truncated = FALSE /\ t \in ToSet(a.tables)
<1>1. CASE t \in ToSet(st.tables)
  BY <1>1 DEF state_add_table, EntryType
<1>2. CASE t \notin ToSet(st.tables) /\ Len(st.tables) >= MaxTables
  BY <1>2 DEF state_add_table, EntryType
<1>3. CASE t \notin ToSet(st.tables) /\ ~(Len(st.tables) >= MaxTables)
  <2>1. state_add_table(st, t) = [st EXCEPT !.tables = Append(@, t)]
    BY <1>3 DEF state_add_table
  <2>2. ToSet(Append(st.tables, t)) = ToSet(st.tables) \union {t}
    BY ToSetAppend DEF EntryType
  <2>3. st.tables \in Seq(Tables) /\ Append(st.tables, t) \in Seq(Tables)
    BY DEF EntryType
  <2>4. QED
    BY <2>1, <2>2, <2>3 DEF EntryType
<1>4. QED
  BY <1>1, <1>2, <1>3

-----------------------------------------------------------------------------
(* What a step does to the connection it is of, and leaves of the others.  *)

SlotStep(s) ==
  \/ Connect(s) \/ Dispatch(s) \/ Disconnect(s)
  \/ RaiseLog(s) \/ RaiseTable(s) \/ RaiseStatus(s) \/ Finish(s)
  \/ HandleLog(s) \/ HandleTable(s) \/ HandleStatus(s) \/ StatusThrows(s)
  \/ GetStateThrows(s)

SameAt(u) ==
  /\ event'[u] = event[u] /\ stmt'[u] = stmt[u] /\ session'[u] = session[u]
  /\ named'[u] = named[u] /\ schema'[u] = schema[u]
  /\ get_state(u)' = get_state(u)
  /\ u \in DOMAIN state_map' <=> u \in DOMAIN state_map

(* A Command is no Idle. *)
LEMMA CommandNotIdle == \A c \in CommandType : c # Idle
<1> TAKE c \in CommandType
<1>1. c.kind # "none"
  BY DEF CommandType, FoundRight
<1>2. Idle.kind = "none"
  BY DEF Idle
<1>3. QED
  BY <1>1, <1>2

(* What the kind of an event says of it. *)
LEMMA EventKinds ==
  /\ NoEvent \in EventType
  /\ \A e \in EventType :
       /\ e.kind \in {"none", "log", "table", "status"}
       /\ e.kind = "none" <=> e = NoEvent
       /\ e.kind = "table" => e.table \in Tables
       /\ e.kind = "status" => e.ms \in 0..MaxDuration
BY DEF EventType, NoEvent

(* The commands a client can send. *)
LEMMA DispatchEffect ==
  ASSUME TypeInv, NEW s \in Slot, Dispatch(s)
  PROVE  /\ session[s] # 0 /\ stmt[s] = Idle /\ statements' = statements + 1
         /\ stmt'[s] \in CommandType
         /\ stmt'[s].n = statements + 1 /\ stmt'[s].phase = "dispatched"
         /\ stmt'[s].opened = {} /\ stmt'[s].begun = FALSE
         /\ stmt'[s].missed = FALSE /\ stmt'[s].seen = {active_rules}
<1>1. active_rules \in RuleSets /\ statements \in Nat
  BY DEF TypeInv
<1>2. {active_rules} \in SUBSET RuleSets /\ {} \in SUBSET Tables
  BY <1>1
<1>3. statements + 1 \in Nat
  BY <1>1
<1>4. PICK c \in Arriving : stmt' = [stmt EXCEPT ![s] = c]
  BY DEF Dispatch
<1>5. PICK kind \in {"query", "use", "commented use", "Init DB", "Ping"},
           cmd \in Commands \union {"USE", ""}, db \in Database \union {NoDb},
           found \in Scanned :
        /\ c = Command(kind, cmd, db, found)
        /\ kind \in {"use", "Init DB"} => found = db /\ db # NoDb
        /\ kind \in {"query", "Ping"} => found = NoDb
  <2>1. CASE \E cmd \in Commands : c = Command("query", cmd, NoDb, NoDb)
    BY <2>1 DEF Scanned
  <2>2. CASE \E d \in Database : \/ c = Command("use", "USE", d, d)
                                \/ c = Command("Init DB", "", d, d)
    BY <2>2, CaptureAssumption DEF Scanned
  <2>3. CASE \E w \in Scanned : c = Command("commented use", "USE", NoDb, w)
    BY <2>3
  <2>4. CASE c = Command("Ping", "", NoDb, NoDb)
    BY <2>4 DEF Scanned
  <2>5. QED
    BY <1>4, <2>1, <2>2, <2>3, <2>4 DEF Arriving, Scanned
<1>6. stmt'[s] = Command(kind, cmd, db, found)
  BY <1>4, <1>5 DEF TypeInv
<1>7. Command(kind, cmd, db, found) \in CommandType
  BY <1>2, <1>3, <1>5 DEF Command, CommandType, FoundRight
<1>8. /\ Command(kind, cmd, db, found).n = statements + 1
      /\ Command(kind, cmd, db, found).phase = "dispatched"
      /\ Command(kind, cmd, db, found).opened = {}
      /\ Command(kind, cmd, db, found).begun = FALSE
      /\ Command(kind, cmd, db, found).missed = FALSE
      /\ Command(kind, cmd, db, found).seen = {active_rules}
  BY DEF Command
<1>9. session[s] # 0 /\ stmt[s] = Idle /\ statements' = statements + 1
  BY DEF Dispatch
<1>10. QED
  BY <1>6, <1>7, <1>8, <1>9

(* Raise hands on the event, or the command has missed it. *)
LEMMA RaiseEffect ==
  ASSUME TypeInv, NEW s \in Slot, NEW ev, NEW next \in CommandType,
         Raise(s, ev, next)
  PROVE  /\ event[s] = NoEvent
         /\ event'[s] = ev \/ event'[s] = NoEvent
         /\ stmt'[s] \in CommandType
         /\ stmt'[s].kind = next.kind /\ stmt'[s].n = next.n
         /\ stmt'[s].cmd = next.cmd /\ stmt'[s].db = next.db
         /\ stmt'[s].found = next.found
         /\ stmt'[s].phase = next.phase /\ stmt'[s].opened = next.opened
         /\ stmt'[s].begun = next.begun /\ stmt'[s].seen = next.seen
         /\ ~stmt'[s].missed => event'[s] = ev /\ ~next.missed
<1> DEFINE m == next.missed \/ ~opt_enabled
<1>1. stmt'[s] = [next EXCEPT !.missed = m]
  BY DEF Raise, TypeInv
<1>2. m \in BOOLEAN
  BY Zenon
<1>3. event[s] = NoEvent /\ event'[s] = (IF opt_enabled THEN ev ELSE NoEvent)
  BY DEF Raise, TypeInv
<1>4. ~m => opt_enabled /\ ~next.missed
  OBVIOUS
<1> HIDE DEF m
<1>5. stmt'[s] \in CommandType /\ stmt'[s].missed = m
  BY <1>1, <1>2 DEF CommandType, FoundRight
<1>6. /\ stmt'[s].kind = next.kind /\ stmt'[s].n = next.n
      /\ stmt'[s].cmd = next.cmd /\ stmt'[s].db = next.db
      /\ stmt'[s].found = next.found
      /\ stmt'[s].phase = next.phase /\ stmt'[s].opened = next.opened
      /\ stmt'[s].begun = next.begun /\ stmt'[s].seen = next.seen
  BY <1>1 DEF CommandType, FoundRight
<1>7. QED
  BY <1>3, <1>4, <1>5, <1>6

(* The administrator's variables are not touched. *)
LEMMA SlotStepAdmin ==
  ASSUME NEW s \in Slot, SlotStep(s)
  PROVE  UNCHANGED adminVars
BY DEF SlotStep, Connect, Dispatch, Disconnect, RaiseLog, RaiseTable,
       RaiseStatus, Raise, Finish, HandleLog, HandleTable, HandleStatus,
       StatusThrows, GetStateThrows, pluginVars

(* A callback works on the entry of its own connection. *)
LEMMA SlotStepEntry ==
  ASSUME NEW s \in Slot, SlotStep(s)
  PROVE  \/ UNCHANGED state_map
         \/ \E st : PutState(s, st)
         \/ state_map' = [x \in DOMAIN state_map \ {s} |-> state_map[x]]
<1>1. CASE \/ Connect(s) \/ Dispatch(s) \/ RaiseLog(s) \/ RaiseTable(s)
           \/ RaiseStatus(s) \/ Finish(s) \/ GetStateThrows(s)
  BY <1>1 DEF Connect, Dispatch, RaiseLog, RaiseTable, RaiseStatus, Raise,
              Finish, GetStateThrows, pluginVars
<1>2. CASE Disconnect(s)
  BY <1>2 DEF Disconnect
<1>3. CASE HandleLog(s) \/ HandleTable(s) \/ HandleStatus(s) \/ StatusThrows(s)
  <2>1. CASE HandleLog(s)
    BY <2>1 DEF HandleLog
  <2>2. CASE HandleTable(s)
    BY <2>2 DEF HandleTable
  <2>3. CASE HandleStatus(s)
    BY <2>3 DEF HandleStatus
  <2>4. CASE StatusThrows(s)
    BY <2>4 DEF StatusThrows
  <2>5. QED
    BY <1>3, <2>1, <2>2, <2>3, <2>4
<1>4. QED
  BY <1>1, <1>2, <1>3 DEF SlotStep

(* A step writes the fields of its own connection only. *)
LEMMA SlotStepShape ==
  ASSUME NEW s \in Slot, SlotStep(s)
  PROVE  /\ event' = event \/ \E x : event' = [event EXCEPT ![s] = x]
         /\ stmt' = stmt \/ \E x : stmt' = [stmt EXCEPT ![s] = x]
         /\ session' = session \/ \E x : session' = [session EXCEPT ![s] = x]
         /\ named' = named \/ \E x : named' = [named EXCEPT ![s] = x]
         /\ schema' = schema \/ \E x : schema' = [schema EXCEPT ![s] = x]
<1>1. CASE \/ Connect(s) \/ Dispatch(s) \/ RaiseLog(s) \/ RaiseTable(s)
           \/ RaiseStatus(s) \/ GetStateThrows(s) \/ Disconnect(s)
  BY <1>1 DEF Connect, Dispatch, RaiseLog, RaiseTable, RaiseStatus, Raise,
              GetStateThrows, Disconnect
<1>2. CASE HandleLog(s) \/ HandleTable(s) \/ HandleStatus(s) \/ StatusThrows(s)
  BY <1>2 DEF HandleLog, HandleTable, HandleStatus, StatusThrows, serverVars
<1>3. CASE Finish(s)
  BY <1>3 DEF Finish
<1>4. QED
  BY <1>1, <1>2, <1>3 DEF SlotStep

(* The other connections are left alone. *)
LEMMA SlotStepOthers ==
  ASSUME TypeInv, NEW s \in Slot, SlotStep(s), NEW u \in Slot, u # s
  PROVE  SameAt(u)
<1>1. /\ event \in [Slot -> EventType]
      /\ stmt \in [Slot -> {Idle} \union CommandType]
      /\ session \in [Slot -> Nat]
      /\ named \in [Slot -> SUBSET Scanned]
      /\ schema \in [Slot -> Database \union {NoDb, Unknown}]
  BY DEF TypeInv
<1>2. /\ event'[u] = event[u] /\ stmt'[u] = stmt[u] /\ session'[u] = session[u]
      /\ named'[u] = named[u] /\ schema'[u] = schema[u]
  BY <1>1, SlotStepShape
<1>3. /\ get_state(u)' = get_state(u)
      /\ u \in DOMAIN state_map' <=> u \in DOMAIN state_map
  <2>1. CASE UNCHANGED state_map
    BY <2>1 DEF get_state
  <2>2. CASE \E st : PutState(s, st)
    BY <2>2, PutStateEffect
  <2>3. CASE state_map' = [x \in DOMAIN state_map \ {s} |-> state_map[x]]
    BY <2>3 DEF get_state
  <2>4. QED
    BY <2>1, <2>2, <2>3, SlotStepEntry
<1>4. QED
  BY <1>1, <1>2, <1>3 DEF SameAt

(* A field of a command that a step replaces is the only one that changes. *)
LEMMA CommandFields ==
  ASSUME NEW c \in CommandType
  PROVE  /\ \A p \in {"dispatched", "running", "ended"} :
              LET d == [c EXCEPT !.phase = p]
              IN  /\ d \in CommandType /\ d.phase = p
                  /\ d.kind = c.kind /\ d.n = c.n /\ d.cmd = c.cmd
                  /\ d.db = c.db /\ d.found = c.found
                  /\ d.opened = c.opened /\ d.begun = c.begun
                  /\ d.missed = c.missed /\ d.seen = c.seen
         /\ \A t \in Tables :
              LET d == [c EXCEPT !.opened = @ \union {t}]
              IN  /\ d \in CommandType /\ d.opened = c.opened \union {t}
                  /\ d.kind = c.kind /\ d.n = c.n /\ d.cmd = c.cmd
                  /\ d.db = c.db /\ d.found = c.found
                  /\ d.phase = c.phase /\ d.begun = c.begun
                  /\ d.missed = c.missed /\ d.seen = c.seen
<1>1. ASSUME NEW p \in {"dispatched", "running", "ended"}
      PROVE  LET d == [c EXCEPT !.phase = p]
             IN  /\ d \in CommandType /\ d.phase = p
                 /\ d.kind = c.kind /\ d.n = c.n /\ d.cmd = c.cmd
                 /\ d.db = c.db /\ d.found = c.found
                 /\ d.opened = c.opened /\ d.begun = c.begun
                 /\ d.missed = c.missed /\ d.seen = c.seen
  BY DEF CommandType, FoundRight
<1>2. ASSUME NEW t \in Tables
      PROVE  LET d == [c EXCEPT !.opened = @ \union {t}]
             IN  /\ d \in CommandType /\ d.opened = c.opened \union {t}
                 /\ d.kind = c.kind /\ d.n = c.n /\ d.cmd = c.cmd
                 /\ d.db = c.db /\ d.found = c.found
                 /\ d.phase = c.phase /\ d.begun = c.begun
                 /\ d.missed = c.missed /\ d.seen = c.seen
  <2>1. c.opened \union {t} \in SUBSET Tables
    BY DEF CommandType, FoundRight
  <2>2. QED
    BY <2>1 DEF CommandType, FoundRight
<1>3. QED
  BY <1>1, <1>2

(* What no event changes: the command and what the plugin knows. *)
Raised(s) ==
  /\ event[s] = NoEvent /\ stmt[s] \in CommandType /\ stmt'[s] \in CommandType
  /\ stmt'[s].kind = stmt[s].kind /\ stmt'[s].n = stmt[s].n
  /\ stmt'[s].cmd = stmt[s].cmd /\ stmt'[s].db = stmt[s].db
  /\ stmt'[s].found = stmt[s].found
  /\ stmt'[s].begun = stmt[s].begun /\ stmt'[s].seen = stmt[s].seen
  /\ ~stmt'[s].missed => ~stmt[s].missed /\ event'[s] # NoEvent
  /\ UNCHANGED <<state_map, session, sessions, statements, logged, named,
                 schema>>

(* GENERAL_LOG is raised. *)
LEMMA RaiseLogEffect ==
  ASSUME TypeInv, NEW s \in Slot, RaiseLog(s)
  PROVE  /\ Raised(s)
         /\ stmt[s].phase = "dispatched" /\ stmt'[s].phase = "running"
         /\ stmt'[s].opened = stmt[s].opened
         /\ event'[s] \in EventType /\ event'[s].kind \in {"none", "log"}
<1> DEFINE next == [stmt[s] EXCEPT !.phase = "running"]
           ev == [kind |-> "log"]
<1>1. stmt[s] \in CommandType /\ stmt[s].phase = "dispatched"
  BY DEF RaiseLog, TypeInv
<1>2. /\ next \in CommandType /\ next.phase = "running"
      /\ next.kind = stmt[s].kind /\ next.n = stmt[s].n
      /\ next.cmd = stmt[s].cmd /\ next.db = stmt[s].db
      /\ next.found = stmt[s].found
      /\ next.opened = stmt[s].opened /\ next.begun = stmt[s].begun
      /\ next.missed = stmt[s].missed /\ next.seen = stmt[s].seen
  BY <1>1, CommandFields
<1>3. ev \in EventType /\ ev.kind = "log" /\ ev # NoEvent
      /\ NoEvent \in EventType /\ NoEvent.kind = "none"
  BY DEF EventType, NoEvent
<1>4. /\ Raise(s, ev, next)
      /\ UNCHANGED <<state_map, session, sessions, statements, logged, named,
                     schema>>
  BY DEF RaiseLog, Raise, pluginVars
<1> HIDE DEF next, ev
<1>5. QED
  BY <1>1, <1>2, <1>3, <1>4, RaiseEffect DEF Raised

(* TABLE_ACCESS is raised. *)
LEMMA RaiseTableEffect ==
  ASSUME TypeInv, NEW s \in Slot, RaiseTable(s)
  PROVE  /\ Raised(s) /\ stmt[s].kind = "query"
         /\ stmt[s].phase = "running" /\ stmt'[s].phase = "running"
         /\ event'[s] \in EventType /\ event'[s].kind \in {"none", "table"}
         /\ \E t \in Tables :
              /\ stmt'[s].opened = stmt[s].opened \union {t}
              /\ event'[s].kind = "table" => event'[s].table = t
<1>1. /\ stmt[s] \in CommandType /\ stmt[s].phase = "running"
      /\ stmt[s].kind = "query"
  BY DEF RaiseTable, TypeInv
<1>2. PICK t \in Tables :
        Raise(s, [kind |-> "table", table |-> t],
              [stmt[s] EXCEPT !.opened = @ \union {t}])
  BY DEF RaiseTable
<1> DEFINE next == [stmt[s] EXCEPT !.opened = @ \union {t}]
           ev == [kind |-> "table", table |-> t]
<1>3. /\ next \in CommandType /\ next.opened = stmt[s].opened \union {t}
      /\ next.kind = stmt[s].kind /\ next.n = stmt[s].n
      /\ next.cmd = stmt[s].cmd /\ next.db = stmt[s].db
      /\ next.found = stmt[s].found
      /\ next.phase = stmt[s].phase /\ next.begun = stmt[s].begun
      /\ next.missed = stmt[s].missed /\ next.seen = stmt[s].seen
  BY <1>1, CommandFields
<1>4. ev \in EventType /\ ev.kind = "table" /\ ev.table = t
      /\ NoEvent \in EventType /\ NoEvent.kind = "none"
  BY DEF EventType, NoEvent
<1>5. /\ Raise(s, ev, next)
      /\ UNCHANGED <<state_map, session, sessions, statements, logged, named,
                     schema>>
  BY <1>2 DEF Raise, pluginVars
<1> HIDE DEF next, ev
<1>6. QED
  BY <1>1, <1>3, <1>4, <1>5, RaiseEffect DEF Raised

(* GENERAL_STATUS is raised. *)
LEMMA RaiseStatusEffect ==
  ASSUME TypeInv, NEW s \in Slot, RaiseStatus(s)
  PROVE  /\ Raised(s)
         /\ stmt[s].phase = "running" /\ stmt'[s].phase = "ended"
         /\ stmt'[s].opened = stmt[s].opened
         /\ event'[s] \in EventType /\ event'[s].kind \in {"none", "status"}
<1>1. stmt[s] \in CommandType /\ stmt[s].phase = "running"
  BY DEF RaiseStatus, TypeInv
<1>2. PICK ms \in 0..MaxDuration :
        Raise(s, [kind |-> "status", ms |-> ms],
              [stmt[s] EXCEPT !.phase = "ended"])
  BY DEF RaiseStatus
<1> DEFINE next == [stmt[s] EXCEPT !.phase = "ended"]
           ev == [kind |-> "status", ms |-> ms]
<1>3. /\ next \in CommandType /\ next.phase = "ended"
      /\ next.kind = stmt[s].kind /\ next.n = stmt[s].n
      /\ next.cmd = stmt[s].cmd /\ next.db = stmt[s].db
      /\ next.found = stmt[s].found
      /\ next.opened = stmt[s].opened /\ next.begun = stmt[s].begun
      /\ next.missed = stmt[s].missed /\ next.seen = stmt[s].seen
  BY <1>1, CommandFields
<1>4. ev \in EventType /\ ev.kind = "status"
      /\ NoEvent \in EventType /\ NoEvent.kind = "none"
  BY DEF EventType, NoEvent
<1>5. /\ Raise(s, ev, next)
      /\ UNCHANGED <<state_map, session, sessions, statements, logged, named,
                     schema>>
  BY <1>2 DEF Raise, pluginVars
<1> HIDE DEF next, ev
<1>6. QED
  BY <1>1, <1>3, <1>4, <1>5, RaiseEffect DEF Raised

(* A callback is of a command. *)
LEMMA InCallback ==
  ASSUME TypeInv, StepInv, NEW s \in Slot, event[s] # NoEvent
  PROVE  /\ stmt[s] \in CommandType /\ Executing(s) /\ session[s] # 0
         /\ StepAt(s) /\ event[s] \in EventType
BY DEF TypeInv, StepInv, StepAt, Executing

(* GENERAL_LOG is handled: the entry is that of the command. *)
LEMMA HandleLogEffect ==
  ASSUME TypeInv, StepInv, NEW s \in Slot, HandleLog(s)
  PROVE  /\ event[s].kind = "log" /\ event'[s] = NoEvent
         /\ stmt[s] \in CommandType /\ stmt'[s] \in CommandType
         /\ stmt'[s] = [stmt[s] EXCEPT !.begun = TRUE]
         /\ DOMAIN state_map' = DOMAIN state_map \union {s}
         /\ LET st == get_state(s)'
            IN  /\ st \in EntryType
                /\ st.local_seq = get_state(s).local_seq + 1
                /\ st.cmd_mask = {} /\ st.tables = <<>>
                /\ st.tables_truncated = FALSE /\ st.in_statement = TRUE
                /\ st.have_start = TRUE /\ st.clock = stmt[s].n
                /\ st.current_db = get_state(s).current_db
         /\ UNCHANGED <<session, sessions, statements, logged, named, schema>>
<1>1. event[s].kind = "log" /\ event[s] # NoEvent
  BY DEF HandleLog, NoEvent
<1>2. stmt[s] \in CommandType /\ get_state(s) \in EntryType /\ stmt[s].n \in Nat
  BY <1>1, InCallback DEF TypeInv, CommandType, FoundRight
<1>3. event'[s] = NoEvent /\ stmt'[s] = [stmt[s] EXCEPT !.begun = TRUE]
  BY DEF HandleLog, TypeInv
<1>4. [stmt[s] EXCEPT !.begun = TRUE] \in CommandType
  BY <1>2 DEF CommandType, FoundRight
<1>5. /\ DOMAIN state_map' = DOMAIN state_map \union {s}
      /\ get_state(s)' = state_begin_statement(get_state(s), TRUE, stmt[s].n)
  BY PutStateEffect DEF HandleLog
<1>6. UNCHANGED <<session, sessions, statements, logged, named, schema>>
  BY DEF HandleLog
<1> DEFINE st == get_state(s)'
<1>7. /\ st \in EntryType
      /\ st.local_seq = get_state(s).local_seq + 1
      /\ st.cmd_mask = {} /\ st.tables = <<>>
      /\ st.tables_truncated = FALSE /\ st.in_statement = TRUE
      /\ st.have_start = TRUE /\ st.clock = stmt[s].n
      /\ st.current_db = get_state(s).current_db
  <2> DEFINE s0 == get_state(s)
             n == stmt[s].n
             yes == TRUE
  <2>1. yes \in BOOLEAN /\ yes = TRUE /\ s0 \in EntryType /\ n \in Nat
    BY <1>2
  <2>2. st = state_begin_statement(s0, yes, n)
    BY <1>5
  <2> HIDE DEF st, s0, n, yes
  <2>3. /\ st \in EntryType
        /\ st.local_seq = s0.local_seq + 1
        /\ st.cmd_mask = {} /\ st.tables = <<>>
        /\ st.tables_truncated = FALSE /\ st.in_statement = TRUE
        /\ st.have_start = yes /\ (yes => st.clock = n)
        /\ st.current_db = s0.current_db
    BY <2>1, <2>2, BeginEffect
  <2>4. QED
    BY <2>1, <2>3 DEF s0, n
<1> HIDE DEF st
<1>8. QED
  BY <1>1, <1>2, <1>3, <1>4, <1>5, <1>6, <1>7 DEF st

(* What a TABLE_ACCESS adds to the entry of a statement. *)
Added(st0, st1, t) ==
  /\ st1.local_seq = st0.local_seq
  /\ st1.in_statement = st0.in_statement /\ st1.have_start = st0.have_start
  /\ st1.clock = st0.clock /\ st1.current_db = st0.current_db
  /\ ToSet(st1.tables) \subseteq ToSet(st0.tables) \union {t}
  /\ ToSet(st0.tables) \subseteq ToSet(st1.tables)
  /\ ~st1.tables_truncated =>
       ~st0.tables_truncated /\ (t \in ToSet(st1.tables) \/ t = StatsTable)
  /\ \A bit \in st1.cmd_mask :
       bit \in st0.cmd_mask \/ PermitsTable(active_rules, bit, t)
  /\ st0.cmd_mask \subseteq st1.cmd_mask
  /\ \A bit : PermitsTable(active_rules, bit, t) => bit \in st1.cmd_mask

(* Storing the table and its mask. *)
LEMMA MaskEffect ==
  ASSUME NEW st \in EntryType, NEW t \in Tables, NEW cmds \in SUBSET Masks,
         \A bit : bit \in cmds <=> PermitsTable(active_rules, bit, t)
  PROVE  LET a == [state_add_table(st, t) EXCEPT !.cmd_mask = @ \union cmds]
         IN  a \in EntryType /\ Added(st, a, t)
<1> DEFINE b == state_add_table(st, t)
           a == [b EXCEPT !.cmd_mask = @ \union cmds]
<1>1. /\ b \in EntryType
      /\ b.local_seq = st.local_seq
      /\ b.in_statement = st.in_statement
      /\ b.have_start = st.have_start /\ b.clock = st.clock
      /\ b.cmd_mask = st.cmd_mask /\ b.current_db = st.current_db
      /\ ToSet(b.tables) \subseteq ToSet(st.tables) \union {t}
      /\ ToSet(st.tables) \subseteq ToSet(b.tables)
      /\ b.tables_truncated = FALSE =>
           st.tables_truncated = FALSE /\ t \in ToSet(b.tables)
  BY AddTableEffect
<1> HIDE DEF b
<1>2. b.cmd_mask \union cmds \in SUBSET Masks
  BY <1>1 DEF EntryType
<1>3. a \in EntryType /\ a.cmd_mask = b.cmd_mask \union cmds
  BY <1>1, <1>2 DEF EntryType
<1>4. /\ a.local_seq = b.local_seq /\ a.in_statement = b.in_statement
      /\ a.have_start = b.have_start /\ a.clock = b.clock
      /\ a.current_db = b.current_db /\ a.tables = b.tables
      /\ a.tables_truncated = b.tables_truncated
  BY <1>1 DEF EntryType
<1>5. a.tables_truncated \in BOOLEAN /\ st.tables_truncated \in BOOLEAN
  BY <1>3 DEF EntryType
<1> HIDE DEF a
<1>6. Added(st, a, t)
  BY <1>1, <1>3, <1>4, <1>5 DEF Added
<1>7. QED
  BY <1>3, <1>6 DEF a, b

(* What a rule set says of a table is among the masks. *)
LEMMA RuleMask ==
  ASSUME NEW r \in RuleSets, NEW t \in Tables
  PROVE  match_table(r, t[1], t[2]) \union match_schema(r, t[1])
           \in SUBSET Masks
<1>1. RuleMasks(r, t) \in SUBSET Masks
  BY DEF Masks
<1>2. QED
  BY <1>1 DEF RuleMasks

(* TABLE_ACCESS is handled: the table is added to an open statement. *)
LEMMA HandleTableEffect ==
  ASSUME TypeInv, StepInv, NEW s \in Slot, HandleTable(s)
  PROVE  /\ event[s].kind = "table" /\ event'[s] = NoEvent
         /\ stmt[s] \in CommandType /\ event[s].table \in Tables
         /\ DOMAIN state_map' = DOMAIN state_map \union {s}
         /\ get_state(s)' \in EntryType
         /\ get_state(s)'.current_db = get_state(s).current_db
         /\ get_state(s)'.local_seq >= get_state(s).local_seq
         /\ get_state(s).in_statement =>
              Added(get_state(s), get_state(s)', event[s].table)
         /\ UNCHANGED <<stmt, session, sessions, statements, logged, named,
                        schema>>
<1> DEFINE t  == event[s].table
           s0 == get_state(s)
           st == IF s0.in_statement THEN s0
                 ELSE state_begin_statement(s0, FALSE, 0)
           explicit_cmds == match_table(active_rules, t[1], t[2])
           schema_cmds   == match_schema(active_rules, t[1])
           cmds == explicit_cmds \union schema_cmds
           a == [state_add_table(st, t) EXCEPT !.cmd_mask = @ \union cmds]
<1>1. event[s].kind = "table" /\ event[s] # NoEvent
  BY DEF HandleTable, NoEvent
<1>2. /\ stmt[s] \in CommandType /\ t \in Tables /\ s0 \in EntryType
      /\ active_rules \in RuleSets
  BY <1>1, InCallback, EventKinds DEF TypeInv
<1>3. event'[s] = NoEvent
      /\ UNCHANGED <<stmt, session, sessions, statements, logged, named, schema>>
  BY DEF HandleTable, serverVars, TypeInv
<1>4. /\ st \in EntryType /\ st.current_db = s0.current_db
      /\ st.local_seq >= s0.local_seq
      /\ s0.in_statement => st = s0
  <2>1. CASE s0.in_statement
    BY <1>2, <2>1 DEF EntryType
  <2>2. CASE ~s0.in_statement
    <3>1. FALSE \in BOOLEAN /\ 0 \in Nat
      OBVIOUS
    <3>2. st = state_begin_statement(s0, FALSE, 0)
      BY <2>2
    <3>3. s0.local_seq \in Nat
      BY <1>2 DEF EntryType
    <3> HIDE DEF s0, st
    <3>4. /\ st \in EntryType /\ st.current_db = s0.current_db
          /\ st.local_seq = s0.local_seq + 1
      BY <1>2, <3>1, <3>2, BeginEffect
    <3>5. QED
      BY <2>2, <3>3, <3>4
  <2>3. QED
    BY <2>1, <2>2
<1>5. cmds \in SUBSET Masks
  BY <1>2, RuleMask
<1>6. /\ \/ explicit_cmds = {} /\ t = StatsTable /\ PutState(s, st)
         \/ /\ ~(explicit_cmds = {} /\ t = StatsTable)
            /\ PutState(s, [state_add_table(st, t) EXCEPT
                              !.cmd_mask = @ \union explicit_cmds
                                             \union schema_cmds])
  BY DEF HandleTable, is_internal_stats_table
<1> HIDE DEF st, s0, t, explicit_cmds, schema_cmds
<1>7. CASE explicit_cmds = {} /\ t = StatsTable /\ PutState(s, st)
  <2>1. DOMAIN state_map' = DOMAIN state_map \union {s} /\ get_state(s)' = st
    BY <1>7, PutStateEffect
  <2>2. s0.in_statement => Added(s0, st, t)
    <3>1. \A bit : ~PermitsTable(active_rules, bit, t)
      BY <1>7 DEF PermitsTable, is_internal_stats_table, explicit_cmds
    <3>2. QED
      BY <1>2, <1>4, <1>7, <3>1 DEF Added
  <2>3. QED
    BY <1>1, <1>2, <1>3, <1>4, <2>1, <2>2 DEF s0, t
<1>8. CASE /\ ~(explicit_cmds = {} /\ t = StatsTable)
           /\ PutState(s, [state_add_table(st, t) EXCEPT
                             !.cmd_mask = @ \union explicit_cmds
                                            \union schema_cmds])
  <2>1. a = [state_add_table(st, t) EXCEPT !.cmd_mask = @ \union explicit_cmds
                                                          \union schema_cmds]
    <3>1. \A x : x \union cmds = x \union explicit_cmds \union schema_cmds
      OBVIOUS
    <3>2. QED
      BY <3>1
  <2>2. \A bit : bit \in cmds <=> PermitsTable(active_rules, bit, t)
    BY <1>8 DEF PermitsTable, is_internal_stats_table, explicit_cmds,
                schema_cmds
  <2>3. a \in EntryType /\ Added(st, a, t)
    BY <1>2, <1>4, <1>5, <2>2, MaskEffect
  <2>4. DOMAIN state_map' = DOMAIN state_map \union {s} /\ get_state(s)' = a
    BY <1>8, <2>1, PutStateEffect
  <2>5. a.current_db = s0.current_db /\ a.local_seq >= s0.local_seq
    BY <1>4, <2>3 DEF Added
  <2>6. QED
    BY <1>1, <1>2, <1>3, <1>4, <2>3, <2>4, <2>5 DEF s0, t
<1>9. QED
  BY <1>6, <1>7, <1>8

(* The entry as track_current_db leaves it. *)
Tracked(s) == track_current_db(get_state(s), stmt[s])

(* GENERAL_STATUS is handled, or throws: the entry keeps its sequence      *)
(* number and takes the schema of a USE or Init DB.                        *)
LEMMA StatusEffect ==
  ASSUME TypeInv, StepInv, NEW s \in Slot, HandleStatus(s) \/ StatusThrows(s)
  PROVE  /\ event[s].kind = "status" /\ event'[s] = NoEvent
         /\ stmt[s] \in CommandType
         /\ DOMAIN state_map' = DOMAIN state_map \union {s}
         /\ get_state(s)' \in EntryType
         /\ get_state(s)'.local_seq = get_state(s).local_seq
         /\ get_state(s)'.current_db = Tracked(s).current_db
         /\ \/ logged' = logged
            \/ /\ command_bit(stmt[s].cmd) \in
                    AllowedCommands(Tracked(s), command_bit(stmt[s].cmd),
                                    session[s])
               /\ logged' = logged \union {Record(s, Tracked(s))}
         /\ UNCHANGED <<stmt, session, sessions, statements, named, schema>>
<1> DEFINE st  == Tracked(s)
           bit == command_bit(stmt[s].cmd)
<1>1. event[s].kind = "status" /\ event[s] # NoEvent
  BY DEF HandleStatus, StatusThrows, NoEvent
<1>2. stmt[s] \in CommandType /\ get_state(s) \in EntryType
  BY <1>1, InCallback DEF TypeInv
<1>3. /\ event'[s] = NoEvent
      /\ UNCHANGED <<stmt, session, sessions, statements, named, schema>>
  BY DEF HandleStatus, StatusThrows, serverVars, TypeInv
<1>4. st \in EntryType /\ st.local_seq = get_state(s).local_seq
  <2> HIDE DEF st
  <2>1. st = track_current_db(get_state(s), stmt[s])
    BY DEF st, Tracked
  <2>2. QED
    BY <1>2, <2>1, TrackEffect
<1>5. /\ PutState(s, st) \/ PutState(s, ResetState(st))
      /\ \/ logged' = logged
         \/ /\ bit \in AllowedCommands(st, bit, session[s])
            /\ logged' = logged \union {Record(s, st)}
  <2>1. CASE HandleStatus(s)
    BY <2>1 DEF HandleStatus, Tracked
  <2>2. CASE StatusThrows(s)
    BY <2>2 DEF StatusThrows, Tracked
  <2>3. QED
    BY <2>1, <2>2
<1> HIDE DEF st, bit
<1>6. /\ DOMAIN state_map' = DOMAIN state_map \union {s}
      /\ get_state(s)' = st \/ get_state(s)' = ResetState(st)
  BY <1>5, PutStateEffect
<1>7. /\ get_state(s)' \in EntryType
      /\ get_state(s)'.local_seq = st.local_seq
      /\ get_state(s)'.current_db = st.current_db
  BY <1>4, <1>6, ResetEffect
<1>8. QED
  BY <1>1, <1>2, <1>3, <1>4, <1>5, <1>6, <1>7 DEF st, bit

(* Losing an event for want of memory. *)
LEMMA GetStateThrowsEffect ==
  ASSUME TypeInv, StepInv, NEW s \in Slot, GetStateThrows(s)
  PROVE  /\ event[s] # NoEvent /\ event'[s] = NoEvent
         /\ s \notin DOMAIN state_map
         /\ stmt[s] \in CommandType /\ stmt'[s] \in CommandType
         /\ stmt'[s] = [stmt[s] EXCEPT !.missed = TRUE]
         /\ UNCHANGED <<state_map, session, sessions, statements, logged,
                        named, schema>>
<1>1. event[s] # NoEvent /\ s \notin DOMAIN state_map
  BY DEF GetStateThrows
<1>2. stmt[s] \in CommandType
  BY <1>1, InCallback
<1>3. /\ event'[s] = NoEvent /\ stmt'[s] = [stmt[s] EXCEPT !.missed = TRUE]
      /\ UNCHANGED <<state_map, session, sessions, statements, logged,
                     named, schema>>
  BY DEF GetStateThrows, TypeInv, pluginVars
<1>4. [stmt[s] EXCEPT !.missed = TRUE] \in CommandType
  BY <1>2 DEF CommandType, FoundRight
<1>5. QED
  BY <1>1, <1>2, <1>3, <1>4

(* A connection begins, its command ends, it ends itself. *)
LEMMA ConnectEffect ==
  ASSUME TypeInv, NEW s \in Slot, Connect(s)
  PROVE  /\ session[s] = 0 /\ session'[s] = sessions + 1
         /\ sessions' = sessions + 1
         /\ named'[s] = {} /\ schema'[s] = Unknown
         /\ UNCHANGED <<state_map, event, stmt, statements, logged>>
BY DEF Connect, TypeInv, pluginVars

(* The command ends. *)
LEMMA FinishEffect ==
  ASSUME TypeInv, NEW s \in Slot, Finish(s)
  PROVE  /\ stmt[s] \in CommandType /\ stmt[s].phase = "ended"
         /\ event[s] = NoEvent /\ stmt'[s] = Idle
         /\ stmt[s].kind \in {"use", "commented use", "Init DB"} =>
              /\ named'[s] = named[s] \union {stmt[s].found}
              /\ \/ schema'[s] = Unknown
                 \/ /\ schema'[s] = stmt[s].db /\ ~stmt[s].missed
                    /\ stmt[s].kind # "commented use"
         /\ stmt[s].kind \notin {"use", "commented use", "Init DB"} =>
              named'[s] = named[s] /\ schema'[s] = schema[s]
         /\ UNCHANGED <<state_map, event, session, sessions, statements, logged>>
<1>1. /\ stmt[s] \in CommandType /\ stmt[s].phase = "ended"
      /\ event[s] = NoEvent /\ stmt'[s] = Idle
      /\ UNCHANGED <<state_map, event, session, sessions, statements, logged>>
  BY DEF Finish, TypeInv, pluginVars
<1>2. stmt[s].kind \in {"use", "commented use", "Init DB"} =>
        /\ named'[s] = named[s] \union {stmt[s].found}
        /\ \/ schema'[s] = Unknown
           \/ /\ schema'[s] = stmt[s].db /\ ~stmt[s].missed
              /\ stmt[s].kind # "commented use"
  BY DEF Finish, TypeInv
<1>3. stmt[s].kind \notin {"use", "commented use", "Init DB"} =>
        named'[s] = named[s] /\ schema'[s] = schema[s]
  BY DEF Finish
<1>4. QED
  BY <1>1, <1>2, <1>3

(* The connection ends. *)
LEMMA DisconnectEffect ==
  ASSUME TypeInv, NEW s \in Slot, Disconnect(s)
  PROVE  /\ session[s] # 0 /\ stmt[s] = Idle /\ session'[s] = 0
         /\ DOMAIN state_map' \subseteq DOMAIN state_map
         /\ get_state(s)' = get_state(s) \/ get_state(s)' = FreshState
         /\ AlwaysSignsOff => s \notin DOMAIN state_map'
         /\ UNCHANGED <<event, stmt, sessions, statements, logged, named,
                        schema>>
<1>1. /\ session[s] # 0 /\ stmt[s] = Idle /\ session'[s] = 0
      /\ UNCHANGED <<event, stmt, sessions, statements, logged, named, schema>>
  BY DEF Disconnect, TypeInv
<1>2. CASE state_map' = [x \in DOMAIN state_map \ {s} |-> state_map[x]]
  BY <1>1, <1>2 DEF get_state
<1>3. CASE ~AlwaysSignsOff /\ UNCHANGED state_map
  BY <1>1, <1>3 DEF get_state
<1>4. QED
  BY <1>2, <1>3 DEF Disconnect

(* The administrator changes no connection, and a new rule set is seen by  *)
(* every command being executed.                                           *)
AdminStep == SetEnabled \/ SetMinDuration \/ \E l \in Lists : UpdateFilterList(l)

SeenMore(c, d) ==
  /\ d \in CommandType
  /\ d.kind = c.kind /\ d.n = c.n /\ d.cmd = c.cmd /\ d.db = c.db
  /\ d.found = c.found
  /\ d.phase = c.phase /\ d.opened = c.opened /\ d.begun = c.begun
  /\ d.missed = c.missed
  /\ c.seen \subseteq d.seen /\ active_rules' \in d.seen

(* SET GLOBAL. *)
LEMMA AdminEffect ==
  ASSUME TypeInv, StepInv, AdminStep
  PROVE  /\ active_rules' \in RuleSets
         /\ stmt' \in [Slot -> {Idle} \union CommandType]
         /\ \A s \in Slot :
              /\ stmt[s] = Idle => stmt'[s] = Idle
              /\ stmt[s] # Idle => stmt[s] \in CommandType
                                   /\ SeenMore(stmt[s], stmt'[s])
         /\ UNCHANGED <<state_map, event, session, sessions, statements, named,
                        schema, logged>>
<1>1. /\ active_rules \in RuleSets
      /\ stmt \in [Slot -> {Idle} \union CommandType]
      /\ \A s \in Slot : stmt[s] # Idle =>
           stmt[s] \in CommandType /\ active_rules \in stmt[s].seen
  BY DEF TypeInv, StepInv, StepAt, Executing
<1>2. CASE SetEnabled \/ SetMinDuration
  BY <1>1, <1>2 DEF SetEnabled, SetMinDuration, SeenMore, serverVars
<1>3. ASSUME NEW l \in Lists, UpdateFilterList(l)
      PROVE  /\ active_rules' \in RuleSets
             /\ stmt' \in [Slot -> {Idle} \union CommandType]
             /\ \A s \in Slot :
                  /\ stmt[s] = Idle => stmt'[s] = Idle
                  /\ stmt[s] # Idle => stmt[s] \in CommandType
                                       /\ SeenMore(stmt[s], stmt'[s])
             /\ UNCHANGED <<state_map, event, session, sessions, statements,
                            named, schema, logged>>
  <2>1. active_rules' \in RuleSets
    BY <1>1, <1>3 DEF UpdateFilterList, RuleSets
  <2>2. stmt' = [s \in Slot |-> IF stmt[s] = Idle THEN Idle
                 ELSE [stmt[s] EXCEPT !.seen = @ \union {active_rules'}]]
    BY <1>3 DEF UpdateFilterList
  <2>3. ASSUME NEW s \in Slot, stmt[s] # Idle
        PROVE  stmt[s] \in CommandType /\ SeenMore(stmt[s], stmt'[s])
    <3>1. stmt[s] \in CommandType
      BY <1>1, <2>3
    <3>2. stmt[s].seen \union {active_rules'} \in SUBSET RuleSets
      BY <2>1, <3>1 DEF CommandType, FoundRight
    <3>3. stmt'[s] = [stmt[s] EXCEPT !.seen = stmt[s].seen \union {active_rules'}]
      BY <2>2, <2>3
    <3>4. QED
      BY <3>1, <3>2, <3>3 DEF SeenMore, CommandType, FoundRight
  <2>4. \A s \in Slot : stmt[s] = Idle => stmt'[s] = Idle
    BY <2>2
  <2>5. stmt' \in [Slot -> {Idle} \union CommandType]
    <3>1. \A s \in Slot : stmt'[s] \in {Idle} \union CommandType
      BY <2>3, <2>4 DEF SeenMore
    <3>2. QED
      BY <2>2, <3>1
  <2>6. UNCHANGED <<state_map, event, session, sessions, statements, named,
                    schema, logged>>
    BY <1>3 DEF UpdateFilterList
  <2>7. QED
    BY <2>1, <2>3, <2>4, <2>5, <2>6
<1>4. QED
  BY <1>2, <1>3 DEF AdminStep

-----------------------------------------------------------------------------
(* TypeInv and StepInv, together.                                          *)

TypeAt(s) ==
  /\ event[s] \in EventType /\ stmt[s] \in {Idle} \union CommandType
  /\ get_state(s) \in EntryType /\ session[s] \in Nat
  /\ named[s] \in SUBSET Scanned
  /\ schema[s] \in Database \union {NoDb, Unknown}

(* A step leaves its own connection well-typed. *)
LEMMA TypeHere ==
  ASSUME TypeInv, StepInv, NEW s \in Slot, SlotStep(s)
  PROVE  /\ TypeAt(s)' /\ sessions' \in Nat /\ statements' \in Nat
         /\ DOMAIN state_map' \subseteq Slot
<1>1. /\ TypeAt(s) /\ sessions \in Nat /\ statements \in Nat
      /\ DOMAIN state_map \subseteq Slot
  BY DEF TypeInv, TypeAt
<1>2. NoEvent \in EventType
  BY EventKinds
<1>3. UNCHANGED state_map => get_state(s)' = get_state(s)
  BY DEF get_state
<1>4. CASE Connect(s)
  BY <1>1, <1>3, <1>4, ConnectEffect DEF TypeAt
<1>5. CASE Dispatch(s)
  <2>1. UNCHANGED <<state_map, event, session, sessions, named, schema>>
    BY <1>5 DEF Dispatch, pluginVars
  <2>2. statements' = statements + 1 /\ stmt'[s] \in CommandType
    BY <1>5, DispatchEffect
  <2>3. statements + 1 \in Nat
    BY <1>1
  <2>4. QED
    BY <1>1, <1>3, <2>1, <2>2, <2>3 DEF TypeAt
<1>6. CASE Disconnect(s)
  BY <1>1, <1>6, DisconnectEffect, FreshStateType DEF TypeAt
<1>7. CASE RaiseLog(s) \/ RaiseTable(s) \/ RaiseStatus(s)
  <2>1. Raised(s) /\ event'[s] \in EventType
    BY <1>7, RaiseLogEffect, RaiseTableEffect, RaiseStatusEffect
  <2>2. QED
    BY <1>1, <1>3, <2>1 DEF TypeAt, Raised
<1>8. CASE Finish(s)
  <2>1. stmt[s].db \in Database \union {NoDb} /\ stmt[s].found \in Scanned
    BY <1>8, FinishEffect DEF CommandType, FoundRight
  <2>2. /\ event'[s] = event[s] /\ stmt'[s] = Idle
        /\ session'[s] = session[s] /\ UNCHANGED <<state_map, sessions, statements>>
    BY <1>8, FinishEffect
  <2>3. named'[s] \in SUBSET Scanned
    BY <1>1, <1>8, <2>1, FinishEffect DEF TypeAt
  <2>4. schema'[s] \in Database \union {NoDb, Unknown}
    BY <1>1, <1>8, <2>1, FinishEffect DEF TypeAt
  <2>5. QED
    BY <1>1, <1>3, <2>2, <2>3, <2>4 DEF TypeAt
<1>9. CASE HandleLog(s)
  BY <1>1, <1>2, <1>9, HandleLogEffect DEF TypeAt
<1>10. CASE HandleTable(s)
  BY <1>1, <1>2, <1>10, HandleTableEffect DEF TypeAt
<1>11. CASE HandleStatus(s) \/ StatusThrows(s)
  BY <1>1, <1>2, <1>11, StatusEffect DEF TypeAt
<1>12. CASE GetStateThrows(s)
  BY <1>1, <1>2, <1>3, <1>12, GetStateThrowsEffect DEF TypeAt
<1>13. QED
  BY <1>4, <1>5, <1>6, <1>7, <1>8, <1>9, <1>10, <1>11, <1>12 DEF SlotStep

(* A step leaves its own command at a point a command can be at. *)
LEMMA StepHere ==
  ASSUME TypeInv, StepInv, NEW s \in Slot, SlotStep(s)
  PROVE  StepAt(s)'
<1>1. TypeAt(s) /\ StepAt(s) /\ statements \in Nat /\ sessions \in Nat
  BY DEF TypeInv, TypeAt, StepInv
<1>2. active_rules' = active_rules
  BY SlotStepAdmin DEF adminVars
<1>3. NoEvent.kind = "none"
  BY DEF NoEvent
<1>4. CASE Connect(s)
  <2>1. ~Executing(s)
    BY <1>1, <1>4, ConnectEffect DEF StepAt
  <2>2. QED
    BY <1>1, <1>4, <2>1, ConnectEffect DEF StepAt, Executing
<1>5. CASE Dispatch(s)
  <2>1. event'[s] = NoEvent /\ session'[s] # 0
    BY <1>1, <1>5 DEF Dispatch, StepAt, Executing
  <2>2. statements' = statements + 1 /\ stmt'[s].n = statements + 1
    BY <1>5, DispatchEffect
  <2>3. stmt'[s].n <= statements'
    <3>1. statements + 1 <= statements + 1
      BY <1>1
    <3>2. QED
      BY <2>2, <3>1
  <2>4. QED
    BY <1>2, <1>3, <1>5, <2>1, <2>3, DispatchEffect DEF StepAt, Executing
<1>6. CASE Disconnect(s)
  BY <1>1, <1>6, DisconnectEffect DEF StepAt, Executing
<1>7. CASE RaiseLog(s) \/ RaiseTable(s) \/ RaiseStatus(s)
  <2>1. Raised(s) /\ stmt[s] # Idle /\ stmt'[s] # Idle
    BY <1>7, RaiseLogEffect, RaiseTableEffect, RaiseStatusEffect, CommandNotIdle
       DEF Raised
  <2>2. CASE RaiseLog(s)
    BY <1>1, <1>2, <1>3, <2>1, <2>2, RaiseLogEffect
       DEF StepAt, Executing, Raised
  <2>3. CASE RaiseTable(s)
    BY <1>1, <1>2, <1>3, <2>1, <2>3, RaiseTableEffect
       DEF StepAt, Executing, Raised
  <2>4. CASE RaiseStatus(s)
    BY <1>1, <1>2, <1>3, <2>1, <2>4, RaiseStatusEffect
       DEF StepAt, Executing, Raised
  <2>5. QED
    BY <1>7, <2>2, <2>3, <2>4
<1>8. CASE Finish(s)
  BY <1>8, FinishEffect DEF StepAt, Executing
<1>9. CASE HandleLog(s)
  <2>1. /\ event[s].kind = "log" /\ event'[s] = NoEvent /\ stmt[s] # Idle
        /\ stmt'[s] = [stmt[s] EXCEPT !.begun = TRUE] /\ stmt[s] \in CommandType
        /\ session' = session /\ statements' = statements
    BY <1>9, HandleLogEffect, CommandNotIdle
  <2>2. /\ stmt'[s].phase = stmt[s].phase /\ stmt'[s].seen = stmt[s].seen
        /\ stmt'[s].n = stmt[s].n
    BY <2>1 DEF CommandType, FoundRight
  <2>3. stmt[s].phase # "dispatched"
    BY <1>1, <1>3, <2>1 DEF StepAt, Executing
  <2>4. QED
    BY <1>1, <1>2, <1>3, <2>1, <2>2, <2>3 DEF StepAt, Executing
<1>10. CASE HandleTable(s)
  BY <1>1, <1>2, <1>3, <1>10, HandleTableEffect DEF StepAt, Executing
<1>11. CASE HandleStatus(s) \/ StatusThrows(s)
  BY <1>1, <1>2, <1>3, <1>11, StatusEffect DEF StepAt, Executing
<1>12. CASE GetStateThrows(s)
  <2>1. /\ event[s] # NoEvent /\ event'[s] = NoEvent /\ stmt[s] # Idle
        /\ stmt'[s] = [stmt[s] EXCEPT !.missed = TRUE] /\ stmt[s] \in CommandType
        /\ session' = session /\ statements' = statements
    BY <1>12, GetStateThrowsEffect, CommandNotIdle
  <2>2. /\ stmt'[s].phase = stmt[s].phase /\ stmt'[s].seen = stmt[s].seen
        /\ stmt'[s].n = stmt[s].n
    BY <2>1 DEF CommandType, FoundRight
  <2>3. stmt[s].phase # "dispatched"
    BY <1>1, <1>3, <2>1 DEF StepAt, Executing
  <2>4. QED
    BY <1>1, <1>2, <1>3, <2>1, <2>2, <2>3 DEF StepAt, Executing
<1>13. QED
  BY <1>4, <1>5, <1>6, <1>7, <1>8, <1>9, <1>10, <1>11, <1>12 DEF SlotStep

(* A step of a connection preserves both. *)
LEMMA TypeSlotStep ==
  ASSUME TypeInv, StepInv, NEW s \in Slot, SlotStep(s)
  PROVE  TypeInv' /\ StepInv'
<1>1. active_rules' = active_rules
  BY SlotStepAdmin DEF adminVars
<1>2. statements \in Nat /\ statements' \in Nat
  BY TypeHere DEF TypeInv
<1>3. statements' = statements \/ statements' = statements + 1
  <2>1. CASE Dispatch(s)
    BY <2>1 DEF Dispatch
  <2>2. CASE HandleLog(s) \/ HandleTable(s) \/ HandleStatus(s) \/ StatusThrows(s)
    BY <2>2 DEF HandleLog, HandleTable, HandleStatus, StatusThrows, serverVars
  <2>3. CASE \/ Connect(s) \/ RaiseLog(s) \/ RaiseTable(s) \/ RaiseStatus(s)
             \/ Finish(s) \/ GetStateThrows(s) \/ Disconnect(s)
    BY <2>3 DEF Connect, RaiseLog, RaiseTable, RaiseStatus, Raise, Finish,
                GetStateThrows, Disconnect
  <2>4. QED
    BY <2>1, <2>2, <2>3 DEF SlotStep
<1>4. \A n \in Nat : n <= statements => n <= statements'
  <2>1. \A n \in Nat : n <= statements => n <= statements + 1
    BY <1>2
  <2>2. QED
    BY <1>3, <2>1
<1>5. ASSUME NEW u \in Slot
      PROVE  TypeAt(u)' /\ StepAt(u)'
  <2>1. CASE u = s
    BY <2>1, TypeHere, StepHere
  <2>2. CASE u # s
    <3>1. SameAt(u) /\ TypeAt(u) /\ StepAt(u)
      BY <2>2, SlotStepOthers DEF TypeInv, TypeAt, StepInv
    <3>2. TypeAt(u)'
      BY <3>1 DEF SameAt, TypeAt
    <3>3. Executing(u) => stmt[u].n \in Nat
      BY <3>1 DEF TypeAt, CommandType, FoundRight, Executing
    <3>4. StepAt(u)'
      BY <1>1, <1>4, <3>1, <3>3 DEF SameAt, StepAt, Executing
    <3>5. QED
      BY <3>2, <3>4
  <2>3. QED
    BY <2>1, <2>2
<1>6. /\ DOMAIN event' = Slot /\ DOMAIN stmt' = Slot /\ DOMAIN session' = Slot
      /\ DOMAIN named' = Slot /\ DOMAIN schema' = Slot
      /\ event' = [u \in Slot |-> event'[u]] /\ stmt' = [u \in Slot |-> stmt'[u]]
      /\ session' = [u \in Slot |-> session'[u]]
      /\ named' = [u \in Slot |-> named'[u]]
      /\ schema' = [u \in Slot |-> schema'[u]]
  BY SlotStepShape DEF TypeInv
<1>7. /\ event' \in [Slot -> EventType]
      /\ session' \in [Slot -> Nat]
      /\ stmt' \in [Slot -> {Idle} \union CommandType]
  BY <1>5, <1>6 DEF TypeAt
<1>8. /\ named' \in [Slot -> SUBSET Scanned]
      /\ schema' \in [Slot -> Database \union {NoDb, Unknown}]
  BY <1>5, <1>6 DEF TypeAt
<1>9. \A u \in Slot : get_state(u)' \in EntryType
  BY <1>5 DEF TypeAt
<1>10. TypeInv'
  BY <1>1, <1>2, <1>7, <1>8, <1>9, TypeHere DEF TypeInv
<1>11. QED
  BY <1>5, <1>10 DEF StepInv

(* So does the administrator. *)
LEMMA TypeAdminStep ==
  ASSUME TypeInv, StepInv, AdminStep
  PROVE  TypeInv' /\ StepInv'
<1>1. \A s \in Slot : get_state(s)' = get_state(s)
  BY AdminEffect DEF get_state
<1>2. TypeInv'
  BY <1>1, AdminEffect DEF TypeInv
<1>3. ASSUME NEW s \in Slot
      PROVE  StepAt(s)'
  <2>1. StepAt(s)
    BY DEF StepInv
  <2>2. CASE stmt[s] = Idle
    BY <2>1, <2>2, AdminEffect DEF StepAt, Executing
  <2>3. CASE stmt[s] # Idle
    <3>1. /\ SeenMore(stmt[s], stmt'[s])
          /\ UNCHANGED <<event, session, statements>>
      BY <2>3, AdminEffect
    <3>2. stmt'[s] # Idle
      BY <3>1, CommandNotIdle DEF SeenMore
    <3>3. QED
      BY <2>1, <2>3, <3>1, <3>2 DEF StepAt, Executing, SeenMore
  <2>4. QED
    BY <2>2, <2>3
<1>4. QED
  BY <1>2, <1>3 DEF StepInv

(* The steps of the specification. *)
LEMMA NextCases ==
  ASSUME [Next]_vars
  PROVE  (\E s \in Slot : SlotStep(s)) \/ AdminStep \/ UNCHANGED vars
BY DEF Next, SlotStep, AdminStep

(* The initial states. *)
LEMMA InitTypeStep ==
  ASSUME Init
  PROVE  TypeInv /\ StepInv
<1>1. active_rules \in RuleSets
  BY DEF Init, RuleSets
<1>2. DOMAIN state_map \subseteq Slot /\ \A s \in Slot : get_state(s) = FreshState
  BY DEF Init, get_state
<1>3. NoEvent \in EventType
  BY EventKinds
<1>4. /\ event \in [Slot -> EventType]
      /\ session \in [Slot -> Nat] /\ sessions \in Nat
      /\ stmt \in [Slot -> {Idle} \union CommandType]
      /\ statements \in Nat
  BY <1>3 DEF Init
<1>5. /\ named \in [Slot -> SUBSET Scanned]
      /\ schema \in [Slot -> Database \union {NoDb, Unknown}]
  BY DEF Init
<1>6. TypeInv
  BY <1>1, <1>2, <1>4, <1>5, FreshStateType DEF TypeInv
<1>7. StepInv
  BY DEF Init, StepInv, StepAt, Executing
<1>8. QED
  BY <1>6, <1>7

(* Stuttering keeps everything. *)
LEMMA StutterSame ==
  ASSUME UNCHANGED vars
  PROVE  /\ UNCHANGED <<active_rules, state_map, event, session, sessions, stmt,
                        statements, named, schema, logged>>
         /\ \A s \in Slot : get_state(s)' = get_state(s)
BY DEF vars, pluginVars, adminVars, serverVars, get_state

(* Both are invariants. *)
LEMMA TypeStepInvariant == Spec => [](TypeInv /\ StepInv)
<1>1. TypeInv /\ StepInv /\ [Next]_vars => TypeInv' /\ StepInv'
  <2> SUFFICES ASSUME TypeInv, StepInv, [Next]_vars
               PROVE  TypeInv' /\ StepInv'
    OBVIOUS
  <2>1. CASE \E s \in Slot : SlotStep(s)
    BY <2>1, TypeSlotStep
  <2>2. CASE AdminStep
    BY <2>2, TypeAdminStep
  <2>3. CASE UNCHANGED vars
    <3>1. TypeInv'
      BY <2>3, StutterSame DEF TypeInv
    <3>2. StepInv'
      BY <2>3, StutterSame DEF StepInv, StepAt, Executing
    <3>3. QED
      BY <3>1, <3>2
  <2>4. QED
    BY <2>1, <2>2, <2>3, NextCases
<1>2. QED
  BY <1>1, InitTypeStep, PTL DEF Spec

-----------------------------------------------------------------------------
(* The tracked schema.                                                     *)

(* A step leaves the schema tracked for its own connection right. *)
LEMMA DbHere ==
  ASSUME TypeInv, StepInv, DbInv, NEW s \in Slot, SlotStep(s)
  PROVE  DbAt(s)'
<1>1. TypeAt(s) /\ StepAt(s) /\ DbAt(s)
  BY DEF TypeInv, TypeAt, StepInv, DbInv
<1>2. UNCHANGED state_map => get_state(s)' = get_state(s)
  BY DEF get_state
<1>3. NoEvent.kind = "none"
  BY DEF NoEvent
<1>4. CASE Connect(s)
  <2>1. stmt[s] = Idle
    BY <1>1, <1>4, ConnectEffect DEF StepAt, Executing
  <2>2. QED
    BY <1>4, <2>1, ConnectEffect DEF DbAt, Ending, Executing
<1>5. CASE Dispatch(s)
  <2>1. /\ UNCHANGED <<state_map, event, session, schema>>
        /\ stmt[s] = Idle /\ stmt'[s].phase = "dispatched"
    BY <1>5, DispatchEffect DEF Dispatch, pluginVars
  <2>2. QED
    BY <1>1, <1>2, <2>1 DEF DbAt, Ending, Executing
<1>6. CASE Disconnect(s)
  BY <1>6, DisconnectEffect DEF DbAt
<1>7. CASE RaiseLog(s) \/ RaiseTable(s) \/ RaiseStatus(s)
  <2>1. /\ Raised(s) /\ stmt[s].phase # "ended"
        /\ stmt'[s].phase = "ended" => RaiseStatus(s)
    BY <1>7, RaiseLogEffect, RaiseTableEffect, RaiseStatusEffect
  <2>2. QED
    BY <1>1, <1>2, <2>1 DEF DbAt, Ending, Executing, Raised
<1>8. CASE Finish(s)
  <2>1. stmt[s] # Idle
    BY <1>8 DEF Finish
  <2>2. QED
    BY <1>1, <1>2, <1>8, <2>1, FinishEffect DEF DbAt, Ending, Executing
<1>9. CASE HandleLog(s) \/ HandleTable(s)
  <2>1. /\ event[s].kind \in {"log", "table"} /\ stmt[s] \in CommandType
        /\ stmt'[s].phase = stmt[s].phase
        /\ get_state(s)'.current_db = get_state(s).current_db
        /\ UNCHANGED <<session, schema>>
    <3>1. CASE HandleLog(s)
      <4>1. /\ stmt[s] \in CommandType
            /\ stmt'[s] = [stmt[s] EXCEPT !.begun = TRUE]
        BY <3>1, HandleLogEffect
      <4>2. stmt'[s].phase = stmt[s].phase
        BY <4>1 DEF CommandType, FoundRight
      <4>3. QED
        BY <3>1, <4>1, <4>2, HandleLogEffect
    <3>2. CASE HandleTable(s)
      BY <3>2, HandleTableEffect
    <3>3. QED
      BY <1>9, <3>1, <3>2
  <2>2. stmt[s].phase # "ended" /\ stmt[s] # Idle
    BY <1>1, <2>1, CommandNotIdle DEF StepAt, Executing
  <2>3. QED
    BY <1>1, <2>1, <2>2 DEF DbAt, Ending, Executing
<1>10. CASE HandleStatus(s) \/ StatusThrows(s)
  <2>1. /\ event[s].kind = "status" /\ stmt[s] \in CommandType
        /\ get_state(s) \in EntryType
        /\ get_state(s)'.current_db = Tracked(s).current_db
        /\ UNCHANGED <<stmt, session, schema>>
    BY <1>1, <1>10, StatusEffect DEF TypeAt
  <2>2. stmt[s].phase = "ended" /\ stmt[s] # Idle
    BY <1>1, <2>1, CommandNotIdle DEF StepAt, Executing
  <2>3. /\ stmt[s].kind \in {"use", "Init DB"} =>
             Tracked(s).current_db = stmt[s].db
        /\ stmt[s].kind \in {"query", "Ping"} =>
             Tracked(s).current_db = get_state(s).current_db
        /\ stmt[s].kind \in {"query", "use", "commented use", "Init DB", "Ping"}
    BY <2>1, TrackEffect DEF Tracked
  <2>4. QED
    BY <1>1, <2>1, <2>2, <2>3 DEF DbAt, Ending, Executing
<1>11. CASE GetStateThrows(s)
  <2>1. /\ stmt[s] \in CommandType /\ stmt[s] # Idle
        /\ stmt'[s] = [stmt[s] EXCEPT !.missed = TRUE]
        /\ UNCHANGED <<state_map, session, schema>>
    BY <1>11, GetStateThrowsEffect, CommandNotIdle
  <2>2. /\ stmt'[s].phase = stmt[s].phase /\ stmt'[s].kind = stmt[s].kind
        /\ stmt'[s].missed = TRUE
    BY <2>1 DEF CommandType, FoundRight
  <2>3. stmt'[s].missed
    BY <2>2, Zenon
  <2>4. Ending(s)' => Ending(s)
    BY <2>1, <2>2 DEF Ending, Executing
  <2>5. Ending(s) => Ending(s)'
    BY <2>1, <2>2, GetStateThrowsEffect, <1>11, CommandNotIdle
       DEF Ending, Executing
  <2>6. QED
    BY <1>1, <1>2, <2>1, <2>3, <2>4, <2>5 DEF DbAt
<1>12. QED
  BY <1>4, <1>5, <1>6, <1>7, <1>8, <1>9, <1>10, <1>11 DEF SlotStep

(* A step leaves the schema tracked for its own connection one found in    *)
(* the connection's commands, when every connection signs off.             *)
LEMMA NamedHere ==
  ASSUME TypeInv, StepInv, AlwaysSignsOff, NamedInv, NEW s \in Slot, SlotStep(s)
  PROVE  NamedAt(s)'
<1>1. TypeAt(s) /\ StepAt(s) /\ NamedAt(s) /\ sessions \in Nat
  BY DEF TypeInv, TypeAt, StepInv, NamedInv
<1>2. /\ UNCHANGED state_map => get_state(s)' = get_state(s)
      /\ s \notin DOMAIN state_map' => get_state(s)'.current_db = NoDb
      /\ s \notin DOMAIN state_map => get_state(s).current_db = NoDb
  BY DEF get_state, FreshState
<1>3. NoEvent.kind = "none"
  BY DEF NoEvent
<1>4. CASE Connect(s)
  <2>1. sessions + 1 # 0
    BY <1>1
  <2>2. QED
    BY <1>1, <1>2, <1>4, <2>1, ConnectEffect DEF NamedAt
<1>5. CASE Dispatch(s)
  <2>1. /\ UNCHANGED <<state_map, session, named>> /\ stmt[s] = Idle
        /\ session[s] # 0
    BY <1>5 DEF Dispatch, pluginVars
  <2>2. QED
    BY <1>1, <1>2, <2>1 DEF NamedAt, Ending, Executing
<1>6. CASE Disconnect(s)
  BY <1>2, <1>6, DisconnectEffect DEF NamedAt
<1>7. CASE RaiseLog(s) \/ RaiseTable(s) \/ RaiseStatus(s)
  <2>1. Raised(s) /\ stmt[s].phase # "ended"
    BY <1>7, RaiseLogEffect, RaiseTableEffect, RaiseStatusEffect
  <2>2. QED
    BY <1>1, <1>2, <2>1 DEF NamedAt, Ending, Raised
<1>8. CASE Finish(s)
  BY <1>1, <1>2, <1>8, FinishEffect DEF NamedAt, Ending
<1>9. CASE HandleLog(s) \/ HandleTable(s)
  <2>1. /\ event[s].kind \in {"log", "table"} /\ stmt[s] \in CommandType
        /\ get_state(s)'.current_db = get_state(s).current_db
        /\ UNCHANGED <<session, named>>
    BY <1>9, HandleLogEffect, HandleTableEffect
  <2>2. stmt[s].phase # "ended" /\ session[s] # 0
    BY <1>1, <2>1, CommandNotIdle DEF StepAt, Executing
  <2>3. QED
    BY <1>1, <2>1, <2>2 DEF NamedAt, Ending
<1>10. CASE HandleStatus(s) \/ StatusThrows(s)
  <2>1. /\ event[s].kind = "status" /\ stmt[s] \in CommandType
        /\ get_state(s) \in EntryType
        /\ get_state(s)'.current_db = Tracked(s).current_db
        /\ UNCHANGED <<stmt, session, named>>
    BY <1>1, <1>10, StatusEffect DEF TypeAt
  <2>2. stmt[s].phase = "ended" /\ stmt[s] # Idle /\ session[s] # 0
    BY <1>1, <2>1, CommandNotIdle DEF StepAt, Executing
  <2>3. /\ \/ Tracked(s).current_db = stmt[s].found
           \/ Tracked(s).current_db = get_state(s).current_db
        /\ stmt[s].kind \in {"query", "Ping"} =>
             Tracked(s).current_db = get_state(s).current_db
        /\ stmt[s].kind \in {"query", "use", "commented use", "Init DB", "Ping"}
    BY <2>1, TrackEffect DEF Tracked
  <2>4. QED
    BY <1>1, <2>1, <2>2, <2>3 DEF NamedAt, Ending, Executing
<1>11. CASE GetStateThrows(s)
  <2>1. UNCHANGED <<state_map, session, named>> /\ s \notin DOMAIN state_map
    BY <1>11, GetStateThrowsEffect
  <2>2. QED
    BY <1>1, <1>2, <2>1 DEF NamedAt
<1>12. QED
  BY <1>4, <1>5, <1>6, <1>7, <1>8, <1>9, <1>10, <1>11 DEF SlotStep

(* What a step of the administrator leaves of a connection. *)
LEMMA AdminSame ==
  ASSUME TypeInv, StepInv, AdminStep, NEW s \in Slot
  PROVE  /\ get_state(s)' = get_state(s)
         /\ Executing(s)' <=> Executing(s)
         /\ Executing(s) => SeenMore(stmt[s], stmt'[s])
         /\ UNCHANGED <<state_map, event, session, sessions, statements, named,
                        schema, logged>>
<1>1. get_state(s)' = get_state(s)
  BY AdminEffect DEF get_state
<1>2. Executing(s) => SeenMore(stmt[s], stmt'[s])
  BY AdminEffect DEF Executing
<1>3. Executing(s)' <=> Executing(s)
  <2>1. CASE stmt[s] = Idle
    BY <2>1, AdminEffect DEF Executing
  <2>2. CASE stmt[s] # Idle
    BY <1>2, <2>2, CommandNotIdle DEF Executing, SeenMore
  <2>3. QED
    BY <2>1, <2>2
<1>4. QED
  BY <1>1, <1>2, <1>3, AdminEffect

(* DbInv is preserved. *)
LEMMA DbStep ==
  ASSUME TypeInv, StepInv, DbInv, [Next]_vars
  PROVE  DbInv'
<1> SUFFICES ASSUME NEW u \in Slot
             PROVE  DbAt(u)'
  BY DEF DbInv
<1>1. DbAt(u)
  BY DEF DbInv
<1>2. ASSUME NEW s \in Slot, SlotStep(s)
      PROVE  DbAt(u)'
  <2>1. CASE u = s
    BY <1>2, <2>1, DbHere
  <2>2. CASE u # s
    <3>1. SameAt(u)
      BY <1>2, <2>2, SlotStepOthers
    <3>2. QED
      BY <1>1, <3>1 DEF SameAt, DbAt, Ending, Executing
  <2>3. QED
    BY <2>1, <2>2
<1>3. CASE AdminStep
  <2>1. /\ get_state(u)' = get_state(u)
        /\ Ending(u)' <=> Ending(u)
        /\ Ending(u) => SeenMore(stmt[u], stmt'[u])
        /\ UNCHANGED <<event, session, schema>>
    BY <1>3, AdminSame DEF Ending, SeenMore
  <2>2. QED
    BY <1>1, <2>1 DEF DbAt, SeenMore
<1>4. CASE UNCHANGED vars
  BY <1>1, <1>4, StutterSame DEF DbAt, Ending, Executing
<1>5. QED
  BY <1>2, <1>3, <1>4, NextCases

(* NamedInv is preserved, when every connection signs off. *)
LEMMA NamedStep ==
  ASSUME TypeInv, StepInv, AlwaysSignsOff, NamedInv, [Next]_vars
  PROVE  NamedInv'
<1> SUFFICES ASSUME NEW u \in Slot
             PROVE  NamedAt(u)'
  BY DEF NamedInv
<1>1. NamedAt(u)
  BY DEF NamedInv
<1>2. ASSUME NEW s \in Slot, SlotStep(s)
      PROVE  NamedAt(u)'
  <2>1. CASE u = s
    BY <1>2, <2>1, NamedHere
  <2>2. CASE u # s
    <3>1. SameAt(u)
      BY <1>2, <2>2, SlotStepOthers
    <3>2. QED
      BY <1>1, <3>1 DEF SameAt, NamedAt, Ending, Executing
  <2>3. QED
    BY <2>1, <2>2
<1>3. CASE AdminStep
  <2>1. /\ get_state(u)' = get_state(u)
        /\ Ending(u)' <=> Ending(u)
        /\ Ending(u) => SeenMore(stmt[u], stmt'[u])
        /\ UNCHANGED <<state_map, session, named>>
    BY <1>3, AdminSame DEF Ending, SeenMore
  <2>2. QED
    BY <1>1, <2>1 DEF NamedAt, SeenMore
<1>4. CASE UNCHANGED vars
  BY <1>1, <1>4, StutterSame DEF NamedAt, Ending, Executing
<1>5. QED
  BY <1>2, <1>3, <1>4, NextCases

(* Between statements the tracked schema is the session's own, when the    *)
(* last of its USEs was a plain one or an Init DB, succeeded and had its   *)
(* events seen (track_current_db and get_state, whatever allocation fails  *)
(* and whenever tracing is switched).                                      *)
THEOREM SchemaFollowsSession == Spec => []DbFollowsSession
<1>1. Init => DbInv
  BY DEF Init, DbInv, DbAt
<1>2. TypeInv /\ StepInv /\ DbInv /\ [Next]_vars => DbInv'
  BY DbStep
<1>3. DbInv => DbFollowsSession
  BY DEF DbInv, DbAt, DbFollowsSession, Ending, Executing
<1>4. QED
  BY <1>1, <1>2, <1>3, TypeStepInvariant, PTL DEF Spec

(* When every connection signs off, no entry outlives its connection and   *)
(* the schema in it was found in that connection's own commands, never in  *)
(* an earlier one's (forget_state); of a commented USE it may be a word.   *)
THEOREM EntriesAreOwn ==
  AlwaysSignsOff => (Spec => [](NoOrphanState /\ DbIsOwn))
<1> SUFFICES ASSUME AlwaysSignsOff
             PROVE  Spec => [](NoOrphanState /\ DbIsOwn)
  OBVIOUS
<1>1. Init => NamedInv
  BY DEF Init, NamedInv, NamedAt, get_state, FreshState
<1>2. TypeInv /\ StepInv /\ NamedInv /\ [Next]_vars => NamedInv'
  BY NamedStep
<1>3. TypeInv /\ NamedInv => NoOrphanState /\ DbIsOwn
  BY DEF TypeInv, NamedInv, NamedAt, NoOrphanState, DbIsOwn, Ending,
         Executing, get_state
<1>4. QED
  BY <1>1, <1>2, <1>3, TypeStepInvariant, PTL DEF Spec

(* The first half of it in the form the runs check it: NoOrphanState names *)
(* its own hypothesis.                                                     *)
THEOREM NoEntryIsLeft == Spec => []NoOrphanState
<1>1. CASE AlwaysSignsOff
  BY <1>1, EntriesAreOwn, PTL
<1>2. CASE ~AlwaysSignsOff
  <2>1. NoOrphanState
    BY <1>2 DEF NoOrphanState
  <2>2. QED
    BY <2>1, PTL
<1>3. QED
  BY <1>1, <1>2

-----------------------------------------------------------------------------
(* The entry of the statement being executed.                              *)

(* A justification stays one when more rule sets and tables are seen. *)
LEMMA JustifiedGrows ==
  ASSUME NEW mask, NEW seen, NEW opened, Justified(mask, seen, opened),
         NEW more, seen \subseteq more, NEW all, opened \subseteq all
  PROVE  Justified(mask, more, all)
BY DEF Justified

(* Opening a table justifies what the rules active then say of it. *)
LEMMA JustifiedAdds ==
  ASSUME NEW st0, NEW st1, NEW t, NEW seen, NEW opened,
         Justified(st0.cmd_mask, seen, opened), Added(st0, st1, t),
         active_rules \in seen, t \in opened
  PROVE  Justified(st1.cmd_mask, seen, opened)
BY DEF Justified, Added

(* A step leaves the entry of its own connection that of its command. *)
LEMMA EntryHere ==
  ASSUME TypeInv, StepInv, EntryInv, NEW s \in Slot, SlotStep(s)
  PROVE  EntryAt(s)'
<1>1. TypeAt(s) /\ StepAt(s) /\ EntryAt(s)
  BY DEF TypeInv, TypeAt, StepInv, EntryInv
<1>2. UNCHANGED state_map => get_state(s)' = get_state(s)
  BY DEF get_state
<1>3. NoEvent.kind = "none"
  BY DEF NoEvent
<1>4. CASE Connect(s)
  BY <1>1, <1>2, <1>4, ConnectEffect
     DEF EntryAt, EntryOf, Open, InFlight, Executing
<1>5. CASE Dispatch(s)
  BY <1>5, DispatchEffect DEF EntryAt, Open
<1>6. CASE Disconnect(s) \/ Finish(s)
  BY <1>6, DisconnectEffect, FinishEffect DEF EntryAt, Open, Executing
<1>7. CASE RaiseLog(s)
  <2>1. stmt[s] # Idle /\ stmt[s].phase = "dispatched"
    BY <1>7 DEF RaiseLog
  <2>2. ~stmt[s].begun
    BY <1>1, <2>1 DEF StepAt, Executing
  <2>3. ~stmt'[s].begun
    BY <1>7, <2>2, RaiseLogEffect DEF Raised
  <2>4. QED
    BY <2>3 DEF EntryAt, Open
<1>8. CASE RaiseTable(s)
  <2>1. SUFFICES ASSUME Open(s)'
                 PROVE  EntryOf(s, get_state(s))'
    BY DEF EntryAt
  <2>2. /\ Raised(s) /\ stmt[s].phase = "running"
        /\ event'[s].kind \in {"none", "table"}
    BY <1>8, RaiseTableEffect
  <2>3. PICK t \in Tables :
          /\ stmt'[s].opened = stmt[s].opened \union {t}
          /\ event'[s].kind = "table" => event'[s].table = t
    BY <1>8, RaiseTableEffect
  <2>4. Open(s)
    BY <2>1, <2>2, CommandNotIdle DEF Open, Raised, Executing
  <2>5. EntryOf(s, get_state(s)) /\ get_state(s)' = get_state(s)
    BY <1>1, <1>2, <2>2, <2>4 DEF EntryAt, Raised
  <2>6. InFlight(s) = {}
    BY <1>3, <2>2 DEF InFlight, Raised
  <2>7. ~stmt'[s].missed => InFlight(s)' = {t} /\ ~stmt[s].missed
    <3>1. event'[s] \in EventType
      BY <1>8, RaiseTableEffect
    <3>2. event'[s] # NoEvent => event'[s].kind # "none"
      BY <3>1, EventKinds
    <3>3. ~stmt'[s].missed => ~stmt[s].missed /\ event'[s] # NoEvent
      BY <2>2 DEF Raised
    <3>4. QED
      BY <2>2, <2>3, <3>2, <3>3 DEF InFlight
  <2>8. Justified(get_state(s).cmd_mask, stmt'[s].seen, stmt'[s].opened)
    BY <2>2, <2>3, <2>5, JustifiedGrows DEF EntryOf, Raised
  <2>9. QED
    BY <2>2, <2>3, <2>5, <2>6, <2>7, <2>8 DEF EntryOf, Raised
<1>9. CASE RaiseStatus(s)
  <2>1. SUFFICES ASSUME Open(s)'
                 PROVE  EntryOf(s, get_state(s))'
    BY DEF EntryAt
  <2>2. /\ Raised(s) /\ stmt[s].phase = "running"
        /\ stmt'[s].opened = stmt[s].opened
        /\ event'[s].kind \in {"none", "status"}
    BY <1>9, RaiseStatusEffect
  <2>3. Open(s)
    BY <2>1, <2>2, CommandNotIdle DEF Open, Raised, Executing
  <2>4. EntryOf(s, get_state(s)) /\ get_state(s)' = get_state(s)
    BY <1>1, <1>2, <2>2, <2>3 DEF EntryAt, Raised
  <2>5. InFlight(s) = {} /\ InFlight(s)' = {}
    BY <1>3, <2>2 DEF InFlight, Raised
  <2>6. QED
    BY <2>2, <2>4, <2>5 DEF EntryOf, Raised
<1>10. CASE HandleLog(s)
  <2> DEFINE st == get_state(s)'
  <2>1. /\ event[s].kind = "log" /\ event'[s] = NoEvent
        /\ stmt[s] \in CommandType
        /\ stmt'[s] = [stmt[s] EXCEPT !.begun = TRUE]
        /\ st.cmd_mask = {} /\ st.tables = <<>>
        /\ st.in_statement = TRUE /\ st.have_start = TRUE
        /\ st.clock = stmt[s].n
    BY <1>10, HandleLogEffect
  <2>2. stmt[s].opened = {}
    BY <1>1, <2>1, CommandNotIdle DEF StepAt, Executing
  <2>3. stmt'[s].opened = {} /\ stmt'[s].n = stmt[s].n
    BY <2>1, <2>2 DEF CommandType, FoundRight
  <2>4. ToSet(st.tables) = {}
    BY <2>1, ToSetEmpty
  <2>5. Justified(st.cmd_mask, stmt'[s].seen, stmt'[s].opened)
    BY <2>1 DEF Justified
  <2> HIDE DEF st
  <2>6. EntryOf(s, get_state(s))'
    BY <2>1, <2>3, <2>4, <2>5 DEF EntryOf, st
  <2>7. QED
    BY <2>6 DEF EntryAt
<1>11. CASE HandleTable(s)
  <2>1. SUFFICES ASSUME Open(s)'
                 PROVE  EntryOf(s, get_state(s))'
    BY DEF EntryAt
  <2> DEFINE t == event[s].table
             st0 == get_state(s)
             st1 == get_state(s)'
  <2>2. /\ event[s].kind = "table" /\ event'[s] = NoEvent /\ stmt' = stmt
        /\ stmt[s] \in CommandType /\ st1 \in EntryType
        /\ st0.in_statement => Added(st0, st1, t)
    BY <1>11, HandleTableEffect
  <2>3. t \in stmt[s].opened /\ active_rules \in stmt[s].seen
        /\ stmt[s].phase = "running"
    BY <1>1, <2>2, CommandNotIdle DEF StepAt, Executing
  <2>4. Open(s)
    BY <2>1, <2>2, <2>3 DEF Open, Executing
  <2>5. EntryOf(s, st0) /\ Added(st0, st1, t)
    BY <1>1, <2>2, <2>4 DEF EntryAt, EntryOf
  <2>6. InFlight(s) = {t} /\ InFlight(s)' = {}
    BY <1>3, <2>2 DEF InFlight
  <2> HIDE DEF t, st0, st1
  <2>7. Justified(st1.cmd_mask, stmt[s].seen, stmt[s].opened)
    BY <2>3, <2>5, JustifiedAdds DEF EntryOf
  <2>8. st1.in_statement /\ st1.have_start /\ st1.clock = stmt[s].n
    BY <2>5 DEF EntryOf, Added
  <2>9. ToSet(st1.tables) \subseteq stmt[s].opened
    BY <2>3, <2>5 DEF EntryOf, Added
  <2>10. ~stmt[s].missed /\ ~st1.tables_truncated =>
           stmt[s].opened \ {StatsTable} \subseteq ToSet(st1.tables)
    BY <2>5, <2>6 DEF EntryOf, Added
  <2>11. QED
    BY <2>2, <2>6, <2>7, <2>8, <2>9, <2>10 DEF EntryOf, st1
<1>12. CASE HandleStatus(s) \/ StatusThrows(s)
  <2>1. event[s].kind = "status" /\ event'[s] = NoEvent /\ stmt' = stmt
        /\ stmt[s] \in CommandType
    BY <1>12, StatusEffect
  <2>2. stmt'[s].phase = "ended"
    BY <1>1, <2>1, CommandNotIdle DEF StepAt, Executing
  <2>3. QED
    BY <1>3, <2>1, <2>2 DEF EntryAt, Open
<1>13. CASE GetStateThrows(s)
  <2>1. SUFFICES ASSUME Open(s)'
                 PROVE  FALSE
    BY DEF EntryAt
  <2>2. /\ event[s] # NoEvent /\ event'[s] = NoEvent
        /\ s \notin DOMAIN state_map /\ stmt[s] \in CommandType
        /\ stmt'[s] = [stmt[s] EXCEPT !.missed = TRUE]
    BY <1>13, GetStateThrowsEffect
  <2>3. stmt'[s].phase = stmt[s].phase /\ stmt'[s].begun = stmt[s].begun
    BY <2>2 DEF CommandType, FoundRight
  <2>4. stmt[s].phase # "ended" /\ stmt[s].begun
    BY <1>3, <2>1, <2>2, <2>3 DEF Open
  <2>5. Open(s)
    BY <2>2, <2>4, CommandNotIdle DEF Open, Executing
  <2>6. get_state(s).in_statement
    BY <1>1, <2>5 DEF EntryAt, EntryOf
  <2>7. get_state(s).in_statement = FALSE
    BY <2>2 DEF get_state, FreshState
  <2>8. QED
    BY <2>6, <2>7
<1>14. QED
  BY <1>4, <1>5, <1>6, <1>7, <1>8, <1>9, <1>10, <1>11, <1>12, <1>13 DEF SlotStep

(* EntryInv is preserved. *)
LEMMA EntryStep ==
  ASSUME TypeInv, StepInv, EntryInv, [Next]_vars
  PROVE  EntryInv'
<1> SUFFICES ASSUME NEW u \in Slot
             PROVE  EntryAt(u)'
  BY DEF EntryInv
<1>1. EntryAt(u)
  BY DEF EntryInv
<1>2. ASSUME NEW s \in Slot, SlotStep(s)
      PROVE  EntryAt(u)'
  <2>1. CASE u = s
    BY <1>2, <2>1, EntryHere
  <2>2. CASE u # s
    <3>1. SameAt(u)
      BY <1>2, <2>2, SlotStepOthers
    <3>2. QED
      BY <1>1, <3>1 DEF SameAt, EntryAt, EntryOf, Open, InFlight, Executing
  <2>3. QED
    BY <2>1, <2>2
<1>3. CASE AdminStep
  <2>1. SUFFICES ASSUME Open(u)'
                 PROVE  EntryOf(u, get_state(u))'
    BY DEF EntryAt
  <2>2. /\ get_state(u)' = get_state(u) /\ event' = event
        /\ Executing(u) /\ SeenMore(stmt[u], stmt'[u])
    BY <1>3, <2>1, AdminSame DEF Open
  <2>3. EntryOf(u, get_state(u))
    BY <1>1, <2>1, <2>2 DEF EntryAt, Open, SeenMore
  <2>4. Justified(get_state(u).cmd_mask, stmt'[u].seen, stmt'[u].opened)
    BY <2>2, <2>3, JustifiedGrows DEF EntryOf, SeenMore
  <2>5. InFlight(u)' = InFlight(u)
    BY <2>2 DEF InFlight
  <2>6. QED
    BY <2>2, <2>3, <2>4, <2>5 DEF EntryOf, SeenMore
<1>4. CASE UNCHANGED vars
  BY <1>1, <1>4, StutterSame DEF EntryAt, EntryOf, Open, InFlight, Executing
<1>5. QED
  BY <1>2, <1>3, <1>4, NextCases

(* So is EntryInv. *)
LEMMA EntryInvariant == Spec => [](TypeInv /\ StepInv /\ EntryInv)
<1>1. Init => EntryInv
  BY DEF Init, EntryInv, EntryAt, Open, Executing
<1>2. TypeInv /\ StepInv /\ EntryInv /\ [Next]_vars => EntryInv'
  BY EntryStep
<1>3. QED
  BY <1>1, <1>2, TypeStepInvariant, PTL DEF Spec

-----------------------------------------------------------------------------
(* What is logged.                                                         *)

(* The fields of a record. *)
LEMMA RecordFields ==
  ASSUME NEW s \in Slot, NEW st \in EntryType
  PROVE  LET r == Record(s, st)
         IN  /\ r.session = session[s] /\ r.n = stmt[s].n
             /\ r.query_seq = st.local_seq
             /\ r.begun = stmt[s].begun /\ r.missed = stmt[s].missed
             /\ r.opened = stmt[s].opened
             /\ st.in_statement => r.tables = ToSet(st.tables)
             /\ st.in_statement => r.truncated = st.tables_truncated
             /\ st.in_statement /\ st.have_start => r.clock = st.clock
             /\ (\E rules \in stmt[s].seen :
                   Permits(rules, stmt[s], session[s], st.current_db)) =>
                  r.permitted
<1> DEFINE p == \E rules \in stmt[s].seen :
                  Permits(rules, stmt[s], session[s], st.current_db)
           c == IF st.in_statement /\ st.have_start THEN st.clock ELSE 0
           q == IF st.in_statement THEN ToSet(st.tables) ELSE {}
           b == st.in_statement /\ st.tables_truncated
<1>1. Record(s, st) =
        [session |-> session[s], n |-> stmt[s].n, query_seq |-> st.local_seq,
         tables |-> q, truncated |-> b, clock |-> c,
         begun |-> stmt[s].begun, missed |-> stmt[s].missed,
         opened |-> stmt[s].opened, permitted |-> p]
  BY Zenon DEF Record
<1>2. /\ st.in_statement => q = ToSet(st.tables)
      /\ st.in_statement /\ st.have_start => c = st.clock
  OBVIOUS
<1>3. st.in_statement => b = st.tables_truncated
  <2>1. st.tables_truncated \in BOOLEAN
    BY DEF EntryType
  <2>2. QED
    BY <2>1
<1> HIDE DEF p, c, q, b
<1>4. /\ Record(s, st).session = session[s] /\ Record(s, st).n = stmt[s].n
      /\ Record(s, st).query_seq = st.local_seq /\ Record(s, st).tables = q
      /\ Record(s, st).truncated = b /\ Record(s, st).clock = c
      /\ Record(s, st).begun = stmt[s].begun
      /\ Record(s, st).missed = stmt[s].missed
      /\ Record(s, st).opened = stmt[s].opened
      /\ Record(s, st).permitted = p
  BY <1>1
<1>5. p => Record(s, st).permitted
  BY <1>4
<1>6. QED
  BY <1>2, <1>3, <1>4, <1>5 DEF p

(* A step adds to the log at most the record of the statement it ends. *)
LEMMA LogChanges ==
  ASSUME TypeInv, StepInv, [Next]_vars
  PROVE  \/ logged' = logged
         \/ \E s \in Slot :
              /\ HandleStatus(s)
              /\ command_bit(stmt[s].cmd) \in
                   AllowedCommands(Tracked(s), command_bit(stmt[s].cmd),
                                   session[s])
              /\ logged' = logged \union {Record(s, Tracked(s))}
<1>1. ASSUME NEW s \in Slot, SlotStep(s), ~HandleStatus(s)
      PROVE  logged' = logged
  BY <1>1 DEF SlotStep, Connect, Dispatch, Disconnect, RaiseLog, RaiseTable,
              RaiseStatus, Raise, Finish, HandleLog, HandleTable,
              StatusThrows, GetStateThrows
<1>2. ASSUME NEW s \in Slot, HandleStatus(s)
      PROVE  \/ logged' = logged
             \/ /\ command_bit(stmt[s].cmd) \in
                     AllowedCommands(Tracked(s), command_bit(stmt[s].cmd),
                                     session[s])
                /\ logged' = logged \union {Record(s, Tracked(s))}
  BY <1>2, StatusEffect
<1>3. AdminStep \/ UNCHANGED vars => logged' = logged
  BY AdminEffect, StutterSame
<1>4. QED
  BY <1>1, <1>2, <1>3, NextCases

(* A command the callback finds allowed is one a rule set seen permits. *)
LEMMA AllowedIsPermitted ==
  ASSUME NEW st \in EntryType, NEW command \in CommandType, NEW conn_id,
         Justified(st.cmd_mask, command.seen, command.opened),
         active_rules \in command.seen,
         command_bit(command.cmd) \in
           AllowedCommands(st, command_bit(command.cmd), conn_id)
  PROVE  \E rules \in command.seen :
           Permits(rules, command, conn_id, st.current_db)
<1> DEFINE bit == command_bit(command.cmd)
           mask == IF st.in_statement THEN st.cmd_mask ELSE {}
<1>1. CASE bit \in mask
  <2>1. bit \in st.cmd_mask
    BY <1>1
  <2>2. PICK rules \in command.seen, t \in command.opened :
          PermitsTable(rules, bit, t)
    BY <2>1 DEF Justified
  <2>3. Permits(rules, command, conn_id, st.current_db)
    BY <2>2 DEF Permits
  <2>4. QED
    BY <2>3
<1>2. CASE bit \notin mask /\ match_connection(active_rules, conn_id)
  <2>1. Permits(active_rules, command, conn_id, st.current_db)
    BY <1>2 DEF Permits
  <2>2. QED
    BY <2>1
<1>3. CASE bit \notin mask /\ ~match_connection(active_rules, conn_id)
  <2>1. bit \in match_schema(active_rules, st.current_db)
    <3>1. bit \in AllowedCommands(st, bit, conn_id)
      OBVIOUS
    <3> HIDE DEF bit
    <3>2. QED
      BY <1>3, <3>1 DEF AllowedCommands
  <2>2. Permits(active_rules, command, conn_id, st.current_db)
    BY <2>1 DEF Permits
  <2>3. QED
    BY <2>2
<1>4. QED
  BY <1>1, <1>2, <1>3

(* The record of a statement whose dispatch was seen is exact. *)
LEMMA RecordIsExact ==
  ASSUME TypeInv, StepInv, EntryInv, NEW s \in Slot, HandleStatus(s),
         command_bit(stmt[s].cmd) \in
           AllowedCommands(Tracked(s), command_bit(stmt[s].cmd), session[s]),
         Record(s, Tracked(s)).begun
  PROVE  LET r == Record(s, Tracked(s))
         IN  /\ r.clock = r.n
             /\ r.tables \subseteq r.opened
             /\ ~r.missed /\ ~r.truncated =>
                  r.opened \ {StatsTable} \subseteq r.tables
             /\ r.permitted
<1> DEFINE st == Tracked(s)
           s0 == get_state(s)
           r  == Record(s, st)
<1>1. /\ event[s].kind = "status" /\ stmt[s] \in CommandType
      /\ s0 \in EntryType /\ StepAt(s)
  BY StatusEffect DEF TypeInv, StepInv
<1>2. /\ st \in EntryType /\ st.in_statement = s0.in_statement
      /\ st.have_start = s0.have_start /\ st.clock = s0.clock
      /\ st.cmd_mask = s0.cmd_mask /\ st.tables = s0.tables
      /\ st.tables_truncated = s0.tables_truncated
  <2> HIDE DEF st
  <2>1. st = track_current_db(s0, stmt[s])
    BY DEF st, Tracked
  <2>2. QED
    BY <1>1, <2>1, TrackEffect
<1> HIDE DEF st
<1>3. /\ r.n = stmt[s].n /\ r.begun = stmt[s].begun
      /\ r.missed = stmt[s].missed /\ r.opened = stmt[s].opened
      /\ st.in_statement => r.tables = ToSet(st.tables)
      /\ st.in_statement => r.truncated = st.tables_truncated
      /\ st.in_statement /\ st.have_start => r.clock = st.clock
      /\ (\E rules \in stmt[s].seen :
            Permits(rules, stmt[s], session[s], st.current_db)) => r.permitted
  BY <1>2, RecordFields
<1>4. stmt[s].begun
  BY <1>3 DEF st
<1>5. Open(s) /\ active_rules \in stmt[s].seen
  BY <1>1, <1>4, CommandNotIdle DEF Open, Executing, StepAt
<1>6. EntryOf(s, s0) /\ InFlight(s) = {}
  BY <1>1, <1>5 DEF EntryInv, EntryAt, InFlight
<1>7. r.permitted
  <2>1. Justified(st.cmd_mask, stmt[s].seen, stmt[s].opened)
    BY <1>2, <1>6 DEF EntryOf
  <2>2. command_bit(stmt[s].cmd) \in
          AllowedCommands(st, command_bit(stmt[s].cmd), session[s])
    BY DEF st
  <2>3. \E rules \in stmt[s].seen :
          Permits(rules, stmt[s], session[s], st.current_db)
    BY <1>1, <1>2, <1>5, <2>1, <2>2, AllowedIsPermitted
  <2>4. QED
    BY <1>3, <2>3
<1> HIDE DEF r, s0
<1>8. r.clock = r.n /\ r.tables \subseteq r.opened
  BY <1>2, <1>3, <1>6 DEF EntryOf
<1>9. ~r.missed /\ ~r.truncated => r.opened \ {StatsTable} \subseteq r.tables
  BY <1>2, <1>3, <1>6 DEF EntryOf
<1>10. QED
  BY <1>7, <1>8, <1>9 DEF r, st

(* Nothing else gets into the log. *)
LEMMA LoggedInvariant ==
  Spec => [](ObservedIsExact /\ ObservedIsPermitted)
<1>1. Init => ObservedIsExact /\ ObservedIsPermitted
  BY DEF Init, ObservedIsExact, ObservedIsPermitted
<1>2. ASSUME TypeInv, StepInv, EntryInv, ObservedIsExact, ObservedIsPermitted,
             [Next]_vars
      PROVE  ObservedIsExact' /\ ObservedIsPermitted'
  <2>1. CASE logged' = logged
    BY <1>2, <2>1 DEF ObservedIsExact, ObservedIsPermitted
  <2>2. ASSUME NEW s \in Slot, HandleStatus(s),
               command_bit(stmt[s].cmd) \in
                 AllowedCommands(Tracked(s), command_bit(stmt[s].cmd),
                                 session[s]),
               logged' = logged \union {Record(s, Tracked(s))}
        PROVE  ObservedIsExact' /\ ObservedIsPermitted'
    <3> DEFINE r == Record(s, Tracked(s))
    <3>1. r.begun =>
            /\ r.clock = r.n
            /\ r.tables \subseteq r.opened
            /\ ~r.missed /\ ~r.truncated =>
                 r.opened \ {StatsTable} \subseteq r.tables
            /\ r.permitted
      BY <1>2, <2>2, RecordIsExact
    <3> HIDE DEF r
    <3>2. logged' = logged \union {r}
      BY <2>2 DEF r
    <3>3. QED
      BY <1>2, <3>1, <3>2 DEF ObservedIsExact, ObservedIsPermitted
  <2>3. QED
    BY <1>2, <2>1, <2>2, LogChanges
<1>3. QED
  BY <1>1, <1>2, EntryInvariant, PTL DEF Spec

(* A statement whose dispatch was seen is logged with its own clock and    *)
(* tables, all of them when no event was missed and the buffer sufficed    *)
(* (state_begin_statement, the label reset of handle_status_event).        *)
THEOREM LoggedIsExact == Spec => []ObservedIsExact
BY LoggedInvariant, PTL

(* It is logged only if a rule set active while it ran permits it          *)
(* (handle_table_access_event and handle_status_event under filter_lock).  *)
THEOREM LoggedIsPermitted == Spec => []ObservedIsPermitted
BY LoggedInvariant, PTL

-----------------------------------------------------------------------------
(* The sequence numbers.                                                   *)

(* The counters only grow. *)
LEMMA CountersGrow ==
  ASSUME TypeInv, StepInv, [Next]_vars
  PROVE  \A n \in Nat : /\ n <= sessions => n <= sessions'
                        /\ n <= statements => n <= statements'
<1>1. sessions \in Nat /\ statements \in Nat
  BY DEF TypeInv
<1>2. /\ \A n \in Nat : n <= sessions => n <= sessions + 1
      /\ \A n \in Nat : n <= statements => n <= statements + 1
  BY <1>1
<1>3. /\ sessions' = sessions \/ sessions' = sessions + 1
      /\ statements' = statements \/ statements' = statements + 1
  <2>1. ASSUME NEW s \in Slot, SlotStep(s)
        PROVE  /\ sessions' = sessions \/ sessions' = sessions + 1
               /\ statements' = statements \/ statements' = statements + 1
    <3>1. CASE HandleLog(s) \/ HandleTable(s) \/ HandleStatus(s)
                 \/ StatusThrows(s)
      BY <3>1 DEF HandleLog, HandleTable, HandleStatus, StatusThrows,
                  serverVars
    <3>2. CASE Connect(s) \/ Dispatch(s)
      BY <3>2 DEF Connect, Dispatch
    <3>3. CASE \/ RaiseLog(s) \/ RaiseTable(s) \/ RaiseStatus(s)
               \/ Finish(s) \/ GetStateThrows(s) \/ Disconnect(s)
      BY <3>3 DEF RaiseLog, RaiseTable, RaiseStatus, Raise, Finish,
                  GetStateThrows, Disconnect
    <3>4. QED
      BY <2>1, <3>1, <3>2, <3>3 DEF SlotStep
  <2>2. AdminStep \/ UNCHANGED vars =>
          sessions' = sessions /\ statements' = statements
    BY AdminEffect, StutterSame
  <2>3. QED
    BY <2>1, <2>2, NextCases
<1>4. QED
  BY <1>2, <1>3

(* SessionInv is preserved. *)
LEMMA SessionStep ==
  ASSUME TypeInv, StepInv, SessionInv, [Next]_vars
  PROVE  SessionInv'
<1>1. session \in [Slot -> Nat] /\ sessions \in Nat
  BY DEF TypeInv
<1>2. ASSUME NEW s \in Slot, Connect(s)
      PROVE  SessionInv'
  <2>1. sessions + 1 \in Nat /\ \A n \in Nat : n <= sessions => n # sessions + 1
    BY <1>1
  <2>2. sessions + 1 <= sessions + 1
    BY <1>1
  <2>3. \A n \in Nat : n <= sessions => n <= sessions + 1
    BY <1>1
  <2>4. /\ session' = [session EXCEPT ![s] = sessions + 1]
        /\ sessions' = sessions + 1
    BY <1>2 DEF Connect
  <2>5. \A u \in Slot : session'[u] = IF u = s THEN sessions + 1 ELSE session[u]
    BY <1>1, <2>4
  <2>6. \A u \in Slot : session[u] \in Nat /\ session[u] <= sessions
    BY <1>1 DEF SessionInv
  <2>7. \A u \in Slot : session'[u] <= sessions'
    BY <2>2, <2>3, <2>4, <2>5, <2>6
  <2>8. \A u, v \in Slot :
          session'[u] = session'[v] /\ session'[u] # 0 => u = v
    BY <2>1, <2>5, <2>6 DEF SessionInv
  <2>9. QED
    BY <2>7, <2>8 DEF SessionInv
<1>3. ASSUME NEW s \in Slot, Disconnect(s)
      PROVE  SessionInv'
  <2>1. session' = [session EXCEPT ![s] = 0] /\ sessions' = sessions
    BY <1>3 DEF Disconnect
  <2>2. \A u \in Slot : session'[u] = IF u = s THEN 0 ELSE session[u]
    BY <1>1, <2>1
  <2>3. 0 <= sessions
    BY <1>1
  <2>4. QED
    BY <2>1, <2>2, <2>3 DEF SessionInv
<1>4. ASSUME NEW s \in Slot, SlotStep(s), ~Connect(s), ~Disconnect(s)
      PROVE  UNCHANGED <<session, sessions>>
  <2>1. CASE HandleLog(s) \/ HandleTable(s) \/ HandleStatus(s)
               \/ StatusThrows(s)
    BY <2>1 DEF HandleLog, HandleTable, HandleStatus, StatusThrows, serverVars
  <2>2. CASE \/ Dispatch(s) \/ RaiseLog(s) \/ RaiseTable(s) \/ RaiseStatus(s)
             \/ Finish(s) \/ GetStateThrows(s)
    BY <2>2 DEF Dispatch, RaiseLog, RaiseTable, RaiseStatus, Raise, Finish,
                GetStateThrows
  <2>3. QED
    BY <1>4, <2>1, <2>2 DEF SlotStep
<1>5. AdminStep \/ UNCHANGED vars => UNCHANGED <<session, sessions>>
  BY AdminEffect, StutterSame
<1>6. UNCHANGED <<session, sessions>> => SessionInv'
  BY DEF SessionInv
<1>7. QED
  BY <1>2, <1>3, <1>4, <1>5, <1>6, NextCases

(* The numbers of a record. *)
LEMMA RecordNumbers ==
  ASSUME TypeInv, StepInv, NEW s \in Slot, HandleStatus(s)
  PROVE  LET r == Record(s, Tracked(s))
         IN  /\ r.session = session[s] /\ r.n = stmt[s].n
             /\ r.query_seq = get_state(s).local_seq
             /\ r.begun = stmt[s].begun
             /\ r.session \in Nat /\ r.n \in Nat /\ r.query_seq \in Nat
             /\ session[s] # 0 /\ Executing(s) /\ r.n <= statements
             /\ r.begun => Open(s)
             /\ get_state(s)'.local_seq = get_state(s).local_seq
             /\ ~Open(s)'
             /\ UNCHANGED <<stmt, session, sessions, statements>>
<1> DEFINE st == Tracked(s)
           r  == Record(s, st)
<1>1. /\ event[s].kind = "status" /\ event'[s] = NoEvent
      /\ stmt[s] \in CommandType /\ get_state(s) \in EntryType
      /\ session[s] \in Nat /\ StepAt(s) /\ stmt[s] # Idle
      /\ UNCHANGED <<stmt, session, sessions, statements>>
      /\ get_state(s)'.local_seq = get_state(s).local_seq
  BY StatusEffect, CommandNotIdle DEF TypeInv, StepInv
<1>2. st \in EntryType /\ st.local_seq = get_state(s).local_seq
  <2> HIDE DEF st
  <2>1. st = track_current_db(get_state(s), stmt[s])
    BY DEF st, Tracked
  <2>2. QED
    BY <1>1, <2>1, TrackEffect
<1> HIDE DEF st
<1>3. /\ r.session = session[s] /\ r.n = stmt[s].n
      /\ r.query_seq = st.local_seq /\ r.begun = stmt[s].begun
  BY <1>2, RecordFields
<1>4. stmt[s].n \in Nat /\ st.local_seq \in Nat
  BY <1>1, <1>2 DEF CommandType, FoundRight, EntryType
<1>5. /\ session[s] # 0 /\ Executing(s) /\ stmt[s].n <= statements
      /\ stmt[s].phase = "ended"
  BY <1>1 DEF StepAt, Executing
<1>6. ~Open(s)'
  BY <1>1, <1>5 DEF Open, NoEvent
<1>7. stmt[s].begun => Open(s)
  BY <1>1, <1>5 DEF Open
<1> HIDE DEF r
<1>8. QED
  BY <1>1, <1>2, <1>3, <1>4, <1>5, <1>6, <1>7 DEF r, st

(* A step of its connection leaves an earlier record below the entry. *)
LEMMA SeqHere ==
  ASSUME TypeInv, StepInv, NEW s \in Slot, SlotStep(s), NEW r,
         r.session \in Nat, r.n \in Nat, r.query_seq \in Nat,
         r.session <= sessions, r.n <= statements, SeqFor(s, r)
  PROVE  SeqFor(s, r)'
<1>1. /\ TypeAt(s) /\ StepAt(s) /\ sessions \in Nat /\ statements \in Nat
  BY DEF TypeInv, TypeAt, StepInv
<1>2. /\ UNCHANGED state_map => get_state(s)' = get_state(s)
      /\ get_state(s).local_seq \in Nat
  BY <1>1 DEF get_state, TypeAt, EntryType
<1>3. NoEvent.kind = "none"
  BY DEF NoEvent
<1>4. CASE Connect(s)
  <2>1. r.session # sessions + 1
    BY <1>1
  <2>2. session'[s] = sessions + 1
    BY <1>4, ConnectEffect
  <2>3. QED
    BY <2>1, <2>2 DEF SeqFor
<1>5. CASE Dispatch(s)
  <2>1. r.n <= statements + 1
    BY <1>1
  <2>2. /\ UNCHANGED <<state_map, session>>
        /\ stmt'[s].n = statements + 1 /\ stmt'[s].begun = FALSE
    BY <1>5, DispatchEffect DEF Dispatch, pluginVars
  <2>3. ~Open(s)'
    BY <2>2 DEF Open
  <2>4. QED
    BY <1>2, <2>1, <2>2, <2>3 DEF SeqFor
<1>6. CASE Disconnect(s)
  BY <1>6, DisconnectEffect DEF SeqFor
<1>7. CASE RaiseLog(s) \/ RaiseTable(s) \/ RaiseStatus(s)
  <2>1. /\ Raised(s) /\ stmt[s].phase # "ended" /\ stmt[s] # Idle
    BY <1>7, RaiseLogEffect, RaiseTableEffect, RaiseStatusEffect, CommandNotIdle
       DEF Raised
  <2>2. /\ Open(s)' => Open(s)
        /\ Executing(s)
    BY <2>1 DEF Open, Executing, Raised
  <2>3. /\ stmt'[s].n = stmt[s].n /\ session' = session
        /\ get_state(s)' = get_state(s)
    BY <1>2, <2>1 DEF Raised
  <2>4. QED
    BY <2>2, <2>3 DEF SeqFor
<1>8. CASE Finish(s)
  <2>1. stmt'[s] = Idle /\ UNCHANGED <<state_map, session>>
    BY <1>8, FinishEffect
  <2>2. ~Executing(s)' /\ ~Open(s)'
    BY <2>1 DEF Executing, Open
  <2>3. QED
    BY <1>2, <2>1, <2>2 DEF SeqFor
<1>9. CASE HandleLog(s)
  <2> DEFINE old == get_state(s).local_seq
  <2>1. /\ stmt[s] \in CommandType /\ stmt[s] # Idle
        /\ stmt'[s] = [stmt[s] EXCEPT !.begun = TRUE]
        /\ get_state(s)'.local_seq = old + 1 /\ session' = session
    BY <1>9, HandleLogEffect, CommandNotIdle
  <2>2. stmt'[s].n = stmt[s].n /\ Executing(s)
    BY <2>1 DEF CommandType, FoundRight, Executing
  <2>3. r.query_seq <= old => r.query_seq <= old + 1 /\ r.query_seq < old + 1
    BY <1>2
  <2> HIDE DEF old
  <2>4. QED
    BY <2>1, <2>2, <2>3 DEF SeqFor, old
<1>10. CASE HandleTable(s)
  <2> DEFINE old == get_state(s).local_seq
             new == get_state(s)'.local_seq
  <2>1. /\ event[s].kind = "table" /\ stmt[s] \in CommandType /\ stmt[s] # Idle
        /\ UNCHANGED <<stmt, session>>
        /\ new >= old /\ get_state(s)' \in EntryType
    BY <1>10, HandleTableEffect, CommandNotIdle
  <2>2. stmt[s].phase # "ended"
    BY <1>1, <2>1 DEF StepAt, Executing
  <2>3. /\ Open(s)' => Open(s)
        /\ Executing(s)
    BY <2>1, <2>2 DEF Open, Executing
  <2>4. /\ r.query_seq <= old => r.query_seq <= new
        /\ r.query_seq < old => r.query_seq < new
    <3>1. new \in Nat /\ old \in Nat /\ new >= old
      BY <1>2, <2>1 DEF EntryType
    <3> HIDE DEF old, new
    <3>2. QED
      BY <3>1
  <2> HIDE DEF old, new
  <2>5. QED
    BY <2>1, <2>3, <2>4 DEF SeqFor, old, new
<1>11. CASE HandleStatus(s) \/ StatusThrows(s)
  <2>1. /\ event[s].kind = "status" /\ event'[s] = NoEvent /\ stmt[s] # Idle
        /\ UNCHANGED <<stmt, session>>
        /\ get_state(s)'.local_seq = get_state(s).local_seq
    BY <1>11, StatusEffect, CommandNotIdle
  <2>2. stmt[s].phase = "ended"
    BY <1>1, <2>1 DEF StepAt, Executing
  <2>3. ~Open(s)' /\ Executing(s)
    BY <1>3, <2>1, <2>2 DEF Open, Executing
  <2>4. QED
    BY <2>1, <2>3 DEF SeqFor
<1>12. CASE GetStateThrows(s)
  <2>1. /\ event'[s] = NoEvent /\ stmt[s] \in CommandType /\ stmt[s] # Idle
        /\ stmt'[s] = [stmt[s] EXCEPT !.missed = TRUE]
        /\ UNCHANGED <<state_map, session>>
    BY <1>12, GetStateThrowsEffect, CommandNotIdle
  <2>2. /\ stmt'[s].n = stmt[s].n /\ stmt'[s].phase = stmt[s].phase
        /\ stmt'[s].begun = stmt[s].begun
    BY <2>1 DEF CommandType, FoundRight
  <2>3. /\ Open(s)' => Open(s)
        /\ Executing(s)
    BY <1>3, <2>1, <2>2 DEF Open, Executing
  <2>4. QED
    BY <1>2, <2>1, <2>2, <2>3 DEF SeqFor
<1>13. QED
  BY <1>4, <1>5, <1>6, <1>7, <1>8, <1>9, <1>10, <1>11, <1>12 DEF SlotStep

(* So does every step. *)
LEMMA SeqOld ==
  ASSUME TypeInv, StepInv, [Next]_vars, NEW u \in Slot, NEW r,
         r.session \in Nat, r.n \in Nat, r.query_seq \in Nat,
         r.session <= sessions, r.n <= statements, SeqFor(u, r)
  PROVE  SeqFor(u, r)'
<1>1. ASSUME NEW s \in Slot, SlotStep(s)
      PROVE  SeqFor(u, r)'
  <2>1. CASE u = s
    BY <1>1, <2>1, SeqHere
  <2>2. CASE u # s
    <3>1. SameAt(u)
      BY <1>1, <2>2, SlotStepOthers
    <3>2. QED
      BY <3>1 DEF SameAt, SeqFor, Open, Executing
  <2>3. QED
    BY <2>1, <2>2
<1>2. CASE AdminStep
  <2>1. /\ get_state(u)' = get_state(u) /\ session' = session
        /\ Executing(u)' => Executing(u)
        /\ Executing(u) => SeenMore(stmt[u], stmt'[u])
        /\ event' = event
    BY <1>2, AdminSame
  <2>2. /\ Open(u)' => Open(u)
        /\ Executing(u) => stmt'[u].n = stmt[u].n
    BY <2>1 DEF Open, SeenMore
  <2>3. Open(u) => Executing(u)
    BY DEF Open
  <2>4. QED
    BY <2>1, <2>2, <2>3 DEF SeqFor
<1>3. CASE UNCHANGED vars
  BY <1>3, StutterSame DEF SeqFor, Open, Executing
<1>4. QED
  BY <1>1, <1>2, <1>3, NextCases

(* SeqInv is preserved. *)
LEMMA SeqStep ==
  ASSUME TypeInv, StepInv, SessionInv, SeqInv, [Next]_vars
  PROVE  SeqInv'
<1>1. ASSUME NEW r \in logged
      PROVE  /\ r.session \in Nat /\ r.n \in Nat /\ r.query_seq \in Nat
             /\ r.session <= sessions /\ r.n <= statements
             /\ r.session <= sessions' /\ r.n <= statements'
             /\ \A u \in Slot : SeqFor(u, r)'
  <2>1. /\ r.session \in Nat /\ r.n \in Nat /\ r.query_seq \in Nat
        /\ r.session <= sessions /\ r.n <= statements
        /\ \A u \in Slot : SeqFor(u, r)
    BY DEF SeqInv, LogType
  <2>2. \A u \in Slot : SeqFor(u, r)'
    BY <2>1, SeqOld
  <2>3. QED
    BY <2>1, <2>2, CountersGrow
<1>2. CASE logged' = logged
  BY <1>1, <1>2 DEF SeqInv, LogType, SeqFollowsOrder
<1>3. ASSUME NEW s \in Slot, HandleStatus(s),
             logged' = logged \union {Record(s, Tracked(s))}
      PROVE  SeqInv'
  <2>0. PICK new : new = Record(s, Tracked(s))
    OBVIOUS
  <2>1. /\ new.session = session[s] /\ new.n = stmt[s].n
        /\ new.query_seq = get_state(s).local_seq
        /\ new.begun = stmt[s].begun
        /\ new.session \in Nat /\ new.n \in Nat /\ new.query_seq \in Nat
        /\ session[s] # 0 /\ Executing(s) /\ new.n <= statements
        /\ new.begun => Open(s)
        /\ get_state(s)'.local_seq = get_state(s).local_seq
        /\ ~Open(s)'
        /\ UNCHANGED <<stmt, session, sessions, statements>>
    BY <1>3, <2>0, RecordNumbers
  <2>2. logged' = logged \union {new}
    BY <1>3, <2>0
  <2>3. new.session <= sessions
    BY <2>1 DEF SessionInv
  <2>4. new.n <= new.n /\ new.query_seq <= new.query_seq /\ ~(new.n < new.n)
    BY <2>1
  <2>5. \A u \in Slot : SeqFor(u, new)'
    <3>1. SeqFor(s, new)'
      BY <2>1, <2>4 DEF SeqFor
    <3>2. ASSUME NEW u \in Slot, u # s
          PROVE  SeqFor(u, new)'
      BY <2>1, <3>2 DEF SeqFor, SessionInv
    <3>3. QED
      BY <3>1, <3>2
  <2>6. ASSUME NEW r \in logged, r.session = new.session, r.begun, new.begun
        PROVE  /\ r.n < new.n => r.query_seq < new.query_seq
               /\ ~(new.n < r.n)
    <3>1. /\ r.n <= new.n
          /\ r.n < new.n => r.query_seq < new.query_seq
      BY <2>1, <2>6 DEF SeqInv, SeqFor
    <3>2. ~(new.n < r.n)
      BY <1>1, <2>1, <3>1
    <3>3. QED
      BY <3>1, <3>2
  <2>7. SeqFollowsOrder'
    BY <2>2, <2>4, <2>6 DEF SeqInv, SeqFollowsOrder
  <2>8. LogType'
    BY <1>1, <2>1, <2>2 DEF LogType
  <2>9. \A r \in logged' : r.session <= sessions' /\ r.n <= statements'
    BY <1>1, <2>1, <2>2, <2>3
  <2>10. \A u \in Slot : \A r \in logged' : SeqFor(u, r)'
    BY <1>1, <2>2, <2>5
  <2>11. QED
    BY <2>7, <2>8, <2>9, <2>10 DEF SeqInv
<1>4. QED
  BY <1>2, <1>3, LogChanges

(* query_seq follows the order of a connection's statements whose dispatch *)
(* was seen (the ++ of state_begin_statement, at an entry that lives as    *)
(* long as the connection or longer).                                      *)
THEOREM NumbersFollowOrder == Spec => []SeqFollowsOrder
<1>1. Init => SessionInv /\ SeqInv
  BY DEF Init, SessionInv, SeqInv, LogType, SeqFollowsOrder
<1>2. TypeInv /\ StepInv /\ SessionInv /\ SeqInv /\ [Next]_vars =>
        SessionInv' /\ SeqInv'
  BY SessionStep, SeqStep
<1>3. SeqInv => SeqFollowsOrder
  BY DEF SeqInv
<1>4. QED
  BY <1>1, <1>2, <1>3, TypeStepInvariant, PTL DEF Spec

-----------------------------------------------------------------------------
(* No statement the filters ask for is missed.                             *)

(* Fewer tables are easier to cover. *)
LEMMA CompleteShrinks ==
  ASSUME NEW mask, NEW seen, NEW opened, Complete(mask, seen, opened),
         NEW fewer, fewer \subseteq opened
  PROVE  Complete(mask, seen, fewer)
BY DEF Complete

(* Handling a TABLE_ACCESS covers its table. *)
LEMMA CompleteAdds ==
  ASSUME NEW st0, NEW st1, NEW t, NEW seen, NEW opened,
         Complete(st0.cmd_mask, seen, opened \ {t}), Added(st0, st1, t),
         active_rules \in seen
  PROVE  Complete(st1.cmd_mask, seen, opened)
<1> SUFFICES ASSUME NEW rules \in seen, NEW bit \in CommandBits,
                    NEW u \in opened, seen = {rules},
                    PermitsTable(rules, bit, u)
             PROVE  bit \in st1.cmd_mask
  BY DEF Complete
<1>1. CASE u = t
  <2>1. rules = active_rules
    OBVIOUS
  <2>2. QED
    BY <1>1, <2>1 DEF Added
<1>2. CASE u # t
  <2>1. bit \in st0.cmd_mask
    BY <1>2 DEF Complete
  <2>2. QED
    BY <2>1 DEF Added
<1>3. QED
  BY <1>1, <1>2

(* A step leaves the mask of its own connection's command complete. *)
LEMMA MaskHere ==
  ASSUME TypeInv, StepInv, EntryInv, MaskInv, NEW s \in Slot, SlotStep(s)
  PROVE  MaskAt(s)'
<1>1. TypeAt(s) /\ StepAt(s) /\ EntryAt(s) /\ MaskAt(s)
  BY DEF TypeInv, TypeAt, StepInv, EntryInv, MaskInv
<1>2. UNCHANGED state_map => get_state(s)' = get_state(s)
  BY DEF get_state
<1>3. NoEvent.kind = "none"
  BY DEF NoEvent
<1> SUFFICES ASSUME Open(s)', ~stmt'[s].missed
             PROVE  Complete(get_state(s)'.cmd_mask, stmt'[s].seen,
                             stmt'[s].opened \ InFlight(s)')
  BY DEF MaskAt
<1>4. CASE Connect(s)
  BY <1>1, <1>2, <1>4, ConnectEffect DEF MaskAt, Open, InFlight, Executing
<1>5. CASE Dispatch(s)
  BY <1>5, DispatchEffect DEF Open
<1>6. CASE Disconnect(s) \/ Finish(s)
  BY <1>6, DisconnectEffect, FinishEffect DEF Open, Executing
<1>7. CASE RaiseLog(s)
  <2>1. stmt[s] # Idle /\ stmt[s].phase = "dispatched"
    BY <1>7 DEF RaiseLog
  <2>2. ~stmt[s].begun
    BY <1>1, <2>1 DEF StepAt, Executing
  <2>3. ~stmt'[s].begun
    BY <1>7, <2>2, RaiseLogEffect DEF Raised
  <2>4. QED
    BY <2>3 DEF Open
<1>8. CASE RaiseTable(s) \/ RaiseStatus(s)
  <2>1. /\ Raised(s) /\ stmt[s].phase = "running"
        /\ event'[s] \in EventType
    BY <1>8, RaiseTableEffect, RaiseStatusEffect
  <2>2. ~stmt[s].missed /\ event'[s] # NoEvent /\ InFlight(s) = {}
    BY <1>3, <2>1 DEF Raised, InFlight
  <2>3. Open(s)
    BY <2>1, CommandNotIdle DEF Open, Raised, Executing
  <2>4. Complete(get_state(s).cmd_mask, stmt[s].seen, stmt[s].opened)
    <3>1. stmt[s].opened \ {} = stmt[s].opened
      OBVIOUS
    <3>2. QED
      BY <1>1, <2>2, <2>3, <3>1 DEF MaskAt
  <2>5. stmt'[s].opened \ InFlight(s)' \subseteq stmt[s].opened
    <3>1. CASE RaiseTable(s)
      <4>1. PICK t \in Tables :
              /\ stmt'[s].opened = stmt[s].opened \union {t}
              /\ event'[s].kind = "table" => event'[s].table = t
        BY <3>1, RaiseTableEffect
      <4>2. event'[s].kind = "table"
        BY <2>1, <2>2, <3>1, RaiseTableEffect, EventKinds
      <4>3. InFlight(s)' = {t}
        BY <4>1, <4>2 DEF InFlight
      <4>4. QED
        BY <4>1, <4>3
    <3>2. CASE RaiseStatus(s)
      BY <3>2, RaiseStatusEffect
    <3>3. QED
      BY <1>8, <3>1, <3>2
  <2>6. get_state(s)' = get_state(s) /\ stmt'[s].seen = stmt[s].seen
    BY <1>2, <2>1 DEF Raised
  <2>7. QED
    BY <2>4, <2>5, <2>6, CompleteShrinks
<1>9. CASE HandleLog(s)
  <2>1. /\ event[s].kind = "log" /\ stmt[s] \in CommandType
        /\ stmt'[s] = [stmt[s] EXCEPT !.begun = TRUE]
    BY <1>9, HandleLogEffect
  <2>2. stmt[s].opened = {}
    BY <1>1, <2>1, CommandNotIdle DEF StepAt, Executing
  <2>3. stmt'[s].opened = {}
    BY <2>1, <2>2 DEF CommandType, FoundRight
  <2>4. QED
    BY <2>3 DEF Complete
<1>10. CASE HandleTable(s)
  <2> DEFINE t == event[s].table
             st0 == get_state(s)
             st1 == get_state(s)'
  <2>1. /\ event[s].kind = "table" /\ event'[s] = NoEvent /\ stmt' = stmt
        /\ stmt[s] \in CommandType
        /\ st0.in_statement => Added(st0, st1, t)
    BY <1>10, HandleTableEffect
  <2>2. active_rules \in stmt[s].seen /\ stmt[s].phase = "running"
    BY <1>1, <2>1, CommandNotIdle DEF StepAt, Executing
  <2>3. Open(s) /\ ~stmt[s].missed
    BY <2>1, <2>2 DEF Open, Executing
  <2>4. Added(st0, st1, t)
    BY <1>1, <2>1, <2>3 DEF EntryAt, EntryOf
  <2>5. InFlight(s) = {t} /\ InFlight(s)' = {}
    BY <1>3, <2>1 DEF InFlight
  <2>6. Complete(st0.cmd_mask, stmt[s].seen, stmt[s].opened \ {t})
    BY <1>1, <2>3, <2>5 DEF MaskAt
  <2> HIDE DEF t, st0, st1
  <2>7. Complete(st1.cmd_mask, stmt[s].seen, stmt[s].opened)
    BY <2>2, <2>4, <2>6, CompleteAdds
  <2>8. stmt[s].opened \ {} = stmt[s].opened
    OBVIOUS
  <2>9. QED
    BY <2>1, <2>5, <2>7, <2>8 DEF st1
<1>11. CASE HandleStatus(s) \/ StatusThrows(s)
  <2>1. event[s].kind = "status" /\ event'[s] = NoEvent /\ stmt' = stmt
        /\ stmt[s] \in CommandType
    BY <1>11, StatusEffect
  <2>2. stmt'[s].phase = "ended"
    BY <1>1, <2>1, CommandNotIdle DEF StepAt, Executing
  <2>3. QED
    BY <1>3, <2>1, <2>2 DEF Open
<1>12. CASE GetStateThrows(s)
  <2>1. stmt[s] \in CommandType /\ stmt'[s] = [stmt[s] EXCEPT !.missed = TRUE]
    BY <1>12, GetStateThrowsEffect
  <2>2. stmt'[s].missed = TRUE
    BY <2>1 DEF CommandType, FoundRight
  <2>3. QED
    BY <2>2
<1>13. QED
  BY <1>4, <1>5, <1>6, <1>7, <1>8, <1>9, <1>10, <1>11, <1>12 DEF SlotStep

(* MaskInv is preserved. *)
LEMMA MaskStep ==
  ASSUME TypeInv, StepInv, EntryInv, MaskInv, [Next]_vars
  PROVE  MaskInv'
<1> SUFFICES ASSUME NEW u \in Slot
             PROVE  MaskAt(u)'
  BY DEF MaskInv
<1>1. MaskAt(u)
  BY DEF MaskInv
<1>2. ASSUME NEW s \in Slot, SlotStep(s)
      PROVE  MaskAt(u)'
  <2>1. CASE u = s
    BY <1>2, <2>1, MaskHere
  <2>2. CASE u # s
    <3>1. SameAt(u)
      BY <1>2, <2>2, SlotStepOthers
    <3>2. QED
      BY <1>1, <3>1 DEF SameAt, MaskAt, Open, InFlight, Executing
  <2>3. QED
    BY <2>1, <2>2
<1>3. CASE AdminStep
  <2>1. SUFFICES ASSUME Open(u)', ~stmt'[u].missed
                 PROVE  Complete(get_state(u)'.cmd_mask, stmt'[u].seen,
                                 stmt'[u].opened \ InFlight(u)')
    BY DEF MaskAt
  <2>2. /\ get_state(u)' = get_state(u) /\ event' = event
        /\ Executing(u) /\ SeenMore(stmt[u], stmt'[u])
    BY <1>3, <2>1, AdminSame DEF Open
  <2>3. Complete(get_state(u).cmd_mask, stmt[u].seen,
                 stmt[u].opened \ InFlight(u))
    BY <1>1, <2>1, <2>2 DEF MaskAt, Open, SeenMore
  <2>4. active_rules \in stmt[u].seen /\ stmt[u].seen \subseteq stmt'[u].seen
    BY <2>2 DEF StepInv, StepAt, SeenMore
  <2>5. \A rules : stmt'[u].seen = {rules} => stmt[u].seen = {rules}
    BY <2>4
  <2>6. /\ InFlight(u)' = InFlight(u) /\ stmt'[u].opened = stmt[u].opened
    BY <2>2 DEF InFlight, SeenMore
  <2>7. QED
    BY <2>2, <2>3, <2>5, <2>6 DEF Complete
<1>4. CASE UNCHANGED vars
  BY <1>1, <1>4, StutterSame DEF MaskAt, Open, InFlight, Executing
<1>5. QED
  BY <1>2, <1>3, <1>4, NextCases

(* The threshold is a number. *)
ThresholdType == opt_min_duration_ms \in 0..MaxDuration

(* SET GLOBAL keeps it one. *)
LEMMA ThresholdStep ==
  ASSUME ThresholdType, [Next]_vars
  PROVE  ThresholdType'
<1>1. ASSUME NEW s \in Slot, SlotStep(s)
      PROVE  ThresholdType'
  BY <1>1, SlotStepAdmin DEF adminVars, ThresholdType
<1>2. CASE AdminStep
  BY <1>2 DEF AdminStep, SetEnabled, SetMinDuration, UpdateFilterList,
              ThresholdType
<1>3. CASE UNCHANGED vars
  BY <1>3 DEF vars, pluginVars, adminVars, ThresholdType
<1>4. QED
  BY <1>1, <1>2, <1>3, NextCases

(* A command the active rules permit is one the callback finds allowed,    *)
(* when its mask is complete.                                              *)
LEMMA PermittedIsAllowed ==
  ASSUME NEW st \in EntryType, NEW command \in CommandType, NEW conn_id,
         st.in_statement, command.seen = {active_rules},
         Complete(st.cmd_mask, command.seen, command.opened),
         Permits(active_rules, command, conn_id, st.current_db)
  PROVE  command_bit(command.cmd) \in
           AllowedCommands(st, command_bit(command.cmd), conn_id)
<1> DEFINE bit == command_bit(command.cmd)
<1>1. bit \in CommandBits
  BY DEF command_bit, CommandBits
<1>2. \/ \E t \in command.opened : PermitsTable(active_rules, bit, t)
      \/ match_connection(active_rules, conn_id)
      \/ bit \in match_schema(active_rules, st.current_db)
  BY DEF Permits
<1>3. bit \in match_schema(active_rules, st.current_db) => st.current_db # NoDb
  BY DEF match_schema, NoDb
<1> HIDE DEF bit
<1>4. ASSUME bit \in st.cmd_mask
      PROVE  bit \in AllowedCommands(st, bit, conn_id)
  BY <1>4 DEF AllowedCommands
<1>5. ASSUME bit \notin st.cmd_mask
      PROVE  bit \in AllowedCommands(st, bit, conn_id)
  <2>1. \A t \in command.opened : ~PermitsTable(active_rules, bit, t)
    BY <1>1, <1>5 DEF Complete
  <2>2. \/ match_connection(active_rules, conn_id)
        \/ /\ bit \in match_schema(active_rules, st.current_db)
           /\ st.current_db # NoDb
    BY <1>2, <1>3, <2>1
  <2>3. QED
    BY <1>1, <1>5, <2>2 DEF AllowedCommands
<1>6. QED
  BY <1>4, <1>5 DEF bit

(* No statement the filters ask for is missed: one whose events the plugin *)
(* saw, under one rule set that permits it and slower than min_duration_ms *)
(* if that is set, is logged when its GENERAL_STATUS is handled            *)
(* (handle_table_access_event, handle_status_event).                       *)
THEOREM WantedIsLogged == Spec => PermittedIsLogged
<1> DEFINE Wanted(s) ==
      HandleStatus(s) =>
        LET st == track_current_db(get_state(s), stmt[s])
        IN  /\ is_query_command(stmt[s]) /\ stmt[s].begun /\ ~stmt[s].missed
            /\ stmt[s].seen = {active_rules}
            /\ Permits(active_rules, stmt[s], session[s], st.current_db)
            /\ opt_min_duration_ms = 0 \/ event[s].ms > opt_min_duration_ms
            => Record(s, st) \in logged'
<1>1. Init => MaskInv /\ ThresholdType
  BY DEF Init, MaskInv, MaskAt, Open, Executing, ThresholdType
<1>2. TypeInv /\ StepInv /\ EntryInv /\ MaskInv /\ ThresholdType /\ [Next]_vars
        => MaskInv' /\ ThresholdType'
  BY MaskStep, ThresholdStep
<1>3. ASSUME TypeInv, StepInv, EntryInv, MaskInv, ThresholdType,
             NEW s \in Slot, HandleStatus(s), is_query_command(stmt[s]),
             stmt[s].begun, ~stmt[s].missed, stmt[s].seen = {active_rules},
             Permits(active_rules, stmt[s], session[s], Tracked(s).current_db),
             opt_min_duration_ms = 0 \/ event[s].ms > opt_min_duration_ms
      PROVE  Record(s, Tracked(s)) \in logged'
  <2> DEFINE st  == Tracked(s)
             s0  == get_state(s)
             bit == command_bit(stmt[s].cmd)
  <2>1. /\ event[s].kind = "status" /\ stmt[s] \in CommandType
        /\ s0 \in EntryType /\ StepAt(s) /\ event[s] \in EventType
    BY <1>3, StatusEffect DEF TypeInv, StepInv
  <2>2. /\ st \in EntryType /\ st.in_statement = s0.in_statement
        /\ st.have_start = s0.have_start /\ st.clock = s0.clock
        /\ st.cmd_mask = s0.cmd_mask
    <3> HIDE DEF st
    <3>1. st = track_current_db(s0, stmt[s])
      BY DEF st, Tracked
    <3>2. QED
      BY <2>1, <3>1, TrackEffect
  <2>3. Open(s) /\ InFlight(s) = {}
    BY <1>3, <2>1, CommandNotIdle DEF Open, Executing, StepAt, InFlight
  <2>4. st.in_statement /\ st.have_start /\ st.clock = stmt[s].n
    BY <1>3, <2>2, <2>3 DEF EntryInv, EntryAt, EntryOf
  <2>5. Complete(st.cmd_mask, stmt[s].seen, stmt[s].opened)
    <3>1. stmt[s].opened \ {} = stmt[s].opened
      OBVIOUS
    <3>2. QED
      BY <1>3, <2>2, <2>3, <3>1 DEF MaskInv, MaskAt
  <2>6. ~TooFast(event[s].ms)
    <3>1. event[s].ms \in 0..MaxDuration /\ opt_min_duration_ms \in 0..MaxDuration
      BY <1>3, <2>1, EventKinds DEF ThresholdType
    <3>2. ~(event[s].ms < 0) /\ ~(event[s].ms < opt_min_duration_ms)
      BY <1>3, <3>1
    <3>3. QED
      BY <3>2 DEF TooFast
  <2> HIDE DEF st
  <2>7. Durations(s, st) = {event[s].ms}
    BY <2>4 DEF Durations
  <2>8. bit \in AllowedCommands(st, bit, session[s])
    BY <1>3, <2>1, <2>2, <2>4, <2>5, PermittedIsAllowed DEF st
  <2>9. \E duration_ms \in Durations(s, st) :
          logged' = IF TooFast(duration_ms) THEN logged
                    ELSE logged \union {Record(s, st)}
    BY <1>3, <2>8 DEF HandleStatus, st, Tracked
  <2>10. QED
    BY <2>6, <2>7, <2>9 DEF st
<1>4. ASSUME TypeInv, StepInv, EntryInv, MaskInv, ThresholdType
      PROVE  \A s \in Slot : Wanted(s)
  BY <1>3, <1>4 DEF Tracked
<1>5. QED
  BY <1>1, <1>2, <1>4, EntryInvariant, PTL DEF Spec, PermittedIsLogged

-----------------------------------------------------------------------------
(* The type invariant.                                                     *)

Fits(st) == Len(st.tables) <= MaxTables

FitInv == \A s \in Slot : Fits(get_state(s))

CountInv ==
  /\ session \in [Slot -> 0..MaxSessions] /\ sessions \in 0..MaxSessions
  /\ statements \in 0..MaxStatements

AdminInv == opt_enabled \in BOOLEAN /\ ThresholdType /\ lists \in Lists

(* An entry without tables fits. *)
LEMMA EmptyFits ==
  ASSUME NEW st, st.tables = <<>>
  PROVE  Fits(st)
<1>1. Len(<<>>) = 0 /\ MaxTables \in Nat
  BY CaptureAssumption
<1>2. Len(<<>>) <= MaxTables
  BY <1>1
<1>3. QED
  BY <1>2 DEF Fits

(* A table is appended only where there is room. *)
LEMMA AddTableFits ==
  ASSUME NEW st \in EntryType, Fits(st), NEW t \in Tables
  PROVE  Fits(state_add_table(st, t))
<1>1. /\ MaxTables \in Nat /\ st.tables \in Seq(Tables)
      /\ Len(st.tables) \in Nat
  BY CaptureAssumption DEF EntryType
<1>2. CASE t \in ToSet(st.tables)
  BY <1>2 DEF state_add_table
<1>3. CASE t \notin ToSet(st.tables) /\ Len(st.tables) >= MaxTables
  <2>1. state_add_table(st, t) = [st EXCEPT !.tables_truncated = TRUE]
    BY <1>3 DEF state_add_table
  <2>2. state_add_table(st, t).tables = st.tables
    BY <2>1 DEF EntryType
  <2>3. QED
    BY <2>2 DEF Fits
<1>4. CASE t \notin ToSet(st.tables) /\ ~(Len(st.tables) >= MaxTables)
  <2>1. state_add_table(st, t) = [st EXCEPT !.tables = Append(@, t)]
    BY <1>4 DEF state_add_table
  <2>2. state_add_table(st, t).tables = Append(st.tables, t)
    BY <2>1 DEF EntryType
  <2>3. Len(Append(st.tables, t)) <= MaxTables
    BY <1>1, <1>4
  <2>4. QED
    BY <2>2, <2>3 DEF Fits
<1>5. QED
  BY <1>2, <1>3, <1>4

(* TABLE_ACCESS does not overrun the buffer, for an ad-hoc statement       *)
(* either.                                                                 *)
LEMMA HandleTableFits ==
  ASSUME TypeInv, StepInv, FitInv, NEW s \in Slot, HandleTable(s)
  PROVE  Fits(get_state(s)')
<1>1. PICK t, s0, st, cmds, more :
        /\ t = event[s].table /\ s0 = get_state(s)
        /\ st = IF s0.in_statement THEN s0
                ELSE state_begin_statement(s0, FALSE, 0)
        /\ cmds = match_table(active_rules, t[1], t[2])
        /\ more = match_schema(active_rules, t[1])
  OBVIOUS
<1>2. event[s].kind = "table" /\ event[s] # NoEvent
  BY DEF HandleTable, NoEvent
<1>3. t \in Tables /\ s0 \in EntryType /\ Fits(s0)
  BY <1>1, <1>2, InCallback, EventKinds DEF TypeInv, FitInv
<1>4. st \in EntryType /\ Fits(st)
  <2>1. CASE s0.in_statement
    BY <1>1, <1>3, <2>1
  <2>2. CASE ~s0.in_statement
    <3>1. FALSE \in BOOLEAN /\ 0 \in Nat
      OBVIOUS
    <3>2. st = state_begin_statement(s0, FALSE, 0)
      BY <1>1, <2>2
    <3>3. st \in EntryType /\ st.tables = <<>>
      BY <1>3, <3>1, <3>2, BeginEffect
    <3>4. QED
      BY <3>3, EmptyFits
  <2>3. QED
    BY <2>1, <2>2
<1>5. PICK a : a = [state_add_table(st, t) EXCEPT !.cmd_mask = @ \union cmds
                                                             \union more]
  OBVIOUS
<1>6. PutState(s, st) \/ PutState(s, a)
  BY <1>1, <1>5 DEF HandleTable
<1>7. Fits(a)
  <2>1. PICK b : b = state_add_table(st, t)
    OBVIOUS
  <2>2. b \in EntryType /\ Fits(b)
    BY <1>3, <1>4, <2>1, AddTableEffect, AddTableFits
  <2>3. a.tables = b.tables
    BY <1>5, <2>1, <2>2 DEF EntryType
  <2>4. QED
    BY <2>2, <2>3 DEF Fits
<1>8. get_state(s)' = st \/ get_state(s)' = a
  BY <1>6, PutStateEffect
<1>9. QED
  BY <1>4, <1>7, <1>8

(* Nor does GENERAL_STATUS: the tables stay or go. *)
LEMMA StatusFits ==
  ASSUME TypeInv, StepInv, FitInv, NEW s \in Slot,
         HandleStatus(s) \/ StatusThrows(s)
  PROVE  Fits(get_state(s)')
<1>1. PICK s0, st : s0 = get_state(s) /\ st = track_current_db(s0, stmt[s])
  OBVIOUS
<1>2. event[s].kind = "status" /\ event[s] # NoEvent
  BY DEF HandleStatus, StatusThrows, NoEvent
<1>3. stmt[s] \in CommandType /\ s0 \in EntryType /\ Fits(s0)
  BY <1>1, <1>2, InCallback DEF TypeInv, FitInv
<1>4. st \in EntryType /\ st.tables = s0.tables
  BY <1>1, <1>3, TrackEffect
<1>5. Fits(st)
  BY <1>3, <1>4 DEF Fits
<1>6. ResetState(st).tables = <<>>
  BY <1>4 DEF ResetState, EntryType
<1>7. PutState(s, st) \/ PutState(s, ResetState(st))
  BY <1>1 DEF HandleStatus, StatusThrows
<1>8. get_state(s)' = st \/ get_state(s)' = ResetState(st)
  BY <1>7, PutStateEffect
<1>9. QED
  BY <1>5, <1>6, <1>8, EmptyFits

(* A step of a connection leaves its own tables in the buffer. *)
LEMMA FitHere ==
  ASSUME TypeInv, StepInv, FitInv, NEW s \in Slot, SlotStep(s)
  PROVE  Fits(get_state(s)')
<1>1. CASE \/ Connect(s) \/ Dispatch(s) \/ RaiseLog(s) \/ RaiseTable(s)
           \/ RaiseStatus(s) \/ Finish(s) \/ GetStateThrows(s)
  <2>1. state_map' = state_map
    BY <1>1 DEF Connect, Dispatch, RaiseLog, RaiseTable, RaiseStatus, Raise,
                Finish, GetStateThrows, pluginVars
  <2>2. get_state(s)' = get_state(s)
    BY <2>1 DEF get_state
  <2>3. QED
    BY <2>2 DEF FitInv
<1>2. CASE Disconnect(s)
  <2>1. FreshState.tables = <<>>
    BY DEF FreshState
  <2>2. QED
    BY <1>2, <2>1, DisconnectEffect, EmptyFits DEF FitInv
<1>3. CASE HandleLog(s)
  BY <1>3, HandleLogEffect, EmptyFits
<1>4. CASE HandleTable(s)
  BY <1>4, HandleTableFits
<1>5. CASE HandleStatus(s) \/ StatusThrows(s)
  BY <1>5, StatusFits
<1>6. QED
  BY <1>1, <1>2, <1>3, <1>4, <1>5 DEF SlotStep

(* FitInv is preserved. *)
LEMMA FitStep ==
  ASSUME TypeInv, StepInv, FitInv, [Next]_vars
  PROVE  FitInv'
<1>1. ASSUME NEW s \in Slot, SlotStep(s), NEW u \in Slot
      PROVE  Fits(get_state(u)')
  <2>1. CASE u = s
    BY <1>1, <2>1, FitHere
  <2>2. CASE u # s
    BY <1>1, <2>2, SlotStepOthers DEF SameAt, FitInv
  <2>3. QED
    BY <2>1, <2>2
<1>2. CASE AdminStep
  BY <1>2, AdminSame DEF FitInv, Fits
<1>3. CASE UNCHANGED vars
  BY <1>3, StutterSame DEF FitInv, Fits
<1>4. CASE \E s \in Slot : SlotStep(s)
  BY <1>1, <1>4 DEF FitInv, Fits
<1>5. QED
  BY <1>2, <1>3, <1>4, NextCases

(* The counters stay within their bounds. *)
LEMMA CountStep ==
  ASSUME TypeInv, StepInv, CountInv, [Next]_vars
  PROVE  CountInv'
<1>1. MaxSessions \in Nat /\ MaxStatements \in Nat
  BY CaptureAssumption
<1>2. /\ 0 \in 0..MaxSessions
      /\ sessions < MaxSessions => sessions + 1 \in 0..MaxSessions
      /\ statements < MaxStatements => statements + 1 \in 0..MaxStatements
  BY <1>1 DEF CountInv
<1>3. ASSUME NEW s \in Slot, SlotStep(s)
      PROVE  CountInv'
  <2>1. CASE HandleLog(s) \/ HandleTable(s) \/ HandleStatus(s)
               \/ StatusThrows(s)
    BY <2>1 DEF HandleLog, HandleTable, HandleStatus, StatusThrows,
                serverVars, CountInv
  <2>2. CASE Connect(s)
    BY <1>2, <2>2 DEF Connect, CountInv
  <2>3. CASE Dispatch(s)
    BY <1>2, <2>3 DEF Dispatch, CountInv
  <2>4. CASE Disconnect(s)
    BY <1>2, <2>4 DEF Disconnect, CountInv
  <2>5. CASE \/ RaiseLog(s) \/ RaiseTable(s) \/ RaiseStatus(s)
             \/ Finish(s) \/ GetStateThrows(s)
    BY <2>5 DEF RaiseLog, RaiseTable, RaiseStatus, Raise, Finish,
                GetStateThrows, CountInv
  <2>6. QED
    BY <1>3, <2>1, <2>2, <2>3, <2>4, <2>5 DEF SlotStep
<1>4. CASE AdminStep
  BY <1>4, AdminEffect DEF CountInv
<1>5. CASE UNCHANGED vars
  BY <1>5, StutterSame DEF CountInv
<1>6. QED
  BY <1>3, <1>4, <1>5, NextCases

(* The system variables keep their types. *)
LEMMA AdminInvStep ==
  ASSUME AdminInv, [Next]_vars
  PROVE  AdminInv'
<1>1. ThresholdType'
  BY ThresholdStep DEF AdminInv
<1>2. opt_enabled' \in BOOLEAN /\ lists' \in Lists
  <2>1. ASSUME NEW s \in Slot, SlotStep(s)
        PROVE  opt_enabled' \in BOOLEAN /\ lists' \in Lists
    BY <2>1, SlotStepAdmin DEF adminVars, AdminInv
  <2>2. CASE SetEnabled
    <3>1. opt_enabled' = ~opt_enabled /\ lists' = lists
      BY <2>2 DEF SetEnabled
    <3>2. (~opt_enabled) \in BOOLEAN
      BY Zenon DEF AdminInv
    <3>3. QED
      BY <3>1, <3>2 DEF AdminInv
  <2>3. CASE SetMinDuration
    BY <2>3 DEF SetMinDuration, AdminInv
  <2>4. ASSUME NEW l \in Lists, UpdateFilterList(l)
        PROVE  opt_enabled' \in BOOLEAN /\ lists' \in Lists
    BY <2>4 DEF UpdateFilterList, AdminInv
  <2>5. CASE UNCHANGED vars
    BY <2>5 DEF vars, pluginVars, adminVars, AdminInv
  <2>6. QED
    BY <2>1, <2>2, <2>3, <2>4, <2>5, NextCases DEF AdminStep
<1>3. QED
  BY <1>1, <1>2 DEF AdminInv

(* No rule set of the accepted lists grants anything but commands, so an   *)
(* entry's mask is one of commands.                                        *)
LEMMA MasksAreCommands == Masks \subseteq CommandBits
<1>1. ASSUME NEW r \in RuleSets, NEW t \in Tables
      PROVE  RuleMasks(r, t) \subseteq CommandBits
  <2>1. PICK l \in Lists : r = ParseAll(l).rules
    BY <1>1 DEF RuleSets
  <2>2. IsText(l) /\ ParseAll(l).ok
    BY <2>1, CaptureAssumption DEF IsText
  <2>3. /\ match_table(r, t[1], t[2]) \subseteq CommandBits
        /\ match_schema(r, t[1]) \subseteq CommandBits
    BY <2>1, <2>2, MatchIsCommands
  <2>4. QED
    BY <2>3 DEF RuleMasks
<1>2. QED
  BY <1>1 DEF Masks

(* TypeOK, for every Lists, Slot, table buffer and bound: whatever the     *)
(* callbacks of the connections and SET GLOBAL do in between, the buffer   *)
(* StatementState.tables is not overrun, an entry is complete, and its     *)
(* mask holds nothing but commands.                                        *)
THEOREM CaptureTypeCorrect == Spec => []TypeOK
<1>1. Init => FitInv /\ CountInv /\ AdminInv
  <2> SUFFICES ASSUME Init PROVE FitInv /\ CountInv /\ AdminInv
    OBVIOUS
  <2>1. FitInv
    <3>1. \A s \in Slot : get_state(s) = FreshState
      BY DEF Init, get_state
    <3>2. FreshState.tables = <<>>
      BY DEF FreshState
    <3>3. QED
      BY <3>1, <3>2, EmptyFits DEF FitInv
  <2>2. 0 \in 0..MaxSessions /\ 0 \in 0..MaxStatements
    BY CaptureAssumption
  <2>3. CountInv
    BY <2>2 DEF Init, CountInv
  <2>4. AdminInv
    BY DEF Init, AdminInv, ThresholdType
  <2>5. QED
    BY <2>1, <2>3, <2>4
<1>2. /\ TypeInv /\ StepInv /\ FitInv /\ CountInv /\ AdminInv
      /\ [Next]_vars
      => FitInv' /\ CountInv' /\ AdminInv'
  BY FitStep, CountStep, AdminInvStep
<1>3. ASSUME TypeInv, FitInv, CountInv, AdminInv
      PROVE  TypeOK
  <2>1. ASSUME NEW s \in DOMAIN state_map
        PROVE  state_map[s] \in StateType /\ Len(state_map[s].tables) <= MaxTables
    <3>1. s \in Slot /\ get_state(s) = state_map[s]
      BY <1>3 DEF TypeInv, get_state
    <3>2. state_map[s] \in EntryType /\ Fits(state_map[s])
      BY <1>3, <3>1 DEF TypeInv, FitInv
    <3>3. state_map[s].cmd_mask \in SUBSET CommandBits
      BY <3>2, MasksAreCommands DEF EntryType
    <3>4. state_map[s] \in StateType
      BY <3>2, <3>3 DEF EntryType, StateType, Scanned
    <3>5. QED
      BY <3>2, <3>4 DEF Fits
  <2>2. \A s \in Slot : event[s].kind \in {"none", "log", "table", "status"}
    BY <1>3, EventKinds DEF TypeInv
  <2>3. QED
    BY <1>3, <2>1, <2>2 DEF TypeOK, TypeInv, CountInv, AdminInv, ThresholdType
<1>4. QED
  BY <1>1, <1>2, <1>3, TypeStepInvariant, PTL DEF Spec
=============================================================================
