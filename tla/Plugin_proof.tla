----------------------------- MODULE Plugin_proof -----------------------------
(***************************************************************************)
(* Proofs about Plugin, for every set of statement threads and every queue *)
(* capacity.                                                               *)
(*                                                                         *)
(* CallInv says who may be in a callback in which phase of the plugin's    *)
(* life, LifeInv what exists in which phase, SinkInv what the TABLE writer *)
(* still has to do.  CallInv is inductive on its own.  TraceInv and        *)
(* CountInv count the callers that are on their way to an output or to a   *)
(* counter.                                                                *)
(***************************************************************************)
EXTENDS Plugin, FiniteSets, FiniteSetTheorems, TLAPS

Labels == {"none", "self", "forget", "handle", "FILE", "TABLE", "load", "store",
           "update"}

CallInv ==
  /\ phase \in Phases /\ plugin_ready \in BOOLEAN
  /\ plugin_ready <=> phase = "ready"
  /\ opt_output \in {"FILE", "TABLE"} /\ q_mutex \in {Admin, Nobody}
  /\ pc \in [Caller -> Labels]
  /\ phase # "ready" => \A c \in Caller \ {Writer} : pc[c] = "none"
  /\ pc[Writer] \in {"none", "self"}
  /\ pc[Admin] \in {"none", "update", "load", "store"}
  /\ \A t \in Thread : pc[t] # "update"

(* The three kinds of caller are different. *)
LEMMA Callers ==
  /\ Writer \in Caller /\ Admin \in Caller /\ Writer # Admin
  /\ \A t \in Thread : t \in Caller /\ t # Writer /\ t # Admin
BY PluginAssumption DEF Caller, Writer, Admin, Nobody

(* The initial states. *)
LEMMA CallInit == Init => CallInv
<1> SUFFICES ASSUME Init PROVE CallInv
  OBVIOUS
<1>1. plugin_ready = FALSE /\ plugin_ready \in BOOLEAN
  BY Zenon DEF Init
<1>2. QED
  BY <1>1, Callers DEF Init, CallInv, Phases, Labels

(* Whoever is in a callback but the writer finds the plugin ready, and the *)
(* writer gets no further than the self test.                              *)
LEMMA CallCallback ==
  ASSUME CallInv, NEW c \in Caller, CallbackStep(c)
  PROVE  CallInv'
<1> USE DEF CallInv
<1>1. UNCHANGED <<phase, plugin_ready, q_mutex, opt_output>>
  BY DEF CallbackStep, SelfTest, Forget, Handle, Throws, FileOutput,
         TableOutput, CountLoad, CountStore, lifeVars
<1>2. PICK label \in Labels \ {"update"} : Goto(c, label)
  BY DEF CallbackStep, SelfTest, Forget, Handle, Throws, FileOutput,
         TableOutput, CountLoad, CountStore, CountNext, Labels
<1>3. c = Writer => Goto(c, "none")
  BY DEF CallbackStep, SelfTest, Forget, Handle, Throws, FileOutput,
         TableOutput, CountLoad, CountStore, table_writer_is_self
<1>4. c = Admin => label \in {"none", "store"}
  <2>1. SUFFICES ASSUME c = Admin PROVE Goto(c, "none") \/ Goto(c, "store")
    BY <1>2 DEF Goto, Labels
  <2>2. QED
    BY <2>1 DEF CallbackStep, SelfTest, Forget, Handle, Throws, FileOutput,
                TableOutput, CountLoad, CountStore, Goto
<1>5. pc[c] # "none"
  BY DEF CallbackStep, SelfTest, Forget, Handle, Throws, FileOutput,
         TableOutput, CountLoad, CountStore
<1>6. QED
  BY <1>1, <1>2, <1>3, <1>4, <1>5, Callers DEF Goto

(* CallInv is inductive on its own. *)
LEMMA CallStep == CallInv /\ [Next]_vars => CallInv'
<1> SUFFICES ASSUME CallInv, [Next]_vars PROVE CallInv'
  OBVIOUS
<1>1. ASSUME NEW c \in Caller, CallbackStep(c) PROVE CallInv'
  BY <1>1, CallCallback
<1> USE Callers DEF CallInv
<1>2. CASE InstallBegins \/ InitWriters \/ InitStrings \/ InitFails
  <2>1. /\ phase # "ready" /\ phase' \in Phases \ {"ready"}
        /\ UNCHANGED <<plugin_ready, q_mutex, opt_output, pc>>
    BY <1>2 DEF InstallBegins, InitWriters, InitStrings, InitFails, Phases
  <2>2. QED
    BY <2>1
<1>3. CASE InitRules
  <2>1. /\ phase = "rules" /\ UNCHANGED <<q_mutex, opt_output, pc>>
        /\ \/ phase' = "ready" /\ plugin_ready' = TRUE
           \/ phase' \in {"fail", "aborted"} /\ UNCHANGED plugin_ready
    BY <1>3 DEF InitRules
  <2>2. plugin_ready' \in BOOLEAN
    BY <2>1, Zenon
  <2>3. QED
    BY <2>1, <2>2 DEF Phases
<1>4. CASE DeinitBegins
  <2>1. /\ phase' \in {"stop", "absent"} /\ plugin_ready' = FALSE
        /\ \A c \in Caller \ {Writer} : pc[c] = "none"
        /\ UNCHANGED <<q_mutex, opt_output, pc>>
    BY <1>4 DEF DeinitBegins
  <2>2. plugin_ready' \in BOOLEAN
    BY <2>1, Zenon
  <2>3. QED
    BY <2>1, <2>2 DEF Phases
<1>5. CASE DeinitStep
  <2>1. /\ phase # "ready" /\ phase' \in Phases \ {"ready"}
        /\ UNCHANGED <<plugin_ready, opt_output, pc>>
        /\ q_mutex' \in {q_mutex, Admin, Nobody}
    BY <1>5 DEF DeinitStep, RequestStop, ReleaseMutex, JoinWriter, DeinitFrees,
                Phases
  <2>2. QED
    BY <2>1
<1>6. ASSUME NEW t \in Thread, ClientNotify(t) PROVE CallInv'
  <2>1. plugin_ready /\ Goto(t, "self")
    BY <1>6 DEF ClientNotify, Notify
  <2>2. UNCHANGED <<phase, plugin_ready, q_mutex, opt_output>>
    BY <1>6 DEF ClientNotify, Notify, lifeVars
  <2>3. QED
    BY <2>1, <2>2 DEF Goto, Labels
<1>7. CASE WriterNotify
  <2>1. Goto(Writer, "self")
    BY <1>7 DEF WriterNotify, Notify
  <2>2. UNCHANGED <<phase, plugin_ready, q_mutex, opt_output>>
    BY <1>7 DEF WriterNotify, Notify, lifeVars
  <2>3. QED
    BY <2>1, <2>2 DEF Goto, Labels
<1>8. CASE SetOutput
  BY <1>8 DEF SetOutput, lifeVars
<1>9. CASE UpdateBegins \/ UpdateEnds
  <2>1. phase = "ready" /\ UNCHANGED <<phase, plugin_ready, q_mutex, opt_output>>
    BY <1>9 DEF UpdateBegins, UpdateEnds, lifeVars
  <2>2. \E label \in {"none", "update", "load"} : Goto(Admin, label)
    BY <1>9 DEF UpdateBegins, UpdateEnds, CountNext
  <2>3. QED
    BY <2>1, <2>2 DEF Goto, Labels
<1>10. CASE WriterStep \/ UNCHANGED vars
  BY <1>10 DEF WriterStep, vars, lifeVars
<1>11. QED
  BY <1>1, <1>2, <1>3, <1>4, <1>5, <1>6, <1>7, <1>8, <1>9, <1>10
     DEF Next, InitStep

(* CallInv is an invariant. *)
LEMMA CallInvariant == Spec => []CallInv
BY CallInit, CallStep, PTL DEF Spec

-----------------------------------------------------------------------------
(* What exists.                                                            *)

Early   == {"filter_lock", "state_map_lock", "state_map"}
Serving == {"ready", "stop", "stopping", "join", "free"}

LifeInv ==
  /\ live \in [Resource -> {0, 1}]
  /\ phase \in {"absent", "failed"} => \A r \in Resource : live[r] = 0
  /\ phase \in {"writers", "strings", "rules", "fail"} =>
       live["active_rules"] = 0 /\ \A r \in Early : live[r] = 1
  /\ phase \in {"strings", "rules", "fail"} => live["log_lock"] = 1
  /\ phase = "rules" => \A r \in Strings : live[r] = 1
  /\ phase \in Serving => \A r \in Resource : live[r] = 1

(* After every path through init and deinit, what the next step destroys   *)
(* was made.                                                               *)
LEMMA LifeStep == CallInv /\ LifeInv /\ [Next]_vars => LifeInv'
<1> SUFFICES ASSUME CallInv, LifeInv, [Next]_vars PROVE LifeInv'
  OBVIOUS
<1> USE DEF LifeInv, Resource, Locks, Pointers, Strings
<1>1. CASE InstallBegins
  BY <1>1 DEF InstallBegins, Make, Early, Serving
<1>2. CASE InitWriters
  BY <1>2 DEF InitWriters, Make, Early, Serving
<1>3. CASE InitStrings
  BY <1>3 DEF InitStrings, Make, Early, Serving
<1>4. CASE InitRules
  BY <1>4 DEF InitRules, Make, Early, Serving
<1>5. CASE InitFails
  BY <1>5 DEF InitFails, Destroy, Early, Serving
<1>6. CASE DeinitBegins
  <2>1. UNCHANGED live
    BY <1>6 DEF DeinitBegins
  <2>2. \/ phase = "ready" /\ phase' = "stop"
        \/ phase = "failed" /\ phase' = "absent"
    BY <1>6 DEF DeinitBegins, CallInv
  <2>3. QED
    BY <2>1, <2>2 DEF Serving, Early
<1>7. CASE RequestStop \/ ReleaseMutex \/ JoinWriter
  BY <1>7 DEF RequestStop, ReleaseMutex, JoinWriter, Serving, Early
<1>8. CASE DeinitFrees
  BY <1>8 DEF DeinitFrees, Destroy, Serving, Early
<1>9. CASE UNCHANGED lifeVars
  BY <1>9 DEF lifeVars
<1>10. CASE \/ \E t \in Thread : ClientNotify(t)
            \/ WriterNotify
            \/ \E c \in Caller : CallbackStep(c)
            \/ SetOutput \/ UpdateBegins \/ UpdateEnds
            \/ WriterStep \/ UNCHANGED vars
  <2>1. UNCHANGED lifeVars
    BY <1>10 DEF ClientNotify, WriterNotify, Notify, CallbackStep, SelfTest,
                 Forget, Handle, Throws, FileOutput, TableOutput, CountLoad,
                 CountStore, SetOutput, UpdateBegins, UpdateEnds, WriterStep,
                 vars
  <2>2. QED
    BY <2>1, <1>9
<1>11. QED
  BY <1>1, <1>2, <1>3, <1>4, <1>5, <1>6, <1>7, <1>8, <1>10
     DEF Next, InitStep, DeinitStep

(* LifeInv is an invariant. *)
LEMMA LifeInvariant == Spec => []LifeInv
<1>1. Init => LifeInv
  BY DEF Init, LifeInv, Serving, Resource, Locks, Pointers, Strings
<1>2. QED
  BY <1>1, LifeStep, CallInvariant, PTL DEF Spec

(* No callback and no SET GLOBAL uses what is not made yet or destroyed:   *)
(* all but the writer's own callbacks, which use nothing, happen while the *)
(* plugin is ready, when everything exists.                                *)
THEOREM NothingUsedAfterFree == Spec => []NoUseAfterFree
<1>1. CallInv /\ LifeInv => NoUseAfterFree
  <2> SUFFICES ASSUME CallInv, LifeInv, NEW c \in Caller, NEW r \in Uses(c)
               PROVE  live[r] = 1
    BY DEF NoUseAfterFree
  <2>1. CASE c = Writer
    BY <2>1 DEF CallInv, Uses
  <2>2. CASE c # Writer /\ phase = "ready"
    <3>1. Uses(c) \subseteq Resource
      BY DEF Uses, Resource, Locks, Pointers, Strings
    <3>2. QED
      BY <2>2, <3>1 DEF LifeInv, Serving
  <2>3. CASE c # Writer /\ phase # "ready"
    BY <2>3 DEF CallInv, Uses
  <2>4. QED
    BY <2>1, <2>2, <2>3
<1>2. QED
  BY <1>1, CallInvariant, LifeInvariant, PTL

-----------------------------------------------------------------------------
(* The TABLE writer.                                                       *)

SinkInv ==
  /\ up \in {0, 1} /\ accepted \in Nat /\ handled \in Nat
  /\ handled <= accepted
  /\ up = 0 => handled = accepted
  /\ phase \in {"absent", "writers", "failed", "free"} => up = 0

(* The queue is given up only when it is settled, and on every way out. *)
LEMMA SinkStep == CallInv /\ SinkInv /\ [Next]_vars => SinkInv'
<1> SUFFICES ASSUME CallInv, SinkInv, [Next]_vars PROVE SinkInv'
  OBVIOUS
<1> USE DEF SinkInv
<1>1. CASE InstallBegins \/ InitStrings \/ InitRules \/ DeinitBegins
             \/ RequestStop \/ ReleaseMutex \/ DeinitFrees
  <2>1. UNCHANGED sinkVars
    BY <1>1 DEF InstallBegins, InitStrings, InitRules, DeinitBegins,
                RequestStop, ReleaseMutex, DeinitFrees
  <2>2. phase' \in {"absent", "writers", "failed", "free"} =>
          phase \in {"absent", "failed", "free"}
    BY <1>1 DEF InstallBegins, InitStrings, InitRules, DeinitBegins,
                RequestStop, ReleaseMutex, DeinitFrees, CallInv
  <2>3. QED
    BY <2>1, <2>2 DEF sinkVars
<1>2. CASE InitWriters
  BY <1>2 DEF InitWriters, Sink!Open, sinkVars
<1>3. CASE InitFails \/ JoinWriter
  <2>1. CloseSink
    BY <1>3 DEF InitFails, JoinWriter
  <2>2. up' = 0 /\ UNCHANGED <<accepted, handled>> /\ handled = accepted
    BY <2>1 DEF CloseSink, Sink!Close, sinkVars
  <2>3. QED
    BY <2>2
<1>4. ASSUME NEW c \in Caller, TableOutput(c) PROVE SinkInv'
  <2>1. UNCHANGED phase
    BY <1>4 DEF TableOutput, lifeVars
  <2>2. Sink!Accept \/ UNCHANGED sinkVars
    BY <1>4 DEF TableOutput
  <2>3. QED
    BY <2>1, <2>2 DEF Sink!Accept, sinkVars
<1>5. CASE WriterStep
  <2>1. UNCHANGED phase /\ (Sink!Store \/ Sink!Settle)
    BY <1>5 DEF WriterStep, lifeVars
  <2>2. QED
    BY <2>1 DEF Sink!Store, Sink!Settle, Sink!Head1
<1>6. CASE \/ \E t \in Thread : ClientNotify(t)
           \/ WriterNotify
           \/ \E c \in Caller : CallbackStep(c) /\ ~TableOutput(c)
           \/ SetOutput \/ UpdateBegins \/ UpdateEnds
           \/ UNCHANGED vars
  <2>1. UNCHANGED <<sinkVars, phase>>
    BY <1>6 DEF ClientNotify, WriterNotify, Notify, CallbackStep, SelfTest,
                Forget, Handle, Throws, FileOutput, CountLoad, CountStore,
                SetOutput, UpdateBegins, UpdateEnds, vars, lifeVars
  <2>2. QED
    BY <2>1 DEF sinkVars
<1>7. QED
  BY <1>1, <1>2, <1>3, <1>4, <1>5, <1>6 DEF Next, InitStep, DeinitStep

(* SinkInv is an invariant. *)
LEMMA SinkInvariant == Spec => []SinkInv
<1>1. Init => SinkInv
  BY DEF Init, SinkInv, Sink!SinkInit
<1>2. QED
  BY <1>1, SinkStep, CallInvariant, PTL DEF Spec

(* When init has failed, wherever it did, or deinit is over, nothing is    *)
(* left of what was made and no event is unsettled.                        *)
THEOREM NothingIsLeaked == Spec => []NothingLeaks
<1>1. CallInv /\ LifeInv /\ SinkInv => NothingLeaks
  BY DEF CallInv, LifeInv, SinkInv, NothingLeaks
<1>2. QED
  BY <1>1, CallInvariant, LifeInvariant, SinkInvariant, PTL

-----------------------------------------------------------------------------
(* No statement is traced twice, and no INSERT of the writer at all.       *)

(* Statement threads whose callback has not come to an output yet. *)
Underway ==
  {t \in Thread : pc[t] \in {"self", "forget", "handle", "FILE", "TABLE"}}

TraceInv ==
  /\ statements \in Nat /\ lines \in Nat
  /\ IsFiniteSet(Underway)
  /\ lines + accepted + Cardinality(Underway) <= statements

(* Of l lines, a events and n threads underway one thread is gone, and     *)
(* there is one more line or event at most.                                *)
LEMMA OneOut ==
  ASSUME NEW l \in Nat, NEW a \in Nat, NEW n \in Nat, NEW s \in Nat,
         NEW l1 \in Nat, NEW a1 \in Nat,
         l + a + n <= s, l1 + a1 <= l + a + 1
  PROVE  l1 + a1 + (n - 1) <= s
OBVIOUS

(* A thread that is no longer underway has given its statement to the      *)
(* output once at most.                                                    *)
LEMMA LeavesUnderway ==
  ASSUME TraceInv, SinkInv, NEW t \in Thread, t \in Underway,
         Underway' = Underway \ {t}, UNCHANGED statements,
         lines' \in Nat, accepted' \in Nat,
         lines' + accepted' <= lines + accepted + 1
  PROVE  TraceInv'
<1>1. /\ IsFiniteSet(Underway \ {t})
      /\ Cardinality(Underway \ {t}) = Cardinality(Underway) - 1
  BY FS_RemoveElement DEF TraceInv
<1>2. Cardinality(Underway) \in Nat
  BY FS_CardinalityType DEF TraceInv
<1>3. IsFiniteSet(Underway') /\ Cardinality(Underway') = Cardinality(Underway) - 1
  BY <1>1
<1>4. lines \in Nat /\ accepted \in Nat /\ statements \in Nat
  BY DEF TraceInv, SinkInv
<1>5. lines + accepted + Cardinality(Underway) <= statements
  BY DEF TraceInv
<1>6. lines' + accepted' + (Cardinality(Underway) - 1) <= statements
  BY <1>2, <1>4, <1>5, OneOut
<1>7. QED
  BY <1>3, <1>4, <1>6 DEF TraceInv

(* Nothing TraceInv speaks of changes. *)
LEMMA TraceStutter ==
  ASSUME TraceInv, Underway' = Underway,
         UNCHANGED <<statements, lines, accepted>>
  PROVE  TraceInv'
<1>1. IsFiniteSet(Underway') /\ Cardinality(Underway') = Cardinality(Underway)
  BY DEF TraceInv
<1>2. QED
  BY <1>1 DEF TraceInv

(* A callback step of a statement thread leaves it underway or is its way  *)
(* out; one of another caller outputs nothing.                             *)
LEMMA TraceCallback ==
  ASSUME CallInv, SinkInv, TraceInv, NEW c \in Caller, CallbackStep(c)
  PROVE  TraceInv'
<1> DEFINE On == {"self", "forget", "handle", "FILE", "TABLE"}
<1>1. UNCHANGED statements
  BY DEF CallbackStep, SelfTest, Forget, Handle, Throws, FileOutput,
         TableOutput, CountLoad, CountStore, history
<1>2. PICK label \in Labels : Goto(c, label)
  BY DEF CallbackStep, SelfTest, Forget, Handle, Throws, FileOutput,
         TableOutput, CountLoad, CountStore, CountNext, Labels, CallInv
<1>3. \A x \in Caller : pc'[x] = IF x = c THEN label ELSE pc[x]
  BY <1>2 DEF Goto, CallInv
<1>4. lines' \in Nat /\ accepted' \in Nat
  BY DEF CallbackStep, SelfTest, Forget, Handle, Throws, FileOutput,
         TableOutput, CountLoad, CountStore, history, sinkVars, Sink!Accept,
         TraceInv, SinkInv
<1>5. \/ UNCHANGED <<lines, accepted>>
      \/ /\ pc[c] \in {"FILE", "TABLE"} /\ Goto(c, "load")
         /\ lines' + accepted' = lines + accepted + 1
  <2>1. CASE FileOutput(c)
    BY <2>1 DEF FileOutput, CountNext, sinkVars, SinkInv, TraceInv
  <2>2. CASE TableOutput(c)
    BY <2>2 DEF TableOutput, CountNext, sinkVars, history, Sink!Accept,
                SinkInv, TraceInv
  <2>3. CASE \/ SelfTest(c) \/ Forget(c) \/ Handle(c) \/ Throws(c)
             \/ CountLoad(c) \/ CountStore(c)
    BY <2>3 DEF SelfTest, Forget, Handle, Throws, CountLoad, CountStore,
                sinkVars, history
  <2>4. QED
    BY <2>1, <2>2, <2>3 DEF CallbackStep
<1>6. pc[c] \notin On => label \notin On
  <2>1. pc[c] \notin On => Goto(c, "store") \/ Goto(c, "none")
    BY DEF CallbackStep, SelfTest, Forget, Handle, Throws, FileOutput,
           TableOutput, CountLoad, CountStore
  <2>2. QED
    BY <1>2, <1>3, <2>1 DEF Goto, CallInv
<1>7. CASE c \in Thread /\ pc[c] \in On /\ label \notin On
  <2>1. Underway' = Underway \ {c} /\ c \in Underway
    BY <1>3, <1>7 DEF Underway, Caller
  <2>2. lines' + accepted' <= lines + accepted + 1
    BY <1>5 DEF TraceInv, SinkInv
  <2>3. QED
    BY <1>1, <1>4, <1>7, <2>1, <2>2, LeavesUnderway
<1>8. CASE c \notin Thread \/ (pc[c] \in On <=> label \in On)
  <2>1. Underway' = Underway
    BY <1>3, <1>8 DEF Underway, Caller
  <2>2. UNCHANGED <<lines, accepted>>
    <3>1. CASE c \notin Thread
      BY <1>5, <3>1, Callers DEF CallInv, Caller
    <3>2. CASE pc[c] \in On <=> label \in On
      BY <1>2, <1>3, <1>5, <3>2 DEF Goto, CallInv
    <3>3. QED
      BY <1>8, <3>1, <3>2
  <2>3. QED
    BY <1>1, <2>1, <2>2, TraceStutter
<1>9. QED
  BY <1>6, <1>7, <1>8

(* INSTALL, UNINSTALL and the writer thread accept nothing. *)
LEMMA OnlyCallbacksAccept ==
  \/ InstallBegins \/ InitStep \/ DeinitBegins \/ DeinitStep
  \/ SetOutput \/ WriterStep \/ UNCHANGED vars
  => UNCHANGED accepted
BY DEF InstallBegins, InitStep, InitWriters, InitStrings, InitRules,
       InitFails, DeinitBegins, DeinitStep, RequestStop, ReleaseMutex,
       JoinWriter, DeinitFrees, SetOutput, WriterStep, vars, sinkVars,
       CloseSink, Sink!Open, Sink!Close, Sink!Store, Sink!Settle

(* A new callback is a new statement. *)
LEMMA TraceStep == CallInv /\ SinkInv /\ TraceInv /\ [Next]_vars => TraceInv'
<1> SUFFICES ASSUME CallInv, SinkInv, TraceInv, [Next]_vars PROVE TraceInv'
  OBVIOUS
<1>1. ASSUME NEW c \in Caller, CallbackStep(c) PROVE TraceInv'
  BY <1>1, TraceCallback
<1>2. ASSUME NEW t \in Thread, ClientNotify(t) PROVE TraceInv'
  <2>1. /\ pc[t] = "none" /\ pc' = [pc EXCEPT ![t] = "self"]
        /\ statements' = statements + 1 /\ UNCHANGED <<lines, accepted>>
    BY <1>2 DEF ClientNotify, Notify, Goto, sinkVars
  <2>2. Underway' = Underway \union {t} /\ t \notin Underway
    BY <2>1, Callers DEF CallInv, Underway
  <2>3. /\ IsFiniteSet(Underway \union {t}) /\ Cardinality(Underway) \in Nat
        /\ Cardinality(Underway \union {t}) = Cardinality(Underway) + 1
    BY <2>2, FS_AddElement, FS_CardinalityType DEF TraceInv
  <2>4. /\ IsFiniteSet(Underway')
        /\ Cardinality(Underway') = Cardinality(Underway) + 1
    BY <2>2, <2>3
  <2>5. QED
    BY <2>1, <2>3, <2>4 DEF TraceInv, SinkInv
<1>3. CASE WriterNotify \/ UpdateBegins \/ UpdateEnds
  <2>1. \E c \in {Writer, Admin}, label \in Labels : Goto(c, label)
    BY <1>3 DEF WriterNotify, Notify, UpdateBegins, UpdateEnds, CountNext,
                Labels
  <2>2. Underway' = Underway
    BY <2>1, Callers DEF CallInv, Goto, Underway
  <2>3. UNCHANGED <<statements, lines, accepted>>
    BY <1>3 DEF WriterNotify, Notify, UpdateBegins, UpdateEnds, sinkVars,
                history
  <2>4. QED
    BY <2>2, <2>3, TraceStutter
<1>4. CASE \/ InstallBegins \/ InitStep \/ DeinitBegins \/ DeinitStep
           \/ SetOutput \/ WriterStep \/ UNCHANGED vars
  <2>1. UNCHANGED <<pc, statements, lines>>
    BY <1>4 DEF InstallBegins, InitStep, InitWriters, InitStrings, InitRules,
                InitFails, DeinitBegins, DeinitStep, RequestStop, ReleaseMutex,
                JoinWriter, DeinitFrees, SetOutput, WriterStep, vars, history
  <2>2. UNCHANGED accepted
    BY <1>4, OnlyCallbacksAccept
  <2>3. Underway' = Underway
    BY <2>1 DEF Underway
  <2>4. QED
    BY <2>1, <2>2, <2>3, TraceStutter
<1>5. QED
  BY <1>1, <1>2, <1>3, <1>4 DEF Next

(* Lines and accepted events are of client statements, each of one of its  *)
(* own: the plugin never traces its own INSERTs, for any number of threads *)
(* and whatever the output is switched to.                                 *)
THEOREM SelfIsNotTraced == Spec => []NeverTracesItself
<1>1. Init => TraceInv
  <2>1. Init => Underway = {}
    BY Callers DEF Init, Underway
  <2>2. Init => IsFiniteSet(Underway) /\ Cardinality(Underway) = 0
    BY <2>1, FS_EmptySet
  <2>3. QED
    BY <2>2 DEF Init, TraceInv, Sink!SinkInit
<1>2. SinkInv /\ TraceInv => NeverTracesItself
  <2> SUFFICES ASSUME SinkInv, TraceInv PROVE NeverTracesItself
    OBVIOUS
  <2>1. Cardinality(Underway) \in Nat
    BY FS_CardinalityType DEF TraceInv
  <2>2. QED
    BY <2>1 DEF SinkInv, TraceInv, NeverTracesItself
<1>3. QED
  BY <1>1, <1>2, TraceStep, CallInvariant, SinkInvariant, PTL DEF Spec

-----------------------------------------------------------------------------
(* The counters.                                                           *)

(* What counter k counts, and the callers that have still to count it. *)
Taken(k) == IF k = "events_logged" THEN lines + accepted ELSE thrown

Pending(k) == {c \in Caller : pc[c] \in {"load", "store"} /\ target[c] = k}

(* What a caller loaded leaves room for the increments of all who are      *)
(* pending with it.                                                        *)
CountOf(k) ==
  /\ IsFiniteSet(Pending(k))
  /\ counters[k] + Cardinality(Pending(k)) <= Taken(k)
  /\ \A c \in Pending(k) :
       pc[c] = "store" => loaded[c] + Cardinality(Pending(k)) <= Taken(k)
  /\ Taken(k) > 0 => counters[k] > 0 \/ Pending(k) # {}

CountTypes ==
  /\ target \in [Caller -> Counter]
  /\ loaded \in [Caller -> Nat] /\ counters \in [Counter -> Nat]
  /\ statements \in Nat /\ lines \in Nat /\ thrown \in Nat /\ accepted \in Nat

CountInv == CountTypes /\ \A k \in Counter : CountOf(k)

(* The types hold on their own: a load reads a number. *)
LEMMA CountTypesStep == CountTypes /\ [Next]_vars => CountTypes'
<1> SUFFICES ASSUME CountTypes, [Next]_vars PROVE CountTypes'
  OBVIOUS
<1> USE DEF CountTypes, Counter
<1>1. ASSUME NEW c \in Caller, CallbackStep(c) PROVE CountTypes'
  <2>1. CASE SelfTest(c) \/ Forget(c) \/ Handle(c)
    BY <2>1 DEF SelfTest, Forget, Handle, countVars, sinkVars, history
  <2>2. CASE Throws(c)
    BY <2>2 DEF Throws, CountNext, sinkVars
  <2>3. CASE FileOutput(c)
    BY <2>3 DEF FileOutput, CountNext, sinkVars
  <2>4. CASE TableOutput(c)
    BY <2>4 DEF TableOutput, CountNext, sinkVars, history, Sink!Accept
  <2>5. CASE CountLoad(c)
    BY <2>5 DEF CountLoad, sinkVars, history
  <2>6. CASE CountStore(c)
    BY <2>6 DEF CountStore, sinkVars, history
  <2>7. QED
    BY <1>1, <2>1, <2>2, <2>3, <2>4, <2>5, <2>6 DEF CallbackStep
<1>2. ASSUME NEW t \in Thread, ClientNotify(t) PROVE CountTypes'
  BY <1>2 DEF ClientNotify, Notify, countVars, sinkVars
<1>3. CASE WriterNotify
  BY <1>3 DEF WriterNotify, Notify, countVars, sinkVars
<1>4. CASE UpdateBegins
  BY <1>4 DEF UpdateBegins, countVars, sinkVars, history
<1>5. CASE UpdateEnds
  BY <1>5, Callers DEF UpdateEnds, CountNext, sinkVars
<1>6. CASE \/ InstallBegins \/ InitStep \/ DeinitBegins \/ DeinitStep
           \/ SetOutput \/ WriterStep \/ UNCHANGED vars
  <2>1. UNCHANGED <<countVars, history>>
    BY <1>6 DEF InstallBegins, InitStep, InitWriters, InitStrings, InitRules,
                InitFails, DeinitBegins, DeinitStep, RequestStop, ReleaseMutex,
                JoinWriter, DeinitFrees, SetOutput, WriterStep, vars
  <2>2. UNCHANGED accepted
    BY <1>6, OnlyCallbacksAccept
  <2>3. QED
    BY <2>1, <2>2 DEF countVars, history
<1>7. QED
  BY <1>1, <1>2, <1>3, <1>4, <1>5, <1>6 DEF Next

(* A step that has nothing to do with counter k, or loads it. *)
LEMMA CountStutter ==
  ASSUME CountInv, NEW k \in Counter, CountTypes',
         Pending(k)' = Pending(k), Taken(k)' = Taken(k),
         counters'[k] = counters[k],
         \A c \in Pending(k) : pc'[c] = "store" =>
           \/ loaded'[c] = counters[k]
           \/ pc[c] = "store" /\ loaded'[c] = loaded[c]
  PROVE  CountOf(k)'
<1>1. CountOf(k)
  BY DEF CountInv
<1>2. Cardinality(Pending(k)') = Cardinality(Pending(k))
  OBVIOUS
<1>3. QED
  BY <1>1, <1>2 DEF CountOf

(* There is one more to count, and one more to count it. *)
LEMMA CountMore ==
  ASSUME CountInv, NEW k \in Counter, CountTypes', NEW d \in Caller,
         d \notin Pending(k), pc'[d] = "load",
         Pending(k)' = Pending(k) \union {d}, Taken(k)' = Taken(k) + 1,
         counters'[k] = counters[k],
         \A c \in Pending(k) : pc'[c] = pc[c] /\ loaded'[c] = loaded[c]
  PROVE  CountOf(k)'
<1>1. CountOf(k) /\ Taken(k) \in Nat /\ counters[k] \in Nat
  BY DEF CountInv, CountTypes, Taken
<1>2. /\ IsFiniteSet(Pending(k) \union {d}) /\ Cardinality(Pending(k)) \in Nat
      /\ Cardinality(Pending(k) \union {d}) = Cardinality(Pending(k)) + 1
  BY <1>1, FS_AddElement, FS_CardinalityType DEF CountOf
<1>3. /\ IsFiniteSet(Pending(k)')
      /\ Cardinality(Pending(k)') = Cardinality(Pending(k)) + 1
  BY <1>2
<1>4. counters'[k] + Cardinality(Pending(k)') <= Taken(k)'
  BY <1>1, <1>2, <1>3 DEF CountOf
<1>5. ASSUME NEW c \in Pending(k)', pc'[c] = "store"
      PROVE  loaded'[c] + Cardinality(Pending(k)') <= Taken(k)'
  <2>1. c \in Pending(k) /\ pc[c] = "store" /\ loaded'[c] = loaded[c]
    BY <1>5
  <2>2. loaded[c] \in Nat
    BY <2>1 DEF CountInv, CountTypes, Pending
  <2>3. QED
    BY <1>1, <1>2, <1>3, <2>1, <2>2 DEF CountOf
<1>6. QED
  BY <1>3, <1>4, <1>5 DEF CountOf

(* A store: one caller is no longer pending, and the counter is what it    *)
(* loaded and 1.                                                           *)
LEMMA CountLess ==
  ASSUME CountInv, NEW k \in Counter, CountTypes', NEW d \in Pending(k),
         pc[d] = "store",
         Pending(k)' = Pending(k) \ {d}, Taken(k)' = Taken(k),
         counters'[k] = loaded[d] + 1,
         \A c \in Pending(k) \ {d} : pc'[c] = pc[c] /\ loaded'[c] = loaded[c]
  PROVE  CountOf(k)'
<1>1. CountOf(k) /\ Taken(k) \in Nat /\ loaded[d] \in Nat
  BY DEF CountInv, CountTypes, Taken, Pending
<1>2. /\ IsFiniteSet(Pending(k) \ {d}) /\ Cardinality(Pending(k)) \in Nat
      /\ Cardinality(Pending(k) \ {d}) = Cardinality(Pending(k)) - 1
  BY <1>1, FS_RemoveElement, FS_CardinalityType DEF CountOf
<1>3. /\ IsFiniteSet(Pending(k)')
      /\ Cardinality(Pending(k)') = Cardinality(Pending(k)) - 1
  BY <1>2
<1>4. counters'[k] + Cardinality(Pending(k)') <= Taken(k)' /\ counters'[k] > 0
  BY <1>1, <1>2, <1>3 DEF CountOf
<1>5. ASSUME NEW c \in Pending(k)', pc'[c] = "store"
      PROVE  loaded'[c] + Cardinality(Pending(k)') <= Taken(k)'
  <2>1. c \in Pending(k) /\ pc[c] = "store" /\ loaded'[c] = loaded[c]
    BY <1>5
  <2>2. loaded[c] \in Nat
    BY <2>1 DEF CountInv, CountTypes, Pending
  <2>3. QED
    BY <1>1, <1>2, <1>3, <2>1, <2>2 DEF CountOf
<1>6. QED
  BY <1>3, <1>4, <1>5 DEF CountOf

(* A caller moves between labels that count nothing. *)
LEMMA CountMoves ==
  ASSUME CallInv, CountInv, CountTypes', NEW d \in Caller, NEW label \in Labels,
         pc[d] \notin {"load", "store"}, label \notin {"load", "store"},
         pc' = [pc EXCEPT ![d] = label],
         UNCHANGED <<target, loaded, counters, lines, accepted, thrown>>
  PROVE  \A k \in Counter : CountOf(k)'
<1> TAKE k \in Counter
<1>1. Pending(k)' = Pending(k) /\ Taken(k)' = Taken(k)
  BY DEF CallInv, Pending, Taken
<1>2. \A c \in Pending(k) : pc'[c] = pc[c]
  BY DEF CallInv, Pending
<1>3. QED
  BY <1>1, <1>2, CountStutter

(* A caller goes on to count what just happened. *)
LEMMA CountBegins ==
  ASSUME CallInv, CountInv, CountTypes', NEW d \in Caller, NEW k \in Counter,
         pc[d] \notin {"load", "store"}, CountNext(d, k),
         Taken(k)' = Taken(k) + 1,
         \A j \in Counter \ {k} : Taken(j)' = Taken(j),
         UNCHANGED <<loaded, counters>>
  PROVE  \A j \in Counter : CountOf(j)'
<1>1. /\ pc' = [pc EXCEPT ![d] = "load"]
      /\ target' = [target EXCEPT ![d] = k]
  BY DEF CountNext, Goto
<1>2. pc \in [Caller -> Labels] /\ target \in [Caller -> Counter]
  BY DEF CallInv, CountInv, CountTypes
<1>3. \A c \in Caller \ {d} : pc'[c] = pc[c] /\ target'[c] = target[c]
  BY <1>1, <1>2
<1>4. pc'[d] = "load" /\ target'[d] = k
  BY <1>1, <1>2
<1>5. CountOf(k)'
  <2>1. d \notin Pending(k) /\ Pending(k)' = Pending(k) \union {d}
    BY <1>3, <1>4 DEF Pending
  <2>2. \A c \in Pending(k) : pc'[c] = pc[c]
    BY <1>3, <2>1 DEF Pending
  <2>3. QED
    BY <1>4, <2>1, <2>2, CountMore
<1>6. ASSUME NEW j \in Counter, j # k PROVE CountOf(j)'
  <2>1. d \notin Pending(j) /\ Pending(j)' = Pending(j)
    BY <1>3, <1>4, <1>6 DEF Pending
  <2>2. \A c \in Pending(j) : pc'[c] = pc[c]
    BY <1>3, <2>1 DEF Pending
  <2>3. QED
    BY <1>6, <2>1, <2>2, CountStutter
<1>7. QED
  BY <1>5, <1>6

(* A load, and a store, whatever others did between. *)
LEMMA CountLoads ==
  ASSUME CallInv, CountInv, CountTypes', NEW d \in Caller, CountLoad(d)
  PROVE  \A k \in Counter : CountOf(k)'
<1> TAKE k \in Counter
<1>1. /\ pc[d] = "load" /\ pc' = [pc EXCEPT ![d] = "store"]
      /\ loaded' = [loaded EXCEPT ![d] = counters[target[d]]]
      /\ UNCHANGED <<target, counters, lines, accepted, thrown>>
  BY DEF CountLoad, Goto, sinkVars, history
<1>2. /\ pc \in [Caller -> Labels] /\ target \in [Caller -> Counter]
      /\ loaded \in [Caller -> Nat]
  BY DEF CallInv, CountInv, CountTypes
<1>3. Pending(k)' = Pending(k) /\ Taken(k)' = Taken(k)
  BY <1>1, <1>2 DEF Pending, Taken
<1>4. ASSUME NEW c \in Pending(k), pc'[c] = "store"
      PROVE  \/ loaded'[c] = counters[k]
             \/ pc[c] = "store" /\ loaded'[c] = loaded[c]
  BY <1>1, <1>2, <1>4 DEF Pending
<1>5. QED
  BY <1>1, <1>3, <1>4, CountStutter

(* Storing a count. *)
LEMMA CountStores ==
  ASSUME CallInv, CountInv, CountTypes', NEW d \in Caller, CountStore(d)
  PROVE  \A k \in Counter : CountOf(k)'
<1> TAKE k \in Counter
<1>1. /\ pc[d] = "store" /\ pc' = [pc EXCEPT ![d] = "none"]
      /\ counters' = [counters EXCEPT ![target[d]] = loaded[d] + 1]
      /\ loaded' = [loaded EXCEPT ![d] = 0]
      /\ target' = [target EXCEPT ![d] = "events_logged"]
      /\ UNCHANGED <<lines, accepted, thrown>>
  BY DEF CountStore, Goto, sinkVars, history
<1>2. /\ pc \in [Caller -> Labels] /\ target \in [Caller -> Counter]
      /\ loaded \in [Caller -> Nat] /\ counters \in [Counter -> Nat]
  BY DEF CallInv, CountInv, CountTypes
<1>3. Taken(k)' = Taken(k)
  BY <1>1 DEF Taken
<1>4. \A c \in Caller \ {d} : /\ pc'[c] = pc[c] /\ target'[c] = target[c]
                              /\ loaded'[c] = loaded[c]
  BY <1>1, <1>2
<1>5. Pending(k)' = Pending(k) \ {d}
  BY <1>1, <1>2, <1>4 DEF Pending
<1>6. CASE target[d] = k
  <2>1. d \in Pending(k) /\ counters'[k] = loaded[d] + 1
    BY <1>1, <1>2, <1>6 DEF Pending
  <2>2. \A c \in Pending(k) \ {d} : pc'[c] = pc[c] /\ loaded'[c] = loaded[c]
    BY <1>4 DEF Pending
  <2>3. QED
    BY <1>1, <1>3, <1>5, <2>1, <2>2, CountLess
<1>7. CASE target[d] # k
  <2>1. d \notin Pending(k) /\ counters'[k] = counters[k]
    BY <1>1, <1>2, <1>7 DEF Pending
  <2>2. Pending(k)' = Pending(k)
    BY <1>5, <2>1
  <2>3. \A c \in Pending(k) : pc'[c] = pc[c] /\ loaded'[c] = loaded[c]
    BY <1>4, <2>1 DEF Pending
  <2>4. QED
    BY <1>3, <2>1, <2>2, <2>3, CountStutter
<1>8. QED
  BY <1>6, <1>7

(* One case per place where a callback can be. *)
LEMMA CountCallback ==
  ASSUME CallInv, CountInv, CountTypes', NEW c \in Caller, CallbackStep(c)
  PROVE  \A k \in Counter : CountOf(k)'
<1>0. "events_logged" \in Counter /\ "callback_errors" \in Counter
  BY DEF Counter
<1>1. CASE SelfTest(c) \/ Forget(c) \/ Handle(c)
  <2>1. UNCHANGED <<target, loaded, counters, lines, accepted, thrown>>
    BY <1>1 DEF SelfTest, Forget, Handle, countVars, sinkVars, history
  <2>2. /\ pc[c] \notin {"load", "store"}
        /\ \E label \in Labels \ {"load", "store"} :
             pc' = [pc EXCEPT ![c] = label]
    BY <1>1 DEF SelfTest, Forget, Handle, Goto, Labels, CallInv
  <2>3. QED
    BY <2>1, <2>2, CountMoves
<1>2. CASE Throws(c)
  <2>1. /\ pc[c] \notin {"load", "store"} /\ CountNext(c, "callback_errors")
        /\ thrown' = thrown + 1 /\ UNCHANGED <<loaded, counters>>
        /\ UNCHANGED <<lines, accepted>>
    BY <1>2 DEF Throws, sinkVars
  <2>2. /\ Taken("callback_errors")' = Taken("callback_errors") + 1
        /\ \A j \in Counter \ {"callback_errors"} : Taken(j)' = Taken(j)
    BY <2>1 DEF Taken, Counter
  <2>3. QED
    BY <1>0, <2>1, <2>2, CountBegins
<1>3. CASE (FileOutput(c) \/ TableOutput(c)) /\ CountNext(c, "events_logged")
  <2>1. /\ pc[c] \notin {"load", "store"} /\ UNCHANGED <<loaded, counters>>
        /\ UNCHANGED thrown
    BY <1>3 DEF FileOutput, TableOutput, history
  <2>2. pc'[c] = "load"
    BY <1>3 DEF CountNext, Goto, CallInv
  <2>3. lines' + accepted' = lines + accepted + 1
    <3>0. ~Goto(c, "none") /\ lines \in Nat /\ accepted \in Nat
      BY <2>2 DEF Goto, CallInv, CountInv, CountTypes
    <3>1. CASE FileOutput(c)
      <4>1. lines' = lines + 1 /\ accepted' = accepted
        BY <3>0, <3>1 DEF FileOutput, sinkVars
      <4>2. QED
        BY <3>0, <4>1
    <3>2. CASE TableOutput(c)
      <4>1. lines' = lines /\ accepted' = accepted + 1
        BY <3>0, <3>2 DEF TableOutput, history, Sink!Accept
      <4>2. QED
        BY <3>0, <4>1
    <3>3. QED
      BY <1>3, <3>1, <3>2
  <2>4. /\ Taken("events_logged")' = Taken("events_logged") + 1
        /\ \A j \in Counter \ {"events_logged"} : Taken(j)' = Taken(j)
    BY <2>1, <2>3 DEF Taken, Counter
  <2>5. QED
    BY <1>0, <1>3, <2>1, <2>4, CountBegins
<1>4. CASE (FileOutput(c) \/ TableOutput(c)) /\ ~CountNext(c, "events_logged")
  <2>1. /\ UNCHANGED <<target, loaded, counters, lines, accepted, thrown>>
        /\ pc[c] \notin {"load", "store"} /\ pc' = [pc EXCEPT ![c] = "none"]
    BY <1>4 DEF FileOutput, TableOutput, Goto, sinkVars, history
  <2>2. QED
    BY <2>1, CountMoves DEF Labels
<1>5. CASE CountLoad(c)
  BY <1>5, CountLoads
<1>6. CASE CountStore(c)
  BY <1>6, CountStores
<1>7. QED
  BY <1>1, <1>2, <1>3, <1>4, <1>5, <1>6 DEF CallbackStep

(* CountInv is preserved. *)
LEMMA CountStep == CallInv /\ CountInv /\ [Next]_vars => CountInv'
<1> SUFFICES ASSUME CallInv, CountInv, [Next]_vars
             PROVE  \A k \in Counter : CountOf(k)'
  BY CountTypesStep DEF CountInv
<1>0. CountTypes'
  BY CountTypesStep DEF CountInv
<1> DEFINE Goal == \A k \in Counter : CountOf(k)'
<1>1. ASSUME NEW c \in Caller, CallbackStep(c) PROVE Goal
  BY <1>0, <1>1, CountCallback
<1>2. ASSUME NEW t \in Thread, ClientNotify(t) PROVE Goal
  <2>1. /\ UNCHANGED <<target, loaded, counters, lines, accepted, thrown>>
        /\ pc[t] = "none" /\ pc' = [pc EXCEPT ![t] = "self"]
    BY <1>2 DEF ClientNotify, Notify, Goto, countVars, sinkVars
  <2>2. QED
    BY <1>0, <2>1, Callers, CountMoves DEF Labels
<1>3. CASE WriterNotify
  <2>1. /\ UNCHANGED <<target, loaded, counters, lines, accepted, thrown>>
        /\ pc[Writer] = "none" /\ pc' = [pc EXCEPT ![Writer] = "self"]
    BY <1>3 DEF WriterNotify, Notify, Goto, countVars, sinkVars
  <2>2. QED
    BY <1>0, <2>1, Callers, CountMoves DEF Labels
<1>4. CASE UpdateBegins
  <2>1. /\ UNCHANGED <<target, loaded, counters, lines, accepted, thrown>>
        /\ pc[Admin] = "none" /\ pc' = [pc EXCEPT ![Admin] = "update"]
    BY <1>4 DEF UpdateBegins, Goto, countVars, sinkVars, history
  <2>2. QED
    BY <1>0, <2>1, Callers, CountMoves DEF Labels
<1>5. CASE UpdateEnds /\ Goto(Admin, "none") /\ UNCHANGED <<target, thrown>>
  <2>1. /\ UNCHANGED <<target, loaded, counters, lines, accepted, thrown>>
        /\ pc[Admin] = "update" /\ pc' = [pc EXCEPT ![Admin] = "none"]
    BY <1>5 DEF UpdateEnds, Goto, sinkVars
  <2>2. QED
    BY <1>0, <2>1, Callers, CountMoves DEF Labels
<1>6. CASE UpdateEnds /\ ~(Goto(Admin, "none") /\ UNCHANGED <<target, thrown>>)
  <2>1. /\ pc[Admin] = "update" /\ CountNext(Admin, "callback_errors")
        /\ thrown' = thrown + 1 /\ UNCHANGED <<loaded, counters>>
        /\ UNCHANGED <<lines, accepted>>
    BY <1>6 DEF UpdateEnds, sinkVars
  <2>2. /\ Taken("callback_errors")' = Taken("callback_errors") + 1
        /\ \A j \in Counter \ {"callback_errors"} : Taken(j)' = Taken(j)
    BY <2>1 DEF Taken, Counter
  <2>3. QED
    BY <1>0, <2>1, <2>2, Callers, CountBegins DEF Counter
<1>7. CASE \/ InstallBegins \/ InitStep \/ DeinitBegins \/ DeinitStep
           \/ SetOutput \/ WriterStep \/ UNCHANGED vars
  <2>1. UNCHANGED <<pc, countVars, history>>
    BY <1>7 DEF InstallBegins, InitStep, InitWriters, InitStrings, InitRules,
                InitFails, DeinitBegins, DeinitStep, RequestStop, ReleaseMutex,
                JoinWriter, DeinitFrees, SetOutput, WriterStep, vars
  <2>2. UNCHANGED accepted
    BY <1>7, OnlyCallbacksAccept
  <2>3. ASSUME NEW k \in Counter PROVE CountOf(k)'
    <3>1. Pending(k)' = Pending(k) /\ Taken(k)' = Taken(k)
      BY <2>1, <2>2 DEF Pending, Taken, countVars, history
    <3>2. QED
      BY <1>0, <2>1, <3>1, CountStutter DEF countVars
  <2>4. QED
    BY <2>3
<1>8. QED
  BY <1>1, <1>2, <1>3, <1>4, <1>5, <1>6, <1>7 DEF Next

(* CountInv is an invariant. *)
LEMMA CountInvariant == Spec => []CountInv
<1>1. Init => CountInv
  <2> SUFFICES ASSUME Init PROVE CountInv
    OBVIOUS
  <2>1. CountTypes
    BY DEF Init, CountTypes, Counter, Sink!SinkInit
  <2>2. ASSUME NEW k \in Counter PROVE CountOf(k)
    <3>1. Pending(k) = {} /\ Taken(k) = 0 /\ counters[k] = 0
      BY DEF Init, Pending, Taken, Sink!SinkInit
    <3>2. IsFiniteSet(Pending(k)) /\ Cardinality(Pending(k)) = 0
      BY <3>1, FS_EmptySet
    <3>3. QED
      BY <3>1, <3>2 DEF CountOf
  <2>3. QED
    BY <2>1, <2>2 DEF CountInv
<1>2. QED
  BY <1>1, CountStep, CallInvariant, PTL DEF Spec

(* The unsynchronised counters never show more than happened, and never    *)
(* nothing once something did and nobody is counting, for any number of    *)
(* threads that count at once.                                             *)
THEOREM CountersAreHonest == Spec => []CountersHonest
<1>1. CountInv => CountersHonest
  <2> SUFFICES ASSUME CountInv PROVE CountersHonest
    OBVIOUS
  <2>1. ASSUME NEW k \in Counter
        PROVE  /\ counters[k] <= Taken(k)
               /\ (\A c \in Caller : pc[c] = "none") =>
                    (Taken(k) > 0 => counters[k] > 0)
    <3>1. CountOf(k) /\ counters[k] \in Nat /\ Taken(k) \in Nat
      BY DEF CountInv, CountTypes, Taken
    <3>2. Cardinality(Pending(k)) \in Nat
      BY <3>1, FS_CardinalityType DEF CountOf
    <3>3. counters[k] <= Taken(k)
      BY <3>1, <3>2 DEF CountOf
    <3>4. (\A c \in Caller : pc[c] = "none") => Pending(k) = {}
      BY DEF Pending
    <3>5. QED
      BY <3>1, <3>3, <3>4 DEF CountOf
  <2>2. QED
    BY <2>1 DEF CountersHonest, Taken, Counter
<1>2. QED
  BY <1>1, CountInvariant, PTL

(* Type correctness; in particular no lock is destroyed twice. *)
THEOREM PluginTypeCorrect == Spec => []TypeOK
<1>1. CallInv /\ LifeInv /\ CountInv => TypeOK
  BY DEF CallInv, LifeInv, CountInv, CountTypes, TypeOK, Labels
<1>2. QED
  BY <1>1, CallInvariant, LifeInvariant, CountInvariant, PTL
=============================================================================
