-------------------------------- MODULE Plugin --------------------------------
(***************************************************************************)
(* The plugin as a whole (selective_trace_mysql.cc): INSTALL and UNINSTALL *)
(* PLUGIN, the locks and objects they make and destroy, the callbacks that *)
(* use them, the choice between the two outputs, and the counters all      *)
(* statement threads share.                                                *)
(*                                                                         *)
(* What a callback does with a statement is Capture's subject: here it may *)
(* turn out either way.  The FILE writer succeeds or fails.  The TABLE     *)
(* writer is TraceSink, which TableWriter implements.                      *)
(***************************************************************************)
EXTENDS Integers, Sequences

CONSTANTS Thread,         \* statement threads
          Capacity,       \* of the TABLE writer: see TraceSink
          MaxStatements,  \* bound: callbacks of statement threads
          MaxThrown       \* bound: exceptions

Writer == "writer"   \* the TABLE writer's thread
Admin  == "admin"    \* a thread in SET GLOBAL, INSTALL or UNINSTALL
Nobody == "nobody"

Caller == Thread \union {Writer, Admin}

ASSUME PluginAssumption ==
  /\ Thread \intersect {Writer, Admin, Nobody} = {}
  /\ Capacity \in Nat \ {0} /\ MaxStatements \in Nat /\ MaxThrown \in Nat

Locks    == {"filter_lock", "state_map_lock", "log_lock"}
Strings  == {"schemas", "tables", "connections", "file_path"}
Pointers == Strings \union {"state_map", "active_rules"}
Resource == Locks \union Pointers

Counter == {"events_logged", "callback_errors"}

VARIABLES
  phase,          \* where INSTALL or UNINSTALL is
  plugin_ready,
  live,           \* resource -> 1 once made, 0 once destroyed
  q_mutex,        \* who keeps the mutex of the TABLE writer
  opt_output,
  pc,             \* caller -> where its callback is
  target, loaded, \* caller -> the counter it increments, as it read it
  counters,
  \* the TABLE writer
  up, accepted, handled, rows, failed,
  \* history
  statements,     \* callbacks of statement threads
  lines,          \* lines written
  thrown          \* exceptions caught

sinkVars  == <<up, accepted, handled, rows, failed>>
lifeVars  == <<phase, plugin_ready, live, q_mutex>>
countVars == <<target, loaded, counters>>
history   == <<statements, lines, thrown>>

vars == <<lifeVars, opt_output, pc, countVars, sinkVars, history>>

Sink == INSTANCE TraceSink

Init ==
  /\ phase = "absent" /\ plugin_ready = FALSE
  /\ live = [r \in Resource |-> 0] /\ q_mutex = Nobody
  /\ opt_output \in {"FILE", "TABLE"}
  /\ pc = [c \in Caller |-> "none"]
  /\ target = [c \in Caller |-> "events_logged"]
  /\ loaded = [c \in Caller |-> 0] /\ counters = [c \in Counter |-> 0]
  /\ Sink!SinkInit
  /\ statements = 0 /\ lines = 0 /\ thrown = 0

Make(R) == live' = [r \in Resource |-> IF r \in R THEN 1 ELSE live[r]]

(* Destroying a lock a second time shows; delete of a pointer that was set *)
(* to NULL does nothing.                                                   *)
Destroy(R) ==
  live' = [r \in Resource |-> CASE r \in R \intersect Locks    -> live[r] - 1
                                [] r \in R \intersect Pointers -> 0
                                [] OTHER                       -> live[r]]

-----------------------------------------------------------------------------
(* selective_trace_init                                                    *)

InstallBegins ==
  /\ phase = "absent"
  /\ \/ /\ phase' = "writers"
        /\ Make({"filter_lock", "state_map_lock", "state_map"})
     \/ phase' = "failed" /\ UNCHANGED live   \* no state_map: locks undone
  /\ UNCHANGED <<plugin_ready, q_mutex, opt_output, pc, countVars, sinkVars,
                 history>>

(* file_writer_init and table_writer_init, which may find no memory for    *)
(* the queue.                                                              *)
InitWriters ==
  /\ phase = "writers" /\ phase' = "strings"
  /\ Make({"log_lock"})
  /\ Sink!Open \/ UNCHANGED sinkVars
  /\ UNCHANGED <<plugin_ready, q_mutex, opt_output, pc, countVars, history>>

(* The strings behind the system variables.  No memory for the object is   *)
(* NULL; no memory for its text is an exception nobody catches, and the    *)
(* end of the server.                                                      *)
InitStrings ==
  /\ phase = "strings"
  /\ \/ \E made \in SUBSET Strings :
          /\ Make(made)
          /\ phase' = IF made = Strings THEN "rules" ELSE "fail"
     \/ phase' = "aborted" /\ UNCHANGED live
  /\ UNCHANGED <<plugin_ready, q_mutex, opt_output, pc, countVars, sinkVars,
                 history>>

(* rebuild_rules_locked on the configured lists: rules, none because a     *)
(* list is ill-formed or memory is short, or an exception.                 *)
InitRules ==
  /\ phase = "rules"
  /\ \/ /\ phase' = "ready" /\ plugin_ready' = TRUE
        /\ Make({"active_rules"})
     \/ phase' \in {"fail", "aborted"} /\ UNCHANGED <<live, plugin_ready>>
  /\ UNCHANGED <<q_mutex, opt_output, pc, countVars, sinkVars, history>>

CloseSink == IF up = 1 THEN Sink!Close ELSE UNCHANGED sinkVars

(* The label fail: active_rules is NULL there. *)
InitFails_KeepsWriter ==
  /\ phase = "fail" /\ phase' = "failed"
  /\ CloseSink
  /\ Destroy(Resource \ {"active_rules", "log_lock"})
  /\ UNCHANGED <<plugin_ready, q_mutex, opt_output, pc, countVars, history>>

InitFails ==
  /\ phase = "fail" /\ phase' = "failed"
  /\ CloseSink
  /\ Destroy(Resource \ {"active_rules"})
  /\ UNCHANGED <<plugin_ready, q_mutex, opt_output, pc, countVars, history>>

-----------------------------------------------------------------------------
(* selective_trace_deinit.  The server calls it also after an init that    *)
(* failed, and waits before it calls it until no statement thread and no   *)
(* SET GLOBAL is in a callback.                                            *)

DeinitBegins_Always ==
  /\ phase \in {"ready", "failed"}
  /\ \A c \in Caller \ {Writer} : pc[c] = "none"
  /\ plugin_ready' = FALSE /\ phase' = "stop"
  /\ UNCHANGED <<live, q_mutex, opt_output, pc, countVars, sinkVars, history>>

DeinitBegins_StillReady ==
  /\ phase \in {"ready", "failed"}
  /\ \A c \in Caller \ {Writer} : pc[c] = "none"
  /\ phase' = IF plugin_ready THEN "stop" ELSE "absent"
  /\ UNCHANGED <<plugin_ready, live, q_mutex, opt_output, pc, countVars,
                 sinkVars, history>>

DeinitBegins ==
  /\ phase \in {"ready", "failed"}
  /\ \A c \in Caller \ {Writer} : pc[c] = "none"
  /\ plugin_ready' = FALSE
  /\ phase' = IF plugin_ready THEN "stop" ELSE "absent"
  /\ UNCHANGED <<live, q_mutex, opt_output, pc, countVars, sinkVars, history>>

(* table_writer_shutdown: stop is requested under q_mutex, which is given  *)
(* up before the join, because the writer needs it to end.                 *)
RequestStop ==
  /\ phase = "stop" /\ phase' = "stopping"
  /\ q_mutex = Nobody /\ q_mutex' = Admin
  /\ UNCHANGED <<plugin_ready, live, opt_output, pc, countVars, sinkVars,
                 history>>

ReleaseMutex_Keeps ==
  /\ phase = "stopping" /\ phase' = "join"
  /\ UNCHANGED <<plugin_ready, live, q_mutex, opt_output, pc, countVars,
                 sinkVars, history>>

ReleaseMutex ==
  /\ phase = "stopping" /\ phase' = "join"
  /\ q_mutex' = Nobody
  /\ UNCHANGED <<plugin_ready, live, opt_output, pc, countVars, sinkVars,
                 history>>

JoinWriter ==
  /\ phase = "join" /\ phase' = "free"
  /\ handled = accepted /\ pc[Writer] = "none"
  /\ CloseSink
  /\ UNCHANGED <<plugin_ready, live, q_mutex, opt_output, pc, countVars,
                 history>>

(* file_writer_deinit, then everything else. *)
DeinitFrees ==
  /\ phase = "free" /\ phase' = "absent"
  /\ Destroy(Resource)
  /\ UNCHANGED <<plugin_ready, q_mutex, opt_output, pc, countVars, sinkVars,
                 history>>

-----------------------------------------------------------------------------
(* selective_trace_notify                                                  *)

Goto(c, label) == pc' = [pc EXCEPT ![c] = label]

(* The server may call at any time: an event that finds plugin_ready 0 is  *)
(* ignored.                                                                *)
Notify(c) ==
  /\ pc[c] = "none" /\ plugin_ready
  /\ Goto(c, "self")
  /\ UNCHANGED <<lifeVars, opt_output, countVars, sinkVars, lines, thrown>>

ClientNotify(t) ==
  /\ statements < MaxStatements /\ statements' = statements + 1
  /\ Notify(t)

(* The writer's own INSERT, while the thread runs. *)
WriterNotify ==
  /\ up = 1 /\ handled < accepted
  /\ Notify(Writer)
  /\ UNCHANGED statements

table_writer_is_self(c) == c = Writer

(* That test is made under q_mutex; then a DISCONNECT is handled whatever  *)
(* opt_enabled is, the other events only if it is ON.                      *)
SelfTest_Skipped(c) ==
  /\ pc[c] = "self" /\ q_mutex = Nobody
  /\ \E label \in {"forget", "none", "handle"} : Goto(c, label)
  /\ UNCHANGED <<lifeVars, opt_output, countVars, sinkVars, history>>

SelfTest(c) ==
  /\ pc[c] = "self" /\ q_mutex = Nobody
  /\ \E label \in {"forget", "none", "handle"} :
       Goto(c, IF table_writer_is_self(c) THEN "none" ELSE label)
  /\ UNCHANGED <<lifeVars, opt_output, countVars, sinkVars, history>>

Forget(c) ==
  /\ pc[c] = "forget" /\ Goto(c, "none")
  /\ UNCHANGED <<lifeVars, opt_output, countVars, sinkVars, history>>

(* notify_impl: nothing to log, or the output opt_output says. *)
Handle(c) ==
  /\ pc[c] = "handle"
  /\ Goto(c, "none") \/ Goto(c, opt_output)
  /\ UNCHANGED <<lifeVars, opt_output, countVars, sinkVars, history>>

(* c goes on to increment a counter. *)
CountNext(c, counter) ==
  Goto(c, "load") /\ target' = [target EXCEPT ![c] = counter]

(* An exception, from handling the event to assembling the output: the     *)
(* catch of notify counts it.                                              *)
Throws(c) ==
  /\ pc[c] \in {"handle", "FILE", "TABLE"}
  /\ thrown < MaxThrown /\ thrown' = thrown + 1
  /\ CountNext(c, "callback_errors")
  /\ UNCHANGED <<lifeVars, opt_output, loaded, counters, sinkVars, statements,
                 lines>>

(* file_writer_write, and the count if it returned true. *)
FileOutput_CountsAlways(c) ==
  /\ pc[c] = "FILE"
  /\ lines' \in {lines, lines + 1}
  /\ CountNext(c, "events_logged")
  /\ UNCHANGED <<lifeVars, opt_output, loaded, counters, sinkVars, statements,
                 thrown>>

FileOutput(c) ==
  /\ pc[c] = "FILE"
  /\ \/ lines' = lines + 1 /\ CountNext(c, "events_logged")
     \/ UNCHANGED <<lines, target>> /\ Goto(c, "none")
  /\ UNCHANGED <<lifeVars, opt_output, loaded, counters, sinkVars, statements,
                 thrown>>

(* table_writer_enqueue, and the count if it returned true.  It returns    *)
(* false when the queue is full or NULL, when memory is short, and when    *)
(* there is no thread and none can be started.                             *)
TableOutput(c) ==
  /\ pc[c] = "TABLE" /\ q_mutex = Nobody
  /\ \/ Sink!Accept /\ CountNext(c, "events_logged")
     \/ UNCHANGED <<sinkVars, target>> /\ Goto(c, "none")
  /\ UNCHANGED <<lifeVars, opt_output, loaded, counters, history>>

(* counter++ without synchronisation: a load, then a store. *)
CountLoad(c) ==
  /\ pc[c] = "load" /\ Goto(c, "store")
  /\ loaded' = [loaded EXCEPT ![c] = counters[target[c]]]
  /\ UNCHANGED <<lifeVars, opt_output, target, counters, sinkVars, history>>

CountStore(c) ==
  /\ pc[c] = "store" /\ Goto(c, "none")
  /\ counters' = [counters EXCEPT ![target[c]] = loaded[c] + 1]
  /\ loaded' = [loaded EXCEPT ![c] = 0]
  /\ target' = [target EXCEPT ![c] = "events_logged"]
  /\ UNCHANGED <<lifeVars, opt_output, sinkVars, history>>

-----------------------------------------------------------------------------
(* SET GLOBAL, on a plugin that is loaded.                                 *)

SetOutput ==
  /\ phase = "ready" /\ pc[Admin] = "none"
  /\ opt_output' = IF opt_output = "FILE" THEN "TABLE" ELSE "FILE"
  /\ UNCHANGED <<lifeVars, pc, countVars, sinkVars, history>>

(* A list or the path: the check and update callbacks, which use the       *)
(* strings, the rules and the FILE writer, and count their exceptions.     *)
UpdateBegins ==
  /\ phase = "ready" /\ pc[Admin] = "none"
  /\ Goto(Admin, "update")
  /\ UNCHANGED <<lifeVars, opt_output, countVars, sinkVars, history>>

UpdateEnds ==
  /\ pc[Admin] = "update"
  /\ \/ Goto(Admin, "none") /\ UNCHANGED <<target, thrown>>
     \/ /\ thrown < MaxThrown /\ thrown' = thrown + 1
        /\ CountNext(Admin, "callback_errors")
  /\ UNCHANGED <<lifeVars, opt_output, loaded, counters, sinkVars, statements,
                 lines>>

-----------------------------------------------------------------------------
(* The writer thread settles what was accepted; it needs q_mutex for the   *)
(* next batch.                                                             *)
WriterStep ==
  /\ q_mutex = Nobody /\ pc[Writer] = "none"
  /\ Sink!Store \/ Sink!Settle
  /\ UNCHANGED <<lifeVars, opt_output, pc, countVars, history>>

CallbackStep(c) ==
  \/ SelfTest(c) \/ Forget(c) \/ Handle(c) \/ Throws(c)
  \/ FileOutput(c) \/ TableOutput(c) \/ CountLoad(c) \/ CountStore(c)

InitStep == InitWriters \/ InitStrings \/ InitRules \/ InitFails

DeinitStep == RequestStop \/ ReleaseMutex \/ JoinWriter \/ DeinitFrees

Next ==
  \/ InstallBegins \/ InitStep \/ DeinitBegins \/ DeinitStep
  \/ \E t \in Thread : ClientNotify(t)
  \/ WriterNotify
  \/ \E c \in Caller : CallbackStep(c)
  \/ SetOutput \/ UpdateBegins \/ UpdateEnds
  \/ WriterStep

Spec == Init /\ [][Next]_vars

(* The operating system runs every thread that is in init, in deinit or in *)
(* a callback, and the writer thread.                                      *)
FairSpec ==
  /\ Spec
  /\ WF_vars(InitStep) /\ WF_vars(DeinitStep) /\ WF_vars(WriterStep)
  /\ WF_vars(UpdateEnds)
  /\ \A c \in Caller : WF_vars(CallbackStep(c))
-----------------------------------------------------------------------------
(* Properties.                                                             *)

Phases == {"absent", "writers", "strings", "rules", "fail", "failed", "aborted",
           "ready", "stop", "stopping", "join", "free"}

(* Type invariant.  A resource is destroyed only if it was made: live is   *)
(* never below 0, however init failed and whatever deinit is called for.   *)
TypeOK ==
  /\ phase \in Phases /\ plugin_ready \in BOOLEAN
  /\ live \in [Resource -> {0, 1}] /\ q_mutex \in {Admin, Nobody}
  /\ opt_output \in {"FILE", "TABLE"}
  /\ pc \in [Caller -> {"none", "self", "forget", "handle", "FILE", "TABLE",
                        "load", "store", "update"}]
  /\ target \in [Caller -> Counter]
  /\ loaded \in [Caller -> Nat] /\ counters \in [Counter -> Nat]
  /\ statements \in Nat /\ lines \in Nat /\ thrown \in Nat

(* When init has failed or deinit is over nothing is left: no lock, map,   *)
(* string, rule set or queue, and no event still to be inserted.           *)
NothingLeaks ==
  phase \in {"absent", "failed"} =>
    /\ \A r \in Resource : live[r] = 0
    /\ up = 0 /\ handled = accepted /\ ~plugin_ready

(* What a callback or an update uses from where it is.  The statement's    *)
(* state is used until the callback returns.                               *)
Uses(c) ==
  CASE pc[c] = "forget" -> {"state_map_lock", "state_map"}
    [] pc[c] = "handle" -> {"state_map_lock", "state_map", "filter_lock",
                            "active_rules"}
    [] pc[c] = "FILE"   -> {"state_map", "log_lock", "file_path"}
    [] pc[c] = "TABLE"  -> {"state_map"}
    [] pc[c] \in {"load", "store"} /\ c # Admin -> {"state_map"}
    [] pc[c] = "update" -> {"filter_lock", "log_lock", "active_rules"}
                             \union Strings
    [] OTHER            -> {}

(* No callback and no SET GLOBAL uses a lock or an object that init has    *)
(* not made yet or deinit has destroyed.                                   *)
NoUseAfterFree == \A c \in Caller : \A r \in Uses(c) : live[r] = 1

(* The plugin never traces its own INSERTs: there are no more lines and    *)
(* accepted events than callbacks of client statements, although every     *)
(* INSERT of the writer raises callbacks too.                              *)
NeverTracesItself == lines + accepted <= statements

(* The counters all threads increment without a lock may lose counts, but  *)
(* events_logged is never more than what the two writers took, nor         *)
(* callback_errors more than the exceptions, and once something happened   *)
(* neither stays at 0.                                                     *)
CountersHonest ==
  /\ counters["events_logged"] <= lines + accepted
  /\ counters["callback_errors"] <= thrown
  /\ (\A c \in Caller : pc[c] = "none") =>
       /\ lines + accepted > 0 => counters["events_logged"] > 0
       /\ thrown > 0 => counters["callback_errors"] > 0

(* UNINSTALL returns: the join in deinit ends although the writer has rows *)
(* to insert, takes q_mutex and enters callbacks of the plugin meanwhile.  *)
UninstallReturns == (phase = "stop") ~> (phase = "absent")
=============================================================================
