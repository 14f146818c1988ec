------------------------------ MODULE FileWriter ------------------------------
(***************************************************************************)
(* The FILE output mode (log_writer_file_mysql.cc) and the update of       *)
(* selective_trace_log_file_path that reopens it (update_file_path in      *)
(* selective_trace_mysql.cc).                                              *)
(*                                                                         *)
(* log_lock is a reader-writer lock; a section under it is as many steps   *)
(* as other threads can tell apart.  The path is not under a lock: a       *)
(* statement thread takes the pointer opt_file_path when it calls          *)
(* file_writer_write and follows it when it opens the file, while SET      *)
(* GLOBAL assigns to the string behind it.                                 *)
(***************************************************************************)
EXTENDS Naturals, FiniteSets

CONSTANTS Thread,       \* statement threads
          Path,         \* values of selective_trace_log_file_path
          InitialPath,
          MaxLines,     \* bound: calls of file_writer_write
          MaxUpdates    \* bound: SET GLOBAL selective_trace_log_file_path

EmptyPath == "empty"

(* What a freed or half-assigned buffer may spell. *)
Garbage == "garbage"

NoFile == "NULL"
Admin  == "admin"
Nobody == "nobody"

ASSUME FileWriterAssumption ==
  /\ InitialPath \in Path /\ Path \intersect {Garbage, NoFile} = {}
  /\ Thread \intersect {Admin, Nobody} = {}
  /\ MaxLines \in Nat /\ MaxUpdates \in Nat

VARIABLES
  readers, writer,    \* log_lock
  log_fp,             \* NoFile, or the path of the open file
  write_failures,
  text, buffer,       \* file_path_storage: its content and where that is
  opt_file_path,      \* the buffer the system variable points to
  pc, arg, loaded,    \* a statement thread: where it is, its argument
                      \* path, and write_failures as it read it
  admin, updates,     \* update_file_path
  \* history
  handles,            \* files opened and not closed
  dangling,           \* log_fp was opened by what a dangling pointer showed
  failures,           \* failed writes and opens
  calls               \* calls of file_writer_write

lockVars  == <<readers, writer>>
fileVars  == <<log_fp, handles, dangling>>
pathVars  == <<text, buffer, opt_file_path>>
adminVars == <<admin, updates>>
countVars == <<write_failures, failures>>

vars == <<lockVars, fileVars, countVars, pathVars, pc, arg, loaded, adminVars,
          calls>>

Init ==
  /\ readers = {} /\ writer = Nobody
  /\ log_fp = NoFile /\ write_failures = 0
  /\ text = InitialPath /\ buffer = 0 /\ opt_file_path = 0
  /\ pc = [t \in Thread |-> "idle"]
  /\ arg = [t \in Thread |-> 0] /\ loaded = [t \in Thread |-> 0]
  /\ admin = "idle" /\ updates = 0
  /\ handles = 0 /\ dangling = FALSE /\ failures = 0
  /\ calls = 0

Goto(t, label) == pc' = [pc EXCEPT ![t] = label]

(* mysql_rwlock *)
RdLock(t) ==
  /\ writer = Nobody
  /\ readers' = readers \union {t} /\ UNCHANGED writer

WrLock(who) ==
  /\ writer = Nobody /\ readers = {}
  /\ writer' = who /\ UNCHANGED readers

Unlock(who) ==
  /\ readers' = readers \ {who}
  /\ writer' = IF writer = who THEN Nobody ELSE writer

-----------------------------------------------------------------------------
(* file_writer_write                                                       *)

Call(t) ==
  /\ pc[t] = "idle" /\ calls < MaxLines
  /\ calls' = calls + 1
  /\ arg' = [arg EXCEPT ![t] = opt_file_path]
  /\ Goto(t, "rdlock")
  /\ UNCHANGED <<lockVars, fileVars, countVars, pathVars, loaded, adminVars>>

TakeReadLock(t) ==
  /\ pc[t] = "rdlock"
  /\ RdLock(t)
  /\ Goto(t, IF log_fp = NoFile THEN "upgrade" ELSE "write")
  /\ UNCHANGED <<fileVars, countVars, pathVars, arg, loaded, adminVars, calls>>

(* Lazy open: the read lock goes before the write lock comes. *)
ReleaseToUpgrade_Keeps(t) ==
  /\ pc[t] = "upgrade"
  /\ Goto(t, "wrlock")
  /\ UNCHANGED <<lockVars, fileVars, countVars, pathVars, arg, loaded,
                 adminVars, calls>>

ReleaseToUpgrade(t) ==
  /\ pc[t] = "upgrade"
  /\ Unlock(t)
  /\ Goto(t, "wrlock")
  /\ UNCHANGED <<fileVars, countVars, pathVars, arg, loaded, adminVars, calls>>

(* Another thread may have opened the file meanwhile. *)
TakeWriteLock_NoRecheck(t) ==
  /\ pc[t] = "wrlock"
  /\ WrLock(t)
  /\ Goto(t, "open")
  /\ UNCHANGED <<fileVars, countVars, pathVars, arg, loaded, adminVars, calls>>

TakeWriteLock(t) ==
  /\ pc[t] = "wrlock"
  /\ WrLock(t)
  /\ Goto(t, IF log_fp = NoFile THEN "open" ELSE "write")
  /\ UNCHANGED <<fileVars, countVars, pathVars, arg, loaded, adminVars, calls>>

(* What following a pointer to the path finds: the text, unless the buffer *)
(* was given up or is being written.                                       *)
Dangling(ptr) == ptr # buffer \/ admin = "assigning"

PathAt(ptr) ==
  IF Dangling(ptr) THEN Path \union {EmptyPath, Garbage} ELSE {text}

(* open_locked: an empty path is refused, an open that fails is counted    *)
(* (under the write lock).                                                 *)
OpenLocked_CountsNothing(path, opened) ==
  /\ opened => path # EmptyPath
  /\ IF opened
       THEN log_fp' = path /\ handles' = handles + 1 /\ UNCHANGED countVars
       ELSE /\ UNCHANGED <<log_fp, handles, write_failures>>
            /\ failures' = failures + 1

OpenLocked(path, opened) ==
  /\ opened => path # EmptyPath
  /\ IF opened
       THEN /\ log_fp' = path /\ handles' = handles + 1
            /\ UNCHANGED countVars
       ELSE /\ UNCHANGED <<log_fp, handles>>
            /\ IF path = EmptyPath THEN UNCHANGED countVars
               ELSE /\ write_failures' = write_failures + 1
                    /\ failures' = failures + 1

OpenFile(t) ==
  /\ pc[t] = "open"
  /\ \E path \in PathAt(arg[t]), opened \in BOOLEAN :
       /\ OpenLocked(path, opened)
       /\ dangling' = (opened /\ Dangling(arg[t]))
       /\ Goto(t, IF opened THEN "write" ELSE "unlock")
  /\ UNCHANGED <<lockVars, pathVars, arg, loaded, adminVars, calls>>

(* fwrite and fflush.  A line that fits the stdio buffer fails only in     *)
(* fflush, whose result nobody looks at: file_writer_write returns true.   *)
WriteLine(t) ==
  /\ pc[t] = "write"
  /\ Goto(t, "unlock")
  /\ UNCHANGED <<lockVars, fileVars, countVars, pathVars, arg, loaded,
                 adminVars, calls>>

(* fwrite comes back short: write_failures++, a load and a store, usually  *)
(* under the read lock.                                                    *)
WriteIsShort(t) ==
  /\ pc[t] = "write"
  /\ failures' = failures + 1
  /\ loaded' = [loaded EXCEPT ![t] = write_failures]
  /\ Goto(t, "count")
  /\ UNCHANGED <<lockVars, fileVars, write_failures, pathVars, arg, adminVars,
                 calls>>

CountFailure(t) ==
  /\ pc[t] = "count"
  /\ write_failures' = loaded[t] + 1
  /\ Goto(t, "unlock")
  /\ UNCHANGED <<lockVars, fileVars, failures, pathVars, arg, loaded,
                 adminVars, calls>>

Return(t) ==
  /\ pc[t] = "unlock"
  /\ Unlock(t)
  /\ Goto(t, "idle")
  /\ UNCHANGED <<fileVars, countVars, pathVars, arg, loaded, adminVars, calls>>

-----------------------------------------------------------------------------
(* update_file_path and deinit                                             *)

(* The string is assigned in place, or a new buffer replaces the old one,  *)
(* which is freed while opt_file_path still points to it.                  *)
AssignPath(p) ==
  /\ admin = "idle" /\ updates < MaxUpdates
  /\ updates' = updates + 1
  /\ text' = p
  /\ admin' = "assigning" /\ buffer' \in {buffer, buffer + 1}
  /\ UNCHANGED <<lockVars, fileVars, countVars, opt_file_path, pc, arg, loaded,
                 calls>>

(* The system variable is pointed at the new text. *)
PublishPath ==
  /\ admin = "assigning"
  /\ opt_file_path' = buffer
  /\ admin' = "close"
  /\ UNCHANGED <<lockVars, fileVars, countVars, text, buffer, pc, arg, loaded,
                 updates, calls>>

CloseLocked_NoTest ==
  log_fp' = NoFile /\ dangling' = FALSE /\ handles' = handles - 1

CloseLocked ==
  /\ log_fp' = NoFile /\ dangling' = FALSE
  /\ handles' = IF log_fp = NoFile THEN handles ELSE handles - 1

(* file_writer_close, or the first half of file_writer_reopen when         *)
(* opt_enabled and opt_output say that the file is in use.                 *)
CloseFile_Skipped ==
  /\ admin = "close"
  /\ \/ WrLock(Admin) /\ CloseLocked /\ admin' = "open"
     \/ UNCHANGED <<lockVars, fileVars>> /\ admin' = "idle"
  /\ UNCHANGED <<countVars, pathVars, pc, arg, loaded, updates, calls>>

CloseFile_NoLock ==
  /\ admin = "close"
  /\ CloseLocked
  /\ admin' = "idle"
  /\ UNCHANGED <<lockVars, countVars, pathVars, pc, arg, loaded, updates,
                 calls>>

CloseFile ==
  /\ admin = "close"
  /\ WrLock(Admin)
  /\ CloseLocked
  /\ admin' \in {"open", "unlock"}
  /\ UNCHANGED <<countVars, pathVars, pc, arg, loaded, updates, calls>>

ReopenFile ==
  /\ admin = "open"
  /\ \E opened \in BOOLEAN : OpenLocked(text, opened)
  /\ UNCHANGED dangling
  /\ admin' = "unlock"
  /\ UNCHANGED <<lockVars, pathVars, pc, arg, loaded, updates, calls>>

AdminUnlocks ==
  /\ admin = "unlock"
  /\ Unlock(Admin)
  /\ admin' = "idle"
  /\ UNCHANGED <<fileVars, countVars, pathVars, pc, arg, loaded, updates,
                 calls>>

(* file_writer_deinit, when no callback runs any more. *)
Deinit ==
  /\ admin = "idle" /\ \A t \in Thread : pc[t] = "idle"
  /\ CloseLocked
  /\ admin' = "down"
  /\ UNCHANGED <<lockVars, countVars, pathVars, pc, arg, loaded, updates,
                 calls>>

(* The next INSTALL PLUGIN: file_writer_init, and the path is the          *)
(* configured one, in a string of its own.                                 *)
InitWriter ==
  /\ admin = "down" /\ admin' = "idle"
  /\ text' = InitialPath /\ buffer' = 0 /\ opt_file_path' = 0
  /\ UNCHANGED <<lockVars, fileVars, countVars, pc, arg, loaded, updates,
                 calls>>

-----------------------------------------------------------------------------
WriteStep(t) ==
  \/ TakeReadLock(t) \/ ReleaseToUpgrade(t) \/ TakeWriteLock(t)
  \/ OpenFile(t) \/ WriteLine(t) \/ WriteIsShort(t) \/ CountFailure(t)
  \/ Return(t)

AdminStep == PublishPath \/ CloseFile \/ ReopenFile \/ AdminUnlocks

Next ==
  \/ \E t \in Thread : (admin # "down" /\ Call(t)) \/ WriteStep(t)
  \/ \E p \in Path : AssignPath(p)
  \/ AdminStep \/ Deinit \/ InitWriter

Spec == Init /\ [][Next]_vars

(* Threads that are in a call keep running, and the lock is handed to      *)
(* whoever waits for it in the end.  Nothing makes a client send another   *)
(* statement or an administrator change the path.                          *)
FairSpec ==
  /\ Spec
  /\ \A t \in Thread : SF_vars(WriteStep(t))
  /\ SF_vars(AdminStep)

-----------------------------------------------------------------------------
(* Properties.                                                             *)

Labels == {"idle", "rdlock", "upgrade", "wrlock", "open", "write", "count",
           "unlock"}

(* Type invariant. *)
TypeOK ==
  /\ readers \subseteq Thread /\ writer \in Thread \union {Admin, Nobody}
  /\ log_fp \in Path \union {NoFile, Garbage} /\ dangling \in BOOLEAN
  /\ write_failures \in Nat /\ failures \in Nat /\ handles \in Nat
  /\ text \in Path /\ buffer \in Nat /\ opt_file_path \in Nat
  /\ pc \in [Thread -> Labels] /\ arg \in [Thread -> Nat]
  /\ loaded \in [Thread -> Nat]
  /\ admin \in {"idle", "assigning", "close", "open", "unlock", "down"}
  /\ updates \in Nat /\ calls \in Nat

(* No thread writes through a NULL or closed FILE: between its test of     *)
(* log_fp and fwrite, whether it took the read lock or came through the    *)
(* upgrade, no other thread can close the file.                            *)
NeverWritesClosed == \A t \in Thread : pc[t] = "write" => log_fp # NoFile

(* A FILE is never lost: what was opened and not closed is log_fp, even    *)
(* when several threads find it NULL and queue for the write lock.         *)
NoHandleLeak == handles = IF log_fp = NoFile THEN 0 ELSE 1

(* Lines are "appended to selective_trace_log_file_path" (docs/USAGE.md):  *)
(* once an update of it is over, to the new path and nowhere else, a lazy  *)
(* open that raced with it notwithstanding.                                *)
FileFollowsPath ==
  admin \in {"idle", "down"} /\ log_fp # NoFile => log_fp = text

(* The locking does its part: only a file that a dangling pointer named is *)
(* not the one the path says, and the next update closes that one too.     *)
FileFollowsPathUnlessDangling == dangling \/ FileFollowsPath

(* Every call returns and every update of the path ends: the lazy open,    *)
(* which waits for all readers while others wait for it, does not          *)
(* deadlock.                                                               *)
CallsReturn ==
  /\ \A t \in Thread : (pc[t] # "idle") ~> (pc[t] = "idle")
  /\ (admin = "close") ~> (admin = "idle")

(* write_failures, incremented under a read lock that excludes no other    *)
(* thread, may lose a count but shows that there were failures, and never  *)
(* more than there were.                                                   *)
FailuresShow ==
  /\ write_failures <= failures
  /\ (\A t \in Thread : pc[t] = "idle") /\ failures > 0 => write_failures > 0
=============================================================================
