--------------------------- MODULE FileWriter_proof ---------------------------
(***************************************************************************)
(* Proofs about FileWriter, for every set of statement threads and every   *)
(* set of paths, whether or not an update of the path moves the string.    *)
(*                                                                         *)
(* LockInv says who holds log_lock at which point of file_writer_write and *)
(* update_file_path; it needs nothing else.  HandleInv adds what a thread  *)
(* knows of log_fp there, which only the lock protects.                    *)
(***************************************************************************)
EXTENDS FileWriter, TLAPS

LockInv ==
  /\ pc \in [Thread -> Labels]
  /\ readers \subseteq Thread
  /\ writer \in Thread \union {Admin, Nobody}
  /\ writer # Nobody => readers = {}
  /\ \A t \in Thread : pc[t] = "upgrade" => t \in readers
  /\ \A t \in Thread : pc[t] = "open" => writer = t
  /\ \A t \in Thread : pc[t] \in {"write", "count", "unlock"} =>
       t \in readers \/ writer = t
  /\ admin \in {"open", "unlock"} => writer = Admin

(* Nobody holds the lock before file_writer_init is done. *)
LEMMA LockInit == Init => LockInv
BY DEF Init, LockInv, Labels

(* A step of file_writer_write takes and releases the lock as its program  *)
(* counter says, and never while another thread relies on it.              *)
LEMMA LockWriteStep ==
  ASSUME LockInv, NEW t \in Thread, WriteStep(t)
  PROVE  LockInv'
<1> USE FileWriterAssumption DEF LockInv, Labels, Goto, lockVars, adminVars
<1>1. CASE TakeReadLock(t)
  BY <1>1 DEF TakeReadLock, RdLock
<1>2. CASE ReleaseToUpgrade(t)
  BY <1>2 DEF ReleaseToUpgrade, Unlock
<1>3. CASE TakeWriteLock(t)
  BY <1>3 DEF TakeWriteLock, WrLock, Admin, Nobody
<1>4. CASE OpenFile(t)
  BY <1>4 DEF OpenFile
<1>5. CASE WriteLine(t) \/ WriteIsShort(t) \/ CountFailure(t)
  BY <1>5 DEF WriteLine, WriteIsShort, CountFailure
<1>6. CASE Return(t)
  BY <1>6 DEF Return, Unlock
<1>7. QED
  BY <1>1, <1>2, <1>3, <1>4, <1>5, <1>6 DEF WriteStep

(* So does every other step. *)
LEMMA LockStep == LockInv /\ [Next]_vars => LockInv'
<1> SUFFICES ASSUME LockInv, [Next]_vars PROVE LockInv'
  OBVIOUS
<1> USE FileWriterAssumption DEF Admin, Nobody
<1>1. ASSUME NEW t \in Thread, WriteStep(t) PROVE LockInv'
  BY <1>1, LockWriteStep
<1> USE DEF LockInv, Labels, Goto, lockVars, adminVars
<1>2. ASSUME NEW t \in Thread, Call(t) PROVE LockInv'
  BY <1>2 DEF Call
<1>3. ASSUME NEW p \in Path, AssignPath(p) PROVE LockInv'
  BY <1>3 DEF AssignPath
<1>4. CASE PublishPath
  BY <1>4 DEF PublishPath
<1>5. CASE CloseFile
  BY <1>5 DEF CloseFile, WrLock
<1>6. CASE ReopenFile
  BY <1>6 DEF ReopenFile
<1>7. CASE AdminUnlocks
  BY <1>7 DEF AdminUnlocks, Unlock
<1>8. CASE Deinit \/ InitWriter
  BY <1>8 DEF Deinit, InitWriter
<1>9. CASE UNCHANGED vars
  BY <1>9 DEF vars
<1>10. QED
  BY <1>1, <1>2, <1>3, <1>4, <1>5, <1>6, <1>7, <1>8, <1>9
     DEF Next, AdminStep

(* log_lock is held as LockInv says throughout. *)
LEMMA LockInvariant == Spec => []LockInv
BY LockInit, LockStep, PTL DEF Spec

-----------------------------------------------------------------------------
(* The handle.                                                             *)

HandleInv ==
  /\ text \in Path /\ log_fp \in Path \union {NoFile, Garbage}
  /\ NoHandleLeak /\ NeverWritesClosed
  /\ \A t \in Thread : pc[t] = "open" => log_fp = NoFile
  /\ admin = "open" => log_fp = NoFile

(* open_locked, with no file open: there is one handle if it succeeds and  *)
(* none if it does not.                                                    *)
LEMMA OpenLockedEffect ==
  ASSUME NEW path \in Path \union {EmptyPath, Garbage}, NEW opened \in BOOLEAN,
         log_fp = NoFile, NoHandleLeak, OpenLocked(path, opened)
  PROVE  /\ log_fp' \in Path \union {NoFile, Garbage} /\ NoHandleLeak'
         /\ opened <=> log_fp' # NoFile
<1>1. CASE opened
  BY <1>1, FileWriterAssumption
     DEF OpenLocked, NoHandleLeak, NoFile, Garbage, EmptyPath
<1>2. CASE ~opened
  BY <1>2 DEF OpenLocked, NoHandleLeak
<1>3. QED
  BY <1>1, <1>2

(* A step of file_writer_write changes log_fp only under the write lock,   *)
(* having found it NULL there.                                             *)
LEMMA HandleWriteStep ==
  ASSUME LockInv, HandleInv, NEW t \in Thread, WriteStep(t)
  PROVE  HandleInv'
<1> USE DEF HandleInv, Goto
<1>0. pc \in [Thread -> Labels]
  BY DEF LockInv
<1>1. CASE TakeReadLock(t) \/ TakeWriteLock(t)
  BY <1>0, <1>1 DEF TakeReadLock, TakeWriteLock, NoHandleLeak,
                    NeverWritesClosed, adminVars, pathVars, fileVars
<1>2. CASE ReleaseToUpgrade(t) \/ WriteLine(t) \/ WriteIsShort(t)
             \/ CountFailure(t) \/ Return(t)
  BY <1>0, <1>2 DEF ReleaseToUpgrade, WriteLine, WriteIsShort, CountFailure,
                    Return, NoHandleLeak, NeverWritesClosed, adminVars,
                    pathVars, fileVars
<1>3. CASE OpenFile(t)
  <2>1. PICK path \in PathAt(arg[t]), opened \in BOOLEAN :
          /\ OpenLocked(path, opened)
          /\ Goto(t, IF opened THEN "write" ELSE "unlock")
    BY <1>3 DEF OpenFile
  <2>2. pc[t] = "open" /\ log_fp = NoFile /\ writer = t /\ readers = {}
    BY <1>3, FileWriterAssumption DEF OpenFile, LockInv
  <2>3. path \in Path \union {EmptyPath, Garbage}
    BY <2>1 DEF PathAt
  <2>4. /\ log_fp' \in Path \union {NoFile, Garbage} /\ NoHandleLeak'
        /\ opened <=> log_fp' # NoFile
    BY <2>1, <2>2, <2>3, OpenLockedEffect
  <2>5. admin' # "open" /\ UNCHANGED text
    <3>1. UNCHANGED <<admin, text>>
      BY <1>3 DEF OpenFile, adminVars, pathVars
    <3>2. QED
      BY <2>2, <3>1, FileWriterAssumption DEF LockInv
  <2>6. ASSUME NEW u \in Thread
        PROVE  /\ pc'[u] = "write" => log_fp' # NoFile
               /\ pc'[u] # "open"
    <3>1. CASE u = t
      BY <1>0, <2>1, <2>4, <3>1
    <3>2. CASE u # t
      BY <1>0, <2>1, <2>2, <3>2 DEF LockInv
    <3>3. QED
      BY <3>1, <3>2
  <2>7. QED
    BY <2>4, <2>5, <2>6 DEF NeverWritesClosed
<1>4. QED
  BY <1>1, <1>2, <1>3 DEF WriteStep

(* The file is closed only when no thread is between its test of log_fp    *)
(* and its fwrite, and reopened only by the thread that closed it.         *)
LEMMA HandleStep == LockInv /\ HandleInv /\ [Next]_vars => HandleInv'
<1> SUFFICES ASSUME LockInv, HandleInv, [Next]_vars PROVE HandleInv'
  OBVIOUS
<1>0. pc \in [Thread -> Labels]
  BY DEF LockInv
<1>1. ASSUME NEW t \in Thread, WriteStep(t) PROVE HandleInv'
  BY <1>1, HandleWriteStep
<1> USE DEF HandleInv, NoHandleLeak, NeverWritesClosed
<1>2. ASSUME NEW t \in Thread, Call(t) PROVE HandleInv'
  BY <1>0, <1>2 DEF Call, Goto, adminVars, pathVars, fileVars
<1>3. ASSUME NEW p \in Path, AssignPath(p) PROVE HandleInv'
  BY <1>3 DEF AssignPath, fileVars
<1>4. CASE PublishPath
  BY <1>4 DEF PublishPath, fileVars
<1>5. CASE CloseFile
  <2>1. readers = {} /\ writer = Nobody
    BY <1>5 DEF CloseFile, WrLock
  <2>2. \A t \in Thread : pc[t] # "write"
    BY <2>1, FileWriterAssumption DEF LockInv
  <2>3. QED
    BY <1>5, <2>2 DEF CloseFile, CloseLocked, pathVars
<1>6. CASE ReopenFile
  <2>1. writer = Admin /\ readers = {} /\ log_fp = NoFile
    BY <1>6 DEF ReopenFile, LockInv, Admin, Nobody
  <2>2. PICK opened \in BOOLEAN : OpenLocked(text, opened)
    BY <1>6 DEF ReopenFile
  <2>3. log_fp' \in Path \union {NoFile, Garbage} /\ NoHandleLeak'
    BY <2>1, <2>2, OpenLockedEffect
  <2>4. \A t \in Thread : pc[t] \notin {"write", "open"}
    BY <2>1, FileWriterAssumption DEF LockInv
  <2>5. QED
    BY <1>6, <2>3, <2>4 DEF ReopenFile, pathVars
<1>7. CASE AdminUnlocks
  BY <1>7 DEF AdminUnlocks, pathVars, fileVars
<1>8. CASE Deinit
  BY <1>8 DEF Deinit, CloseLocked, pathVars
<1>9. CASE InitWriter
  BY <1>9, FileWriterAssumption DEF InitWriter, fileVars
<1>10. CASE UNCHANGED vars
  BY <1>10 DEF vars, pathVars, adminVars, fileVars
<1>11. QED
  BY <1>1, <1>2, <1>3, <1>4, <1>5, <1>6, <1>7, <1>8, <1>9, <1>10
     DEF Next, AdminStep

(* What a thread knows of log_fp under the lock stays true throughout. *)
LEMMA HandleInvariant == Spec => []HandleInv
<1>1. Init => HandleInv
  BY FileWriterAssumption
     DEF Init, HandleInv, NoHandleLeak, NeverWritesClosed
<1>2. QED
  BY <1>1, HandleStep, LockInvariant, PTL DEF Spec

(* No thread writes through a NULL or closed FILE, for any number of       *)
(* statement threads.                                                      *)
THEOREM WritesAreOpen == Spec => []NeverWritesClosed
<1>1. HandleInv => NeverWritesClosed
  BY DEF HandleInv
<1>2. QED
  BY <1>1, HandleInvariant, PTL

(* No FILE is lost, however many threads find log_fp NULL at once. *)
THEOREM HandlesAreKept == Spec => []NoHandleLeak
<1>1. HandleInv => NoHandleLeak
  BY DEF HandleInv
<1>2. QED
  BY <1>1, HandleInvariant, PTL

-----------------------------------------------------------------------------
(* The path.                                                               *)

FollowInv ==
  /\ admin = "down" => log_fp = NoFile /\ \A t \in Thread : pc[t] = "idle"
  /\ \/ dangling \/ log_fp = NoFile \/ log_fp = text
     \/ admin \in {"assigning", "close"}

(* A step of file_writer_write opens what its pointer shows: the text,     *)
(* unless the pointer dangles.                                             *)
LEMMA FollowWriteStep ==
  ASSUME LockInv, HandleInv, FollowInv, NEW t \in Thread, WriteStep(t)
  PROVE  FollowInv'
<1>1. CASE OpenFile(t)
  <2>1. PICK path \in PathAt(arg[t]), opened \in BOOLEAN :
          /\ OpenLocked(path, opened)
          /\ dangling' = (opened /\ Dangling(arg[t]))
    BY <1>1 DEF OpenFile
  <2>2. pc[t] = "open" /\ log_fp = NoFile /\ admin # "down"
    BY <1>1 DEF OpenFile, HandleInv, FollowInv
  <2>3. UNCHANGED <<admin, text>>
    BY <1>1 DEF OpenFile, adminVars, pathVars
  <2>4. CASE ~opened
    BY <2>1, <2>2, <2>3, <2>4 DEF OpenLocked, FollowInv
  <2>5. CASE opened /\ Dangling(arg[t])
    BY <2>1, <2>2, <2>3, <2>5 DEF FollowInv
  <2>6. CASE opened /\ ~Dangling(arg[t])
    BY <2>1, <2>2, <2>3, <2>6 DEF OpenLocked, PathAt, FollowInv
  <2>7. QED
    BY <2>4, <2>5, <2>6
<1>2. CASE \/ TakeReadLock(t) \/ ReleaseToUpgrade(t) \/ TakeWriteLock(t)
           \/ WriteLine(t) \/ WriteIsShort(t) \/ CountFailure(t) \/ Return(t)
  <2>1. pc[t] # "idle" /\ UNCHANGED <<log_fp, dangling, text, admin>>
    BY <1>2 DEF TakeReadLock, ReleaseToUpgrade, TakeWriteLock, WriteLine,
                WriteIsShort, CountFailure, Return, fileVars, pathVars,
                adminVars
  <2>2. QED
    BY <2>1 DEF FollowInv
<1>3. QED
  BY <1>1, <1>2 DEF WriteStep

(* An update that has assigned the text has the file closed before it is   *)
(* over.                                                                   *)
LEMMA FollowStep ==
  LockInv /\ HandleInv /\ FollowInv /\ [Next]_vars => FollowInv'
<1> SUFFICES ASSUME LockInv, HandleInv, FollowInv, [Next]_vars
             PROVE  FollowInv'
  OBVIOUS
<1>1. ASSUME NEW t \in Thread, WriteStep(t) PROVE FollowInv'
  BY <1>1, FollowWriteStep
<1>2. ASSUME NEW t \in Thread, admin # "down", Call(t) PROVE FollowInv'
  BY <1>2 DEF Call, FollowInv, fileVars, pathVars, adminVars
<1>3. ASSUME NEW p \in Path, AssignPath(p) PROVE FollowInv'
  BY <1>3 DEF AssignPath, FollowInv
<1>4. CASE PublishPath
  BY <1>4 DEF PublishPath, FollowInv
<1>5. CASE CloseFile
  BY <1>5 DEF CloseFile, CloseLocked, FollowInv
<1>6. CASE ReopenFile
  <2>1. PICK opened \in BOOLEAN : OpenLocked(text, opened)
    BY <1>6 DEF ReopenFile
  <2>2. log_fp' \in {NoFile, text} /\ UNCHANGED text /\ admin' = "unlock"
    BY <1>6, <2>1 DEF ReopenFile, OpenLocked, HandleInv, pathVars
  <2>3. QED
    BY <2>2 DEF FollowInv
<1>7. CASE AdminUnlocks
  BY <1>7 DEF AdminUnlocks, FollowInv, fileVars, pathVars
<1>8. CASE Deinit
  BY <1>8 DEF Deinit, CloseLocked, FollowInv
<1>9. CASE InitWriter
  BY <1>9 DEF InitWriter, FollowInv, fileVars
<1>10. CASE UNCHANGED vars
  BY <1>10 DEF vars, FollowInv, fileVars, pathVars, adminVars
<1>11. QED
  BY <1>1, <1>2, <1>3, <1>4, <1>5, <1>6, <1>7, <1>8, <1>9, <1>10
     DEF Next, AdminStep

(* Once an update of the path is over no thread writes to another file,    *)
(* unless a dangling pointer named it, for any number of statement threads *)
(* and updates.                                                            *)
THEOREM PathIsFollowed == Spec => []FileFollowsPathUnlessDangling
<1>1. Init => FollowInv
  BY DEF Init, FollowInv
<1>2. FollowInv => FileFollowsPathUnlessDangling
  BY DEF FollowInv, FileFollowsPathUnlessDangling, FileFollowsPath
<1>3. QED
  BY <1>1, <1>2, FollowStep, LockInvariant, HandleInvariant, PTL DEF Spec

-----------------------------------------------------------------------------
(* The count of failures.                                                  *)

CountInv ==
  /\ write_failures \in Nat /\ failures \in Nat /\ loaded \in [Thread -> Nat]
  /\ write_failures <= failures
  /\ \A t \in Thread : pc[t] = "count" => loaded[t] < failures
  /\ failures > 0 => write_failures > 0 \/ \E t \in Thread : pc[t] = "count"

(* An open under the write lock counts nothing, or one failure in both     *)
(* counts.                                                                 *)
LEMMA OpenLockedCounts ==
  ASSUME NEW path, NEW opened \in BOOLEAN, OpenLocked(path, opened)
  PROVE  \/ UNCHANGED countVars
         \/ /\ write_failures' = write_failures + 1
            /\ failures' = failures + 1
BY DEF OpenLocked, countVars

(* What a thread read before its store is a count of earlier failures      *)
(* only, its own not among them, whatever others count meanwhile.          *)
LEMMA CountWriteStep ==
  ASSUME LockInv, CountInv, NEW t \in Thread, WriteStep(t)
  PROVE  CountInv'
<1>0. pc \in [Thread -> Labels]
  BY DEF LockInv
<1>1. CASE \/ TakeReadLock(t) \/ ReleaseToUpgrade(t) \/ TakeWriteLock(t)
           \/ WriteLine(t) \/ Return(t)
  <2>1. /\ pc[t] # "count" /\ UNCHANGED <<write_failures, failures, loaded>>
        /\ \E label \in Labels \ {"count"} : pc' = [pc EXCEPT ![t] = label]
    BY <1>1 DEF TakeReadLock, ReleaseToUpgrade, TakeWriteLock, WriteLine,
                Return, Goto, countVars, Labels
  <2>2. QED
    BY <1>0, <2>1 DEF CountInv
<1>2. CASE OpenFile(t)
  <2>1. PICK path \in PathAt(arg[t]), opened \in BOOLEAN :
          /\ OpenLocked(path, opened)
          /\ Goto(t, IF opened THEN "write" ELSE "unlock")
    BY <1>2 DEF OpenFile
  <2>2. pc[t] = "open" /\ UNCHANGED loaded
    BY <1>2 DEF OpenFile
  <2>3. CASE UNCHANGED countVars
    BY <1>0, <2>1, <2>2, <2>3 DEF CountInv, Goto, countVars
  <2>4. CASE /\ write_failures' = write_failures + 1
             /\ failures' = failures + 1
    BY <1>0, <2>1, <2>2, <2>4 DEF CountInv, Goto
  <2>5. QED
    BY <2>1, <2>3, <2>4, OpenLockedCounts
<1>3. CASE WriteIsShort(t)
  BY <1>0, <1>3 DEF WriteIsShort, CountInv, Goto
<1>4. CASE CountFailure(t)
  BY <1>0, <1>4 DEF CountFailure, CountInv, Goto
<1>5. QED
  BY <1>1, <1>2, <1>3, <1>4 DEF WriteStep

(* The steps of an update leave the threads alone. *)
LEMMA CountStep == LockInv /\ CountInv /\ [Next]_vars => CountInv'
<1> SUFFICES ASSUME LockInv, CountInv, [Next]_vars PROVE CountInv'
  OBVIOUS
<1>1. ASSUME NEW t \in Thread, WriteStep(t) PROVE CountInv'
  BY <1>1, CountWriteStep
<1>2. ASSUME NEW t \in Thread, Call(t) PROVE CountInv'
  BY <1>2 DEF Call, Goto, LockInv, CountInv, countVars
<1>3. CASE ReopenFile
  <2>1. PICK opened \in BOOLEAN : OpenLocked(text, opened)
    BY <1>3 DEF ReopenFile
  <2>2. UNCHANGED <<pc, loaded>>
    BY <1>3 DEF ReopenFile
  <2>3. QED
    BY <2>1, <2>2, OpenLockedCounts DEF CountInv, countVars
<1>4. CASE UNCHANGED <<pc, loaded, countVars>>
  BY <1>4 DEF CountInv, countVars
<1>5. CASE \/ PublishPath \/ CloseFile \/ AdminUnlocks \/ Deinit \/ InitWriter
           \/ UNCHANGED vars \/ \E p \in Path : AssignPath(p)
  BY <1>4, <1>5 DEF PublishPath, CloseFile, AdminUnlocks, Deinit, InitWriter,
                    AssignPath, vars
<1>6. QED
  BY <1>1, <1>2, <1>3, <1>5 DEF Next, AdminStep

(* CountInv is an invariant. *)
LEMMA CountInvariant == Spec => []CountInv
<1>1. Init => CountInv
  BY DEF Init, CountInv
<1>2. QED
  BY <1>1, CountStep, LockInvariant, PTL DEF Spec

(* write_failures is never more than the failures and does not stay 0 once *)
(* there was one, for any number of threads that increment it at once.     *)
THEOREM FailuresAreShown == Spec => []FailuresShow
<1>1. CountInv => FailuresShow
  BY DEF CountInv, FailuresShow
<1>2. QED
  BY <1>1, CountInvariant, PTL

-----------------------------------------------------------------------------
(* Types.                                                                  *)

(* What LockInv, HandleInv and CountInv leave of TypeOK. *)
OtherTypes ==
  /\ dangling \in BOOLEAN
  /\ buffer \in Nat /\ opt_file_path \in Nat /\ arg \in [Thread -> Nat]
  /\ admin \in {"idle", "assigning", "close", "open", "unlock", "down"}
  /\ updates \in Nat /\ calls \in Nat

(* Every step keeps the remaining types. *)
LEMMA OtherTypesStep == OtherTypes /\ [Next]_vars => OtherTypes'
<1> SUFFICES ASSUME OtherTypes, [Next]_vars PROVE OtherTypes'
  OBVIOUS
<1> USE DEF OtherTypes
<1>1. ASSUME NEW t \in Thread, Call(t) PROVE OtherTypes'
  BY <1>1 DEF Call, fileVars, pathVars, adminVars
<1>2. ASSUME NEW t \in Thread, OpenFile(t) PROVE OtherTypes'
  BY <1>2 DEF OpenFile, pathVars, adminVars
<1>3. ASSUME NEW t \in Thread, WriteStep(t), ~OpenFile(t) PROVE OtherTypes'
  <2>1. UNCHANGED <<dangling, buffer, opt_file_path, arg, admin, updates,
                    calls>>
    BY <1>3 DEF WriteStep, TakeReadLock, ReleaseToUpgrade, TakeWriteLock,
                WriteLine, WriteIsShort, CountFailure, Return, fileVars,
                pathVars, adminVars
  <2>2. QED
    BY <2>1
<1>4. ASSUME NEW p \in Path, AssignPath(p) PROVE OtherTypes'
  BY <1>4 DEF AssignPath, fileVars
<1>5. CASE PublishPath \/ InitWriter
  BY <1>5 DEF PublishPath, InitWriter, fileVars
<1>6. CASE CloseFile \/ Deinit
  BY <1>6 DEF CloseFile, Deinit, CloseLocked, pathVars
<1>7. CASE ReopenFile \/ AdminUnlocks
  BY <1>7 DEF ReopenFile, AdminUnlocks, fileVars, pathVars
<1>8. CASE UNCHANGED vars
  BY <1>8 DEF vars, fileVars, pathVars, adminVars
<1>9. QED
  BY <1>1, <1>2, <1>3, <1>4, <1>5, <1>6, <1>7, <1>8 DEF Next, AdminStep

(* Type correctness, for any sets of threads and paths.  In particular no  *)
(* close takes the count of handles below 0.                               *)
THEOREM FileWriterTypeCorrect == Spec => []TypeOK
<1>1. Init => OtherTypes
  <2>1. Init => dangling \in BOOLEAN
    BY Zenon DEF Init
  <2>2. QED
    BY <2>1 DEF Init, OtherTypes
<1>2. LockInv /\ HandleInv /\ CountInv /\ OtherTypes => TypeOK
  BY DEF LockInv, HandleInv, NoHandleLeak, CountInv, OtherTypes, TypeOK
<1>3. QED
  BY <1>1, <1>2, OtherTypesStep, LockInvariant, HandleInvariant,
     CountInvariant, PTL DEF Spec
=============================================================================
