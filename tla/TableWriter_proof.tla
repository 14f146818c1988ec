-------------------------- MODULE TableWriter_proof --------------------------
(***************************************************************************)
(* Proofs about TableWriter, for every capacity of the queue, every        *)
(* recycle threshold and every number of events.                           *)
(*                                                                         *)
(* Control needs nothing else and comes first; types rest on it, because   *)
(* NoteInsert takes the tail of a batch that only Control knows to be      *)
(* non-empty.  The other invariants are inductive relative to those two.   *)
(***************************************************************************)
EXTENDS TableWriter, FiniteSetTheorems, TLAPS

(* While run_insert works on an event the queue, the batch and the other   *)
(* threads' state belong to someone else: no step of it touches them.      *)
LEMMA InsertStepFrame ==
  ASSUME InsertStep
  PROVE  /\ pc \in Inserting /\ pc' \in Inserting
         /\ UNCHANGED <<sharedVars, admin, loopVars, enterVars>>
<1> USE DEF Inserting
<1>1. CASE RunInsert
  BY <1>1 DEF RunInsert
<1>2. CASE RunInsertThrows
  BY <1>2 DEF RunInsertThrows, FailInsert
<1>3. CASE AcquireServices
  BY <1>3 DEF AcquireServices, FailInsert
<1>4. CASE ConnectFails
  BY <1>4 DEF ConnectFails, FailInsert
<1>5. CASE Connect
  BY <1>5 DEF Connect
<1>6. CASE PinSqlMode
  BY <1>6 DEF PinSqlMode, FailInsert
<1>7. CASE CreateLogTable
  BY <1>7 DEF CreateLogTable
<1>8. CASE InsertSucceeds
  BY <1>8 DEF InsertSucceeds
<1>9. CASE InsertFindsNoTable
  BY <1>9 DEF InsertFindsNoTable
<1>10. CASE InsertLosesConnection
  BY <1>10 DEF InsertLosesConnection
<1>11. CASE InsertFails
  BY <1>11 DEF InsertFails, FailInsert
<1>12. QED
  BY <1>1, <1>2, <1>3, <1>4, <1>5, <1>6, <1>7, <1>8, <1>9, <1>10, <1>11
     DEF InsertStep

(* No thread, no queue: the state before table_writer_init satisfies       *)
(* Control.                                                                *)
LEMMA ControlInit == Init => Control
BY DEF Init, Control, Inserting

(* Every step of the statement threads, of init and shutdown and of the    *)
(* writer keeps the threads in step.                                       *)
LEMMA ControlStep == Control /\ [Next]_vars => Control'
<1> SUFFICES ASSUME Control, [Next]_vars PROVE Control'
  OBVIOUS
<1> USE DEF Control, Inserting, sharedVars, loopVars
<1>1. CASE Enqueue
  <2> USE <1>1 DEF Enqueue, CallbacksMayRun
  <2>1. CASE EnqueueAccepts
    BY <2>1 DEF EnqueueAccepts, StartThreadLocked, ThreadAfterStart, Signal
  <2>2. CASE EnqueueDrops
    BY <2>2 DEF EnqueueDrops, StartThreadLocked, ThreadAfterStart
  <2>3. CASE EnqueueRefuses
    BY <2>3 DEF EnqueueRefuses
  <2>4. QED
    BY <2>1, <2>2, <2>3
<1>2. CASE TableWriterInit
  BY <1>2 DEF TableWriterInit
<1>3. CASE ShutdownRequestsStop
  BY <1>3 DEF ShutdownRequestsStop, Signal
<1>4. CASE ShutdownJoins
  BY <1>4 DEF ShutdownJoins
<1>5. CASE ShutdownFrees
  BY <1>5 DEF ShutdownFrees
<1>6. CASE WriterStarts
  BY <1>6 DEF WriterStarts
<1>7. CASE WriterWaits
  BY <1>7 DEF WriterWaits
<1>8. CASE WriterTakesBatch
  BY <1>8 DEF WriterTakesBatch
<1>9. CASE WriterNextInBatch
  BY <1>9 DEF WriterNextInBatch
<1>10. CASE InsertStep
  BY <1>10, InsertStepFrame
<1>11. CASE NoteInsert
  BY <1>11 DEF NoteInsert
<1>12. CASE WriterExits
  BY <1>12 DEF WriterExits
<1>13. CASE SpuriousWakeup
  BY <1>13 DEF SpuriousWakeup
<1>14. CASE UNCHANGED vars
  BY <1>14 DEF vars
<1>15. QED
  BY <1>1, <1>2, <1>3, <1>4, <1>5, <1>6, <1>7, <1>8, <1>9, <1>10, <1>11,
     <1>12, <1>13, <1>14 DEF Next, WriterStep, Shutdown

(* The statement threads, the thread in deinit and the writer thread never *)
(* get out of step: Control holds in every reachable state.                *)
THEOREM ControlInvariant == Spec => []Control
BY ControlInit, ControlStep, PTL DEF Spec

(* The queue is never NULL under a writer thread: no step of               *)
(* writer_thread_func dereferences a NULL queue.                           *)
THEOREM QueueOutlivesThread == Spec => []NoThreadWithoutQueue
<1>1. Control => NoThreadWithoutQueue
  BY DEF Control, NoThreadWithoutQueue
<1>2. QED
  BY <1>1, ControlInvariant, PTL

(* table_writer_is_self recognises the writer for as long as it exists. *)
THEOREM WriterAlwaysRecognised == Spec => []WriterRecognised
<1>1. Control => WriterRecognised
  BY DEF Control, WriterRecognised
<1>2. QED
  BY <1>1, ControlInvariant, PTL

-----------------------------------------------------------------------------
(* Types.                                                                  *)

(* The statics have their types before table_writer_init. *)
LEMMA TypeInit == Init => TypeOK
BY DEF Init, TypeOK, Bit, WriterPC

(* Every step keeps the types; NoteInsert because its batch is not empty. *)
LEMMA TypeStep == Control /\ TypeOK /\ [Next]_vars => TypeOK'
<1> SUFFICES ASSUME Control, TypeOK, [Next]_vars PROVE TypeOK'
  OBVIOUS
<1> USE DEF TypeOK, Bit, WriterPC, sharedVars, loopVars, openVars, connVars,
            policyVars, enterVars, failVars
<1>1. CASE Enqueue
  <2> USE <1>1 DEF Enqueue
  <2>1. CASE EnqueueAccepts
    BY <2>1 DEF EnqueueAccepts, StartThreadLocked, ThreadAfterStart, Signal
  <2>2. CASE EnqueueDrops
    BY <2>2 DEF EnqueueDrops, StartThreadLocked, ThreadAfterStart
  <2>3. CASE EnqueueRefuses
    BY <2>3 DEF EnqueueRefuses
  <2>4. QED
    BY <2>1, <2>2, <2>3
<1>2. CASE TableWriterInit
  BY <1>2 DEF TableWriterInit
<1>3. CASE ShutdownRequestsStop
  BY <1>3 DEF ShutdownRequestsStop, Signal
<1>4. CASE ShutdownJoins
  BY <1>4 DEF ShutdownJoins
<1>5. CASE ShutdownFrees
  BY <1>5 DEF ShutdownFrees
<1>6. CASE WriterStarts
  BY <1>6 DEF WriterStarts
<1>7. CASE WriterWaits
  BY <1>7 DEF WriterWaits
<1>8. CASE WriterTakesBatch
  BY <1>8 DEF WriterTakesBatch
<1>9. CASE WriterNextInBatch
  BY <1>9 DEF WriterNextInBatch
<1>10. CASE RunInsert
  BY <1>10 DEF RunInsert
<1>11. CASE RunInsertThrows
  BY <1>11 DEF RunInsertThrows, FailInsert
<1>12. CASE AcquireServices
  <2>1. services' \in {"none", "partial", "all"}
    BY <1>12 DEF AcquireServices
  <2>2. CASE services' = "all"
    BY <1>12, <2>1, <2>2 DEF AcquireServices
  <2>3. CASE services' # "all"
    <3>1. FailInsert
      BY <1>12, <2>3 DEF AcquireServices
    <3>2. /\ insert_failures' \in Nat /\ failed' \in SUBSET Nat
          /\ pc' \in WriterPC
      BY <3>1 DEF FailInsert
    <3>3. QED
      BY <1>12, <2>1, <3>2 DEF AcquireServices
  <2>4. QED
    BY <2>2, <2>3
<1>13. CASE ConnectFails
  BY <1>13 DEF ConnectFails, FailInsert
<1>14. CASE Connect
  BY <1>14 DEF Connect
<1>15. CASE PinSqlMode
  <2>1. CASE sql_mode' = "pinned" /\ pc' = "create"
                /\ UNCHANGED <<command_h, on_conn, failVars>>
    BY <1>15, <2>1 DEF PinSqlMode
  <2>2. CASE CloseConn /\ FailInsert
    BY <1>15, <2>2 DEF PinSqlMode, CloseConn, FailInsert
  <2>3. QED
    BY <1>15, <2>1, <2>2 DEF PinSqlMode
<1>16. CASE CreateLogTable
  BY <1>16 DEF CreateLogTable
<1>17. CASE InsertSucceeds
  BY <1>17 DEF InsertSucceeds
<1>18. CASE InsertFindsNoTable
  BY <1>18 DEF InsertFindsNoTable
<1>19. RowMayBeStored => rows' \in Seq(Nat)
  <2>1. Append(rows, handled + 1) \in Seq(Nat)
    OBVIOUS
  <2>2. QED
    BY <2>1 DEF RowMayBeStored
<1>20. CASE InsertLosesConnection
  BY <1>19, <1>20 DEF InsertLosesConnection, CloseConn
<1>21. CASE InsertFails
  <2>1. rows' \in Seq(Nat)
    BY <1>19, <1>21 DEF InsertFails
  <2>2. QED
    BY <1>21, <2>1 DEF InsertFails, FailInsert
<1>22. CASE NoteInsert
  <2>1. batch # <<>>
    BY <1>22 DEF NoteInsert, Control, Inserting
  <2>2. batch' \in Seq(Nat)
    BY <1>22, <2>1 DEF NoteInsert
  <2>3. /\ since_recycle' \in Nat /\ recycles' \in Nat /\ on_conn' \in Nat
        /\ command_h' \in {"null", "open"}
        /\ sql_mode' \in {"ambient", "pinned"}
    BY <1>22 DEF NoteInsert, CloseConn
  <2>4. QED
    BY <1>22, <2>2, <2>3 DEF NoteInsert
<1>23. CASE WriterExits
  BY <1>23 DEF WriterExits, CloseConn
<1>24. CASE SpuriousWakeup
  BY <1>24 DEF SpuriousWakeup
<1>25. CASE UNCHANGED vars
  BY <1>25 DEF vars
<1>26. QED
  BY <1>1, <1>2, <1>3, <1>4, <1>5, <1>6, <1>7, <1>8, <1>9, <1>10, <1>11,
     <1>12, <1>13, <1>14, <1>15, <1>16, <1>17, <1>18, <1>20, <1>21, <1>22,
     <1>23, <1>24, <1>25 DEF Next, WriterStep, InsertStep, Shutdown

(* Type correctness of the queue, the writer thread and the counters. *)
THEOREM TypeCorrect == Spec => []TypeOK
BY TypeInit, TypeStep, ControlInvariant, PTL DEF Spec

-----------------------------------------------------------------------------
(* The queue and the batch.                                                *)

(* Every step keeps accepted events in one of three places, in order: only *)
(* an accepted event, the swap, the end of an iteration and the release of *)
(* the queue move any.                                                     *)
LEMMA ConservationStep ==
  Control /\ TypeOK /\ QueueConservation /\ [Next]_vars => QueueConservation'
<1> SUFFICES ASSUME Control, TypeOK, QueueConservation, [Next]_vars
             PROVE  QueueConservation'
  OBVIOUS
<1> USE DEF QueueConservation
<1>0. /\ queue \in Seq(Nat) /\ batch \in Seq(Nat)
      /\ accepted \in Nat /\ handled \in Nat
  BY DEF TypeOK
<1>1. CASE UNCHANGED <<queue, batch, accepted, handled>>
  BY <1>1
<1>2. CASE Enqueue
  <2>1. CASE EnqueueAccepts
    <3>1. /\ queue' = Append(queue, accepted + 1) /\ accepted' = accepted + 1
          /\ UNCHANGED <<batch, handled>>
      BY <1>2, <2>1 DEF Enqueue, EnqueueAccepts, loopVars
    <3>2. /\ Len(queue') = Len(queue) + 1
          /\ \A i \in 1..Len(queue) : queue'[i] = queue[i]
          /\ queue'[Len(queue) + 1] = accepted + 1
      BY <1>0, <3>1
    <3>3. \A i \in 1..Len(queue') : i \in 1..Len(queue) \/ i = Len(queue) + 1
      BY <1>0, <3>2
    <3>4. QED
      BY <1>0, <3>1, <3>2, <3>3
  <2>2. CASE EnqueueDrops \/ EnqueueRefuses
    BY <1>1, <1>2, <2>2 DEF Enqueue, EnqueueDrops, EnqueueRefuses, loopVars
  <2>3. QED
    BY <1>2, <2>1, <2>2 DEF Enqueue
<1>3. CASE ShutdownFrees
  BY <1>0, <1>3 DEF ShutdownFrees, Control, loopVars, enterVars
<1>4. CASE WriterTakesBatch
  <2>1. batch = <<>>
    BY <1>4 DEF WriterTakesBatch, Control, Inserting
  <2>2. QED
    BY <1>0, <1>4, <2>1 DEF WriterTakesBatch, enterVars
<1>5. CASE NoteInsert
  <2>1. batch # <<>>
    BY <1>5 DEF NoteInsert, Control, Inserting
  <2>2. /\ batch' = Tail(batch) /\ handled' = handled + 1
        /\ UNCHANGED <<queue, accepted>>
    BY <1>5 DEF NoteInsert, sharedVars, enterVars
  <2>3. /\ Len(batch') = Len(batch) - 1 /\ Len(batch) \in Nat
        /\ \A i \in 1..Len(batch') : batch'[i] = batch[i + 1]
    BY <1>0, <2>1, <2>2
  <2>4. handled' + Len(batch') = handled + Len(batch)
    <3> HIDE DEF QueueConservation
    <3> DEFINE m == Len(batch)
               n == Len(batch')
    <3>1. handled \in Nat /\ m \in Nat /\ n = m - 1 /\ handled' = handled + 1
      BY <1>0, <2>2, <2>3
    <3> HIDE DEF m, n
    <3>2. handled' + n = handled + m
      BY <3>1
    <3>3. QED
      BY <3>2 DEF m, n
  <2>5. \A i \in 1..Len(batch') : batch'[i] = handled' + i
    <3> SUFFICES ASSUME NEW i \in 1..Len(batch')
                 PROVE  batch'[i] = handled' + i
      OBVIOUS
    <3>1. Len(batch) \in Nat /\ i \in Nat /\ i + 1 \in 1..Len(batch)
      BY <1>0, <2>3
    <3>2. batch[i + 1] = handled + (i + 1)
      BY <3>1
    <3>3. QED
      BY <1>0, <2>2, <2>3, <3>1, <3>2
  <2>6. \A i \in 1..Len(queue') : queue'[i] = handled' + Len(batch') + i
    BY <2>2, <2>4
  <2>7. handled' + Len(batch') + Len(queue') = accepted'
    BY <2>2, <2>4
  <2>8. QED
    BY <2>5, <2>6, <2>7
<1>6. CASE InsertStep
  BY <1>1, <1>6, InsertStepFrame DEF sharedVars, loopVars, enterVars
<1>7. CASE TableWriterInit \/ ShutdownRequestsStop \/ ShutdownJoins
  BY <1>1, <1>7 DEF TableWriterInit, ShutdownRequestsStop, ShutdownJoins,
                    sharedVars, loopVars, enterVars
<1>8. CASE WriterStarts \/ WriterWaits \/ WriterNextInBatch \/ WriterExits
             \/ SpuriousWakeup
  BY <1>1, <1>8 DEF WriterStarts, WriterWaits, WriterNextInBatch, WriterExits,
                    SpuriousWakeup, sharedVars, loopVars, enterVars
<1>9. CASE UNCHANGED vars
  BY <1>1, <1>9 DEF vars, sharedVars, loopVars, enterVars
<1>10. QED
  BY <1>2, <1>3, <1>4, <1>5, <1>6, <1>7, <1>8, <1>9
     DEF Next, WriterStep, Shutdown

(* The swap under q_mutex and the loop over the batch neither lose, repeat *)
(* nor reorder an event, for a queue of any capacity.                      *)
THEOREM Conservation == Spec => []QueueConservation
<1>1. Init => QueueConservation
  BY DEF Init, QueueConservation
<1>2. QED
  BY <1>1, ConservationStep, ControlInvariant, TypeCorrect, PTL DEF Spec

(* A graceful shutdown frees the queue only when every event that          *)
(* table_writer_enqueue accepted has been handled.                         *)
THEOREM ShutdownLosesNothing == Spec => ShutdownDrains
<1>1. Control /\ QueueConservation /\ TypeOK /\ [Next]_vars =>
        [queue_exists = 1 /\ queue_exists' = 0 => handled = accepted]_vars
  <2> SUFFICES ASSUME Control, QueueConservation, TypeOK, Next,
                      queue_exists = 1, queue_exists' = 0
               PROVE  handled = accepted
    BY DEF vars
  <2>1. CASE ShutdownFrees
    <3>1. queue = <<>> /\ batch = <<>>
      BY <2>1 DEF ShutdownFrees, Control, Inserting
    <3>2. QED
      BY <3>1 DEF QueueConservation, TypeOK
  <2>2. CASE Enqueue
    BY <2>2 DEF Enqueue, EnqueueAccepts, EnqueueDrops, EnqueueRefuses
  <2>3. CASE TableWriterInit
    BY <2>3 DEF TableWriterInit, Control
  <2>4. CASE InsertStep
    BY <2>4, InsertStepFrame DEF sharedVars
  <2>5. CASE ShutdownRequestsStop \/ ShutdownJoins \/ SpuriousWakeup
    BY <2>5 DEF ShutdownRequestsStop, ShutdownJoins, SpuriousWakeup,
                sharedVars
  <2>6. CASE WriterStarts \/ WriterWaits \/ WriterTakesBatch
               \/ WriterNextInBatch \/ NoteInsert \/ WriterExits
    BY <2>6 DEF WriterStarts, WriterWaits, WriterTakesBatch,
                WriterNextInBatch, NoteInsert, WriterExits, sharedVars
  <2>7. QED
    BY <2>1, <2>2, <2>3, <2>4, <2>5, <2>6 DEF Next, WriterStep, Shutdown
<1>2. QED
  BY <1>1, ControlInvariant, Conservation, TypeCorrect, PTL
     DEF Spec, ShutdownDrains

(* The two halves of what the writer holds in memory. *)
BothBounded == Len(queue) <= QueueMax /\ Len(batch) <= QueueMax

(* The test of the queue's length in table_writer_enqueue bounds the       *)
(* queue, and the swap hands that bound to the batch.                      *)
LEMMA BothBoundedStep ==
  Control /\ TypeOK /\ BothBounded /\ [Next]_vars => BothBounded'
<1> SUFFICES ASSUME Control, TypeOK, BothBounded, [Next]_vars
             PROVE  BothBounded'
  OBVIOUS
<1> USE QueueMaxAssumption DEF BothBounded
<1>0. queue \in Seq(Nat) /\ batch \in Seq(Nat)
  BY DEF TypeOK
<1>1. CASE UNCHANGED <<queue, batch>>
  BY <1>1
<1>2. CASE Enqueue
  <2>1. CASE EnqueueAccepts
    BY <1>0, <1>2, <2>1 DEF Enqueue, EnqueueAccepts, loopVars
  <2>2. CASE EnqueueDrops \/ EnqueueRefuses
    BY <1>1, <1>2, <2>2 DEF Enqueue, EnqueueDrops, EnqueueRefuses, loopVars
  <2>3. QED
    BY <1>2, <2>1, <2>2 DEF Enqueue
<1>3. CASE ShutdownFrees
  BY <1>0, <1>3 DEF ShutdownFrees, loopVars
<1>4. CASE WriterTakesBatch
  BY <1>0, <1>4 DEF WriterTakesBatch
<1>5. CASE NoteInsert
  <2>1. batch # <<>>
    BY <1>5 DEF NoteInsert, Control, Inserting
  <2>2. QED
    BY <1>0, <1>5, <2>1 DEF NoteInsert, sharedVars
<1>6. CASE InsertStep
  BY <1>1, <1>6, InsertStepFrame DEF sharedVars, loopVars
<1>7. CASE TableWriterInit \/ ShutdownRequestsStop \/ ShutdownJoins
  BY <1>1, <1>7 DEF TableWriterInit, ShutdownRequestsStop, ShutdownJoins,
                    sharedVars, loopVars
<1>8. CASE WriterStarts \/ WriterWaits \/ WriterNextInBatch \/ WriterExits
             \/ SpuriousWakeup
  BY <1>1, <1>8 DEF WriterStarts, WriterWaits, WriterNextInBatch, WriterExits,
                    SpuriousWakeup, sharedVars, loopVars
<1>9. CASE UNCHANGED vars
  BY <1>1, <1>9 DEF vars, sharedVars, loopVars
<1>10. QED
  BY <1>2, <1>3, <1>4, <1>5, <1>6, <1>7, <1>8, <1>9
     DEF Next, WriterStep, Shutdown

(* Queue and batch are each bounded by QUEUE_MAX_EVENTS throughout. *)
LEMMA BothBoundedInvariant == Spec => []BothBounded
<1>1. Init => BothBounded
  BY QueueMaxAssumption DEF Init, BothBounded
<1>2. QED
  BY <1>1, BothBoundedStep, ControlInvariant, TypeCorrect, PTL DEF Spec

(* The writer never holds more than twice QUEUE_MAX_EVENTS events. *)
THEOREM MemoryBounded == Spec => []PendingBounded
<1>1. TypeOK /\ BothBounded /\ QueueConservation => PendingBounded
  <2> SUFFICES ASSUME TypeOK, BothBounded, QueueConservation
               PROVE  PendingBounded
    OBVIOUS
  <2>1. /\ Len(queue) \in Nat /\ Len(batch) \in Nat
        /\ accepted \in Nat /\ handled \in Nat
    BY DEF TypeOK
  <2>2. handled + Len(batch) + Len(queue) = accepted
    BY DEF QueueConservation
  <2>3. QED
    BY <2>1, <2>2, QueueMaxAssumption DEF BothBounded, PendingBounded
<1>2. QED
  BY <1>1, BothBoundedInvariant, TypeCorrect, Conservation, PTL

-----------------------------------------------------------------------------
(* The internal connection.                                                *)

(* What is known of the connection at each point of ensure_conn and        *)
(* run_insert.  An open connection is pinned unless it is being pinned;    *)
(* without a connection nothing ran on it; and the recycle counter is      *)
(* never behind the inserts of the connection, which is why resetting it   *)
(* only when a new connection follows keeps the bound.                     *)
ConnInv ==
  /\ NothingHeldAfterExit
  /\ pc \in {"pin", "create", "query", "recreate"} => command_h = "open"
  /\ command_h = "open" /\ pc # "pin" => sql_mode = "pinned"
  /\ command_h # "open" => on_conn = 0
  /\ Threshold > 0 => on_conn <= since_recycle /\ since_recycle < Threshold

(* Every way to open, pin, use, lose, recycle and close the connection     *)
(* keeps ConnInv.                                                          *)
LEMMA ConnStep == Control /\ TypeOK /\ ConnInv /\ [Next]_vars => ConnInv'
<1> SUFFICES ASSUME Control, TypeOK, ConnInv, [Next]_vars PROVE ConnInv'
  OBVIOUS
<1>0. /\ on_conn \in Nat /\ since_recycle \in Nat
      /\ command_h \in {"null", "open"} /\ pc \in WriterPC
      /\ thread_running \in {0, 1} /\ (pc # "none" => thread_running = 1)
  BY DEF TypeOK, Bit, Control
<1> USE <1>0, ThresholdAssumption
    DEF ConnInv, NothingHeldAfterExit, openVars, connVars, policyVars, WriterPC
<1>1. CASE Enqueue
  <2> USE <1>1 DEF Enqueue
  <2>1. CASE EnqueueAccepts
    BY <2>1 DEF EnqueueAccepts, ThreadAfterStart, Signal
  <2>2. CASE EnqueueDrops
    BY <2>2 DEF EnqueueDrops, ThreadAfterStart
  <2>3. CASE EnqueueRefuses
    BY <2>3 DEF EnqueueRefuses
  <2>4. QED
    BY <2>1, <2>2, <2>3
<1>2. CASE TableWriterInit
  BY <1>2 DEF TableWriterInit
<1>3. CASE ShutdownRequestsStop
  BY <1>3 DEF ShutdownRequestsStop, Signal
<1>4. CASE ShutdownJoins
  BY <1>4 DEF ShutdownJoins
<1>5. CASE ShutdownFrees
  BY <1>5 DEF ShutdownFrees
<1>6. CASE WriterStarts
  BY <1>6 DEF WriterStarts
<1>7. CASE WriterWaits
  BY <1>7 DEF WriterWaits
<1>8. CASE WriterTakesBatch
  BY <1>8 DEF WriterTakesBatch
<1>9. CASE WriterNextInBatch
  BY <1>9 DEF WriterNextInBatch
<1>10. CASE RunInsert
  BY <1>10 DEF RunInsert
<1>11. CASE RunInsertThrows
  BY <1>11 DEF RunInsertThrows, FailInsert
<1>12. CASE AcquireServices
  BY <1>12 DEF AcquireServices, FailInsert
<1>13. CASE ConnectFails
  BY <1>13 DEF ConnectFails, FailInsert
<1>14. CASE Connect
  BY <1>14 DEF Connect
<1>15. CASE PinSqlMode
  BY <1>15 DEF PinSqlMode, CloseConn, FailInsert
<1>16. CASE CreateLogTable
  BY <1>16 DEF CreateLogTable
<1>17. CASE InsertSucceeds
  BY <1>17 DEF InsertSucceeds
<1>18. CASE InsertFindsNoTable
  BY <1>18 DEF InsertFindsNoTable
<1>19. CASE InsertLosesConnection
  BY <1>19 DEF InsertLosesConnection, CloseConn
<1>20. CASE InsertFails
  BY <1>20 DEF InsertFails, FailInsert
<1>21. CASE NoteInsert
  BY <1>21 DEF NoteInsert, CloseConn
<1>22. CASE WriterExits
  BY <1>22 DEF WriterExits, CloseConn
<1>23. CASE SpuriousWakeup
  BY <1>23 DEF SpuriousWakeup
<1>24. CASE UNCHANGED vars
  BY <1>24 DEF vars
<1>25. QED
  BY <1>1, <1>2, <1>3, <1>4, <1>5, <1>6, <1>7, <1>8, <1>9, <1>10, <1>11,
     <1>12, <1>13, <1>14, <1>15, <1>16, <1>17, <1>18, <1>19, <1>20, <1>21,
     <1>22, <1>23, <1>24 DEF Next, WriterStep, InsertStep, Shutdown

(* The connection invariant holds throughout. *)
THEOREM ConnInvariant == Spec => []ConnInv
<1>1. Init => ConnInv
  BY ThresholdAssumption DEF Init, ConnInv, NothingHeldAfterExit
<1>2. QED
  BY <1>1, ConnStep, ControlInvariant, TypeCorrect, PTL DEF Spec

(* No INSERT runs on a session whose sql_mode was not pinned, whatever     *)
(* fails and however often the connection is replaced.                     *)
THEOREM InsertsArePinned == Spec => []InsertOnlyWhenPinned
<1>1. ConnInv => InsertOnlyWhenPinned
  BY DEF ConnInv, InsertOnlyWhenPinned
<1>2. QED
  BY <1>1, ConnInvariant, PTL

(* No connection outlives the recycle threshold, for every threshold. *)
THEOREM ConnectionsRecycled == Spec => []ConnectionBounded
<1>1. ConnInv /\ TypeOK => ConnectionBounded
  BY ThresholdAssumption DEF ConnInv, ConnectionBounded, TypeOK
<1>2. QED
  BY <1>1, ConnInvariant, TypeCorrect, PTL

(* A writer thread that ended holds no connection and no service. *)
THEOREM ExitReleasesEverything == Spec => []NothingHeldAfterExit
<1>1. ConnInv => NothingHeldAfterExit
  BY DEF ConnInv
<1>2. QED
  BY <1>1, ConnInvariant, PTL

-----------------------------------------------------------------------------
(* What becomes of an event.                                               *)

StoreRow == rows' = Append(rows, handled + 1)

Unsettled == Inserting \ {"note"}

(* The five things a step of run_insert can do to its event: nothing yet,  *)
(* store it, store it and lose the answer, fail, and fail a retry whose    *)
(* answer was lost.                                                        *)
LEMMA InsertStepEffect ==
  ASSUME TypeOK, InsertStep
  PROVE  /\ pc \in Unsettled
         /\ \/ /\ UNCHANGED <<rows, failVars>> /\ attempt' \in {attempt, 2}
               /\ pc' \in Unsettled
            \/ /\ StoreRow /\ UNCHANGED failVars /\ pc' = "note"
            \/ /\ StoreRow /\ UNCHANGED failVars /\ pc' \in Unsettled
               /\ attempt = 1 /\ attempt' = 2
            \/ /\ FailInsert /\ UNCHANGED rows
            \/ /\ FailInsert /\ StoreRow
<1> USE DEF Unsettled, Inserting, StoreRow
<1>1. CASE RunInsert
  BY <1>1 DEF RunInsert
<1>2. CASE RunInsertThrows
  BY <1>2 DEF RunInsertThrows
<1>3. CASE AcquireServices
  BY <1>3 DEF AcquireServices
<1>4. CASE ConnectFails
  BY <1>4 DEF ConnectFails
<1>5. CASE Connect
  BY <1>5 DEF Connect
<1>6. CASE PinSqlMode
  BY <1>6 DEF PinSqlMode
<1>7. CASE CreateLogTable
  BY <1>7 DEF CreateLogTable
<1>8. CASE InsertSucceeds
  BY <1>8 DEF InsertSucceeds
<1>9. CASE InsertFindsNoTable
  BY <1>9 DEF InsertFindsNoTable
<1>10. CASE InsertLosesConnection
  BY <1>10 DEF InsertLosesConnection, RowMayBeStored
<1>11. CASE InsertFails
  BY <1>11 DEF InsertFails, RowMayBeStored
<1>12. QED
  BY <1>1, <1>2, <1>3, <1>4, <1>5, <1>6, <1>7, <1>8, <1>9, <1>10, <1>11
     DEF InsertStep

(* A step of anything but run_insert and the end of an iteration leaves    *)
(* the log table, the failures and the event being inserted alone; an      *)
(* event is taken up with its first attempt.                               *)
LEMMA OtherStepFrame ==
  ASSUME Control, [Next]_vars, ~InsertStep, ~NoteInsert
  PROVE  /\ UNCHANGED <<rows, failVars, handled>>
         /\ \/ UNCHANGED <<pc, attempt>>
            \/ pc \notin Inserting /\ pc' \notin Inserting
            \/ pc \notin Inserting /\ pc' = "insert" /\ attempt' = 1
<1> USE DEF Inserting, loopVars
<1>1. CASE Enqueue
  <2> USE <1>1 DEF Enqueue
  <2>1. CASE EnqueueAccepts
    BY <2>1 DEF EnqueueAccepts, ThreadAfterStart, Signal, Control
  <2>2. CASE EnqueueDrops
    BY <2>2 DEF EnqueueDrops, ThreadAfterStart, Control
  <2>3. CASE EnqueueRefuses
    BY <2>3 DEF EnqueueRefuses
  <2>4. QED
    BY <2>1, <2>2, <2>3
<1>2. CASE TableWriterInit \/ ShutdownFrees
  BY <1>2 DEF TableWriterInit, ShutdownFrees
<1>3. CASE ShutdownRequestsStop
  BY <1>3 DEF ShutdownRequestsStop, Signal
<1>4. CASE ShutdownJoins
  BY <1>4 DEF ShutdownJoins
<1>5. CASE WriterStarts \/ WriterWaits \/ WriterTakesBatch \/ SpuriousWakeup
  BY <1>5 DEF WriterStarts, WriterWaits, WriterTakesBatch, SpuriousWakeup
<1>6. CASE WriterNextInBatch
  BY <1>6 DEF WriterNextInBatch
<1>7. CASE WriterExits
  BY <1>7 DEF WriterExits
<1>8. CASE UNCHANGED vars
  BY <1>8 DEF vars
<1>9. QED
  BY <1>1, <1>2, <1>3, <1>4, <1>5, <1>6, <1>7, <1>8
     DEF Next, WriterStep, Shutdown

(* What Append does to the log table. *)
LEMMA StoreRowEffect ==
  ASSUME TypeOK, StoreRow
  PROVE  /\ Len(rows) \in Nat /\ handled \in Nat
         /\ DOMAIN rows = 1..Len(rows)
         /\ DOMAIN rows' = 1..(Len(rows) + 1) /\ Len(rows') = Len(rows) + 1
         /\ \A i \in 1..Len(rows) : rows'[i] = rows[i] /\ rows[i] \in Nat
         /\ rows'[Len(rows) + 1] = handled + 1
BY DEF TypeOK, StoreRow

Stored(t) == \E i \in DOMAIN rows : rows[i] = t

(* What the writer is done with is in the log table or counted; the event  *)
(* it works on is not counted yet; and the counter is the number of failed *)
(* events.                                                                 *)
AccountInv ==
  /\ IsFiniteSet(failed) /\ Cardinality(failed) = insert_failures
  /\ \A t \in failed : t <= handled + 1
  /\ pc # "note" => handled + 1 \notin failed
  /\ \A t \in 1..handled : t \in failed \/ Stored(t)
  /\ pc = "note" => handled + 1 \in failed \/ Stored(handled + 1)

(* Every step keeps the account: an event is stored or counted before the  *)
(* writer moves on, and counted once.                                      *)
LEMMA AccountStep ==
  Control /\ TypeOK /\ AccountInv /\ [Next]_vars => AccountInv'
<1> SUFFICES ASSUME Control, TypeOK, AccountInv, [Next]_vars
             PROVE  AccountInv'
  OBVIOUS
<1>0. handled \in Nat /\ failed \in SUBSET Nat /\ insert_failures \in Nat
  BY DEF TypeOK
<1>1. CASE ~InsertStep /\ ~NoteInsert
  <2>1. /\ UNCHANGED <<rows, failed, insert_failures, handled>>
        /\ pc' = "note" => pc = "note"
        /\ pc = "note" => pc' = "note"
    BY <1>1, OtherStepFrame DEF failVars, Inserting
  <2>2. QED
    BY <2>1 DEF AccountInv, Stored
<1>2. CASE NoteInsert
  <2>1. /\ UNCHANGED <<rows, failed, insert_failures>> /\ pc = "note"
        /\ handled' = handled + 1 /\ pc' = "next"
    BY <1>2 DEF NoteInsert, failVars
  <2>2. \A t \in 1..handled' : t \in 1..handled \/ t = handled + 1
    BY <1>0, <2>1
  <2>3. handled' + 1 \notin failed
    BY <1>0, <2>1 DEF AccountInv
  <2>4. \A t \in failed : t <= handled' + 1
    BY <1>0, <2>1 DEF AccountInv
  <2>5. QED
    BY <2>1, <2>2, <2>3, <2>4 DEF AccountInv, Stored
<1>3. CASE InsertStep
  <2>0. handled' = handled /\ pc # "note"
    BY <1>3, InsertStepFrame, InsertStepEffect DEF loopVars, Unsettled
  <2>1. StoreRow => /\ \A t : Stored(t) => Stored(t)'
                    /\ Stored(handled + 1)'
    BY StoreRowEffect, <2>0 DEF Stored
  <2>2. CASE UNCHANGED <<rows, failVars>> /\ pc' \in Unsettled
    BY <2>0, <2>2 DEF AccountInv, Stored, failVars, Unsettled
  <2>3. CASE StoreRow /\ UNCHANGED failVars
    <3>1. \A t \in 1..handled' : t \in failed' \/ Stored(t)'
      BY <2>0, <2>1, <2>3 DEF AccountInv, failVars
    <3>2. QED
      BY <2>0, <2>1, <2>3, <3>1 DEF AccountInv, failVars
  <2>4. CASE FailInsert /\ (UNCHANGED rows \/ StoreRow)
    <3>1. /\ failed' = failed \union {handled + 1} /\ pc' = "note"
          /\ insert_failures' = insert_failures + 1
      BY <2>4 DEF FailInsert
    <3>2. /\ IsFiniteSet(failed') /\ Cardinality(failed') = insert_failures'
      BY <2>0, <3>1, FS_AddElement DEF AccountInv
    <3>3. \A t : Stored(t) => Stored(t)'
      BY <2>1, <2>4 DEF Stored
    <3>4. \A t \in failed' : t <= handled + 1
      BY <1>0, <3>1 DEF AccountInv
    <3>5. QED
      BY <2>0, <3>1, <3>2, <3>3, <3>4 DEF AccountInv
  <2>5. QED
    BY <1>3, <2>2, <2>3, <2>4, InsertStepEffect
<1>4. QED
  BY <1>1, <1>2, <1>3

(* The account is kept throughout. *)
LEMMA AccountInvariant == Spec => []AccountInv
<1>1. Init => AccountInv
  BY FS_EmptySet DEF Init, AccountInv
<1>2. QED
  BY <1>1, AccountStep, ControlInvariant, TypeCorrect, PTL DEF Spec

(* Every event the writer is done with is in the log table or counted in   *)
(* insert_failures, and the counter counts each once, however the INSERTs  *)
(* and the connection fail.                                                *)
THEOREM Accounted == Spec => []EveryEventAccounted
<1>1. AccountInv => EveryEventAccounted
  BY DEF AccountInv, EveryEventAccounted, Stored
<1>2. QED
  BY <1>1, AccountInvariant, PTL

(* No row belongs to an event after the one being inserted; before the     *)
(* first attempt has run none belongs to that one, and before the retry    *)
(* has run at most one does.                                               *)
RowsInv ==
  /\ RowsInOrder
  /\ \A i \in DOMAIN rows : rows[i] <= handled + 1
  /\ pc \notin Inserting => \A i \in DOMAIN rows : rows[i] <= handled
  /\ pc \in Unsettled /\ attempt = 1 =>
       \A i \in DOMAIN rows : rows[i] <= handled
  /\ pc \in Unsettled => \A i \in DOMAIN rows : i + 1 \in DOMAIN rows =>
                          rows[i] <= handled

(* Every step keeps the rows in order: a row is stored for the event in    *)
(* hand, once per attempt.                                                 *)
LEMMA RowsStep == Control /\ TypeOK /\ RowsInv /\ [Next]_vars => RowsInv'
<1> SUFFICES ASSUME Control, TypeOK, RowsInv, [Next]_vars PROVE RowsInv'
  OBVIOUS
<1>0. /\ handled \in Nat /\ attempt \in {1, 2} /\ Len(rows) \in Nat
      /\ DOMAIN rows = 1..Len(rows)
      /\ \A i \in DOMAIN rows : rows[i] \in Nat
  BY DEF TypeOK
<1>1. CASE ~InsertStep /\ ~NoteInsert
  <2>1. /\ UNCHANGED <<rows, handled>>
        /\ \/ UNCHANGED <<pc, attempt>>
           \/ pc \notin Inserting
    BY <1>1, OtherStepFrame
  <2>2. QED
    BY <1>0, <2>1 DEF RowsInv, RowsInOrder, Unsettled
<1>2. CASE NoteInsert
  <2>1. UNCHANGED rows /\ handled' = handled + 1 /\ pc' = "next"
    BY <1>2 DEF NoteInsert
  <2>2. QED
    BY <1>0, <2>1 DEF RowsInv, RowsInOrder, Unsettled, Inserting
<1>3. CASE InsertStep
  <2>0. handled' = handled /\ pc \in Unsettled /\ pc' \in Inserting
    BY <1>3, InsertStepFrame, InsertStepEffect DEF loopVars
  <2>1. CASE UNCHANGED rows /\ (attempt' \in {attempt, 2} \/ pc' = "note")
    BY <1>0, <2>0, <2>1 DEF RowsInv, RowsInOrder, Unsettled
  <2>2. ASSUME StoreRow
        PROVE  /\ RowsInOrder'
               /\ \A i \in DOMAIN rows' : rows'[i] <= handled' + 1
    <3>1. \A i, j \in DOMAIN rows' : i < j => rows'[i] <= rows'[j]
      BY <1>0, <2>2, StoreRowEffect DEF RowsInv, RowsInOrder
    <3>2. \A i \in DOMAIN rows' : i + 2 \in DOMAIN rows' =>
            rows'[i] < rows'[i + 2]
      <4> SUFFICES ASSUME NEW i \in DOMAIN rows', i + 2 \in DOMAIN rows'
                   PROVE  rows'[i] < rows'[i + 2]
        OBVIOUS
      <4>1. CASE i + 2 \in DOMAIN rows
        BY <1>0, <2>2, <4>1, StoreRowEffect DEF RowsInv, RowsInOrder
      <4>2. CASE i + 2 \notin DOMAIN rows
        <5>1. /\ i \in DOMAIN rows /\ i + 1 \in DOMAIN rows
              /\ i + 2 = Len(rows) + 1
          BY <1>0, <2>2, <4>2, StoreRowEffect
        <5>2. rows[i] <= handled
          BY <2>0, <5>1 DEF RowsInv
        <5>3. QED
          BY <1>0, <2>2, <5>1, <5>2, StoreRowEffect
      <4>3. QED
        BY <4>1, <4>2
    <3>3. \A i \in DOMAIN rows' : rows'[i] <= handled' + 1
      BY <1>0, <2>0, <2>2, StoreRowEffect DEF RowsInv
    <3>4. QED
      BY <3>1, <3>2, <3>3 DEF RowsInOrder
  <2>3. CASE StoreRow /\ pc' = "note"
    BY <2>0, <2>2, <2>3 DEF RowsInv, Unsettled
  <2>4. CASE StoreRow /\ attempt = 1 /\ attempt' = 2
    <3>1. \A i \in DOMAIN rows' : i + 1 \in DOMAIN rows' =>
            rows'[i] <= handled'
      BY <1>0, <2>0, <2>4, StoreRowEffect DEF RowsInv
    <3>2. QED
      BY <2>0, <2>2, <2>4, <3>1 DEF RowsInv
  <2>5. QED
    BY <1>3, <2>1, <2>3, <2>4, InsertStepEffect DEF FailInsert
<1>4. QED
  BY <1>1, <1>2, <1>3

(* The rows are as RowsInv says throughout. *)
LEMMA RowsInvariant == Spec => []RowsInv
<1>1. Init => RowsInv
  BY DEF Init, RowsInv, RowsInOrder
<1>2. QED
  BY <1>1, RowsStep, ControlInvariant, TypeCorrect, PTL DEF Spec

(* The log table is in the order of acceptance and holds no event three    *)
(* times: the retry of run_insert is the only source of duplicates.        *)
THEOREM RowsOrdered == Spec => []RowsInOrder
<1>1. RowsInv => RowsInOrder
  BY DEF RowsInv
<1>2. QED
  BY <1>1, RowsInvariant, PTL
=============================================================================
