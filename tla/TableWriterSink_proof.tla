------------------------ MODULE TableWriterSink_proof ------------------------
(***************************************************************************)
(* TableWriter implements TraceSink, for every capacity, threshold and     *)
(* number of events.                                                       *)
(*                                                                         *)
(* An INSERT whose row is stored is Store, the end of an iteration of the  *)
(* writer's loop is Settle, and everything else run_insert does is         *)
(* invisible.  The invariants of TableWriter_proof supply the guards: the  *)
(* bounds of queue and batch that of Accept, RowsInv that of Store,        *)
(* AccountInv that of Settle, Control and conservation that of Close.      *)
(***************************************************************************)
EXTENDS TableWriterSink, TableWriter_proof

SinkInv ==
  /\ Control /\ TypeOK /\ QueueConservation /\ BothBounded
  /\ AccountInv /\ RowsInv

(* The state before table_writer_init is a closed, empty sink. *)
LEMMA SinkInitMaps == Init => Sink!SinkInit
BY DEF Init, Sink!SinkInit, SettledFailures

(* table_writer_enqueue accepts only below the sink's capacity. *)
LEMMA EnqueueMaps ==
  ASSUME SinkInv, Enqueue
  PROVE  [Sink!SinkNext]_Sink!sinkVars
<1>0. /\ Len(queue) \in Nat /\ Len(batch) \in Nat
      /\ accepted \in Nat /\ handled \in Nat
  BY DEF SinkInv, TypeOK
<1>1. UNCHANGED <<queue_exists, handled, rows, SettledFailures>>
  BY DEF Enqueue, EnqueueAccepts, EnqueueDrops, EnqueueRefuses, loopVars,
         failVars, SettledFailures
<1>2. CASE EnqueueAccepts
  <2>1. accepted - handled < 2 * QueueMax
    <3>1. handled + Len(batch) + Len(queue) = accepted
      BY DEF SinkInv, QueueConservation
    <3>2. Len(queue) < QueueMax /\ Len(batch) <= QueueMax
      BY <1>2 DEF SinkInv, BothBounded, EnqueueAccepts
    <3>3. QED
      BY <1>0, <3>1, <3>2, QueueMaxAssumption
  <2>2. Sink!Accept
    BY <1>1, <1>2, <2>1 DEF EnqueueAccepts, Sink!Accept
  <2>3. QED
    BY <2>2 DEF Sink!SinkNext
<1>3. CASE EnqueueDrops \/ EnqueueRefuses
  BY <1>1, <1>3 DEF EnqueueDrops, EnqueueRefuses, Sink!sinkVars
<1>4. QED
  BY <1>2, <1>3 DEF Enqueue

(* A step of run_insert stores a row for the oldest unsettled event, which *)
(* is not there twice yet, or does nothing the sink's user can see: its    *)
(* failures are not settled before the iteration ends.                     *)
LEMMA InsertMaps ==
  ASSUME SinkInv, InsertStep
  PROVE  [Sink!SinkNext]_Sink!sinkVars
<1>0. /\ handled \in Nat /\ accepted \in Nat /\ Len(rows) \in Nat
      /\ DOMAIN rows = 1..Len(rows) /\ failed \in SUBSET Nat
      /\ Len(batch) \in Nat /\ Len(queue) \in Nat
  BY DEF SinkInv, TypeOK
<1>1. /\ UNCHANGED <<queue_exists, accepted, handled>>
      /\ pc \in Unsettled
  BY InsertStepFrame, InsertStepEffect
     DEF SinkInv, sharedVars, loopVars, enterVars
<1>2. UNCHANGED SettledFailures
  <2>1. failed' = failed \/ failed' = failed \union {handled + 1}
    BY InsertStepEffect DEF SinkInv, FailInsert, failVars
  <2>2. ~(handled + 1 <= handled)
    BY <1>0
  <2>3. QED
    BY <1>1, <2>1, <2>2 DEF SettledFailures
<1>3. CASE UNCHANGED rows
  BY <1>1, <1>2, <1>3 DEF Sink!sinkVars
<1>4. CASE StoreRow
  <2>1. handled < accepted
    <3>1. Len(batch) > 0
      <4>1. batch # <<>> /\ batch \in Seq(Nat)
        BY <1>1 DEF SinkInv, Control, TypeOK, Unsettled
      <4>2. QED
        BY <4>1
    <3>2. handled + Len(batch) + Len(queue) = accepted
      BY DEF SinkInv, QueueConservation
    <3>3. QED
      BY <1>0, <3>1, <3>2
  <2>2. ~Sink!StoredTwice(handled + 1)
    <3> SUFFICES ASSUME Len(rows) > 1
                 PROVE  rows[Len(rows) - 1] # handled + 1
      BY DEF Sink!StoredTwice
    <3>1. rows[Len(rows) - 1] <= handled
      <4>1. Len(rows) - 1 \in DOMAIN rows /\ (Len(rows) - 1) + 1 \in DOMAIN rows
        BY <1>0
      <4>2. QED
        BY <1>1, <4>1 DEF SinkInv, RowsInv
    <3>2. QED
      BY <1>0, <3>1
  <2>3. Sink!Store
    BY <1>1, <1>2, <1>4, <2>1, <2>2 DEF StoreRow, Sink!Store, Sink!Head1
  <2>4. QED
    BY <2>3 DEF Sink!SinkNext
<1>5. QED
  BY <1>3, <1>4, InsertStepEffect DEF SinkInv

(* The end of an iteration settles the oldest unsettled event: it is       *)
(* counted as failed, or it is the last row of the log table.              *)
LEMMA NoteInsertMaps ==
  ASSUME SinkInv, NoteInsert
  PROVE  [Sink!SinkNext]_Sink!sinkVars
<1>0. /\ handled \in Nat /\ accepted \in Nat /\ Len(rows) \in Nat
      /\ DOMAIN rows = 1..Len(rows) /\ failed \in SUBSET Nat
      /\ Len(batch) \in Nat /\ Len(queue) \in Nat
      /\ \A i \in DOMAIN rows : rows[i] \in Nat
  BY DEF SinkInv, TypeOK
<1>1. /\ UNCHANGED <<queue_exists, accepted, rows, failed>>
      /\ pc = "note" /\ handled' = handled + 1
  BY DEF NoteInsert, sharedVars, enterVars, failVars
<1>2. handled < accepted
  <2>1. Len(batch) > 0
    <3>1. batch # <<>> /\ batch \in Seq(Nat)
      BY <1>1 DEF SinkInv, Control, TypeOK, Inserting
    <3>2. QED
      BY <3>1
  <2>2. handled + Len(batch) + Len(queue) = accepted
    BY DEF SinkInv, QueueConservation
  <2>3. QED
    BY <1>0, <2>1, <2>2
<1>3. CASE handled + 1 \in failed
  <2>1. SettledFailures' = SettledFailures \union {handled + 1}
    <3>1. ASSUME NEW t \in failed
          PROVE  (t <= handled + 1) <=> (t <= handled \/ t = handled + 1)
      <4>1. t \in Nat
        BY <1>0
      <4>2. QED
        BY <1>0, <4>1
    <3>2. QED
      BY <1>1, <1>3, <3>1, Zenon DEF SettledFailures
  <2>2. QED
    BY <1>1, <1>2, <2>1 DEF Sink!SinkNext, Sink!Settle, Sink!Head1
<1>4. CASE handled + 1 \notin failed
  <2>1. UNCHANGED SettledFailures
    <3>1. ASSUME NEW t \in failed
          PROVE  (t <= handled + 1) <=> (t <= handled)
      <4>1. t # handled + 1 /\ t \in Nat
        BY <1>0, <1>4
      <4>2. QED
        BY <1>0, <4>1
    <3>2. QED
      BY <1>1, <3>1 DEF SettledFailures
  <2>2. Sink!StoredOnce(handled + 1)
    <3>1. PICK i \in DOMAIN rows : rows[i] = handled + 1
      BY <1>1, <1>4 DEF SinkInv, AccountInv, Stored
    <3>2. Len(rows) > 0 /\ Len(rows) \in DOMAIN rows
      BY <1>0, <3>1
    <3>3. rows[i] <= rows[Len(rows)] /\ rows[Len(rows)] <= handled + 1
      BY <1>0, <3>1, <3>2 DEF SinkInv, RowsInv, RowsInOrder
    <3>4. QED
      BY <1>0, <3>1, <3>2, <3>3 DEF Sink!StoredOnce
  <2>3. QED
    BY <1>1, <1>2, <2>1, <2>2 DEF Sink!SinkNext, Sink!Settle, Sink!Head1
<1>5. QED
  BY <1>3, <1>4

(* table_writer_init opens the sink, the end of table_writer_shutdown      *)
(* closes it empty, and no other step of the threads is visible.           *)
LEMMA OtherMaps ==
  ASSUME SinkInv, Next, ~Enqueue, ~InsertStep, ~NoteInsert
  PROVE  [Sink!SinkNext]_Sink!sinkVars
<1>0. UNCHANGED <<handled, rows, SettledFailures>>
  BY OtherStepFrame DEF SinkInv, failVars, SettledFailures
<1>1. CASE TableWriterInit
  <2>1. queue_exists = 0 /\ queue_exists' \in {0, 1} /\ UNCHANGED accepted
    BY <1>1 DEF TableWriterInit, SinkInv, Control, enterVars
  <2>2. QED
    BY <1>0, <2>1 DEF Sink!SinkNext, Sink!Open, Sink!sinkVars
<1>2. CASE ShutdownFrees
  <2>1. queue = <<>> /\ batch = <<>>
    BY <1>2 DEF ShutdownFrees, SinkInv, Control, Inserting
  <2>2. handled = accepted
    BY <2>1 DEF SinkInv, QueueConservation, TypeOK
  <2>3. queue_exists \in {0, 1} /\ queue_exists' = 0 /\ UNCHANGED accepted
    BY <1>2 DEF ShutdownFrees, SinkInv, TypeOK, Bit, enterVars
  <2>4. QED
    BY <1>0, <2>2, <2>3 DEF Sink!SinkNext, Sink!Close, Sink!sinkVars
<1>3. CASE ~TableWriterInit /\ ~ShutdownFrees
  <2>1. CASE ShutdownRequestsStop \/ ShutdownJoins \/ SpuriousWakeup
    BY <1>0, <2>1 DEF ShutdownRequestsStop, ShutdownJoins, SpuriousWakeup,
                      sharedVars, enterVars, Sink!sinkVars
  <2>2. CASE WriterStarts \/ WriterWaits \/ WriterTakesBatch
               \/ WriterNextInBatch \/ WriterExits
    BY <1>0, <2>2 DEF WriterStarts, WriterWaits, WriterTakesBatch,
                      WriterNextInBatch, WriterExits, sharedVars, enterVars,
                      Sink!sinkVars
  <2>3. QED
    BY <1>3, <2>1, <2>2 DEF Next, WriterStep, Shutdown
<1>4. QED
  BY <1>1, <1>2, <1>3

(* TABLE output keeps the promise of log_writer_table_mysql.h: every       *)
(* behaviour of the queue, the writer thread, its connection, init and     *)
(* shutdown is one of the sink.                                            *)
THEOREM Refinement == Spec => ImplementsSink
<1>1. SinkInv /\ [Next]_vars => [Sink!SinkNext]_Sink!sinkVars
  <2> SUFFICES ASSUME SinkInv, [Next]_vars
               PROVE  [Sink!SinkNext]_Sink!sinkVars
    OBVIOUS
  <2>1. CASE UNCHANGED vars
    BY <2>1 DEF vars, sharedVars, loopVars, enterVars, failVars,
                SettledFailures, Sink!sinkVars
  <2>2. CASE Next
    BY <2>2, EnqueueMaps, InsertMaps, NoteInsertMaps, OtherMaps
  <2>3. QED
    BY <2>1, <2>2
<1>2. Spec => []SinkInv
  BY ControlInvariant, TypeCorrect, Conservation, BothBoundedInvariant,
     AccountInvariant, RowsInvariant, PTL DEF SinkInv
<1>3. QED
  BY <1>1, <1>2, SinkInitMaps, PTL DEF Spec, ImplementsSink, Sink!SinkSpec
=============================================================================
