--------------------------- MODULE TableWriterSink ---------------------------
(***************************************************************************)
(* TableWriter seen from its callers: what it eventually does, and that it *)
(* implements TraceSink.                                                   *)
(***************************************************************************)
EXTENDS TableWriter

(* A failed insert is counted before the writer is done with its event. *)
SettledFailures == {t \in failed : t <= handled}

Sink == INSTANCE TraceSink WITH
          Capacity <- 2 * QueueMax,
          up       <- queue_exists,
          failed   <- SettledFailures

(* The writer implements the sink: every step of the queue, the writer     *)
(* thread, init and shutdown is a step of TraceSink or invisible to it.    *)
ImplementsSink == Sink!SinkSpec

(* Every accepted event is eventually handled, whatever the INSERTs and    *)
(* connections do: the signals of q_cond lose no wakeup.                   *)
AcceptedIsHandled ==
  \A t \in 1..MaxEvents : (accepted >= t) ~> (handled >= t)

(* A shutdown that has begun terminates: pthread_join returns. *)
ShutdownTerminates == (admin \in {"join", "free"}) ~> (admin = "down")
=============================================================================
