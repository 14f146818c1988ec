------------------------------ MODULE TraceSink ------------------------------
(***************************************************************************)
(* What table_writer_enqueue promises its callers, without saying how      *)
(* (log_writer_table_mysql.h): an event it accepts is settled later, in    *)
(* the order of acceptance, and settled means in the log table or counted  *)
(* as failed.  At most Capacity events are unsettled at any time, closing  *)
(* the sink loses none of them, and an event may be stored twice, when the *)
(* answer to its first INSERT was lost.                                    *)
(***************************************************************************)
EXTENDS Naturals, Sequences

CONSTANT Capacity   \* 2 * QUEUE_MAX_EVENTS: a full queue and a full batch

VARIABLES up,        \* 1 while there is a queue
          accepted,  \* events accepted so far; the n-th one is named n
          handled,   \* events settled so far
          rows,      \* the log table, in insertion order
          failed     \* settled events counted in insert_failures

sinkVars == <<up, accepted, handled, rows, failed>>

SinkInit ==
  /\ up = 0
  /\ accepted = 0 /\ handled = 0
  /\ rows = <<>> /\ failed = {}

Open ==
  /\ up = 0 /\ up' = 1
  /\ UNCHANGED <<accepted, handled, rows, failed>>

Accept ==
  /\ up = 1
  /\ accepted - handled < Capacity
  /\ accepted' = accepted + 1
  /\ UNCHANGED <<up, handled, rows, failed>>

(* The oldest unsettled event. *)
Head1 == handled + 1

StoredOnce(t)  == Len(rows) > 0 /\ rows[Len(rows)] = t
StoredTwice(t) == Len(rows) > 1 /\ rows[Len(rows) - 1] = t

Store ==
  /\ handled < accepted
  /\ ~StoredTwice(Head1)
  /\ rows' = Append(rows, Head1)
  /\ UNCHANGED <<up, accepted, handled, failed>>

Settle ==
  /\ handled < accepted
  /\ handled' = Head1
  /\ \/ failed' = failed \union {Head1}
     \/ StoredOnce(Head1) /\ UNCHANGED failed
  /\ UNCHANGED <<up, accepted, rows>>

Close ==
  /\ up = 1 /\ up' = 0
  /\ handled = accepted
  /\ UNCHANGED <<accepted, handled, rows, failed>>

SinkNext == Open \/ Accept \/ Store \/ Settle \/ Close

SinkSpec == SinkInit /\ [][SinkNext]_sinkVars
=============================================================================
