-------------------------------- MODULE Outbox --------------------------------
(***************************************************************************)
(* The publisher of event_outbox rows, events/outbox.publisher.ts, in one  *)
(* or several processes.  Whatever writes the rows is outside: they are    *)
(* there from the start, and are published in the order of their ids.      *)
(***************************************************************************)
EXTENDS Naturals, FiniteSets, SequencesExt

CONSTANTS Publishers,  \* processes with OUTBOX_PUBLISHER_ENABLED
          Size,        \* rows written, in the order of created_at
          BatchSize,   \* OUTBOX_BATCH_SIZE
          MaxAttempts  \* OUTBOX_MAX_ATTEMPTS

Rows == 1..Size

VARIABLES status,    \* of a row: pending, failed, published or dead
          attempts,  \* failed attempts of a row
          waiting,   \* rows whose available_at is in the future
          channel,   \* publishers with a channel
          batch      \* per publisher, the rows its tick still has to publish

vars == <<status, attempts, waiting, channel, batch>>

Init ==
  /\ status = [r \in Rows |-> "pending"]
  /\ attempts = [r \in Rows |-> 0]
  /\ waiting = {}
  /\ channel = {}
  /\ batch = [p \in Publishers |-> <<>>]

(* ensureChannel, when the connection succeeds; the broker closes it.      *)
Connect(p) ==
  /\ p \notin channel
  /\ channel' = channel \cup {p}
  /\ UNCHANGED <<status, attempts, waiting, batch>>

ConnectionCloses(p) ==
  /\ p \in channel
  /\ channel' = channel \ {p}
  /\ UNCHANGED <<status, attempts, waiting, batch>>

Claimable == {r \in Rows \ waiting : status[r] \in {"pending", "failed"}}

(* claimPending: one statement gives the oldest rows a new available_at    *)
(* and returns them.  The timer starts no tick while another one runs.     *)
Claim(p) ==
  /\ p \in channel
  /\ batch[p] = <<>> /\ Claimable # {}
  /\ LET oldest == {r \in Claimable : Cardinality({q \in Claimable : q < r}) < BatchSize}
     IN  /\ batch' = [batch EXCEPT ![p] = SetToSortSeq(oldest, <)]
         /\ waiting' = waiting \cup oldest
  /\ UNCHANGED <<status, attempts, channel>>

(* The names a raw query returns: those of the table's columns.            *)
Columns == {"id", "group_id", "subsidiary_id", "aggregate_type", "aggregate_id", "event_type",
            "payload", "status", "available_at", "attempts", "created_at"}

(* publishRow without a channel passes the row over; a row without the     *)
(* date it reads throws before the try, and with it goes the whole tick.   *)
PublishRow(p) ==
  /\ batch[p] # <<>>
  /\ LET r == Head(batch[p]) IN
       \/ /\ p \notin channel
          /\ batch' = [batch EXCEPT ![p] = Tail(@)]
          /\ UNCHANGED <<status, attempts>>
       \/ /\ p \in channel /\ "createdAt" \notin Columns
          /\ batch' = [batch EXCEPT ![p] = <<>>]
          /\ UNCHANGED <<status, attempts>>
       \/ /\ p \in channel /\ "createdAt" \in Columns
          /\ batch' = [batch EXCEPT ![p] = Tail(@)]
          /\ \/ status' = [status EXCEPT ![r] = "published"] /\ UNCHANGED attempts
             \/ /\ attempts' = [attempts EXCEPT ![r] = @ + 1]
                /\ status' = [status EXCEPT ![r] = IF attempts'[r] >= MaxAttempts THEN "dead" ELSE "failed"]
  /\ UNCHANGED <<waiting, channel>>

(* The lock or the backoff of a row lapses.                                *)
Lapse(r) ==
  /\ r \in waiting
  /\ waiting' = waiting \ {r}
  /\ UNCHANGED <<status, attempts, channel, batch>>

Next == \/ \E p \in Publishers : Connect(p) \/ ConnectionCloses(p) \/ Claim(p) \/ PublishRow(p)
        \/ \E r \in Rows : Lapse(r)

Spec == Init /\ [][Next]_vars

(* The timer ticks for as long as the process lives, a tick that has begun *)
(* goes on, locks lapse with time, and the broker can be reached again and *)
(* again for long enough to publish.                                       *)
Fairness == /\ \A p \in Publishers : WF_vars(Connect(p)) /\ SF_vars(Claim(p))
                                     /\ SF_vars(PublishRow(p) /\ p \in channel)
                                     /\ WF_vars(PublishRow(p))
            /\ \A r \in Rows : WF_vars(Lapse(r))

FairSpec == Spec /\ Fairness

(* "Background worker publishes pending rows" (event-outbox-design.md): a  *)
(* pending row is published in the end, or is dead after its last attempt. *)
PendingIsPublished == \A r \in Rows : status[r] = "pending" ~> status[r] \in {"published", "dead"}
===============================================================================
