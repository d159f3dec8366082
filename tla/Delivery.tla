------------------------------ MODULE Delivery ------------------------------
(***************************************************************************)
(* What the till promises for an operation the cashier hands it: once the  *)
(* operation is in the queue it leaves it only after the server has done   *)
(* it, and "done" is said only of what the server did.  An operation that  *)
(* is being sent and is not yet in the queue is lost if the till restarts. *)
(***************************************************************************)
CONSTANT Ops

VARIABLES fate,    \* per operation: what the till has made of it
          applied  \* the operations the server has done

vars == <<fate, applied>>

Init ==
  /\ fate = [o \in Ops |-> "new"]
  /\ applied = {}

Becomes(o, from, to) ==
  /\ fate[o] = from
  /\ fate' = [fate EXCEPT ![o] = to]
  /\ UNCHANGED applied

Send(o) == Becomes(o, "new", "sending")
Keep(o) == Becomes(o, "new", "kept") \/ Becomes(o, "sending", "kept")
Confirm(o) == o \in applied /\ Becomes(o, "sending", "done")
Refuse(o) == Becomes(o, "sending", "refused")
Clear(o) == o \in applied /\ Becomes(o, "kept", "cleared")

Apply(o) ==
  /\ fate[o] # "new"
  /\ applied' = applied \cup {o}
  /\ UNCHANGED fate

Restart ==
  /\ fate' = [o \in Ops |-> IF fate[o] = "sending" THEN "lost" ELSE fate[o]]
  /\ UNCHANGED applied

Next ==
  \/ Restart
  \/ \E o \in Ops : Send(o) \/ Keep(o) \/ Confirm(o) \/ Refuse(o) \/ Clear(o) \/ Apply(o)

Spec == Init /\ [][Next]_vars
=============================================================================
