------------------------------ MODULE PosShift ------------------------------
(***************************************************************************)
(* The server's side of a till: startShift, createCashDrop and closeShift  *)
(* of pos/pos.service.ts, and the checkout of a till ("sale"), which looks *)
(* at no shift and of which only whether it was done matters here.  A      *)
(* handler finds the shift and writes afterwards, outside any transaction; *)
(* a repeated request is a request like any other, since no idempotency    *)
(* key is kept.  One device.                                               *)
(***************************************************************************)
EXTENDS Integers, FiniteSets

CONSTANTS Ops,          \* operations the cashier starts (bound)
          Slots,        \* requests under way (bound)
          Shifts,       \* row ids of pos_shifts (bound)
          MaxHandlers,  \* requests the server handles at a time
          None

ASSUME ShiftAssumption == None \notin Shifts /\ MaxHandlers \in Nat

VARIABLES ops,     \* per operation: its kind and the shift id in its path
          call,    \* per slot: the request in it
          shifts,  \* pos_shifts: the status of each row
          applied  \* history: how often the server has done an operation

server == <<shifts, applied>>

Kinds == {"open", "drop", "close", "sale"}
NoCall == [at |-> "none", op |-> None, ok |-> FALSE]
Request(o) == [at |-> "sent", op |-> o, ok |-> FALSE]

OpenShifts == {s \in Shifts : shifts[s] = "open"}
Handling == {x \in Slots : call[x].at = "checked"}
Free(x) == call[x].at = "none"

Progress(x, at, ok) ==
  call' = [call EXCEPT ![x] = [at |-> at, op |-> call[x].op, ok |-> ok]]

(* "Shift already open for device", "Shift is not open", "Shift is already *)
(* closed".                                                                *)
Open(s) == shifts[s] = "open"

MutantStartAnyway(o) == ops[o].kind \in {"drop", "close"} => Open(ops[o].shift)
MutantDropAnyway(o) ==
  (ops[o].kind = "open" => OpenShifts = {}) /\ (ops[o].kind = "close" => Open(ops[o].shift))

Passes(o) ==
  /\ ops[o].kind = "open" => OpenShifts = {}
  /\ ops[o].kind \in {"drop", "close"} => Open(ops[o].shift)

(* findFirst, and the checks on what it returned.                          *)
Find(x) ==
  /\ call[x].at = "sent"
  /\ Cardinality(Handling) < MaxHandlers
  /\ Passes(call[x].op)
  /\ Progress(x, "checked", FALSE)
  /\ UNCHANGED <<ops, server>>

(* A check fails, or the request is refused for another reason (token,     *)
(* device, stock), or it fails before it has written anything.  None of    *)
(* these handlers answers 409.                                             *)
Reject(x) ==
  /\ call[x].at \in {"sent", "checked"}
  /\ Progress(x, "replied", FALSE)
  /\ UNCHANGED <<ops, server>>

Written(o) ==
  \/ /\ ops[o].kind = "open"
     /\ \E s \in Shifts : shifts[s] = "absent" /\ shifts' = [shifts EXCEPT ![s] = "open"]
  \/ /\ ops[o].kind = "close"
     /\ shifts' = [shifts EXCEPT ![ops[o].shift] = "closed"]
  \/ ops[o].kind \in {"drop", "sale"} /\ UNCHANGED shifts

(* create or update.  Starting and closing a shift then update the device, *)
(* and answer with an error when that fails.                               *)
MayFailAfter(o) == ops[o].kind \in {"open", "close"}

Write(x) ==
  LET o == call[x].op IN
  /\ call[x].at = "checked"
  /\ Written(o)
  /\ applied' = [applied EXCEPT ![o] = @ + 1]
  /\ \E ok \in {TRUE, ~MayFailAfter(o)} : Progress(x, "replied", ok)
  /\ UNCHANGED ops

Serve(x) == Find(x) \/ Reject(x) \/ Write(x)
=============================================================================
