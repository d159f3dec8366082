------------------------------ MODULE PosQueue ------------------------------
(***************************************************************************)
(* The till: safeWrite and the shift handlers of renderer/app.js, the      *)
(* offline queue of offline/queue.js, and its calls to the server of       *)
(* PosShift.  The till is one thread; what interleaves are the             *)
(* continuations of its awaited requests, any number of which may be under *)
(* way.  A request can be lost on its way, be given up by the till while   *)
(* the server handles it, or lose its reply.                               *)
(***************************************************************************)
EXTENDS PosShift, FiniteSetsExt

CONSTANTS Flushes,      \* runs of flushQueue that can overlap
          Strays,       \* bound on the requests given up and still under way
          MaxAttempts,  \* MAX_QUEUE_ATTEMPTS
          MaxRestarts,  \* bound on the restarts of the till
          RepliesLost   \* TRUE: a request can fail after the server has got it

ASSUME QueueAssumption == MaxAttempts \in Nat \ {0} /\ MaxRestarts \in Nat /\ RepliesLost \in BOOLEAN
ASSUME SlotAssumption ==
  /\ Slots = Ops \cup Flushes \cup Strays
  /\ Ops \cap Flushes = {} /\ Ops \cap Strays = {} /\ Flushes \cap Strays = {}
  /\ None \notin Slots
ASSUME FiniteAssumption == IsFiniteSet(Slots)

VARIABLES online,     \* state.online
          openShift,  \* state.openShift
          fate,       \* per operation: what safeWrite has made of it
          rows,       \* table offline_queue
          todo,       \* per flush: the rows it read and has not handled
          restarts    \* number of restarts so far

till == <<online, openShift, restarts>>
vars == <<ops, call, shifts, applied, online, openShift, fate, rows, todo, restarts>>

NoRow == [status |-> "absent", createdAt |-> 0, attempts |-> 0]
Row(o, createdAt, attempts) == [op |-> o, createdAt |-> createdAt, attempts |-> attempts]
Queued == {o \in Ops : rows[o].status # "absent"}
Idle(f) == todo[f] = {}

(* The till starts with an empty queue, and with or without a shift that   *)
(* is open already.                                                        *)
Init ==
  /\ ops = [o \in Ops |-> [kind |-> None, shift |-> None]]
  /\ call = [x \in Slots |-> NoCall]
  /\ shifts \in {[s \in Shifts |-> IF s = t THEN "open" ELSE "absent"] : t \in Shifts \cup {None}}
  /\ applied = [o \in Ops |-> 0]
  /\ online = FALSE
  /\ openShift = None
  /\ fate = [o \in Ops |-> "new"]
  /\ rows = [o \in Ops |-> NoRow]
  /\ todo = [f \in Flushes |-> {}]
  /\ restarts = 0

-----------------------------------------------------------------------------
(* checkHealth and setApiStatus.                                           *)
CheckHealth ==
  /\ online' = ~online
  /\ UNCHANGED <<ops, call, server, openShift, fate, rows, todo, restarts>>

(* refreshOpenShift, from evaluateAppState or after a shift was opened or  *)
(* closed; it keeps what it has when the request fails.                    *)
RefreshOpenShift ==
  /\ openShift' \in IF OpenShifts = {} THEN {None} ELSE OpenShifts
  /\ openShift' # openShift
  /\ UNCHANGED <<ops, call, server, online, fate, rows, todo, restarts>>

-----------------------------------------------------------------------------
(* safeWrite, called by the shift forms and submitOrder (refunds are made  *)
(* only online and are left out).                                          *)
Now == Max({rows[o].createdAt : o \in Ops} \cup {0}) + 1

Enqueue(o) ==
  /\ rows' = [rows EXCEPT ![o] = [status |-> "pending", createdAt |-> Now, attempts |-> 0]]
  /\ fate' = [fate EXCEPT ![o] = "queued"]

(* The form for opening a shift is shown without one, the other forms need *)
(* one, and put its id into the path.                                      *)
HandOver(o, kind) ==
  /\ fate[o] = "new"
  /\ (kind = "open") <=> (openShift = None)
  /\ ops' = [ops EXCEPT ![o] = [kind |-> kind, shift |-> openShift]]

SafeWrite(o) ==
  /\ \E kind \in Kinds : HandOver(o, kind)
  /\ IF online
     THEN /\ call' = [call EXCEPT ![o] = Request(o)]
          /\ fate' = [fate EXCEPT ![o] = "sending"]
          /\ UNCHANGED rows
     ELSE Enqueue(o) /\ UNCHANGED call
  /\ UNCHANGED <<server, till, todo>>

WriteAnswered(o) ==
  /\ call[o].at = "replied"
  /\ call' = [call EXCEPT ![o] = NoCall]
  /\ fate' = [fate EXCEPT ![o] = IF call[o].ok THEN "done" ELSE "refused"]
  /\ UNCHANGED <<ops, server, till, rows, todo>>

(* request throws: the call did not get through, or the till gave it up    *)
(* while the server went on with it, or the reply was lost.                *)
Throws(x) ==
  \/ /\ \/ call[x].at = "sent"
        \/ RepliesLost /\ call[x].at = "replied"
     /\ call' = [call EXCEPT ![x] = NoCall]
  \/ /\ RepliesLost /\ call[x].at \in {"sent", "checked"}
     /\ \E s \in Strays : Free(s) /\ call' = [call EXCEPT ![s] = call[x], ![x] = NoCall]

MutantWriteThrows(o) ==  \* the operation is forgotten
  /\ Throws(o)
  /\ fate' = [fate EXCEPT ![o] = "queued"]
  /\ UNCHANGED <<ops, server, till, rows, todo>>

WriteThrows(o) ==
  /\ Throws(o)
  /\ Enqueue(o)
  /\ UNCHANGED <<ops, server, till, todo>>

-----------------------------------------------------------------------------
(* flushQueue: read all rows, then one after the other.                    *)
ReadRows(f) ==
  /\ Idle(f)
  /\ Queued # {}
  /\ todo' = [todo EXCEPT ![f] = {Row(o, rows[o].createdAt, rows[o].attempts) : o \in Queued}]
  /\ UNCHANGED <<ops, call, server, till, fate, rows>>

(* syncQueue runs on a timer, after start-up and on going online; the      *)
(* button flushes whatever the state.                                      *)
SyncQueue(f) == online /\ ReadRows(f)
FlushButton(f) == ReadRows(f)

Oldest(f) == {row \in todo[f] : \A other \in todo[f] : row.createdAt <= other.createdAt}

Handled(f, row) == todo' = [todo EXCEPT ![f] = @ \ {row}]

(* An UPDATE of a row that is gone changes nothing.                        *)
Update(row, attempts, status) ==
  rows' = IF row.op \in Queued
          THEN [rows EXCEPT ![row.op] =
                  [status |-> status, createdAt |-> rows[row.op].createdAt, attempts |-> attempts]]
          ELSE rows

Exhausted(row) == row.attempts >= MaxAttempts

MutantSkipRow(f) == \E row \in Oldest(f) :  \* the loop ends at an exhausted row
  /\ Free(f)
  /\ Exhausted(row)
  /\ Update(row, rows[row.op].attempts, "failed")
  /\ todo' = [todo EXCEPT ![f] = {}]
  /\ UNCHANGED <<ops, call, server, till, fate>>

SkipRow(f) == \E row \in Oldest(f) :
  /\ Free(f)
  /\ Exhausted(row)
  /\ Update(row, rows[row.op].attempts, "failed")
  /\ Handled(f, row)
  /\ UNCHANGED <<ops, call, server, till, fate>>

SendRow(f) == \E row \in Oldest(f) :
  /\ Free(f)
  /\ ~Exhausted(row)
  /\ call' = [call EXCEPT ![f] = Request(row.op)]
  /\ UNCHANGED <<ops, server, till, fate, rows, todo>>

Tried(row) ==
  Update(row, row.attempts + 1, IF row.attempts + 1 >= MaxAttempts THEN "failed" ELSE "pending")

Sent(f) == {row \in todo[f] : row.op = call[f].op}

RowAnswered(f) == \E row \in Sent(f) :
  /\ call[f].at = "replied"
  /\ call' = [call EXCEPT ![f] = NoCall]
  /\ IF call[f].ok THEN rows' = [rows EXCEPT ![row.op] = NoRow] ELSE Tried(row)
  /\ Handled(f, row)
  /\ UNCHANGED <<ops, server, till, fate>>

RowThrows(f) == \E row \in Sent(f) :
  /\ Throws(f)
  /\ Tried(row)
  /\ Handled(f, row)
  /\ UNCHANGED <<ops, server, till, fate>>

-----------------------------------------------------------------------------
(* The till is closed or dies and starts again: the queue is on disk, the  *)
(* rest is gone; requests under way may go on at the server.               *)
Restart ==
  LET free == {s \in Strays : Free(s)}
      under == {x \in Ops \cup Flushes : call[x].at \in {"sent", "checked"}}
  IN
  /\ restarts < MaxRestarts
  /\ restarts' = restarts + 1
  /\ online' = FALSE
  /\ openShift' = None
  /\ fate' = [o \in Ops |-> IF fate[o] = "sending" THEN "lost" ELSE fate[o]]
  /\ todo' = [f \in Flushes |-> {}]
  /\ \E goesOn \in [free -> under \cup {None}] :
       /\ \A s, t \in free : s # t /\ goesOn[s] = goesOn[t] => goesOn[s] = None
       /\ call' = [x \in Slots |->
                     IF x \in Ops \cup Flushes THEN NoCall
                     ELSE IF x \in free /\ goesOn[x] # None THEN call[goesOn[x]]
                     ELSE call[x]]
  /\ UNCHANGED <<ops, server, rows>>

Forgotten(s) ==  \* nobody hears the reply
  /\ call[s].at = "replied"
  /\ call' = [call EXCEPT ![s] = NoCall]
  /\ UNCHANGED <<ops, server, till, fate, rows, todo>>

ServerStep(x) == Serve(x) /\ UNCHANGED <<till, fate, rows, todo>>

FlushStep(f) == SkipRow(f) \/ SendRow(f) \/ RowAnswered(f) \/ RowThrows(f)
WriteStep(o) == WriteAnswered(o) \/ WriteThrows(o)

Next ==
  \/ CheckHealth \/ RefreshOpenShift \/ Restart
  \/ \E o \in Ops : SafeWrite(o) \/ WriteStep(o)
  \/ \E f \in Flushes : SyncQueue(f) \/ FlushButton(f) \/ FlushStep(f)
  \/ \E s \in Strays : Forgotten(s)
  \/ \E x \in Slots : ServerStep(x)

Spec == Init /\ [][Next]_vars

(* The timer of syncQueue goes off for ever, a flush goes on to the next   *)
(* row, a request is answered or fails, and the server handles what it     *)
(* gets.  Nothing makes the till look whether it is online again.          *)
Fairness ==
  /\ \A f \in Flushes : WF_vars(SyncQueue(f)) /\ WF_vars(SkipRow(f) \/ SendRow(f))
                         /\ WF_vars(RowAnswered(f) \/ RowThrows(f) \/ ServerStep(f))
  /\ \A s \in Strays : WF_vars(Forgotten(s) \/ ServerStep(s))
  /\ \A o \in Ops : WF_vars(WriteStep(o) \/ ServerStep(o))

FairSpec == Spec /\ Fairness

-----------------------------------------------------------------------------
Call == [at : {"none", "sent", "checked", "replied"}, op : Ops \cup {None}, ok : BOOLEAN]
Snapshot == [op : Ops, createdAt : Nat, attempts : Nat]

TypeOK ==
  /\ ops \in [Ops -> [kind : Kinds \cup {None}, shift : Shifts \cup {None}]]
  /\ call \in [Slots -> Call]
  /\ \A x \in Slots : ~Free(x) => call[x].op \in Ops
  /\ shifts \in [Shifts -> {"absent", "open", "closed"}]
  /\ applied \in [Ops -> Nat]
  /\ online \in BOOLEAN
  /\ openShift \in Shifts \cup {None}
  /\ fate \in [Ops -> {"new", "sending", "queued", "done", "refused", "lost"}]
  /\ rows \in [Ops -> [status : {"absent", "pending", "failed"}, createdAt : Nat, attempts : 0 .. MaxAttempts]]
  /\ todo \in [Flushes -> SUBSET Snapshot]
  /\ restarts \in 0 .. MaxRestarts

(* enqueueOperation, flushQueue and safeWrite keep the promise of Delivery:*)
(* a queued operation is removed only after the server has done it, "done" *)
(* is said only of what the server did, and a restart loses nothing that   *)
(* is in the queue.                                                        *)
FateOf(o) ==
  IF fate[o] # "queued" THEN fate[o] ELSE IF o \in Queued THEN "kept" ELSE "cleared"

D == INSTANCE Delivery WITH
       fate <- [o \in Ops |-> FateOf(o)], applied <- {o \in Ops : applied[o] > 0}

Delivered == D!Spec

(* createCashDrop: a cash drop is recorded only in a shift that is open,   *)
(* however late it is replayed.                                            *)
DropsWhileOpen ==
  [][\A o \in Ops : ops[o].kind = "drop" /\ applied'[o] > applied[o] => shifts[ops[o].shift] = "open"]_vars

(* startShift and closeShift: a device has at most one open shift, and a   *)
(* shift is closed once, however many requests there are to open or to     *)
(* close it and however often each is replayed.                            *)
OneShiftAtATime ==
  /\ Cardinality(OpenShifts) <= 1
  /\ \A s \in Shifts :
       SumFunctionOnSet(applied, {o \in Ops : ops[o].kind = "close" /\ ops[o].shift = s}) <= 1

(* The rollout plan's "Offline queue replay produces no duplicates".       *)
AppliedOnce == \A o \in Ops : applied[o] <= 1

(* syncQueue and flushQueue: while the till is online a queued operation   *)
(* is delivered or is marked failed; it does not stay pending for ever.    *)
QueueSettles ==
  \A o \in Ops : (rows[o].status = "pending") ~> (rows[o].status # "pending" \/ ~online)
=============================================================================
