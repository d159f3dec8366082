------------------------------- MODULE Inventory -------------------------------
(***************************************************************************)
(* The stock tables of apps/api/src/inventory/inventory.service.ts and the *)
(* handlers that write them, for one product (or product variant) kept at  *)
(* several locations.  A handler is an asynchronous function: each         *)
(* database statement whose timing matters is an action, and what it read  *)
(* stays in call[c] until it is used.  A transaction runs at Postgres'     *)
(* default READ COMMITTED: its writes are buffered in call[c] and applied  *)
(* by its last action, the rows it has updated stay locked until then, and *)
(* its reads see whatever other transactions committed meanwhile.          *)
(***************************************************************************)
EXTENDS Integers, FiniteSets, Functions

CONSTANTS Clients,       \* concurrent requests, each running one handler
          Locations,     \* where stock is kept
          Orders,        \* orders that reservations belong to
          Levels,        \* row ids of stock_levels (bound)
          Reservations,  \* row ids of stock_reservations (bound)
          Transfers,     \* row ids of stock_transfers (bound)
          Quantities,    \* quantities a request may carry
          Corrections,   \* quantities an adjustment may carry, of either sign
          MaxStock,      \* bound on what adjustments make of each location and its rows
          Routes,        \* from where to where transfers are asked for (bound)
          VariantNull,   \* TRUE: the product has no variant, variant_id is null
          None           \* no row, no location, no order

ASSUME QuantitiesAssumption == Quantities \subseteq Nat \ {0}
ASSUME CorrectionsAssumption == Corrections \subseteq Int
ASSUME NoneAssumption ==
  /\ None \notin Locations \cup Orders \cup Levels \cup Reservations \cup Transfers
  /\ VariantNull \in BOOLEAN
ASSUME FiniteAssumption ==
  /\ IsFiniteSet(Locations) /\ IsFiniteSet(Levels)
  /\ IsFiniteSet(Reservations) /\ IsFiniteSet(Transfers)
ASSUME BoundsAssumption == MaxStock \in [Locations -> Nat] /\ Routes \subseteq Locations \X Locations

VARIABLES levels,        \* stock_levels: location, onHand, reserved
          reservations,  \* stock_reservations: status, location, order, quantity
          transfers,     \* stock_transfers: status, from, to, quantity
          adjusted,      \* per location, the sum of its stock_adjustments rows
          call           \* per client, the handler it runs and what it has read

tables == <<levels, reservations, transfers, adjusted>>
vars == <<levels, reservations, transfers, adjusted, call>>

NoLevel == [loc |-> None, onHand |-> 0, reserved |-> 0]
NoReservation == [status |-> "absent", loc |-> None, order |-> None, qty |-> 0]
NoTransfer == [status |-> "absent", from |-> None, to |-> None, qty |-> 0]

(* A handler between requests, and the fields a handler in flight uses:    *)
(* its request (loc, qty, order), the row it works on (row), the level it  *)
(* found (level) and what it read there (seen), the level a transfer goes  *)
(* to (to), the reservations still to release (todo) and already released  *)
(* in this transaction (done), the level rows it has updated and therefore *)
(* locks (locked) and the reserved values it wrote there (wrote).          *)
Idle == [op |-> "idle", loc |-> None, qty |-> 0, order |-> None, row |-> None,
         level |-> None, seen |-> 0, to |-> None, todo |-> {}, done |-> {},
         locked |-> {}, wrote |-> [l \in Levels |-> 0]]

Init ==
  /\ levels = [l \in Levels |-> NoLevel]
  /\ reservations = [r \in Reservations |-> NoReservation]
  /\ transfers = [t \in Transfers |-> NoTransfer]
  /\ adjusted = [p \in Locations |-> 0]
  /\ call = [c \in Clients |-> Idle]

-----------------------------------------------------------------------------
(* findFirst on stock_levels without an order: any row of the location,    *)
(* None when it has no row.  (Mutant: a row without stock is missed.)      *)
MutantFindLevel(p) ==
  LET found == {l \in Levels : levels[l].loc = p /\ levels[l].onHand # 0}
  IN IF found = {} THEN {None} ELSE found

FindLevel(p) ==
  LET found == {l \in Levels : levels[l].loc = p}
  IN IF found = {} THEN {None} ELSE found

(* A row another transaction has updated cannot be updated before it ends. *)
Unlocked(c, l) == \A d \in Clients \ {c} : l \notin call[d].locked

(* stock_levels.create: the unique index on (group, subsidiary, location,  *)
(* product, variant) refuses a second row, unless variant_id is null: SQL  *)
(* holds nulls distinct.  The handler's transaction is then rolled back.   *)
UniqueViolation(p) == ~VariantNull /\ \E l \in Levels : levels[l].loc = p

CreateLevel(p, hand, held) ==
  \E l \in Levels :
    /\ levels[l].loc = None
    /\ levels' = [levels EXCEPT ![l] = [loc |-> p, onHand |-> hand, reserved |-> held]]

Goto(c, next) == call' = [call EXCEPT ![c] = next]
Return(c) == Goto(c, Idle)

(* A statement fails, the transaction times out, the deadlock detector     *)
(* picks this one or the process dies: nothing buffered is applied.        *)
Abort(c) ==
  /\ call[c].op # "idle"
  /\ Return(c)
  /\ UNCHANGED tables

-----------------------------------------------------------------------------
(* createStockAdjustment: one transaction, findFirst, then update or       *)
(* create.                                                                 *)
AdjustFind(c) ==
  /\ call[c].op = "idle"
  /\ \E p \in Locations, q \in Corrections : \E l \in FindLevel(p) :
       /\ adjusted[p] + q \in -MaxStock[p] .. MaxStock[p]
       /\ l # None => levels[l].onHand + q \in -MaxStock[p] .. MaxStock[p]
       /\ Goto(c, [Idle EXCEPT !.op = "adjust", !.loc = p, !.qty = q, !.level = l])
  /\ UNCHANGED tables

AdjustCommit(c) ==
  LET k == call[c] IN
  /\ k.op = "adjust"
  /\ IF k.level # None
     THEN /\ Unlocked(c, k.level)
          /\ levels' = [levels EXCEPT ![k.level].onHand = @ + k.qty]
     ELSE /\ ~UniqueViolation(k.loc)
          /\ CreateLevel(k.loc, k.qty, 0)
  /\ adjusted' = [adjusted EXCEPT ![k.loc] = @ + k.qty]
  /\ Return(c)
  /\ UNCHANGED <<reservations, transfers>>

-----------------------------------------------------------------------------
(* createStockTransfer: one insert.                                        *)
CreateTransfer(c) ==
  /\ call[c].op = "idle"
  /\ \E t \in Transfers, p, d \in Locations, q \in Quantities :
       /\ transfers[t].status = "absent"
       /\ <<p, d>> \in Routes
       /\ transfers' = [transfers EXCEPT ![t] =
                          [status |-> "pending", from |-> p, to |-> d, qty |-> q]]
  /\ UNCHANGED <<levels, reservations, adjusted, call>>

(* approveStockTransfer: read the row, return or refuse on its status,     *)
(* then update it; the two statements share no transaction.  The early     *)
(* returns (approved already, completed) change nothing and are no step.   *)
ApproveRead(c) ==
  /\ call[c].op = "idle"
  /\ \E t \in Transfers :
       /\ transfers[t].status = "pending"
       /\ Goto(c, [Idle EXCEPT !.op = "approve", !.row = t])
  /\ UNCHANGED tables

ApproveWrite(c) ==
  /\ call[c].op = "approve"
  /\ transfers' = [transfers EXCEPT ![call[c].row].status = "approved"]
  /\ Return(c)
  /\ UNCHANGED <<levels, reservations, adjusted>>

(* completeStockTransfer: the status is read before the transaction; the   *)
(* transaction reads the source level and refuses when too little is       *)
(* available, decrements it, reads the destination, then updates or        *)
(* creates it and sets the status, without looking at the status again.    *)
MutantCompleteRead(c) ==  \* the refusal of an unapproved transfer forgotten
  /\ call[c].op = "idle"
  /\ \E t \in Transfers :
       /\ transfers[t].status \in {"pending", "approved"}
       /\ Goto(c, [Idle EXCEPT !.op = "complete", !.row = t])
  /\ UNCHANGED tables

MutantCompleteAgain(c) ==  \* the early return of a completed transfer forgotten
  /\ call[c].op = "idle"
  /\ \E t \in Transfers :
       /\ transfers[t].status \in {"approved", "completed"}
       /\ Goto(c, [Idle EXCEPT !.op = "complete", !.row = t])
  /\ UNCHANGED tables

CompleteRead(c) ==
  /\ call[c].op = "idle"
  /\ \E t \in Transfers :
       /\ transfers[t].status = "approved"
       /\ Goto(c, [Idle EXCEPT !.op = "complete", !.row = t])
  /\ UNCHANGED tables

MutantAvailable(l) == levels[l].onHand  \* reserved stock counted as available

Available(l) == levels[l].onHand - levels[l].reserved

CompleteCheck(c) ==
  /\ call[c].op = "complete"
  /\ \E l \in FindLevel(transfers[call[c].row].from) :
       IF l # None /\ Available(l) >= transfers[call[c].row].qty
       THEN Goto(c, [call[c] EXCEPT !.op = "move", !.level = l])
       ELSE Return(c)
  /\ UNCHANGED tables

CompleteDecrement(c) ==
  /\ call[c].op = "move"
  /\ Unlocked(c, call[c].level)
  /\ \E l \in FindLevel(transfers[call[c].row].to) :
       Goto(c, [call[c] EXCEPT !.op = "moved", !.to = l, !.locked = {call[c].level}])
  /\ UNCHANGED tables

MutantDecremented(l, qty) == levels  \* the source is not decremented

Decremented(l, qty) == [levels EXCEPT ![l].onHand = @ - qty]

CompleteCommit(c) ==
  LET k == call[c]
      t == transfers[k.row]
      left == Decremented(k.level, t.qty)
  IN
  /\ k.op = "moved"
  /\ IF k.to # None
     THEN /\ Unlocked(c, k.to)
          /\ levels' = [left EXCEPT ![k.to].onHand = @ + t.qty]
     ELSE /\ ~UniqueViolation(t.to)
          /\ \E l \in Levels :
               /\ levels[l].loc = None
               /\ levels' = [left EXCEPT ![l] = [loc |-> t.to, onHand |-> t.qty, reserved |-> 0]]
  /\ transfers' = [transfers EXCEPT ![k.row].status = "completed"]
  /\ Return(c)
  /\ UNCHANGED <<reservations, adjusted>>

-----------------------------------------------------------------------------
(* createStockReservation: one transaction, which inserts the reservation  *)
(* (row), finds the level and increments or creates it; what is available  *)
(* is not looked at.                                                       *)
StartReserve(c, o, p, q) ==
  /\ call[c].op = "idle"
  /\ \E r \in Reservations, l \in FindLevel(p) :
       /\ reservations[r].status = "absent"
       /\ \A d \in Clients : call[d].row # r
       /\ Goto(c, [Idle EXCEPT !.op = "reserve", !.loc = p, !.qty = q, !.order = o,
                               !.row = r, !.level = l])
  /\ UNCHANGED tables

ReserveFind(c) ==
  \E o \in Orders, p \in Locations, q \in Quantities : StartReserve(c, o, p, q)

ReserveCommit(c) ==
  LET k == call[c] IN
  /\ k.op = "reserve"
  /\ IF k.level # None
     THEN /\ Unlocked(c, k.level)
          /\ levels' = [levels EXCEPT ![k.level].reserved = @ + k.qty]
     ELSE /\ ~UniqueViolation(k.loc)
          /\ CreateLevel(k.loc, 0, k.qty)
  /\ reservations' = [reservations EXCEPT ![k.row] =
       [status |-> "active", loc |-> k.loc, order |-> k.order, qty |-> k.qty]]
  /\ Return(c)
  /\ UNCHANGED <<transfers, adjusted>>

-----------------------------------------------------------------------------
(* releaseStockReservation (one id, read as active), and                   *)
(* releaseStockReservationsForOrder (the active ids of an order): both     *)
(* read first and then run releaseStockReservations on the ids.            *)
ActiveOf(o) == {r \in Reservations : reservations[r].status = "active" /\ reservations[r].order = o}

StartRelease(c, ids) ==
  /\ call[c].op = "idle"
  /\ ids # {}
  /\ Goto(c, [Idle EXCEPT !.op = "release", !.todo = ids])
  /\ UNCHANGED tables

ReleaseOne(c) ==
  \E r \in Reservations : reservations[r].status = "active" /\ StartRelease(c, {r})

ReleaseForOrder(c) == \E o \in Orders : StartRelease(c, ActiveOf(o))

(* The transaction: findMany, keep the active ones, then per reservation   *)
(* read the level, write reserved - quantity (at least 0) and the status.  *)
ReleaseBegin(c) ==
  /\ call[c].op = "release"
  /\ Goto(c, [call[c] EXCEPT !.op = "releasing",
                             !.todo = {r \in @ : reservations[r].status = "active"}])
  /\ UNCHANGED tables

MutantSeenReserved(c, l) == levels[l].reserved  \* read outside the transaction

SeenReserved(c, l) == IF l \in call[c].locked THEN call[c].wrote[l] ELSE levels[l].reserved

ReleaseFind(c) ==
  /\ call[c].op = "releasing"
  /\ call[c].row = None
  /\ \E r \in call[c].todo : \E l \in FindLevel(reservations[r].loc) :
       Goto(c, [call[c] EXCEPT !.row = r, !.level = l,
                               !.seen = IF l = None THEN 0 ELSE SeenReserved(c, l)])
  /\ UNCHANGED tables

NextReserved(seen, qty) == IF seen > qty THEN seen - qty ELSE 0

MutantRest(k) == k.todo  \* the loop does not advance
Rest(k) == k.todo \ {k.row}

ReleaseUpdate(c) ==
  LET k == call[c]
      next == [k EXCEPT !.row = None, !.level = None, !.seen = 0,
                        !.todo = Rest(k), !.done = @ \cup {k.row}]
  IN
  /\ k.op = "releasing"
  /\ k.row # None
  /\ IF k.level = None
     THEN Goto(c, next)
     ELSE /\ Unlocked(c, k.level)
          /\ Goto(c, [next EXCEPT
                        !.locked = @ \cup {k.level},
                        !.wrote[k.level] = NextReserved(k.seen, reservations[k.row].qty)])
  /\ UNCHANGED tables

ReleaseCommit(c) ==
  LET k == call[c] IN
  /\ k.op = "releasing"
  /\ k.row = None
  /\ k.todo = {}
  /\ levels' = [l \in Levels |->
       IF l \in k.locked THEN [levels[l] EXCEPT !.reserved = k.wrote[l]] ELSE levels[l]]
  /\ reservations' = [r \in Reservations |->
       IF r \in k.done THEN [reservations[r] EXCEPT !.status = "released"] ELSE reservations[r]]
  /\ Return(c)
  /\ UNCHANGED <<transfers, adjusted>>

-----------------------------------------------------------------------------
Run(c) ==
  \/ AdjustCommit(c)
  \/ ApproveWrite(c)
  \/ CompleteCheck(c) \/ CompleteDecrement(c) \/ CompleteCommit(c)
  \/ ReserveCommit(c)
  \/ ReleaseBegin(c) \/ ReleaseFind(c) \/ ReleaseUpdate(c) \/ ReleaseCommit(c)

Request(c) ==
  \/ AdjustFind(c)
  \/ CreateTransfer(c) \/ ApproveRead(c) \/ CompleteRead(c)
  \/ ReserveFind(c)
  \/ ReleaseOne(c) \/ ReleaseForOrder(c)

Next == \E c \in Clients : Request(c) \/ Run(c) \/ Abort(c)

Spec == Init /\ [][Next]_vars
-----------------------------------------------------------------------------
(* Types.                                                                  *)
Ops == {"idle", "adjust", "approve", "complete", "move", "moved", "reserve",
        "release", "releasing"}

LevelRow == [loc : Locations \cup {None}, onHand : Int, reserved : Nat]
ReservationRow == [status : {"absent", "active", "released"}, loc : Locations \cup {None},
                   order : Orders \cup {None}, qty : Nat]
TransferRow == [status : {"absent", "pending", "approved", "completed"},
                from : Locations \cup {None}, to : Locations \cup {None}, qty : Nat]
Handler == [op : Ops, loc : Locations \cup {None}, qty : Int, order : Orders \cup {None},
            row : Reservations \cup Transfers \cup {None},
            level : Levels \cup {None}, seen : Nat, to : Levels \cup {None},
            todo : SUBSET Reservations, done : SUBSET Reservations,
            locked : SUBSET Levels, wrote : [Levels -> Nat]]

(* The tables and the handlers' local copies have their types; reserved is *)
(* never negative, whatever the interleaving (the Math.max of the release).*)
TypeOK ==
  /\ levels \in [Levels -> LevelRow]
  /\ reservations \in [Reservations -> ReservationRow]
  /\ transfers \in [Transfers -> TransferRow]
  /\ adjusted \in [Locations -> Int]
  /\ call \in [Clients -> Handler]

-----------------------------------------------------------------------------
(* What the rows say of a location: the stock its levels hold, the stock   *)
(* they reserve, what the active reservations ask for, and what completed  *)
(* transfers brought and took.                                             *)
OnHand(p) ==
  SumFunction([l \in Levels |-> IF levels[l].loc = p THEN levels[l].onHand ELSE 0])
Reserved(p) ==
  SumFunction([l \in Levels |-> IF levels[l].loc = p THEN levels[l].reserved ELSE 0])
ActiveAt(r, p) == reservations[r].status = "active" /\ reservations[r].loc = p
Promised(p) ==
  SumFunction([r \in Reservations |-> IF ActiveAt(r, p) THEN reservations[r].qty ELSE 0])
Completed(t) == transfers[t].status = "completed"
Brought(p) ==
  SumFunction([t \in Transfers |->
                 IF Completed(t) /\ transfers[t].to = p THEN transfers[t].qty ELSE 0])
Taken(p) ==
  SumFunction([t \in Transfers |->
                 IF Completed(t) /\ transfers[t].from = p THEN transfers[t].qty ELSE 0])

(* createStockAdjustment and completeStockTransfer: no unit of stock       *)
(* appears or is lost.  The stock on hand over all rows is the sum of the  *)
(* adjustments, whatever the interleaving: a transfer takes from one row   *)
(* what it gives to another in the same transaction, even when it is       *)
(* completed twice or creates a second row for a location.                 *)
StockConserved == SumFunction([l \in Levels |-> levels[l].onHand]) = SumFunction(adjusted)

(* completeStockTransfer: a location holds its adjustments plus what       *)
(* completed transfers brought, less what they took: each transfer moves   *)
(* its quantity exactly once.                                              *)
StockPlaced == \A p \in Locations : OnHand(p) = adjusted[p] + Brought(p) - Taken(p)

(* createStockReservation and releaseStockReservations: reserved is the    *)
(* quantity of the active reservations of the location.                    *)
ReservedMatches == \A p \in Locations : Reserved(p) = Promised(p)

(* The unique index of stock_levels: a location has one row.               *)
OneRowPerLocation ==
  \A l, m \in Levels : levels[l].loc = levels[m].loc /\ levels[l].loc # None => l = m

(* completeStockTransfer: the availability check holds when the stock is   *)
(* taken: a completed transfer leaves its source with at least what is     *)
(* reserved there.                                                         *)
TransferWithinAvailable ==
  [][\A t \in Transfers :
       /\ transfers[t].status # "completed"
       /\ transfers'[t].status = "completed"
       => \A l \in Levels :
            levels'[l].onHand < levels[l].onHand => levels'[l].onHand >= levels'[l].reserved]_vars

(* completeStockTransfer: stock moves only for a transfer somebody has     *)
(* approved, whatever the interleaving: a transfer becomes completed from  *)
(* approved and in no other way.                                           *)
CompletedWasApproved ==
  [][\A t \in Transfers :
       transfers'[t].status = "completed" => transfers[t].status \in {"approved", "completed"}]_vars

-----------------------------------------------------------------------------
(* Row locks can make transactions wait for each other.  The client a      *)
(* handler waits for holds the row it wants to update next.                *)
Wanted(c) ==
  LET k == call[c] IN
  CASE k.op \in {"adjust", "move", "reserve"} -> k.level
    [] k.op = "moved" -> k.to
    [] k.op = "releasing" /\ k.row # None -> k.level
    [] OTHER -> None

WaitsFor(c) == {d \in Clients \ {c} : Wanted(c) \in call[d].locked}
Stuck(c) == \E d \in WaitsFor(c) : c \in WaitsFor(d)

(* A handler keeps running once the request is in; a transaction waiting   *)
(* for a row gets it in its turn (Postgres queues the waiters), hence      *)
(* strong fairness; the database breaks a lock cycle by failing one of the *)
(* transactions in it, and a refused insert fails its transaction.  With   *)
(* two clients a cycle has two members.                                    *)
Refused(c) ==
  \/ call[c].op \in {"adjust", "reserve"} /\ call[c].level = None /\ UniqueViolation(call[c].loc)
  \/ call[c].op = "moved" /\ call[c].to = None /\ UniqueViolation(transfers[call[c].row].to)

Fairness == \A c \in Clients :
  /\ SF_vars(Run(c))
  /\ WF_vars((Stuck(c) \/ Refused(c)) /\ Abort(c))

FairSpec == Spec /\ Fairness

(* Every handler returns: no transaction waits for a row for ever, and the *)
(* loop of releaseStockReservations ends.                                  *)
HandlersReturn == \A c \in Clients : call[c].op # "idle" ~> call[c].op = "idle"
=============================================================================
