--------------------------- MODULE InventoryProofs ---------------------------
(***************************************************************************)
(* Theorems about Inventory, for any number of clients, locations, orders  *)
(* and rows.                                                               *)
(***************************************************************************)
EXTENDS Inventory, SumTheorems

(* What a handler holds depends on where it is: the row and the level it   *)
(* read are there.  TypeOK alone is not inductive, since a step applies    *)
(* the handler's row to the tables.                                        *)
HoldsItsRows(k) ==
  /\ k.op = "adjust" => k.loc \in Locations
  /\ k.op \in {"approve", "complete", "move", "moved"} => k.row \in Transfers
  /\ k.op \in {"move", "moved"} => k.level \in Levels
  /\ k.op = "reserve" => k.row \in Reservations /\ k.loc \in Locations /\ k.qty \in Nat
  /\ k.op = "release" => k.row = None
  /\ k.op = "releasing" => k.row \in Reservations \cup {None}

TypeInv == TypeOK /\ \A c \in Clients : HoldsItsRows(call[c])

USE NoneAssumption, QuantitiesAssumption, CorrectionsAssumption

LEMMA IdleTyped == Idle \in Handler /\ HoldsItsRows(Idle) /\ Idle.op = "idle" /\ Idle.row = None
BY DEF Idle, Handler, HoldsItsRows, Ops

LEMMA FindLevelTyped ==
  ASSUME NEW p, NEW l \in FindLevel(p)
  PROVE  l \in Levels \cup {None}
BY DEF FindLevel

(* Any step that puts a well-formed handler in place of one and leaves the *)
(* tables well typed keeps the invariant.                                  *)
LEMMA GotoTyped ==
  ASSUME TypeInv, NEW c \in Clients, NEW k \in Handler, HoldsItsRows(k), Goto(c, k)
  PROVE  /\ call' \in [Clients -> Handler]
         /\ \A d \in Clients : HoldsItsRows(call'[d])
BY DEF TypeInv, TypeOK, Goto

LEMMA InitTyped == Init => TypeInv
BY IdleTyped DEF Init, TypeInv, TypeOK, NoLevel, LevelRow, NoReservation, ReservationRow,
                 NoTransfer, TransferRow

LEMMA LevelTyped ==
  ASSUME NEW f \in [Levels -> LevelRow], NEW l \in Levels
  PROVE  /\ f[l].onHand \in Int /\ f[l].reserved \in Nat
         /\ \A n \in Int : [f EXCEPT ![l].onHand = n] \in [Levels -> LevelRow]
         /\ \A n \in Nat : [f EXCEPT ![l].reserved = n] \in [Levels -> LevelRow]
         /\ \A p \in Locations, h \in Int, n \in Nat :
              [f EXCEPT ![l] = [loc |-> p, onHand |-> h, reserved |-> n]] \in [Levels -> LevelRow]
<1>1. f[l] \in LevelRow OBVIOUS
<1>2. \A n \in Int : [f[l] EXCEPT !.onHand = n] \in LevelRow BY <1>1 DEF LevelRow
<1>3. \A n \in Nat : [f[l] EXCEPT !.reserved = n] \in LevelRow BY <1>1 DEF LevelRow
<1>4. \A p \in Locations, h \in Int, n \in Nat :
        [loc |-> p, onHand |-> h, reserved |-> n] \in LevelRow BY DEF LevelRow
<1>5. f[l].onHand \in Int /\ f[l].reserved \in Nat BY <1>1 DEF LevelRow
<1>6. QED BY <1>2, <1>3, <1>4, <1>5

LEMMA TransferStatusTyped ==
  ASSUME transfers \in [Transfers -> TransferRow], NEW t \in Transfers,
         NEW s \in {"pending", "approved", "completed"}
  PROVE  [transfers EXCEPT ![t].status = s] \in [Transfers -> TransferRow]
<1>1. [transfers[t] EXCEPT !.status = s] \in TransferRow BY DEF TransferRow
<1>2. QED BY <1>1

LEMMA ReturnTyped ==
  ASSUME TypeInv, NEW c \in Clients, Return(c)
  PROVE  /\ call' \in [Clients -> Handler]
         /\ \A d \in Clients : HoldsItsRows(call'[d])
BY GotoTyped, IdleTyped DEF Return

LEMMA ReserveTyped ==
  ASSUME NEW h \in Handler, NEW p \in Locations, NEW q \in Nat, NEW o \in Orders,
         NEW r \in Reservations, NEW l \in Levels \cup {None}
  PROVE  [h EXCEPT !.op = "reserve", !.loc = p, !.qty = q, !.order = o, !.row = r, !.level = l]
           \in Handler
<1> DEFINE h0 == [h EXCEPT !.op = "reserve", !.loc = p]
           h1 == [h0 EXCEPT !.qty = q]
           h2 == [h1 EXCEPT !.order = o, !.row = r, !.level = l]
<1>0. h0 \in Handler BY DEF Handler, Ops
<1>1. h1 \in Handler
  <2> HIDE DEF h0
  <2> QED BY <1>0 DEF Handler
<1>2. h2 \in Handler
  <2> HIDE DEF h1
  <2> QED BY <1>1 DEF Handler
<1>3. QED BY <1>2

LEMMA RequestTyped ==
  ASSUME TypeInv, NEW c \in Clients, Request(c)
  PROVE  TypeInv'
<1> USE DEF TypeInv, TypeOK
<1>1. CASE AdjustFind(c)
  <2>1. PICK p \in Locations, q \in Corrections : \E l \in FindLevel(p) :
          Goto(c, [Idle EXCEPT !.op = "adjust", !.loc = p, !.qty = q, !.level = l])
    BY <1>1 DEF AdjustFind
  <2>2. PICK l \in FindLevel(p) :
          Goto(c, [Idle EXCEPT !.op = "adjust", !.loc = p, !.qty = q, !.level = l])
    BY <2>1
  <2> DEFINE k == [Idle EXCEPT !.op = "adjust", !.loc = p, !.qty = q, !.level = l]
  <2>3. k \in Handler /\ HoldsItsRows(k)
    <3>1. l \in Levels \cup {None} /\ q \in Int /\ "adjust" \in Ops
      BY FindLevelTyped DEF Ops
    <3>2. k \in Handler
      BY <3>1, IdleTyped DEF Handler
    <3>3. k.op = "adjust" /\ k.loc = p
      BY IdleTyped DEF Handler
    <3>4. QED BY <3>2, <3>3 DEF HoldsItsRows
  <2>4. QED BY <1>1, <2>2, <2>3, GotoTyped DEF AdjustFind, tables
<1>2. CASE CreateTransfer(c)
  BY <1>2 DEF CreateTransfer, TransferRow
<1>3. CASE ApproveRead(c)
  <2>1. PICK t \in Transfers : Goto(c, [Idle EXCEPT !.op = "approve", !.row = t])
    BY <1>3 DEF ApproveRead
  <2>2. [Idle EXCEPT !.op = "approve", !.row = t] \in Handler
        /\ HoldsItsRows([Idle EXCEPT !.op = "approve", !.row = t])
    BY IdleTyped DEF Handler, HoldsItsRows, Ops
  <2>3. QED BY <1>3, <2>1, <2>2, GotoTyped DEF ApproveRead, tables
<1>4. CASE CompleteRead(c)
  <2>1. PICK t \in Transfers : Goto(c, [Idle EXCEPT !.op = "complete", !.row = t])
    BY <1>4 DEF CompleteRead
  <2>2. [Idle EXCEPT !.op = "complete", !.row = t] \in Handler
        /\ HoldsItsRows([Idle EXCEPT !.op = "complete", !.row = t])
    BY IdleTyped DEF Handler, HoldsItsRows, Ops
  <2>3. QED BY <1>4, <2>1, <2>2, GotoTyped DEF CompleteRead, tables
<1>5. CASE ReserveFind(c)
  <2>1. PICK o \in Orders, p \in Locations, q \in Quantities : StartReserve(c, o, p, q)
    BY <1>5 DEF ReserveFind
  <2>2. PICK r \in Reservations, l \in FindLevel(p) :
          Goto(c, [Idle EXCEPT !.op = "reserve", !.loc = p, !.qty = q, !.order = o,
                               !.row = r, !.level = l])
    BY <2>1 DEF StartReserve
  <2> DEFINE k == [Idle EXCEPT !.op = "reserve", !.loc = p, !.qty = q, !.order = o,
                               !.row = r, !.level = l]
  <2>3. k \in Handler /\ HoldsItsRows(k)
    <3>1. l \in Levels \cup {None} /\ q \in Nat BY FindLevelTyped
    <3>2. k \in Handler BY <3>1, IdleTyped, ReserveTyped
    <3>3. k.op = "reserve" /\ k.row = r /\ k.loc = p /\ k.qty = q BY IdleTyped DEF Handler
    <3>4. QED BY <3>1, <3>2, <3>3 DEF HoldsItsRows
  <2>4. QED BY <2>1, <2>2, <2>3, GotoTyped DEF StartReserve, tables
<1>6. ASSUME NEW ids \in SUBSET Reservations, StartRelease(c, ids) PROVE TypeInv'
  <2>1. [Idle EXCEPT !.op = "release", !.todo = ids] \in Handler
        /\ HoldsItsRows([Idle EXCEPT !.op = "release", !.todo = ids])
    BY IdleTyped DEF Handler, HoldsItsRows, Ops
  <2>2. QED BY <1>6, <2>1, GotoTyped DEF StartRelease, tables
<1>7. CASE ReleaseOne(c) BY <1>6, <1>7 DEF ReleaseOne
<1>8. CASE ReleaseForOrder(c) BY <1>6, <1>8 DEF ReleaseForOrder, ActiveOf
<1>9. QED BY <1>1, <1>2, <1>3, <1>4, <1>5, <1>7, <1>8 DEF Request

LEMMA RunTyped ==
  ASSUME TypeInv, NEW c \in Clients, Run(c)
  PROVE  TypeInv'
<1> DEFINE k == call[c]
<1>0. k \in Handler /\ HoldsItsRows(k) BY DEF TypeInv, TypeOK
<1> USE DEF TypeInv, TypeOK
<1>1. CASE AdjustCommit(c)
  <2>1. levels' \in [Levels -> LevelRow]
    <3>1. k.loc \in Locations /\ k.qty \in Int /\ k.level \in Levels \cup {None}
      BY <1>0, <1>1 DEF AdjustCommit, Handler, HoldsItsRows
    <3>2. CASE k.level # None
      <4>1. levels' = [levels EXCEPT ![k.level].onHand = levels[k.level].onHand + k.qty]
        BY <1>1, <3>2 DEF AdjustCommit
      <4>2. levels[k.level].onHand + k.qty \in Int BY <3>1, <3>2, LevelTyped
      <4>3. QED BY <3>1, <3>2, <4>1, <4>2, LevelTyped
    <3>3. CASE k.level = None
      <4>1. PICK l \in Levels :
              levels' = [levels EXCEPT ![l] = [loc |-> k.loc, onHand |-> k.qty, reserved |-> 0]]
        BY <1>1, <3>3 DEF AdjustCommit, CreateLevel
      <4>2. [loc |-> k.loc, onHand |-> k.qty, reserved |-> 0] \in LevelRow
        BY <3>1 DEF LevelRow
      <4>3. QED BY <4>1, <4>2
    <3>4. QED BY <3>2, <3>3
  <2>2. adjusted' \in [Locations -> Int]
    BY <1>0, <1>1 DEF AdjustCommit, Handler, HoldsItsRows
  <2>3. QED BY <1>1, <2>1, <2>2, ReturnTyped DEF AdjustCommit
<1>2. CASE ApproveWrite(c)
  <2>1. transfers' \in [Transfers -> TransferRow]
    BY <1>0, <1>2, TransferStatusTyped DEF ApproveWrite, HoldsItsRows
  <2>2. QED BY <1>2, <2>1, ReturnTyped DEF ApproveWrite
<1>3. CASE CompleteCheck(c)
  <2>1. PICK l \in FindLevel(transfers[k.row].from) :
          IF l # None /\ Available(l) >= transfers[k.row].qty
          THEN Goto(c, [k EXCEPT !.op = "move", !.level = l])
          ELSE Return(c)
    BY <1>3 DEF CompleteCheck
  <2>2. CASE l # None /\ Available(l) >= transfers[k.row].qty
    <3>1. [k EXCEPT !.op = "move", !.level = l] \in Handler
          /\ HoldsItsRows([k EXCEPT !.op = "move", !.level = l])
      BY <1>0, <1>3, <2>2, FindLevelTyped DEF CompleteCheck, Handler, HoldsItsRows, Ops
    <3>2. QED BY <1>3, <2>1, <2>2, <3>1, GotoTyped DEF CompleteCheck, tables
  <2>3. CASE ~(l # None /\ Available(l) >= transfers[k.row].qty)
    BY <1>3, <2>1, <2>3, ReturnTyped DEF CompleteCheck, tables
  <2>4. QED BY <2>2, <2>3
<1>4. CASE CompleteDecrement(c)
  <2>1. PICK l \in FindLevel(transfers[k.row].to) :
          Goto(c, [k EXCEPT !.op = "moved", !.to = l, !.locked = {k.level}])
    BY <1>4 DEF CompleteDecrement
  <2>2. [k EXCEPT !.op = "moved", !.to = l, !.locked = {k.level}] \in Handler
        /\ HoldsItsRows([k EXCEPT !.op = "moved", !.to = l, !.locked = {k.level}])
    BY <1>0, <1>4, FindLevelTyped DEF CompleteDecrement, Handler, HoldsItsRows, Ops
  <2>3. QED BY <1>4, <2>1, <2>2, GotoTyped DEF CompleteDecrement, tables
<1>5. CASE CompleteCommit(c)
  <2> DEFINE t == transfers[k.row]
             left == Decremented(k.level, t.qty)
  <2>1. /\ k.level \in Levels /\ k.to \in Levels \cup {None}
        /\ t.qty \in Nat /\ t.to \in Locations \cup {None}
    BY <1>0, <1>5 DEF CompleteCommit, HoldsItsRows, Handler, TransferRow
  <2>2. left \in [Levels -> LevelRow]
    <3>1. left = [levels EXCEPT ![k.level].onHand = levels[k.level].onHand - t.qty]
      BY DEF Decremented
    <3>2. levels[k.level].onHand - t.qty \in Int BY <2>1, LevelTyped
    <3>3. QED BY <2>1, <3>1, <3>2, LevelTyped
  <2>3. levels' \in [Levels -> LevelRow]
    <3>1. CASE k.to # None
      <4> HIDE DEF left
      <4>1. levels' = [left EXCEPT ![k.to].onHand = left[k.to].onHand + t.qty]
        BY <1>5, <3>1 DEF CompleteCommit, left
      <4>2. left[k.to].onHand + t.qty \in Int BY <2>1, <2>2, <3>1, LevelTyped
      <4>3. QED BY <2>1, <2>2, <3>1, <4>1, <4>2, LevelTyped
    <3>2. CASE k.to = None
      <4> HIDE DEF left
      <4>1. PICK l \in Levels :
              levels' = [left EXCEPT ![l] = [loc |-> t.to, onHand |-> t.qty, reserved |-> 0]]
        BY <1>5, <3>2 DEF CompleteCommit, left
      <4>2. [loc |-> t.to, onHand |-> t.qty, reserved |-> 0] \in LevelRow
        BY <2>1 DEF LevelRow
      <4>3. QED BY <2>2, <4>1, <4>2
    <3>3. QED BY <3>1, <3>2
  <2>4. transfers' \in [Transfers -> TransferRow]
    BY <1>0, <1>5, TransferStatusTyped DEF CompleteCommit, HoldsItsRows
  <2>5. QED BY <1>5, <2>3, <2>4, ReturnTyped DEF CompleteCommit
<1>6. CASE ReserveCommit(c)
  <2>0. /\ k.row \in Reservations /\ k.loc \in Locations /\ k.qty \in Nat
        /\ k.order \in Orders \cup {None} /\ k.level \in Levels \cup {None}
    BY <1>0, <1>6 DEF ReserveCommit, Handler, HoldsItsRows
  <2>1. levels' \in [Levels -> LevelRow]
    <3>1. CASE k.level # None
      <4>1. levels' = [levels EXCEPT ![k.level].reserved = levels[k.level].reserved + k.qty]
        BY <1>6, <3>1 DEF ReserveCommit
      <4>2. levels[k.level].reserved + k.qty \in Nat BY <2>0, <3>1, LevelTyped
      <4>3. QED BY <2>0, <3>1, <4>1, <4>2, LevelTyped
    <3>2. CASE k.level = None
      <4>1. PICK l \in Levels :
              levels' = [levels EXCEPT ![l] = [loc |-> k.loc, onHand |-> 0, reserved |-> k.qty]]
        BY <1>6, <3>2 DEF ReserveCommit, CreateLevel
      <4>2. [loc |-> k.loc, onHand |-> 0, reserved |-> k.qty] \in LevelRow
        BY <2>0 DEF LevelRow
      <4>3. QED BY <4>1, <4>2
    <3>3. QED BY <3>1, <3>2
  <2>2. reservations' \in [Reservations -> ReservationRow]
    <3>1. [status |-> "active", loc |-> k.loc, order |-> k.order, qty |-> k.qty] \in ReservationRow
      BY <2>0 DEF ReservationRow
    <3>2. QED BY <1>6, <3>1 DEF ReserveCommit
  <2>3. QED BY <1>6, <2>1, <2>2, ReturnTyped DEF ReserveCommit
<1>7. CASE ReleaseBegin(c)
  <2> DEFINE n == [k EXCEPT !.op = "releasing",
                            !.todo = {r \in @ : reservations[r].status = "active"}]
  <2>1. n \in Handler /\ HoldsItsRows(n)
    BY <1>0, <1>7 DEF ReleaseBegin, Handler, HoldsItsRows, Ops
  <2>2. QED BY <1>7, <2>1, GotoTyped DEF ReleaseBegin, tables
<1>8. CASE ReleaseFind(c)
  <2>1. PICK r \in k.todo : \E l \in FindLevel(reservations[r].loc) :
          Goto(c, [k EXCEPT !.row = r, !.level = l,
                            !.seen = IF l = None THEN 0 ELSE SeenReserved(c, l)])
    BY <1>8 DEF ReleaseFind
  <2>2. PICK l \in FindLevel(reservations[r].loc) :
          Goto(c, [k EXCEPT !.row = r, !.level = l,
                            !.seen = IF l = None THEN 0 ELSE SeenReserved(c, l)])
    BY <2>1
  <2> DEFINE s == IF l = None THEN 0 ELSE SeenReserved(c, l)
             n == [k EXCEPT !.row = r, !.level = l, !.seen = s]
  <2>3. r \in Reservations /\ l \in Levels \cup {None} /\ s \in Nat
    BY <1>0, FindLevelTyped DEF Handler, SeenReserved, LevelRow
  <2>4. n \in Handler /\ HoldsItsRows(n)
    <3> HIDE DEF s
    <3>1. k.op = "releasing" BY <1>8 DEF ReleaseFind
    <3>2. n \in Handler BY <1>0, <2>3 DEF Handler
    <3>3. n.op = "releasing" /\ n.row = r BY <1>0, <3>1 DEF Handler
    <3>4. QED BY <2>3, <3>2, <3>3 DEF HoldsItsRows
  <2>5. QED BY <1>8, <2>2, <2>4, GotoTyped DEF ReleaseFind, tables
<1>9. CASE ReleaseUpdate(c)
  <2> DEFINE n == [k EXCEPT !.row = None, !.level = None, !.seen = 0,
                            !.todo = Rest(k), !.done = @ \cup {k.row}]
             w == NextReserved(k.seen, reservations[k.row].qty)
             m == [n EXCEPT !.locked = @ \cup {k.level}, !.wrote[k.level] = w]
             x == [n.wrote EXCEPT ![k.level] = w]
  <2>1. k.row \in Reservations /\ k.op = "releasing"
    BY <1>0, <1>9 DEF ReleaseUpdate, HoldsItsRows
  <2>2. w \in Nat
    BY <1>0, <2>1 DEF NextReserved, Handler, ReservationRow
  <2>3. n \in Handler /\ HoldsItsRows(n)
    BY <1>0, <2>1 DEF Rest, Handler, HoldsItsRows
  <2>4. CASE k.level = None
    BY <1>9, <2>3, <2>4, GotoTyped DEF ReleaseUpdate, tables
  <2>5. CASE k.level # None
    <3>1. k.level \in Levels BY <1>0, <2>5 DEF Handler
    <3> HIDE DEF n, w
    <3>2. x \in [Levels -> Nat] /\ n.locked \cup {k.level} \in SUBSET Levels
      BY <2>2, <2>3, <3>1 DEF Handler
    <3>3. m = [n EXCEPT !.locked = n.locked \cup {k.level}, !.wrote = x] OBVIOUS
    <3>4. m \in Handler /\ HoldsItsRows(m)
      <4> HIDE DEF x, m
      <4> QED BY <2>3, <3>2, <3>3 DEF Handler, HoldsItsRows
    <3>5. QED BY <1>9, <2>5, <3>4, GotoTyped DEF ReleaseUpdate, tables, n, w
  <2>6. QED BY <2>4, <2>5
<1>10. CASE ReleaseCommit(c)
  <2>1. levels' \in [Levels -> LevelRow]
    <3>1. k.wrote \in [Levels -> Nat] BY <1>0 DEF Handler
    <3>2. \A l \in Levels : levels[l] \in LevelRow OBVIOUS
    <3>3. \A l \in Levels, n \in Nat : [levels[l] EXCEPT !.reserved = n] \in LevelRow
      BY <3>2 DEF LevelRow
    <3>4. levels' = [l \in Levels |->
            IF l \in k.locked THEN [levels[l] EXCEPT !.reserved = k.wrote[l]] ELSE levels[l]]
      BY <1>10 DEF ReleaseCommit
    <3> HIDE DEF TypeInv, TypeOK, k
    <3>5. QED BY <3>1, <3>2, <3>3, <3>4
  <2>2. reservations' \in [Reservations -> ReservationRow]
    BY <1>10 DEF ReleaseCommit, ReservationRow
  <2>3. QED BY <1>10, <2>1, <2>2, ReturnTyped DEF ReleaseCommit
<1>11. QED BY <1>1, <1>2, <1>3, <1>4, <1>5, <1>6, <1>7, <1>8, <1>9, <1>10 DEF Run

(* Types of every reachable state: in particular reserved is never         *)
(* negative and a handler always holds rows that exist.                    *)
THEOREM Typed == Spec => []TypeInv
<1>1. TypeInv /\ [Next]_vars => TypeInv'
  <2> SUFFICES ASSUME TypeInv, [Next]_vars PROVE TypeInv' OBVIOUS
  <2>1. CASE UNCHANGED vars
    BY <2>1 DEF vars, TypeInv, TypeOK, HoldsItsRows
  <2>2. ASSUME NEW c \in Clients, Abort(c) PROVE TypeInv'
    BY <2>2, ReturnTyped DEF Abort, tables, TypeInv, TypeOK
  <2>3. QED BY <2>1, <2>2, RequestTyped, RunTyped DEF Next
<1>2. QED BY <1>1, InitTyped, PTL DEF Spec

COROLLARY TypesHold == Spec => []TypeOK
BY Typed, PTL DEF TypeInv

-----------------------------------------------------------------------------
(* What a step does to the handlers.  Only the approval and the completion *)
(* of a transfer matter below: a step of client c leaves the handlers of   *)
(* the others alone, and leaves c in an approval or a completion only as   *)
(* one of the listed actions.                                              *)
Moving == {"complete", "move", "moved"}

Step(c) == Request(c) \/ Run(c) \/ Abort(c)

LEMMA GotoEffect ==
  ASSUME TypeInv, NEW c \in Clients, NEW k, Goto(c, k)
  PROVE  call'[c] = k /\ \A d \in Clients \ {c} : call'[d] = call[d]
BY DEF TypeInv, TypeOK, Goto

LEMMA ReturnEffect ==
  ASSUME TypeInv, NEW c \in Clients, Return(c)
  PROVE  call'[c].op = "idle" /\ \A d \in Clients \ {c} : call'[d] = call[d]
BY GotoEffect, IdleTyped DEF Return

LEMMA OtherRequests ==
  ASSUME TypeInv, NEW c \in Clients, AdjustFind(c) \/ ReserveFind(c) \/ ReleaseOne(c) \/ ReleaseForOrder(c)
  PROVE  /\ call'[c].op \notin Moving \cup {"approve"}
         /\ \A d \in Clients \ {c} : call'[d] = call[d]
         /\ UNCHANGED tables
<1> USE DEF Moving
<1>1. CASE AdjustFind(c)
  <2>1. PICK p \in Locations, q \in Corrections : \E l \in FindLevel(p) :
          Goto(c, [Idle EXCEPT !.op = "adjust", !.loc = p, !.qty = q, !.level = l])
    BY <1>1 DEF AdjustFind
  <2>2. PICK l \in FindLevel(p) :
          Goto(c, [Idle EXCEPT !.op = "adjust", !.loc = p, !.qty = q, !.level = l])
    BY <2>1
  <2>3. [Idle EXCEPT !.op = "adjust", !.loc = p, !.qty = q, !.level = l].op = "adjust"
    BY IdleTyped DEF Handler
  <2>4. QED BY <1>1, <2>2, <2>3, GotoEffect DEF AdjustFind
<1>2. CASE ReserveFind(c)
  <2>1. PICK o \in Orders, p \in Locations, q \in Quantities : StartReserve(c, o, p, q)
    BY <1>2 DEF ReserveFind
  <2>2. PICK r \in Reservations, l \in FindLevel(p) :
          Goto(c, [Idle EXCEPT !.op = "reserve", !.loc = p, !.qty = q, !.order = o,
                               !.row = r, !.level = l])
    BY <2>1 DEF StartReserve
  <2>3. [Idle EXCEPT !.op = "reserve", !.loc = p, !.qty = q, !.order = o,
                     !.row = r, !.level = l].op = "reserve"
    BY IdleTyped DEF Handler
  <2>4. QED BY <2>1, <2>2, <2>3, GotoEffect DEF StartReserve
<1>3. ASSUME NEW ids, StartRelease(c, ids)
      PROVE  /\ call'[c].op = "release"
             /\ \A d \in Clients \ {c} : call'[d] = call[d]
             /\ UNCHANGED tables
  <2>1. [Idle EXCEPT !.op = "release", !.todo = ids].op = "release" BY IdleTyped DEF Handler
  <2>2. QED BY <1>3, <2>1, GotoEffect DEF StartRelease
<1>4. CASE ReleaseOne(c) BY <1>3, <1>4 DEF ReleaseOne
<1>5. CASE ReleaseForOrder(c) BY <1>3, <1>5 DEF ReleaseForOrder
<1>6. QED BY <1>1, <1>2, <1>4, <1>5

LEMMA ReleaseSteps ==
  ASSUME TypeInv, NEW c \in Clients, ReleaseBegin(c) \/ ReleaseFind(c) \/ ReleaseUpdate(c)
  PROVE  call'[c].op = "releasing" /\ \A d \in Clients \ {c} : call'[d] = call[d]
<1> DEFINE k == call[c]
<1>0. k \in Handler BY DEF TypeInv, TypeOK
<1>2. CASE ReleaseBegin(c)
  <2> DEFINE n == [k EXCEPT !.op = "releasing",
                            !.todo = {r \in @ : reservations[r].status = "active"}]
  <2>1. n.op = "releasing" BY <1>0 DEF Handler
  <2>2. QED BY <1>2, <2>1, GotoEffect DEF ReleaseBegin
<1>3. CASE ReleaseFind(c)
  <2>1. PICK r \in k.todo : \E l \in FindLevel(reservations[r].loc) :
          Goto(c, [k EXCEPT !.row = r, !.level = l,
                            !.seen = IF l = None THEN 0 ELSE SeenReserved(c, l)])
    BY <1>3 DEF ReleaseFind
  <2>2. PICK l : Goto(c, [k EXCEPT !.row = r, !.level = l,
                            !.seen = IF l = None THEN 0 ELSE SeenReserved(c, l)])
    BY <2>1
  <2> DEFINE n == [k EXCEPT !.row = r, !.level = l,
                            !.seen = IF l = None THEN 0 ELSE SeenReserved(c, l)]
  <2>3. n.op = k.op /\ k.op = "releasing" BY <1>0, <1>3 DEF Handler, ReleaseFind
  <2>4. Goto(c, n) BY <2>2
  <2> HIDE DEF n
  <2>5. QED BY <2>3, <2>4, GotoEffect
<1>4. CASE ReleaseUpdate(c)
  <2> DEFINE n == [k EXCEPT !.row = None, !.level = None, !.seen = 0,
                            !.todo = Rest(k), !.done = @ \cup {k.row}]
             m == [n EXCEPT !.locked = @ \cup {k.level},
                            !.wrote[k.level] = NextReserved(k.seen, reservations[k.row].qty)]
  <2>0. n.op = k.op /\ m.op = k.op BY <1>0 DEF Handler
  <2>1. (Goto(c, n) \/ Goto(c, m)) /\ k.op = "releasing" BY <1>4 DEF ReleaseUpdate
  <2> HIDE DEF n, m
  <2>2. QED BY <2>0, <2>1, GotoEffect
<1>5. QED BY <1>2, <1>3, <1>4

LEMMA OtherRuns ==
  ASSUME TypeInv, NEW c \in Clients,
         \/ AdjustCommit(c) \/ ReserveCommit(c) \/ ReleaseBegin(c) \/ ReleaseFind(c)
         \/ ReleaseUpdate(c) \/ ReleaseCommit(c) \/ Abort(c)
  PROVE  /\ call'[c].op \notin Moving \cup {"approve"}
         /\ \A d \in Clients \ {c} : call'[d] = call[d]
         /\ UNCHANGED transfers
<1> USE DEF Moving
<1>1. CASE AdjustCommit(c) \/ ReserveCommit(c) \/ ReleaseCommit(c) \/ Abort(c)
  BY <1>1, ReturnEffect DEF AdjustCommit, ReserveCommit, ReleaseCommit, Abort, tables
<1>2. CASE ReleaseBegin(c) \/ ReleaseFind(c) \/ ReleaseUpdate(c)
  BY <1>2, ReleaseSteps DEF ReleaseBegin, ReleaseFind, ReleaseUpdate, tables
<1>3. QED BY <1>1, <1>2

LEMMA CompletionSteps ==
  ASSUME TypeInv, NEW c \in Clients, CompleteCheck(c) \/ CompleteDecrement(c)
  PROVE  /\ call'[c].op \in Moving => call[c].op \in Moving /\ call'[c].row = call[c].row
         /\ call'[c].op # "approve"
         /\ \A d \in Clients \ {c} : call'[d] = call[d]
         /\ UNCHANGED tables
<1> USE DEF Moving
<1> DEFINE k == call[c]
<1>0. k \in Handler BY DEF TypeInv, TypeOK
<1>1. CASE CompleteCheck(c)
  <2>1. CASE Return(c) BY <1>1, <2>1, ReturnEffect DEF CompleteCheck
  <2>2. CASE ~Return(c)
    <3>1. PICK l : Goto(c, [k EXCEPT !.op = "move", !.level = l])
      BY <1>1, <2>2 DEF CompleteCheck
    <3> DEFINE n == [k EXCEPT !.op = "move", !.level = l]
    <3>2. n.op = "move" /\ n.row = k.row /\ k.op = "complete"
      BY <1>0, <1>1 DEF Handler, CompleteCheck
    <3>3. Goto(c, n) BY <3>1
    <3> HIDE DEF n
    <3>4. QED BY <1>1, <3>2, <3>3, GotoEffect DEF CompleteCheck
  <2>3. QED BY <2>1, <2>2
<1>2. CASE CompleteDecrement(c)
  <2>1. PICK l : Goto(c, [k EXCEPT !.op = "moved", !.to = l, !.locked = {k.level}])
    BY <1>2 DEF CompleteDecrement
  <2> DEFINE n == [k EXCEPT !.op = "moved", !.to = l, !.locked = {k.level}]
  <2>2. n.op = "moved" /\ n.row = k.row /\ k.op = "move"
    BY <1>0, <1>2 DEF Handler, CompleteDecrement
  <2>3. Goto(c, n) BY <2>1
  <2> HIDE DEF n
  <2>4. QED BY <1>2, <2>2, <2>3, GotoEffect DEF CompleteDecrement
<1>3. QED BY <1>1, <1>2

LEMMA TransferReads ==
  ASSUME TypeInv, NEW c \in Clients, ApproveRead(c) \/ CompleteRead(c)
  PROVE  /\ call'[c].row \in Transfers
         /\ \/ call'[c].op = "approve" /\ transfers[call'[c].row].status = "pending"
            \/ call'[c].op = "complete" /\ transfers[call'[c].row].status = "approved"
         /\ \A d \in Clients \ {c} : call'[d] = call[d]
         /\ UNCHANGED tables
<1>1. CASE ApproveRead(c)
  <2>1. PICK t \in Transfers : /\ transfers[t].status = "pending"
                               /\ Goto(c, [Idle EXCEPT !.op = "approve", !.row = t])
    BY <1>1 DEF ApproveRead
  <2>2. /\ [Idle EXCEPT !.op = "approve", !.row = t].op = "approve"
        /\ [Idle EXCEPT !.op = "approve", !.row = t].row = t
    BY IdleTyped DEF Handler
  <2>3. QED BY <1>1, <2>1, <2>2, GotoEffect DEF ApproveRead
<1>2. CASE CompleteRead(c)
  <2>1. PICK t \in Transfers : /\ transfers[t].status = "approved"
                               /\ Goto(c, [Idle EXCEPT !.op = "complete", !.row = t])
    BY <1>2 DEF CompleteRead
  <2>2. /\ [Idle EXCEPT !.op = "complete", !.row = t].op = "complete"
        /\ [Idle EXCEPT !.op = "complete", !.row = t].row = t
    BY IdleTyped DEF Handler
  <2>3. QED BY <1>2, <2>1, <2>2, GotoEffect DEF CompleteRead
<1>3. QED BY <1>1, <1>2

-----------------------------------------------------------------------------
(* A transfer that has been approved stays approved or completed.          *)
Cleared(t) == transfers[t].status \in {"approved", "completed"}

(* The handler of a completion read an approved transfer, and no step of   *)
(* any client takes that back.                                             *)
ReadApproved == \A c \in Clients : call[c].op \in Moving => Cleared(call[c].row)

LEMMA ApprovedStep ==
  ASSUME TypeInv, ReadApproved, NEW c \in Clients, Step(c)
  PROVE  /\ \A t \in Transfers : Cleared(t) => Cleared(t)'
         /\ \A t \in Transfers : transfers'[t].status = "completed" => Cleared(t)
         /\ ReadApproved'
<1> DEFINE Held == \A d \in Clients : call[d].op \in Moving => call[d].row \in Transfers
<1>0. Held BY DEF TypeInv, HoldsItsRows, Moving
<1>1. CASE UNCHANGED transfers /\ \A d \in Clients : call'[d].op \in Moving => call'[d] = call[d]
  BY <1>1, <1>0 DEF ReadApproved, Cleared
<1>2. CASE CreateTransfer(c)
  BY <1>2, <1>0 DEF CreateTransfer, Cleared, ReadApproved, TypeInv, TypeOK
<1>3. CASE ApproveRead(c) \/ CompleteRead(c)
  BY <1>3, <1>0, TransferReads DEF ReadApproved, Cleared, tables, Moving
<1>4. CASE CompleteCheck(c) \/ CompleteDecrement(c)
  BY <1>4, <1>0, CompletionSteps DEF ReadApproved, Cleared, tables
<1>5. CASE ApproveWrite(c)
  <2>1. call[c].row \in Transfers BY <1>5 DEF ApproveWrite, TypeInv, HoldsItsRows
  <2>2. \A t \in Transfers : transfers'[t].status =
           IF t = call[c].row THEN "approved" ELSE transfers[t].status
    BY <1>5, <2>1 DEF ApproveWrite, TypeInv, TypeOK, TransferRow
  <2>3. call'[c].op = "idle" /\ \A d \in Clients \ {c} : call'[d] = call[d]
    BY <1>5, ReturnEffect DEF ApproveWrite
  <2>4. QED BY <1>0, <2>2, <2>3 DEF ReadApproved, Cleared, Moving
<1>6. CASE CompleteCommit(c)
  <2>1. call[c].row \in Transfers /\ Cleared(call[c].row)
    BY <1>6, <1>0 DEF CompleteCommit, ReadApproved, Moving
  <2>2. \A t \in Transfers : transfers'[t].status =
           IF t = call[c].row THEN "completed" ELSE transfers[t].status
    BY <1>6, <2>1 DEF CompleteCommit, TypeInv, TypeOK, TransferRow
  <2>3. call'[c].op = "idle" /\ \A d \in Clients \ {c} : call'[d] = call[d]
    BY <1>6, ReturnEffect DEF CompleteCommit
  <2>4. QED BY <1>0, <2>1, <2>2, <2>3 DEF ReadApproved, Cleared, Moving
<1>7. CASE \/ AdjustFind(c) \/ ReserveFind(c) \/ ReleaseOne(c) \/ ReleaseForOrder(c)
           \/ AdjustCommit(c) \/ ReserveCommit(c) \/ ReleaseBegin(c) \/ ReleaseFind(c)
           \/ ReleaseUpdate(c) \/ ReleaseCommit(c) \/ Abort(c)
  BY <1>7, <1>1, OtherRequests, OtherRuns DEF tables
<1>8. QED BY <1>2, <1>3, <1>4, <1>5, <1>6, <1>7 DEF Step, Request, Run

(* createStockTransfer, approveStockTransfer, completeStockTransfer: for   *)
(* any number of clients and whatever the interleaving, a transfer becomes *)
(* completed only if somebody approved it.                                 *)
THEOREM ApprovalFirst == Spec => CompletedWasApproved
<1>1. Init => ReadApproved BY IdleTyped DEF Init, ReadApproved, Moving
<1>2. TypeInv /\ ReadApproved /\ [Next]_vars =>
        /\ ReadApproved'
        /\ [\A t \in Transfers :
              transfers'[t].status = "completed"
              => transfers[t].status \in {"approved", "completed"}]_vars
  <2> SUFFICES ASSUME TypeInv, ReadApproved, [Next]_vars
      PROVE  /\ ReadApproved'
             /\ [\A t \in Transfers : transfers'[t].status = "completed" => Cleared(t)]_vars
    BY DEF Cleared
  <2>1. CASE UNCHANGED vars BY <2>1 DEF vars, ReadApproved, Cleared
  <2>2. CASE Next BY <2>2, ApprovedStep DEF Next, Step
  <2>3. QED BY <2>1, <2>2
<1>3. QED BY <1>1, <1>2, Typed, PTL DEF Spec, CompletedWasApproved

-----------------------------------------------------------------------------
(* Stock.  A commit adds to one row: a row of location p that was found, or *)
(* a row id not in use yet, whose stock is nothing.                         *)
AddsTo(f, g, l, p, hand, held) ==
  /\ f[l].loc \in {p, None}
  /\ g = [f EXCEPT ![l] = [loc |-> p, onHand |-> f[l].onHand + hand,
                                    reserved |-> f[l].reserved + held]]

USE FiniteAssumption

UnusedEmpty(f) == \A l \in Levels : f[l].loc = None => f[l].onHand = 0 /\ f[l].reserved = 0
LocsKept(f, g) == \A l \in Levels : f[l].loc # None => g[l].loc = f[l].loc

Hand(f) == SumFunction([l \in Levels |-> f[l].onHand])
HandAt(f, p) == SumFunction([l \in Levels |-> IF f[l].loc = p THEN f[l].onHand ELSE 0])
HeldAt(f, p) == SumFunction([l \in Levels |-> IF f[l].loc = p THEN f[l].reserved ELSE 0])

LEMMA AddsToEffect ==
  ASSUME NEW f \in [Levels -> LevelRow], NEW g \in [Levels -> LevelRow], UnusedEmpty(f),
         NEW l \in Levels, NEW p \in Locations, NEW hand \in Int, NEW held \in Int,
         AddsTo(f, g, l, p, hand, held)
  PROVE  /\ UnusedEmpty(g) /\ LocsKept(f, g)
         /\ Hand(g) = Hand(f) + hand
         /\ \A q \in Locations : /\ HandAt(g, q) = HandAt(f, q) + (IF q = p THEN hand ELSE 0)
                                /\ HeldAt(g, q) = HeldAt(f, q) + (IF q = p THEN held ELSE 0)
<1>1. /\ f[l].loc \in {p, None} /\ g[l].loc = p
      /\ g[l].onHand = f[l].onHand + hand /\ g[l].reserved = f[l].reserved + held
      /\ \A m \in Levels \ {l} : g[m] = f[m]
  BY DEF AddsTo
<1>2. \A m \in Levels : /\ f[m].onHand \in Int /\ f[m].reserved \in Int
                        /\ g[m].onHand \in Int /\ g[m].reserved \in Int
  BY DEF LevelRow
<1>3. f[l].loc = None => f[l].onHand = 0 /\ f[l].reserved = 0
  BY DEF UnusedEmpty
<1>4. p # None
  OBVIOUS
<1>5. UnusedEmpty(g) /\ LocsKept(f, g)
  BY <1>1, <1>4 DEF UnusedEmpty, LocsKept
<1>6. Hand(g) = Hand(f) + hand
  <2> DEFINE a == [m \in Levels |-> f[m].onHand]
             b == [m \in Levels |-> g[m].onHand]
  <2>1. a \in [Levels -> Int] /\ b \in [Levels -> Int] /\ \A m \in Levels \ {l} : b[m] = a[m]
    BY <1>1, <1>2
  <2>2. SumFunction(a) \in Int
    BY <2>1, TotalType
  <2>3. SumFunction(b) = SumFunction(a) - a[l] + b[l]
    <3> HIDE DEF a, b
    <3> QED BY <2>1, TotalChange
  <2>4. a[l] = f[l].onHand /\ b[l] = a[l] + hand /\ a[l] \in Int
    BY <1>1, <1>2
  <2>5. SumFunction(b) = SumFunction(a) + hand
    <3> HIDE DEF a, b
    <3> QED BY <2>2, <2>3, <2>4
  <2> QED BY <2>5 DEF Hand
<1>7. ASSUME NEW q \in Locations PROVE HandAt(g, q) = HandAt(f, q) + (IF q = p THEN hand ELSE 0)
  <2> DEFINE a == [m \in Levels |-> IF f[m].loc = q THEN f[m].onHand ELSE 0]
             b == [m \in Levels |-> IF g[m].loc = q THEN g[m].onHand ELSE 0]
  <2>1. a \in [Levels -> Int] /\ b \in [Levels -> Int] /\ \A m \in Levels \ {l} : b[m] = a[m]
    BY <1>1, <1>2
  <2>2. SumFunction(a) \in Int
    BY <2>1, TotalType
  <2>3. SumFunction(b) = SumFunction(a) - a[l] + b[l]
    <3> HIDE DEF a, b
    <3> QED BY <2>1, TotalChange
  <2>4. b[l] = a[l] + (IF q = p THEN hand ELSE 0) /\ a[l] \in Int
    BY <1>1, <1>2, <1>3, <1>4
  <2>5. SumFunction(b) = SumFunction(a) + (IF q = p THEN hand ELSE 0)
    <3> HIDE DEF a, b
    <3> QED BY <2>2, <2>3, <2>4
  <2> QED BY <2>5 DEF HandAt
<1>8. ASSUME NEW q \in Locations PROVE HeldAt(g, q) = HeldAt(f, q) + (IF q = p THEN held ELSE 0)
  <2> DEFINE a == [m \in Levels |-> IF f[m].loc = q THEN f[m].reserved ELSE 0]
             b == [m \in Levels |-> IF g[m].loc = q THEN g[m].reserved ELSE 0]
  <2>1. a \in [Levels -> Int] /\ b \in [Levels -> Int] /\ \A m \in Levels \ {l} : b[m] = a[m]
    BY <1>1, <1>2
  <2>2. SumFunction(a) \in Int
    BY <2>1, TotalType
  <2>3. SumFunction(b) = SumFunction(a) - a[l] + b[l]
    <3> HIDE DEF a, b
    <3> QED BY <2>1, TotalChange
  <2>4. b[l] = a[l] + (IF q = p THEN held ELSE 0) /\ a[l] \in Int
    BY <1>1, <1>2, <1>3, <1>4
  <2>5. SumFunction(b) = SumFunction(a) + (IF q = p THEN held ELSE 0)
    <3> HIDE DEF a, b
    <3> QED BY <2>2, <2>3, <2>4
  <2> QED BY <2>5 DEF HeldAt
<1> QED BY <1>5, <1>6, <1>7, <1>8

(* What a handler has found is there until it commits: rows are never      *)
(* deleted and keep their location, transfers keep both of theirs.         *)
RowsFound(k) ==
  /\ k.op \in {"adjust", "reserve"} /\ k.level # None => levels[k.level].loc = k.loc
  /\ k.op = "approve" => transfers[k.row].status # "absent"
  /\ k.op \in {"move", "moved"} => levels[k.level].loc = transfers[k.row].from
  /\ k.op = "moved" /\ k.to # None => levels[k.to].loc = transfers[k.row].to
  /\ k.op = "release" => k.level = None /\ k.locked = {} /\ k.done = {}
  /\ k.op = "releasing" /\ k.row # None => k.row \in k.todo
  /\ k.op \in {"release", "releasing"} =>
       /\ k.level # None => levels[k.level].loc # None
       /\ \A l \in k.locked : levels[l].loc # None
       /\ \A r \in k.todo \cup k.done : reservations[r].status # "absent"

TransfersPlaced ==
  \A t \in Transfers : transfers[t].status # "absent" =>
                         transfers[t].from \in Locations /\ transfers[t].to \in Locations

ReservationsPlaced ==
  \A r \in Reservations : reservations[r].status # "absent" => reservations[r].loc \in Locations

RowInv ==
  /\ UnusedEmpty(levels) /\ TransfersPlaced /\ ReservationsPlaced
  /\ \A c \in Clients : RowsFound(call[c])

ReservationsKept ==
  \A r \in Reservations :
    reservations[r].status # "absent" => reservations'[r].status # "absent"

TransfersKept ==
  \A t \in Transfers : transfers[t].status # "absent" =>
    /\ transfers'[t].status # "absent"
    /\ transfers'[t].from = transfers[t].from
    /\ transfers'[t].to = transfers[t].to
    /\ transfers'[t].qty = transfers[t].qty

LEMMA FoundStep ==
  ASSUME TypeInv, ReadApproved, RowInv, LocsKept(levels, levels'), TransfersKept, ReservationsKept,
         NEW c \in Clients,
         \A d \in Clients \ {c} : call'[d] = call[d], RowsFound(call[c])'
  PROVE  \A d \in Clients : RowsFound(call[d])'
<1> SUFFICES ASSUME NEW d \in Clients, d # c PROVE RowsFound(call[d])'
  OBVIOUS
<1> DEFINE k == call[d]
<1>1. call'[d] = k /\ k \in Handler /\ HoldsItsRows(k) /\ RowsFound(k)
  BY DEF TypeInv, TypeOK, RowInv
<1>2. k.level \in Levels \cup {None} /\ k.to \in Levels \cup {None}
  BY <1>1 DEF Handler
<1>3. k.op \in {"adjust", "reserve"} /\ k.level # None => levels'[k.level].loc = k.loc
  BY <1>1, <1>2 DEF HoldsItsRows, RowsFound, LocsKept
<1>4. k.op \in {"move", "moved"} => /\ k.row \in Transfers /\ transfers[k.row].status # "absent"
                                   /\ transfers[k.row].from \in Locations
                                   /\ transfers[k.row].to \in Locations
  BY <1>1 DEF HoldsItsRows, ReadApproved, Moving, Cleared, RowInv, TransfersPlaced
<1>5. k.op \in {"move", "moved"} => levels'[k.level].loc = transfers'[k.row].from
  BY <1>1, <1>4 DEF HoldsItsRows, RowsFound, LocsKept, TransfersKept
<1>6. k.op = "moved" /\ k.to # None => levels'[k.to].loc = transfers'[k.row].to
  BY <1>1, <1>2, <1>4 DEF RowsFound, LocsKept, TransfersKept
<1>7. k.op = "approve" => transfers'[k.row].status # "absent"
  BY <1>1 DEF HoldsItsRows, RowsFound, TransfersKept
<1>8. k.op \in {"release", "releasing"} =>
        /\ k.level # None => levels'[k.level].loc # None
        /\ \A l \in k.locked : levels'[l].loc # None
        /\ \A r \in k.todo \cup k.done : reservations'[r].status # "absent"
  <2>1. k.locked \in SUBSET Levels /\ k.todo \in SUBSET Reservations /\ k.done \in SUBSET Reservations
    BY <1>1 DEF Handler
  <2> QED BY <1>1, <1>2, <2>1 DEF RowsFound, LocsKept, ReservationsKept
<1> QED BY <1>1, <1>3, <1>5, <1>6, <1>7, <1>8 DEF RowsFound

(* The steps that only read.                                               *)
Lookup(c) ==
  \/ AdjustFind(c) \/ ApproveRead(c) \/ CompleteRead(c) \/ ReserveFind(c)
  \/ ReleaseOne(c) \/ ReleaseForOrder(c) \/ CompleteCheck(c) \/ CompleteDecrement(c)
  \/ ReleaseBegin(c) \/ ReleaseFind(c) \/ ReleaseUpdate(c) \/ Abort(c)

Commit(c) ==
  \/ CreateTransfer(c) \/ AdjustCommit(c) \/ ApproveWrite(c) \/ CompleteCommit(c)
  \/ ReserveCommit(c) \/ ReleaseCommit(c)

LEMMA FindLevelFinds ==
  ASSUME NEW p, NEW l \in FindLevel(p)
  PROVE  \/ l \in Levels /\ levels[l].loc = p
         \/ l = None /\ \A m \in Levels : levels[m].loc # p
BY DEF FindLevel

LEMMA ReleaseFinds ==
  ASSUME TypeInv, RowInv, NEW c \in Clients, ReleaseBegin(c) \/ ReleaseFind(c) \/ ReleaseUpdate(c)
  PROVE  /\ call'[c].op = "releasing" /\ \A d \in Clients \ {c} : call'[d] = call[d]
         /\ call'[c].level # None => levels[call'[c].level].loc # None
         /\ \A l \in call'[c].locked : levels[l].loc # None
         /\ call'[c].todo \cup call'[c].done \in SUBSET (call[c].todo \cup call[c].done)
         /\ call'[c].row # None => call'[c].row \in call'[c].todo
<1> DEFINE k == call[c]
<1>0. k \in Handler /\ HoldsItsRows(k) /\ RowsFound(k)
  BY DEF TypeInv, TypeOK, RowInv
<1>1. call'[c].op = "releasing" /\ \A d \in Clients \ {c} : call'[d] = call[d]
  BY ReleaseSteps
<1>2. CASE ReleaseBegin(c)
  <2> DEFINE n == [k EXCEPT !.op = "releasing",
                            !.todo = {r \in @ : reservations[r].status = "active"}]
  <2>1. n.level = k.level /\ n.locked = k.locked /\ n.todo \in SUBSET k.todo /\ n.done = k.done
        /\ n.row = k.row
    BY <1>0 DEF Handler
  <2>2. call'[c] = n
    BY <1>2, GotoEffect DEF ReleaseBegin
  <2>3. k.op = "release"
    BY <1>2 DEF ReleaseBegin
  <2> HIDE DEF n
  <2>4. QED BY <1>0, <1>1, <2>1, <2>2, <2>3 DEF RowsFound, HoldsItsRows
<1>3. CASE ReleaseFind(c)
  <2>1. PICK r \in k.todo : \E l \in FindLevel(reservations[r].loc) :
          Goto(c, [k EXCEPT !.row = r, !.level = l,
                            !.seen = IF l = None THEN 0 ELSE SeenReserved(c, l)])
    BY <1>3 DEF ReleaseFind
  <2>2. PICK l \in FindLevel(reservations[r].loc) :
          Goto(c, [k EXCEPT !.row = r, !.level = l,
                            !.seen = IF l = None THEN 0 ELSE SeenReserved(c, l)])
    BY <2>1
  <2> DEFINE s == IF l = None THEN 0 ELSE SeenReserved(c, l)
             n == [k EXCEPT !.row = r, !.level = l, !.seen = s]
  <2>3. n.level = l /\ n.locked = k.locked /\ n.todo = k.todo /\ n.done = k.done
        /\ n.row = r /\ k.op = "releasing"
    BY <1>0, <1>3 DEF Handler, ReleaseFind
  <2>4. call'[c] = n
    BY <2>2, GotoEffect
  <2>5. reservations[r].loc \in Locations
    <3>1. r \in Reservations
      BY <1>0 DEF Handler
    <3> QED BY <1>0, <2>3, <3>1 DEF RowsFound, RowInv, ReservationsPlaced
  <2> HIDE DEF n
  <2>6. QED BY <1>0, <1>1, <2>3, <2>4, <2>5, FindLevelFinds DEF RowsFound
<1>4. CASE ReleaseUpdate(c)
  <2> DEFINE n == [k EXCEPT !.row = None, !.level = None, !.seen = 0,
                            !.todo = Rest(k), !.done = @ \cup {k.row}]
             w == NextReserved(k.seen, reservations[k.row].qty)
             m == [n EXCEPT !.locked = @ \cup {k.level}, !.wrote[k.level] = w]
  <2>1. /\ n.level = None /\ n.locked = k.locked /\ n.todo \in SUBSET k.todo
        /\ n.row = None /\ n.done = k.done \cup {k.row}
        /\ m.level = None /\ m.locked = k.locked \cup {k.level} /\ m.todo \in SUBSET k.todo
        /\ m.row = None /\ m.done = k.done \cup {k.row}
    BY <1>0 DEF Handler, Rest
  <2>2. k.op = "releasing" /\ k.row # None /\ IF k.level = None THEN Goto(c, n) ELSE Goto(c, m)
    BY <1>4 DEF ReleaseUpdate
  <2> HIDE DEF n, m
  <2>3. IF k.level = None THEN call'[c] = n ELSE call'[c] = m
    BY <2>2, GotoEffect
  <2>4. QED BY <1>0, <1>1, <2>1, <2>2, <2>3 DEF RowsFound
<1>5. QED BY <1>2, <1>3, <1>4

LEMMA LookupFound ==
  ASSUME TypeInv, ReadApproved, RowInv, NEW c \in Clients, Lookup(c)
  PROVE  /\ UNCHANGED tables
         /\ RowsFound(call[c])'
         /\ \A d \in Clients \ {c} : call'[d] = call[d]
<1> DEFINE k == call[c]
<1>0. k \in Handler /\ HoldsItsRows(k) /\ RowsFound(k)
  BY DEF TypeInv, TypeOK, RowInv
<1>1. CASE AdjustFind(c)
  <2>1. PICK p \in Locations, q \in Corrections : \E l \in FindLevel(p) :
          Goto(c, [Idle EXCEPT !.op = "adjust", !.loc = p, !.qty = q, !.level = l])
    BY <1>1 DEF AdjustFind
  <2>2. PICK l \in FindLevel(p) :
          Goto(c, [Idle EXCEPT !.op = "adjust", !.loc = p, !.qty = q, !.level = l])
    BY <2>1
  <2> DEFINE n == [Idle EXCEPT !.op = "adjust", !.loc = p, !.qty = q, !.level = l]
  <2>3. n.op = "adjust" /\ n.loc = p /\ n.level = l
    BY IdleTyped DEF Handler
  <2>4. call'[c] = n /\ \A d \in Clients \ {c} : call'[d] = call[d]
    BY <2>2, GotoEffect
  <2> HIDE DEF n
  <2>5. QED BY <1>1, <2>3, <2>4, FindLevelFinds DEF AdjustFind, tables, RowsFound
<1>2. CASE ApproveRead(c) \/ CompleteRead(c)
  BY <1>2, TransferReads DEF RowsFound, tables
<1>3. CASE ReserveFind(c)
  <2>1. PICK o \in Orders, p \in Locations, q \in Quantities : StartReserve(c, o, p, q)
    BY <1>3 DEF ReserveFind
  <2>2. PICK r \in Reservations, l \in FindLevel(p) :
          Goto(c, [Idle EXCEPT !.op = "reserve", !.loc = p, !.qty = q, !.order = o,
                               !.row = r, !.level = l])
    BY <2>1 DEF StartReserve
  <2> DEFINE n == [Idle EXCEPT !.op = "reserve", !.loc = p, !.qty = q, !.order = o,
                               !.row = r, !.level = l]
  <2>3. n.op = "reserve" /\ n.loc = p /\ n.level = l
    BY IdleTyped DEF Handler
  <2>4. call'[c] = n /\ \A d \in Clients \ {c} : call'[d] = call[d]
    BY <2>2, GotoEffect
  <2> HIDE DEF n
  <2>5. QED BY <2>1, <2>3, <2>4, FindLevelFinds DEF StartReserve, tables, RowsFound
<1>4. CASE ReleaseOne(c) \/ ReleaseForOrder(c)
  <2>1. PICK ids : /\ StartRelease(c, ids)
                   /\ \A r \in ids : reservations[r].status = "active"
    <3>1. CASE ReleaseOne(c)
      <4>1. PICK r \in Reservations : reservations[r].status = "active" /\ StartRelease(c, {r})
        BY <3>1 DEF ReleaseOne
      <4>2. \A x \in {r} : reservations[x].status = "active"
        BY <4>1
      <4> QED BY <4>1, <4>2
    <3>2. CASE ReleaseForOrder(c)
      <4>1. PICK o \in Orders : StartRelease(c, ActiveOf(o))
        BY <3>2 DEF ReleaseForOrder
      <4>2. \A x \in ActiveOf(o) : reservations[x].status = "active"
        BY DEF ActiveOf
      <4> QED BY <4>1, <4>2
    <3> QED BY <1>4, <3>1, <3>2
  <2> DEFINE n == [Idle EXCEPT !.op = "release", !.todo = ids]
  <2>2. n.op = "release" /\ n.level = None /\ n.locked = {} /\ n.done = {} /\ n.todo = ids
    BY DEF Idle
  <2>3. call'[c] = n /\ (\A d \in Clients \ {c} : call'[d] = call[d]) /\ UNCHANGED tables
    BY <2>1, GotoEffect DEF StartRelease
  <2> HIDE DEF n
  <2>4. QED BY <2>1, <2>2, <2>3 DEF tables, RowsFound
<1>5. CASE CompleteCheck(c)
  <2>1. PICK l \in FindLevel(transfers[k.row].from) :
          IF l # None /\ Available(l) >= transfers[k.row].qty
          THEN Goto(c, [k EXCEPT !.op = "move", !.level = l])
          ELSE Return(c)
    BY <1>5 DEF CompleteCheck
  <2>2. CASE Return(c)
    BY <1>5, <2>2, ReturnEffect DEF CompleteCheck, RowsFound
  <2>3. CASE ~Return(c)
    <3> DEFINE n == [k EXCEPT !.op = "move", !.level = l]
    <3>1. l # None /\ n.op = "move" /\ n.level = l /\ n.row = k.row
      BY <1>0, <2>1, <2>3 DEF Handler
    <3>2. call'[c] = n /\ \A d \in Clients \ {c} : call'[d] = call[d]
      BY <2>1, <2>3, GotoEffect
    <3> HIDE DEF n
    <3>3. QED BY <1>5, <3>1, <3>2, FindLevelFinds DEF CompleteCheck, tables, RowsFound
  <2>4. QED BY <2>2, <2>3
<1>6. CASE CompleteDecrement(c)
  <2>1. PICK l \in FindLevel(transfers[k.row].to) :
          Goto(c, [k EXCEPT !.op = "moved", !.to = l, !.locked = {k.level}])
    BY <1>6 DEF CompleteDecrement
  <2> DEFINE n == [k EXCEPT !.op = "moved", !.to = l, !.locked = {k.level}]
  <2>2. n.op = "moved" /\ n.to = l /\ n.row = k.row /\ n.level = k.level /\ k.op = "move"
    BY <1>0, <1>6 DEF Handler, CompleteDecrement
  <2>3. call'[c] = n /\ \A d \in Clients \ {c} : call'[d] = call[d]
    BY <2>1, GotoEffect
  <2> HIDE DEF n
  <2>4. QED BY <1>0, <1>6, <2>2, <2>3, FindLevelFinds DEF CompleteDecrement, tables, RowsFound
<1>7. CASE ReleaseBegin(c) \/ ReleaseFind(c) \/ ReleaseUpdate(c)
  <2>1. /\ call'[c].op = "releasing" /\ \A d \in Clients \ {c} : call'[d] = call[d]
        /\ call'[c].level # None => levels[call'[c].level].loc # None
        /\ \A l \in call'[c].locked : levels[l].loc # None
        /\ call'[c].todo \cup call'[c].done \in SUBSET (k.todo \cup k.done)
        /\ call'[c].row # None => call'[c].row \in call'[c].todo
    BY <1>0, <1>7, ReleaseFinds
  <2>2. k.op \in {"release", "releasing"} /\ UNCHANGED tables
    BY <1>7 DEF ReleaseBegin, ReleaseFind, ReleaseUpdate
  <2>3. QED BY <1>0, <2>1, <2>2 DEF tables, RowsFound
<1>8. CASE Abort(c)
  BY <1>8, ReturnEffect DEF Abort, RowsFound
<1>9. QED BY <1>1, <1>2, <1>3, <1>4, <1>5, <1>6, <1>7, <1>8 DEF Lookup

LEMMA AdjustAdds ==
  ASSUME TypeInv, RowInv, NEW c \in Clients, AdjustCommit(c)
  PROVE  /\ call[c].loc \in Locations /\ call[c].qty \in Int
         /\ \E l \in Levels : /\ AddsTo(levels, levels', l, call[c].loc, call[c].qty, 0)
                              /\ levels[l].loc = None => call[c].level = None
<1> DEFINE k == call[c]
<1>0. /\ k \in Handler /\ k.op = "adjust" /\ k.loc \in Locations /\ k.qty \in Int
      /\ k.level \in Levels \cup {None} /\ RowsFound(k) /\ UnusedEmpty(levels)
      /\ \A l \in Levels : /\ levels[l] \in LevelRow
                           /\ levels[l].onHand \in Int /\ levels[l].reserved \in Nat
  BY DEF AdjustCommit, TypeInv, TypeOK, HoldsItsRows, Handler, RowInv, LevelRow
<1>1. CASE k.level # None
  <2>1. levels' = [levels EXCEPT ![k.level].onHand = levels[k.level].onHand + k.qty]
    BY <1>1 DEF AdjustCommit
  <2>2. levels[k.level].loc = k.loc
    BY <1>0, <1>1 DEF RowsFound
  <2>3. [levels[k.level] EXCEPT !.onHand = levels[k.level].onHand + k.qty]
          = [loc |-> k.loc, onHand |-> levels[k.level].onHand + k.qty,
             reserved |-> levels[k.level].reserved + 0]
    BY <1>0, <1>1, <2>2 DEF LevelRow
  <2> HIDE DEF k
  <2>4. AddsTo(levels, levels', k.level, k.loc, k.qty, 0)
    BY <1>0, <1>1, <2>1, <2>2, <2>3 DEF AddsTo
  <2> QED BY <1>0, <1>1, <2>2, <2>4 DEF k
<1>2. CASE k.level = None
  <2>1. PICK l \in Levels :
          /\ levels[l].loc = None
          /\ levels' = [levels EXCEPT ![l] = [loc |-> k.loc, onHand |-> k.qty, reserved |-> 0]]
    BY <1>2 DEF AdjustCommit, CreateLevel
  <2>2. levels[l].onHand + k.qty = k.qty /\ levels[l].reserved + 0 = 0
    BY <1>0, <2>1 DEF UnusedEmpty
  <2> HIDE DEF k
  <2>3. AddsTo(levels, levels', l, k.loc, k.qty, 0)
    BY <2>1, <2>2 DEF AddsTo
  <2> QED BY <1>0, <1>2, <2>1, <2>3 DEF k
<1> QED BY <1>1, <1>2

LEMMA ReserveAdds ==
  ASSUME TypeInv, RowInv, NEW c \in Clients, ReserveCommit(c)
  PROVE  /\ call[c].loc \in Locations /\ call[c].qty \in Nat
         /\ \E l \in Levels : /\ AddsTo(levels, levels', l, call[c].loc, 0, call[c].qty)
                              /\ levels[l].loc = None => call[c].level = None
<1> DEFINE k == call[c]
<1>0. /\ k \in Handler /\ k.op = "reserve" /\ k.loc \in Locations /\ k.qty \in Nat
      /\ k.level \in Levels \cup {None} /\ RowsFound(k) /\ UnusedEmpty(levels)
      /\ \A l \in Levels : /\ levels[l] \in LevelRow
                           /\ levels[l].onHand \in Int /\ levels[l].reserved \in Nat
  BY DEF ReserveCommit, TypeInv, TypeOK, HoldsItsRows, Handler, RowInv, LevelRow
<1>1. CASE k.level # None
  <2>1. levels' = [levels EXCEPT ![k.level].reserved = levels[k.level].reserved + k.qty]
    BY <1>1 DEF ReserveCommit
  <2>2. levels[k.level].loc = k.loc
    BY <1>0, <1>1 DEF RowsFound
  <2>3. [levels[k.level] EXCEPT !.reserved = levels[k.level].reserved + k.qty]
          = [loc |-> k.loc, onHand |-> levels[k.level].onHand + 0,
             reserved |-> levels[k.level].reserved + k.qty]
    BY <1>0, <1>1, <2>2 DEF LevelRow
  <2> HIDE DEF k
  <2>4. AddsTo(levels, levels', k.level, k.loc, 0, k.qty)
    BY <1>0, <1>1, <2>1, <2>2, <2>3 DEF AddsTo
  <2> QED BY <1>0, <1>1, <2>2, <2>4 DEF k
<1>2. CASE k.level = None
  <2>1. PICK l \in Levels :
          /\ levels[l].loc = None
          /\ levels' = [levels EXCEPT ![l] = [loc |-> k.loc, onHand |-> 0, reserved |-> k.qty]]
    BY <1>2 DEF ReserveCommit, CreateLevel
  <2>2. levels[l].onHand + 0 = 0 /\ levels[l].reserved + k.qty = k.qty
    BY <1>0, <2>1 DEF UnusedEmpty
  <2> HIDE DEF k
  <2>3. AddsTo(levels, levels', l, k.loc, 0, k.qty)
    BY <2>1, <2>2 DEF AddsTo
  <2> QED BY <1>0, <1>2, <2>1, <2>3 DEF k
<1> QED BY <1>1, <1>2

(* A completion adds to two rows: it takes from one and gives to the other,*)
(* which may be the same one or a new one.                                 *)
LEMMA CompleteAdds ==
  ASSUME TypeInv, ReadApproved, RowInv, NEW c \in Clients, CompleteCommit(c)
  PROVE  LET k == call[c]
             t == transfers[k.row]
             left == Decremented(k.level, t.qty)
         IN /\ k.row \in Transfers /\ t.status # "absent" /\ t.qty \in Nat
            /\ t.from \in Locations /\ t.to \in Locations
            /\ k.level \in Levels /\ left \in [Levels -> LevelRow]
            /\ AddsTo(levels, left, k.level, t.from, -t.qty, 0)
            /\ levels[k.level].loc = t.from
            /\ \E l \in Levels : /\ AddsTo(left, levels', l, t.to, t.qty, 0)
                                 /\ levels[l].loc = None => k.to = None
                                 /\ levels[l].loc \in {None, t.to}
<1> DEFINE k == call[c]
           t == transfers[k.row]
           left == Decremented(k.level, t.qty)
<1>0. /\ k \in Handler /\ k.op = "moved" /\ k.row \in Transfers /\ t.qty \in Nat
      /\ k.level \in Levels /\ k.to \in Levels \cup {None}
      /\ RowsFound(k) /\ UnusedEmpty(levels)
      /\ \A l \in Levels : /\ levels[l] \in LevelRow
                           /\ levels[l].onHand \in Int /\ levels[l].reserved \in Nat
  BY DEF CompleteCommit, TypeInv, TypeOK, HoldsItsRows, Handler, RowInv, LevelRow, TransferRow
<1>1. t.status # "absent" /\ t.from \in Locations /\ t.to \in Locations
  BY <1>0 DEF ReadApproved, Moving, Cleared, RowInv, TransfersPlaced
<1>2. left = [levels EXCEPT ![k.level].onHand = levels[k.level].onHand - t.qty]
  BY DEF Decremented
<1>3. levels[k.level].loc = t.from
  BY <1>0 DEF RowsFound
<1>4. AddsTo(levels, left, k.level, t.from, -t.qty, 0)
  <2>1. [levels[k.level] EXCEPT !.onHand = levels[k.level].onHand - t.qty]
          = [loc |-> t.from, onHand |-> levels[k.level].onHand + (-t.qty),
             reserved |-> levels[k.level].reserved + 0]
    BY <1>0, <1>3 DEF LevelRow
  <2> HIDE DEF k, t, left
  <2> QED BY <1>0, <1>2, <1>3, <2>1 DEF AddsTo
<1>5. left \in [Levels -> LevelRow]
  <2> HIDE DEF k, t, left
  <2>1. levels \in [Levels -> LevelRow]
    BY DEF TypeInv, TypeOK
  <2>2. levels[k.level].onHand - t.qty \in Int
    BY <1>0
  <2> QED BY <1>0, <1>2, <2>1, <2>2, LevelTyped
<1>6. /\ left[k.level].loc = t.from
      /\ \A l \in Levels \ {k.level} : left[l] = levels[l]
      /\ \A l \in Levels : left[l].onHand \in Int /\ left[l].reserved \in Nat
  <2> HIDE DEF k, t, left
  <2>1. levels \in [Levels -> LevelRow]
    BY DEF TypeInv, TypeOK
  <2> QED BY <1>0, <1>4, <1>5, <2>1 DEF AddsTo, LevelRow
<1>7. CASE k.to # None
  <2>1. levels' = [left EXCEPT ![k.to].onHand = left[k.to].onHand + t.qty]
    BY <1>7 DEF CompleteCommit
  <2>2. levels[k.to].loc = t.to
    BY <1>0, <1>7 DEF RowsFound
  <2> HIDE DEF k, t, left
  <2>3. left[k.to].loc = t.to /\ left[k.to] \in LevelRow
    BY <1>0, <1>3, <1>5, <1>6, <1>7, <2>2
  <2>4. [left[k.to] EXCEPT !.onHand = left[k.to].onHand + t.qty]
          = [loc |-> t.to, onHand |-> left[k.to].onHand + t.qty,
             reserved |-> left[k.to].reserved + 0]
    BY <1>0, <1>6, <1>7, <2>3 DEF LevelRow
  <2>5. AddsTo(left, levels', k.to, t.to, t.qty, 0)
    BY <1>0, <1>5, <1>7, <2>1, <2>3, <2>4 DEF AddsTo
  <2> QED BY <1>0, <1>1, <1>3, <1>4, <1>5, <1>7, <2>2, <2>5 DEF k, t, left
<1>8. CASE k.to = None
  <2>1. PICK l \in Levels :
          /\ levels[l].loc = None
          /\ levels' = [left EXCEPT ![l] = [loc |-> t.to, onHand |-> t.qty, reserved |-> 0]]
    BY <1>8 DEF CompleteCommit
  <2>2. left[l] = levels[l]
    <3> HIDE DEF k, t, left
    <3> QED BY <1>1, <1>3, <1>6, <2>1
  <2>3. left[l].onHand + t.qty = t.qty /\ left[l].reserved + 0 = 0 /\ left[l].loc = None
    <3>1. levels[l].onHand = 0 /\ levels[l].reserved = 0
      BY <1>0, <2>1 DEF UnusedEmpty
    <3> HIDE DEF k, t, left
    <3> QED BY <1>0, <2>1, <2>2, <3>1
  <2> HIDE DEF k, t, left
  <2>4. AddsTo(left, levels', l, t.to, t.qty, 0)
    BY <2>1, <2>3 DEF AddsTo
  <2> QED BY <1>0, <1>1, <1>3, <1>4, <1>5, <1>8, <2>1, <2>4 DEF k, t, left
<1> QED BY <1>7, <1>8

(* The commit of a release touches neither location nor stock on hand.     *)
LEMMA ReleaseAdds ==
  ASSUME TypeInv, RowInv, NEW c \in Clients, ReleaseCommit(c)
  PROVE  /\ \A l \in Levels : /\ levels'[l].loc = levels[l].loc
                              /\ levels'[l].onHand = levels[l].onHand
                              /\ levels'[l].reserved = IF l \in call[c].locked
                                                       THEN call[c].wrote[l] ELSE levels[l].reserved
         /\ \A p : HandAt(levels', p) = HandAt(levels, p)
         /\ Hand(levels') = Hand(levels)
<1> DEFINE k == call[c]
<1>1. levels' = [l \in Levels |->
        IF l \in k.locked THEN [levels[l] EXCEPT !.reserved = k.wrote[l]] ELSE levels[l]]
  BY DEF ReleaseCommit
<1>2. \A l \in Levels : levels[l] \in LevelRow
  BY DEF TypeInv, TypeOK
<1>3. \A l \in Levels : \A x : LET n == [levels[l] EXCEPT !.reserved = x] IN
        n.loc = levels[l].loc /\ n.onHand = levels[l].onHand /\ n.reserved = x
  BY <1>2 DEF LevelRow
<1>4. \A l \in Levels : /\ levels'[l].loc = levels[l].loc
                        /\ levels'[l].onHand = levels[l].onHand
                        /\ levels'[l].reserved = IF l \in k.locked
                                                 THEN k.wrote[l] ELSE levels[l].reserved
  <2> HIDE DEF k
  <2> QED BY <1>1, <1>3
<1>5. [l \in Levels |-> levels'[l].onHand] = [l \in Levels |-> levels[l].onHand]
  BY <1>4
<1>6. \A p : [l \in Levels |-> IF levels'[l].loc = p THEN levels'[l].onHand ELSE 0]
               = [l \in Levels |-> IF levels[l].loc = p THEN levels[l].onHand ELSE 0]
  BY <1>4
<1> QED BY <1>4, <1>5, <1>6 DEF Hand, HandAt

AllAdjusted == SumFunction(adjusted)
Conserved == Hand(levels) = AllAdjusted

LEMMA HandType ==
  ASSUME NEW f \in [Levels -> LevelRow]
  PROVE  Hand(f) \in Int /\ \A p : HandAt(f, p) \in Int /\ HeldAt(f, p) \in Nat
<1>1. [l \in Levels |-> f[l].onHand] \in [Levels -> Int]
  BY DEF LevelRow
<1>2. ASSUME NEW p
      PROVE  /\ [l \in Levels |-> IF f[l].loc = p THEN f[l].onHand ELSE 0] \in [Levels -> Int]
             /\ [l \in Levels |-> IF f[l].loc = p THEN f[l].reserved ELSE 0] \in [Levels -> Nat]
  BY DEF LevelRow
<1>3. Hand(f) \in Int
  BY <1>1, TotalType DEF Hand
<1>4. ASSUME NEW p PROVE HandAt(f, p) \in Int /\ HeldAt(f, p) \in Nat
  BY <1>2, TotalType DEF HandAt, HeldAt
<1> QED BY <1>3, <1>4

LEMMA LocsKeptBoth ==
  ASSUME NEW f, NEW g, NEW h, LocsKept(f, g), LocsKept(g, h)
  PROVE  LocsKept(f, h)
BY DEF LocsKept

LEMMA StockStep ==
  ASSUME TypeInv, ReadApproved, RowInv, Conserved, NEW c \in Clients, Step(c), TypeInv'
  PROVE  RowInv' /\ Conserved'
<1> DEFINE k == call[c]
<1>0. /\ UnusedEmpty(levels) /\ TransfersPlaced /\ ReservationsPlaced /\ levels \in [Levels -> LevelRow]
      /\ levels' \in [Levels -> LevelRow] /\ transfers \in [Transfers -> TransferRow]
  BY DEF TypeInv, TypeOK, RowInv
<1>1. ASSUME RowsFound(call[c])', \A d \in Clients \ {c} : call'[d] = call[d],
             UnusedEmpty(levels)', TransfersPlaced', ReservationsPlaced',
             LocsKept(levels, levels'), TransfersKept, ReservationsKept
      PROVE  RowInv'
  BY <1>1, FoundStep DEF RowInv
<1>2. UNCHANGED transfers => TransfersPlaced' /\ TransfersKept
  BY <1>0 DEF TransfersPlaced, TransfersKept
<1>11. UNCHANGED levels => LocsKept(levels, levels') /\ UnusedEmpty(levels)'
  BY <1>0 DEF LocsKept, UnusedEmpty
<1>12. UNCHANGED <<levels, adjusted>> => Conserved'
  BY DEF Conserved, Hand, AllAdjusted
<1>14. UNCHANGED reservations => ReservationsPlaced' /\ ReservationsKept
  BY <1>0 DEF ReservationsPlaced, ReservationsKept
<1>13. Return(c) => RowsFound(call[c])' /\ \A d \in Clients \ {c} : call'[d] = call[d]
  BY ReturnEffect DEF RowsFound
<1>3. CASE Lookup(c)
  BY <1>1, <1>14, <1>2, <1>11, <1>12, <1>3, LookupFound DEF tables
<1>4. CASE CreateTransfer(c)
  <2>1. PICK t \in Transfers, p, d \in Locations, q \in Quantities :
          /\ transfers[t].status = "absent"
          /\ transfers' = [transfers EXCEPT ![t] =
                             [status |-> "pending", from |-> p, to |-> d, qty |-> q]]
    BY <1>4 DEF CreateTransfer
  <2>2. TransfersPlaced' /\ TransfersKept
    BY <1>0, <2>1 DEF TransfersPlaced, TransfersKept
  <2>3. UNCHANGED <<levels, reservations, adjusted, call>> /\ k.op = "idle"
    BY <1>4 DEF CreateTransfer
  <2>4. RowsFound(call[c])'
    BY <2>3 DEF RowsFound
  <2> QED BY <1>1, <1>14, <1>11, <1>12, <2>2, <2>3, <2>4
<1>5. CASE ApproveWrite(c)
  <2>1. call[c].row \in Transfers /\ transfers' = [transfers EXCEPT ![call[c].row].status = "approved"]
    BY <1>5 DEF ApproveWrite, TypeInv, HoldsItsRows
  <2>2. \A t \in Transfers : /\ transfers'[t].from = transfers[t].from
                             /\ transfers'[t].to = transfers[t].to
                             /\ transfers'[t].qty = transfers[t].qty
                             /\ transfers'[t].status \in {transfers[t].status, "approved"}
                             /\ transfers[t].status = "absent" => t = k.row \/ transfers'[t].status = "absent"
    BY <1>0, <2>1 DEF TransferRow
  <2>3. TransfersKept
    BY <2>2 DEF TransfersKept
  <2>4. transfers[k.row].status # "absent"
    BY <1>5 DEF ApproveWrite, RowInv, RowsFound
  <2>5. TransfersPlaced'
    BY <1>0, <2>2, <2>4 DEF TransfersPlaced
  <2> QED BY <1>1, <1>14, <1>11, <1>12, <1>13, <1>5, <2>3, <2>5 DEF ApproveWrite
<1>6. CASE AdjustCommit(c)
  <2>1. PICK l \in Levels : AddsTo(levels, levels', l, k.loc, k.qty, 0)
    BY <1>6, AdjustAdds
  <2>2. k.loc \in Locations /\ k.qty \in Int
    BY <1>6, AdjustAdds
  <2>3. /\ UnusedEmpty(levels') /\ LocsKept(levels, levels')
        /\ Hand(levels') = Hand(levels) + k.qty
    <3> HIDE DEF k
    <3> QED BY <1>0, <2>1, <2>2, AddsToEffect
  <2>4. AllAdjusted' = AllAdjusted + k.qty
    <3>1. adjusted' = [adjusted EXCEPT ![k.loc] = adjusted[k.loc] + k.qty]
      BY <1>6 DEF AdjustCommit
    <3>2. adjusted \in [Locations -> Int]
      BY DEF TypeInv, TypeOK
    <3> HIDE DEF k
    <3>3. adjusted' \in [Locations -> Int] /\ adjusted'[k.loc] = adjusted[k.loc] + k.qty
          /\ \A p \in Locations \ {k.loc} : adjusted'[p] = adjusted[p]
      BY <2>2, <3>1, <3>2
    <3>4. SumFunction(adjusted') = SumFunction(adjusted) - adjusted[k.loc] + adjusted'[k.loc]
      BY <2>2, <3>2, <3>3, TotalChange
    <3>5. SumFunction(adjusted) \in Int /\ adjusted[k.loc] \in Int
      BY <2>2, <3>2, TotalType
    <3> QED BY <2>2, <3>3, <3>4, <3>5 DEF AllAdjusted
  <2>5. Conserved'
    BY <2>3, <2>4 DEF Conserved
  <2>6. RowInv'
    BY <1>1, <1>14, <1>2, <1>13, <1>6, <2>3 DEF AdjustCommit
  <2> QED BY <2>5, <2>6
<1>7. CASE ReserveCommit(c)
  <2>1. PICK l \in Levels : AddsTo(levels, levels', l, k.loc, 0, k.qty)
    BY <1>7, ReserveAdds
  <2>2. k.loc \in Locations /\ k.qty \in Int
    BY <1>7, ReserveAdds
  <2>3. /\ UnusedEmpty(levels') /\ LocsKept(levels, levels')
        /\ Hand(levels') = Hand(levels) + 0
    <3> HIDE DEF k
    <3> QED BY <1>0, <2>1, <2>2, AddsToEffect
  <2>4. Hand(levels) \in Int
    BY <1>0, HandType
  <2>5. Conserved'
    BY <1>7, <2>3, <2>4 DEF ReserveCommit, Conserved, AllAdjusted
  <2>6. ReservationsPlaced' /\ ReservationsKept
    <3>1. reservations' = [reservations EXCEPT ![k.row] =
            [status |-> "active", loc |-> k.loc, order |-> k.order, qty |-> k.qty]]
      BY <1>7 DEF ReserveCommit
    <3>2. reservations \in [Reservations -> ReservationRow]
      BY DEF TypeInv, TypeOK
    <3> HIDE DEF k
    <3> QED BY <1>0, <2>2, <3>1, <3>2 DEF ReservationsPlaced, ReservationsKept
  <2>7. RowInv'
    BY <1>1, <1>2, <1>13, <1>7, <2>3, <2>6 DEF ReserveCommit
  <2> QED BY <2>5, <2>7
<1>8. CASE CompleteCommit(c)
  <2> DEFINE t == transfers[k.row]
             left == Decremented(k.level, t.qty)
  <2>1. /\ k.row \in Transfers /\ t.status # "absent" /\ t.qty \in Nat
        /\ t.from \in Locations /\ t.to \in Locations
        /\ k.level \in Levels /\ left \in [Levels -> LevelRow]
        /\ AddsTo(levels, left, k.level, t.from, -t.qty, 0)
        /\ \E l \in Levels : AddsTo(left, levels', l, t.to, t.qty, 0)
    BY <1>8, CompleteAdds
  <2>2. PICK l \in Levels : AddsTo(left, levels', l, t.to, t.qty, 0)
    BY <2>1
  <2>3. /\ UnusedEmpty(left) /\ LocsKept(levels, left)
        /\ Hand(left) = Hand(levels) + (-t.qty)
    <3> HIDE DEF k, t, left
    <3> QED BY <1>0, <2>1, AddsToEffect
  <2>4. /\ UnusedEmpty(levels') /\ LocsKept(left, levels')
        /\ Hand(levels') = Hand(left) + t.qty
    <3> HIDE DEF k, t, left
    <3> QED BY <1>0, <2>1, <2>2, <2>3, AddsToEffect
  <2>5. Hand(levels) \in Int
    BY <1>0, HandType
  <2>6. Hand(levels') = Hand(levels)
    <3> HIDE DEF k, t, left
    <3> QED BY <2>1, <2>3, <2>4, <2>5
  <2>7. Conserved'
    BY <1>8, <2>6 DEF CompleteCommit, Conserved, AllAdjusted
  <2>8. LocsKept(levels, levels')
    BY <2>3, <2>4, LocsKeptBoth
  <2>9. \A x \in Transfers : /\ transfers'[x].from = transfers[x].from
                             /\ transfers'[x].to = transfers[x].to
                             /\ transfers'[x].qty = transfers[x].qty
                             /\ transfers'[x].status = IF x = k.row THEN "completed" ELSE transfers[x].status
    <3>1. transfers' = [transfers EXCEPT ![k.row].status = "completed"]
      BY <1>8 DEF CompleteCommit
    <3> HIDE DEF k, t, left
    <3> QED BY <1>0, <2>1, <3>1 DEF TransferRow
  <2>10. TransfersKept /\ TransfersPlaced'
    BY <1>0, <2>1, <2>9 DEF TransfersKept, TransfersPlaced
  <2>11. RowInv'
    BY <1>1, <1>14, <1>13, <1>8, <2>4, <2>8, <2>10 DEF CompleteCommit
  <2> QED BY <2>7, <2>11
<1>9. CASE ReleaseCommit(c)
  <2>1. LocsKept(levels, levels')
    BY <1>9, ReleaseAdds DEF LocsKept
  <2>2. \A l \in k.locked : levels[l].loc # None
    BY <1>9 DEF ReleaseCommit, RowInv, RowsFound
  <2>3. UnusedEmpty(levels)'
    BY <1>0, <1>9, <2>2, ReleaseAdds DEF UnusedEmpty
  <2>4. Conserved'
    BY <1>9, ReleaseAdds DEF ReleaseCommit, Conserved, AllAdjusted
  <2>5. ReservationsPlaced' /\ ReservationsKept
    <3>1. reservations' = [r \in Reservations |->
            IF r \in k.done THEN [reservations[r] EXCEPT !.status = "released"] ELSE reservations[r]]
      BY <1>9 DEF ReleaseCommit
    <3>2. \A r \in Reservations : reservations[r] \in ReservationRow
      BY DEF TypeInv, TypeOK
    <3>3. \A r \in Reservations : /\ reservations'[r].loc = reservations[r].loc
                                  /\ reservations'[r].status = IF r \in k.done THEN "released" ELSE reservations[r].status
      <4> HIDE DEF k
      <4> QED BY <3>1, <3>2 DEF ReservationRow
    <3>4. \A r \in k.done : r \in Reservations => reservations[r].status # "absent"
      BY <1>9 DEF ReleaseCommit, RowInv, RowsFound
    <3> QED BY <1>0, <3>3, <3>4 DEF ReservationsPlaced, ReservationsKept
  <2> QED BY <1>1, <1>2, <1>13, <1>9, <2>1, <2>3, <2>4, <2>5 DEF ReleaseCommit
<1> QED BY <1>3, <1>4, <1>5, <1>6, <1>7, <1>8, <1>9 DEF Step, Request, Run, Lookup

LEMMA StockInv == Spec => [](RowInv /\ Conserved)
<1>1. Init => ReadApproved /\ RowInv /\ Conserved
  <2> SUFFICES ASSUME Init PROVE ReadApproved /\ RowInv /\ Conserved
    OBVIOUS
  <2>1. \A c \in Clients : call[c].op = "idle"
    BY IdleTyped DEF Init
  <2>2. ReadApproved /\ \A c \in Clients : RowsFound(call[c])
    BY <2>1 DEF ReadApproved, Moving, RowsFound
  <2>3. UnusedEmpty(levels) /\ TransfersPlaced /\ ReservationsPlaced
    BY DEF Init, UnusedEmpty, TransfersPlaced, ReservationsPlaced, NoLevel, NoTransfer, NoReservation
  <2>4. Hand(levels) = 0
    <3> DEFINE a == [l \in Levels |-> levels[l].onHand]
    <3>1. a \in [Levels -> Int] /\ \A l \in Levels : a[l] = 0
      BY DEF Init, NoLevel
    <3>2. SumFunction(a) = 0
      <4> HIDE DEF a
      <4> QED BY <3>1, TotalZero
    <3> QED BY <3>2 DEF Hand
  <2>5. SumFunction(adjusted) = 0
    <3>1. adjusted \in [Locations -> Int] /\ \A p \in Locations : adjusted[p] = 0
      BY DEF Init
    <3> QED BY <3>1, TotalZero
  <2> QED BY <2>2, <2>3, <2>4, <2>5 DEF RowInv, Conserved, AllAdjusted
<1>2. TypeInv /\ TypeInv' /\ ReadApproved /\ RowInv /\ Conserved /\ [Next]_vars
        => ReadApproved' /\ RowInv' /\ Conserved'
  <2> SUFFICES ASSUME TypeInv, TypeInv', ReadApproved, RowInv, Conserved, [Next]_vars
               PROVE  ReadApproved' /\ RowInv' /\ Conserved'
    OBVIOUS
  <2>1. CASE UNCHANGED vars
    BY <2>1 DEF vars, ReadApproved, Cleared, RowInv, UnusedEmpty, TransfersPlaced,
                ReservationsPlaced, RowsFound, Conserved, Hand, AllAdjusted
  <2>2. CASE Next
    BY <2>2, ApprovedStep, StockStep DEF Next, Step
  <2> QED BY <2>1, <2>2
<1> QED BY <1>1, <1>2, Typed, PTL DEF Spec

(* createStockAdjustment, completeStockTransfer: for any number of         *)
(* clients and whatever the interleaving, the stock on hand over all rows  *)
(* is the sum of the adjustments.                                          *)
THEOREM NothingGained == Spec => []StockConserved
<1>1. Conserved => StockConserved
  BY DEF Conserved, Hand, AllAdjusted, StockConserved
<1> QED BY <1>1, StockInv, PTL

LEMMA ApprovedInv == Spec => []ReadApproved
<1>1. Init => ReadApproved
  BY IdleTyped DEF Init, ReadApproved, Moving
<1>2. TypeInv /\ ReadApproved /\ [Next]_vars => ReadApproved'
  <2> SUFFICES ASSUME TypeInv, ReadApproved, [Next]_vars PROVE ReadApproved'
    OBVIOUS
  <2>1. CASE UNCHANGED vars
    BY <2>1 DEF vars, ReadApproved, Cleared
  <2> QED BY <2>1, ApprovedStep DEF Next, Step
<1> QED BY <1>1, <1>2, Typed, PTL DEF Spec

-----------------------------------------------------------------------------
(* A location gets a second row only when a handler that found none        *)
(* creates one after another has, and the unique index lets it.            *)
Fresh(p) == \A l \in Levels : levels[l].loc # p

LEMMA AddsToOneRow ==
  ASSUME OneRowPerLocation, TypeInv, NEW l \in Levels, NEW p \in Locations, NEW h, NEW r,
         AddsTo(levels, levels', l, p, h, r), levels[l].loc = None => Fresh(p)
  PROVE  OneRowPerLocation'
BY DEF AddsTo, OneRowPerLocation, Fresh, TypeInv, TypeOK

(* The row a commit adds to is new only when the handler found none and    *)
(* the index has nothing against it.                                       *)
NoneFound(c) ==
  LET k == call[c] IN
  /\ k.op \in {"adjust", "reserve"} /\ k.level = None => Fresh(k.loc)
  /\ k.op = "moved" /\ k.to = None => Fresh(transfers[k.row].to)

LEMMA RefusedIsFresh == ~VariantNull => \A p : ~UniqueViolation(p) => Fresh(p)
BY DEF UniqueViolation, Fresh

LEMMA OneRowStep ==
  ASSUME TypeInv, ReadApproved, RowInv, OneRowPerLocation, NEW c \in Clients, Step(c),
         ~VariantNull \/ NoneFound(c)
  PROVE  OneRowPerLocation'
<1> DEFINE k == call[c]
<1>1. CASE UNCHANGED levels
  BY <1>1 DEF OneRowPerLocation
<1>2. CASE AdjustCommit(c)
  <2>1. k.loc \in Locations /\ \E l \in Levels : /\ AddsTo(levels, levels', l, k.loc, k.qty, 0)
                                                 /\ levels[l].loc = None => k.level = None
    BY <1>2, AdjustAdds
  <2>2. k.level = None => Fresh(k.loc)
    BY <1>2, RefusedIsFresh DEF AdjustCommit, NoneFound
  <2> QED BY <2>1, <2>2, AddsToOneRow
<1>3. CASE ReserveCommit(c)
  <2>1. k.loc \in Locations /\ \E l \in Levels : /\ AddsTo(levels, levels', l, k.loc, 0, k.qty)
                                                 /\ levels[l].loc = None => k.level = None
    BY <1>3, ReserveAdds
  <2>2. k.level = None => Fresh(k.loc)
    BY <1>3, RefusedIsFresh DEF ReserveCommit, NoneFound
  <2> QED BY <2>1, <2>2, AddsToOneRow
<1>4. CASE CompleteCommit(c)
  <2> DEFINE t == transfers[k.row]
             left == Decremented(k.level, t.qty)
  <2>1. /\ t.to \in Locations /\ t.from \in Locations /\ k.level \in Levels
        /\ AddsTo(levels, left, k.level, t.from, -t.qty, 0)
        /\ levels[k.level].loc = t.from
        /\ \E l \in Levels : /\ AddsTo(left, levels', l, t.to, t.qty, 0)
                             /\ levels[l].loc = None => k.to = None
                             /\ levels[l].loc \in {None, t.to}
    BY <1>4, CompleteAdds
  <2>2. PICK l \in Levels : /\ AddsTo(left, levels', l, t.to, t.qty, 0)
                            /\ levels[l].loc = None => k.to = None
                            /\ levels[l].loc \in {None, t.to}
    BY <2>1
  <2>3. levels[l].loc = None => Fresh(t.to)
    BY <1>4, <2>2, RefusedIsFresh DEF CompleteCommit, NoneFound
  <2>4. \A m \in Levels : levels'[m].loc = IF m = l THEN t.to ELSE levels[m].loc
    <3>1. levels \in [Levels -> LevelRow]
      BY DEF TypeInv, TypeOK
    <3>2. \A m \in Levels : left[m].loc = levels[m].loc
      <4> HIDE DEF k, t, left
      <4> QED BY <2>1, <3>1 DEF AddsTo
    <3>3. left \in [Levels -> LevelRow]
      BY <1>4, CompleteAdds
    <3> HIDE DEF k, t, left
    <3> QED BY <2>2, <3>2, <3>3 DEF AddsTo
  <2> HIDE DEF k, t, left
  <2> QED BY <2>1, <2>2, <2>3, <2>4 DEF OneRowPerLocation, Fresh
<1>5. CASE ReleaseCommit(c)
  BY <1>5, ReleaseAdds DEF OneRowPerLocation
<1>6. CASE Lookup(c) \/ CreateTransfer(c) \/ ApproveWrite(c)
  BY <1>1, <1>6, LookupFound DEF tables, CreateTransfer, ApproveWrite
<1> QED BY <1>2, <1>3, <1>4, <1>5, <1>6 DEF Step, Request, Run, Lookup

LEMMA IndexHolds ==
  ASSUME ~VariantNull
  PROVE  Spec => []OneRowPerLocation
<1>1. Init => OneRowPerLocation
  BY DEF Init, NoLevel, OneRowPerLocation
<1>2. TypeInv /\ ReadApproved /\ RowInv /\ OneRowPerLocation /\ [Next]_vars => OneRowPerLocation'
  <2> SUFFICES ASSUME TypeInv, ReadApproved, RowInv, OneRowPerLocation, [Next]_vars
               PROVE  OneRowPerLocation'
    OBVIOUS
  <2>1. CASE UNCHANGED vars
    BY <2>1 DEF vars, OneRowPerLocation
  <2> QED BY <2>1, OneRowStep DEF Next, Step
<1> QED BY <1>1, <1>2, Typed, ApprovedInv, StockInv, PTL DEF Spec

-----------------------------------------------------------------------------
(* One client.  Nothing changes between what its handler reads and its     *)
(* commit; what a release has buffered is what it is going to write.       *)
OneClient == \A c, d \in Clients : c = d

Buffered(k) ==
  [l \in Levels |->
     IF l \in k.locked THEN [levels[l] EXCEPT !.reserved = k.wrote[l]] ELSE levels[l]]

PromisedBut(D, p) ==
  SumFunction([r \in Reservations |->
                 IF ActiveAt(r, p) /\ r \notin D THEN reservations[r].qty ELSE 0])

ReleaseHolds(k) ==
  /\ \A r \in k.todo \cup k.done : reservations[r].status = "active"
  /\ k.todo \cap k.done = {}
  /\ k.row # None /\ k.level = None => Fresh(reservations[k.row].loc)
  /\ k.row # None /\ k.level # None =>
       /\ levels[k.level].loc = reservations[k.row].loc
       /\ k.seen = Buffered(k)[k.level].reserved
  /\ \A p \in Locations : HeldAt(Buffered(k), p) = PromisedBut(k.done, p)

Undisturbed(c) ==
  LET k == call[c] IN
  /\ NoneFound(c)
  /\ k.op = "approve" => transfers[k.row].status = "pending"
  /\ k.op \in Moving => transfers[k.row].status = "approved"
  /\ k.op \in {"move", "moved"} => Available(k.level) >= transfers[k.row].qty
  /\ k.op = "reserve" => reservations[k.row].status = "absent"
  /\ k.op = "release" => \A r \in k.todo : reservations[r].status = "active"
  /\ k.op = "releasing" => ReleaseHolds(k)

SerialInv ==
  /\ OneRowPerLocation /\ StockPlaced /\ ReservedMatches
  /\ \A c \in Clients : Undisturbed(c)

LEMMA IdleUndisturbed ==
  ASSUME NEW c \in Clients, call'[c].op = "idle"
  PROVE  Undisturbed(c)'
BY DEF Undisturbed, NoneFound, Moving

(* The parts of the invariant that the reading steps do not touch.         *)
LEMMA TablesSame ==
  ASSUME SerialInv, UNCHANGED tables
  PROVE  OneRowPerLocation' /\ StockPlaced' /\ ReservedMatches'
BY DEF SerialInv, tables, OneRowPerLocation, StockPlaced, ReservedMatches, OnHand, Reserved,
       Promised, ActiveAt, Brought, Taken, Completed

LEMMA SerialRequest ==
  ASSUME TypeInv, ReadApproved, RowInv, SerialInv, NEW c \in Clients,
         \/ AdjustFind(c) \/ ApproveRead(c) \/ CompleteRead(c) \/ ReserveFind(c)
         \/ ReleaseOne(c) \/ ReleaseForOrder(c)
  PROVE  Undisturbed(c)'
<1> USE DEF Undisturbed, NoneFound, Moving
<1>1. CASE AdjustFind(c)
  <2>1. PICK p \in Locations, q \in Corrections : \E l \in FindLevel(p) :
          Goto(c, [Idle EXCEPT !.op = "adjust", !.loc = p, !.qty = q, !.level = l])
    BY <1>1 DEF AdjustFind
  <2>2. PICK l \in FindLevel(p) :
          Goto(c, [Idle EXCEPT !.op = "adjust", !.loc = p, !.qty = q, !.level = l])
    BY <2>1
  <2> DEFINE n == [Idle EXCEPT !.op = "adjust", !.loc = p, !.qty = q, !.level = l]
  <2>3. n.op = "adjust" /\ n.loc = p /\ n.level = l
    BY IdleTyped DEF Handler
  <2>4. call'[c] = n
    BY <2>2, GotoEffect
  <2> HIDE DEF n
  <2>5. QED BY <1>1, <2>3, <2>4, FindLevelFinds DEF AdjustFind, tables, Fresh
<1>2. CASE ApproveRead(c) \/ CompleteRead(c)
  BY <1>2, TransferReads DEF tables
<1>3. CASE ReserveFind(c)
  <2>1. PICK o \in Orders, p \in Locations, q \in Quantities : StartReserve(c, o, p, q)
    BY <1>3 DEF ReserveFind
  <2>2. PICK r \in Reservations, l \in FindLevel(p) :
          /\ reservations[r].status = "absent"
          /\ Goto(c, [Idle EXCEPT !.op = "reserve", !.loc = p, !.qty = q, !.order = o,
                                  !.row = r, !.level = l])
    BY <2>1 DEF StartReserve
  <2> DEFINE n == [Idle EXCEPT !.op = "reserve", !.loc = p, !.qty = q, !.order = o,
                               !.row = r, !.level = l]
  <2>3. n.op = "reserve" /\ n.loc = p /\ n.level = l /\ n.row = r
    BY IdleTyped DEF Handler
  <2>4. call'[c] = n
    BY <2>2, GotoEffect
  <2> HIDE DEF n
  <2>5. QED BY <2>1, <2>2, <2>3, <2>4, FindLevelFinds DEF StartReserve, tables, Fresh
<1>4. CASE ReleaseOne(c) \/ ReleaseForOrder(c)
  <2>1. PICK ids : /\ StartRelease(c, ids)
                   /\ \A r \in ids : reservations[r].status = "active"
    <3>1. CASE ReleaseOne(c)
      <4>1. PICK r \in Reservations : reservations[r].status = "active" /\ StartRelease(c, {r})
        BY <3>1 DEF ReleaseOne
      <4>2. \A x \in {r} : reservations[x].status = "active"
        BY <4>1
      <4> QED BY <4>1, <4>2
    <3>2. CASE ReleaseForOrder(c)
      <4>1. PICK o \in Orders : StartRelease(c, ActiveOf(o))
        BY <3>2 DEF ReleaseForOrder
      <4>2. \A x \in ActiveOf(o) : reservations[x].status = "active"
        BY DEF ActiveOf
      <4> QED BY <4>1, <4>2
    <3> QED BY <1>4, <3>1, <3>2
  <2> DEFINE n == [Idle EXCEPT !.op = "release", !.todo = ids]
  <2>2. n.op = "release" /\ n.todo = ids
    BY DEF Idle
  <2>3. call'[c] = n /\ UNCHANGED tables
    BY <2>1, GotoEffect DEF StartRelease
  <2> HIDE DEF n
  <2>4. QED BY <2>1, <2>2, <2>3 DEF tables
<1> QED BY <1>1, <1>2, <1>3, <1>4

LEMMA SerialTransferReads ==
  ASSUME TypeInv, ReadApproved, RowInv, SerialInv, NEW c \in Clients,
         CompleteCheck(c) \/ CompleteDecrement(c)
  PROVE  Undisturbed(c)'
<1> DEFINE k == call[c]
<1>0. k \in Handler /\ Undisturbed(c)
  BY DEF TypeInv, TypeOK, SerialInv
<1>1. CASE CompleteCheck(c)
  <2>1. PICK l \in FindLevel(transfers[k.row].from) :
          IF l # None /\ Available(l) >= transfers[k.row].qty
          THEN Goto(c, [k EXCEPT !.op = "move", !.level = l])
          ELSE Return(c)
    BY <1>1 DEF CompleteCheck
  <2>2. CASE Return(c)
    BY <2>2, ReturnEffect, IdleUndisturbed
  <2>3. CASE ~Return(c)
    <3> DEFINE n == [k EXCEPT !.op = "move", !.level = l]
    <3>1. n.op = "move" /\ n.level = l /\ n.row = k.row /\ Available(l) >= transfers[k.row].qty
      BY <1>0, <2>1, <2>3 DEF Handler
    <3>2. call'[c] = n
      BY <2>1, <2>3, GotoEffect
    <3>3. k.op = "complete" /\ UNCHANGED tables
      BY <1>1 DEF CompleteCheck
    <3>4. transfers[k.row].status = "approved"
      BY <1>0, <3>3 DEF Undisturbed, Moving
    <3> HIDE DEF n
    <3>5. QED BY <3>1, <3>2, <3>3, <3>4 DEF tables, Undisturbed, NoneFound, Available
  <2>4. QED BY <2>2, <2>3
<1>2. CASE CompleteDecrement(c)
  <2>1. PICK l \in FindLevel(transfers[k.row].to) :
          Goto(c, [k EXCEPT !.op = "moved", !.to = l, !.locked = {k.level}])
    BY <1>2 DEF CompleteDecrement
  <2> DEFINE n == [k EXCEPT !.op = "moved", !.to = l, !.locked = {k.level}]
  <2>2. n.op = "moved" /\ n.to = l /\ n.row = k.row /\ n.level = k.level
    BY <1>0 DEF Handler
  <2>3. call'[c] = n
    BY <2>1, GotoEffect
  <2>4. k.op = "move" /\ UNCHANGED tables
    BY <1>2 DEF CompleteDecrement
  <2>5. transfers[k.row].status = "approved" /\ Available(k.level) >= transfers[k.row].qty
    BY <1>0, <2>4 DEF Undisturbed, Moving
  <2> HIDE DEF n
  <2>6. QED BY <2>2, <2>3, <2>4, <2>5, FindLevelFinds
          DEF tables, Undisturbed, NoneFound, Available, Fresh
<1> QED BY <1>1, <1>2

(* A step that reads and goes on releasing is undisturbed when what it     *)
(* goes on with is.                                                        *)
LEMMA ReleaseGoesOn ==
  ASSUME NEW c \in Clients, UNCHANGED tables, call'[c].op = "releasing", NEW n, call'[c] = n,
         ReleaseHolds(n)
  PROVE  Undisturbed(c)'
<1>1. /\ levels' = levels /\ reservations' = reservations
      /\ n.op = "releasing"
  BY DEF tables
<1>2. Buffered(n)' = Buffered(n)
  BY <1>1 DEF Buffered
<1>3. \A p : HeldAt(Buffered(n)', p) = HeldAt(Buffered(n), p)
  BY <1>2
<1>4. \A D, p : PromisedBut(D, p)' = PromisedBut(D, p)
  BY <1>1 DEF PromisedBut, ActiveAt
<1>5. \A p : Fresh(p)' = Fresh(p)
  BY <1>1 DEF Fresh
<1>6. ReleaseHolds(n)'
  BY <1>1, <1>2, <1>3, <1>4, <1>5 DEF ReleaseHolds
<1> QED BY <1>1, <1>6 DEF Undisturbed, NoneFound, Moving

LEMMA BufferedTyped ==
  ASSUME levels \in [Levels -> LevelRow], NEW k \in Handler
  PROVE  /\ Buffered(k) \in [Levels -> LevelRow]
         /\ \A l \in Levels : /\ Buffered(k)[l].loc = levels[l].loc
                              /\ Buffered(k)[l].onHand = levels[l].onHand
                              /\ Buffered(k)[l].reserved = IF l \in k.locked THEN k.wrote[l]
                                                           ELSE levels[l].reserved
<1>1. \A l \in Levels, n \in Nat : LET x == [levels[l] EXCEPT !.reserved = n] IN
        /\ x \in LevelRow /\ x.loc = levels[l].loc /\ x.onHand = levels[l].onHand
        /\ x.reserved = n
  BY DEF LevelRow
<1>2. k.wrote \in [Levels -> Nat]
  BY DEF Handler
<1>3. \A l \in Levels : levels[l] \in LevelRow
  OBVIOUS
<1> QED BY <1>1, <1>2, <1>3 DEF Buffered

LEMMA HeldAtOne ==
  ASSUME NEW f \in [Levels -> LevelRow], NEW l \in Levels, NEW p, f[l].loc = p,
         \A m \in Levels \ {l} : f[m].loc # p
  PROVE  HeldAt(f, p) = f[l].reserved
<1> DEFINE a == [m \in Levels |-> IF f[m].loc = p THEN f[m].reserved ELSE 0]
           z == [m \in Levels |-> 0]
<1>1. /\ a \in [Levels -> Int] /\ z \in [Levels -> Int] /\ \A m \in Levels : z[m] = 0
      /\ \A m \in Levels \ {l} : a[m] = z[m]
      /\ z[l] = 0 /\ a[l] = f[l].reserved /\ f[l].reserved \in Int
  BY DEF LevelRow
<1> HIDE DEF a, z
<1>2. SumFunction(z) = 0
  BY <1>1, TotalZero
<1>3. SumFunction(a) = SumFunction(z) - z[l] + a[l]
  BY <1>1, TotalChange
<1>4. SumFunction(a) = f[l].reserved
  BY <1>1, <1>2, <1>3
<1> QED BY <1>4 DEF HeldAt, a

LEMMA HeldAtNone ==
  ASSUME NEW f \in [Levels -> LevelRow], NEW p, \A m \in Levels : f[m].loc # p
  PROVE  HeldAt(f, p) = 0
<1> DEFINE a == [m \in Levels |-> IF f[m].loc = p THEN f[m].reserved ELSE 0]
<1>1. a \in [Levels -> Int] /\ \A m \in Levels : a[m] = 0
  OBVIOUS
<1>2. SumFunction(a) = 0
  <2> HIDE DEF a
  <2> QED BY <1>1, TotalZero
<1> QED BY <1>2 DEF HeldAt

(* One more reservation is done: what it asked for is promised no longer.  *)
LEMMA PromisedDone ==
  ASSUME reservations \in [Reservations -> ReservationRow], NEW D, NEW r \in Reservations,
         r \notin D, NEW p, ActiveAt(r, p)
  PROVE  /\ PromisedBut(D, p) \in Nat /\ reservations[r].qty \in Nat
         /\ reservations[r].qty <= PromisedBut(D, p)
         /\ \A q : q # p => PromisedBut(D \cup {r}, q) = PromisedBut(D, q)
         /\ PromisedBut(D \cup {r}, p) = PromisedBut(D, p) - reservations[r].qty
<1>0. \A x \in Reservations : reservations[x].qty \in Nat
  BY DEF ReservationRow
<1>1. ASSUME NEW q
      PROVE  /\ PromisedBut(D, q) \in Nat
             /\ q = p => reservations[r].qty <= PromisedBut(D, q)
             /\ q # p => PromisedBut(D \cup {r}, q) = PromisedBut(D, q)
             /\ q = p => PromisedBut(D \cup {r}, q) = PromisedBut(D, q) - reservations[r].qty
  <2> DEFINE a == [x \in Reservations |->
                     IF ActiveAt(x, q) /\ x \notin D THEN reservations[x].qty ELSE 0]
             b == [x \in Reservations |->
                     IF ActiveAt(x, q) /\ x \notin D \cup {r} THEN reservations[x].qty ELSE 0]
  <2>1. /\ a \in [Reservations -> Nat] /\ a \in [Reservations -> Int]
        /\ b \in [Reservations -> Int] /\ \A x \in Reservations \ {r} : b[x] = a[x]
    BY <1>0
  <2>2. a[r] = (IF q = p THEN reservations[r].qty ELSE 0) /\ b[r] = 0 /\ a[r] \in Nat
    BY <1>0 DEF ActiveAt
  <2> HIDE DEF a, b
  <2>3. SumFunction(b) = SumFunction(a) - a[r] + b[r]
    BY <2>1, TotalChange
  <2>4. SumFunction(a) \in Nat
    BY <2>1, TotalType
  <2>5. a[r] <= SumFunction(a)
    BY <2>1, TotalTerm
  <2>6. PromisedBut(D, q) = SumFunction(a) /\ PromisedBut(D \cup {r}, q) = SumFunction(b)
    BY DEF PromisedBut, a, b
  <2> DEFINE qty == reservations[r].qty
  <2>7. qty \in Nat
    BY <1>0
  <2> HIDE DEF qty
  <2>8. q # p => SumFunction(b) = SumFunction(a)
    BY <2>2, <2>3, <2>4
  <2>9. q = p => SumFunction(b) = SumFunction(a) - qty /\ qty <= SumFunction(a)
    BY <2>2, <2>3, <2>4, <2>5, <2>7 DEF qty
  <2> QED BY <2>4, <2>6, <2>8, <2>9 DEF qty
<1> QED BY <1>0, <1>1

LEMMA SerialReleaseReads ==
  ASSUME TypeInv, RowInv, SerialInv, NEW c \in Clients,
         ReleaseBegin(c) \/ ReleaseFind(c) \/ ReleaseUpdate(c)
  PROVE  Undisturbed(c)'
<1> DEFINE k == call[c]
<1>0. /\ k \in Handler /\ HoldsItsRows(k) /\ RowsFound(k) /\ Undisturbed(c)
      /\ levels \in [Levels -> LevelRow] /\ reservations \in [Reservations -> ReservationRow]
  BY DEF TypeInv, TypeOK, RowInv, SerialInv
<1>1. call'[c].op = "releasing" /\ UNCHANGED tables
  BY ReleaseSteps DEF ReleaseBegin, ReleaseFind, ReleaseUpdate
<1>2. CASE ReleaseBegin(c)
  <2> DEFINE n == [k EXCEPT !.op = "releasing",
                            !.todo = {r \in @ : reservations[r].status = "active"}]
  <2>1. /\ n.todo = {r \in k.todo : reservations[r].status = "active"} /\ n.locked = k.locked
        /\ n.done = k.done /\ n.row = k.row /\ n.level = k.level
    BY <1>0 DEF Handler
  <2>2. call'[c] = n
    BY <1>2, GotoEffect DEF ReleaseBegin
  <2>3. k.op = "release" /\ n.done = {} /\ n.locked = {} /\ n.row = None
    BY <1>0, <1>2, <2>1 DEF ReleaseBegin, RowsFound, HoldsItsRows
  <2> HIDE DEF n
  <2>4. Buffered(n) = levels
    BY <1>0, <2>3 DEF Buffered
  <2>5. \A p \in Locations : HeldAt(levels, p) = PromisedBut({}, p)
    BY DEF SerialInv, ReservedMatches, Reserved, Promised, HeldAt, PromisedBut
  <2>6. ReleaseHolds(n)
    BY <2>1, <2>3, <2>4, <2>5 DEF ReleaseHolds
  <2> QED BY <1>1, <2>2, <2>6, ReleaseGoesOn
<1>3. CASE ReleaseFind(c)
  <2>1. PICK r \in k.todo : \E l \in FindLevel(reservations[r].loc) :
          Goto(c, [k EXCEPT !.row = r, !.level = l,
                            !.seen = IF l = None THEN 0 ELSE SeenReserved(c, l)])
    BY <1>3 DEF ReleaseFind
  <2>2. PICK l \in FindLevel(reservations[r].loc) :
          Goto(c, [k EXCEPT !.row = r, !.level = l,
                            !.seen = IF l = None THEN 0 ELSE SeenReserved(c, l)])
    BY <2>1
  <2> DEFINE s == IF l = None THEN 0 ELSE SeenReserved(c, l)
             n == [k EXCEPT !.row = r, !.level = l, !.seen = s]
  <2>3. /\ n.level = l /\ n.locked = k.locked /\ n.todo = k.todo /\ n.done = k.done
        /\ n.row = r /\ n.seen = s /\ n.wrote = k.wrote
    BY <1>0 DEF Handler
  <2>4. call'[c] = n
    BY <2>2, GotoEffect
  <2>5. k.op = "releasing" /\ ReleaseHolds(k)
    BY <1>0, <1>3 DEF ReleaseFind, Undisturbed
  <2>6. Buffered(n) = Buffered(k)
    <3> HIDE DEF n
    <3> QED BY <2>3 DEF Buffered
  <2>7. l # None => l \in Levels /\ levels[l].loc = reservations[r].loc /\ s = Buffered(k)[l].reserved
    <3>1. l # None => l \in Levels /\ levels[l].loc = reservations[r].loc
      BY FindLevelFinds
    <3> QED BY <1>0, <3>1, BufferedTyped DEF SeenReserved
  <2>8. l = None => Fresh(reservations[r].loc)
    BY FindLevelFinds DEF Fresh
  <2> HIDE DEF n, s, k
  <2>9. ReleaseHolds(n)
    BY <2>3, <2>5, <2>6, <2>7, <2>8 DEF ReleaseHolds
  <2> QED BY <1>1, <2>4, <2>9, ReleaseGoesOn
<1>4. CASE ReleaseUpdate(c)
  <2> DEFINE r == k.row
             p == reservations[r].loc
             qty == reservations[r].qty
             n == [k EXCEPT !.row = None, !.level = None, !.seen = 0,
                            !.todo = Rest(k), !.done = @ \cup {k.row}]
             w == NextReserved(k.seen, qty)
             m == [n EXCEPT !.locked = @ \cup {k.level}, !.wrote[k.level] = w]
  <2>1. k.op = "releasing" /\ r # None /\ ReleaseHolds(k) /\ r \in k.todo
    BY <1>0, <1>4 DEF ReleaseUpdate, Undisturbed, RowsFound
  <2>2. /\ r \in Reservations /\ r \notin k.done /\ ActiveAt(r, p) /\ p \in Locations
    <3>1. r \in Reservations /\ reservations[r].status = "active" /\ r \notin k.done
      BY <1>0, <2>1 DEF Handler, ReleaseHolds
    <3> QED BY <3>1 DEF ActiveAt, RowInv, ReservationsPlaced
  <2>3. /\ qty \in Nat /\ PromisedBut(k.done, p) \in Nat /\ qty <= PromisedBut(k.done, p)
        /\ \A q : q # p => PromisedBut(k.done \cup {r}, q) = PromisedBut(k.done, q)
        /\ PromisedBut(k.done \cup {r}, p) = PromisedBut(k.done, p) - qty
    <3> DEFINE D == k.done
    <3> HIDE DEF r, p, qty, D
    <3>1. r \notin D /\ r \in Reservations /\ ActiveAt(r, p)
      BY <2>2 DEF D
    <3>2. /\ PromisedBut(D, p) \in Nat /\ reservations[r].qty \in Nat
          /\ reservations[r].qty <= PromisedBut(D, p)
          /\ \A q : q # p => PromisedBut(D \cup {r}, q) = PromisedBut(D, q)
          /\ PromisedBut(D \cup {r}, p) = PromisedBut(D, p) - reservations[r].qty
      BY <1>0, <3>1, PromisedDone
    <3> QED BY <3>2 DEF D, qty
  <2>4. IF k.level = None THEN call'[c] = n ELSE call'[c] = m
    BY <1>4, GotoEffect DEF ReleaseUpdate
  <2>5. /\ n.row = None /\ n.todo = k.todo \ {r} /\ n.done = k.done \cup {r}
        /\ n.locked = k.locked /\ n.wrote = k.wrote
    BY <1>0 DEF Handler, Rest
  <2>6. /\ m.row = None /\ m.todo = k.todo \ {r} /\ m.done = k.done \cup {r}
        /\ m.locked = k.locked \cup {k.level}
        /\ m.wrote = [k.wrote EXCEPT ![k.level] = w]
    BY <1>0 DEF Handler, Rest
  <2>7. Buffered(k) \in [Levels -> LevelRow] /\ UnusedEmpty(Buffered(k))
    <3>1. UnusedEmpty(levels) /\ \A l \in k.locked : levels[l].loc # None
      BY <1>0, <2>1 DEF RowInv, RowsFound
    <3> HIDE DEF k
    <3> QED BY <1>0, <3>1, BufferedTyped DEF UnusedEmpty
  <2>8. /\ \A x \in (k.todo \ {r}) \cup (k.done \cup {r}) : reservations[x].status = "active"
        /\ (k.todo \ {r}) \cap (k.done \cup {r}) = {}
    BY <2>1 DEF ReleaseHolds
  <2>9. CASE k.level = None
    <3>1. HeldAt(Buffered(k), p) = 0
      <4>1. \A l \in Levels : Buffered(k)[l].loc # p
        BY <1>0, <2>1, <2>9, BufferedTyped DEF ReleaseHolds, Fresh
      <4> HIDE DEF k, p
      <4> QED BY <2>7, <4>1, HeldAtNone
    <3>2. PromisedBut(k.done, p) = 0
      BY <2>1, <2>2, <3>1 DEF ReleaseHolds
    <3> HIDE DEF k, p, r, qty
    <3>3. qty = 0
      BY <2>3, <3>2
    <3>4. \A q \in Locations : PromisedBut(k.done \cup {r}, q) = PromisedBut(k.done, q)
      <4>1. PromisedBut(k.done \cup {r}, p) = PromisedBut(k.done, p)
        BY <2>3, <3>3
      <4> QED BY <2>3, <4>1
    <3>5. Buffered(n) = Buffered(k)
      <4> HIDE DEF n
      <4> QED BY <2>5 DEF Buffered
    <3> HIDE DEF n
    <3>6. ReleaseHolds(n)
      BY <2>1, <2>5, <2>8, <3>4, <3>5 DEF ReleaseHolds
    <3> QED BY <1>1, <2>4, <2>9, <3>6, ReleaseGoesOn
  <2>10. CASE k.level # None
    <3>1. k.level \in Levels /\ levels[k.level].loc = p /\ k.seen = Buffered(k)[k.level].reserved
      BY <1>0, <2>1, <2>10 DEF Handler, ReleaseHolds
    <3>2. HeldAt(Buffered(k), p) = k.seen
      <4>1. /\ Buffered(k)[k.level].loc = p
            /\ \A l \in Levels \ {k.level} : Buffered(k)[l].loc # p
        BY <1>0, <2>2, <3>1, BufferedTyped DEF SerialInv, OneRowPerLocation
      <4> HIDE DEF k, p
      <4> QED BY <2>7, <3>1, <4>1, HeldAtOne
    <3>3. k.seen = PromisedBut(k.done, p)
      BY <2>1, <2>2, <3>2 DEF ReleaseHolds
    <3>4. w = k.seen - qty /\ w \in Nat /\ k.seen \in Nat
      <4> HIDE DEF k, p, r, qty
      <4> QED BY <2>3, <3>3 DEF NextReserved
    <3> HIDE DEF w, qty
    <3>5. AddsTo(Buffered(k), Buffered(m), k.level, p, 0, -qty)
      <4> HIDE DEF k, p, r, m
      <4>1. k.wrote \in [Levels -> Nat] /\ k.locked \in SUBSET Levels
        BY <1>0 DEF Handler
      <4>2. \A l \in Levels \ {k.level} : Buffered(m)[l] = Buffered(k)[l]
        BY <2>6, <3>1, <4>1 DEF Buffered
      <4>3. Buffered(m)[k.level] = [levels[k.level] EXCEPT !.reserved = w]
        BY <2>6, <3>1, <4>1 DEF Buffered
      <4>4. levels[k.level] \in LevelRow /\ Buffered(k)[k.level].onHand = levels[k.level].onHand
            /\ levels[k.level].onHand \in Int /\ Buffered(k)[k.level].loc = p
        BY <1>0, <3>1, BufferedTyped DEF LevelRow
      <4>5. [levels[k.level] EXCEPT !.reserved = w]
              = [loc |-> p, onHand |-> Buffered(k)[k.level].onHand + 0,
                 reserved |-> Buffered(k)[k.level].reserved + (-qty)]
        <5>1. w = Buffered(k)[k.level].reserved + (-qty)
          BY <2>3, <3>1, <3>4
        <5>2. levels[k.level].onHand = Buffered(k)[k.level].onHand + 0
          BY <4>4
        <5>3. [levels[k.level] EXCEPT !.reserved = w]
                = [loc |-> p, onHand |-> levels[k.level].onHand, reserved |-> w]
          BY <3>1, <4>4 DEF LevelRow
        <5> QED BY <5>1, <5>2, <5>3
      <4>6. Buffered(m) = [Buffered(k) EXCEPT ![k.level] =
              [loc |-> p, onHand |-> Buffered(k)[k.level].onHand + 0,
                 reserved |-> Buffered(k)[k.level].reserved + (-qty)]]
        <5>1. Buffered(m) = [l \in Levels |-> Buffered(m)[l]] /\ Buffered(k) = [l \in Levels |-> Buffered(k)[l]]
          BY DEF Buffered
        <5> QED BY <5>1, <3>1, <4>2, <4>3, <4>5
      <4> QED BY <4>4, <4>6 DEF AddsTo
    <3>6. Buffered(m) \in [Levels -> LevelRow]
      <4>1. m \in Handler
        <5>1. k.level \in Levels
          BY <3>1
        <5>2. n \in Handler
          <6>1. Rest(k) \in SUBSET Reservations /\ k.done \cup {k.row} \in SUBSET Reservations
            BY <1>0, <2>2 DEF Handler, Rest
          <6> HIDE DEF k
          <6> QED BY <1>0, <6>1 DEF Handler
        <5> HIDE DEF n, k
        <5>3. [n.wrote EXCEPT ![k.level] = w] \in [Levels -> Nat] /\ n.locked \cup {k.level} \in SUBSET Levels
          BY <5>1, <5>2, <3>4 DEF Handler
        <5> QED BY <5>2, <5>3 DEF Handler
      <4> HIDE DEF m
      <4> QED BY <1>0, <4>1, BufferedTyped
    <3> HIDE DEF k, p, r, m
    <3>7. \A q \in Locations : HeldAt(Buffered(m), q)
                                 = HeldAt(Buffered(k), q) + (IF q = p THEN -qty ELSE 0)
        BY <2>2, <2>3, <2>7, <3>1, <3>5, <3>6, AddsToEffect
    <3>8. ASSUME NEW q \in Locations PROVE HeldAt(Buffered(m), q) = PromisedBut(m.done, q)
      <4>1. HeldAt(Buffered(k), q) = PromisedBut(k.done, q) /\ m.done = k.done \cup {r}
        BY <2>1, <2>6 DEF ReleaseHolds
      <4>2. HeldAt(Buffered(k), q) \in Int
        BY <2>7, HandType
      <4>3. CASE q = p
        BY <2>3, <3>7, <4>1, <4>2, <4>3
      <4>4. CASE q # p
        <5>1. HeldAt(Buffered(m), q) = HeldAt(Buffered(k), q)
          BY <3>7, <4>2, <4>4
        <5>2. PromisedBut(k.done \cup {r}, q) = PromisedBut(k.done, q)
          BY <2>3, <4>4
        <5> QED BY <4>1, <5>1, <5>2
      <4> QED BY <4>3, <4>4
    <3>9. ReleaseHolds(m)
      BY <2>6, <2>8, <3>8 DEF ReleaseHolds
    <3> QED BY <1>1, <2>4, <2>10, <3>9, ReleaseGoesOn
  <2> QED BY <2>9, <2>10
<1> QED BY <1>2, <1>3, <1>4

(* What completed transfers brought and took, before and after a step that *)
(* completes none, and one that completes t.                               *)
LEMMA NoneCompleted ==
  ASSUME \A t \in Transfers :
           Completed(t) \/ Completed(t)' => transfers'[t] = transfers[t]
  PROVE  \A p : Brought(p)' = Brought(p) /\ Taken(p)' = Taken(p)
<1>1. \A t \in Transfers : \A p :
        /\ (Completed(t) /\ transfers[t].to = p)' <=> Completed(t) /\ transfers[t].to = p
        /\ (Completed(t) /\ transfers[t].from = p)' <=> Completed(t) /\ transfers[t].from = p
        /\ Completed(t) => transfers'[t].qty = transfers[t].qty
  BY DEF Completed
<1>2. ASSUME NEW p
      PROVE  /\ [t \in Transfers |-> IF Completed(t) /\ transfers[t].to = p THEN transfers[t].qty ELSE 0]'
                  = [t \in Transfers |-> IF Completed(t) /\ transfers[t].to = p THEN transfers[t].qty ELSE 0]
             /\ [t \in Transfers |-> IF Completed(t) /\ transfers[t].from = p THEN transfers[t].qty ELSE 0]'
                  = [t \in Transfers |-> IF Completed(t) /\ transfers[t].from = p THEN transfers[t].qty ELSE 0]
  BY <1>1
<1> QED BY <1>2 DEF Brought, Taken

InTo(f, p) ==
  SumFunction([x \in Transfers |->
                 IF f[x].status = "completed" /\ f[x].to = p THEN f[x].qty ELSE 0])
OutOf(f, p) ==
  SumFunction([x \in Transfers |->
                 IF f[x].status = "completed" /\ f[x].from = p THEN f[x].qty ELSE 0])

LEMMA OneMore ==
  ASSUME NEW f \in [Transfers -> TransferRow], NEW g \in [Transfers -> TransferRow],
         NEW t \in Transfers, f[t].status # "completed", g[t].status = "completed",
         g[t].from = f[t].from, g[t].to = f[t].to, g[t].qty = f[t].qty,
         \A x \in Transfers : x # t => g[x] = f[x], NEW p
  PROVE  /\ InTo(f, p) \in Int /\ InTo(g, p) = InTo(f, p) + (IF f[t].to = p THEN f[t].qty ELSE 0)
         /\ OutOf(f, p) \in Int /\ OutOf(g, p) = OutOf(f, p) + (IF f[t].from = p THEN f[t].qty ELSE 0)
<1>1. \A x \in Transfers : f[x].qty \in Nat /\ g[x].qty \in Nat
  BY DEF TransferRow
<1>2. /\ InTo(f, p) \in Int
      /\ InTo(g, p) = InTo(f, p) + (IF f[t].to = p THEN f[t].qty ELSE 0)
  <2> DEFINE a == [x \in Transfers |-> IF f[x].status = "completed" /\ f[x].to = p THEN f[x].qty ELSE 0]
             b == [x \in Transfers |-> IF g[x].status = "completed" /\ g[x].to = p THEN g[x].qty ELSE 0]
             d == IF f[t].to = p THEN f[t].qty ELSE 0
  <2>1. /\ a \in [Transfers -> Int] /\ b \in [Transfers -> Int] /\ d \in Int
        /\ b[t] = a[t] + d /\ \A x \in Transfers : x # t => b[x] = a[x]
    BY <1>1
  <2> HIDE DEF a, b, d
  <2>2. SumFunction(a) \in Int /\ SumFunction(b) = SumFunction(a) + d
    BY <2>1, TotalAdds
  <2> QED BY <2>2 DEF InTo, a, b, d
<1>3. /\ OutOf(f, p) \in Int
      /\ OutOf(g, p) = OutOf(f, p) + (IF f[t].from = p THEN f[t].qty ELSE 0)
  <2> DEFINE a == [x \in Transfers |-> IF f[x].status = "completed" /\ f[x].from = p THEN f[x].qty ELSE 0]
             b == [x \in Transfers |-> IF g[x].status = "completed" /\ g[x].from = p THEN g[x].qty ELSE 0]
             d == IF f[t].from = p THEN f[t].qty ELSE 0
  <2>1. /\ a \in [Transfers -> Int] /\ b \in [Transfers -> Int] /\ d \in Int
        /\ b[t] = a[t] + d /\ \A x \in Transfers : x # t => b[x] = a[x]
    BY <1>1
  <2> HIDE DEF a, b, d
  <2>2. SumFunction(a) \in Int /\ SumFunction(b) = SumFunction(a) + d
    BY <2>1, TotalAdds
  <2> QED BY <2>2 DEF OutOf, a, b, d
<1> QED BY <1>2, <1>3

LEMMA OneCompleted ==
  ASSUME transfers \in [Transfers -> TransferRow], transfers' \in [Transfers -> TransferRow],
         NEW t \in Transfers, transfers[t].status # "completed", transfers'[t].status = "completed",
         transfers'[t].from = transfers[t].from, transfers'[t].to = transfers[t].to,
         transfers'[t].qty = transfers[t].qty,
         \A x \in Transfers : x # t => transfers'[x] = transfers[x]
  PROVE  \A p :
    /\ Brought(p) \in Int /\ Taken(p) \in Int
    /\ Brought(p)' = Brought(p) + (IF transfers[t].to = p THEN transfers[t].qty ELSE 0)
    /\ Taken(p)' = Taken(p) + (IF transfers[t].from = p THEN transfers[t].qty ELSE 0)
<1>2. \A p : /\ Brought(p) = InTo(transfers, p) /\ Brought(p)' = InTo(transfers', p)
             /\ Taken(p) = OutOf(transfers, p) /\ Taken(p)' = OutOf(transfers', p)
  BY DEF Brought, Taken, InTo, OutOf, Completed
<1> SUFFICES ASSUME NEW p
             PROVE  /\ Brought(p) \in Int /\ Taken(p) \in Int
                    /\ Brought(p)' = Brought(p) + (IF transfers[t].to = p THEN transfers[t].qty ELSE 0)
                    /\ Taken(p)' = Taken(p) + (IF transfers[t].from = p THEN transfers[t].qty ELSE 0)
  OBVIOUS
<1>4. /\ InTo(transfers, p) \in Int /\ OutOf(transfers, p) \in Int
      /\ InTo(transfers', p) = InTo(transfers, p)
                                + (IF transfers[t].to = p THEN transfers[t].qty ELSE 0)
      /\ OutOf(transfers', p) = OutOf(transfers, p)
                                 + (IF transfers[t].from = p THEN transfers[t].qty ELSE 0)
  BY OneMore
<1> QED BY <1>2, <1>4

LEMMA MovedType ==
  ASSUME transfers \in [Transfers -> TransferRow], NEW p
  PROVE  Brought(p) \in Int /\ Taken(p) \in Int
<1>1. /\ [t \in Transfers |-> IF Completed(t) /\ transfers[t].to = p THEN transfers[t].qty ELSE 0] \in [Transfers -> Int]
      /\ [t \in Transfers |-> IF Completed(t) /\ transfers[t].from = p THEN transfers[t].qty ELSE 0] \in [Transfers -> Int]
  BY DEF TransferRow
<1> QED BY <1>1, TotalType DEF Brought, Taken

(* A reservation is made: what it asks for is promised.                    *)
AskedOf(f, p) ==
  SumFunction([y \in Reservations |->
                 IF f[y].status = "active" /\ f[y].loc = p THEN f[y].qty ELSE 0])

LEMMA PromisedMore ==
  ASSUME NEW f \in [Reservations -> ReservationRow], NEW g, NEW r \in Reservations,
         f[r].status = "absent", NEW p, NEW q \in Nat,
         g[r].status = "active", g[r].loc = p, g[r].qty = q,
         \A y \in Reservations : y # r => g[y] = f[y]
  PROVE  \A x : AskedOf(f, x) \in Int /\ AskedOf(g, x) = AskedOf(f, x) + (IF x = p THEN q ELSE 0)
<1>2. \A y \in Reservations : f[y].qty \in Nat /\ g[y].qty \in Nat
  BY DEF ReservationRow
<1> SUFFICES ASSUME NEW x
             PROVE  AskedOf(f, x) \in Int /\ AskedOf(g, x) = AskedOf(f, x) + (IF x = p THEN q ELSE 0)
  OBVIOUS
<1> DEFINE a == [y \in Reservations |-> IF f[y].status = "active" /\ f[y].loc = x THEN f[y].qty ELSE 0]
           b == [y \in Reservations |-> IF g[y].status = "active" /\ g[y].loc = x THEN g[y].qty ELSE 0]
           d == IF x = p THEN q ELSE 0
<1>3. /\ a \in [Reservations -> Int] /\ b \in [Reservations -> Int] /\ d \in Int
      /\ b[r] = a[r] + d /\ \A y \in Reservations : y # r => b[y] = a[y]
  BY <1>2
<1> HIDE DEF a, b, d
<1>4. SumFunction(a) \in Int /\ SumFunction(b) = SumFunction(a) + d
  BY <1>3, TotalAdds
<1> QED BY <1>4 DEF AskedOf, a, b, d

LEMMA SerialCommit ==
  ASSUME TypeInv, TypeInv', ReadApproved, RowInv, SerialInv, NEW c \in Clients, Commit(c)
  PROVE  StockPlaced' /\ ReservedMatches' /\ Undisturbed(c)'
<1> DEFINE k == call[c]
<1>0. /\ UnusedEmpty(levels) /\ levels \in [Levels -> LevelRow] /\ levels' \in [Levels -> LevelRow]
      /\ transfers \in [Transfers -> TransferRow]
      /\ reservations \in [Reservations -> ReservationRow] /\ adjusted \in [Locations -> Int]
      /\ Undisturbed(c) /\ k \in Handler /\ HoldsItsRows(k)
  BY DEF TypeInv, TypeOK, RowInv, SerialInv
<1>1. \A p \in Locations : /\ HandAt(levels, p) = adjusted[p] + Brought(p) - Taken(p)
                           /\ HeldAt(levels, p) = Promised(p)
  BY DEF SerialInv, StockPlaced, ReservedMatches, OnHand, Reserved, HandAt, HeldAt
<1>2. ASSUME \A p \in Locations : HandAt(levels', p) = adjusted'[p] + Brought(p)' - Taken(p)'
      PROVE  StockPlaced'
  BY <1>2 DEF StockPlaced, OnHand, HandAt
<1>3. ASSUME \A p \in Locations : HeldAt(levels', p) = Promised(p)'
      PROVE  ReservedMatches'
  BY <1>3 DEF ReservedMatches, Reserved, HeldAt
<1>4. Return(c) => Undisturbed(c)'
  BY ReturnEffect, IdleUndisturbed
<1>5. UNCHANGED transfers => \A p : Brought(p)' = Brought(p) /\ Taken(p)' = Taken(p)
  BY NoneCompleted
<1>6. UNCHANGED reservations => \A p : Promised(p)' = Promised(p)
  BY DEF Promised, ActiveAt
<1>7. \A p \in Locations : /\ HandAt(levels, p) \in Int /\ HeldAt(levels, p) \in Int
                           /\ Brought(p) \in Int /\ Taken(p) \in Int /\ adjusted[p] \in Int
  BY <1>0, HandType, MovedType
<1>8. CASE CreateTransfer(c)
  <2>1. PICK t \in Transfers, p, d \in Locations, q \in Quantities :
          /\ transfers[t].status = "absent"
          /\ transfers' = [transfers EXCEPT ![t] =
                             [status |-> "pending", from |-> p, to |-> d, qty |-> q]]
    BY <1>8 DEF CreateTransfer
  <2>2. \A x \in Transfers : Completed(x) \/ Completed(x)' => transfers'[x] = transfers[x]
    BY <1>0, <2>1 DEF Completed
  <2>3. \A x : Brought(x)' = Brought(x) /\ Taken(x)' = Taken(x)
    BY <2>2, NoneCompleted
  <2>4. UNCHANGED <<levels, reservations, adjusted>> /\ call'[c].op = "idle"
    BY <1>8 DEF CreateTransfer
  <2> QED BY <1>1, <1>2, <1>3, <1>6, <2>3, <2>4, IdleUndisturbed
<1>9. CASE ApproveWrite(c)
  <2>1. k.row \in Transfers /\ transfers[k.row].status = "pending"
        /\ transfers' = [transfers EXCEPT ![k.row].status = "approved"]
    BY <1>0, <1>9 DEF ApproveWrite, HoldsItsRows, Undisturbed
  <2>2. \A x \in Transfers : Completed(x) \/ Completed(x)' => transfers'[x] = transfers[x]
    BY <1>0, <2>1 DEF Completed, TransferRow
  <2>3. \A p : Brought(p)' = Brought(p) /\ Taken(p)' = Taken(p)
    BY <2>2, NoneCompleted
  <2> QED BY <1>1, <1>2, <1>3, <1>4, <1>6, <1>9, <2>3 DEF ApproveWrite
<1>10. CASE AdjustCommit(c)
  <2>1. PICK l \in Levels : AddsTo(levels, levels', l, k.loc, k.qty, 0)
    BY <1>10, AdjustAdds
  <2>2. k.loc \in Locations /\ k.qty \in Int
    BY <1>10, AdjustAdds
  <2>3. adjusted' = [adjusted EXCEPT ![k.loc] = adjusted[k.loc] + k.qty]
        /\ UNCHANGED <<reservations, transfers>> /\ Return(c)
    BY <1>10 DEF AdjustCommit
  <2>4. \A q \in Locations : /\ HandAt(levels', q) = HandAt(levels, q) + (IF q = k.loc THEN k.qty ELSE 0)
                             /\ HeldAt(levels', q) = HeldAt(levels, q) + (IF q = k.loc THEN 0 ELSE 0)
    <3> HIDE DEF k
    <3> QED BY <1>0, <2>1, <2>2, AddsToEffect
  <2> HIDE DEF k
  <2>5. ASSUME NEW p \in Locations PROVE HandAt(levels', p) = adjusted'[p] + Brought(p)' - Taken(p)'
    <3>1. adjusted'[p] = IF p = k.loc THEN adjusted[p] + k.qty ELSE adjusted[p]
      BY <1>0, <2>2, <2>3
    <3>2. Brought(p)' = Brought(p) /\ Taken(p)' = Taken(p)
      BY <1>5, <2>3
    <3> QED BY <1>1, <1>7, <2>2, <2>4, <3>1, <3>2
  <2>6. ASSUME NEW p \in Locations PROVE HeldAt(levels', p) = Promised(p)'
    BY <1>1, <1>6, <1>7, <2>3, <2>4
  <2> QED BY <1>2, <1>3, <1>4, <2>3, <2>5, <2>6
<1>11. CASE ReserveCommit(c)
  <2>1. PICK l \in Levels : AddsTo(levels, levels', l, k.loc, 0, k.qty)
    BY <1>11, ReserveAdds
  <2>2. k.loc \in Locations /\ k.qty \in Nat
    BY <1>11, ReserveAdds
  <2>3. /\ reservations' = [reservations EXCEPT ![k.row] =
                [status |-> "active", loc |-> k.loc, order |-> k.order, qty |-> k.qty]]
        /\ UNCHANGED <<adjusted, transfers>> /\ Return(c)
        /\ k.row \in Reservations /\ reservations[k.row].status = "absent"
    BY <1>0, <1>11 DEF ReserveCommit, HoldsItsRows, Undisturbed
  <2>4. \A q \in Locations : /\ HandAt(levels', q) = HandAt(levels, q) + (IF q = k.loc THEN 0 ELSE 0)
                             /\ HeldAt(levels', q) = HeldAt(levels, q) + (IF q = k.loc THEN k.qty ELSE 0)
    <3> HIDE DEF k
    <3> QED BY <1>0, <2>1, <2>2, AddsToEffect
  <2>5. \A q : /\ Promised(q) \in Int
               /\ Promised(q)' = Promised(q) + (IF q = k.loc THEN k.qty ELSE 0)
    <3> HIDE DEF k
    <3>1. \A q : /\ AskedOf(reservations, q) \in Int
                 /\ AskedOf(reservations', q) = AskedOf(reservations, q) + (IF q = k.loc THEN k.qty ELSE 0)
      <4>1. /\ reservations'[k.row].status = "active" /\ reservations'[k.row].loc = k.loc
            /\ reservations'[k.row].qty = k.qty
            /\ \A y \in Reservations : y # k.row => reservations'[y] = reservations[y]
        BY <1>0, <2>3
      <4>2. k.row \in Reservations /\ reservations[k.row].status = "absent"
        BY <2>3
      <4> QED BY <1>0, <2>2, <4>1, <4>2, PromisedMore
    <3> QED BY <3>1 DEF Promised, ActiveAt, AskedOf
  <2> HIDE DEF k
  <2>6. ASSUME NEW p \in Locations PROVE HandAt(levels', p) = adjusted'[p] + Brought(p)' - Taken(p)'
    BY <1>1, <1>5, <1>7, <2>3, <2>4
  <2>7. ASSUME NEW p \in Locations PROVE HeldAt(levels', p) = Promised(p)'
    BY <1>1, <2>4, <2>5
  <2> QED BY <1>2, <1>3, <1>4, <2>3, <2>6, <2>7
<1>12. CASE CompleteCommit(c)
  <2> DEFINE t == transfers[k.row]
             left == Decremented(k.level, t.qty)
  <2>1. /\ k.row \in Transfers /\ t.qty \in Nat
        /\ t.from \in Locations /\ t.to \in Locations
        /\ k.level \in Levels /\ left \in [Levels -> LevelRow]
        /\ AddsTo(levels, left, k.level, t.from, -t.qty, 0)
        /\ \E l \in Levels : AddsTo(left, levels', l, t.to, t.qty, 0)
    BY <1>12, CompleteAdds
  <2>2. PICK l \in Levels : AddsTo(left, levels', l, t.to, t.qty, 0)
    BY <2>1
  <2>3. /\ transfers' = [transfers EXCEPT ![k.row].status = "completed"] /\ ~Completed(k.row)
        /\ UNCHANGED <<adjusted, reservations>> /\ Return(c)
    BY <1>0, <1>12 DEF CompleteCommit, Undisturbed, Moving, Completed
  <2>4. \A p :
    /\ Brought(p) \in Int /\ Taken(p) \in Int
    /\ Brought(p)' = Brought(p) + (IF t.to = p THEN t.qty ELSE 0)
    /\ Taken(p)' = Taken(p) + (IF t.from = p THEN t.qty ELSE 0)
    <3>1. \A x \in Transfers : x # k.row => transfers'[x] = transfers[x]
      BY <1>0, <2>1, <2>3
    <3>2. /\ transfers'[k.row].status = "completed" /\ transfers'[k.row].from = t.from
          /\ transfers'[k.row].to = t.to /\ transfers'[k.row].qty = t.qty
      BY <1>0, <2>1, <2>3 DEF TransferRow
    <3>3. transfers' \in [Transfers -> TransferRow]
      BY DEF TypeInv, TypeOK
    <3>4. transfers[k.row].status # "completed"
      BY <2>3 DEF Completed
    <3> HIDE DEF k
    <3> QED BY <1>0, <2>1, <3>1, <3>2, <3>3, <3>4, OneCompleted
  <2> HIDE DEF k, t, left
  <2>5. /\ UnusedEmpty(left)
        /\ \A q \in Locations : /\ HandAt(left, q) = HandAt(levels, q) + (IF q = t.from THEN -t.qty ELSE 0)
                               /\ HeldAt(left, q) = HeldAt(levels, q) + (IF q = t.from THEN 0 ELSE 0)
    BY <1>0, <2>1, AddsToEffect
  <2>6. \A q \in Locations : /\ HandAt(levels', q) = HandAt(left, q) + (IF q = t.to THEN t.qty ELSE 0)
                             /\ HeldAt(levels', q) = HeldAt(left, q) + (IF q = t.to THEN 0 ELSE 0)
    BY <1>0, <2>1, <2>2, <2>5, AddsToEffect
  <2>7. ASSUME NEW p \in Locations PROVE HandAt(levels', p) = adjusted'[p] + Brought(p)' - Taken(p)'
    <3> DEFINE n == t.qty
    <3>1. n \in Nat
      BY <2>1
    <3>2. HandAt(levels', p) = HandAt(levels, p) + (IF p = t.from THEN -n ELSE 0)
                                                 + (IF p = t.to THEN n ELSE 0)
      BY <2>5, <2>6
    <3>3. HandAt(levels, p) = adjusted[p] + Brought(p) - Taken(p) /\ adjusted'[p] = adjusted[p]
      BY <1>1, <2>3
    <3>4. /\ Brought(p)' = Brought(p) + (IF p = t.to THEN n ELSE 0)
          /\ Taken(p)' = Taken(p) + (IF p = t.from THEN n ELSE 0)
          /\ Brought(p) \in Int /\ Taken(p) \in Int /\ adjusted[p] \in Int
      BY <1>7, <2>4
    <3> HIDE DEF n
    <3>5. CASE p = t.from
      BY <3>1, <3>2, <3>3, <3>4, <3>5
    <3>6. CASE p # t.from
      BY <3>1, <3>2, <3>3, <3>4, <3>6
    <3> QED BY <3>5, <3>6
  <2>8. ASSUME NEW p \in Locations PROVE HeldAt(levels', p) = Promised(p)'
    BY <1>1, <1>6, <1>7, <2>3, <2>5, <2>6
  <2> QED BY <1>2, <1>3, <1>4, <2>3, <2>7, <2>8
<1>13. CASE ReleaseCommit(c)
  <2>1. k.op = "releasing" /\ UNCHANGED <<transfers, adjusted>> /\ Return(c) /\ ReleaseHolds(k)
    BY <1>0, <1>13 DEF ReleaseCommit, Undisturbed
  <2>2. levels' = Buffered(k)
    BY <1>13 DEF ReleaseCommit, Buffered
  <2>3. \A p \in Locations : HandAt(levels', p) = HandAt(levels, p)
    BY <1>13, ReleaseAdds
  <2>4. \A r \in Reservations :
          reservations'[r] = IF r \in k.done THEN [reservations[r] EXCEPT !.status = "released"]
                                             ELSE reservations[r]
    BY <1>13 DEF ReleaseCommit
  <2>5. \A r \in Reservations : /\ reservations'[r].loc = reservations[r].loc
                                /\ reservations'[r].qty = reservations[r].qty
                                /\ reservations'[r].status = IF r \in k.done THEN "released"
                                                             ELSE reservations[r].status
    <3> HIDE DEF k
    <3> QED BY <1>0, <2>4 DEF ReservationRow
  <2>6. \A p : Promised(p)' = PromisedBut(k.done, p)
    <3>1. \A p : \A r \in Reservations :
            (IF reservations'[r].status = "active" /\ reservations'[r].loc = p THEN reservations'[r].qty ELSE 0)
              = (IF ActiveAt(r, p) /\ r \notin k.done THEN reservations[r].qty ELSE 0)
      BY <2>5 DEF ActiveAt
    <3>2. \A p : [r \in Reservations |->
              IF reservations'[r].status = "active" /\ reservations'[r].loc = p THEN reservations'[r].qty ELSE 0]
            = [r \in Reservations |-> IF ActiveAt(r, p) /\ r \notin k.done THEN reservations[r].qty ELSE 0]
      BY <3>1
    <3> HIDE DEF k
    <3> QED BY <3>2 DEF Promised, PromisedBut, ActiveAt
  <2>7. ASSUME NEW p \in Locations PROVE HandAt(levels', p) = adjusted'[p] + Brought(p)' - Taken(p)'
    BY <1>1, <1>5, <2>1, <2>3
  <2>8. ASSUME NEW p \in Locations PROVE HeldAt(levels', p) = Promised(p)'
    BY <2>1, <2>2, <2>6 DEF ReleaseHolds
  <2> QED BY <1>2, <1>3, <1>4, <2>1, <2>7, <2>8
<1> QED BY <1>8, <1>9, <1>10, <1>11, <1>12, <1>13 DEF Commit

LEMMA SerialStep ==
  ASSUME OneClient, TypeInv, TypeInv', ReadApproved, RowInv, SerialInv, NEW c \in Clients, Step(c)
  PROVE  SerialInv'
<1>1. \A d \in Clients : d = c
  BY DEF OneClient
<1>2. OneRowPerLocation'
  BY OneRowStep DEF SerialInv, Undisturbed
<1>3. CASE Commit(c)
  BY <1>1, <1>2, <1>3, SerialCommit DEF SerialInv
<1>4. CASE Lookup(c)
  <2>1. UNCHANGED tables
    BY <1>4, LookupFound
  <2>2. Abort(c) => Undisturbed(c)'
    BY ReturnEffect, IdleUndisturbed DEF Abort
  <2>3. Undisturbed(c)'
    BY <1>4, <2>2, SerialRequest, SerialTransferReads, SerialReleaseReads DEF Lookup
  <2> QED BY <1>1, <2>1, <2>3, TablesSame DEF SerialInv
<1> QED BY <1>3, <1>4 DEF Step, Request, Run, Lookup, Commit

LEMMA SerialInvariant ==
  ASSUME OneClient
  PROVE  Spec => []SerialInv
<1>1. Init => SerialInv
  <2> SUFFICES ASSUME Init PROVE SerialInv
    OBVIOUS
  <2>1. \A c \in Clients : Undisturbed(c)
    BY IdleTyped DEF Init, Undisturbed, NoneFound, Moving
  <2>2. OneRowPerLocation
    BY DEF Init, NoLevel, OneRowPerLocation
  <2>3. StockPlaced
    <3> SUFFICES ASSUME NEW p \in Locations PROVE OnHand(p) = adjusted[p] + Brought(p) - Taken(p)
      BY DEF StockPlaced
    <3> DEFINE a == [l \in Levels |-> IF levels[l].loc = p THEN levels[l].onHand ELSE 0]
               b == [t \in Transfers |-> IF Completed(t) /\ transfers[t].to = p THEN transfers[t].qty ELSE 0]
               d == [t \in Transfers |-> IF Completed(t) /\ transfers[t].from = p THEN transfers[t].qty ELSE 0]
    <3>1. /\ a \in [Levels -> Int] /\ b \in [Transfers -> Int] /\ d \in [Transfers -> Int]
          /\ (\A l \in Levels : a[l] = 0) /\ \A t \in Transfers : b[t] = 0 /\ d[t] = 0
      BY DEF Init, NoLevel, NoTransfer, Completed
    <3>2. SumFunction(a) = 0 /\ SumFunction(b) = 0 /\ SumFunction(d) = 0
      <4> HIDE DEF a, b, d
      <4> QED BY <3>1, TotalZero
    <3>3. adjusted[p] = 0
      BY DEF Init
    <3> QED BY <3>2, <3>3 DEF OnHand, Brought, Taken
  <2>4. ReservedMatches
    <3> SUFFICES ASSUME NEW p \in Locations PROVE Reserved(p) = Promised(p)
      BY DEF ReservedMatches
    <3> DEFINE a == [l \in Levels |-> IF levels[l].loc = p THEN levels[l].reserved ELSE 0]
               b == [r \in Reservations |-> IF ActiveAt(r, p) THEN reservations[r].qty ELSE 0]
    <3>1. /\ a \in [Levels -> Int] /\ b \in [Reservations -> Int]
          /\ (\A l \in Levels : a[l] = 0) /\ \A r \in Reservations : b[r] = 0
      BY DEF Init, NoLevel, NoReservation, ActiveAt
    <3>2. SumFunction(a) = 0 /\ SumFunction(b) = 0
      <4> HIDE DEF a, b
      <4> QED BY <3>1, TotalZero
    <3> QED BY <3>2 DEF Reserved, Promised
  <2> QED BY <2>1, <2>2, <2>3, <2>4 DEF SerialInv
<1>2. TypeInv /\ TypeInv' /\ ReadApproved /\ RowInv /\ SerialInv /\ [Next]_vars => SerialInv'
  <2> SUFFICES ASSUME TypeInv, TypeInv', ReadApproved, RowInv, SerialInv, [Next]_vars
               PROVE  SerialInv'
    OBVIOUS
  <2>1. CASE UNCHANGED vars
    <3>1. UNCHANGED tables /\ UNCHANGED call
      BY <2>1 DEF vars, tables
    <3>2. \A c \in Clients : Undisturbed(c)'
      <4> SUFFICES ASSUME NEW c \in Clients PROVE Undisturbed(c)'
        OBVIOUS
      <4>1. Undisturbed(c) /\ call'[c] = call[c]
        BY <3>1 DEF SerialInv
      <4>2. CASE call[c].op = "releasing"
        BY <3>1, <4>1, <4>2, ReleaseGoesOn DEF Undisturbed
      <4>3. CASE call[c].op # "releasing"
        BY <3>1, <4>1, <4>3 DEF Undisturbed, NoneFound, Moving, Available, Fresh, tables
      <4> QED BY <4>2, <4>3
    <3> QED BY <3>1, <3>2, TablesSame DEF SerialInv
  <2>2. CASE Next
    BY <2>2, SerialStep DEF Next, Step
  <2> QED BY <2>1, <2>2
<1> QED BY <1>1, <1>2, Typed, ApprovedInv, StockInv, PTL DEF Spec

(* The unique index of stock_levels, and the look before the insert: where *)
(* the product has a variant any number of clients leaves a location with  *)
(* one row, where it has none one client does.                             *)
THEOREM OneRow ==
  ASSUME ~VariantNull \/ OneClient
  PROVE  Spec => []OneRowPerLocation
<1>1. CASE ~VariantNull
  BY <1>1, IndexHolds
<1>2. CASE OneClient
  <2>1. SerialInv => OneRowPerLocation
    BY DEF SerialInv
  <2> QED BY <1>2, <2>1, SerialInvariant, PTL
<1> QED BY <1>1, <1>2

(* completeStockTransfer: with one client a location holds its adjustments *)
(* plus what completed transfers brought, less what they took.             *)
THEOREM TransfersMoveStock ==
  ASSUME OneClient
  PROVE  Spec => []StockPlaced
BY SerialInvariant, PTL DEF SerialInv

(* createStockReservation and releaseStockReservations: with one client    *)
(* reserved is the quantity of the active reservations, however releases   *)
(* of several reservations share a level row.                              *)
THEOREM ReservedIsPromised ==
  ASSUME OneClient
  PROVE  Spec => []ReservedMatches
BY SerialInvariant, PTL DEF SerialInv

(* completeStockTransfer: with one client the availability check holds     *)
(* when the stock is taken.                                                *)
THEOREM TransferLeavesReserved ==
  ASSUME OneClient
  PROVE  Spec => TransferWithinAvailable
<1> DEFINE Leaves ==
      \A t \in Transfers :
         transfers[t].status # "completed" /\ transfers'[t].status = "completed"
         => \A l \in Levels :
              levels'[l].onHand < levels[l].onHand => levels'[l].onHand >= levels'[l].reserved
<1>1. TypeInv /\ ReadApproved /\ RowInv /\ SerialInv /\ [Next]_vars =>
        [\A t \in Transfers :
           /\ transfers[t].status # "completed"
           /\ transfers'[t].status = "completed"
           => \A l \in Levels :
                levels'[l].onHand < levels[l].onHand => levels'[l].onHand >= levels'[l].reserved]_vars
  <2> SUFFICES ASSUME TypeInv, ReadApproved, RowInv, SerialInv, NEW c \in Clients, Step(c)
               PROVE  Leaves
    BY DEF Next, Step
  <2>1. CASE CompleteCommit(c)
    <3> DEFINE k == call[c]
               t == transfers[k.row]
               left == Decremented(k.level, t.qty)
    <3>1. /\ t.qty \in Nat /\ k.level \in Levels /\ left \in [Levels -> LevelRow]
          /\ AddsTo(levels, left, k.level, t.from, -t.qty, 0)
          /\ \E l \in Levels : AddsTo(left, levels', l, t.to, t.qty, 0)
      BY <2>1, CompleteAdds
    <3>2. PICK m \in Levels : AddsTo(left, levels', m, t.to, t.qty, 0)
      BY <3>1
    <3>3. Available(k.level) >= t.qty
      BY <2>1 DEF CompleteCommit, SerialInv, Undisturbed
    <3>4. levels \in [Levels -> LevelRow]
      BY DEF TypeInv, TypeOK
    <3> HIDE DEF k, t, left
    <3>5. \A l \in Levels :
            /\ levels[l].onHand \in Int /\ levels[l].reserved \in Int
            /\ left[l].onHand = levels[l].onHand + (IF l = k.level THEN -t.qty ELSE 0)
            /\ left[l].reserved = levels[l].reserved
      BY <3>1, <3>4 DEF AddsTo, LevelRow
    <3>6. \A l \in Levels :
            /\ levels'[l].onHand = left[l].onHand + (IF l = m THEN t.qty ELSE 0)
            /\ levels'[l].reserved = left[l].reserved
      BY <3>1, <3>2, <3>5 DEF AddsTo, LevelRow
    <3>7. ASSUME NEW l \in Levels, levels'[l].onHand < levels[l].onHand
          PROVE  levels'[l].onHand >= levels'[l].reserved
      <4>1. l = k.level /\ levels'[l].onHand = levels[l].onHand - t.qty
        BY <3>1, <3>5, <3>6, <3>7
      <4>2. levels'[l].reserved = levels[l].reserved
        BY <3>5, <3>6
      <4> QED BY <3>1, <3>3, <3>5, <4>1, <4>2 DEF Available
    <3> QED BY <3>7
  <2>2. CASE ~CompleteCommit(c)
    <3>1. Lookup(c) => UNCHANGED transfers
      BY LookupFound DEF tables
    <3>2. AdjustCommit(c) \/ ReserveCommit(c) \/ ReleaseCommit(c) => UNCHANGED transfers
      BY DEF AdjustCommit, ReserveCommit, ReleaseCommit
    <3>3. CreateTransfer(c) \/ ApproveWrite(c) => UNCHANGED levels
      BY DEF CreateTransfer, ApproveWrite
    <3>4. levels \in [Levels -> LevelRow]
      BY DEF TypeInv, TypeOK
    <3>5. CASE UNCHANGED transfers
      BY <3>5
    <3>6. CASE UNCHANGED levels
      <4>1. \A l \in Levels : levels[l].onHand \in Int
        BY <3>4 DEF LevelRow
      <4> QED BY <3>6, <4>1
    <3> QED BY <2>2, <3>1, <3>2, <3>3, <3>5, <3>6 DEF Step, Request, Run, Lookup
  <2> QED BY <2>1, <2>2
<1> QED BY <1>1, Typed, ApprovedInv, StockInv, SerialInvariant, PTL DEF Spec, TransferWithinAvailable
=============================================================================
