----------------------------- MODULE CreditProofs -----------------------------
(***************************************************************************)
(* Theorems about Credit, for any number of resellers, accounts, orders,   *)
(* repayments and amounts.  Types, payments that never exceed what was     *)
(* allocated and repayments that are accounted for hold for any number of  *)
(* overlapping requests; the balance of a reseller's credit, the limit,    *)
(* the order of payment and orders never overpaid hold when one request is *)
(* served at a time (OneClient): overlapping ones lose updates.  Sums run over all rows with a term of 0 *)
(* for those that do not count, so that a step changes one term.           *)
(***************************************************************************)
EXTENDS Credit, SumTheorems

USE AmountsAssumption, BoundAssumption, NoneAssumption

(* What a handler holds depends on where it is: the account row it found   *)
(* and the reseller it works for exist.                                    *)
HoldsItsRows(k) ==
  /\ k.op \notin {"idle", "refresh"} => k.reseller \in Resellers
  /\ k.op \in {"reserve", "release", "repay", "allocate"} => k.account \in Accounts
  /\ k.op \in {"repay", "allocate"} => k.remaining <= k.amount

WellFormed == {k \in Handler : HoldsItsRows(k)}

TypeInv == TypeOK /\ call \in [Clients -> WellFormed]

LEMMA NothingTyped == Nothing \in Allocation
BY DEF Nothing, Allocation

LEMMA IdleTyped == Idle \in WellFormed /\ Idle.op = "idle" /\ Idle.applied = Nothing
BY NothingTyped DEF Idle, WellFormed, Handler, HoldsItsRows, Ops

LEMMA SubtractTyped ==
  ASSUME NEW m \in Nat, NEW n \in Nat
  PROVE  Subtract(m, n) \in Nat
BY DEF Subtract

(* Any step that puts a well-formed handler in place of one keeps the      *)
(* handlers' types.                                                        *)
LEMMA GotoTyped ==
  ASSUME TypeInv, NEW c \in Clients, NEW k \in WellFormed, Goto(c, k)
  PROVE  /\ call' \in [Clients -> WellFormed] /\ call' \in [Clients -> Handler]
         /\ call'[c] = k /\ \A d \in Clients \ {c} : call'[d] = call[d]
BY DEF TypeInv, TypeOK, Goto, WellFormed

LEMMA ReturnTyped ==
  ASSUME TypeInv, NEW c \in Clients, Return(c)
  PROVE  /\ call' \in [Clients -> WellFormed] /\ call' \in [Clients -> Handler]
         /\ call'[c] = Idle /\ \A d \in Clients \ {c} : call'[d] = call[d]
BY GotoTyped, IdleTyped DEF Return

LEMMA InitTyped == Init => TypeInv
<1> SUFFICES ASSUME Init PROVE TypeInv OBVIOUS
<1>1. NoAccount \in AccountRow BY DEF NoAccount, AccountRow
<1>2. NoOrder \in OrderRow BY DEF NoOrder, OrderRow
<1>3. NoRepayment \in RepaymentRow BY NothingTyped DEF NoRepayment, RepaymentRow
<1>4. call \in [Clients -> WellFormed] /\ call \in [Clients -> Handler]
  BY IdleTyped DEF Init, WellFormed
<1>5. QED BY <1>1, <1>2, <1>3, <1>4 DEF Init, TypeInv, TypeOK

-----------------------------------------------------------------------------
(* Writes to one row keep the tables typed.                                *)
LEMMA AccountTyped ==
  ASSUME TypeOK, NEW a \in Accounts
  PROVE  /\ accounts[a].used \in Nat /\ accounts[a].limit \in Nat
         /\ accounts[a].reseller \in Resellers \cup {None}
         /\ \A n \in Nat : [accounts EXCEPT ![a].used = n] \in [Accounts -> AccountRow]
         /\ \A n \in Nat : [accounts EXCEPT ![a].limit = n] \in [Accounts -> AccountRow]
         /\ \A r \in Resellers, n \in Nat :
              [accounts EXCEPT ![a] = [reseller |-> r, limit |-> n, used |-> 0]]
                \in [Accounts -> AccountRow]
<1>1. accounts[a] \in AccountRow BY DEF TypeOK
<1>2. \A n \in Nat : [accounts[a] EXCEPT !.used = n] \in AccountRow BY <1>1 DEF AccountRow
<1>3. \A n \in Nat : [accounts[a] EXCEPT !.limit = n] \in AccountRow BY <1>1 DEF AccountRow
<1>4. \A r \in Resellers, n \in Nat : [reseller |-> r, limit |-> n, used |-> 0] \in AccountRow
  BY DEF AccountRow
<1>5. /\ accounts[a].used \in Nat /\ accounts[a].limit \in Nat
      /\ accounts[a].reseller \in Resellers \cup {None}
  BY <1>1 DEF AccountRow
<1>6. QED BY <1>2, <1>3, <1>4, <1>5 DEF TypeOK

LEMMA InsertAccountTyped ==
  ASSUME TypeOK, NEW r \in Resellers, NEW n \in Nat, InsertAccount(r, n)
  PROVE  accounts' \in [Accounts -> AccountRow]
BY AccountTyped DEF InsertAccount

LEMMA InsertOrderTyped ==
  ASSUME TypeOK, NEW r \in Resellers, NEW n \in Nat, InsertOrder(r, n)
  PROVE  orders' \in [OrderIds -> OrderRow]
<1>1. [status |-> "pending", reseller |-> r, total |-> n, paid |-> 0] \in OrderRow
  BY DEF OrderRow
<1>2. QED BY <1>1 DEF InsertOrder, TypeOK

LEMMA OrderTyped ==
  ASSUME TypeOK, NEW o \in OrderIds
  PROVE  /\ orders[o].total \in Nat /\ orders[o].paid \in Nat
         /\ \A n \in Nat : [orders[o] EXCEPT !.paid = n] \in OrderRow
         /\ \A s \in {"pending", "fulfilled", "cancelled"} : [orders[o] EXCEPT !.status = s] \in OrderRow
<1>1. orders[o] \in OrderRow BY DEF TypeOK
<1>2. QED BY <1>1 DEF OrderRow

(* The loop visits the oldest order left: a set of orders that is not      *)
(* empty has a first one.                                                  *)
LEMMA FirstIsOldest ==
  ASSUME NEW S \in SUBSET OrderIds, S # {}
  PROVE  First(S) \in S /\ \A p \in S : First(S) <= p
<1> DEFINE R == OpToRel(<, Nat)
<1>1. IsWellFoundedOn(R, Nat) BY NatLessThanWellFounded
<1>2. S \subseteq Nat BY DEF OrderIds
<1> HIDE DEF R
<1>3. PICK x \in S : \A y \in S : ~(<<y, x>> \in R) BY <1>1, <1>2, WFMin
<1> USE DEF R
<1>4. \A y \in S : ~(y < x) BY <1>2, <1>3 DEF OpToRel
<1>5. \A y \in S : x <= y BY <1>2, <1>4
<1>6. QED BY <1>5 DEF First

LEMMA ShareTyped ==
  ASSUME TypeOK, NEW k \in Handler, NEW o \in OrderIds
  PROVE  /\ Share(k, o) \in Nat /\ Share(k, o) <= k.remaining
         /\ Share(k, o) > 0 => k.paid[o] + Share(k, o) <= orders[o].total
<1>1. k.paid[o] \in Nat /\ k.remaining \in Nat BY DEF Handler, Allocation
<1>2. orders[o].total \in Nat BY OrderTyped
<1>3. QED BY <1>1, <1>2 DEF Share

-----------------------------------------------------------------------------
(* What the repayments have allocated to an order, as a sum over all rows. *)
AllocatedTo(o) == [p \in Repayments |-> repayments[p].applied[o]]

LEMMA AllocatedTyped ==
  ASSUME TypeOK, NEW o \in OrderIds
  PROVE  AllocatedTo(o) \in [Repayments -> Nat]
<1>1. \A p \in Repayments : repayments[p].applied[o] \in Nat
  BY DEF TypeOK, RepaymentRow, Allocation
<1> QED BY <1>1 DEF AllocatedTo

LEMMA AllocatedIs ==
  ASSUME TypeOK, NEW o \in OrderIds
  PROVE  Allocated(o) = SumFunction(AllocatedTo(o))
<1>1. DOMAIN AllocatedTo(o) = Repayments
  BY DEF AllocatedTo
<1> QED BY <1>1 DEF Allocated, AllocatedTo, SumOver, SumFunction

LEMMA OneMoreTerm ==
  ASSUME NEW f \in [Repayments -> Nat], NEW g \in [Repayments -> Nat], NEW p \in Repayments,
         f[p] = 0, \A q \in Repayments : q # p => g[q] = f[q]
  PROVE  SumFunction(g) = SumFunction(f) + g[p]
<1>1. f \in [Repayments -> Int] /\ g \in [Repayments -> Int] /\ g[p] = f[p] + g[p] /\ g[p] \in Int
  OBVIOUS
<1> QED BY <1>1, TotalAdds, FiniteAssumption

LEMMA AllocatedIsNat ==
  ASSUME TypeOK, NEW o \in OrderIds
  PROVE  Allocated(o) \in Nat
BY AllocatedTyped, AllocatedIs, FiniteAssumption, TotalType

-----------------------------------------------------------------------------
LEMMA AccountSteps ==
  ASSUME TypeInv, NEW c \in Clients,
         \/ CreateCreditAccount(c) \/ LimitFind(c) \/ LimitWrite(c) \/ ReserveRead(c)
         \/ ReserveCommit(c) \/ ReleaseRead(c) \/ ReleaseCommit(c)
  PROVE  TypeInv'
<1> DEFINE k == call[c]
<1>0. TypeOK /\ k \in WellFormed /\ k \in Handler /\ HoldsItsRows(k)
  BY DEF TypeInv, TypeOK, WellFormed
<1>1. CASE CreateCreditAccount(c)
  BY <1>0, <1>1, InsertAccountTyped DEF CreateCreditAccount, TypeInv, TypeOK
<1>2. CASE LimitFind(c)
  <2>1. PICK r \in Resellers, limit \in Limits :
          \E a \in IF AccountsOf(r) = {} THEN {None} ELSE AccountsOf(r) :
            Goto(c, [Idle EXCEPT !.op = "limit", !.reseller = r, !.limit = limit, !.account = a])
    BY <1>2 DEF LimitFind
  <2>2. PICK a \in Accounts \cup {None} :
          Goto(c, [Idle EXCEPT !.op = "limit", !.reseller = r, !.limit = limit, !.account = a])
    BY <2>1 DEF AccountsOf
  <2> DEFINE n == [Idle EXCEPT !.op = "limit", !.reseller = r, !.limit = limit, !.account = a]
  <2>3. n \in Handler BY IdleTyped DEF Handler, WellFormed, Ops
  <2>4. n.op = "limit" /\ n.reseller = r BY IdleTyped DEF Handler, WellFormed
  <2>5. n \in WellFormed BY <2>3, <2>4 DEF WellFormed, HoldsItsRows
  <2>6. QED BY <1>0, <1>2, <2>2, <2>5, GotoTyped DEF LimitFind, tables, TypeInv, TypeOK
<1>3. CASE LimitWrite(c)
  <2>1. k.reseller \in Resellers /\ k.limit \in Nat /\ k.account \in Accounts \cup {None}
    BY <1>0, <1>3 DEF LimitWrite, HoldsItsRows, Handler
  <2>2. accounts' \in [Accounts -> AccountRow]
    BY <1>0, <1>3, <2>1, InsertAccountTyped, AccountTyped DEF LimitWrite
  <2>3. QED BY <1>0, <1>3, <2>2, ReturnTyped DEF LimitWrite, TypeInv, TypeOK
<1>4. CASE ReserveRead(c)
  <2>1. PICK r \in Resellers, amount \in Amounts, override \in BOOLEAN : \E a \in AccountsOf(r) :
          Goto(c, [Idle EXCEPT !.op = "reserve", !.reseller = r, !.amount = amount,
                               !.override = override, !.account = a, !.seen = accounts[a].used])
    BY <1>4 DEF ReserveRead
  <2>2. PICK a \in Accounts :
          Goto(c, [Idle EXCEPT !.op = "reserve", !.reseller = r, !.amount = amount,
                               !.override = override, !.account = a, !.seen = accounts[a].used])
    BY <2>1 DEF AccountsOf
  <2> DEFINE m == [Idle EXCEPT !.op = "reserve", !.reseller = r, !.amount = amount]
             n == [m EXCEPT !.override = override, !.account = a, !.seen = accounts[a].used]
  <2>3. m \in Handler /\ m.op = "reserve" /\ m.reseller = r
    BY IdleTyped DEF Handler, WellFormed, Ops
  <2>4. n \in Handler /\ n.op = "reserve" /\ n.reseller = r /\ n.account = a
    <3> HIDE DEF m
    <3> QED BY <1>0, <2>3, AccountTyped DEF Handler
  <2>5. n \in WellFormed BY <2>4 DEF WellFormed, HoldsItsRows
  <2>6. Goto(c, n) BY <2>2
  <2>7. QED BY <1>0, <1>4, <2>5, <2>6, GotoTyped DEF ReserveRead, tables, TypeInv, TypeOK
<1>5. CASE ReserveCommit(c)
  <2>1. /\ k.account \in Accounts /\ k.reseller \in Resellers
        /\ k.seen \in Nat /\ k.amount \in Nat /\ k.op = "reserve"
    BY <1>0, <1>5 DEF ReserveCommit, HoldsItsRows, Handler
  <2>2. accounts' \in [Accounts -> AccountRow]
    <3>1. k.seen + k.amount \in Nat BY <2>1
    <3>2. QED BY <1>0, <1>5, <2>1, <3>1, AccountTyped DEF ReserveCommit
  <2> DEFINE n == [k EXCEPT !.op = "order"]
  <2>3. n \in Handler /\ n.op = "order" /\ n.reseller = k.reseller BY <1>0 DEF Handler, Ops
  <2>4. n \in WellFormed BY <2>1, <2>3 DEF WellFormed, HoldsItsRows
  <2>5. QED BY <1>0, <1>5, <2>2, <2>4, GotoTyped DEF ReserveCommit, TypeInv, TypeOK
<1>6. CASE ReleaseRead(c)
  <2>1. PICK a \in Accounts :
          Goto(c, [k EXCEPT !.op = "release", !.account = a, !.seen = accounts[a].used])
    BY <1>6 DEF ReleaseRead, AccountsOf
  <2> DEFINE n == [k EXCEPT !.op = "release", !.account = a, !.seen = accounts[a].used]
  <2>2. n \in Handler BY <1>0, AccountTyped DEF Handler, Ops
  <2>3. /\ n.op = "release" /\ n.account = a /\ n.reseller = k.reseller
        /\ k.reseller \in Resellers
    BY <1>0, <1>6 DEF Handler, ReleaseRead, HoldsItsRows
  <2>4. n \in WellFormed BY <2>2, <2>3 DEF WellFormed, HoldsItsRows
  <2>5. QED BY <1>0, <1>6, <2>1, <2>4, GotoTyped DEF ReleaseRead, tables, TypeInv, TypeOK
<1>7. CASE ReleaseCommit(c)
  <2>1. k.account \in Accounts /\ k.seen \in Nat /\ k.amount \in Nat
    BY <1>0, <1>7 DEF ReleaseCommit, HoldsItsRows, Handler
  <2>2. Subtract(k.seen, k.amount) \in Nat BY <2>1, SubtractTyped
  <2>3. accounts' \in [Accounts -> AccountRow]
    BY <1>0, <1>7, <2>1, <2>2, AccountTyped DEF ReleaseCommit
  <2>4. QED BY <1>0, <1>7, <2>3, ReturnTyped DEF ReleaseCommit, TypeInv, TypeOK
<1>8. QED BY <1>1, <1>2, <1>3, <1>4, <1>5, <1>6, <1>7

LEMMA OrderSteps ==
  ASSUME TypeInv, NEW c \in Clients,
         \/ CreateOrder(c) \/ CreateOrderFails(c) \/ CreateDirectOrder(c)
         \/ CancelOrder(c) \/ FulfillOrder(c) \/ Crash(c)
  PROVE  TypeInv'
<1> DEFINE k == call[c]
<1>0. TypeOK /\ k \in WellFormed /\ k \in Handler /\ HoldsItsRows(k)
  BY DEF TypeInv, TypeOK, WellFormed
<1>1. CASE CreateOrder(c)
  <2>1. k.reseller \in Resellers /\ k.amount \in Nat
    BY <1>0, <1>1 DEF CreateOrder, HoldsItsRows, Handler
  <2>2. orders' \in [OrderIds -> OrderRow]
    BY <1>0, <1>1, <2>1, InsertOrderTyped DEF CreateOrder
  <2>3. QED BY <1>0, <1>1, <2>2, ReturnTyped DEF CreateOrder, TypeInv, TypeOK
<1>2. CASE CreateOrderFails(c)
  <2> DEFINE n == [k EXCEPT !.op = "undo"]
  <2>1. n \in Handler /\ n.op = "undo" /\ n.reseller = k.reseller /\ k.reseller \in Resellers
    BY <1>0, <1>2 DEF Handler, Ops, CreateOrderFails, HoldsItsRows
  <2>2. n \in WellFormed BY <2>1 DEF WellFormed, HoldsItsRows
  <2>3. CASE Return(c)
    BY <1>0, <1>2, <2>3, ReturnTyped DEF CreateOrderFails, tables, TypeInv, TypeOK
  <2>4. CASE Goto(c, n)
    BY <1>0, <1>2, <2>2, <2>4, GotoTyped DEF CreateOrderFails, tables, TypeInv, TypeOK
  <2>5. QED BY <1>2, <2>3, <2>4 DEF CreateOrderFails
<1>3. CASE CreateDirectOrder(c)
  BY <1>0, <1>3, InsertOrderTyped DEF CreateDirectOrder, TypeInv, TypeOK
<1>4. ASSUME NEW s \in {"pending", "fulfilled", "cancelled"}, SetStatus(c, s) PROVE TypeInv'
  <2>1. PICK o \in OrderIds : orders' = [orders EXCEPT ![o].status = s] BY <1>4 DEF SetStatus
  <2>2. [orders[o] EXCEPT !.status = s] \in OrderRow BY <1>0, OrderTyped
  <2>3. orders' \in [OrderIds -> OrderRow] BY <1>0, <2>1, <2>2 DEF TypeOK
  <2>4. QED BY <1>0, <1>4, <2>3 DEF SetStatus, TypeInv, TypeOK
<1>5. CASE Crash(c)
  <2>1. k.op \in Holding => k.reseller \in Resellers
    BY <1>0, <1>5 DEF Crash, HoldsItsRows, Holding
  <2>2. k.amount \in Nat BY <1>0 DEF Handler
  <2>3. lost' \in [Resellers -> Nat] BY <1>0, <1>5, <2>1, <2>2 DEF Crash, TypeOK
  <2>4. QED BY <1>0, <1>5, <2>3, ReturnTyped DEF Crash, tables, TypeInv, TypeOK
<1>6. QED BY <1>1, <1>2, <1>3, <1>4, <1>5 DEF CancelOrder, FulfillOrder

LEMMA RepaySteps ==
  ASSUME TypeInv, NEW c \in Clients,
         RepayRead(c) \/ RepayOrders(c) \/ Allocate(c) \/ RepayCommit(c)
  PROVE  TypeInv'
<1> DEFINE k == call[c]
<1>0. TypeOK /\ k \in WellFormed /\ k \in Handler /\ HoldsItsRows(k)
  BY DEF TypeInv, TypeOK, WellFormed
<1>1. CASE RepayRead(c)
  <2>1. PICK a \in Accounts, amount \in Amounts :
          /\ accounts[a].reseller # None
          /\ Goto(c, [Idle EXCEPT !.op = "repay", !.account = a, !.amount = amount,
                               !.reseller = accounts[a].reseller, !.seen = accounts[a].used,
                               !.remaining = amount])
    BY <1>1 DEF RepayRead
  <2> DEFINE m == [Idle EXCEPT !.op = "repay", !.account = a, !.amount = amount]
             n == [m EXCEPT !.reseller = accounts[a].reseller, !.seen = accounts[a].used,
                            !.remaining = amount]
  <2>2. accounts[a].reseller \in Resellers /\ accounts[a].used \in Nat /\ amount \in Nat
    BY <1>0, <2>1, AccountTyped
  <2>3. m \in Handler /\ m.op = "repay" /\ m.account = a /\ m.amount = amount
    BY IdleTyped DEF Handler, WellFormed, Ops
  <2>4. /\ n \in Handler /\ n.op = "repay" /\ n.account = a /\ n.amount = amount
        /\ n.reseller = accounts[a].reseller /\ n.remaining = amount
    <3> HIDE DEF m
    <3> QED BY <2>2, <2>3 DEF Handler
  <2>5. n \in WellFormed
    <3> HIDE DEF n
    <3> QED BY <2>2, <2>4 DEF WellFormed, HoldsItsRows
  <2>6. Goto(c, n) BY <2>1
  <2>7. QED BY <1>0, <1>1, <2>5, <2>6, GotoTyped DEF RepayRead, tables, TypeInv, TypeOK
<1>2. CASE RepayOrders(c)
  <2> DEFINE todo == OpenOrders(k.reseller)
             paid == [o \in OrderIds |-> orders[o].paid]
             n == [k EXCEPT !.op = "allocate", !.todo = todo, !.paid = paid]
  <2>1. todo \in SUBSET OrderIds /\ paid \in Allocation
    BY <1>0, OrderTyped DEF OpenOrders, Allocation
  <2>2. Goto(c, n) BY <1>2 DEF RepayOrders
  <2>3. /\ n \in Handler /\ n.op = "allocate" /\ n.account = k.account /\ n.amount = k.amount
        /\ n.reseller = k.reseller /\ n.remaining = k.remaining
    <3> HIDE DEF todo, paid
    <3> QED BY <1>0, <2>1 DEF Handler, Ops
  <2>4. n \in WellFormed BY <1>0, <1>2, <2>3 DEF RepayOrders, WellFormed, HoldsItsRows
  <2>5. QED BY <1>0, <1>2, <2>2, <2>4, GotoTyped DEF RepayOrders, tables, TypeInv, TypeOK
<1>3. CASE Allocate(c)
  <2> DEFINE o == First(k.todo)
             share == Share(k, o)
             applied == [k.applied EXCEPT ![o] = share]
             n == [k EXCEPT !.todo = k.todo \ {o}, !.applied = applied,
                            !.remaining = k.remaining - share]
  <2>1. o \in OrderIds BY <1>0, <1>3, FirstIsOldest DEF Allocate, Handler
  <2>2. share \in Nat /\ share <= k.remaining /\ k.remaining \in Nat /\ k.amount \in Nat
    BY <1>0, <2>1, ShareTyped DEF Handler
  <2>3. applied \in Allocation /\ k.remaining - share \in Nat
    BY <1>0, <2>1, <2>2 DEF Handler, Allocation
  <2>4. Goto(c, n) BY <1>3 DEF Allocate
  <2>5. /\ n \in Handler /\ n.op = k.op /\ n.account = k.account /\ n.amount = k.amount
        /\ n.reseller = k.reseller /\ n.remaining = k.remaining - share
    <3> HIDE DEF o, share, applied
    <3> QED BY <1>0, <2>3 DEF Handler
  <2>6. k.remaining - share <= k.amount
    BY <1>0, <1>3, <2>2 DEF Allocate, HoldsItsRows
  <2>7. n \in WellFormed
    <3> HIDE DEF n, share
    <3> QED BY <1>0, <1>3, <2>5, <2>6 DEF Allocate, WellFormed, HoldsItsRows
  <2>8. QED BY <1>0, <1>3, <2>4, <2>7, GotoTyped DEF Allocate, tables, TypeInv, TypeOK
<1>4. CASE RepayCommit(c)
  <2>1. /\ k.account \in Accounts /\ k.seen \in Nat /\ k.amount \in Nat /\ k.remaining \in Nat
        /\ k.remaining <= k.amount /\ k.applied \in Allocation /\ k.paid \in Allocation
    BY <1>0, <1>4 DEF RepayCommit, HoldsItsRows, Handler
  <2>2. NextUsed(k) \in Nat
    <3>1. k.amount - k.remaining \in Nat BY <2>1
    <3>2. QED BY <2>1, <3>1, SubtractTyped DEF NextUsed
  <2>3. accounts' \in [Accounts -> AccountRow]
    BY <1>0, <1>4, <2>1, <2>2, AccountTyped DEF RepayCommit
  <2>4. \A o \in OrderIds : NextPaid(k, o) \in Nat BY <2>1 DEF NextPaid, Allocation
  <2>5. orders' \in [OrderIds -> OrderRow]
    <3>1. \A o \in OrderIds : [orders[o] EXCEPT !.paid = NextPaid(k, o)] \in OrderRow
      BY <1>0, <2>4, OrderTyped
    <3>2. \A o \in OrderIds : orders[o] \in OrderRow BY <1>0 DEF TypeOK
    <3>3. QED BY <1>4, <3>1, <3>2 DEF RepayCommit
  <2>6. repayments' \in [Repayments -> RepaymentRow]
    <3>1. [account |-> k.account, amount |-> k.amount, unapplied |-> Unapplied(k),
           applied |-> k.applied] \in RepaymentRow
      BY <2>1 DEF RepaymentRow, Unapplied
    <3>2. QED BY <1>0, <1>4, <3>1 DEF RepayCommit, TypeOK
  <2>7. QED BY <1>0, <1>4, <2>3, <2>5, <2>6, ReturnTyped DEF RepayCommit, TypeInv, TypeOK
<1>5. QED BY <1>1, <1>2, <1>3, <1>4

LEMMA RefreshSteps ==
  ASSUME TypeInv, NEW c \in Clients, RefreshRead(c) \/ RefreshWrite(c)
  PROVE  TypeInv'
<1> DEFINE k == call[c]
<1>0. TypeOK /\ k \in Handler BY DEF TypeInv, TypeOK
<1>1. CASE RefreshRead(c)
  <2>1. PICK o \in OrderIds :
          Goto(c, [Idle EXCEPT !.op = "refresh", !.todo = {o}, !.seen = Allocated(o)])
    BY <1>1 DEF RefreshRead
  <2>2. PICK sum : sum = Allocated(o)
    OBVIOUS
  <2>3. sum \in Nat BY <1>0, <2>2, AllocatedIsNat
  <2> DEFINE n == [Idle EXCEPT !.op = "refresh", !.todo = {o}, !.seen = sum]
  <2>4. n \in Handler /\ n.op = "refresh" BY <2>3, IdleTyped DEF Handler, WellFormed, Ops
  <2>5. n \in WellFormed BY <2>4 DEF WellFormed, HoldsItsRows
  <2>6. Goto(c, n) BY <2>1, <2>2
  <2> HIDE DEF n
  <2>7. QED BY <1>0, <1>1, <2>5, <2>6, GotoTyped DEF RefreshRead, tables, TypeInv, TypeOK
<1>2. CASE RefreshWrite(c)
  <2>1. \A o \in OrderIds : [orders[o] EXCEPT !.paid = k.seen] \in OrderRow /\ orders[o] \in OrderRow
    BY <1>0, OrderTyped DEF Handler, TypeOK
  <2>2. orders' \in [OrderIds -> OrderRow] BY <1>2, <2>1 DEF RefreshWrite
  <2>3. QED BY <1>0, <1>2, <2>2, ReturnTyped DEF RefreshWrite, TypeInv, TypeOK
<1>3. QED BY <1>1, <1>2

(* No amount is ever negative and every handler holds rows that exist,     *)
(* whatever requests overlap.                                              *)
THEOREM Typed == Spec => []TypeInv
<1>1. TypeInv /\ [Next]_vars => TypeInv'
  <2> SUFFICES ASSUME TypeInv, [Next]_vars PROVE TypeInv' OBVIOUS
  <2>1. CASE UNCHANGED vars BY <2>1 DEF vars, tables, TypeInv, TypeOK
  <2>2. CASE Next BY <2>2, AccountSteps, OrderSteps, RepaySteps, RefreshSteps DEF Next
  <2>3. QED BY <2>1, <2>2
<1>2. QED BY <1>1, InitTyped, PTL DEF Spec

COROLLARY TypesHold == Spec => []TypeOK
BY Typed, PTL DEF TypeInv

-----------------------------------------------------------------------------
(* What a handler in flight may write to: a repayment visits only orders   *)
(* that exist, and allocates only to those; so does a refresh.             *)
Fits(k) ==
  /\ k.op = "repay" => k.applied = Nothing
  /\ k.op \in {"allocate", "refresh"} => \A o \in k.todo : orders[o].status # "absent"
  /\ k.op = "allocate" => \A o \in OrderIds : k.applied[o] > 0 => orders[o].status # "absent"

RefInv == \A c \in Clients : Fits(call[c])

(* An order that exists goes on existing, for the same total.              *)
OrderKept(o) ==
  orders[o].status # "absent" =>
    orders'[o].status # "absent" /\ orders'[o].total = orders[o].total

Action(c) ==
  \/ CreateCreditAccount(c) \/ LimitFind(c) \/ LimitWrite(c)
  \/ ReserveRead(c) \/ ReserveCommit(c) \/ CreateOrder(c) \/ CreateOrderFails(c)
  \/ ReleaseRead(c) \/ ReleaseCommit(c)
  \/ CreateDirectOrder(c) \/ CancelOrder(c) \/ FulfillOrder(c)
  \/ RepayRead(c) \/ RepayOrders(c) \/ Allocate(c) \/ RepayCommit(c)
  \/ RefreshRead(c) \/ RefreshWrite(c)
  \/ Crash(c)

LEMMA InsertKeeps ==
  ASSUME TypeOK, NEW r \in Resellers, NEW n \in Nat, InsertOrder(r, n)
  PROVE  \A o \in OrderIds : OrderKept(o)
<1>1. PICK o \in OrderIds :
        /\ orders[o].status = "absent"
        /\ orders' = [orders EXCEPT ![o] =
                        [status |-> "pending", reseller |-> r, total |-> n, paid |-> 0]]
  BY DEF InsertOrder
<1>2. \A p \in OrderIds \ {o} : orders'[p] = orders[p] BY <1>1 DEF TypeOK
<1>3. QED BY <1>1, <1>2 DEF OrderKept

LEMMA StatusKeeps ==
  ASSUME TypeOK, NEW c, NEW s \in {"fulfilled", "cancelled"}, SetStatus(c, s)
  PROVE  \A o \in OrderIds : OrderKept(o)
<1>1. PICK o \in OrderIds : orders' = [orders EXCEPT ![o].status = s] BY DEF SetStatus
<1>2. orders'[o].status = s /\ orders'[o].total = orders[o].total
  BY <1>1 DEF TypeOK, OrderRow
<1>3. \A p \in OrderIds \ {o} : orders'[p] = orders[p] BY <1>1 DEF TypeOK
<1>4. QED BY <1>1, <1>2, <1>3 DEF OrderKept

LEMMA PaidKeeps ==
  ASSUME TypeOK, NEW c \in Clients, RepayCommit(c) \/ RefreshWrite(c)
  PROVE  \A o \in OrderIds : OrderKept(o)
<1> SUFFICES ASSUME NEW o \in OrderIds PROVE OrderKept(o)
  OBVIOUS
<1>1. PICK n : orders'[o] = orders[o] \/ orders'[o] = [orders[o] EXCEPT !.paid = n]
  <2>1. CASE RepayCommit(c)
    <3>1. \/ orders'[o] = orders[o]
          \/ orders'[o] = [orders[o] EXCEPT !.paid = NextPaid(call[c], o)]
      BY <2>1 DEF RepayCommit
    <3> QED BY <3>1
  <2>2. CASE RefreshWrite(c)
    <3>1. \/ orders'[o] = orders[o]
          \/ orders'[o] = [orders[o] EXCEPT !.paid = call[c].seen]
      BY <2>2 DEF RefreshWrite
    <3> QED BY <3>1
  <2> QED BY <2>1, <2>2
<1>2. orders[o] \in OrderRow BY DEF TypeOK
<1>3. PICK u : u = [orders[o] EXCEPT !.paid = n] OBVIOUS
<1>4. u.status = orders[o].status /\ u.total = orders[o].total BY <1>2, <1>3 DEF OrderRow
<1>5. QED BY <1>1, <1>3, <1>4 DEF OrderKept

LEMMA OrdersKept ==
  ASSUME TypeInv, NEW c \in Clients, Action(c)
  PROVE  \A o \in OrderIds : OrderKept(o)
<1>0. TypeOK BY DEF TypeInv
<1>1. CASE orders' = orders BY <1>0, <1>1 DEF OrderKept
<1>2. CASE CreateOrder(c)
  <2>1. call[c] \in Handler /\ HoldsItsRows(call[c]) BY DEF TypeInv, TypeOK, WellFormed
  <2>2. call[c].reseller \in Resellers /\ call[c].amount \in Nat
    BY <1>2, <2>1 DEF CreateOrder, HoldsItsRows, Handler
  <2>3. QED BY <1>0, <1>2, <2>2, InsertKeeps DEF CreateOrder
<1>3. CASE CreateDirectOrder(c) BY <1>0, <1>3, InsertKeeps DEF CreateDirectOrder
<1>4. CASE CancelOrder(c) \/ FulfillOrder(c)
  BY <1>0, <1>4, StatusKeeps DEF CancelOrder, FulfillOrder
<1>5. CASE RepayCommit(c) \/ RefreshWrite(c) BY <1>0, <1>5, PaidKeeps
<1>6. QED
  BY <1>1, <1>2, <1>3, <1>4, <1>5
  DEF Action, CreateCreditAccount, LimitFind, LimitWrite, ReserveRead, ReserveCommit, tables,
      CreateOrderFails, ReleaseRead, ReleaseCommit, RepayRead, RepayOrders, Allocate, RefreshRead, Crash

(* Fits after the step, of a handler k that the step leaves or makes.      *)
FitsNext(k) ==
  /\ k.op = "repay" => k.applied = Nothing
  /\ k.op \in {"allocate", "refresh"} => \A o \in k.todo : orders'[o].status # "absent"
  /\ k.op = "allocate" => \A o \in OrderIds : k.applied[o] > 0 => orders'[o].status # "absent"

LEMMA FitsPrimed == ASSUME NEW d \in Clients PROVE Fits(call[d])' <=> FitsNext(call'[d])
BY DEF Fits, FitsNext

(* What stays of a handler when it is another client's turn.               *)
LEMMA FitsKept ==
  ASSUME TypeInv, RefInv, NEW d \in Clients, call'[d] = call[d],
         \A o \in OrderIds : OrderKept(o)
  PROVE  Fits(call[d])'
<1>1. Fits(call[d]) /\ call[d].todo \in SUBSET OrderIds BY DEF RefInv, TypeInv, TypeOK, Handler
<1>2. FitsNext(call[d]) BY <1>1 DEF Fits, FitsNext, OrderKept
<1>3. QED BY <1>2, FitsPrimed

LEMMA FitsAfter ==
  ASSUME TypeInv, RefInv, NEW c \in Clients, Action(c),
         \A o \in OrderIds : OrderKept(o)
  PROVE  \A d \in Clients : Fits(call[d])'
<1> DEFINE k == call[c]
<1>0. TypeOK /\ k \in WellFormed /\ k \in Handler /\ Fits(k)
  BY DEF TypeInv, TypeOK, WellFormed, RefInv
<1>1. ASSUME NEW n, Goto(c, n), FitsNext(n)
      PROVE  \A d \in Clients : Fits(call[d])'
  <2>1. call'[c] = n /\ \A d \in Clients \ {c} : call'[d] = call[d]
    BY <1>0, <1>1 DEF Goto, TypeOK
  <2>2. Fits(call[c])' BY <1>1, <2>1, FitsPrimed
  <2>3. QED BY <2>1, <2>2, FitsKept
<1>2. CASE UNCHANGED call BY <1>2, FitsKept
<1>3. ASSUME NEW n, n.op \notin {"repay", "allocate", "refresh"} PROVE FitsNext(n)
  BY <1>3 DEF FitsNext
<1>4. CASE Return(c) BY <1>1, <1>3, <1>4, IdleTyped DEF Return
<1>5. CASE LimitFind(c)
  <2>1. PICK r, limit, a :
          Goto(c, [Idle EXCEPT !.op = "limit", !.reseller = r, !.limit = limit, !.account = a])
    BY <1>5 DEF LimitFind
  <2> DEFINE n == [Idle EXCEPT !.op = "limit", !.reseller = r, !.limit = limit, !.account = a]
  <2>2. n.op = "limit" BY IdleTyped DEF WellFormed, Handler
  <2>3. Goto(c, n) BY <2>1
  <2> HIDE DEF n
  <2>4. QED BY <1>1, <1>3, <2>2, <2>3
<1>6. CASE ReserveRead(c)
  <2>1. PICK r, amount, override, a :
          Goto(c, [Idle EXCEPT !.op = "reserve", !.reseller = r, !.amount = amount,
                               !.override = override, !.account = a, !.seen = accounts[a].used])
    BY <1>6 DEF ReserveRead
  <2> DEFINE n == [Idle EXCEPT !.op = "reserve", !.reseller = r, !.amount = amount,
                               !.override = override, !.account = a, !.seen = accounts[a].used]
  <2>2. n.op = "reserve" BY IdleTyped DEF WellFormed, Handler
  <2>3. Goto(c, n) BY <2>1
  <2> HIDE DEF n
  <2>4. QED BY <1>1, <1>3, <2>2, <2>3
<1>7. CASE ReserveCommit(c)
  <2>1. [k EXCEPT !.op = "order"].op = "order" BY <1>0 DEF Handler
  <2>2. QED BY <1>1, <1>3, <1>7, <2>1 DEF ReserveCommit
<1>8. CASE CreateOrderFails(c)
  <2>1. [k EXCEPT !.op = "undo"].op = "undo" BY <1>0 DEF Handler
  <2>2. QED BY <1>1, <1>3, <1>4, <1>8, <2>1 DEF CreateOrderFails
<1>9. CASE ReleaseRead(c)
  <2>1. PICK a : Goto(c, [k EXCEPT !.op = "release", !.account = a, !.seen = accounts[a].used])
    BY <1>9 DEF ReleaseRead
  <2> DEFINE n == [k EXCEPT !.op = "release", !.account = a, !.seen = accounts[a].used]
  <2>2. n.op = "release" BY <1>0 DEF Handler
  <2>3. Goto(c, n) BY <2>1
  <2> HIDE DEF n
  <2>4. QED BY <1>1, <1>3, <2>2, <2>3
<1>10. CASE RepayRead(c)
  <2>1. PICK a, amount :
          Goto(c, [Idle EXCEPT !.op = "repay", !.account = a, !.amount = amount,
                               !.reseller = accounts[a].reseller, !.seen = accounts[a].used,
                               !.remaining = amount])
    BY <1>10 DEF RepayRead
  <2> DEFINE n == [Idle EXCEPT !.op = "repay", !.account = a, !.amount = amount,
                               !.reseller = accounts[a].reseller, !.seen = accounts[a].used,
                               !.remaining = amount]
  <2>2. n.op = "repay" /\ n.applied = Nothing BY IdleTyped DEF WellFormed, Handler
  <2>3. Goto(c, n) BY <2>1
  <2> HIDE DEF n
  <2>4. FitsNext(n) BY <2>2 DEF FitsNext
  <2>5. QED BY <1>1, <2>3, <2>4
<1>11. CASE RepayOrders(c)
  <2> DEFINE n == [k EXCEPT !.op = "allocate", !.todo = OpenOrders(k.reseller),
                            !.paid = [o \in OrderIds |-> orders[o].paid]]
  <2>1. Goto(c, n) /\ UNCHANGED orders BY <1>11 DEF RepayOrders, tables
  <2>2. /\ n.op = "allocate" /\ n.todo = OpenOrders(k.reseller) /\ n.applied = Nothing
    BY <1>0, <1>11 DEF Handler, RepayOrders, Fits
  <2> HIDE DEF n
  <2>3. \A o \in n.todo : orders'[o].status # "absent" BY <2>1, <2>2 DEF OpenOrders
  <2>4. \A o \in OrderIds : ~(n.applied[o] > 0) BY <2>2 DEF Nothing
  <2>5. FitsNext(n) BY <2>2, <2>3, <2>4 DEF FitsNext
  <2>6. QED BY <1>1, <2>1, <2>5
<1>12. CASE Allocate(c)
  <2> DEFINE o == First(k.todo)
             share == Share(k, o)
             applied == [k.applied EXCEPT ![o] = share]
             n == [k EXCEPT !.todo = k.todo \ {o}, !.applied = applied,
                            !.remaining = k.remaining - share]
  <2>1. Goto(c, n) /\ UNCHANGED orders /\ k.op = "allocate" BY <1>12 DEF Allocate, tables
  <2>2. o \in OrderIds /\ o \in k.todo BY <1>0, <1>12, FirstIsOldest DEF Allocate, Handler
  <2>3. /\ n.op = "allocate" /\ n.todo = k.todo \ {o} /\ n.applied = applied
    <3> HIDE DEF o, share, applied
    <3> QED BY <1>0, <2>1 DEF Handler
  <2> HIDE DEF n, share
  <2>4. \A p \in n.todo : orders'[p].status # "absent" BY <1>0, <2>1, <2>3 DEF Fits
  <2>5. ASSUME NEW p \in OrderIds, n.applied[p] > 0 PROVE orders'[p].status # "absent"
    <3>1. CASE p = o BY <1>0, <2>1, <2>2, <3>1 DEF Fits
    <3>2. CASE p # o
      <4>1. applied[p] = k.applied[p] BY <1>0, <2>2, <3>2 DEF Handler, Allocation
      <4>2. QED BY <1>0, <2>1, <2>3, <2>5, <4>1 DEF Fits
    <3>3. QED BY <3>1, <3>2
  <2>6. FitsNext(n) BY <2>3, <2>4, <2>5 DEF FitsNext
  <2>7. QED BY <1>1, <2>1, <2>6
<1>13. CASE RefreshRead(c)
  <2>1. PICK o \in OrderIds :
          /\ orders[o].status # "absent"
          /\ Goto(c, [Idle EXCEPT !.op = "refresh", !.todo = {o}, !.seen = Allocated(o)])
    BY <1>13 DEF RefreshRead
  <2> DEFINE n == [Idle EXCEPT !.op = "refresh", !.todo = {o}, !.seen = Allocated(o)]
  <2>2. n.op = "refresh" /\ n.todo = {o} BY IdleTyped DEF WellFormed, Handler
  <2>3. Goto(c, n) /\ UNCHANGED orders BY <1>13, <2>1 DEF RefreshRead, tables
  <2> HIDE DEF n
  <2>4. FitsNext(n) BY <2>1, <2>2, <2>3 DEF FitsNext
  <2>5. QED BY <1>1, <2>3, <2>4
<1>14. QED
  BY <1>2, <1>4, <1>5, <1>6, <1>7, <1>8, <1>9, <1>10, <1>11, <1>12, <1>13
  DEF Action, CreateCreditAccount, LimitWrite, CreateOrder, ReleaseCommit, CreateDirectOrder,
      CancelOrder, FulfillOrder, SetStatus, RepayCommit, RefreshWrite, Crash

LEMMA RefHolds == Spec => []RefInv
<1>1. Init => RefInv BY IdleTyped DEF Init, RefInv, Fits
<1>2. TypeInv /\ RefInv /\ [Next]_vars => RefInv'
  <2> SUFFICES ASSUME TypeInv, RefInv, [Next]_vars PROVE RefInv' OBVIOUS
  <2>1. CASE UNCHANGED vars
    <3>1. \A o \in OrderIds : OrderKept(o) BY <2>1 DEF vars, OrderKept
    <3>2. QED BY <2>1, <3>1, FitsKept DEF vars, RefInv
  <2>2. CASE Next
    <3>1. PICK c \in Clients : Action(c) BY <2>2 DEF Next, Action
    <3>2. QED BY <3>1, OrdersKept, FitsAfter DEF RefInv
  <2>3. QED BY <2>1, <2>2
<1>3. QED BY <1>1, <1>2, Typed, PTL DEF Spec

-----------------------------------------------------------------------------
(* What a step makes of the handler that takes it, field by field.         *)
OthersStay(c) == \A d \in Clients : d # c => call'[d] = call[d]

LEMMA GoesTo ==
  ASSUME TypeInv, NEW c \in Clients, NEW n, Goto(c, n)
  PROVE  call'[c] = n /\ OthersStay(c)
BY DEF TypeInv, TypeOK, Goto, OthersStay

LEMMA Returns ==
  ASSUME TypeInv, NEW c \in Clients, Return(c)
  PROVE  call'[c] = Idle /\ call'[c].op = "idle" /\ OthersStay(c)
BY GoesTo, IdleTyped DEF Return

LEMMA LimitFindMoves ==
  ASSUME TypeInv, NEW c \in Clients, LimitFind(c)
  PROVE  call'[c].op = "limit" /\ OthersStay(c) /\ UNCHANGED <<tables, lost>>
<1>1. PICK r, limit, a :
        Goto(c, [Idle EXCEPT !.op = "limit", !.reseller = r, !.limit = limit, !.account = a])
  BY DEF LimitFind
<1>2. PICK n : n = [Idle EXCEPT !.op = "limit", !.reseller = r, !.limit = limit, !.account = a]
  OBVIOUS
<1>3. n.op = "limit"
  BY <1>2, IdleTyped DEF WellFormed, Handler
<1> QED BY <1>1, <1>2, <1>3, GoesTo DEF LimitFind

LEMMA ReserveReadMoves ==
  ASSUME TypeInv, NEW c \in Clients, ReserveRead(c)
  PROVE  /\ call[c].op = "idle" /\ OthersStay(c) /\ UNCHANGED <<tables, lost>>
         /\ \E a \in Accounts :
              /\ call'[c].op = "reserve" /\ call'[c].account = a
              /\ call'[c].reseller = accounts[a].reseller /\ call'[c].seen = accounts[a].used
              /\ call'[c].amount \in Nat
              /\ call'[c].override \/ accounts[a].limit - accounts[a].used >= call'[c].amount
<1>1. PICK r \in Resellers, amount \in Amounts, override \in BOOLEAN :
        \E a \in AccountsOf(r) :
          /\ override \/ WithinLimit(a, amount)
          /\ Goto(c, [Idle EXCEPT !.op = "reserve", !.reseller = r, !.amount = amount,
                                  !.override = override, !.account = a, !.seen = accounts[a].used])
  BY DEF ReserveRead
<1>2. PICK a \in AccountsOf(r) :
          /\ override \/ WithinLimit(a, amount)
          /\ Goto(c, [Idle EXCEPT !.op = "reserve", !.reseller = r, !.amount = amount,
                                  !.override = override, !.account = a, !.seen = accounts[a].used])
  BY <1>1
<1>3. PICK n : n = [Idle EXCEPT !.op = "reserve", !.reseller = r, !.amount = amount,
                                !.override = override, !.account = a, !.seen = accounts[a].used]
  OBVIOUS
<1>4. /\ n.op = "reserve" /\ n.reseller = r /\ n.amount = amount /\ n.override = override
      /\ n.account = a /\ n.seen = accounts[a].used
  BY <1>3, IdleTyped DEF WellFormed, Handler
<1>5. call'[c] = n /\ OthersStay(c)
  BY <1>2, <1>3, GoesTo
<1>6. a \in Accounts /\ accounts[a].reseller = r /\ amount \in Nat
  BY DEF AccountsOf
<1>7. n.override \/ accounts[a].limit - accounts[a].used >= n.amount
  BY <1>2, <1>4 DEF WithinLimit
<1> QED BY <1>4, <1>5, <1>6, <1>7 DEF ReserveRead

LEMMA ReserveCommitMoves ==
  ASSUME TypeInv, NEW c \in Clients, ReserveCommit(c)
  PROVE  /\ call'[c].op = "order" /\ OthersStay(c)
         /\ call'[c].account = call[c].account /\ call'[c].reseller = call[c].reseller
         /\ call'[c].amount = call[c].amount /\ call'[c].override = call[c].override
<1>1. PICK n : n = [call[c] EXCEPT !.op = "order"]
  OBVIOUS
<1>2. /\ n.op = "order" /\ n.account = call[c].account /\ n.reseller = call[c].reseller
      /\ n.amount = call[c].amount /\ n.override = call[c].override
  BY <1>1 DEF TypeInv, WellFormed, Handler
<1>3. call'[c] = n /\ OthersStay(c)
  BY <1>1, GoesTo DEF ReserveCommit
<1> QED BY <1>2, <1>3

LEMMA FailureMoves ==
  ASSUME TypeInv, NEW c \in Clients, CreateOrderFails(c)
  PROVE  /\ OthersStay(c) /\ UNCHANGED <<tables, lost>>
         /\ \/ call'[c].op = "idle" /\ call[c].amount = 0
            \/ /\ call'[c].op = "undo" /\ call'[c].reseller = call[c].reseller
               /\ call'[c].amount = call[c].amount
<1>1. PICK n : n = [call[c] EXCEPT !.op = "undo"]
  OBVIOUS
<1>2. n.op = "undo" /\ n.reseller = call[c].reseller /\ n.amount = call[c].amount
  BY <1>1 DEF TypeInv, WellFormed, Handler
<1>3. CASE call[c].amount = 0
  BY <1>3, Returns DEF CreateOrderFails
<1>4. CASE Goto(c, n)
  BY <1>2, <1>4, GoesTo DEF CreateOrderFails
<1> QED BY <1>1, <1>3, <1>4 DEF CreateOrderFails

LEMMA ReleaseReadMoves ==
  ASSUME TypeInv, NEW c \in Clients, ReleaseRead(c)
  PROVE  /\ call[c].op = "undo" /\ OthersStay(c) /\ UNCHANGED <<tables, lost>>
         /\ \E a \in Accounts :
              /\ call'[c].op = "release" /\ call'[c].account = a
              /\ accounts[a].reseller = call[c].reseller /\ call'[c].reseller = call[c].reseller
              /\ call'[c].seen = accounts[a].used /\ call'[c].amount = call[c].amount
<1>1. PICK a \in AccountsOf(call[c].reseller) :
        Goto(c, [call[c] EXCEPT !.op = "release", !.account = a, !.seen = accounts[a].used])
  BY DEF ReleaseRead
<1>2. PICK n : n = [call[c] EXCEPT !.op = "release", !.account = a, !.seen = accounts[a].used]
  OBVIOUS
<1>3. /\ n.op = "release" /\ n.account = a /\ n.reseller = call[c].reseller
      /\ n.seen = accounts[a].used /\ n.amount = call[c].amount
  BY <1>2 DEF TypeInv, WellFormed, Handler
<1>4. call'[c] = n /\ OthersStay(c)
  BY <1>1, <1>2, GoesTo
<1> QED BY <1>3, <1>4 DEF ReleaseRead, AccountsOf

LEMMA RepayReadMoves ==
  ASSUME TypeInv, NEW c \in Clients, RepayRead(c)
  PROVE  /\ call[c].op = "idle" /\ OthersStay(c) /\ UNCHANGED <<tables, lost>>
         /\ \E a \in Accounts :
              /\ call'[c].op = "repay" /\ call'[c].account = a
              /\ call'[c].reseller = accounts[a].reseller /\ call'[c].seen = accounts[a].used
              /\ call'[c].remaining = call'[c].amount /\ call'[c].applied = Nothing
<1>1. PICK a \in Accounts, amount \in Amounts :
          Goto(c, [Idle EXCEPT !.op = "repay", !.account = a, !.amount = amount,
                               !.reseller = accounts[a].reseller, !.seen = accounts[a].used,
                               !.remaining = amount])
  BY DEF RepayRead
<1>2. PICK n : n = [Idle EXCEPT !.op = "repay", !.account = a, !.amount = amount,
                               !.reseller = accounts[a].reseller, !.seen = accounts[a].used,
                               !.remaining = amount]
  OBVIOUS
<1>3. /\ n.op = "repay" /\ n.account = a /\ n.amount = amount /\ n.remaining = amount
      /\ n.reseller = accounts[a].reseller /\ n.seen = accounts[a].used /\ n.applied = Nothing
  BY <1>2, IdleTyped DEF WellFormed, Handler
<1>4. call'[c] = n /\ OthersStay(c)
  BY <1>1, <1>2, GoesTo
<1> QED BY <1>3, <1>4 DEF RepayRead

LEMMA RepayOrdersMoves ==
  ASSUME TypeInv, NEW c \in Clients, RepayOrders(c)
  PROVE  /\ call[c].op = "repay" /\ OthersStay(c) /\ UNCHANGED <<tables, lost>>
         /\ call'[c].op = "allocate" /\ call'[c].account = call[c].account
         /\ call'[c].reseller = call[c].reseller /\ call'[c].seen = call[c].seen
         /\ call'[c].amount = call[c].amount /\ call'[c].remaining = call[c].remaining
         /\ call'[c].applied = call[c].applied /\ call'[c].todo = OpenOrders(call[c].reseller)
         /\ \A o \in OrderIds : call'[c].paid[o] = orders[o].paid
<1>1. PICK paid : paid = [o \in OrderIds |-> orders[o].paid]
  OBVIOUS
<1>2. PICK todo : todo = OpenOrders(call[c].reseller)
  OBVIOUS
<1>3. PICK n : n = [call[c] EXCEPT !.op = "allocate", !.todo = todo, !.paid = paid]
  OBVIOUS
<1>4. /\ n.op = "allocate" /\ n.account = call[c].account /\ n.reseller = call[c].reseller
      /\ n.seen = call[c].seen /\ n.amount = call[c].amount /\ n.remaining = call[c].remaining
      /\ n.applied = call[c].applied /\ n.todo = todo /\ n.paid = paid
  BY <1>3 DEF TypeInv, WellFormed, Handler
<1>5. call'[c] = n /\ OthersStay(c)
  BY <1>1, <1>2, <1>3, GoesTo DEF RepayOrders
<1>6. \A o \in OrderIds : paid[o] = orders[o].paid
  BY <1>1
<1> QED BY <1>2, <1>4, <1>5, <1>6 DEF RepayOrders

LEMMA AllocateMoves ==
  ASSUME TypeInv, NEW c \in Clients, Allocate(c)
  PROVE  /\ call[c].op = "allocate" /\ OthersStay(c) /\ UNCHANGED <<tables, lost>>
         /\ call'[c].op = "allocate" /\ call'[c].account = call[c].account
         /\ call'[c].reseller = call[c].reseller /\ call'[c].seen = call[c].seen
         /\ call'[c].amount = call[c].amount /\ call'[c].paid = call[c].paid
         /\ \E o \in call[c].todo :
              /\ o \in OrderIds /\ \A p \in call[c].todo : o <= p
              /\ call'[c].todo = call[c].todo \ {o}
              /\ call'[c].applied[o] = Share(call[c], o)
              /\ \A p \in OrderIds : p # o => call'[c].applied[p] = call[c].applied[p]
              /\ call'[c].remaining = call[c].remaining - Share(call[c], o)
<1>1. PICK k : k = call[c]
  OBVIOUS
<1>2. k \in Handler /\ k.todo # {} /\ k.op = "allocate"
  BY <1>1 DEF TypeInv, WellFormed, Allocate
<1>3. PICK o : o = First(k.todo)
  OBVIOUS
<1>4. o \in k.todo /\ o \in OrderIds /\ \A p \in k.todo : o <= p
  BY <1>2, <1>3, FirstIsOldest DEF Handler
<1>5. PICK share : share = Share(k, o)
  OBVIOUS
<1>6. PICK applied : applied = [k.applied EXCEPT ![o] = share]
  OBVIOUS
<1>7. PICK n : n = [k EXCEPT !.todo = k.todo \ {o}, !.applied = applied,
                             !.remaining = k.remaining - share]
  OBVIOUS
<1>8. /\ n.op = k.op /\ n.account = k.account /\ n.reseller = k.reseller
      /\ n.seen = k.seen /\ n.amount = k.amount /\ n.paid = k.paid
      /\ n.todo = k.todo \ {o} /\ n.applied = applied /\ n.remaining = k.remaining - share
  BY <1>2, <1>7 DEF Handler
<1>9. applied[o] = share /\ \A p \in OrderIds : p # o => applied[p] = k.applied[p]
  BY <1>2, <1>4, <1>6 DEF Handler, Allocation
<1>10. Goto(c, n)
  BY <1>1, <1>3, <1>5, <1>6, <1>7 DEF Allocate
<1>11. call'[c] = n /\ OthersStay(c)
  BY <1>10, GoesTo
<1>12. call'[c].applied[o] = Share(call[c], o)
  BY <1>1, <1>5, <1>8, <1>9, <1>11
<1> QED BY <1>1, <1>2, <1>4, <1>5, <1>8, <1>9, <1>11, <1>12 DEF Allocate

-----------------------------------------------------------------------------
(* What a step makes of the tables.  One account row gets another used     *)
(* amount.                                                                 *)
Uses(a, amount) ==
  /\ accounts'[a].used = amount
  /\ accounts'[a].reseller = accounts[a].reseller /\ accounts'[a].limit = accounts[a].limit
  /\ \A b \in Accounts : b # a => accounts'[b] = accounts[b]

LEMMA UsesOne ==
  ASSUME TypeOK, NEW a \in Accounts, NEW amount, accounts' = [accounts EXCEPT ![a].used = amount]
  PROVE  Uses(a, amount)
<1>1. accounts[a] \in AccountRow
  BY DEF TypeOK
<1>2. PICK u : u = [accounts[a] EXCEPT !.used = amount]
  OBVIOUS
<1>3. u.used = amount /\ u.reseller = accounts[a].reseller /\ u.limit = accounts[a].limit
  BY <1>1, <1>2 DEF AccountRow
<1>4. accounts'[a] = u /\ \A b \in Accounts : b # a => accounts'[b] = accounts[b]
  BY <1>2 DEF TypeOK
<1> QED BY <1>3, <1>4 DEF Uses

(* An account is opened.                                                   *)
Opens(a, r) ==
  /\ accounts[a].reseller = None /\ accounts'[a].reseller = r /\ accounts'[a].used = 0
  /\ \A b \in Accounts : b # a => accounts'[b] = accounts[b]

LEMMA InsertOpens ==
  ASSUME TypeOK, NEW r, NEW limit, InsertAccount(r, limit)
  PROVE  \E a \in Accounts : Opens(a, r)
<1>1. PICK a \in Accounts :
        /\ accounts[a].reseller = None
        /\ accounts' = [accounts EXCEPT ![a] = [reseller |-> r, limit |-> limit, used |-> 0]]
  BY DEF InsertAccount
<1>2. Opens(a, r)
  BY <1>1 DEF Opens, TypeOK
<1> QED BY <1>2

(* An order is written down.                                               *)
Orders(o, r, n) ==
  /\ orders[o].status = "absent"
  /\ orders'[o] = [status |-> "pending", reseller |-> r, total |-> n, paid |-> 0]
  /\ \A p \in OrderIds : p # o => orders'[p] = orders[p]

LEMMA InsertOrders ==
  ASSUME TypeOK, NEW r, NEW n, InsertOrder(r, n)
  PROVE  \E o \in OrderIds : Orders(o, r, n)
<1>1. PICK o \in OrderIds :
        /\ orders[o].status = "absent"
        /\ orders' = [orders EXCEPT ![o] =
                        [status |-> "pending", reseller |-> r, total |-> n, paid |-> 0]]
  BY DEF InsertOrder
<1>2. Orders(o, r, n)
  BY <1>1 DEF Orders, TypeOK
<1> QED BY <1>2

(* Another status is all that changes of an order.                         *)
Relabels ==
  \A o \in OrderIds :
    /\ orders'[o].reseller = orders[o].reseller /\ orders'[o].total = orders[o].total
    /\ orders'[o].paid = orders[o].paid
    /\ orders[o].status = "absent" => orders'[o].status = "absent"
    /\ orders'[o].status = "absent" => orders[o].status = "absent"

LEMMA StatusRelabels ==
  ASSUME TypeOK, NEW c, NEW s \in {"fulfilled", "cancelled"}, SetStatus(c, s)
  PROVE  Relabels
<1>1. PICK o \in OrderIds :
        /\ orders[o].status # "absent" /\ orders' = [orders EXCEPT ![o].status = s]
  BY DEF SetStatus
<1>2. orders[o] \in OrderRow
  BY DEF TypeOK
<1>3. PICK u : u = [orders[o] EXCEPT !.status = s]
  OBVIOUS
<1>4. /\ u.status = s /\ u.total = orders[o].total
      /\ u.paid = orders[o].paid /\ u.reseller = orders[o].reseller
  BY <1>2, <1>3 DEF OrderRow
<1>5. orders'[o] = u /\ \A p \in OrderIds : p # o => orders'[p] = orders[p]
  BY <1>1, <1>3 DEF TypeOK
<1> QED BY <1>1, <1>4, <1>5 DEF Relabels

LEMMA RepayCommitMoves ==
  ASSUME TypeInv, NEW c \in Clients, RepayCommit(c)
  PROVE  /\ call'[c].op = "idle" /\ OthersStay(c) /\ lost' = lost
         /\ \A o \in OrderIds :
              /\ orders'[o].status = orders[o].status /\ orders'[o].total = orders[o].total
              /\ orders'[o].reseller = orders[o].reseller
              /\ orders'[o].paid = IF call[c].applied[o] > 0 THEN NextPaid(call[c], o)
                                                             ELSE orders[o].paid
         /\ Uses(call[c].account, NextUsed(call[c]))
         /\ \E p \in Repayments :
              /\ repayments[p].account = None
              /\ repayments'[p].account = call[c].account
              /\ repayments'[p].amount = call[c].amount
              /\ repayments'[p].unapplied = call[c].remaining
              /\ repayments'[p].applied = call[c].applied
              /\ \A q \in Repayments : q # p => repayments'[q] = repayments[q]
<1> DEFINE k == call[c]
<1>0. TypeOK /\ k \in Handler /\ k.account \in Accounts
  BY DEF TypeInv, WellFormed, HoldsItsRows, RepayCommit
<1>1. ASSUME NEW o \in OrderIds
      PROVE  /\ orders'[o].status = orders[o].status /\ orders'[o].total = orders[o].total
             /\ orders'[o].reseller = orders[o].reseller
             /\ orders'[o].paid = IF k.applied[o] > 0 THEN NextPaid(k, o) ELSE orders[o].paid
  <2>1. orders'[o] = IF k.applied[o] > 0 THEN [orders[o] EXCEPT !.paid = NextPaid(k, o)]
                                         ELSE orders[o]
    BY DEF RepayCommit
  <2>2. orders[o] \in OrderRow
    BY <1>0 DEF TypeOK
  <2>3. PICK u : u = [orders[o] EXCEPT !.paid = NextPaid(k, o)]
    OBVIOUS
  <2>4. /\ u.status = orders[o].status /\ u.total = orders[o].total
        /\ u.paid = NextPaid(k, o) /\ u.reseller = orders[o].reseller
    BY <2>2, <2>3 DEF OrderRow
  <2> QED BY <2>1, <2>3, <2>4
<1>2. Uses(k.account, NextUsed(k))
  BY <1>0, UsesOne DEF RepayCommit
<1>3. PICK p \in Repayments :
         /\ repayments[p].account = None
         /\ repayments' = [repayments EXCEPT ![p] =
              [account |-> k.account, amount |-> k.amount, unapplied |-> Unapplied(k),
               applied |-> k.applied]]
  BY DEF RepayCommit
<1>4. /\ repayments'[p] = [account |-> k.account, amount |-> k.amount, unapplied |-> Unapplied(k),
                           applied |-> k.applied]
      /\ \A q \in Repayments : q # p => repayments'[q] = repayments[q]
  BY <1>0, <1>3 DEF TypeOK
<1>5. call'[c].op = "idle" /\ OthersStay(c) /\ lost' = lost
  BY Returns DEF RepayCommit
<1> QED BY <1>1, <1>2, <1>3, <1>4, <1>5 DEF Unapplied

LEMMA RefreshReadMoves ==
  ASSUME TypeInv, NEW c \in Clients, RefreshRead(c)
  PROVE  /\ call[c].op = "idle" /\ OthersStay(c) /\ UNCHANGED <<tables, lost>>
         /\ \E o \in OrderIds :
              call'[c].op = "refresh" /\ call'[c].todo = {o} /\ call'[c].seen = Allocated(o)
<1>1. PICK o \in OrderIds :
          Goto(c, [Idle EXCEPT !.op = "refresh", !.todo = {o}, !.seen = Allocated(o)])
  BY DEF RefreshRead
<1>2. PICK n : n = [Idle EXCEPT !.op = "refresh", !.todo = {o}, !.seen = Allocated(o)]
  OBVIOUS
<1>3. n.op = "refresh" /\ n.todo = {o} /\ n.seen = Allocated(o)
  BY <1>2, IdleTyped DEF WellFormed, Handler
<1>4. call'[c] = n /\ OthersStay(c)
  BY <1>1, <1>2, GoesTo
<1> QED BY <1>3, <1>4 DEF RefreshRead

LEMMA RefreshWriteMoves ==
  ASSUME TypeInv, NEW c \in Clients, RefreshWrite(c)
  PROVE  /\ call[c].op = "refresh" /\ call'[c].op = "idle" /\ OthersStay(c)
         /\ lost' = lost /\ accounts' = accounts /\ repayments' = repayments
         /\ \A o \in OrderIds :
              /\ orders'[o].status = orders[o].status /\ orders'[o].total = orders[o].total
              /\ orders'[o].reseller = orders[o].reseller
              /\ orders'[o].paid = IF o \in call[c].todo THEN call[c].seen ELSE orders[o].paid
<1>1. ASSUME NEW o \in OrderIds
      PROVE  /\ orders'[o].status = orders[o].status /\ orders'[o].total = orders[o].total
             /\ orders'[o].reseller = orders[o].reseller
             /\ orders'[o].paid = IF o \in call[c].todo THEN call[c].seen ELSE orders[o].paid
  <2>1. orders'[o] = IF o \in call[c].todo THEN [orders[o] EXCEPT !.paid = call[c].seen]
                                            ELSE orders[o]
    BY DEF RefreshWrite
  <2>2. orders[o] \in OrderRow
    BY DEF TypeInv, TypeOK
  <2>3. PICK u : u = [orders[o] EXCEPT !.paid = call[c].seen]
    OBVIOUS
  <2>4. /\ u.status = orders[o].status /\ u.total = orders[o].total
        /\ u.paid = call[c].seen /\ u.reseller = orders[o].reseller
    BY <2>2, <2>3 DEF OrderRow
  <2> QED BY <2>1, <2>3, <2>4
<1> QED BY <1>1, Returns DEF RefreshWrite

LEMMA CrashMoves ==
  ASSUME TypeInv, NEW c \in Clients, Crash(c)
  PROVE  /\ call'[c].op = "idle" /\ OthersStay(c) /\ UNCHANGED tables
         /\ call[c].op \notin Holding => lost' = lost
         /\ call[c].op \in Holding =>
              /\ call[c].reseller \in Resellers
              /\ lost'[call[c].reseller] = lost[call[c].reseller] + call[c].amount
              /\ \A r \in Resellers : r # call[c].reseller => lost'[r] = lost[r]
<1>1. call[c].op \in Holding => call[c].reseller \in Resellers
  BY DEF TypeInv, WellFormed, HoldsItsRows, Holding
<1>2. lost \in [Resellers -> Nat]
  BY DEF TypeInv, TypeOK
<1> QED BY <1>1, <1>2, Returns DEF Crash

(* An account once opened stays its reseller's.                            *)
LEMMA AccountsStay ==
  ASSUME TypeInv, NEW c \in Clients, Action(c)
  PROVE  \A a \in Accounts : accounts[a].reseller # None => accounts'[a].reseller = accounts[a].reseller
<1>0. TypeOK
  BY DEF TypeInv
<1>1. CASE accounts' = accounts
  BY <1>1
<1>2. ASSUME NEW r, NEW limit, InsertAccount(r, limit)
      PROVE  \A a \in Accounts : accounts[a].reseller # None => accounts'[a].reseller = accounts[a].reseller
  BY <1>0, <1>2, InsertOpens DEF Opens
<1>3. ASSUME NEW a \in Accounts, NEW n, accounts' = [accounts EXCEPT ![a].used = n]
      PROVE  \A b \in Accounts : accounts[b].reseller # None => accounts'[b].reseller = accounts[b].reseller
  BY <1>0, <1>3, UsesOne DEF Uses
<1>4. call[c].op \in {"reserve", "release", "allocate"} => call[c].account \in Accounts
  BY DEF TypeInv, WellFormed, HoldsItsRows
<1>5. CASE CreateCreditAccount(c)
  BY <1>2, <1>5 DEF CreateCreditAccount
<1>6. CASE LimitWrite(c)
  <2>1. CASE call[c].account = None
    BY <1>2, <1>6, <2>1 DEF LimitWrite
  <2>2. CASE call[c].account # None
    <3>1. PICK a : a = call[c].account
      OBVIOUS
    <3>2. a \in Accounts /\ accounts[a] \in AccountRow
      BY <1>0, <2>2, <3>1 DEF TypeInv, WellFormed, Handler, TypeOK
    <3>3. PICK u : u = [accounts[a] EXCEPT !.limit = call[c].limit]
      OBVIOUS
    <3>4. u.reseller = accounts[a].reseller
      BY <3>2, <3>3 DEF AccountRow
    <3>5. accounts' = [accounts EXCEPT ![a] = u]
      BY <1>6, <2>2, <3>1, <3>3 DEF LimitWrite
    <3> QED BY <1>0, <3>2, <3>4, <3>5 DEF TypeOK
  <2> QED BY <2>1, <2>2
<1>7. CASE ReserveCommit(c)
  BY <1>3, <1>4, <1>7 DEF ReserveCommit
<1>8. CASE ReleaseCommit(c)
  BY <1>3, <1>4, <1>8 DEF ReleaseCommit
<1>9. CASE RepayCommit(c)
  BY <1>3, <1>4, <1>9 DEF RepayCommit
<1> QED
  BY <1>1, <1>5, <1>6, <1>7, <1>8, <1>9
  DEF Action, LimitFind, ReserveRead, CreateOrder, tables, CreateOrderFails, ReleaseRead,
      CreateDirectOrder, CancelOrder, FulfillOrder, SetStatus, RepayRead, RepayOrders, Allocate,
      RefreshRead, RefreshWrite, Crash

-----------------------------------------------------------------------------
(* A row that was never written is blank.                                  *)
Blank ==
  /\ \A o \in OrderIds : orders[o].status = "absent" =>
       orders[o].reseller = None /\ orders[o].total = 0 /\ orders[o].paid = 0
  /\ \A p \in Repayments : repayments[p].account = None =>
       repayments[p].applied = Nothing /\ repayments[p].unapplied = 0

(* What a step does to the order table, whoever takes it.                  *)
OrdersMove(c) ==
  \/ orders' = orders
  \/ Relabels /\ call'[c] = call[c]
  \/ \E o \in OrderIds, r \in Resellers, n \in Nat :
       /\ Orders(o, r, n)
       /\ \/ call[c].op = "order" /\ call'[c].op = "idle" /\ r = call[c].reseller /\ n = call[c].amount
          \/ DirectOrders /\ call' = call
  \/ RepayCommit(c)
  \/ RefreshWrite(c)

LEMMA StepMovesOrders ==
  ASSUME TypeInv, NEW c \in Clients, Action(c)
  PROVE  OrdersMove(c)
<1>0. TypeOK /\ call[c] \in Handler /\ HoldsItsRows(call[c])
  BY DEF TypeInv, WellFormed
<1>1. CASE orders' = orders
  BY <1>1 DEF OrdersMove
<1>2. CASE CreateOrder(c)
  <2>1. call[c].reseller \in Resellers /\ call[c].amount \in Nat
    BY <1>0, <1>2 DEF CreateOrder, HoldsItsRows, Handler
  <2>2. call'[c].op = "idle"
    BY <1>2, Returns DEF CreateOrder
  <2> QED BY <1>0, <1>2, <2>1, <2>2, InsertOrders DEF CreateOrder, OrdersMove
<1>3. CASE CreateDirectOrder(c)
  <2>1. PICK r \in Resellers, n \in Amounts : InsertOrder(r, n)
    BY <1>3 DEF CreateDirectOrder
  <2>2. n \in Nat
    OBVIOUS
  <2> QED BY <1>0, <1>3, <2>1, <2>2, InsertOrders DEF CreateDirectOrder, OrdersMove
<1>4. CASE CancelOrder(c) \/ FulfillOrder(c)
  BY <1>0, <1>4, StatusRelabels DEF CancelOrder, FulfillOrder, SetStatus, OrdersMove
<1>5. CASE RepayCommit(c) \/ RefreshWrite(c)
  BY <1>5 DEF OrdersMove
<1> QED
  BY <1>1, <1>2, <1>3, <1>4, <1>5
  DEF Action, CreateCreditAccount, LimitFind, LimitWrite, ReserveRead, ReserveCommit, tables,
      CreateOrderFails, ReleaseRead, ReleaseCommit, RepayRead, RepayOrders, Allocate, RefreshRead, Crash

(* An order stays its reseller's, and a blank row stays blank until then.  *)
LEMMA OrdersStay ==
  ASSUME TypeInv, Blank, NEW c \in Clients, Action(c), RefInv
  PROVE  \A o \in OrderIds :
           /\ orders[o].reseller # None => orders'[o].reseller = orders[o].reseller
           /\ orders'[o].status = "absent" =>
                orders'[o].reseller = None /\ orders'[o].total = 0 /\ orders'[o].paid = 0
<1> SUFFICES ASSUME NEW o \in OrderIds
             PROVE  /\ orders[o].reseller # None => orders'[o].reseller = orders[o].reseller
                    /\ orders'[o].status = "absent" =>
                         orders'[o].reseller = None /\ orders'[o].total = 0 /\ orders'[o].paid = 0
  OBVIOUS
<1>0. OrdersMove(c)
  BY StepMovesOrders
<1>1. CASE orders' = orders
  BY <1>1 DEF Blank
<1>2. CASE Relabels
  BY <1>2 DEF Relabels, Blank
<1>3. ASSUME NEW p \in OrderIds, NEW r, NEW n, Orders(p, r, n)
      PROVE  /\ orders[o].reseller # None => orders'[o].reseller = orders[o].reseller
             /\ orders'[o].status = "absent" =>
                  orders'[o].reseller = None /\ orders'[o].total = 0 /\ orders'[o].paid = 0
  BY <1>3 DEF Orders, Blank
<1>4. CASE RepayCommit(c)
  <2>1. /\ orders'[o].status = orders[o].status /\ orders'[o].total = orders[o].total
        /\ orders'[o].reseller = orders[o].reseller
        /\ orders'[o].paid = IF call[c].applied[o] > 0 THEN NextPaid(call[c], o) ELSE orders[o].paid
    BY <1>4, RepayCommitMoves
  <2>2. call[c].applied[o] > 0 => orders[o].status # "absent"
    BY <1>4 DEF RefInv, Fits, RepayCommit
  <2> QED BY <2>1, <2>2 DEF Blank
<1>5. CASE RefreshWrite(c)
  <2>1. /\ orders'[o].status = orders[o].status /\ orders'[o].total = orders[o].total
        /\ orders'[o].reseller = orders[o].reseller
        /\ orders'[o].paid = IF o \in call[c].todo THEN call[c].seen ELSE orders[o].paid
    BY <1>5, RefreshWriteMoves
  <2>2. o \in call[c].todo => orders[o].status # "absent"
    BY <1>5 DEF RefInv, Fits, RefreshWrite
  <2> QED BY <2>1, <2>2 DEF Blank
<1> QED BY <1>0, <1>1, <1>2, <1>3, <1>4, <1>5 DEF OrdersMove

(* The repayments: only a commit writes one.                               *)
LEMMA RepaymentsStay ==
  ASSUME TypeInv, NEW c \in Clients, Action(c), ~RepayCommit(c)
  PROVE  repayments' = repayments
BY DEF Action, CreateCreditAccount, LimitFind, LimitWrite, ReserveRead, ReserveCommit, tables,
      CreateOrder, CreateDirectOrder, CancelOrder, FulfillOrder, SetStatus,
      CreateOrderFails, ReleaseRead, ReleaseCommit, RepayRead, RepayOrders, Allocate, RefreshRead,
      RefreshWrite, Crash

-----------------------------------------------------------------------------
(* A repayment's arithmetic, in the handler and in the row it writes: what *)
(* it allocated and what it has left is what was paid in, and it went to   *)
(* orders of the account's reseller.                                       *)
Allots(k) ==
  /\ k.op \in {"repay", "allocate"} => accounts[k.account].reseller = k.reseller
  /\ k.op = "repay" => k.remaining = k.amount
  /\ k.op = "allocate" =>
       /\ k.amount = k.remaining + SumOver(OrderIds, k.applied)
       /\ \A o \in k.todo : k.applied[o] = 0 /\ orders[o].reseller = k.reseller
       /\ \A o \in OrderIds : k.applied[o] > 0 => orders[o].reseller = k.reseller

RowAddsUp(row) ==
  row.account # None =>
    /\ row.amount = row.unapplied + SumOver(OrderIds, row.applied)
    /\ \A o \in OrderIds : row.applied[o] > 0 => orders[o].reseller = accounts[row.account].reseller

AllotInv ==
  /\ Blank
  /\ \A c \in Clients : Allots(call[c])
  /\ \A p \in Repayments :
       /\ RowAddsUp(repayments[p])
       /\ repayments[p].account # None => accounts[repayments[p].account].reseller # None

LEMMA OrdersAreFinite == IsFiniteSet(OrderIds)
BY FS_Interval DEF OrderIds

LEMMA NothingSums == SumOver(OrderIds, Nothing) = 0
BY OrdersAreFinite, SumZero DEF SumOver, Nothing

(* A handler that no step of its own has touched.                          *)
LEMMA AllotsKept ==
  ASSUME TypeInv, RefInv, AllotInv, NEW c \in Clients, Action(c), NEW d \in Clients,
         call'[d] = call[d]
  PROVE  Allots(call[d])'
<1> DEFINE k == call[d]
<1>0. /\ Allots(k) /\ k \in Handler
      /\ k.op \in {"repay", "allocate"} => k.account \in Accounts /\ k.reseller # None
  BY DEF AllotInv, TypeInv, WellFormed, HoldsItsRows
<1>1. k.op \in {"repay", "allocate"} => accounts'[k.account].reseller = k.reseller
  BY <1>0, AccountsStay DEF Allots
<1>2. ASSUME NEW o \in OrderIds, orders[o].reseller = k.reseller, k.op = "allocate"
      PROVE  orders'[o].reseller = k.reseller
  BY <1>0, <1>2, OrdersStay DEF AllotInv
<1>3. k.op = "allocate" => k.todo \in SUBSET OrderIds
  BY <1>0 DEF Handler
<1> QED BY <1>0, <1>1, <1>2, <1>3 DEF Allots

LEMMA AllotsAfter ==
  ASSUME TypeInv, RefInv, AllotInv, NEW c \in Clients, Action(c)
  PROVE  \A d \in Clients : Allots(call[d])'
<1> SUFFICES ASSUME NEW d \in Clients, d = c, call'[c] # call[c],
                    call'[c].op \in {"repay", "allocate"}
             PROVE  Allots(call[d])'
  <2>1. ASSUME NEW d \in Clients, call'[d].op \notin {"repay", "allocate"} PROVE Allots(call[d])'
    BY <2>1 DEF Allots
  <2>2. OthersStay(c) \/ UNCHANGED call
    BY LimitFindMoves, ReserveReadMoves, ReserveCommitMoves, FailureMoves, ReleaseReadMoves,
       RepayReadMoves, RepayOrdersMoves, AllocateMoves, RepayCommitMoves, RefreshReadMoves,
       RefreshWriteMoves, CrashMoves, Returns
    DEF Action, CreateCreditAccount, LimitWrite, CreateOrder, ReleaseCommit, CreateDirectOrder,
        CancelOrder, FulfillOrder, SetStatus
  <2>3. ASSUME NEW d \in Clients, d # c PROVE call'[d] = call[d]
    BY <2>2, <2>3 DEF OthersStay
  <2> QED BY <2>1, <2>3, AllotsKept
<1>1. RepayRead(c) \/ RepayOrders(c) \/ Allocate(c)
  BY LimitFindMoves, ReserveReadMoves, ReserveCommitMoves, FailureMoves, ReleaseReadMoves,
     RepayCommitMoves, RefreshReadMoves, RefreshWriteMoves, CrashMoves, Returns
  DEF Action, CreateCreditAccount, LimitWrite, CreateOrder, ReleaseCommit, CreateDirectOrder,
      CancelOrder, FulfillOrder, SetStatus
<1>2. CASE RepayRead(c)
  BY <1>2, RepayReadMoves DEF Allots, tables
<1>3. CASE RepayOrders(c)
  <2>1. call[c].applied = Nothing /\ Allots(call[c])
    BY <1>3, RepayOrdersMoves DEF AllotInv, RefInv, Fits
  <2>2. call[c].amount \in Nat
    BY DEF TypeInv, WellFormed, Handler
  <2>3. call'[c].amount = call'[c].remaining + SumOver(OrderIds, call'[c].applied)
    BY <1>3, <2>1, <2>2, RepayOrdersMoves, NothingSums DEF Allots
  <2>4. \A o \in call'[c].todo : o \in OrderIds /\ orders[o].reseller = call'[c].reseller
    BY <1>3, RepayOrdersMoves DEF OpenOrders
  <2>5. \A o \in OrderIds : call'[c].applied[o] = 0
    BY <1>3, <2>1, RepayOrdersMoves DEF Nothing
  <2>6. accounts'[call'[c].account].reseller = call'[c].reseller /\ orders' = orders
    BY <1>3, <2>1, RepayOrdersMoves DEF Allots, tables
  <2>7. call'[c].op = "allocate"
    BY <1>3, RepayOrdersMoves
  <2> QED BY <2>3, <2>4, <2>5, <2>6, <2>7 DEF Allots
<1>4. CASE Allocate(c)
  <2>1. Allots(call[c]) /\ call[c].op = "allocate" /\ call[c] \in Handler
    BY <1>4, AllocateMoves DEF AllotInv, TypeInv, WellFormed
  <2>2. PICK o \in call[c].todo :
              /\ o \in OrderIds /\ \A p \in call[c].todo : o <= p
              /\ call'[c].todo = call[c].todo \ {o}
              /\ call'[c].applied[o] = Share(call[c], o)
              /\ \A p \in OrderIds : p # o => call'[c].applied[p] = call[c].applied[p]
              /\ call'[c].remaining = call[c].remaining - Share(call[c], o)
    BY <1>4, AllocateMoves
  <2>3. Share(call[c], o) \in Nat /\ call[c].remaining \in Nat
    BY <2>1, <2>2, ShareTyped DEF TypeInv, Handler
  <2>4. /\ call'[c].op = "allocate" /\ call'[c].account = call[c].account
        /\ call'[c].reseller = call[c].reseller /\ call'[c].amount = call[c].amount
        /\ accounts' = accounts /\ orders' = orders
    BY <1>4, AllocateMoves DEF tables
  <2>5. \A p \in OrderIds : call[c].applied[p] \in Nat /\ call'[c].applied[p] \in Nat
    BY <2>1, <2>2, <2>3 DEF Handler, Allocation
  <2>6. SumOver(OrderIds, call'[c].applied)
          = SumOver(OrderIds, call[c].applied) - call[c].applied[o] + call'[c].applied[o]
    <3>1. PICK f, g : f = call[c].applied /\ g = call'[c].applied
      OBVIOUS
    <3>2. \A y \in OrderIds : f[y] \in Int /\ g[y] \in Int
      BY <2>5, <3>1
    <3>3. \A y \in OrderIds \ {o} : g[y] = f[y]
      BY <2>2, <3>1
    <3>4. SumFunctionOnSet(g, OrderIds) = SumFunctionOnSet(f, OrderIds) - f[o] + g[o]
      BY <2>2, <3>2, <3>3, OrdersAreFinite, SumChange
    <3> QED BY <3>1, <3>4 DEF SumOver
  <2>7. SumOver(OrderIds, call[c].applied) \in Nat
    BY <2>5, OrdersAreFinite, SumType DEF SumOver
  <2>8. call[c].applied[o] = 0 /\ orders[o].reseller = call[c].reseller
    BY <2>1, <2>2 DEF Allots
  <2>9. call'[c].amount = call'[c].remaining + SumOver(OrderIds, call'[c].applied)
    BY <2>1, <2>2, <2>3, <2>4, <2>6, <2>7, <2>8 DEF Allots
  <2>10. \A p \in call'[c].todo : call'[c].applied[p] = 0 /\ orders'[p].reseller = call'[c].reseller
    <3>1. \A p \in call'[c].todo : p \in OrderIds /\ p # o /\ p \in call[c].todo
      BY <2>1, <2>2 DEF Handler
    <3> QED BY <2>1, <2>2, <2>4, <3>1 DEF Allots
  <2>11. \A p \in OrderIds : call'[c].applied[p] > 0 => orders'[p].reseller = call'[c].reseller
    BY <2>1, <2>2, <2>4, <2>8 DEF Allots
  <2> QED BY <2>1, <2>4, <2>9, <2>10, <2>11 DEF Allots
<1> QED BY <1>1, <1>2, <1>3, <1>4

LEMMA RowsAfter ==
  ASSUME TypeInv, RefInv, AllotInv, NEW c \in Clients, Action(c)
  PROVE  Blank' /\ \A p \in Repayments :
       /\ RowAddsUp(repayments[p])'
       /\ repayments'[p].account # None => accounts'[repayments'[p].account].reseller # None
<1>1. ASSUME NEW p \in Repayments, repayments'[p] = repayments[p]
      PROVE  /\ RowAddsUp(repayments[p])'
             /\ repayments'[p].account # None => accounts'[repayments'[p].account].reseller # None
             /\ repayments'[p].account = None =>
                  repayments'[p].applied = Nothing /\ repayments'[p].unapplied = 0
  <2>1. repayments[p] \in RepaymentRow /\ RowAddsUp(repayments[p])
    BY DEF AllotInv, TypeInv, TypeOK
  <2>2. repayments[p].account # None =>
          /\ repayments[p].account \in Accounts /\ accounts[repayments[p].account].reseller # None
          /\ accounts'[repayments[p].account].reseller = accounts[repayments[p].account].reseller
    BY <2>1, AccountsStay DEF AllotInv, RepaymentRow
  <2>3. \A o \in OrderIds : orders[o].reseller # None => orders'[o].reseller = orders[o].reseller
    BY OrdersStay DEF AllotInv
  <2>4. RowAddsUp(repayments[p])'
    BY <1>1, <2>1, <2>2, <2>3 DEF RowAddsUp
  <2> QED BY <1>1, <2>2, <2>4 DEF AllotInv, Blank
<1>2. \A o \in OrderIds : orders'[o].status = "absent" =>
        orders'[o].reseller = None /\ orders'[o].total = 0 /\ orders'[o].paid = 0
  BY OrdersStay DEF AllotInv
<1>3. CASE ~RepayCommit(c)
  <2>1. repayments' = repayments
    BY <1>3, RepaymentsStay
  <2> QED BY <1>1, <1>2, <2>1 DEF Blank
<1>4. CASE RepayCommit(c)
  <2>1. PICK p \in Repayments :
              /\ repayments[p].account = None
              /\ repayments'[p].account = call[c].account
              /\ repayments'[p].amount = call[c].amount
              /\ repayments'[p].unapplied = call[c].remaining
              /\ repayments'[p].applied = call[c].applied
              /\ \A q \in Repayments : q # p => repayments'[q] = repayments[q]
    BY <1>4, RepayCommitMoves
  <2>2. /\ Allots(call[c]) /\ call[c].op = "allocate" /\ call[c].account \in Accounts
        /\ call[c].reseller # None /\ call[c].account # None
    BY <1>4 DEF AllotInv, RepayCommit, TypeInv, WellFormed, HoldsItsRows
  <2>3. accounts'[call[c].account].reseller = call[c].reseller
    BY <2>2, AccountsStay DEF Allots
  <2>4. \A o \in OrderIds : orders[o].reseller = call[c].reseller => orders'[o].reseller = call[c].reseller
    BY <2>2, OrdersStay DEF AllotInv
  <2>5. RowAddsUp(repayments[p])'
    BY <2>1, <2>2, <2>3, <2>4 DEF RowAddsUp, Allots
  <2>6. repayments'[p].account # None /\ accounts'[repayments'[p].account].reseller # None
    BY <2>1, <2>2, <2>3
  <2> QED BY <1>1, <1>2, <2>1, <2>5, <2>6 DEF Blank
<1> QED BY <1>3, <1>4

LEMMA AllotsSteps == TypeInv /\ RefInv /\ AllotInv /\ [Next]_vars => AllotInv'
<1> SUFFICES ASSUME TypeInv, RefInv, AllotInv, [Next]_vars PROVE AllotInv'
  OBVIOUS
<1>1. CASE UNCHANGED vars
  BY <1>1 DEF vars, AllotInv, Blank, Allots, RowAddsUp
<1>2. CASE Next
  <2>1. PICK c \in Clients : Action(c)
    BY <1>2 DEF Next, Action
  <2> QED BY <2>1, AllotsAfter, RowsAfter DEF AllotInv
<1> QED BY <1>1, <1>2

LEMMA AllotsStart == Init => AllotInv
<1> SUFFICES ASSUME Init PROVE AllotInv
  OBVIOUS
<1>1. \A c \in Clients : Allots(call[c])
  BY IdleTyped DEF Init, Allots
<1>2. Blank
  BY DEF Init, Blank, NoOrder, NoRepayment
<1>3. \A p \in Repayments : repayments[p].account = None
  BY DEF Init, NoRepayment
<1> QED BY <1>1, <1>2, <1>3 DEF AllotInv, RowAddsUp

(* createRepayment: the arithmetic of every repayment, however many are in *)
(* flight.                                                                 *)
LEMMA AllotsHold == Spec => []AllotInv
BY AllotsStart, AllotsSteps, Typed, RefHolds, PTL DEF Spec

-----------------------------------------------------------------------------
(* One request at a time: what a handler has read still stands.            *)
OneClient == \A c, d \in Clients : c = d

(* createRepayment and the refresh: an order is never paid more than its   *)
(* total, and has been paid what the repayments allocated to it.           *)
NeverOverpaid == \A o \in OrderIds : orders[o].paid <= orders[o].total
PaidAddsUp == \A o \in OrderIds : orders[o].paid = SumFunction(AllocatedTo(o))
PaidInv == NeverOverpaid /\ PaidAddsUp

(* The loop over the open orders: it goes from the oldest to the newest,   *)
(* gives only to orders it has visited, and as long as money is left those *)
(* are paid in full; so are the older ones of any that was given money.    *)
Visited(k) == OpenOrders(k.reseller) \ k.todo
Full(k, o) == NextPaid(k, o) = orders[o].total

InOrder(k) ==
  /\ k.todo \subseteq OpenOrders(k.reseller)
  /\ \A p \in Visited(k), q \in k.todo : p < q
  /\ \A o \in OrderIds : k.applied[o] > 0 => o \in Visited(k)
  /\ k.remaining > 0 => \A p \in Visited(k) : Full(k, p)
  /\ \A o, p \in Visited(k) : p < o /\ k.applied[o] > 0 => Full(k, p)

Current(k) ==
  /\ k.op \in {"reserve", "release", "repay", "allocate"} =>
       accounts[k.account].reseller = k.reseller /\ k.seen = accounts[k.account].used
  /\ k.op = "reserve" => k.override \/ k.seen + k.amount <= accounts[k.account].limit
  /\ k.op = "order" =>
       /\ k.account \in Accounts /\ accounts[k.account].reseller = k.reseller
       /\ k.override \/ accounts[k.account].used <= accounts[k.account].limit
  /\ k.op = "repay" => k.applied = Nothing
  /\ k.op = "allocate" =>
       /\ InOrder(k)
       /\ \A o \in OrderIds : k.paid[o] = orders[o].paid
       /\ \A o \in OrderIds : k.applied[o] > 0 => NextPaid(k, o) <= orders[o].total
  /\ k.op = "refresh" => \A o \in k.todo : k.seen = orders[o].paid

CurrentInv == \A c \in Clients : Current(call[c])

(* One turn of the loop.                                                   *)
LEMMA LoopStaysInOrder ==
  ASSUME TypeInv, NeverOverpaid, NEW c \in Clients, Allocate(c), InOrder(call[c]),
         \A o \in OrderIds : call[c].paid[o] = orders[o].paid,
         \A o \in call[c].todo : call[c].applied[o] = 0
  PROVE  InOrder(call[c])'
<1> DEFINE k == call[c]
           n == call'[c]
<1>1. k \in Handler /\ k.remaining > 0
  BY DEF TypeInv, WellFormed, Allocate
<1>2. PICK o \in k.todo :
              /\ o \in OrderIds /\ \A p \in k.todo : o <= p
              /\ n.todo = k.todo \ {o}
              /\ n.applied[o] = Share(k, o)
              /\ \A p \in OrderIds : p # o => n.applied[p] = k.applied[p]
              /\ n.remaining = k.remaining - Share(k, o)
  BY AllocateMoves
<1>3. n.reseller = k.reseller /\ n.paid = k.paid /\ orders' = orders
  BY AllocateMoves DEF tables
<1>4. PICK open : open = OpenOrders(k.reseller)
  OBVIOUS
<1>5. OpenOrders(call[c].reseller)' = open /\ open \subseteq OrderIds
  BY <1>3, <1>4 DEF OpenOrders, OrderIds
<1>6. PICK old, new : old = open \ k.todo /\ new = open \ n.todo
  OBVIOUS
<1>7. Visited(k) = old /\ Visited(call[c])' = new /\ new = old \cup {o} /\ o \notin old
  BY <1>2, <1>4, <1>5, <1>6 DEF Visited, InOrder
<1>8. /\ n.todo \subseteq open /\ k.todo \subseteq open
      /\ \A p \in new, q \in n.todo : p < q
  <2>1. ASSUME NEW p \in new, NEW q \in n.todo PROVE p < q
    <3>1. p \in Int /\ q \in Int /\ o <= q /\ q # o /\ o \in Int
      BY <1>1, <1>2, <1>5, <1>6 DEF Handler, OrderIds
    <3> QED BY <1>2, <1>7, <3>1 DEF InOrder
  <2> QED BY <1>2, <1>4, <2>1 DEF InOrder
<1>9. \A p \in OrderIds : n.applied[p] > 0 => p \in new
  BY <1>2, <1>7 DEF InOrder
<1>10. \A p \in old : Full(k, p) /\ Full(call[c], p)'
  <2>1. ASSUME NEW p \in old PROVE Full(k, p) /\ Full(call[c], p)'
    <3>1. p \in OrderIds /\ p # o
      BY <1>5, <1>6, <1>7
    <3>2. Full(k, p)
      BY <1>1, <1>7 DEF InOrder
    <3>3. NextPaid(call[c], p)' = NextPaid(k, p) /\ orders'[p] = orders[p]
      BY <1>2, <1>3, <3>1 DEF NextPaid
    <3> QED BY <3>2, <3>3 DEF Full
  <2> QED BY <2>1
<1>11. n.remaining > 0 => Full(call[c], o)'
  <2> SUFFICES ASSUME n.remaining > 0 PROVE Full(call[c], o)'
    OBVIOUS
  <2>1. /\ orders[o].total \in Nat /\ orders[o].paid \in Nat /\ k.remaining \in Nat
        /\ orders[o].paid <= orders[o].total /\ k.paid[o] = orders[o].paid
    BY <1>1, <1>2, OrderTyped DEF TypeInv, NeverOverpaid, Handler
  <2>2. Share(k, o) = orders[o].total - orders[o].paid
    BY <1>2, <2>1 DEF Share
  <2> QED BY <1>2, <1>3, <2>1, <2>2 DEF Full, NextPaid
<1>12. \A q, p \in new : p < q /\ n.applied[q] > 0 => Full(call[c], p)'
  <2> SUFFICES ASSUME NEW q \in new, NEW p \in new, p < q, n.applied[q] > 0 PROVE Full(call[c], p)'
    OBVIOUS
  <2>1. CASE p \in old
    BY <1>10, <2>1
  <2>2. CASE p = o
    <3>1. q \in old
      BY <1>2, <1>7, <2>2 DEF OrderIds
    <3>2. q < o
      BY <1>2, <1>7, <3>1 DEF InOrder
    <3>3. q \in Int /\ o \in Int
      BY <1>2, <1>5, <1>6 DEF OrderIds
    <3> QED BY <2>2, <3>2, <3>3
  <2> QED BY <1>7, <2>1, <2>2
<1>13. n.remaining > 0 => \A p \in new : Full(call[c], p)'
  BY <1>7, <1>10, <1>11
<1> QED BY <1>5, <1>7, <1>8, <1>9, <1>12, <1>13 DEF InOrder

LEMMA CurrentAfter ==
  ASSUME OneClient, TypeInv, AllotInv, PaidInv, CurrentInv, NEW c \in Clients, Action(c)
  PROVE  CurrentInv'
<1> SUFFICES ASSUME call'[c].op \in {"reserve", "release", "repay", "allocate", "order", "refresh"}
             PROVE  Current(call[c])'
  BY DEF OneClient, CurrentInv, Current
<1>0. TypeOK /\ Current(call[c]) /\ call[c] \in WellFormed
  BY DEF TypeInv, CurrentInv
<1>1. \/ ReserveRead(c) \/ ReserveCommit(c) \/ ReleaseRead(c)
      \/ RepayRead(c) \/ RepayOrders(c) \/ Allocate(c) \/ RefreshRead(c)
  BY LimitFindMoves, FailureMoves, RepayCommitMoves, RefreshWriteMoves, CrashMoves, Returns
  DEF Action, CreateCreditAccount, LimitWrite, CreateOrder, ReleaseCommit, CreateDirectOrder,
      CancelOrder, FulfillOrder, SetStatus
<1>2. CASE ReserveRead(c)
  <2>1. PICK a \in Accounts :
              /\ call'[c].op = "reserve" /\ call'[c].account = a
              /\ call'[c].reseller = accounts[a].reseller /\ call'[c].seen = accounts[a].used
              /\ call'[c].amount \in Nat
              /\ call'[c].override \/ accounts[a].limit - accounts[a].used >= call'[c].amount
    BY <1>2, ReserveReadMoves
  <2>2. accounts' = accounts
    BY <1>2, ReserveReadMoves DEF tables
  <2>3. accounts[a].used \in Nat /\ accounts[a].limit \in Nat
    BY <1>0, AccountTyped
  <2>4. call'[c].override \/ call'[c].seen + call'[c].amount <= accounts'[a].limit
    BY <2>1, <2>2, <2>3
  <2> QED BY <2>1, <2>2, <2>4 DEF Current
<1>3. CASE ReserveCommit(c)
  <2>1. /\ call[c].op = "reserve" /\ call[c].account \in Accounts
        /\ accounts' = [accounts EXCEPT ![call[c].account].used = call[c].seen + call[c].amount]
    BY <1>0, <1>3 DEF ReserveCommit, WellFormed, HoldsItsRows
  <2>2. Uses(call[c].account, call[c].seen + call[c].amount)
    BY <1>0, <2>1, UsesOne
  <2> QED BY <1>0, <1>3, <2>1, <2>2, ReserveCommitMoves DEF Current, Uses
<1>4. CASE ReleaseRead(c)
  BY <1>4, ReleaseReadMoves DEF tables, Current
<1>5. CASE RepayRead(c)
  BY <1>5, RepayReadMoves DEF tables, Current
<1>6. CASE RepayOrders(c)
  <2>1. /\ call[c].op = "repay" /\ call[c].applied = Nothing
        /\ accounts[call[c].account].reseller = call[c].reseller
        /\ call[c].seen = accounts[call[c].account].used
    BY <1>0, <1>6, RepayOrdersMoves DEF Current
  <2>2. /\ call'[c].todo = OpenOrders(call[c].reseller) /\ call'[c].reseller = call[c].reseller
        /\ orders' = orders /\ accounts' = accounts /\ call'[c].applied = Nothing
    BY <1>6, <2>1, RepayOrdersMoves DEF tables
  <2>3. OpenOrders(call[c].reseller)' = call'[c].todo
    BY <2>2 DEF OpenOrders, OrderIds
  <2>4. Visited(call[c])' = {}
    BY <2>3 DEF Visited
  <2>5. \A o \in OrderIds : ~(call'[c].applied[o] > 0)
    BY <2>2 DEF Nothing
  <2>6. InOrder(call[c])'
    BY <2>3, <2>4, <2>5 DEF InOrder
  <2> QED BY <1>6, <2>1, <2>2, <2>5, <2>6, RepayOrdersMoves DEF Current
<1>7. CASE Allocate(c)
  <2>1. call[c].op = "allocate" /\ InOrder(call[c]) /\ \A o \in OrderIds : call[c].paid[o] = orders[o].paid
    BY <1>0, <1>7, AllocateMoves DEF Current
  <2>2. \A o \in call[c].todo : call[c].applied[o] = 0
    BY <2>1 DEF AllotInv, Allots
  <2>3. InOrder(call[c])'
    BY <1>7, <2>1, <2>2, LoopStaysInOrder DEF PaidInv
  <2>4. /\ call'[c].op = "allocate" /\ call'[c].account = call[c].account
        /\ call'[c].reseller = call[c].reseller /\ call'[c].seen = call[c].seen
        /\ call'[c].paid = call[c].paid /\ orders' = orders /\ accounts' = accounts
    BY <1>7, AllocateMoves DEF tables
  <2>5. ASSUME NEW p \in OrderIds, call'[c].applied[p] > 0
        PROVE  NextPaid(call[c], p)' <= orders'[p].total
    <3>1. PICK o \in OrderIds :
                /\ call'[c].applied[o] = Share(call[c], o)
                /\ \A q \in OrderIds : q # o => call'[c].applied[q] = call[c].applied[q]
      BY <1>7, AllocateMoves
    <3>2. CASE p = o
      BY <1>0, <2>4, <2>5, <3>1, <3>2, ShareTyped DEF NextPaid, WellFormed
    <3>3. CASE p # o
      <4>1. call'[c].applied[p] = call[c].applied[p]
        BY <3>1, <3>3
      <4> QED BY <1>0, <2>1, <2>4, <2>5, <4>1 DEF NextPaid, Current
    <3> QED BY <3>2, <3>3
  <2> QED BY <1>0, <2>1, <2>3, <2>4, <2>5 DEF Current
<1>8. CASE RefreshRead(c)
  <2>1. PICK o \in OrderIds :
            call'[c].op = "refresh" /\ call'[c].todo = {o} /\ call'[c].seen = Allocated(o)
    BY <1>8, RefreshReadMoves
  <2>2. orders' = orders
    BY <1>8, RefreshReadMoves DEF tables
  <2>3. Allocated(o) = orders[o].paid
    BY <1>0, AllocatedIs DEF PaidInv, PaidAddsUp
  <2> QED BY <2>1, <2>2, <2>3 DEF Current
<1> QED BY <1>1, <1>2, <1>3, <1>4, <1>5, <1>6, <1>7, <1>8

(* Every other step leaves what is paid, and the repayments, alone.        *)
LEMMA OthersPayNothing ==
  ASSUME TypeInv, RefInv, AllotInv, CurrentInv, NEW c \in Clients, Action(c), ~RepayCommit(c)
  PROVE  /\ \A o \in OrderIds : orders'[o].paid = orders[o].paid
         /\ repayments' = repayments
<1>1. repayments' = repayments
  BY RepaymentsStay
<1>2. OrdersMove(c)
  BY StepMovesOrders
<1>3. CASE orders' = orders
  BY <1>1, <1>3
<1>4. CASE Relabels
  BY <1>1, <1>4 DEF Relabels
<1>5. ASSUME NEW o \in OrderIds, NEW r, NEW n, Orders(o, r, n)
      PROVE  \A p \in OrderIds : orders'[p].paid = orders[p].paid
  BY <1>5 DEF Orders, AllotInv, Blank
<1>6. CASE RefreshWrite(c)
  BY <1>1, <1>6, RefreshWriteMoves DEF CurrentInv, Current
<1> QED BY <1>1, <1>2, <1>3, <1>4, <1>5, <1>6 DEF OrdersMove

LEMMA NotPaidMore ==
  ASSUME TypeInv, RefInv, AllotInv, PaidInv, CurrentInv, NEW c \in Clients, Action(c)
  PROVE  NeverOverpaid'
<1>1. OrdersMove(c)
  BY StepMovesOrders
<1>2. CASE orders' = orders
  BY <1>2 DEF PaidInv, NeverOverpaid
<1>3. CASE Relabels
  BY <1>3 DEF Relabels, PaidInv, NeverOverpaid
<1>4. ASSUME NEW o \in OrderIds, NEW r, NEW n \in Nat, Orders(o, r, n)
      PROVE  NeverOverpaid'
  BY <1>4 DEF Orders, PaidInv, NeverOverpaid
<1>5. CASE RepayCommit(c)
  <2>1. \A o \in OrderIds :
          /\ orders'[o].total = orders[o].total
          /\ orders'[o].paid = IF call[c].applied[o] > 0 THEN NextPaid(call[c], o)
                                                         ELSE orders[o].paid
    BY <1>5, RepayCommitMoves
  <2>2. \A o \in OrderIds : call[c].applied[o] > 0 => NextPaid(call[c], o) <= orders[o].total
    BY <1>5 DEF CurrentInv, Current, RepayCommit
  <2> QED BY <2>1, <2>2 DEF PaidInv, NeverOverpaid
<1>6. CASE RefreshWrite(c)
  <2>1. \A o \in OrderIds : orders'[o].total = orders[o].total /\ orders'[o].paid = orders[o].paid
    BY <1>6, RefreshWriteMoves DEF CurrentInv, Current
  <2> QED BY <2>1 DEF PaidInv, NeverOverpaid
<1> QED BY <1>1, <1>2, <1>3, <1>4, <1>5, <1>6 DEF OrdersMove

LEMMA PaidAfterCommit ==
  ASSUME TypeInv, TypeOK', AllotInv, CurrentInv, PaidAddsUp, NEW c \in Clients, RepayCommit(c)
  PROVE  PaidAddsUp'
<1> SUFFICES ASSUME NEW o \in OrderIds PROVE orders'[o].paid = SumFunction(AllocatedTo(o)')
  BY DEF PaidAddsUp
<1>1. PICK p \in Repayments :
              /\ repayments[p].account = None
              /\ repayments'[p].applied = call[c].applied
              /\ \A q \in Repayments : q # p => repayments'[q] = repayments[q]
  BY RepayCommitMoves
<1>2. PICK f, g : f = AllocatedTo(o) /\ g = AllocatedTo(o)'
  OBVIOUS
<1>3. f \in [Repayments -> Nat] /\ g \in [Repayments -> Nat]
  BY <1>2, AllocatedTyped DEF TypeInv, AllocatedTo, TypeOK, RepaymentRow, Allocation
<1>4. f[p] = 0
  BY <1>1, <1>2 DEF AllocatedTo, AllotInv, Blank, Nothing
<1>5. \A q \in Repayments : q # p => g[q] = f[q]
  BY <1>1, <1>2 DEF AllocatedTo
<1>6. g[p] = call[c].applied[o]
  BY <1>1, <1>2 DEF AllocatedTo
<1>7. SumFunction(g) = SumFunction(f) + g[p]
  BY <1>3, <1>4, <1>5, OneMoreTerm
<1>8. orders'[o].paid = IF call[c].applied[o] > 0 THEN NextPaid(call[c], o) ELSE orders[o].paid
  BY RepayCommitMoves
<1>9. call[c].paid[o] = orders[o].paid /\ call[c].applied[o] \in Nat /\ orders[o].paid \in Nat
  BY OrderTyped DEF CurrentInv, Current, RepayCommit, TypeInv, WellFormed, Handler, Allocation
<1>10. orders'[o].paid = orders[o].paid + call[c].applied[o]
  BY <1>8, <1>9 DEF NextPaid
<1>11. orders[o].paid = SumFunction(f)
  BY <1>2 DEF PaidAddsUp
<1> QED BY <1>2, <1>6, <1>7, <1>10, <1>11

LEMMA SteadyHolds == OneClient => (Spec => [](PaidInv /\ CurrentInv))
<1> SUFFICES ASSUME OneClient PROVE Spec => [](PaidInv /\ CurrentInv)
  OBVIOUS
<1>1. Init => PaidInv /\ CurrentInv
  <2> SUFFICES ASSUME Init PROVE PaidInv /\ CurrentInv
    OBVIOUS
  <2>1. CurrentInv
    BY IdleTyped DEF Init, CurrentInv, Current
  <2>2. NeverOverpaid
    BY DEF Init, NoOrder, NeverOverpaid
  <2>3. ASSUME NEW o \in OrderIds PROVE orders[o].paid = SumFunction(AllocatedTo(o))
    <3>1. PICK f : f = AllocatedTo(o)
      OBVIOUS
    <3>2. f \in [Repayments -> Int] /\ \A p \in Repayments : f[p] = 0
      BY <3>1 DEF AllocatedTo, Init, NoRepayment, Nothing
    <3>3. SumFunction(f) = 0
      BY <3>2, TotalZero, FiniteAssumption
    <3> QED BY <3>1, <3>3 DEF Init, NoOrder
  <2> QED BY <2>1, <2>2, <2>3 DEF PaidInv, PaidAddsUp
<1>2. /\ TypeInv /\ TypeInv' /\ RefInv /\ AllotInv /\ PaidInv /\ CurrentInv /\ [Next]_vars
      => PaidInv' /\ CurrentInv'
  <2> SUFFICES ASSUME TypeInv, TypeInv', RefInv, AllotInv, PaidInv, CurrentInv, [Next]_vars
               PROVE  PaidInv' /\ CurrentInv'
    OBVIOUS
  <2>1. CASE UNCHANGED vars
    <3>1. CurrentInv'
      BY <2>1 DEF vars, CurrentInv, Current, InOrder, Visited, OpenOrders, Full, NextPaid
    <3>2. PaidInv'
      BY <2>1 DEF vars, PaidInv, NeverOverpaid, PaidAddsUp, AllocatedTo
    <3> QED BY <3>1, <3>2
  <2>2. CASE Next
    <3>1. PICK c \in Clients : Action(c)
      BY <2>2 DEF Next, Action
    <3>2. CASE RepayCommit(c)
      <4>1. PaidAddsUp'
        BY <3>2, PaidAfterCommit DEF TypeInv, PaidInv
      <4> QED BY <3>1, <4>1, NotPaidMore, CurrentAfter DEF PaidInv
    <3>3. CASE ~RepayCommit(c)
      <4>1. (\A o \in OrderIds : orders'[o].paid = orders[o].paid) /\ repayments' = repayments
        BY <3>1, <3>3, OthersPayNothing
      <4>2. PaidAddsUp'
        BY <4>1 DEF PaidInv, PaidAddsUp, AllocatedTo
      <4> QED BY <3>1, <4>2, NotPaidMore, CurrentAfter DEF PaidInv
    <3> QED BY <3>2, <3>3
  <2> QED BY <2>1, <2>2
<1> QED BY <1>1, <1>2, Typed, RefHolds, AllotsHold, PTL DEF Spec

LEMMA PaidHolds == OneClient => (Spec => []PaidInv)
BY SteadyHolds, PTL

LEMMA CurrentHolds == OneClient => (Spec => []CurrentInv)
BY SteadyHolds, PTL

-----------------------------------------------------------------------------
(* createRepayment: oldest first, when no other request comes between.     *)
LEMMA CommitsOldestFirst ==
  ASSUME TypeInv, PaidInv, AllotInv, CurrentInv, NEW c \in Clients, RepayCommit(c)
  PROVE  /\ \A o, p \in OrderIds :
              /\ orders'[o].paid > orders[o].paid
              /\ p < o
              /\ p \in OpenOrders(orders[o].reseller)
              => orders'[p].paid = orders'[p].total
         /\ \A p \in Repayments :
              /\ repayments[p].account = None
              /\ repayments'[p].unapplied > 0
              => \A o \in OpenOrders(accounts[repayments'[p].account].reseller) :
                   orders'[o].paid = orders'[o].total
<1> DEFINE k == call[c]
<1>1. /\ k.op = "allocate" /\ InOrder(k) /\ Allots(k) /\ k \in Handler
      /\ k.todo = {} \/ k.remaining <= 0
      /\ \A o \in OrderIds : k.paid[o] = orders[o].paid
  BY DEF CurrentInv, Current, AllotInv, RepayCommit, TypeInv, WellFormed
<1>2. \A o \in OrderIds :
        /\ orders'[o].total = orders[o].total
        /\ orders'[o].paid = IF k.applied[o] > 0 THEN NextPaid(k, o) ELSE orders[o].paid
  BY RepayCommitMoves
<1>3. ASSUME NEW p \in OrderIds, Full(k, p) PROVE orders'[p].paid = orders'[p].total
  <2>1. k.applied[p] \in Nat /\ orders[p].paid \in Nat
    BY <1>1, OrderTyped DEF Handler, Allocation, TypeInv
  <2> QED BY <1>1, <1>2, <1>3, <2>1 DEF Full, NextPaid
<1>4. ASSUME NEW o \in OrderIds, NEW p \in OrderIds, orders'[o].paid > orders[o].paid, p < o,
             p \in OpenOrders(orders[o].reseller)
      PROVE  orders'[p].paid = orders'[p].total
  <2>1. orders[o].paid \in Nat
    BY OrderTyped DEF TypeInv
  <2>2. k.applied[o] > 0
    BY <1>2, <1>4, <2>1
  <2>3. o \in Visited(k) /\ orders[o].reseller = k.reseller
    BY <1>1, <2>2 DEF InOrder, Allots
  <2>4. p \in Visited(k)
    <3>1. p \notin k.todo
      <4>1. p \in k.todo => o < p
        BY <1>1, <2>3 DEF InOrder
      <4> QED BY <1>4, <4>1 DEF OrderIds
    <3> QED BY <1>4, <2>3, <3>1 DEF Visited
  <2>5. Full(k, p)
    BY <1>1, <1>4, <2>2, <2>3, <2>4 DEF InOrder
  <2> QED BY <1>3, <2>5
<1>5. ASSUME NEW p \in Repayments, repayments[p].account = None, repayments'[p].unapplied > 0
      PROVE  \A o \in OpenOrders(accounts[repayments'[p].account].reseller) :
                   orders'[o].paid = orders'[o].total
  <2>1. /\ repayments'[p].account = k.account
        /\ repayments'[p].unapplied = k.remaining
    <3>1. PICK q \in Repayments :
              /\ repayments'[q].account = k.account /\ repayments'[q].unapplied = k.remaining
              /\ \A x \in Repayments : x # q => repayments'[x] = repayments[x]
      BY RepayCommitMoves
    <3>2. p # q => repayments'[p].unapplied = 0
      BY <1>5, <3>1 DEF AllotInv, Blank
    <3> QED BY <1>5, <3>1, <3>2
  <2>2. k.remaining > 0 /\ k.todo = {}
    BY <1>1, <1>5, <2>1 DEF Handler
  <2>3. accounts[repayments'[p].account].reseller = k.reseller
    BY <1>1, <2>1 DEF Allots
  <2>4. \A o \in OpenOrders(k.reseller) : o \in OrderIds /\ Full(k, o)
    BY <1>1, <2>2 DEF InOrder, Visited, OpenOrders
  <2> QED BY <1>3, <2>3, <2>4
<1> QED BY <1>4, <1>5

(* createRepayment pays the oldest open orders first and leaves nothing    *)
(* unapplied while one still owes, when one request is served at a time.   *)
THEOREM OldestPaidFirst == OneClient => (Spec => OldestFirst)
<1> SUFFICES ASSUME OneClient PROVE Spec => OldestFirst
  OBVIOUS
<1> DEFINE First2 ==
     /\ \A o, p \in OrderIds :
          /\ orders'[o].paid > orders[o].paid
          /\ p < o
          /\ p \in OpenOrders(orders[o].reseller)
          => orders'[p].paid = orders'[p].total
     /\ \A p \in Repayments :
          /\ repayments[p].account = None
          /\ repayments'[p].unapplied > 0
          => \A o \in OpenOrders(accounts[repayments'[p].account].reseller) :
               orders'[o].paid = orders'[o].total
<1>1. TypeInv /\ RefInv /\ PaidInv /\ AllotInv /\ CurrentInv /\ [Next]_vars => [First2]_vars
  <2> SUFFICES ASSUME TypeInv, RefInv, PaidInv, AllotInv, CurrentInv, Next PROVE First2
    OBVIOUS
  <2>1. PICK c \in Clients : Action(c)
    BY DEF Next, Action
  <2>2. CASE RepayCommit(c)
    BY <2>2, CommitsOldestFirst
  <2>3. CASE ~RepayCommit(c)
    <3>1. (\A o \in OrderIds : orders'[o].paid = orders[o].paid) /\ repayments' = repayments
      BY <2>1, <2>3, OthersPayNothing
    <3>2. \A o \in OrderIds : orders[o].paid \in Nat
      BY OrderTyped DEF TypeInv
    <3>3. \A p \in Repayments : repayments[p].account = None => repayments[p].unapplied = 0
      BY DEF AllotInv, Blank
    <3> QED BY <3>1, <3>2, <3>3
  <2> QED BY <2>2, <2>3
<1>2. Spec => [][First2]_vars
  BY <1>1, Typed, RefHolds, PaidHolds, AllotsHold, CurrentHolds, PTL DEF Spec
<1> QED BY <1>2 DEF OldestFirst

-----------------------------------------------------------------------------
(* Repayments and refreshes that overlap: an order never shows more paid   *)
(* than it has been allocated, because whatever a handler read before was  *)
(* no more than that, and allocations are only ever added.                 *)
Backs(k) ==
  /\ k.op = "allocate" => \A o \in OrderIds : k.paid[o] <= SumFunction(AllocatedTo(o))
  /\ k.op = "refresh" => \A o \in k.todo : k.seen <= SumFunction(AllocatedTo(o))

BackInv ==
  /\ \A o \in OrderIds : orders[o].paid <= SumFunction(AllocatedTo(o))
  /\ \A c \in Clients : Backs(call[c])

LEMMA AllocatedGrows ==
  ASSUME TypeInv, TypeInv', AllotInv, NEW c \in Clients, Action(c), NEW o \in OrderIds
  PROVE  /\ SumFunction(AllocatedTo(o)) \in Nat /\ SumFunction(AllocatedTo(o))' \in Nat
         /\ RepayCommit(c) =>
              SumFunction(AllocatedTo(o))' = SumFunction(AllocatedTo(o)) + call[c].applied[o]
         /\ ~RepayCommit(c) => SumFunction(AllocatedTo(o))' = SumFunction(AllocatedTo(o))
<1>1. PICK f, g : f = AllocatedTo(o) /\ g = AllocatedTo(o)'
  OBVIOUS
<1>2. f \in [Repayments -> Nat] /\ g \in [Repayments -> Nat]
  BY <1>1, AllocatedTyped DEF TypeInv, AllocatedTo, TypeOK, RepaymentRow, Allocation
<1>3. SumFunction(f) \in Nat /\ SumFunction(g) \in Nat
  BY <1>2, FiniteAssumption, TotalType
<1>4. CASE RepayCommit(c)
  <2>1. PICK p \in Repayments :
              /\ repayments[p].account = None
              /\ repayments'[p].applied = call[c].applied
              /\ \A q \in Repayments : q # p => repayments'[q] = repayments[q]
    BY <1>4, RepayCommitMoves
  <2>2. f[p] = 0
    BY <1>1, <2>1 DEF AllocatedTo, AllotInv, Blank, Nothing
  <2>3. \A q \in Repayments : q # p => g[q] = f[q]
    BY <1>1, <2>1 DEF AllocatedTo
  <2>4. g[p] = call[c].applied[o]
    BY <1>1, <2>1 DEF AllocatedTo
  <2>5. SumFunction(g) = SumFunction(f) + g[p]
    BY <1>2, <2>2, <2>3, OneMoreTerm
  <2> QED BY <1>1, <1>3, <1>4, <2>4, <2>5
<1>5. CASE ~RepayCommit(c)
  <2>1. repayments' = repayments
    BY <1>5, RepaymentsStay
  <2>2. f = g
    BY <1>1, <2>1 DEF AllocatedTo
  <2> QED BY <1>1, <1>3, <1>5, <2>2
<1> QED BY <1>4, <1>5

LEMMA OrdersBacked ==
  ASSUME TypeInv, TypeInv', RefInv, AllotInv, BackInv, NEW c \in Clients, Action(c),
         NEW o \in OrderIds
  PROVE  orders'[o].paid <= SumFunction(AllocatedTo(o))'
<1>1. PICK s, t : s = SumFunction(AllocatedTo(o)) /\ t = SumFunction(AllocatedTo(o))'
  OBVIOUS
<1>2. s \in Nat /\ t \in Nat
  BY <1>1, AllocatedGrows
<1>3. orders[o].paid \in Nat /\ orders[o].paid <= s /\ call[c] \in Handler
  BY <1>1, OrderTyped DEF BackInv, TypeInv, WellFormed
<1>4. CASE RepayCommit(c)
  <2>1. orders'[o].paid = IF call[c].applied[o] > 0 THEN NextPaid(call[c], o) ELSE orders[o].paid
    BY <1>4, RepayCommitMoves
  <2>2. t = s + call[c].applied[o]
    BY <1>1, <1>4, AllocatedGrows
  <2>3. call[c].paid[o] <= s
    BY <1>1, <1>4 DEF BackInv, Backs, RepayCommit
  <2>4. call[c].applied[o] \in Nat /\ call[c].paid[o] \in Nat
    BY <1>3 DEF Handler, Allocation
  <2> QED BY <1>1, <1>2, <1>3, <2>1, <2>2, <2>3, <2>4 DEF NextPaid
<1>5. CASE ~RepayCommit(c)
  <2>1. t = s
    BY <1>1, <1>5, AllocatedGrows
  <2>2. CASE RefreshWrite(c)
    <3>1. orders'[o].paid = IF o \in call[c].todo THEN call[c].seen ELSE orders[o].paid
      BY <2>2, RefreshWriteMoves
    <3>2. o \in call[c].todo => call[c].seen <= s
      BY <1>1, <2>2 DEF BackInv, Backs, RefreshWrite
    <3> QED BY <1>1, <1>3, <2>1, <3>1, <3>2
  <2>3. CASE ~RefreshWrite(c)
    <3>1. OrdersMove(c)
      BY StepMovesOrders
    <3>2. ASSUME NEW p \in OrderIds, NEW r, NEW n, Orders(p, r, n)
          PROVE  orders'[o].paid = orders[o].paid
      BY <3>2 DEF Orders, AllotInv, Blank
    <3>3. orders'[o].paid = orders[o].paid
      BY <1>5, <2>3, <3>1, <3>2 DEF OrdersMove, Relabels
    <3> QED BY <1>1, <1>3, <2>1, <3>3
  <2> QED BY <2>2, <2>3
<1> QED BY <1>4, <1>5

(* Backs after the step, of a handler k that the step leaves or makes.     *)
BacksNext(k) ==
  /\ k.op = "allocate" => \A o \in OrderIds : k.paid[o] <= SumFunction(AllocatedTo(o))'
  /\ k.op = "refresh" => \A o \in k.todo : k.seen <= SumFunction(AllocatedTo(o))'

LEMMA HandlersBacked ==
  ASSUME TypeInv, TypeInv', AllotInv, BackInv, NEW c \in Clients, Action(c), NEW d \in Clients
  PROVE  BacksNext(call'[d])
<1>1. call[d] \in Handler /\ Backs(call[d])
  BY DEF TypeInv, WellFormed, BackInv
<1>2. ASSUME NEW n \in Nat, NEW o \in OrderIds, n <= SumFunction(AllocatedTo(o))
      PROVE  n <= SumFunction(AllocatedTo(o))'
  <2>1. PICK s, t : s = SumFunction(AllocatedTo(o)) /\ t = SumFunction(AllocatedTo(o))'
    OBVIOUS
  <2>2. s \in Nat /\ t \in Nat
    BY <2>1, AllocatedGrows
  <2>3. RepayCommit(c) => t = s + call[c].applied[o] /\ call[c].applied[o] \in Nat
    BY <2>1, AllocatedGrows DEF TypeInv, WellFormed, Handler, Allocation
  <2>4. ~RepayCommit(c) => t = s
    BY <2>1, AllocatedGrows
  <2>5. s <= t
    BY <2>2, <2>3, <2>4
  <2> QED BY <1>2, <2>1, <2>2, <2>5
<1>3. CASE call'[d] = call[d]
  <2>1. \A o \in OrderIds : call[d].paid[o] \in Nat
    BY <1>1 DEF Handler, Allocation
  <2>2. call[d].seen \in Nat /\ call[d].todo \in SUBSET OrderIds
    BY <1>1 DEF Handler
  <2> QED BY <1>1, <1>2, <1>3, <2>1, <2>2 DEF Backs, BacksNext
<1>4. CASE call'[d].op \notin {"allocate", "refresh"}
  BY <1>4 DEF BacksNext
<1>5. CASE call'[d] # call[d] /\ call'[d].op \in {"allocate", "refresh"}
  <2>1. d = c
    <3>1. OthersStay(c) \/ UNCHANGED call
      BY LimitFindMoves, ReserveReadMoves, ReserveCommitMoves, FailureMoves, ReleaseReadMoves,
         RepayReadMoves, RepayOrdersMoves, AllocateMoves, RepayCommitMoves, RefreshReadMoves,
         RefreshWriteMoves, CrashMoves, Returns
      DEF Action, CreateCreditAccount, LimitWrite, CreateOrder, ReleaseCommit, CreateDirectOrder,
          CancelOrder, FulfillOrder, SetStatus
    <3> QED BY <1>5, <3>1 DEF OthersStay
  <2>2. RepayOrders(c) \/ Allocate(c) \/ RefreshRead(c)
    BY <1>5, <2>1, LimitFindMoves, ReserveReadMoves, ReserveCommitMoves, FailureMoves, ReleaseReadMoves,
       RepayReadMoves, RepayCommitMoves, RefreshWriteMoves, CrashMoves, Returns
    DEF Action, CreateCreditAccount, LimitWrite, CreateOrder, ReleaseCommit, CreateDirectOrder,
        CancelOrder, FulfillOrder, SetStatus
  <2>3. CASE RepayOrders(c)
    <3>1. call'[c].op = "allocate" /\ \A o \in OrderIds : call'[c].paid[o] = orders[o].paid
      BY <2>3, RepayOrdersMoves
    <3>2. \A o \in OrderIds : orders[o].paid \in Nat /\ orders[o].paid <= SumFunction(AllocatedTo(o))
      BY OrderTyped DEF BackInv, TypeInv
    <3> QED BY <1>2, <2>1, <3>1, <3>2 DEF BacksNext
  <2>4. CASE Allocate(c)
    <3>1. call[c].op = "allocate" /\ call'[c].op = "allocate" /\ call'[c].paid = call[c].paid
      BY <2>4, AllocateMoves
    <3>2. \A o \in OrderIds : call[c].paid[o] \in Nat /\ call[c].paid[o] <= SumFunction(AllocatedTo(o))
      BY <1>1, <2>1, <3>1 DEF Handler, Allocation, Backs
    <3> QED BY <1>2, <2>1, <3>1, <3>2 DEF BacksNext
  <2>5. CASE RefreshRead(c)
    <3>1. PICK o \in OrderIds :
              call'[c].op = "refresh" /\ call'[c].todo = {o} /\ call'[c].seen = Allocated(o)
      BY <2>5, RefreshReadMoves
    <3>2. Allocated(o) = SumFunction(AllocatedTo(o)) /\ SumFunction(AllocatedTo(o)) \in Nat
      BY AllocatedIs, AllocatedGrows DEF TypeInv
    <3>3. Allocated(o) <= SumFunction(AllocatedTo(o))'
      BY <1>2, <3>2
    <3> QED BY <2>1, <3>1, <3>3 DEF BacksNext
  <2> QED BY <2>2, <2>3, <2>4, <2>5
<1> QED BY <1>3, <1>4, <1>5

LEMMA BackHolds == Spec => []BackInv
<1>1. Init => BackInv
  <2> SUFFICES ASSUME Init PROVE BackInv
    OBVIOUS
  <2>1. \A c \in Clients : Backs(call[c])
    BY IdleTyped DEF Init, Backs
  <2>2. ASSUME NEW o \in OrderIds PROVE orders[o].paid <= SumFunction(AllocatedTo(o))
    <3>1. PICK f : f = AllocatedTo(o)
      OBVIOUS
    <3>2. f \in [Repayments -> Int] /\ \A p \in Repayments : f[p] = 0
      BY <3>1 DEF AllocatedTo, Init, NoRepayment, Nothing
    <3>3. SumFunction(f) = 0
      BY <3>2, TotalZero, FiniteAssumption
    <3> QED BY <3>1, <3>3 DEF Init, NoOrder
  <2> QED BY <2>1, <2>2 DEF BackInv
<1>2. TypeInv /\ TypeInv' /\ RefInv /\ AllotInv /\ BackInv /\ [Next]_vars => BackInv'
  <2> SUFFICES ASSUME TypeInv, TypeInv', RefInv, AllotInv, BackInv, [Next]_vars PROVE BackInv'
    OBVIOUS
  <2>1. CASE UNCHANGED vars
    BY <2>1 DEF vars, BackInv, Backs, AllocatedTo
  <2>2. CASE Next
    <3>1. PICK c \in Clients : Action(c)
      BY <2>2 DEF Next, Action
    <3>2. \A d \in Clients : Backs(call[d])'
      BY <3>1, HandlersBacked DEF Backs, BacksNext
    <3> QED BY <3>1, <3>2, OrdersBacked DEF BackInv
  <2> QED BY <2>1, <2>2
<1> QED BY <1>1, <1>2, Typed, RefHolds, AllotsHold, PTL DEF Spec

(* createRepayment and refreshOrderPaymentSummary: for any number of them  *)
(* in any order, each writing over the others from what it read before, no *)
(* order shows more paid than the repayments have allocated to it.         *)
THEOREM PaidWasBacked == Spec => []PaidIsBacked
<1>1. TypeInv /\ BackInv => PaidIsBacked
  BY AllocatedIs DEF TypeInv, BackInv, PaidIsBacked
<1> QED BY <1>1, Typed, BackHolds, PTL

(* createRepayment: with one request at a time, no order is paid more than *)
(* its total.                                                              *)
THEOREM NoOverpayment == OneClient => (Spec => []NeverOverpaid)
BY PaidHolds, PTL DEF PaidInv

(* createRepayment: every repayment is accounted for, whatever overlaps:   *)
(* what it allocated and what it left unapplied is what was paid in, and   *)
(* it went to orders of the reseller that owns the account.                *)
RepaymentsSpent == \A p \in Repayments : RowAddsUp(repayments[p])

THEOREM RepaymentsAreSpent == Spec => []RepaymentsSpent
<1>1. AllotInv => RepaymentsSpent
  BY DEF AllotInv, RepaymentsSpent
<1> QED BY <1>1, AllotsHold, PTL

(* With one request at a time, orders have also been paid just what the    *)
(* repayments allocated to them.                                           *)
THEOREM RepaymentsAreAllocated == OneClient => (Spec => []RepaymentsAddUp)
<1>1. TypeInv /\ AllotInv /\ PaidInv => RepaymentsAddUp
  <2> SUFFICES ASSUME TypeInv, AllotInv, PaidInv PROVE RepaymentsAddUp
    OBVIOUS
  <2>1. \A o \in OrderIds : orders[o].paid = Allocated(o)
    BY AllocatedIs DEF PaidInv, PaidAddsUp, TypeInv
  <2> QED BY <2>1 DEF AllotInv, RowAddsUp, RepaymentsAddUp
<1> QED BY <1>1, Typed, AllotsHold, PaidHolds, PTL

-----------------------------------------------------------------------------
(* What a reseller has used, owes, and has held for it, as sums over all   *)
(* rows and handlers.                                                      *)
UsedBy(r) == [a \in Accounts |-> IF accounts[a].reseller = r THEN accounts[a].used ELSE 0]
OwedBy(r) == [o \in OrderIds |-> IF orders[o].reseller = r THEN orders[o].total - orders[o].paid ELSE 0]
HeldBy(r) == [c \in Clients |-> IF call[c].op \in Holding /\ call[c].reseller = r THEN call[c].amount ELSE 0]

OneAccount(r) ==
  \A a, b \in Accounts : accounts[a].reseller = r /\ accounts[b].reseller = r => a = b

Exact(r) ==
  LET u == SumFunction(UsedBy(r))
      held == SumFunction(OwedBy(r)) + SumFunction(HeldBy(r)) + lost[r]
  IN u >= held /\ (OneAccount(r) => u = held)

ExactInv == \A r \in Resellers : Exact(r)

SumsAre(r) ==
  /\ UsedBy(r) \in [Accounts -> Nat] /\ OwedBy(r) \in [OrderIds -> Nat]
  /\ HeldBy(r) \in [Clients -> Nat] /\ lost[r] \in Nat
  /\ SumFunction(UsedBy(r)) \in Nat /\ SumFunction(OwedBy(r)) \in Nat
  /\ SumFunction(HeldBy(r)) \in Nat

SumsTyped == \A r \in Resellers : SumsAre(r)

LEMMA SumsAreTyped == TypeOK /\ NeverOverpaid => SumsTyped
<1> SUFFICES ASSUME TypeOK, NeverOverpaid, NEW r \in Resellers PROVE SumsAre(r)
  BY DEF SumsTyped
<1>1. \A a \in Accounts : accounts[a].used \in Nat
  BY AccountTyped
<1>2. \A o \in OrderIds : orders[o].total - orders[o].paid \in Nat
  <2>1. \A m, n \in Nat : n <= m => m - n \in Nat
    OBVIOUS
  <2> QED BY <2>1, OrderTyped DEF NeverOverpaid
<1>3. \A c \in Clients : call[c].amount \in Nat
  BY DEF TypeOK, Handler
<1>4. /\ UsedBy(r) \in [Accounts -> Nat] /\ OwedBy(r) \in [OrderIds -> Nat]
      /\ HeldBy(r) \in [Clients -> Nat] /\ lost[r] \in Nat
  BY <1>1, <1>2, <1>3 DEF UsedBy, OwedBy, HeldBy, TypeOK
<1>5. IsFiniteSet(Accounts) /\ IsFiniteSet(OrderIds) /\ IsFiniteSet(Clients)
  BY FiniteAssumption, OrdersAreFinite
<1> QED BY <1>4, <1>5, TotalType DEF SumsAre

LEMMA SumsStayTyped == TypeOK' /\ NeverOverpaid' => SumsTyped'
BY SumsAreTyped, PTL

(* A sum of which one term changes.                                        *)
LEMMA SumMoves ==
  ASSUME NEW S, IsFiniteSet(S), NEW f \in [S -> Nat], NEW g \in [S -> Nat], NEW x \in S,
         \A y \in S : y # x => g[y] = f[y]
  PROVE  /\ SumFunction(f) \in Nat /\ SumFunction(g) \in Nat /\ f[x] <= SumFunction(f)
         /\ SumFunction(g) = SumFunction(f) - f[x] + g[x]
<1>1. f \in [S -> Int] /\ g \in [S -> Int]
  OBVIOUS
<1> QED BY <1>1, TotalType, TotalTerm, TotalChange

(* A sum of one term.                                                      *)
LEMMA SumAlone ==
  ASSUME NEW S, IsFiniteSet(S), NEW f \in [S -> Nat], NEW x \in S, \A y \in S : y # x => f[y] = 0
  PROVE  SumFunction(f) = f[x]
<1> DEFINE zero == [y \in S |-> 0]
<1>1. zero \in [S -> Int] /\ f \in [S -> Int] /\ f[x] = zero[x] + f[x] /\ f[x] \in Int
      /\ \A y \in S : y # x => f[y] = zero[y]
  OBVIOUS
<1>2. SumFunction(zero) = 0
  <2>1. \A y \in S : zero[y] = 0
    OBVIOUS
  <2> HIDE DEF zero
  <2> QED BY <1>1, <2>1, TotalZero
<1>3. SumFunction(f) = SumFunction(zero) + f[x]
  <2> HIDE DEF zero
  <2> QED BY <1>1, TotalAdds
<1> QED BY <1>1, <1>2, <1>3

(* With one account, what the reseller has used is what the account says;  *)
(* with any number it is at least that.                                    *)
LEMMA UsedAlone ==
  ASSUME TypeOK, NeverOverpaid, NEW r \in Resellers, NEW a \in Accounts, accounts[a].reseller = r
  PROVE  /\ accounts[a].used \in Nat /\ accounts[a].used <= SumFunction(UsedBy(r))
         /\ OneAccount(r) => SumFunction(UsedBy(r)) = accounts[a].used
<1>1. PICK f : f = UsedBy(r)
  OBVIOUS
<1>2. f \in [Accounts -> Nat] /\ f[a] = accounts[a].used
  BY <1>1, SumsAreTyped DEF SumsTyped, SumsAre, UsedBy
<1>3. f[a] <= SumFunction(f)
  BY <1>2, TotalTerm, FiniteAssumption
<1>4. OneAccount(r) => SumFunction(f) = f[a]
  <2>1. OneAccount(r) => \A b \in Accounts : b # a => f[b] = 0
    BY <1>1 DEF OneAccount, UsedBy
  <2> QED BY <1>2, <2>1, SumAlone, FiniteAssumption
<1> QED BY <1>1, <1>2, <1>3, <1>4

(* How a step moves each of the sums.                                      *)
Holds(k, r) == IF k.op \in Holding /\ k.reseller = r THEN k.amount ELSE 0
Counts(a, r, n) == IF accounts[a].reseller = r THEN n ELSE 0

LEMMA HeldMoves ==
  ASSUME SumsTyped, SumsTyped', NEW c \in Clients, OthersStay(c), NEW r \in Resellers
  PROVE  /\ SumFunction(HeldBy(r))' = SumFunction(HeldBy(r)) - Holds(call[c], r) + Holds(call'[c], r)
         /\ Holds(call[c], r) \in Nat /\ Holds(call'[c], r) \in Nat
         /\ Holds(call[c], r) <= SumFunction(HeldBy(r))
<1>1. PICK f, g : f = HeldBy(r) /\ g = HeldBy(r)'
  OBVIOUS
<1>2. f \in [Clients -> Nat] /\ g \in [Clients -> Nat]
  BY <1>1 DEF SumsTyped, SumsAre
<1>3. f[c] = Holds(call[c], r) /\ g[c] = Holds(call'[c], r)
  BY <1>1 DEF HeldBy, Holds
<1>4. \A d \in Clients : d # c => g[d] = f[d]
  BY <1>1 DEF HeldBy, OthersStay
<1>5. f[c] <= SumFunction(f) /\ SumFunction(g) = SumFunction(f) - f[c] + g[c]
  BY <1>2, <1>4, SumMoves, FiniteAssumption
<1>6. f[c] \in Nat /\ g[c] \in Nat
  BY <1>2
<1> QED BY <1>1, <1>3, <1>5, <1>6

LEMMA UsedMoves ==
  ASSUME SumsTyped, SumsTyped', NEW a \in Accounts, NEW n \in Nat, Uses(a, n), NEW r \in Resellers
  PROVE  /\ SumFunction(UsedBy(r))'
              = SumFunction(UsedBy(r)) - Counts(a, r, accounts[a].used) + Counts(a, r, n)
         /\ Counts(a, r, accounts[a].used) \in Nat
         /\ Counts(a, r, accounts[a].used) <= SumFunction(UsedBy(r))
<1>1. PICK f, g : f = UsedBy(r) /\ g = UsedBy(r)'
  OBVIOUS
<1>2. f \in [Accounts -> Nat] /\ g \in [Accounts -> Nat]
  BY <1>1 DEF SumsTyped, SumsAre
<1>3. f[a] = Counts(a, r, accounts[a].used) /\ g[a] = Counts(a, r, n)
  BY <1>1 DEF UsedBy, Counts, Uses
<1>4. \A d \in Accounts : d # a => g[d] = f[d]
  BY <1>1 DEF UsedBy, Uses
<1>5. f[a] <= SumFunction(f) /\ SumFunction(g) = SumFunction(f) - f[a] + g[a]
  BY <1>2, <1>4, SumMoves, FiniteAssumption
<1>6. f[a] \in Nat
  BY <1>2
<1> QED BY <1>1, <1>3, <1>5, <1>6

LEMMA OwedMoves ==
  ASSUME SumsTyped, SumsTyped', Blank, NEW o \in OrderIds, NEW s \in Resellers, NEW n \in Nat,
         Orders(o, s, n), NEW r \in Resellers
  PROVE  SumFunction(OwedBy(r))' = SumFunction(OwedBy(r)) + IF r = s THEN n ELSE 0
<1>1. PICK f, g : f = OwedBy(r) /\ g = OwedBy(r)'
  OBVIOUS
<1>2. f \in [OrderIds -> Nat] /\ g \in [OrderIds -> Nat]
  BY <1>1 DEF SumsTyped, SumsAre
<1>3. f[o] = 0 /\ g[o] = IF r = s THEN n ELSE 0
  BY <1>1 DEF OwedBy, Orders, Blank
<1>4. \A p \in OrderIds : p # o => g[p] = f[p]
  BY <1>1 DEF OwedBy, Orders
<1>5. SumFunction(f) \in Nat /\ SumFunction(g) = SumFunction(f) - f[o] + g[o]
  BY <1>2, <1>4, SumMoves, OrdersAreFinite
<1> QED BY <1>1, <1>3, <1>5

LEMMA TakesAway ==
  ASSUME NEW S, IsFiniteSet(S), NEW f \in [S -> Int], NEW g \in [S -> Int], NEW h \in [S -> Int],
         \A x \in S : h[x] = f[x] - g[x]
  PROVE  SumFunction(h) = SumFunction(f) - SumFunction(g)
<1>1. \A x \in S : h[x] = f[x] + (-1) * g[x]
  <2>1. \A m, n \in Int : m - n = m + (-1) * n
    OBVIOUS
  <2> QED BY <2>1
<1>2. SumFunction(h) = SumFunction(f) + (-1) * SumFunction(g)
  BY <1>1, TotalLinear
<1>3. SumFunction(f) \in Int /\ SumFunction(g) \in Int
  BY TotalType
<1> QED BY <1>2, <1>3

LEMMA OwedPaid ==
  ASSUME TypeInv, SumsTyped, SumsTyped', AllotInv, CurrentInv, NEW c \in Clients, RepayCommit(c),
         NEW r \in Resellers
  PROVE  SumFunction(OwedBy(r))' = SumFunction(OwedBy(r))
           - IF call[c].reseller = r THEN call[c].amount - call[c].remaining ELSE 0
<1>0. /\ call[c].op = "allocate" /\ Allots(call[c]) /\ call[c].applied \in [OrderIds -> Nat]
      /\ call[c].amount \in Nat /\ call[c].remaining \in Nat
      /\ \A o \in OrderIds : call[c].paid[o] = orders[o].paid
  BY DEF AllotInv, CurrentInv, Current, RepayCommit, TypeInv, WellFormed, Handler, Allocation
<1>1. \A o \in OrderIds :
              /\ orders'[o].total = orders[o].total /\ orders'[o].reseller = orders[o].reseller
              /\ orders'[o].paid = IF call[c].applied[o] > 0 THEN NextPaid(call[c], o)
                                                             ELSE orders[o].paid
  BY RepayCommitMoves
<1>2. \A o \in OrderIds : orders[o].total \in Nat /\ orders[o].paid \in Nat
  BY OrderTyped DEF TypeInv
<1>3. \A o \in OrderIds : orders'[o].paid = orders[o].paid + call[c].applied[o]
  BY <1>0, <1>1, <1>2 DEF NextPaid
<1>4. PICK f, h : f = OwedBy(r) /\ h = OwedBy(r)'
  OBVIOUS
<1>5. f \in [OrderIds -> Int] /\ h \in [OrderIds -> Int] /\ SumFunction(f) \in Int
  BY <1>4 DEF SumsTyped, SumsAre
<1>6. CASE call[c].reseller = r
  <2>1. PICK g : g = call[c].applied
    OBVIOUS
  <2>2. g \in [OrderIds -> Int] /\ SumFunction(g) = SumOver(OrderIds, g)
    BY <1>0, <2>1 DEF SumOver, SumFunction
  <2>3. ASSUME NEW o \in OrderIds PROVE h[o] = f[o] - g[o]
    <3>1. orders[o].reseller # r => g[o] = 0
      BY <1>0, <1>6, <2>1 DEF Allots
    <3> QED BY <1>0, <1>1, <1>2, <1>3, <1>4, <2>1, <3>1 DEF OwedBy
  <2>4. SumFunction(h) = SumFunction(f) - SumFunction(g)
    BY <1>5, <2>2, <2>3, TakesAway, OrdersAreFinite
  <2>5. SumFunction(g) = call[c].amount - call[c].remaining
    <3>1. SumFunction(g) \in Nat
      BY <1>0, <2>1, TotalType, OrdersAreFinite
    <3> QED BY <1>0, <2>1, <2>2, <3>1 DEF Allots
  <2> QED BY <1>4, <1>6, <2>4, <2>5
<1>7. CASE call[c].reseller # r
  <2>1. ASSUME NEW o \in OrderIds PROVE h[o] = f[o]
    <3>1. orders[o].reseller = r => call[c].applied[o] = 0
      BY <1>0, <1>7 DEF Allots
    <3> QED BY <1>1, <1>2, <1>3, <1>4, <3>1 DEF OwedBy
  <2>2. h = f
    BY <1>5, <2>1
  <2> QED BY <1>4, <1>5, <1>7, <2>2
<1> QED BY <1>6, <1>7

(* What is left to show once the sums have moved.                          *)
LEMMA ExactMoves ==
  ASSUME NEW r \in Resellers, SumsTyped, SumsTyped', Exact(r), OneAccount(r)' => OneAccount(r),
         NEW used \in Int, SumFunction(UsedBy(r))' = SumFunction(UsedBy(r)) + used,
         NEW owed \in Int, SumFunction(OwedBy(r))' = SumFunction(OwedBy(r)) + owed,
         NEW held \in Int, SumFunction(HeldBy(r))' = SumFunction(HeldBy(r)) + held,
         NEW dead \in Int, lost'[r] = lost[r] + dead,
         used >= owed + held + dead, OneAccount(r) => used = owed + held + dead
  PROVE  Exact(r)'
<1>1. PICK u, w, h, d : /\ u = SumFunction(UsedBy(r)) /\ w = SumFunction(OwedBy(r))
                        /\ h = SumFunction(HeldBy(r)) /\ d = lost[r]
  OBVIOUS
<1>2. u \in Nat /\ w \in Nat /\ h \in Nat /\ d \in Nat
  BY <1>1 DEF SumsTyped, SumsAre
<1>3. u >= w + h + d /\ (OneAccount(r) => u = w + h + d)
  BY <1>1 DEF Exact
<1>4. u + used >= (w + owed) + (h + held) + (d + dead)
  BY <1>2, <1>3
<1>5. OneAccount(r) => u + used = (w + owed) + (h + held) + (d + dead)
  BY <1>2, <1>3
<1>6. OneAccount(r)' => u + used = (w + owed) + (h + held) + (d + dead)
  BY <1>5
<1> QED BY <1>1, <1>4, <1>6 DEF Exact

(* A step that moves none of the sums.                                     *)
LEMMA ExactStays ==
  ASSUME NEW r \in Resellers, SumsTyped, SumsTyped', Exact(r), OneAccount(r)' => OneAccount(r),
         UsedBy(r)' = UsedBy(r), OwedBy(r)' = OwedBy(r), lost' = lost,
         SumFunction(HeldBy(r))' = SumFunction(HeldBy(r))
  PROVE  Exact(r)'
<1>1. SumFunction(UsedBy(r))' = SumFunction(UsedBy(r)) /\ SumFunction(OwedBy(r))' = SumFunction(OwedBy(r))
  OBVIOUS
<1> QED BY <1>1 DEF Exact

LEMMA AccountsAsBefore ==
  ASSUME TypeInv, NEW c \in Clients, Action(c), NEW r \in Resellers
  PROVE  OneAccount(r)' => OneAccount(r)
BY AccountsStay DEF OneAccount

(* The steps of a handler that moves no money.                             *)
LEMMA ExactAfterOthers ==
  ASSUME TypeInv, CurrentInv, NEW c \in Clients, Action(c), SumsTyped, SumsTyped', NEW r \in Resellers, Exact(r),
         \/ CreateCreditAccount(c) \/ LimitFind(c) \/ LimitWrite(c) \/ ReserveRead(c)
         \/ CreateOrderFails(c) \/ ReleaseRead(c) \/ CancelOrder(c) \/ FulfillOrder(c)
         \/ RepayRead(c) \/ RepayOrders(c) \/ Allocate(c) \/ RefreshRead(c) \/ RefreshWrite(c)
  PROVE  Exact(r)'
<1>0. TypeOK /\ (OneAccount(r)' => OneAccount(r))
  BY AccountsAsBefore DEF TypeInv
<1>1. UsedBy(r)' = UsedBy(r) /\ lost' = lost
  <2>1. CASE accounts' = accounts /\ lost' = lost
    BY <2>1 DEF UsedBy
  <2>2. ASSUME NEW s, NEW limit, InsertAccount(s, limit) PROVE UsedBy(r)' = UsedBy(r)
    <3>1. PICK a \in Accounts : Opens(a, s)
      BY <1>0, <2>2, InsertOpens
    <3>2. ASSUME NEW b \in Accounts
          PROVE  (IF accounts'[b].reseller = r THEN accounts'[b].used ELSE 0)
                   = IF accounts[b].reseller = r THEN accounts[b].used ELSE 0
      BY <3>1 DEF Opens
    <3> QED BY <3>2 DEF UsedBy
  <2>3. CASE CreateCreditAccount(c)
    BY <2>2, <2>3 DEF CreateCreditAccount
  <2>4. CASE LimitWrite(c) /\ call[c].account = None
    BY <2>2, <2>4 DEF LimitWrite
  <2>5. CASE LimitWrite(c) /\ call[c].account # None
    <3>1. PICK a : a = call[c].account
      OBVIOUS
    <3>2. a \in Accounts /\ accounts[a] \in AccountRow
      BY <2>5, <3>1 DEF TypeInv, TypeOK, WellFormed, Handler
    <3>3. PICK u : u = [accounts[a] EXCEPT !.limit = call[c].limit]
      OBVIOUS
    <3>4. u.reseller = accounts[a].reseller /\ u.used = accounts[a].used
      BY <3>2, <3>3 DEF AccountRow
    <3>5. accounts' = [accounts EXCEPT ![a] = u] /\ lost' = lost
      BY <2>5, <3>1, <3>3 DEF LimitWrite
    <3>6. accounts'[a] = u /\ \A b \in Accounts : b # a => accounts'[b] = accounts[b]
      BY <3>2, <3>5 DEF TypeInv, TypeOK
    <3> QED BY <3>4, <3>5, <3>6 DEF UsedBy
  <2> QED
    BY <2>1, <2>3, <2>4, <2>5
    DEF LimitFind, ReserveRead, tables, CreateOrderFails, ReleaseRead, CancelOrder, FulfillOrder,
        SetStatus, RepayRead, RepayOrders, Allocate, RefreshRead, RefreshWrite
<1>2. OwedBy(r)' = OwedBy(r)
  <2>1. CASE orders' = orders
    BY <2>1 DEF OwedBy
  <2>2. CASE CancelOrder(c) \/ FulfillOrder(c)
    <3>1. PICK s \in {"fulfilled", "cancelled"} : SetStatus(c, s)
      BY <2>2 DEF CancelOrder, FulfillOrder
    <3>2. Relabels
      BY <1>0, <3>1, StatusRelabels
    <3> QED BY <3>2 DEF Relabels, OwedBy
  <2>3. CASE RefreshWrite(c)
    <3>1. \A o \in OrderIds :
            /\ orders'[o].reseller = orders[o].reseller /\ orders'[o].total = orders[o].total
            /\ orders'[o].paid = orders[o].paid
      BY <2>3, RefreshWriteMoves DEF CurrentInv, Current
    <3> QED BY <3>1 DEF OwedBy
  <2> QED
    BY <2>1, <2>2, <2>3
    DEF CreateCreditAccount, LimitFind, LimitWrite, ReserveRead, tables, CreateOrderFails,
        ReleaseRead, RepayRead, RepayOrders, Allocate, RefreshRead
<1>3. SumFunction(HeldBy(r))' = SumFunction(HeldBy(r))
  <2>1. CASE call' = call
    BY <2>1 DEF HeldBy
  <2>2. SumFunction(HeldBy(r)) \in Nat
    BY DEF SumsTyped, SumsAre
  <2>3. ASSUME OthersStay(c), Holds(call'[c], r) = Holds(call[c], r)
        PROVE  SumFunction(HeldBy(r))' = SumFunction(HeldBy(r))
    BY <2>2, <2>3, HeldMoves
  <2>4. CASE LimitFind(c)
    BY <2>3, <2>4, LimitFindMoves DEF Holds, Holding, LimitFind
  <2>5. CASE LimitWrite(c)
    BY <2>3, <2>5, Returns DEF Holds, Holding, LimitWrite
  <2>6. CASE ReserveRead(c)
    BY <2>3, <2>6, ReserveReadMoves DEF Holds, Holding
  <2>7. CASE CreateOrderFails(c)
    BY <2>3, <2>7, FailureMoves DEF Holds, Holding, CreateOrderFails
  <2>8. CASE ReleaseRead(c)
    BY <2>3, <2>8, ReleaseReadMoves DEF Holds, Holding
  <2>9. CASE RepayRead(c)
    BY <2>3, <2>9, RepayReadMoves DEF Holds, Holding
  <2>10. CASE RepayOrders(c)
    BY <2>3, <2>10, RepayOrdersMoves DEF Holds, Holding
  <2>11. CASE Allocate(c)
    BY <2>3, <2>11, AllocateMoves DEF Holds, Holding
  <2>12. CASE RefreshRead(c)
    BY <2>3, <2>12, RefreshReadMoves DEF Holds, Holding
  <2>13. CASE RefreshWrite(c)
    BY <2>3, <2>13, RefreshWriteMoves DEF Holds, Holding
  <2> QED
    BY <2>1, <2>4, <2>5, <2>6, <2>7, <2>8, <2>9, <2>10, <2>11, <2>12, <2>13
    DEF CreateCreditAccount, CancelOrder, FulfillOrder, SetStatus
<1> QED BY <1>0, <1>1, <1>2, <1>3, ExactStays

(* Credit is taken, and turned into an order; a dead request loses it.     *)
LEMMA ExactAfterReserve ==
  ASSUME TypeInv, CurrentInv, NEW c \in Clients, Action(c), SumsTyped, SumsTyped',
         NEW r \in Resellers, Exact(r), ReserveCommit(c)
  PROVE  Exact(r)'
<1>0. /\ TypeOK /\ Current(call[c]) /\ call[c] \in Handler
      /\ call[c].op = "reserve" /\ call[c].account \in Accounts
      /\ call[c].seen \in Nat /\ call[c].amount \in Nat
  BY DEF TypeInv, CurrentInv, WellFormed, HoldsItsRows, ReserveCommit, Handler
<1>1. PICK a, n, m : a = call[c].account /\ n = call[c].seen + call[c].amount /\ m = call[c].amount
  OBVIOUS
<1>2. a \in Accounts /\ n \in Nat /\ m \in Nat /\ Uses(a, n) /\ n = accounts[a].used + m
  <2>1. accounts' = [accounts EXCEPT ![a].used = n]
    BY <1>1 DEF ReserveCommit
  <2>2. call[c].seen = accounts[a].used
    BY <1>0, <1>1 DEF Current
  <2>3. a \in Accounts /\ n \in Nat /\ m \in Nat /\ n = accounts[a].used + m
    BY <1>0, <1>1, <2>2
  <2>4. Uses(a, n)
    BY <1>0, <2>1, <2>3, UsesOne
  <2> QED BY <2>3, <2>4
<1>3. PICK d : d = IF call[c].reseller = r THEN m ELSE 0
  OBVIOUS
<1>4. SumFunction(UsedBy(r))' = SumFunction(UsedBy(r)) + d
  <2>1. accounts[a].used \in Nat
    BY <1>0, <1>2, AccountTyped
  <2>2. SumFunction(UsedBy(r)) \in Nat
    BY DEF SumsTyped, SumsAre
  <2>3. accounts[a].reseller = call[c].reseller
    BY <1>0, <1>1 DEF Current
  <2>4. SumFunction(UsedBy(r))'
          = SumFunction(UsedBy(r)) - Counts(a, r, accounts[a].used) + Counts(a, r, n)
    BY <1>2, UsedMoves
  <2> QED BY <1>2, <1>3, <2>1, <2>2, <2>3, <2>4 DEF Counts
<1>5. SumFunction(HeldBy(r))' = SumFunction(HeldBy(r)) + d
  <2>1. Holds(call[c], r) = 0 /\ Holds(call'[c], r) = d
    BY <1>0, <1>1, <1>3, ReserveCommitMoves DEF Holds, Holding
  <2>2. SumFunction(HeldBy(r)) \in Nat
    BY DEF SumsTyped, SumsAre
  <2> QED BY <2>1, <2>2, HeldMoves, ReserveCommitMoves
<1>6. SumFunction(OwedBy(r))' = SumFunction(OwedBy(r)) + 0 /\ lost'[r] = lost[r] + 0
  <2>1. OwedBy(r)' = OwedBy(r) /\ lost' = lost
    BY DEF ReserveCommit, OwedBy
  <2> QED BY <2>1 DEF SumsTyped, SumsAre
<1>7. d \in Nat
  BY <1>2, <1>3
<1> QED BY <1>4, <1>5, <1>6, <1>7, AccountsAsBefore, ExactMoves

LEMMA ExactAfterOrder ==
  ASSUME TypeInv, AllotInv, NEW c \in Clients, Action(c), SumsTyped, SumsTyped',
         NEW r \in Resellers, Exact(r), CreateOrder(c)
  PROVE  Exact(r)'
<1>0. /\ TypeOK /\ call[c] \in Handler /\ call[c].op = "order"
      /\ call[c].reseller \in Resellers /\ call[c].amount \in Nat
  BY DEF TypeInv, WellFormed, HoldsItsRows, CreateOrder, Handler
<1>1. PICK s, m : s = call[c].reseller /\ m = call[c].amount
  OBVIOUS
<1>2. PICK o \in OrderIds : Orders(o, s, m)
  BY <1>0, <1>1, InsertOrders DEF CreateOrder
<1>3. PICK d : d = IF r = s THEN m ELSE 0
  OBVIOUS
<1>4. SumFunction(OwedBy(r))' = SumFunction(OwedBy(r)) + d
  BY <1>0, <1>1, <1>2, <1>3, OwedMoves DEF AllotInv
<1>5. SumFunction(HeldBy(r))' = SumFunction(HeldBy(r)) + (-d)
  <2>1. Holds(call[c], r) = d /\ Holds(call'[c], r) = 0 /\ OthersStay(c)
    BY <1>0, <1>1, <1>3, Returns DEF Holds, Holding, CreateOrder
  <2>2. SumFunction(HeldBy(r)) \in Nat /\ d \in Nat
    BY <1>0, <1>1, <1>3 DEF SumsTyped, SumsAre
  <2> QED BY <2>1, <2>2, HeldMoves
<1>6. SumFunction(UsedBy(r))' = SumFunction(UsedBy(r)) + 0 /\ lost'[r] = lost[r] + 0
  <2>1. UsedBy(r)' = UsedBy(r) /\ lost' = lost
    BY DEF CreateOrder, UsedBy
  <2> QED BY <2>1 DEF SumsTyped, SumsAre
<1>7. d \in Int /\ -d \in Int /\ 0 = d + (-d) + 0
  BY <1>0, <1>1, <1>3
<1> QED BY <1>4, <1>5, <1>6, <1>7, AccountsAsBefore, ExactMoves

LEMMA ExactAfterCrash ==
  ASSUME TypeInv, NEW c \in Clients, Action(c), SumsTyped, SumsTyped',
         NEW r \in Resellers, Exact(r), Crash(c)
  PROVE  Exact(r)'
<1>0. call[c].amount \in Nat /\ OthersStay(c)
  BY CrashMoves DEF TypeInv, WellFormed, Handler
<1>1. PICK d : d = Holds(call[c], r)
  OBVIOUS
<1>2. d \in Nat
  BY <1>0, <1>1 DEF Holds
<1>3. SumFunction(HeldBy(r))' = SumFunction(HeldBy(r)) + (-d)
  <2>1. Holds(call'[c], r) = 0
    BY CrashMoves DEF Holds, Holding
  <2>2. SumFunction(HeldBy(r)) \in Nat
    BY DEF SumsTyped, SumsAre
  <2> QED BY <1>0, <1>1, <1>2, <2>1, <2>2, HeldMoves
<1>4. lost'[r] = lost[r] + d
  <2>1. lost[r] \in Nat
    BY DEF SumsTyped, SumsAre
  <2> QED BY <1>1, <2>1, CrashMoves DEF Holds
<1>5. /\ SumFunction(UsedBy(r))' = SumFunction(UsedBy(r)) + 0
      /\ SumFunction(OwedBy(r))' = SumFunction(OwedBy(r)) + 0
  <2>1. UsedBy(r)' = UsedBy(r) /\ OwedBy(r)' = OwedBy(r)
    BY CrashMoves DEF tables, UsedBy, OwedBy
  <2> QED BY <2>1 DEF SumsTyped, SumsAre
<1>6. -d \in Int /\ d \in Int /\ 0 = 0 + (-d) + d
  BY <1>2
<1> QED BY <1>3, <1>4, <1>5, <1>6, AccountsAsBefore, ExactMoves

(* An amount is taken off an account: never more than it, and exactly it   *)
(* when the reseller has no other account.                                 *)
LEMMA TakesOff ==
  ASSUME TypeOK, NeverOverpaid, SumsTyped, SumsTyped', NEW a \in Accounts, NEW s \in Nat,
         Uses(a, Subtract(accounts[a].used, s)), NEW r \in Resellers, accounts[a].reseller = r,
         Exact(r), s <= SumFunction(OwedBy(r)) + SumFunction(HeldBy(r))
  PROVE  \E e \in Int :
           /\ SumFunction(UsedBy(r))' = SumFunction(UsedBy(r)) + e
           /\ e >= -s /\ (OneAccount(r) => e = -s)
<1>1. PICK n, m : n = accounts[a].used /\ m = Subtract(n, s)
  OBVIOUS
<1>2. n \in Nat /\ m \in Nat /\ m - n >= -s /\ m - n \in Int /\ (s <= n => m - n = -s)
  <2>1. n \in Nat
    BY <1>1, AccountTyped
  <2> QED BY <1>1, <2>1 DEF Subtract
<1>3. SumFunction(UsedBy(r)) \in Nat /\ SumFunction(OwedBy(r)) \in Nat /\ SumFunction(HeldBy(r)) \in Nat
      /\ lost[r] \in Nat
  BY DEF SumsTyped, SumsAre
<1>4. SumFunction(UsedBy(r))' = SumFunction(UsedBy(r)) + (m - n)
  <2>1. SumFunction(UsedBy(r))' = SumFunction(UsedBy(r)) - Counts(a, r, accounts[a].used) + Counts(a, r, m)
    BY <1>1, <1>2, UsedMoves
  <2>2. Counts(a, r, accounts[a].used) = n /\ Counts(a, r, m) = m
    BY <1>1 DEF Counts
  <2> QED BY <1>2, <1>3, <2>1, <2>2
<1>5. OneAccount(r) => s <= n
  <2>1. OneAccount(r) => n = SumFunction(OwedBy(r)) + SumFunction(HeldBy(r)) + lost[r]
    BY <1>1, UsedAlone DEF Exact
  <2> QED BY <1>2, <1>3, <2>1
<1> QED BY <1>2, <1>4, <1>5

LEMMA ExactAfterRelease ==
  ASSUME TypeInv, PaidInv, CurrentInv, NEW c \in Clients, Action(c), SumsTyped, SumsTyped',
         NEW r \in Resellers, Exact(r), ReleaseCommit(c)
  PROVE  Exact(r)'
<1>0. /\ TypeOK /\ NeverOverpaid /\ call[c] \in Handler
      /\ call[c].op = "release" /\ call[c].account \in Accounts /\ call[c].amount \in Nat
      /\ accounts[call[c].account].reseller = call[c].reseller
      /\ call[c].seen = accounts[call[c].account].used
      /\ call'[c].op = "idle" /\ OthersStay(c)
  BY Returns DEF TypeInv, PaidInv, CurrentInv, Current, WellFormed, HoldsItsRows, ReleaseCommit, Handler
<1>1. PICK a, s : a = call[c].account /\ s = call[c].amount
  OBVIOUS
<1>2. a \in Accounts /\ s \in Nat /\ accounts[a].reseller = call[c].reseller
  BY <1>0, <1>1
<1>3. Uses(a, Subtract(accounts[a].used, s))
  <2>1. accounts' = [accounts EXCEPT ![a].used = Subtract(accounts[a].used, s)]
    BY <1>0, <1>1 DEF ReleaseCommit
  <2> QED BY <1>0, <1>2, <2>1, UsesOne
<1>4. Subtract(accounts[a].used, s) \in Nat
  BY <1>0, <1>2, AccountTyped, SubtractTyped
<1>5. /\ SumFunction(OwedBy(r))' = SumFunction(OwedBy(r)) + 0 /\ lost'[r] = lost[r] + 0
      /\ SumFunction(OwedBy(r)) \in Nat /\ SumFunction(HeldBy(r)) \in Nat
      /\ SumFunction(UsedBy(r)) \in Nat
  <2>1. OwedBy(r)' = OwedBy(r) /\ lost' = lost
    BY DEF ReleaseCommit, OwedBy
  <2> QED BY <2>1 DEF SumsTyped, SumsAre
<1>6. Holds(call'[c], r) = 0
  BY <1>0 DEF Holds, Holding
<1>7. CASE call[c].reseller = r
  <2>1. Holds(call[c], r) = s
    BY <1>0, <1>1, <1>7 DEF Holds, Holding
  <2>2. SumFunction(HeldBy(r))' = SumFunction(HeldBy(r)) + (-s) /\ s <= SumFunction(HeldBy(r))
    BY <1>0, <1>2, <1>5, <1>6, <2>1, HeldMoves
  <2>3. s <= SumFunction(OwedBy(r)) + SumFunction(HeldBy(r))
    BY <1>2, <1>5, <2>2
  <2>4. PICK e \in Int :
           /\ SumFunction(UsedBy(r))' = SumFunction(UsedBy(r)) + e
           /\ e >= -s /\ (OneAccount(r) => e = -s)
    BY <1>0, <1>2, <1>3, <1>7, <2>3, TakesOff
  <2>5. -s \in Int /\ e >= 0 + (-s) + 0 /\ (OneAccount(r) => e = 0 + (-s) + 0)
    BY <1>2, <2>4
  <2> QED BY <1>5, <2>2, <2>4, <2>5, AccountsAsBefore, ExactMoves
<1>8. CASE call[c].reseller # r
  <2>1. Holds(call[c], r) = 0
    BY <1>8 DEF Holds
  <2>2. SumFunction(HeldBy(r))' = SumFunction(HeldBy(r)) + 0
    BY <1>0, <1>5, <1>6, <2>1, HeldMoves
  <2>3. SumFunction(UsedBy(r))' = SumFunction(UsedBy(r)) + 0
    <3>1. /\ Counts(a, r, accounts[a].used) = 0
          /\ Counts(a, r, Subtract(accounts[a].used, s)) = 0
      BY <1>2, <1>8 DEF Counts
    <3> QED BY <1>2, <1>3, <1>4, <1>5, <3>1, UsedMoves
  <2> QED BY <1>5, <2>2, <2>3, AccountsAsBefore, ExactMoves
<1> QED BY <1>7, <1>8

LEMMA ExactAfterRepay ==
  ASSUME TypeInv, PaidInv, AllotInv, CurrentInv, NEW c \in Clients, Action(c), SumsTyped, SumsTyped',
         NEW r \in Resellers, Exact(r), RepayCommit(c)
  PROVE  Exact(r)'
<1>0. /\ TypeOK /\ NeverOverpaid /\ call[c] \in Handler
      /\ call[c].op = "allocate" /\ call[c].account \in Accounts
      /\ call[c].amount \in Nat /\ call[c].remaining \in Nat /\ call[c].remaining <= call[c].amount
      /\ accounts[call[c].account].reseller = call[c].reseller
      /\ call[c].seen = accounts[call[c].account].used
      /\ call'[c].op = "idle" /\ OthersStay(c)
  BY RepayCommitMoves
  DEF TypeInv, PaidInv, CurrentInv, Current, WellFormed, HoldsItsRows, RepayCommit, Handler
<1>1. PICK a, s : a = call[c].account /\ s = call[c].amount - call[c].remaining
  OBVIOUS
<1>2. a \in Accounts /\ s \in Nat /\ accounts[a].reseller = call[c].reseller
  BY <1>0, <1>1
<1>3. Uses(a, Subtract(accounts[a].used, s))
  BY <1>0, <1>1, RepayCommitMoves DEF NextUsed
<1>4. Subtract(accounts[a].used, s) \in Nat
  BY <1>0, <1>2, AccountTyped, SubtractTyped
<1>5. /\ SumFunction(HeldBy(r))' = SumFunction(HeldBy(r)) + 0 /\ lost'[r] = lost[r] + 0
      /\ SumFunction(OwedBy(r)) \in Nat /\ SumFunction(HeldBy(r)) \in Nat
      /\ SumFunction(UsedBy(r)) \in Nat /\ SumFunction(OwedBy(r))' \in Nat
  <2>1. Holds(call[c], r) = 0 /\ Holds(call'[c], r) = 0
    BY <1>0 DEF Holds, Holding
  <2>2. lost' = lost
    BY RepayCommitMoves
  <2>3. /\ SumFunction(OwedBy(r)) \in Nat /\ SumFunction(HeldBy(r)) \in Nat
        /\ SumFunction(UsedBy(r)) \in Nat /\ SumFunction(OwedBy(r))' \in Nat /\ lost[r] \in Nat
    BY DEF SumsTyped, SumsAre
  <2> QED BY <1>0, <2>1, <2>2, <2>3, HeldMoves
<1>6. SumFunction(OwedBy(r))' = SumFunction(OwedBy(r)) - IF call[c].reseller = r THEN s ELSE 0
  BY <1>1, OwedPaid
<1>7. CASE call[c].reseller = r
  <2>1. SumFunction(OwedBy(r))' = SumFunction(OwedBy(r)) + (-s)
        /\ s <= SumFunction(OwedBy(r)) + SumFunction(HeldBy(r))
    BY <1>2, <1>5, <1>6, <1>7
  <2>2. PICK e \in Int :
           /\ SumFunction(UsedBy(r))' = SumFunction(UsedBy(r)) + e
           /\ e >= -s /\ (OneAccount(r) => e = -s)
    BY <1>0, <1>2, <1>3, <1>7, <2>1, TakesOff
  <2>3. -s \in Int /\ e >= (-s) + 0 + 0 /\ (OneAccount(r) => e = (-s) + 0 + 0)
    BY <1>2, <2>2
  <2> QED BY <1>5, <2>1, <2>2, <2>3, AccountsAsBefore, ExactMoves
<1>8. CASE call[c].reseller # r
  <2>1. SumFunction(OwedBy(r))' = SumFunction(OwedBy(r)) + 0
    BY <1>5, <1>6, <1>8
  <2>2. SumFunction(UsedBy(r))' = SumFunction(UsedBy(r)) + 0
    <3>1. /\ Counts(a, r, accounts[a].used) = 0
          /\ Counts(a, r, Subtract(accounts[a].used, s)) = 0
      BY <1>2, <1>8 DEF Counts
    <3> QED BY <1>2, <1>3, <1>4, <1>5, <3>1, UsedMoves
  <2> QED BY <1>5, <2>1, <2>2, AccountsAsBefore, ExactMoves
<1> QED BY <1>7, <1>8

-----------------------------------------------------------------------------
LEMMA ExactAfter ==
  ASSUME ~DirectOrders, TypeInv, PaidInv, AllotInv, CurrentInv, NEW c \in Clients, Action(c),
         SumsTyped, SumsTyped', ExactInv
  PROVE  ExactInv'
<1> SUFFICES ASSUME NEW r \in Resellers PROVE Exact(r)'
  BY DEF ExactInv
<1>0. Exact(r) /\ ~CreateDirectOrder(c)
  BY DEF ExactInv, CreateDirectOrder
<1>1. CASE ReserveCommit(c)
  BY <1>0, <1>1, ExactAfterReserve
<1>2. CASE CreateOrder(c)
  BY <1>0, <1>2, ExactAfterOrder
<1>3. CASE ReleaseCommit(c)
  BY <1>0, <1>3, ExactAfterRelease
<1>4. CASE RepayCommit(c)
  BY <1>0, <1>4, ExactAfterRepay
<1>5. CASE Crash(c)
  BY <1>0, <1>5, ExactAfterCrash
<1> QED BY <1>0, <1>1, <1>2, <1>3, <1>4, <1>5, ExactAfterOthers DEF Action

LEMMA ExactHolds == OneClient /\ ~DirectOrders => (Spec => []ExactInv)
<1> SUFFICES ASSUME OneClient, ~DirectOrders PROVE Spec => []ExactInv
  OBVIOUS
<1>1. Init => ExactInv
  <2> SUFFICES ASSUME Init, NEW r \in Resellers PROVE Exact(r)
    BY DEF ExactInv
  <2>1. PICK f, g, h : f = UsedBy(r) /\ g = OwedBy(r) /\ h = HeldBy(r)
    OBVIOUS
  <2>2. /\ f \in [Accounts -> Int] /\ (\A a \in Accounts : f[a] = 0)
        /\ g \in [OrderIds -> Int] /\ (\A o \in OrderIds : g[o] = 0)
        /\ h \in [Clients -> Int] /\ (\A c \in Clients : h[c] = 0)
    BY <2>1, IdleTyped DEF Init, UsedBy, OwedBy, HeldBy, NoAccount, NoOrder, Holding
  <2>3. SumFunction(f) = 0 /\ SumFunction(g) = 0 /\ SumFunction(h) = 0
    BY <2>2, TotalZero, FiniteAssumption, OrdersAreFinite
  <2> QED BY <2>1, <2>3 DEF Init, Exact
<1>2. /\ TypeInv /\ TypeInv' /\ PaidInv /\ PaidInv' /\ AllotInv /\ CurrentInv /\ ExactInv /\ [Next]_vars
      => ExactInv'
  <2> SUFFICES ASSUME TypeInv, TypeInv', PaidInv, PaidInv', AllotInv, CurrentInv, ExactInv, [Next]_vars
               PROVE  ExactInv'
    OBVIOUS
  <2>1. CASE UNCHANGED vars
    BY <2>1 DEF vars, ExactInv, Exact, UsedBy, OwedBy, HeldBy, OneAccount
  <2>2. CASE Next
    <3>1. PICK c \in Clients : Action(c)
      BY <2>2 DEF Next, Action
    <3>2. SumsTyped /\ SumsTyped'
      BY SumsAreTyped, SumsStayTyped DEF TypeInv, PaidInv
    <3> QED BY <3>1, <3>2, ExactAfter
  <2> QED BY <2>1, <2>2
<1> QED BY <1>1, <1>2, Typed, PaidHolds, AllotsHold, CurrentHolds, PTL DEF Spec

(* The property's sums run over a reseller's own rows.                     *)
LEMMA SumsOfRows ==
  ASSUME TypeOK, NeverOverpaid, NEW r \in Resellers
  PROVE  /\ Used(r) = SumFunction(UsedBy(r)) /\ InFlight(r) = SumFunction(HeldBy(r))
         /\ SumOver(OrdersOf(r), Balances) = SumFunction(OwedBy(r))
         /\ Owed(r) <= SumFunction(OwedBy(r))
<1>1. SumsAre(r)
  BY SumsAreTyped DEF SumsTyped
<1>2. ASSUME NEW S, IsFiniteSet(S), NEW T \in SUBSET S, NEW f, NEW g \in [S -> Nat],
             \A x \in T : f[x] = g[x], \A x \in S \ T : g[x] = 0
      PROVE  SumFunctionOnSet(f, T) = SumFunction(g)
  <2>1. IsFiniteSet(T)
    BY <1>2, FS_Subset
  <2>2. SumFunctionOnSet(f, T) = SumFunctionOnSet(g, T)
    BY <1>2, <2>1, SumSame
  <2>3. DOMAIN g = S /\ \A x \in S : g[x] \in Int
    BY <1>2
  <2>4. SumFunctionOnSet(g, S) = SumFunctionOnSet(g, T)
    BY <1>2, <2>3, SumSupport
  <2> QED BY <2>2, <2>3, <2>4 DEF SumFunction
<1>3. Used(r) = SumFunction(UsedBy(r))
  <2>1. PICK T, f, g : T = AccountsOf(r) /\ f = [a \in Accounts |-> accounts[a].used] /\ g = UsedBy(r)
    OBVIOUS
  <2>2. /\ T \in SUBSET Accounts /\ g \in [Accounts -> Nat]
        /\ (\A a \in T : f[a] = g[a]) /\ \A a \in Accounts \ T : g[a] = 0
    BY <1>1, <2>1 DEF SumsAre, UsedBy, AccountsOf
  <2>3. SumFunctionOnSet(f, T) = SumFunction(g)
    BY <1>2, <2>2, FiniteAssumption
  <2> QED BY <2>1, <2>3 DEF Used, SumOver
<1>4. InFlight(r) = SumFunction(HeldBy(r))
  <2>1. PICK T, f, g : /\ T = {c \in Clients : call[c].op \in Holding /\ call[c].reseller = r}
                       /\ f = [c \in Clients |-> call[c].amount] /\ g = HeldBy(r)
    OBVIOUS
  <2>2. /\ T \in SUBSET Clients /\ g \in [Clients -> Nat]
        /\ (\A c \in T : f[c] = g[c]) /\ \A c \in Clients \ T : g[c] = 0
    BY <1>1, <2>1 DEF SumsAre, HeldBy
  <2>3. SumFunctionOnSet(f, T) = SumFunction(g)
    BY <1>2, <2>2, FiniteAssumption
  <2> QED BY <2>1, <2>3 DEF InFlight, SumOver
<1>5. SumOver(OrdersOf(r), Balances) = SumFunction(OwedBy(r))
  <2>1. PICK T, f, g : T = OrdersOf(r) /\ f = Balances /\ g = OwedBy(r)
    OBVIOUS
  <2>2. /\ T \in SUBSET OrderIds /\ g \in [OrderIds -> Nat]
        /\ (\A o \in T : f[o] = g[o]) /\ \A o \in OrderIds \ T : g[o] = 0
    BY <1>1, <2>1 DEF SumsAre, OwedBy, OrdersOf, Balances
  <2>3. SumFunctionOnSet(f, T) = SumFunction(g)
    BY <1>2, <2>2, OrdersAreFinite
  <2> QED BY <2>1, <2>3 DEF SumOver
<1>6. Owed(r) <= SumFunction(OwedBy(r))
  <2>1. PICK T, f, g : T = OpenOrders(r) /\ f = Balances /\ g = OwedBy(r)
    OBVIOUS
  <2>2. T \in SUBSET OrderIds /\ g \in [OrderIds -> Nat] /\ DOMAIN g = OrderIds
        /\ \A o \in T : f[o] = g[o]
    BY <1>1, <2>1 DEF SumsAre, OwedBy, OpenOrders, Balances
  <2>3. IsFiniteSet(T)
    BY <2>2, OrdersAreFinite, FS_Subset
  <2>4. SumFunctionOnSet(f, T) = SumFunctionOnSet(g, T)
    BY <2>2, <2>3, SumSame
  <2>5. SumFunctionOnSet(g, T) <= SumFunctionOnSet(g, OrderIds)
    <3>1. \A o \in OrderIds : g[o] \in Nat
      BY <2>2
    <3> QED BY <2>2, <3>1, OrdersAreFinite, SumSubset
  <2> QED BY <2>1, <2>2, <2>4, <2>5 DEF Owed, SumOver, SumFunction
<1> QED BY <1>3, <1>4, <1>5, <1>6

LEMMA OwedTyped ==
  ASSUME TypeOK, NeverOverpaid, NEW r \in Resellers
  PROVE  Owed(r) \in Int
<1>1. IsFiniteSet(OpenOrders(r))
  BY OrdersAreFinite, FS_Subset DEF OpenOrders
<1>2. \A m, n \in Nat : m - n \in Int
  OBVIOUS
<1>3. \A o \in OpenOrders(r) : o \in OrderIds /\ Balances[o] = orders[o].total - orders[o].paid
  BY DEF OpenOrders, Balances
<1>4. \A o \in OpenOrders(r) : Balances[o] \in Int
  BY <1>2, <1>3, OrderTyped
<1> QED BY <1>1, <1>4, SumType DEF Owed, SumOver

LEMMA OneIsAlone ==
  ASSUME NEW r \in Resellers, Cardinality(AccountsOf(r)) = 1
  PROVE  OneAccount(r) /\ \E a \in Accounts : AccountsOf(r) = {a}
<1>1. IsFiniteSet(AccountsOf(r))
  BY FiniteAssumption, FS_Subset DEF AccountsOf
<1>2. PICK a : AccountsOf(r) = {a}
  BY <1>1, FS_Singleton
<1> QED BY <1>2 DEF OneAccount, AccountsOf

(* reserveCreditUsage, releaseCreditUsage, createRepayment: with one       *)
(* request at a time, and no wholesale order made past the reservation,    *)
(* a reseller's used credit is at least what its open orders owe, and      *)
(* with one account exactly what is owed, held and lost.                   *)
THEOREM CreditIsExact == OneClient /\ ~DirectOrders => (Spec => []CreditExact)
<1>1. TypeInv /\ PaidInv /\ ExactInv => CreditExact
  <2> SUFFICES ASSUME TypeInv, PaidInv, ExactInv, NEW r \in Resellers
               PROVE  /\ Used(r) >= Owed(r)
                      /\ Cardinality(AccountsOf(r)) = 1 =>
                           Used(r) = SumOver(OrdersOf(r), Balances) + InFlight(r) + lost[r]
    BY DEF CreditExact
  <2>1. TypeOK /\ NeverOverpaid /\ Exact(r)
    BY DEF TypeInv, PaidInv, ExactInv
  <2>2. /\ Used(r) = SumFunction(UsedBy(r)) /\ InFlight(r) = SumFunction(HeldBy(r))
        /\ SumOver(OrdersOf(r), Balances) = SumFunction(OwedBy(r))
        /\ Owed(r) <= SumFunction(OwedBy(r))
    BY <2>1, SumsOfRows
  <2>3. SumsAre(r)
    BY <2>1, SumsAreTyped DEF SumsTyped
  <2>4. Owed(r) \in Int
    BY <2>1, OwedTyped
  <2>5. Used(r) >= Owed(r)
    BY <2>1, <2>2, <2>3, <2>4 DEF Exact, SumsAre
  <2> QED BY <2>1, <2>2, <2>5, OneIsAlone DEF Exact
<1> QED BY <1>1, Typed, PaidHolds, ExactHolds, PTL

(* The limit is checked before the order is made, and still holds after.   *)
OwedFits == \A r \in Resellers : Owed(r) <= SumFunction(OwedBy(r)) /\ Owed(r) \in Int

LEMMA OwedIsPart == TypeOK /\ NeverOverpaid => OwedFits
<1> SUFFICES ASSUME TypeOK, NeverOverpaid, NEW r \in Resellers
             PROVE  Owed(r) <= SumFunction(OwedBy(r)) /\ Owed(r) \in Int
  BY DEF OwedFits
<1>1. Owed(r) <= SumFunction(OwedBy(r))
  BY SumsOfRows
<1>2. Owed(r) \in Int
  BY OwedTyped
<1> QED BY <1>1, <1>2

LEMMA OwedStaysPart == TypeOK' /\ NeverOverpaid' => OwedFits'
BY OwedIsPart, PTL

LEMMA GrantedAlone ==
  ASSUME TypeOK, NEW r \in Resellers, NEW a \in Accounts, AccountsOf(r) = {a}
  PROVE  Granted(r) = accounts[a].limit
<1>1. PICK f : f = [b \in Accounts |-> accounts[b].limit]
  OBVIOUS
<1>2. f[a] = accounts[a].limit /\ f[a] \in Int
  BY <1>1, AccountTyped
<1>3. IsFiniteSet({a}) /\ {a} \ {a} = {} /\ \A x \in {a} : f[x] \in Int
  BY <1>2, FS_Singleton
<1>4. SumFunctionOnSet(f, {a}) = f[a] + SumFunctionOnSet(f, {a} \ {a})
  BY <1>3, SumRemove
<1>5. SumFunctionOnSet(f, {a}) = f[a]
  BY <1>2, <1>3, <1>4, SumEmpty
<1> QED BY <1>1, <1>2, <1>5 DEF Granted, SumOver

LEMMA OrderFitsLimit ==
  ASSUME OneClient, ~DirectOrders, TypeInv, TypeInv', PaidInv, PaidInv', AllotInv, CurrentInv,
         ExactInv, ExactInv', NEW b \in Clients, Action(b),
         NEW c \in Clients, NEW r \in Resellers,
         call[c].op = "order", ~call[c].override, call[c].reseller = r,
         orders' # orders, Cardinality(AccountsOf(r)) = 1
  PROVE  Owed(r)' <= Granted(r)
<1>1. b = c
  BY DEF OneClient
<1>2. accounts' = accounts
  <2>1. CreateOrder(c)
    BY <1>1
    DEF Action, CreateCreditAccount, LimitFind, LimitWrite, ReserveRead, ReserveCommit, tables,
        CreateDirectOrder, CancelOrder, FulfillOrder, SetStatus,
        CreateOrderFails, ReleaseRead, ReleaseCommit, RepayRead, RepayOrders, Allocate, RepayCommit,
        RefreshRead, RefreshWrite, Crash
  <2> QED BY <2>1 DEF CreateOrder
<1>3. PICK a \in Accounts : AccountsOf(r) = {a}
  BY OneIsAlone
<1>4. accounts[a].reseller = r /\ call[c].account = a /\ accounts[a].used <= accounts[a].limit
  BY <1>3 DEF CurrentInv, Current, AccountsOf
<1>5. Granted(r) = accounts[a].limit
  BY <1>3, GrantedAlone DEF TypeInv
<1>6. SumFunction(UsedBy(r)) = accounts[a].used
  BY <1>4, UsedAlone, OneIsAlone DEF TypeInv, PaidInv
<1>7. UsedBy(r)' = UsedBy(r)
  BY <1>2 DEF UsedBy
<1>8. PICK u, w, h, d, o : /\ u = SumFunction(UsedBy(r))' /\ w = SumFunction(OwedBy(r))'
                           /\ h = SumFunction(HeldBy(r))' /\ d = lost'[r] /\ o = Owed(r)'
  OBVIOUS
<1>9. u \in Nat /\ w \in Nat /\ h \in Nat /\ d \in Nat
  BY <1>8, SumsStayTyped DEF TypeInv, PaidInv, SumsTyped, SumsAre
<1>10. o <= w /\ o \in Int
  BY <1>8, OwedStaysPart DEF TypeInv, PaidInv, OwedFits
<1>11. u >= w + h + d
  BY <1>8 DEF ExactInv, Exact
<1>12. accounts[a].used \in Nat /\ accounts[a].limit \in Nat
  BY AccountTyped DEF TypeInv
<1>13. u = accounts[a].used
  BY <1>6, <1>7, <1>8
<1>14. o <= accounts[a].limit
  BY <1>4, <1>9, <1>10, <1>11, <1>12, <1>13
<1> QED BY <1>5, <1>8, <1>14

(* createWholesaleOrder: "reject if available credit < order total": with  *)
(* one request at a time and one account, what a reseller owes once an     *)
(* order is made without the override is within its limit.                 *)
THEOREM OrdersStayWithinLimit == OneClient /\ ~DirectOrders => (Spec => OrdersWithinLimit)
<1> SUFFICES ASSUME OneClient, ~DirectOrders PROVE Spec => OrdersWithinLimit
  OBVIOUS
<1> DEFINE Within ==
     \A c \in Clients, r \in Resellers :
       /\ call[c].op = "order" /\ ~call[c].override /\ call[c].reseller = r
       /\ orders' # orders /\ call'[c] # call[c]
       /\ Cardinality(AccountsOf(r)) = 1
       => Owed(r)' <= Granted(r)
<1>1. /\ TypeInv /\ TypeInv' /\ PaidInv /\ PaidInv' /\ AllotInv /\ CurrentInv /\ ExactInv /\ ExactInv'
      /\ [Next]_vars
      => [Within]_vars
  <2> SUFFICES ASSUME TypeInv, TypeInv', PaidInv, PaidInv', AllotInv, CurrentInv, ExactInv, ExactInv',
                      Next
               PROVE  Within
    OBVIOUS
  <2>1. PICK b \in Clients : Action(b)
    BY DEF Next, Action
  <2> QED BY <2>1, OrderFitsLimit
<1>2. Spec => [][Within]_vars
  BY <1>1, Typed, PaidHolds, AllotsHold, CurrentHolds, ExactHolds, PTL DEF Spec
<1> QED BY <1>2 DEF OrdersWithinLimit
=============================================================================
