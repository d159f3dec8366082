-------------------------------- MODULE Credit --------------------------------
(***************************************************************************)
(* Reseller credit: credit/credit.service.ts, createWholesaleOrder of      *)
(* adapters/adapters.service.ts, what orders/orders.service.ts does to a   *)
(* wholesale order's status, and the refresh of its paid amount by a       *)
(* capture or a webhook (payments/).  A handler reads, keeps what it read  *)
(* in call[c], and writes.  All transactions here read first and then      *)
(* write absolute values, so each one's writes are one action: at READ     *)
(* COMMITTED a writer that had to wait for a row overwrites it with what   *)
(* it computed from its own earlier read.                                  *)
(***************************************************************************)
EXTENDS Integers, FiniteSets, Functions

CONSTANTS Clients,      \* concurrent requests, each running one handler
          Resellers,
          Accounts,     \* row ids of credit_accounts (bound)
          Repayments,   \* row ids of repayments (bound)
          MaxOrders,    \* bound on the wholesale orders; an order's id is its rank by createdAt
          Amounts,      \* order totals and repayment amounts
          Limits,       \* credit limits
          MaxUsed,      \* bound on the used amount, and on the lost credit, a reservation starts from
          DirectOrders, \* TRUE: POST /orders is also used with the wholesale channel
          None          \* no row, no reseller

ASSUME AmountsAssumption == Amounts \subseteq Nat /\ Limits \subseteq Nat /\ MaxUsed \in Nat
ASSUME BoundAssumption == MaxOrders \in Nat /\ DirectOrders \in BOOLEAN
ASSUME NoneAssumption == None \notin Resellers \cup Accounts
ASSUME FiniteAssumption == IsFiniteSet(Clients) /\ IsFiniteSet(Accounts) /\ IsFiniteSet(Repayments)

OrderIds == 1 .. MaxOrders

VARIABLES accounts,    \* credit_accounts: reseller, limit, used
          orders,      \* wholesale orders: status, reseller, total, paid
          repayments,  \* repayments and their allocations; an allocation is also a captured
                       \* "credit" payment of the order, and its only one
          call,        \* per client, the handler it runs and what it has read
          lost         \* history: per reseller, credit taken by requests that died before
                       \* they created the order or gave the credit back

tables == <<accounts, orders, repayments>>
vars == <<accounts, orders, repayments, call, lost>>

NoAccount == [reseller |-> None, limit |-> 0, used |-> 0]
NoOrder == [status |-> "absent", reseller |-> None, total |-> 0, paid |-> 0]
Nothing == [o \in OrderIds |-> 0]
NoRepayment == [account |-> None, amount |-> 0, unapplied |-> 0, applied |-> Nothing]

(* The fields a handler in flight uses: its request (reseller, amount,     *)
(* limit, override), the account row it found (account) and what it read   *)
(* there (seen), the paid amounts findMany returned (paid), the orders the *)
(* loop has still to visit (todo), what is left of the repayment           *)
(* (remaining) and what the loop has allocated (applied).  A refresh keeps *)
(* its order in todo and the sum it read in seen.                          *)
Idle == [op |-> "idle", reseller |-> None, amount |-> 0, limit |-> 0, override |-> FALSE,
         account |-> None, seen |-> 0, paid |-> Nothing, todo |-> {}, remaining |-> 0,
         applied |-> Nothing]

Init ==
  /\ accounts = [a \in Accounts |-> NoAccount]
  /\ orders = [o \in OrderIds |-> NoOrder]
  /\ repayments = [p \in Repayments |-> NoRepayment]
  /\ call = [c \in Clients |-> Idle]
  /\ lost = [r \in Resellers |-> 0]

Goto(c, next) == call' = [call EXCEPT ![c] = next]
Return(c) == Goto(c, Idle)

AccountsOf(r) == {a \in Accounts : accounts[a].reseller = r}

Subtract(seen, amount) == IF seen > amount THEN seen - amount ELSE 0

SumOver(S, f) == SumFunctionOnSet(f, S)

(* The captured payments of an order: each iteration of createRepayment    *)
(* that gives an order something also records it as a captured payment,    *)
(* and nothing else records one for a wholesale order.                     *)
Allocated(o) == SumOver(Repayments, [p \in Repayments |-> repayments[p].applied[o]])

-----------------------------------------------------------------------------
(* createCreditAccount, also called by onboardReseller: one insert; no     *)
(* index keeps a reseller from having several accounts.                    *)
InsertAccount(r, limit) ==
  \E a \in Accounts :
    /\ accounts[a].reseller = None
    /\ accounts' = [accounts EXCEPT ![a] = [reseller |-> r, limit |-> limit, used |-> 0]]

CreateCreditAccount(c) ==
  /\ call[c].op = "idle"
  /\ \E r \in Resellers, limit \in Limits : InsertAccount(r, limit)
  /\ UNCHANGED <<orders, repayments, call, lost>>

(* updateCreditLimit: findFirst, then update the limit of the row found or *)
(* create one.                                                             *)
LimitFind(c) ==
  /\ call[c].op = "idle"
  /\ \E r \in Resellers, limit \in Limits :
       \E a \in IF AccountsOf(r) = {} THEN {None} ELSE AccountsOf(r) :
         Goto(c, [Idle EXCEPT !.op = "limit", !.reseller = r, !.limit = limit, !.account = a])
  /\ UNCHANGED <<tables, lost>>

LimitWrite(c) ==
  LET k == call[c] IN
  /\ k.op = "limit"
  /\ IF k.account = None
     THEN InsertAccount(k.reseller, k.limit)
     ELSE accounts' = [accounts EXCEPT ![k.account].limit = k.limit]
  /\ Return(c)
  /\ UNCHANGED <<orders, repayments, lost>>

-----------------------------------------------------------------------------
(* createWholesaleOrder: reserveCreditUsage, then createOrder, and         *)
(* releaseCreditUsage when that fails.  reserveCreditUsage refuses when    *)
(* less than the total is available, unless the caller may override.       *)
MutantWithinLimit(a, amount) == accounts[a].used <= accounts[a].limit  \* the order itself forgotten

WithinLimit(a, amount) == accounts[a].limit - accounts[a].used >= amount

ReserveRead(c) ==
  /\ call[c].op = "idle"
  /\ \E r \in Resellers, amount \in Amounts, override \in BOOLEAN : \E a \in AccountsOf(r) :
       /\ override \/ WithinLimit(a, amount)
       /\ accounts[a].used + amount <= MaxUsed
       /\ lost[r] + amount <= MaxUsed
       /\ Goto(c, [Idle EXCEPT !.op = "reserve", !.reseller = r, !.amount = amount,
                               !.override = override, !.account = a, !.seen = accounts[a].used])
  /\ UNCHANGED <<tables, lost>>

ReserveCommit(c) ==
  LET k == call[c] IN
  /\ k.op = "reserve"
  /\ accounts' = [accounts EXCEPT ![k.account].used = k.seen + k.amount]
  /\ Goto(c, [k EXCEPT !.op = "order"])
  /\ UNCHANGED <<orders, repayments, lost>>

(* createOrder: one insert; createdAt is the database's clock.             *)
InsertOrder(r, total) ==
  \E o \in OrderIds :
    /\ orders[o].status = "absent"
    /\ \A p \in OrderIds : p < o => orders[p].status # "absent"
    /\ orders' = [orders EXCEPT ![o] =
                    [status |-> "pending", reseller |-> r, total |-> total, paid |-> 0]]

CreateOrder(c) ==
  /\ call[c].op = "order"
  /\ InsertOrder(call[c].reseller, call[c].amount)
  /\ Return(c)
  /\ UNCHANGED <<accounts, repayments, lost>>

(* createOrder throws; releaseCreditUsage returns early for an amount of 0 *)
(* and otherwise reads and writes the used amount of an account.           *)
MutantCreateOrderFails(c) ==  \* the catch block forgotten
  /\ call[c].op = "order"
  /\ Return(c)
  /\ UNCHANGED <<tables, lost>>

CreateOrderFails(c) ==
  /\ call[c].op = "order"
  /\ IF call[c].amount = 0 THEN Return(c) ELSE Goto(c, [call[c] EXCEPT !.op = "undo"])
  /\ UNCHANGED <<tables, lost>>

ReleaseRead(c) ==
  /\ call[c].op = "undo"
  /\ \E a \in AccountsOf(call[c].reseller) :
       Goto(c, [call[c] EXCEPT !.op = "release", !.account = a, !.seen = accounts[a].used])
  /\ UNCHANGED <<tables, lost>>

ReleaseCommit(c) ==
  LET k == call[c] IN
  /\ k.op = "release"
  /\ accounts' = [accounts EXCEPT ![k.account].used = Subtract(k.seen, k.amount)]
  /\ Return(c)
  /\ UNCHANGED <<orders, repayments, lost>>

(* POST /orders with the wholesale channel in its header: createOrder      *)
(* alone.                                                                  *)
CreateDirectOrder(c) ==
  /\ DirectOrders
  /\ call[c].op = "idle"
  /\ \E r \in Resellers, total \in Amounts : InsertOrder(r, total)
  /\ UNCHANGED <<accounts, repayments, call, lost>>

(* cancelOrder and fulfillOrder look at nothing but that the order exists. *)
SetStatus(c, status) ==
  /\ call[c].op = "idle"
  /\ \E o \in OrderIds :
       /\ orders[o].status \notin {"absent", status}
       /\ orders' = [orders EXCEPT ![o].status = status]
  /\ UNCHANGED <<accounts, repayments, call, lost>>

CancelOrder(c) == SetStatus(c, "cancelled")
FulfillOrder(c) == SetStatus(c, "fulfilled")

-----------------------------------------------------------------------------
(* createRepayment, one transaction: read the account, read the reseller's *)
(* orders that are not cancelled, oldest first, pay each one's balance as  *)
(* far as the amount goes, then write orders, allocations, the account and *)
(* the repayment.                                                          *)
RepayRead(c) ==
  /\ call[c].op = "idle"
  /\ \E a \in Accounts, amount \in Amounts :
       /\ accounts[a].reseller # None
       /\ Goto(c, [Idle EXCEPT !.op = "repay", !.account = a, !.amount = amount,
                               !.reseller = accounts[a].reseller, !.seen = accounts[a].used,
                               !.remaining = amount])
  /\ UNCHANGED <<tables, lost>>

OpenOrders(r) ==
  {o \in OrderIds : orders[o].reseller = r /\ orders[o].status \notin {"absent", "cancelled"}}

RepayOrders(c) ==
  /\ call[c].op = "repay"
  /\ Goto(c, [call[c] EXCEPT !.op = "allocate", !.todo = OpenOrders(call[c].reseller),
                             !.paid = [o \in OrderIds |-> orders[o].paid]])
  /\ UNCHANGED <<tables, lost>>

(* One iteration: balance <= 0 gives nothing, else min(balance, remaining).*)
Share(k, o) ==
  LET balance == orders[o].total - k.paid[o]
  IN IF balance <= 0 THEN 0 ELSE IF balance < k.remaining THEN balance ELSE k.remaining

MutantFirst(todo) == CHOOSE o \in todo : \A p \in todo : p <= o  \* newest first
First(todo) == CHOOSE o \in todo : \A p \in todo : o <= p

Allocate(c) ==
  LET k == call[c]
      o == First(k.todo)
  IN
  /\ k.op = "allocate"
  /\ k.todo # {}
  /\ k.remaining > 0
  /\ Goto(c, [k EXCEPT !.todo = @ \ {o}, !.applied[o] = Share(k, o),
                       !.remaining = @ - Share(k, o)])
  /\ UNCHANGED <<tables, lost>>

MutantNextPaid(k, o) == k.applied[o]  \* what was paid before forgotten
MutantFullPaid(k, o) == k.paid[o] + k.amount  \* the repayment instead of its share
NextPaid(k, o) == k.paid[o] + k.applied[o]

NextUsed(k) == Subtract(k.seen, k.amount - k.remaining)

Unapplied(k) == k.remaining

RepayCommit(c) ==
  LET k == call[c] IN
  /\ k.op = "allocate"
  /\ k.todo = {} \/ k.remaining <= 0
  /\ orders' = [o \in OrderIds |->
       IF k.applied[o] > 0 THEN [orders[o] EXCEPT !.paid = NextPaid(k, o)] ELSE orders[o]]
  /\ accounts' = [accounts EXCEPT ![k.account].used = NextUsed(k)]
  /\ \E p \in Repayments :
       /\ repayments[p].account = None
       /\ repayments' = [repayments EXCEPT ![p] =
            [account |-> k.account, amount |-> k.amount, unapplied |-> Unapplied(k),
             applied |-> k.applied]]
  /\ Return(c)
  /\ UNCHANGED lost

-----------------------------------------------------------------------------
(* refreshOrderPaymentSummary: capturing a payment intent of the order, or *)
(* a webhook about one, sums the order's captured payments and writes the  *)
(* sum, whatever was written in between.                                   *)
RefreshRead(c) ==
  /\ call[c].op = "idle"
  /\ \E o \in OrderIds :
       /\ orders[o].status # "absent"
       /\ Goto(c, [Idle EXCEPT !.op = "refresh", !.todo = {o}, !.seen = Allocated(o)])
  /\ UNCHANGED <<tables, lost>>

RefreshWrite(c) ==
  LET k == call[c] IN
  /\ k.op = "refresh"
  /\ orders' = [o \in OrderIds |->
       IF o \in k.todo THEN [orders[o] EXCEPT !.paid = k.seen] ELSE orders[o]]
  /\ Return(c)
  /\ UNCHANGED <<accounts, repayments, lost>>

-----------------------------------------------------------------------------
(* The process dies, or a statement fails: a transaction leaves nothing    *)
(* behind, a wholesale order between its reservation and its end leaves    *)
(* the reserved credit.                                                    *)
Holding == {"order", "undo", "release"}

Crash(c) ==
  /\ call[c].op # "idle"
  /\ Return(c)
  /\ lost' = IF call[c].op \in Holding
             THEN [lost EXCEPT ![call[c].reseller] = @ + call[c].amount] ELSE lost
  /\ UNCHANGED tables

Next == \E c \in Clients :
  \/ CreateCreditAccount(c) \/ LimitFind(c) \/ LimitWrite(c)
  \/ ReserveRead(c) \/ ReserveCommit(c) \/ CreateOrder(c) \/ CreateOrderFails(c)
  \/ ReleaseRead(c) \/ ReleaseCommit(c)
  \/ CreateDirectOrder(c) \/ CancelOrder(c) \/ FulfillOrder(c)
  \/ RepayRead(c) \/ RepayOrders(c) \/ Allocate(c) \/ RepayCommit(c)
  \/ RefreshRead(c) \/ RefreshWrite(c)
  \/ Crash(c)

Spec == Init /\ [][Next]_vars

-----------------------------------------------------------------------------
Ops == {"idle", "limit", "reserve", "order", "undo", "release", "repay", "allocate",
        "refresh"}

AccountRow == [reseller : Resellers \cup {None}, limit : Nat, used : Nat]
OrderRow == [status : {"absent", "pending", "fulfilled", "cancelled"},
             reseller : Resellers \cup {None}, total : Nat, paid : Nat]
Allocation == [OrderIds -> Nat]
RepaymentRow == [account : Accounts \cup {None}, amount : Nat, unapplied : Nat, applied : Allocation]
Handler == [op : Ops, reseller : Resellers \cup {None}, amount : Nat, limit : Nat,
            override : BOOLEAN, account : Accounts \cup {None}, seen : Nat, paid : Allocation,
            todo : SUBSET OrderIds, remaining : Nat, applied : Allocation]

(* The tables and the handlers' local copies have their types: no used,    *)
(* paid or unapplied amount is ever negative, whatever the interleaving.   *)
TypeOK ==
  /\ accounts \in [Accounts -> AccountRow]
  /\ orders \in [OrderIds -> OrderRow]
  /\ repayments \in [Repayments -> RepaymentRow]
  /\ call \in [Clients -> Handler]
  /\ lost \in [Resellers -> Nat]

-----------------------------------------------------------------------------
Balances == [o \in OrderIds |-> orders[o].total - orders[o].paid]
OrdersOf(r) == {o \in OrderIds : orders[o].reseller = r}
Used(r) == SumOver(AccountsOf(r), [a \in Accounts |-> accounts[a].used])
Granted(r) == SumOver(AccountsOf(r), [a \in Accounts |-> accounts[a].limit])
Owed(r) == SumOver(OpenOrders(r), Balances)
InFlight(r) == SumOver({c \in Clients : call[c].op \in Holding /\ call[c].reseller = r},
                       [c \in Clients |-> call[c].amount])

(* createWholesaleOrder, "On wholesale order create, reject if available   *)
(* credit < order total": when an order is created without the override    *)
(* for a reseller with one account, everything the reseller then owes is   *)
(* within the credit limit.                                                *)
OrdersWithinLimit ==
  [][\A c \in Clients, r \in Resellers :
       /\ call[c].op = "order" /\ ~call[c].override /\ call[c].reseller = r
       /\ orders' # orders /\ call'[c] # call[c]
       /\ Cardinality(AccountsOf(r)) = 1
       => Owed(r)' <= Granted(r)]_vars

(* reserveCreditUsage, releaseCreditUsage and createRepayment: while a     *)
(* reseller has one account, its used amount is exactly what its orders    *)
(* still owe, cancelled ones included, plus what requests in flight hold   *)
(* and what dead requests have lost.                                       *)
CreditExact ==
  \A r \in Resellers :
    /\ Used(r) >= Owed(r)
    /\ Cardinality(AccountsOf(r)) = 1 =>
         Used(r) = SumOver(OrdersOf(r), Balances) + InFlight(r) + lost[r]

(* createRepayment: "Repayments apply FIFO to oldest open invoices": an    *)
(* order is paid only when the older open orders of its reseller are paid  *)
(* in full.  "If no open invoices, ... keep unapplied_amount": money stays *)
(* unapplied only when the reseller's open orders owe nothing more.        *)
OldestFirst ==
  [][/\ \A o, p \in OrderIds :
          /\ orders'[o].paid > orders[o].paid
          /\ p < o
          /\ p \in OpenOrders(orders[o].reseller)
          => orders'[p].paid = orders'[p].total
     /\ \A p \in Repayments :
          /\ repayments[p].account = None
          /\ repayments'[p].unapplied > 0
          => \A o \in OpenOrders(accounts[repayments'[p].account].reseller) :
               orders'[o].paid = orders'[o].total]_vars

(* createRepayment: "Track allocations for reconciliation": what an order  *)
(* has been paid is what the repayments allocated to it; and money is      *)
(* neither made nor lost: what a repayment allocated and what it left      *)
(* unapplied is what was paid in, and it went to orders of the reseller    *)
(* that owns the account.                                                  *)
RepaymentsAddUp ==
  /\ \A o \in OrderIds : orders[o].paid = Allocated(o)
  /\ \A p \in Repayments :
       LET row == repayments[p] IN
       row.account # None =>
         /\ row.amount = row.unapplied + SumOver(OrderIds, row.applied)
         /\ \A o \in OrderIds : row.applied[o] > 0 => orders[o].reseller = accounts[row.account].reseller

(* createRepayment and refreshOrderPaymentSummary: repayments, captures    *)
(* and webhooks that overlap may lose what an order was paid, each writing *)
(* over the other from an older read, but they never make money: an order  *)
(* shows no more paid than the repayments have allocated to it.            *)
PaidIsBacked == \A o \in OrderIds : orders[o].paid <= Allocated(o)
==============================================================================
