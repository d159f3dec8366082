-------------------------------- MODULE Checkout -------------------------------
(***************************************************************************)
(* The retail and digital checkout of adapters/adapters.service.ts with    *)
(* the order, its stock reservations, its payments (payments/*.service.ts, *)
(* orders/orders.service.ts) and the customer's loyalty points             *)
(* (loyalty/loyalty.service.ts), the payment provider and its webhooks.    *)
(* A checkout is a saga: one statement or call per step, and a catch block *)
(* that releases the reservations and cancels the order.  The amount of a  *)
(* points tender is also the number of points it redeems.                  *)
(***************************************************************************)
EXTENDS Integers, Sequences, FiniteSets, Functions

CONSTANTS Clients,       \* concurrent requests, each running one handler
          Orders,        \* ids of orders (bound)
          Intents,       \* references of payment intents (bound)
          GatewayOf,     \* the provider of each reference
          MaxReferences, \* bound on the references opened
          Payments,      \* ids of order_payments (bound)
          Lines,         \* the lines of an order, each reserved by a transaction of its own
          Requests,      \* bodies of POST /adapters/{retail,digital}/checkout
          Amounts,       \* points moved by POST /points/issue and /points/redeem
          StartPoints,   \* the customer's points at the start
          MaxPoints,     \* bound on the points POST /points/issue may reach
          InOrder,       \* TRUE: a provider sends the webhooks of an intent in order, each once
          Crashes,       \* TRUE: any statement may fail and any request may die
          None           \* no order, no intent, no status

Statuses == {"requires_capture", "processing", "captured", "failed", "refunded"}
Tender == [method : {"cash", "points", "card"}, amount : Nat, capture : BOOLEAN]

ASSUME RequestAssumption ==
  /\ \A r \in Requests :
       /\ DOMAIN r = {"total", "tenders", "retail", "reserve", "deposit", "issue"}
       /\ r.total \in Nat /\ r.tenders \in Seq(Tender) /\ r.issue \in Nat
       /\ {r.retail, r.reserve, r.deposit} \subseteq BOOLEAN
  /\ Amounts \subseteq Nat /\ {StartPoints, MaxPoints, MaxReferences} \subseteq Nat
  /\ {InOrder, Crashes} \subseteq BOOLEAN
  /\ GatewayOf \in [Intents -> {"paystack", "flutterwave", "moniepoint"}]
  /\ None \notin Orders \cup Intents \cup Statuses

ASSUME FiniteAssumption == IsFiniteSet(Payments)

VARIABLES orders,     \* status, total, paid
          held,       \* per order, the lines with an active stock reservation
          reserving,  \* per order, the lines whose reservation transaction still runs
          intents,    \* payment_intents: order, amount, status
          payments,   \* order_payments: order, intent, amount, status
          points,     \* the customer's points_balance
          money,      \* the provider's own state of each reference
          events,     \* webhooks the provider has not got an answer to
          call        \* per client, the handler it runs and what it holds in memory

stock == <<held, reserving>>
provider == <<money, events>>
vars == <<orders, stock, intents, payments, points, provider, call>>

NoOrder == [status |-> "absent", total |-> 0, paid |-> 0]
NoIntent == [order |-> None, amount |-> 0, status |-> "requires_capture"]
NoPayment == [order |-> None, intent |-> None, amount |-> 0, status |-> "captured"]
NoRequest == [total |-> 0, tenders |-> <<>>, retail |-> FALSE, reserve |-> FALSE,
              deposit |-> FALSE, issue |-> 0]

(* What a handler holds: request and todo (the tenders left, the first one *)
(* being worked on), reserved (the reservations variable is assigned), the *)
(* reference and status at hand, captured (capturedPayment's status), the  *)
(* sum it read, paid (finalOrder's), the reservations found, and what      *)
(* follows a refresh of the order's summary (then).                        *)
Idle == [op |-> "idle", order |-> None, checkout |-> FALSE, request |-> NoRequest, todo |-> <<>>,
         reserved |-> FALSE, intent |-> None, status |-> "processing", captured |-> None,
         sum |-> 0, paid |-> 0, found |-> {}, then |-> "done"]

Init ==
  /\ orders = [o \in Orders |-> NoOrder]
  /\ held = [o \in Orders |-> {}]
  /\ reserving = [o \in Orders |-> {}]
  /\ intents = [i \in Intents |-> NoIntent]
  /\ payments = [p \in Payments |-> NoPayment]
  /\ points = StartPoints
  /\ money = [i \in Intents |-> "none"]
  /\ events = {}
  /\ call = [c \in Clients |-> Idle]

Goto(c, next) == call' = [call EXCEPT ![c] = next]
Return(c) == Goto(c, Idle)
Exists(o) == orders[o].status # "absent"

-----------------------------------------------------------------------------
(* checkout: createOrder, then one createStockReservation per line, all at *)
(* once under Promise.all.                                                 *)
Checkout(c) ==
  /\ call[c].op = "idle"
  /\ \E o \in Orders, r \in Requests :
       /\ ~Exists(o)
       /\ orders' = [orders EXCEPT ![o] = [status |-> "pending", total |-> r.total, paid |-> 0]]
       /\ reserving' = [reserving EXCEPT ![o] = IF r.reserve THEN Lines ELSE {}]
       /\ Goto(c, [Idle EXCEPT !.op = IF r.reserve THEN "reserve" ELSE "pay", !.order = o,
                               !.checkout = TRUE, !.request = r, !.todo = r.tenders])
  /\ UNCHANGED <<held, intents, payments, points, provider>>

LineReserved == \E o \in Orders : \E l \in reserving[o] :
  /\ held' = [held EXCEPT ![o] = @ \cup {l}]
  /\ reserving' = [reserving EXCEPT ![o] = @ \ {l}]
  /\ UNCHANGED <<orders, intents, payments, points, provider, call>>

(* The first reservation that fails rejects Promise.all: the catch block   *)
(* starts with no reservations in its variable, and the transactions of    *)
(* the other lines run on.                                                 *)
LineFails == \E o \in Orders : \E l \in reserving[o] :
  /\ reserving' = [reserving EXCEPT ![o] = @ \ {l}]
  /\ call' = [c \in Clients |->
       IF call[c].op = "reserve" /\ call[c].order = o
       THEN [call[c] EXCEPT !.op = "cancel"] ELSE call[c]]
  /\ UNCHANGED <<orders, held, intents, payments, points, provider>>

Reserved(c) ==
  /\ call[c].op = "reserve"
  /\ reserving[call[c].order] = {}
  /\ Goto(c, [call[c] EXCEPT !.op = "pay", !.reserved = TRUE])
  /\ UNCHANGED <<orders, stock, intents, payments, points, provider>>

-----------------------------------------------------------------------------
(* The loop over the tenders.  A points tender is redeemed first:          *)
(* redeemPoints reads the balance and decrements it afterwards.            *)
Paying(c, method) ==
  call[c].op = "pay" /\ call[c].todo # <<>> /\ Head(call[c].todo).method = method

Enough(amount) == points >= amount

RedeemRead(c) ==
  /\ Paying(c, "points")
  /\ Enough(Head(call[c].todo).amount)
  /\ Goto(c, [call[c] EXCEPT !.op = "redeem"])
  /\ UNCHANGED <<orders, stock, intents, payments, points, provider>>

(* POST /points/redeem *)
RedeemDirect(c) ==
  /\ call[c].op = "idle"
  /\ \E n \in Amounts :
       /\ Enough(n)
       /\ Goto(c, [Idle EXCEPT !.op = "redeem",
                     !.todo = <<[method |-> "points", amount |-> n, capture |-> FALSE]>>])
  /\ UNCHANGED <<orders, stock, intents, payments, points, provider>>

RedeemWrite(c) ==
  /\ call[c].op = "redeem"
  /\ points' = points - Head(call[c].todo).amount
  /\ IF call[c].checkout THEN Goto(c, [call[c] EXCEPT !.op = "record"]) ELSE Return(c)
  /\ UNCHANGED <<orders, stock, intents, payments, provider>>

(* createPaymentIntent: the provider opens the reference first, the row is *)
(* inserted when it has answered.                                          *)
Opened == {i \in Intents : money[i] # "none"}

OpenIntent(c, next) == \E i \in Intents :
  /\ i \notin Opened /\ Cardinality(Opened) < MaxReferences
  /\ money' = [money EXCEPT ![i] = "pending"]
  /\ Goto(c, [next EXCEPT !.op = "intent", !.intent = i])
  /\ UNCHANGED <<orders, stock, intents, payments, points, events>>

PayCard(c) == Paying(c, "card") /\ OpenIntent(c, call[c])

(* POST /payments/intents *)
CreateIntent(c) ==
  /\ call[c].op = "idle"
  /\ \E o \in Orders :
       /\ Exists(o)
       /\ OpenIntent(c, [Idle EXCEPT !.order = o,
            !.todo = <<[method |-> "card", amount |-> orders[o].total, capture |-> FALSE]>>])

AfterIntent(k) ==
  IF ~k.checkout THEN Idle
  ELSE IF Head(k.todo).capture THEN [k EXCEPT !.op = "ask", !.then = "record"]
  ELSE [k EXCEPT !.op = "record"]

InsertIntent(c) ==
  LET k == call[c] IN
  /\ k.op = "intent"
  /\ intents' = [intents EXCEPT ![k.intent] =
       [order |-> k.order, amount |-> Head(k.todo).amount, status |-> "requires_capture"]]
  /\ Goto(c, AfterIntent(k))
  /\ UNCHANGED <<orders, stock, payments, points, provider>>

(* POST /payments/:payment_id/capture *)
Capture(c) ==
  /\ call[c].op = "idle"
  /\ \E i \in Intents :
       /\ intents[i].order # None
       /\ Goto(c, [Idle EXCEPT !.op = "ask", !.intent = i, !.order = intents[i].order])
  /\ UNCHANGED <<orders, stock, intents, payments, points, provider>>

(* capturePaymentIntent asks the provider how the reference stands.  The   *)
(* manual gateway, which always answers captured, is the case where the    *)
(* customer has just paid.                                                 *)
Reported(m) == IF m \in {"captured", "failed"} THEN m ELSE "processing"

AskProvider(c) ==
  LET answer == Reported(money[call[c].intent]) IN
  /\ call[c].op = "ask"
  /\ Goto(c, [call[c] EXCEPT !.op = "update", !.status = answer, !.captured = answer])
  /\ UNCHANGED <<orders, stock, intents, payments, points, provider>>

(* parseWebhook: what a gateway makes of the outcome its provider reports. *)
(* Flutterwave's reads the event before the charge's status: a charge that *)
(* completed as failed is captured.  A refund's own status is taken not to *)
(* be "successful", which it would read as captured too.                   *)
MutantParseWebhook(gateway, outcome) ==  \* every gateway reads a completed charge as captured
  IF outcome = "failed" THEN "captured" ELSE outcome

ParseWebhook(gateway, outcome) ==
  IF outcome = "failed" /\ gateway = "flutterwave" THEN "captured"
  ELSE IF outcome = "refunded" /\ gateway = "moniepoint" THEN "processing"
  ELSE outcome

(* The status a handler writes; a webhook's record holds what it was sent. *)
Written(k) ==
  IF k.then = "answer" THEN ParseWebhook(GatewayOf[k.intent], k.status) ELSE k.status

(* handleWebhook: a reference no row has yet is answered with ok.          *)
Handled(i) == \E c \in Clients : call[c].then = "answer" /\ call[c].intent = i

Deliverable(e) ==
  /\ e \in events
  /\ InOrder => ~Handled(e.intent)
  /\ InOrder /\ e.status # "failed" => [e EXCEPT !.status = "failed"] \notin events
  /\ InOrder /\ e.status = "refunded" => [e EXCEPT !.status = "captured"] \notin events

Answered(e) ==
  \/ events' = events \ {e}
  \/ ~InOrder /\ UNCHANGED events

Webhook(c) ==
  /\ call[c].op = "idle"
  /\ \E e \in events :
       /\ Deliverable(e)
       /\ IF intents[e.intent].order = None
          THEN Answered(e) /\ UNCHANGED call
          ELSE /\ Goto(c, [Idle EXCEPT !.op = "update", !.intent = e.intent, !.status = e.status,
                                       !.order = intents[e.intent].order, !.then = "answer"])
               /\ UNCHANGED events
  /\ UNCHANGED <<orders, stock, intents, payments, points, money>>

(* Both then write the intent, its order payments and the order's summary. *)
UpdateIntent(c) ==
  LET k == call[c] IN
  /\ k.op = "update"
  /\ intents' = [intents EXCEPT ![k.intent].status = Written(k)]
  /\ Goto(c, [k EXCEPT !.op = "mark"])
  /\ UNCHANGED <<orders, stock, payments, points, provider>>

MutantMarked(p, k) == payments[p]  \* the updateMany forgotten
Marked(p, k) ==
  IF payments[p].intent = k.intent THEN [payments[p] EXCEPT !.status = Written(k)] ELSE payments[p]

MarkPayments(c) ==
  /\ call[c].op = "mark"
  /\ payments' = [p \in Payments |-> Marked(p, call[c])]
  /\ Goto(c, [call[c] EXCEPT !.op = "sum"])
  /\ UNCHANGED <<orders, stock, intents, points, provider>>

-----------------------------------------------------------------------------
(* recordOrderPayment: insert the tender's payment, then refresh the       *)
(* order's summary.  capturedPayment outlives the tender it was set for.   *)
RecordedStatus(k) ==
  IF Head(k.todo).method # "card" THEN "captured"
  ELSE IF k.captured # None THEN k.captured ELSE "requires_capture"

RecordPayment(c) ==
  LET k == call[c] IN
  /\ k.op = "record" \/ Paying(c, "cash")
  /\ \E p \in Payments :
       /\ payments[p].order = None
       /\ payments' = [payments EXCEPT ![p] =
            [order |-> k.order, intent |-> k.intent, amount |-> Head(k.todo).amount,
             status |-> RecordedStatus(k)]]
  /\ Goto(c, [k EXCEPT !.op = "sum", !.then = "pay"])
  /\ UNCHANGED <<orders, stock, intents, points, provider>>

(* refreshOrderPaymentSummary: the sum of the captured payments is read,   *)
(* and then written.                                                       *)
PaymentsOf(o) == {p \in Payments : payments[p].order = o}
Total(S) == SumFunctionOnSet([p \in Payments |-> payments[p].amount], S)

CapturedOf(o) == {p \in PaymentsOf(o) : payments[p].status = "captured"}

MutantSummed(o) == Total(PaymentsOf(o))  \* every payment counts
Summed(o) == Total(CapturedOf(o))

ReadSum(c) ==
  /\ call[c].op = "sum"
  /\ Goto(c, [call[c] EXCEPT !.op = "summary", !.sum = Summed(call[c].order)])
  /\ UNCHANGED <<orders, stock, intents, payments, points, provider>>

(* The loop goes on with the next tender, with the order it got back; or   *)
(* with recording the payment just captured; or the request is answered.   *)
NextTender(k) ==
  [k EXCEPT !.op = "pay", !.todo = Tail(@), !.paid = k.sum, !.intent = None]

WriteSummary(c) ==
  LET k == call[c] IN
  /\ k.op = "summary"
  /\ orders' = [orders EXCEPT ![k.order].paid = k.sum]
  /\ \/ k.then = "pay" /\ Goto(c, NextTender(k)) /\ UNCHANGED events
     \/ k.then = "record" /\ Goto(c, [k EXCEPT !.op = "record"]) /\ UNCHANGED events
     \/ k.then = "done" /\ Return(c) /\ UNCHANGED events
     \/ k.then = "answer" /\ Return(c) /\ Answered([intent |-> k.intent, status |-> k.status])
  /\ UNCHANGED <<stock, intents, payments, points, money>>

-----------------------------------------------------------------------------
(* After the loop: issuePoints when asked for, and fulfillOrder for a      *)
(* retail order that is paid, or paid in part when that releases it.       *)
IssuePoints(c) ==
  /\ call[c].op = "pay" /\ call[c].todo = <<>> /\ call[c].request.issue > 0
  /\ points' = points + call[c].request.issue
  /\ Goto(c, [call[c] EXCEPT !.op = "issued"])
  /\ UNCHANGED <<orders, stock, intents, payments, provider>>

(* POST /points/issue *)
IssueDirect(c) ==
  /\ call[c].op = "idle"
  /\ \E n \in Amounts : points + n <= MaxPoints /\ points' = points + n
  /\ UNCHANGED <<orders, stock, intents, payments, provider, call>>

Settled(k) ==
  \/ k.op = "issued"
  \/ k.op = "pay" /\ k.todo = <<>> /\ k.request.issue = 0

MutantShouldFulfill(k) ==  \* any payment releases
  k.request.retail /\ (k.request.tenders = <<>> \/ k.paid > 0)

ShouldFulfill(k) ==
  /\ k.request.retail
  /\ \/ k.request.tenders = <<>>
     \/ k.paid >= k.request.total
     \/ k.request.deposit /\ k.paid > 0

Fulfill(c) ==
  /\ Settled(call[c])
  /\ ShouldFulfill(call[c])
  /\ orders' = [orders EXCEPT ![call[c].order].status = "fulfilled"]
  /\ Return(c)
  /\ UNCHANGED <<stock, intents, payments, points, provider>>

Leave(c) ==
  /\ Settled(call[c])
  /\ ~ShouldFulfill(call[c])
  /\ Return(c)
  /\ UNCHANGED <<orders, stock, intents, payments, points, provider>>

(* POST /orders/:order_id/fulfill *)
FulfillDirect(c) ==
  /\ call[c].op = "idle"
  /\ \E o \in Orders :
       /\ orders[o].status \in {"pending", "cancelled"}
       /\ orders' = [orders EXCEPT ![o].status = "fulfilled"]
  /\ UNCHANGED <<stock, intents, payments, points, provider, call>>

-----------------------------------------------------------------------------
(* The catch block: release the reservations the variable holds, then      *)
(* cancelOrder, which reads the order's active reservations, releases what *)
(* it read and sets the status.  Nothing is refunded and no points return. *)
Undoing == {"release", "cancel", "drop", "close"}

Undo(k) == [k EXCEPT !.op = IF k.reserved THEN "release" ELSE "cancel"]

(* The provider or a check refuses a tender; any other statement fails     *)
(* only when Crashes says so.                                              *)
Throw(c) ==
  LET k == call[c] IN
  /\ k.checkout
  /\ \/ k.op \in {"pay", "ask"} /\ ~Settled(k)
     \/ Crashes /\ k.op \notin Undoing \cup {"reserve"}
  /\ Goto(c, Undo(k))
  /\ UNCHANGED <<orders, stock, intents, payments, points, provider>>

Release(c) ==
  LET k == call[c] IN
  /\ k.op = "release"
  /\ held' = [held EXCEPT ![k.order] = @ \ Lines]
  /\ Goto(c, [k EXCEPT !.op = "cancel"])
  /\ UNCHANGED <<orders, reserving, intents, payments, points, provider>>

(* POST /orders/:order_id/cancel *)
CancelDirect(c) ==
  /\ call[c].op = "idle"
  /\ \E o \in Orders : Exists(o) /\ Goto(c, [Idle EXCEPT !.op = "cancel", !.order = o])
  /\ UNCHANGED <<orders, stock, intents, payments, points, provider>>

CancelFind(c) ==
  /\ call[c].op = "cancel"
  /\ Goto(c, [call[c] EXCEPT !.op = "drop", !.found = held[call[c].order]])
  /\ UNCHANGED <<orders, stock, intents, payments, points, provider>>

MutantDropped(k) == {}  \* cancelOrder releases nothing
Dropped(k) == k.found

CancelRelease(c) ==
  LET k == call[c] IN
  /\ k.op = "drop"
  /\ held' = [held EXCEPT ![k.order] = @ \ Dropped(k)]
  /\ Goto(c, [k EXCEPT !.op = "close"])
  /\ UNCHANGED <<orders, reserving, intents, payments, points, provider>>

CancelWrite(c) ==
  /\ call[c].op = "close"
  /\ orders' = [orders EXCEPT ![call[c].order].status = "cancelled"]
  /\ Return(c)
  /\ UNCHANGED <<stock, intents, payments, points, provider>>

(* A failure while cleaning up is ignored.                                 *)
CleanupFails(c) ==
  /\ Crashes
  /\ call[c].op \in Undoing
  /\ IF call[c].op = "release" THEN Goto(c, [call[c] EXCEPT !.op = "cancel"]) ELSE Return(c)
  /\ UNCHANGED <<orders, stock, intents, payments, points, provider>>

Crash(c) ==
  /\ Crashes
  /\ call[c].op # "idle"
  /\ Return(c)
  /\ UNCHANGED <<orders, stock, intents, payments, points, provider>>

-----------------------------------------------------------------------------
(* The provider: a payment succeeds, or fails and is tried again by the    *)
(* customer; it is refunded when POST /refunds asks for it (createRefund   *)
(* only inserts a row nothing reads), or by hand where the gateway does    *)
(* not ask (moniepoint).  Each change is sent as a webhook, which may get  *)
(* lost unless InOrder.                                                    *)
Becomes(i, status) ==
  /\ money' = [money EXCEPT ![i] = status]
  /\ \/ events' = events \cup {[intent |-> i, status |-> status]}
     \/ ~InOrder /\ UNCHANGED events

ProviderStep == \E i \in Intents :
  /\ \/ money[i] \in {"pending", "failed"} /\ Becomes(i, "captured")
     \/ money[i] = "pending" /\ Becomes(i, "failed")
  /\ UNCHANGED <<orders, stock, intents, payments, points, call>>

Refund(c) ==
  /\ call[c].op = "idle"
  /\ \E i \in Intents :
       /\ intents[i].order # None
       /\ money[i] = "captured"
       /\ Becomes(i, "refunded")
  /\ UNCHANGED <<orders, stock, intents, payments, points, call>>

Step(c) ==
  \/ Reserved(c) \/ RedeemRead(c) \/ RedeemWrite(c) \/ PayCard(c) \/ InsertIntent(c)
  \/ AskProvider(c) \/ UpdateIntent(c) \/ MarkPayments(c) \/ RecordPayment(c)
  \/ ReadSum(c) \/ WriteSummary(c) \/ IssuePoints(c) \/ Fulfill(c) \/ Leave(c)
  \/ Release(c) \/ CancelFind(c) \/ CancelRelease(c) \/ CancelWrite(c)

Next ==
  \/ LineReserved \/ LineFails \/ ProviderStep
  \/ \E c \in Clients :
       \/ Step(c) \/ Checkout(c) \/ RedeemDirect(c) \/ CreateIntent(c) \/ Capture(c) \/ Webhook(c)
       \/ IssueDirect(c) \/ FulfillDirect(c) \/ CancelDirect(c) \/ Refund(c)
       \/ Throw(c) \/ CleanupFails(c) \/ Crash(c)

Spec == Init /\ [][Next]_vars

(* A request that runs goes on and is answered, and a reservation's        *)
(* transaction ends; the provider sends a webhook again until it is        *)
(* answered, so it gets through although other requests come between.      *)
Fairness ==
  /\ WF_vars(LineReserved \/ LineFails)
  /\ \A c \in Clients : WF_vars(Step(c) \/ Throw(c)) /\ SF_vars(Webhook(c))

FairSpec == Spec /\ Fairness

-----------------------------------------------------------------------------
Ops == {"idle", "reserve", "pay", "redeem", "intent", "ask", "update", "mark", "record", "sum",
        "summary", "issued"} \cup Undoing
Webhooks == [intent : Intents, status : {"captured", "failed", "refunded"}]

Handler == [op : Ops, order : Orders \cup {None}, checkout : BOOLEAN,
            request : Requests \cup {NoRequest}, todo : Seq(Tender), reserved : BOOLEAN,
            intent : Intents \cup {None}, status : Statuses, captured : Statuses \cup {None},
            sum : Nat, paid : Nat, found : SUBSET Lines, then : {"pay", "record", "done", "answer"}]

(* The tables and the handlers' local copies have their types.             *)
TypeOK ==
  /\ orders \in [Orders -> [status : {"absent", "pending", "fulfilled", "cancelled"},
                            total : Nat, paid : Nat]]
  /\ held \in [Orders -> SUBSET Lines]
  /\ reserving \in [Orders -> SUBSET Lines]
  /\ intents \in [Intents -> [order : Orders \cup {None}, amount : Nat, status : Statuses]]
  /\ payments \in [Payments -> [order : Orders \cup {None}, intent : Intents \cup {None},
                                amount : Nat, status : Statuses]]
  /\ points \in Int
  /\ money \in [Intents -> {"none", "pending", "captured", "failed", "refunded"}]
  /\ events \subseteq Webhooks
  /\ call \in [Clients -> Handler]

Rest == /\ \A c \in Clients : call[c].op = "idle"
        /\ \A o \in Orders : reserving[o] = {}

(* refreshOrderPaymentSummary: at rest, an order's paid amount is the sum  *)
(* of its captured payments.                                               *)
PaidIsCaptured == Rest => \A o \in Orders : orders[o].paid = Total(CapturedOf(o))

(* capturePaymentIntent, applyWebhook and recordOrderPayment: at rest,     *)
(* every order payment has the status of its payment intent.               *)
PaymentsFollowIntents ==
  Rest => \A p \in Payments : payments[p].intent # None =>
            payments[p].status = intents[payments[p].intent].status

(* A charge that failed at Flutterwave, which its webhook records as       *)
(* captured.                                                               *)
MisreadFailure(i) == GatewayOf[i] = "flutterwave" /\ money[i] = "failed"

(* parseWebhook, applyWebhook and capturePaymentIntent: at rest, once its  *)
(* webhooks are answered, an intent is captured when the provider has the  *)
(* money, and otherwise only for a charge that failed at Flutterwave.      *)
IntentsFollowProvider ==
  \A i \in Intents :
    Rest /\ intents[i].order # None /\ (\A e \in events : e.intent # i) =>
      /\ money[i] = "captured" => intents[i].status = "captured"
      /\ intents[i].status = "captured" => money[i] = "captured" \/ MisreadFailure(i)

(* refreshOrderPaymentSummary and recordOrderPayment: whatever the         *)
(* interleaving, failures and webhooks, an order never shows more paid     *)
(* than was received for it in cash, in points and by the provider, what   *)
(* the provider has since refunded included, and the charges that failed   *)
(* at Flutterwave, which its gateway reports as captured.                  *)
Backed(i) == money[i] \in {"captured", "refunded"} \/ MisreadFailure(i)
ReceivedPayment(p) == payments[p].intent = None \/ Backed(payments[p].intent)
Received(o) == Total({p \in PaymentsOf(o) : ReceivedPayment(p)})
PaidIsReceived == \A o \in Orders : orders[o].paid <= Received(o)

(* parseWebhook, applyWebhook and recordOrderPayment: a payment marked     *)
(* captured is one the provider has, or had, the money of, or a charge     *)
(* that failed at Flutterwave.                                             *)
CapturedIsReceived ==
  \A p \in Payments :
    payments[p].order # None /\ payments[p].status = "captured" => ReceivedPayment(p)

(* shouldFulfill: a checkout that is to be paid in full hands over the     *)
(* goods only when the order's total has been received, or reported as     *)
(* captured for a charge that failed at Flutterwave.                       *)
FulfilledIsPaid ==
  [][\A c \in Clients :
       LET k == call[c] IN
       /\ Settled(k)
       /\ orders' # orders /\ call'[c] # k
       /\ k.request.tenders # <<>> /\ ~k.request.deposit
       => Received(k.order) >= orders[k.order].total]_vars

(* checkout's catch block and cancelOrder: at rest, a cancelled order      *)
(* holds no stock.                                                         *)
CancelledHoldsNothing ==
  Rest => \A o \in Orders : orders[o].status = "cancelled" => held[o] = {}

(* applyWebhook: with other requests beside it, the webhook of a capture   *)
(* that is still to be answered when the order's payment exists, and no    *)
(* request is at work on its intent, finally shows in the payment.  One    *)
(* that is answered before the intent's row exists, or handled between the *)
(* intent's row and its payment, is lost for good.                         *)
CaptureIsSeen ==
  \A i \in Intents, p \in Payments :
    /\ [intent |-> i, status |-> "captured"] \in events
    /\ payments[p].intent = i
    /\ \A c \in Clients : call[c].intent # i
    ~> payments[p].status = "captured" \/ money[i] = "refunded"
===============================================================================
