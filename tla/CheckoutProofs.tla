---------------------------- MODULE CheckoutProofs ----------------------------
(***************************************************************************)
(* The checkout, for any number of requests, clients, orders, intents and  *)
(* payments.                                                               *)
(*                                                                         *)
(* Whatever the interleaving, the failures and the webhooks: the types     *)
(* (TypesHold), and as long as no request mixes cards that are captured at *)
(* once with cards that are not (UniformCapture), a payment marked captured*)
(* has been received (CardsReceived), no order shows more paid than was    *)
(* received for it (PaidWasReceived) and the goods of an order that is to  *)
(* be paid in full are handed over only then (FulfilledWasPaid), all of it *)
(* but for charges that failed at Flutterwave (MisreadFailure).            *)
(*                                                                         *)
(* When requests come one at a time (OneClient) and no statement fails: an *)
(* order's summary is the sum of its captured payments (PaidWasCaptured),  *)
(* payments follow their intents (PaymentsFollowed), intents follow the    *)
(* provider (IntentsFollowed) and a cancelled order holds no stock         *)
(* (CancelledHeldNothing).                                                 *)
(***************************************************************************)
EXTENDS Checkout, SumTheorems, SequenceTheorems, TLAPS

CardsOf(s) == {s[n] : n \in {m \in DOMAIN s : s[m].method = "card"}}
Alike(s) == \A t, u \in CardsOf(s) : t.capture = u.capture
AllCapture(s) == \A t \in CardsOf(s) : t.capture
CardFirst(s) == s # <<>> /\ Head(s).method = "card"

(* What the proof asks of the requests.                                    *)
UniformCapture == \A r \in Requests : Alike(r.tenders)

Moneys == {"none", "pending", "captured", "failed", "refunded"}

(* The provider has, or had, the money of a reference, or the charge is    *)
(* one whose failure Flutterwave's gateway reports as a capture.           *)
Got(i, m) ==
  \/ i = None
  \/ m[i] \in {"captured", "refunded"}
  \/ GatewayOf[i] = "flutterwave" /\ m[i] = "failed"

(* A handler is a record with the fields of Idle.                          *)
Shaped(k) ==
  k \in [op : {k.op}, order : {k.order}, checkout : {k.checkout}, request : {k.request},
         todo : Seq(Tender), reserved : {k.reserved}, intent : Intents \cup {None},
         status : {k.status}, captured : {k.captured}, sum : {k.sum}, paid : {k.paid},
         found : {k.found}, then : {k.then}]

(* A status a handler is about to write is one the gateway reported, and   *)
(* the tenders it still has to work on agree about being captured.         *)
Truthful(k, m) ==
  /\ k.op \in {"update", "mark"} /\ Written(k) = "captured" => Got(k.intent, m)
  /\ Alike(k.todo)
  /\ k.captured # None => AllCapture(k.todo)

(* The card being worked on, from its intent to its payment: what          *)
(* capturedPayment says is about this card's own reference.                *)
Refreshing == {"sum", "summary"}
OnCard(k, m) ==
  /\ k.op \in {"reserve", "pay", "redeem"} => k.intent = None
  /\ k.op = "redeem" => k.todo # <<>> /\ ~CardFirst(k.todo)
  /\ k.op = "intent" => CardFirst(k.todo)
  /\ k.op \in {"ask", "update", "mark"} => k.then # "pay"
  /\ k.op = "ask" => AllCapture(k.todo) /\ (k.then = "record" => CardFirst(k.todo))
  /\ k.op \in {"update", "mark"} \cup Refreshing /\ k.then = "record" =>
       CardFirst(k.todo) /\ (k.captured = "captured" => Got(k.intent, m))
  /\ k.op \in Refreshing /\ k.then = "pay" => k.todo # <<>>
  /\ k.op = "record" =>
       /\ k.todo # <<>>
       /\ k.intent # None => CardFirst(k.todo)
       /\ CardFirst(k.todo) /\ k.captured = "captured" => Got(k.intent, m)

Sound(k, m) == Shaped(k) /\ Truthful(k, m) /\ OnCard(k, m)

Row(p) == p \in [order : {p.order}, intent : Intents \cup {None}, amount : {p.amount},
                 status : {p.status}]
RowSound(p, m) == Row(p) /\ (p.status = "captured" => Got(p.intent, m))
EventSound(e, m) ==
  /\ e.intent \in Intents
  /\ ParseWebhook(GatewayOf[e.intent], e.status) = "captured" => Got(e.intent, m)

HandlersSound == call = [c \in Clients |-> call[c]] /\ \A c \in Clients : Sound(call[c], money)
PaymentsSound ==
  payments = [p \in Payments |-> payments[p]] /\ \A p \in Payments : RowSound(payments[p], money)

OrderRow(x) == x \in [status : {x.status}, total : Nat, paid : {x.paid}]
OrdersSound == orders = [o \in Orders |-> orders[o]] /\ \A o \in Orders : OrderRow(orders[o])

(* The inductive invariant.                                                *)
SoundInv ==
  /\ OrdersSound
  /\ money \in [Intents -> Moneys]
  /\ \A e \in events : EventSound(e, money)
  /\ HandlersSound
  /\ PaymentsSound

USE RequestAssumption

-----------------------------------------------------------------------------
(* The tenders left.                                                       *)
LEMMA TailCards ==
  ASSUME NEW s \in Seq(Tender), s # <<>>
  PROVE  /\ Tail(s) \in Seq(Tender)
         /\ CardsOf(Tail(s)) \subseteq CardsOf(s)
         /\ CardFirst(s) => Head(s) \in CardsOf(s)
<1>1. Head(s) \in Tender /\ Tail(s) \in Seq(Tender) /\ Len(Tail(s)) = Len(s) - 1
      /\ (\A n \in 1 .. Len(Tail(s)) : Tail(s)[n] = s[n + 1])
  BY HeadTailProperties
<1>2. Len(s) \in Nat \ {0} /\ DOMAIN s = 1 .. Len(s) /\ DOMAIN Tail(s) = 1 .. Len(Tail(s)) /\ Head(s) = s[1]
  BY <1>1, EmptySeq
<1>3. CardsOf(Tail(s)) \subseteq CardsOf(s)
  <2>1. SUFFICES ASSUME NEW n \in DOMAIN Tail(s), Tail(s)[n].method = "card"
                 PROVE  Tail(s)[n] \in CardsOf(s)
    BY DEF CardsOf
  <2>2. n + 1 \in DOMAIN s /\ Tail(s)[n] = s[n + 1]
    BY <1>1, <1>2
  <2>. QED BY <2>1, <2>2 DEF CardsOf
<1>4. CardFirst(s) => Head(s) \in CardsOf(s)
  BY <1>2 DEF CardFirst, CardsOf
<1>. QED BY <1>1, <1>3, <1>4

LEMMA TailAlike ==
  ASSUME NEW s \in Seq(Tender), s # <<>>
  PROVE  /\ Alike(s) => Alike(Tail(s))
         /\ AllCapture(s) => AllCapture(Tail(s))
BY TailCards DEF Alike, AllCapture

(* When the card at hand is captured, so are all that are left.            *)
LEMMA CaptureAll ==
  ASSUME NEW s \in Seq(Tender), Alike(s), CardFirst(s)
  PROVE  Head(s).capture <=> AllCapture(s)
<1>1. s # <<>> /\ Head(s) \in CardsOf(s) /\ Head(s) \in Tender
  BY TailCards, HeadTailProperties DEF CardFirst
<1>. QED BY <1>1 DEF Alike, AllCapture, CardsOf, Tender

LEMMA IdleSound == ASSUME NEW m PROVE Sound(Idle, m) /\ Shaped(Idle) /\ Idle.then = "done" /\ AllCapture(Idle.todo)
<1>1. CardsOf(<<>>) = {}
  BY DEF CardsOf
<1>2. Shaped(Idle)
  BY DEF Shaped, Idle
<1>. QED BY <1>1, <1>2 DEF Sound, Truthful, OnCard, Idle, Alike, AllCapture, Refreshing

-----------------------------------------------------------------------------
(* How a handler's record changes.                                         *)
LEMMA OpOnly ==
  ASSUME NEW k, Shaped(k), NEW o
  PROVE  LET n == [k EXCEPT !.op = o] IN
         /\ Shaped(n) /\ n.op = o /\ n.then = k.then
         /\ n.todo = k.todo /\ n.intent = k.intent /\ n.status = k.status /\ n.captured = k.captured
BY DEF Shaped

(* An operation that touches neither a card nor a payment.                 *)
Plain == {"idle", "issued"} \cup Undoing

LEMMA PlainSound ==
  ASSUME NEW m, NEW k, Sound(k, m), NEW n, Shaped(n), n.op \in Plain,
         n.todo = k.todo, n.captured = k.captured
  PROVE  Sound(n, m)
BY DEF Sound, Truthful, OnCard, Plain, Undoing, Refreshing

(* More money received leaves a sound handler, payment or event sound.     *)
Grows(m, n) == \A i \in Intents \cup {None} : Got(i, m) => Got(i, n)

LEMMA StaysSound ==
  ASSUME NEW m, NEW n, Grows(m, n)
  PROVE  /\ \A k : Sound(k, m) => Sound(k, n)
         /\ \A p : RowSound(p, m) => RowSound(p, n)
         /\ \A e : EventSound(e, m) => EventSound(e, n)
<1>1. ASSUME NEW k, Sound(k, m) PROVE Sound(k, n)
  <2>1. k.intent \in Intents \cup {None}
    BY <1>1 DEF Sound, Shaped
  <2>. QED BY <1>1, <2>1 DEF Sound, Truthful, OnCard, Grows
<1>2. ASSUME NEW p, RowSound(p, m) PROVE RowSound(p, n)
  <2>1. p.intent \in Intents \cup {None}
    BY <1>2 DEF RowSound, Row
  <2>. QED BY <1>2, <2>1 DEF RowSound, Grows
<1>3. ASSUME NEW e, EventSound(e, m) PROVE EventSound(e, n)
  BY <1>3 DEF EventSound, Grows
<1>. QED BY <1>1, <1>2, <1>3

(* The provider never takes back that it had the money.                    *)
LEMMA BecomesGrows ==
  ASSUME money \in [Intents -> Moneys], NEW i \in Intents, NEW s \in Moneys, Becomes(i, s),
         money[i] = "captured" => s = "refunded", money[i] # "refunded",
         money[i] = "failed" => s = "captured"
  PROVE  money' \in [Intents -> Moneys] /\ Grows(money, money') /\ money'[i] = s
BY DEF Becomes, Moneys, Grows, Got

LEMMA MoneyGrows ==
  ASSUME money \in [Intents -> Moneys], Next
  PROVE  money' \in [Intents -> Moneys] /\ Grows(money, money')
<1>1. CASE money' = money
  BY <1>1 DEF Grows
<1>2. ASSUME NEW c, NEW next, OpenIntent(c, next)
      PROVE  money' \in [Intents -> Moneys] /\ Grows(money, money')
  BY <1>2 DEF OpenIntent, Opened, Moneys, Grows, Got
<1>3. CASE ProviderStep
  BY <1>3, BecomesGrows DEF ProviderStep, Moneys
<1>4. ASSUME NEW c \in Clients, Refund(c)
      PROVE  money' \in [Intents -> Moneys] /\ Grows(money, money')
  BY <1>4, BecomesGrows DEF Refund, Moneys
<1>5. ASSUME NEW c \in Clients, Step(c)
      PROVE  money' = money \/ \E next : OpenIntent(c, next)
  BY <1>5 DEF Step, Reserved, RedeemRead, RedeemWrite, PayCard, InsertIntent, AskProvider, UpdateIntent,
    MarkPayments, RecordPayment, ReadSum, WriteSummary, IssuePoints, Fulfill, Leave, Release,
    CancelFind, CancelRelease, CancelWrite, provider
<1>6. ASSUME NEW c \in Clients,
             \/ Checkout(c) \/ RedeemDirect(c) \/ CreateIntent(c) \/ Capture(c) \/ Webhook(c)
             \/ IssueDirect(c) \/ FulfillDirect(c) \/ CancelDirect(c)
             \/ Throw(c) \/ CleanupFails(c) \/ Crash(c)
      PROVE  money' = money \/ \E next : OpenIntent(c, next)
  BY <1>6 DEF Checkout, RedeemDirect, CreateIntent, Capture, Webhook, IssueDirect, FulfillDirect,
    CancelDirect, Throw, CleanupFails, Crash, provider
<1>7. CASE LineReserved \/ LineFails
  BY <1>1, <1>7 DEF LineReserved, LineFails, provider
<1>. QED BY <1>1, <1>2, <1>3, <1>4, <1>5, <1>6, <1>7 DEF Next

-----------------------------------------------------------------------------
(* Every step leaves every handler sound, by the money of before the step. *)
HandlersAfter ==
  call' = [c \in Clients |-> call'[c]] /\ \A c \in Clients : Sound(call'[c], money)

LEMMA GotoSound ==
  ASSUME HandlersSound, NEW c \in Clients, NEW n, Goto(c, n), Sound(n, money)
  PROVE  HandlersAfter
BY DEF HandlersSound, HandlersAfter, Goto

LEMMA ReturnSound ==
  ASSUME HandlersSound, NEW c \in Clients, Return(c)
  PROVE  HandlersAfter
BY GotoSound, IdleSound DEF Return

LEMMA SameSound ==
  ASSUME HandlersSound, UNCHANGED call
  PROVE  HandlersAfter
BY DEF HandlersSound, HandlersAfter

(* Requests as they come in.                                               *)
LEMMA CheckoutSound ==
  ASSUME HandlersSound, UniformCapture, NEW c \in Clients, Checkout(c)
  PROVE  HandlersAfter
<1>1. PICK o \in Orders, r \in Requests :
        Goto(c, [Idle EXCEPT !.op = IF r.reserve THEN "reserve" ELSE "pay", !.order = o,
                             !.checkout = TRUE, !.request = r, !.todo = r.tenders])
  BY DEF Checkout
<1>. DEFINE n == [Idle EXCEPT !.op = IF r.reserve THEN "reserve" ELSE "pay", !.order = o,
                              !.checkout = TRUE, !.request = r, !.todo = r.tenders]
<1>2. r.tenders \in Seq(Tender) /\ Alike(r.tenders)
  BY DEF UniformCapture
<1>3. /\ Shaped(n) /\ n.op \in {"reserve", "pay"} /\ n.todo = r.tenders
      /\ n.captured = None /\ n.intent = None
  BY <1>2 DEF Shaped, Idle
<1>4. Sound(n, money)
  <2>. HIDE DEF n
  <2>. QED BY <1>2, <1>3 DEF Sound, Truthful, OnCard, Refreshing
<1>. QED BY <1>1, <1>4, GotoSound

LEMMA RequestSound ==
  ASSUME HandlersSound, \A e \in events : EventSound(e, money), NEW c \in Clients,
         \/ RedeemDirect(c) \/ Capture(c) \/ Webhook(c) \/ IssueDirect(c)
         \/ FulfillDirect(c) \/ CancelDirect(c) \/ Refund(c)
  PROVE  HandlersAfter
<1>. DEFINE redeem(n) == [method |-> "points", amount |-> n, capture |-> FALSE]
<1>1. CASE RedeemDirect(c)
  <2>1. PICK a \in Amounts : Goto(c, [Idle EXCEPT !.op = "redeem", !.todo = <<redeem(a)>>])
    BY <1>1 DEF RedeemDirect
  <2>. DEFINE n == [Idle EXCEPT !.op = "redeem", !.todo = <<redeem(a)>>]
  <2>2. redeem(a) \in Tender /\ redeem(a).method = "points"
    BY DEF Tender
  <2>. HIDE DEF redeem
  <2>3. /\ <<redeem(a)>> \in Seq(Tender) /\ <<redeem(a)>> # <<>>
        /\ Head(<<redeem(a)>>) = redeem(a) /\ CardsOf(<<redeem(a)>>) = {}
    BY <2>2 DEF CardsOf
  <2>4. /\ Shaped(n) /\ n.op = "redeem" /\ n.todo = <<redeem(a)>>
        /\ n.captured = None /\ n.intent = None
    BY <2>3 DEF Shaped, Idle
  <2>5. Sound(n, money)
    <3>. HIDE DEF n
    <3>. QED BY <2>2, <2>3, <2>4 DEF Sound, Truthful, OnCard, Refreshing, Alike, AllCapture, CardFirst
  <2>. QED BY <2>1, <2>5, GotoSound
<1>2. CASE Capture(c)
  <2>1. PICK i \in Intents :
          Goto(c, [Idle EXCEPT !.op = "ask", !.intent = i, !.order = intents[i].order])
    BY <1>2 DEF Capture
  <2>. DEFINE n == [Idle EXCEPT !.op = "ask", !.intent = i, !.order = intents[i].order]
  <2>2. Shaped(n) /\ n.op = "ask" /\ n.then = "done" /\ n.todo = Idle.todo /\ n.captured = Idle.captured
    BY IdleSound DEF Shaped
  <2>3. Sound(n, money)
    <3>. HIDE DEF n
    <3>. QED BY <2>2, IdleSound DEF Sound, Truthful, OnCard, Refreshing
  <2>. QED BY <2>1, <2>3, GotoSound
<1>3. CASE Webhook(c)
  <2>1. CASE UNCHANGED call
    BY <2>1, SameSound
  <2>2. CASE ~UNCHANGED call
    <3>1. PICK e \in events :
            Goto(c, [Idle EXCEPT !.op = "update", !.intent = e.intent, !.status = e.status,
                                 !.order = intents[e.intent].order, !.then = "answer"])
      BY <1>3, <2>2 DEF Webhook
    <3>. DEFINE k == [Idle EXCEPT !.op = "update", !.intent = e.intent, !.status = e.status]
                n == [k EXCEPT !.order = intents[e.intent].order, !.then = "answer"]
    <3>2. EventSound(e, money)
      OBVIOUS
    <3>3. /\ Shaped(k) /\ k.op = "update" /\ k.intent = e.intent /\ k.status = e.status
          /\ k.todo = Idle.todo /\ k.captured = Idle.captured
      BY <3>2, IdleSound DEF Shaped, EventSound
    <3>4. /\ Shaped(n) /\ n.op = "update" /\ n.intent = e.intent /\ n.status = e.status
          /\ n.todo = Idle.todo /\ n.captured = Idle.captured /\ n.then = "answer"
      <4>. HIDE DEF k
      <4>. QED BY <3>3 DEF Shaped
    <3>5. Sound(n, money)
      <4>. HIDE DEF n
      <4>. QED BY <3>2, <3>4, IdleSound DEF Sound, Truthful, OnCard, Refreshing, EventSound, Written
    <3>6. Goto(c, n)
      BY <3>1 DEF Idle
    <3>. QED BY <3>5, <3>6, GotoSound
  <2>. QED BY <2>1, <2>2
<1>4. CASE CancelDirect(c)
  <2>1. PICK o : Goto(c, [Idle EXCEPT !.op = "cancel", !.order = o])
    BY <1>4 DEF CancelDirect
  <2>. DEFINE n == [Idle EXCEPT !.op = "cancel", !.order = o]
  <2>2. Shaped(n) /\ n.op \in Plain /\ n.todo = Idle.todo /\ n.captured = Idle.captured
    BY IdleSound DEF Shaped, Plain, Undoing
  <2>3. Sound(n, money)
    <3>. HIDE DEF n
    <3>. QED BY <2>2, IdleSound, PlainSound
  <2>. QED BY <2>1, <2>3, GotoSound
<1>5. CASE IssueDirect(c) \/ FulfillDirect(c) \/ Refund(c)
  BY <1>5, SameSound DEF IssueDirect, FulfillDirect, Refund
<1>. QED BY <1>1, <1>2, <1>3, <1>4, <1>5

LEMMA IntentSound ==
  ASSUME HandlersSound, OrdersSound, NEW c \in Clients, CreateIntent(c) \/ PayCard(c)
  PROVE  HandlersAfter
<1>1. ASSUME NEW next, Shaped(next), CardFirst(next.todo), Truthful(next, money),
             OpenIntent(c, next)
      PROVE  HandlersAfter
  <2>1. PICK i \in Intents : Goto(c, [next EXCEPT !.op = "intent", !.intent = i])
    BY <1>1 DEF OpenIntent
  <2>. DEFINE n == [next EXCEPT !.op = "intent", !.intent = i]
  <2>2. /\ Shaped(n) /\ n.op = "intent" /\ n.todo = next.todo /\ n.captured = next.captured
    BY <1>1 DEF Shaped
  <2>3. Sound(n, money)
    <3>. HIDE DEF n
    <3>. QED BY <1>1, <2>2 DEF Sound, Truthful, OnCard, Refreshing
  <2>. QED BY <2>1, <2>3, GotoSound
<1>2. CASE PayCard(c)
  <2>1. Sound(call[c], money) /\ CardFirst(call[c].todo)
    BY <1>2 DEF HandlersSound, PayCard, Paying, CardFirst
  <2>. QED BY <1>1, <1>2, <2>1 DEF PayCard, Sound
<1>3. CASE CreateIntent(c)
  <2>. DEFINE card(o) == [method |-> "card", amount |-> orders[o].total, capture |-> FALSE]
              next(o) == [Idle EXCEPT !.order = o, !.todo = <<card(o)>>]
  <2>1. PICK o \in Orders : OpenIntent(c, next(o))
    BY <1>3 DEF CreateIntent
  <2>2. card(o) \in Tender /\ card(o).method = "card" /\ card(o).capture = FALSE
    BY DEF Tender, OrdersSound, OrderRow
  <2>. HIDE DEF card
  <2>3. /\ <<card(o)>> \in Seq(Tender) /\ <<card(o)>> # <<>>
        /\ Head(<<card(o)>>) = card(o) /\ CardsOf(<<card(o)>>) = {card(o)}
    BY <2>2 DEF CardsOf
  <2>4. /\ Shaped(next(o)) /\ next(o).op = "idle" /\ next(o).todo = <<card(o)>>
        /\ next(o).captured = None
    BY <2>3 DEF Shaped, Idle
  <2>5. CardFirst(next(o).todo) /\ Truthful(next(o), money)
    <3>. HIDE DEF next
    <3>. QED BY <2>2, <2>3, <2>4 DEF Truthful, CardFirst, Alike
  <2>. HIDE DEF next
  <2>. QED BY <1>1, <2>1, <2>4, <2>5
<1>. QED BY <1>2, <1>3

(* The provider's answer, and the writes that follow it.                   *)
LEMMA CardStepSound ==
  ASSUME HandlersSound, NEW c \in Clients,
         InsertIntent(c) \/ AskProvider(c) \/ UpdateIntent(c) \/ MarkPayments(c)
  PROVE  HandlersAfter
<1>. DEFINE k == call[c]
<1>1. Sound(k, money)
  BY DEF HandlersSound
<1>2. Shaped(k) /\ Alike(k.todo) /\ (k.captured # None => AllCapture(k.todo)) /\ k.todo \in Seq(Tender)
  BY <1>1 DEF Sound, Truthful, Shaped
<1>3. CASE InsertIntent(c)
  <2>1. k.op = "intent" /\ CardFirst(k.todo) /\ Goto(c, AfterIntent(k))
    BY <1>1, <1>3 DEF InsertIntent, Sound, OnCard
  <2>2. Head(k.todo).capture <=> AllCapture(k.todo)
    BY <1>2, <2>1, CaptureAll
  <2>3. Sound(AfterIntent(k), money)
    <3>1. CASE ~k.checkout
      BY <3>1, IdleSound DEF AfterIntent
    <3>2. CASE k.checkout /\ Head(k.todo).capture
      <4>. DEFINE n == [k EXCEPT !.op = "ask", !.then = "record"]
      <4>1. /\ Shaped(n) /\ n.op = "ask" /\ n.then = "record"
            /\ n.todo = k.todo /\ n.intent = k.intent /\ n.status = k.status /\ n.captured = k.captured
        <5>. HIDE DEF k
        <5>. QED BY <1>2 DEF Shaped
      <4>2. Sound(n, money)
        <5>. HIDE DEF n, k
        <5>. QED BY <1>2, <2>1, <2>2, <3>2, <4>1 DEF Sound, Truthful, OnCard, Refreshing
      <4>. QED BY <3>2, <4>2 DEF AfterIntent
    <3>3. CASE k.checkout /\ ~Head(k.todo).capture
      <4>. DEFINE n == [k EXCEPT !.op = "record"]
      <4>1. /\ Shaped(n) /\ n.op = "record"
            /\ n.todo = k.todo /\ n.intent = k.intent /\ n.status = k.status /\ n.captured = k.captured
        <5>. HIDE DEF k
        <5>. QED BY <1>2 DEF Shaped
      <4>2. k.captured = None
        BY <1>2, <2>2, <3>3
      <4>3. Sound(n, money)
        <5>. HIDE DEF n, k
        <5>. QED BY <1>2, <2>1, <4>1, <4>2, RequestAssumption
          DEF Sound, Truthful, OnCard, Refreshing, CardFirst, Statuses
      <4>. QED BY <3>3, <4>3 DEF AfterIntent
    <3>. QED BY <3>1, <3>2, <3>3
  <2>. QED BY <2>1, <2>3, GotoSound
<1>4. CASE AskProvider(c)
  <2>. DEFINE answer == Reported(money[k.intent])
              n == [k EXCEPT !.op = "update", !.status = answer, !.captured = answer]
  <2>1. k.op = "ask" /\ Goto(c, n)
    BY <1>4 DEF AskProvider
  <2>2. /\ answer = "captured" => Got(k.intent, money)
        /\ ParseWebhook(GatewayOf[k.intent], answer) = "captured" => Got(k.intent, money)
    BY DEF Reported, Got, ParseWebhook
  <2>3. /\ Shaped(n) /\ n.op = "update" /\ n.status = answer /\ n.captured = answer
        /\ n.todo = k.todo /\ n.intent = k.intent /\ n.then = k.then
    <3>. HIDE DEF answer, k
    <3>. QED BY <1>2 DEF Shaped
  <2>4. Sound(n, money)
    <3>. HIDE DEF answer, k, n
    <3>. QED BY <1>1, <1>2, <2>1, <2>2, <2>3 DEF Sound, Truthful, OnCard, Refreshing, Written
  <2>. QED BY <2>1, <2>4, GotoSound
<1>5. CASE UpdateIntent(c) \/ MarkPayments(c)
  <2>1. PICK o \in {"mark", "sum"} :
          /\ Goto(c, [k EXCEPT !.op = o])
          /\ k.op \in {"update", "mark"}
    BY <1>5 DEF UpdateIntent, MarkPayments
  <2>. DEFINE n == [k EXCEPT !.op = o]
  <2>2. /\ Shaped(n) /\ n.op = o /\ n.then = k.then
        /\ n.todo = k.todo /\ n.intent = k.intent /\ n.status = k.status /\ n.captured = k.captured
    BY <1>2, OpOnly
  <2>3. Sound(n, money)
    <3>. HIDE DEF k, n
    <3>. QED BY <1>1, <1>2, <2>1, <2>2 DEF Sound, Truthful, OnCard, Refreshing, Written
  <2>. QED BY <2>1, <2>3, GotoSound
<1>. QED BY <1>3, <1>4, <1>5

(* Recording a payment and refreshing the order.                           *)
LEMMA RecordStepSound ==
  ASSUME HandlersSound, NEW c \in Clients,
         RecordPayment(c) \/ ReadSum(c) \/ WriteSummary(c)
  PROVE  HandlersAfter
<1>. DEFINE k == call[c]
<1>1. Sound(k, money)
  BY DEF HandlersSound
<1>2. Shaped(k) /\ Alike(k.todo) /\ (k.captured # None => AllCapture(k.todo)) /\ k.todo \in Seq(Tender)
  BY <1>1 DEF Sound, Truthful, Shaped
<1>3. CASE RecordPayment(c)
  <2>. DEFINE n == [k EXCEPT !.op = "sum", !.then = "pay"]
  <2>1. Goto(c, n) /\ k.todo # <<>>
    BY <1>1, <1>3 DEF RecordPayment, Paying, Sound, OnCard
  <2>2. /\ Shaped(n) /\ n.op = "sum" /\ n.then = "pay"
        /\ n.todo = k.todo /\ n.intent = k.intent /\ n.status = k.status /\ n.captured = k.captured
    <3>. HIDE DEF k
    <3>. QED BY <1>2 DEF Shaped
  <2>3. Sound(n, money)
    <3>. HIDE DEF k, n
    <3>. QED BY <1>2, <2>1, <2>2 DEF Sound, Truthful, OnCard, Refreshing
  <2>. QED BY <2>1, <2>3, GotoSound
<1>4. CASE ReadSum(c)
  <2>. DEFINE sum == Summed(k.order)
              n == [k EXCEPT !.op = "summary", !.sum = sum]
  <2>1. Goto(c, n) /\ k.op = "sum"
    BY <1>4 DEF ReadSum
  <2>2. /\ Shaped(n) /\ n.op = "summary" /\ n.then = k.then
        /\ n.todo = k.todo /\ n.intent = k.intent /\ n.status = k.status /\ n.captured = k.captured
    <3>. HIDE DEF sum, k
    <3>. QED BY <1>2 DEF Shaped
  <2>3. Sound(n, money)
    <3>. HIDE DEF k, n
    <3>. QED BY <1>1, <1>2, <2>1, <2>2 DEF Sound, Truthful, OnCard, Refreshing
  <2>. QED BY <2>1, <2>3, GotoSound
<1>5. CASE WriteSummary(c)
  <2>1. CASE k.op = "summary" /\ k.then = "pay" /\ Goto(c, NextTender(k))
    <3>. DEFINE m == [k EXCEPT !.op = "pay", !.paid = k.sum]
                n == [m EXCEPT !.todo = Tail(@), !.intent = None]
    <3>1. k.todo # <<>>
      BY <1>1, <2>1 DEF Sound, OnCard, Refreshing
    <3>2. /\ Tail(k.todo) \in Seq(Tender) /\ Alike(Tail(k.todo))
          /\ k.captured # None => AllCapture(Tail(k.todo))
      BY <1>2, <3>1, TailCards, TailAlike
    <3>3. Shaped(m) /\ m.op = "pay" /\ m.todo = k.todo /\ m.captured = k.captured
      <4>. HIDE DEF k
      <4>. QED BY <1>2 DEF Shaped
    <3>4. /\ Shaped(n) /\ n.op = "pay" /\ n.todo = Tail(k.todo) /\ n.captured = k.captured
          /\ n.intent = None
      <4>. HIDE DEF m, k
      <4>. QED BY <3>2, <3>3 DEF Shaped
    <3>5. Sound(n, money)
      <4>. HIDE DEF m, k, n
      <4>. QED BY <3>2, <3>4 DEF Sound, Truthful, OnCard, Refreshing
    <3>6. Goto(c, n)
      <4>1. NextTender(k) = n
        <5>. HIDE DEF k
        <5>. QED BY <1>2 DEF NextTender, Shaped
      <4>. QED BY <2>1, <4>1
    <3>. QED BY <3>5, <3>6, GotoSound
  <2>2. CASE k.op = "summary" /\ k.then = "record" /\ Goto(c, [k EXCEPT !.op = "record"])
    <3>. DEFINE n == [k EXCEPT !.op = "record"]
    <3>1. /\ Shaped(n) /\ n.op = "record" /\ n.then = k.then
          /\ n.todo = k.todo /\ n.intent = k.intent /\ n.status = k.status /\ n.captured = k.captured
      BY <1>2, OpOnly
    <3>2. Sound(n, money)
      <4>. HIDE DEF k, n
      <4>. QED BY <1>1, <1>2, <2>2, <3>1 DEF Sound, Truthful, OnCard, Refreshing, CardFirst
    <3>. QED BY <2>2, <3>2, GotoSound
  <2>3. CASE Return(c)
    BY <2>3, ReturnSound
  <2>. QED BY <1>5, <2>1, <2>2, <2>3 DEF WriteSummary
<1>. QED BY <1>3, <1>4, <1>5

(* The steps that touch neither a card nor a payment.                      *)
LEMMA PlainStepSound ==
  ASSUME HandlersSound, NEW c \in Clients,
         \/ IssuePoints(c) \/ Fulfill(c) \/ Leave(c) \/ Throw(c) \/ CleanupFails(c) \/ Crash(c)
         \/ Release(c) \/ CancelFind(c) \/ CancelRelease(c) \/ CancelWrite(c)
  PROVE  HandlersAfter
<1>. DEFINE k == call[c]
<1>1. Sound(k, money) /\ Shaped(k)
  BY DEF HandlersSound, Sound
<1>2. ASSUME NEW o \in Plain, Goto(c, [k EXCEPT !.op = o])
      PROVE  HandlersAfter
  <2>. DEFINE n == [k EXCEPT !.op = o]
  <2>1. Shaped(n) /\ n.op = o /\ n.todo = k.todo /\ n.captured = k.captured
    <3>. HIDE DEF k
    <3>. QED BY <1>1 DEF Shaped
  <2>2. Sound(n, money)
    <3>. HIDE DEF k, n
    <3>. QED BY <1>1, <2>1, PlainSound
  <2>. QED BY <1>2, <2>2, GotoSound
<1>3. CASE CancelFind(c)
  <2>. DEFINE found == held[k.order]
              n == [k EXCEPT !.op = "drop", !.found = found]
  <2>1. Goto(c, n)
    BY <1>3 DEF CancelFind
  <2>2. Shaped(n) /\ n.op = "drop" /\ n.todo = k.todo /\ n.captured = k.captured
    <3>. HIDE DEF found, k
    <3>. QED BY <1>1 DEF Shaped
  <2>3. Sound(n, money)
    <3>. HIDE DEF k, n
    <3>. QED BY <1>1, <2>2, PlainSound DEF Plain, Undoing
  <2>. QED BY <2>1, <2>3, GotoSound
<1>4. CASE \E o \in Plain : Goto(c, [k EXCEPT !.op = o])
  BY <1>2, <1>4
<1>5. CASE Return(c)
  BY <1>5, ReturnSound
<1>6. IssuePoints(c) \/ Throw(c) \/ Release(c) \/ CancelRelease(c) => \E o \in Plain : Goto(c, [k EXCEPT !.op = o])
  BY DEF IssuePoints, Throw, Undo, Release, CancelRelease, Plain, Undoing
<1>7. Fulfill(c) \/ Leave(c) \/ CancelWrite(c) \/ Crash(c) => Return(c)
  BY DEF Fulfill, Leave, CancelWrite, Crash
<1>8. CleanupFails(c) => Return(c) \/ \E o \in Plain : Goto(c, [k EXCEPT !.op = o])
  BY DEF CleanupFails, Plain, Undoing
<1>. QED BY <1>3, <1>4, <1>5, <1>6, <1>7, <1>8

LEMMA PointsStepSound ==
  ASSUME HandlersSound, NEW c \in Clients, Reserved(c) \/ RedeemRead(c) \/ RedeemWrite(c)
  PROVE  HandlersAfter
<1>. DEFINE k == call[c]
<1>1. Sound(k, money) /\ Shaped(k)
  BY DEF HandlersSound, Sound
<1>2. CASE Reserved(c)
  <2>. DEFINE n == [k EXCEPT !.op = "pay", !.reserved = TRUE]
  <2>1. Goto(c, n) /\ k.op = "reserve"
    BY <1>2 DEF Reserved
  <2>2. /\ Shaped(n) /\ n.op = "pay" /\ n.todo = k.todo /\ n.captured = k.captured
        /\ n.intent = k.intent
    <3>. HIDE DEF k
    <3>. QED BY <1>1 DEF Shaped
  <2>3. Sound(n, money)
    <3>. HIDE DEF k, n
    <3>. QED BY <1>1, <2>1, <2>2 DEF Sound, Truthful, OnCard, Refreshing
  <2>. QED BY <2>1, <2>3, GotoSound
<1>3. ASSUME NEW o, Goto(c, [k EXCEPT !.op = o]),
             \/ o = "redeem" /\ Paying(c, "points")
             \/ o = "record" /\ k.op = "redeem"
      PROVE  HandlersAfter
  <2>. DEFINE n == [k EXCEPT !.op = o]
  <2>1. /\ Shaped(n) /\ n.op = o /\ n.then = k.then
        /\ n.todo = k.todo /\ n.intent = k.intent /\ n.status = k.status /\ n.captured = k.captured
    BY <1>1, OpOnly
  <2>2. \/ o = "redeem" /\ k.op = "pay" /\ k.todo # <<>> /\ ~CardFirst(k.todo)
        \/ o = "record" /\ k.op = "redeem"
    BY <1>3 DEF Paying, CardFirst
  <2>3. Sound(n, money)
    <3>. HIDE DEF k, n
    <3>. QED BY <1>1, <2>1, <2>2 DEF Sound, Truthful, OnCard, Refreshing
  <2>. QED BY <1>3, <2>3, GotoSound
<1>4. CASE RedeemRead(c)
  <2>1. Paying(c, "points") /\ Goto(c, [k EXCEPT !.op = "redeem"])
    BY <1>4 DEF RedeemRead
  <2>. QED BY <1>3, <2>1
<1>5. CASE RedeemWrite(c)
  <2>1. Return(c) \/ (k.op = "redeem" /\ Goto(c, [k EXCEPT !.op = "record"]))
    BY <1>5 DEF RedeemWrite
  <2>. QED BY <1>3, <2>1, ReturnSound
<1>. QED BY <1>2, <1>4, <1>5

(* A reservation that fails sends its checkout to the catch block.         *)
LEMMA LineFailsSound ==
  ASSUME HandlersSound, LineFails
  PROVE  HandlersAfter
<1>1. PICK o \in Orders : call' = [c \in Clients |->
        IF call[c].op = "reserve" /\ call[c].order = o
        THEN [call[c] EXCEPT !.op = "cancel"] ELSE call[c]]
  BY DEF LineFails
<1>2. ASSUME NEW c \in Clients
      PROVE  Sound(call'[c], money)
  <2>. DEFINE k == call[c]
              n == [k EXCEPT !.op = "cancel"]
  <2>1. Sound(k, money) /\ Shaped(k)
    BY DEF HandlersSound, Sound
  <2>2. Shaped(n) /\ n.op \in Plain /\ n.todo = k.todo /\ n.captured = k.captured
    <3>. HIDE DEF k
    <3>. QED BY <2>1 DEF Shaped, Plain, Undoing
  <2>3. Sound(n, money)
    <3>. HIDE DEF k, n
    <3>. QED BY <2>1, <2>2, PlainSound
  <2>4. call'[c] = n \/ call'[c] = k
    BY <1>1
  <2>. HIDE DEF k, n
  <2>. QED BY <2>1, <2>3, <2>4
<1>3. call' = [c \in Clients |-> call'[c]]
  BY <1>1
<1>. QED BY <1>2, <1>3 DEF HandlersAfter

LEMMA HandlersStep ==
  ASSUME SoundInv, UniformCapture, Next
  PROVE  HandlersAfter
<1>1. HandlersSound /\ OrdersSound /\ \A e \in events : EventSound(e, money)
  BY DEF SoundInv
<1>2. CASE LineFails
  BY <1>1, <1>2, LineFailsSound
<1>3. CASE LineReserved \/ ProviderStep
  BY <1>1, <1>3, SameSound DEF LineReserved, ProviderStep
<1>4. ASSUME NEW c \in Clients, Step(c)
      PROVE  HandlersAfter
  <2>1. CASE PayCard(c)
    BY <1>1, <2>1, IntentSound
  <2>2. CASE InsertIntent(c) \/ AskProvider(c) \/ UpdateIntent(c) \/ MarkPayments(c)
    BY <1>1, <2>2, CardStepSound
  <2>3. CASE RecordPayment(c) \/ ReadSum(c) \/ WriteSummary(c)
    BY <1>1, <2>3, RecordStepSound
  <2>4. CASE Reserved(c) \/ RedeemRead(c) \/ RedeemWrite(c)
    BY <1>1, <2>4, PointsStepSound
  <2>5. CASE \/ IssuePoints(c) \/ Fulfill(c) \/ Leave(c)
             \/ Release(c) \/ CancelFind(c) \/ CancelRelease(c) \/ CancelWrite(c)
    BY <1>1, <2>5, PlainStepSound
  <2>. QED BY <1>4, <2>1, <2>2, <2>3, <2>4, <2>5 DEF Step
<1>5. ASSUME NEW c \in Clients, Checkout(c)
      PROVE  HandlersAfter
  BY <1>1, <1>5, CheckoutSound
<1>6. ASSUME NEW c \in Clients, CreateIntent(c)
      PROVE  HandlersAfter
  BY <1>1, <1>6, IntentSound
<1>7. ASSUME NEW c \in Clients,
             \/ RedeemDirect(c) \/ Capture(c) \/ Webhook(c) \/ IssueDirect(c)
             \/ FulfillDirect(c) \/ CancelDirect(c) \/ Refund(c)
      PROVE  HandlersAfter
  BY <1>1, <1>7, RequestSound
<1>8. ASSUME NEW c \in Clients, Throw(c) \/ CleanupFails(c) \/ Crash(c)
      PROVE  HandlersAfter
  BY <1>1, <1>8, PlainStepSound
<1>. QED BY <1>2, <1>3, <1>4, <1>5, <1>6, <1>7, <1>8 DEF Next

-----------------------------------------------------------------------------
(* The payments: one that is recorded or marked captured has been received.*)
LEMMA PaymentsStep ==
  ASSUME SoundInv, Next
  PROVE  /\ payments' = [p \in Payments |-> payments'[p]]
         /\ \A p \in Payments : RowSound(payments'[p], money)
<1>. DEFINE After == /\ payments' = [p \in Payments |-> payments'[p]]
                     /\ \A p \in Payments : RowSound(payments'[p], money)
<1>1. PaymentsSound /\ HandlersSound
  BY DEF SoundInv
<1>2. CASE UNCHANGED payments
  BY <1>1, <1>2 DEF PaymentsSound
<1>3. ASSUME NEW c \in Clients, MarkPayments(c)
      PROVE  After
  <2>. DEFINE k == call[c]
  <2>1. /\ payments' = [p \in Payments |-> Marked(p, k)] /\ k.op = "mark" /\ Sound(k, money)
    BY <1>1, <1>3 DEF MarkPayments, HandlersSound
  <2>2. Written(k) = "captured" => Got(k.intent, money)
    BY <2>1 DEF Sound, Truthful
  <2>3. ASSUME NEW p \in Payments
        PROVE  RowSound(Marked(p, k), money)
    <3>1. RowSound(payments[p], money)
      BY <1>1 DEF PaymentsSound
    <3>2. CASE payments[p].intent = k.intent
      <4>. DEFINE row == payments[p]
                  n == [row EXCEPT !.status = Written(k)]
      <4>1. Row(row)
        BY <3>1 DEF RowSound
      <4>2. Row(n) /\ n.intent = row.intent /\ n.status = Written(k)
        <5>. HIDE DEF row, k
        <5>. QED BY <4>1 DEF Row
      <4>. QED BY <2>2, <3>2, <4>2 DEF Marked, RowSound
    <3>. QED BY <3>1, <3>2 DEF Marked
  <2>. QED BY <2>1, <2>3
<1>4. ASSUME NEW c \in Clients, RecordPayment(c)
      PROVE  After
  <2>. DEFINE k == call[c]
              row == [order |-> k.order, intent |-> k.intent, amount |-> Head(k.todo).amount,
                      status |-> RecordedStatus(k)]
  <2>1. PICK p \in Payments : payments' = [payments EXCEPT ![p] = row]
    BY <1>4 DEF RecordPayment
  <2>2. Sound(k, money) /\ (k.op = "record" \/ Paying(c, "cash"))
    BY <1>1, <1>4 DEF HandlersSound, RecordPayment
  <2>3. RecordedStatus(k) = "captured" => Got(k.intent, money)
    <3>1. CASE k.op = "record"
      BY <2>2, <3>1 DEF Sound, OnCard, RecordedStatus, CardFirst, Got
    <3>2. CASE Paying(c, "cash")
      BY <2>2, <3>2 DEF Sound, OnCard, Paying, Got
    <3>. QED BY <2>2, <3>1, <3>2
  <2>4. RowSound(row, money)
    <3>1. k.intent \in Intents \cup {None}
      BY <2>2 DEF Sound, Shaped
    <3>. HIDE DEF k
    <3>. QED BY <2>3, <3>1 DEF RowSound, Row
  <2>. HIDE DEF row
  <2>. QED BY <1>1, <2>1, <2>4 DEF PaymentsSound
<1>5. ASSUME NEW c \in Clients, Step(c)
      PROVE  UNCHANGED payments \/ MarkPayments(c) \/ RecordPayment(c)
  BY <1>5 DEF Step, Reserved, RedeemRead, RedeemWrite, PayCard, OpenIntent, InsertIntent, AskProvider,
    UpdateIntent, ReadSum, WriteSummary, IssuePoints, Fulfill, Leave, Release,
    CancelFind, CancelRelease, CancelWrite
<1>6. ASSUME NEW c \in Clients,
             \/ Checkout(c) \/ RedeemDirect(c) \/ CreateIntent(c) \/ Capture(c) \/ Webhook(c)
             \/ IssueDirect(c) \/ FulfillDirect(c) \/ CancelDirect(c) \/ Refund(c)
             \/ Throw(c) \/ CleanupFails(c) \/ Crash(c)
      PROVE  UNCHANGED payments
  BY <1>6 DEF Checkout, RedeemDirect, CreateIntent, OpenIntent, Capture, Webhook, IssueDirect,
    FulfillDirect, CancelDirect, Refund, Throw, CleanupFails, Crash
<1>7. CASE LineReserved \/ LineFails \/ ProviderStep
  BY <1>2, <1>7 DEF LineReserved, LineFails, ProviderStep
<1>. HIDE DEF After
<1>8. After
  BY <1>2, <1>3, <1>4, <1>5, <1>6, <1>7 DEF Next, After
<1>. QED BY <1>8 DEF After

(* The webhooks: a new one tells what the money has become.                *)
LEMMA EventsStep ==
  ASSUME SoundInv, Next
  PROVE  \A e \in events' : EventSound(e, money')
<1>1. \A e \in events : EventSound(e, money')
  BY MoneyGrows, StaysSound DEF SoundInv
<1>2. CASE events' \subseteq events
  BY <1>1, <1>2
<1>3. ASSUME NEW i \in Intents, NEW s \in Moneys, Becomes(i, s)
      PROVE  \A e \in events' : EventSound(e, money')
  <2>1. money'[i] = s
    BY <1>3 DEF Becomes, SoundInv
  <2>2. EventSound([intent |-> i, status |-> s], money')
    BY <2>1 DEF EventSound, Got, ParseWebhook
  <2>. QED BY <1>1, <1>3, <2>2 DEF Becomes
<1>4. ASSUME NEW c \in Clients, Step(c)
      PROVE  events' \subseteq events
  BY <1>4 DEF Step, Reserved, RedeemRead, RedeemWrite, PayCard, OpenIntent, InsertIntent, AskProvider,
    UpdateIntent, MarkPayments, RecordPayment, ReadSum, WriteSummary, IssuePoints, Fulfill, Leave,
    Release, CancelFind, CancelRelease, CancelWrite, Answered, provider
<1>5. ASSUME NEW c \in Clients,
             \/ Checkout(c) \/ RedeemDirect(c) \/ CreateIntent(c) \/ Capture(c) \/ Webhook(c)
             \/ IssueDirect(c) \/ FulfillDirect(c) \/ CancelDirect(c)
             \/ Throw(c) \/ CleanupFails(c) \/ Crash(c)
      PROVE  events' \subseteq events
  BY <1>5 DEF Checkout, RedeemDirect, CreateIntent, OpenIntent, Capture, Webhook, IssueDirect,
    FulfillDirect, CancelDirect, Throw, CleanupFails, Crash, Answered, provider
<1>6. CASE LineReserved \/ LineFails
  BY <1>2, <1>6 DEF LineReserved, LineFails, provider
<1>7. CASE ProviderStep
  BY <1>3, <1>7 DEF ProviderStep, Moneys
<1>8. ASSUME NEW c \in Clients, Refund(c)
      PROVE  \A e \in events' : EventSound(e, money')
  BY <1>3, <1>8 DEF Refund, Moneys
<1>. QED BY <1>2, <1>4, <1>5, <1>6, <1>7, <1>8 DEF Next

(* An order keeps a total that is a number.                                *)
LEMMA OrdersStep ==
  ASSUME OrdersSound, Next
  PROVE  OrdersSound'
<1>1. CASE UNCHANGED orders
  BY <1>1 DEF OrdersSound
<1>2. ASSUME NEW o \in Orders, NEW x, OrderRow(x), orders' = [orders EXCEPT ![o] = x]
      PROVE  OrdersSound'
  BY <1>2 DEF OrdersSound
<1>3. ASSUME NEW o, NEW s, orders' = [orders EXCEPT ![o].status = s]
      PROVE  OrdersSound'
  <2>1. CASE o \in Orders
    <3>. DEFINE row == orders[o]
                n == [row EXCEPT !.status = s]
    <3>1. OrderRow(row)
      BY <2>1 DEF OrdersSound
    <3>2. OrderRow(n)
      <4>. HIDE DEF row
      <4>. QED BY <3>1 DEF OrderRow
    <3>. QED BY <1>2, <1>3, <2>1, <3>2
  <2>2. CASE o \notin Orders
    BY <1>3, <2>2 DEF OrdersSound
  <2>. QED BY <2>1, <2>2
<1>4. ASSUME NEW o, NEW s, orders' = [orders EXCEPT ![o].paid = s]
      PROVE  OrdersSound'
  <2>1. CASE o \in Orders
    <3>. DEFINE row == orders[o]
                n == [row EXCEPT !.paid = s]
    <3>1. OrderRow(row)
      BY <2>1 DEF OrdersSound
    <3>2. OrderRow(n)
      <4>. HIDE DEF row
      <4>. QED BY <3>1 DEF OrderRow
    <3>. QED BY <1>2, <1>4, <2>1, <3>2
  <2>2. CASE o \notin Orders
    BY <1>4, <2>2 DEF OrdersSound
  <2>. QED BY <2>1, <2>2
<1>5. ASSUME NEW c \in Clients, Checkout(c)
      PROVE  OrdersSound'
  <2>1. PICK o \in Orders, r \in Requests :
          orders' = [orders EXCEPT ![o] = [status |-> "pending", total |-> r.total, paid |-> 0]]
    BY <1>5 DEF Checkout
  <2>2. OrderRow([status |-> "pending", total |-> r.total, paid |-> 0])
    BY DEF OrderRow
  <2>. QED BY <1>2, <2>1, <2>2
<1>6. ASSUME NEW c \in Clients, WriteSummary(c)
      PROVE  OrdersSound'
  BY <1>4, <1>6 DEF WriteSummary
<1>7. ASSUME NEW c \in Clients, Fulfill(c) \/ CancelWrite(c)
      PROVE  OrdersSound'
  BY <1>3, <1>7 DEF Fulfill, CancelWrite
<1>8. ASSUME NEW c \in Clients, FulfillDirect(c)
      PROVE  OrdersSound'
  BY <1>3, <1>8 DEF FulfillDirect
<1>9. ASSUME NEW c \in Clients, Step(c)
      PROVE  UNCHANGED orders \/ WriteSummary(c) \/ Fulfill(c) \/ CancelWrite(c)
  BY <1>9 DEF Step, Reserved, RedeemRead, RedeemWrite, PayCard, OpenIntent, InsertIntent, AskProvider,
    UpdateIntent, MarkPayments, RecordPayment, ReadSum, IssuePoints, Leave, Release, CancelFind,
    CancelRelease
<1>10. ASSUME NEW c \in Clients,
              \/ RedeemDirect(c) \/ CreateIntent(c) \/ Capture(c) \/ Webhook(c) \/ IssueDirect(c)
              \/ CancelDirect(c) \/ Refund(c) \/ Throw(c) \/ CleanupFails(c) \/ Crash(c)
       PROVE  UNCHANGED orders
  BY <1>10 DEF RedeemDirect, CreateIntent, OpenIntent, Capture, Webhook, IssueDirect, CancelDirect,
    Refund, Throw, CleanupFails, Crash
<1>11. CASE LineReserved \/ LineFails \/ ProviderStep
  BY <1>1, <1>11 DEF LineReserved, LineFails, ProviderStep
<1>. QED BY <1>1, <1>5, <1>6, <1>7, <1>8, <1>9, <1>10, <1>11 DEF Next

-----------------------------------------------------------------------------
LEMMA SoundInit == Init => SoundInv
<1>. SUFFICES ASSUME Init PROVE SoundInv
  OBVIOUS
<1>1. OrdersSound /\ money \in [Intents -> Moneys] /\ events = {}
  BY DEF Init, OrdersSound, OrderRow, NoOrder, Moneys
<1>2. HandlersSound
  BY IdleSound DEF Init, HandlersSound
<1>3. PaymentsSound
  <2>1. RowSound(NoPayment, money)
    BY DEF RowSound, Row, NoPayment, Got
  <2>. QED BY <2>1 DEF Init, PaymentsSound
<1>. QED BY <1>1, <1>2, <1>3 DEF SoundInv

LEMMA SoundNext ==
  ASSUME UniformCapture, SoundInv, [Next]_vars
  PROVE  SoundInv'
<1>1. CASE Next
  <2>1. money' \in [Intents -> Moneys] /\ Grows(money, money')
    BY <1>1, MoneyGrows DEF SoundInv
  <2>2. HandlersSound'
    <3>1. HandlersAfter
      BY <1>1, HandlersStep
    <3>2. \A c \in Clients : Sound(call'[c], money')
      BY <2>1, <3>1, StaysSound DEF HandlersAfter
    <3>. QED BY <3>1, <3>2 DEF HandlersAfter, HandlersSound
  <2>3. PaymentsSound'
    <3>1. /\ payments' = [p \in Payments |-> payments'[p]]
          /\ \A p \in Payments : RowSound(payments'[p], money)
      BY <1>1, PaymentsStep
    <3>2. \A p \in Payments : RowSound(payments'[p], money')
      BY <2>1, <3>1, StaysSound
    <3>. QED BY <3>1, <3>2 DEF PaymentsSound
  <2>4. \A e \in events' : EventSound(e, money')
    BY <1>1, EventsStep
  <2>5. OrdersSound'
    BY <1>1, OrdersStep DEF SoundInv
  <2>. QED BY <2>1, <2>2, <2>3, <2>4, <2>5 DEF SoundInv
<1>2. CASE UNCHANGED vars
  BY <1>2 DEF vars, stock, provider, SoundInv, OrdersSound, HandlersSound, PaymentsSound
<1>. QED BY <1>1, <1>2

LEMMA SoundIsReceived == SoundInv => CapturedIsReceived
BY DEF SoundInv, PaymentsSound, RowSound, CapturedIsReceived, ReceivedPayment, Backed, MisreadFailure, Got

(* recordOrderPayment, capturePaymentIntent, parseWebhook and applyWebhook:*)
(* whatever the requests, clients, gateways, failures and webhooks, an     *)
(* order payment is marked captured only when the provider has, or had,    *)
(* the money of its reference, or the charge failed at Flutterwave, whose  *)
(* gateway reads that as a capture; the requests' cards must agree on      *)
(* being captured at once, because capturedPayment outlives its tender.    *)
THEOREM CardsReceived ==
  ASSUME UniformCapture
  PROVE  Spec => []CapturedIsReceived
<1>1. Init => SoundInv
  BY SoundInit
<1>2. SoundInv /\ [Next]_vars => SoundInv'
  BY SoundNext
<1>3. SoundInv => CapturedIsReceived
  BY SoundIsReceived
<1>. QED BY <1>1, <1>2, <1>3, PTL DEF Spec

-----------------------------------------------------------------------------
(* Types, and what a handler has where it stands: its order, its intent,   *)
(* and, while it works on a tender, that tender and its request.           *)
OnTender(k) ==
  \/ k.op = "record"
  \/ k.op \in {"ask", "update", "mark", "sum", "summary"} /\ k.then \in {"pay", "record"}

Equipped(k) ==
  /\ k.op \notin {"idle", "redeem"} \/ k.checkout => k.order \in Orders
  /\ k.op \in {"intent", "ask", "update", "mark"} => k.intent \in Intents
  /\ k.op \in {"redeem", "intent"} \/ OnTender(k) => k.todo # <<>>
  /\ k.op \in {"reserve", "pay", "issued"} \/ OnTender(k) => k.checkout

TypeInv == TypeOK /\ \A c \in Clients : Equipped(call[c])

(* What becomes of a handler's record.                                     *)
Fields(n, op, order, checkout, request, todo, reserved, intent, status, captured, sum, paid, found, then) ==
  /\ n \in Handler
  /\ n.op = op /\ n.order = order /\ n.checkout = checkout /\ n.request = request /\ n.todo = todo
  /\ n.reserved = reserved /\ n.intent = intent /\ n.status = status /\ n.captured = captured
  /\ n.sum = sum /\ n.paid = paid /\ n.found = found /\ n.then = then

LEMMA IdleHandler ==
  Fields(Idle, "idle", None, FALSE, NoRequest, <<>>, FALSE, None, "processing", None, 0, 0, {}, "done")
BY DEF Fields, Idle, Handler, Ops, Statuses, Undoing

(* One lemma for every way the record is changed.                          *)
LEMMA OpMoves ==
  ASSUME NEW k \in Handler, NEW o \in Ops
  PROVE  Fields([k EXCEPT !.op = o], o, k.order, k.checkout, k.request, k.todo, k.reserved, k.intent,
                k.status, k.captured, k.sum, k.paid, k.found, k.then)
BY DEF Fields, Handler

LEMMA ThenMoves ==
  ASSUME NEW k \in Handler, NEW o \in Ops, NEW t \in {"pay", "record", "done", "answer"}
  PROVE  Fields([k EXCEPT !.op = o, !.then = t], o, k.order, k.checkout, k.request, k.todo, k.reserved,
                k.intent, k.status, k.captured, k.sum, k.paid, k.found, t)
BY DEF Fields, Handler

LEMMA IntentMoves ==
  ASSUME NEW k \in Handler, NEW i \in Intents
  PROVE  Fields([k EXCEPT !.op = "intent", !.intent = i], "intent", k.order, k.checkout, k.request, k.todo,
                k.reserved, i, k.status, k.captured, k.sum, k.paid, k.found, k.then)
BY DEF Fields, Handler, Ops

LEMMA AnswerMoves ==
  ASSUME NEW k \in Handler, NEW s \in Statuses
  PROVE  Fields([k EXCEPT !.op = "update", !.status = s, !.captured = s], "update", k.order, k.checkout,
                k.request, k.todo, k.reserved, k.intent, s, s, k.sum, k.paid, k.found, k.then)
BY DEF Fields, Handler, Ops

LEMMA SumMoves ==
  ASSUME NEW k \in Handler, NEW s \in Nat
  PROVE  Fields([k EXCEPT !.op = "summary", !.sum = s], "summary", k.order, k.checkout, k.request, k.todo,
                k.reserved, k.intent, k.status, k.captured, s, k.paid, k.found, k.then)
BY DEF Fields, Handler, Ops

LEMMA TenderMoves ==
  ASSUME NEW k \in Handler, k.todo # <<>>
  PROVE  Fields(NextTender(k), "pay", k.order, k.checkout, k.request, Tail(k.todo), k.reserved, None,
                k.status, k.captured, k.sum, k.sum, k.found, k.then)
<1>1. Tail(k.todo) \in Seq(Tender)
  BY HeadTailProperties DEF Handler
<1>. QED BY <1>1 DEF Fields, Handler, NextTender, Ops

LEMMA ReservedMoves ==
  ASSUME NEW k \in Handler
  PROVE  Fields([k EXCEPT !.op = "pay", !.reserved = TRUE], "pay", k.order, k.checkout, k.request, k.todo,
                TRUE, k.intent, k.status, k.captured, k.sum, k.paid, k.found, k.then)
BY DEF Fields, Handler, Ops

LEMMA FoundMoves ==
  ASSUME NEW k \in Handler, NEW s \in SUBSET Lines
  PROVE  Fields([k EXCEPT !.op = "drop", !.found = s], "drop", k.order, k.checkout, k.request, k.todo,
                k.reserved, k.intent, k.status, k.captured, k.sum, k.paid, s, k.then)
BY DEF Fields, Handler, Ops, Undoing

(* The handlers that start, from the record of an idle one.                *)
LEMMA CheckoutStarts ==
  ASSUME NEW o \in Orders, NEW r \in Requests, NEW op \in {"reserve", "pay"}
  PROVE  Fields([Idle EXCEPT !.op = op, !.order = o, !.checkout = TRUE, !.request = r, !.todo = r.tenders],
                op, o, TRUE, r, r.tenders, FALSE, None, "processing", None, 0, 0, {}, "done")
BY DEF Fields, Handler, Idle, Ops, Statuses

LEMMA RedeemStarts ==
  ASSUME NEW todo \in Seq(Tender)
  PROVE  Fields([Idle EXCEPT !.op = "redeem", !.todo = todo],
                "redeem", None, FALSE, NoRequest, todo, FALSE, None, "processing", None, 0, 0, {}, "done")
BY IdleHandler DEF Fields, Handler, Ops

LEMMA CardStarts ==
  ASSUME NEW o \in Orders, NEW todo \in Seq(Tender)
  PROVE  Fields([Idle EXCEPT !.order = o, !.todo = todo],
                "idle", o, FALSE, NoRequest, todo, FALSE, None, "processing", None, 0, 0, {}, "done")
BY IdleHandler DEF Fields, Handler

LEMMA OneTender ==
  ASSUME NEW n \in Nat, NEW m \in {"cash", "points", "card"}, NEW b \in BOOLEAN,
         NEW todo, todo = <<[method |-> m, amount |-> n, capture |-> b]>>
  PROVE  /\ todo \in Seq(Tender) /\ todo # <<>>
         /\ Head(todo) = [method |-> m, amount |-> n, capture |-> b] /\ Tail(todo) = <<>>
<1>1. PICK t : t = [method |-> m, amount |-> n, capture |-> b]
  OBVIOUS
<1>2. t \in Tender
  BY <1>1 DEF Tender
<1>. QED BY <1>1, <1>2

LEMMA CaptureStarts ==
  ASSUME NEW i \in Intents, NEW o \in Orders \cup {None}
  PROVE  Fields([Idle EXCEPT !.op = "ask", !.intent = i, !.order = o],
                "ask", o, FALSE, NoRequest, <<>>, FALSE, i, "processing", None, 0, 0, {}, "done")
BY IdleHandler DEF Fields, Handler, Ops

LEMMA WebhookStarts ==
  ASSUME NEW i \in Intents, NEW o \in Orders \cup {None}, NEW s \in Statuses
  PROVE  Fields([Idle EXCEPT !.op = "update", !.intent = i, !.status = s, !.order = o, !.then = "answer"],
                "update", o, FALSE, NoRequest, <<>>, FALSE, i, s, None, 0, 0, {}, "answer")
BY IdleHandler DEF Fields, Handler, Ops

LEMMA CancelStarts ==
  ASSUME NEW o \in Orders
  PROVE  Fields([Idle EXCEPT !.op = "cancel", !.order = o],
                "cancel", o, FALSE, NoRequest, <<>>, FALSE, None, "processing", None, 0, 0, {}, "done")
BY IdleHandler DEF Fields, Handler, Ops, Undoing

(* Only the handler that moves changes.                                    *)
LEMMA GoesTo ==
  ASSUME call \in [Clients -> Handler], NEW c \in Clients, NEW n \in Handler, Goto(c, n)
  PROVE  /\ call' \in [Clients -> Handler] /\ call'[c] = n
         /\ \A d \in Clients : d # c => call'[d] = call[d]
BY DEF Goto

(* Where the handler of c is after a step.                                 *)
Others(c) == call' \in [Clients -> Handler] /\ \A d \in Clients : d # c => call'[d] = call[d]
Returned(c) == Others(c) /\ call'[c] = Idle
OpTo(c, o) ==
  LET k == call[c] IN
  Others(c) /\ Fields(call'[c], o, k.order, k.checkout, k.request, k.todo, k.reserved, k.intent,
                      k.status, k.captured, k.sum, k.paid, k.found, k.then)

LEMMA Lands ==
  ASSUME call \in [Clients -> Handler], NEW c \in Clients, NEW n \in Handler, Goto(c, n)
  PROVE  Others(c) /\ call'[c] = n
BY GoesTo DEF Others

LEMMA OpGoes ==
  ASSUME call \in [Clients -> Handler], NEW c \in Clients, NEW o \in Ops, Goto(c, [call[c] EXCEPT !.op = o])
  PROVE  OpTo(c, o)
<1>1. PICK n : n = [call[c] EXCEPT !.op = o]
  OBVIOUS
<1>2. LET k == call[c] IN
      Fields(n, o, k.order, k.checkout, k.request, k.todo, k.reserved, k.intent,
             k.status, k.captured, k.sum, k.paid, k.found, k.then)
  BY <1>1, OpMoves
<1>3. Others(c) /\ call'[c] = n
  BY <1>1, <1>2, Lands DEF Fields
<1>. QED BY <1>2, <1>3 DEF OpTo

LEMMA Returns ==
  ASSUME call \in [Clients -> Handler], NEW c \in Clients, Return(c)
  PROVE  Returned(c)
<1>1. Idle \in Handler
  BY IdleHandler DEF Fields
<1>. QED BY <1>1, GoesTo DEF Return, Returned, Others

LEMMA CheckoutMoves ==
  ASSUME TypeOK, NEW c \in Clients, Checkout(c)
  PROVE  /\ call[c].op = "idle"
         /\ \E o \in Orders, r \in Requests :
              /\ ~Exists(o)
              /\ orders' = [orders EXCEPT ![o] = [status |-> "pending", total |-> r.total, paid |-> 0]]
              /\ reserving' = [reserving EXCEPT ![o] = IF r.reserve THEN Lines ELSE {}]
              /\ Others(c)
              /\ Fields(call'[c], IF r.reserve THEN "reserve" ELSE "pay", o, TRUE, r, r.tenders, FALSE, None,
                        "processing", None, 0, 0, {}, "done")
<1>1. PICK o \in Orders, r \in Requests :
        /\ ~Exists(o)
        /\ orders' = [orders EXCEPT ![o] = [status |-> "pending", total |-> r.total, paid |-> 0]]
        /\ reserving' = [reserving EXCEPT ![o] = IF r.reserve THEN Lines ELSE {}]
        /\ Goto(c, [Idle EXCEPT !.op = IF r.reserve THEN "reserve" ELSE "pay", !.order = o,
                               !.checkout = TRUE, !.request = r, !.todo = r.tenders])
  BY DEF Checkout
<1>2. PICK op \in {"reserve", "pay"} : op = IF r.reserve THEN "reserve" ELSE "pay"
  OBVIOUS
<1>3. PICK n : n = [Idle EXCEPT !.op = op, !.order = o, !.checkout = TRUE, !.request = r, !.todo = r.tenders]
  OBVIOUS
<1>4. Fields(n, op, o, TRUE, r, r.tenders, FALSE, None, "processing", None, 0, 0, {}, "done")
  BY <1>3, CheckoutStarts
<1>5. Others(c) /\ call'[c] = n
  BY <1>1, <1>2, <1>3, <1>4, Lands DEF Fields, TypeOK
<1>. QED BY <1>1, <1>2, <1>4, <1>5 DEF Checkout

LEMMA RedeemDirectMoves ==
  ASSUME TypeOK, NEW c \in Clients, RedeemDirect(c)
  PROVE  /\ call[c].op = "idle"
         /\ \E n \in Amounts :
              /\ Enough(n)
              /\ Others(c)
              /\ Fields(call'[c], "redeem", None, FALSE, NoRequest,
                        <<[method |-> "points", amount |-> n, capture |-> FALSE]>>,
                        FALSE, None, "processing", None, 0, 0, {}, "done")
<1>1. PICK n \in Amounts :
        /\ Enough(n)
        /\ Goto(c, [Idle EXCEPT !.op = "redeem",
                      !.todo = <<[method |-> "points", amount |-> n, capture |-> FALSE]>>])
  BY DEF RedeemDirect
<1>2. PICK todo : todo = <<[method |-> "points", amount |-> n, capture |-> FALSE]>>
  OBVIOUS
<1>3. PICK k : k = [Idle EXCEPT !.op = "redeem", !.todo = todo]
  OBVIOUS
<1>4. n \in Nat
  OBVIOUS
<1>5. todo \in Seq(Tender)
  BY <1>2, <1>4, OneTender
<1>6. Fields(k, "redeem", None, FALSE, NoRequest, todo, FALSE, None, "processing", None, 0, 0, {}, "done")
  BY <1>3, <1>5, RedeemStarts
<1>7. Others(c) /\ call'[c] = k
  BY <1>1, <1>2, <1>3, <1>6, Lands DEF Fields, TypeOK
<1>. QED BY <1>1, <1>2, <1>6, <1>7 DEF RedeemDirect

(* A card payment's reference is opened, for a checkout or for an order.   *)
LEMMA PayCardMoves ==
  ASSUME TypeOK, NEW c \in Clients, PayCard(c)
  PROVE  LET k == call[c] IN
         /\ k.op = "pay" /\ k.todo # <<>> /\ Head(k.todo).method = "card"
         /\ \E i \in Intents :
              /\ money[i] = "none" /\ money' = [money EXCEPT ![i] = "pending"]
              /\ Others(c)
              /\ Fields(call'[c], "intent", k.order, k.checkout, k.request, k.todo, k.reserved, i,
                        k.status, k.captured, k.sum, k.paid, k.found, k.then)
<1>1. PICK i \in Intents :
        /\ money[i] = "none" /\ money' = [money EXCEPT ![i] = "pending"]
        /\ Goto(c, [call[c] EXCEPT !.op = "intent", !.intent = i])
  BY DEF PayCard, OpenIntent, Opened
<1>2. call[c] \in Handler
  BY DEF TypeOK
<1>3. PICK n : n = [call[c] EXCEPT !.op = "intent", !.intent = i]
  OBVIOUS
<1>4. LET k == call[c] IN
      Fields(n, "intent", k.order, k.checkout, k.request, k.todo, k.reserved, i,
             k.status, k.captured, k.sum, k.paid, k.found, k.then)
  BY <1>2, <1>3, IntentMoves
<1>5. Others(c) /\ call'[c] = n
  BY <1>1, <1>3, <1>4, Lands DEF Fields, TypeOK
<1>. QED BY <1>1, <1>4, <1>5 DEF PayCard, Paying

LEMMA CreateIntentMoves ==
  ASSUME TypeOK, NEW c \in Clients, CreateIntent(c)
  PROVE  /\ call[c].op = "idle"
         /\ \E o \in Orders, i \in Intents :
              /\ Exists(o) /\ money[i] = "none" /\ money' = [money EXCEPT ![i] = "pending"]
              /\ Others(c)
              /\ Fields(call'[c], "intent", o, FALSE, NoRequest,
                        <<[method |-> "card", amount |-> orders[o].total, capture |-> FALSE]>>,
                        FALSE, i, "processing", None, 0, 0, {}, "done")
<1>1. PICK o \in Orders :
        /\ Exists(o)
        /\ OpenIntent(c, [Idle EXCEPT !.order = o,
             !.todo = <<[method |-> "card", amount |-> orders[o].total, capture |-> FALSE]>>])
  BY DEF CreateIntent
<1>2. PICK todo : todo = <<[method |-> "card", amount |-> orders[o].total, capture |-> FALSE]>>
  OBVIOUS
<1>3. PICK k : k = [Idle EXCEPT !.order = o, !.todo = todo]
  OBVIOUS
<1>4. PICK t \in Nat : t = orders[o].total
  BY DEF TypeOK
<1>5. todo \in Seq(Tender)
  <2>1. todo = <<[method |-> "card", amount |-> t, capture |-> FALSE]>>
    BY <1>2, <1>4
  <2>. QED BY <2>1, OneTender
<1>6. Fields(k, "idle", o, FALSE, NoRequest, todo, FALSE, None, "processing", None, 0, 0, {}, "done")
  BY <1>3, <1>5, CardStarts
<1>7. PICK i \in Intents :
        /\ money[i] = "none" /\ money' = [money EXCEPT ![i] = "pending"]
        /\ Goto(c, [k EXCEPT !.op = "intent", !.intent = i])
  BY <1>1, <1>2, <1>3 DEF OpenIntent, Opened
<1>8. PICK n : n = [k EXCEPT !.op = "intent", !.intent = i]
  OBVIOUS
<1>. k \in Handler
  BY <1>6 DEF Fields
<1>9. Fields(n, "intent", k.order, k.checkout, k.request, k.todo, k.reserved, i,
             k.status, k.captured, k.sum, k.paid, k.found, k.then)
  BY <1>8, IntentMoves
<1>10. Others(c) /\ call'[c] = n
  BY <1>7, <1>8, <1>9, Lands DEF Fields, TypeOK
<1>11. Fields(call'[c], "intent", o, FALSE, NoRequest, todo, FALSE, i, "processing", None, 0, 0, {}, "done")
  BY <1>6, <1>9, <1>10 DEF Fields
<1>. QED BY <1>1, <1>2, <1>7, <1>10, <1>11 DEF CreateIntent

(* The inserted intent is asked for at once, or recorded, or the answer.   *)
LEMMA InsertMoves ==
  ASSUME TypeOK, NEW c \in Clients, InsertIntent(c)
  PROVE  LET k == call[c] IN
         /\ k.op = "intent"
         /\ intents' = [intents EXCEPT ![k.intent] =
              [order |-> k.order, amount |-> Head(k.todo).amount, status |-> "requires_capture"]]
         /\ \/ ~k.checkout /\ Returned(c)
            \/ /\ k.checkout /\ Head(k.todo).capture /\ Others(c)
               /\ Fields(call'[c], "ask", k.order, k.checkout, k.request, k.todo, k.reserved, k.intent,
                         k.status, k.captured, k.sum, k.paid, k.found, "record")
            \/ k.checkout /\ ~Head(k.todo).capture /\ OpTo(c, "record")
<1>1. Goto(c, AfterIntent(call[c])) /\ call[c] \in Handler
  BY DEF InsertIntent, TypeOK
<1>2. CASE ~call[c].checkout
  BY <1>1, <1>2, Returns DEF InsertIntent, AfterIntent, Return, TypeOK
<1>3. CASE call[c].checkout /\ Head(call[c].todo).capture
  <2>1. Goto(c, [call[c] EXCEPT !.op = "ask", !.then = "record"]) /\ "ask" \in Ops
    BY <1>1, <1>3 DEF AfterIntent, Ops
  <2>2. PICK n : n = [call[c] EXCEPT !.op = "ask", !.then = "record"]
    OBVIOUS
  <2>3. LET k == call[c] IN
        Fields(n, "ask", k.order, k.checkout, k.request, k.todo, k.reserved, k.intent,
               k.status, k.captured, k.sum, k.paid, k.found, "record")
    BY <1>1, <2>1, <2>2, ThenMoves
  <2>4. Others(c) /\ call'[c] = n
    BY <2>1, <2>2, <2>3, Lands DEF Fields, TypeOK
  <2>. QED BY <1>3, <2>3, <2>4 DEF InsertIntent
<1>4. CASE call[c].checkout /\ ~Head(call[c].todo).capture
  <2>1. Goto(c, [call[c] EXCEPT !.op = "record"]) /\ "record" \in Ops
    BY <1>1, <1>4 DEF AfterIntent, Ops
  <2>2. OpTo(c, "record")
    BY <2>1, OpGoes DEF TypeOK
  <2>. QED BY <1>4, <2>2 DEF InsertIntent
<1>. QED BY <1>2, <1>3, <1>4

LEMMA CaptureMoves ==
  ASSUME TypeOK, NEW c \in Clients, Capture(c)
  PROVE  /\ call[c].op = "idle"
         /\ \E i \in Intents :
              /\ intents[i].order # None
              /\ Others(c)
              /\ Fields(call'[c], "ask", intents[i].order, FALSE, NoRequest, <<>>, FALSE, i, "processing",
                        None, 0, 0, {}, "done")
<1>1. PICK i \in Intents :
        /\ intents[i].order # None
        /\ Goto(c, [Idle EXCEPT !.op = "ask", !.intent = i, !.order = intents[i].order])
  BY DEF Capture
<1>2. intents[i].order \in Orders \cup {None}
  BY DEF TypeOK
<1>3. PICK n : n = [Idle EXCEPT !.op = "ask", !.intent = i, !.order = intents[i].order]
  OBVIOUS
<1>4. Fields(n, "ask", intents[i].order, FALSE, NoRequest, <<>>, FALSE, i, "processing",
             None, 0, 0, {}, "done")
  BY <1>2, <1>3, CaptureStarts
<1>5. Others(c) /\ call'[c] = n
  BY <1>1, <1>3, <1>4, Lands DEF Fields, TypeOK
<1>. QED BY <1>1, <1>4, <1>5 DEF Capture

LEMMA AskMoves ==
  ASSUME TypeOK, NEW c \in Clients, AskProvider(c)
  PROVE  LET k == call[c]
             answer == Reported(money[k.intent])
         IN
         /\ k.op = "ask" /\ answer \in Statuses
         /\ Others(c)
         /\ Fields(call'[c], "update", k.order, k.checkout, k.request, k.todo, k.reserved, k.intent,
                   answer, answer, k.sum, k.paid, k.found, k.then)
<1>1. PICK answer \in Statuses : answer = Reported(money[call[c].intent])
  BY DEF Reported, Statuses
<1>2. Goto(c, [call[c] EXCEPT !.op = "update", !.status = answer, !.captured = answer]) /\ call[c] \in Handler
  BY <1>1 DEF AskProvider, TypeOK
<1>3. PICK n : n = [call[c] EXCEPT !.op = "update", !.status = answer, !.captured = answer]
  OBVIOUS
<1>4. LET k == call[c] IN
      Fields(n, "update", k.order, k.checkout, k.request, k.todo, k.reserved, k.intent,
             answer, answer, k.sum, k.paid, k.found, k.then)
  BY <1>2, <1>3, AnswerMoves
<1>5. Others(c) /\ call'[c] = n
  BY <1>2, <1>3, <1>4, Lands DEF Fields, TypeOK
<1>. QED BY <1>1, <1>4, <1>5 DEF AskProvider

LEMMA WebhookMoves ==
  ASSUME TypeOK, NEW c \in Clients, Webhook(c)
  PROVE  /\ call[c].op = "idle"
         /\ \E e \in events :
              /\ Deliverable(e)
              /\ \/ intents[e.intent].order = None /\ Answered(e) /\ UNCHANGED call
                 \/ /\ intents[e.intent].order # None /\ UNCHANGED events
                    /\ Others(c)
                    /\ Fields(call'[c], "update", intents[e.intent].order, FALSE, NoRequest, <<>>, FALSE,
                              e.intent, e.status, None, 0, 0, {}, "answer")
<1>1. PICK e \in events :
        /\ Deliverable(e)
        /\ IF intents[e.intent].order = None
           THEN Answered(e) /\ UNCHANGED call
           ELSE /\ Goto(c, [Idle EXCEPT !.op = "update", !.intent = e.intent, !.status = e.status,
                                        !.order = intents[e.intent].order, !.then = "answer"])
                /\ UNCHANGED events
  BY DEF Webhook
<1>2. CASE intents[e.intent].order = None
  BY <1>1, <1>2 DEF Webhook
<1>3. CASE intents[e.intent].order # None
  <2>1. e.intent \in Intents /\ e.status \in Statuses
    BY DEF TypeOK, Webhooks, Statuses
  <2>2. intents[e.intent].order \in Orders \cup {None}
    BY <2>1 DEF TypeOK
  <2>3. Goto(c, [Idle EXCEPT !.op = "update", !.intent = e.intent, !.status = e.status,
                             !.order = intents[e.intent].order, !.then = "answer"])
    BY <1>1, <1>3
  <2>4. PICK n : n = [Idle EXCEPT !.op = "update", !.intent = e.intent, !.status = e.status,
                                  !.order = intents[e.intent].order, !.then = "answer"]
    OBVIOUS
  <2>5. Fields(n, "update", intents[e.intent].order, FALSE, NoRequest, <<>>, FALSE,
               e.intent, e.status, None, 0, 0, {}, "answer")
    BY <2>1, <2>2, <2>4, WebhookStarts
  <2>6. Others(c) /\ call'[c] = n
    BY <2>3, <2>4, <2>5, Lands DEF Fields, TypeOK
  <2>. QED BY <1>1, <1>3, <2>5, <2>6 DEF Webhook
<1>. QED BY <1>2, <1>3

LEMMA RecordMoves ==
  ASSUME TypeOK, NEW c \in Clients, RecordPayment(c)
  PROVE  LET k == call[c] IN
         /\ k.op = "record" \/ Paying(c, "cash")
         /\ \E p \in Payments :
              /\ payments[p].order = None
              /\ payments' = [payments EXCEPT ![p] =
                   [order |-> k.order, intent |-> k.intent, amount |-> Head(k.todo).amount,
                    status |-> RecordedStatus(k)]]
         /\ Others(c)
         /\ Fields(call'[c], "sum", k.order, k.checkout, k.request, k.todo, k.reserved, k.intent,
                   k.status, k.captured, k.sum, k.paid, k.found, "pay")
<1>1. PICK n : n = [call[c] EXCEPT !.op = "sum", !.then = "pay"]
  OBVIOUS
<1>2. call[c] \in Handler /\ "sum" \in Ops
  BY DEF TypeOK, Ops
<1>3. LET k == call[c] IN
      Fields(n, "sum", k.order, k.checkout, k.request, k.todo, k.reserved, k.intent,
             k.status, k.captured, k.sum, k.paid, k.found, "pay")
  BY <1>1, <1>2, ThenMoves
<1>4. Others(c) /\ call'[c] = n
  BY <1>1, <1>3, Lands DEF Fields, TypeOK, RecordPayment
<1>. QED BY <1>3, <1>4 DEF RecordPayment

(* A sum of payments is a number.                                          *)
LEMMA TotalNat ==
  ASSUME TypeOK, NEW S \in SUBSET Payments
  PROVE  Total(S) \in Nat
<1>1. PICK f : f = [p \in Payments |-> payments[p].amount]
  OBVIOUS
<1>2. IsFiniteSet(S) /\ \A p \in S : f[p] \in Nat
  BY <1>1, FiniteAssumption, FS_Subset DEF TypeOK
<1>3. SumFunctionOnSet(f, S) \in Nat
  BY <1>2, SumType
<1>. QED BY <1>1, <1>3 DEF Total

LEMMA ReadMoves ==
  ASSUME TypeOK, NEW c \in Clients, ReadSum(c)
  PROVE  LET k == call[c] IN
         /\ k.op = "sum" /\ Summed(k.order) \in Nat
         /\ Others(c)
         /\ Fields(call'[c], "summary", k.order, k.checkout, k.request, k.todo, k.reserved, k.intent,
                   k.status, k.captured, Summed(k.order), k.paid, k.found, k.then)
<1>1. CapturedOf(call[c].order) \in SUBSET Payments
  BY DEF CapturedOf, PaymentsOf
<1>2. PICK s \in Nat : s = Summed(call[c].order)
  BY <1>1, TotalNat DEF Summed
<1>3. PICK n : n = [call[c] EXCEPT !.op = "summary", !.sum = s]
  OBVIOUS
<1>4. LET k == call[c] IN
      Fields(n, "summary", k.order, k.checkout, k.request, k.todo, k.reserved, k.intent,
             k.status, k.captured, s, k.paid, k.found, k.then)
  BY <1>3, SumMoves DEF TypeOK
<1>5. Others(c) /\ call'[c] = n
  BY <1>2, <1>3, <1>4, Lands DEF Fields, TypeOK, ReadSum
<1>. QED BY <1>2, <1>4, <1>5 DEF ReadSum

LEMMA WriteMoves ==
  ASSUME TypeInv, NEW c \in Clients, WriteSummary(c)
  PROVE  LET k == call[c] IN
         /\ k.op = "summary" /\ orders' = [orders EXCEPT ![k.order].paid = k.sum]
         /\ \/ /\ k.then = "pay" /\ UNCHANGED events /\ k.todo # <<>> /\ Others(c)
               /\ Fields(call'[c], "pay", k.order, k.checkout, k.request, Tail(k.todo), k.reserved, None,
                         k.status, k.captured, k.sum, k.sum, k.found, k.then)
            \/ k.then = "record" /\ UNCHANGED events /\ OpTo(c, "record")
            \/ k.then = "done" /\ UNCHANGED events /\ Returned(c)
            \/ k.then = "answer" /\ Returned(c) /\ Answered([intent |-> k.intent, status |-> k.status])
<1>. DEFINE k == call[c]
<1>1. k \in Handler /\ "record" \in Ops
  BY DEF TypeInv, TypeOK, Ops
<1>2. CASE k.then = "pay" /\ Goto(c, NextTender(k)) /\ UNCHANGED events
  <2>1. k.todo # <<>>
    BY <1>2 DEF TypeInv, Equipped, OnTender, WriteSummary
  <2>2. Fields(NextTender(k), "pay", k.order, k.checkout, k.request, Tail(k.todo), k.reserved, None,
               k.status, k.captured, k.sum, k.sum, k.found, k.then)
    BY <1>1, <2>1, TenderMoves
  <2>3. Others(c) /\ call'[c] = NextTender(k)
    BY <1>2, <2>2, Lands DEF Fields, TypeInv, TypeOK
  <2>. QED BY <1>2, <2>1, <2>2, <2>3 DEF WriteSummary
<1>3. CASE k.then = "record" /\ Goto(c, [k EXCEPT !.op = "record"]) /\ UNCHANGED events
  BY <1>1, <1>3, OpGoes DEF WriteSummary, TypeInv, TypeOK
<1>4. CASE k.then = "done" /\ Return(c) /\ UNCHANGED events
  BY <1>4, Returns DEF WriteSummary, TypeInv, TypeOK
<1>5. CASE k.then = "answer" /\ Return(c) /\ Answered([intent |-> k.intent, status |-> k.status])
  BY <1>5, Returns DEF WriteSummary, TypeInv, TypeOK
<1>. QED BY <1>2, <1>3, <1>4, <1>5 DEF WriteSummary

LEMMA ReservedGoes ==
  ASSUME TypeOK, NEW c \in Clients, Reserved(c)
  PROVE  LET k == call[c] IN
         /\ k.op = "reserve" /\ reserving[k.order] = {}
         /\ Others(c)
         /\ Fields(call'[c], "pay", k.order, k.checkout, k.request, k.todo, TRUE, k.intent,
                   k.status, k.captured, k.sum, k.paid, k.found, k.then)
<1>1. PICK n : n = [call[c] EXCEPT !.op = "pay", !.reserved = TRUE]
  OBVIOUS
<1>2. LET k == call[c] IN
      Fields(n, "pay", k.order, k.checkout, k.request, k.todo, TRUE, k.intent,
             k.status, k.captured, k.sum, k.paid, k.found, k.then)
  BY <1>1, ReservedMoves DEF TypeOK
<1>3. Others(c) /\ call'[c] = n
  BY <1>1, <1>2, Lands DEF Fields, TypeOK, Reserved
<1>. QED BY <1>2, <1>3 DEF Reserved

LEMMA FindMoves ==
  ASSUME TypeOK, NEW c \in Clients, CancelFind(c), call[c].order \in Orders
  PROVE  LET k == call[c] IN
         /\ k.op = "cancel" /\ held[k.order] \in SUBSET Lines
         /\ Others(c)
         /\ Fields(call'[c], "drop", k.order, k.checkout, k.request, k.todo, k.reserved, k.intent,
                   k.status, k.captured, k.sum, k.paid, held[k.order], k.then)
<1>1. PICK h \in SUBSET Lines : h = held[call[c].order]
  BY DEF TypeOK
<1>2. PICK n : n = [call[c] EXCEPT !.op = "drop", !.found = h]
  OBVIOUS
<1>3. LET k == call[c] IN
      Fields(n, "drop", k.order, k.checkout, k.request, k.todo, k.reserved, k.intent,
             k.status, k.captured, k.sum, k.paid, h, k.then)
  BY <1>2, FoundMoves DEF TypeOK
<1>4. Others(c) /\ call'[c] = n
  BY <1>1, <1>2, <1>3, Lands DEF Fields, TypeOK, CancelFind
<1>. QED BY <1>1, <1>3, <1>4 DEF CancelFind

LEMMA CancelDirectMoves ==
  ASSUME TypeOK, NEW c \in Clients, CancelDirect(c)
  PROVE  /\ call[c].op = "idle"
         /\ \E o \in Orders :
              /\ Exists(o)
              /\ Others(c)
              /\ Fields(call'[c], "cancel", o, FALSE, NoRequest, <<>>, FALSE, None, "processing", None,
                        0, 0, {}, "done")
<1>1. PICK o \in Orders : Exists(o) /\ Goto(c, [Idle EXCEPT !.op = "cancel", !.order = o])
  BY DEF CancelDirect
<1>2. PICK n : n = [Idle EXCEPT !.op = "cancel", !.order = o]
  OBVIOUS
<1>3. Fields(n, "cancel", o, FALSE, NoRequest, <<>>, FALSE, None, "processing", None, 0, 0, {}, "done")
  BY <1>2, CancelStarts
<1>4. Others(c) /\ call'[c] = n
  BY <1>1, <1>2, <1>3, Lands DEF Fields, TypeOK
<1>. QED BY <1>1, <1>3, <1>4 DEF CancelDirect

(* The steps that only move on, or return.                                 *)
LEMMA PlainMoves ==
  ASSUME TypeOK, NEW c \in Clients
  PROVE  LET k == call[c] IN
         /\ RedeemRead(c) => Paying(c, "points") /\ OpTo(c, "redeem")
         /\ RedeemWrite(c) => /\ k.op = "redeem"
                              /\ (k.checkout /\ OpTo(c, "record")) \/ (~k.checkout /\ Returned(c))
         /\ UpdateIntent(c) => k.op = "update" /\ OpTo(c, "mark")
         /\ MarkPayments(c) => k.op = "mark" /\ OpTo(c, "sum")
         /\ IssuePoints(c) => k.op = "pay" /\ k.todo = <<>> /\ k.request.issue > 0 /\ OpTo(c, "issued")
         /\ Fulfill(c) \/ Leave(c) => Settled(k) /\ Returned(c)
         /\ Throw(c) => /\ k.checkout /\ k.op \notin Undoing \cup {"reserve"}
                        /\ (k.op \in {"pay", "ask"} /\ ~Settled(k)) \/ Crashes
                        /\ \/ k.reserved /\ OpTo(c, "release")
                           \/ ~k.reserved /\ OpTo(c, "cancel")
         /\ Release(c) => k.op = "release" /\ OpTo(c, "cancel")
         /\ CancelRelease(c) => k.op = "drop" /\ OpTo(c, "close")
         /\ CancelWrite(c) => k.op = "close" /\ Returned(c)
         /\ CleanupFails(c) => /\ Crashes /\ k.op \in Undoing
                               /\ OpTo(c, "cancel") \/ Returned(c)
         /\ Crash(c) => Crashes /\ Returned(c)
<1>1. call \in [Clients -> Handler] /\ {"redeem", "record", "mark", "sum", "issued", "release", "cancel", "close"} \subseteq Ops
  BY DEF TypeOK, Ops, Undoing
<1>2. \A o \in Ops : Goto(c, [call[c] EXCEPT !.op = o]) => OpTo(c, o)
  BY <1>1, OpGoes
<1>3. Return(c) => Returned(c)
  BY <1>1, Returns
<1>4. RedeemRead(c) => Paying(c, "points") /\ OpTo(c, "redeem")
  BY <1>1, <1>2 DEF RedeemRead
<1>5. RedeemWrite(c) => /\ call[c].op = "redeem"
                        /\ (call[c].checkout /\ OpTo(c, "record")) \/ (~call[c].checkout /\ Returned(c))
  BY <1>1, <1>2, <1>3 DEF RedeemWrite
<1>6. /\ UpdateIntent(c) => call[c].op = "update" /\ OpTo(c, "mark")
      /\ MarkPayments(c) => call[c].op = "mark" /\ OpTo(c, "sum")
      /\ Release(c) => call[c].op = "release" /\ OpTo(c, "cancel")
      /\ CancelRelease(c) => call[c].op = "drop" /\ OpTo(c, "close")
  BY <1>1, <1>2 DEF UpdateIntent, MarkPayments, Release, CancelRelease
<1>7. IssuePoints(c) => /\ call[c].op = "pay" /\ call[c].todo = <<>> /\ call[c].request.issue > 0
                        /\ OpTo(c, "issued")
  BY <1>1, <1>2 DEF IssuePoints
<1>8. /\ Fulfill(c) \/ Leave(c) => Settled(call[c]) /\ Returned(c)
      /\ CancelWrite(c) => call[c].op = "close" /\ Returned(c)
      /\ Crash(c) => Crashes /\ Returned(c)
  BY <1>3 DEF Fulfill, Leave, CancelWrite, Crash
<1>9. Throw(c) => /\ call[c].checkout /\ call[c].op \notin Undoing \cup {"reserve"}
                  /\ (call[c].op \in {"pay", "ask"} /\ ~Settled(call[c])) \/ Crashes
                  /\ \/ call[c].reserved /\ OpTo(c, "release")
                     \/ ~call[c].reserved /\ OpTo(c, "cancel")
  BY <1>1, <1>2 DEF Throw, Undo, Undoing
<1>10. CleanupFails(c) => /\ Crashes /\ call[c].op \in Undoing
                          /\ OpTo(c, "cancel") \/ Returned(c)
  BY <1>1, <1>2, <1>3 DEF CleanupFails
<1>. QED BY <1>4, <1>5, <1>6, <1>7, <1>8, <1>9, <1>10

(* A reservation that fails sends its checkouts to the catch block.        *)
LEMMA LineFailsMoves ==
  ASSUME TypeOK, LineFails
  PROVE  \E o \in Orders : \E l \in reserving[o] :
           /\ reserving' = [reserving EXCEPT ![o] = @ \ {l}]
           /\ call' \in [Clients -> Handler]
           /\ \A c \in Clients :
                IF call[c].op = "reserve" /\ call[c].order = o
                THEN LET k == call[c] IN
                     Fields(call'[c], "cancel", k.order, k.checkout, k.request, k.todo, k.reserved, k.intent,
                            k.status, k.captured, k.sum, k.paid, k.found, k.then)
                ELSE call'[c] = call[c]
<1>1. PICK o \in Orders : \E l \in reserving[o] :
        /\ reserving' = [reserving EXCEPT ![o] = @ \ {l}]
        /\ call' = [c \in Clients |->
             IF call[c].op = "reserve" /\ call[c].order = o
             THEN [call[c] EXCEPT !.op = "cancel"] ELSE call[c]]
  BY DEF LineFails
<1>2. ASSUME NEW c \in Clients, call[c].op = "reserve", call[c].order = o
      PROVE  LET k == call[c] IN
             Fields(call'[c], "cancel", k.order, k.checkout, k.request, k.todo, k.reserved, k.intent,
                    k.status, k.captured, k.sum, k.paid, k.found, k.then)
  <2>1. PICK n : n = [call[c] EXCEPT !.op = "cancel"]
    OBVIOUS
  <2>2. call'[c] = n
    BY <1>1, <1>2, <2>1
  <2>3. call[c] \in Handler /\ "cancel" \in Ops
    BY DEF TypeOK, Ops, Undoing
  <2>. QED BY <2>1, <2>2, <2>3, OpMoves
<1>3. \A c \in Clients : call'[c] \in Handler
  BY <1>1, <1>2 DEF TypeOK, Fields
<1>4. call' \in [Clients -> Handler]
  BY <1>1, <1>3
<1>. QED BY <1>1, <1>2, <1>4

-----------------------------------------------------------------------------
(* Which steps change which table.                                         *)
LEMMA OrdersChange ==
  ASSUME [Next]_vars
  PROVE  UNCHANGED orders \/ \E c \in Clients :
           Checkout(c) \/ WriteSummary(c) \/ Fulfill(c) \/ FulfillDirect(c) \/ CancelWrite(c)
BY DEF Next, Step, vars, stock, provider, LineReserved, LineFails, ProviderStep, Reserved, RedeemRead,
  RedeemWrite, PayCard, OpenIntent, InsertIntent, AskProvider, UpdateIntent, MarkPayments, RecordPayment,
  ReadSum, IssuePoints, Leave, Release, CancelFind, CancelRelease, RedeemDirect, CreateIntent, Capture,
  Webhook, IssueDirect, CancelDirect, Refund, Throw, CleanupFails, Crash

LEMMA StockChanges ==
  ASSUME [Next]_vars
  PROVE  /\ UNCHANGED held \/ LineReserved \/ \E c \in Clients : Release(c) \/ CancelRelease(c)
         /\ UNCHANGED reserving \/ LineReserved \/ LineFails \/ \E c \in Clients : Checkout(c)
BY DEF Next, Step, vars, stock, provider, LineFails, ProviderStep, Reserved, RedeemRead, Checkout,
  RedeemWrite, PayCard, OpenIntent, InsertIntent, AskProvider, UpdateIntent, MarkPayments, RecordPayment,
  ReadSum, WriteSummary, IssuePoints, Fulfill, Leave, Release, CancelFind, CancelRelease, CancelWrite,
  RedeemDirect, CreateIntent, Capture, Webhook, IssueDirect, FulfillDirect, CancelDirect, Refund, Throw,
  CleanupFails, Crash

LEMMA IntentsChange ==
  ASSUME [Next]_vars
  PROVE  UNCHANGED intents \/ \E c \in Clients : InsertIntent(c) \/ UpdateIntent(c)
BY DEF Next, Step, vars, stock, provider, LineReserved, LineFails, ProviderStep, Reserved, RedeemRead,
  RedeemWrite, PayCard, OpenIntent, AskProvider, MarkPayments, RecordPayment, Checkout,
  ReadSum, WriteSummary, IssuePoints, Fulfill, Leave, Release, CancelFind, CancelRelease, CancelWrite,
  RedeemDirect, CreateIntent, Capture, Webhook, IssueDirect, FulfillDirect, CancelDirect, Refund, Throw,
  CleanupFails, Crash

LEMMA PaymentsChange ==
  ASSUME [Next]_vars
  PROVE  UNCHANGED payments \/ \E c \in Clients : MarkPayments(c) \/ RecordPayment(c)
BY DEF Next, Step, vars, stock, provider, LineReserved, LineFails, ProviderStep, Reserved, RedeemRead,
  RedeemWrite, PayCard, OpenIntent, InsertIntent, AskProvider, UpdateIntent, Checkout,
  ReadSum, WriteSummary, IssuePoints, Fulfill, Leave, Release, CancelFind, CancelRelease, CancelWrite,
  RedeemDirect, CreateIntent, Capture, Webhook, IssueDirect, FulfillDirect, CancelDirect, Refund, Throw,
  CleanupFails, Crash

LEMMA PointsChange ==
  ASSUME [Next]_vars
  PROVE  UNCHANGED points \/ \E c \in Clients : RedeemWrite(c) \/ IssuePoints(c) \/ IssueDirect(c)
BY DEF Next, Step, vars, stock, provider, LineReserved, LineFails, ProviderStep, Reserved, RedeemRead,
  PayCard, OpenIntent, InsertIntent, AskProvider, UpdateIntent, MarkPayments, RecordPayment, Checkout,
  ReadSum, WriteSummary, Fulfill, Leave, Release, CancelFind, CancelRelease, CancelWrite,
  RedeemDirect, CreateIntent, Capture, Webhook, FulfillDirect, CancelDirect, Refund, Throw,
  CleanupFails, Crash

LEMMA MoneyChanges ==
  ASSUME [Next]_vars
  PROVE  UNCHANGED money \/ ProviderStep \/ \E c \in Clients : PayCard(c) \/ CreateIntent(c) \/ Refund(c)
BY DEF Next, Step, vars, stock, provider, LineReserved, LineFails, Reserved, RedeemRead,
  RedeemWrite, InsertIntent, AskProvider, UpdateIntent, MarkPayments, RecordPayment, Checkout,
  ReadSum, WriteSummary, IssuePoints, Fulfill, Leave, Release, CancelFind, CancelRelease, CancelWrite,
  RedeemDirect, Capture, Webhook, IssueDirect, FulfillDirect, CancelDirect, Throw,
  CleanupFails, Crash

LEMMA EventsChange ==
  ASSUME [Next]_vars
  PROVE  UNCHANGED events \/ ProviderStep \/ \E c \in Clients : Webhook(c) \/ WriteSummary(c) \/ Refund(c)
BY DEF Next, Step, vars, stock, provider, LineReserved, LineFails, Reserved, RedeemRead, PayCard, OpenIntent,
  CreateIntent, RedeemWrite, InsertIntent, AskProvider, UpdateIntent, MarkPayments, RecordPayment, Checkout,
  ReadSum, IssuePoints, Fulfill, Leave, Release, CancelFind, CancelRelease, CancelWrite,
  RedeemDirect, Capture, IssueDirect, FulfillDirect, CancelDirect, Throw,
  CleanupFails, Crash

-----------------------------------------------------------------------------
(* The tables keep their types.                                            *)
OrdersTyped == orders \in [Orders -> [status : {"absent", "pending", "fulfilled", "cancelled"},
                                      total : Nat, paid : Nat]]
IntentsTyped == intents \in [Intents -> [order : Orders \cup {None}, amount : Nat, status : Statuses]]
PaymentsTyped == payments \in [Payments -> [order : Orders \cup {None}, intent : Intents \cup {None},
                                            amount : Nat, status : Statuses]]

LEMMA OrderUpdates ==
  ASSUME OrdersTyped, NEW o \in Orders
  PROVE  /\ \A s \in {"pending", "fulfilled", "cancelled"} :
              orders' = [orders EXCEPT ![o].status = s] => OrdersTyped'
         /\ \A n \in Nat : orders' = [orders EXCEPT ![o].paid = n] => OrdersTyped'
         /\ \A n \in Nat :
              orders' = [orders EXCEPT ![o] = [status |-> "pending", total |-> n, paid |-> 0]] => OrdersTyped'
<1>1. ASSUME NEW s \in {"pending", "fulfilled", "cancelled"}, orders' = [orders EXCEPT ![o].status = s]
      PROVE  OrdersTyped'
  <2>1. PICK row : row = [orders[o] EXCEPT !.status = s]
    OBVIOUS
  <2>2. row \in [status : {"absent", "pending", "fulfilled", "cancelled"}, total : Nat, paid : Nat]
    BY <2>1 DEF OrdersTyped
  <2>3. orders' = [orders EXCEPT ![o] = row]
    BY <1>1, <2>1
  <2>. QED BY <2>2, <2>3 DEF OrdersTyped
<1>2. ASSUME NEW n \in Nat, orders' = [orders EXCEPT ![o].paid = n]
      PROVE  OrdersTyped'
  <2>1. PICK row : row = [orders[o] EXCEPT !.paid = n]
    OBVIOUS
  <2>2. row \in [status : {"absent", "pending", "fulfilled", "cancelled"}, total : Nat, paid : Nat]
    BY <2>1 DEF OrdersTyped
  <2>3. orders' = [orders EXCEPT ![o] = row]
    BY <1>2, <2>1
  <2>. QED BY <2>2, <2>3 DEF OrdersTyped
<1>3. ASSUME NEW n \in Nat, orders' = [orders EXCEPT ![o] = [status |-> "pending", total |-> n, paid |-> 0]]
      PROVE  OrdersTyped'
  BY <1>3 DEF OrdersTyped
<1>. QED BY <1>1, <1>2, <1>3

LEMMA OrdersStayTyped ==
  ASSUME TypeInv, [Next]_vars
  PROVE  OrdersTyped'
<1>. OrdersTyped /\ TypeOK
  BY DEF TypeInv, TypeOK, OrdersTyped
<1>1. CASE UNCHANGED orders
  BY <1>1 DEF OrdersTyped
<1>2. ASSUME NEW c \in Clients, Checkout(c)
      PROVE  OrdersTyped'
  <2>1. PICK o \in Orders, r \in Requests :
          orders' = [orders EXCEPT ![o] = [status |-> "pending", total |-> r.total, paid |-> 0]]
    BY <1>2 DEF Checkout
  <2>. QED BY <2>1, OrderUpdates
<1>3. ASSUME NEW c \in Clients, WriteSummary(c)
      PROVE  OrdersTyped'
  <2>1. call[c].order \in Orders /\ call[c].sum \in Nat
    BY <1>3 DEF WriteSummary, TypeInv, Equipped, TypeOK, Handler
  <2>. QED BY <1>3, <2>1, OrderUpdates DEF WriteSummary
<1>4. ASSUME NEW c \in Clients, Fulfill(c) \/ CancelWrite(c)
      PROVE  OrdersTyped'
  <2>1. call[c].order \in Orders
    BY <1>4 DEF Fulfill, Settled, CancelWrite, TypeInv, Equipped
  <2>. QED BY <1>4, <2>1, OrderUpdates DEF Fulfill, CancelWrite
<1>5. ASSUME NEW c \in Clients, FulfillDirect(c)
      PROVE  OrdersTyped'
  BY <1>5, OrderUpdates DEF FulfillDirect
<1>. QED BY <1>1, <1>2, <1>3, <1>4, <1>5, OrdersChange

LEMMA StockStaysTyped ==
  ASSUME TypeInv, [Next]_vars
  PROVE  (held \in [Orders -> SUBSET Lines] /\ reserving \in [Orders -> SUBSET Lines])'
<1>1. held \in [Orders -> SUBSET Lines] /\ reserving \in [Orders -> SUBSET Lines]
  BY DEF TypeInv, TypeOK
<1>2. held' \in [Orders -> SUBSET Lines]
  <2>1. CASE LineReserved
    BY <1>1, <2>1 DEF LineReserved
  <2>2. ASSUME NEW c \in Clients, Release(c) \/ CancelRelease(c)
        PROVE  held' \in [Orders -> SUBSET Lines]
    BY <1>1, <2>2 DEF Release, CancelRelease
  <2>. QED BY <1>1, <2>1, <2>2, StockChanges
<1>3. reserving' \in [Orders -> SUBSET Lines]
  <2>1. CASE LineReserved \/ LineFails
    BY <1>1, <2>1 DEF LineReserved, LineFails
  <2>2. ASSUME NEW c \in Clients, Checkout(c)
        PROVE  reserving' \in [Orders -> SUBSET Lines]
    BY <1>1, <2>2 DEF Checkout
  <2>. QED BY <1>1, <2>1, <2>2, StockChanges
<1>. QED BY <1>2, <1>3

(* The tender a handler works on has an amount.                            *)
LEMMA TenderAmount ==
  ASSUME NEW k \in Handler, k.todo # <<>>
  PROVE  Head(k.todo) \in Tender /\ Head(k.todo).amount \in Nat /\ Tail(k.todo) \in Seq(Tender)
<1>1. Head(k.todo) \in Tender /\ Tail(k.todo) \in Seq(Tender)
  BY HeadTailProperties DEF Handler
<1>. QED BY <1>1 DEF Tender

(* parseWebhook gives a status of the table.                               *)
LEMMA WrittenTyped ==
  ASSUME NEW k \in Handler
  PROVE  Written(k) \in Statuses
BY DEF Handler, Written, ParseWebhook, Statuses

LEMMA IntentsStayTyped ==
  ASSUME TypeInv, [Next]_vars
  PROVE  IntentsTyped'
<1>. IntentsTyped
  BY DEF TypeInv, TypeOK, IntentsTyped
<1>1. CASE UNCHANGED intents
  BY <1>1 DEF IntentsTyped
<1>2. ASSUME NEW c \in Clients, InsertIntent(c)
      PROVE  IntentsTyped'
  <2>1. PICK n : n = [order |-> call[c].order, amount |-> Head(call[c].todo).amount, status |-> "requires_capture"]
    OBVIOUS
  <2>2. call[c] \in Handler /\ call[c].todo # <<>>
    BY <1>2 DEF InsertIntent, TypeInv, TypeOK, Equipped
  <2>3. n \in [order : Orders \cup {None}, amount : Nat, status : Statuses]
    BY <2>1, <2>2, TenderAmount DEF Handler, Statuses
  <2>4. intents' = [intents EXCEPT ![call[c].intent] = n]
    BY <1>2, <2>1 DEF InsertIntent
  <2>. QED BY <2>3, <2>4 DEF IntentsTyped
<1>3. ASSUME NEW c \in Clients, UpdateIntent(c)
      PROVE  IntentsTyped'
  <2>1. PICK s \in Statuses : intents' = [intents EXCEPT ![call[c].intent].status = s]
    BY <1>3, WrittenTyped DEF UpdateIntent, TypeInv, TypeOK
  <2>. QED BY <2>1 DEF IntentsTyped
<1>. QED BY <1>1, <1>2, <1>3, IntentsChange

LEMMA PaymentsStayTyped ==
  ASSUME TypeInv, [Next]_vars
  PROVE  PaymentsTyped'
<1>. PaymentsTyped
  BY DEF TypeInv, TypeOK, PaymentsTyped
<1>. DEFINE Row_ == [order : Orders \cup {None}, intent : Intents \cup {None}, amount : Nat, status : Statuses]
<1>1. CASE UNCHANGED payments
  BY <1>1 DEF PaymentsTyped
<1>2. ASSUME NEW c \in Clients, MarkPayments(c)
      PROVE  PaymentsTyped'
  <2>1. PICK s \in Statuses : s = Written(call[c])
    BY WrittenTyped DEF TypeInv, TypeOK
  <2>2. \A p \in Payments : Marked(p, call[c]) \in Row_
    BY <2>1 DEF Marked, PaymentsTyped
  <2>3. payments' = [p \in Payments |-> Marked(p, call[c])]
    BY <1>2 DEF MarkPayments
  <2>. QED BY <2>2, <2>3 DEF PaymentsTyped
<1>3. ASSUME NEW c \in Clients, RecordPayment(c)
      PROVE  PaymentsTyped'
  <2>1. PICK n : n = [order |-> call[c].order, intent |-> call[c].intent, amount |-> Head(call[c].todo).amount,
                      status |-> RecordedStatus(call[c])]
    OBVIOUS
  <2>2. call[c] \in Handler /\ call[c].todo # <<>>
    BY <1>3 DEF RecordPayment, Paying, TypeInv, TypeOK, Equipped, OnTender
  <2>3. RecordedStatus(call[c]) \in Statuses
    BY <2>2 DEF RecordedStatus, Handler, Statuses
  <2>4. n \in Row_
    BY <2>1, <2>2, <2>3, TenderAmount DEF Handler
  <2>5. PICK p \in Payments : payments' = [payments EXCEPT ![p] = n]
    BY <1>3, <2>1 DEF RecordPayment
  <2>. QED BY <2>4, <2>5 DEF PaymentsTyped
<1>. QED BY <1>1, <1>2, <1>3, PaymentsChange

LEMMA ProviderStaysTyped ==
  ASSUME TypeInv, [Next]_vars
  PROVE  (/\ money \in [Intents -> {"none", "pending", "captured", "failed", "refunded"}]
          /\ events \subseteq Webhooks)'
<1>1. /\ money \in [Intents -> {"none", "pending", "captured", "failed", "refunded"}]
      /\ events \subseteq Webhooks
  BY DEF TypeInv, TypeOK
<1>2. ASSUME NEW i \in Intents, NEW s \in {"captured", "failed", "refunded"}, Becomes(i, s)
      PROVE  /\ money' \in [Intents -> {"none", "pending", "captured", "failed", "refunded"}]
             /\ events' \subseteq Webhooks
  BY <1>1, <1>2 DEF Becomes, Webhooks
<1>3. CASE ProviderStep
  BY <1>2, <1>3 DEF ProviderStep
<1>4. ASSUME NEW c \in Clients, Refund(c)
      PROVE  /\ money' \in [Intents -> {"none", "pending", "captured", "failed", "refunded"}]
             /\ events' \subseteq Webhooks
  BY <1>2, <1>4 DEF Refund
<1>5. ASSUME NEW c \in Clients, PayCard(c) \/ CreateIntent(c)
      PROVE  money' \in [Intents -> {"none", "pending", "captured", "failed", "refunded"}]
  BY <1>1, <1>5 DEF PayCard, CreateIntent, OpenIntent
<1>6. ASSUME NEW c \in Clients, Webhook(c) \/ WriteSummary(c)
      PROVE  events' \subseteq Webhooks
  BY <1>1, <1>6 DEF Webhook, WriteSummary, Answered
<1>. QED BY <1>1, <1>3, <1>4, <1>5, <1>6, MoneyChanges, EventsChange

LEMMA PointsStayTyped ==
  ASSUME TypeInv, [Next]_vars
  PROVE  points' \in Int
<1>1. points \in Int
  BY DEF TypeInv, TypeOK
<1>2. ASSUME NEW c \in Clients, RedeemWrite(c)
      PROVE  points' \in Int
  <2>1. call[c] \in Handler /\ call[c].todo # <<>>
    BY <1>2 DEF RedeemWrite, TypeInv, TypeOK, Equipped
  <2>2. Head(call[c].todo).amount \in Nat
    BY <2>1, TenderAmount
  <2>. QED BY <1>1, <1>2, <2>2 DEF RedeemWrite
<1>3. ASSUME NEW c \in Clients, IssuePoints(c)
      PROVE  points' \in Int
  <2>1. call[c].request.issue \in Nat
    BY DEF TypeInv, TypeOK, Handler, NoRequest
  <2>. QED BY <1>1, <1>3, <2>1 DEF IssuePoints
<1>4. ASSUME NEW c \in Clients, IssueDirect(c)
      PROVE  points' \in Int
  BY <1>1, <1>4, RequestAssumption DEF IssueDirect
<1>. QED BY <1>1, <1>2, <1>3, <1>4, PointsChange

(* Every handler goes somewhere with what it needs there.                  *)
HandlersEquipped == call \in [Clients -> Handler] /\ \A c \in Clients : Equipped(call[c])

LEMMA OneEquipped ==
  ASSUME TypeInv, NEW c \in Clients, Others(c), Equipped(call'[c])
  PROVE  HandlersEquipped'
<1>1. ASSUME NEW d \in Clients PROVE Equipped(call'[d])
  BY DEF Others, TypeInv
<1>. QED BY <1>1 DEF Others, HandlersEquipped

LEMMA IdleEquipped == Equipped(Idle)
BY IdleHandler DEF Equipped, Fields, OnTender

LEMMA StartsEquipped ==
  ASSUME TypeInv, NEW c \in Clients,
         \/ Checkout(c) \/ RedeemDirect(c) \/ CreateIntent(c) \/ Capture(c) \/ Webhook(c)
         \/ IssueDirect(c) \/ FulfillDirect(c) \/ CancelDirect(c) \/ Refund(c)
  PROVE  HandlersEquipped'
<1>. TypeOK
  BY DEF TypeInv
<1>1. CASE UNCHANGED call
  BY <1>1 DEF TypeInv, TypeOK, HandlersEquipped
<1>2. CASE Checkout(c)
  <2>1. PICK o \in Orders, r \in Requests :
          /\ Others(c)
          /\ Fields(call'[c], IF r.reserve THEN "reserve" ELSE "pay", o, TRUE, r, r.tenders, FALSE, None,
                    "processing", None, 0, 0, {}, "done")
    BY <1>2, CheckoutMoves
  <2>2. Equipped(call'[c])
    BY <2>1 DEF Fields, Equipped, OnTender
  <2>. QED BY <2>1, <2>2, OneEquipped
<1>3. CASE RedeemDirect(c)
  <2>1. PICK n \in Amounts :
          /\ Others(c)
          /\ Fields(call'[c], "redeem", None, FALSE, NoRequest,
                    <<[method |-> "points", amount |-> n, capture |-> FALSE]>>,
                    FALSE, None, "processing", None, 0, 0, {}, "done")
    BY <1>3, RedeemDirectMoves
  <2>2. Equipped(call'[c])
    BY <2>1 DEF Fields, Equipped, OnTender
  <2>. QED BY <2>1, <2>2, OneEquipped
<1>4. CASE CreateIntent(c)
  <2>1. PICK o \in Orders, i \in Intents :
          /\ Others(c)
          /\ Fields(call'[c], "intent", o, FALSE, NoRequest,
                    <<[method |-> "card", amount |-> orders[o].total, capture |-> FALSE]>>,
                    FALSE, i, "processing", None, 0, 0, {}, "done")
    BY <1>4, CreateIntentMoves
  <2>2. Equipped(call'[c])
    BY <2>1 DEF Fields, Equipped, OnTender
  <2>. QED BY <2>1, <2>2, OneEquipped
<1>5. CASE Capture(c)
  <2>1. PICK i \in Intents :
          /\ intents[i].order # None
          /\ Others(c)
          /\ Fields(call'[c], "ask", intents[i].order, FALSE, NoRequest, <<>>, FALSE, i, "processing",
                    None, 0, 0, {}, "done")
    BY <1>5, CaptureMoves
  <2>2. intents[i].order \in Orders
    BY <2>1 DEF TypeOK
  <2>3. Equipped(call'[c])
    BY <2>1, <2>2 DEF Fields, Equipped, OnTender
  <2>. QED BY <2>1, <2>3, OneEquipped
<1>6. CASE Webhook(c) /\ ~UNCHANGED call
  <2>1. PICK e \in events :
          /\ intents[e.intent].order # None
          /\ Others(c)
          /\ Fields(call'[c], "update", intents[e.intent].order, FALSE, NoRequest, <<>>, FALSE,
                    e.intent, e.status, None, 0, 0, {}, "answer")
    BY <1>6, WebhookMoves
  <2>2. e.intent \in Intents /\ intents[e.intent].order \in Orders
    BY <2>1 DEF TypeOK, Webhooks
  <2>3. Equipped(call'[c])
    BY <2>1, <2>2 DEF Fields, Equipped, OnTender
  <2>. QED BY <2>1, <2>3, OneEquipped
<1>7. CASE CancelDirect(c)
  <2>1. PICK o \in Orders :
          /\ Others(c)
          /\ Fields(call'[c], "cancel", o, FALSE, NoRequest, <<>>, FALSE, None, "processing", None,
                    0, 0, {}, "done")
    BY <1>7, CancelDirectMoves
  <2>2. Equipped(call'[c])
    BY <2>1 DEF Fields, Equipped, OnTender
  <2>. QED BY <2>1, <2>2, OneEquipped
<1>. QED BY <1>1, <1>2, <1>3, <1>4, <1>5, <1>6, <1>7 DEF IssueDirect, FulfillDirect, Refund

LEMMA OpEquipped ==
  ASSUME TypeInv, NEW c \in Clients, NEW o, OpTo(c, o),
         LET k == call[c] IN
         /\ o \notin {"idle", "redeem"} => k.order \in Orders
         /\ o \in {"intent", "ask", "update", "mark"} => k.intent \in Intents
         /\ o \in {"redeem", "intent", "record"} => k.todo # <<>>
         /\ o \in {"reserve", "pay", "issued", "record"} => k.checkout
         /\ o \in {"ask", "update", "mark", "sum", "summary"} /\ k.then \in {"pay", "record"} =>
              k.checkout /\ k.todo # <<>>
  PROVE  HandlersEquipped'
<1>1. Equipped(call'[c])
  BY DEF OpTo, Fields, Equipped, OnTender, TypeInv
<1>. QED BY <1>1, OneEquipped DEF OpTo

LEMMA ReturnEquipped ==
  ASSUME TypeInv, NEW c \in Clients, Returned(c)
  PROVE  HandlersEquipped'
BY IdleEquipped, OneEquipped DEF Returned

LEMMA StepEquipped ==
  ASSUME TypeInv, NEW c \in Clients, Step(c) \/ Throw(c) \/ CleanupFails(c) \/ Crash(c)
  PROVE  HandlersEquipped'
<1>. DEFINE k == call[c]
<1>0. TypeOK /\ Equipped(k)
  BY DEF TypeInv
<1>1. ASSUME OpTo(c, "redeem"), Paying(c, "points") PROVE HandlersEquipped'
  BY <1>0, <1>1, OpEquipped DEF Paying, Equipped
<1>2. ASSUME OpTo(c, "record"), k.order \in Orders, k.checkout, k.todo # <<>> PROVE HandlersEquipped'
  BY <1>2, OpEquipped
<1>3. ASSUME NEW o \in {"release", "cancel", "close"}, OpTo(c, o), k.order \in Orders PROVE HandlersEquipped'
  BY <1>3, OpEquipped
<1>4. CASE RedeemRead(c) \/ RedeemWrite(c)
  BY <1>0, <1>1, <1>2, <1>4, PlainMoves, ReturnEquipped DEF Equipped
<1>5. CASE Throw(c) \/ CleanupFails(c) \/ Crash(c) \/ Release(c) \/ CancelRelease(c) \/ CancelWrite(c)
  BY <1>0, <1>3, <1>5, PlainMoves, ReturnEquipped DEF Equipped, Undoing
<1>6. CASE UpdateIntent(c) \/ MarkPayments(c) \/ IssuePoints(c) \/ Fulfill(c) \/ Leave(c)
  <2>1. ASSUME OpTo(c, "mark"), k.op = "update" PROVE HandlersEquipped'
    BY <1>0, <2>1, OpEquipped DEF Equipped, OnTender
  <2>2. ASSUME OpTo(c, "sum"), k.op = "mark" PROVE HandlersEquipped'
    BY <1>0, <2>2, OpEquipped DEF Equipped, OnTender
  <2>3. ASSUME OpTo(c, "issued"), k.op = "pay" PROVE HandlersEquipped'
    BY <1>0, <2>3, OpEquipped DEF Equipped
  <2>. QED BY <1>0, <1>6, <2>1, <2>2, <2>3, PlainMoves, ReturnEquipped
<1>7. CASE Reserved(c)
  <2>1. Equipped(call'[c]) /\ Others(c)
    BY <1>0, <1>7, ReservedGoes DEF Fields, Equipped, OnTender
  <2>. QED BY <2>1, OneEquipped
<1>8. CASE PayCard(c)
  <2>1. Equipped(call'[c]) /\ Others(c)
    BY <1>0, <1>8, PayCardMoves DEF Fields, Equipped, OnTender
  <2>. QED BY <2>1, OneEquipped
<1>9. CASE InsertIntent(c)
  <2>1. CASE Returned(c)
    BY <2>1, ReturnEquipped
  <2>2. CASE OpTo(c, "record") /\ k.checkout
    BY <1>0, <1>2, <1>9, <2>2 DEF InsertIntent, Equipped
  <2>3. CASE /\ k.checkout /\ Others(c)
             /\ Fields(call'[c], "ask", k.order, k.checkout, k.request, k.todo, k.reserved, k.intent,
                       k.status, k.captured, k.sum, k.paid, k.found, "record")
    <3>1. Equipped(call'[c])
      BY <1>0, <1>9, <2>3 DEF InsertIntent, Fields, Equipped, OnTender
    <3>. QED BY <2>3, <3>1, OneEquipped
  <2>. QED BY <1>0, <1>9, <2>1, <2>2, <2>3, InsertMoves
<1>10. CASE AskProvider(c)
  <2>1. Equipped(call'[c]) /\ Others(c)
    BY <1>0, <1>10, AskMoves DEF Fields, Equipped, OnTender
  <2>. QED BY <2>1, OneEquipped
<1>11. CASE RecordPayment(c)
  <2>1. k.checkout /\ k.todo # <<>> /\ k.order \in Orders
    BY <1>0, <1>11, RecordMoves DEF Paying, Equipped, OnTender
  <2>2. Equipped(call'[c]) /\ Others(c)
    BY <1>0, <1>11, <2>1, RecordMoves DEF Fields, Equipped, OnTender
  <2>. QED BY <2>2, OneEquipped
<1>12. CASE ReadSum(c)
  <2>1. Equipped(call'[c]) /\ Others(c)
    BY <1>0, <1>12, ReadMoves DEF Fields, Equipped, OnTender
  <2>. QED BY <2>1, OneEquipped
<1>13. CASE WriteSummary(c)
  <2>1. CASE Returned(c)
    BY <2>1, ReturnEquipped
  <2>2. CASE OpTo(c, "record") /\ k.then = "record"
    BY <1>0, <1>2, <1>13, <2>2 DEF WriteSummary, Equipped, OnTender
  <2>3. CASE /\ k.then = "pay" /\ Others(c)
             /\ Fields(call'[c], "pay", k.order, k.checkout, k.request, Tail(k.todo), k.reserved, None,
                       k.status, k.captured, k.sum, k.sum, k.found, k.then)
    <3>1. Equipped(call'[c])
      BY <1>0, <1>13, <2>3 DEF WriteSummary, Fields, Equipped, OnTender
    <3>. QED BY <2>3, <3>1, OneEquipped
  <2>. QED BY <1>13, <2>1, <2>2, <2>3, WriteMoves
<1>14. CASE CancelFind(c)
  <2>1. k.order \in Orders
    BY <1>0, <1>14 DEF CancelFind, Equipped
  <2>2. Equipped(call'[c]) /\ Others(c)
    BY <1>0, <1>14, <2>1, FindMoves DEF Fields, Equipped, OnTender
  <2>. QED BY <2>2, OneEquipped
<1>. QED BY <1>4, <1>5, <1>6, <1>7, <1>8, <1>9, <1>10, <1>11, <1>12, <1>13, <1>14 DEF Step

LEMMA LineFailsEquipped ==
  ASSUME TypeInv, LineFails
  PROVE  HandlersEquipped'
<1>1. PICK o \in Orders :
           /\ call' \in [Clients -> Handler]
           /\ \A c \in Clients :
                IF call[c].op = "reserve" /\ call[c].order = o
                THEN LET k == call[c] IN
                     Fields(call'[c], "cancel", k.order, k.checkout, k.request, k.todo, k.reserved, k.intent,
                            k.status, k.captured, k.sum, k.paid, k.found, k.then)
                ELSE call'[c] = call[c]
  BY LineFailsMoves DEF TypeInv
<1>2. ASSUME NEW c \in Clients PROVE Equipped(call'[c])
  BY <1>1 DEF TypeInv, Equipped, OnTender, Fields
<1>. QED BY <1>1, <1>2 DEF HandlersEquipped

LEMMA TypeNext == TypeInv /\ [Next]_vars => TypeInv'
<1>. SUFFICES ASSUME TypeInv, [Next]_vars PROVE TypeInv'
  OBVIOUS
<1>1. HandlersEquipped'
  <2>1. CASE UNCHANGED call
    BY <2>1 DEF TypeInv, TypeOK, HandlersEquipped
  <2>. QED BY <2>1, StartsEquipped, StepEquipped, LineFailsEquipped
    DEF Next, vars, LineReserved, ProviderStep
<1>2. OrdersTyped' /\ IntentsTyped' /\ PaymentsTyped' /\ points' \in Int
  BY OrdersStayTyped, IntentsStayTyped, PaymentsStayTyped, PointsStayTyped
<1>3. /\ held' \in [Orders -> SUBSET Lines] /\ reserving' \in [Orders -> SUBSET Lines]
      /\ money' \in [Intents -> {"none", "pending", "captured", "failed", "refunded"}]
      /\ events' \subseteq Webhooks
  BY StockStaysTyped, ProviderStaysTyped
<1>. QED BY <1>1, <1>2, <1>3
  DEF TypeInv, TypeOK, HandlersEquipped, OrdersTyped, IntentsTyped, PaymentsTyped

LEMMA TypeInit == Init => TypeInv
<1>. SUFFICES ASSUME Init PROVE TypeInv
  OBVIOUS
<1>1. /\ orders \in [Orders -> [status : {"absent", "pending", "fulfilled", "cancelled"},
                                total : Nat, paid : Nat]]
      /\ held \in [Orders -> SUBSET Lines] /\ reserving \in [Orders -> SUBSET Lines]
      /\ money \in [Intents -> {"none", "pending", "captured", "failed", "refunded"}]
      /\ events \subseteq Webhooks /\ points \in Int
  BY DEF Init, NoOrder, Webhooks
<1>2. /\ intents \in [Intents -> [order : Orders \cup {None}, amount : Nat, status : Statuses]]
      /\ payments \in [Payments -> [order : Orders \cup {None}, intent : Intents \cup {None},
                                    amount : Nat, status : Statuses]]
  BY DEF Init, NoIntent, NoPayment, Statuses
<1>3. call \in [Clients -> Handler] /\ \A c \in Clients : Equipped(call[c])
  BY IdleHandler, IdleEquipped DEF Init, Fields
<1>. QED BY <1>1, <1>2, <1>3 DEF TypeInv, TypeOK

(* The tables and the handlers' local copies have their types, whatever    *)
(* the interleaving, the failures and the webhooks.                        *)
THEOREM TypesHold == Spec => []TypeOK
<1>1. Spec => []TypeInv
  BY TypeInit, TypeNext, PTL DEF Spec
<1>2. TypeInv => TypeOK
  BY DEF TypeInv
<1>. QED BY <1>1, <1>2, PTL

-----------------------------------------------------------------------------
(* What has been received for an order never shrinks: a payment keeps its  *)
(* order, its intent and its amount, and the provider had what it had.     *)
Kept(p) == /\ payments'[p].order = payments[p].order
           /\ payments'[p].intent = payments[p].intent
           /\ payments'[p].amount = payments[p].amount

LEMMA RecordedIsKept ==
  ASSUME TypeInv, [Next]_vars, NEW p \in Payments, payments[p].order # None
  PROVE  Kept(p)
<1>. PaymentsTyped
  BY DEF TypeInv, TypeOK, PaymentsTyped
<1>1. CASE UNCHANGED payments
  BY <1>1 DEF Kept
<1>2. ASSUME NEW c \in Clients, MarkPayments(c)
      PROVE  Kept(p)
  BY <1>2 DEF MarkPayments, Marked, Kept, PaymentsTyped
<1>3. ASSUME NEW c \in Clients, RecordPayment(c)
      PROVE  Kept(p)
  <2>1. PICK q \in Payments : payments[q].order = None /\ \E row : payments' = [payments EXCEPT ![q] = row]
    BY <1>3 DEF RecordPayment
  <2>. QED BY <2>1 DEF Kept, PaymentsTyped
<1>. QED BY <1>1, <1>2, <1>3, PaymentsChange

LEMMA ReceivedStays ==
  ASSUME TypeInv, [Next]_vars, NEW p \in Payments, payments[p].order # None, ReceivedPayment(p)
  PROVE  Kept(p) /\ ReceivedPayment(p)'
<1>1. Kept(p)
  BY RecordedIsKept
<1>2. payments[p].intent \in Intents \cup {None}
  BY DEF TypeInv, TypeOK
<1>3. Grows(money, money')
  <2>1. CASE Next
    BY <2>1, MoneyGrows DEF TypeInv, TypeOK, Moneys
  <2>2. CASE UNCHANGED vars
    BY <2>2 DEF vars, provider, Grows
  <2>. QED BY <2>1, <2>2
<1>. QED BY <1>1, <1>2, <1>3 DEF Kept, ReceivedPayment, Backed, MisreadFailure, Grows, Got

ReceivedOf(o) == {p \in PaymentsOf(o) : ReceivedPayment(p)}

LEMMA ReceivedGrows ==
  ASSUME TypeInv, TypeInv', [Next]_vars, NEW o \in Orders
  PROVE  Received(o) \in Nat /\ Received(o)' \in Nat /\ Received(o) <= Received(o)'
<1>1. PICK S, T : S = ReceivedOf(o) /\ T = ReceivedOf(o)'
  OBVIOUS
<1>2. S \in SUBSET Payments /\ T \in SUBSET Payments
  BY <1>1 DEF ReceivedOf, PaymentsOf
<1>3. ASSUME NEW p \in S PROVE p \in T /\ Kept(p)
  BY <1>1, <1>2, <1>3, ReceivedStays, RequestAssumption DEF ReceivedOf, PaymentsOf, Kept
<1>4. PICK f, g : f = [p \in Payments |-> payments[p].amount] /\ g = [p \in Payments |-> payments'[p].amount]
  OBVIOUS
<1>5. \A p \in Payments : f[p] \in Nat /\ g[p] \in Nat
  BY <1>4 DEF TypeInv, TypeOK
<1>6. IsFiniteSet(S) /\ IsFiniteSet(T)
  BY <1>2, FiniteAssumption, FS_Subset
<1>7. SumFunctionOnSet(f, S) = SumFunctionOnSet(g, S)
  BY <1>2, <1>3, <1>4, <1>6, SumSame DEF Kept
<1>8. SumFunctionOnSet(g, S) <= SumFunctionOnSet(g, T)
  BY <1>2, <1>3, <1>5, <1>6, SumSubset
<1>9. SumFunctionOnSet(f, S) \in Nat /\ SumFunctionOnSet(g, T) \in Nat
  BY <1>2, <1>5, <1>6, SumType
<1>10. Received(o) = SumFunctionOnSet(f, S) /\ Received(o)' = SumFunctionOnSet(g, T)
  BY <1>1, <1>4 DEF Received, ReceivedOf, Total
<1>. QED BY <1>7, <1>8, <1>9, <1>10

(* What refreshOrderPaymentSummary sums has been received.                 *)
LEMMA SummedIsReceived ==
  ASSUME TypeInv, CapturedIsReceived, NEW o \in Orders
  PROVE  Summed(o) <= Received(o)
<1>1. PICK S, T : S = CapturedOf(o) /\ T = ReceivedOf(o)
  OBVIOUS
<1>2. T \in SUBSET Payments /\ S \in SUBSET T
  BY <1>1, RequestAssumption DEF ReceivedOf, PaymentsOf, CapturedOf, CapturedIsReceived
<1>3. PICK f : f = [p \in Payments |-> payments[p].amount]
  OBVIOUS
<1>4. IsFiniteSet(T) /\ \A p \in T : f[p] \in Nat
  BY <1>2, <1>3, FiniteAssumption, FS_Subset DEF TypeInv, TypeOK
<1>5. SumFunctionOnSet(f, S) <= SumFunctionOnSet(f, T)
  BY <1>2, <1>4, SumSubset
<1>. QED BY <1>1, <1>3, <1>5 DEF Summed, Received, ReceivedOf, Total

(* An order that exists goes on to exist, with its total.                  *)
LEMMA OrderStays ==
  ASSUME TypeInv, [Next]_vars, NEW o \in Orders, Exists(o)
  PROVE  Exists(o)' /\ orders'[o].total = orders[o].total
<1>. OrdersTyped
  BY DEF TypeInv, TypeOK, OrdersTyped
<1>1. CASE UNCHANGED orders
  BY <1>1 DEF Exists
<1>2. ASSUME NEW c \in Clients, Checkout(c)
      PROVE  Exists(o)' /\ orders'[o].total = orders[o].total
  <2>1. PICK q \in Orders : ~Exists(q) /\ \E row : orders' = [orders EXCEPT ![q] = row]
    BY <1>2 DEF Checkout
  <2>. QED BY <2>1 DEF Exists, OrdersTyped
<1>3. ASSUME NEW q, NEW n, orders' = [orders EXCEPT ![q].paid = n]
      PROVE  Exists(o)' /\ orders'[o].total = orders[o].total
  BY <1>3 DEF Exists, OrdersTyped
<1>4. ASSUME NEW q, NEW s \in {"fulfilled", "cancelled"}, orders' = [orders EXCEPT ![q].status = s]
      PROVE  Exists(o)' /\ orders'[o].total = orders[o].total
  BY <1>4 DEF Exists, OrdersTyped
<1>5. ASSUME NEW c \in Clients, WriteSummary(c)
      PROVE  Exists(o)' /\ orders'[o].total = orders[o].total
  BY <1>3, <1>5 DEF WriteSummary
<1>6. ASSUME NEW c \in Clients, Fulfill(c) \/ FulfillDirect(c) \/ CancelWrite(c)
      PROVE  Exists(o)' /\ orders'[o].total = orders[o].total
  BY <1>4, <1>6 DEF Fulfill, FulfillDirect, CancelWrite
<1>. QED BY <1>1, <1>2, <1>5, <1>6, OrdersChange

-----------------------------------------------------------------------------
(* The inductive invariant: the sum a handler has read, the paid amount it *)
(* got back and the paid amount of an order have been received; and a      *)
(* checkout is about the total its request asked for.                      *)
Covered(k) ==
  /\ k.op = "summary" => k.sum <= Received(k.order)
  /\ k.checkout => /\ k.paid <= Received(k.order)
                   /\ Exists(k.order) /\ orders[k.order].total = k.request.total

PaidInv == PaidIsReceived /\ \A c \in Clients : Covered(call[c])

(* Whatever a handler does but read the sum, take it over or start a       *)
(* checkout leaves what it knows about the money.                          *)
Unmoved(k, n) ==
  \/ n = k
  \/ n.op # "summary" /\ ~n.checkout
  \/ /\ n.op # "summary" /\ n.order = k.order /\ n.checkout = k.checkout
     /\ n.paid = k.paid /\ n.request = k.request

LEMMA OthersUnmoved ==
  ASSUME NEW c \in Clients, Others(c), Unmoved(call[c], call'[c])
  PROVE  \A d \in Clients : Unmoved(call[d], call'[d])
BY DEF Others, Unmoved

LEMMA MostUnmoved ==
  ASSUME TypeInv, [Next]_vars
  PROVE  \/ \A c \in Clients : Unmoved(call[c], call'[c])
         \/ \E c \in Clients : ReadSum(c) \/ WriteSummary(c) \/ Checkout(c)
<1>. DEFINE All == \A c \in Clients : Unmoved(call[c], call'[c])
<1>. TypeOK
  BY DEF TypeInv
<1>1. CASE UNCHANGED call
  BY <1>1 DEF Unmoved
<1>2. ASSUME NEW c \in Clients, Returned(c)
      PROVE  All
  BY <1>2, IdleHandler, OthersUnmoved DEF Returned, Unmoved, Fields
<1>3. ASSUME NEW c \in Clients, NEW o \in {"redeem", "record", "mark", "sum", "issued", "release", "cancel", "close"}, OpTo(c, o)
      PROVE  All
  BY <1>3, OthersUnmoved DEF OpTo, Unmoved, Fields
<1>4. CASE LineFails
  BY <1>4, LineFailsMoves DEF Unmoved, Fields
<1>5. ASSUME NEW c \in Clients, RedeemDirect(c)
      PROVE  All
  BY <1>5, RedeemDirectMoves, OthersUnmoved DEF Unmoved, Fields
<1>6. ASSUME NEW c \in Clients, CreateIntent(c)
      PROVE  All
  BY <1>6, CreateIntentMoves, OthersUnmoved DEF Unmoved, Fields
<1>7. ASSUME NEW c \in Clients, Capture(c)
      PROVE  All
  BY <1>7, CaptureMoves, OthersUnmoved DEF Unmoved, Fields
<1>8. ASSUME NEW c \in Clients, Webhook(c)
      PROVE  All
  BY <1>1, <1>8, WebhookMoves, OthersUnmoved DEF Unmoved, Fields
<1>9. ASSUME NEW c \in Clients, CancelDirect(c)
      PROVE  All
  BY <1>9, CancelDirectMoves, OthersUnmoved DEF Unmoved, Fields
<1>10. ASSUME NEW c \in Clients, IssueDirect(c) \/ FulfillDirect(c) \/ Refund(c)
       PROVE  All
  <2>1. UNCHANGED call
    BY <1>10 DEF IssueDirect, FulfillDirect, Refund
  <2>. QED BY <2>1 DEF Unmoved
<1>11. ASSUME NEW c \in Clients,
              \/ RedeemRead(c) \/ RedeemWrite(c) \/ UpdateIntent(c) \/ MarkPayments(c) \/ IssuePoints(c)
              \/ Fulfill(c) \/ Leave(c) \/ Throw(c) \/ Release(c) \/ CancelRelease(c) \/ CancelWrite(c)
              \/ CleanupFails(c) \/ Crash(c)
       PROVE  All
  BY <1>2, <1>3, <1>11, PlainMoves
<1>12. ASSUME NEW c \in Clients, Reserved(c)
       PROVE  All
  BY <1>12, ReservedGoes, OthersUnmoved DEF Unmoved, Fields
<1>13. ASSUME NEW c \in Clients, PayCard(c)
       PROVE  All
  BY <1>13, PayCardMoves, OthersUnmoved DEF Unmoved, Fields
<1>14. ASSUME NEW c \in Clients, InsertIntent(c)
       PROVE  All
  <2>1. CASE Returned(c) \/ OpTo(c, "record")
    BY <1>2, <1>3, <2>1
  <2>2. CASE ~(Returned(c) \/ OpTo(c, "record"))
    BY <1>14, <2>2, InsertMoves, OthersUnmoved DEF Unmoved, Fields
  <2>. QED BY <2>1, <2>2
<1>15. ASSUME NEW c \in Clients, AskProvider(c)
       PROVE  All
  BY <1>15, AskMoves, OthersUnmoved DEF Unmoved, Fields
<1>16. ASSUME NEW c \in Clients, RecordPayment(c)
       PROVE  All
  BY <1>16, RecordMoves, OthersUnmoved DEF Unmoved, Fields
<1>17. ASSUME NEW c \in Clients, CancelFind(c)
       PROVE  All
  <2>1. call[c].order \in Orders
    BY <1>17 DEF CancelFind, TypeInv, Equipped
  <2>. QED BY <1>17, <2>1, FindMoves, OthersUnmoved DEF Unmoved, Fields
<1>18. CASE LineReserved \/ ProviderStep \/ UNCHANGED vars
  BY <1>1, <1>18 DEF LineReserved, ProviderStep, vars
<1>. HIDE DEF All
<1>19. ASSUME NEW c \in Clients, Step(c)
       PROVE  All \/ ReadSum(c) \/ WriteSummary(c)
  BY <1>11, <1>12, <1>13, <1>14, <1>15, <1>16, <1>17, <1>19 DEF Step
<1>20. CASE All
  BY <1>20 DEF All
<1>. QED BY <1>4, <1>5, <1>6, <1>7, <1>8, <1>9, <1>10, <1>11, <1>18, <1>19, <1>20 DEF Next

LEMMA CoveredStays ==
  ASSUME TypeInv, TypeInv', PaidInv, [Next]_vars, NEW c \in Clients, Unmoved(call[c], call'[c])
  PROVE  Covered(call[c])'
<1>1. PICK k, n : k = call[c] /\ n = call'[c]
  OBVIOUS
<1>2. Covered(k) /\ Equipped(k) /\ Equipped(n) /\ k \in Handler /\ n \in Handler
  BY <1>1 DEF PaidInv, TypeInv, TypeOK
<1>3. ASSUME n.op = k.op, n.sum = k.sum, n.op = "summary", n.order = k.order
      PROVE  n.sum <= Received(n.order)'
  <2>1. k.order \in Orders /\ k.sum \in Nat /\ k.sum <= Received(k.order)
    BY <1>2, <1>3 DEF Equipped, Handler, Covered
  <2>2. Received(k.order) \in Nat /\ Received(k.order)' \in Nat /\ Received(k.order) <= Received(k.order)'
    BY <2>1, ReceivedGrows
  <2>. QED BY <1>3, <2>1, <2>2
<1>4. ASSUME n.order = k.order, n.checkout, k.checkout, n.paid = k.paid, n.request = k.request
      PROVE  n.paid <= Received(n.order)' /\ Exists(n.order)' /\ orders'[n.order].total = n.request.total
  <2>1. /\ k.order \in Orders /\ k.paid \in Nat /\ k.paid <= Received(k.order)
        /\ Exists(k.order) /\ orders[k.order].total = k.request.total
    BY <1>2, <1>4 DEF Equipped, Handler, Covered
  <2>2. Received(k.order) \in Nat /\ Received(k.order)' \in Nat /\ Received(k.order) <= Received(k.order)'
    BY <2>1, ReceivedGrows
  <2>3. Exists(k.order)' /\ orders'[k.order].total = orders[k.order].total
    BY <2>1, OrderStays
  <2>. QED BY <1>4, <2>1, <2>2, <2>3
<1>5. Unmoved(k, n)
  BY <1>1
<1>6. /\ n.op = "summary" => n.sum <= Received(n.order)'
      /\ n.checkout => n.paid <= Received(n.order)' /\ Exists(n.order)' /\ orders'[n.order].total = n.request.total
  BY <1>3, <1>4, <1>5 DEF Unmoved
<1>. QED BY <1>1, <1>6 DEF Covered, Exists

(* A step that reads the sum, takes it over, or starts a checkout.         *)
LEMMA MoverCovered ==
  ASSUME TypeInv, TypeInv', PaidInv, CapturedIsReceived, [Next]_vars, NEW c \in Clients,
         ReadSum(c) \/ WriteSummary(c) \/ Checkout(c)
  PROVE  \A d \in Clients : Covered(call[d])'
<1>. TypeOK
  BY DEF TypeInv
<1>1. PICK k, n : k = call[c] /\ n = call'[c]
  OBVIOUS
<1>2. Covered(k) /\ Equipped(k) /\ Equipped(n) /\ k \in Handler /\ n \in Handler
  BY <1>1 DEF PaidInv, TypeInv, TypeOK
<1>3. ASSUME Others(c), Covered(call[c])'
      PROVE  \A d \in Clients : Covered(call[d])'
  <2>1. ASSUME NEW d \in Clients, d # c PROVE Covered(call[d])'
    <3>1. Unmoved(call[d], call'[d])
      BY <1>3, <2>1 DEF Others, Unmoved
    <3>. QED BY <3>1, CoveredStays
  <2>. QED BY <1>3, <2>1
<1>4. CASE ReadSum(c)
  <2>1. /\ Others(c) /\ n.op = "summary" /\ n.order = k.order /\ n.checkout = k.checkout /\ n.paid = k.paid
        /\ n.request = k.request /\ n.sum = Summed(k.order) /\ k.op = "sum" /\ Summed(k.order) \in Nat
    BY <1>1, <1>4, ReadMoves DEF Fields
  <2>2. k.order \in Orders /\ k.paid \in Nat
    BY <1>2, <2>1 DEF Equipped, Handler
  <2>3. Received(k.order) \in Nat /\ Received(k.order)' \in Nat /\ Received(k.order) <= Received(k.order)'
    BY <2>2, ReceivedGrows
  <2>4. n.sum <= Received(n.order)'
    BY <2>1, <2>2, <2>3, SummedIsReceived
  <2>5. k.checkout => Exists(k.order)' /\ orders'[k.order].total = k.request.total
    BY <1>2, <2>2, OrderStays DEF Covered
  <2>6. n.checkout => n.paid <= Received(n.order)'
    BY <1>2, <2>1, <2>2, <2>3 DEF Covered
  <2>7. n.checkout => Exists(n.order)' /\ orders'[n.order].total = n.request.total
    BY <2>1, <2>5
  <2>8. Covered(call[c])'
    BY <1>1, <2>4, <2>6, <2>7 DEF Covered, Exists
  <2>. QED BY <1>3, <2>1, <2>8
<1>5. CASE WriteSummary(c)
  <2>1. CASE Unmoved(k, n) /\ Others(c)
    BY <1>1, <1>3, <2>1, CoveredStays
  <2>2. CASE ~(Unmoved(k, n) /\ Others(c))
    <3>1. /\ Others(c) /\ n.op = "pay" /\ n.order = k.order /\ n.checkout = k.checkout /\ n.paid = k.sum
          /\ n.request = k.request /\ k.op = "summary"
      BY <1>1, <1>5, <2>2, WriteMoves, IdleHandler DEF Fields, OpTo, Returned, Unmoved
    <3>2. k.order \in Orders /\ k.sum \in Nat /\ k.sum <= Received(k.order)
      BY <1>2, <3>1 DEF Equipped, Handler, Covered
    <3>3. Received(k.order) \in Nat /\ Received(k.order)' \in Nat /\ Received(k.order) <= Received(k.order)'
      BY <3>2, ReceivedGrows
    <3>4. k.checkout => Exists(k.order)' /\ orders'[k.order].total = k.request.total
      BY <1>2, <3>2, OrderStays DEF Covered
    <3>5. n.paid <= Received(n.order)'
      BY <3>1, <3>2, <3>3
    <3>6. n.checkout => Exists(n.order)' /\ orders'[n.order].total = n.request.total
      BY <3>1, <3>4
    <3>7. Covered(call[c])'
      BY <1>1, <3>1, <3>5, <3>6 DEF Covered, Exists
    <3>. QED BY <1>3, <3>1, <3>7
  <2>. QED BY <2>1, <2>2
<1>6. CASE Checkout(c)
  <2>1. PICK o \in Orders, r \in Requests :
          /\ orders' = [orders EXCEPT ![o] = [status |-> "pending", total |-> r.total, paid |-> 0]]
          /\ Others(c)
          /\ Fields(call'[c], IF r.reserve THEN "reserve" ELSE "pay", o, TRUE, r, r.tenders, FALSE, None,
                    "processing", None, 0, 0, {}, "done")
    BY <1>6, CheckoutMoves
  <2>2. n.order = o /\ n.paid = 0 /\ n.request = r /\ n.op # "summary"
    BY <1>1, <2>1 DEF Fields
  <2>3. orders'[o].status = "pending" /\ orders'[o].total = r.total
    BY <2>1 DEF TypeOK
  <2>4. Received(o)' \in Nat
    BY ReceivedGrows
  <2>5. n.paid <= Received(n.order)' /\ Exists(n.order)' /\ orders'[n.order].total = n.request.total
    BY <2>2, <2>3, <2>4 DEF Exists
  <2>6. Covered(call[c])'
    BY <1>1, <2>2, <2>5 DEF Covered, Exists
  <2>. QED BY <1>3, <2>1, <2>6
<1>. QED BY <1>4, <1>5, <1>6

(* The paid amount of an order is overwritten by a sum that was received.  *)
LEMMA PaidStays ==
  ASSUME TypeInv, TypeInv', PaidInv, [Next]_vars, NEW o \in Orders
  PROVE  orders'[o].paid <= Received(o)'
<1>1. /\ orders[o].paid \in Nat /\ orders[o].paid <= Received(o) /\ OrdersTyped
      /\ Received(o) \in Nat /\ Received(o)' \in Nat /\ Received(o) <= Received(o)'
  BY ReceivedGrows DEF TypeInv, TypeOK, OrdersTyped, PaidInv, PaidIsReceived
<1>2. CASE orders'[o].paid = orders[o].paid
  BY <1>1, <1>2
<1>3. ASSUME NEW c \in Clients, WriteSummary(c), call[c].order = o
      PROVE  orders'[o].paid <= Received(o)'
  <2>1. PICK k : k = call[c]
    OBVIOUS
  <2>2. Covered(k) /\ k.op = "summary" /\ k.order = o /\ k.sum \in Nat /\ orders'[o].paid = k.sum
    BY <1>1, <1>3, <2>1 DEF PaidInv, WriteSummary, TypeInv, TypeOK, Handler
  <2>. QED BY <1>1, <2>2 DEF Covered
<1>4. ASSUME NEW c \in Clients, WriteSummary(c), call[c].order # o
      PROVE  orders'[o].paid = orders[o].paid
  BY <1>1, <1>4 DEF WriteSummary, OrdersTyped
<1>5. ASSUME NEW q, NEW s, orders' = [orders EXCEPT ![q].status = s]
      PROVE  orders'[o].paid = orders[o].paid
  BY <1>1, <1>5 DEF OrdersTyped
<1>6. ASSUME NEW c \in Clients, Fulfill(c) \/ FulfillDirect(c) \/ CancelWrite(c)
      PROVE  orders'[o].paid = orders[o].paid
  BY <1>5, <1>6 DEF Fulfill, FulfillDirect, CancelWrite
<1>7. ASSUME NEW c \in Clients, Checkout(c)
      PROVE  orders'[o].paid <= Received(o)'
  <2>1. PICK q \in Orders, r \in Requests :
          orders' = [orders EXCEPT ![q] = [status |-> "pending", total |-> r.total, paid |-> 0]]
    BY <1>7 DEF Checkout
  <2>. QED BY <1>1, <1>2, <2>1 DEF OrdersTyped
<1>. QED BY <1>2, <1>3, <1>4, <1>6, <1>7, OrdersChange

LEMMA PaidNext == TypeInv /\ TypeInv' /\ PaidInv /\ CapturedIsReceived /\ [Next]_vars => PaidInv'
<1>. SUFFICES ASSUME TypeInv, TypeInv', PaidInv, CapturedIsReceived, [Next]_vars PROVE PaidInv'
  OBVIOUS
<1>1. \A o \in Orders : orders'[o].paid <= Received(o)'
  BY PaidStays
<1>2. \A c \in Clients : Covered(call[c])'
  <2>1. CASE \A c \in Clients : Unmoved(call[c], call'[c])
    BY <2>1, CoveredStays
  <2>2. CASE \E c \in Clients : ReadSum(c) \/ WriteSummary(c) \/ Checkout(c)
    BY <2>2, MoverCovered
  <2>. QED BY <2>1, <2>2, MostUnmoved
<1>. QED BY <1>1, <1>2 DEF PaidInv, PaidIsReceived

LEMMA PaidInit == Init => PaidInv
<1>. SUFFICES ASSUME Init PROVE PaidInv
  OBVIOUS
<1>1. \A c \in Clients : Covered(call[c])
  BY DEF Init, Covered, Idle
<1>2. ASSUME NEW o \in Orders PROVE orders[o].paid <= Received(o)
  <2>1. TypeOK
    BY TypeInit DEF TypeInv
  <2>2. Received(o) \in Nat
    BY <2>1, TotalNat DEF Received, PaymentsOf
  <2>. QED BY <2>2 DEF Init, NoOrder
<1>. QED BY <1>1, <1>2 DEF PaidInv, PaidIsReceived

(* refreshOrderPaymentSummary and recordOrderPayment: whatever the         *)
(* requests, clients, failures and webhooks, an order never shows more     *)
(* paid than was received for it, the charges that failed at Flutterwave   *)
(* counted in, when the requests' cards agree on being captured at once.   *)
THEOREM PaidWasReceived == UniformCapture => (Spec => []PaidIsReceived)
<1>. SUFFICES ASSUME UniformCapture PROVE Spec => []PaidIsReceived
  OBVIOUS
<1>. DEFINE Inv == TypeInv /\ SoundInv /\ PaidInv
<1>1. Init => Inv
  BY TypeInit, SoundInit, PaidInit
<1>2. Inv /\ [Next]_vars => Inv'
  BY TypeNext, SoundNext, PaidNext, SoundIsReceived
<1>3. Inv => PaidIsReceived
  BY DEF PaidInv
<1>. QED BY <1>1, <1>2, <1>3, PTL DEF Spec

(* The only step of a checkout that is done with its tenders and changes   *)
(* an order hands over its goods.                                          *)
LEMMA SettledFulfills ==
  ASSUME TypeInv, [Next]_vars, NEW c \in Clients, Settled(call[c]), orders' # orders, call'[c] # call[c]
  PROVE  Fulfill(c)
<1>. TypeOK
  BY DEF TypeInv
<1>1. ASSUME NEW d \in Clients, Checkout(d) \/ WriteSummary(d) \/ Fulfill(d) \/ CancelWrite(d)
      PROVE  d = c
  <2>1. Others(d)
    BY <1>1, CheckoutMoves, WriteMoves, PlainMoves DEF OpTo, Returned
  <2>. QED BY <2>1 DEF Others
<1>2. ASSUME NEW d \in Clients, FulfillDirect(d)
      PROVE  FALSE
  BY <1>2 DEF FulfillDirect
<1>3. ~(Checkout(c) \/ WriteSummary(c) \/ CancelWrite(c))
  BY DEF Settled, Checkout, WriteSummary, CancelWrite
<1>. QED BY <1>1, <1>2, <1>3, OrdersChange

(* shouldFulfill: whatever the requests, clients, failures and webhooks, a *)
(* checkout that is to be paid in full hands over the goods only when the  *)
(* order's total has been received, a failed Flutterwave charge counted as *)
(* received since its gateway reports it as captured.                      *)
THEOREM FulfilledWasPaid == UniformCapture => (Spec => FulfilledIsPaid)
<1>. SUFFICES ASSUME UniformCapture PROVE Spec => FulfilledIsPaid
  OBVIOUS
<1>. DEFINE Inv == TypeInv /\ SoundInv /\ PaidInv
            Paid == \A c \in Clients :
                      LET k == call[c] IN
                      /\ Settled(k)
                      /\ orders' # orders /\ call'[c] # k
                      /\ k.request.tenders # <<>> /\ ~k.request.deposit
                      => Received(k.order) >= orders[k.order].total
<1>1. Init => Inv
  BY TypeInit, SoundInit, PaidInit
<1>2. Inv /\ [Next]_vars => Inv'
  BY TypeNext, SoundNext, PaidNext, SoundIsReceived
<1>3. Inv /\ [Next]_vars => [Paid]_vars
  <2>. SUFFICES ASSUME Inv, [Next]_vars, NEW c \in Clients, Settled(call[c]), orders' # orders,
                       call'[c] # call[c], call[c].request.tenders # <<>>, ~call[c].request.deposit
                PROVE  Received(call[c].order) >= orders[call[c].order].total
    OBVIOUS
  <2>1. Fulfill(c)
    BY SettledFulfills
  <2>2. PICK k : k = call[c]
    OBVIOUS
  <2>3. k \in Handler /\ Equipped(k) /\ Covered(k) /\ Settled(k)
    BY <2>2 DEF TypeInv, TypeOK, PaidInv
  <2>4. k.checkout /\ k.order \in Orders
    BY <2>3 DEF Settled, Equipped
  <2>5. k.paid >= k.request.total
    BY <2>1, <2>2 DEF Fulfill, ShouldFulfill
  <2>6. k.paid <= Received(k.order) /\ orders[k.order].total = k.request.total
    BY <2>3, <2>4 DEF Covered
  <2>7. Received(k.order) \in Nat /\ k.paid \in Nat /\ orders[k.order].total \in Nat
    BY <2>3, <2>4, TotalNat DEF Received, PaymentsOf, TypeInv, TypeOK, Handler
  <2>. QED BY <2>2, <2>5, <2>6, <2>7
<1>4. Spec => [][Paid]_vars
  BY <1>1, <1>2, <1>3, PTL DEF Spec
<1>. QED BY <1>4 DEF FulfilledIsPaid

-----------------------------------------------------------------------------
(* Requests that come one at a time and do not fail but by a refusal.      *)
OneClient == \A c, d \in Clients : c = d

(* The steps that follow a card from its intent to the order's summary.    *)
CardStep(c) ==
  \/ Checkout(c) \/ PayCard(c) \/ CreateIntent(c) \/ InsertIntent(c) \/ Capture(c) \/ AskProvider(c)
  \/ Webhook(c) \/ UpdateIntent(c) \/ MarkPayments(c) \/ RecordPayment(c) \/ ReadSum(c) \/ WriteSummary(c)
  \/ RedeemWrite(c)

(* What the other steps do to a handler.                                   *)
Busy == {"intent", "update", "mark", "record", "sum", "summary"}
Aside(k, n) ==
  \/ n = k
  \/ /\ k.op \notin Busy /\ n.op \notin Busy \cup {"ask"}
     /\ \/ n.intent = None /\ ~n.checkout
        \/ n.order = k.order /\ n.intent = k.intent /\ n.checkout = k.checkout

LEMMA OthersAside ==
  ASSUME NEW c \in Clients, Others(c), Aside(call[c], call'[c])
  PROVE  \A d \in Clients : Aside(call[d], call'[d])
BY DEF Others, Aside

LEMMA MostAside ==
  ASSUME TypeInv, ~Crashes, [Next]_vars
  PROVE  (\A c \in Clients : Aside(call[c], call'[c])) \/ \E c \in Clients : CardStep(c)
<1>. DEFINE All == \A c \in Clients : Aside(call[c], call'[c])
<1>. TypeOK
  BY DEF TypeInv
<1>1. ASSUME UNCHANGED call PROVE All
  BY <1>1 DEF Aside
<1>2. ASSUME NEW c \in Clients, Returned(c), call[c].op \notin Busy
      PROVE  All
  BY <1>2, IdleHandler, OthersAside DEF Returned, Aside, Fields, Busy
<1>3. ASSUME NEW c \in Clients, NEW o \in {"redeem", "issued", "release", "cancel", "close"}, OpTo(c, o),
             call[c].op \notin Busy
      PROVE  All
  BY <1>3, OthersAside DEF OpTo, Aside, Fields, Busy
<1>4. CASE LineFails
  BY <1>4, LineFailsMoves DEF Aside, Fields, Busy
<1>5. ASSUME NEW c \in Clients, RedeemDirect(c)
      PROVE  All
  BY <1>5, RedeemDirectMoves, OthersAside DEF Aside, Fields, Busy
<1>6. ASSUME NEW c \in Clients, CancelDirect(c)
      PROVE  All
  BY <1>6, CancelDirectMoves, OthersAside DEF Aside, Fields, Busy
<1>7. ASSUME NEW c \in Clients, Reserved(c)
      PROVE  All
  BY <1>7, ReservedGoes, OthersAside DEF Aside, Fields, Busy
<1>8. ASSUME NEW c \in Clients, CancelFind(c)
      PROVE  All
  <2>1. call[c].order \in Orders
    BY <1>8 DEF CancelFind, TypeInv, Equipped
  <2>. QED BY <1>8, <2>1, FindMoves, OthersAside DEF Aside, Fields, Busy
<1>9. ASSUME NEW c \in Clients, IssueDirect(c) \/ FulfillDirect(c) \/ Refund(c)
      PROVE  All
  <2>1. UNCHANGED call
    BY <1>9 DEF IssueDirect, FulfillDirect, Refund
  <2>. QED BY <2>1 DEF Aside
<1>10. ASSUME NEW c \in Clients,
              \/ RedeemRead(c) \/ IssuePoints(c) \/ Fulfill(c) \/ Leave(c) \/ Throw(c)
              \/ Release(c) \/ CancelRelease(c) \/ CancelWrite(c)
       PROVE  All
  <2>1. call[c].op \notin Busy
    BY <1>10, PlainMoves DEF Paying, Settled, Busy
  <2>. QED BY <1>2, <1>3, <1>10, <2>1, PlainMoves
<1>11. CASE LineReserved \/ ProviderStep \/ UNCHANGED vars
  <2>1. UNCHANGED call
    BY <1>11 DEF LineReserved, ProviderStep, vars
  <2>. QED BY <2>1 DEF Aside
<1>12. ASSUME NEW c \in Clients, Step(c)
       PROVE  All \/ CardStep(c)
  BY <1>7, <1>8, <1>10, <1>12 DEF Step, CardStep
<1>13. ASSUME NEW c \in Clients, CleanupFails(c) \/ Crash(c)
       PROVE  FALSE
  BY <1>13 DEF CleanupFails, Crash
<1>14. ASSUME NEW c \in Clients,
              \/ Checkout(c) \/ CreateIntent(c) \/ Capture(c) \/ Webhook(c)
       PROVE  CardStep(c)
  BY <1>14 DEF CardStep
<1>15. ASSUME NEW c \in Clients,
              \/ Step(c) \/ Checkout(c) \/ RedeemDirect(c) \/ CreateIntent(c) \/ Capture(c) \/ Webhook(c)
              \/ IssueDirect(c) \/ FulfillDirect(c) \/ CancelDirect(c) \/ Refund(c)
              \/ Throw(c) \/ CleanupFails(c) \/ Crash(c)
       PROVE  All \/ CardStep(c)
  BY <1>5, <1>6, <1>9, <1>10, <1>12, <1>13, <1>14, <1>15
<1>16. CASE \E c \in Clients :
         \/ Step(c) \/ Checkout(c) \/ RedeemDirect(c) \/ CreateIntent(c) \/ Capture(c) \/ Webhook(c)
         \/ IssueDirect(c) \/ FulfillDirect(c) \/ CancelDirect(c) \/ Refund(c)
         \/ Throw(c) \/ CleanupFails(c) \/ Crash(c)
  BY <1>15, <1>16
<1>. QED BY <1>4, <1>11, <1>16 DEF Next

-----------------------------------------------------------------------------
(* What belongs together: a payment to its intent's order, an intent to a  *)
(* reference the provider knows, a handler to its intent's order.          *)
Linked(k) ==
  /\ k.op = "intent" => intents[k.intent].order = None /\ money[k.intent] # "none"
  /\ k.intent # None /\ k.op # "intent" => intents[k.intent].order = k.order /\ k.order \in Orders
  /\ k.checkout => Exists(k.order)

PaymentLinked(p) ==
  /\ payments[p].order # None => Exists(payments[p].order)
  /\ payments[p].intent # None =>
       payments[p].order \in Orders /\ payments[p].order = intents[payments[p].intent].order

LinkInv ==
  /\ \A p \in Payments : PaymentLinked(p)
  /\ \A i \in Intents : money[i] = "none" => intents[i].order = None
  /\ \A c \in Clients : Linked(call[c])

(* A reference stays known to the provider.                                *)
LEMMA MoneyStaysKnown ==
  ASSUME TypeInv, [Next]_vars, NEW i \in Intents
  PROVE  money'[i] = "none" => money[i] = "none"
<1>1. money \in [Intents -> {"none", "pending", "captured", "failed", "refunded"}]
  BY DEF TypeInv, TypeOK
<1>2. CASE UNCHANGED money
  BY <1>2
<1>3. ASSUME NEW j \in Intents, NEW s, money' = [money EXCEPT ![j] = s], s # "none"
      PROVE  money'[i] = "none" => money[i] = "none"
  BY <1>1, <1>3
<1>4. CASE ProviderStep
  BY <1>3, <1>4 DEF ProviderStep, Becomes
<1>5. ASSUME NEW c \in Clients, PayCard(c) \/ CreateIntent(c) \/ Refund(c)
      PROVE  money'[i] = "none" => money[i] = "none"
  BY <1>3, <1>5 DEF PayCard, CreateIntent, OpenIntent, Refund, Becomes
<1>. QED BY <1>2, <1>4, <1>5, MoneyChanges

(* An intent gets its order once.                                          *)
LEMMA IntentKeepsOrder ==
  ASSUME TypeInv, [Next]_vars, NEW i \in Intents
  PROVE  \/ intents'[i].order = intents[i].order
         \/ \E c \in Clients : InsertIntent(c) /\ call[c].intent = i
<1>. IntentsTyped
  BY DEF TypeInv, TypeOK, IntentsTyped
<1>1. ASSUME NEW c \in Clients, InsertIntent(c), call[c].intent # i
      PROVE  intents'[i].order = intents[i].order
  BY <1>1 DEF InsertIntent, IntentsTyped
<1>2. ASSUME NEW c \in Clients, UpdateIntent(c)
      PROVE  intents'[i].order = intents[i].order
  BY <1>2 DEF UpdateIntent, IntentsTyped
<1>. QED BY <1>1, <1>2, IntentsChange

(* A new intent has had no payment.                                        *)
LEMMA NewIntentIsNew ==
  ASSUME TypeInv, LinkInv, NEW c \in Clients, call[c].op = "intent", NEW p \in Payments
  PROVE  payments[p].intent # call[c].intent
<1>1. call[c].intent \in Intents /\ intents[call[c].intent].order = None
  BY DEF TypeInv, Equipped, LinkInv, Linked
<1>2. payments[p].intent # None => payments[p].order \in Orders /\ payments[p].order = intents[payments[p].intent].order
  BY DEF LinkInv, PaymentLinked
<1>. QED BY <1>1, <1>2, RequestAssumption

LEMMA PaymentsStayLinked ==
  ASSUME TypeInv, TypeInv', LinkInv, [Next]_vars, NEW p \in Payments
  PROVE  PaymentLinked(p)'
<1>1. PaymentsTyped /\ PaymentLinked(p)
  BY DEF TypeInv, TypeOK, PaymentsTyped, LinkInv
<1>2. ASSUME payments'[p].order = payments[p].order, payments'[p].intent = payments[p].intent
      PROVE  PaymentLinked(p)'
  <2>1. payments[p].order # None => payments[p].order \in Orders /\ Exists(payments[p].order)
    BY <1>1 DEF PaymentsTyped, PaymentLinked
  <2>2. PICK o, i : o = payments[p].order /\ i = payments[p].intent
    OBVIOUS
  <2>3. o # None => Exists(o)'
    BY <2>1, <2>2, OrderStays
  <2>4. i # None => o \in Orders /\ o = intents[i].order /\ i \in Intents
    BY <1>1, <2>2 DEF PaymentLinked, PaymentsTyped
  <2>5. i # None => intents'[i].order = intents[i].order
    <3>1. ASSUME NEW c \in Clients, InsertIntent(c), call[c].intent = i
          PROVE  FALSE
      BY <2>2, <3>1, NewIntentIsNew DEF InsertIntent
    <3>. QED BY <2>4, <3>1, IntentKeepsOrder
  <2>. QED BY <1>2, <2>2, <2>3, <2>4, <2>5 DEF PaymentLinked, Exists
<1>3. CASE UNCHANGED payments
  BY <1>2, <1>3
<1>4. ASSUME NEW c \in Clients, MarkPayments(c)
      PROVE  PaymentLinked(p)'
  <2>1. payments'[p] = Marked(p, call[c])
    BY <1>4 DEF MarkPayments
  <2>2. payments'[p].order = payments[p].order /\ payments'[p].intent = payments[p].intent
    BY <1>1, <2>1 DEF Marked, PaymentsTyped
  <2>. QED BY <1>2, <2>2
<1>5. ASSUME NEW c \in Clients, RecordPayment(c)
      PROVE  PaymentLinked(p)'
  <2>1. PICK q \in Payments :
          /\ payments' = [payments EXCEPT ![q] =
               [order |-> call[c].order, intent |-> call[c].intent, amount |-> Head(call[c].todo).amount,
                status |-> RecordedStatus(call[c])]]
    BY <1>5 DEF RecordPayment
  <2>2. CASE q # p
    BY <1>1, <1>2, <2>1, <2>2 DEF PaymentsTyped
  <2>3. CASE q = p
    <3>1. PICK k : k = call[c]
      OBVIOUS
    <3>2. payments'[p].order = k.order /\ payments'[p].intent = k.intent
      BY <1>1, <2>1, <2>3, <3>1 DEF PaymentsTyped
    <3>3. k.checkout /\ k.order \in Orders /\ k.op # "intent" /\ Linked(k) /\ k.intent \in Intents \cup {None}
      BY <1>5, <3>1 DEF RecordPayment, Paying, TypeInv, TypeOK, Equipped, OnTender, LinkInv, Handler
    <3>4. Exists(k.order)'
      BY <3>3, OrderStays DEF Linked
    <3>5. ASSUME k.intent # None PROVE intents'[k.intent].order = k.order
      <4>1. UNCHANGED intents
        BY <1>5 DEF RecordPayment
      <4>. QED BY <3>3, <3>5, <4>1 DEF Linked
    <3>. QED BY <3>2, <3>3, <3>4, <3>5 DEF PaymentLinked, Exists
  <2>. QED BY <2>2, <2>3
<1>. QED BY <1>3, <1>4, <1>5, PaymentsChange

(* A handler that keeps its intent and its order keeps them together.      *)
LEMMA StaysLinked ==
  ASSUME TypeInv, LinkInv, [Next]_vars, OneClient, NEW c \in Clients, ~InsertIntent(c),
         NEW n, n = call'[c],
         n.op = "intent" <=> call[c].op = "intent",
         \/ n.intent = None /\ n.op # "intent"
         \/ n.intent = call[c].intent /\ n.order = call[c].order,
         n.checkout => call[c].checkout /\ n.order = call[c].order
  PROVE  Linked(call[c])'
<1>1. PICK k : k = call[c]
  OBVIOUS
<1>2. Linked(k) /\ Equipped(k) /\ k.intent \in Intents \cup {None}
  BY <1>1 DEF LinkInv, TypeInv, TypeOK, Handler
<1>3. \A i \in Intents : intents'[i].order = intents[i].order /\ (money'[i] = "none" => money[i] = "none")
  BY IntentKeepsOrder, MoneyStaysKnown DEF OneClient
<1>4. n.checkout => Exists(n.order)'
  <2>1. k.checkout => k.order \in Orders /\ Exists(k.order)
    BY <1>2 DEF Equipped, Linked
  <2>. QED BY <1>1, <2>1, OrderStays
<1>5. n.op = "intent" => intents'[n.intent].order = None /\ money'[n.intent] # "none"
  BY <1>1, <1>2, <1>3 DEF Equipped, Linked
<1>6. n.intent # None /\ n.op # "intent" => intents'[n.intent].order = n.order /\ n.order \in Orders
  BY <1>1, <1>2, <1>3 DEF Linked
<1>. QED BY <1>4, <1>5, <1>6 DEF Linked, Exists

LEMMA CardStaysLinked ==
  ASSUME TypeInv, LinkInv, [Next]_vars, OneClient, NEW c \in Clients, CardStep(c)
  PROVE  Linked(call[c])'
<1>. TypeOK
  BY DEF TypeInv
<1>1. PICK k, n : k = call[c] /\ n = call'[c]
  OBVIOUS
<1>2. Linked(k) /\ Equipped(k) /\ k.intent \in Intents \cup {None}
  BY <1>1 DEF LinkInv, TypeInv, TypeOK, Handler
<1>3. CASE Returned(c)
  <2>1. n.op = "idle" /\ n.intent = None /\ ~n.checkout
    BY <1>1, <1>3, IdleHandler DEF Returned, Fields
  <2>. QED BY <1>1, <2>1 DEF Linked
<1>4. CASE Checkout(c)
  <2>1. PICK o \in Orders, r \in Requests :
          /\ orders' = [orders EXCEPT ![o] = [status |-> "pending", total |-> r.total, paid |-> 0]]
          /\ Others(c)
          /\ Fields(call'[c], IF r.reserve THEN "reserve" ELSE "pay", o, TRUE, r, r.tenders, FALSE, None,
                    "processing", None, 0, 0, {}, "done")
    BY <1>4, CheckoutMoves
  <2>2. n.op # "intent" /\ n.intent = None /\ n.order = o /\ orders'[o].status = "pending"
    BY <1>1, <2>1 DEF Fields, TypeOK
  <2>. QED BY <1>1, <2>2 DEF Linked, Exists
<1>5. CASE PayCard(c) \/ CreateIntent(c)
  <2>1. PICK i \in Intents, o \in Orders :
          /\ money[i] = "none" /\ money' = [money EXCEPT ![i] = "pending"] /\ UNCHANGED intents
          /\ n.op = "intent" /\ n.intent = i /\ n.order = o /\ (n.checkout => k.checkout /\ o = k.order)
    <3>1. CASE PayCard(c)
      <4>1. k.order \in Orders
        BY <1>1, <1>2, <3>1 DEF PayCard, Paying, Equipped
      <4>2. PICK i \in Intents :
              /\ money[i] = "none" /\ money' = [money EXCEPT ![i] = "pending"]
              /\ n.op = "intent" /\ n.intent = i /\ n.order = k.order /\ n.checkout = k.checkout
        BY <1>1, <3>1, PayCardMoves DEF Fields
      <4>3. UNCHANGED intents
        BY <3>1 DEF PayCard, OpenIntent
      <4>. QED BY <4>1, <4>2, <4>3
    <3>2. CASE CreateIntent(c)
      <4>1. PICK i \in Intents, o \in Orders :
              /\ money[i] = "none" /\ money' = [money EXCEPT ![i] = "pending"]
              /\ n.op = "intent" /\ n.intent = i /\ n.order = o /\ n.checkout = FALSE
        BY <1>1, <3>2, CreateIntentMoves DEF Fields
      <4>2. UNCHANGED intents
        BY <3>2 DEF CreateIntent, OpenIntent
      <4>. QED BY <4>1, <4>2
    <3>. QED BY <1>5, <3>1, <3>2
  <2>2. intents'[i].order = None /\ money'[i] = "pending"
    BY <2>1 DEF LinkInv, TypeOK
  <2>3. n.checkout => Exists(n.order)'
    BY <1>2, <2>1, OrderStays DEF Linked
  <2>. QED BY <1>1, <2>1, <2>2, <2>3 DEF Linked, Exists
<1>6. CASE InsertIntent(c) /\ ~Returned(c)
  <2>1. /\ n.op # "intent" /\ n.intent = k.intent /\ n.order = k.order /\ n.checkout = k.checkout
        /\ k.op = "intent"
        /\ intents' = [intents EXCEPT ![k.intent] =
              [order |-> k.order, amount |-> Head(k.todo).amount, status |-> "requires_capture"]]
    BY <1>1, <1>6, InsertMoves DEF Fields, OpTo
  <2>2. k.order \in Orders /\ k.intent \in Intents
    BY <1>2, <2>1 DEF Equipped
  <2>3. intents'[k.intent].order = k.order
    BY <2>1, <2>2 DEF TypeOK
  <2>4. n.checkout => Exists(k.order)'
    BY <1>2, <2>1, <2>2, OrderStays DEF Linked
  <2>. QED BY <1>1, <2>1, <2>2, <2>3, <2>4 DEF Linked, Exists
<1>7. CASE Capture(c) \/ (Webhook(c) /\ ~UNCHANGED call)
  <2>1. PICK i \in Intents :
          /\ intents[i].order # None /\ UNCHANGED intents
          /\ n.op # "intent" /\ n.intent = i /\ n.order = intents[i].order /\ ~n.checkout
    <3>1. CASE Capture(c)
      <4>1. UNCHANGED intents
        BY <3>1 DEF Capture
      <4>. QED BY <1>1, <3>1, <4>1, CaptureMoves DEF Fields
    <3>2. CASE Webhook(c) /\ ~UNCHANGED call
      <4>1. UNCHANGED intents /\ \A e \in events : e.intent \in Intents
        BY <3>2 DEF Webhook, TypeOK, Webhooks
      <4>2. PICK e \in events :
              /\ intents[e.intent].order # None
              /\ n.op = "update" /\ n.intent = e.intent /\ n.order = intents[e.intent].order /\ ~n.checkout
        BY <1>1, <3>2, WebhookMoves DEF Fields
      <4>. QED BY <4>1, <4>2
    <3>. QED BY <1>7, <3>1, <3>2
  <2>2. intents[i].order \in Orders
    BY <2>1 DEF TypeOK
  <2>. QED BY <1>1, <2>1, <2>2 DEF Linked
<1>8. CASE \/ AskProvider(c) \/ UpdateIntent(c) \/ MarkPayments(c) \/ RecordPayment(c) \/ ReadSum(c)
           \/ (WriteSummary(c) /\ ~Returned(c)) \/ (RedeemWrite(c) /\ ~Returned(c))
           \/ (Webhook(c) /\ UNCHANGED call)
  <2>1. ~InsertIntent(c)
    BY <1>8 DEF InsertIntent, AskProvider, UpdateIntent, MarkPayments, RecordPayment, Paying, ReadSum,
      WriteSummary, RedeemWrite, Webhook
  <2>2. CASE AskProvider(c)
    <3>1. n.op # "intent" /\ k.op # "intent" /\ n.intent = k.intent /\ n.order = k.order /\ n.checkout = k.checkout
      BY <1>1, <2>2, AskMoves DEF Fields
    <3>. QED BY <1>1, <2>1, <3>1, StaysLinked
  <2>3. CASE UpdateIntent(c) \/ MarkPayments(c) \/ (RedeemWrite(c) /\ ~Returned(c))
    <3>1. n.op # "intent" /\ k.op # "intent" /\ n.intent = k.intent /\ n.order = k.order /\ n.checkout = k.checkout
      BY <1>1, <2>3, PlainMoves DEF Fields, OpTo
    <3>. QED BY <1>1, <2>1, <3>1, StaysLinked
  <2>4. CASE RecordPayment(c)
    <3>1. n.op # "intent" /\ k.op # "intent" /\ n.intent = k.intent /\ n.order = k.order /\ n.checkout = k.checkout
      BY <1>1, <2>4, RecordMoves DEF Fields, Paying
    <3>. QED BY <1>1, <2>1, <3>1, StaysLinked
  <2>5. CASE ReadSum(c)
    <3>1. n.op # "intent" /\ k.op # "intent" /\ n.intent = k.intent /\ n.order = k.order /\ n.checkout = k.checkout
      BY <1>1, <2>5, ReadMoves DEF Fields
    <3>. QED BY <1>1, <2>1, <3>1, StaysLinked
  <2>6. CASE WriteSummary(c) /\ ~Returned(c)
    <3>1. /\ n.op # "intent" /\ k.op # "intent" /\ n.order = k.order /\ n.checkout = k.checkout
          /\ n.intent = k.intent \/ n.intent = None
      BY <1>1, <2>6, WriteMoves DEF Fields, OpTo
    <3>. QED BY <1>1, <2>1, <3>1, StaysLinked
  <2>7. CASE Webhook(c) /\ UNCHANGED call
    <3>1. k.op # "intent" /\ n = k
      BY <1>1, <2>7 DEF Webhook
    <3>. QED BY <1>1, <2>1, <3>1, StaysLinked
  <2>. QED BY <1>8, <2>2, <2>3, <2>4, <2>5, <2>6, <2>7
<1>. QED BY <1>3, <1>4, <1>5, <1>6, <1>7, <1>8 DEF CardStep

LEMMA LinkNext ==
  ASSUME OneClient, ~Crashes
  PROVE  TypeInv /\ TypeInv' /\ LinkInv /\ [Next]_vars => LinkInv'
<1>. SUFFICES ASSUME TypeInv, TypeInv', LinkInv, [Next]_vars PROVE LinkInv'
  OBVIOUS
<1>1. \A p \in Payments : PaymentLinked(p)'
  BY PaymentsStayLinked
<1>2. ASSUME NEW i \in Intents, money'[i] = "none"
      PROVE  intents'[i].order = None
  <2>1. money[i] = "none" /\ intents[i].order = None
    BY <1>2, MoneyStaysKnown DEF LinkInv
  <2>2. ASSUME NEW c \in Clients, InsertIntent(c), call[c].intent = i
        PROVE  FALSE
    BY <2>1, <2>2 DEF InsertIntent, LinkInv, Linked
  <2>. QED BY <2>1, <2>2, IntentKeepsOrder
<1>3. ASSUME NEW c \in Clients
      PROVE  Linked(call[c])'
  <2>1. CASE \A d \in Clients : Aside(call[d], call'[d])
    <3>1. CASE InsertIntent(c)
      BY <3>1, CardStaysLinked DEF CardStep
    <3>2. CASE ~InsertIntent(c)
      <4>1. PICK n : n = call'[c]
        OBVIOUS
      <4>2. /\ n.op = "intent" <=> call[c].op = "intent"
            /\ \/ n.intent = None /\ n.op # "intent"
               \/ n.intent = call[c].intent /\ n.order = call[c].order
            /\ n.checkout => call[c].checkout /\ n.order = call[c].order
        BY <2>1, <4>1 DEF Aside, Busy
      <4>. QED BY <3>2, <4>1, <4>2, StaysLinked
    <3>. QED BY <3>1, <3>2
  <2>2. CASE \E d \in Clients : CardStep(d)
    BY <2>2, CardStaysLinked DEF OneClient
  <2>. QED BY <2>1, <2>2, MostAside
<1>. QED BY <1>1, <1>2, <1>3 DEF LinkInv

LEMMA LinkInit == Init => LinkInv
BY RequestAssumption DEF Init, LinkInv, Linked, PaymentLinked, Idle, NoPayment, NoIntent

-----------------------------------------------------------------------------
(* The order's summary.  Where it is not the sum of the captured payments, *)
(* the one handler is about to make it so.                                 *)
Refreshes(o) == \E c \in Clients : call[c].op \in {"sum", "summary"} /\ call[c].order = o

(* The sum of an order changes only when one of its payments does.         *)
LEMMA SummedStays ==
  ASSUME TypeInv, NEW o \in Orders,
         \A p \in Payments : payments[p].order = o \/ payments'[p].order = o =>
           /\ payments'[p].order = payments[p].order /\ payments'[p].amount = payments[p].amount
           /\ payments'[p].status = payments[p].status
  PROVE  Summed(o)' = Summed(o)
<1>1. PICK S : S = CapturedOf(o)
  OBVIOUS
<1>2. CapturedOf(o)' = S
  BY <1>1 DEF CapturedOf, PaymentsOf
<1>3. S \in SUBSET Payments /\ IsFiniteSet(S)
  BY <1>1, FiniteAssumption, FS_Subset DEF CapturedOf, PaymentsOf
<1>4. PICK f, g : f = [p \in Payments |-> payments[p].amount] /\ g = [p \in Payments |-> payments'[p].amount]
  OBVIOUS
<1>5. \A p \in S : f[p] = g[p]
  BY <1>1, <1>3, <1>4 DEF CapturedOf, PaymentsOf
<1>6. SumFunctionOnSet(f, S) = SumFunctionOnSet(g, S)
  BY <1>3, <1>5, SumSame
<1>. QED BY <1>1, <1>2, <1>4, <1>6 DEF Summed, Total

(* Marking or recording changes the sum of the handler's own order only.   *)
LEMMA SummedChanges ==
  ASSUME TypeInv, LinkInv, [Next]_vars, NEW o \in Orders
  PROVE  \/ Summed(o)' = Summed(o)
         \/ \E c \in Clients : (MarkPayments(c) \/ RecordPayment(c)) /\ call[c].order = o
<1>. PaymentsTyped
  BY DEF TypeInv, TypeOK, PaymentsTyped
<1>1. CASE UNCHANGED payments
  BY <1>1, SummedStays
<1>2. ASSUME NEW c \in Clients, MarkPayments(c), call[c].order # o
      PROVE  Summed(o)' = Summed(o)
  <2>1. call[c].intent \in Intents /\ intents[call[c].intent].order = call[c].order
    BY <1>2, RequestAssumption DEF MarkPayments, TypeInv, Equipped, LinkInv, Linked
  <2>2. ASSUME NEW p \in Payments
        PROVE  /\ payments'[p].order = payments[p].order /\ payments'[p].amount = payments[p].amount
               /\ payments[p].order = o => payments'[p] = payments[p]
    <3>1. payments'[p] = Marked(p, call[c]) /\ PaymentLinked(p)
      BY <1>2 DEF MarkPayments, LinkInv
    <3>. QED BY <1>2, <2>1, <3>1, RequestAssumption DEF Marked, PaymentsTyped, PaymentLinked
  <2>. QED BY <2>2, SummedStays
<1>3. ASSUME NEW c \in Clients, RecordPayment(c), call[c].order # o
      PROVE  Summed(o)' = Summed(o)
  <2>1. PICK q \in Payments :
          /\ payments[q].order = None
          /\ payments' = [payments EXCEPT ![q] =
               [order |-> call[c].order, intent |-> call[c].intent, amount |-> Head(call[c].todo).amount,
                status |-> RecordedStatus(call[c])]]
    BY <1>3 DEF RecordPayment
  <2>2. ASSUME NEW p \in Payments, payments[p].order = o \/ payments'[p].order = o
        PROVE  payments'[p] = payments[p]
    BY <1>3, <2>1, <2>2, RequestAssumption DEF PaymentsTyped
  <2>. QED BY <2>2, SummedStays
<1>. QED BY <1>1, <1>2, <1>3, PaymentsChange

-----------------------------------------------------------------------------
SummaryInv ==
  /\ \A o \in Orders : orders[o].paid = Summed(o) \/ Refreshes(o)
  /\ \A c \in Clients : call[c].op = "summary" => call[c].sum = Summed(call[c].order)

(* Only reading the sum leads to writing it, and only there.               *)
LEMMA SummaryGoes ==
  ASSUME TypeInv, NEW c \in Clients, CardStep(c)
  PROVE  /\ call'[c].op = "summary" => ReadSum(c)
         /\ call[c].op \in {"sum", "summary"} => ReadSum(c) \/ WriteSummary(c)
<1>. TypeOK
  BY DEF TypeInv
<1>1. CASE call[c].op \in {"sum", "summary"}
  <2>1. ReadSum(c) \/ WriteSummary(c)
    BY <1>1 DEF CardStep, Checkout, PayCard, Paying, CreateIntent, InsertIntent, Capture, AskProvider, Webhook,
      UpdateIntent, MarkPayments, RecordPayment, RedeemWrite
  <2>2. WriteSummary(c) => call'[c].op # "summary"
    BY WriteMoves, IdleHandler DEF Fields, OpTo, Returned
  <2>. QED BY <2>1, <2>2
<1>2. CASE call[c].op \notin {"sum", "summary"}
  <2>1. CASE UNCHANGED call
    BY <1>2, <2>1
  <2>2. CASE Checkout(c)
    BY <2>2, CheckoutMoves DEF Fields
  <2>3. CASE PayCard(c)
    BY <2>3, PayCardMoves DEF Fields
  <2>4. CASE CreateIntent(c)
    BY <2>4, CreateIntentMoves DEF Fields
  <2>5. CASE InsertIntent(c)
    BY <2>5, InsertMoves, IdleHandler DEF Fields, OpTo, Returned
  <2>6. CASE Capture(c)
    BY <2>6, CaptureMoves DEF Fields
  <2>7. CASE AskProvider(c)
    BY <2>7, AskMoves DEF Fields
  <2>8. CASE Webhook(c)
    BY <2>1, <2>8, WebhookMoves DEF Fields
  <2>9. CASE RecordPayment(c)
    <3>1. PICK n : n = call'[c]
      OBVIOUS
    <3>2. n.op = "sum"
      BY <2>9, <3>1, RecordMoves DEF Fields
    <3>. QED BY <1>2, <3>1, <3>2
  <2>10. CASE UpdateIntent(c) \/ MarkPayments(c) \/ RedeemWrite(c)
    BY <2>10, PlainMoves, IdleHandler DEF Fields, OpTo, Returned
  <2>11. CASE ReadSum(c) \/ WriteSummary(c)
    BY <1>2, <2>11 DEF ReadSum, WriteSummary
  <2>. QED BY <1>2, <2>2, <2>3, <2>4, <2>5, <2>6, <2>7, <2>8, <2>9, <2>10, <2>11 DEF CardStep
<1>. QED BY <1>1, <1>2

(* What an order shows as paid.                                            *)
LEMMA PaidChanges ==
  ASSUME TypeInv, [Next]_vars, NEW o \in Orders
  PROVE  \/ orders'[o].paid = orders[o].paid
         \/ ~Exists(o) /\ orders'[o].paid = 0 /\ UNCHANGED payments
         \/ \E c \in Clients : WriteSummary(c) /\ call[c].order = o /\ orders'[o].paid = call[c].sum
<1>. OrdersTyped
  BY DEF TypeInv, TypeOK, OrdersTyped
<1>1. CASE UNCHANGED orders
  BY <1>1
<1>2. ASSUME NEW c \in Clients, Checkout(c)
      PROVE  \/ orders'[o].paid = orders[o].paid
             \/ ~Exists(o) /\ orders'[o].paid = 0 /\ UNCHANGED payments
  BY <1>2 DEF Checkout, OrdersTyped
<1>3. ASSUME NEW c \in Clients, WriteSummary(c)
      PROVE  \/ orders'[o].paid = orders[o].paid
             \/ call[c].order = o /\ orders'[o].paid = call[c].sum
  BY <1>3 DEF WriteSummary, OrdersTyped
<1>4. ASSUME NEW c \in Clients, Fulfill(c) \/ CancelWrite(c) \/ FulfillDirect(c)
      PROVE  orders'[o].paid = orders[o].paid
  <2>1. PICK q, s : orders' = [orders EXCEPT ![q].status = s]
    BY <1>4 DEF Fulfill, CancelWrite, FulfillDirect
  <2>. QED BY <2>1 DEF OrdersTyped
<1>. QED BY <1>1, <1>2, <1>3, <1>4, OrdersChange

(* An order that does not exist has no payments.                           *)
LEMMA NothingSummed ==
  ASSUME LinkInv, NEW o \in Orders, ~Exists(o)
  PROVE  Summed(o) = 0
<1>1. CapturedOf(o) = {}
  BY RequestAssumption DEF CapturedOf, PaymentsOf, LinkInv, PaymentLinked
<1>. QED BY <1>1, SumEmpty DEF Summed, Total

LEMMA SummaryNext ==
  ASSUME OneClient, ~Crashes
  PROVE  TypeInv /\ LinkInv /\ SummaryInv /\ [Next]_vars => SummaryInv'
<1>. SUFFICES ASSUME TypeInv, LinkInv, SummaryInv, [Next]_vars PROVE SummaryInv'
  OBVIOUS
<1>. TypeOK
  BY DEF TypeInv
<1>1. ASSUME NEW o \in Orders
      PROVE  orders'[o].paid = Summed(o)' \/ Refreshes(o)'
  <2>1. CASE \E c \in Clients : (MarkPayments(c) \/ RecordPayment(c)) /\ call[c].order = o
    <3>1. PICK c \in Clients : (MarkPayments(c) \/ RecordPayment(c)) /\ call[c].order = o
      BY <2>1
    <3>2. call'[c].op = "sum" /\ call'[c].order = o
      BY <3>1, PlainMoves, RecordMoves DEF OpTo, Fields
    <3>. QED BY <3>2 DEF Refreshes
  <2>2. CASE Summed(o)' = Summed(o)
    <3>1. CASE ~Exists(o) /\ orders'[o].paid = 0
      BY <2>2, <3>1, NothingSummed
    <3>2. ASSUME NEW c \in Clients, WriteSummary(c), call[c].order = o, orders'[o].paid = call[c].sum
          PROVE  orders'[o].paid = Summed(o)'
      BY <2>2, <3>2 DEF WriteSummary, SummaryInv
    <3>3. ASSUME orders'[o].paid = orders[o].paid, orders[o].paid # Summed(o),
                 ~\E c \in Clients : WriteSummary(c) /\ call[c].order = o
          PROVE  Refreshes(o)'
      <4>1. PICK c \in Clients : call[c].op \in {"sum", "summary"} /\ call[c].order = o
        BY <3>3 DEF SummaryInv, Refreshes
      <4>2. CASE Aside(call[c], call'[c])
        <5>1. call'[c] = call[c]
          BY <4>1, <4>2 DEF Aside, Busy
        <5>. QED BY <4>1, <5>1 DEF Refreshes
      <4>3. CASE CardStep(c)
        <5>1. ReadSum(c)
          BY <3>3, <4>1, <4>3, SummaryGoes
        <5>2. call'[c].op = "summary" /\ call'[c].order = o
          BY <4>1, <5>1, ReadMoves DEF Fields
        <5>. QED BY <5>2 DEF Refreshes
      <4>. QED BY <4>2, <4>3, MostAside DEF OneClient
    <3>4. CASE \E c \in Clients : WriteSummary(c) /\ call[c].order = o
      <4>1. PICK c \in Clients : WriteSummary(c) /\ call[c].order = o
        BY <3>4
      <4>2. orders'[o].paid = call[c].sum
        BY <4>1 DEF WriteSummary, TypeOK
      <4>. QED BY <3>2, <4>1, <4>2
    <3>. QED BY <2>2, <3>1, <3>2, <3>3, <3>4, PaidChanges
  <2>. QED BY <2>1, <2>2, SummedChanges
<1>2. ASSUME NEW c \in Clients, call'[c].op = "summary"
      PROVE  call'[c].sum = Summed(call[c].order)' /\ call'[c].order = call[c].order
  <2>1. CASE Aside(call[c], call'[c])
    <3>1. call'[c] = call[c]
      BY <1>2, <2>1 DEF Aside, Busy
    <3>2. call[c].op = "summary" /\ call[c].order \in Orders /\ call[c].sum = Summed(call[c].order)
      BY <1>2, <3>1 DEF SummaryInv, TypeInv, Equipped
    <3>3. PICK o \in Orders : o = call[c].order
      BY <3>2
    <3>4. Summed(o)' = Summed(o)
      <4>1. ASSUME NEW d \in Clients, MarkPayments(d) \/ RecordPayment(d), call[d].order = o
            PROVE  FALSE
        BY <3>2, <4>1 DEF OneClient, MarkPayments, RecordPayment, Paying
      <4>. QED BY <4>1, SummedChanges
    <3>. QED BY <3>1, <3>2, <3>3, <3>4
  <2>2. CASE CardStep(c)
    <3>1. ReadSum(c)
      BY <1>2, <2>2, SummaryGoes
    <3>2. call[c].order \in Orders /\ UNCHANGED payments
      BY <3>1 DEF ReadSum, TypeInv, Equipped
    <3>3. PICK o \in Orders : o = call[c].order
      BY <3>2
    <3>4. Summed(o)' = Summed(o)
      BY <3>2, SummedStays
    <3>5. call'[c].sum = Summed(o) /\ call'[c].order = o
      BY <3>1, <3>3, ReadMoves DEF Fields
    <3>. QED BY <3>3, <3>4, <3>5
  <2>. QED BY <2>1, <2>2, MostAside DEF OneClient
<1>3. ASSUME NEW c \in Clients, call'[c].op = "summary"
      PROVE  call'[c].sum = Summed(call[c].order)'
  BY <1>2, <1>3
<1>. QED BY <1>1, <1>3 DEF SummaryInv

LEMMA SummaryInit == Init => SummaryInv
<1>. SUFFICES ASSUME Init PROVE SummaryInv
  OBVIOUS
<1>1. ASSUME NEW o \in Orders
      PROVE  orders[o].paid = Summed(o)
  <2>1. LinkInv /\ ~Exists(o) /\ orders[o].paid = 0
    BY LinkInit DEF Init, Exists, NoOrder
  <2>. QED BY <2>1, NothingSummed
<1>. QED BY <1>1 DEF SummaryInv, Init, Idle

(* At rest an order's paid amount is the sum of its captured payments,     *)
(* when requests come one at a time and no statement fails.                *)
THEOREM PaidWasCaptured == OneClient /\ ~Crashes => (Spec => []PaidIsCaptured)
<1>. SUFFICES ASSUME OneClient, ~Crashes PROVE Spec => []PaidIsCaptured
  OBVIOUS
<1>1. Init => TypeInv /\ LinkInv /\ SummaryInv
  BY TypeInit, LinkInit, SummaryInit
<1>2. TypeInv /\ LinkInv /\ SummaryInv /\ [Next]_vars => (TypeInv /\ LinkInv /\ SummaryInv)'
  BY TypeNext, LinkNext, SummaryNext
<1>3. SummaryInv => PaidIsCaptured
  BY DEF SummaryInv, Refreshes, PaidIsCaptured, Rest, Summed
<1>. QED BY <1>1, <1>2, <1>3, PTL DEF Spec

-----------------------------------------------------------------------------
(* What a handler knows of its intent's status, from the provider's answer *)
(* to the payment it records.                                              *)
InStep(k) ==
  /\ k.op = "mark" => intents[k.intent].status = Written(k)
  /\ k.op \in {"update", "mark"} /\ k.then = "record" => k.captured = k.status
  /\ k.op \in {"sum", "summary"} /\ k.then = "record" => k.captured = intents[k.intent].status
  /\ k.op = "record" /\ k.intent # None => RecordedStatus(k) = intents[k.intent].status

(* A payment that does not follow its intent is about to be marked.        *)
Marking(i) == \E c \in Clients : call[c].op = "mark" /\ call[c].intent = i
Follows(p) ==
  payments[p].intent # None =>
    payments[p].status = intents[payments[p].intent].status \/ Marking(payments[p].intent)

FollowInv == (\A p \in Payments : Follows(p)) /\ \A c \in Clients : InStep(call[c])

LEMMA HandlerSound ==
  ASSUME SoundInv, NEW c \in Clients
  PROVE  Sound(call[c], money)
BY DEF SoundInv, HandlersSound

(* What a card's payment is recorded with.                                 *)
LEMMA RecordsStatus ==
  ASSUME SoundInv, TypeInv, FollowInv, NEW c \in Clients, CardStep(c), call'[c].op = "record",
         call'[c].intent # None
  PROVE  RecordedStatus(call'[c]) = intents'[call'[c].intent].status
<1>. TypeOK
  BY DEF TypeInv
<1>1. PICK k, n : k = call[c] /\ n = call'[c]
  OBVIOUS
<1>2. Sound(k, money) /\ InStep(k) /\ Equipped(k) /\ k \in Handler
  BY <1>1, HandlerSound DEF FollowInv, TypeInv, TypeOK
<1>3. CASE InsertIntent(c)
  <2>1. /\ k.op = "intent" /\ k.checkout /\ ~Head(k.todo).capture
        /\ n.captured = k.captured /\ n.todo = k.todo /\ n.intent = k.intent
        /\ intents' = [intents EXCEPT ![k.intent] =
              [order |-> k.order, amount |-> Head(k.todo).amount, status |-> "requires_capture"]]
    BY <1>1, <1>3, InsertMoves, IdleHandler DEF Fields, OpTo, Returned
  <2>2. k.intent \in Intents /\ intents'[k.intent].status = "requires_capture"
    BY <1>2, <2>1 DEF Equipped, TypeOK
  <2>3. CardFirst(k.todo) /\ Alike(k.todo) /\ (k.captured # None => AllCapture(k.todo)) /\ k.todo \in Seq(Tender)
    BY <1>2, <2>1 DEF Sound, OnCard, Truthful, Handler
  <2>4. k.captured = None
    BY <2>1, <2>3, CaptureAll
  <2>5. RecordedStatus(n) = "requires_capture"
    BY <2>1, <2>3, <2>4 DEF RecordedStatus, CardFirst
  <2>. QED BY <1>1, <2>1, <2>2, <2>5
<1>4. CASE WriteSummary(c)
  <2>1. /\ k.op = "summary" /\ k.then = "record"
        /\ n.captured = k.captured /\ n.todo = k.todo /\ n.intent = k.intent
    BY <1>1, <1>4, WriteMoves, IdleHandler DEF Fields, OpTo, Returned
  <2>2. CardFirst(k.todo) /\ k.captured = intents[k.intent].status
    BY <1>2, <2>1 DEF Sound, OnCard, Refreshing, InStep
  <2>3. UNCHANGED intents
    BY <1>4 DEF WriteSummary
  <2>4. k.captured # None
    <3>1. k.intent \in Intents
      BY <1>1, <1>2, <2>1 DEF Handler
    <3>2. intents[k.intent].status \in Statuses
      BY <3>1 DEF TypeOK
    <3>. QED BY <2>2, <3>2, RequestAssumption
  <2>5. RecordedStatus(n) = k.captured
    BY <2>1, <2>2, <2>4 DEF RecordedStatus, CardFirst
  <2>. QED BY <1>1, <2>1, <2>2, <2>3, <2>5
<1>5. CASE RedeemWrite(c)
  <2>1. k.op = "redeem" /\ n.intent = k.intent
    BY <1>1, <1>5, PlainMoves, IdleHandler DEF Fields, OpTo, Returned
  <2>. QED BY <1>1, <1>2, <2>1 DEF Sound, OnCard
<1>6. CASE ~(InsertIntent(c) \/ WriteSummary(c) \/ RedeemWrite(c))
  <2>. SUFFICES n.op # "record"
    BY <1>1
  <2>1. CASE UNCHANGED call
    <3>1. CardStep(c) => call[c].op # "record" \/ RecordPayment(c)
      BY <1>6 DEF CardStep, Checkout, PayCard, Paying, CreateIntent, Capture, AskProvider, Webhook,
        UpdateIntent, MarkPayments, ReadSum
    <3>2. RecordPayment(c) => n.op = "sum"
      BY <1>1, RecordMoves DEF Fields
    <3>. QED BY <1>1, <2>1, <3>1, <3>2
  <2>2. CASE Checkout(c)
    BY <1>1, <2>2, CheckoutMoves DEF Fields
  <2>3. CASE PayCard(c)
    BY <1>1, <2>3, PayCardMoves DEF Fields
  <2>4. CASE CreateIntent(c)
    BY <1>1, <2>4, CreateIntentMoves DEF Fields
  <2>5. CASE Capture(c)
    BY <1>1, <2>5, CaptureMoves DEF Fields
  <2>6. CASE AskProvider(c)
    BY <1>1, <2>6, AskMoves DEF Fields
  <2>7. CASE Webhook(c)
    BY <1>1, <2>1, <2>7, WebhookMoves DEF Fields
  <2>8. CASE RecordPayment(c)
    BY <1>1, <2>8, RecordMoves DEF Fields
  <2>9. CASE UpdateIntent(c) \/ MarkPayments(c)
    BY <1>1, <2>9, PlainMoves DEF Fields, OpTo
  <2>10. CASE ReadSum(c)
    BY <1>1, <2>10, ReadMoves DEF Fields
  <2>. QED BY <1>6, <2>2, <2>3, <2>4, <2>5, <2>6, <2>7, <2>8, <2>9, <2>10 DEF CardStep
<1>. QED BY <1>3, <1>4, <1>5, <1>6

LEMMA CardInStep ==
  ASSUME SoundInv, TypeInv, FollowInv, NEW c \in Clients, CardStep(c)
  PROVE  InStep(call[c])'
<1>. TypeOK
  BY DEF TypeInv
<1>1. PICK k, n : k = call[c] /\ n = call'[c]
  OBVIOUS
<1>2. InStep(k) /\ Equipped(k) /\ k \in Handler
  BY <1>1 DEF FollowInv, TypeInv, TypeOK
<1>. DEFINE Settles == n.op \notin {"update", "mark", "sum", "summary"}
<1>3. ASSUME Settles
      PROVE  InStep(n)'
  <2>1. n.op = "record" /\ n.intent # None => RecordedStatus(n) = intents'[n.intent].status
    BY <1>1, RecordsStatus
  <2>. QED BY <1>3, <2>1 DEF InStep, RecordedStatus
<1>4. CASE \/ Checkout(c) \/ PayCard(c) \/ CreateIntent(c) \/ Capture(c) \/ InsertIntent(c)
           \/ WriteSummary(c) \/ RedeemWrite(c) \/ (Webhook(c) /\ UNCHANGED call)
  <2>1. CASE Checkout(c)
    BY <1>1, <1>3, <2>1, CheckoutMoves DEF Fields
  <2>2. CASE PayCard(c)
    BY <1>1, <1>3, <2>2, PayCardMoves DEF Fields
  <2>3. CASE CreateIntent(c)
    BY <1>1, <1>3, <2>3, CreateIntentMoves DEF Fields
  <2>4. CASE Capture(c)
    BY <1>1, <1>3, <2>4, CaptureMoves DEF Fields
  <2>5. CASE InsertIntent(c)
    BY <1>1, <1>3, <2>5, InsertMoves, IdleHandler DEF Fields, OpTo, Returned
  <2>6. CASE WriteSummary(c)
    BY <1>1, <1>3, <2>6, WriteMoves, IdleHandler DEF Fields, OpTo, Returned
  <2>7. CASE RedeemWrite(c)
    BY <1>1, <1>3, <2>7, PlainMoves, IdleHandler DEF Fields, OpTo, Returned
  <2>8. CASE Webhook(c) /\ UNCHANGED call
    BY <1>1, <1>3, <2>8 DEF Webhook
  <2>. QED BY <1>4, <2>1, <2>2, <2>3, <2>4, <2>5, <2>6, <2>7, <2>8
<1>5. CASE AskProvider(c)
  <2>1. n.op = "update" /\ n.captured = n.status
    BY <1>1, <1>5, AskMoves DEF Fields
  <2>. QED BY <1>1, <2>1 DEF InStep
<1>6. CASE Webhook(c) /\ ~UNCHANGED call
  <2>1. n.op = "update" /\ n.then = "answer"
    BY <1>1, <1>6, WebhookMoves DEF Fields
  <2>. QED BY <1>1, <2>1 DEF InStep
<1>7. CASE UpdateIntent(c)
  <2>1. /\ k.op = "update" /\ n.op = "mark" /\ n.then = k.then /\ n.captured = k.captured
        /\ n.status = k.status /\ n.intent = k.intent
    BY <1>1, <1>7, PlainMoves DEF Fields, OpTo
  <2>2. k.intent \in Intents /\ intents' = [intents EXCEPT ![k.intent].status = Written(k)]
    BY <1>1, <1>2, <1>7, <2>1 DEF UpdateIntent, Equipped
  <2>3. intents'[n.intent].status = Written(n)
    BY <2>1, <2>2 DEF TypeOK, Written
  <2>4. n.then = "record" => n.captured = n.status
    BY <1>2, <2>1 DEF InStep
  <2>. QED BY <1>1, <2>1, <2>3, <2>4 DEF InStep
<1>8. CASE MarkPayments(c)
  <2>1. /\ k.op = "mark" /\ n.op = "sum" /\ n.then = k.then /\ n.captured = k.captured /\ n.intent = k.intent
        /\ UNCHANGED intents
    BY <1>1, <1>8, PlainMoves DEF Fields, OpTo, MarkPayments
  <2>2. n.then = "record" => n.captured = intents'[n.intent].status
    BY <1>2, <2>1 DEF InStep, Written
  <2>. QED BY <1>1, <2>1, <2>2 DEF InStep
<1>9. CASE RecordPayment(c)
  <2>1. n.op = "sum" /\ n.then = "pay"
    BY <1>1, <1>9, RecordMoves DEF Fields
  <2>. QED BY <1>1, <2>1 DEF InStep
<1>10. CASE ReadSum(c)
  <2>1. /\ k.op = "sum" /\ n.op = "summary" /\ n.then = k.then /\ n.captured = k.captured /\ n.intent = k.intent
        /\ UNCHANGED intents
    BY <1>1, <1>10, ReadMoves DEF Fields, ReadSum
  <2>2. n.then = "record" => n.captured = intents'[n.intent].status
    BY <1>2, <2>1 DEF InStep
  <2>. QED BY <1>1, <2>1, <2>2 DEF InStep
<1>. QED BY <1>4, <1>5, <1>6, <1>7, <1>8, <1>9, <1>10 DEF CardStep

(* A step that follows no card leaves intents, payments and what a handler *)
(* knows of them.                                                          *)
LEMMA StaysInStep ==
  ASSUME TypeInv, FollowInv, [Next]_vars, ~\E c \in Clients : CardStep(c),
         \A c \in Clients : Aside(call[c], call'[c])
  PROVE  FollowInv'
<1>1. UNCHANGED <<intents, payments>>
  BY IntentsChange, PaymentsChange DEF CardStep
<1>2. ASSUME NEW c \in Clients
      PROVE  InStep(call[c])' /\ (call[c].op = "mark" => call'[c] = call[c])
  <2>1. PICK k, n : k = call[c] /\ n = call'[c]
    OBVIOUS
  <2>2. InStep(k) /\ Aside(k, n)
    BY <2>1 DEF FollowInv
  <2>3. InStep(n)'
    BY <1>1, <2>2 DEF InStep, Aside, Busy, RecordedStatus
  <2>. QED BY <2>1, <2>2, <2>3 DEF Aside, Busy
<1>3. ASSUME NEW p \in Payments
      PROVE  Follows(p)'
  <2>1. Follows(p)
    BY DEF FollowInv
  <2>2. ASSUME NEW i, Marking(i)
        PROVE  Marking(i)'
    BY <1>2, <2>2 DEF Marking
  <2>. QED BY <1>1, <2>1, <2>2 DEF Follows
<1>. QED BY <1>2, <1>3 DEF FollowInv

(* A marked payment takes the status its intent has.                       *)
LEMMA MarkingFollows ==
  ASSUME TypeInv, FollowInv, OneClient, NEW c \in Clients, MarkPayments(c), NEW p \in Payments
  PROVE  Follows(p)'
<1>. TypeOK
  BY DEF TypeInv
<1>1. PICK k : k = call[c]
  OBVIOUS
<1>2. /\ k.op = "mark" /\ k.intent \in Intents /\ intents[k.intent].status = Written(k) /\ UNCHANGED intents
      /\ payments'[p] = Marked(p, k)
  BY <1>1 DEF MarkPayments, TypeInv, Equipped, FollowInv, InStep
<1>3. payments[p] \in [order : Orders \cup {None}, intent : Intents \cup {None}, amount : Nat, status : Statuses]
  BY DEF TypeOK
<1>4. CASE payments[p].intent = k.intent
  <2>1. payments'[p].intent = k.intent /\ payments'[p].status = Written(k)
    BY <1>2, <1>3, <1>4 DEF Marked
  <2>. QED BY <1>2, <2>1 DEF Follows
<1>5. CASE payments[p].intent # k.intent
  <2>1. payments'[p] = payments[p]
    BY <1>2, <1>5 DEF Marked
  <2>2. ~Marking(payments[p].intent)
    BY <1>1, <1>5 DEF Marking, OneClient
  <2>. QED BY <1>2, <2>1, <2>2 DEF Follows, FollowInv
<1>. QED BY <1>4, <1>5

(* A payment is recorded with the status its intent has.                   *)
LEMMA RecordingFollows ==
  ASSUME SoundInv, TypeInv, FollowInv, OneClient, NEW c \in Clients, RecordPayment(c), NEW p \in Payments
  PROVE  Follows(p)'
<1>. TypeOK
  BY DEF TypeInv
<1>1. PICK k : k = call[c]
  OBVIOUS
<1>2. Sound(k, money) /\ InStep(k) /\ UNCHANGED intents /\ k.op # "mark"
  BY <1>1, HandlerSound DEF FollowInv, RecordPayment, Paying
<1>3. PICK q \in Payments : payments' = [payments EXCEPT ![q] =
        [order |-> k.order, intent |-> k.intent, amount |-> Head(k.todo).amount, status |-> RecordedStatus(k)]]
  BY <1>1 DEF RecordPayment
<1>4. CASE q = p
  <2>1. payments'[p].intent = k.intent /\ payments'[p].status = RecordedStatus(k)
    BY <1>3, <1>4 DEF TypeOK
  <2>2. k.intent # None => k.op = "record"
    BY <1>1, <1>2 DEF RecordPayment, Paying, Sound, OnCard
  <2>. QED BY <1>2, <2>1, <2>2 DEF Follows, InStep
<1>5. CASE q # p
  <2>1. payments'[p] = payments[p]
    BY <1>3, <1>5 DEF TypeOK
  <2>2. ~Marking(payments[p].intent)
    BY <1>1, <1>2 DEF Marking, OneClient
  <2>. QED BY <1>2, <2>1, <2>2 DEF Follows, FollowInv
<1>. QED BY <1>4, <1>5

(* An intent that changes is new, or about to mark its payments.           *)
LEMMA ChangingFollows ==
  ASSUME TypeInv, LinkInv, FollowInv, OneClient, NEW c \in Clients, InsertIntent(c) \/ UpdateIntent(c),
         NEW p \in Payments
  PROVE  Follows(p)'
<1>. TypeOK
  BY DEF TypeInv
<1>1. PICK k : k = call[c]
  OBVIOUS
<1>2. UNCHANGED payments /\ k.op \in {"intent", "update"} /\ k.intent \in Intents
  BY <1>1 DEF InsertIntent, UpdateIntent, TypeInv, Equipped
<1>3. CASE payments[p].intent # k.intent
  <2>1. ~Marking(payments[p].intent)
    BY <1>1, <1>2 DEF Marking, OneClient
  <2>2. payments[p].intent # None => intents'[payments[p].intent] = intents[payments[p].intent]
    BY <1>1, <1>3 DEF InsertIntent, UpdateIntent, TypeOK
  <2>. QED BY <1>2, <2>1, <2>2 DEF Follows, FollowInv
<1>4. CASE payments[p].intent = k.intent
  <2>1. UpdateIntent(c)
    BY <1>1, <1>4, NewIntentIsNew DEF InsertIntent
  <2>2. call'[c].op = "mark" /\ call'[c].intent = k.intent
    BY <1>1, <2>1, PlainMoves DEF OpTo, Fields
  <2>. QED BY <1>2, <1>4, <2>2 DEF Follows, Marking
<1>. QED BY <1>3, <1>4

LEMMA FollowNext ==
  ASSUME OneClient, ~Crashes
  PROVE  TypeInv /\ SoundInv /\ LinkInv /\ FollowInv /\ [Next]_vars => FollowInv'
<1>. SUFFICES ASSUME TypeInv, SoundInv, LinkInv, FollowInv, [Next]_vars PROVE FollowInv'
  OBVIOUS
<1>1. CASE ~\E c \in Clients : CardStep(c)
  BY <1>1, MostAside, StaysInStep
<1>2. CASE \E c \in Clients : CardStep(c)
  <2>1. \A c \in Clients : InStep(call[c])'
    BY <1>2, CardInStep DEF OneClient
  <2>2. ASSUME NEW p \in Payments
        PROVE  Follows(p)'
    <3>1. CASE \E c \in Clients : MarkPayments(c) \/ RecordPayment(c) \/ InsertIntent(c) \/ UpdateIntent(c)
      BY <3>1, MarkingFollows, RecordingFollows, ChangingFollows
    <3>2. CASE ~\E c \in Clients : MarkPayments(c) \/ RecordPayment(c) \/ InsertIntent(c) \/ UpdateIntent(c)
      <4>1. UNCHANGED <<intents, payments>>
        BY <3>2, IntentsChange, PaymentsChange
      <4>2. ~Marking(payments[p].intent)
        <5>1. PICK c \in Clients : CardStep(c)
          BY <1>2
        <5>2. call[c].op # "mark"
          BY <3>2, <5>1 DEF CardStep, Checkout, PayCard, Paying, CreateIntent, Capture, AskProvider, Webhook,
            ReadSum, WriteSummary, RedeemWrite
        <5>. QED BY <5>2 DEF Marking, OneClient
      <4>. QED BY <4>1, <4>2 DEF Follows, FollowInv
    <3>. QED BY <3>1, <3>2
  <2>. QED BY <2>1, <2>2 DEF FollowInv
<1>. QED BY <1>1, <1>2

LEMMA FollowInit == Init => FollowInv
BY DEF Init, FollowInv, Follows, InStep, Idle, NoPayment

(* At rest every payment has the status of its intent, when requests come  *)
(* one at a time, no statement fails and the cards of a request agree on   *)
(* being captured at once.                                                 *)
THEOREM PaymentsFollowed ==
  OneClient /\ ~Crashes /\ UniformCapture => (Spec => []PaymentsFollowIntents)
<1>. SUFFICES ASSUME OneClient, ~Crashes, UniformCapture PROVE Spec => []PaymentsFollowIntents
  OBVIOUS
<1>. DEFINE Inv == TypeInv /\ SoundInv /\ LinkInv /\ FollowInv
<1>1. Init => Inv
  BY TypeInit, SoundInit, LinkInit, FollowInit
<1>2. Inv /\ [Next]_vars => Inv'
  BY TypeNext, SoundNext, LinkNext, FollowNext
<1>3. Inv => PaymentsFollowIntents
  BY DEF FollowInv, Follows, Marking, PaymentsFollowIntents, Rest
<1>. QED BY <1>1, <1>2, <1>3, PTL DEF Spec

-----------------------------------------------------------------------------
(* The webhooks of an intent, the last of which says how it stands with    *)
(* the provider.                                                           *)
Event(i, s) == [intent |-> i, status |-> s]
Pending(i) == \E e \in events : e.intent = i

(* How an intent may stand once a webhook has been sent.                   *)
Since(s) ==
  CASE s = "failed" -> {"failed", "captured", "refunded"}
    [] s = "captured" -> {"captured", "refunded"}
    [] s = "refunded" -> {"refunded"}

(* No earlier webhook of the intent is left.                               *)
Earliest(i, s) ==
  /\ s # "failed" => Event(i, "failed") \notin events
  /\ s = "refunded" => Event(i, "captured") \notin events

(* An intent's status says how it stands, a misread failure aside.         *)
Matches(i, s) ==
  /\ money[i] = "captured" => s = "captured"
  /\ s = "captured" => money[i] = "captured" \/ MisreadFailure(i)

(* What a handler holds of its intent: the provider's last word, unless a  *)
(* webhook with a later one is on its way, or the webhook it answers.      *)
Tells(k) ==
  LET i == k.intent IN
  /\ k.op = "intent" => Pending(i) \/ money[i] = "pending"
  /\ k.op = "ask" => k.then # "answer"
  /\ k.op = "update" /\ k.then # "answer" => Pending(i) \/ Matches(i, k.status)
  /\ k.op \in {"update", "mark", "sum", "summary"} /\ k.then = "answer" =>
       Event(i, k.status) \in events /\ Earliest(i, k.status)
  /\ k.op \in {"mark", "sum", "summary"} /\ k.then = "answer" => intents[i].status = Written(k)

Opening(i) == \E c \in Clients : call[c].op = "intent" /\ call[c].intent = i
Agrees(i) ==
  /\ Pending(i) => Event(i, money[i]) \in events
  /\ intents[i].order # None /\ ~Pending(i) => Matches(i, intents[i].status)
  /\ money[i] # "none" => intents[i].order # None \/ Opening(i)

ProviderInv ==
  /\ \A i \in Intents : Agrees(i)
  /\ \A e \in events : money[e.intent] \in Since(e.status)
  /\ \A c \in Clients : Tells(call[c])

(* The provider's steps.                                                   *)
LEMMA BecomesAgrees ==
  ASSUME TypeInv, ProviderInv, InOrder, NEW i \in Intents, NEW s \in {"captured", "failed", "refunded"},
         Becomes(i, s), UNCHANGED <<intents, call>>,
         \/ money[i] = "pending"
         \/ money[i] = "failed" /\ s = "captured"
         \/ money[i] = "captured" /\ s = "refunded" /\ \A c \in Clients : call[c].op = "idle"
  PROVE  ProviderInv'
<1>1. /\ money \in [Intents -> Moneys] /\ money' = [money EXCEPT ![i] = s]
      /\ events' = events \cup {Event(i, s)} /\ events \subseteq Webhooks
  BY DEF TypeInv, TypeOK, Becomes, Event, Moneys
<1>2. Event(i, s).intent = i /\ Event(i, s).status = s
  BY DEF Event
<1>3. ASSUME NEW e \in events
      PROVE  e.intent \in Intents /\ e.status \in {"captured", "failed", "refunded"} /\ e = Event(e.intent, e.status)
  BY <1>1 DEF Webhooks, Event
<1>4. \A e \in events' : money'[e.intent] \in Since(e.status)
  <2>1. s \in Since(s)
    BY DEF Since
  <2>2. ASSUME NEW e \in events
        PROVE  money'[e.intent] \in Since(e.status)
    BY <1>1, <1>3, <2>2 DEF ProviderInv, Since
  <2>. QED BY <1>1, <1>2, <2>1, <2>2
<1>5. ASSUME NEW j \in Intents
      PROVE  Agrees(j)'
  <2>1. Agrees(j)
    BY DEF ProviderInv
  <2>2. CASE j = i
    <3>1. Pending(j)' /\ Event(j, money[j])' \in events' /\ money[i] # "none"
      BY <1>1, <1>2, <2>2 DEF Pending, Event
    <3>. QED BY <2>1, <2>2, <3>1 DEF Agrees, Opening
  <2>3. CASE j # i
    <3>1. money'[j] = money[j] /\ (Pending(j)' <=> Pending(j))
      BY <1>1, <1>2, <2>3 DEF Pending
    <3>. QED BY <1>1, <2>1, <3>1 DEF Agrees, Opening, Event, Matches, MisreadFailure
  <2>. QED BY <2>2, <2>3
<1>6. ASSUME NEW c \in Clients
      PROVE  Tells(call[c])'
  <2>1. PICK k : k = call[c] /\ k = call'[c]
    OBVIOUS
  <2>2. Tells(k) /\ Equipped(k)
    BY <2>1 DEF ProviderInv, TypeInv
  <2>3. \A j : Pending(j) => Pending(j)'
    BY <1>1 DEF Pending
  <2>4. \A j : j = i \/ money'[j] = money[j] \/ j \notin Intents
    BY <1>1
  <2>5. Pending(i)'
    BY <1>1, <1>2 DEF Pending
  <2>6. CASE k.op \in {"intent", "ask", "update"} /\ (k.op # "update" \/ k.then # "answer")
    BY <2>1, <2>2, <2>3, <2>4, <2>5, <2>6 DEF Tells, Equipped, Matches, MisreadFailure
  <2>7. CASE k.op \in {"update", "mark", "sum", "summary"} /\ k.then = "answer"
    <3>1. Event(k.intent, k.status) \in events /\ Earliest(k.intent, k.status)
      BY <2>2, <2>7 DEF Tells
    <3>2. money[k.intent] \in Since(k.status) /\ k.status \in {"captured", "failed", "refunded"}
      BY <1>3, <3>1 DEF ProviderInv, Event
    <3>3. Earliest(k.intent, k.status)'
      BY <1>1, <1>2, <2>1, <2>7, <3>1, <3>2 DEF Earliest, Since, Event
    <3>. QED BY <1>1, <2>1, <2>2, <2>7, <3>1, <3>3 DEF Tells, Event
  <2>. QED BY <2>1, <2>6, <2>7 DEF Tells
<1>. QED BY <1>4, <1>5, <1>6 DEF ProviderInv

(* A step that leaves the provider and the intents alone.                  *)
LEMMA QuietAgrees ==
  ASSUME ProviderInv, UNCHANGED <<money, events, intents>>,
         \A c \in Clients : Tells(call'[c]),
         \A c \in Clients : call[c].op = "intent" => call'[c] = call[c]
  PROVE  ProviderInv'
<1>1. \A c \in Clients : Tells(call[c])'
  BY DEF Tells, Pending, Event, Earliest, Matches, MisreadFailure
<1>2. ASSUME NEW i \in Intents
      PROVE  Agrees(i)'
  <2>1. Opening(i) => Opening(i)'
    BY DEF Opening
  <2>. QED BY <2>1 DEF Agrees, ProviderInv, Pending, Event, Matches, MisreadFailure
<1>. QED BY <1>1, <1>2 DEF ProviderInv

LEMMA AsideAgrees ==
  ASSUME ProviderInv, [Next]_vars, ~\E c \in Clients : CardStep(c), UNCHANGED <<money, events>>,
         \A c \in Clients : Aside(call[c], call'[c])
  PROVE  ProviderInv'
<1>1. UNCHANGED intents
  BY IntentsChange DEF CardStep
<1>2. \A c \in Clients : Tells(call'[c]) /\ (call[c].op = "intent" => call'[c] = call[c])
  BY DEF Aside, Busy, Tells, ProviderInv
<1>. QED BY <1>1, <1>2, QuietAgrees

LEMMA QuietCardAgrees ==
  ASSUME TypeInv, ProviderInv, OneClient, NEW c \in Clients,
         \/ Checkout(c) \/ Capture(c) \/ AskProvider(c) \/ MarkPayments(c) \/ RecordPayment(c)
         \/ ReadSum(c) \/ RedeemWrite(c)
  PROVE  ProviderInv'
<1>. TypeOK
  BY DEF TypeInv
<1>1. PICK k, n : k = call[c] /\ n = call'[c]
  OBVIOUS
<1>2. Tells(k)
  BY <1>1 DEF ProviderInv
<1>3. UNCHANGED <<money, events, intents>> /\ k.op # "intent"
  BY <1>1 DEF Checkout, Capture, AskProvider, MarkPayments, RecordPayment, Paying, ReadSum, RedeemWrite, provider
<1>. SUFFICES Tells(n)
  <2>1. \A d \in Clients : d = c
    BY DEF OneClient
  <2>. QED BY <1>1, <1>3, <2>1, QuietAgrees
<1>4. CASE Checkout(c)
  BY <1>1, <1>4, CheckoutMoves DEF Fields, Tells
<1>5. CASE Capture(c)
  BY <1>1, <1>5, CaptureMoves DEF Fields, Tells
<1>6. CASE AskProvider(c)
  <2>1. n.op = "update" /\ n.intent = k.intent /\ n.status = Reported(money[k.intent]) /\ n.then = k.then /\ k.op = "ask"
    BY <1>1, <1>6, AskMoves DEF Fields
  <2>2. n.then # "answer" /\ Matches(n.intent, n.status)
    BY <1>2, <2>1 DEF Tells, Reported, Matches
  <2>. QED BY <1>1, <2>1, <2>2 DEF Tells
<1>7. CASE MarkPayments(c)
  <2>1. n.op = "sum" /\ n.intent = k.intent /\ n.status = k.status /\ n.then = k.then /\ k.op = "mark"
    BY <1>1, <1>7, PlainMoves DEF Fields, OpTo
  <2>. QED BY <1>1, <1>2, <2>1 DEF Tells, Written
<1>8. CASE RecordPayment(c)
  <2>1. n.op = "sum" /\ n.then = "pay"
    BY <1>1, <1>8, RecordMoves DEF Fields
  <2>. QED BY <1>1, <2>1 DEF Tells
<1>9. CASE ReadSum(c)
  <2>1. n.op = "summary" /\ n.intent = k.intent /\ n.status = k.status /\ n.then = k.then /\ k.op = "sum"
    BY <1>1, <1>9, ReadMoves DEF Fields
  <2>. QED BY <1>1, <1>2, <2>1 DEF Tells, Written
<1>10. CASE RedeemWrite(c)
  BY <1>1, <1>10, PlainMoves, IdleHandler DEF Fields, OpTo, Returned, Tells
<1>. QED BY <1>4, <1>5, <1>6, <1>7, <1>8, <1>9, <1>10

(* A new reference: nothing has been said of it.                           *)
LEMMA OpeningAgrees ==
  ASSUME TypeInv, LinkInv, ProviderInv, OneClient, NEW c \in Clients, PayCard(c) \/ CreateIntent(c)
  PROVE  ProviderInv'
<1>. TypeOK
  BY DEF TypeInv
<1>1. PICK n : n = call'[c]
  OBVIOUS
<1>2. PICK i \in Intents :
        /\ money[i] = "none" /\ money' = [money EXCEPT ![i] = "pending"]
        /\ n.op = "intent" /\ n.intent = i
  BY <1>1, PayCardMoves, CreateIntentMoves DEF Fields
<1>3. UNCHANGED <<intents, events>> /\ call[c].op # "intent"
  BY DEF PayCard, Paying, CreateIntent, OpenIntent
<1>4. \A j \in Intents : j # i => money'[j] = money[j]
  BY <1>2
<1>5. money'[i] = "pending"
  BY <1>2 DEF TypeOK
<1>6. ASSUME NEW e \in events
      PROVE  e.intent \in Intents /\ e.intent # i /\ e.status \in {"captured", "failed", "refunded"}
  BY <1>2 DEF TypeOK, Webhooks, ProviderInv, Since
<1>7. \A e \in events' : money'[e.intent] \in Since(e.status)
  BY <1>3, <1>4, <1>6 DEF ProviderInv
<1>8. ASSUME NEW j \in Intents
      PROVE  Agrees(j)'
  <2>1. Agrees(j) /\ (Pending(j)' <=> Pending(j)) /\ ~Opening(j)
    BY <1>3 DEF ProviderInv, Pending, Opening, OneClient
  <2>2. CASE j = i
    <3>1. ~Pending(j) /\ intents[j].order = None
      BY <1>2, <1>6, <2>2 DEF Pending, LinkInv
    <3>2. Opening(j)'
      BY <1>1, <1>2, <2>2 DEF Opening
    <3>. QED BY <1>3, <2>1, <3>1, <3>2 DEF Agrees
  <2>3. CASE j # i
    BY <1>3, <1>4, <2>1, <2>3 DEF Agrees, Event, Matches, MisreadFailure
  <2>. QED BY <2>2, <2>3
<1>9. Tells(call[c])'
  BY <1>1, <1>2, <1>5 DEF Tells
<1>. QED BY <1>7, <1>8, <1>9 DEF ProviderInv, OneClient

(* The intents written: the new one, or what the provider was found or     *)
(* reported to say.                                                        *)
LEMMA WritingAgrees ==
  ASSUME TypeInv, ProviderInv, OneClient, NEW c \in Clients, InsertIntent(c) \/ UpdateIntent(c)
  PROVE  ProviderInv'
<1>. TypeOK
  BY DEF TypeInv
<1>1. PICK k, n : k = call[c] /\ n = call'[c]
  OBVIOUS
<1>2. UNCHANGED <<money, events>> /\ k.intent \in Intents /\ k.order \in Orders /\ Tells(k)
  BY <1>1 DEF InsertIntent, UpdateIntent, provider, TypeInv, Equipped, ProviderInv
<1>3. \A j \in Intents : j # k.intent => intents'[j] = intents[j]
  BY <1>1 DEF InsertIntent, UpdateIntent, TypeOK
<1>4. ASSUME NEW j \in Intents, j # k.intent
      PROVE  Agrees(j)'
  <2>1. Agrees(j) /\ ~Opening(j)
    BY <1>1, <1>4 DEF ProviderInv, Opening, OneClient
  <2>. QED BY <1>2, <1>3, <1>4, <2>1 DEF Agrees, Pending, Event, Matches, MisreadFailure
<1>5. CASE InsertIntent(c)
  <2>1. /\ k.op = "intent" /\ (n.op = "ask" => n.then = "record") /\ n.op \in {"idle", "ask", "record"}
        /\ intents' = [intents EXCEPT ![k.intent] =
              [order |-> k.order, amount |-> Head(k.todo).amount, status |-> "requires_capture"]]
    BY <1>1, <1>5, InsertMoves, IdleHandler DEF Fields, OpTo, Returned
  <2>2. intents'[k.intent].order # None /\ intents'[k.intent].status = "requires_capture"
    BY <1>2, <2>1, RequestAssumption DEF TypeOK
  <2>3. Pending(k.intent) \/ money[k.intent] = "pending"
    BY <1>2, <2>1 DEF Tells
  <2>4. Agrees(k.intent)'
    BY <1>2, <2>2, <2>3 DEF Agrees, ProviderInv, Pending, Event, Matches, MisreadFailure
  <2>5. Tells(n)'
    BY <2>1 DEF Tells
  <2>. QED BY <1>1, <1>2, <1>4, <2>4, <2>5 DEF ProviderInv, OneClient
<1>6. CASE UpdateIntent(c)
  <2>1. /\ k.op = "update" /\ n.op = "mark" /\ n.intent = k.intent /\ n.status = k.status /\ n.then = k.then
        /\ intents' = [intents EXCEPT ![k.intent].status = Written(k)]
    BY <1>1, <1>6, PlainMoves DEF Fields, OpTo, UpdateIntent
  <2>2. intents'[k.intent].status = Written(k) /\ intents'[k.intent].order = intents[k.intent].order
    BY <1>2, <2>1 DEF TypeOK
  <2>3. Pending(k.intent) \/ Matches(k.intent, Written(k))
    BY <1>2, <2>1 DEF Tells, Pending, Event, Written
  <2>4. ~Opening(k.intent)
    BY <1>1, <2>1 DEF Opening, OneClient
  <2>5. Agrees(k.intent)'
    BY <1>2, <2>2, <2>3, <2>4 DEF Agrees, ProviderInv, Pending, Event, Matches, MisreadFailure
  <2>6. Tells(n)'
    BY <1>2, <2>1, <2>2 DEF Tells, Event, Earliest, Written
  <2>. QED BY <1>1, <1>2, <1>4, <2>5, <2>6 DEF ProviderInv, OneClient
<1>. QED BY <1>5, <1>6

(* A webhook is taken up, and has found its intent.                        *)
LEMMA WebhookAgrees ==
  ASSUME TypeInv, ProviderInv, OneClient, InOrder, NEW c \in Clients, Webhook(c)
  PROVE  ProviderInv'
<1>. TypeOK
  BY DEF TypeInv
<1>1. PICK n : n = call'[c]
  OBVIOUS
<1>2. PICK e \in events :
        /\ Deliverable(e)
        /\ \/ intents[e.intent].order = None
           \/ /\ intents[e.intent].order # None /\ UNCHANGED events
              /\ n.op = "update" /\ n.intent = e.intent /\ n.status = e.status /\ n.then = "answer"
  BY <1>1, WebhookMoves DEF Fields
<1>3. /\ e.intent \in Intents /\ e.status \in {"captured", "failed", "refunded"} /\ e = Event(e.intent, e.status)
      /\ e = [intent |-> e.intent, status |-> e.status]
  BY DEF TypeOK, Webhooks, Event
<1>4. call[c].op = "idle" /\ UNCHANGED <<money, intents>>
  BY DEF Webhook
<1>5. intents[e.intent].order # None
  <2>1. money[e.intent] # "none"
    BY <1>3 DEF ProviderInv, Since
  <2>2. ~Opening(e.intent)
    BY <1>4 DEF Opening, OneClient
  <2>. QED BY <1>3, <2>1, <2>2 DEF ProviderInv, Agrees
<1>6. Earliest(e.intent, e.status)
  BY <1>2, <1>3 DEF Deliverable, Earliest, Event
<1>7. Tells(n)
  BY <1>2, <1>3, <1>5, <1>6 DEF Tells
<1>. QED BY <1>1, <1>2, <1>4, <1>5, <1>7, QuietAgrees DEF OneClient

(* The summary written, and the webhook it came from answered: when that   *)
(* was the last, the intent stands as the provider said.                   *)
LEMMA AnsweringAgrees ==
  ASSUME TypeInv, ProviderInv, OneClient, InOrder, NEW c \in Clients, WriteSummary(c)
  PROVE  ProviderInv'
<1>. TypeOK
  BY DEF TypeInv
<1>1. PICK k, n : k = call[c] /\ n = call'[c]
  OBVIOUS
<1>2. /\ UNCHANGED <<money, intents>> /\ Tells(k) /\ k.op = "summary" /\ n.op \in {"pay", "record", "idle"}
      /\ UNCHANGED events \/ (k.then = "answer" /\ events' = events \ {Event(k.intent, k.status)})
  BY <1>1, WriteMoves, IdleHandler DEF Fields, OpTo, Returned, WriteSummary, ProviderInv, Answered, Event
<1>3. Tells(n) /\ Tells(n)'
  BY <1>2 DEF Tells
<1>4. CASE UNCHANGED events
  BY <1>1, <1>2, <1>3, <1>4, QuietAgrees DEF OneClient
<1>5. CASE k.then = "answer" /\ events' = events \ {Event(k.intent, k.status)}
  <2>1. /\ Event(k.intent, k.status) \in events /\ Earliest(k.intent, k.status)
        /\ intents[k.intent].status = ParseWebhook(GatewayOf[k.intent], k.status)
    BY <1>2, <1>5 DEF Tells, Written
  <2>2. ASSUME NEW e \in events
        PROVE  e.intent \in Intents /\ e.status \in {"captured", "failed", "refunded"} /\ e = Event(e.intent, e.status)
    BY DEF TypeOK, Webhooks, Event
  <2>3. \A e \in events' : money'[e.intent] \in Since(e.status)
    BY <1>2, <1>5 DEF ProviderInv
  <2>4. k.intent \in Intents /\ k.status \in {"captured", "failed", "refunded"}
    BY <2>1, <2>2 DEF Event
  <2>5. ASSUME NEW j \in Intents
        PROVE  Agrees(j)'
    <3>1. Agrees(j) /\ ~Opening(j)
      BY <1>1, <1>2 DEF ProviderInv, Opening, OneClient
    <3>2. ASSUME NEW s, Event(j, s) \in events, Event(j, s) \notin events'
          PROVE  j = k.intent /\ s = k.status
      BY <1>5, <3>2 DEF Event
    <3>3. CASE j # k.intent
      <4>1. Pending(j)' <=> Pending(j)
        BY <1>5, <2>2, <3>2, <3>3 DEF Pending, Event
      <4>. QED BY <1>2, <3>1, <3>2, <3>3, <4>1 DEF Agrees, Event, Matches, MisreadFailure
    <3>4. CASE j = k.intent /\ money[j] = k.status
      <4>1. ~Pending(j)'
        <5>1. ASSUME NEW e \in events', e.intent = j
              PROVE  FALSE
          <6>1. e \in events /\ e = Event(j, e.status) /\ e.status # k.status
            BY <1>5, <2>2, <3>4, <5>1
          <6>2. money[j] \in Since(e.status) /\ e.status \in {"captured", "failed", "refunded"}
            BY <2>2, <5>1, <6>1 DEF ProviderInv
          <6>. QED BY <2>1, <2>4, <3>4, <6>1, <6>2 DEF Since, Earliest
        <5>. QED BY <5>1 DEF Pending
      <4>. QED BY <1>2, <2>1, <2>4, <3>1, <3>4, <4>1 DEF Agrees, Matches, MisreadFailure, ParseWebhook
    <3>5. CASE j = k.intent /\ money[j] # k.status
      <4>1. Pending(j) /\ Event(j, money[j]) \in events
        BY <2>1, <3>1, <3>5 DEF Pending, Event, Agrees
      <4>2. Event(j, money[j]) \in events'
        BY <3>2, <3>5, <4>1
      <4>3. Pending(j)'
        BY <4>2 DEF Pending, Event
      <4>. QED BY <1>2, <3>1, <4>1, <4>2, <4>3 DEF Agrees, Event
    <3>. QED BY <3>3, <3>4, <3>5
  <2>. QED BY <1>1, <1>3, <2>3, <2>5 DEF ProviderInv, OneClient
<1>. QED BY <1>2, <1>4, <1>5

LEMMA ProviderNext ==
  ASSUME OneClient, ~Crashes, InOrder
  PROVE  TypeInv /\ LinkInv /\ ProviderInv /\ [Next]_vars => ProviderInv'
<1>. SUFFICES ASSUME TypeInv, LinkInv, ProviderInv, [Next]_vars PROVE ProviderInv'
  OBVIOUS
<1>1. CASE ProviderStep
  BY <1>1, BecomesAgrees DEF ProviderStep
<1>2. ASSUME NEW c \in Clients, Refund(c)
      PROVE  ProviderInv'
  BY <1>2, BecomesAgrees DEF Refund, OneClient
<1>3. ASSUME NEW c \in Clients, CardStep(c)
      PROVE  ProviderInv'
  BY <1>3, QuietCardAgrees, OpeningAgrees, WritingAgrees, WebhookAgrees, AnsweringAgrees DEF CardStep
<1>4. CASE /\ ~ProviderStep
           /\ ~\E c \in Clients : Refund(c)
           /\ ~\E c \in Clients : CardStep(c)
  <2>1. UNCHANGED <<money, events>>
    BY <1>4, MoneyChanges, EventsChange DEF CardStep
  <2>. QED BY <1>4, <2>1, MostAside, AsideAgrees
<1>. QED BY <1>1, <1>2, <1>3, <1>4

LEMMA ProviderInit == Init => ProviderInv
BY DEF Init, ProviderInv, Agrees, Tells, Pending, Idle, NoIntent

(* At rest, once its webhooks are answered, an intent is captured when the *)
(* provider has the money, and otherwise only for a charge that failed at  *)
(* Flutterwave: when requests come one at a time, no statement fails and   *)
(* the provider sends an intent's webhooks in order.                       *)
THEOREM IntentsFollowed ==
  OneClient /\ ~Crashes /\ InOrder => (Spec => []IntentsFollowProvider)
<1>. SUFFICES ASSUME OneClient, ~Crashes, InOrder PROVE Spec => []IntentsFollowProvider
  OBVIOUS
<1>. DEFINE Inv == TypeInv /\ LinkInv /\ ProviderInv
<1>1. Init => Inv
  BY TypeInit, LinkInit, ProviderInit
<1>2. Inv /\ [Next]_vars => Inv'
  BY TypeNext, LinkNext, ProviderNext
<1>3. Inv => IntentsFollowProvider
  BY DEF ProviderInv, Agrees, Pending, Matches, IntentsFollowProvider
<1>. QED BY <1>1, <1>2, <1>3, PTL DEF Spec

-----------------------------------------------------------------------------
(* An order with one line is reserved by one transaction.                  *)
OneLine == \A l, m \in Lines : l = m

(* Whatever a handler does but reserve, or release what is reserved.       *)
Apart(k, n) == n = k \/ (k.op # "reserve" /\ n.op \notin {"reserve", "drop", "close"})
StockStep(c) == Checkout(c) \/ Reserved(c) \/ CancelFind(c) \/ CancelRelease(c)

LEMMA OthersApart ==
  ASSUME NEW c \in Clients, Others(c), Apart(call[c], call'[c])
  PROVE  \A d \in Clients : Apart(call[d], call'[d])
BY DEF Others, Apart

LEMMA MostApart ==
  ASSUME TypeInv, ~Crashes, [Next]_vars
  PROVE  \/ \A c \in Clients : Apart(call[c], call'[c])
         \/ LineFails \/ \E c \in Clients : StockStep(c)
<1>. DEFINE All == \A c \in Clients : Apart(call[c], call'[c])
<1>. TypeOK
  BY DEF TypeInv
<1>1. ASSUME UNCHANGED call PROVE All
  BY <1>1 DEF Apart
<1>2. ASSUME NEW c \in Clients, Returned(c), call[c].op # "reserve"
      PROVE  All
  BY <1>2, IdleHandler, OthersApart DEF Returned, Apart, Fields
<1>3. ASSUME NEW c \in Clients, NEW o \in {"redeem", "record", "mark", "sum", "issued", "release", "cancel"},
             OpTo(c, o), call[c].op # "reserve"
      PROVE  All
  BY <1>3, OthersApart DEF OpTo, Apart, Fields
<1>4. ASSUME NEW c \in Clients,
             RedeemDirect(c) \/ CreateIntent(c) \/ Capture(c) \/ CancelDirect(c)
      PROVE  All
  <2>1. CASE RedeemDirect(c)
    BY <2>1, RedeemDirectMoves, OthersApart DEF Apart, Fields
  <2>2. CASE CreateIntent(c)
    BY <2>2, CreateIntentMoves, OthersApart DEF Apart, Fields
  <2>3. CASE Capture(c)
    BY <2>3, CaptureMoves, OthersApart DEF Apart, Fields
  <2>4. CASE CancelDirect(c)
    BY <2>4, CancelDirectMoves, OthersApart DEF Apart, Fields
  <2>. QED BY <1>4, <2>1, <2>2, <2>3, <2>4
<1>5. ASSUME NEW c \in Clients, Webhook(c)
      PROVE  All
  BY <1>1, <1>5, WebhookMoves, OthersApart DEF Apart, Fields
<1>6. ASSUME NEW c \in Clients, IssueDirect(c) \/ FulfillDirect(c) \/ Refund(c)
      PROVE  All
  <2>1. UNCHANGED call
    BY <1>6 DEF IssueDirect, FulfillDirect, Refund
  <2>. QED BY <1>1, <2>1
<1>7. ASSUME NEW c \in Clients,
             \/ RedeemRead(c) \/ RedeemWrite(c) \/ UpdateIntent(c) \/ MarkPayments(c) \/ IssuePoints(c)
             \/ Fulfill(c) \/ Leave(c) \/ Throw(c) \/ Release(c) \/ CancelWrite(c)
      PROVE  All
  <2>1. call[c].op # "reserve"
    BY <1>7, PlainMoves DEF Paying, Settled
  <2>. QED BY <1>2, <1>3, <1>7, <2>1, PlainMoves
<1>8. ASSUME NEW c \in Clients, PayCard(c)
      PROVE  All
  BY <1>8, PayCardMoves, OthersApart DEF Apart, Fields
<1>9. ASSUME NEW c \in Clients, InsertIntent(c)
      PROVE  All
  <2>1. CASE Returned(c) \/ OpTo(c, "record")
    <3>1. call[c].op # "reserve"
      BY <1>9 DEF InsertIntent
    <3>. QED BY <1>2, <1>3, <2>1, <3>1
  <2>2. CASE ~(Returned(c) \/ OpTo(c, "record"))
    BY <1>9, <2>2, InsertMoves, OthersApart DEF Apart, Fields
  <2>. QED BY <2>1, <2>2
<1>10. ASSUME NEW c \in Clients, AskProvider(c)
       PROVE  All
  BY <1>10, AskMoves, OthersApart DEF Apart, Fields
<1>11. ASSUME NEW c \in Clients, RecordPayment(c)
       PROVE  All
  BY <1>11, RecordMoves, OthersApart DEF Apart, Fields, Paying
<1>12. ASSUME NEW c \in Clients, ReadSum(c)
       PROVE  All
  BY <1>12, ReadMoves, OthersApart DEF Apart, Fields
<1>13. ASSUME NEW c \in Clients, WriteSummary(c)
       PROVE  All
  <2>1. CASE Returned(c) \/ OpTo(c, "record")
    <3>1. call[c].op # "reserve"
      BY <1>13 DEF WriteSummary
    <3>. QED BY <1>2, <1>3, <2>1, <3>1
  <2>2. CASE ~(Returned(c) \/ OpTo(c, "record"))
    BY <1>13, <2>2, WriteMoves, OthersApart DEF Apart, Fields
  <2>. QED BY <2>1, <2>2
<1>14. ASSUME NEW c \in Clients, CleanupFails(c) \/ Crash(c)
       PROVE  All
  BY <1>14 DEF CleanupFails, Crash
<1>15. CASE LineReserved \/ ProviderStep \/ UNCHANGED vars
  <2>1. UNCHANGED call
    BY <1>15 DEF LineReserved, ProviderStep, vars
  <2>. QED BY <1>1, <2>1
<1>16. ASSUME NEW c \in Clients, Step(c)
       PROVE  All \/ StockStep(c)
  BY <1>7, <1>8, <1>9, <1>10, <1>11, <1>12, <1>13, <1>16 DEF Step, StockStep
<1>17. ASSUME NEW c \in Clients,
              \/ Step(c) \/ Checkout(c) \/ RedeemDirect(c) \/ CreateIntent(c) \/ Capture(c) \/ Webhook(c)
              \/ IssueDirect(c) \/ FulfillDirect(c) \/ CancelDirect(c) \/ Refund(c)
              \/ Throw(c) \/ CleanupFails(c) \/ Crash(c)
       PROVE  All \/ StockStep(c)
  BY <1>4, <1>5, <1>6, <1>7, <1>14, <1>16, <1>17 DEF StockStep
<1>18. CASE \E c \in Clients :
         \/ Step(c) \/ Checkout(c) \/ RedeemDirect(c) \/ CreateIntent(c) \/ Capture(c) \/ Webhook(c)
         \/ IssueDirect(c) \/ FulfillDirect(c) \/ CancelDirect(c) \/ Refund(c)
         \/ Throw(c) \/ CleanupFails(c) \/ Crash(c)
  BY <1>17, <1>18
<1>. QED BY <1>15, <1>18 DEF Next

-----------------------------------------------------------------------------
(* The stock a handler holds, and the one it is about to let go.           *)
Reserves(o) == \E c \in Clients : call[c].op = "reserve" /\ call[c].order = o
Frees(k) ==
  /\ k.op = "reserve" => orders[k.order].status # "cancelled"
  /\ k.op = "drop" => held[k.order] \subseteq k.found
  /\ k.op = "close" => held[k.order] = {}

StockInv ==
  /\ \A o \in Orders :
       /\ reserving[o] # {} => Reserves(o)
       /\ orders[o].status = "cancelled" => held[o] = {}
  /\ \A c \in Clients : Frees(call[c])

(* When an order becomes cancelled, and when it gets stock.                *)
LEMMA StatusChanges ==
  ASSUME TypeInv, [Next]_vars, NEW o \in Orders, orders'[o].status = "cancelled"
  PROVE  orders[o].status = "cancelled" \/ \E c \in Clients : CancelWrite(c) /\ call[c].order = o
<1>. OrdersTyped
  BY DEF TypeInv, TypeOK, OrdersTyped
<1>1. CASE UNCHANGED orders
  BY <1>1
<1>2. ASSUME NEW c \in Clients, Checkout(c) \/ FulfillDirect(c) \/ Fulfill(c) \/ WriteSummary(c)
      PROVE  orders[o].status = "cancelled"
  <2>1. ASSUME NEW q \in Orders, NEW s, orders' = [orders EXCEPT ![q].status = s], s # "cancelled"
        PROVE  orders[o].status = "cancelled"
    BY <2>1 DEF OrdersTyped
  <2>2. CASE Checkout(c)
    BY <2>2 DEF Checkout, OrdersTyped
  <2>3. CASE FulfillDirect(c) \/ Fulfill(c)
    <3>1. CASE FulfillDirect(c)
      BY <3>1, <2>1 DEF FulfillDirect
    <3>2. CASE Fulfill(c)
      <4>1. call[c].order \in Orders
        BY <3>2 DEF Fulfill, Settled, TypeInv, Equipped
      <4>. QED BY <2>1, <3>2, <4>1 DEF Fulfill
    <3>. QED BY <2>3, <3>1, <3>2
  <2>4. CASE WriteSummary(c)
    BY <2>4 DEF WriteSummary, OrdersTyped
  <2>. QED BY <1>2, <2>2, <2>3, <2>4
<1>3. ASSUME NEW c \in Clients, CancelWrite(c), call[c].order # o
      PROVE  orders[o].status = "cancelled"
  BY <1>3 DEF CancelWrite, OrdersTyped
<1>. QED BY <1>1, <1>2, <1>3, OrdersChange

LEMMA HeldChanges ==
  ASSUME TypeInv, [Next]_vars, NEW o \in Orders
  PROVE  \/ held'[o] \subseteq held[o]
         \/ reserving[o] # {}
<1>. held \in [Orders -> SUBSET Lines] /\ reserving \in [Orders -> SUBSET Lines]
  BY DEF TypeInv, TypeOK
<1>1. CASE LineReserved
  BY <1>1 DEF LineReserved
<1>2. ASSUME NEW c \in Clients, Release(c) \/ CancelRelease(c)
      PROVE  held'[o] \subseteq held[o]
  BY <1>2 DEF Release, CancelRelease
<1>. QED BY <1>1, <1>2, StockChanges

(* A reservation that runs: for the checkout that waits for it.            *)
LEMMA ReservingChanges ==
  ASSUME TypeInv, [Next]_vars, NEW o \in Orders, reserving'[o] # {}
  PROVE  reserving[o] # {} \/ \E c \in Clients : Checkout(c) /\ call'[c].op = "reserve" /\ call'[c].order = o
<1>. TypeOK
  BY DEF TypeInv
<1>1. CASE LineReserved \/ LineFails
  BY <1>1 DEF LineReserved, LineFails, TypeOK
<1>2. ASSUME NEW c \in Clients, Checkout(c), reserving[o] = {}
      PROVE  call'[c].op = "reserve" /\ call'[c].order = o
  <2>1. PICK q \in Orders, r \in Requests :
          /\ reserving' = [reserving EXCEPT ![q] = IF r.reserve THEN Lines ELSE {}]
          /\ call'[c].op = (IF r.reserve THEN "reserve" ELSE "pay") /\ call'[c].order = q
    BY <1>2, CheckoutMoves DEF Fields
  <2>. QED BY <1>2, <2>1 DEF TypeOK
<1>. QED BY <1>1, <1>2, StockChanges

LEMMA ReservesNext ==
  ASSUME OneClient, OneLine, ~Crashes, TypeInv, StockInv, [Next]_vars, NEW o \in Orders, reserving'[o] # {}
  PROVE  Reserves(o)'
<1>. TypeOK
  BY DEF TypeInv
<1>1. ASSUME NEW c \in Clients, call'[c].op = "reserve", call'[c].order = o
      PROVE  Reserves(o)'
  BY <1>1 DEF Reserves
<1>2. ASSUME reserving[o] # {}
      PROVE  Reserves(o)'
  <2>1. PICK c \in Clients : call[c].op = "reserve" /\ call[c].order = o
    BY <1>2 DEF StockInv, Reserves
  <2>2. CASE Apart(call[c], call'[c])
    <3>1. call'[c] = call[c]
      BY <2>1, <2>2 DEF Apart
    <3>. QED BY <1>1, <2>1, <3>1
  <2>3. CASE LineFails
    <3>1. PICK q \in Orders : \E l \in reserving[q] : reserving' = [reserving EXCEPT ![q] = @ \ {l}]
      BY <2>3 DEF LineFails
    <3>2. q = o
      BY <2>1, <3>1 DEF StockInv, Reserves, OneClient
    <3>3. reserving'[o] = {}
      BY <3>1, <3>2 DEF TypeOK, OneLine
    <3>. QED BY <3>3
  <2>4. CASE StockStep(c)
    <3>1. Reserved(c)
      BY <2>1, <2>4 DEF StockStep, Checkout, CancelFind, CancelRelease
    <3>. QED BY <1>2, <2>1, <3>1 DEF Reserved
  <2>. QED BY <2>2, <2>3, <2>4, MostApart DEF OneClient
<1>. QED BY <1>1, <1>2, ReservingChanges

(* While a handler does not wait for its order's lines, no line is added.  *)
LEMMA HeldShrinks ==
  ASSUME OneClient, TypeInv, StockInv, [Next]_vars, NEW c \in Clients, call[c].op # "reserve", NEW o \in Orders
  PROVE  held'[o] \subseteq held[o]
BY HeldChanges DEF StockInv, Reserves, OneClient

LEMMA FreesNext ==
  ASSUME OneClient, ~Crashes, TypeInv, StockInv, [Next]_vars, NEW c \in Clients
  PROVE  Frees(call[c])'
<1>. TypeOK
  BY DEF TypeInv
<1>1. PICK k, n : k = call[c] /\ n = call'[c]
  OBVIOUS
<1>2. Frees(k) /\ (k.op \in {"reserve", "cancel", "drop", "close"} => k.order \in Orders)
  BY <1>1 DEF StockInv, TypeInv, Equipped
<1>3. CASE Apart(k, n)
  <2>1. CASE n = k /\ k.op = "reserve"
    <3>1. orders'[k.order].status # "cancelled"
      BY <1>1, <1>2, <2>1, StatusChanges DEF Frees, CancelWrite, OneClient
    <3>. QED BY <1>1, <2>1, <3>1 DEF Frees
  <2>2. CASE n = k /\ k.op \in {"drop", "close"}
    <3>1. held'[k.order] \subseteq held[k.order]
      BY <1>1, <1>2, <2>2, HeldShrinks
    <3>. QED BY <1>1, <1>2, <2>2, <3>1 DEF Frees
  <2>. QED BY <1>1, <1>3, <2>1, <2>2 DEF Frees, Apart
<1>4. CASE LineFails
  <2>1. n = k \/ n.op = "cancel"
    BY <1>1, <1>4, LineFailsMoves DEF Fields
  <2>. QED BY <1>1, <1>3, <2>1 DEF Frees, Apart
<1>5. CASE Checkout(c)
  <2>1. PICK o \in Orders, r \in Requests :
          /\ orders' = [orders EXCEPT ![o] = [status |-> "pending", total |-> r.total, paid |-> 0]]
          /\ n.op = (IF r.reserve THEN "reserve" ELSE "pay") /\ n.order = o
    BY <1>1, <1>5, CheckoutMoves DEF Fields
  <2>2. orders'[o].status = "pending"
    BY <2>1 DEF TypeOK
  <2>3. n.op \notin {"drop", "close"}
    BY <2>1
  <2>. QED BY <1>1, <2>1, <2>2, <2>3 DEF Frees
<1>6. CASE Reserved(c)
  BY <1>1, <1>6, ReservedGoes DEF Fields, Frees
<1>7. CASE CancelFind(c)
  <2>1. UNCHANGED held /\ k.order \in Orders
    BY <1>1, <1>2, <1>7 DEF CancelFind, stock
  <2>2. n.op = "drop" /\ n.found = held[k.order] /\ n.order = k.order
    BY <1>1, <1>7, <2>1, FindMoves DEF Fields
  <2>. QED BY <1>1, <2>1, <2>2 DEF Frees
<1>8. CASE CancelRelease(c)
  <2>1. k.op = "drop" /\ n.op = "close" /\ n.order = k.order
    BY <1>1, <1>8, PlainMoves DEF OpTo, Fields
  <2>2. held' = [held EXCEPT ![k.order] = @ \ k.found]
    BY <1>1, <1>8 DEF CancelRelease, Dropped
  <2>3. held'[k.order] = {}
    BY <1>2, <2>1, <2>2 DEF Frees, TypeOK
  <2>. QED BY <1>1, <2>1, <2>3 DEF Frees
<1>. QED BY <1>1, <1>3, <1>4, <1>5, <1>6, <1>7, <1>8, MostApart DEF OneClient, StockStep

LEMMA StockNext ==
  ASSUME OneClient, OneLine, ~Crashes
  PROVE  TypeInv /\ StockInv /\ [Next]_vars => StockInv'
<1>. SUFFICES ASSUME TypeInv, StockInv, [Next]_vars PROVE StockInv'
  OBVIOUS
<1>1. ASSUME NEW o \in Orders, orders'[o].status = "cancelled"
      PROVE  held'[o] = {}
  <2>1. CASE orders[o].status = "cancelled"
    <3>1. held[o] = {} /\ reserving[o] = {}
      BY <2>1 DEF StockInv, Reserves, Frees
    <3>. QED BY <3>1, HeldChanges
  <2>2. ASSUME NEW c \in Clients, CancelWrite(c), call[c].order = o
        PROVE  held'[o] = {}
    BY <2>2 DEF CancelWrite, stock, StockInv, Frees
  <2>. QED BY <1>1, <2>1, <2>2, StatusChanges
<1>2. \A o \in Orders : reserving'[o] # {} => Reserves(o)'
  BY ReservesNext
<1>3. \A c \in Clients : Frees(call[c])'
  BY FreesNext
<1>. QED BY <1>1, <1>2, <1>3 DEF StockInv

LEMMA StockInit == Init => StockInv
BY DEF Init, StockInv, Frees, Idle

(* At rest a cancelled order holds no stock, when requests come one at a   *)
(* time, no statement fails and an order has one line.                     *)
THEOREM CancelledHeldNothing ==
  OneClient /\ OneLine /\ ~Crashes => (Spec => []CancelledHoldsNothing)
<1>. SUFFICES ASSUME OneClient, OneLine, ~Crashes PROVE Spec => []CancelledHoldsNothing
  OBVIOUS
<1>1. Init => TypeInv /\ StockInv
  BY TypeInit, StockInit
<1>2. TypeInv /\ StockInv /\ [Next]_vars => (TypeInv /\ StockInv)'
  BY TypeNext, StockNext
<1>3. StockInv => CancelledHoldsNothing
  BY DEF StockInv, CancelledHoldsNothing
<1>. QED BY <1>1, <1>2, <1>3, PTL DEF Spec

=============================================================================
