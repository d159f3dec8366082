------------------------------- MODULE Register -------------------------------
(***************************************************************************)
(* The till's sale, renderer/app.js: the cart and what is asked for it,    *)
(* drafts, coupons, and the payment forms.  The page is one thread that    *)
(* waits in three places: for the variants of a product that is added, for *)
(* the promotions, and for the answer to an order.  A payment form covers  *)
(* the page, so that until it is closed only itself and what was awaited   *)
(* go on.  Each item costs 1; a coupon takes off an amount.  Tax and       *)
(* shipping are asked for and cached like the manual discount and are left *)
(* out; the shift and the cashier that canCheckout also wants, and the     *)
(* queue that safeWrite may use, are of PosQueue.                          *)
(***************************************************************************)
EXTENDS Requests, Integers, SequencesExt

CONSTANTS Goods,
          MaxUnits,     \* bound on the units in the cart
          Discounts,    \* manual discounts and coupons
          CreditLimit,  \* of the selected customer
          MaxDrafts     \* MAX_DRAFTS

ASSUME RegisterAssumption ==
  /\ IsFiniteSet(Goods)
  /\ MaxUnits \in Nat /\ Discounts \subseteq Nat /\ CreditLimit \in Nat /\ MaxDrafts \in Nat
  /\ None \notin Nat

VARIABLES cart,         \* state.cart: units of each item
          asked,        \* state.manualDiscount and state.appliedPromotion
          orderTotals,  \* state.orderTotals: kept for the forms and the order
          drafts,       \* the drafts in localStorage, newest first
          form,         \* the form that is open; of a single payment the amount it was
                        \* filled with and, as a history, whether a coupon or an item
                        \* arrived since
          picks,        \* products to add whose variants are being loaded
          lookups,      \* coupons whose promotions are being loaded
          orders        \* per submit that waits for its answer, the order

register == <<cart, asked, orderTotals, drafts, form, picks, lookups, orders>>

UnitsIn(items) == SumFunction(items)
NoItems == [g \in Goods |-> 0]
Closed == [kind |-> "none", amount |-> 0, late |-> FALSE]
NothingAsked == [discount |-> 0, promotion |-> None]

(* updateCartSummary                                                       *)
Summary(items, wish) ==
  LET off == IF wish.promotion # None THEN wish.promotion ELSE wish.discount
      units == UnitsIn(items)
  IN [total |-> units, discount |-> IF off < units THEN off ELSE units]
Due(t) == t.total - t.discount

RegisterInit ==
  /\ cart = NoItems
  /\ asked = NothingAsked
  /\ orderTotals = Summary(NoItems, NothingAsked)
  /\ drafts = <<>>
  /\ form = Closed
  /\ picks = {} /\ lookups = {}
  /\ orders = [c \in Clients |-> None]

(* Every handler below that changes the cart or what is asked for it ends  *)
(* in renderCart or updateCartSummary.                                     *)
Summarize == orderTotals' = Summary(cart', asked')
Filled == cart # NoItems

(* The cells of a cart row, the variants of a list that is open            *)
(* (addToCart), and the buttons that empty the cart.                       *)
EditCart ==
  /\ form = Closed
  /\ \/ \E g \in Goods, n \in 0..MaxUnits :
          /\ cart[g] > 0 \/ n = 1
          /\ cart' = [cart EXCEPT ![g] = n]
     \/ cart' = NoItems
  /\ UNCHANGED <<asked, drafts, form, picks, lookups, orders>>
  /\ Summarize
  /\ orderTotals'.total <= MaxUnits

(* handleAddProduct up to and after its await: a product with one variant  *)
(* or none goes into the cart, whatever is open by then; the variants of   *)
(* another are listed, or could not be loaded.                             *)
AskVariants ==
  /\ form = Closed
  /\ \E g \in Goods \ picks : picks' = picks \cup {g}
  /\ UNCHANGED <<cart, asked, orderTotals, drafts, form, lookups, orders>>

ItemAdded ==
  \E g \in picks :
    /\ orderTotals.total < MaxUnits
    /\ picks' = picks \ {g}
    /\ cart' = [cart EXCEPT ![g] = @ + 1]
    /\ form' = [form EXCEPT !.late = form.kind = "single"]
    /\ UNCHANGED <<asked, drafts, lookups, orders>>
    /\ Summarize

NothingAdded ==
  /\ \E g \in picks : picks' = picks \ {g}
  /\ UNCHANGED <<cart, asked, orderTotals, drafts, form, lookups, orders>>

(* handleDiscountChange; applyCoupon without a code; loadConfig            *)
EditWish ==
  /\ form = Closed
  /\ \/ \E v \in Discounts : asked' = [discount |-> v, promotion |-> None]
     \/ asked' = [asked EXCEPT !.promotion = None]
     \/ asked' = NothingAsked
  /\ UNCHANGED <<cart, drafts, form, picks, lookups, orders>>
  /\ Summarize

(* applyCoupon up to and after its await, which can fail.                  *)
ApplyCoupon ==
  /\ form = Closed
  /\ \E v \in Discounts \ lookups : lookups' = lookups \cup {v}
  /\ UNCHANGED <<cart, asked, orderTotals, drafts, form, picks, orders>>

CouponFound ==
  \E v \in lookups :
    /\ lookups' = lookups \ {v}
    /\ asked' = [asked EXCEPT !.promotion = v]
    /\ form' = [form EXCEPT !.late = form.kind = "single"]
    /\ UNCHANGED <<cart, drafts, picks, orders>>
    /\ Summarize

CouponFails ==
  /\ \E v \in lookups : lookups' = lookups \ {v}
  /\ UNCHANGED <<cart, asked, orderTotals, drafts, form, picks, orders>>

-----------------------------------------------------------------------------
SaveDraft ==
  /\ form = Closed /\ Filled
  /\ LET saved == <<[cart |-> cart, asked |-> asked]>> \o drafts IN
     drafts' = SubSeq(saved, 1, IF Len(saved) < MaxDrafts THEN Len(saved) ELSE MaxDrafts)
  /\ cart' = NoItems
  /\ asked' = NothingAsked
  /\ UNCHANGED <<form, picks, lookups, orders>>
  /\ Summarize

MutantRestoreDraft ==  \* the cart is shown without its totals
  /\ form = Closed
  /\ \E n \in DOMAIN drafts :
       /\ drafts' = RemoveAt(drafts, n)
       /\ cart' = drafts[n].cart
       /\ asked' = drafts[n].asked
  /\ UNCHANGED <<form, orderTotals, picks, lookups, orders>>

(* A cart that is not empty is replaced.                                   *)
RestoreDraft ==
  /\ form = Closed
  /\ \E n \in DOMAIN drafts :
       /\ drafts' = RemoveAt(drafts, n)
       /\ cart' = drafts[n].cart
       /\ asked' = drafts[n].asked
  /\ UNCHANGED <<form, picks, lookups, orders>>
  /\ Summarize

DeleteDraft ==
  /\ form = Closed
  /\ \/ \E n \in DOMAIN drafts : drafts' = RemoveAt(drafts, n)
     \/ drafts' = <<>>
  /\ UNCHANGED <<cart, asked, orderTotals, form, picks, lookups, orders>>

-----------------------------------------------------------------------------
(* openPaymentModal, openMultiPaymentModal: "split" is also the redemption *)
(* of points, "plan" a deposit or an instalment.                           *)
OpenForm ==
  /\ form = Closed /\ Filled
  /\ \/ form' = [kind |-> "single", amount |-> Due(orderTotals), late |-> FALSE]
     \/ \E plan \in {"split", "plan"} : form' = [kind |-> plan, amount |-> 0, late |-> FALSE]
  /\ UNCHANGED <<cart, asked, orderTotals, drafts, picks, lookups, orders>>

CloseForm ==
  /\ form # Closed
  /\ form' = Closed
  /\ UNCHANGED <<cart, asked, orderTotals, drafts, picks, lookups, orders>>

(* What an order sends as paid.  Credit and cash send nothing.  The amount *)
(* of a single payment was filled in when its form was opened and is left  *)
(* as it is by the cashier; an amount of zero stands for what is due.      *)
(* Several payments are compared with what is due on submit.               *)
Tendered(n) ==
  \/ form.kind \in {"none", "single"} /\ n = None
  \/ form.kind = "single" /\ n = IF form.amount > 0 THEN form.amount ELSE Due(orderTotals)
  \/ form.kind = "split" /\ n = Due(orderTotals) /\ Due(orderTotals) > 0
  \/ form.kind = "plan" /\ n \in 1..Due(orderTotals)

(* getCreditEligibility                                                    *)
Eligible == Due(orderTotals) <= CreditLimit

(* submitOrder up to its await.  Nothing keeps a form from being submitted *)
(* a second time while the first order waits.                              *)
SubmitOrder(c) ==
  /\ orders[c] = None
  /\ Filled
  /\ form = Closed => Eligible
  /\ \E n \in {None, form.amount} \cup 0..Due(orderTotals) :
       /\ Tendered(n)
       /\ orders' = [orders EXCEPT ![c] =
            [items |-> cart, discount |-> orderTotals.discount,
             by |-> form.kind, paid |-> n, late |-> form.late]]
  /\ UNCHANGED <<cart, asked, orderTotals, drafts, form, picks, lookups>>

(* The form that was submitted is closed, if it or another in its place is *)
(* still open.                                                             *)
Modal(kind) == IF kind = "plan" THEN "split" ELSE kind
CloseOf(c) == form' = IF Modal(form.kind) = Modal(orders[c].by) THEN Closed ELSE form

(* The order was taken: the cart is emptied, whatever is in it by now, and *)
(* the discount and the coupon stay for the next sale.                     *)
OrderTaken(c) ==
  /\ orders[c] # None
  /\ orders' = [orders EXCEPT ![c] = None]
  /\ cart' = NoItems
  /\ CloseOf(c)
  /\ UNCHANGED <<asked, drafts, picks, lookups>>
  /\ Summarize

(* The order was refused, or queued: the cart stays as it is.              *)
OrderRefused(c) ==
  /\ orders[c] # None
  /\ orders' = [orders EXCEPT ![c] = None]
  /\ CloseOf(c)
  /\ UNCHANGED <<cart, asked, orderTotals, drafts, picks, lookups>>

RegisterNext ==
  /\ \/ EditCart \/ AskVariants \/ ItemAdded \/ NothingAdded
     \/ EditWish \/ ApplyCoupon \/ CouponFound \/ CouponFails
     \/ SaveDraft \/ RestoreDraft \/ DeleteDraft \/ OpenForm \/ CloseForm
     \/ \E c \in Clients : SubmitOrder(c) \/ OrderTaken(c) \/ OrderRefused(c)
  /\ ~(<<drafts', picks', lookups'>> # <<<<>>, {}, {}>> /\ \A c \in Clients : orders'[c] # None)
        \* bound: with no submit left nothing is parked or being loaded

(* Whatever was added, parked, restored and asked for before: an order     *)
(* never takes off more than its own lines come to.  Split payments are    *)
(* exactly what they come to, a deposit or an instalment no more.  A       *)
(* single payment that is sent, cash is not, is exactly that unless a      *)
(* coupon or an item arrived while its form was open.  A credit order is   *)
(* within the customer's limit (state.orderTotals is computed long before  *)
(* submitOrder uses it).                                                   *)
OrdersAddUp ==
  \A c \in Clients : orders[c] # None =>
    LET o == orders[c] owed == UnitsIn(o.items) - o.discount IN
    /\ o.discount \in 0..UnitsIn(o.items)
    /\ o.by = "none" => owed <= CreditLimit
    /\ o.by = "split" => o.paid = owed
    /\ o.by = "plan" => o.paid \in 1..owed
    /\ o.by = "single" /\ ~o.late => o.paid \in {None, owed}
===============================================================================
