----------------------------- MODULE Intercompany -----------------------------
(***************************************************************************)
(* The month of a holding company in finance/: its cost pool is shared out *)
(* over its subsidiaries, each is billed its share, the bills are issued,  *)
(* posted, credited and paid, and the period is locked.  No handler runs   *)
(* in a transaction: an action is one statement of the code, and a server  *)
(* may stop between any two.                                               *)
(* One company and one period.  VAT multiplies an amount that is already   *)
(* multiplied and is left out, and so are the tax types: every bill        *)
(* withholds one.                                                          *)
(***************************************************************************)
EXTENDS Requests, Integers, FiniteSets, Functions, Bags

CONSTANTS Clerks,      \* concurrent finance requests
          Recipients,  \* subsidiaries that can be charged
          Agreed,      \* those with a management and a licence agreement
          Bills,       \* ids of invoices (bound)
          PoolTotals,  \* costs of a pool
          Whole,       \* weights are in parts of 1/Whole
          Tolerance,   \* parts by which a request's weights may miss the whole
          Splits,      \* weights of a request: parts per recipient
          Markup, Fee, \* a bill is the share times the markup plus the licence fee
          Sums,        \* amounts paid and credited, in parts of 1/Whole; no body is checked,
                       \* so that a payment may be negative
          MaxServed    \* bound on the requests

ASSUME IntercompanyAssumption ==
  /\ Agreed \subseteq Recipients
  /\ PoolTotals \subseteq Int /\ Whole \in Nat /\ Tolerance \in Nat
  /\ \A s \in Splits : \E S \in SUBSET Recipients : S # {} /\ IsFiniteSet(S) /\ s \in [S -> Int]
  /\ Markup \in Int /\ Fee \in Int /\ Sums \subseteq Int /\ MaxServed \in Nat
  /\ None \notin Recipients \cup Bills \cup Int

VARIABLES pool,     \* total cost, None without a pool
          weights,  \* parts per recipient in the allocation rule
          shares,   \* cost_allocations: amount per recipient
          bills,    \* status, recipient, amount, whether it is a credit note
          banked,   \* payments of a bill, added up
          owing,    \* whether some withholding note is not remitted
          books,    \* ledger entries of a bill, a bag of side and amount
          locked,   \* the period lock
          task,     \* per clerk, the request it serves
          served,   \* requests begun
          torn,     \* history: bills whose last posting was cut short
          paying,   \* history: per bill, whether a payment was ever recorded ("unpaid" if not)
                    \* and whether the status follows from the last one ("late" until it does)
          calm      \* history: no two requests have been served at once

finance == <<pool, weights, shares, bills, banked, owing, books, locked, task, served, torn, paying,
             calm>>
ledgers == <<banked, owing, books, torn, paying>>
planning == <<pool, weights, shares>>

NoBill == [status |-> "absent", recipient |-> None, net |-> 0, credit |-> FALSE]
Idle == [at |-> "idle", close |-> FALSE, total |-> 0, split |-> <<>>, left |-> {}, bill |-> None,
         to |-> None, net |-> 0]

IntercompanyInit ==
  /\ pool = None /\ weights = <<>> /\ shares = <<>>
  /\ bills = [b \in Bills |-> NoBill]
  /\ banked = [b \in Bills |-> 0]
  /\ owing = FALSE
  /\ books = [b \in Bills |-> EmptyBag]
  /\ locked = FALSE
  /\ task = [k \in Clerks |-> Idle]
  /\ paying = [b \in Bills |-> "unpaid"]
  /\ served = 0 /\ torn = {} /\ calm = TRUE

Existing == {b \in Bills : bills[b] # NoBill}
At(k, place) == task[k].at = place
Goes(k, next) == task' = [task EXCEPT ![k] = next] /\ UNCHANGED served
Then(k, place) == Goes(k, [task[k] EXCEPT !.at = place])
Begin(k, next) == /\ At(k, "idle") /\ served < MaxServed
                  /\ task' = [task EXCEPT ![k] = next]
                  /\ served' = served + 1
GoOrBegin(k, place, next) == Begin(k, next) \/ (At(k, place) /\ Goes(k, next))
SumOf(f) == SumFunction(f)
Joined(f, g) == [r \in DOMAIN f \cup DOMAIN g |-> IF r \in DOMAIN f THEN f[r] ELSE g[r]]

-----------------------------------------------------------------------------
(* createCostPool, by itself or as the first part of runMonthClose, which  *)
(* checks the lock before.  The weights are checked when the pool is       *)
(* already written, and need not add up to the whole exactly.              *)
MutantAccepted(split) == TRUE  \* the check of the weights forgotten

Accepted(split) == SumOf(split) \in Whole - Tolerance .. Whole + Tolerance

AskPool(k) ==
  /\ \E total \in PoolTotals, split \in Splits, close \in BOOLEAN :
       /\ close => ~locked
       /\ Begin(k, [Idle EXCEPT !.at = "pool", !.close = close, !.total = total, !.split = split])
  /\ UNCHANGED <<planning, bills, ledgers, locked>>

PoolUpsert(k) ==
  /\ At(k, "pool")
  /\ pool' = task[k].total
  /\ IF Accepted(task[k].split) THEN Then(k, "reweigh") ELSE Goes(k, Idle)
  /\ UNCHANGED <<weights, shares, bills, ledgers, locked>>

WeightsDelete(k) ==
  /\ At(k, "reweigh")
  /\ weights' = <<>>
  /\ Then(k, "weigh")
  /\ UNCHANGED <<pool, shares, bills, ledgers, locked>>

(* The unique index on the rule and the recipient refuses a second row.    *)
WeightsCreate(k) ==
  /\ At(k, "weigh")
  /\ IF DOMAIN weights \cap DOMAIN task[k].split = {}
     THEN /\ weights' = Joined(weights, task[k].split)
          /\ IF task[k].close THEN Then(k, "plan") ELSE Goes(k, Idle)
     ELSE Goes(k, Idle) /\ UNCHANGED weights
  /\ UNCHANGED <<pool, shares, bills, ledgers, locked>>

(* allocateCostPool                                                        *)
AllocateRead(k) ==
  /\ pool # None /\ weights # <<>>
  /\ GoOrBegin(k, "plan", [task[k] EXCEPT !.at = "clear", !.total = pool, !.split = weights])
  /\ UNCHANGED <<planning, bills, ledgers, locked>>

AllocateDelete(k) ==
  /\ At(k, "clear")
  /\ shares' = <<>>
  /\ Then(k, "share")
  /\ UNCHANGED <<pool, weights, bills, ledgers, locked>>

Allocation(total, split) == [r \in DOMAIN split |-> total * split[r]]

AllocateCreate(k) ==
  /\ At(k, "share")
  /\ IF DOMAIN shares \cap DOMAIN task[k].split = {}
     THEN /\ shares' = Joined(shares, Allocation(task[k].total, task[k].split))
          /\ IF task[k].close THEN Then(k, "bill") ELSE Goes(k, Idle)
     ELSE Goes(k, Idle) /\ UNCHANGED shares
  /\ UNCHANGED <<pool, weights, bills, ledgers, locked>>

-----------------------------------------------------------------------------
(* generateIntercompanyInvoices: the allocations are read, then the        *)
(* recipients are billed one after the other; a missing agreement throws   *)
(* and leaves the bills written so far.                                    *)
GenerateRead(k) ==
  /\ shares # <<>>
  /\ GoOrBegin(k, "bill", [task[k] EXCEPT !.at = "find", !.split = shares, !.left = DOMAIN shares])
  /\ UNCHANGED <<planning, bills, ledgers, locked>>

(* The bill that is written again: any of the recipient that is neither    *)
(* paid nor void, a credit note too.                                       *)
LiveBills(r) ==
  {b \in Bills : bills[b].recipient = r /\ bills[b].status \in {"draft", "issued", "partPaid"}}

GenerateFind(k) ==
  LET t == task[k] IN
  /\ At(k, "find")
  /\ \E r \in t.left :
       IF r \notin Agreed THEN Goes(k, Idle)
       ELSE \E b \in IF LiveBills(r) = {} THEN {None} ELSE LiveBills(r) :
              Goes(k, [t EXCEPT !.at = "write", !.to = r, !.bill = b, !.left = @ \ {r}])
  /\ UNCHANGED <<planning, bills, ledgers, locked>>

Charge(share) == share * Markup + Fee

GenerateWrite(k) ==
  LET t == task[k]
      net == Charge(t.split[t.to])
  IN  /\ At(k, "write")
      /\ IF t.bill # None
         THEN bills' = [bills EXCEPT ![t.bill].net = net]
         ELSE \E b \in Bills \ Existing :
                bills' = [bills EXCEPT ![b] = [status |-> "draft", recipient |-> t.to, net |-> net,
                                               credit |-> FALSE]]
      /\ IF t.left # {} THEN Then(k, "find")
         ELSE IF t.close THEN Then(k, "lock") ELSE Goes(k, Idle)
      /\ UNCHANGED <<planning, ledgers, locked>>

-----------------------------------------------------------------------------
(* lockPeriod, the last part of runMonthClose or a request of its own, and *)
(* unlockPeriod.                                                           *)
SetLock(k) ==
  /\ \/ GoOrBegin(k, "lock", Idle) /\ locked' = TRUE
     \/ Begin(k, Idle) /\ locked' = FALSE
  /\ UNCHANGED <<planning, bills, ledgers>>

-----------------------------------------------------------------------------
(* issueInvoice: the bill and the lock are read, the status is set, the    *)
(* bill is posted.                                                         *)
MutantUnlocked == TRUE  \* assertNotLocked left out
Unlocked == ~locked

IssueRead(k) ==
  /\ \E b \in Existing : Unlocked /\ Begin(k, [Idle EXCEPT !.at = "issue", !.bill = b])
  /\ UNCHANGED <<planning, bills, ledgers, locked>>

IssueWrite(k) ==
  LET b == task[k].bill IN
  /\ At(k, "issue")
  /\ bills' = [bills EXCEPT ![b].status = "issued"]
  /\ torn' = torn \cup {b}
  /\ Then(k, "post")
  /\ UNCHANGED <<planning, banked, owing, books, paying, locked>>

(* createCreditNote: of the whole bill or of a part, and not only once.    *)
CreditRead(k) ==
  /\ \E b \in Existing : \E n \in Sums \cup {bills[b].net} :
       Begin(k, [Idle EXCEPT !.at = "credit", !.to = bills[b].recipient, !.net = -n])
  /\ UNCHANGED <<planning, bills, ledgers, locked>>

CreditWrite(k) ==
  LET t == task[k] IN
  /\ At(k, "credit")
  /\ \E b \in Bills \ Existing :
       /\ bills' = [bills EXCEPT ![b] = [status |-> "issued", recipient |-> t.to, net |-> t.net,
                                         credit |-> TRUE]]
       /\ torn' = torn \cup {b}
       /\ Goes(k, [t EXCEPT !.at = "post", !.bill = b])
  /\ UNCHANGED <<planning, banked, owing, books, paying, locked>>

(* postAllInvoicesForPeriod: every bill, drafts and credit notes too.      *)
PostAllRead(k) ==
  /\ Begin(k, [Idle EXCEPT !.at = "another", !.left = Existing])
  /\ UNCHANGED <<planning, bills, ledgers, locked>>

PostAnother(k) ==
  /\ At(k, "another")
  /\ \/ /\ task[k].left = {}
        /\ Goes(k, Idle)
     \/ \E b \in task[k].left :
          Goes(k, [task[k] EXCEPT !.at = "post", !.bill = b, !.left = @ \ {b}])
  /\ UNCHANGED <<planning, bills, ledgers, locked>>

(* postInvoiceToLedger: the amount is read, the old entries are deleted,   *)
(* the seller's entry and the buyer's are created.                         *)
PostRead(k) ==
  /\ At(k, "post")
  /\ Goes(k, [task[k] EXCEPT !.at = "unpost", !.net = bills[task[k].bill].net])
  /\ UNCHANGED <<planning, bills, ledgers, locked>>

Unposted(b) == EmptyBag

PostDelete(k) ==
  LET b == task[k].bill IN
  /\ At(k, "unpost")
  /\ books' = [books EXCEPT ![b] = Unposted(b)]
  /\ torn' = torn \cup {b}
  /\ Then(k, "seller")
  /\ UNCHANGED <<planning, bills, banked, owing, paying, locked>>

MutantPost(b, side, n) ==  \* both entries are the seller's
  books' = [books EXCEPT ![b] = @ (+) SetToBag({[side |-> "seller", net |-> n]})]
Post(b, side, n) == books' = [books EXCEPT ![b] = @ (+) SetToBag({[side |-> side, net |-> n]})]

PostSeller(k) ==
  /\ At(k, "seller")
  /\ Post(task[k].bill, "seller", task[k].net)
  /\ Then(k, "buyer")
  /\ UNCHANGED <<planning, bills, banked, owing, torn, paying, locked>>

PostBuyer(k) ==
  /\ At(k, "buyer")
  /\ Post(task[k].bill, "buyer", task[k].net)
  /\ torn' = torn \ {task[k].bill}
  /\ Goes(k, [Idle EXCEPT !.at = "another", !.left = task[k].left])
  /\ UNCHANGED <<planning, bills, banked, owing, paying, locked>>

-----------------------------------------------------------------------------
(* recordIntercompanyPayment: the payment, a withholding note for the      *)
(* whole bill, then the status from the payments read again: one that was  *)
(* paid and is no more becomes issued again, in a locked period too.       *)
PayInvoice(k) ==
  /\ \E b \in Existing, n \in Sums : Begin(k, [Idle EXCEPT !.at = "pay", !.bill = b, !.net = n])
  /\ UNCHANGED <<planning, bills, ledgers, locked>>

PaymentCreate(k) ==
  /\ At(k, "pay")
  /\ banked' = [banked EXCEPT ![task[k].bill] = @ + task[k].net]
  /\ paying' = [paying EXCEPT ![task[k].bill] = "late"]
  /\ Then(k, "note")
  /\ UNCHANGED <<planning, bills, owing, books, torn, locked>>

NoteCreate(k) ==
  /\ At(k, "note")
  /\ owing' = TRUE
  /\ Then(k, "sum")
  /\ UNCHANGED <<planning, bills, banked, books, torn, paying, locked>>

MutantStatusFor(b, paid) == IF paid > 0 THEN "paid" ELSE bills[b].status
StatusFor(b, paid) ==
  IF paid >= bills[b].net THEN "paid"
  ELSE IF paid > 0 THEN "partPaid"
  ELSE IF bills[b].status = "draft" THEN "draft" ELSE "issued"

SumRead(k) ==
  LET b == task[k].bill IN
  /\ At(k, "sum")
  /\ Goes(k, [task[k] EXCEPT !.at = "settle", !.to = StatusFor(b, banked[b])])
  /\ UNCHANGED <<planning, bills, ledgers, locked>>

SumWrite(k) ==
  /\ At(k, "settle")
  /\ bills' = [bills EXCEPT ![task[k].bill].status = task[k].to]
  /\ paying' = [paying EXCEPT ![task[k].bill] = "summed"]
  /\ Goes(k, Idle)
  /\ UNCHANGED <<planning, banked, owing, books, torn, locked>>

(* markRemitted: all pending notes in one statement.                       *)
Remit(k) ==
  /\ owing
  /\ owing' = FALSE
  /\ Begin(k, Idle)
  /\ UNCHANGED <<planning, bills, banked, books, torn, paying, locked>>

(* A handler throws, or the server stops.                                  *)
TaskStops(k) ==
  /\ ~At(k, "idle")
  /\ Goes(k, Idle)
  /\ UNCHANGED <<planning, bills, ledgers, locked>>

-----------------------------------------------------------------------------
FinanceStep(k) ==
  \/ AskPool(k) \/ PoolUpsert(k) \/ WeightsDelete(k) \/ WeightsCreate(k)
  \/ AllocateRead(k) \/ AllocateDelete(k) \/ AllocateCreate(k)
  \/ GenerateRead(k) \/ GenerateFind(k) \/ GenerateWrite(k)
  \/ SetLock(k) \/ IssueRead(k) \/ IssueWrite(k) \/ CreditRead(k) \/ CreditWrite(k)
  \/ PostAllRead(k) \/ PostAnother(k) \/ PostRead(k) \/ PostDelete(k) \/ PostSeller(k) \/ PostBuyer(k)
  \/ PayInvoice(k) \/ PaymentCreate(k) \/ NoteCreate(k) \/ SumRead(k) \/ SumWrite(k)
  \/ Remit(k) \/ TaskStops(k)

IntercompanyNext ==
  \E k \in Clerks : /\ FinanceStep(k)
                    /\ calm' = (calm /\ \A j \in Clerks \ {k} : At(j, "idle"))

-----------------------------------------------------------------------------
(* While requests are served one at a time, wherever they stop: a bill     *)
(* whose last posting came to its end has one entry of the seller and one  *)
(* of the buyer for the same amount, or none; and one that is issued and   *)
(* was never paid has them (postInvoiceToLedger, issueInvoice,             *)
(* createCreditNote).  A payment can make a draft issued that no one       *)
(* posted: paid first and then taken back.                                 *)
BooksBalance ==
  calm => \A b \in Bills \ torn :
    \/ books[b] = EmptyBag /\ (bills[b].status = "issued" => paying[b] # "unpaid")
    \/ \E seller, buyer \in BagToSet(books[b]) :
         /\ books[b] = SetToBag({seller, buyer})
         /\ seller.side = "seller" /\ buyer.side = "buyer" /\ seller.net = buyer.net

(* While requests are served one at a time, a paid bill whose last payment *)
(* was not cut short before the status was written has payments for its    *)
(* amount: bills are generated again only while they are not paid, and a   *)
(* payment that takes money back is summed again (recomputeInvoiceStatus,  *)
(* generateIntercompanyInvoices).                                          *)
PaidIsBanked ==
  calm => \A b \in Bills :
    bills[b].status = "paid" /\ paying[b] # "late" => banked[b] >= bills[b].net

(* While requests are served one at a time, a month that runMonthClose     *)
(* locks is complete: the allocations add up to the pool, to within the    *)
(* tolerance of the weights, and every recipient has a live bill for its   *)
(* share.  A close that fails on the way leaves the period open.           *)
CloseIsComplete ==
  [][\A k \in Clerks : calm' /\ At(k, "lock") /\ locked' /\ ~locked =>
       /\ \E parts \in Whole - Tolerance .. Whole + Tolerance : SumOf(shares) = parts * pool
       /\ \A r \in DOMAIN shares : \E b \in LiveBills(r) : bills[b].net = Charge(shares[r])]_finance

(* While requests are served one at a time, a bill of a locked period      *)
(* becomes issued in one way only: it was no draft, and a payment taken    *)
(* back leaves nothing paid of it (assertNotLocked in issueInvoice,        *)
(* recomputeInvoiceStatus).  New credit notes are excepted, since          *)
(* createCreditNote does not look at the lock.                             *)
LockHolds ==
  [][\A b \in Existing :
       calm' /\ locked /\ bills'[b].status = "issued" /\ bills[b].status # "issued" =>
         bills[b].status # "draft" /\ banked[b] <= 0]_finance
===============================================================================
