------------------------------- MODULE Imports --------------------------------
(***************************************************************************)
(* The import shipments of procurement/procurement.service.ts: a draft     *)
(* that may be written again, extra costs, the finalisation that shares    *)
(* the costs out over the lines, and the goods receipt that adds to the    *)
(* stock.  Requests run at once; an action is one statement or one         *)
(* transaction.  Amounts are in the subsidiary's currency (the rate of a   *)
(* shipment multiplies all of its amounts alike), a product stands for a   *)
(* product and variant, and the landed cost of a line is represented by    *)
(* the extra costs it was computed from: amount + share * amount / base.   *)
(***************************************************************************)
EXTENDS Requests, Integers, Sequences, FiniteSets, Functions

CONSTANTS Shipments,  \* references of import shipments (bound)
          Lines,      \* ids of import_shipment_lines (bound)
          Receipts,   \* ids of goods_receipts (bound)
          Products,   \* products and variants
          Drafts,     \* lines of POST /imports: a quantity and an amount per product
          Bodies,     \* lines of POST /imports/:id/receive: a product and the quantity accepted
          Costs,      \* amounts of POST /imports/:id/costs
          MaxCosts    \* bound on the costs of a shipment

ASSUME ImportAssumption ==
  /\ \A d \in Drafts : \E S \in SUBSET Products :
       S # {} /\ d \in [S -> [quantity : Nat \ {0}, amount : Nat]]
  /\ \A b \in Bodies : b \in Seq([product : Products, received : Nat]) /\ b # <<>>
  /\ Costs \subseteq Nat /\ MaxCosts \in Nat
  /\ IsFiniteSet(Lines) /\ IsFiniteSet(Receipts) /\ IsFiniteSet(Products)
  /\ None \notin Shipments \cup Products \cup Nat

VARIABLES shipments,  \* status, base, total and the sum of the cost lines
          lines,      \* shipment, product, quantity, amount, share
          receipts,   \* shipment and the lines received
          onHand,     \* units per product, over the stock levels of the subsidiary
          call,       \* per client, the request it serves and what it has read
          serial      \* history: no two requests have been served at once

imports == <<shipments, lines, receipts, onHand, call, serial>>

NoShipment == [status |-> "absent", base |-> 0, total |-> 0, costs |-> 0]
NoLine == [shipment |-> None, product |-> None, quantity |-> 0, amount |-> 0, share |-> None]
NoReceipt == [shipment |-> None, lines |-> <<>>]
Gone == [NoLine EXCEPT !.quantity = 1]  \* a deleted line: its id is not used again
Free == [op |-> "free", shipment |-> None, draft |-> <<>>, read |-> {}, extra |-> 0,
         body |-> <<>>, cost |-> 0]

ImportsInit ==
  /\ shipments = [s \in Shipments |-> NoShipment]
  /\ lines = [l \in Lines |-> NoLine]
  /\ receipts = [r \in Receipts |-> NoReceipt]
  /\ onHand = [p \in Products |-> 0]
  /\ call = [c \in Clients |-> Free]
  /\ serial = TRUE

LinesOf(s) == {l \in Lines : lines[l].shipment = s}
MutantUnreceived(s) == shipments[s].status # "absent"  \* the check for received forgotten
Unreceived(s) == shipments[s].status \in {"draft", "cleared"}
Amount(S) == SumFunctionOnSet([l \in Lines |-> lines[l].amount], S)
Read(c, next) == call' = [call EXCEPT ![c] = next]
Done(c) == Read(c, Free)

-----------------------------------------------------------------------------
(* createImportShipment: the status is read, then the shipment is          *)
(* upserted, its lines deleted and created anew, its total set to the      *)
(* base amount.  Cost lines stay.                                          *)
DraftRead(c) ==
  /\ call[c].op = "free"
  /\ \E s \in Shipments, d \in Drafts :
       /\ shipments[s].status \in {"absent", "draft"}
       /\ Read(c, [Free EXCEPT !.op = "upsert", !.shipment = s, !.draft = d])
  /\ UNCHANGED <<shipments, lines, receipts, onHand>>

DraftLines(s, d, id) ==
  [l \in Lines |->
     IF l \in Range(id)
     THEN LET p == CHOOSE p \in DOMAIN d : id[p] = l
          IN  [shipment |-> s, product |-> p, quantity |-> d[p].quantity,
               amount |-> d[p].amount, share |-> None]
     ELSE IF lines[l].shipment = s THEN Gone ELSE lines[l]]

DraftWrite(c) ==
  LET s == call[c].shipment
      d == call[c].draft
      base == SumFunction([p \in DOMAIN d |-> d[p].amount])
      was == shipments[s]
  IN  /\ call[c].op = "upsert"
      /\ \E id \in Injection(DOMAIN d, {l \in Lines : lines[l] = NoLine}) :
           lines' = DraftLines(s, d, id)
      /\ shipments' = [shipments EXCEPT ![s] =
           [status |-> IF was.status = "absent" THEN "draft" ELSE was.status,
            base |-> base, total |-> base, costs |-> was.costs]]
      /\ Done(c)
      /\ UNCHANGED <<receipts, onHand>>

-----------------------------------------------------------------------------
(* addImportCosts: check, insert, read all of it again, write the total.   *)
CostsCheck(c) ==
  /\ call[c].op = "free"
  /\ \E s \in Shipments, n \in Costs :
       /\ Unreceived(s)
       /\ shipments[s].costs + n <= MaxCosts
       /\ Read(c, [Free EXCEPT !.op = "insert", !.shipment = s, !.cost = n])
  /\ UNCHANGED <<shipments, lines, receipts, onHand>>

CostsInsert(c) ==
  /\ call[c].op = "insert"
  /\ shipments' = [shipments EXCEPT ![call[c].shipment].costs = @ + call[c].cost]
  /\ Read(c, [call[c] EXCEPT !.op = "reread"])
  /\ UNCHANGED <<lines, receipts, onHand>>

MutantWithCosts(s, n) == shipments[s].base + n  \* only the costs of this request
WithCosts(s, n) == shipments[s].base + shipments[s].costs

CostsReread(c) ==
  /\ call[c].op = "reread"
  /\ Read(c, [call[c] EXCEPT !.op = "total",
                             !.extra = WithCosts(call[c].shipment, call[c].cost)])
  /\ UNCHANGED <<shipments, lines, receipts, onHand>>

CostsWrite(c) ==
  /\ call[c].op = "total"
  /\ shipments' = [shipments EXCEPT ![call[c].shipment].total = call[c].extra]
  /\ Done(c)
  /\ UNCHANGED <<lines, receipts, onHand>>

-----------------------------------------------------------------------------
(* finalizeImportShipment: computed from what was read, written in one     *)
(* transaction that fails when a line is gone.                             *)
FinalizeRead(c) ==
  /\ call[c].op = "free"
  /\ \E s \in Shipments :
       /\ Unreceived(s)
       /\ LinesOf(s) # {}
       /\ Read(c, [Free EXCEPT !.op = "finalize", !.shipment = s, !.read = LinesOf(s),
                               !.extra = shipments[s].costs])
  /\ UNCHANGED <<shipments, lines, receipts, onHand>>

FinalizeWrite(c) ==
  LET k == call[c] IN
  /\ k.op = "finalize"
  /\ k.read \subseteq LinesOf(k.shipment)
  /\ lines' = [l \in Lines |-> IF l \in k.read THEN [lines[l] EXCEPT !.share = k.extra]
                                               ELSE lines[l]]
  /\ shipments' = [shipments EXCEPT ![k.shipment] =
       [@ EXCEPT !.status = "cleared", !.base = Amount(k.read), !.total = Amount(k.read) + k.extra]]
  /\ Done(c)
  /\ UNCHANGED <<receipts, onHand>>

-----------------------------------------------------------------------------
(* receiveImportShipment: the shipment, then its receipts are read; each   *)
(* line of the body must be a line of the shipment, and what it does not   *)
(* accept it rejects.  A body need not name every line, nor each once.     *)
ReceiveRead(c) ==
  /\ call[c].op = "free"
  /\ \E s \in Shipments, b \in Bodies :
       /\ Unreceived(s)
       /\ Read(c, [Free EXCEPT !.op = "check", !.shipment = s, !.body = b,
            !.read = {[line |-> l, product |-> lines[l].product, quantity |-> lines[l].quantity,
                       share |-> lines[l].share] : l \in LinesOf(s)}])
  /\ UNCHANGED <<shipments, lines, receipts, onHand>>

Received(s) == \E r \in Receipts : receipts[r].shipment = s

Matching(k, entry) ==
  {row \in k.read : row.product = entry.product /\ entry.received <= row.quantity}

ReceiveCheck(c) ==
  LET k == call[c] IN
  /\ k.op = "check"
  /\ ~Received(k.shipment)
  /\ \A i \in DOMAIN k.body : Matching(k, k.body[i]) # {}
  /\ Read(c, [k EXCEPT !.op = "receive"])
  /\ UNCHANGED <<shipments, lines, receipts, onHand>>

(* The transaction: the receipt with a foreign key to each line, an        *)
(* increment of the stock per line of the body, the status.                *)
ReceiptLine(k, entry) ==
  LET row == CHOOSE row \in Matching(k, entry) : TRUE
  IN  [line |-> row.line, product |-> row.product, received |-> entry.received,
       share |-> row.share]

Units(entries, p) ==
  SumFunction([i \in DOMAIN entries |-> IF entries[i].product = p THEN entries[i].received ELSE 0])

MutantStocked(p, body) == IF onHand[p] = 0 THEN Units(body, p) ELSE onHand[p]  \* no increment
Stocked(p, body) == onHand[p] + Units(body, p)

ReceiveWrite(c) ==
  LET k == call[c]
      received == [i \in DOMAIN k.body |-> ReceiptLine(k, k.body[i])]
  IN  /\ k.op = "receive"
      /\ \A i \in DOMAIN received : lines[received[i].line] # Gone
      /\ \E r \in Receipts :
           /\ receipts[r] = NoReceipt
           /\ receipts' = [receipts EXCEPT ![r] = [shipment |-> k.shipment, lines |-> received]]
      /\ onHand' = [p \in Products |-> Stocked(p, k.body)]
      /\ shipments' = [shipments EXCEPT ![k.shipment].status = "received"]
      /\ Done(c)
      /\ UNCHANGED lines

(* A request is refused, a transaction rolled back, the server stops.      *)
Stop(c) ==
  /\ call[c].op # "free"
  /\ Done(c)
  /\ UNCHANGED <<shipments, lines, receipts, onHand>>

-----------------------------------------------------------------------------
Serve(c) ==
  \/ DraftRead(c) \/ DraftWrite(c)
  \/ CostsCheck(c) \/ CostsInsert(c) \/ CostsReread(c) \/ CostsWrite(c)
  \/ FinalizeRead(c) \/ FinalizeWrite(c)
  \/ ReceiveRead(c) \/ ReceiveCheck(c) \/ ReceiveWrite(c)
  \/ Stop(c)

Alone == \A c, d \in Clients : call[c].op # "free" /\ call[d].op # "free" => c = d

ImportsNext ==
  /\ \E c \in Clients : Serve(c)
  /\ serial' = (serial /\ Alone')

-----------------------------------------------------------------------------
(* Stock comes in through receipts only and every receipt counts in full,  *)
(* however requests interleave: each one increments the level it finds     *)
(* (receiveImportShipment).                                                *)
StockIsReceived ==
  \A p \in Products :
    onHand[p] = SumFunction([r \in Receipts |-> Units(receipts[r].lines, p)])

(* While requests are served one at a time, and whichever of them stop     *)
(* half way, a cleared shipment has a landed cost on every line, all       *)
(* computed from the same extra costs, and its total lies between what the *)
(* lines carry and what its cost lines sum up to (addImportCosts,          *)
(* finalizeImportShipment): costs added after clearance are in the total   *)
(* and on no line.                                                         *)
LandedWithinTotal ==
  serial => \A s \in Shipments : shipments[s].status = "cleared" =>
    LET m == shipments[s] IN
    /\ m.base = Amount(LinesOf(s))
    /\ \E share \in 0..m.costs :
         /\ \A l \in LinesOf(s) : lines[l].share = share
         /\ m.base + share <= m.total
    /\ m.total <= m.base + m.costs

(* While requests are served one at a time a shipment is received by one   *)
(* receipt, after which neither its lines nor their landed costs change:   *)
(* the receipt keeps the costs the stock was valued at                     *)
(* (receiveImportShipment and the status checks of the other handlers).    *)
ReceiptMatchesShipment ==
  serial => \A s \in Shipments :
    LET mine == {r \in Receipts : receipts[r].shipment = s} IN
    /\ shipments[s].status = "received" <=> mine # {}
    /\ \A r, q \in mine : r = q
    /\ \A r \in mine : \A e \in Range(receipts[r].lines) :
         /\ lines[e.line].shipment = s
         /\ [product |-> e.product, share |-> e.share] =
              [product |-> lines[e.line].product, share |-> lines[e.line].share]
         /\ e.received <= lines[e.line].quantity
===============================================================================
