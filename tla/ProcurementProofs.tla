-------------------------- MODULE ProcurementProofs --------------------------
(***************************************************************************)
(* Procurement, for any number of requests, rows and amounts: supplier     *)
(* invoices agree with their payments and the ledger, received stock with  *)
(* the receipts, and a shipment with its lines and its receipt.  The sums  *)
(* are those of SumTheorems.                                               *)
(***************************************************************************)
EXTENDS BackOffice, SumTheorems

-----------------------------------------------------------------------------
(* SUPPLIER INVOICES AND PAYMENTS                                          *)
InvoiceRow == [status : {"absent", "open", "partial", "paid"}, total : Nat]
PaymentRow == [invoice : Invoices \cup {None}, amount : Nat]
DeskRow == [invoice : Invoices \cup {None}, amount : Nat, read : SUBSET Payments]

PayablesTypes ==
  /\ invoices \in [Invoices -> InvoiceRow]
  /\ payments \in [Payments -> PaymentRow]
  /\ ledger \in [Accounts -> Int]
  /\ desk \in [Clients -> DeskRow]
  /\ apart \in BOOLEAN

(* An invoice that was not created is blank and has no payments.           *)
AbsentUnpaid ==
  \A i \in Invoices : invoices[i].status = "absent" <=> invoices[i] = NoInvoice
AbsentHasNone ==
  \A i \in Invoices : invoices[i].status = "absent" => PaymentsOf(i) = {}

(* A request that has read is about an invoice that exists, and what it    *)
(* read are payments of that invoice.                                      *)
DeskKnows ==
  \A c \in Clients : desk[c] # Away =>
    /\ desk[c].invoice \in Invoices /\ desk[c].amount > 0
    /\ invoices[desk[c].invoice].status # "absent"
    /\ desk[c].read \subseteq PaymentsOf(desk[c].invoice)

(* While requests are served one at a time, it read all of them.           *)
DeskIsCurrent ==
  apart =>
    /\ \A c, d \in Clients : desk[c] # Away /\ desk[d] # Away => c = d
    /\ \A c \in Clients : desk[c] # Away => desk[c].read = PaymentsOf(desk[c].invoice)

PayablesInv ==
  /\ PayablesTypes /\ AbsentUnpaid /\ AbsentHasNone /\ DeskKnows /\ DeskIsCurrent
  /\ PayablesAgree

(* The payments of an invoice and what a set of payments comes to, in a    *)
(* table f.                                                                *)
OfInvoice(f, i) == {p \in Payments : f[p].invoice = i}
PaidIn(f, S) == SumFunctionOnSet([p \in Payments |-> f[p].amount], S)

LEMMA PaidType ==
  ASSUME NEW f \in [Payments -> PaymentRow], NEW S \in SUBSET Payments
  PROVE  PaidIn(f, S) \in Nat
<1>1. IsFiniteSet(S)
  BY PayableAssumption, FS_Subset
<1>2. \A x \in S : [p \in Payments |-> f[p].amount][x] \in Nat
  BY DEF PaymentRow
<1> QED BY <1>1, <1>2, SumType DEF PaidIn

(* Fewer payments do not come to more.                                     *)
LEMMA FewerPaid ==
  ASSUME NEW f \in [Payments -> PaymentRow], NEW S \in SUBSET Payments, NEW T \in SUBSET S
  PROVE  PaidIn(f, T) <= PaidIn(f, S)
<1>1. IsFiniteSet(S)
  BY PayableAssumption, FS_Subset
<1>2. \A x \in S : [p \in Payments |-> f[p].amount][x] \in Nat
  BY DEF PaymentRow
<1> QED BY <1>1, <1>2, SumSubset DEF PaidIn

(* A payment more, of n for the invoice i, of those in f.                  *)
LEMMA PaymentAdds ==
  ASSUME NEW f \in [Payments -> PaymentRow], NEW g \in [Payments -> PaymentRow],
         NEW p \in Payments, f[p] = NoPayment, NEW i \in Invoices, NEW n \in Nat,
         g[p].invoice = i, g[p].amount = n, \A q \in Payments : q # p => g[q] = f[q]
  PROVE  /\ OfInvoice(g, i) = OfInvoice(f, i) \cup {p}
         /\ PaidIn(g, OfInvoice(g, i)) = PaidIn(f, OfInvoice(f, i)) + n
         /\ \A j \in Invoices : j # i =>
              /\ OfInvoice(g, j) = OfInvoice(f, j)
              /\ PaidIn(g, OfInvoice(g, j)) = PaidIn(f, OfInvoice(f, j))
<1> DEFINE a == [q \in Payments |-> f[q].amount]
           b == [q \in Payments |-> g[q].amount]
<1>1. f[p].invoice = None /\ None \notin Invoices
  BY PayableAssumption DEF NoPayment
<1>2. p \notin OfInvoice(f, i) /\ OfInvoice(g, i) = OfInvoice(f, i) \cup {p}
  BY <1>1 DEF OfInvoice
<1>3. \A j \in Invoices : j # i => OfInvoice(g, j) = OfInvoice(f, j) /\ p \notin OfInvoice(f, j)
  BY <1>1 DEF OfInvoice
<1>4. \A S \in SUBSET (Payments \ {p}) : SumFunctionOnSet(b, S) = SumFunctionOnSet(a, S)
  <2> SUFFICES ASSUME NEW S \in SUBSET (Payments \ {p})
               PROVE  SumFunctionOnSet(b, S) = SumFunctionOnSet(a, S)
    OBVIOUS
  <2>1. IsFiniteSet(S)
    BY PayableAssumption, FS_Subset
  <2>2. \A x \in S : b[x] = a[x]
    OBVIOUS
  <2> QED BY <2>1, <2>2, SumSame
<1>5. \A j \in Invoices : OfInvoice(f, j) \in SUBSET (Payments \ {p})
  BY <1>1 DEF OfInvoice
<1>6. SumFunctionOnSet(b, OfInvoice(f, i) \cup {p}) = n + SumFunctionOnSet(b, OfInvoice(f, i))
  <2>1. IsFiniteSet(OfInvoice(f, i))
    BY PayableAssumption, FS_Subset DEF OfInvoice
  <2>2. \A x \in OfInvoice(f, i) \cup {p} : b[x] \in Int
    BY DEF OfInvoice, PaymentRow
  <2>3. b[p] = n
    OBVIOUS
  <2> HIDE DEF b
  <2> QED BY <1>2, <2>1, <2>2, <2>3, SumInsert
<1>7. SumFunctionOnSet(a, OfInvoice(f, i)) \in Nat
  <2>1. OfInvoice(f, i) \in SUBSET Payments
    BY DEF OfInvoice
  <2> QED BY <2>1, PaidType DEF PaidIn
<1>8. PaidIn(g, OfInvoice(g, i)) = PaidIn(f, OfInvoice(f, i)) + n
  <2> HIDE DEF a, b
  <2>1. SumFunctionOnSet(b, OfInvoice(f, i)) = SumFunctionOnSet(a, OfInvoice(f, i))
    BY <1>4, <1>5
  <2>2. SumFunctionOnSet(b, OfInvoice(g, i)) = SumFunctionOnSet(a, OfInvoice(f, i)) + n
    BY <1>2, <1>6, <1>7, <2>1
  <2> QED BY <2>2 DEF PaidIn, a, b
<1>9. \A j \in Invoices : j # i => PaidIn(g, OfInvoice(g, j)) = PaidIn(f, OfInvoice(f, j))
  BY <1>3, <1>4, <1>5 DEF PaidIn
<1> QED BY <1>2, <1>3, <1>8, <1>9

LEMMA PayablesStart == PayablesInit => PayablesInv
<1> SUFFICES ASSUME PayablesInit PROVE PayablesInv
  OBVIOUS
<1>0. /\ invoices = [i \in Invoices |-> NoInvoice]
      /\ payments = [p \in Payments |-> NoPayment]
      /\ ledger = [a \in Accounts |-> 0] /\ desk = [c \in Clients |-> Away] /\ apart = TRUE
  BY DEF PayablesInit
<1>1. PayablesTypes
  BY <1>0 DEF PayablesTypes, InvoiceRow, PaymentRow, DeskRow, NoInvoice, NoPayment, Away
<1>2. \A i \in Invoices : PaymentsOf(i) = {} /\ invoices[i] = NoInvoice
  BY <1>0, PayableAssumption DEF PaymentsOf, NoPayment
<1>3. \A i \in Invoices : Paid(PaymentsOf(i)) = 0
  BY <1>2, SumEmpty DEF Paid
<1>4. \A i \in Invoices : Owed(i) = 0
  BY <1>2, <1>3 DEF Owed, NoInvoice
<1>5. SumFunction([i \in Invoices |-> Owed(i)]) = 0
  <2> DEFINE f == [i \in Invoices |-> Owed(i)]
  <2>1. f \in [Invoices -> Int] /\ \A x \in Invoices : f[x] = 0
    BY <1>4
  <2> HIDE DEF f
  <2>2. SumFunction(f) = 0
    BY <2>1, PayableAssumption, TotalZero
  <2> QED BY <2>2 DEF f
<1>6. ledger["payable"] = 0 /\ \A i \in Invoices : invoices[i].status = "absent"
  BY <1>0, <1>2 DEF Accounts, NoInvoice
<1>7. PayablesAgree
  <2>1. \A x, y \in Int : x + y = 0 => -x = y
    OBVIOUS
  <2>2. ledger["payable"] \in Int /\ 0 \in Int /\ ledger["payable"] + 0 = 0
    BY <1>6
  <2>3. -ledger["payable"] = 0
    BY <2>1, <2>2, Zenon
  <2>4. -ledger["payable"] = SumFunction([i \in Invoices |-> Owed(i)])
    BY <1>5, <2>3, Zenon
  <2> QED BY <1>2, <1>6, <2>4 DEF PayablesAgree
<1> QED BY <1>0, <1>1, <1>2, <1>6, <1>7 DEF PayablesInv, AbsentUnpaid, AbsentHasNone, DeskKnows, DeskIsCurrent

(* What is owed in all after one invoice's share changed by n.             *)
LEMMA OwedChanges ==
  ASSUME PayablesTypes, PayablesTypes', NEW i \in Invoices, NEW n \in Int, Owed(i)' = Owed(i) + n,
         \A j \in Invoices : j # i => Owed(j)' = Owed(j)
  PROVE  /\ SumFunction([j \in Invoices |-> Owed(j)]) \in Int
         /\ SumFunction([j \in Invoices |-> Owed(j)])' = SumFunction([j \in Invoices |-> Owed(j)]) + n
<1> DEFINE f == [j \in Invoices |-> Owed(j)]
           g == [j \in Invoices |-> Owed(j)']
<1>1. \A j \in Invoices : Owed(j) \in Int /\ Owed(j)' \in Int
  <2> TAKE j \in Invoices
  <2>1. Paid(PaymentsOf(j)) \in Nat
    BY PaidType DEF PaymentsOf, Paid, PaidIn, PayablesTypes
  <2>2. Paid(PaymentsOf(j))' \in Nat
    <3> DEFINE pays == payments'
    <3>1. pays \in [Payments -> PaymentRow]
      BY DEF PayablesTypes
    <3> HIDE DEF pays
    <3>2. PaidIn(pays, OfInvoice(pays, j)) \in Nat
      BY <3>1, PaidType DEF OfInvoice
    <3> QED BY <3>2 DEF pays, PaymentsOf, OfInvoice, Paid, PaidIn
  <2>3. invoices[j].total \in Nat /\ invoices'[j].total \in Nat
    BY DEF PayablesTypes, InvoiceRow
  <2> QED BY <2>1, <2>2, <2>3 DEF Owed
<1>2. f \in [Invoices -> Int] /\ g \in [Invoices -> Int]
  BY <1>1
<1>3. g[i] = f[i] + n /\ \A j \in Invoices : j # i => g[j] = f[j]
  OBVIOUS
<1> HIDE DEF f, g
<1>4. SumFunction(f) \in Int /\ SumFunction(g) = SumFunction(f) + n
  BY <1>2, <1>3, PayableAssumption, TotalAdds
<1> QED BY <1>4 DEF f, g

(* createSupplierInvoice                                                   *)
LEMMA CreateInvoiceKeeps ==
  ASSUME PayablesInv, NEW c \in Clients, CreateInvoice(c),
         apart' = (apart /\ \A a, b \in Clients : desk'[a] # Away /\ desk'[b] # Away => a = b)
  PROVE  PayablesInv'
<1>1. PICK i \in Invoices, n \in Totals :
        /\ invoices[i].status = "absent"
        /\ invoices' = [invoices EXCEPT ![i] = [status |-> "open", total |-> n]]
        /\ ledger' = Posted(n, "expense", "payable")
  BY DEF CreateInvoice
<1>2. UNCHANGED <<payments, desk>>
  BY DEF CreateInvoice
<1>3. n \in Nat
  BY PayableAssumption
<1>4. PayablesTypes'
  BY <1>1, <1>2, <1>3 DEF PayablesInv, PayablesTypes, InvoiceRow, Posted, Accounts
<1>5. /\ invoices'[i].status = "open" /\ invoices'[i].total = n
      /\ invoices[i] = NoInvoice /\ PaymentsOf(i) = {}
      /\ \A j \in Invoices : j # i => invoices'[j] = invoices[j]
  BY <1>1 DEF PayablesInv, PayablesTypes, AbsentUnpaid, AbsentHasNone
<1>6. \A j \in Invoices : PaymentsOf(j)' = PaymentsOf(j) /\ Paid(PaymentsOf(j))' = Paid(PaymentsOf(j))
  BY <1>2 DEF PaymentsOf, Paid
<1>7. AbsentUnpaid' /\ AbsentHasNone' /\ DeskKnows'
  BY <1>2, <1>5, <1>6 DEF PayablesInv, AbsentUnpaid, AbsentHasNone, DeskKnows, NoInvoice, Away
<1>8. DeskIsCurrent'
  BY <1>2, <1>6 DEF PayablesInv, DeskIsCurrent, DeskKnows
<1>9. Paid(PaymentsOf(i)) = 0
  BY <1>5, SumEmpty DEF Paid
<1>10. Owed(i)' = Owed(i) + n /\ \A j \in Invoices : j # i => Owed(j)' = Owed(j)
  <2>1. Paid(PaymentsOf(i))' = 0 /\ invoices[i].total = 0
    BY <1>5, <1>6, <1>9 DEF NoInvoice
  <2>2. Owed(i) = 0 /\ Owed(i)' = n
    BY <1>3, <1>5, <1>9, <2>1 DEF Owed
  <2>3. \A j \in Invoices : j # i => Owed(j)' = Owed(j)
    BY <1>5, <1>6 DEF Owed
  <2> QED BY <1>3, <2>2, <2>3
<1>11. -ledger'["payable"] = -ledger["payable"] + n /\ ledger["payable"] \in Int
  BY <1>1, <1>3 DEF PayablesInv, PayablesTypes, Posted, Accounts
<1>12. -ledger'["payable"] = SumFunction([j \in Invoices |-> Owed(j)])'
  <2>1. -ledger["payable"] = SumFunction([j \in Invoices |-> Owed(j)])
    BY DEF PayablesInv, PayablesAgree
  <2>2. PayablesTypes /\ n \in Int
    BY <1>3 DEF PayablesInv
  <2>3. SumFunction([j \in Invoices |-> Owed(j)])' = SumFunction([j \in Invoices |-> Owed(j)]) + n
    BY <1>4, <1>10, <2>2, OwedChanges
  <2> QED BY <1>11, <2>1, <2>3
<1>13. PayablesAgree'
  <2>1. \A j \in Invoices : invoices'[j].status = "paid" => Paid(PaymentsOf(j))' >= invoices'[j].total
    BY <1>5, <1>6 DEF PayablesInv, PayablesAgree
  <2>2. ASSUME apart', NEW j \in Invoices
        PROVE  invoices'[j].status = IF invoices'[j] = NoInvoice THEN "absent"
                 ELSE IF PaymentsOf(j)' = {} THEN "open"
                 ELSE IF Owed(j)' <= 0 THEN "paid" ELSE "partial"
    <3>1. CASE j = i
      BY <1>5, <1>6, <3>1 DEF NoInvoice
    <3>2. CASE j # i
      BY <1>5, <1>6, <1>10, <2>2, <3>2 DEF PayablesInv, PayablesAgree
    <3> QED BY <3>1, <3>2
  <2> QED BY <1>12, <2>1, <2>2 DEF PayablesAgree
<1> QED BY <1>4, <1>7, <1>8, <1>13 DEF PayablesInv

(* createSupplierPayment until its transaction, and an end without one.    *)
LEMMA DeskKeeps ==
  ASSUME PayablesInv, UNCHANGED <<invoices, payments, ledger>>, apart' \in BOOLEAN,
         apart' => apart, PayablesTypes', DeskKnows', DeskIsCurrent'
  PROVE  PayablesInv'
<1>1. \A j \in Invoices : PaymentsOf(j)' = PaymentsOf(j)
  BY DEF PaymentsOf
<1>2. \A j \in Invoices : Paid(PaymentsOf(j))' = Paid(PaymentsOf(j)) /\ Owed(j)' = Owed(j)
  BY <1>1 DEF Paid, Owed
<1>3. AbsentUnpaid' /\ AbsentHasNone'
  BY <1>1 DEF PayablesInv, AbsentUnpaid, AbsentHasNone
<1>4. [j \in Invoices |-> Owed(j)]' = [j \in Invoices |-> Owed(j)]
  BY <1>2
<1>5. PayablesAgree'
  BY <1>1, <1>2, <1>4 DEF PayablesInv, PayablesAgree
<1> QED BY <1>3, <1>5 DEF PayablesInv

LEMMA PayReadKeeps ==
  ASSUME PayablesInv, NEW c \in Clients, PayRead(c),
         apart' = (apart /\ \A a, b \in Clients : desk'[a] # Away /\ desk'[b] # Away => a = b)
  PROVE  PayablesInv'
<1>1. PICK i \in Invoices, n \in Amounts :
        /\ invoices[i].status \in {"open", "partial"}
        /\ desk' = [desk EXCEPT ![c] = [invoice |-> i, amount |-> n, read |-> PaymentsOf(i)]]
  BY DEF PayRead
<1>2. UNCHANGED <<invoices, payments, ledger>>
  BY DEF PayRead
<1>3. n \in Nat /\ n > 0
  BY PayableAssumption
<1>4. \A j \in Invoices : PaymentsOf(j)' = PaymentsOf(j) /\ PaymentsOf(j) \subseteq Payments
  BY <1>2 DEF PaymentsOf
<1>5. PayablesTypes'
  BY <1>1, <1>2, <1>3, <1>4 DEF PayablesInv, PayablesTypes, DeskRow
<1>6. /\ desk'[c].invoice = i /\ desk'[c].amount = n /\ desk'[c].read = PaymentsOf(i) /\ desk'[c] # Away
      /\ \A d \in Clients : d # c => desk'[d] = desk[d]
  BY <1>1, <1>3 DEF PayablesInv, PayablesTypes, Away
<1>7. DeskKnows'
  BY <1>1, <1>2, <1>3, <1>4, <1>6 DEF PayablesInv, DeskKnows
<1>8. DeskIsCurrent'
  BY <1>2, <1>4, <1>6, <1>7 DEF PayablesInv, DeskIsCurrent, DeskKnows
<1> QED BY <1>2, <1>5, <1>7, <1>8, DeskKeeps DEF PayablesInv, PayablesTypes

LEMMA PayStopsKeeps ==
  ASSUME PayablesInv, NEW c \in Clients, PayStops(c),
         apart' = (apart /\ \A a, b \in Clients : desk'[a] # Away /\ desk'[b] # Away => a = b)
  PROVE  PayablesInv'
<1>1. desk' = [desk EXCEPT ![c] = Away] /\ UNCHANGED <<invoices, payments, ledger>>
  BY DEF PayStops
<1>2. PayablesTypes'
  BY <1>1 DEF PayablesInv, PayablesTypes, DeskRow, Away
<1>3. desk'[c] = Away /\ \A d \in Clients : d # c => desk'[d] = desk[d]
  BY <1>1 DEF PayablesInv, PayablesTypes
<1>4. \A j \in Invoices : PaymentsOf(j)' = PaymentsOf(j)
  BY <1>1 DEF PaymentsOf
<1>5. DeskKnows'
  BY <1>1, <1>3, <1>4 DEF PayablesInv, DeskKnows
<1>6. DeskIsCurrent'
  <2>1. \A d \in Clients : desk'[d] # Away => desk'[d] = desk[d]
    BY <1>3
  <2>2. apart' => apart /\ \A a, b \in Clients : desk'[a] # Away /\ desk'[b] # Away => a = b
    OBVIOUS
  <2>3. \A d \in Clients : desk[d] # Away => desk[d].invoice \in Invoices
    BY DEF PayablesInv, DeskKnows
  <2>4. ASSUME apart', NEW d \in Clients, desk'[d] # Away, NEW j \in Invoices, desk[d].invoice = j
        PROVE  desk'[d].read = PaymentsOf(j)'
    BY <1>4, <2>1, <2>2, <2>4 DEF PayablesInv, DeskIsCurrent
  <2> QED BY <2>1, <2>2, <2>3, <2>4 DEF DeskIsCurrent, PaymentsOf
<1> QED BY <1>1, <1>2, <1>5, <1>6, DeskKeeps DEF PayablesInv, PayablesTypes

(* Its transaction: the status it writes is at most what the payments come *)
(* to, and just that while requests are served one at a time.              *)
LEMMA PayWriteKeeps ==
  ASSUME PayablesInv, NEW c \in Clients, PayWrite(c),
         apart' = (apart /\ \A a, b \in Clients : desk'[a] # Away /\ desk'[b] # Away => a = b)
  PROVE  PayablesInv'
<1>0. desk[c] # Away
  BY DEF PayWrite
<1>00. PICK i \in Invoices, n \in Nat, read \in SUBSET Payments :
          i = desk[c].invoice /\ n = desk[c].amount /\ read = desk[c].read /\ n > 0
  BY <1>0 DEF PayablesInv, DeskKnows, PayablesTypes, DeskRow
<1>1. PICK p \in Payments :
        /\ payments[p] = NoPayment
        /\ payments' = [payments EXCEPT ![p] = [invoice |-> i, amount |-> n]]
  BY <1>00 DEF PayWrite
<1>2. /\ desk[c] # Away
      /\ ledger' = Posted(n, "payable", "cash")
      /\ invoices' = [invoices EXCEPT ![i].status =
                        IF Paid(read) + n >= invoices[i].total THEN "paid" ELSE "partial"]
      /\ desk' = [desk EXCEPT ![c] = Away]
  BY <1>00 DEF PayWrite, TotalPaid
<1>3. /\ n > 0 /\ invoices[i].status # "absent" /\ read \subseteq PaymentsOf(i)
      /\ apart => read = PaymentsOf(i)
  BY <1>0, <1>00 DEF PayablesInv, DeskKnows, DeskIsCurrent
<1>4. PayablesTypes /\ payments \in [Payments -> PaymentRow] /\ invoices \in [Invoices -> InvoiceRow]
  BY DEF PayablesInv, PayablesTypes
<1>5. /\ payments' \in [Payments -> PaymentRow]
      /\ payments'[p].invoice = i /\ payments'[p].amount = n
      /\ \A q \in Payments : q # p => payments'[q] = payments[q]
  BY <1>1, <1>3, <1>4 DEF PaymentRow
<1>6. /\ PaymentsOf(i)' = PaymentsOf(i) \cup {p}
      /\ Paid(PaymentsOf(i))' = Paid(PaymentsOf(i)) + n
      /\ \A j \in Invoices : j # i =>
           PaymentsOf(j)' = PaymentsOf(j) /\ Paid(PaymentsOf(j))' = Paid(PaymentsOf(j))
  <2> DEFINE pays == payments'
  <2>1. /\ pays \in [Payments -> PaymentRow] /\ pays[p].invoice = i /\ pays[p].amount = n
        /\ \A q \in Payments : q # p => pays[q] = payments[q]
    BY <1>5
  <2> HIDE DEF pays
  <2>2. /\ OfInvoice(pays, i) = OfInvoice(payments, i) \cup {p}
        /\ PaidIn(pays, OfInvoice(pays, i)) = PaidIn(payments, OfInvoice(payments, i)) + n
        /\ \A j \in Invoices : j # i =>
             /\ OfInvoice(pays, j) = OfInvoice(payments, j)
             /\ PaidIn(pays, OfInvoice(pays, j)) = PaidIn(payments, OfInvoice(payments, j))
    BY <1>1, <1>3, <1>4, <2>1, PaymentAdds
  <2> QED BY <2>2 DEF pays, PaymentsOf, OfInvoice, Paid, PaidIn
<1>7. /\ invoices'[i].status = IF Paid(read) + n >= invoices[i].total THEN "paid" ELSE "partial"
      /\ invoices'[i].total = invoices[i].total /\ invoices[i].total \in Nat
      /\ \A j \in Invoices : j # i => invoices'[j] = invoices[j]
      /\ invoices' \in [Invoices -> InvoiceRow]
  BY <1>2, <1>3, <1>4 DEF InvoiceRow
<1>8. Paid(read) \in Nat /\ Paid(PaymentsOf(i)) \in Nat /\ Paid(read) <= Paid(PaymentsOf(i))
  <2>1. PaymentsOf(i) \in SUBSET Payments
    BY DEF PaymentsOf
  <2> QED BY <1>3, <1>4, <2>1, PaidType, FewerPaid DEF Paid, PaidIn
<1>9. desk'[c] = Away /\ \A d \in Clients : d # c => desk'[d] = desk[d]
  BY <1>2, <1>4 DEF PayablesTypes
<1>10. PayablesTypes'
  BY <1>2, <1>3, <1>4, <1>5, <1>7 DEF PayablesTypes, Posted, Accounts, DeskRow, Away
<1>11. AbsentUnpaid' /\ AbsentHasNone'
  BY <1>3, <1>6, <1>7 DEF PayablesInv, AbsentUnpaid, AbsentHasNone, NoInvoice
<1>12. \A d \in Clients : desk'[d] # Away => d # c /\ desk[d] # Away /\ desk'[d] = desk[d]
  BY <1>9
<1>13. DeskKnows'
  <2> SUFFICES ASSUME NEW d \in Clients, desk'[d] # Away
               PROVE  /\ desk[d].invoice \in Invoices /\ desk[d].amount > 0
                      /\ invoices'[desk[d].invoice].status # "absent"
                      /\ desk[d].read \subseteq {q \in Payments : payments'[q].invoice = desk[d].invoice}
    BY <1>12 DEF DeskKnows, PaymentsOf
  <2>1. PICK j \in Invoices :
          /\ desk[d].invoice = j /\ desk[d].amount > 0
          /\ invoices[j].status # "absent" /\ desk[d].read \subseteq PaymentsOf(j)
    BY <1>12 DEF PayablesInv, DeskKnows
  <2>2. invoices'[j].status # "absent" /\ desk[d].read \subseteq PaymentsOf(j)'
    <3>1. CASE j = i
      BY <1>6, <1>7, <2>1, <3>1
    <3>2. CASE j # i
      BY <1>6, <1>7, <2>1, <3>2
    <3> QED BY <3>1, <3>2
  <2> QED BY <1>12, <2>1, <2>2 DEF PaymentsOf
<1>14. DeskIsCurrent'
  <2> SUFFICES ASSUME apart' PROVE \A d \in Clients : desk'[d] = Away
    BY DEF DeskIsCurrent
  <2>1. \A d \in Clients : desk[d] # Away => d = c
    BY <1>2 DEF PayablesInv, DeskIsCurrent
  <2> QED BY <2>1, <1>12
<1>15. Owed(i)' = Owed(i) - n /\ \A j \in Invoices : j # i => Owed(j)' = Owed(j)
  BY <1>3, <1>6, <1>7, <1>8 DEF Owed
<1>16. -ledger'["payable"] = -ledger["payable"] - n
  BY <1>2, <1>3, <1>4 DEF PayablesTypes, Posted, Accounts
<1>17. -ledger'["payable"] = SumFunction([j \in Invoices |-> Owed(j)])'
  <2>1. -ledger["payable"] = SumFunction([j \in Invoices |-> Owed(j)])
    BY DEF PayablesInv, PayablesAgree
  <2>2. -n \in Int /\ Owed(i) \in Int
    BY <1>3, <1>7, <1>8 DEF Owed
  <2>3. Owed(i)' = Owed(i) + (-n)
    BY <1>3, <1>15, <2>2
  <2>4. SumFunction([j \in Invoices |-> Owed(j)])' = SumFunction([j \in Invoices |-> Owed(j)]) + (-n)
        /\ SumFunction([j \in Invoices |-> Owed(j)]) \in Int
    BY <1>3, <1>4, <1>10, <1>15, <2>2, <2>3, OwedChanges
  <2> QED BY <1>3, <1>16, <2>1, <2>4
<1>18. PayablesAgree'
  <2>1. \A j \in Invoices : invoices'[j].status = "paid" => Paid(PaymentsOf(j))' >= invoices'[j].total
    <3> TAKE j \in Invoices
    <3>1. CASE j = i
      <4>1. Paid(read) + n <= Paid(PaymentsOf(i)) + n
        BY <1>8
      <4>2. Paid(read) + n >= invoices[i].total =>
              Paid(PaymentsOf(i)) + n >= invoices[i].total
        BY <1>7, <1>8, <4>1
      <4> QED BY <1>6, <1>7, <3>1, <4>2
    <3>2. CASE j # i
      BY <1>6, <1>7, <3>2 DEF PayablesInv, PayablesAgree
    <3> QED BY <3>1, <3>2
  <2>2. ASSUME apart', NEW j \in Invoices
        PROVE  invoices'[j].status = IF invoices'[j] = NoInvoice THEN "absent"
                 ELSE IF PaymentsOf(j)' = {} THEN "open"
                 ELSE IF Owed(j)' <= 0 THEN "paid" ELSE "partial"
    <3>1. CASE j = i
      <4>1. invoices'[i] # NoInvoice /\ PaymentsOf(i)' # {}
        BY <1>6, <1>7 DEF NoInvoice
      <4>2. Paid(read) = Paid(PaymentsOf(i))
        BY <1>3, <2>2
      <4>3. Paid(read) + n >= invoices[i].total <=> Owed(i)' <= 0
        BY <1>3, <1>7, <1>8, <1>15, <4>2 DEF Owed
      <4> QED BY <1>7, <3>1, <4>1, <4>3
    <3>2. CASE j # i
      BY <1>6, <1>7, <1>15, <2>2, <3>2 DEF PayablesInv, PayablesAgree
    <3> QED BY <3>1, <3>2
  <2> QED BY <1>17, <2>1, <2>2 DEF PayablesAgree
<1> QED BY <1>10, <1>11, <1>13, <1>14, <1>18 DEF PayablesInv

LEMMA PayablesGoOn == PayablesInv /\ [PayablesNext]_payables => PayablesInv'
<1> SUFFICES ASSUME PayablesInv, [PayablesNext]_payables PROVE PayablesInv'
  OBVIOUS
<1>1. CASE PayablesNext
  BY <1>1, CreateInvoiceKeeps, PayReadKeeps, PayWriteKeeps, PayStopsKeeps DEF PayablesNext
<1>2. CASE UNCHANGED payables
  <2>1. UNCHANGED <<invoices, payments, ledger>> /\ desk' = desk /\ apart' = apart
    BY <1>2 DEF payables
  <2>2. PayablesTypes' /\ DeskKnows' /\ DeskIsCurrent'
    BY <2>1 DEF PayablesInv, PayablesTypes, DeskKnows, DeskIsCurrent, PaymentsOf
  <2> QED BY <2>1, <2>2, DeskKeeps DEF PayablesInv, PayablesTypes
<1> QED BY <1>1, <1>2

(* createSupplierInvoice, createSupplierPayment and their postings: for    *)
(* any number of requests, invoices and payments and however they          *)
(* interleave, an invoice that says paid is paid in full, and the payable  *)
(* account carries what is owed in all; while requests are served one at a *)
(* time every status is the one its payments give.                         *)
THEOREM SuppliersArePaid == Spec => []PayablesAgree
<1>1. Init => PayablesInv
  BY PayablesStart DEF Init
<1>2. PayablesInv /\ [Next]_vars => PayablesInv'
  <2>1. [Next]_vars => [PayablesNext]_payables
    BY DEF Next, vars
  <2> QED BY <2>1, PayablesGoOn
<1>3. PayablesInv => PayablesAgree
  BY DEF PayablesInv
<1> QED BY <1>1, <1>2, <1>3, PTL DEF Spec

-----------------------------------------------------------------------------
(* IMPORT SHIPMENTS                                                        *)
ShipmentRow == [status : {"absent", "draft", "cleared", "received"}, base : Nat, total : Nat, costs : Nat]
LineRow == [shipment : Shipments \cup {None}, product : Products \cup {None}, quantity : Nat,
            amount : Nat, share : Nat \cup {None}]
EntryRow == [line : Lines, product : Products, received : Nat, share : Nat \cup {None}]
ReadRow == [line : Lines, product : Products \cup {None}, quantity : Nat, share : Nat \cup {None}]

ImportTypes ==
  /\ shipments \in [Shipments -> ShipmentRow]
  /\ lines \in [Lines -> LineRow]
  /\ receipts \in [Receipts -> [shipment : Shipments \cup {None}, lines : Seq(EntryRow)]]
  /\ onHand \in [Products -> Nat]

(* What a request holds where it stands.                                   *)
CallFields == {"op", "shipment", "draft", "read", "extra", "body", "cost"}
CallKnows(k) ==
  /\ k = [f \in CallFields |-> k[f]]
  /\ k.op \in {"free", "upsert", "insert", "reread", "total", "finalize", "check", "receive"}
  /\ k.op # "free" => k.shipment \in Shipments
  /\ k.op = "upsert" => k.draft \in Drafts
  /\ k.op \in {"insert", "reread"} => k.cost \in Nat
  /\ k.op \in {"total", "finalize"} => k.extra \in Nat
  /\ k.op = "finalize" => k.read \in SUBSET Lines
  /\ k.op \in {"check", "receive"} => k.read \in SUBSET ReadRow /\ k.body \in Bodies
  /\ k.op = "receive" => \A i \in DOMAIN k.body : Matching(k, k.body[i]) # {}
CallsKnow == call = [c \in Clients |-> call[c]] /\ \A c \in Clients : CallKnows(call[c])

(* While requests are served one at a time, what it read is still so.      *)
RowsRead(s) ==
  {[line |-> l, product |-> lines[l].product, quantity |-> lines[l].quantity,
    share |-> lines[l].share] : l \in LinesOf(s)}
CallIsCurrent(k) ==
  /\ k.op = "upsert" => shipments[k.shipment].status \in {"absent", "draft"}
  /\ k.op \notin {"free", "upsert"} => Unreceived(k.shipment)
  /\ k.op = "total" => k.extra = shipments[k.shipment].base + shipments[k.shipment].costs
  /\ k.op = "finalize" => k.read = LinesOf(k.shipment) /\ k.extra = shipments[k.shipment].costs
  /\ k.op \in {"check", "receive"} => k.read = RowsRead(k.shipment)
  /\ k.op = "receive" => ~Received(k.shipment)

(* A receipt r is that of its shipment and keeps its lines.                *)
ReceiptRight(s, r) ==
  \A i \in DOMAIN receipts[r].lines :
    LET e == receipts[r].lines[i] IN
    /\ lines[e.line].shipment = s /\ lines[e.line].product = e.product
    /\ lines[e.line].share = e.share /\ e.received <= lines[e.line].quantity
ReceivedOnce(s) ==
  /\ shipments[s].status = "received" <=> Received(s)
  /\ \A r, q \in Receipts : receipts[r].shipment = s /\ receipts[q].shipment = s => r = q
  /\ \A r \in Receipts : receipts[r].shipment = s => ReceiptRight(s, r)

(* The landed costs of a cleared shipment.                                 *)
Landed(s) ==
  shipments[s].status = "cleared" =>
    /\ shipments[s].base = Amount(LinesOf(s))
    /\ \E share \in 0..shipments[s].costs :
         /\ \A l \in LinesOf(s) : lines[l].share = share
         /\ shipments[s].base + share <= shipments[s].total
    /\ shipments[s].total <= shipments[s].base + shipments[s].costs

SerialImports ==
  /\ Alone /\ \A c \in Clients : CallIsCurrent(call[c])
  /\ \A s \in Shipments : ReceivedOnce(s) /\ Landed(s)

ImportsInv == ImportTypes /\ CallsKnow /\ StockIsReceived /\ (serial => SerialImports)

(* The parts of a record of a request.                                     *)
LEMMA CallSets ==
  ASSUME NEW c \in Clients, CallsKnow, NEW k, Read(c, k)
  PROVE  call' = [d \in Clients |-> call'[d]] /\ call'[c] = k
         /\ \A d \in Clients : d # c => call'[d] = call[d]
BY DEF CallsKnow, Read

(* The lines of a receipt.                                                 *)
LEMMA ReceiptEntry ==
  ASSUME ImportTypes, NEW r \in Receipts, NEW i \in DOMAIN receipts[r].lines
  PROVE  receipts[r].lines[i].line \in Lines /\ receipts[r].lines[i].received \in Nat
<1>1. receipts[r].lines \in Seq(EntryRow)
  BY DEF ImportTypes
<1>2. receipts[r].lines[i] \in EntryRow
  BY <1>1
<1> QED BY <1>2 DEF EntryRow

(* The sum of amounts over a set of lines.                   *)
LEMMA AmountType ==
  ASSUME ImportTypes, NEW S \in SUBSET Lines
  PROVE  Amount(S) \in Nat
<1>1. IsFiniteSet(S)
  BY ImportAssumption, FS_Subset
<1>2. \A x \in S : [l \in Lines |-> lines[l].amount][x] \in Nat
  BY DEF ImportTypes, LineRow
<1> QED BY <1>1, <1>2, SumType DEF Amount

(* The units of a product in the lines of a receipt or a request.          *)
LEMMA UnitsType ==
  ASSUME NEW p, NEW es, NEW n \in Nat, DOMAIN es = 1..n, \A i \in 1..n : es[i].received \in Nat
  PROVE  Units(es, p) \in Nat
<1> DEFINE f == [i \in DOMAIN es |-> IF es[i].product = p THEN es[i].received ELSE 0]
<1>1. IsFiniteSet(DOMAIN es)
  <2>1. IsFiniteSet(1..n)
    BY FS_Interval
  <2> QED BY <2>1
<1>2. f \in [DOMAIN es -> Nat]
  OBVIOUS
<1> HIDE DEF f
<1>3. SumFunction(f) \in Nat
  BY <1>1, <1>2, TotalType
<1> QED BY <1>3 DEF Units, f

LEMMA ImportsStart == ImportsInit => ImportsInv
<1> SUFFICES ASSUME ImportsInit PROVE ImportsInv
  OBVIOUS
<1>0. /\ shipments = [s \in Shipments |-> NoShipment]
      /\ lines = [l \in Lines |-> NoLine]
      /\ receipts = [r \in Receipts |-> NoReceipt]
      /\ onHand = [p \in Products |-> 0]
      /\ call = [c \in Clients |-> Free]
  BY DEF ImportsInit
<1>1. ImportTypes
  BY <1>0 DEF ImportTypes, ShipmentRow, LineRow, EntryRow, NoShipment, NoLine, NoReceipt
<1>2. CallsKnow
  BY <1>0 DEF CallsKnow, CallKnows, CallFields, Free
<1>3. StockIsReceived
  <2> SUFFICES ASSUME NEW p \in Products
               PROVE  SumFunction([r \in Receipts |-> Units(receipts[r].lines, p)]) = 0
    BY <1>0 DEF StockIsReceived
  <2>1. Units(<<>>, p) = 0
    <3> DEFINE f == [i \in DOMAIN <<>> |-> IF <<>>[i].product = p THEN <<>>[i].received ELSE 0]
    <3>1. IsFiniteSet({}) /\ f \in [{} -> Int]
      BY FS_EmptySet
    <3> HIDE DEF f
    <3>2. SumFunction(f) = 0
      BY <3>1, TotalZero
    <3> QED BY <3>2 DEF Units, f
  <2> DEFINE g == [r \in Receipts |-> Units(receipts[r].lines, p)]
  <2>2. g \in [Receipts -> Int] /\ \A r \in Receipts : g[r] = 0
    BY <1>0, <2>1 DEF NoReceipt
  <2> HIDE DEF g
  <2>3. SumFunction(g) = 0
    BY <2>2, ImportAssumption, TotalZero
  <2> QED BY <2>3 DEF g
<1>4. SerialImports
  <2>1. Alone /\ \A c \in Clients : CallIsCurrent(call[c])
    BY <1>0 DEF Alone, CallIsCurrent, Free
  <2>2. \A s \in Shipments : ReceivedOnce(s) /\ Landed(s)
    BY <1>0, ImportAssumption DEF ReceivedOnce, Landed, Received, NoShipment, NoReceipt
  <2> QED BY <2>1, <2>2 DEF SerialImports
<1> QED BY <1>1, <1>2, <1>3, <1>4 DEF ImportsInv

(* Where a step changes the call of c only, the others know what they did; *)
(* while requests are served one at a time they are free, and c was alone. *)
LEMMA OthersFree ==
  ASSUME ImportsInv, NEW c \in Clients, \A d \in Clients : d # c => call'[d] = call[d],
         serial' = (serial /\ Alone'), serial', call[c].op # "free" \/ call'[c].op # "free"
  PROVE  serial /\ Alone' /\ SerialImports /\ \A d \in Clients : d # c => call'[d].op = "free"
BY DEF ImportsInv, SerialImports, Alone

(* A step that changes no row.                                             *)
LEMMA OnlyRead ==
  ASSUME ImportsInv, NEW c \in Clients, NEW k, Read(c, k), CallKnows(k),
         UNCHANGED <<shipments, lines, receipts, onHand>>,
         serial' = (serial /\ Alone'), call[c].op # "free" \/ k.op # "free",
         serial => CallIsCurrent(k)
  PROVE  ImportsInv'
<1>1. call' = [d \in Clients |-> call'[d]] /\ call'[c] = k /\ \A d \in Clients : d # c => call'[d] = call[d]
  BY CallSets DEF ImportsInv
<1>2. CallsKnow'
  BY <1>1 DEF ImportsInv, CallsKnow
<1>3. ImportTypes' /\ StockIsReceived'
  BY DEF ImportsInv, ImportTypes, StockIsReceived
<1>4. ASSUME serial' PROVE SerialImports'
  <2>1. serial /\ Alone' /\ SerialImports /\ \A d \in Clients : d # c => call'[d].op = "free"
    BY <1>1, <1>4, OthersFree
  <2>2. CallIsCurrent(k)'
    BY <2>1 DEF CallIsCurrent, Unreceived, LinesOf, RowsRead, Received
  <2>3. \A d \in Clients : CallIsCurrent(call[d])'
    <3>1. \A d \in Clients : d # c => CallIsCurrent(call[d])'
      BY <2>1 DEF CallIsCurrent
    <3>2. CallIsCurrent(call[c])'
      BY <1>1, <2>2 DEF CallIsCurrent
    <3> QED BY <3>1, <3>2
  <2>4. \A s \in Shipments : ReceivedOnce(s)' /\ Landed(s)'
    BY <2>1 DEF SerialImports, ReceivedOnce, Received, ReceiptRight, Landed, LinesOf, Amount
  <2> QED BY <2>1, <2>3, <2>4 DEF SerialImports
<1> QED BY <1>2, <1>3, <1>4 DEF ImportsInv

(* The requests that only read, and the end of one.                        *)
LEMMA DraftReadKeeps ==
  ASSUME ImportsInv, NEW c \in Clients, DraftRead(c), serial' = (serial /\ Alone')
  PROVE  ImportsInv'
<1>1. PICK s \in Shipments, d \in Drafts :
        /\ shipments[s].status \in {"absent", "draft"}
        /\ Read(c, [Free EXCEPT !.op = "upsert", !.shipment = s, !.draft = d])
  BY DEF DraftRead
<1>2. PICK k : k = [Free EXCEPT !.op = "upsert", !.shipment = s, !.draft = d]
  OBVIOUS
<1>3. k.op = "upsert" /\ k.shipment = s /\ k.draft = d /\ k = [f \in CallFields |-> k[f]]
  BY <1>2 DEF Free, CallFields
<1>4. CallKnows(k) /\ CallIsCurrent(k)
  BY <1>1, <1>3 DEF CallKnows, CallIsCurrent
<1> QED BY <1>1, <1>2, <1>3, <1>4, OnlyRead DEF DraftRead

LEMMA CostsCheckKeeps ==
  ASSUME ImportsInv, NEW c \in Clients, CostsCheck(c), serial' = (serial /\ Alone')
  PROVE  ImportsInv'
<1>1. PICK s \in Shipments, n \in Costs :
        Unreceived(s) /\ Read(c, [Free EXCEPT !.op = "insert", !.shipment = s, !.cost = n])
  BY DEF CostsCheck
<1>2. PICK k : k = [Free EXCEPT !.op = "insert", !.shipment = s, !.cost = n]
  OBVIOUS
<1>3. k.op = "insert" /\ k.shipment = s /\ k.cost = n /\ k = [f \in CallFields |-> k[f]]
  BY <1>2 DEF Free, CallFields
<1>4. CallKnows(k) /\ CallIsCurrent(k)
  BY <1>1, <1>3, ImportAssumption DEF CallKnows, CallIsCurrent
<1> QED BY <1>1, <1>2, <1>3, <1>4, OnlyRead DEF CostsCheck

LEMMA CostsRereadKeeps ==
  ASSUME ImportsInv, NEW c \in Clients, CostsReread(c), serial' = (serial /\ Alone')
  PROVE  ImportsInv'
<1>1. PICK h : h = call[c]
  OBVIOUS
<1>2. PICK k : k = [h EXCEPT !.op = "total", !.extra = WithCosts(h.shipment, h.cost)]
  OBVIOUS
<1>3. CallKnows(h) /\ h.op = "reread" /\ Read(c, k)
  BY <1>1, <1>2 DEF ImportsInv, CallsKnow, CostsReread
<1>4. /\ k.op = "total" /\ k.shipment = h.shipment /\ k = [f \in CallFields |-> k[f]]
      /\ k.extra = shipments[h.shipment].base + shipments[h.shipment].costs
  BY <1>2, <1>3 DEF CallFields, CallKnows, WithCosts
<1>5. h.shipment \in Shipments /\ shipments[h.shipment] \in ShipmentRow
  BY <1>3 DEF CallKnows, ImportsInv, ImportTypes
<1>6. CallKnows(k)
  BY <1>4, <1>5 DEF CallKnows, ShipmentRow
<1>7. serial => CallIsCurrent(k)
  BY <1>1, <1>3, <1>4 DEF ImportsInv, SerialImports, CallIsCurrent
<1> QED BY <1>3, <1>4, <1>6, <1>7, OnlyRead DEF CostsReread

LEMMA FinalizeReadKeeps ==
  ASSUME ImportsInv, NEW c \in Clients, FinalizeRead(c), serial' = (serial /\ Alone')
  PROVE  ImportsInv'
<1>1. PICK s \in Shipments :
        /\ Unreceived(s)
        /\ Read(c, [Free EXCEPT !.op = "finalize", !.shipment = s, !.read = LinesOf(s),
                                !.extra = shipments[s].costs])
  BY DEF FinalizeRead
<1>2. PICK k : k = [Free EXCEPT !.op = "finalize", !.shipment = s, !.read = LinesOf(s),
                                !.extra = shipments[s].costs]
  OBVIOUS
<1>3. /\ k.op = "finalize" /\ k.shipment = s /\ k.read = LinesOf(s) /\ k.extra = shipments[s].costs
      /\ k = [f \in CallFields |-> k[f]]
  BY <1>2 DEF Free, CallFields
<1>4. CallKnows(k) /\ CallIsCurrent(k)
  BY <1>1, <1>3 DEF CallKnows, CallIsCurrent, LinesOf, ImportsInv, ImportTypes, ShipmentRow
<1> QED BY <1>1, <1>2, <1>3, <1>4, OnlyRead DEF FinalizeRead

LEMMA ReceiveReadKeeps ==
  ASSUME ImportsInv, NEW c \in Clients, ReceiveRead(c), serial' = (serial /\ Alone')
  PROVE  ImportsInv'
<1>1. PICK s \in Shipments, b \in Bodies :
        /\ Unreceived(s)
        /\ Read(c, [Free EXCEPT !.op = "check", !.shipment = s, !.body = b, !.read = RowsRead(s)])
  BY DEF ReceiveRead, RowsRead
<1>2. PICK k : k = [Free EXCEPT !.op = "check", !.shipment = s, !.body = b, !.read = RowsRead(s)]
  OBVIOUS
<1>3. /\ k.op = "check" /\ k.shipment = s /\ k.read = RowsRead(s) /\ k.body = b
      /\ k = [f \in CallFields |-> k[f]]
  BY <1>2 DEF Free, CallFields
<1>4. RowsRead(s) \in SUBSET ReadRow
  BY DEF RowsRead, LinesOf, ReadRow, ImportsInv, ImportTypes, LineRow
<1>5. CallKnows(k) /\ CallIsCurrent(k)
  BY <1>1, <1>3, <1>4 DEF CallKnows, CallIsCurrent
<1> QED BY <1>1, <1>2, <1>3, <1>5, OnlyRead DEF ReceiveRead

LEMMA ReceiveCheckKeeps ==
  ASSUME ImportsInv, NEW c \in Clients, ReceiveCheck(c), serial' = (serial /\ Alone')
  PROVE  ImportsInv'
<1>1. PICK h : h = call[c]
  OBVIOUS
<1>2. PICK k : k = [h EXCEPT !.op = "receive"]
  OBVIOUS
<1>3. /\ CallKnows(h) /\ h.op = "check" /\ Read(c, k) /\ ~Received(h.shipment)
      /\ \A i \in DOMAIN h.body : Matching(h, h.body[i]) # {}
  BY <1>1, <1>2 DEF ImportsInv, CallsKnow, ReceiveCheck
<1>4. /\ k.op = "receive" /\ k.shipment = h.shipment /\ k.read = h.read /\ k.body = h.body
      /\ k = [f \in CallFields |-> k[f]]
  BY <1>2, <1>3 DEF CallFields, CallKnows
<1>5. CallKnows(k)
  BY <1>3, <1>4 DEF CallKnows, Matching
<1>6. serial => CallIsCurrent(k)
  BY <1>1, <1>3, <1>4 DEF ImportsInv, SerialImports, CallIsCurrent
<1> QED BY <1>3, <1>4, <1>5, <1>6, OnlyRead DEF ReceiveCheck

LEMMA StopKeepsImports ==
  ASSUME ImportsInv, NEW c \in Clients, Stop(c), serial' = (serial /\ Alone')
  PROVE  ImportsInv'
<1>1. CallKnows(Free) /\ Free.op = "free" /\ CallIsCurrent(Free)
  BY DEF CallKnows, CallFields, Free, CallIsCurrent
<1> QED BY <1>1, OnlyRead DEF Stop, Done

(* A step that writes: what is left to show of it.                         *)
LEMMA Written ==
  ASSUME ImportsInv, NEW c \in Clients, NEW k, Read(c, k), CallKnows(k), call[c].op # "free",
         serial' = (serial /\ Alone'), ImportTypes', StockIsReceived',
         serial /\ SerialImports =>
           CallIsCurrent(k)' /\ \A s \in Shipments : ReceivedOnce(s)' /\ Landed(s)'
  PROVE  ImportsInv'
<1>1. call' = [d \in Clients |-> call'[d]] /\ call'[c] = k /\ \A d \in Clients : d # c => call'[d] = call[d]
  BY CallSets DEF ImportsInv
<1>2. CallsKnow'
  BY <1>1 DEF ImportsInv, CallsKnow
<1>3. ASSUME serial' PROVE SerialImports'
  <2>1. serial /\ Alone' /\ SerialImports /\ \A d \in Clients : d # c => call'[d].op = "free"
    BY <1>1, <1>3, OthersFree
  <2>2. CallIsCurrent(k)' /\ \A s \in Shipments : ReceivedOnce(s)' /\ Landed(s)'
    BY <2>1
  <2>3. \A d \in Clients : CallIsCurrent(call[d])'
    <3>1. \A d \in Clients : d # c => CallIsCurrent(call[d])'
      BY <2>1 DEF CallIsCurrent
    <3>2. CallIsCurrent(call[c])'
      BY <1>1, <2>2 DEF CallIsCurrent
    <3> QED BY <3>1, <3>2
  <2> QED BY <2>1, <2>2, <2>3 DEF SerialImports
<1> QED BY <1>2, <1>3 DEF ImportsInv

(* The call that is ended knows nothing.                                   *)
LEMMA FreeKnows == CallKnows(Free) /\ CallIsCurrent(Free)'
BY DEF CallKnows, CallFields, Free, CallIsCurrent

(* addImportCosts: only the costs, only the total of a shipment change.    *)
LEMMA CostsInsertKeeps ==
  ASSUME ImportsInv, NEW c \in Clients, CostsInsert(c), serial' = (serial /\ Alone')
  PROVE  ImportsInv'
<1>1. PICK h : h = call[c]
  OBVIOUS
<1>2. PICK k : k = [h EXCEPT !.op = "reread"]
  OBVIOUS
<1>3. /\ CallKnows(h) /\ h.op = "insert" /\ Read(c, k)
      /\ shipments' = [shipments EXCEPT ![h.shipment].costs = @ + h.cost]
      /\ UNCHANGED <<lines, receipts, onHand>>
  BY <1>1, <1>2 DEF ImportsInv, CallsKnow, CostsInsert
<1>4. k.op = "reread" /\ k.shipment = h.shipment /\ k.cost = h.cost /\ k = [f \in CallFields |-> k[f]]
  BY <1>2, <1>3 DEF CallFields, CallKnows
<1>5. h.shipment \in Shipments /\ h.cost \in Nat
  BY <1>3 DEF CallKnows
<1>6. \A s \in Shipments :
        /\ shipments[s].costs \in Nat /\ shipments'[s].costs \in Nat
        /\ shipments[s].costs <= shipments'[s].costs
        /\ shipments'[s].status = shipments[s].status /\ shipments'[s].base = shipments[s].base
        /\ shipments'[s].total = shipments[s].total
        /\ shipments[s].base \in Nat /\ shipments[s].total \in Nat
  BY <1>3, <1>5 DEF ImportsInv, ImportTypes, ShipmentRow
<1>7. ImportTypes' /\ StockIsReceived'
  <2>1. ImportTypes'
    <3>1. shipments[h.shipment] \in ShipmentRow
      BY <1>5 DEF ImportsInv, ImportTypes
    <3>2. [shipments[h.shipment] EXCEPT !.costs = @ + h.cost] \in ShipmentRow
      BY <1>5, <3>1 DEF ShipmentRow
    <3> QED BY <1>3, <1>5, <3>2 DEF ImportsInv, ImportTypes
  <2>2. StockIsReceived'
    BY <1>3 DEF ImportsInv, StockIsReceived
  <2> QED BY <2>1, <2>2
<1>8. CallKnows(k)
  BY <1>4, <1>5 DEF CallKnows
<1>9. ASSUME SerialImports PROVE CallIsCurrent(k)' /\ \A s \in Shipments : ReceivedOnce(s)' /\ Landed(s)'
  <2>1. CallIsCurrent(k)'
    BY <1>1, <1>3, <1>4, <1>5, <1>6, <1>9 DEF SerialImports, CallIsCurrent, Unreceived
  <2>2. \A s \in Shipments : ReceivedOnce(s)'
    BY <1>3, <1>6, <1>9 DEF SerialImports, ReceivedOnce, Received, ReceiptRight
  <2>3. ASSUME NEW s \in Shipments, shipments[s].status = "cleared" PROVE Landed(s)'
    <3>1. Amount(LinesOf(s))' = Amount(LinesOf(s)) /\ LinesOf(s)' = LinesOf(s)
      BY <1>3 DEF Amount, LinesOf
    <3>2. PICK share \in 0..shipments[s].costs :
            /\ \A l \in LinesOf(s) : lines[l].share = share
            /\ shipments[s].base + share <= shipments[s].total
      BY <1>9, <2>3 DEF SerialImports, Landed
    <3>3. shipments[s].base = Amount(LinesOf(s)) /\ shipments[s].total <= shipments[s].base + shipments[s].costs
      BY <1>9, <2>3 DEF SerialImports, Landed
    <3>4. share \in 0..shipments'[s].costs /\ shipments'[s].total <= shipments'[s].base + shipments'[s].costs
      BY <1>6, <3>3
    <3> QED BY <1>3, <1>6, <3>1, <3>2, <3>3, <3>4 DEF Landed
  <2>4. \A s \in Shipments : Landed(s)'
    BY <1>6, <2>3 DEF Landed
  <2> QED BY <2>1, <2>2, <2>4
<1>10. call[c].op # "free"
  BY <1>1, <1>3
<1> QED BY <1>3, <1>7, <1>8, <1>9, <1>10, Written

LEMMA CostsWriteKeeps ==
  ASSUME ImportsInv, NEW c \in Clients, CostsWrite(c), serial' = (serial /\ Alone')
  PROVE  ImportsInv'
<1>1. PICK h : h = call[c]
  OBVIOUS
<1>2. /\ CallKnows(h) /\ h.op = "total" /\ Read(c, Free)
      /\ shipments' = [shipments EXCEPT ![h.shipment].total = h.extra]
      /\ UNCHANGED <<lines, receipts, onHand>>
  BY <1>1 DEF ImportsInv, CallsKnow, CostsWrite, Done
<1>3. h.shipment \in Shipments /\ h.extra \in Nat
  BY <1>2 DEF CallKnows
<1>4. ImportTypes' /\ StockIsReceived'
  BY <1>2, <1>3 DEF ImportsInv, ImportTypes, ShipmentRow, StockIsReceived
<1>5. \A s \in Shipments :
        /\ shipments[s].costs \in Nat /\ shipments'[s].costs = shipments[s].costs
        /\ shipments'[s].status = shipments[s].status /\ shipments'[s].base = shipments[s].base
        /\ shipments[s].base \in Nat
        /\ shipments'[s].total = IF s = h.shipment THEN h.extra ELSE shipments[s].total
  BY <1>2, <1>3 DEF ImportsInv, ImportTypes, ShipmentRow
<1>6. ASSUME SerialImports PROVE \A s \in Shipments : ReceivedOnce(s)' /\ Landed(s)'
  <2>1. \A s \in Shipments : ReceivedOnce(s)'
    BY <1>2, <1>5, <1>6 DEF SerialImports, ReceivedOnce, Received, ReceiptRight
  <2>2. h.extra = shipments[h.shipment].base + shipments[h.shipment].costs
    BY <1>1, <1>2, <1>6 DEF SerialImports, CallIsCurrent
  <2>3. ASSUME NEW s \in Shipments, shipments[s].status = "cleared" PROVE Landed(s)'
    <3>1. Amount(LinesOf(s))' = Amount(LinesOf(s)) /\ LinesOf(s)' = LinesOf(s)
      BY <1>2 DEF Amount, LinesOf
    <3>2. PICK share \in 0..shipments[s].costs :
            /\ \A l \in LinesOf(s) : lines[l].share = share
            /\ shipments[s].base + share <= shipments[s].total
      BY <1>6, <2>3 DEF SerialImports, Landed
    <3>3. shipments[s].base = Amount(LinesOf(s)) /\ shipments[s].total <= shipments[s].base + shipments[s].costs
      BY <1>6, <2>3 DEF SerialImports, Landed
    <3>4. /\ shipments[s].base + share <= shipments'[s].total
          /\ shipments'[s].total <= shipments[s].base + shipments[s].costs
      <4>1. CASE s = h.shipment
        BY <1>5, <2>2, <4>1
      <4>2. CASE s # h.shipment
        BY <1>5, <3>2, <3>3, <4>2
      <4> QED BY <4>1, <4>2
    <3> QED BY <1>2, <1>5, <3>1, <3>2, <3>3, <3>4 DEF Landed
  <2>4. \A s \in Shipments : Landed(s)'
    BY <1>5, <2>3 DEF Landed
  <2> QED BY <2>1, <2>4
<1>7. call[c].op # "free"
  BY <1>1, <1>2
<1> QED BY <1>2, <1>4, <1>6, <1>7, Written, FreeKnows

(* finalizeImportShipment: each line carries the costs that were read, the *)
(* total is what they carry and those costs.                               *)
LEMMA FinalizeWriteKeeps ==
  ASSUME ImportsInv, NEW c \in Clients, FinalizeWrite(c), serial' = (serial /\ Alone')
  PROVE  ImportsInv'
<1>1. PICK h : h = call[c]
  OBVIOUS
<1>2. /\ CallKnows(h) /\ h.op = "finalize" /\ Read(c, Free) /\ h.read \subseteq LinesOf(h.shipment)
      /\ lines' = [l \in Lines |-> IF l \in h.read THEN [lines[l] EXCEPT !.share = h.extra] ELSE lines[l]]
      /\ shipments' = [shipments EXCEPT ![h.shipment] =
           [@ EXCEPT !.status = "cleared", !.base = Amount(h.read), !.total = Amount(h.read) + h.extra]]
      /\ UNCHANGED <<receipts, onHand>>
  BY <1>1 DEF ImportsInv, CallsKnow, FinalizeWrite, Done
<1>3. h.shipment \in Shipments /\ h.extra \in Nat /\ h.read \in SUBSET Lines
  BY <1>2 DEF CallKnows
<1>4. Amount(h.read) \in Nat
  BY <1>3, AmountType DEF ImportsInv
<1>5. ImportTypes' /\ StockIsReceived'
  <2>1. shipments' \in [Shipments -> ShipmentRow]
    <3>1. shipments[h.shipment] \in ShipmentRow
      BY <1>3 DEF ImportsInv, ImportTypes
    <3>2. [shipments[h.shipment] EXCEPT !.status = "cleared", !.base = Amount(h.read),
                                        !.total = Amount(h.read) + h.extra] \in ShipmentRow
      <4>1. \A row \in ShipmentRow, b, n \in Nat :
              [row EXCEPT !.status = "cleared", !.base = b, !.total = n] \in ShipmentRow
        BY DEF ShipmentRow
      <4>2. Amount(h.read) + h.extra \in Nat
        BY <1>3, <1>4
      <4> QED BY <1>4, <3>1, <4>1, <4>2
    <3> QED BY <1>2, <1>3, <3>2 DEF ImportsInv, ImportTypes
  <2>2. lines' \in [Lines -> LineRow]
    BY <1>2, <1>3 DEF ImportsInv, ImportTypes, LineRow
  <2>3. StockIsReceived'
    BY <1>2 DEF ImportsInv, StockIsReceived
  <2> QED BY <1>2, <2>1, <2>2, <2>3 DEF ImportsInv, ImportTypes
<1>6. \A s \in Shipments : s # h.shipment => shipments'[s] = shipments[s]
  BY <1>2, <1>3 DEF ImportsInv, ImportTypes
<1>7. /\ shipments'[h.shipment].status = "cleared" /\ shipments'[h.shipment].base = Amount(h.read)
      /\ shipments'[h.shipment].total = Amount(h.read) + h.extra
      /\ shipments'[h.shipment].costs = shipments[h.shipment].costs
      /\ shipments[h.shipment].costs \in Nat
  BY <1>2, <1>3 DEF ImportsInv, ImportTypes, ShipmentRow
<1>8. \A l \in Lines :
        /\ lines'[l].shipment = lines[l].shipment /\ lines'[l].product = lines[l].product
        /\ lines'[l].quantity = lines[l].quantity /\ lines'[l].amount = lines[l].amount
        /\ lines'[l].share = IF l \in h.read THEN h.extra ELSE lines[l].share
  BY <1>2, <1>3 DEF ImportsInv, ImportTypes, LineRow
<1>9. ASSUME SerialImports PROVE \A s \in Shipments : ReceivedOnce(s)' /\ Landed(s)'
  <2>1. h.read = LinesOf(h.shipment) /\ h.extra = shipments[h.shipment].costs /\ Unreceived(h.shipment)
    BY <1>1, <1>2, <1>9 DEF SerialImports, CallIsCurrent
  <2>2. \A s \in Shipments : LinesOf(s)' = LinesOf(s)
    BY <1>8 DEF LinesOf
  <2>3. \A S \in SUBSET Lines : Amount(S)' = Amount(S)
    BY <1>8 DEF Amount
  <2>4. ~Received(h.shipment)
    BY <1>3, <1>9, <2>1 DEF SerialImports, ReceivedOnce, Unreceived
  <2>5. ASSUME NEW s \in Shipments PROVE ReceivedOnce(s)'
    <3>1. CASE s = h.shipment
      BY <1>2, <1>7, <2>4, <3>1 DEF ReceivedOnce, Received
    <3>2. CASE s # h.shipment
      <4>1. ReceivedOnce(s)
        BY <1>9 DEF SerialImports
      <4>2. \A r \in Receipts : receipts[r].shipment = s => ReceiptRight(s, r)'
        <5> SUFFICES ASSUME NEW r \in Receipts, receipts[r].shipment = s, NEW i \in DOMAIN receipts[r].lines
                     PROVE  LET e == receipts[r].lines[i] IN
                              /\ lines'[e.line].shipment = s /\ lines'[e.line].product = e.product
                              /\ lines'[e.line].share = e.share /\ e.received <= lines'[e.line].quantity
          BY <1>2 DEF ReceiptRight
        <5> DEFINE e == receipts[r].lines[i]
        <5>1. e.line \in Lines
          BY ReceiptEntry DEF ImportsInv
        <5>2. /\ lines[e.line].shipment = s /\ lines[e.line].product = e.product
              /\ lines[e.line].share = e.share /\ e.received <= lines[e.line].quantity
          BY <4>1 DEF ReceivedOnce, ReceiptRight
        <5>3. e.line \notin h.read
          BY <2>1, <3>2, <5>2 DEF LinesOf
        <5> QED BY <1>8, <5>1, <5>2, <5>3
      <4> QED BY <1>2, <1>6, <3>2, <4>1, <4>2 DEF ReceivedOnce, Received
    <3> QED BY <3>1, <3>2
  <2>6. ASSUME NEW s \in Shipments PROVE Landed(s)'
    <3>0. LinesOf(s) \in SUBSET Lines /\ LinesOf(s)' = LinesOf(s) /\ Amount(LinesOf(s))' = Amount(LinesOf(s))
      BY <2>2, <2>3 DEF LinesOf, Amount
    <3>1. CASE s = h.shipment
      <4>1. \A l \in LinesOf(s) : lines'[l].share = h.extra
        BY <1>8, <2>1, <3>0, <3>1
      <4>2. h.extra \in 0..shipments'[s].costs
        BY <1>3, <1>7, <2>1, <3>1
      <4>3. /\ shipments'[s].base = Amount(LinesOf(s)) /\ shipments'[s].base + h.extra <= shipments'[s].total
            /\ shipments'[s].total <= shipments'[s].base + shipments'[s].costs
        BY <1>3, <1>4, <1>7, <2>1, <3>1
      <4> QED BY <3>0, <4>1, <4>2, <4>3 DEF Landed
    <3>2. CASE s # h.shipment
      <4>1. \A l \in LinesOf(s) : lines'[l].share = lines[l].share
        BY <1>8, <2>1, <3>2 DEF LinesOf
      <4>2. Landed(s)
        BY <1>9 DEF SerialImports
      <4> QED BY <1>6, <3>0, <3>2, <4>1, <4>2 DEF Landed
    <3> QED BY <3>1, <3>2
  <2> QED BY <2>5, <2>6
<1>10. call[c].op # "free"
  BY <1>1, <1>2
<1> QED BY <1>2, <1>5, <1>9, <1>10, Written, FreeKnows

(* The lines of a new draft: those of another shipment stay.               *)
LEMMA DraftLinesSets ==
  ASSUME ImportTypes, NEW s \in Shipments, NEW d \in Drafts,
         NEW id \in Injection(DOMAIN d, {l \in Lines : lines[l] = NoLine}), lines' = DraftLines(s, d, id)
  PROVE  /\ lines' \in [Lines -> LineRow]
         /\ \A t \in Shipments \ {s}, l \in Lines :
              /\ lines'[l].shipment = t <=> lines[l].shipment = t
              /\ lines[l].shipment = t => lines'[l] = lines[l]
<1>1. /\ DOMAIN d \subseteq Products
      /\ \A p \in DOMAIN d : d[p].quantity \in Nat /\ d[p].amount \in Nat
  BY ImportAssumption
<1>2. /\ \A p \in DOMAIN d : id[p] \in Lines /\ lines[id[p]] = NoLine
      /\ Range(id) = {id[p] : p \in DOMAIN d}
  BY DEF Injection, IsInjective, Range
<1>3. \A l \in Range(id) : lines[l].shipment = None
  BY <1>2 DEF NoLine
<1>4. None \notin Shipments
  BY ImportAssumption
<1>5. ASSUME NEW l \in Range(id)
      PROVE  lines'[l] \in LineRow /\ lines'[l].shipment = s
  <2>1. PICK p \in DOMAIN d : p = (CHOOSE q \in DOMAIN d : id[q] = l)
    BY <1>2
  <2>2. l \in Lines
    BY <1>2
  <2>3. lines'[l] = [shipment |-> s, product |-> p, quantity |-> d[p].quantity, amount |-> d[p].amount,
                     share |-> None]
    BY <2>1, <2>2 DEF DraftLines
  <2> QED BY <1>1, <2>3 DEF LineRow
<1>6. \A l \in Lines : l \notin Range(id) =>
        lines'[l] = IF lines[l].shipment = s THEN Gone ELSE lines[l]
  BY DEF DraftLines
<1>7. Gone \in LineRow /\ Gone.shipment = None
  BY DEF Gone, NoLine, LineRow
<1>8. \A l \in Lines : lines[l] \in LineRow
  BY DEF ImportTypes
<1>9. \A l \in Lines : lines'[l] \in LineRow
  BY <1>5, <1>6, <1>7, <1>8
<1>10. lines' = [l \in Lines |-> lines'[l]]
  BY DEF DraftLines
<1>11. ASSUME NEW t \in Shipments \ {s}, NEW l \in Lines
       PROVE  /\ lines'[l].shipment = t <=> lines[l].shipment = t
              /\ lines[l].shipment = t => lines'[l] = lines[l]
  <2>1. CASE l \in Range(id)
    BY <1>3, <1>4, <1>5, <2>1
  <2>2. CASE l \notin Range(id)
    BY <1>4, <1>6, <1>7, <2>2
  <2> QED BY <2>1, <2>2
<1> QED BY <1>9, <1>10, <1>11

(* createImportShipment                                                    *)
LEMMA DraftWriteKeeps ==
  ASSUME ImportsInv, NEW c \in Clients, DraftWrite(c), serial' = (serial /\ Alone')
  PROVE  ImportsInv'
<1>1. PICK s, d : s = call[c].shipment /\ d = call[c].draft
  OBVIOUS
<1>2. call[c].op = "upsert" /\ s \in Shipments /\ d \in Drafts
  BY <1>1 DEF DraftWrite, ImportsInv, CallsKnow, CallKnows
<1>3. PICK base : base = SumFunction([p \in DOMAIN d |-> d[p].amount])
  OBVIOUS
<1>4. PICK id \in Injection(DOMAIN d, {l \in Lines : lines[l] = NoLine}) : lines' = DraftLines(s, d, id)
  BY <1>1 DEF DraftWrite
<1>5. /\ shipments' = [shipments EXCEPT ![s] =
           [status |-> IF shipments[s].status = "absent" THEN "draft" ELSE shipments[s].status,
            base |-> base, total |-> base, costs |-> shipments[s].costs]]
      /\ Read(c, Free) /\ UNCHANGED <<receipts, onHand>>
  BY <1>1, <1>3 DEF DraftWrite, Done
<1>6. base \in Nat
  <2> DEFINE f == [p \in DOMAIN d |-> d[p].amount]
  <2>1. DOMAIN d \subseteq Products /\ f \in [DOMAIN d -> Nat]
    BY <1>2, ImportAssumption
  <2>2. IsFiniteSet(DOMAIN d)
    BY <2>1, ImportAssumption, FS_Subset
  <2> HIDE DEF f
  <2>3. SumFunction(f) \in Nat
    BY <2>1, <2>2, TotalType
  <2> QED BY <1>3, <2>3 DEF f
<1>7. /\ lines' \in [Lines -> LineRow]
      /\ \A t \in Shipments \ {s}, l \in Lines :
           /\ lines'[l].shipment = t <=> lines[l].shipment = t
           /\ lines[l].shipment = t => lines'[l] = lines[l]
  BY <1>2, <1>4, DraftLinesSets DEF ImportsInv
<1>8. ImportTypes' /\ StockIsReceived'
  <2>1. shipments[s] \in ShipmentRow /\ shipments \in [Shipments -> ShipmentRow]
    BY <1>2 DEF ImportsInv, ImportTypes
  <2>2. [status |-> IF shipments[s].status = "absent" THEN "draft" ELSE shipments[s].status,
         base |-> base, total |-> base, costs |-> shipments[s].costs] \in ShipmentRow
    BY <1>6, <2>1 DEF ShipmentRow
  <2>3. shipments' \in [Shipments -> ShipmentRow]
    BY <1>5, <2>1, <2>2
  <2>4. StockIsReceived'
    BY <1>5 DEF ImportsInv, StockIsReceived
  <2> QED BY <1>5, <1>7, <2>3, <2>4 DEF ImportsInv, ImportTypes
<1>9. /\ shipments'[s].status = (IF shipments[s].status = "absent" THEN "draft" ELSE shipments[s].status)
      /\ \A t \in Shipments : t # s => shipments'[t] = shipments[t]
  BY <1>2, <1>5 DEF ImportsInv, ImportTypes
<1>10. ASSUME SerialImports, NEW t \in Shipments PROVE ReceivedOnce(t)' /\ Landed(t)'
  <2>0. ReceivedOnce(t) /\ Landed(t) /\ shipments[s].status \in {"absent", "draft"}
    BY <1>1, <1>2, <1>10 DEF SerialImports, CallIsCurrent
  <2>1. CASE t = s
    <3>1. ~Received(s) /\ shipments'[s].status = "draft"
      BY <1>9, <2>0, <2>1 DEF ReceivedOnce
    <3> QED BY <1>5, <2>1, <3>1 DEF ReceivedOnce, Received, Landed
  <2>2. CASE t # s
    <3>1. LinesOf(t)' = LinesOf(t) /\ \A l \in LinesOf(t) : l \in Lines /\ lines'[l] = lines[l]
      BY <1>7, <2>2 DEF LinesOf
    <3>2. Amount(LinesOf(t))' = Amount(LinesOf(t))
      <4> DEFINE f == [l \in Lines |-> lines[l].amount]
                 g == [l \in Lines |-> lines'[l].amount]
      <4>1. IsFiniteSet(LinesOf(t)) /\ \A l \in LinesOf(t) : f[l] = g[l]
        BY <3>1, ImportAssumption, FS_Subset DEF LinesOf
      <4> HIDE DEF f, g
      <4>2. SumFunctionOnSet(f, LinesOf(t)) = SumFunctionOnSet(g, LinesOf(t))
        BY <4>1, SumSame
      <4> QED BY <3>1, <4>2 DEF Amount, f, g
    <3>3. \A r \in Receipts : receipts[r].shipment = t => ReceiptRight(t, r)'
      <4> SUFFICES ASSUME NEW r \in Receipts, receipts[r].shipment = t, NEW i \in DOMAIN receipts[r].lines
                   PROVE  LET e == receipts[r].lines[i] IN
                            /\ lines'[e.line].shipment = t /\ lines'[e.line].product = e.product
                            /\ lines'[e.line].share = e.share /\ e.received <= lines'[e.line].quantity
        BY <1>5 DEF ReceiptRight
      <4> DEFINE e == receipts[r].lines[i]
      <4>1. e.line \in Lines
        BY ReceiptEntry DEF ImportsInv
      <4>2. /\ lines[e.line].shipment = t /\ lines[e.line].product = e.product
            /\ lines[e.line].share = e.share /\ e.received <= lines[e.line].quantity
        BY <2>0 DEF ReceivedOnce, ReceiptRight
      <4>3. lines'[e.line] = lines[e.line]
        BY <1>7, <2>2, <4>1, <4>2
      <4> QED BY <4>2, <4>3
    <3>4. ReceivedOnce(t)'
      BY <1>5, <1>9, <2>0, <2>2, <3>3 DEF ReceivedOnce, Received
    <3>5. Landed(t)'
      BY <1>9, <2>0, <2>2, <3>1, <3>2 DEF Landed
    <3> QED BY <3>4, <3>5
  <2> QED BY <2>1, <2>2
<1>11. call[c].op # "free"
  BY <1>2
<1> QED BY <1>5, <1>8, <1>10, <1>11, Written, FreeKnows

(* The lines of the receipt a request writes: one for each of its body, of *)
(* the product and the quantity given there, from a row it read.           *)
LEMMA ReceiptLines ==
  ASSUME NEW k, CallKnows(k), k.op = "receive", NEW es,
         es = [i \in DOMAIN k.body |-> ReceiptLine(k, k.body[i])]
  PROVE  /\ es \in Seq(EntryRow)
         /\ \A p : Units(es, p) = Units(k.body, p) /\ Units(es, p) \in Nat
         /\ \A i \in DOMAIN es : \E row \in k.read :
              /\ es[i].line = row.line /\ es[i].product = row.product /\ es[i].share = row.share
              /\ es[i].received <= row.quantity
<1>1. k.read \in SUBSET ReadRow /\ k.body \in Seq([product : Products, received : Nat])
  BY ImportAssumption DEF CallKnows
<1> DEFINE Asked == [product : Products, received : Nat]
<1>2. PICK n \in Nat : /\ DOMAIN k.body = 1..n
                      /\ \A i \in 1..n : k.body[i].product \in Products /\ k.body[i].received \in Nat
  <2>1. \A e \in Asked : e.product \in Products /\ e.received \in Nat
    OBVIOUS
  <2>2. k.body \in Seq(Asked)
    BY <1>1
  <2> HIDE DEF Asked
  <2>3. Len(k.body) \in Nat /\ DOMAIN k.body = 1..Len(k.body) /\ \A i \in 1..Len(k.body) : k.body[i] \in Asked
    BY <2>2
  <2> QED BY <2>1, <2>3
<1>3. ASSUME NEW i \in DOMAIN k.body
      PROVE  /\ es[i] \in EntryRow /\ es[i].product = k.body[i].product /\ es[i].received = k.body[i].received
             /\ \E row \in k.read :
                  /\ es[i].line = row.line /\ es[i].product = row.product /\ es[i].share = row.share
                  /\ es[i].received <= row.quantity
  <2>1. PICK row : row = (CHOOSE r \in Matching(k, k.body[i]) : TRUE)
    OBVIOUS
  <2>2. Matching(k, k.body[i]) # {}
    BY DEF CallKnows
  <2>3. row \in Matching(k, k.body[i])
    BY <2>1, <2>2
  <2>4. row \in k.read /\ row \in ReadRow /\ row.product = k.body[i].product /\ k.body[i].received <= row.quantity
    BY <1>1, <2>3 DEF Matching
  <2>5. es[i] = [line |-> row.line, product |-> row.product, received |-> k.body[i].received, share |-> row.share]
    BY <2>1 DEF ReceiptLine
  <2>6. es[i] \in EntryRow
    BY <1>2, <2>4, <2>5 DEF EntryRow, ReadRow
  <2> QED BY <2>4, <2>5, <2>6
<1>4. DOMAIN es = 1..n /\ es \in Seq(EntryRow)
  <2>1. es \in [1..n -> EntryRow]
    BY <1>2, <1>3
  <2> QED BY <2>1
<1>5. ASSUME NEW p PROVE Units(es, p) = Units(k.body, p) /\ Units(es, p) \in Nat
  <2>1. [i \in DOMAIN es |-> IF es[i].product = p THEN es[i].received ELSE 0]
          = [i \in DOMAIN k.body |-> IF k.body[i].product = p THEN k.body[i].received ELSE 0]
    BY <1>2, <1>3, <1>4
  <2>2. Units(k.body, p) \in Nat
    BY <1>2, UnitsType
  <2> QED BY <2>1, <2>2 DEF Units
<1> QED BY <1>2, <1>3, <1>4, <1>5

(* No units in no lines.                                                   *)
LEMMA NoUnits == \A p : Units(<<>>, p) = 0
<1> TAKE p
<1> DEFINE f == [i \in DOMAIN <<>> |-> IF <<>>[i].product = p THEN <<>>[i].received ELSE 0]
<1>1. IsFiniteSet({}) /\ f \in [{} -> Int]
  BY FS_EmptySet
<1> HIDE DEF f
<1>2. SumFunction(f) = 0
  BY <1>1, TotalZero
<1> QED BY <1>2 DEF Units, f

(* A number per receipt, where one of them grew by d.                      *)
LEMMA ReceiptTotal ==
  ASSUME NEW f \in [Receipts -> Int], NEW g \in [Receipts -> Int], NEW r \in Receipts, NEW d \in Int,
         g[r] = f[r] + d, \A q \in Receipts : q # r => g[q] = f[q]
  PROVE  SumFunction(f) \in Int /\ SumFunction(g) = SumFunction(f) + d
<1>1. IsFiniteSet(Receipts)
  BY ImportAssumption
<1> QED BY <1>1, TotalAdds

(* The stock of a product over the receipts once one more was written.     *)
LEMMA ReceiptAdds ==
  ASSUME ImportTypes, NEW p, NEW r \in Receipts, receipts[r] = NoReceipt, NEW es \in Seq(EntryRow),
         receipts'[r].lines = es, \A q \in Receipts : q # r => receipts'[q] = receipts[q]
  PROVE  /\ SumFunction([q \in Receipts |-> Units(receipts[q].lines, p)]) \in Int
         /\ SumFunction([q \in Receipts |-> Units(receipts'[q].lines, p)]) =
              SumFunction([q \in Receipts |-> Units(receipts[q].lines, p)]) + Units(es, p)
<1> DEFINE f == [q \in Receipts |-> Units(receipts[q].lines, p)]
           g == [q \in Receipts |-> Units(receipts'[q].lines, p)]
<1>1. \A xs \in Seq(EntryRow) : Units(xs, p) \in Nat
  <2> TAKE xs \in Seq(EntryRow)
  <2>1. Len(xs) \in Nat /\ DOMAIN xs = 1..Len(xs) /\ \A i \in 1..Len(xs) : xs[i] \in EntryRow
    OBVIOUS
  <2>2. \A i \in 1..Len(xs) : xs[i].received \in Nat
    BY <2>1 DEF EntryRow
  <2> QED BY <2>1, <2>2, UnitsType
<1>4. \A q \in Receipts : receipts'[q].lines \in Seq(EntryRow) /\ receipts[q].lines \in Seq(EntryRow)
  BY DEF ImportTypes
<1>5. f \in [Receipts -> Int] /\ g \in [Receipts -> Int] /\ Units(es, p) \in Int
  BY <1>1, <1>4
<1>6. g[r] = f[r] + Units(es, p) /\ \A q \in Receipts : q # r => g[q] = f[q]
  <2>1. f[r] = 0
    BY NoUnits DEF NoReceipt
  <2>2. g[r] = Units(es, p)
    OBVIOUS
  <2>3. \A q \in Receipts : q # r => g[q] = f[q]
    OBVIOUS
  <2> QED BY <1>5, <2>1, <2>2, <2>3
<1> HIDE DEF f, g
<1>7. SumFunction(f) \in Int /\ SumFunction(g) = SumFunction(f) + Units(es, p)
  BY <1>5, <1>6, ReceiptTotal
<1> QED BY <1>7 DEF f, g

(* receiveImportShipment: the stock grows by what the receipt carries.     *)
LEMMA ReceiveWriteKeeps ==
  ASSUME ImportsInv, NEW c \in Clients, ReceiveWrite(c), serial' = (serial /\ Alone')
  PROVE  ImportsInv'
<1>1. PICK k : k = call[c]
  OBVIOUS
<1>2. PICK es : es = [i \in DOMAIN k.body |-> ReceiptLine(k, k.body[i])]
  OBVIOUS
<1>3. /\ CallKnows(k) /\ k.op = "receive" /\ Read(c, Free) /\ UNCHANGED lines
      /\ onHand' = [p \in Products |-> Stocked(p, k.body)]
      /\ shipments' = [shipments EXCEPT ![k.shipment].status = "received"]
  BY <1>1 DEF ImportsInv, CallsKnow, ReceiveWrite, Done
<1>4. PICK r \in Receipts :
        receipts[r] = NoReceipt /\ receipts' = [receipts EXCEPT ![r] = [shipment |-> k.shipment, lines |-> es]]
  BY <1>1, <1>2 DEF ReceiveWrite
<1>5. k.shipment \in Shipments
  BY <1>3 DEF CallKnows
<1>6. /\ es \in Seq(EntryRow)
      /\ \A p : Units(es, p) = Units(k.body, p) /\ Units(es, p) \in Nat
      /\ \A i \in DOMAIN es : \E row \in k.read :
           /\ es[i].line = row.line /\ es[i].product = row.product /\ es[i].share = row.share
           /\ es[i].received <= row.quantity
  <2>1. CallKnows(k) /\ k.op = "receive"
    BY <1>3
  <2> QED BY <1>2, <2>1, ReceiptLines, SMTT(60)
<1>7. \A p \in Products : onHand[p] \in Nat /\ onHand'[p] = onHand[p] + Units(es, p)
  BY <1>3, <1>6 DEF Stocked, ImportsInv, ImportTypes
<1>8. ImportTypes'
  <2>1. onHand' \in [Products -> Nat]
    BY <1>3, <1>6, <1>7
  <2>2. shipments' \in [Shipments -> ShipmentRow]
    BY <1>3, <1>5 DEF ImportsInv, ImportTypes, ShipmentRow
  <2>3. [shipment |-> k.shipment, lines |-> es] \in [shipment : Shipments \cup {None}, lines : Seq(EntryRow)]
    BY <1>5, <1>6
  <2>4. receipts' \in [Receipts -> [shipment : Shipments \cup {None}, lines : Seq(EntryRow)]]
    BY <1>4, <2>3 DEF ImportsInv, ImportTypes
  <2> QED BY <1>3, <2>1, <2>2, <2>4 DEF ImportsInv, ImportTypes
<1>11. /\ receipts'[r].shipment = k.shipment /\ receipts'[r].lines = es /\ receipts[r].shipment = None
       /\ \A q \in Receipts : q # r => receipts'[q] = receipts[q]
  BY <1>4 DEF ImportsInv, ImportTypes, NoReceipt
<1>9. StockIsReceived'
  <2> SUFFICES ASSUME NEW p \in Products
               PROVE  onHand'[p] = SumFunction([q \in Receipts |-> Units(receipts'[q].lines, p)])
    BY DEF StockIsReceived, Units
  <2>1. onHand[p] = SumFunction([q \in Receipts |-> Units(receipts[q].lines, p)])
    BY DEF ImportsInv, StockIsReceived
  <2>2. SumFunction([q \in Receipts |-> Units(receipts'[q].lines, p)]) =
          SumFunction([q \in Receipts |-> Units(receipts[q].lines, p)]) + Units(es, p)
    BY <1>4, <1>6, <1>11, ReceiptAdds DEF ImportsInv
  <2> QED BY <1>7, <2>1, <2>2
<1>10. /\ shipments'[k.shipment].status = "received"
       /\ \A t \in Shipments : t # k.shipment => shipments'[t] = shipments[t]
  BY <1>3, <1>5 DEF ImportsInv, ImportTypes, ShipmentRow
<1>12. ASSUME SerialImports, NEW t \in Shipments PROVE ReceivedOnce(t)' /\ Landed(t)'
  <2>0. ReceivedOnce(t) /\ Landed(t) /\ k.read = RowsRead(k.shipment) /\ ~Received(k.shipment)
    BY <1>1, <1>3, <1>12 DEF SerialImports, CallIsCurrent
  <2>1. CASE t = k.shipment
    <3>1. \A q \in Receipts : receipts'[q].shipment = k.shipment => q = r
      BY <1>11, <2>0 DEF Received
    <3>2. ReceiptRight(k.shipment, r)'
      <4>1. \A i \in DOMAIN es : /\ lines[es[i].line].shipment = k.shipment
                                 /\ lines[es[i].line].product = es[i].product
                                 /\ lines[es[i].line].share = es[i].share
                                 /\ es[i].received <= lines[es[i].line].quantity
        BY <1>6, <2>0 DEF RowsRead, LinesOf
      <4> QED BY <1>3, <1>11, <4>1 DEF ReceiptRight
    <3>3. Received(k.shipment)'
      BY <1>11 DEF Received
    <3>4. ReceivedOnce(k.shipment)'
      BY <1>10, <3>1, <3>2, <3>3 DEF ReceivedOnce, ReceiptRight
    <3> QED BY <1>10, <2>1, <3>4 DEF ReceivedOnce, Received, ReceiptRight, Landed
  <2>2. CASE t # k.shipment
    <3>1. \A q \in Receipts : receipts'[q].shipment = t <=> receipts[q].shipment = t
      BY <1>11, <2>2, ImportAssumption
    <3>2. \A q \in Receipts : receipts[q].shipment = t => receipts'[q] = receipts[q] /\ ReceiptRight(t, q)
      BY <1>11, <2>0, ImportAssumption DEF ReceivedOnce
    <3>3. \A q \in Receipts : receipts[q].shipment = t => ReceiptRight(t, q)'
      BY <1>3, <3>2 DEF ReceiptRight
    <3>4. ReceivedOnce(t)'
      BY <1>10, <2>0, <2>2, <3>1, <3>3 DEF ReceivedOnce, Received
    <3>5. Landed(t)'
      BY <1>3, <1>10, <2>0, <2>2 DEF Landed, Amount, LinesOf
    <3> QED BY <3>4, <3>5
  <2> QED BY <2>1, <2>2
<1>13. call[c].op # "free"
  BY <1>1, <1>3
<1> QED BY <1>3, <1>8, <1>9, <1>12, <1>13, Written, FreeKnows

LEMMA ImportsGoOn == ImportsInv /\ [ImportsNext]_imports => ImportsInv'
<1> SUFFICES ASSUME ImportsInv, [ImportsNext]_imports PROVE ImportsInv'
  OBVIOUS
<1>1. CASE ImportsNext
  <2>1. PICK c \in Clients : Serve(c)
    BY <1>1 DEF ImportsNext
  <2>2. serial' = (serial /\ Alone')
    BY <1>1 DEF ImportsNext
  <2> QED BY <2>1, <2>2, DraftReadKeeps, DraftWriteKeeps, CostsCheckKeeps, CostsInsertKeeps,
             CostsRereadKeeps, CostsWriteKeeps, FinalizeReadKeeps, FinalizeWriteKeeps,
             ReceiveReadKeeps, ReceiveCheckKeeps, ReceiveWriteKeeps, StopKeepsImports DEF Serve
<1>2. CASE UNCHANGED imports
  <2>1. ImportTypes' /\ CallsKnow' /\ StockIsReceived'
    BY <1>2 DEF imports, ImportsInv, ImportTypes, CallsKnow, StockIsReceived
  <2>2. serial' => SerialImports'
    <3> SUFFICES ASSUME serial' PROVE SerialImports'
      OBVIOUS
    <3>1. UNCHANGED <<shipments, lines, receipts, call>> /\ SerialImports
      BY <1>2 DEF imports, ImportsInv
    <3>2. Alone' /\ \A c \in Clients : CallIsCurrent(call[c])'
      BY <3>1 DEF SerialImports, Alone, CallIsCurrent, Unreceived, LinesOf, RowsRead, Received
    <3>3. \A s \in Shipments : ReceivedOnce(s)'
      BY <3>1 DEF SerialImports, ReceivedOnce, Received, ReceiptRight
    <3>4. \A s \in Shipments : Landed(s)'
      BY <3>1 DEF SerialImports, Landed, Amount, LinesOf
    <3> QED BY <3>2, <3>3, <3>4 DEF SerialImports
  <2> QED BY <2>1, <2>2 DEF ImportsInv
<1> QED BY <1>1, <1>2

LEMMA ImportsInvHolds == Spec => []ImportsInv
<1>1. Init => ImportsInv
  BY ImportsStart DEF Init
<1>2. ImportsInv /\ [Next]_vars => ImportsInv'
  <2>1. [Next]_vars => [ImportsNext]_imports
    BY DEF Next, vars
  <2> QED BY <2>1, ImportsGoOn
<1> QED BY <1>1, <1>2, PTL DEF Spec

(* receiveImportShipment: for any number of shipments and receipts and     *)
(* however requests interleave or stop, the stock of a product is what all *)
(* receipts accepted of it.                                                *)
THEOREM ReceiptsAreStocked == Spec => []StockIsReceived
<1>1. ImportsInv => StockIsReceived
  BY DEF ImportsInv
<1> QED BY <1>1, ImportsInvHolds, PTL

(* addImportCosts, finalizeImportShipment: while requests are served one   *)
(* at a time the costs a cleared shipment shared out over its lines lie    *)
(* within its total, and its total within what its cost lines sum up to.   *)
THEOREM CostsAreShared == Spec => []LandedWithinTotal
<1>1. ImportsInv => LandedWithinTotal
  BY DEF ImportsInv, SerialImports, Landed, LandedWithinTotal
<1> QED BY <1>1, ImportsInvHolds, PTL

(* receiveImportShipment: while requests are served one at a time a        *)
(* shipment is received by one receipt, and its lines stay as received.    *)
THEOREM ReceivedAsShipped == Spec => []ReceiptMatchesShipment
<1>1. ImportsInv => ReceiptMatchesShipment
  <2> SUFFICES ASSUME ImportsInv, serial, NEW s \in Shipments, ReceivedOnce(s)
               PROVE  LET mine == {r \in Receipts : receipts[r].shipment = s} IN
                      /\ shipments[s].status = "received" <=> mine # {}
                      /\ \A r, q \in mine : r = q
                      /\ \A r \in mine : \A e \in Range(receipts[r].lines) :
                           /\ lines[e.line].shipment = s
                           /\ [product |-> e.product, share |-> e.share] =
                                [product |-> lines[e.line].product, share |-> lines[e.line].share]
                           /\ e.received <= lines[e.line].quantity
    BY DEF ImportsInv, SerialImports, ReceiptMatchesShipment
  <2> QED BY DEF ReceivedOnce, Received, ReceiptRight, Range
<1> QED BY <1>1, ImportsInvHolds, PTL
=============================================================================
