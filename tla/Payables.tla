------------------------------- MODULE Payables -------------------------------
(***************************************************************************)
(* Supplier invoices and their payments (procurement.service.ts) with the  *)
(* ledger entries each posts.  Creating either is one transaction; the     *)
(* invoice and its payments are read before it, and requests run at once.  *)
(* Amounts are in one currency: the code compares them without converting. *)
(***************************************************************************)
EXTENDS Requests, Integers, FiniteSets, Functions

CONSTANTS Invoices,  \* ids of supplier_invoices (bound)
          Payments,  \* ids of supplier_payments (bound)
          Totals,    \* totals of POST /supplier-invoices
          Amounts    \* amounts of POST /supplier-payments

ASSUME PayableAssumption ==
  /\ Totals \subseteq Nat /\ Amounts \subseteq Nat \ {0}
  /\ IsFiniteSet(Invoices) /\ IsFiniteSet(Payments)
  /\ None \notin Invoices

VARIABLES invoices,  \* status and total
          payments,  \* invoice and amount
          ledger,    \* balance per account, debits minus credits
          desk,      \* per client, the payment it is making and the payments it has read
          apart      \* history: no two requests have been served at once

payables == <<invoices, payments, ledger, desk, apart>>

NoInvoice == [status |-> "absent", total |-> 0]
NoPayment == [invoice |-> None, amount |-> 0]
Away == [invoice |-> None, amount |-> 0, read |-> {}]
Accounts == {"expense", "payable", "cash"}

PayablesInit ==
  /\ invoices = [i \in Invoices |-> NoInvoice]
  /\ payments = [p \in Payments |-> NoPayment]
  /\ ledger = [a \in Accounts |-> 0]
  /\ desk = [c \in Clients |-> Away]
  /\ apart = TRUE

PaymentsOf(i) == {p \in Payments : payments[p].invoice = i}
Paid(S) == SumFunctionOnSet([p \in Payments |-> payments[p].amount], S)

(* Two entries: n on the debit side of one account, n on the credit side   *)
(* of another.                                                             *)
Posted(n, debit, credit) == [ledger EXCEPT ![debit] = @ + n, ![credit] = @ - n]

(* createSupplierInvoice with postSupplierInvoiceToLedger                  *)
CreateInvoice(c) ==
  /\ desk[c] = Away
  /\ \E i \in Invoices, n \in Totals :
       /\ invoices[i].status = "absent"
       /\ invoices' = [invoices EXCEPT ![i] = [status |-> "open", total |-> n]]
       /\ ledger' = Posted(n, "expense", "payable")
  /\ UNCHANGED <<payments, desk>>

(* createSupplierPayment: the invoice with its payments is read, ...       *)
PayRead(c) ==
  /\ desk[c] = Away
  /\ \E i \in Invoices, n \in Amounts :
       /\ invoices[i].status \in {"open", "partial"}
       /\ desk' = [desk EXCEPT ![c] = [invoice |-> i, amount |-> n, read |-> PaymentsOf(i)]]
  /\ UNCHANGED <<invoices, payments, ledger>>

(* ... then the payment is created and posted, and the status set from     *)
(* what was read.                                                          *)
MutantTotalPaid(k) == k.amount  \* earlier payments forgotten
TotalPaid(k) == Paid(k.read) + k.amount

PayWrite(c) ==
  LET k == desk[c] IN
  /\ k # Away
  /\ \E p \in Payments :
       /\ payments[p] = NoPayment
       /\ payments' = [payments EXCEPT ![p] = [invoice |-> k.invoice, amount |-> k.amount]]
  /\ ledger' = Posted(k.amount, "payable", "cash")
  /\ invoices' = [invoices EXCEPT ![k.invoice].status =
                    IF TotalPaid(k) >= invoices[k.invoice].total THEN "paid" ELSE "partial"]
  /\ desk' = [desk EXCEPT ![c] = Away]

(* The transaction is rolled back (an account is missing or not allowed)   *)
(* or the server stops.                                                    *)
PayStops(c) ==
  /\ desk[c] # Away
  /\ desk' = [desk EXCEPT ![c] = Away]
  /\ UNCHANGED <<invoices, payments, ledger>>

PayablesNext ==
  /\ \E c \in Clients : CreateInvoice(c) \/ PayRead(c) \/ PayWrite(c) \/ PayStops(c)
  /\ apart' = (apart /\ \A c, d \in Clients : desk'[c] # Away /\ desk'[d] # Away => c = d)

-----------------------------------------------------------------------------
(* However payments interleave, an invoice that says paid has payments for *)
(* its whole total: the payments a request has read are never withdrawn    *)
(* and its own is written with the status.  The balance of the payable     *)
(* account is what is still owed.  While payments are made one at a time   *)
(* the status of an invoice says what its payments sum up to               *)
(* (createSupplierPayment, postSupplierPaymentToLedger).                   *)
Owed(i) == invoices[i].total - Paid(PaymentsOf(i))

PayablesAgree ==
  /\ \A i \in Invoices : invoices[i].status = "paid" => Paid(PaymentsOf(i)) >= invoices[i].total
  /\ -ledger["payable"] = SumFunction([i \in Invoices |-> Owed(i)])
  /\ apart =>
       \A i \in Invoices :
         invoices[i].status =
           IF invoices[i] = NoInvoice THEN "absent"
           ELSE IF PaymentsOf(i) = {} THEN "open"
           ELSE IF Owed(i) <= 0 THEN "paid" ELSE "partial"
===============================================================================
