------------------------------ MODULE MCCheckout ------------------------------
(* Checkout on small instances. *)
EXTENDS Checkout, TLC

Symmetry == Permutations(Clients) \cup Permutations(Orders) \cup Permutations(Payments)
              \cup Permutations(Lines)

(* A reference is named after its gateway. *)
SameName == [i \in Intents |-> i]

Cash(n) == [method |-> "cash", amount |-> n, capture |-> FALSE]
Points(n) == [method |-> "points", amount |-> n, capture |-> FALSE]
Card(n) == [method |-> "card", amount |-> n, capture |-> FALSE]
CapturedCard(n) == [method |-> "card", amount |-> n, capture |-> TRUE]

Retail(tenders) == [total |-> 2, tenders |-> tenders, retail |-> TRUE, reserve |-> TRUE,
                    deposit |-> FALSE, issue |-> 0]
Unreserved(r) == [r EXCEPT !.reserve = FALSE]

(* Split payments, nothing to pay with, a deposit, a digital order with    *)
(* points to issue.                                                        *)
Tills == {Retail(<<Cash(1), CapturedCard(1)>>), Retail(<<Points(1), Card(1)>>), Retail(<<>>),
          [Retail(<<Cash(1)>>) EXCEPT !.deposit = TRUE],
          [Unreserved(Retail(<<CapturedCard(2)>>)) EXCEPT !.retail = FALSE, !.issue = 1]}
Splits == {Unreserved(Retail(<<Cash(1), CapturedCard(1)>>)), Unreserved(Retail(<<Points(1), Card(1)>>))}
Cards == {Unreserved(Retail(<<Card(2)>>)), Unreserved(Retail(<<CapturedCard(2)>>))}
===============================================================================
