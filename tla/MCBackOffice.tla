----------------------------- MODULE MCBackOffice -----------------------------
(* BackOffice on a small instance. *)
EXTENDS BackOffice

CONSTANTS g1, g2,     \* products
          m1, m2, m3, \* messages
          e1,         \* an event
          q1, q2, q3, \* subsidiaries
          f1, f2      \* catalog items

Entry(p, n) == [product |-> p, received |-> n]
Row(n) == [quantity |-> n, amount |-> n]

MCDrafts == {g1 :> Row(2), (g1 :> Row(1) @@ g2 :> Row(1))}
MCBodies == {<<Entry(g1, 1)>>, <<Entry(g1, 2), Entry(g1, 1)>>, <<Entry(g1, 1), Entry(g2, 1)>>}

(* q3 has no agreement; weights may miss the whole by a thousandth, but    *)
(* not by more; and none need be positive.                                 *)
MCSplits == {(q1 :> 500 @@ q2 :> 501), (q1 :> 1500 @@ q3 :> -500), q1 :> 998}
MCSums == {501, -501}

(* An event published twice and a message without an id. *)
MCEventOf == m1 :> e1 @@ m2 :> e1 @@ m3 :> None

MCScopeOf == f1 :> "product" @@ f2 :> "variant"
MCExplicit == {{<<"season", "1">>, <<"concentration", "1">>}}

(* Ids of different tables are the same model values, so that one small    *)
(* group permutes each service's.                                          *)
Symmetry == Permutations(Clients) \cup Permutations(Lines)
===============================================================================
