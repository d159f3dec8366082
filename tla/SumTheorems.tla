---------------------------- MODULE SumTheorems -----------------------------
(***************************************************************************)
(* What the sums of the community modules compute: SumFunctionOnSet(f, S), *)
(* the sum of f over a finite set, and SumFunction(f), over the domain of  *)
(* f.  Both are defined by a recursive function on the subsets of S, which *)
(* takes an element away at each step; here that function is shown to      *)
(* exist and to be one, and from it that the order does not matter, how a  *)
(* sum changes when one value does, and that sums are linear and monotone. *)
(* Induction runs over the subsets of a finite set: among those where the  *)
(* claim fails there would be one with the least cardinality.              *)
(***************************************************************************)
EXTENDS Integers, Functions, FiniteSetTheorems, WellFoundedInduction, TLAPS

(* The pairs of numbers in order.                                          *)
Smaller == {ss \in Nat \X Nat : ss[1] < ss[2]}

LEMMA SmallerWF == IsWellFoundedOn(Smaller, Nat)
  BY NatLessThanWellFounded DEF Smaller, OpToRel

(* A set of natural numbers that is not empty has a least element.         *)
LEMMA Smallest ==
  ASSUME NEW T \in SUBSET Nat, T # {}
  PROVE  \E n \in T : \A m \in T : n <= m
<1>1. PICK n \in T : \A m \in T : <<m, n>> \notin Smaller
  BY SmallerWF, WFMin
<1>2. \A m \in T : ~ (m < n)
  BY <1>1 DEF Smaller
<1> QED BY <1>2

(* A non-empty set of finite sets has one without a proper subset in it.   *)
LEMMA SmallestSet ==
  ASSUME NEW F, F # {}, \A s \in F : IsFiniteSet(s)
  PROVE  \E s \in F : \A t \in F : t \subseteq s => t = s
<1> DEFINE Cards == {Cardinality(s) : s \in F}
<1>1. Cards \in SUBSET Nat /\ Cards # {}
  BY FS_CardinalityType
<1>2. PICK n \in Cards : \A m \in Cards : n <= m
  BY <1>1, Smallest
<1>3. PICK s \in F : Cardinality(s) = n
  OBVIOUS
<1>4. ASSUME NEW t \in F, t \subseteq s, t # s PROVE FALSE
  <2>1. Cardinality(t) \in Nat /\ Cardinality(s) \in Nat
    BY FS_CardinalityType
  <2>2. Cardinality(t) <= Cardinality(s) /\ Cardinality(t) # Cardinality(s)
    BY <1>4, FS_Subset
  <2> QED BY <2>1, <2>2, <1>2, <1>3
<1> QED BY <1>4

-----------------------------------------------------------------------------
(* The recursion of MapThenFoldSet: the element it takes, its equation on  *)
(* the subsets of S, and a function that solves it, if there is one.       *)
Chosen(s) == CHOOSE x \in s : TRUE
Summing(g, f, S) == g = [s \in SUBSET S |-> IF s = {} THEN 0 ELSE f[Chosen(s)] + g[s \ {Chosen(s)}]]
Partial(f, S) == CHOOSE g : Summing(g, f, S)

(* The definition of the sum in these terms.                               *)
LEMMA SumPartial == \A f, S : SumFunctionOnSet(f, S) = Partial(f, S)[S]
  BY DEF SumFunctionOnSet, FoldFunctionOnSet, MapThenFoldSet, Summing, Chosen, Partial

(* The element that is taken is one of the set.                            *)
LEMMA ChosenIn == \A s : s # {} => Chosen(s) \in s
  BY DEF Chosen

(* The equation at a subset, and at the set itself.                        *)
LEMMA SummingAt ==
  ASSUME NEW f, NEW S, NEW g, Summing(g, f, S), NEW s \in SUBSET S
  PROVE  /\ s = {} => g[s] = 0
         /\ s # {} => g[s] = f[Chosen(s)] + g[s \ {Chosen(s)}]
  BY DEF Summing

LEMMA SummingTop ==
  \A f, S : S # {} /\ Summing(Partial(f, S), f, S) =>
    Partial(f, S)[S] = f[Chosen(S)] + Partial(f, S)[S \ {Chosen(S)}]
<1> SUFFICES ASSUME NEW f, NEW S, NEW g, S # {}, Summing(g, f, S)
             PROVE  g[S] = f[Chosen(S)] + g[S \ {Chosen(S)}]
  OBVIOUS
<1> QED BY SummingAt

(* Solutions for a set and for a subset of it agree on the subset.         *)
LEMMA SummingUnique ==
  ASSUME NEW f, NEW S, IsFiniteSet(S), NEW g, Summing(g, f, S),
         NEW T \in SUBSET S, NEW h, Summing(h, f, T)
  PROVE  \A s \in SUBSET T : g[s] = h[s]
<1> DEFINE Differ == {s \in SUBSET T : g[s] # h[s]}
<1> SUFFICES ASSUME Differ # {} PROVE FALSE
  OBVIOUS
<1>1. \A s \in Differ : IsFiniteSet(s)
  BY FS_Subset
<1>2. PICK s \in Differ : \A t \in Differ : t \subseteq s => t = s
  <2> HIDE DEF Differ
  <2> QED BY <1>1, SmallestSet
<1>3. s # {}
  BY SummingAt
<1>4. Chosen(s) \in s
  BY <1>3, ChosenIn
<1>5. s \ {Chosen(s)} \notin Differ
  BY <1>2, <1>4
<1>6. g[s \ {Chosen(s)}] = h[s \ {Chosen(s)}]
  BY <1>5
<1>7. g[s] = f[Chosen(s)] + g[s \ {Chosen(s)}] /\ h[s] = f[Chosen(s)] + h[s \ {Chosen(s)}]
  BY <1>3, SummingAt
<1> QED BY <1>6, <1>7

(* There is a solution for every finite set.                               *)
LEMMA SummingExists ==
  ASSUME NEW f, NEW S, IsFiniteSet(S)
  PROVE  \E g : Summing(g, f, S)
<1> DEFINE Bad == {T \in SUBSET S : ~ \E g : Summing(g, f, T)}
<1> SUFFICES ASSUME Bad # {} PROVE FALSE
  OBVIOUS
<1>1. \A s \in Bad : IsFiniteSet(s)
  BY FS_Subset
<1>2. PICK T \in Bad : \A t \in Bad : t \subseteq T => t = T
  <2> HIDE DEF Bad
  <2> QED BY <1>1, SmallestSet
<1>3. IsFiniteSet(T)
  BY <1>1
<1>4. ASSUME NEW U \in SUBSET T, U # T PROVE Summing(Partial(f, U), f, U)
  BY <1>2, <1>4 DEF Partial
<1> DEFINE At(s) == IF s = {} THEN 0 ELSE f[Chosen(s)] + Partial(f, s \ {Chosen(s)})[s \ {Chosen(s)}]
           g == [s \in SUBSET T |-> At(s)]
<1>5. ASSUME NEW s \in SUBSET T, s # {} PROVE s \ {Chosen(s)} # T /\ s \ {Chosen(s)} \in SUBSET T /\ g[s \ {Chosen(s)}] = Partial(f, s \ {Chosen(s)})[s \ {Chosen(s)}]
  <2>1. Chosen(s) \in s
    BY <1>5, ChosenIn
  <2> DEFINE u == s \ {Chosen(s)}
  <2>2. u \in SUBSET T /\ u # T
    BY <2>1
  <2>3. Summing(Partial(f, u), f, u)
    BY <1>4, <2>2
  <2>4. CASE u = {}
    <3>1. Partial(f, u)[u] = 0
      <4> HIDE DEF u
      <4> QED BY <2>3, <2>4, SummingAt
    <3> QED BY <2>2, <2>4, <3>1
  <2>5. CASE u # {}
    <3>1. Chosen(u) \in u
      BY <2>5, ChosenIn
    <3> DEFINE v == u \ {Chosen(u)}
    <3>2. v \in SUBSET u /\ v \in SUBSET T /\ v # T
      BY <2>2, <3>1
    <3>3. Summing(Partial(f, v), f, v)
      BY <1>4, <3>2
    <3>4. IsFiniteSet(u)
      BY <1>3, <2>2, FS_Subset
    <3>5. Partial(f, u)[v] = Partial(f, v)[v]
      <4> HIDE DEF u, v
      <4> QED BY <2>3, <3>2, <3>3, <3>4, SummingUnique
    <3>6. Partial(f, u)[u] = f[Chosen(u)] + Partial(f, u)[v]
      <4> HIDE DEF u
      <4> QED BY <2>3, <2>5, SummingTop
    <3>7. g[u] = f[Chosen(u)] + Partial(f, v)[v]
      BY <2>2, <2>5
    <3> QED BY <2>2, <3>5, <3>6, <3>7
  <2> QED BY <2>2, <2>4, <2>5
<1>6. g = [s \in SUBSET T |-> IF s = {} THEN 0 ELSE f[Chosen(s)] + g[s \ {Chosen(s)}]]
  <2>1. \A s \in SUBSET T : At(s) = IF s = {} THEN 0 ELSE f[Chosen(s)] + g[s \ {Chosen(s)}]
    BY <1>5
  <2> HIDE DEF At
  <2> QED BY <2>1
<1>7. Summing(g, f, T)
  BY <1>6 DEF Summing
<1> QED BY <1>7, <1>2

(* So the sum of each subset is the value of the one solution.             *)
LEMMA PartialSum ==
  ASSUME NEW f, NEW S, IsFiniteSet(S)
  PROVE  /\ Summing(Partial(f, S), f, S)
         /\ \A s \in SUBSET S : Partial(f, S)[s] = SumFunctionOnSet(f, s)
<1>1. ASSUME NEW T \in SUBSET S PROVE Summing(Partial(f, T), f, T)
  <2>1. IsFiniteSet(T)
    BY FS_Subset
  <2> QED BY <2>1, SummingExists DEF Partial
<1>2. ASSUME NEW s \in SUBSET S PROVE Partial(f, S)[s] = Partial(f, s)[s]
  BY <1>1, SummingUnique
<1> QED BY <1>1, <1>2, SumPartial

(* The sum over no elements, and over at least one.                        *)
LEMMA SumEmpty == \A f : SumFunctionOnSet(f, {}) = 0
<1> TAKE f
<1>1. IsFiniteSet({})
  BY FS_EmptySet
<1>2. Summing(Partial(f, {}), f, {}) /\ SumFunctionOnSet(f, {}) = Partial(f, {})[{}]
  BY <1>1, PartialSum
<1> QED BY <1>2 DEF Summing

LEMMA SumChosen ==
  ASSUME NEW f, NEW S, IsFiniteSet(S), S # {}
  PROVE  SumFunctionOnSet(f, S) = f[Chosen(S)] + SumFunctionOnSet(f, S \ {Chosen(S)})
<1>1. Chosen(S) \in S
  BY ChosenIn
<1>2. /\ Summing(Partial(f, S), f, S)
      /\ Partial(f, S)[S] = SumFunctionOnSet(f, S)
      /\ Partial(f, S)[S \ {Chosen(S)}] = SumFunctionOnSet(f, S \ {Chosen(S)})
  BY PartialSum
<1>3. Partial(f, S)[S] = f[Chosen(S)] + Partial(f, S)[S \ {Chosen(S)}]
  BY <1>2, SummingTop
<1> QED BY <1>2, <1>3

(* The sum of integers is an integer, of naturals a natural number.        *)
LEMMA SumType ==
  ASSUME NEW f, NEW S, IsFiniteSet(S), NEW Numbers \in {Nat, Int}, \A x \in S : f[x] \in Numbers
  PROVE  SumFunctionOnSet(f, S) \in Numbers
<1> DEFINE Bad == {T \in SUBSET S : SumFunctionOnSet(f, T) \notin Numbers}
<1> SUFFICES ASSUME Bad # {} PROVE FALSE
  OBVIOUS
<1>1. \A s \in Bad : IsFiniteSet(s)
  BY FS_Subset
<1>2. PICK T \in Bad : \A t \in Bad : t \subseteq T => t = T
  <2> HIDE DEF Bad
  <2> QED BY <1>1, SmallestSet
<1>3. T # {}
  BY SumEmpty
<1>4. Chosen(T) \in T
  BY <1>3, ChosenIn
<1>5. SumFunctionOnSet(f, T \ {Chosen(T)}) \in Numbers
  BY <1>2, <1>4
<1>6. f[Chosen(T)] \in Numbers
  BY <1>4
<1>7. SumFunctionOnSet(f, T) = f[Chosen(T)] + SumFunctionOnSet(f, T \ {Chosen(T)})
  BY <1>1, <1>3, SumChosen
<1>8. \A a, b \in Numbers : a + b \in Numbers
  OBVIOUS
<1> QED BY <1>5, <1>6, <1>7, <1>8

(* The order does not matter.                                              *)
LEMMA SumRemove ==
  ASSUME NEW f, NEW S, IsFiniteSet(S), \A x \in S : f[x] \in Int, NEW x \in S
  PROVE  SumFunctionOnSet(f, S) = f[x] + SumFunctionOnSet(f, S \ {x})
<1> DEFINE Bad == {T \in SUBSET S : \E y \in T : SumFunctionOnSet(f, T) # f[y] + SumFunctionOnSet(f, T \ {y})}
<1> SUFFICES ASSUME Bad # {} PROVE FALSE
  OBVIOUS
<1>1. \A s \in Bad : IsFiniteSet(s)
  BY FS_Subset
<1>2. PICK T \in Bad : \A t \in Bad : t \subseteq T => t = T
  <2> HIDE DEF Bad
  <2> QED BY <1>1, SmallestSet
<1>3. PICK y \in T : SumFunctionOnSet(f, T) # f[y] + SumFunctionOnSet(f, T \ {y})
  OBVIOUS
<1> DEFINE p == Chosen(T)
<1>4. p \in T
  BY ChosenIn
<1>5. SumFunctionOnSet(f, T) = f[p] + SumFunctionOnSet(f, T \ {p})
  BY <1>1, SumChosen
<1> HIDE DEF p
<1>6. p # y
  BY <1>3, <1>5
<1>7. T \ {p} \notin Bad /\ T \ {y} \notin Bad
  BY <1>2, <1>3, <1>4
<1>8. SumFunctionOnSet(f, T \ {p}) = f[y] + SumFunctionOnSet(f, (T \ {p}) \ {y})
  BY <1>6, <1>7
<1>9. SumFunctionOnSet(f, T \ {y}) = f[p] + SumFunctionOnSet(f, (T \ {y}) \ {p})
  BY <1>4, <1>6, <1>7
<1>10. (T \ {p}) \ {y} = (T \ {y}) \ {p}
  OBVIOUS
<1>11. IsFiniteSet((T \ {y}) \ {p})
  BY <1>1, FS_Subset
<1>12. SumFunctionOnSet(f, (T \ {y}) \ {p}) \in Int
  BY <1>11, SumType
<1>13. f[p] \in Int /\ f[y] \in Int
  BY <1>4
<1> DEFINE rest == SumFunctionOnSet(f, (T \ {y}) \ {p})
<1>14. f[p] + (f[y] + rest) = f[y] + (f[p] + rest)
  <2>1. rest \in Int
    BY <1>12
  <2> HIDE DEF rest, Bad
  <2> QED BY <2>1, <1>13
<1>15. SumFunctionOnSet(f, T) = f[y] + SumFunctionOnSet(f, T \ {y})
  <2> HIDE DEF Bad
  <2> QED BY <1>5, <1>8, <1>9, <1>10, <1>14
<1> QED BY <1>3, <1>15

(* Only the values on the set count.                                       *)
LEMMA SumSame ==
  ASSUME NEW f, NEW g, NEW S, IsFiniteSet(S), \A x \in S : f[x] = g[x]
  PROVE  SumFunctionOnSet(f, S) = SumFunctionOnSet(g, S)
<1> DEFINE Bad == {T \in SUBSET S : SumFunctionOnSet(f, T) # SumFunctionOnSet(g, T)}
<1> SUFFICES ASSUME Bad # {} PROVE FALSE
  OBVIOUS
<1>1. \A s \in Bad : IsFiniteSet(s)
  BY FS_Subset
<1>2. PICK T \in Bad : \A t \in Bad : t \subseteq T => t = T
  <2> HIDE DEF Bad
  <2> QED BY <1>1, SmallestSet
<1>3. T # {}
  BY SumEmpty
<1>4. Chosen(T) \in T
  BY <1>3, ChosenIn
<1>5. SumFunctionOnSet(f, T \ {Chosen(T)}) = SumFunctionOnSet(g, T \ {Chosen(T)})
  BY <1>2, <1>4
<1>6. /\ SumFunctionOnSet(f, T) = f[Chosen(T)] + SumFunctionOnSet(f, T \ {Chosen(T)})
      /\ SumFunctionOnSet(g, T) = g[Chosen(T)] + SumFunctionOnSet(g, T \ {Chosen(T)})
  BY <1>1, <1>3, SumChosen
<1> QED BY <1>4, <1>5, <1>6

-----------------------------------------------------------------------------
(* Induction over the subsets of a finite set, the property as the set of  *)
(* the subsets that have it.                                               *)
LEMMA SubsetInduction ==
  ASSUME NEW S, IsFiniteSet(S), NEW Good, {} \in Good,
         \A T \in SUBSET S : \A x \in S \ T : T \in Good => T \cup {x} \in Good
  PROVE  S \in Good
<1> DEFINE Bad == {T \in SUBSET S : T \notin Good}
<1> SUFFICES ASSUME Bad # {} PROVE FALSE
  OBVIOUS
<1>1. \A s \in Bad : IsFiniteSet(s)
  BY FS_Subset
<1>2. PICK T \in Bad : \A t \in Bad : t \subseteq T => t = T
  <2> HIDE DEF Bad
  <2> QED BY <1>1, SmallestSet
<1>3. PICK x \in T : TRUE
  OBVIOUS
<1>4. T \ {x} \in Good
  BY <1>2, <1>3
<1>5. (T \ {x}) \cup {x} = T /\ x \in S \ (T \ {x}) /\ T \ {x} \in SUBSET S
  BY <1>3
<1> QED BY <1>4, <1>5

(* An element more.                                                        *)
LEMMA SumInsert ==
  ASSUME NEW f, NEW S, IsFiniteSet(S), NEW x, x \notin S, \A y \in S \cup {x} : f[y] \in Int
  PROVE  SumFunctionOnSet(f, S \cup {x}) = f[x] + SumFunctionOnSet(f, S)
<1>1. IsFiniteSet(S \cup {x})
  BY FS_AddElement
<1>2. (S \cup {x}) \ {x} = S
  OBVIOUS
<1> QED BY <1>1, <1>2, SumRemove

(* One value changed.                                                      *)
LEMMA SumChange ==
  ASSUME NEW f, NEW g, NEW S, IsFiniteSet(S), NEW x \in S,
         \A y \in S : f[y] \in Int /\ g[y] \in Int,
         \A y \in S \ {x} : g[y] = f[y]
  PROVE  SumFunctionOnSet(g, S) = SumFunctionOnSet(f, S) - f[x] + g[x]
<1>1. IsFiniteSet(S \ {x})
  BY FS_Subset
<1>2. SumFunctionOnSet(g, S \ {x}) = SumFunctionOnSet(f, S \ {x})
  BY <1>1, SumSame
<1>3. SumFunctionOnSet(f, S \ {x}) \in Int
  BY <1>1, SumType
<1>4. SumFunctionOnSet(g, S) = g[x] + SumFunctionOnSet(g, S \ {x})
  BY SumRemove
<1>5. SumFunctionOnSet(f, S) = f[x] + SumFunctionOnSet(f, S \ {x})
  BY SumRemove
<1> QED BY <1>2, <1>3, <1>4, <1>5

(* Nothing but zeros.                                                      *)
LEMMA SumZero ==
  ASSUME NEW f, NEW S, IsFiniteSet(S), \A x \in S : f[x] = 0
  PROVE  SumFunctionOnSet(f, S) = 0
<1> DEFINE Good == {T \in SUBSET S : SumFunctionOnSet(f, T) = 0}
<1>1. {} \in Good
  BY SumEmpty
<1>2. ASSUME NEW T \in SUBSET S, NEW x \in S \ T, T \in Good PROVE T \cup {x} \in Good
  <2>1. IsFiniteSet(T) /\ \A y \in T \cup {x} : f[y] \in Int
    BY FS_Subset
  <2>2. SumFunctionOnSet(f, T \cup {x}) = f[x] + SumFunctionOnSet(f, T)
    BY <2>1, SumInsert
  <2> QED BY <1>2, <2>2
<1>3. S \in Good
  <2> HIDE DEF Good
  <2> QED BY <1>1, <1>2, SubsetInduction
<1> QED BY <1>3

(* The sum is linear.                                                      *)
LEMMA SumLinear ==
  ASSUME NEW f, NEW g, NEW h, NEW S, IsFiniteSet(S), NEW k \in Int,
         \A x \in S : f[x] \in Int /\ g[x] \in Int /\ h[x] = f[x] + k * g[x]
  PROVE  SumFunctionOnSet(h, S) = SumFunctionOnSet(f, S) + k * SumFunctionOnSet(g, S)
<1> DEFINE Good == {T \in SUBSET S : SumFunctionOnSet(h, T)
                                        = SumFunctionOnSet(f, T) + k * SumFunctionOnSet(g, T)}
<1>1. {} \in Good
  BY SumEmpty
<1>2. ASSUME NEW T \in SUBSET S, NEW x \in S \ T, T \in Good PROVE T \cup {x} \in Good
  <2>1. IsFiniteSet(T)
    BY FS_Subset
  <2>2. SumFunctionOnSet(h, T \cup {x}) = h[x] + SumFunctionOnSet(h, T)
    <3>1. \A y \in T \cup {x} : h[y] \in Int
      BY <1>2
    <3> QED BY <2>1, <3>1, SumInsert
  <2>3. SumFunctionOnSet(f, T \cup {x}) = f[x] + SumFunctionOnSet(f, T)
    BY <2>1, SumInsert
  <2>4. SumFunctionOnSet(g, T \cup {x}) = g[x] + SumFunctionOnSet(g, T)
    BY <2>1, SumInsert
  <2>5. SumFunctionOnSet(f, T) \in Int /\ SumFunctionOnSet(g, T) \in Int
    BY <2>1, SumType
  <2>6. h[x] = f[x] + k * g[x] /\ f[x] \in Int /\ g[x] \in Int
    OBVIOUS
  <2>7. SumFunctionOnSet(h, T) = SumFunctionOnSet(f, T) + k * SumFunctionOnSet(g, T)
    BY <1>2
  <2>8. \A a, b, c, d \in Int : (a + k * b) + (c + k * d) = (a + c) + k * (b + d)
    OBVIOUS
  <2> QED BY <2>2, <2>3, <2>4, <2>5, <2>6, <2>7, <2>8
<1>3. S \in Good
  <2> HIDE DEF Good
  <2> QED BY <1>1, <1>2, SubsetInduction
<1> QED BY <1>3

(* Term by term.                                                           *)
LEMMA SumMonotone ==
  ASSUME NEW f, NEW g, NEW S, IsFiniteSet(S),
         \A x \in S : f[x] \in Int /\ g[x] \in Int /\ f[x] <= g[x]
  PROVE  SumFunctionOnSet(f, S) <= SumFunctionOnSet(g, S)
<1> DEFINE Good == {T \in SUBSET S : SumFunctionOnSet(f, T) <= SumFunctionOnSet(g, T)}
<1>1. {} \in Good
  BY SumEmpty
<1>2. ASSUME NEW T \in SUBSET S, NEW x \in S \ T, T \in Good PROVE T \cup {x} \in Good
  <2>1. IsFiniteSet(T)
    BY FS_Subset
  <2>2. SumFunctionOnSet(f, T \cup {x}) = f[x] + SumFunctionOnSet(f, T)
    BY <2>1, SumInsert
  <2>3. SumFunctionOnSet(g, T \cup {x}) = g[x] + SumFunctionOnSet(g, T)
    BY <2>1, SumInsert
  <2>4. SumFunctionOnSet(f, T) \in Int /\ SumFunctionOnSet(g, T) \in Int
    BY <2>1, SumType
  <2> QED BY <1>2, <2>2, <2>3, <2>4
<1>3. S \in Good
  <2> HIDE DEF Good
  <2> QED BY <1>1, <1>2, SubsetInduction
<1> QED BY <1>3

(* Over two sets that do not meet.                                         *)
LEMMA SumUnion ==
  ASSUME NEW f, NEW S, IsFiniteSet(S), NEW R, IsFiniteSet(R), R \cap S = {},
         \A x \in R \cup S : f[x] \in Int
  PROVE  SumFunctionOnSet(f, R \cup S) = SumFunctionOnSet(f, R) + SumFunctionOnSet(f, S)
<1> DEFINE Good == {T \in SUBSET S : SumFunctionOnSet(f, R \cup T)
                                        = SumFunctionOnSet(f, R) + SumFunctionOnSet(f, T)}
<1>0. SumFunctionOnSet(f, R) \in Int
  BY SumType
<1>1. {} \in Good
  <2>1. R \cup {} = R
    OBVIOUS
  <2> QED BY <1>0, <2>1, SumEmpty
<1>2. ASSUME NEW T \in SUBSET S, NEW x \in S \ T, T \in Good PROVE T \cup {x} \in Good
  <2>1. IsFiniteSet(T)
    BY FS_Subset
  <2>2. SumFunctionOnSet(f, T \cup {x}) = f[x] + SumFunctionOnSet(f, T)
    BY <2>1, SumInsert
  <2>3. SumFunctionOnSet(f, (R \cup T) \cup {x}) = f[x] + SumFunctionOnSet(f, R \cup T)
    <3>1. IsFiniteSet(R \cup T) /\ x \notin R \cup T
      BY <2>1, FS_Union
    <3> QED BY <3>1, SumInsert
  <2>4. R \cup (T \cup {x}) = (R \cup T) \cup {x}
    OBVIOUS
  <2>5. SumFunctionOnSet(f, T) \in Int
    BY <2>1, SumType
  <2>6. f[x] \in Int
    OBVIOUS
  <2>7. SumFunctionOnSet(f, R \cup T) = SumFunctionOnSet(f, R) + SumFunctionOnSet(f, T)
    BY <1>2
  <2>8. SumFunctionOnSet(f, R \cup (T \cup {x})) = SumFunctionOnSet(f, R) + SumFunctionOnSet(f, T \cup {x})
    <3>1. SumFunctionOnSet(f, R \cup (T \cup {x})) = f[x] + SumFunctionOnSet(f, R \cup T)
      BY <2>3, <2>4
    <3>2. \A a, b, c \in Int : a + (b + c) = b + (a + c)
      OBVIOUS
    <3>3. f[x] + (SumFunctionOnSet(f, R) + SumFunctionOnSet(f, T))
            = SumFunctionOnSet(f, R) + (f[x] + SumFunctionOnSet(f, T))
      BY <1>0, <2>5, <2>6, <3>2
    <3> HIDE DEF Good
    <3> QED BY <3>1, <3>3, <2>2, <2>7, Zenon
  <2> QED BY <2>8
<1>3. S \in Good
  <2> HIDE DEF Good
  <2> QED BY <1>1, <1>2, SubsetInduction
<1> QED BY <1>3

(* A sum of natural numbers over fewer elements is not greater.            *)
LEMMA SumSubset ==
  ASSUME NEW f, NEW S, IsFiniteSet(S), NEW T \in SUBSET S, \A x \in S : f[x] \in Nat
  PROVE  SumFunctionOnSet(f, T) <= SumFunctionOnSet(f, S)
<1>1. IsFiniteSet(T) /\ IsFiniteSet(S \ T) /\ T \cap (S \ T) = {} /\ T \cup (S \ T) = S
  BY FS_Subset
<1>2. SumFunctionOnSet(f, S) = SumFunctionOnSet(f, T) + SumFunctionOnSet(f, S \ T)
  <2>1. \A x \in T \cup (S \ T) : f[x] \in Int
    OBVIOUS
  <2> QED BY <1>1, <2>1, SumUnion
<1>3. SumFunctionOnSet(f, T) \in Nat
  <2>1. \A x \in T : f[x] \in Nat
    OBVIOUS
  <2> QED BY <1>1, <2>1, SumType
<1>4. SumFunctionOnSet(f, S \ T) \in Nat
  <2>1. \A x \in S \ T : f[x] \in Nat
    OBVIOUS
  <2> QED BY <1>1, <2>1, SumType
<1> QED BY <1>2, <1>3, <1>4

(* A value of zero does not count.                                         *)
LEMMA SumSupport ==
  ASSUME NEW f, NEW S, IsFiniteSet(S), NEW T \in SUBSET S,
         \A x \in S : f[x] \in Int, \A x \in S \ T : f[x] = 0
  PROVE  SumFunctionOnSet(f, S) = SumFunctionOnSet(f, T)
<1>1. IsFiniteSet(T) /\ IsFiniteSet(S \ T) /\ T \cap (S \ T) = {} /\ T \cup (S \ T) = S
  BY FS_Subset
<1>2. SumFunctionOnSet(f, S \ T) = 0
  BY <1>1, SumZero
<1>3. SumFunctionOnSet(f, T) \in Int
  BY <1>1, SumType
<1>4. SumFunctionOnSet(f, T \cup (S \ T)) = SumFunctionOnSet(f, T) + SumFunctionOnSet(f, S \ T)
  BY <1>1, SumUnion
<1>5. SumFunctionOnSet(f, T) + 0 = SumFunctionOnSet(f, T)
  BY <1>3
<1> QED BY <1>1, <1>2, <1>4, <1>5, Zenon

-----------------------------------------------------------------------------
(* The same facts for the sum of a function over its whole domain.         *)
LEMMA TotalType ==
  ASSUME NEW S, IsFiniteSet(S), NEW Numbers \in {Nat, Int}, NEW f \in [S -> Numbers]
  PROVE  SumFunction(f) \in Numbers
<1>1. DOMAIN f = S /\ \A x \in S : f[x] \in Numbers
  OBVIOUS
<1>2. SumFunctionOnSet(f, S) \in Numbers
  BY <1>1, SumType
<1> QED BY <1>1, <1>2 DEF SumFunction

(* One value changed; one value grown by d.                                *)
LEMMA TotalChange ==
  ASSUME NEW S, IsFiniteSet(S), NEW f \in [S -> Int], NEW g \in [S -> Int], NEW x \in S,
         \A y \in S \ {x} : g[y] = f[y]
  PROVE  SumFunction(g) = SumFunction(f) - f[x] + g[x]
<1>1. DOMAIN f = S /\ DOMAIN g = S /\ \A y \in S : f[y] \in Int /\ g[y] \in Int
  OBVIOUS
<1>2. SumFunctionOnSet(g, S) = SumFunctionOnSet(f, S) - f[x] + g[x]
  BY <1>1, SumChange
<1> QED BY <1>1, <1>2 DEF SumFunction

LEMMA TotalAdds ==
  ASSUME NEW S, IsFiniteSet(S), NEW f, f \in [S -> Int], NEW g, g \in [S -> Int],
         NEW x, x \in S, NEW d, d \in Int,
         g[x] = f[x] + d, \A y \in S : y # x => g[y] = f[y]
  PROVE  SumFunction(f) \in Int /\ SumFunction(g) = SumFunction(f) + d
<1>1. SumFunction(f) \in Int
  BY TotalType
<1>2. SumFunction(g) = SumFunction(f) - f[x] + g[x]
  BY TotalChange
<1>3. f[x] \in Int
  OBVIOUS
<1> QED BY <1>1, <1>2, <1>3

(* Nothing but zeros, a linear combination, and term by term.              *)
LEMMA TotalZero ==
  ASSUME NEW S, IsFiniteSet(S), NEW f \in [S -> Int], \A x \in S : f[x] = 0
  PROVE  SumFunction(f) = 0
<1>1. DOMAIN f = S
  OBVIOUS
<1>2. SumFunctionOnSet(f, S) = 0
  BY SumZero
<1> QED BY <1>1, <1>2 DEF SumFunction

LEMMA TotalLinear ==
  ASSUME NEW S, IsFiniteSet(S), NEW f \in [S -> Int], NEW g \in [S -> Int],
         NEW h \in [S -> Int], NEW k \in Int, \A x \in S : h[x] = f[x] + k * g[x]
  PROVE  SumFunction(h) = SumFunction(f) + k * SumFunction(g)
<1>1. DOMAIN f = S /\ DOMAIN g = S /\ DOMAIN h = S
  OBVIOUS
<1>2. \A x \in S : f[x] \in Int /\ g[x] \in Int /\ h[x] = f[x] + k * g[x]
  OBVIOUS
<1>3. SumFunctionOnSet(h, S) = SumFunctionOnSet(f, S) + k * SumFunctionOnSet(g, S)
  BY <1>2, SumLinear
<1> QED BY <1>1, <1>3 DEF SumFunction

LEMMA TotalMonotone ==
  ASSUME NEW S, IsFiniteSet(S), NEW f \in [S -> Int], NEW g \in [S -> Int],
         \A x \in S : f[x] <= g[x]
  PROVE  SumFunction(f) <= SumFunction(g)
<1>1. DOMAIN f = S /\ DOMAIN g = S /\ \A y \in S : f[y] \in Int /\ g[y] \in Int
  OBVIOUS
<1>2. SumFunctionOnSet(f, S) <= SumFunctionOnSet(g, S)
  BY <1>1, SumMonotone
<1> QED BY <1>1, <1>2 DEF SumFunction

(* One term among terms that are not negative.                             *)
LEMMA TotalTerm ==
  ASSUME NEW S, IsFiniteSet(S), NEW f \in [S -> Nat], NEW x \in S
  PROVE  f[x] <= SumFunction(f)
<1>1. DOMAIN f = S /\ (\A y \in S : f[y] \in Int) /\ \A y \in S \ {x} : f[y] \in Nat
  OBVIOUS
<1>2. SumFunctionOnSet(f, S) = f[x] + SumFunctionOnSet(f, S \ {x})
  BY <1>1, SumRemove
<1>3. IsFiniteSet(S \ {x})
  BY FS_Subset
<1>4. SumFunctionOnSet(f, S \ {x}) \in Nat
  BY <1>1, <1>3, SumType
<1>5. f[x] \in Nat
  OBVIOUS
<1> QED BY <1>1, <1>2, <1>4, <1>5 DEF SumFunction
=============================================================================
