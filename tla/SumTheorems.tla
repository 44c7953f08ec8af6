------------------------------ MODULE SumTheorems -----------------------------
(***************************************************************************)
(* Facts about SumFunctionOnSet, the operator that every total of the      *)
(* ledger is (the SUM of the reservations, the settlement still pending,   *)
(* the position of a symbol).  The community modules define it as a fold   *)
(* over a finite set with a recursive function whose existence nothing     *)
(* states; it is shown to exist here, and then what a sum becomes when the *)
(* summands change at one place.                                           *)
(*                                                                         *)
(* Induction goes over the subsets of a finite set ordered by strict       *)
(* inclusion, with a set T in the place of a predicate.                    *)
(***************************************************************************)
EXTENDS Integers, FiniteSets, Functions, FiniteSetTheorems, WellFoundedInduction, TLAPS

\* Induction over the subsets of a finite set: what holds of a set once it holds of its
\* strict subsets holds of all.  Every SUM below is computed in such an order.
LEMMA SubsetInduction ==
  ASSUME NEW S, IsFiniteSet(S), NEW T,
         \A A \in SUBSET S : (\A B \in SUBSET A : B # A => B \in T) => A \in T
  PROVE  \A A \in SUBSET S : A \in T
<1>. DEFINE Bad == {A \in SUBSET S : A \notin T}
<1>. SUFFICES ASSUME Bad # {} PROVE FALSE
  OBVIOUS
<1>1. IsWellFoundedOn(StrictSubsetOrdering(S), SUBSET S)
  <2>1. IsWellFoundedOn(StrictSubsetOrdering(S), FiniteSubsetsOf(S))
    BY FS_StrictSubsetOrderingWellFounded, Zenon
  <2>2. FiniteSubsetsOf(S) = SUBSET S
    BY FS_FiniteSubsetsOfFinite
  <2>. QED  BY <2>1, <2>2
<1>2. PICK A \in Bad : \A B \in Bad : <<B, A>> \notin StrictSubsetOrdering(S)
  <2>1. Bad \subseteq SUBSET S
    OBVIOUS
  <2>. HIDE DEF Bad
  <2>. QED  BY <1>1, <2>1, WFMin
<1>3. ASSUME NEW B \in SUBSET A, B # A PROVE B \in T
  <2>1. <<B, A>> \in (SUBSET S) \X (SUBSET S)
    OBVIOUS
  <2>2. <<B, A>> \in StrictSubsetOrdering(S)
    BY <2>1, <1>3 DEF StrictSubsetOrdering
  <2>. QED  BY <2>2, <1>2
<1>. QED  BY <1>3

\* The element a fold takes first.
Pick(s) == CHOOSE x \in s : TRUE

\* g maps every subset of A to the sum of f over it.
Adds(f, A, g) ==
  g = [s \in SUBSET A |-> IF s = {} THEN 0 ELSE f[Pick(s)] + g[s \ {Pick(s)}]]

\* The sum over a subset does not depend on the set the summation started from.
LEMMA AddsAgree ==
  ASSUME NEW A, IsFiniteSet(A), NEW f, NEW g, NEW B \in SUBSET A, NEW h, Adds(f, A, g), Adds(f, B, h)
  PROVE  \A s \in SUBSET B : g[s] = h[s]
<1>. DEFINE T == {s \in SUBSET B : g[s] = h[s]}
<1>1. IsFiniteSet(B)
  BY FS_Subset
<1>2. ASSUME NEW s \in SUBSET B, \A t \in SUBSET s : t # s => t \in T
      PROVE  s \in T
  <2>1. CASE s = {}
    <3>1. g[s] = 0 BY <2>1 DEF Adds
    <3>2. h[s] = 0 BY <2>1 DEF Adds
    <3>. QED BY <3>1, <3>2
  <2>2. CASE s # {}
    <3>1. g[s] = f[Pick(s)] + g[s \ {Pick(s)}] BY <2>2 DEF Adds
    <3>2. h[s] = f[Pick(s)] + h[s \ {Pick(s)}] BY <2>2 DEF Adds
    <3>3. Pick(s) \in s BY <2>2 DEF Pick
    <3>4. s \ {Pick(s)} \in T BY <1>2, <3>3
    <3>. QED BY <3>1, <3>2, <3>4
  <2>. QED BY <2>1, <2>2
<1>. HIDE DEF T
<1>3. \A s \in SUBSET B : s \in T
  BY <1>1, <1>2, SubsetInduction
<1>. QED BY <1>3 DEF T

\* A function that sums f over every subset of a finite set exists.
LEMMA AddsExists ==
  ASSUME NEW S, IsFiniteSet(S), NEW f
  PROVE  \E g : Adds(f, S, g)
<1>. DEFINE T == {A \in SUBSET S : \E g : Adds(f, A, g)}
<1>1. ASSUME NEW A \in SUBSET S, \A B \in SUBSET A : B # A => B \in T
      PROVE  A \in T
  <2>. DEFINE Sol(B) == CHOOSE g : Adds(f, B, g)
              g == [s \in SUBSET A |-> IF s = {} THEN 0 ELSE f[Pick(s)] + Sol(s \ {Pick(s)})[s \ {Pick(s)}]]
  <2>1. ASSUME NEW s \in SUBSET A, s # {} PROVE g[s \ {Pick(s)}] = Sol(s \ {Pick(s)})[s \ {Pick(s)}]
    <3>. DEFINE t == s \ {Pick(s)}
    <3>1. t \in SUBSET A /\ t # A
      BY <2>1 DEF Pick
    <3>2. Adds(f, t, Sol(t))
      BY <3>1, <1>1
    <3>3. CASE t = {}
      <4>1. Sol(t)[t] = 0
        <5>. HIDE DEF Sol
        <5>. QED BY <3>2, <3>3 DEF Adds
      <4>2. g[t] = 0 BY <3>3, <3>1
      <4>. HIDE DEF g, t, Sol
      <4>. QED BY <4>1, <4>2 DEF t
    <3>4. CASE t # {}
      <4>. DEFINE u == t \ {Pick(t)}
      <4>1. Sol(t)[t] = f[Pick(t)] + Sol(t)[u]
        <5>. HIDE DEF Sol
        <5>. QED BY <3>2, <3>4 DEF Adds
      <4>2. u \in SUBSET A /\ u # A /\ u \in SUBSET t
        BY <3>1
      <4>3. Adds(f, u, Sol(u))
        BY <4>2, <1>1
      <4>4. IsFiniteSet(t)
        BY <3>1, FS_Subset
      <4>5. Sol(t)[u] = Sol(u)[u]
        <5>. HIDE DEF Sol, t, u
        <5>. QED BY <4>2, <4>3, <4>4, <3>2, AddsAgree
      <4>6. g[t] = f[Pick(t)] + Sol(u)[u] BY <3>4, <3>1
      <4>. HIDE DEF g, t, u, Sol
      <4>. QED BY <4>1, <4>5, <4>6 DEF t
    <3>. QED BY <3>3, <3>4
  <2>2. g = [s \in SUBSET A |-> IF s = {} THEN 0 ELSE f[Pick(s)] + g[s \ {Pick(s)}]]
    <3>1. ASSUME NEW s \in SUBSET A PROVE g[s] = IF s = {} THEN 0 ELSE f[Pick(s)] + g[s \ {Pick(s)}]
      <4>1. CASE s = {} BY <4>1
      <4>2. CASE s # {}
        <5>1. g[s] = f[Pick(s)] + Sol(s \ {Pick(s)})[s \ {Pick(s)}] BY <4>2
        <5>. HIDE DEF g, Sol
        <5>. QED BY <4>2, <5>1, <2>1
      <4>. QED BY <4>1, <4>2
    <3>2. g = [s \in SUBSET A |-> g[s]] OBVIOUS
    <3>. HIDE DEF g
    <3>. QED BY <3>1, <3>2
  <2>3. Adds(f, A, g)
    <3>. HIDE DEF g
    <3>. QED BY <2>2 DEF Adds
  <2>. QED BY <2>3
<1>. HIDE DEF T
<1>2. S \in T
  BY <1>1, SubsetInduction
<1>. QED BY <1>2 DEF T

\* SumFunctionOnSet is the value of such a function.
LEMMA SumIsAdds ==
  ASSUME NEW S, IsFiniteSet(S), NEW f
  PROVE \E g : Adds(f, S, g) /\ SumFunctionOnSet(f, S) = g[S]
<1>. DEFINE g == CHOOSE h : Adds(f, S, h)
<1>1. Adds(f, S, g) BY AddsExists
<1>2. SumFunctionOnSet(f, S) = g[S]
  BY <1>1 DEF SumFunctionOnSet, FoldFunctionOnSet, MapThenFoldSet, Adds, Pick
<1>. QED BY <1>1, <1>2

\* A table without rows sums to 0 (the "or 0" of the SUM queries).
LEMMA SumEmpty ==
  ASSUME NEW f
  PROVE  SumFunctionOnSet(f, {}) = 0
<1>1. IsFiniteSet({})
  BY FS_EmptySet
<1>2. PICK g : Adds(f, {}, g) /\ SumFunctionOnSet(f, {}) = g[{}]
  BY <1>1, SumIsAdds
<1>3. g[{}] = 0
  BY <1>2 DEF Adds
<1>. QED  BY <1>2, <1>3

\* A sum is the summand picked first and the sum of the rest.
LEMMA SumStep ==
  ASSUME NEW S, IsFiniteSet(S), S # {}, NEW f
  PROVE  SumFunctionOnSet(f, S) = f[Pick(S)] + SumFunctionOnSet(f, S \ {Pick(S)})
<1>. DEFINE R == S \ {Pick(S)}
<1>1. R \in SUBSET S /\ IsFiniteSet(R)
  BY FS_Subset
<1>2. PICK g : Adds(f, S, g) /\ SumFunctionOnSet(f, S) = g[S]
  BY SumIsAdds
<1>3. PICK h : Adds(f, R, h) /\ SumFunctionOnSet(f, R) = h[R]
  BY <1>1, SumIsAdds
<1>4. g[R] = h[R]
  <2>. HIDE DEF R
  <2>. QED  BY <1>1, <1>2, <1>3, AddsAgree
<1>5. g[S] = f[Pick(S)] + g[R]
  BY <1>2 DEF Adds
<1>. QED  BY <1>2, <1>3, <1>4, <1>5

\* The element picked is one of the set.
LEMMA PickIn ==
  ASSUME NEW S, S # {}
  PROVE  Pick(S) \in S
BY DEF Pick

\* A sum of integers is an integer.
LEMMA SumType ==
  ASSUME NEW S, IsFiniteSet(S), NEW f, \A x \in S : f[x] \in Int
  PROVE  SumFunctionOnSet(f, S) \in Int
<1>. DEFINE T == {A \in SUBSET S : SumFunctionOnSet(f, A) \in Int}
<1>1. ASSUME NEW A \in SUBSET S, \A B \in SUBSET A : B # A => B \in T
      PROVE  A \in T
  <2>1. CASE A = {}
    BY <2>1, SumEmpty
  <2>2. CASE A # {}
    <3>1. Pick(A) \in A
      BY <2>2, PickIn
    <3>2. A \ {Pick(A)} \in T
      BY <1>1, <3>1
    <3>3. IsFiniteSet(A)
      BY FS_Subset
    <3>4. SumFunctionOnSet(f, A) = f[Pick(A)] + SumFunctionOnSet(f, A \ {Pick(A)})
      BY <2>2, <3>3, SumStep
    <3>. QED  BY <3>1, <3>2, <3>4
  <2>. QED  BY <2>1, <2>2
<1>. HIDE DEF T
<1>2. S \in T
  BY <1>1, SubsetInduction
<1>. QED  BY <1>2 DEF T

\* Any summand may be taken out of a sum: the order of the rows does not matter.
LEMMA SumRemove ==
  ASSUME NEW S, IsFiniteSet(S), NEW f, \A x \in S : f[x] \in Int, NEW x \in S
  PROVE  SumFunctionOnSet(f, S) = f[x] + SumFunctionOnSet(f, S \ {x})
<1>. DEFINE Splits(A) == \A y \in A : SumFunctionOnSet(f, A) = f[y] + SumFunctionOnSet(f, A \ {y})
            T == {A \in SUBSET S : Splits(A)}
<1>1. ASSUME NEW A \in SUBSET S, \A B \in SUBSET A : B # A => B \in T
      PROVE  A \in T
  <2>. SUFFICES ASSUME NEW y \in A
                PROVE  SumFunctionOnSet(f, A) = f[y] + SumFunctionOnSet(f, A \ {y})
    OBVIOUS
  <2>. DEFINE p == Pick(A)
  <2>1. p \in A
    BY PickIn
  <2>2. \A B \in SUBSET A : IsFiniteSet(B)
    BY FS_Subset
  <2>3. SumFunctionOnSet(f, A) = f[p] + SumFunctionOnSet(f, A \ {p})
    BY <2>2, SumStep
  <2>. HIDE DEF p
  <2>4. CASE y = p
    BY <2>3, <2>4
  <2>5. CASE y # p
    <3>1. A \ {p} \in T /\ A \ {y} \in T
      BY <1>1, <2>1
    <3>2. SumFunctionOnSet(f, A \ {p}) = f[y] + SumFunctionOnSet(f, (A \ {p}) \ {y})
      BY <3>1, <2>5
    <3>3. SumFunctionOnSet(f, A \ {y}) = f[p] + SumFunctionOnSet(f, (A \ {y}) \ {p})
      BY <3>1, <2>1, <2>5
    <3>. DEFINE rest == SumFunctionOnSet(f, (A \ {p}) \ {y})
    <3>4. (A \ {p}) \ {y} = (A \ {y}) \ {p}
      OBVIOUS
    <3>5. SumFunctionOnSet(f, A \ {y}) = f[p] + rest
      BY <3>3, <3>4
    <3>6. rest \in Int
      BY <2>2, SumType
    <3>7. f[p] \in Int /\ f[y] \in Int
      BY <2>1
    <3>8. SumFunctionOnSet(f, A) = f[p] + (f[y] + rest)
      BY <2>3, <3>2
    <3>. HIDE DEF rest
    <3>. QED  BY <3>5, <3>6, <3>7, <3>8
  <2>. QED  BY <2>4, <2>5
<1>. HIDE DEF T
<1>2. S \in T
  BY <1>1, SubsetInduction
<1>. QED  BY <1>2 DEF T

\* Equal summands have equal sums: a row that no operation touches adds what it added.
LEMMA SumAgree ==
  ASSUME NEW S, IsFiniteSet(S), NEW f, NEW g, \A x \in S : f[x] = g[x]
  PROVE  SumFunctionOnSet(f, S) = SumFunctionOnSet(g, S)
<1>. DEFINE T == {A \in SUBSET S : SumFunctionOnSet(f, A) = SumFunctionOnSet(g, A)}
<1>1. ASSUME NEW A \in SUBSET S, \A B \in SUBSET A : B # A => B \in T
      PROVE  A \in T
  <2>1. CASE A = {}
    BY <2>1, SumEmpty
  <2>2. CASE A # {}
    <3>1. Pick(A) \in A
      BY <2>2, PickIn
    <3>2. A \ {Pick(A)} \in T
      BY <1>1, <3>1
    <3>3. IsFiniteSet(A)
      BY FS_Subset
    <3>4. /\ SumFunctionOnSet(f, A) = f[Pick(A)] + SumFunctionOnSet(f, A \ {Pick(A)})
          /\ SumFunctionOnSet(g, A) = g[Pick(A)] + SumFunctionOnSet(g, A \ {Pick(A)})
      BY <2>2, <3>3, SumStep
    <3>. QED  BY <3>1, <3>2, <3>4
  <2>. QED  BY <2>1, <2>2
<1>. HIDE DEF T
<1>2. S \in T
  BY <1>1, SubsetInduction
<1>. QED  BY <1>2 DEF T

\* An operation that writes one row changes the total by the difference of that row,
\* which is what reserve(), release() and apply_fill() rely on.
THEOREM SumUpdate ==
  ASSUME NEW S, IsFiniteSet(S), NEW f, NEW g, NEW x \in S,
         \A y \in S : f[y] \in Int /\ g[y] \in Int,
         \A y \in S \ {x} : g[y] = f[y]
  PROVE  SumFunctionOnSet(g, S) = SumFunctionOnSet(f, S) - f[x] + g[x]
<1>1. IsFiniteSet(S \ {x})
  BY FS_Subset
<1>2. SumFunctionOnSet(f, S) = f[x] + SumFunctionOnSet(f, S \ {x})
  BY SumRemove
<1>3. SumFunctionOnSet(g, S) = g[x] + SumFunctionOnSet(g, S \ {x})
  BY SumRemove
<1>4. SumFunctionOnSet(f, S \ {x}) = SumFunctionOnSet(g, S \ {x})
  BY <1>1, SumAgree
<1>5. SumFunctionOnSet(f, S \ {x}) \in Int
  BY <1>1, SumType
<1>. QED  BY <1>2, <1>3, <1>4, <1>5

\* A sum of zeros is 0: the total of a ledger just created.
THEOREM SumZero ==
  ASSUME NEW S, IsFiniteSet(S), NEW f, \A x \in S : f[x] = 0
  PROVE  SumFunctionOnSet(f, S) = 0
<1>. DEFINE T == {A \in SUBSET S : SumFunctionOnSet(f, A) = 0}
<1>1. ASSUME NEW A \in SUBSET S, \A B \in SUBSET A : B # A => B \in T
      PROVE  A \in T
  <2>1. CASE A = {}
    BY <2>1, SumEmpty
  <2>2. CASE A # {}
    <3>1. Pick(A) \in A
      BY <2>2, PickIn
    <3>2. A \ {Pick(A)} \in T
      BY <1>1, <3>1
    <3>3. IsFiniteSet(A)
      BY FS_Subset
    <3>4. SumFunctionOnSet(f, A) = f[Pick(A)] + SumFunctionOnSet(f, A \ {Pick(A)})
      BY <2>2, <3>3, SumStep
    <3>. QED  BY <3>1, <3>2, <3>4
  <2>. QED  BY <2>1, <2>2
<1>. HIDE DEF T
<1>2. S \in T
  BY <1>1, SubsetInduction
<1>. QED  BY <1>2 DEF T

\* Larger summands have a larger sum.
THEOREM SumMonotone ==
  ASSUME NEW S, IsFiniteSet(S), NEW f, NEW g,
         \A x \in S : f[x] \in Int /\ g[x] \in Int /\ f[x] <= g[x]
  PROVE  SumFunctionOnSet(f, S) <= SumFunctionOnSet(g, S)
<1>. DEFINE T == {A \in SUBSET S : SumFunctionOnSet(f, A) <= SumFunctionOnSet(g, A)}
<1>1. ASSUME NEW A \in SUBSET S, \A B \in SUBSET A : B # A => B \in T
      PROVE  A \in T
  <2>1. CASE A = {}
    BY <2>1, SumEmpty
  <2>2. CASE A # {}
    <3>. DEFINE R == A \ {Pick(A)}
    <3>1. Pick(A) \in A
      BY <2>2, PickIn
    <3>2. R \in T
      BY <1>1, <3>1
    <3>3. IsFiniteSet(A) /\ IsFiniteSet(R)
      BY FS_Subset
    <3>4. /\ SumFunctionOnSet(f, A) = f[Pick(A)] + SumFunctionOnSet(f, R)
          /\ SumFunctionOnSet(g, A) = g[Pick(A)] + SumFunctionOnSet(g, R)
      BY <2>2, <3>3, SumStep
    <3>5. SumFunctionOnSet(f, R) \in Int /\ SumFunctionOnSet(g, R) \in Int
      BY <3>3, SumType
    <3>6. SumFunctionOnSet(f, R) <= SumFunctionOnSet(g, R)
      BY <3>2
    <3>. HIDE DEF R, T
    <3>7. SumFunctionOnSet(f, A) <= SumFunctionOnSet(g, A)
      BY <3>1, <3>4, <3>5, <3>6
    <3>. QED  BY <3>7 DEF T
  <2>. QED  BY <2>1, <2>2
<1>. HIDE DEF T
<1>2. S \in T
  BY <1>1, SubsetInduction
<1>. QED  BY <1>2 DEF T

\* The sum of differences is the difference of the sums: what available() subtracts in
\* three totals can be read order by order.
THEOREM SumDifference ==
  ASSUME NEW S, IsFiniteSet(S), NEW f, NEW g, NEW h,
         \A x \in S : f[x] \in Int /\ g[x] \in Int /\ h[x] = f[x] - g[x]
  PROVE  SumFunctionOnSet(h, S) = SumFunctionOnSet(f, S) - SumFunctionOnSet(g, S)
<1>. DEFINE T == {A \in SUBSET S :
                    SumFunctionOnSet(h, A) = SumFunctionOnSet(f, A) - SumFunctionOnSet(g, A)}
<1>1. ASSUME NEW A \in SUBSET S, \A B \in SUBSET A : B # A => B \in T
      PROVE  A \in T
  <2>1. CASE A = {}
    BY <2>1, SumEmpty
  <2>2. CASE A # {}
    <3>. DEFINE R == A \ {Pick(A)}
    <3>1. Pick(A) \in A
      BY <2>2, PickIn
    <3>2. R \in T
      BY <1>1, <3>1
    <3>3. IsFiniteSet(A) /\ IsFiniteSet(R)
      BY FS_Subset
    <3>4. /\ SumFunctionOnSet(f, A) = f[Pick(A)] + SumFunctionOnSet(f, R)
          /\ SumFunctionOnSet(g, A) = g[Pick(A)] + SumFunctionOnSet(g, R)
          /\ SumFunctionOnSet(h, A) = h[Pick(A)] + SumFunctionOnSet(h, R)
      BY <2>2, <3>3, SumStep
    <3>5. SumFunctionOnSet(f, R) \in Int /\ SumFunctionOnSet(g, R) \in Int
      BY <3>3, SumType
    <3>6. SumFunctionOnSet(h, R) = SumFunctionOnSet(f, R) - SumFunctionOnSet(g, R)
      BY <3>2
    <3>. HIDE DEF R, T
    <3>7. SumFunctionOnSet(h, A) = SumFunctionOnSet(f, A) - SumFunctionOnSet(g, A)
      BY <3>1, <3>4, <3>5, <3>6
    <3>. QED  BY <3>7 DEF T
  <2>. QED  BY <2>1, <2>2
<1>. HIDE DEF T
<1>2. S \in T
  BY <1>1, SubsetInduction
<1>. QED  BY <1>2 DEF T

\* A sum over client order ids is the sum over the order ids that stand for them.
THEOREM SumReindex ==
  ASSUME NEW S, IsFiniteSet(S), NEW R, IsFiniteSet(R), NEW b, NEW f, NEW g,
         \A x \in S : b[x] \in R /\ f[x] \in Int /\ f[x] = g[b[x]],
         \A x, y \in S : b[x] = b[y] => x = y,
         \A z \in R : \E x \in S : z = b[x]
  PROVE  SumFunctionOnSet(f, S) = SumFunctionOnSet(g, R)
<1>. DEFINE Img(A) == {b[x] : x \in A}
            T == {A \in SUBSET S : SumFunctionOnSet(f, A) = SumFunctionOnSet(g, Img(A))}
<1>1. ASSUME NEW A \in SUBSET S, \A B \in SUBSET A : B # A => B \in T
      PROVE  A \in T
  <2>1. CASE A = {}
    <3>1. Img(A) = {}
      BY <2>1
    <3>. QED  BY <2>1, <3>1, SumEmpty
  <2>2. CASE A # {}
    <3>1. PICK a \in A : a = Pick(A)
      BY <2>2, PickIn
    <3>2. A \ {a} \in T
      BY <1>1
    <3>3. IsFiniteSet(A)
      BY FS_Subset
    <3>4. Img(A) \in SUBSET R /\ b[a] \in Img(A)
      OBVIOUS
    <3>5. IsFiniteSet(Img(A))
      BY <3>4, FS_Subset
    <3>6. Img(A \ {a}) = Img(A) \ {b[a]}
      OBVIOUS
    <3>7. \A z \in Img(A) : g[z] \in Int
      OBVIOUS
    <3>8. SumFunctionOnSet(f, A) = f[a] + SumFunctionOnSet(f, A \ {a})
      BY <2>2, <3>1, <3>3, SumStep
    <3>9. SumFunctionOnSet(g, Img(A)) = g[b[a]] + SumFunctionOnSet(g, Img(A) \ {b[a]})
      <4>. HIDE DEF Img
      <4>. QED  BY <3>4, <3>5, <3>7, SumRemove
    <3>10. SumFunctionOnSet(f, A \ {a}) = SumFunctionOnSet(g, Img(A \ {a}))
      BY <3>2
    <3>. HIDE DEF Img, T
    <3>11. SumFunctionOnSet(f, A) = SumFunctionOnSet(g, Img(A))
      BY <3>6, <3>8, <3>9, <3>10
    <3>. QED  BY <3>11 DEF T
  <2>. QED  BY <2>1, <2>2
<1>. HIDE DEF T
<1>2. S \in T
  BY <1>1, SubsetInduction
<1>3. SumFunctionOnSet(f, S) = SumFunctionOnSet(g, Img(S))
  BY <1>2 DEF T
<1>4. Img(S) = R
  OBVIOUS
<1>. QED  BY <1>3, <1>4
===============================================================================
