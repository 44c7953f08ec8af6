----------------------------- MODULE PositionProofs -----------------------------
(***************************************************************************)
(* What positions() computes, for any orders, prices and times: the net    *)
(* quantity, an average among the prices paid, the moving average of the   *)
(* executions one by one when their times allow it, and prices the         *)
(* exchange takes on either side of it.                                    *)
(*                                                                         *)
(* The position is a fold over a set of snapshots, so each fact about it   *)
(* is an induction over the subsets of that set, with the latest snapshot  *)
(* as the step.  That the fold is what its steps say needs a function that *)
(* takes those steps (FoldExists).  The moving average needs an invariant  *)
(* of the history as well: no sale ever took more than had been bought     *)
(* and been counted before it (SalesCovered).  Without it, a sale that the *)
(* position does not hold would close it and leave the two computations    *)
(* apart.                                                                  *)
(***************************************************************************)
EXTENDS Positions, SumTheorems, TLAPS

-------------------------------------------------------------------------------
\* Finite sets, their last elements, and folds over them.

\* Counting up: what holds of 0 and of the successor of each number it holds of holds of
\* all.
LEMMA CountingUp ==
  ASSUME NEW T, 0 \in T, \A k \in Nat : k \in T => k + 1 \in T
  PROVE  Nat \subseteq T
<1>. DEFINE Bad == {k \in Nat : k \notin T}
<1>. SUFFICES ASSUME Bad # {} PROVE FALSE
  OBVIOUS
<1>1. PICK k \in Bad : \A j \in Bad : <<j, k>> \notin OpToRel(<, Nat)
  <2>1. Bad \subseteq Nat
    OBVIOUS
  <2>. HIDE DEF Bad
  <2>. QED  BY <2>1, NatLessThanWellFounded, WFMin
<1>2. k \in Nat /\ k # 0
  BY <1>1
<1>3. k - 1 \in Nat /\ <<k - 1, k>> \in OpToRel(<, Nat)
  BY <1>2 DEF OpToRel
<1>4. k - 1 \in T
  BY <1>1, <1>3
<1>5. k \in T
  <2>. DEFINE j == k - 1
  <2>1. j \in Nat /\ k = j + 1
    BY <1>2
  <2>2. j + 1 \in T
    <3>. HIDE DEF j
    <3>. QED  BY <2>1, <1>4 DEF j
  <2>. HIDE DEF j, Bad
  <2>. QED  BY <2>1, <2>2
<1>. QED  BY <1>1, <1>5

\* The values of a function on a finite set are finitely many.
LEMMA ImageFinite ==
  ASSUME NEW S, IsFiniteSet(S), NEW f
  PROVE  IsFiniteSet({f[x] : x \in S})
<1>. DEFINE g == [x \in S |-> f[x]]
            T == {f[x] : x \in S}
<1>1. g \in [S -> T] /\ \A y \in T : \E x \in S : g[x] = y
  OBVIOUS
<1>2. g \in Surjection(S, T)
  BY <1>1 DEF Surjection
<1>. QED  BY <1>2, FS_Surjection

\* In a finite set that is ordered one way or the other, every subset has a last element.
LEMMA HasLast ==
  ASSUME NEW S, IsFiniteSet(S), NEW R,
         \A x, y \in S : x # y => <<x, y>> \in R \/ <<y, x>> \in R,
         \A x, y, z \in S : <<x, y>> \in R /\ <<y, z>> \in R => <<x, z>> \in R
  PROVE  \A A \in SUBSET S : A # {} => \E o \in A : \A p \in A \ {o} : <<p, o>> \in R
<1>. DEFINE T == {A \in SUBSET S : A # {} => \E o \in A : \A p \in A \ {o} : <<p, o>> \in R}
<1>1. ASSUME NEW A \in SUBSET S, \A B \in SUBSET A : B # A => B \in T
      PROVE  A \in T
  <2>. SUFFICES ASSUME A # {} PROVE \E o \in A : \A p \in A \ {o} : <<p, o>> \in R
    OBVIOUS
  <2>1. PICK x \in A : TRUE
    OBVIOUS
  <2>2. CASE A = {x}
    BY <2>1, <2>2
  <2>3. CASE A # {x}
    <3>1. PICK o \in A \ {x} : \A p \in A \ {x, o} : <<p, o>> \in R
      <4>1. PICK B \in SUBSET A : B = A \ {x}
        OBVIOUS
      <4>2. B # A /\ B # {} /\ B \ {x} = B
        BY <4>1, <2>1, <2>3
      <4>3. B \in T
        BY <4>2, <1>1
      <4>. QED  BY <4>1, <4>2, <4>3
    <3>2. CASE <<x, o>> \in R
      BY <3>1, <3>2
    <3>3. CASE <<o, x>> \in R
      <4>1. ASSUME NEW p \in A \ {x} PROVE <<p, x>> \in R
        BY <3>1, <3>3, <2>1
      <4>. QED  BY <4>1, <2>1
    <3>. QED  BY <3>1, <3>2, <3>3, <2>1
  <2>. QED  BY <2>2, <2>3
<1>. HIDE DEF T
<1>2. \A A \in SUBSET S : A \in T
  BY <1>1, SubsetInduction
<1>. QED  BY <1>2 DEF T

\* The largest element of a finite set of integers.
LEMMA MaxIsLargest ==
  ASSUME NEW S, IsFiniteSet(S), S \subseteq Int
  PROVE  \A A \in SUBSET S : A # {} => Max(A) \in A /\ \A x \in A : x <= Max(A)
<1>. DEFINE R == {r \in Int \X Int : r[1] < r[2]}
<1>. SUFFICES ASSUME NEW A \in SUBSET S, A # {}
              PROVE  Max(A) \in A /\ \A x \in A : x <= Max(A)
  OBVIOUS
<1>1. \A x, y \in Int : <<x, y>> \in R <=> x < y
  BY SMT
<1>. HIDE DEF R
<1>2. /\ \A x, y \in S : x # y => <<x, y>> \in R \/ <<y, x>> \in R
      /\ \A x, y, z \in S : <<x, y>> \in R /\ <<y, z>> \in R => <<x, z>> \in R
  BY <1>1, SMT
<1>3. PICK o \in A : \A p \in A \ {o} : <<p, o>> \in R
  <2>1. \A B \in SUBSET S : B # {} => \E o \in B : \A p \in B \ {o} : <<p, o>> \in R
    BY <1>2, HasLast
  <2>. QED  BY <2>1
<1>4. \A x \in A : o >= x
  <2>. SUFFICES ASSUME NEW x \in A PROVE o >= x
    OBVIOUS
  <2>1. o \in Int /\ x \in Int
    OBVIOUS
  <2>2. x = o \/ x < o
    BY <1>1, <1>3, <2>1
  <2>. QED  BY <2>1, <2>2
<1>5. Max(A) \in A /\ \A x \in A : Max(A) >= x
  BY <1>4 DEF Max
<1>6. Max(A) \in Int /\ A \subseteq Int
  BY <1>5
<1>. HIDE DEF R
<1>. QED  BY <1>5, <1>6

\* Min likewise.
LEMMA MinIsLeast ==
  ASSUME NEW S, IsFiniteSet(S), S \subseteq Int, S # {}
  PROVE  Min(S) \in S /\ \A x \in S : Min(S) <= x
<1>. DEFINE R == {r \in Int \X Int : r[2] < r[1]}
<1>1. \A x, y \in Int : <<x, y>> \in R <=> y < x
  BY SMT
<1>. HIDE DEF R
<1>2. /\ \A x, y \in S : x # y => <<x, y>> \in R \/ <<y, x>> \in R
      /\ \A x, y, z \in S : <<x, y>> \in R /\ <<y, z>> \in R => <<x, z>> \in R
  BY <1>1, SMT
<1>3. PICK o \in S : \A p \in S \ {o} : <<p, o>> \in R
  <2>1. \A A \in SUBSET S : A # {} => \E o \in A : \A p \in A \ {o} : <<p, o>> \in R
    BY <1>2, HasLast
  <2>. QED  BY <2>1
<1>4. \A x \in S : o <= x
  <2>. SUFFICES ASSUME NEW x \in S PROVE o <= x
    OBVIOUS
  <2>1. o \in Int /\ x \in Int
    OBVIOUS
  <2>2. x = o \/ o < x
    BY <1>1, <1>3, <2>1
  <2>. QED  BY <2>1, <2>2
<1>. QED  BY <1>4 DEF Min

\* What a fold over a set is computed by: step[x] takes the result for the rest on to the
\* one with x, where pick says which element comes last.
Folds(step, pick, base, S, g) ==
  g = [s \in SUBSET S |-> IF s = {} THEN base ELSE step[pick[s]][g[s \ {pick[s]}]]]

\* Such a function exists.
LEMMA FoldExists ==
  ASSUME NEW step, NEW pick, NEW base, NEW S, IsFiniteSet(S),
         \A s \in SUBSET S : s # {} => pick[s] \in s
  PROVE  \E g : Folds(step, pick, base, S, g)
<1>. DEFINE F(k, g) == \A s \in SUBSET S : Cardinality(s) <= k =>
                         g[s] = IF s = {} THEN base ELSE step[pick[s]][g[s \ {pick[s]}]]
            T == {k \in Nat : \E g : F(k, g)}
<1>1. \A s \in SUBSET S : /\ IsFiniteSet(s) /\ Cardinality(s) \in Nat
                          /\ Cardinality(s) <= Cardinality(S)
                          /\ s # {} => Cardinality(s \ {pick[s]}) = Cardinality(s) - 1
  BY FS_Subset, FS_CardinalityType, FS_RemoveElement
<1>2. 0 \in T
  <2>. DEFINE g == [s \in SUBSET S |-> base]
  <2>1. ASSUME NEW s \in SUBSET S, Cardinality(s) <= 0 PROVE s = {}
    <3>1. Cardinality(s) \in Nat /\ IsFiniteSet(s)
      BY <1>1
    <3>2. Cardinality(s) = 0
      BY <3>1, <2>1
    <3>. QED  BY <3>1, <3>2, FS_EmptySet
  <2>2. F(0, g)
    BY <2>1
  <2>. QED  BY <2>2
<1>3. ASSUME NEW k \in Nat, k \in T PROVE k + 1 \in T
  <2>1. PICK g : F(k, g)
    BY <1>3
  <2>. DEFINE h == [s \in SUBSET S |-> IF Cardinality(s) <= k THEN g[s]
                                       ELSE step[pick[s]][g[s \ {pick[s]}]]]
  <2>2. ASSUME NEW s \in SUBSET S, Cardinality(s) <= k + 1, s # {}
        PROVE  h[s] = step[pick[s]][h[s \ {pick[s]}]]
    <3>1. s \ {pick[s]} \in SUBSET S /\ Cardinality(s \ {pick[s]}) <= k
      BY <1>1, <2>2
    <3>2. h[s \ {pick[s]}] = g[s \ {pick[s]}]
      BY <3>1
    <3>3. h[s] = step[pick[s]][g[s \ {pick[s]}]]
      BY <2>1, <2>2
    <3>. QED  BY <3>2, <3>3
  <2>3. h[{}] = base
    <3>1. Cardinality({}) = 0 /\ {} \in SUBSET S
      BY FS_EmptySet
    <3>2. g[{}] = base
      <4>. HIDE DEF h
      <4>1. 0 <= k
        BY <1>3
      <4>. QED  BY <2>1, <3>1, <4>1
    <3>3. h[{}] = IF Cardinality({}) <= k THEN g[{}] ELSE step[pick[{}]][g[{} \ {pick[{}]}]]
      BY <3>1
    <3>. HIDE DEF h
    <3>. QED  BY <3>1, <3>2, <3>3, <1>3
  <2>. HIDE DEF h
  <2>4. F(k + 1, h)
    BY <2>2, <2>3
  <2>5. k + 1 \in Nat
    BY <1>3
  <2>. HIDE DEF F
  <2>. QED  BY <2>4, <2>5
<1>. HIDE DEF T
<1>4. Cardinality(S) \in T
  BY <1>2, <1>3, CountingUp, FS_CardinalityType
<1>5. PICK g : F(Cardinality(S), g)
  BY <1>4 DEF T
<1>. DEFINE h == [s \in SUBSET S |-> g[s]]
<1>6. ASSUME NEW s \in SUBSET S
      PROVE  h[s] = IF s = {} THEN base ELSE step[pick[s]][h[s \ {pick[s]}]]
  BY <1>1, <1>5
<1>7. h = [s \in SUBSET S |-> IF s = {} THEN base ELSE step[pick[s]][h[s \ {pick[s]}]]]
  <2>1. h = [s \in SUBSET S |-> h[s]]
    OBVIOUS
  <2>. HIDE DEF h
  <2>. QED  BY <2>1, <1>6
<1>. HIDE DEF h
<1>. QED  BY <1>7 DEF Folds

\* A fold whose steps stay in V: where its value is there, g takes such a step.
FoldsIn(step, pick, base, S, V, g) ==
  /\ g[{}] = base /\ base \in V
  /\ \A x \in S : \A v \in V : step[x][v] \in V
  /\ \A s \in SUBSET S : s # {} => pick[s] \in s
  /\ \A s \in SUBSET S : s # {} /\ g[s \ {pick[s]}] \in V => g[s] = step[pick[s]][g[s \ {pick[s]}]]

\* Its values are all there.
LEMMA FoldValues ==
  ASSUME NEW step, NEW pick, NEW base, NEW S, IsFiniteSet(S), NEW V, NEW g,
         FoldsIn(step, pick, base, S, V, g)
  PROVE  \A s \in SUBSET S : g[s] \in V
<1>. USE DEF FoldsIn
<1>. DEFINE T == {s \in SUBSET S : g[s] \in V}
<1>1. ASSUME NEW s \in SUBSET S, \A r \in SUBSET s : r # s => r \in T
      PROVE  s \in T
  <2>1. CASE s = {}
    BY <2>1
  <2>2. CASE s # {}
    <3>1. pick[s] \in S /\ s \ {pick[s]} \in T
      BY <1>1, <2>2
    <3>2. step[pick[s]][g[s \ {pick[s]}]] \in V
      BY <3>1
    <3>. QED  BY <2>2, <3>1, <3>2
  <2>. QED  BY <2>1, <2>2
<1>2. \A s \in SUBSET S : s \in T
  <2>. HIDE DEF T
  <2>. QED  BY <1>1, SubsetInduction
<1>. QED  BY <1>2

\* The first n elements of a set of numbers.
First(E, n) == {i \in E : Cardinality({j \in E : j <= i}) <= n}

\* A number beyond them does not change which they are.
LEMMA FirstExtends ==
  ASSUME NEW E, IsFiniteSet(E), E \subseteq Nat, NEW m \in Nat, \A x \in E : x < m,
         NEW n \in Nat, n <= Cardinality(E)
  PROVE  First(E \cup {m}, n) = First(E, n)
<1>1. \A i \in E : {j \in E \cup {m} : j <= i} = {j \in E : j <= i}
  <2>. SUFFICES ASSUME NEW i \in E PROVE ~ (m <= i)
    OBVIOUS
  <2>. QED  OBVIOUS
<1>2. {j \in E \cup {m} : j <= m} = E \cup {m}
  <2>1. \A j \in E \cup {m} : j <= m
    OBVIOUS
  <2>. QED  BY <2>1
<1>3. m \notin E
  OBVIOUS
<1>4. Cardinality(E) \in Nat /\ Cardinality(E \cup {m}) = Cardinality(E) + 1
  BY <1>3, FS_AddElement, FS_CardinalityType
<1>5. m \notin First(E \cup {m}, n)
  BY <1>2, <1>4 DEF First
<1>. QED  BY <1>1, <1>5 DEF First

\* All of them when n is their number, and more of them for a larger n.
LEMMA FirstAll ==
  ASSUME NEW E, IsFiniteSet(E)
  PROVE  /\ First(E, Cardinality(E)) = E
         /\ \A n \in Nat, k \in Nat : n <= k => First(E, n) \subseteq First(E, k)
<1>1. \A i \in E : Cardinality({j \in E : j <= i}) \in Nat /\ Cardinality({j \in E : j <= i}) <= Cardinality(E)
  BY FS_Subset, FS_CardinalityType
<1>. QED  BY <1>1 DEF First

\* The first n are n.
LEMMA FirstCount ==
  ASSUME NEW E, IsFiniteSet(E), E \subseteq Nat, NEW n \in Nat, n <= Cardinality(E)
  PROVE  Cardinality(First(E, n)) = n
<1>. DEFINE T == {A \in SUBSET E : \A k \in 0 .. Cardinality(A) : Cardinality(First(A, k)) = k}
<1>1. ASSUME NEW A \in SUBSET E, \A B \in SUBSET A : B # A => B \in T
      PROVE  A \in T
  <2>. SUFFICES ASSUME NEW k \in 0 .. Cardinality(A) PROVE Cardinality(First(A, k)) = k
    OBVIOUS
  <2>1. IsFiniteSet(A) /\ Cardinality(A) \in Nat
    BY FS_Subset, FS_CardinalityType
  <2>2. CASE k = Cardinality(A)
    BY <2>1, <2>2, FirstAll
  <2>3. CASE k < Cardinality(A)
    <3>1. A # {}
      BY <2>3, FS_EmptySet
    <3>2. PICK m \in A : \A x \in A : x <= m
      <4>1. E \subseteq Int
        OBVIOUS
      <4>2. \A C \in SUBSET E : C # {} => Max(C) \in C /\ \A x \in C : x <= Max(C)
        BY <4>1, MaxIsLargest
      <4>. QED  BY <4>2, <3>1
    <3>. DEFINE B == A \ {m}
    <3>3. IsFiniteSet(B) /\ Cardinality(B) = Cardinality(A) - 1 /\ B \cup {m} = A
      BY <2>1, FS_RemoveElement
    <3>4. B \subseteq Nat /\ m \in Nat /\ k \in Nat /\ k <= Cardinality(B) /\ \A x \in B : x < m
      <4>1. \A x \in A : x \in Nat
        OBVIOUS
      <4>. QED  BY <4>1, <3>2, <3>3, <2>1, <2>3
    <3>. HIDE DEF B
    <3>5. First(A, k) = First(B, k)
      BY <3>3, <3>4, FirstExtends
    <3>6. B \in T
      BY <1>1 DEF B
    <3>. QED  BY <3>4, <3>5, <3>6, <3>3, <2>1
  <2>. QED  BY <2>1, <2>2, <2>3
<1>. HIDE DEF T
<1>2. E \in T
  BY <1>1, SubsetInduction
<1>. QED  BY <1>2, FS_CardinalityType DEF T

-------------------------------------------------------------------------------
\* The state.

\* An element of trades.
Execution == [order : Order, price : Nat \ {0}, at : Nat]

\* The types of the variables.
PositionTypeOK ==
  /\ trades \in Seq(Execution)
  /\ seen \in [Order -> Nat]

\* A snapshot counts executions that happened.
SeenHappened == \A o \in Order : seen[o] <= Cardinality(Executions(o))

\* The orders of a side, what was sold up to an execution, and what was bought before it by
\* executions that the snapshots count.
OrdersOf(side) == {o \in Order : SideOf[o] = side}

SoldUpTo(i) == {j \in DOMAIN trades : j <= i /\ SideOf[trades[j].order] = "sell"}

BoughtBefore(i) == {j \in Visible : j < i /\ SideOf[trades[j].order] = "buy"}

\* No more was sold up to a sale than had been bought before it and been counted.
SalesCovered ==
  \A i \in DOMAIN trades :
    SideOf[trades[i].order] = "sell" => Cardinality(SoldUpTo(i)) <= Cardinality(BoughtBefore(i))

\* The inductive invariant.
PositionInvariant == PositionTypeOK /\ SeenHappened /\ SalesCovered

\* The executions as a set of numbers.
LEMMA TradeType ==
  ASSUME PositionTypeOK
  PROVE  /\ Len(trades) \in Nat /\ DOMAIN trades = 1 .. Len(trades)
         /\ DOMAIN trades \subseteq Nat \ {0} /\ IsFiniteSet(DOMAIN trades)
         /\ \A i \in DOMAIN trades : /\ trades[i] \in Execution /\ trades[i].order \in Order
                                     /\ trades[i].price \in Nat \ {0} /\ trades[i].at \in Nat
<1>1. Len(trades) \in Nat /\ DOMAIN trades = 1 .. Len(trades)
  BY DEF PositionTypeOK
<1>2. IsFiniteSet(DOMAIN trades)
  BY <1>1, FS_Interval
<1>3. \A i \in DOMAIN trades : trades[i] \in Execution
  BY <1>1 DEF PositionTypeOK
<1>4. DOMAIN trades \subseteq Nat \ {0}
  BY <1>1
<1>. QED  BY <1>1, <1>2, <1>3, <1>4 DEF Execution

\* The executions of an order that its snapshot counts are as many as it says.
LEMMA SeenType ==
  ASSUME PositionTypeOK, SeenHappened, NEW o \in Order
  PROVE  /\ Executions(o) \subseteq DOMAIN trades /\ IsFiniteSet(Executions(o))
         /\ Cardinality(Executions(o)) \in Nat
         /\ Seen(o) = First(Executions(o), seen[o])
         /\ Seen(o) \subseteq DOMAIN trades /\ Seen(o) \subseteq Nat /\ IsFiniteSet(Seen(o))
         /\ seen[o] \in Nat /\ Cardinality(Seen(o)) = seen[o]
         /\ \A i \in Seen(o) : trades[i].order = o
<1>1. Executions(o) \subseteq DOMAIN trades
  BY DEF Executions
<1>2. IsFiniteSet(Executions(o)) /\ Executions(o) \subseteq Nat /\ Cardinality(Executions(o)) \in Nat
  BY <1>1, TradeType, FS_Subset, FS_CardinalityType
<1>3. Seen(o) = First(Executions(o), seen[o]) /\ Seen(o) \subseteq Executions(o)
  BY DEF Seen, First
<1>4. seen[o] \in Nat
  BY DEF PositionTypeOK
<1>5. seen[o] <= Cardinality(Executions(o))
  BY DEF SeenHappened
<1>6. Cardinality(Seen(o)) = seen[o]
  BY <1>2, <1>3, <1>4, <1>5, FirstCount
<1>7. \A i \in Seen(o) : trades[i].order = o
  BY <1>3 DEF Executions
<1>8. IsFiniteSet(Seen(o))
  BY <1>2, <1>3, FS_Subset
<1>. QED  BY <1>1, <1>2, <1>3, <1>4, <1>6, <1>7, <1>8

\* The visible executions of some orders.
VisibleOf(orders) == UNION {Seen(o) : o \in orders}

\* They are as many as the snapshots of these orders say.
LEMMA VisibleCount ==
  ASSUME PositionTypeOK, SeenHappened
  PROVE  \A s \in SUBSET Order :
           /\ IsFiniteSet(s) /\ IsFiniteSet(VisibleOf(s))
           /\ VisibleOf(s) \subseteq Visible
           /\ VisibleOf(s) = {i \in Visible : trades[i].order \in s}
           /\ SumFunctionOnSet(seen, s) = Cardinality(VisibleOf(s))
<1>. DEFINE T == {s \in SUBSET Order : /\ IsFiniteSet(VisibleOf(s))
                                       /\ SumFunctionOnSet(seen, s) = Cardinality(VisibleOf(s))}
<1>1. IsFiniteSet(Order) /\ \A o \in Order : seen[o] \in Int
  BY PositionAssumption DEF PositionTypeOK
<1>2. ASSUME NEW s \in SUBSET Order, \A r \in SUBSET s : r # s => r \in T
      PROVE  s \in T
  <2>1. CASE s = {}
    <3>1. VisibleOf({}) = {}
      BY DEF VisibleOf
    <3>. QED  BY <2>1, <3>1, SumEmpty, FS_EmptySet
  <2>2. CASE s # {}
    <3>1. PICK o \in s : TRUE
      BY <2>2
    <3>. DEFINE r == s \ {o}
    <3>2. IsFiniteSet(VisibleOf(r)) /\ SumFunctionOnSet(seen, r) = Cardinality(VisibleOf(r))
      <4>1. r \in T
        BY <1>2, <3>1
      <4>. QED  BY <4>1
    <3>3. VisibleOf(s) = VisibleOf(r) \cup Seen(o)
      BY <3>1 DEF VisibleOf
    <3>4. VisibleOf(r) \cap Seen(o) = {}
      <4>1. \A p \in Order, q \in Order : p # q => Seen(p) \cap Seen(q) = {}
        BY SeenType
      <4>. QED  BY <4>1, <3>1 DEF VisibleOf
    <3>5. o \in Order /\ IsFiniteSet(Seen(o)) /\ Cardinality(Seen(o)) = seen[o] /\ seen[o] \in Nat
      BY <3>1, SeenType
    <3>6. IsFiniteSet(s)
      BY <1>1, FS_Subset
    <3>7. SumFunctionOnSet(seen, s) = seen[o] + SumFunctionOnSet(seen, r)
      BY <3>1, <3>6, <1>1, SumRemove
    <3>8. /\ IsFiniteSet(VisibleOf(s))
          /\ Cardinality(VisibleOf(s)) = Cardinality(VisibleOf(r)) + Cardinality(Seen(o)) - Cardinality({})
      <4>. HIDE DEF r
      <4>. QED  BY <3>2, <3>3, <3>4, <3>5, FS_Union
    <3>9. Cardinality({}) = 0 /\ Cardinality(VisibleOf(r)) \in Nat
      BY <3>2, FS_EmptySet, FS_CardinalityType
    <3>. HIDE DEF r
    <3>. QED  BY <3>2, <3>5, <3>7, <3>8, <3>9
  <2>. QED  BY <2>1, <2>2
<1>. HIDE DEF T
<1>3. \A s \in SUBSET Order : s \in T
  BY <1>1, <1>2, SubsetInduction
<1>4. ASSUME NEW s \in SUBSET Order
      PROVE  /\ VisibleOf(s) \subseteq Visible
             /\ VisibleOf(s) = {i \in Visible : trades[i].order \in s}
  <2>1. \A o \in Order : \A i \in Seen(o) : trades[i].order = o
    BY SeenType
  <2>. QED  BY <2>1 DEF VisibleOf, Visible
<1>5. \A s \in SUBSET Order : IsFiniteSet(s)
  BY <1>1, FS_Subset
<1>. QED  BY <1>3, <1>4, <1>5 DEF T

\* The visible executions as a set of numbers.
LEMMA VisibleType ==
  ASSUME PositionTypeOK, SeenHappened
  PROVE  /\ IsFiniteSet(Visible) /\ Visible \subseteq DOMAIN trades /\ Visible \subseteq Nat
         /\ \A i \in Visible : trades[i].order \in Order /\ i \in Seen(trades[i].order)
         /\ \A o \in Order : Seen(o) \subseteq Visible
<1>1. IsFiniteSet(Visible)
  <2>1. VisibleOf(Order) = Visible
    BY DEF Visible, VisibleOf
  <2>. QED  BY <2>1, VisibleCount
<1>2. \A o \in Order : Seen(o) \subseteq DOMAIN trades /\ \A i \in Seen(o) : trades[i].order = o
  BY SeenType
<1>3. DOMAIN trades \subseteq Nat
  BY TradeType
<1>. QED  BY <1>1, <1>2, <1>3 DEF Visible

-------------------------------------------------------------------------------
\* The invariant.

\* An execution comes after all the others.
LEMMA Appended ==
  ASSUME PositionTypeOK, NEW t \in Execution, trades' = Append(trades, t)
  PROVE  /\ trades' \in Seq(Execution)
         /\ DOMAIN trades' = (DOMAIN trades) \cup {Len(trades) + 1}
         /\ trades'[Len(trades) + 1] = t
         /\ \A i \in DOMAIN trades : trades'[i] = trades[i] /\ i < Len(trades) + 1
<1>1. Len(trades) \in Nat /\ DOMAIN trades = 1 .. Len(trades)
  BY TradeType
<1>2. trades' \in Seq(Execution)
  BY DEF PositionTypeOK
<1>3. Len(trades') = Len(trades) + 1 /\ DOMAIN trades' = 1 .. (Len(trades) + 1)
  BY <1>1 DEF PositionTypeOK
<1>4. trades'[Len(trades) + 1] = t
  BY <1>1 DEF PositionTypeOK
<1>5. \A i \in DOMAIN trades : trades'[i] = trades[i] /\ i < Len(trades) + 1
  BY <1>1 DEF PositionTypeOK
<1>. QED  BY <1>1, <1>2, <1>3, <1>4, <1>5

\* The times of executions are numbers.
LEMMA TimesType ==
  ASSUME PositionTypeOK, NEW o \in Order
  PROVE  Times(o) \subseteq Nat
<1>. DEFINE ats == {1} \cup {trades[i].at : i \in DOMAIN trades}
<1>1. IsFiniteSet(ats) /\ ats \subseteq Nat
  <2>1. IsFiniteSet({trades[i].at : i \in DOMAIN trades})
    <3>. DEFINE at == [i \in DOMAIN trades |-> trades[i].at]
    <3>1. {trades[i].at : i \in DOMAIN trades} = {at[i] : i \in DOMAIN trades}
      OBVIOUS
    <3>. HIDE DEF at
    <3>2. IsFiniteSet(DOMAIN trades)
      BY TradeType
    <3>3. IsFiniteSet({at[i] : i \in DOMAIN trades})
      BY <3>2, ImageFinite
    <3>. QED  BY <3>1, <3>3
  <2>2. IsFiniteSet({1})
    BY FS_Singleton
  <2>3. {trades[i].at : i \in DOMAIN trades} \subseteq Nat
    BY TradeType
  <2>4. IsFiniteSet(ats)
    BY <2>1, <2>2, FS_Union
  <2>. QED  BY <2>3, <2>4
<1>2. Max(ats) \in ats
  <2>. HIDE DEF ats
  <2>1. ats \subseteq Int
    BY <1>1
  <2>2. \A A \in SUBSET ats : A # {} => Max(A) \in A /\ \A x \in A : x <= Max(A)
    BY <1>1, <2>1, MaxIsLargest
  <2>. QED  BY <2>2 DEF ats
<1>3. Now \in Nat
  BY <1>1, <1>2 DEF Now
<1>. QED  BY <1>3 DEF Times

\* An execution leaves what the snapshots count as it is.
LEMMA ExecutesSees ==
  ASSUME PositionTypeOK, SeenHappened, NEW t \in Execution,
         trades' = Append(trades, t), seen' = seen
  PROVE  /\ \A o \in Order : /\ Executions(o)' = Executions(o) \cup
                                  (IF o = t.order THEN {Len(trades) + 1} ELSE {})
                             /\ Seen(o)' = Seen(o)
         /\ SeenHappened'
<1>1. ASSUME NEW o \in Order
      PROVE  Executions(o)' = Executions(o) \cup (IF o = t.order THEN {Len(trades) + 1} ELSE {})
  BY Appended DEF Executions
<1>2. ASSUME NEW o \in Order
      PROVE  Seen(o)' = Seen(o) /\ seen'[o] <= Cardinality(Executions(o)')
  <2>1. CASE o # t.order
    <3>1. Executions(o)' = Executions(o)
      BY <1>1, <2>1
    <3>. QED  BY <3>1 DEF Seen, SeenHappened
  <2>2. CASE o = t.order
    <3>1. /\ IsFiniteSet(Executions(o)) /\ Executions(o) \subseteq Nat
          /\ Len(trades) + 1 \in Nat /\ \A x \in Executions(o) : x < Len(trades) + 1
          /\ seen[o] \in Nat /\ seen[o] <= Cardinality(Executions(o))
      <4>1. Executions(o) \subseteq DOMAIN trades /\ IsFiniteSet(Executions(o)) /\ seen[o] \in Nat
        BY SeenType
      <4>2. DOMAIN trades \subseteq Nat /\ Len(trades) + 1 \in Nat /\ \A x \in DOMAIN trades : x < Len(trades) + 1
        BY TradeType
      <4>3. seen[o] <= Cardinality(Executions(o))
        BY DEF SeenHappened
      <4>. QED  BY <4>1, <4>2, <4>3
    <3>2. First(Executions(o) \cup {Len(trades) + 1}, seen[o]) = First(Executions(o), seen[o])
      BY <3>1, FirstExtends
    <3>3. Executions(o)' = Executions(o) \cup {Len(trades) + 1}
      BY <1>1, <2>2
    <3>4. Seen(o)' = First(Executions(o) \cup {Len(trades) + 1}, seen[o])
      BY <3>3 DEF Seen, First
    <3>5. Seen(o)' = Seen(o)
      BY <3>2, <3>4, SeenType
    <3>6. Cardinality(Executions(o)) \in Nat /\ Cardinality(Executions(o)) <= Cardinality(Executions(o)')
      <4>1. Len(trades) + 1 \notin Executions(o)
        BY <3>1
      <4>2. /\ Cardinality(Executions(o)) \in Nat
            /\ Cardinality(Executions(o) \cup {Len(trades) + 1}) = Cardinality(Executions(o)) + 1
        BY <4>1, <3>1, FS_AddElement, FS_CardinalityType
      <4>. QED  BY <4>2, <3>3
    <3>7. Cardinality(Executions(o)') \in Nat
      BY <3>1, <3>3, FS_AddElement, FS_CardinalityType
    <3>. QED  BY <3>1, <3>5, <3>6, <3>7
  <2>. QED  BY <2>1, <2>2
<1>. QED  BY <1>1, <1>2 DEF SeenHappened

\* A snapshot that counts more counts the executions the one before did.
LEMMA PollsSee ==
  ASSUME PositionTypeOK, SeenHappened, NEW o \in Order, Polls(o)
  PROVE  PositionTypeOK' /\ SeenHappened' /\ \A p \in Order : Seen(p) \subseteq Seen(p)'
<1>1. PICK n \in (seen[o] + 1) .. Cardinality(Executions(o)) : seen' = [seen EXCEPT ![o] = n]
  BY DEF Polls
<1>2. trades' = trades /\ \A p : Executions(p)' = Executions(p)
  BY DEF Polls, Executions
<1>3. /\ seen[o] \in Nat /\ n \in Nat /\ seen[o] <= n
      /\ n <= Cardinality(Executions(o)) /\ IsFiniteSet(Executions(o))
  BY <1>1, SeenType
<1>4. PositionTypeOK'
  BY <1>1, <1>2, <1>3 DEF PositionTypeOK
<1>5. SeenHappened'
  BY <1>1, <1>2, <1>3 DEF SeenHappened, PositionTypeOK
<1>6. ASSUME NEW p \in Order PROVE Seen(p) \subseteq Seen(p)'
  <2>1. CASE p = o
    <3>1. First(Executions(o), seen[o]) \subseteq First(Executions(o), n)
      BY <1>3, FirstAll
    <3>2. seen'[o] = n
      BY <1>1 DEF PositionTypeOK
    <3>. QED  BY <2>1, <3>1, <3>2, <1>2 DEF Seen, First
  <2>2. CASE p # o
    BY <2>2, <1>1, <1>2 DEF Seen, PositionTypeOK
  <2>. QED  BY <2>1, <2>2
<1>. QED  BY <1>4, <1>5, <1>6

\* The type invariant, and that each sale was covered by purchases the ledger had seen, are
\* kept by every step.
THEOREM PositionInvariance == PositionSpec => []PositionInvariant
<1>1. PositionInit => PositionInvariant
  <2>. SUFFICES ASSUME PositionInit PROVE PositionInvariant
    OBVIOUS
  <2>1. PositionTypeOK
    BY DEF PositionInit, PositionTypeOK
  <2>2. \A o \in Order : IsFiniteSet(Executions(o)) /\ Cardinality(Executions(o)) \in Nat
    <3>1. ASSUME NEW o \in Order PROVE Executions(o) = {}
      BY DEF PositionInit, Executions
    <3>. QED  BY <3>1, FS_EmptySet
  <2>. QED  BY <2>1, <2>2 DEF PositionInit, PositionInvariant, SeenHappened, SalesCovered
<1>2. PositionInvariant /\ [PositionNext]_positionVars => PositionInvariant'
  <2>. SUFFICES ASSUME PositionInvariant, [PositionNext]_positionVars PROVE PositionInvariant'
    OBVIOUS
  <2>. USE DEF PositionInvariant
  <2>1. ASSUME NEW o \in Order, NEW price \in Price[SideOf[o]], NEW at \in Times(o), Executes(o, price, at)
        PROVE  PositionInvariant'
    <3>. DEFINE t == [order |-> o, price |-> price, at |-> at]
    <3>0. PICK n \in Nat : n = Len(trades) + 1
      BY TradeType
    <3>1. t \in Execution
      <4>1. SideOf[o] \in DOMAIN Price /\ price \in Nat \ {0}
        BY PositionAssumption
      <4>2. at \in Nat
        BY TimesType
      <4>. QED  BY <4>1, <4>2 DEF Execution
    <3>2. trades' = Append(trades, t) /\ seen' = seen
      BY <2>1 DEF Executes
    <3>3. t.order = o
      OBVIOUS
    <3>. HIDE DEF t
    <3>4. /\ trades' \in Seq(Execution)
          /\ DOMAIN trades' = (DOMAIN trades) \cup {n}
          /\ trades'[n] = t
          /\ \A i \in DOMAIN trades : trades'[i] = trades[i] /\ i < n
      BY <3>0, <3>1, <3>2, Appended
    <3>5. PositionTypeOK'
      BY <3>2, <3>4 DEF PositionTypeOK
    <3>6. SeenHappened' /\ \A p \in Order : Seen(p)' = Seen(p)
      BY <3>1, <3>2, ExecutesSees
    <3>7. Visible' = Visible
      BY <3>6 DEF Visible
    <3>8. Visible \subseteq DOMAIN trades /\ n \in Nat /\ DOMAIN trades \subseteq Nat /\ IsFiniteSet(DOMAIN trades)
      BY VisibleType, TradeType
    <3>9. ASSUME NEW i \in DOMAIN trades, SideOf[trades'[i].order] = "sell"
          PROVE  Cardinality(SoldUpTo(i)') <= Cardinality(BoughtBefore(i)')
      <4>1. ~ (n <= i)
        BY <3>4, <3>8
      <4>2. SoldUpTo(i)' = SoldUpTo(i)
        BY <3>4, <4>1 DEF SoldUpTo
      <4>3. BoughtBefore(i)' = BoughtBefore(i)
        BY <3>4, <3>7, <3>8 DEF BoughtBefore
      <4>4. trades'[i] = trades[i]
        BY <3>4
      <4>. QED  BY <3>9, <4>2, <4>3, <4>4 DEF SalesCovered
    <3>10. ASSUME SideOf[o] = "sell"
           PROVE  Cardinality(SoldUpTo(n)') <= Cardinality(BoughtBefore(n)')
      <4>. DEFINE sold == {i \in DOMAIN trades : SideOf[trades[i].order] = "sell"}
      <4>1. SoldUpTo(n)' = sold \cup {n}
        <5>1. \A i \in DOMAIN trades : i <= n /\ n <= n /\ trades'[i] = trades[i]
          BY <3>4, <3>8
        <5>2. trades'[n].order = o
          BY <3>3, <3>4
        <5>3. n <= n
          BY <3>8
        <5>. HIDE DEF t
        <5>. QED  BY <5>1, <5>2, <5>3, <3>4, <3>10 DEF SoldUpTo
      <4>2. IsFiniteSet(sold) /\ n \notin sold
        BY <3>4, <3>8, FS_Subset
      <4>3. Cardinality(SoldUpTo(n)') = Cardinality(sold) + 1
        BY <4>1, <4>2, FS_AddElement
      <4>4. BoughtBefore(n)' = VisibleOf(OrdersOf("buy"))
        <5>1. OrdersOf("buy") \in SUBSET Order
          BY DEF OrdersOf
        <5>2. VisibleOf(OrdersOf("buy")) = {i \in Visible : trades[i].order \in OrdersOf("buy")}
          BY <5>1, VisibleCount
        <5>3. \A i \in Visible : i < n /\ trades'[i] = trades[i] /\ trades[i].order \in Order
          BY <3>4, <3>8, VisibleType
        <5>4. BoughtBefore(n)' = {i \in Visible : i < n /\ SideOf[trades'[i].order] = "buy"}
          BY <3>7 DEF BoughtBefore
        <5>5. \A i \in Visible : (i < n /\ SideOf[trades'[i].order] = "buy") <=> trades[i].order \in OrdersOf("buy")
          BY <5>3 DEF OrdersOf
        <5>. QED  BY <5>2, <5>4, <5>5
      <4>5. Cardinality(VisibleOf(OrdersOf("buy"))) = SeenBy("buy")
        <5>1. OrdersOf("buy") \in SUBSET Order
          BY DEF OrdersOf
        <5>2. SumFunctionOnSet(seen, OrdersOf("buy")) = Cardinality(VisibleOf(OrdersOf("buy")))
          BY <5>1, VisibleCount
        <5>. QED  BY <5>2 DEF SeenBy, OrdersOf
      <4>6. Cardinality(sold) < SeenBy("buy")
        BY <2>1, <3>10 DEF Executes, SoldUnits
      <4>7. IsFiniteSet(VisibleOf(OrdersOf("buy")))
        <5>1. OrdersOf("buy") \in SUBSET Order
          BY DEF OrdersOf
        <5>. QED  BY <5>1, VisibleCount
      <4>8. SeenBy("buy") \in Nat /\ Cardinality(sold) \in Nat
        BY <4>2, <4>5, <4>7, FS_CardinalityType
      <4>. QED  BY <4>3, <4>4, <4>5, <4>6, <4>8
    <3>11. SalesCovered'
      <4>. SUFFICES ASSUME NEW i \in DOMAIN trades', SideOf[trades'[i].order] = "sell"
                    PROVE  Cardinality(SoldUpTo(i)') <= Cardinality(BoughtBefore(i)')
        BY DEF SalesCovered
      <4>1. CASE i \in DOMAIN trades
        BY <4>1, <3>9
      <4>2. CASE i = n
        <5>1. SideOf[o] = "sell"
          BY <4>2, <3>3, <3>4
        <5>. QED  BY <4>2, <5>1, <3>10
      <4>. QED  BY <4>1, <4>2, <3>4
    <3>. QED  BY <3>5, <3>6, <3>11
  <2>2. ASSUME NEW o \in Order, Polls(o)
        PROVE  PositionInvariant'
    <3>1. PositionTypeOK' /\ SeenHappened' /\ \A p \in Order : Seen(p) \subseteq Seen(p)'
      BY <2>2, PollsSee
    <3>2. trades' = trades
      BY <2>2 DEF Polls
    <3>3. Visible \subseteq Visible'
      BY <3>1 DEF Visible
    <3>4. IsFiniteSet(Visible')
      <4>1. Visible' \subseteq DOMAIN trades
        BY <3>2 DEF Visible, Seen, Executions
      <4>. QED  BY <4>1, TradeType, FS_Subset
    <3>5. ASSUME NEW i \in DOMAIN trades, SideOf[trades[i].order] = "sell"
          PROVE  Cardinality(SoldUpTo(i)') <= Cardinality(BoughtBefore(i)')
      <4>1. SoldUpTo(i)' = SoldUpTo(i)
        BY <3>2 DEF SoldUpTo
      <4>2. BoughtBefore(i) \subseteq BoughtBefore(i)' /\ BoughtBefore(i)' \subseteq Visible'
        BY <3>2, <3>3 DEF BoughtBefore
      <4>3. IsFiniteSet(BoughtBefore(i)')
        BY <3>4, <4>2, FS_Subset
      <4>4. Cardinality(BoughtBefore(i)) <= Cardinality(BoughtBefore(i)')
        BY <4>2, <4>3, FS_Subset
      <4>5. IsFiniteSet(BoughtBefore(i)) /\ IsFiniteSet(SoldUpTo(i))
        <5>1. IsFiniteSet(BoughtBefore(i))
          BY <4>2, <4>3, FS_Subset
        <5>2. SoldUpTo(i) \subseteq DOMAIN trades /\ IsFiniteSet(DOMAIN trades)
          BY TradeType DEF SoldUpTo
        <5>. QED  BY <5>1, <5>2, FS_Subset
      <4>6. Cardinality(SoldUpTo(i)) <= Cardinality(BoughtBefore(i))
        BY <3>5 DEF SalesCovered
      <4>7. /\ Cardinality(SoldUpTo(i)) \in Nat /\ Cardinality(BoughtBefore(i)) \in Nat
            /\ Cardinality(BoughtBefore(i)') \in Nat
        BY <4>3, <4>5, FS_CardinalityType
      <4>. QED  BY <4>1, <4>4, <4>6, <4>7
    <3>6. SalesCovered'
      BY <3>2, <3>5 DEF SalesCovered
    <3>. QED  BY <3>1, <3>6
  <2>3. CASE UNCHANGED positionVars
    <3>1. trades' = trades /\ seen' = seen
      BY <2>3 DEF positionVars
    <3>2. \A o : Executions(o)' = Executions(o)
      BY <3>1 DEF Executions
    <3>3. \A o : Seen(o)' = Seen(o)
      BY <3>1, <3>2 DEF Seen
    <3>4. Visible' = Visible
      BY <3>3 DEF Visible
    <3>5. \A i : SoldUpTo(i)' = SoldUpTo(i) /\ BoughtBefore(i)' = BoughtBefore(i)
      BY <3>1, <3>4 DEF SoldUpTo, BoughtBefore
    <3>. QED  BY <3>1, <3>2, <3>5 DEF PositionTypeOK, SeenHappened, SalesCovered
  <2>. QED  BY <2>1, <2>2, <2>3 DEF PositionNext
<1>. QED  BY <1>1, <1>2, PTL DEF PositionSpec

-------------------------------------------------------------------------------
\* The position as a fold over the snapshots.

\* A sum of values between two bounds.
LEMMA SumBetween ==
  ASSUME NEW S, IsFiniteSet(S), NEW f, NEW lo \in Int, NEW hi \in Int,
         \A x \in S : f[x] \in Int /\ lo <= f[x] /\ f[x] <= hi
  PROVE  /\ SumFunctionOnSet(f, S) \in Int
         /\ lo * Cardinality(S) <= SumFunctionOnSet(f, S)
         /\ SumFunctionOnSet(f, S) <= hi * Cardinality(S)
<1>. DEFINE T == {A \in SUBSET S : /\ lo * Cardinality(A) <= SumFunctionOnSet(f, A)
                                   /\ SumFunctionOnSet(f, A) <= hi * Cardinality(A)}
<1>1. \A A \in SUBSET S : IsFiniteSet(A) /\ Cardinality(A) \in Nat /\ SumFunctionOnSet(f, A) \in Int
  <2>. SUFFICES ASSUME NEW A \in SUBSET S
                PROVE  IsFiniteSet(A) /\ Cardinality(A) \in Nat /\ SumFunctionOnSet(f, A) \in Int
    OBVIOUS
  <2>1. IsFiniteSet(A) /\ Cardinality(A) \in Nat
    BY FS_Subset, FS_CardinalityType
  <2>2. \A x \in A : f[x] \in Int
    OBVIOUS
  <2>. QED  BY <2>1, <2>2, SumType
<1>2. ASSUME NEW A \in SUBSET S, \A B \in SUBSET A : B # A => B \in T
      PROVE  A \in T
  <2>1. CASE A = {}
    <3>1. Cardinality(A) = 0 /\ SumFunctionOnSet(f, A) = 0
      BY <2>1, FS_EmptySet, SumEmpty
    <3>. QED  BY <3>1
  <2>2. CASE A # {}
    <3>1. PICK x \in A : TRUE
      BY <2>2
    <3>2. PICK B \in SUBSET S : B = A \ {x}
      OBVIOUS
    <3>3. /\ lo * Cardinality(B) <= SumFunctionOnSet(f, B)
          /\ SumFunctionOnSet(f, B) <= hi * Cardinality(B)
      BY <1>2, <3>1, <3>2
    <3>4. SumFunctionOnSet(f, A) = f[x] + SumFunctionOnSet(f, B)
      BY <1>1, <3>1, <3>2, SumRemove
    <3>5. Cardinality(A) = Cardinality(B) + 1
      <4>1. Cardinality(B) = Cardinality(A) - 1
        BY <1>1, <3>1, <3>2, FS_RemoveElement
      <4>. QED  BY <4>1, <1>1
    <3>6. ASSUME NEW n \in Nat, NEW b \in Int PROVE b * (n + 1) = b * n + b
      OBVIOUS
    <3>7. PICK n \in Nat : n = Cardinality(B)
      BY <1>1
    <3>8. PICK u \in Int : u = SumFunctionOnSet(f, B)
      BY <1>1
    <3>9. PICK l \in Int : l = lo * n
      BY <3>7
    <3>10. PICK h \in Int : h = hi * n
      BY <3>7
    <3>11. lo * Cardinality(A) = l + lo /\ hi * Cardinality(A) = h + hi
      BY <3>5, <3>6, <3>7, <3>9, <3>10
    <3>12. l <= u /\ u <= h
      BY <3>3, <3>7, <3>8, <3>9, <3>10
    <3>13. f[x] \in Int /\ lo <= f[x] /\ f[x] <= hi
      BY <3>1
    <3>14. l + lo <= f[x] + u /\ f[x] + u <= h + hi
      BY <3>12, <3>13
    <3>. QED  BY <3>4, <3>8, <3>11, <3>14
  <2>. QED  BY <2>1, <2>2
<1>. HIDE DEF T
<1>3. S \in T
  BY <1>2, SubsetInduction
<1>. QED  BY <1>1, <1>3 DEF T

\* The price of each execution.
Prices == [i \in DOMAIN trades |-> trades[i].price]

\* A snapshot's cost lies between its quantity at the lowest and at the highest price.
LEMMA SnapshotCost ==
  ASSUME PositionTypeOK, SeenHappened, NEW o \in Order, NEW lo \in Int, NEW hi \in Int,
         \A i \in Seen(o) : lo <= trades[i].price /\ trades[i].price <= hi
  PROVE  /\ Snapshot(o).cost \in Int
         /\ lo * Snapshot(o).qty <= Snapshot(o).cost
         /\ Snapshot(o).cost <= hi * Snapshot(o).qty
<1>1. IsFiniteSet(Seen(o)) /\ Cardinality(Seen(o)) = seen[o] /\ Seen(o) \subseteq DOMAIN trades
  BY SeenType
<1>2. \A i \in Seen(o) : Prices[i] \in Int /\ lo <= Prices[i] /\ Prices[i] <= hi
  BY <1>1, TradeType DEF Prices
<1>3. /\ SumFunctionOnSet(Prices, Seen(o)) \in Int
      /\ lo * Cardinality(Seen(o)) <= SumFunctionOnSet(Prices, Seen(o))
      /\ SumFunctionOnSet(Prices, Seen(o)) <= hi * Cardinality(Seen(o))
  BY <1>1, <1>2, SumBetween
<1>4. Snapshot(o).cost = SumFunctionOnSet(Prices, Seen(o)) /\ Snapshot(o).qty = seen[o]
  BY DEF Snapshot, Prices
<1>. QED  BY <1>1, <1>3, <1>4

\* What a snapshot is.
Fill == [side : {"buy", "sell"}, qty : Nat, cost : Nat]

\* Its quantity and cost are those of the executions that it counts.
LEMMA SnapshotType ==
  ASSUME PositionTypeOK, SeenHappened, NEW o \in Order
  PROVE  /\ Snapshot(o) \in Fill
         /\ Snapshot(o).side = SideOf[o] /\ Snapshot(o).qty = seen[o]
         /\ Snapshot(o).cost = SumFunctionOnSet(Prices, Seen(o))
<1>1. \A i \in Seen(o) : 0 <= trades[i].price
  BY SeenType, TradeType
<1>2. IsFiniteSet(Seen(o)) /\ Seen(o) \subseteq DOMAIN trades
  BY SeenType
<1>3. \A i \in Seen(o) : Prices[i] \in Int
  BY <1>2, TradeType DEF Prices
<1>. DEFINE zero == [i \in Seen(o) |-> 0]
<1>4. SumFunctionOnSet(zero, Seen(o)) <= SumFunctionOnSet(Prices, Seen(o))
  <2>1. \A i \in Seen(o) : zero[i] \in Int /\ Prices[i] \in Int /\ zero[i] <= Prices[i]
    BY <1>1, <1>2, <1>3 DEF Prices
  <2>. HIDE DEF zero
  <2>. QED  BY <1>2, <2>1, SumMonotone
<1>5. SumFunctionOnSet(zero, Seen(o)) = 0
  <2>1. \A i \in Seen(o) : zero[i] = 0
    OBVIOUS
  <2>. HIDE DEF zero
  <2>. QED  BY <1>2, <2>1, SumZero
<1>6. SumFunctionOnSet(Prices, Seen(o)) \in Nat
  <2>1. SumFunctionOnSet(Prices, Seen(o)) \in Int
    BY <1>2, <1>3, SumType
  <2>. QED  BY <1>4, <1>5, <2>1
<1>7. Snapshot(o) = [side |-> SideOf[o], qty |-> seen[o], cost |-> SumFunctionOnSet(Prices, Seen(o))]
  BY DEF Snapshot, Prices
<1>8. SideOf[o] \in {"buy", "sell"} /\ seen[o] \in Nat
  BY PositionAssumption, SeenType
<1>. QED  BY <1>6, <1>7, <1>8 DEF Fill

\* The last of some snapshots.
LEMMA LatestIsLast ==
  ASSUME PositionTypeOK, SeenHappened
  PROVE  /\ \A o \in Filled : /\ o \in Nat /\ FilledAt(o) \in Nat
                              /\ Max(Seen(o)) \in Seen(o) /\ \A i \in Seen(o) : i <= Max(Seen(o))
         /\ \A s \in SUBSET Filled : s # {} =>
              /\ Latest(s) \in s
              /\ \A p \in s \ {Latest(s)} : Earlier(p, Latest(s))
<1>1. ASSUME NEW o \in Filled
      PROVE  /\ o \in Nat /\ FilledAt(o) \in Nat
             /\ Max(Seen(o)) \in Seen(o) /\ \A i \in Seen(o) : i <= Max(Seen(o))
  <2>1. o \in Order /\ seen[o] > 0
    BY DEF Filled
  <2>2. IsFiniteSet(Seen(o)) /\ Cardinality(Seen(o)) = seen[o] /\ Seen(o) \subseteq DOMAIN trades /\ Seen(o) \subseteq Nat
    BY <2>1, SeenType
  <2>3. Seen(o) # {}
    BY <2>1, <2>2, FS_EmptySet
  <2>4. Max(Seen(o)) \in Seen(o) /\ \A i \in Seen(o) : i <= Max(Seen(o))
    <3>1. Seen(o) \subseteq Int
      BY <2>2
    <3>2. \A A \in SUBSET Seen(o) : A # {} => Max(A) \in A /\ \A x \in A : x <= Max(A)
      BY <3>1, <2>2, MaxIsLargest
    <3>. QED  BY <3>2, <2>3
  <2>5. FilledAt(o) \in Nat
    BY <2>2, <2>4, TradeType DEF FilledAt
  <2>. QED  BY <2>1, <2>4, <2>5, PositionAssumption
<1>2. ASSUME NEW s \in SUBSET Filled, s # {}
      PROVE  Latest(s) \in s /\ \A p \in s \ {Latest(s)} : Earlier(p, Latest(s))
  <2>. DEFINE R == {r \in Filled \X Filled : Earlier(r[1], r[2])}
  <2>1. \A o, p \in Filled : <<o, p>> \in R <=> Earlier(o, p)
    OBVIOUS
  <2>. HIDE DEF R
  <2>2. \A x, y \in Filled : x # y => <<x, y>> \in R \/ <<y, x>> \in R
    BY <1>1, <2>1 DEF Earlier
  <2>3. \A x, y, z \in Filled : <<x, y>> \in R /\ <<y, z>> \in R => <<x, z>> \in R
    BY <1>1, <2>1 DEF Earlier
  <2>4. IsFiniteSet(Filled)
    BY PositionAssumption, FS_Subset DEF Filled
  <2>5. \A A \in SUBSET Filled : A # {} => \E o \in A : \A p \in A \ {o} : <<p, o>> \in R
    BY <2>2, <2>3, <2>4, HasLast
  <2>6. \E o \in s : \A p \in s \ {o} : Earlier(p, o)
    BY <2>1, <2>5, <1>2
  <2>. QED  BY <2>6, Zenon DEF Latest
<1>. QED  BY <1>1, <1>2

\* The smaller of two numbers.
LEMMA MinOfTwo ==
  ASSUME NEW a \in Int, NEW b \in Int
  PROVE  Min({a, b}) = IF a <= b THEN a ELSE b
<1>1. IsFiniteSet({a, b}) /\ {a, b} \subseteq Int /\ {a, b} # {}
  <2>1. IsFiniteSet({a}) /\ IsFiniteSet({b}) /\ {a, b} = {a} \cup {b}
    BY FS_Singleton
  <2>. QED  BY <2>1, FS_Union
<1>2. Min({a, b}) \in {a, b} /\ \A x \in {a, b} : Min({a, b}) <= x
  BY <1>1, MinIsLeast
<1>. QED  BY <1>2

\* A purchase adds its quantity and its cost.
LEMMA BuysStep ==
  ASSUME NEW slot \in Slot, NEW f \in Fill
  PROVE  /\ Buys(slot, f) \in Slot
         /\ Buys(slot, f).net = slot.net + f.qty
         /\ Buys(slot, f).qty = slot.qty + f.qty
         /\ Buys(slot, f).cost = slot.cost + f.cost * slot.over
         /\ Buys(slot, f).over = slot.over
<1>1. PICK d \in Nat : d = f.cost * slot.over
  BY DEF Slot, Fill
<1>2. Buys(slot, f) = [net |-> slot.net + f.qty, cost |-> slot.cost + d, over |-> slot.over,
                       qty |-> slot.qty + f.qty]
  <2>1. PICK n \in Int, c \in Nat, v \in Nat \ {0}, q \in Nat :
          slot = [net |-> n, cost |-> c, over |-> v, qty |-> q]
    BY DEF Slot
  <2>2. Buys(slot, f) = [slot EXCEPT !.net = n + f.qty, !.cost = c + d, !.qty = q + f.qty]
    BY <1>1, <2>1 DEF Buys
  <2>3. Buys(slot, f) = [net |-> n + f.qty, cost |-> c + d, over |-> v, qty |-> q + f.qty]
    BY <2>1, <2>2
  <2>. QED  BY <2>1, <2>3
<1>. QED  BY <1>1, <1>2 DEF Slot, Fill

\* A sale takes its quantity out at the average, unless it closes the position.
LEMMA SellsStep ==
  ASSUME NEW slot \in Slot, NEW f \in Fill
  PROVE  /\ Sells(slot, f) \in Slot
         /\ Sells(slot, f).net = slot.net - f.qty
         /\ slot.net - f.qty <= 0 \/ slot.qty - f.qty <= 0 =>
              Sells(slot, f).qty = 0 /\ Sells(slot, f).cost = 0 /\ Sells(slot, f).over = 1
         /\ slot.net - f.qty > 0 /\ slot.qty - f.qty > 0 =>
              /\ Sells(slot, f).qty = slot.qty - f.qty
              /\ Sells(slot, f).cost = slot.cost * (slot.qty - f.qty)
              /\ Sells(slot, f).over = slot.over * slot.qty
<1>1. /\ slot.net \in Int /\ slot.qty \in Nat /\ slot.cost \in Nat /\ slot.over \in Nat \ {0}
      /\ f.qty \in Nat
  BY DEF Slot, Fill
<1>2. Min({f.qty, slot.qty}) = IF f.qty <= slot.qty THEN f.qty ELSE slot.qty
  BY <1>1, MinOfTwo
<1>3. CASE slot.net - f.qty <= 0 \/ slot.qty - f.qty <= 0
  <2>1. Sells(slot, f) = [EmptySlot EXCEPT !.net = slot.net - f.qty]
    BY <1>1, <1>2, <1>3 DEF Sells
  <2>2. Sells(slot, f) = [net |-> slot.net - f.qty, cost |-> 0, over |-> 1, qty |-> 0]
    BY <2>1 DEF EmptySlot
  <2>. QED  BY <2>2, <1>1, <1>3 DEF Slot
<1>4. CASE slot.net - f.qty > 0 /\ slot.qty - f.qty > 0
  <2>1. PICK left \in Nat \ {0} : left = slot.qty - f.qty
    BY <1>1, <1>4
  <2>2. PICK c \in Nat : c = slot.cost * left
    BY <1>1, <2>1
  <2>3. PICK v \in Nat \ {0} : v = slot.over * slot.qty
    BY <1>1, <1>4
  <2>4. slot.qty - Min({f.qty, slot.qty}) = left
    BY <1>1, <1>2, <2>1
  <2>5. Sells(slot, f) = [net |-> slot.net - f.qty, cost |-> slot.cost * left,
                          over |-> slot.over * slot.qty, qty |-> left]
    BY <1>1, <1>4, <2>1, <2>4 DEF Sells
  <2>6. Sells(slot, f) = [net |-> slot.net - f.qty, cost |-> c, over |-> v, qty |-> left]
    BY <2>2, <2>3, <2>5
  <2>7. Sells(slot, f) \in Slot
    BY <2>6, <1>1 DEF Slot
  <2>8. /\ Sells(slot, f).net = slot.net - f.qty
        /\ Sells(slot, f).qty = slot.qty - f.qty
        /\ Sells(slot, f).cost = slot.cost * (slot.qty - f.qty)
        /\ Sells(slot, f).over = slot.over * slot.qty
    BY <2>1, <2>5
  <2>9. ~ (slot.net - f.qty <= 0 \/ slot.qty - f.qty <= 0)
    BY <1>1, <1>4
  <2>. QED  BY <2>7, <2>8, <2>9
<1>. QED  BY <1>1, <1>3, <1>4

\* The function that positions() folds the snapshots with.
PositionFold(g) ==
  g = [s \in SUBSET Filled |->
         IF s = {} THEN EmptySlot ELSE Applies(Snapshot(Latest(s)), g[s \ {Latest(s)}])]

\* It gives the position after some of the snapshots from that before the last of them.
PositionSteps(g) ==
  /\ g[{}] = EmptySlot
  /\ \A s \in SUBSET Filled :
       /\ g[s] \in Slot
       /\ s # {} => g[s] = Applies(Snapshot(Latest(s)), g[s \ {Latest(s)}])

\* It exists, and the position is its value for all the snapshots.
LEMMA PositionIsFold ==
  ASSUME PositionTypeOK, SeenHappened
  PROVE  \E g : Position = g[Filled] /\ PositionSteps(g)
<1>. DEFINE step == [o \in Filled |-> [v \in Slot |-> Applies(Snapshot(o), v)]]
            pick == [s \in SUBSET Filled |-> Latest(s)]
<1>1. IsFiniteSet(Filled) /\ Filled \subseteq Order
  BY PositionAssumption, FS_Subset DEF Filled
<1>2. \A s \in SUBSET Filled : s # {} => Latest(s) \in s /\ pick[s] = Latest(s) /\ pick[s] \in s
  BY LatestIsLast
<1>3. \A o \in Filled : \A v \in Slot :
        Applies(Snapshot(o), v) \in Slot /\ step[o][v] = Applies(Snapshot(o), v)
  BY <1>1, SnapshotType, BuysStep, SellsStep DEF Applies
<1>4. EmptySlot \in Slot
  BY DEF EmptySlot, Slot
<1>. HIDE DEF step, pick
<1>5. \A o \in Filled : \A v \in Slot : step[o][v] \in Slot
  BY <1>3
<1>6. PICK h : Folds(step, pick, EmptySlot, Filled, h)
  BY <1>1, <1>2, FoldExists
<1>7. /\ h = [s \in SUBSET Filled |-> h[s]]
      /\ h[{}] = EmptySlot
      /\ \A s \in SUBSET Filled : s # {} => h[s] = step[pick[s]][h[s \ {pick[s]}]]
  BY <1>6 DEF Folds
<1>8. \A s \in SUBSET Filled : h[s] \in Slot
  <2>1. \A s \in SUBSET Filled : s # {} => pick[s] \in s
    BY <1>2
  <2>2. \A s \in SUBSET Filled : s # {} /\ h[s \ {pick[s]}] \in Slot => h[s] = step[pick[s]][h[s \ {pick[s]}]]
    BY <1>7
  <2>3. h[{}] = EmptySlot
    BY <1>7
  <2>4. FoldsIn(step, pick, EmptySlot, Filled, Slot, h)
    BY <1>4, <1>5, <2>1, <2>2, <2>3 DEF FoldsIn
  <2>. QED  BY <1>1, <2>4, FoldValues
<1>9. PositionFold(h)
  <2>1. ASSUME NEW s \in SUBSET Filled, s # {}
        PROVE  h[s] = Applies(Snapshot(Latest(s)), h[s \ {Latest(s)}])
    <3>1. Latest(s) \in Filled /\ h[s \ {Latest(s)}] \in Slot
      BY <1>2, <1>8, <2>1
    <3>. QED  BY <3>1, <1>2, <1>3, <1>7, <2>1
  <2>2. [s \in SUBSET Filled |-> h[s]]
          = [s \in SUBSET Filled |->
               IF s = {} THEN EmptySlot ELSE Applies(Snapshot(Latest(s)), h[s \ {Latest(s)}])]
    BY <1>7, <2>1
  <2>. QED  BY <1>7, <2>2 DEF PositionFold
<1>. DEFINE g == CHOOSE k : PositionFold(k)
<1>10. PositionFold(g)
  BY <1>9
<1>11. Position = g[Filled]
  BY DEF Position, MapThenFoldSet, PositionFold
<1>. HIDE DEF g
<1>12. /\ g[{}] = EmptySlot
       /\ \A s \in SUBSET Filled : s # {} => g[s] = Applies(Snapshot(Latest(s)), g[s \ {Latest(s)}])
  BY <1>10 DEF PositionFold
<1>13. \A s \in SUBSET Filled : g[s] \in Slot
  <2>1. \A s \in SUBSET Filled : s # {} => pick[s] \in s
    BY <1>2
  <2>2. ASSUME NEW s \in SUBSET Filled, s # {}, g[s \ {pick[s]}] \in Slot
        PROVE  g[s] = step[pick[s]][g[s \ {pick[s]}]]
    <3>1. Latest(s) \in Filled /\ pick[s] = Latest(s)
      BY <1>2, <2>2
    <3>2. g[s] = Applies(Snapshot(Latest(s)), g[s \ {Latest(s)}])
      BY <1>12, <2>2
    <3>3. step[Latest(s)][g[s \ {Latest(s)}]] = Applies(Snapshot(Latest(s)), g[s \ {Latest(s)}])
      BY <3>1, <1>3, <2>2
    <3>. QED  BY <3>1, <3>2, <3>3
  <2>3. g[{}] = EmptySlot
    BY <1>12
  <2>4. FoldsIn(step, pick, EmptySlot, Filled, Slot, g)
    BY <1>4, <1>5, <2>1, <2>2, <2>3 DEF FoldsIn
  <2>. QED  BY <1>1, <2>4, FoldValues
<1>14. PositionSteps(g)
  BY <1>12, <1>13 DEF PositionSteps
<1>. QED  BY <1>11, <1>14

-------------------------------------------------------------------------------
\* The quantity.

\* What the snapshots of some orders of one side say was executed.
Of(s, side) == {o \in s : SideOf[o] = side}
Total(s, side) == SumFunctionOnSet(seen, Of(s, side))

\* One order more adds its own quantity to the total of its side.
LEMMA TotalStep ==
  ASSUME PositionTypeOK, NEW side
  PROVE  \A s \in SUBSET Order : \A o \in s :
           /\ Total(s, side) \in Int
           /\ Total(s \ {o}, side) \in Int
           /\ Total(s, side) = Total(s \ {o}, side) + (IF SideOf[o] = side THEN seen[o] ELSE 0)
<1>. SUFFICES ASSUME NEW s \in SUBSET Order, NEW o \in s
              PROVE  /\ Total(s, side) \in Int
                     /\ Total(s \ {o}, side) \in Int
                     /\ Total(s, side) = Total(s \ {o}, side)
                                           + (IF SideOf[o] = side THEN seen[o] ELSE 0)
  OBVIOUS
<1>1. IsFiniteSet(Of(s, side)) /\ \A p \in Of(s, side) : seen[p] \in Int
  <2>1. Of(s, side) \subseteq Order
    BY DEF Of
  <2>. QED  BY <2>1, PositionAssumption, FS_Subset DEF PositionTypeOK
<1>2. Total(s, side) \in Int
  BY <1>1, SumType DEF Total
<1>3. CASE SideOf[o] = side
  <2>1. o \in Of(s, side) /\ Of(s \ {o}, side) = Of(s, side) \ {o}
    BY <1>3 DEF Of
  <2>2. SumFunctionOnSet(seen, Of(s, side)) = seen[o] + SumFunctionOnSet(seen, Of(s, side) \ {o})
    BY <1>1, <2>1, SumRemove
  <2>3. SumFunctionOnSet(seen, Of(s, side) \ {o}) \in Int
    <3>1. IsFiniteSet(Of(s, side) \ {o}) /\ \A p \in Of(s, side) \ {o} : seen[p] \in Int
      BY <1>1, FS_Subset
    <3>. QED  BY <3>1, SumType
  <2>4. seen[o] \in Int
    BY DEF PositionTypeOK
  <2>5. Total(s \ {o}, side) = SumFunctionOnSet(seen, Of(s, side) \ {o})
    BY <2>1 DEF Total
  <2>6. Total(s, side) = seen[o] + Total(s \ {o}, side)
    BY <2>2, <2>5 DEF Total
  <2>. QED  BY <1>2, <1>3, <2>3, <2>4, <2>5, <2>6
<1>4. CASE SideOf[o] # side
  <2>1. Of(s \ {o}, side) = Of(s, side)
    BY <1>4 DEF Of
  <2>. QED  BY <1>2, <1>4, <2>1 DEF Total
<1>. QED  BY <1>3, <1>4

\* Orders without a snapshot add nothing.
LEMMA TotalFilled ==
  ASSUME PositionTypeOK, NEW side
  PROVE  Total(Filled, side) = SeenBy(side)
<1>. DEFINE T == {s \in SUBSET Order : Total(s, side) = Total(s \cap Filled, side)}
<1>1. ASSUME NEW s \in SUBSET Order, \A r \in SUBSET s : r # s => r \in T
      PROVE  s \in T
  <2>1. CASE s \subseteq Filled
    <3>1. s \cap Filled = s
      BY <2>1
    <3>. QED  BY <3>1
  <2>2. CASE ~ (s \subseteq Filled)
    <3>1. PICK o \in s : o \notin Filled
      BY <2>2
    <3>2. seen[o] = 0
      BY <3>1 DEF Filled, PositionTypeOK
    <3>3. Total(s \ {o}, side) = Total((s \ {o}) \cap Filled, side)
      <4>1. s \ {o} \in SUBSET s /\ s \ {o} # s
        OBVIOUS
      <4>2. s \ {o} \in T
        BY <4>1, <1>1
      <4>. QED  BY <4>2
    <3>4. (s \ {o}) \cap Filled = s \cap Filled
      BY <3>1
    <3>5. /\ Total(s \ {o}, side) \in Int
          /\ Total(s, side) = Total(s \ {o}, side) + (IF SideOf[o] = side THEN seen[o] ELSE 0)
      BY TotalStep
    <3>6. Total(s, side) = Total(s \ {o}, side)
      BY <3>2, <3>5
    <3>. QED  BY <3>3, <3>4, <3>6
  <2>. QED  BY <2>1, <2>2
<1>2. Order \in T
  <2>. HIDE DEF T
  <2>1. IsFiniteSet(Order)
    BY PositionAssumption
  <2>2. \A s \in SUBSET Order : s \in T
    BY <1>1, <2>1, SubsetInduction
  <2>. QED  BY <2>2
<1>3. Order \cap Filled = Filled
  BY DEF Filled
<1>4. Total(Order, side) = SeenBy(side)
  BY DEF Total, Of, SeenBy
<1>. QED  BY <1>2, <1>3, <1>4

\* The quantity after some snapshots is what they bought less what they sold.
LEMMA NetOfFold ==
  ASSUME PositionTypeOK, SeenHappened, NEW g, PositionSteps(g)
  PROVE  \A s \in SUBSET Filled : g[s].net = Total(s, "buy") - Total(s, "sell")
<1>. DEFINE T == {s \in SUBSET Filled : g[s].net = Total(s, "buy") - Total(s, "sell")}
<1>1. IsFiniteSet(Filled) /\ Filled \subseteq Order
  BY PositionAssumption, FS_Subset DEF Filled
<1>2. ASSUME NEW s \in SUBSET Filled, \A r \in SUBSET s : r # s => r \in T
      PROVE  s \in T
  <2>1. CASE s = {}
    <3>1. Of({}, "buy") = {} /\ Of({}, "sell") = {}
      BY DEF Of
    <3>2. Total(s, "buy") = 0 /\ Total(s, "sell") = 0
      BY <2>1, <3>1, SumEmpty DEF Total
    <3>. QED  BY <2>1, <3>2 DEF EmptySlot, PositionSteps
  <2>2. CASE s # {}
    <3>1. PICK o \in s : o = Latest(s)
      BY <2>2, LatestIsLast
    <3>2. PICK r \in SUBSET Filled : r = s \ {o}
      OBVIOUS
    <3>3. g[s] = Applies(Snapshot(o), g[r])
      BY <2>2, <3>1, <3>2 DEF PositionSteps
    <3>4. g[r].net = Total(r, "buy") - Total(r, "sell")
      BY <1>2, <3>1, <3>2
    <3>5. /\ Snapshot(o) \in Fill /\ g[r] \in Slot /\ seen[o] \in Nat
          /\ Snapshot(o).side = SideOf[o] /\ Snapshot(o).qty = seen[o] /\ SideOf[o] \in {"buy", "sell"}
      BY <1>1, SnapshotType, SeenType, PositionAssumption DEF PositionSteps
    <3>6. g[s].net = IF SideOf[o] = "buy" THEN g[r].net + seen[o] ELSE g[r].net - seen[o]
      BY <3>3, <3>5, BuysStep, SellsStep DEF Applies
    <3>7. \A side : /\ Total(s, side) \in Int /\ Total(r, side) \in Int
                    /\ Total(s, side) = Total(r, side) + (IF SideOf[o] = side THEN seen[o] ELSE 0)
      <4>. SUFFICES ASSUME NEW side
                    PROVE  /\ Total(s, side) \in Int /\ Total(s \ {o}, side) \in Int
                           /\ Total(s, side) = Total(s \ {o}, side) + (IF SideOf[o] = side THEN seen[o] ELSE 0)
        BY <3>2
      <4>1. s \in SUBSET Order
        BY <1>1
      <4>. QED  BY <4>1, TotalStep
    <3>8. CASE SideOf[o] = "buy"
      BY <3>4, <3>5, <3>6, <3>7, <3>8
    <3>9. CASE SideOf[o] = "sell"
      BY <3>4, <3>5, <3>6, <3>7, <3>9
    <3>. QED  BY <3>5, <3>8, <3>9
  <2>. QED  BY <2>1, <2>2
<1>3. \A s \in SUBSET Filled : s \in T
  <2>. HIDE DEF T
  <2>. QED  BY <1>1, <1>2, SubsetInduction
<1>. QED  BY <1>3

\* The net quantity is what was bought less what was sold.
THEOREM PositionQuantityIsNet == PositionSpec => []QuantityIsNet
<1>1. PositionInvariant => QuantityIsNet
  <2>. SUFFICES ASSUME PositionTypeOK, SeenHappened PROVE QuantityIsNet
    BY DEF PositionInvariant
  <2>1. PICK g : Position = g[Filled] /\ PositionSteps(g)
    BY PositionIsFold
  <2>2. \A s \in SUBSET Filled : g[s].net = Total(s, "buy") - Total(s, "sell")
    BY <2>1, NetOfFold
  <2>3. Position.net = Total(Filled, "buy") - Total(Filled, "sell")
    BY <2>1, <2>2
  <2>. QED  BY <2>3, TotalFilled DEF QuantityIsNet
<1>. QED  BY <1>1, PositionInvariance, PTL

-------------------------------------------------------------------------------
\* The average.

\* Scaling both sides of a comparison.
LEMMA Scaled ==
  ASSUME NEW a \in Int, NEW b \in Int, NEW k \in Nat, a <= b
  PROVE  a * k <= b * k
OBVIOUS

\* The price bounds of a larger quantity, and of a quantity in proportion.
LEMMA ScaledSum ==
  ASSUME NEW p \in Int, NEW v \in Int, NEW q \in Int, NEW r \in Int
  PROVE  /\ p * (v * (q + r)) = p * (v * q) + (p * r) * v
         /\ p * ((v * q) * r) = (p * (v * q)) * r
OBVIOUS

\* The cost of a position is its quantity at prices between two bounds.
Between(slot, lo, hi) ==
  /\ lo * (slot.over * slot.qty) <= slot.cost
  /\ slot.cost <= hi * (slot.over * slot.qty)

\* A position after some snapshots has bought no less than it holds, has bought something
\* only if there are purchases among them, and costs no price that none of them paid.
LEMMA AverageOfFold ==
  ASSUME PositionTypeOK, SeenHappened, NEW g, PositionSteps(g),
         NEW lo \in Int, NEW hi \in Int,
         \A o \in Of(Filled, "buy") : \A i \in Seen(o) : lo <= trades[i].price /\ trades[i].price <= hi
  PROVE  \A s \in SUBSET Filled :
           /\ g[s].net <= g[s].qty
           /\ g[s].qty > 0 => Of(s, "buy") # {}
           /\ Between(g[s], lo, hi)
<1>. DEFINE T == {s \in SUBSET Filled : /\ g[s].net <= g[s].qty
                                        /\ g[s].qty > 0 => Of(s, "buy") # {}
                                        /\ Between(g[s], lo, hi)}
<1>1. IsFiniteSet(Filled) /\ Filled \subseteq Order
  BY PositionAssumption, FS_Subset DEF Filled
<1>2. ASSUME NEW s \in SUBSET Filled, \A r \in SUBSET s : r # s => r \in T
      PROVE  s \in T
  <2>1. CASE s = {}
    <3>1. g[s].net = 0 /\ g[s].qty = 0 /\ g[s].cost = 0 /\ g[s].over = 1
      BY <2>1 DEF EmptySlot, PositionSteps
    <3>2. lo * (1 * 0) = 0 /\ hi * (1 * 0) = 0
      OBVIOUS
    <3>. QED  BY <3>1, <3>2 DEF Between
  <2>2. CASE s # {}
    <3>1. PICK o \in s : o = Latest(s)
      BY <2>2, LatestIsLast
    <3>2. PICK r \in SUBSET Filled : r = s \ {o}
      OBVIOUS
    <3>3. PICK slot \in Slot : slot = g[r]
      BY DEF PositionSteps
    <3>4. g[s] = Applies(Snapshot(o), slot)
      BY <2>2, <3>1, <3>2, <3>3 DEF PositionSteps
    <3>5. slot.net <= slot.qty /\ (slot.qty > 0 => Of(r, "buy") # {}) /\ Between(slot, lo, hi)
      BY <1>2, <3>1, <3>2, <3>3
    <3>6. PICK f \in Fill : f = Snapshot(o) /\ f.side = SideOf[o] /\ f.qty = seen[o] /\ SideOf[o] \in {"buy", "sell"}
      BY <1>1, SnapshotType, PositionAssumption
    <3>7. /\ slot.net \in Int /\ slot.qty \in Nat /\ slot.cost \in Nat /\ slot.over \in Nat \ {0}
          /\ f.qty \in Nat /\ f.cost \in Nat
      BY DEF Slot, Fill
    <3>8. PICK n \in Int, q \in Nat, c \in Nat, v \in Nat \ {0} :
            n = slot.net /\ q = slot.qty /\ c = slot.cost /\ v = slot.over
      BY <3>7
    <3>9. PICK l \in Int, h \in Int : l = lo * (v * q) /\ h = hi * (v * q)
      OBVIOUS
    <3>10. n <= q /\ l <= c /\ c <= h
      BY <3>5, <3>8, <3>9 DEF Between
    <3>11. CASE SideOf[o] = "buy"
      <4>1. /\ g[s].net = n + f.qty /\ g[s].qty = q + f.qty
            /\ g[s].cost = c + f.cost * v /\ g[s].over = v
        BY <3>4, <3>6, <3>8, <3>11, BuysStep DEF Applies
      <4>2. o \in Of(s, "buy") /\ o \in Of(Filled, "buy")
        BY <3>1, <3>11 DEF Of
      <4>3. lo * f.qty <= f.cost /\ f.cost <= hi * f.qty
        <5>1. \A i \in Seen(o) : lo <= trades[i].price /\ trades[i].price <= hi
          BY <4>2
        <5>. QED  BY <5>1, <3>6, <1>1, SnapshotCost
      <4>4. (lo * f.qty) * v <= f.cost * v /\ f.cost * v <= (hi * f.qty) * v
        BY <4>3, <3>7, Scaled
      <4>5. /\ lo * (v * (q + f.qty)) = l + (lo * f.qty) * v
            /\ hi * (v * (q + f.qty)) = h + (hi * f.qty) * v
        BY <3>7, <3>9, ScaledSum
      <4>6. PICK a \in Int, d \in Int, b \in Int :
              a = (lo * f.qty) * v /\ d = f.cost * v /\ b = (hi * f.qty) * v
        BY <3>7
      <4>7. l + a <= c + d /\ c + d <= h + b
        BY <3>10, <4>4, <4>6
      <4>8. Between(g[s], lo, hi)
        BY <4>1, <4>5, <4>6, <4>7 DEF Between
      <4>9. g[s].net <= g[s].qty
        BY <3>7, <3>10, <4>1
      <4>. QED  BY <4>2, <4>8, <4>9
    <3>12. CASE SideOf[o] = "sell" /\ (n - f.qty <= 0 \/ q - f.qty <= 0)
      <4>1. g[s].net = n - f.qty /\ g[s].qty = 0 /\ g[s].cost = 0 /\ g[s].over = 1
        BY <3>4, <3>6, <3>8, <3>12, SellsStep DEF Applies
      <4>2. lo * (1 * 0) = 0 /\ hi * (1 * 0) = 0
        OBVIOUS
      <4>3. n - f.qty <= 0
        BY <3>7, <3>10, <3>12
      <4>. QED  BY <4>1, <4>2, <4>3 DEF Between
    <3>13. CASE SideOf[o] = "sell" /\ n - f.qty > 0 /\ q - f.qty > 0
      <4>1. PICK left \in Nat : left = q - f.qty
        BY <3>7, <3>13
      <4>2. g[s].net = n - f.qty /\ g[s].qty = left /\ g[s].cost = c * left /\ g[s].over = v * q
        BY <3>4, <3>6, <3>8, <3>13, <4>1, SellsStep DEF Applies
      <4>3. l * left <= c * left /\ c * left <= h * left
        BY <3>10, Scaled
      <4>4. lo * ((v * q) * left) = l * left /\ hi * ((v * q) * left) = h * left
        BY <3>9, ScaledSum
      <4>5. Between(g[s], lo, hi)
        BY <4>2, <4>3, <4>4 DEF Between
      <4>6. n - f.qty <= left
        BY <3>7, <3>10, <4>1
      <4>7. Of(s, "buy") # {}
        <5>1. Of(r, "buy") # {}
          BY <3>5, <3>7, <3>8, <3>13
        <5>. QED  BY <5>1, <3>2 DEF Of
      <4>. QED  BY <4>2, <4>5, <4>6, <4>7
    <3>14. SideOf[o] = "sell" => \/ n - f.qty <= 0 \/ q - f.qty <= 0
                                 \/ n - f.qty > 0 /\ q - f.qty > 0
      BY <3>7
    <3>. QED  BY <3>6, <3>11, <3>12, <3>13, <3>14
  <2>. QED  BY <2>1, <2>2
<1>3. \A s \in SUBSET Filled : s \in T
  <2>. HIDE DEF T
  <2>. QED  BY <1>1, <1>2, SubsetInduction
<1>. QED  BY <1>3

-------------------------------------------------------------------------------
\* Snapping.  What can go wrong is at the edges of bands: that a price snapped up to the next
\* band is a multiple of its larger tick, and that no price of a lower band lies above the
\* one snapped down to.  Both are facts about whole won (BandGrid); the rest carries them
\* over to the steps of the Decimal.

\* Division with remainder.
LEMMA Division ==
  ASSUME NEW p \in Nat, NEW t \in Nat \ {0}
  PROVE  /\ p \div t \in Nat
         /\ (p \div t) * t \in Nat
         /\ (p \div t) * t <= p
         /\ p < (p \div t) * t + t
         /\ p % t = p - (p \div t) * t
  BY SMT

\* A multiple of t divides without remainder.
LEMMA Multiple ==
  ASSUME NEW k \in Nat, NEW t \in Nat \ {0}
  PROVE  k * t \in Nat /\ (k * t) % t = 0 /\ (k * t) \div t = k
  BY SMTT(20)

\* Multiples of t are in the order of their factors.
LEMMA Factors ==
  ASSUME NEW a \in Int, NEW b \in Int, NEW t \in Nat \ {0}
  PROVE  /\ a * t < b * t => a < b
         /\ a <= b => a * t <= b * t
  BY SMT

\* The bands of _KRX_TICKS, one by one.
LEMMA Sizes ==
  ASSUME NEW won \in Nat
  PROVE  /\ won < 2000                    => KrxSize(won) = 1
         /\ 2000 <= won /\ won < 5000     => KrxSize(won) = 5
         /\ 5000 <= won /\ won < 20000    => KrxSize(won) = 10
         /\ 20000 <= won /\ won < 50000   => KrxSize(won) = 50
         /\ 50000 <= won /\ won < 200000  => KrxSize(won) = 100
         /\ 200000 <= won /\ won < 500000 => KrxSize(won) = 500
         /\ 500000 <= won                 => KrxSize(won) = 1000
  BY SMTT(30) DEF KrxSize, KrxTicks, KrxTop

\* In whole won: the multiple of the tick size at or below a price and the one above it
\* are both permitted, whatever bands they are in, and nothing between them is.
LEMMA BandGrid ==
  ASSUME NEW won \in Nat, NEW q \in Nat,
         q * KrxSize(won) <= won, won < q * KrxSize(won) + KrxSize(won)
  PROVE  /\ KrxSize(won) \in Nat \ {0}
         /\ PermittedWon(q * KrxSize(won))
         /\ PermittedWon(q * KrxSize(won) + KrxSize(won))
         /\ \A w \in Nat : PermittedWon(w) /\ q * KrxSize(won) < w
                           => q * KrxSize(won) + KrxSize(won) <= w
  <1>1. CASE won < 2000
    BY <1>1, Sizes, SMTT(30) DEF PermittedWon
  <1>2. CASE 2000 <= won /\ won < 5000
    BY <1>2, Sizes, SMTT(30) DEF PermittedWon
  <1>3. CASE 5000 <= won /\ won < 20000
    BY <1>3, Sizes, SMTT(30) DEF PermittedWon
  <1>4. CASE 20000 <= won /\ won < 50000
    BY <1>4, Sizes, SMTT(30) DEF PermittedWon
  <1>5. CASE 50000 <= won /\ won < 200000
    BY <1>5, Sizes, SMTT(30) DEF PermittedWon
  <1>6. CASE 200000 <= won /\ won < 500000
    BY <1>6, Sizes, SMTT(30) DEF PermittedWon
  <1>7. CASE 500000 <= won
    BY <1>7, Sizes, SMTT(30) DEF PermittedWon
  <1> QED
    BY <1>1, <1>2, <1>3, <1>4, <1>5, <1>6, <1>7

\* A price of whole won is permitted as its won are.
LEMMA WholeWon ==
  /\ Unit \in Nat \ {0}
  /\ \A w \in Nat : Permitted(w * Unit, "KRW") <=> PermittedWon(w)
  /\ \A p \in Nat : Permitted(p, "KRW") => \E w \in Nat : p = w * Unit /\ PermittedWon(w)
<1>1. Unit \in Nat \ {0}
  BY TickAssumption DEF Unit
<1>2. \A w \in Nat : Permitted(w * Unit, "KRW") <=> PermittedWon(w)
  BY <1>1, Multiple DEF Permitted
<1>3. ASSUME NEW p \in Nat, Permitted(p, "KRW")
      PROVE  \E w \in Nat : p = w * Unit /\ PermittedWon(w)
  <2>1. p \div Unit \in Nat /\ p = (p \div Unit) * Unit /\ PermittedWon(p \div Unit)
    BY <1>1, <1>3, Division, SMT DEF Permitted
  <2> QED
    BY <2>1
<1> QED
  BY <1>1, <1>2, <1>3

\* A price that is the best of all is the best of fewer.
LEMMA SnapsFewer ==
  ASSUME NEW price, NEW currency, NEW A, NEW B, A \subseteq B, SnapsWell(price, currency, B)
  PROVE  SnapsWell(price, currency, A)
BY DEF SnapsWell

\* KRW: the multiple of the tick that snap_down computes is that of BandGrid.
THEOREM SnapsWellKrw ==
  ASSUME NEW price \in Nat
  PROVE  SnapsWell(price, "KRW", Int)
<1> DEFINE won  == price \div Unit
           size == KrxSize(won)
           tick == size * Unit
           q    == price \div tick
           low  == q * size
<1>1. Unit \in Nat \ {0} /\ won \in Nat
  BY WholeWon, Division
<1>2. size \in Nat \ {0}
  BY <1>1, Sizes, SMT
<1>3. tick \in Nat \ {0}
  BY <1>1, <1>2, SMT
<1>4. /\ q \in Nat /\ low \in Nat
      /\ q * tick = low * Unit
      /\ q * tick + tick = (low + size) * Unit
  <2>1. q \in Nat
    BY <1>3, Division
  <2> HIDE DEF q
  <2>2. low \in Nat
    BY <2>1, <1>2, SMT
  <2> QED
    BY <2>1, <2>2, <1>1, <1>2, SMT
<1>5. low <= won /\ won < low + size
  <2>1. /\ won * Unit <= price /\ price < won * Unit + Unit
        /\ low * Unit <= price /\ price < (low + size) * Unit
    BY <1>1, <1>3, <1>4, Division
  <2>2. won * Unit + Unit = (won + 1) * Unit
    BY <1>1, SMT
  <2>3. low * Unit < (won + 1) * Unit /\ won * Unit < (low + size) * Unit
    BY <2>1, <2>2, <1>1, <1>2, <1>4, SMT
  <2>4. low < won + 1 /\ won < low + size
    BY <2>3, <1>1, <1>2, <1>4, Factors
  <2> QED
    BY <2>4, <1>1, <1>4, SMT
<1>6. /\ PermittedWon(low) /\ PermittedWon(low + size)
      /\ \A w \in Nat : PermittedWon(w) /\ low < w => low + size <= w
  BY <1>1, <1>4, <1>5, BandGrid
<1>7. /\ SnapDown(price, "KRW") = low * Unit
      /\ SnapUp(price, "KRW") = IF low * Unit = price THEN low * Unit ELSE (low + size) * Unit
  BY <1>4 DEF SnapDown, SnapUp, TickSize
<1>8. low * Unit <= price /\ price < (low + size) * Unit
  BY <1>3, <1>4, Division
<1> HIDE DEF won, size, tick, q, low
<1>9. Permitted(low * Unit, "KRW") /\ Permitted((low + size) * Unit, "KRW")
  BY <1>2, <1>4, <1>6, WholeWon
<1>10. ASSUME NEW p \in Nat, Permitted(p, "KRW")
       PROVE  /\ p <= price => p <= low * Unit
              /\ p > low * Unit => p >= (low + size) * Unit
  <2>1. PICK w \in Nat : p = w * Unit /\ PermittedWon(w)
    BY <1>10, WholeWon
  <2>2. CASE w <= low
    BY <2>1, <2>2, <1>1, <1>4, Factors, SMT
  <2>3. CASE low < w
    <3>1. low + size <= w
      BY <2>1, <2>3, <1>6
    <3>2. (low + size) * Unit <= p
      BY <2>1, <3>1, <1>1, <1>2, <1>4, Factors
    <3> QED
      BY <3>2, <1>1, <1>2, <1>4, <1>8, SMT
  <2> QED
    BY <2>1, <2>2, <2>3, <1>4, SMT
<1> QED
  <2>1. low * Unit \in Nat /\ (low + size) * Unit \in Nat
    BY <1>1, <1>2, <1>4, SMT
  <2> QED
    BY <2>1, <1>7, <1>8, <1>9, <1>10, SMT DEF SnapsWell

\* USD: whole cents.
THEOREM SnapsWellUsd ==
  ASSUME NEW price \in Nat
  PROVE  SnapsWell(price, "USD", Int)
<1> DEFINE q == price \div Cent
<1>1. Cent \in Nat \ {0}
  BY TickAssumption
<1>2. /\ q \in Nat /\ q * Cent \in Nat
      /\ q * Cent <= price /\ price < q * Cent + Cent
  BY <1>1, Division
<1>3. /\ SnapDown(price, "USD") = q * Cent
      /\ SnapUp(price, "USD") = IF q * Cent = price THEN q * Cent ELSE q * Cent + Cent
  BY DEF SnapDown, SnapUp, TickSize
<1> HIDE DEF q
<1>4. q * Cent + Cent = (q + 1) * Cent
  BY <1>1, <1>2, SMT
<1>5. Permitted(q * Cent, "USD") /\ Permitted(q * Cent + Cent, "USD")
  BY <1>1, <1>2, <1>4, Multiple DEF Permitted
<1>6. ASSUME NEW p \in Nat, Permitted(p, "USD")
      PROVE  /\ p <= price => p <= q * Cent
             /\ p > q * Cent => p >= q * Cent + Cent
  <2>1. PICK k \in Nat : p = k * Cent
    <3>1. p \div Cent \in Nat /\ p = (p \div Cent) * Cent
      BY <1>1, <1>6, Division, SMT DEF Permitted
    <3> QED
      BY <3>1
  <2>2. CASE k <= q
    BY <2>1, <2>2, <1>1, <1>2, Factors, SMT
  <2>3. CASE q + 1 <= k
    <3>1. (q + 1) * Cent <= p
      BY <2>1, <2>3, <1>1, <1>2, Factors
    <3> QED
      BY <3>1, <1>1, <1>2, <1>4, SMT
  <2> QED
    BY <2>2, <2>3, <1>2
<1> QED
  BY <1>1, <1>2, <1>3, <1>5, <1>6, SMT DEF SnapsWell

\* A held position has an average, between the lowest and the highest price paid.
LEMMA AverageIsBetween ==
  ASSUME PositionTypeOK, SeenHappened, Held
  PROVE  /\ Average.num \in Nat /\ Average.den \in Nat \ {0}
         /\ Min(BuyPrices) * Average.den <= Average.num
         /\ Average.num <= Max(BuyPrices) * Average.den
<1>1. PICK g : Position = g[Filled] /\ PositionSteps(g)
  BY PositionIsFold
<1>2. Position \in Slot
  BY <1>1 DEF PositionSteps
<1>. DEFINE bought == VisibleOf(OrdersOf("buy"))
<1>3. /\ IsFiniteSet(bought)
      /\ \A i \in bought : i \in DOMAIN trades /\ trades[i].price \in Nat
      /\ \A o \in Of(Filled, "buy") : Seen(o) \subseteq bought /\ Seen(o) # {}
  <2>1. OrdersOf("buy") \in SUBSET Order
    BY DEF OrdersOf
  <2>2. IsFiniteSet(bought) /\ bought \subseteq Visible
    BY <2>1, VisibleCount
  <2>3. \A i \in bought : i \in DOMAIN trades /\ trades[i].price \in Nat
    BY <2>2, VisibleType, TradeType
  <2>4. ASSUME NEW o \in Of(Filled, "buy") PROVE Seen(o) \subseteq bought /\ Seen(o) # {}
    <3>1. o \in OrdersOf("buy") /\ o \in Order /\ seen[o] > 0
      BY DEF Of, Filled, OrdersOf
    <3>2. Cardinality(Seen(o)) = seen[o]
      BY <3>1, SeenType
    <3>3. Seen(o) # {}
      BY <3>1, <3>2, FS_EmptySet
    <3>. QED  BY <3>1, <3>3 DEF VisibleOf
  <2>. QED  BY <2>2, <2>3, <2>4
<1>4. BuyPrices = {Prices[i] : i \in bought}
  <2>1. BuyPrices = {trades[i].price : i \in bought}
    BY DEF BuyPrices, VisibleOf, OrdersOf
  <2>2. \A i \in bought : Prices[i] = trades[i].price
    BY <1>3 DEF Prices
  <2>. HIDE DEF bought
  <2>. QED  BY <2>1, <2>2
<1>5. IsFiniteSet(BuyPrices) /\ BuyPrices \subseteq Int
  <2>. HIDE DEF bought
  <2>1. IsFiniteSet({Prices[i] : i \in bought})
    BY <1>3, ImageFinite
  <2>2. \A i \in bought : Prices[i] \in Nat
    BY <1>3 DEF Prices
  <2>. QED  BY <1>4, <2>1, <2>2
<1>6. \A lo, hi \in Int :
        (\A o \in Of(Filled, "buy") : \A i \in Seen(o) : lo <= trades[i].price /\ trades[i].price <= hi) =>
          /\ Position.net <= Position.qty
          /\ Position.qty > 0 => Of(Filled, "buy") # {}
          /\ Between(Position, lo, hi)
  <2>. SUFFICES ASSUME NEW lo \in Int, NEW hi \in Int,
                       \A o \in Of(Filled, "buy") : \A i \in Seen(o) : lo <= trades[i].price /\ trades[i].price <= hi
                PROVE  /\ Position.net <= Position.qty
                       /\ Position.qty > 0 => Of(Filled, "buy") # {}
                       /\ Between(Position, lo, hi)
    OBVIOUS
  <2>1. \A s \in SUBSET Filled : /\ g[s].net <= g[s].qty
                                 /\ g[s].qty > 0 => Of(s, "buy") # {}
                                 /\ Between(g[s], lo, hi)
    BY <1>1, AverageOfFold
  <2>. QED  BY <1>1, <2>1
<1>7. Position.net \in Int /\ Position.qty \in Nat /\ Position.over \in Nat \ {0} /\ Position.cost \in Nat
  BY <1>2 DEF Slot
<1>8. Position.net > 0
  BY DEF Held
<1>9. BuyPrices # {}
  <2>1. CASE Of(Filled, "buy") = {}
    <3>1. Position.net <= Position.qty /\ ~ (Position.qty > 0)
      BY <2>1, <1>6
    <3>. QED  BY <3>1, <1>7, <1>8
  <2>2. CASE Of(Filled, "buy") # {}
    <3>1. bought # {}
      BY <2>2, <1>3
    <3>. HIDE DEF bought
    <3>. QED  BY <3>1, <1>4
  <2>. QED  BY <2>1, <2>2
<1>10. PICK lo \in Int, hi \in Int : /\ lo = Min(BuyPrices) /\ hi = Max(BuyPrices)
                                     /\ \A p \in BuyPrices : lo <= p /\ p <= hi
  <2>1. Min(BuyPrices) \in BuyPrices /\ \A p \in BuyPrices : Min(BuyPrices) <= p
    BY <1>5, <1>9, MinIsLeast
  <2>2. \A A \in SUBSET BuyPrices : A # {} => Max(A) \in A /\ \A p \in A : p <= Max(A)
    BY <1>5, MaxIsLargest
  <2>3. Max(BuyPrices) \in BuyPrices /\ \A p \in BuyPrices : p <= Max(BuyPrices)
    BY <2>2, <1>9
  <2>. QED  BY <2>1, <2>3, <1>5
<1>11. \A o \in Of(Filled, "buy") : \A i \in Seen(o) : lo <= trades[i].price /\ trades[i].price <= hi
  <2>1. \A i \in bought : trades[i].price \in BuyPrices
    <3>1. \A i \in bought : Prices[i] = trades[i].price
      BY <1>3 DEF Prices
    <3>. HIDE DEF bought
    <3>. QED  BY <3>1, <1>4
  <2>. HIDE DEF bought
  <2>. QED  BY <2>1, <1>3, <1>10
<1>12. Position.net <= Position.qty /\ Between(Position, lo, hi)
  BY <1>6, <1>11
<1>13. Average.num = Position.cost /\ Average.den = Position.over * Position.qty
  BY DEF Average
<1>14. Average.den \in Nat \ {0}
  <2>1. PICK q \in Nat \ {0} : q = Position.qty
    BY <1>7, <1>8, <1>12
  <2>. QED  BY <2>1, <1>7, <1>13
<1>. QED  BY <1>7, <1>10, <1>12, <1>13, <1>14 DEF Between

\* The average of a position that is held is one of prices paid.
THEOREM PositionAverageWithinPrices == PositionSpec => []AverageWithinPrices
<1>1. PositionInvariant => AverageWithinPrices
  BY AverageIsBetween DEF PositionInvariant, AverageWithinPrices
<1>. QED  BY <1>1, PositionInvariance, PTL

\* The average snaps to the best prices the exchange takes, in either currency.
THEOREM PositionAverageSnaps == PositionSpec => []AverageSnaps
<1>1. PositionInvariant => AverageSnaps
  <2>. SUFFICES ASSUME PositionTypeOK, SeenHappened, Held
                PROVE  LET won  == AveragePrice \div Unit
                           cent == AveragePrice \div Cent
                       IN  /\ SnapsWell(AveragePrice, "KRW", {w * Unit : w \in (won - 6) .. (won + 6)})
                           /\ SnapsWell(AveragePrice, "USD", {c * Cent : c \in (cent - 2) .. (cent + 2)})
    BY DEF PositionInvariant, AverageSnaps
  <2>1. Unit \in Nat \ {0} /\ Cent \in Nat \ {0}
    BY TickAssumption, WholeWon
  <2>2. AveragePrice \in Nat
    <3>1. PICK n \in Nat, d \in Nat \ {0} : n = Average.num /\ d = Average.den
      BY AverageIsBetween
    <3>2. n * Unit \in Nat
      BY <2>1
    <3>3. (n * Unit) \div d \in Nat
      BY <3>2, Division
    <3>. QED  BY <3>1, <3>3 DEF AveragePrice
  <2>3. SnapsWell(AveragePrice, "KRW", Int) /\ SnapsWell(AveragePrice, "USD", Int)
    BY <2>2, SnapsWellKrw, SnapsWellUsd
  <2>4. PICK won \in Nat, cent \in Nat : won = AveragePrice \div Unit /\ cent = AveragePrice \div Cent
    BY <2>1, <2>2, Division
  <2>5. /\ {w * Unit : w \in (won - 6) .. (won + 6)} \subseteq Int
        /\ {c * Cent : c \in (cent - 2) .. (cent + 2)} \subseteq Int
    BY <2>1
  <2>6. /\ SnapsWell(AveragePrice, "KRW", {w * Unit : w \in (won - 6) .. (won + 6)})
        /\ SnapsWell(AveragePrice, "USD", {c * Cent : c \in (cent - 2) .. (cent + 2)})
    BY <2>3, <2>5, SnapsFewer
  <2>. QED  BY <2>4, <2>6
<1>. QED  BY <1>1, PositionInvariance, PTL

-------------------------------------------------------------------------------
\* The executions one by one.

\* The state of the reference computation, which starts with nothing.
Tally == [qty : Int, num : Int, den : Int]

EmptyTally == [qty |-> 0, num |-> 0, den |-> 1]

\* A unit bought adds its price, a unit sold is taken out at the average.
LEMMA OneMoreStep ==
  ASSUME PositionTypeOK, SeenHappened, NEW i \in Visible, NEW t \in Tally
  PROVE  /\ OneMore(i, t) \in Tally
         /\ SideOf[trades[i].order] = "buy" =>
              /\ OneMore(i, t).qty = t.qty + 1
              /\ OneMore(i, t).num = t.num + trades[i].price * t.den
              /\ OneMore(i, t).den = t.den
         /\ SideOf[trades[i].order] = "sell" /\ t.qty = 1 => OneMore(i, t) = EmptyTally
         /\ SideOf[trades[i].order] = "sell" /\ t.qty # 1 =>
              /\ OneMore(i, t).qty = t.qty - 1
              /\ OneMore(i, t).num = t.num * (t.qty - 1)
              /\ OneMore(i, t).den = t.den * t.qty
<1>1. PICK q \in Int, n \in Int, d \in Int : t = [qty |-> q, num |-> n, den |-> d]
  BY DEF Tally
<1>2. PICK p \in Nat : p = trades[i].price
  BY VisibleType, TradeType
<1>3. CASE SideOf[trades[i].order] = "buy"
  <2>1. PICK u \in Int : u = n + p * d
    OBVIOUS
  <2>2. OneMore(i, t) = [t EXCEPT !.qty = q + 1, !.num = u]
    BY <1>1, <1>2, <1>3, <2>1 DEF OneMore
  <2>3. OneMore(i, t) = [qty |-> q + 1, num |-> u, den |-> d]
    BY <1>1, <2>2
  <2>4. OneMore(i, t) \in Tally
    BY <2>3 DEF Tally
  <2>. QED  BY <1>1, <1>2, <1>3, <2>1, <2>3, <2>4
<1>4. CASE SideOf[trades[i].order] # "buy" /\ q = 1
  <2>1. OneMore(i, t) = EmptyTally
    BY <1>1, <1>4 DEF OneMore, EmptyTally
  <2>2. EmptyTally \in Tally
    BY DEF EmptyTally, Tally
  <2>3. t.qty = 1
    BY <1>1, <1>4
  <2>. QED  BY <1>4, <2>1, <2>2, <2>3
<1>5. CASE SideOf[trades[i].order] # "buy" /\ q # 1
  <2>1. PICK u \in Int, v \in Int : u = n * (q - 1) /\ v = d * q
    OBVIOUS
  <2>2. OneMore(i, t) = [qty |-> q - 1, num |-> u, den |-> v]
    BY <1>1, <1>5, <2>1 DEF OneMore
  <2>3. OneMore(i, t) \in Tally
    BY <2>2 DEF Tally
  <2>4. t.qty # 1
    BY <1>1, <1>5
  <2>5. /\ OneMore(i, t).qty = t.qty - 1
        /\ OneMore(i, t).num = t.num * (t.qty - 1)
        /\ OneMore(i, t).den = t.den * t.qty
    BY <1>1, <2>1, <2>2
  <2>. QED  BY <1>5, <2>3, <2>4, <2>5
<1>. QED  BY <1>3, <1>4, <1>5

\* The function that OneByOne folds the executions with.
TallyFold(h) ==
  h = [s \in SUBSET Visible |-> IF s = {} THEN EmptyTally ELSE OneMore(Max(s), h[s \ {Max(s)}])]

\* It gives the tally after some executions from that before the last of them.
TallySteps(h) ==
  /\ h[{}] = EmptyTally
  /\ \A s \in SUBSET Visible :
       /\ h[s] \in Tally
       /\ s # {} => h[s] = OneMore(Max(s), h[s \ {Max(s)}])

\* It exists, and the reference is its value for all the executions that count.
LEMMA OneByOneIsFold ==
  ASSUME PositionTypeOK, SeenHappened
  PROVE  \E h : OneByOne = h[Visible] /\ TallySteps(h)
<1>. DEFINE step == [i \in Visible |-> [t \in Tally |-> OneMore(i, t)]]
            pick == [s \in SUBSET Visible |-> Max(s)]
<1>1. IsFiniteSet(Visible)
  BY VisibleType
<1>2. \A s \in SUBSET Visible : s # {} => Max(s) \in s /\ pick[s] = Max(s) /\ pick[s] \in s
  <2>1. Visible \subseteq Int
    BY VisibleType
  <2>2. \A s \in SUBSET Visible : s # {} => Max(s) \in s /\ \A x \in s : x <= Max(s)
    BY <1>1, <2>1, MaxIsLargest, Zenon
  <2>. QED  BY <2>2
<1>3. \A i \in Visible : \A t \in Tally : OneMore(i, t) \in Tally /\ step[i][t] = OneMore(i, t)
  BY OneMoreStep
<1>4. EmptyTally \in Tally
  BY DEF EmptyTally, Tally
<1>. HIDE DEF step, pick
<1>5. \A i \in Visible : \A t \in Tally : step[i][t] \in Tally
  BY <1>3
<1>6. PICK f : Folds(step, pick, EmptyTally, Visible, f)
  <2>1. \A s \in SUBSET Visible : s # {} => pick[s] \in s
    BY <1>2, Zenon
  <2>. QED  BY <1>1, <2>1, FoldExists, Zenon
<1>7. /\ f = [s \in SUBSET Visible |-> f[s]]
      /\ f[{}] = EmptyTally
      /\ \A s \in SUBSET Visible : s # {} => f[s] = step[pick[s]][f[s \ {pick[s]}]]
  BY <1>6 DEF Folds
<1>8. \A s \in SUBSET Visible : f[s] \in Tally
  <2>1. \A s \in SUBSET Visible : s # {} => pick[s] \in s
    BY <1>2
  <2>2. FoldsIn(step, pick, EmptyTally, Visible, Tally, f)
    BY <1>4, <1>5, <1>7, <2>1 DEF FoldsIn
  <2>. QED  BY <1>1, <2>2, FoldValues
<1>9. TallyFold(f)
  <2>1. ASSUME NEW s \in SUBSET Visible, s # {}
        PROVE  f[s] = OneMore(Max(s), f[s \ {Max(s)}])
    <3>1. Max(s) \in Visible /\ f[s \ {Max(s)}] \in Tally
      BY <1>2, <1>8, <2>1
    <3>. QED  BY <3>1, <1>2, <1>3, <1>7, <2>1
  <2>2. [s \in SUBSET Visible |-> f[s]]
          = [s \in SUBSET Visible |-> IF s = {} THEN EmptyTally ELSE OneMore(Max(s), f[s \ {Max(s)}])]
    BY <1>7, <2>1
  <2>. QED  BY <1>7, <2>2 DEF TallyFold
<1>. DEFINE h == CHOOSE k : TallyFold(k)
<1>10. TallyFold(h)
  BY <1>9
<1>11. OneByOne = h[Visible]
  BY DEF OneByOne, MapThenFoldSet, TallyFold, EmptyTally
<1>. HIDE DEF h
<1>12. /\ h[{}] = EmptyTally
       /\ \A s \in SUBSET Visible : s # {} => h[s] = OneMore(Max(s), h[s \ {Max(s)}])
  BY <1>10 DEF TallyFold
<1>13. \A s \in SUBSET Visible : h[s] \in Tally
  <2>1. \A s \in SUBSET Visible : s # {} => pick[s] \in s
    BY <1>2
  <2>2. ASSUME NEW s \in SUBSET Visible, s # {}, h[s \ {pick[s]}] \in Tally
        PROVE  h[s] = step[pick[s]][h[s \ {pick[s]}]]
    <3>1. Max(s) \in Visible /\ pick[s] = Max(s)
      BY <1>2, <2>2
    <3>2. h[s] = OneMore(Max(s), h[s \ {Max(s)}])
      BY <1>12, <2>2
    <3>3. step[Max(s)][h[s \ {Max(s)}]] = OneMore(Max(s), h[s \ {Max(s)}])
      BY <3>1, <1>3, <2>2
    <3>. QED  BY <3>1, <3>2, <3>3
  <2>3. FoldsIn(step, pick, EmptyTally, Visible, Tally, h)
    BY <1>4, <1>5, <1>12, <2>1, <2>2 DEF FoldsIn
  <2>. QED  BY <1>1, <2>3, FoldValues
<1>14. TallySteps(h)
  BY <1>12, <1>13 DEF TallySteps
<1>. QED  BY <1>11, <1>14

\* The last of executions that come after others.
LEMMA LastOfBoth ==
  ASSUME NEW W, NEW B, IsFiniteSet(W), IsFiniteSet(B), W \subseteq Int, B \subseteq Int, B # {},
         \A w \in W : \A b \in B : w < b
  PROVE  /\ Max(W \cup B) \in B
         /\ (W \cup B) \ {Max(W \cup B)} = W \cup (B \ {Max(W \cup B)})
<1>1. PICK S : S = W \cup B
  OBVIOUS
<1>2. IsFiniteSet(S) /\ S \subseteq Int /\ S # {}
  BY <1>1, FS_Union
<1>3. Max(S) \in S /\ \A x \in S : x <= Max(S)
  BY <1>2, MaxIsLargest
<1>4. PICK m \in Int : m = Max(S)
  BY <1>2, <1>3
<1>5. m \in B /\ m \notin W
  <2>1. PICK b \in B : TRUE
    OBVIOUS
  <2>2. b <= m /\ b \in Int
    BY <1>1, <1>3, <1>4, <2>1
  <2>3. m \notin W
    <3>1. m \in W => m < b
      OBVIOUS
    <3>. QED  BY <2>2, <3>1
  <2>. QED  BY <1>1, <1>3, <1>4, <2>3
<1>. QED  BY <1>1, <1>4, <1>5

\* m is the last of the executions of a block that comes after others: one more step of
\* the tally.
TakenLast(h, o, W, B, m) ==
  /\ h[W \cup B] = OneMore(m, h[W \cup (B \ {m})])
  /\ m \in Visible /\ trades[m].order = o
  /\ h[W \cup (B \ {m})] \in Tally
  /\ Prices[m] = trades[m].price /\ Prices[m] \in Nat
  /\ Cardinality(B \ {m}) \in Nat /\ Cardinality(B) = Cardinality(B \ {m}) + 1
  /\ SumFunctionOnSet(Prices, B) = Prices[m] + SumFunctionOnSet(Prices, B \ {m})
  /\ SumFunctionOnSet(Prices, B \ {m}) \in Int

\* All of W happened before all of C.
Precede(W, C) == \A w \in W : \A i \in C : w < i

\* The last execution of a block that comes after others is such a step.
LEMMA BlockStep ==
  ASSUME PositionTypeOK, SeenHappened, NEW h, TallySteps(h),
         NEW o \in Order, NEW W \in SUBSET Visible, NEW B \in SUBSET Seen(o), B # {},
         Precede(W, Seen(o))
  PROVE  \E m \in B : TakenLast(h, o, W, B, m)
<1>1. /\ IsFiniteSet(Visible) /\ Visible \subseteq Int /\ Seen(o) \subseteq Visible
      /\ IsFiniteSet(Seen(o)) /\ \A i \in Seen(o) : trades[i].order = o
  BY VisibleType, SeenType
<1>2. IsFiniteSet(W) /\ IsFiniteSet(B) /\ W \subseteq Int /\ B \subseteq Int
  BY <1>1, FS_Subset
<1>3. PICK m \in B : m = Max(W \cup B) /\ (W \cup B) \ {m} = W \cup (B \ {m})
  <2>1. \A w \in W : \A b \in B : w < b
    BY DEF Precede
  <2>2. PICK C : C = B /\ C # {}
    OBVIOUS
  <2>3. IsFiniteSet(W) /\ IsFiniteSet(C) /\ W \subseteq Int /\ C \subseteq Int /\ \A w \in W : \A b \in C : w < b
    BY <1>2, <2>1, <2>2
  <2>4. Max(W \cup C) \in C /\ (W \cup C) \ {Max(W \cup C)} = W \cup (C \ {Max(W \cup C)})
    BY <2>2, <2>3, LastOfBoth
  <2>. QED  BY <2>2, <2>4
<1>4. W \cup B \in SUBSET Visible /\ W \cup (B \ {m}) \in SUBSET Visible /\ W \cup B # {}
  BY <1>1
<1>5. h[W \cup B] = OneMore(m, h[W \cup (B \ {m})]) /\ h[W \cup (B \ {m})] \in Tally
  BY <1>3, <1>4 DEF TallySteps
<1>6. m \in Visible /\ trades[m].order = o
  BY <1>1
<1>7. \A i \in B : Prices[i] = trades[i].price /\ Prices[i] \in Nat
  <2>1. \A i \in Visible : i \in DOMAIN trades
    BY VisibleType
  <2>. QED  BY <2>1, <1>1, TradeType DEF Prices
<1>8. IsFiniteSet(B \ {m}) /\ Cardinality(B \ {m}) \in Nat /\ Cardinality(B) = Cardinality(B \ {m}) + 1
  <2>1. Cardinality(B \ {m}) = Cardinality(B) - 1 /\ IsFiniteSet(B \ {m})
    BY <1>2, FS_RemoveElement
  <2>2. Cardinality(B \ {m}) \in Nat /\ Cardinality(B) \in Nat
    BY <1>2, <2>1, FS_CardinalityType
  <2>. QED  BY <2>1, <2>2
<1>9. SumFunctionOnSet(Prices, B) = Prices[m] + SumFunctionOnSet(Prices, B \ {m})
  <2>1. \A i \in B : Prices[i] \in Int
    BY <1>7
  <2>. QED  BY <1>2, <2>1, SumRemove
<1>10. SumFunctionOnSet(Prices, B \ {m}) \in Int
  <2>1. \A i \in B \ {m} : Prices[i] \in Int
    BY <1>7
  <2>. QED  BY <1>8, <2>1, SumType
<1>. QED  BY <1>5, <1>6, <1>7, <1>8, <1>9, <1>10 DEF TakenLast

\* The executions of a purchase, after others.
LEMMA BuyBlock ==
  ASSUME PositionTypeOK, SeenHappened, NEW h, TallySteps(h),
         NEW o \in Order, SideOf[o] = "buy", NEW W \in SUBSET Visible,
         Precede(W, Seen(o))
  PROVE  /\ h[W \cup Seen(o)].qty = h[W].qty + seen[o]
         /\ h[W \cup Seen(o)].num = h[W].num + SumFunctionOnSet(Prices, Seen(o)) * h[W].den
         /\ h[W \cup Seen(o)].den = h[W].den
<1>. DEFINE T == {B \in SUBSET Seen(o) :
                    /\ h[W \cup B].qty = h[W].qty + Cardinality(B)
                    /\ h[W \cup B].num = h[W].num + SumFunctionOnSet(Prices, B) * h[W].den
                    /\ h[W \cup B].den = h[W].den}
<1>1. PICK q \in Int, n \in Int, d \in Int : q = h[W].qty /\ n = h[W].num /\ d = h[W].den
  BY DEF TallySteps, Tally
<1>2. ASSUME NEW B \in SUBSET Seen(o), \A C \in SUBSET B : C # B => C \in T
      PROVE  B \in T
  <2>1. CASE B = {}
    <3>1. Cardinality(B) = 0 /\ SumFunctionOnSet(Prices, B) = 0 /\ W \cup B = W
      BY <2>1, FS_EmptySet, SumEmpty
    <3>2. q = q + 0 /\ n = n + 0 * d
      OBVIOUS
    <3>. QED  BY <1>1, <3>1, <3>2
  <2>2. CASE B # {}
    <3>1. PICK m \in B : TakenLast(h, o, W, B, m)
      BY <2>2, BlockStep
    <3>2. PICK b \in Nat, p \in Nat, u \in Int :
            /\ b = Cardinality(B \ {m}) /\ Cardinality(B) = b + 1
            /\ p = Prices[m] /\ p = trades[m].price
            /\ u = SumFunctionOnSet(Prices, B \ {m}) /\ SumFunctionOnSet(Prices, B) = p + u
      BY <3>1 DEF TakenLast
    <3>3. PICK t \in Tally : t = h[W \cup (B \ {m})]
      BY <3>1 DEF TakenLast
    <3>4. h[W \cup B] = OneMore(m, t) /\ m \in Visible /\ trades[m].order = o
      BY <3>1, <3>3 DEF TakenLast
    <3>5. t.qty = q + b /\ t.num = n + u * d /\ t.den = d
      <4>1. B \ {m} \in T
        BY <1>2
      <4>. QED  BY <4>1, <1>1, <3>2, <3>3
    <3>6. /\ h[W \cup B].qty = t.qty + 1
          /\ h[W \cup B].num = t.num + p * t.den
          /\ h[W \cup B].den = t.den
      BY <3>4, <3>2, OneMoreStep
    <3>7. (n + u * d) + p * d = n + (p + u) * d
      OBVIOUS
    <3>8. h[W \cup B].qty = q + (b + 1)
      BY <3>5, <3>6
    <3>9. h[W \cup B].num = n + (p + u) * d /\ h[W \cup B].den = d
      BY <3>5, <3>6, <3>7
    <3>. QED  BY <1>1, <3>2, <3>8, <3>9
  <2>. QED  BY <2>1, <2>2
<1>3. Seen(o) \in T
  <2>1. IsFiniteSet(Seen(o))
    BY SeenType
  <2>. HIDE DEF T
  <2>. QED  BY <1>2, <2>1, SubsetInduction
<1>. QED  BY <1>3, SeenType

\* Selling one unit after another takes the basis down in proportion.
LEMMA InProportion ==
  ASSUME NEW n \in Int, NEW d \in Int, NEW N \in Int, NEW E \in Int, NEW q \in Int,
         n * E = (N * q) * d
  PROVE  (n * (q - 1)) * E = (N * (q - 1)) * (d * q)
<1>1. (n * (q - 1)) * E = (n * E) * (q - 1)
  OBVIOUS
<1>2. ((N * q) * d) * (q - 1) = (N * (q - 1)) * (d * q)
  OBVIOUS
<1>. QED  BY <1>1, <1>2

\* Products of positive numbers.
LEMMA PositiveProduct ==
  ASSUME NEW a \in Nat \ {0}, NEW b \in Nat \ {0}
  PROVE  a * b \in Nat \ {0}
OBVIOUS

\* The executions of a sale, after others.
LEMMA SellBlock ==
  ASSUME PositionTypeOK, SeenHappened, NEW h, TallySteps(h),
         NEW o \in Order, SideOf[o] = "sell", seen[o] > 0, NEW W \in SUBSET Visible,
         Precede(W, Seen(o)),
         h[W].den \in Nat \ {0}, seen[o] <= h[W].qty
  PROVE  /\ h[W \cup Seen(o)].qty = h[W].qty - seen[o]
         /\ h[W \cup Seen(o)].den \in Nat \ {0}
         /\ h[W].qty = seen[o] => h[W \cup Seen(o)].num = 0
         /\ h[W \cup Seen(o)].num * (h[W].den * h[W].qty)
              = (h[W].num * (h[W].qty - seen[o])) * h[W \cup Seen(o)].den
<1>1. PICK q \in Int, n \in Int, d \in Nat \ {0} : q = h[W].qty /\ n = h[W].num /\ d = h[W].den
  BY DEF TallySteps, Tally
<1>2. IsFiniteSet(Seen(o)) /\ Cardinality(Seen(o)) = seen[o] /\ seen[o] \in Nat /\ seen[o] <= q /\ q > 0
  BY <1>1, SeenType
<1>3. PICK e \in Int : e = d * q
  OBVIOUS
<1>. DEFINE After(B) == /\ h[W \cup B].qty = q - Cardinality(B)
                        /\ h[W \cup B].den \in Nat \ {0}
                        /\ Cardinality(B) = q => h[W \cup B].num = 0
                        /\ h[W \cup B].num * e = (n * (q - Cardinality(B))) * h[W \cup B].den
            T == {B \in SUBSET Seen(o) : After(B)}
<1>4. ASSUME NEW B \in SUBSET Seen(o), \A C \in SUBSET B : C # B => C \in T
      PROVE  B \in T
  <2>1. CASE B = {}
    <3>1. Cardinality(B) = 0 /\ W \cup B = W
      BY <2>1, FS_EmptySet
    <3>2. q - 0 = q /\ n * e = (n * q) * d
      <4>1. n * (d * q) = (n * q) * d
        OBVIOUS
      <4>. QED  BY <4>1, <1>3
    <3>3. h[W \cup B] = h[W] /\ Cardinality(B) # q
      <4>1. h[W \cup B] = h[W]
        BY <3>1
      <4>2. Cardinality(B) = 0 /\ q # 0
        BY <1>2, <3>1
      <4>. QED  BY <4>1, <4>2
    <3>4. n * e = (n * (q - Cardinality(B))) * d
      BY <3>1, <3>2
    <3>5. h[W \cup B].qty = q - Cardinality(B)
      BY <1>1, <3>1, <3>2, <3>3
    <3>. QED  BY <1>1, <3>3, <3>4, <3>5
  <2>2. CASE B # {}
    <3>1. PICK m \in B : TakenLast(h, o, W, B, m)
      BY <2>2, BlockStep
    <3>2. PICK b \in Nat : b = Cardinality(B \ {m}) /\ Cardinality(B) = b + 1
      BY <3>1 DEF TakenLast
    <3>3. PICK t \in Tally : t = h[W \cup (B \ {m})]
      BY <3>1 DEF TakenLast
    <3>4. h[W \cup B] = OneMore(m, t) /\ SideOf[trades[m].order] = "sell" /\ m \in Visible
      BY <3>1, <3>3 DEF TakenLast
    <3>5. PICK k \in Int, c \in Int, g \in Nat \ {0} :
            k = t.qty /\ c = t.num /\ g = t.den /\ k = q - b /\ c * e = (n * (q - b)) * g
      <4>1. After(B \ {m})
        <5>1. B \ {m} \in T
          BY <1>4
        <5>. QED  BY <5>1
      <4>2. t.qty \in Int /\ t.num \in Int
        BY DEF Tally
      <4>. QED  BY <4>1, <4>2, <3>2, <3>3
    <3>6. b + 1 <= q
      <4>1. Cardinality(B) <= Cardinality(Seen(o))
        BY <1>2, FS_Subset
      <4>. QED  BY <4>1, <1>2, <3>2
    <3>7. CASE k = 1
      <4>1. h[W \cup B] = EmptyTally
        BY <3>4, <3>5, <3>7, OneMoreStep
      <4>2. h[W \cup B].qty = 0 /\ h[W \cup B].num = 0 /\ h[W \cup B].den = 1
        BY <4>1 DEF EmptyTally
      <4>3. q - (b + 1) = 0
        BY <3>5, <3>7
      <4>4. 0 * e = (n * 0) * 1
        OBVIOUS
      <4>. QED  BY <4>2, <4>3, <4>4, <3>2
    <3>8. CASE k # 1
      <4>1. /\ h[W \cup B].qty = k - 1
            /\ h[W \cup B].num = c * (k - 1)
            /\ h[W \cup B].den = g * k
        <5>1. /\ OneMore(m, t).qty = t.qty - 1
              /\ OneMore(m, t).num = t.num * (t.qty - 1)
              /\ OneMore(m, t).den = t.den * t.qty
          BY <3>4, <3>5, <3>8, OneMoreStep
        <5>. QED  BY <5>1, <3>4, <3>5
      <4>2. k - 1 = q - (b + 1) /\ k \in Nat \ {0} /\ b + 1 # q
        BY <3>5, <3>6, <3>8
      <4>3. g * k \in Nat \ {0}
        BY <4>2, PositiveProduct
      <4>4. c * e = (n * k) * g
        BY <3>5
      <4>5. (c * (k - 1)) * e = (n * (k - 1)) * (g * k)
        BY <4>4, InProportion
      <4>6. h[W \cup B].num * e = (n * (q - (b + 1))) * h[W \cup B].den
        BY <4>1, <4>2, <4>5
      <4>. QED  BY <4>1, <4>2, <4>3, <4>6, <3>2
    <3>. QED  BY <3>7, <3>8
  <2>. QED  BY <2>1, <2>2
<1>5. Seen(o) \in T
  <2>. HIDE DEF T
  <2>. QED  BY <1>2, <1>4, SubsetInduction
<1>6. After(Seen(o))
  BY <1>5
<1>. QED  BY <1>1, <1>2, <1>3, <1>6

-------------------------------------------------------------------------------
\* Snapshots and executions in the same order.

\* As long as no order's executions lie between another's, an earlier snapshot counts only
\* earlier executions.
LEMMA EarlierIsBefore ==
  ASSUME PositionTypeOK, SeenHappened, Apart,
         NEW p \in Filled, NEW o \in Filled, p # o, Earlier(p, o)
  PROVE  \A i \in Seen(p) : \A j \in Seen(o) : i < j
<1>. SUFFICES ASSUME NEW i \in Seen(p), NEW j \in Seen(o) PROVE i < j
  OBVIOUS
<1>1. p \in Order /\ o \in Order
  BY DEF Filled
<1>2. /\ i \in Visible /\ j \in Visible /\ i \in Nat /\ j \in Nat
      /\ trades[i].order = p /\ trades[j].order = o
  BY <1>1, SeenType, VisibleType
<1>3. SUFFICES ASSUME ~ (i < j) PROVE FALSE
  OBVIOUS
<1>4. j < i
  BY <1>2, <1>3
<1>5. PICK k \in Seen(p), m \in Seen(o) :
        /\ k = Max(Seen(p)) /\ i <= k
        /\ m = Max(Seen(o))
  BY LatestIsLast
<1>6. k \in Visible /\ m \in Visible /\ k \in Nat /\ m \in Nat /\ trades[k].order = p /\ trades[m].order = o
  BY <1>1, SeenType, VisibleType
<1>7. m < i
  BY <1>2, <1>4 DEF Apart
<1>8. m < k
  BY <1>2, <1>5, <1>6, <1>7
<1>9. trades[m].at < trades[k].at
  BY <1>6, <1>8 DEF Apart
<1>10. FilledAt(p) = trades[k].at /\ FilledAt(o) = trades[m].at
  BY <1>5 DEF FilledAt
<1>11. FilledAt(p) \in Nat /\ FilledAt(o) \in Nat
  BY LatestIsLast
<1>. QED  BY <1>9, <1>10, <1>11 DEF Earlier

\* The snapshots of an initial part of the order they are applied in.
Initial(s) == \A o \in s : \A p \in Filled : Earlier(p, o) => p \in s

\* Under a sale, no more was sold up to it than bought before it: the position never holds
\* less than a sale takes out.
LEMMA SaleIsHeld ==
  ASSUME PositionInvariant, Apart, NEW s \in SUBSET Filled, Initial(s), NEW o \in s,
         SideOf[o] = "sell", \A p \in s \ {o} : Earlier(p, o)
  PROVE  seen[o] <= Total(s \ {o}, "buy") - Total(s \ {o}, "sell")
<1>. USE DEF PositionInvariant
<1>1. o \in Filled /\ o \in Order /\ s \subseteq Order
  BY DEF Filled
<1>2. PICK i \in Seen(o) : i = Max(Seen(o)) /\ \A j \in Seen(o) : j <= i
  BY <1>1, LatestIsLast
<1>3. i \in DOMAIN trades /\ i \in Visible /\ i \in Nat /\ trades[i].order = o
  BY <1>1, SeenType, VisibleType
<1>4. Cardinality(SoldUpTo(i)) <= Cardinality(BoughtBefore(i))
  BY <1>3 DEF SalesCovered
<1>. DEFINE sales == Of(s, "sell")
            purchases == Of(s \ {o}, "buy")
<1>5. sales \in SUBSET Order /\ purchases \in SUBSET Order
  BY <1>1 DEF Of
<1>6. VisibleOf(sales) \subseteq SoldUpTo(i)
  <2>. SUFFICES ASSUME NEW p \in sales, NEW j \in Seen(p) PROVE j \in SoldUpTo(i)
    BY DEF VisibleOf
  <2>1. p \in s /\ p \in Order /\ p \in Filled /\ SideOf[p] = "sell"
    BY <1>1 DEF Of
  <2>2. j \in DOMAIN trades /\ trades[j].order = p /\ j \in Nat
    BY <2>1, SeenType
  <2>3. j <= i
    <3>1. CASE p = o
      BY <3>1, <1>2
    <3>2. CASE p # o
      <4>1. \A a \in Seen(p) : \A b \in Seen(o) : a < b
        BY <3>2, <2>1, <1>1, EarlierIsBefore
      <4>2. j < i
        BY <4>1
      <4>. QED  BY <4>2, <2>2, <1>3
    <3>. QED  BY <3>1, <3>2
  <2>. QED  BY <2>1, <2>2, <2>3 DEF SoldUpTo
<1>7. BoughtBefore(i) \subseteq VisibleOf(purchases)
  <2>. SUFFICES ASSUME NEW j \in BoughtBefore(i) PROVE j \in VisibleOf(purchases)
    OBVIOUS
  <2>1. PICK p \in Order : /\ p = trades[j].order /\ SideOf[p] = "buy" /\ j \in Seen(p)
                           /\ j \in Visible /\ j \in Nat /\ j < i
    BY VisibleType DEF BoughtBefore
  <2>2. p # o
    BY <2>1
  <2>3. p \in Filled
    <3>1. IsFiniteSet(Seen(p)) /\ Cardinality(Seen(p)) = seen[p] /\ seen[p] \in Nat /\ Seen(p) # {}
      BY <2>1, SeenType
    <3>2. seen[p] # 0
      BY <3>1, FS_EmptySet
    <3>. QED  BY <3>1, <3>2 DEF Filled
  <2>4. \A k \in Seen(p) : k < i
    BY <2>1, <2>2, <1>3 DEF Apart
  <2>5. PICK k \in Seen(p) : k = Max(Seen(p))
    BY <2>3, LatestIsLast
  <2>6. k \in Visible /\ trades[k].order = p
    BY SeenType, VisibleType
  <2>7. trades[k].at < trades[i].at
    BY <2>2, <2>4, <2>6, <1>3 DEF Apart
  <2>8. Earlier(p, o)
    BY <2>5, <2>7, <1>2 DEF Earlier, FilledAt
  <2>9. p \in s \ {o}
    BY <2>2, <2>3, <2>8 DEF Initial
  <2>. QED  BY <2>1, <2>9 DEF VisibleOf, Of
<1>8. Cardinality(VisibleOf(sales)) <= Cardinality(VisibleOf(purchases))
  <2>1. IsFiniteSet(SoldUpTo(i)) /\ IsFiniteSet(VisibleOf(purchases)) /\ IsFiniteSet(VisibleOf(sales))
    <3>1. SoldUpTo(i) \subseteq DOMAIN trades /\ IsFiniteSet(DOMAIN trades)
      BY TradeType DEF SoldUpTo
    <3>2. IsFiniteSet(SoldUpTo(i))
      BY <3>1, FS_Subset
    <3>3. IsFiniteSet(VisibleOf(purchases)) /\ IsFiniteSet(VisibleOf(sales))
      BY <1>5, VisibleCount
    <3>. QED  BY <3>2, <3>3
  <2>2. IsFiniteSet(BoughtBefore(i))
    BY <1>7, <2>1, FS_Subset
  <2>3. /\ Cardinality(VisibleOf(sales)) <= Cardinality(SoldUpTo(i))
        /\ Cardinality(BoughtBefore(i)) <= Cardinality(VisibleOf(purchases))
    BY <1>6, <1>7, <2>1, FS_Subset
  <2>4. /\ Cardinality(VisibleOf(sales)) \in Nat /\ Cardinality(SoldUpTo(i)) \in Nat
        /\ Cardinality(BoughtBefore(i)) \in Nat /\ Cardinality(VisibleOf(purchases)) \in Nat
    BY <2>1, <2>2, FS_CardinalityType
  <2>. QED  BY <2>3, <2>4, <1>4
<1>9. /\ Total(s, "sell") = Cardinality(VisibleOf(sales))
      /\ Total(s \ {o}, "buy") = Cardinality(VisibleOf(purchases))
  BY <1>5, VisibleCount DEF Total
<1>10. /\ Total(s, "sell") \in Int /\ Total(s \ {o}, "sell") \in Int /\ seen[o] \in Nat
       /\ Total(s, "sell") = Total(s \ {o}, "sell") + seen[o]
  <2>1. /\ Total(s, "sell") \in Int /\ Total(s \ {o}, "sell") \in Int
        /\ Total(s, "sell") = Total(s \ {o}, "sell") + (IF SideOf[o] = "sell" THEN seen[o] ELSE 0)
    BY <1>1, TotalStep
  <2>. QED  BY <2>1, <1>1, SeenType
<1>11. Total(s \ {o}, "buy") \in Int
  <2>1. IsFiniteSet(VisibleOf(purchases))
    BY <1>5, VisibleCount
  <2>. QED  BY <2>1, <1>9, FS_CardinalityType
<1>. QED  BY <1>8, <1>9, <1>10, <1>11

\* Both computations hold the same quantity at the same cost.
SameBasis(slot, t) ==
  /\ slot.net = slot.qty /\ slot.qty = t.qty
  /\ t.den \in Nat \ {0}
  /\ slot.cost * t.den = t.num * slot.over
  /\ slot.qty = 0 => slot.cost = 0 /\ t.num = 0

\* A purchase: the same cost added to both sides.
LEMMA BuyBasis ==
  ASSUME NEW c \in Int, NEW n \in Int, NEW d \in Int, NEW v \in Int, NEW u \in Int, c * d = n * v
  PROVE  (c + u * v) * d = (n + u * d) * v
<1>1. (c + u * v) * d = c * d + (u * v) * d
  OBVIOUS
<1>2. (n + u * d) * v = n * v + (u * v) * d
  OBVIOUS
<1>. QED  BY <1>1, <1>2

\* Dividing both sides by the same.
LEMMA Cancel ==
  ASSUME NEW a \in Int, NEW b \in Int, NEW d \in Nat \ {0}, a * d = b * d
  PROVE  a = b
OBVIOUS

\* A sale: both sides in proportion.
LEMMA SellBasis ==
  ASSUME NEW c \in Int, NEW N \in Int, NEW D \in Nat \ {0}, NEW v \in Int, NEW Q \in Int,
         NEW l \in Int, NEW n \in Int, NEW d \in Int,
         c * D = N * v, n * (D * Q) = (N * l) * d
  PROVE  (c * l) * d = n * (v * Q)
<1>1. ((c * l) * d) * D = (c * D) * (l * d)
  OBVIOUS
<1>2. (N * v) * (l * d) = ((N * l) * d) * v
  OBVIOUS
<1>3. (n * (D * Q)) * v = (n * (v * Q)) * D
  OBVIOUS
<1>4. ((c * l) * d) * D = (n * (v * Q)) * D
  BY <1>1, <1>2, <1>3
<1>5. (c * l) * d \in Int /\ n * (v * Q) \in Int
  OBVIOUS
<1>. QED  BY <1>4, <1>5, Cancel

\* After an initial part of the snapshots, the position has the basis that their executions
\* give one by one.
LEMMA SameBasisOfFolds ==
  ASSUME PositionInvariant, Apart, NEW g, PositionSteps(g), NEW h, TallySteps(h)
  PROVE  \A s \in SUBSET Filled : Initial(s) => SameBasis(g[s], h[VisibleOf(s)])
<1>. USE DEF PositionInvariant
<1>. DEFINE T == {s \in SUBSET Filled : Initial(s) => SameBasis(g[s], h[VisibleOf(s)])}
<1>1. IsFiniteSet(Filled) /\ Filled \subseteq Order
  BY PositionAssumption, FS_Subset DEF Filled
<1>2. ASSUME NEW s \in SUBSET Filled, \A r \in SUBSET s : r # s => r \in T
      PROVE  s \in T
  <2>1. CASE s = {}
    <3>1. VisibleOf({}) = {}
      BY DEF VisibleOf
    <3>2. g[s] = EmptySlot /\ h[VisibleOf(s)] = EmptyTally
      BY <2>1, <3>1 DEF PositionSteps, TallySteps
    <3>3. SameBasis(EmptySlot, EmptyTally)
      BY DEF SameBasis, EmptySlot, EmptyTally
    <3>. QED  BY <3>2, <3>3
  <2>2. CASE s # {} /\ Initial(s)
    <3>1. PICK o \in s : o = Latest(s) /\ \A p \in s \ {o} : Earlier(p, o)
      BY <2>2, LatestIsLast
    <3>2. PICK r \in SUBSET Filled : r = s \ {o}
      OBVIOUS
    <3>3. o \in Filled /\ o \in Order /\ seen[o] \in Nat /\ seen[o] > 0 /\ SideOf[o] \in {"buy", "sell"}
      BY <1>1, PositionAssumption DEF Filled, PositionTypeOK
    <3>4. Initial(r)
      <4>. SUFFICES ASSUME NEW q \in r, NEW p \in Filled, Earlier(p, q) PROVE p \in r
        BY DEF Initial
      <4>1. p \in s
        BY <2>2, <3>2 DEF Initial
      <4>2. p # o
        <5>1. Earlier(q, o)
          BY <3>1, <3>2
        <5>2. FilledAt(q) \in Nat /\ FilledAt(o) \in Nat /\ q \in Nat /\ o \in Nat
          BY <3>3, LatestIsLast
        <5>3. ~ Earlier(o, q)
          BY <5>1, <5>2 DEF Earlier
        <5>. QED  BY <5>3
      <4>. QED  BY <4>1, <4>2, <3>2
    <3>5. PICK W \in SUBSET Visible : W = VisibleOf(r) /\ VisibleOf(s) = W \cup Seen(o)
      <4>1. VisibleOf(s) = VisibleOf(r) \cup Seen(o)
        BY <3>2 DEF VisibleOf
      <4>2. r \in SUBSET Order
        BY <1>1
      <4>. QED  BY <4>1, <4>2, VisibleCount
    <3>6. Precede(W, Seen(o))
      <4>. SUFFICES ASSUME NEW p \in r PROVE \A i \in Seen(p) : \A j \in Seen(o) : i < j
        BY <3>5 DEF Precede, VisibleOf
      <4>. QED  BY <3>1, <3>2, <3>3, EarlierIsBefore
    <3>7. PICK slot \in Slot, t \in Tally : slot = g[r] /\ t = h[W]
      BY DEF PositionSteps, TallySteps
    <3>8. SameBasis(slot, t)
      <4>1. r \in T
        BY <1>2, <3>2
      <4>. QED  BY <4>1, <3>4, <3>5, <3>7
    <3>9. PICK q \in Nat, c \in Nat, v \in Nat \ {0}, n \in Int, d \in Nat \ {0} :
            /\ slot.net = q /\ slot.qty = q /\ slot.cost = c /\ slot.over = v
            /\ t.qty = q /\ t.num = n /\ t.den = d
            /\ c * d = n * v /\ (q = 0 => c = 0 /\ n = 0)
      BY <3>8 DEF SameBasis, Slot, Tally
    <3>10. PICK f \in Fill : /\ f = Snapshot(o) /\ f.side = SideOf[o] /\ f.qty = seen[o]
                             /\ f.cost = SumFunctionOnSet(Prices, Seen(o))
      BY <3>3, SnapshotType
    <3>11. g[s] = Applies(f, slot)
      BY <2>2, <3>1, <3>2, <3>7, <3>10 DEF PositionSteps
    <3>12. PICK k \in Nat \ {0}, u \in Nat : k = seen[o] /\ k = f.qty /\ u = f.cost
      BY <3>3, <3>10 DEF Fill
    <3>13. CASE SideOf[o] = "buy"
      <4>1. g[s].net = q + k /\ g[s].qty = q + k /\ g[s].cost = c + u * v /\ g[s].over = v
        BY <3>9, <3>10, <3>11, <3>12, <3>13, BuysStep DEF Applies
      <4>2. PICK z \in Tally : z = h[W \cup Seen(o)] /\ z.qty = q + k /\ z.num = n + u * d /\ z.den = d
        <5>1. /\ h[W \cup Seen(o)].qty = h[W].qty + seen[o]
              /\ h[W \cup Seen(o)].num = h[W].num + SumFunctionOnSet(Prices, Seen(o)) * h[W].den
              /\ h[W \cup Seen(o)].den = h[W].den
          BY <3>3, <3>6, <3>13, BuyBlock
        <5>2. W \cup Seen(o) \in SUBSET Visible
          BY <3>3, VisibleType
        <5>3. h[W \cup Seen(o)] \in Tally
          BY <5>2 DEF TallySteps
        <5>. QED  BY <5>1, <5>3, <3>7, <3>9, <3>10, <3>12
      <4>3. (c + u * v) * d = (n + u * d) * v
        BY <3>9, BuyBasis
      <4>4. q + k # 0
        OBVIOUS
      <4>5. SameBasis(g[s], z)
        BY <4>1, <4>2, <4>3, <4>4 DEF SameBasis
      <4>. QED  BY <4>2, <4>5, <3>5
    <3>14. CASE SideOf[o] = "sell"
      <4>1. k <= q
        <5>1. seen[o] <= Total(s \ {o}, "buy") - Total(s \ {o}, "sell")
          BY <2>2, <3>1, <3>14, SaleIsHeld
        <5>2. \A e \in SUBSET Filled : g[e].net = Total(e, "buy") - Total(e, "sell")
          BY NetOfFold
        <5>3. g[r].net = Total(s \ {o}, "buy") - Total(s \ {o}, "sell")
          BY <5>2, <3>2
        <5>. QED  BY <5>1, <5>3, <3>7, <3>9, <3>12
      <4>2. PICK z \in Tally, m \in Int, e \in Nat \ {0} :
              /\ z = h[W \cup Seen(o)] /\ z.qty = q - k /\ z.num = m /\ z.den = e
              /\ q = k => m = 0
              /\ m * (d * q) = (n * (q - k)) * e
        <5>1. h[W].den \in Nat \ {0} /\ seen[o] <= h[W].qty /\ seen[o] > 0
          BY <4>1, <3>3, <3>7, <3>9, <3>12
        <5>2. /\ h[W \cup Seen(o)].qty = h[W].qty - seen[o]
              /\ h[W \cup Seen(o)].den \in Nat \ {0}
              /\ h[W].qty = seen[o] => h[W \cup Seen(o)].num = 0
              /\ h[W \cup Seen(o)].num * (h[W].den * h[W].qty)
                   = (h[W].num * (h[W].qty - seen[o])) * h[W \cup Seen(o)].den
          BY <5>1, <3>3, <3>6, <3>14, SellBlock
        <5>3. W \cup Seen(o) \in SUBSET Visible
          BY <3>3, VisibleType
        <5>4. h[W \cup Seen(o)] \in Tally
          BY <5>3 DEF TallySteps
        <5>5. h[W \cup Seen(o)].num \in Int
          BY <5>4 DEF Tally
        <5>. QED  BY <5>2, <5>4, <5>5, <3>7, <3>9, <3>12
      <4>3. CASE q = k
        <5>1. g[s].net = 0 /\ g[s].qty = 0 /\ g[s].cost = 0 /\ g[s].over = 1
          BY <4>3, <3>9, <3>10, <3>11, <3>12, <3>14, SellsStep DEF Applies
        <5>2. z.qty = 0 /\ z.num = 0 /\ 0 * e = 0 * 1
          BY <4>2, <4>3
        <5>3. SameBasis(g[s], z)
          BY <5>1, <5>2, <4>2 DEF SameBasis
        <5>. QED  BY <5>3, <4>2, <3>5
      <4>4. CASE q # k
        <5>1. q - k > 0
          BY <4>1, <4>4
        <5>2. /\ g[s].net = q - k /\ g[s].qty = q - k
              /\ g[s].cost = c * (q - k) /\ g[s].over = v * q
          BY <5>1, <3>9, <3>10, <3>11, <3>12, <3>14, SellsStep DEF Applies
        <5>3. (c * (q - k)) * e = m * (v * q)
          BY <4>2, <3>9, SellBasis
        <5>4. SameBasis(g[s], z)
          BY <5>1, <5>2, <5>3, <4>2 DEF SameBasis
        <5>. QED  BY <5>4, <4>2, <3>5
      <4>. QED  BY <4>3, <4>4
    <3>. QED  BY <3>3, <3>13, <3>14
  <2>. QED  BY <2>1, <2>2
<1>3. \A s \in SUBSET Filled : s \in T
  <2>. HIDE DEF T
  <2>. QED  BY <1>1, <1>2, SubsetInduction
<1>. QED  BY <1>3

\* The average of snapshots applied in order is that of the executions one by one.
THEOREM PositionAverageIsMoving == PositionSpec => []AverageIsMoving
<1>1. PositionInvariant => AverageIsMoving
  <2>. SUFFICES ASSUME PositionInvariant, Held, Apart
                PROVE  /\ Position.net = OneByOne.qty
                       /\ Average.num * OneByOne.den * OneByOne.qty = OneByOne.num * Average.den
    BY DEF AverageIsMoving
  <2>1. PositionTypeOK /\ SeenHappened
    BY DEF PositionInvariant
  <2>2. PICK g : Position = g[Filled] /\ PositionSteps(g)
    BY <2>1, PositionIsFold
  <2>3. PICK h : OneByOne = h[Visible] /\ TallySteps(h)
    BY <2>1, OneByOneIsFold
  <2>4. VisibleOf(Filled) = Visible
    <3>1. ASSUME NEW o \in Order, o \notin Filled PROVE Seen(o) = {}
      <4>1. IsFiniteSet(Seen(o)) /\ Cardinality(Seen(o)) = seen[o] /\ seen[o] \in Nat
        BY <2>1, SeenType
      <4>2. seen[o] = 0
        BY <4>1, <3>1 DEF Filled
      <4>. QED  BY <4>1, <4>2, FS_EmptySet
    <3>2. Filled \subseteq Order
      BY DEF Filled
    <3>. QED  BY <3>1, <3>2 DEF VisibleOf, Visible
  <2>5. SameBasis(Position, OneByOne)
    <3>1. Initial(Filled)
      BY DEF Initial
    <3>2. \A s \in SUBSET Filled : Initial(s) => SameBasis(g[s], h[VisibleOf(s)])
      BY <2>2, <2>3, SameBasisOfFolds
    <3>3. SameBasis(g[Filled], h[VisibleOf(Filled)])
      BY <3>1, <3>2
    <3>. QED  BY <3>3, <2>2, <2>3, <2>4
  <2>6. PICK c \in Nat, v \in Nat \ {0}, q \in Nat, n \in Int, d \in Nat \ {0} :
          /\ Position.cost = c /\ Position.over = v /\ Position.qty = q /\ Position.net = q
          /\ OneByOne.qty = q /\ OneByOne.num = n /\ OneByOne.den = d
          /\ c * d = n * v
    <3>1. Position \in Slot
      BY <2>2 DEF PositionSteps
    <3>2. OneByOne \in Tally
      BY <2>3 DEF TallySteps
    <3>. QED  BY <3>1, <3>2, <2>5 DEF SameBasis, Slot, Tally
  <2>7. c * d * q = n * (v * q)
    <3>1. c * d * q = (n * v) * q
      BY <2>6
    <3>2. (n * v) * q = n * (v * q)
      OBVIOUS
    <3>. QED  BY <3>1, <3>2
  <2>. QED  BY <2>6, <2>7 DEF Average
<1>. QED  BY <1>1, PositionInvariance, PTL
===============================================================================
