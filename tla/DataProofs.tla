------------------------------ MODULE DataProofs ------------------------------
(***************************************************************************)
(* What the other proofs need of data: the laws of Total for natural       *)
(* amounts over finite sets, and induction.  The library's induction rules *)
(* take a predicate; here a set stands for it, and the rules rest on the   *)
(* well-foundedness of < on the naturals, which needs none.                *)
(***************************************************************************)
EXTENDS Totals, FiniteSetTheorems, WellFoundedInduction, TLAPS

\* The units of one item.
Own(amount, x) == {x} \X (1 .. amount[x])

\* An item has as many units as its amount says.
LEMMA OwnUnits ==
    ASSUME NEW amount, NEW x, amount[x] \in Nat
    PROVE  /\ IsFiniteSet(Own(amount, x))
           /\ Cardinality(Own(amount, x)) = amount[x]
<1>1. IsFiniteSet({x}) /\ Cardinality({x}) = 1
    BY FS_Singleton
<1>2. /\ IsFiniteSet(1 .. amount[x])
      /\ Cardinality(1 .. amount[x]) = amount[x]
    BY SMTT(40), FS_Interval
<1>3. /\ IsFiniteSet({x} \X (1 .. amount[x]))
      /\ Cardinality({x} \X (1 .. amount[x])) = 1 * amount[x]
    BY ZenonT(60), <1>1, <1>2, FS_Product
<1> QED
    BY <1>3 DEF Own

\* Finitely many items have finitely many units.
LEMMA UnitsFinite ==
    ASSUME NEW R, IsFiniteSet(R), NEW amount, \A x \in R : amount[x] \in Nat
    PROVE  IsFiniteSet(Units(amount, R))
<1> DEFINE owned == {Own(amount, x) : x \in R}
           own == [x \in R |-> Own(amount, x)]
<1>1. own \in Surjection(R, owned)
    BY DEF Surjection
<1>2. IsFiniteSet(owned)
    BY <1>1, FS_Surjection
<1>3. \A T \in owned : IsFiniteSet(T)
    BY OwnUnits
<1>4. IsFiniteSet(UNION owned)
    BY <1>2, <1>3, FS_UNION
<1> QED
    BY <1>4 DEF Units, Own

\* A total is a natural number.
LEMMA TotalType ==
    ASSUME NEW R, IsFiniteSet(R), NEW amount, \A x \in R : amount[x] \in Nat
    PROVE  Total(amount, R) \in Nat
BY UnitsFinite, FS_CardinalityType DEF Total

\* Nothing adds up to zero.
LEMMA TotalOfNone ==
    ASSUME NEW amount
    PROVE  Total(amount, {}) = 0
BY FS_EmptySet DEF Total, Units

\* One item adds up to its amount.
LEMMA TotalOfOne ==
    ASSUME NEW amount, NEW x, amount[x] \in Nat
    PROVE  Total(amount, {x}) = amount[x]
<1>1. Units(amount, {x}) = Own(amount, x)
    BY DEF Units, Own
<1> QED
    BY <1>1, OwnUnits DEF Total

\* Disjoint sets of items add up.
LEMMA TotalOfUnion ==
    ASSUME NEW R, IsFiniteSet(R), NEW S, IsFiniteSet(S), R \cap S = {},
           NEW amount, \A x \in R \cup S : amount[x] \in Nat
    PROVE  Total(amount, R \cup S) = Total(amount, R) + Total(amount, S)
<1>1. Units(amount, R \cup S) = Units(amount, R) \cup Units(amount, S)
    BY DEF Units
<1>2. Units(amount, R) \cap Units(amount, S) = {}
    BY DEF Units
<1>3. IsFiniteSet(Units(amount, R)) /\ IsFiniteSet(Units(amount, S))
    BY UnitsFinite
<1>4. Cardinality(Units(amount, R) \cap Units(amount, S)) = 0
    BY <1>2, FS_EmptySet
<1>5. Cardinality(Units(amount, R)) \in Nat /\ Cardinality(Units(amount, S)) \in Nat
    BY <1>3, FS_CardinalityType
<1> DEFINE U == Units(amount, R)
           V == Units(amount, S)
<1>6. Cardinality(U \cup V) = Cardinality(U) + Cardinality(V) - Cardinality(U \cap V)
    BY <1>3, FS_Union
<1> HIDE DEF U, V
<1>7. Cardinality(U \cup V) = Cardinality(U) + Cardinality(V)
    BY <1>4, <1>5, <1>6 DEF U, V
<1> QED
    BY <1>1, <1>7 DEF U, V, Total

\* A new item adds its amount.
LEMMA TotalWith ==
    ASSUME NEW R, IsFiniteSet(R), NEW x, x \notin R,
           NEW amount, \A y \in R \cup {x} : amount[y] \in Nat
    PROVE  Total(amount, R \cup {x}) = Total(amount, R) + amount[x]
<1>1. IsFiniteSet({x}) /\ R \cap {x} = {}
    BY FS_Singleton
<1>2. Total(amount, R \cup {x}) = Total(amount, R) + Total(amount, {x})
    BY <1>1, TotalOfUnion
<1>3. Total(amount, {x}) = amount[x]
    BY TotalOfOne
<1> QED
    BY <1>2, <1>3

\* An item that is taken away takes its amount.
LEMMA TotalWithout ==
    ASSUME NEW R, IsFiniteSet(R), NEW x \in R,
           NEW amount, \A y \in R : amount[y] \in Nat
    PROVE  /\ Total(amount, R \ {x}) = Total(amount, R) - amount[x]
           /\ amount[x] <= Total(amount, R)
<1>1. IsFiniteSet(R \ {x})
    BY FS_RemoveElement
<1>2. R = (R \ {x}) \cup {x}
    OBVIOUS
<1>3. Total(amount, (R \ {x}) \cup {x}) = Total(amount, R \ {x}) + amount[x]
    BY <1>1, TotalWith
<1>4. Total(amount, R) = Total(amount, R \ {x}) + amount[x]
    BY <1>2, <1>3
<1>5. Total(amount, R \ {x}) \in Nat /\ amount[x] \in Nat
    BY <1>1, TotalType
<1> QED
    BY <1>4, <1>5

\* Only the amounts of the items themselves matter.
LEMMA TotalOfSame ==
    ASSUME NEW R, NEW f, NEW g, \A x \in R : f[x] = g[x]
    PROVE  Total(f, R) = Total(g, R)
<1>1. Units(f, R) = Units(g, R)
    BY DEF Units
<1> QED
    BY <1>1 DEF Total

-----------------------------------------------------------------------------
\* Any natural numbers have a least one.
LEMMA LeastNumber ==
    ASSUME NEW S, S \subseteq Nat, S # {}
    PROVE  \E x \in S : \A y \in S : x <= y
<1> DEFINE R == OpToRel(<, Nat)
<1>1. IsWellFoundedOn(R, Nat)
    BY NatLessThanWellFounded
<1>2. \A x, y \in Nat : <<x, y>> \in R <=> x < y
    BY DEF OpToRel
<1> HIDE DEF R
<1>3. PICK x \in S : \A y \in S : ~ (<<y, x>> \in R)
    BY <1>1, WFMin
<1>4. \A y \in S : ~(y < x)
    BY <1>2, <1>3
<1>5. \A y \in S : x <= y
    BY <1>4
<1> QED
    BY <1>5

\* A set that has 0 and, with a number, the next one, up to N, has all up to N.
LEMMA Induction ==
    ASSUME NEW N \in Nat, NEW S, 0 \in S, \A n \in 1 .. N : n - 1 \in S => n \in S
    PROVE  0 .. N \subseteq S
<1> DEFINE missing == (0 .. N) \ S
<1> SUFFICES ASSUME missing # {}
             PROVE  FALSE
    OBVIOUS
<1>1. missing \subseteq Nat
    OBVIOUS
<1>2. PICK x \in missing : \A y \in missing : x <= y
    <2> HIDE DEF missing
    <2> QED
        BY <1>1, LeastNumber
<1>3. x \in 1 .. N /\ x - 1 \in 0 .. N /\ ~(x <= x - 1)
    BY <1>2
<1>4. x - 1 \in S
    BY <1>2, <1>3
<1> QED
    BY <1>2, <1>3, <1>4

\* One step for each number up to N, and a value carried through them.
Steps(N, X) == [1 .. N -> [X -> X]]
Carries(f, N, X, first, step) ==
    /\ f \in [0 .. N -> X]
    /\ f[0] = first
    /\ \A n \in 1 .. N : f[n] = step[n][f[n - 1]]

\* A value can be carried through N steps.
LEMMA Iteration ==
    ASSUME NEW N \in Nat, NEW X, NEW first \in X, NEW step \in Steps(N, X)
    PROVE  \E f : Carries(f, N, X, first, step)
<1> USE DEF Steps
<1> DEFINE Runs(n) == \E f \in [0 .. n -> X] :
                          f[0] = first /\ \A k \in 1 .. n : f[k] = step[k][f[k - 1]]
           S == {n \in 0 .. N : Runs(n)}
<1>1. 0 \in S
    <2> DEFINE f == [k \in 0 .. 0 |-> first]
    <2>1. f \in [0 .. 0 -> X] /\ f[0] = first
        OBVIOUS
    <2> HIDE DEF f
    <2>2. Runs(0)
        BY <2>1
    <2> HIDE DEF Runs
    <2> QED
        BY <2>2
<1>2. ASSUME NEW n \in 1 .. N, n - 1 \in S
      PROVE  n \in S
    <2>1. PICK f \in [0 .. n - 1 -> X] :
              f[0] = first /\ \A k \in 1 .. n - 1 : f[k] = step[k][f[k - 1]]
        BY <1>2
    <2> DEFINE g == [k \in 0 .. n |-> IF k = n THEN step[n][f[n - 1]] ELSE f[k]]
    <2>2. f[n - 1] \in X /\ step[n][f[n - 1]] \in X
        <3>1. n - 1 \in 0 .. n - 1
            OBVIOUS
        <3> QED
            BY <3>1
    <2>3. g \in [0 .. n -> X]
        <3> SUFFICES ASSUME NEW k \in 0 .. n
                     PROVE  (IF k = n THEN step[n][f[n - 1]] ELSE f[k]) \in X
            OBVIOUS
        <3>1. k # n => k \in 0 .. n - 1
            OBVIOUS
        <3> QED
            BY <2>2, <3>1
    <2>4. g[0] = first
        <3>1. 0 \in 0 .. n /\ 0 # n
            OBVIOUS
        <3> QED
            BY <2>1, <3>1
    <2>5. \A k \in 1 .. n : g[k] = step[k][g[k - 1]]
        <3> SUFFICES ASSUME NEW k \in 1 .. n
                     PROVE  g[k] = step[k][g[k - 1]]
            OBVIOUS
        <3>1. k - 1 \in 0 .. n /\ k - 1 # n /\ k \in 0 .. n
            OBVIOUS
        <3>2. g[k - 1] = f[k - 1]
            BY <3>1
        <3>3. CASE k = n
            BY <3>1, <3>2, <3>3
        <3>4. CASE k # n
            <4>1. k \in 1 .. n - 1
                BY <3>4
            <4>2. g[k] = f[k]
                BY <3>1, <3>4
            <4> QED
                BY <2>1, <3>2, <4>1, <4>2
        <3> QED
            BY <3>3, <3>4
    <2> HIDE DEF g
    <2>6. Runs(n)
        BY <2>3, <2>4, <2>5
    <2> HIDE DEF Runs
    <2> QED
        BY <2>6
<1> HIDE DEF S
<1>3. 0 .. N \subseteq S
    BY <1>1, <1>2, Induction
<1>4. N \in S
    BY <1>3
<1> QED
    BY <1>4 DEF S, Carries
=============================================================================
