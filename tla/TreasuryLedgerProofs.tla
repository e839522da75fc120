------------------------ MODULE TreasuryLedgerProofs ------------------------
(***************************************************************************)
(* What the abstract ledger keeps true, for any treasuries, references and *)
(* instructions: balances are what the journals say, and journals are      *)
(* final.  Every specification that posts as TreasuryLedger does inherits  *)
(* it.                                                                     *)
(*                                                                         *)
(* First, the sums of the money models: they are folds over finite sets    *)
(* (SumFunctionOnSet of Functions.tla).  The sum over {} is 0, a new       *)
(* element adds its value, the sum depends only on the values, and fewer   *)
(* non-negative values sum to less.  The induction is over the size of the *)
(* set, and is done with sets of numbers and of sets instead of            *)
(* predicates, so that every step is first-order.                          *)
(***************************************************************************)
EXTENDS TreasuryLedger, FiniteSetTheorems, WellFoundedInduction, TLAPS

\* A set that has 0 and the successor of each of its numbers has every number.
LEMMA EveryNumber ==
    ASSUME NEW S, 0 \in S, \A n \in Nat : n \in S => n + 1 \in S
    PROVE  Nat \subseteq S
<1> DEFINE T == Nat \ S
<1> SUFFICES ASSUME T # {} PROVE FALSE
    OBVIOUS
<1>1. PICK x \in T : \A y \in T : ~ (<<y, x>> \in OpToRel(<, Nat))
    <2>1. T \subseteq Nat
        OBVIOUS
    <2> HIDE DEF T
    <2>2. QED
        BY <2>1, NatLessThanWellFounded, WFMin
<1>2. x \in Nat /\ x # 0 /\ x - 1 \in Nat
    OBVIOUS
<1>3. <<x - 1, x>> \in OpToRel(<, Nat)
    BY <1>2 DEF OpToRel
<1>4. x - 1 \in S
    BY <1>1, <1>2, <1>3
<1>5. x \in S
    BY <1>2, <1>4
<1>6. QED
    BY <1>5

\* A property of subsets that {} has and that one more element keeps.
LEMMA EveryFiniteSet ==
    ASSUME NEW Base, IsFiniteSet(Base), NEW P, {} \in P,
           \A T \in SUBSET Base : \A x \in Base \ T : T \in P => T \cup {x} \in P
    PROVE  Base \in P
<1> DEFINE N == {n \in Nat : \A T \in SUBSET Base : Cardinality(T) = n => T \in P}
<1>1. \A T \in SUBSET Base : IsFiniteSet(T)
    BY FS_Subset
<1>2. 0 \in N
    BY <1>1, FS_EmptySet
<1>3. ASSUME NEW n \in Nat, n \in N PROVE n + 1 \in N
    <2> SUFFICES ASSUME NEW T \in SUBSET Base, Cardinality(T) = n + 1 PROVE T \in P
        OBVIOUS
    <2>1. PICK x : x \in T
        <3>1. Cardinality(T) # 0
            OBVIOUS
        <3>2. T # {}
            BY <3>1, FS_EmptySet
        <3>3. QED
            BY <3>2
    <2>2. Cardinality(T \ {x}) = Cardinality(T) - 1
        BY <1>1, <2>1, FS_RemoveElement
    <2>3. Cardinality(T \ {x}) = n
        BY <2>2
    <2>4. T \ {x} \in P
        <3>1. T \ {x} \in SUBSET Base
            OBVIOUS
        <3>2. QED
            BY <1>3, <2>3, <3>1
    <2>5. (T \ {x}) \cup {x} = T /\ x \in Base \ (T \ {x}) /\ T \ {x} \in SUBSET Base
        BY <2>1
    <2>6. QED
        BY <2>4, <2>5
<1>4. Nat \subseteq N
    <2> HIDE DEF N
    <2>1. QED
        BY <1>2, <1>3, EveryNumber
<1>5. Cardinality(Base) \in Nat
    BY FS_CardinalityType
<1>6. QED
    BY <1>4, <1>5

-----------------------------------------------------------------------------
Picked(s) == CHOOSE x \in s : TRUE

\* The fold that computes the sums of f over the subsets of S.
IsFold(g, f, S) ==
    g = [s \in SUBSET S |-> IF s = {} THEN 0 ELSE f[Picked(s)] + g[s \ {Picked(s)}]]

\* The sum of the community modules is such a fold, chosen.
LEMMA SumIsFold ==
    ASSUME NEW f, NEW S
    PROVE  SumFunctionOnSet(f, S) = (CHOOSE g : IsFold(g, f, S))[S]
BY DEF SumFunctionOnSet, FoldFunctionOnSet, MapThenFoldSet, IsFold, Picked

\* Something is picked from every set that has an element.
LEMMA PickedIsElement ==
    ASSUME NEW s, s # {}
    PROVE  Picked(s) \in s
BY DEF Picked

\* Every finite set has that fold: it is built one size of subset at a time.
LEMMA FoldExists ==
    ASSUME NEW f, NEW S, IsFiniteSet(S)
    PROVE  \E g : IsFold(g, f, S)
<1> DEFINE UpTo(n) == {s \in SUBSET S : Cardinality(s) <= n}
           Body(g, s) == IF s = {} THEN 0 ELSE f[Picked(s)] + g[s \ {Picked(s)}]
           N == {n \in Nat : \E g : g = [s \in UpTo(n) |-> Body(g, s)]}
<1>1. \A s \in SUBSET S : IsFiniteSet(s) /\ Cardinality(s) \in Nat
    BY FS_Subset, FS_CardinalityType
<1>2. 0 \in N
    <2> DEFINE g == [s \in UpTo(0) |-> 0]
    <2>1. \A s \in UpTo(0) : s = {}
        BY <1>1, FS_EmptySet
    <2>2. g = [s \in UpTo(0) |-> Body(g, s)]
        BY <2>1
    <2> HIDE DEF g, UpTo, Body
    <2>3. QED
        BY <2>2
<1>3. ASSUME NEW n \in Nat, n \in N PROVE n + 1 \in N
    <2>1. PICK g : g = [s \in UpTo(n) |-> Body(g, s)]
        BY <1>3
    <2> DEFINE h == [s \in UpTo(n + 1) |-> Body(g, s)]
    <2>2. ASSUME NEW s \in UpTo(n + 1), s # {}
          PROVE  h[s \ {Picked(s)}] = g[s \ {Picked(s)}]
        <3> DEFINE t == s \ {Picked(s)}
        <3>1. Cardinality(t) = Cardinality(s) - 1
            BY <1>1, <2>2, PickedIsElement, FS_RemoveElement
        <3>2. t \in UpTo(n) /\ t \in UpTo(n + 1)
            BY <1>1, <3>1
        <3> HIDE DEF t, UpTo, Body
        <3>3. h[t] = Body(g, t)
            BY <3>2
        <3>4. g[t] = Body(g, t)
            BY <2>1, <3>2
        <3>5. QED
            BY <3>3, <3>4 DEF t
    <2>3. \A s \in UpTo(n + 1) : Body(h, s) = Body(g, s)
        <3> HIDE DEF h, UpTo
        <3>1. QED
            BY <2>2
    <2>4. h = [s \in UpTo(n + 1) |-> Body(h, s)]
        <3> HIDE DEF UpTo, Body
        <3>1. QED
            BY <2>3
    <2> HIDE DEF h, UpTo, Body
    <2>5. QED
        BY <2>4
<1>4. Nat \subseteq N
    <2> HIDE DEF N
    <2>1. QED
        BY <1>2, <1>3, EveryNumber
<1>5. Cardinality(S) \in N
    BY <1>4, FS_CardinalityType
<1>6. UpTo(Cardinality(S)) = SUBSET S
    BY FS_Subset
<1>7. QED
    BY <1>5, <1>6 DEF IsFold

\* Folds over different sets agree where both are defined.
LEMMA FoldIsUnique ==
    ASSUME NEW f, NEW S, IsFiniteSet(S), NEW T, T \subseteq S,
           NEW g, IsFold(g, f, S), NEW h, IsFold(h, f, T)
    PROVE  g[T] = h[T]
<1> DEFINE N == {n \in Nat : \A s \in SUBSET T : Cardinality(s) = n => g[s] = h[s]}
<1>1. \A s \in SUBSET T : IsFiniteSet(s) /\ Cardinality(s) \in Nat /\ s \in SUBSET S
    BY FS_Subset, FS_CardinalityType
<1>2. 0 \in N
    BY <1>1, FS_EmptySet DEF IsFold
<1>3. ASSUME NEW n \in Nat, n \in N PROVE n + 1 \in N
    <2> SUFFICES ASSUME NEW s \in SUBSET T, Cardinality(s) = n + 1 PROVE g[s] = h[s]
        OBVIOUS
    <2> DEFINE t == s \ {Picked(s)}
    <2>1. s # {}
        BY FS_EmptySet
    <2>2. Cardinality(t) = Cardinality(s) - 1
        BY <1>1, <2>1, PickedIsElement, FS_RemoveElement
    <2>3. t \in SUBSET T /\ Cardinality(t) = n
        BY <2>2
    <2> HIDE DEF t
    <2>4. g[t] = h[t]
        BY <1>3, <2>3
    <2>5. g[s] = f[Picked(s)] + g[t] /\ h[s] = f[Picked(s)] + h[t]
        BY <1>1, <2>1 DEF IsFold, t
    <2>6. QED
        BY <2>4, <2>5
<1>4. Nat \subseteq N
    <2> HIDE DEF N
    <2>1. QED
        BY <1>2, <1>3, EveryNumber
<1>5. QED
    BY <1>1, <1>4

\* The sum over {} is 0; any other is one value and the sum of the rest.
LEMMA SumUnfolds ==
    ASSUME NEW f, NEW S, IsFiniteSet(S)
    PROVE  SumFunctionOnSet(f, S) =
              IF S = {} THEN 0
              ELSE f[Picked(S)] + SumFunctionOnSet(f, S \ {Picked(S)})
<1> DEFINE g == CHOOSE g : IsFold(g, f, S)
           T == S \ {Picked(S)}
           h == CHOOSE h : IsFold(h, f, T)
<1>1. T \subseteq S /\ IsFiniteSet(T)
    BY FS_Subset
<1>2. IsFold(g, f, S)
    BY FoldExists
<1>3. IsFold(h, f, T)
    <2> HIDE DEF T
    <2>1. QED
        BY <1>1, FoldExists
<1>4. SumFunctionOnSet(f, S) = g[S] /\ SumFunctionOnSet(f, T) = h[T]
    BY SumIsFold
<1> HIDE DEF g, h, T
<1>5. g[T] = h[T]
    BY <1>1, <1>2, <1>3, FoldIsUnique
<1>6. g[S] = IF S = {} THEN 0 ELSE f[Picked(S)] + g[T]
    BY <1>2 DEF IsFold, T
<1>7. QED
    BY <1>4, <1>5, <1>6 DEF T

-----------------------------------------------------------------------------
\* The sum over no element is 0.
LEMMA SumOfNothing ==
    ASSUME NEW f
    PROVE  SumFunctionOnSet(f, {}) = 0
BY SumUnfolds, FS_EmptySet

\* A new element adds its value to the sum, whatever order the fold takes.
LEMMA SumWithOneMore ==
    ASSUME NEW f, NEW Base, IsFiniteSet(Base), \A x \in Base : f[x] \in Int
    PROVE  \A S \in SUBSET Base :
              /\ SumFunctionOnSet(f, S) \in Int
              /\ \A x \in Base \ S :
                    SumFunctionOnSet(f, S \cup {x}) = SumFunctionOnSet(f, S) + f[x]
<1> DEFINE Sum(S) == SumFunctionOnSet(f, S)
           N == {n \in Nat : \A S \in SUBSET Base : Cardinality(S) = n =>
                    /\ Sum(S) \in Int
                    /\ \A x \in Base \ S : Sum(S \cup {x}) = Sum(S) + f[x]}
<1>1. \A S \in SUBSET Base : IsFiniteSet(S) /\ Cardinality(S) \in Nat
    BY FS_Subset, FS_CardinalityType
<1>2. Sum({}) = 0
    BY SumOfNothing
<1>3. \A S \in SUBSET Base : S # {} => Sum(S) = f[Picked(S)] + Sum(S \ {Picked(S)})
    BY <1>1, SumUnfolds
<1>4. \A S \in SUBSET Base : S # {} => Picked(S) \in S
    BY PickedIsElement
<1> HIDE DEF Sum
<1>5. 0 \in N
    <2> SUFFICES ASSUME NEW x \in Base PROVE Sum({x}) = Sum({}) + f[x]
        BY <1>1, <1>2, FS_EmptySet
    <2>1. Picked({x}) = x /\ {x} \ {x} = {}
        BY <1>4
    <2>2. Sum({x}) = f[x] + Sum({})
        BY <1>3, <2>1
    <2>3. QED
        BY <1>2, <2>2
<1>6. ASSUME NEW n \in Nat, n \in N PROVE n + 1 \in N
    <2> SUFFICES ASSUME NEW S \in SUBSET Base, Cardinality(S) = n + 1
                 PROVE  /\ Sum(S) \in Int
                        /\ \A x \in Base \ S : Sum(S \cup {x}) = Sum(S) + f[x]
        OBVIOUS
    <2>1. \A R \in SUBSET Base : Cardinality(R) = n =>
             /\ Sum(R) \in Int
             /\ \A x \in Base \ R : Sum(R \cup {x}) = Sum(R) + f[x]
        BY <1>6
    <2>2. \A x \in S : /\ S \ {x} \in SUBSET Base /\ Cardinality(S \ {x}) = n
                       /\ x \in Base \ (S \ {x}) /\ (S \ {x}) \cup {x} = S
        <3> SUFFICES ASSUME NEW x \in S PROVE Cardinality(S \ {x}) = n
            OBVIOUS
        <3>1. Cardinality(S \ {x}) = Cardinality(S) - 1
            BY <1>1, FS_RemoveElement
        <3>2. QED
            BY <3>1
    <2>3. \A x \in S : Sum(S \ {x}) \in Int /\ Sum(S) = Sum(S \ {x}) + f[x]
        <3> SUFFICES ASSUME NEW x \in S
                     PROVE  Sum(S \ {x}) \in Int /\ Sum(S) = Sum(S \ {x}) + f[x]
            OBVIOUS
        <3> DEFINE R == S \ {x}
        <3>1. R \in SUBSET Base /\ Cardinality(R) = n /\ x \in Base \ R /\ R \cup {x} = S
            BY <2>2
        <3> HIDE DEF R
        <3>2. Sum(R) \in Int /\ Sum(R \cup {x}) = Sum(R) + f[x]
            BY <2>1, <3>1
        <3>3. QED
            BY <3>1, <3>2 DEF R
    <2>4. PICK y : y \in S
        <3>1. Cardinality(S) # 0
            OBVIOUS
        <3>2. S # {}
            BY <3>1, FS_EmptySet
        <3>3. QED
            BY <3>2
    <2>5. Sum(S) \in Int
        <3>1. f[y] \in Int /\ Sum(S \ {y}) \in Int /\ Sum(S) = Sum(S \ {y}) + f[y]
            BY <2>3, <2>4
        <3>2. QED
            BY <3>1
    <2>6. ASSUME NEW x \in Base \ S PROVE Sum(S \cup {x}) = Sum(S) + f[x]
        <3> DEFINE U == S \cup {x}
                   p == Picked(U)
        <3>1. U \in SUBSET Base /\ U # {}
            OBVIOUS
        <3>2. p \in U /\ Sum(U) = f[p] + Sum(U \ {p})
            BY <1>3, <1>4, <3>1
        <3> HIDE DEF p
        <3>3. CASE p = x
            <4>1. U \ {p} = S /\ f[x] \in Int
                BY <3>3
            <4>2. Sum(U) = f[x] + Sum(S)
                BY <3>2, <3>3, <4>1
            <4>3. QED
                BY <2>5, <4>1, <4>2
        <3>4. CASE p # x
            <4> DEFINE R == S \ {p}
            <4>1. p \in S /\ U \ {p} = R \cup {x} /\ x \in Base \ R
                BY <3>2, <3>4
            <4>2. R \in SUBSET Base /\ Cardinality(R) = n /\ Sum(R) \in Int /\ Sum(S) = Sum(R) + f[p]
                BY <2>2, <2>3, <4>1
            <4> HIDE DEF R
            <4>3. Sum(R \cup {x}) = Sum(R) + f[x]
                BY <2>1, <4>1, <4>2
            <4>4. f[p] \in Int /\ f[x] \in Int
                BY <4>1
            <4>5. Sum(U) = f[p] + (Sum(R) + f[x]) /\ Sum(S) + f[x] = (Sum(R) + f[p]) + f[x]
                BY <3>2, <4>1, <4>2, <4>3
            <4>6. QED
                BY <4>2, <4>4, <4>5
        <3>5. QED
            BY <3>3, <3>4
    <2>7. QED
        BY <2>5, <2>6
<1>7. Nat \subseteq N
    <2> HIDE DEF N
    <2>1. QED
        BY <1>5, <1>6, EveryNumber
<1>8. QED
    BY <1>1, <1>7 DEF Sum

\* The sum depends on nothing but the values of the elements summed.
LEMMA SumOfSameValues ==
    ASSUME NEW f, NEW g, NEW S, IsFiniteSet(S), \A x \in S : f[x] = g[x]
    PROVE  SumFunctionOnSet(f, S) = SumFunctionOnSet(g, S)
<1> DEFINE N == {n \in Nat : \A s \in SUBSET S : Cardinality(s) = n =>
                    SumFunctionOnSet(f, s) = SumFunctionOnSet(g, s)}
<1>1. \A s \in SUBSET S : IsFiniteSet(s) /\ Cardinality(s) \in Nat
    BY FS_Subset, FS_CardinalityType
<1>2. 0 \in N
    BY <1>1, FS_EmptySet, SumOfNothing
<1>3. ASSUME NEW n \in Nat, n \in N PROVE n + 1 \in N
    <2> SUFFICES ASSUME NEW s \in SUBSET S, Cardinality(s) = n + 1
                 PROVE  SumFunctionOnSet(f, s) = SumFunctionOnSet(g, s)
        OBVIOUS
    <2> DEFINE p == Picked(s)
    <2>1. p \in s
        <3>1. Cardinality(s) # 0
            OBVIOUS
        <3>2. QED
            BY <3>1, FS_EmptySet, PickedIsElement
    <2>2. Cardinality(s \ {p}) = Cardinality(s) - 1
        BY <1>1, <2>1, FS_RemoveElement
    <2>3. s \ {p} \in SUBSET S /\ Cardinality(s \ {p}) = n
        BY <2>2
    <2>4. SumFunctionOnSet(f, s \ {p}) = SumFunctionOnSet(g, s \ {p})
        BY <1>3, <2>3
    <2>5. /\ SumFunctionOnSet(f, s) = f[p] + SumFunctionOnSet(f, s \ {p})
          /\ SumFunctionOnSet(g, s) = g[p] + SumFunctionOnSet(g, s \ {p})
        BY <1>1, <2>1, SumUnfolds
    <2>6. QED
        BY <2>1, <2>4, <2>5
<1>4. Nat \subseteq N
    <2> HIDE DEF N
    <2>1. QED
        BY <1>2, <1>3, EveryNumber
<1>5. QED
    BY <1>1, <1>4

\* Sums of naturals are naturals, and summing fewer of them gives no more.
LEMMA SumOfFewer ==
    ASSUME NEW f, NEW S, IsFiniteSet(S), \A x \in S : f[x] \in Nat, NEW T, T \subseteq S
    PROVE  /\ SumFunctionOnSet(f, T) \in Nat
           /\ SumFunctionOnSet(f, S) \in Nat
           /\ SumFunctionOnSet(f, T) <= SumFunctionOnSet(f, S)
<1> DEFINE Sum(R) == SumFunctionOnSet(f, R)
<1>1. \A R \in SUBSET S : Sum(R) \in Int /\ \A x \in S \ R : Sum(R \cup {x}) = Sum(R) + f[x]
    BY SumWithOneMore
<1>2. Sum({}) = 0
    BY SumOfNothing
<1>3. IsFiniteSet(T) /\ IsFiniteSet(S \ T)
    BY FS_Subset
<1> HIDE DEF Sum
<1>4. Sum(T) \in Nat
    <2> DEFINE P == {R \in SUBSET T : Sum(R) \in Nat}
    <2>1. {} \in P
        BY <1>2
    <2>2. ASSUME NEW R \in SUBSET T, NEW x \in T \ R, R \in P
          PROVE  R \cup {x} \in P
        <3>1. Sum(R) \in Nat /\ f[x] \in Nat /\ Sum(R \cup {x}) = Sum(R) + f[x]
            BY <1>1, <2>2
        <3>2. QED
            BY <3>1
    <2> HIDE DEF P
    <2>3. T \in P
        BY <1>3, <2>1, <2>2, EveryFiniteSet
    <2>4. QED
        BY <2>3 DEF P
<1>5. Sum(T \cup (S \ T)) \in Nat /\ Sum(T) <= Sum(T \cup (S \ T))
    <2> DEFINE P == {R \in SUBSET (S \ T) : Sum(T \cup R) \in Nat /\ Sum(T) <= Sum(T \cup R)}
    <2>1. {} \in P
        <3>1. T \cup {} = T
            OBVIOUS
        <3>2. QED
            BY <1>4, <3>1
    <2>2. ASSUME NEW R \in SUBSET (S \ T), NEW x \in (S \ T) \ R, R \in P
          PROVE  R \cup {x} \in P
        <3>1. /\ Sum(T \cup R) \in Nat /\ Sum(T) <= Sum(T \cup R) /\ f[x] \in Nat
              /\ Sum((T \cup R) \cup {x}) = Sum(T \cup R) + f[x]
            BY <1>1, <2>2
        <3>2. (T \cup R) \cup {x} = T \cup (R \cup {x})
            OBVIOUS
        <3>3. QED
            BY <1>4, <3>1, <3>2
    <2> HIDE DEF P
    <2>3. S \ T \in P
        BY <1>3, <2>1, <2>2, EveryFiniteSet
    <2>4. QED
        BY <2>3 DEF P
<1>6. T \cup (S \ T) = S
    OBVIOUS
<1>7. QED
    BY <1>4, <1>5, <1>6 DEF Sum

\* The sum over one element is its value.
LEMMA SumOfOne ==
    ASSUME NEW f, NEW x, f[x] \in Int
    PROVE  SumFunctionOnSet(f, {x}) = f[x]
<1>1. IsFiniteSet({x}) /\ IsFiniteSet({}) /\ \A y \in {x} : f[y] \in Int
    BY FS_Singleton, FS_EmptySet
<1>2. {} \in SUBSET {x} /\ x \in {x} \ {}
    OBVIOUS
<1>3. SumFunctionOnSet(f, {} \cup {x}) = SumFunctionOnSet(f, {}) + f[x]
    BY <1>1, <1>2, SumWithOneMore
<1>4. {} \cup {x} = {x}
    OBVIOUS
<1>5. QED
    BY <1>3, <1>4, SumOfNothing

-----------------------------------------------------------------------------
\* What every prepared instruction looks like.
LEMMA InstructionShape ==
    ASSUME NEW i, IsInstruction(i)
    PROVE  /\ i.reference \in Reference
           /\ DOMAIN i.deltas \subseteq ChamaId
           /\ \A c \in DOMAIN i.deltas : i.deltas[c] \in Int
           /\ IsCharge(i) => DOMAIN i.deltas = {}
<1>1. PICK reference \in Reference, chama \in ChamaId, other \in ChamaId,
           amount \in Amount, currency \in Currency :
        \/ i = Deposit(reference, chama, amount, currency)
        \/ i = Payout(reference, chama, amount, currency)
        \/ i = LoanDisbursement(reference, chama, amount, currency)
        \/ chama # other /\ i = Transfer(reference, chama, other, amount, currency)
        \/ i = PenaltyCharge(reference, chama, amount, currency)
        \/ i = InterestCharge(reference, chama, amount, currency)
    BY DEF IsInstruction
<1>2. amount \in Int /\ -amount \in Int
    BY AmountAssumption
<1>3. QED
    BY <1>1, <1>2 DEF Deposit, Payout, LoanDisbursement, Transfer, PenaltyCharge,
        InterestCharge, Instruction, IsCharge

TreasuryEntries(i, c, side) ==
    {e \in i.entries : e.chama = c /\ e.account = "chama_treasury" /\ e.side = side}

\* One side of a treasury, when the journal has one such entry or none.
LEMMA SideOfEntries ==
    ASSUME NEW i, NEW c, NEW side
    PROVE  /\ TreasuryEntries(i, c, side) = {} => Side(i, c, side) = 0
           /\ \A e : TreasuryEntries(i, c, side) = {e} /\ e.amount \in Int
                    => Side(i, c, side) = e.amount
<1> DEFINE f == [e \in i.entries |-> e.amount]
           S == TreasuryEntries(i, c, side)
<1>1. Side(i, c, side) = SumFunctionOnSet(f, S)
    BY DEF Side, TreasuryEntries
<1>2. ASSUME NEW e, S = {e}, e.amount \in Int PROVE Side(i, c, side) = e.amount
    <2>1. f[e] = e.amount
        BY <1>2 DEF TreasuryEntries
    <2> HIDE DEF f, S
    <2>2. QED
        BY <1>1, <1>2, <2>1, SumOfOne
<1>3. S = {} => Side(i, c, side) = 0
    <2> HIDE DEF f, S
    <2>1. QED
        BY <1>1, SumOfNothing
<1>4. QED
    BY <1>2, <1>3

\* Every kind of instruction says the same twice: its journal moves in each
\* treasury what its deltas say (recordDeposit, recordPayout, recordTransfer,
\* the loan disbursement and the charges).
THEOREM JournalSaysDeltas ==
    ASSUME NEW i, IsInstruction(i), NEW c
    PROVE  TreasuryNet(i, c) = IF c \in DOMAIN i.deltas THEN i.deltas[c] ELSE 0
<1>1. PICK reference \in Reference, chama \in ChamaId, other \in ChamaId,
           amount \in Amount, currency \in Currency :
        \/ i = Deposit(reference, chama, amount, currency)
        \/ i = Payout(reference, chama, amount, currency)
        \/ i = LoanDisbursement(reference, chama, amount, currency)
        \/ chama # other /\ i = Transfer(reference, chama, other, amount, currency)
        \/ i = PenaltyCharge(reference, chama, amount, currency)
        \/ i = InterestCharge(reference, chama, amount, currency)
    BY DEF IsInstruction
<1>2. amount \in Nat
    BY AmountAssumption
<1> DEFINE Of(side) == TreasuryEntries(i, c, side)
           Treasury(x, side) == Entry(x, "chama_treasury", side, amount, currency)
<1>3. \A side : /\ Of(side) = {} => Side(i, c, side) = 0
                /\ \A e : Of(side) = {e} /\ e.amount \in Int => Side(i, c, side) = e.amount
    BY SideOfEntries
<1>4. \A x, side : Treasury(x, side).amount = amount
    BY DEF Entry
<1>5. CASE i = Deposit(reference, chama, amount, currency)
    <2>1. Of("credit") = {} /\ Of("debit") = IF c = chama THEN {Treasury(chama, "debit")} ELSE {}
        BY <1>5 DEF Deposit, Instruction, Entry, TreasuryEntries
    <2>2. DOMAIN i.deltas = {chama} /\ i.deltas[chama] = amount
        BY <1>5 DEF Deposit, Instruction
    <2> HIDE DEF Of, Treasury
    <2>3. QED
        BY <1>2, <1>3, <1>4, <2>1, <2>2 DEF TreasuryNet
<1>6. CASE \/ i = Payout(reference, chama, amount, currency)
           \/ i = LoanDisbursement(reference, chama, amount, currency)
    <2>1. Of("debit") = {} /\ Of("credit") = IF c = chama THEN {Treasury(chama, "credit")} ELSE {}
        BY <1>6 DEF Payout, LoanDisbursement, Instruction, Entry, TreasuryEntries
    <2>2. DOMAIN i.deltas = {chama} /\ i.deltas[chama] = -amount
        BY <1>6 DEF Payout, LoanDisbursement, Instruction
    <2> HIDE DEF Of, Treasury
    <2>3. QED
        BY <1>2, <1>3, <1>4, <2>1, <2>2 DEF TreasuryNet
<1>7. CASE chama # other /\ i = Transfer(reference, chama, other, amount, currency)
    <2>1. /\ Of("credit") = IF c = chama THEN {Treasury(chama, "credit")} ELSE {}
          /\ Of("debit") = IF c = other THEN {Treasury(other, "debit")} ELSE {}
        BY <1>7 DEF Transfer, Instruction, Entry, TreasuryEntries
    <2>2. /\ DOMAIN i.deltas = {chama, other}
          /\ i.deltas[chama] = -amount /\ i.deltas[other] = amount
        BY <1>7 DEF Transfer, Instruction
    <2> HIDE DEF Of, Treasury
    <2>3. QED
        BY <1>2, <1>3, <1>4, <1>7, <2>1, <2>2 DEF TreasuryNet
<1>8. CASE \/ i = PenaltyCharge(reference, chama, amount, currency)
           \/ i = InterestCharge(reference, chama, amount, currency)
    <2>1. Of("debit") = {} /\ Of("credit") = {} /\ DOMAIN i.deltas = {}
        BY <1>8 DEF PenaltyCharge, InterestCharge, Instruction, Entry,
            TreasuryEntries
    <2> HIDE DEF Of, Treasury
    <2>2. QED
        BY <1>3, <2>1 DEF TreasuryNet
<1>9. QED
    BY <1>1, <1>5, <1>6, <1>7, <1>8

\* What the treasury entries of these journals add up to.
Net(books, c) == SumFunction([r \in DOMAIN books |-> TreasuryNet(books[r], c)])

\* One more journal adds its own treasury entries.
LEMMA JournalAddsNet ==
    ASSUME NEW books, IsFiniteSet(DOMAIN books), \A r \in DOMAIN books : IsInstruction(books[r]),
           NEW ref, ref \notin DOMAIN books, NEW i, IsInstruction(i), NEW c,
           NEW more, DOMAIN more = DOMAIN books \cup {ref}, more[ref] = i,
           \A r \in DOMAIN books : more[r] = books[r]
    PROVE  Net(more, c) = Net(books, c) + TreasuryNet(i, c) /\ Net(books, c) \in Int
<1> DEFINE old == DOMAIN books
           f == [r \in old |-> TreasuryNet(books[r], c)]
           g == [r \in DOMAIN more |-> TreasuryNet(more[r], c)]
<1>1. DOMAIN more = old \cup {ref} /\ IsFiniteSet(DOMAIN more) /\ ref \notin old
    BY FS_AddElement
<1>2. ASSUME NEW x, IsInstruction(x) PROVE TreasuryNet(x, c) \in Int
    BY <1>2, JournalSaysDeltas, InstructionShape
<1>3. \A r \in DOMAIN more : IsInstruction(more[r])
    OBVIOUS
<1>4. \A r \in DOMAIN more : g[r] \in Int
    BY <1>2, <1>3
<1>5. g[ref] = TreasuryNet(i, c) /\ \A r \in old : g[r] = f[r]
    BY <1>1
<1>6. Net(more, c) = SumFunctionOnSet(g, DOMAIN more) /\ Net(books, c) = SumFunctionOnSet(f, old)
    BY DEF Net, SumFunction
<1>7. IsFiniteSet(old)
    OBVIOUS
<1>8. old \in SUBSET DOMAIN more /\ ref \in DOMAIN more \ old
    BY <1>1
<1> HIDE DEF old, f, g
<1>9. SumFunctionOnSet(g, old) = SumFunctionOnSet(f, old)
    BY <1>5, <1>7, SumOfSameValues
<1>10. SumFunctionOnSet(g, old) \in Int
       /\ SumFunctionOnSet(g, old \cup {ref}) = SumFunctionOnSet(g, old) + g[ref]
    BY <1>1, <1>4, <1>8, SumWithOneMore
<1>11. QED
    BY <1>1, <1>5, <1>6, <1>9, <1>10

-----------------------------------------------------------------------------
\* What is true of the abstract ledger at all times.
LedgerInv ==
    /\ pooled \in [Chama -> Nat]
    /\ IsFiniteSet(DOMAIN journals)
    /\ \A r \in DOMAIN journals : journals[r] \in Workload /\ journals[r].reference = r
    /\ BalanceIsJournalled

\* A posting moves the balances by what its journal says, and keeps every
\* earlier journal.
LEMMA PostingBalances ==
    ASSUME LedgerInv, NEW i \in Workload, Post(i)
    PROVE  LedgerInv'
<1>1. /\ i.reference \notin DOMAIN journals
      /\ pooled' = After(pooled, i)
      /\ \A c \in Chama : After(pooled, i)[c] >= 0
    BY DEF Post, Solvent
<1>2. journals' = [r \in DOMAIN journals \cup {i.reference} |->
                    IF r = i.reference THEN i ELSE journals[r]]
    BY DEF Post
<1>3. /\ IsInstruction(i)
      /\ \A r \in DOMAIN journals : IsInstruction(journals[r])
      /\ pooled \in [Chama -> Nat] /\ Opening \in [Chama -> Nat]
    BY WorkloadAssumption DEF LedgerInv
<1>4. IsFiniteSet(DOMAIN journals) /\ IsFiniteSet(DOMAIN journals')
    BY <1>2, FS_AddElement DEF LedgerInv
<1>5. \A c \in DOMAIN i.deltas : i.deltas[c] \in Int
    BY <1>3, InstructionShape
<1>6. pooled' \in [Chama -> Nat]
    BY <1>1, <1>3, <1>5 DEF After
<1>7. \A r \in DOMAIN journals' : journals'[r] \in Workload /\ journals'[r].reference = r
    BY <1>2 DEF LedgerInv
<1>8. ASSUME NEW c \in Chama PROVE pooled'[c] = Opening[c] + Net(journals', c)
    <2>1. pooled[c] = Opening[c] + Net(journals, c)
        BY DEF LedgerInv, BalanceIsJournalled, Net
    <2>2. Net(journals', c) = Net(journals, c) + TreasuryNet(i, c) /\ Net(journals, c) \in Int
        <3> DEFINE ref == i.reference
        <3>1. /\ DOMAIN journals' = DOMAIN journals \cup {ref} /\ journals'[ref] = i
              /\ \A r \in DOMAIN journals : journals'[r] = journals[r]
            BY <1>1, <1>2
        <3>2. ref \notin DOMAIN journals
            BY <1>1
        <3> HIDE DEF ref
        <3>3. QED
            BY <1>3, <1>4, <3>1, <3>2, JournalAddsNet
    <2>3. /\ TreasuryNet(i, c) = IF c \in DOMAIN i.deltas THEN i.deltas[c] ELSE 0
          /\ TreasuryNet(i, c) \in Int
        BY <1>3, <1>5, JournalSaysDeltas
    <2>4. pooled'[c] = pooled[c] + TreasuryNet(i, c)
        BY <1>1, <1>3, <2>3 DEF After
    <2>5. QED
        BY <1>3, <2>1, <2>2, <2>3, <2>4
<1>9. QED
    BY <1>4, <1>6, <1>7, <1>8 DEF LedgerInv, BalanceIsJournalled, Net

\* Whatever is posted, no treasury is negative, each journal is an instruction
\* somebody submitted, under its own reference, and each balance is the opening
\* one plus what the journals say.
THEOREM LedgerInvariance == LedgerSpec => []LedgerInv
<1>1. LedgerInit => LedgerInv
    <2> SUFFICES ASSUME LedgerInit PROVE LedgerInv
        OBVIOUS
    <2>1. DOMAIN journals = {} /\ pooled = Opening /\ Opening \in [Chama -> Nat]
        BY WorkloadAssumption DEF LedgerInit
    <2>2. \A c : Net(journals, c) = 0
        BY <2>1, SumOfNothing DEF Net, SumFunction
    <2>3. QED
        BY <2>1, <2>2, FS_EmptySet DEF LedgerInv, BalanceIsJournalled, Net
<1>2. LedgerInv /\ [LedgerNext]_ledgerVars => LedgerInv'
    <2> SUFFICES ASSUME LedgerInv, [LedgerNext]_ledgerVars PROVE LedgerInv'
        OBVIOUS
    <2>1. CASE UNCHANGED ledgerVars
        BY <2>1 DEF ledgerVars, LedgerInv, BalanceIsJournalled
    <2>2. CASE LedgerNext
        BY <2>2, PostingBalances DEF LedgerNext
    <2>3. QED
        BY <2>1, <2>2
<1>3. QED
    BY <1>1, <1>2, PTL DEF LedgerSpec

\* A journal, once committed, is never changed or removed.
JournalsStand ==
    [][\A r \in DOMAIN journals : r \in DOMAIN journals' /\ journals'[r] = journals[r]]_ledgerVars

\* No instruction that is posted later touches an earlier one's journal.
THEOREM JournalsAreFinal == LedgerSpec => JournalsStand
<1> DEFINE Kept == \A r \in DOMAIN journals : r \in DOMAIN journals' /\ journals'[r] = journals[r]
<1>1. [LedgerNext]_ledgerVars => [Kept]_ledgerVars
    BY DEF LedgerNext, Post
<1> HIDE DEF Kept
<1>2. LedgerSpec => [][Kept]_ledgerVars
    BY <1>1, PTL DEF LedgerSpec
<1>3. QED
    BY <1>2 DEF Kept, JournalsStand
=============================================================================
