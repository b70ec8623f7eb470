-------------------------------- MODULE Sums --------------------------------
(***************************************************************************)
(* Facts about SumFunctionOnSet(f, S), the sum of f[x] over the x in a      *)
(* finite set S, which the counters, the views and the report rows of the   *)
(* other modules are made of.  The operator is defined by a recursive       *)
(* function on the subsets of S which adds the elements in an order that    *)
(* CHOOSE decides; the lemmas say that the order does not matter.  Their    *)
(* inductions go over the finite subsets of a set, which are well founded   *)
(* under inclusion.                                                         *)
(***************************************************************************)
EXTENDS Integers, Functions, FiniteSetTheorems, TLAPS

-----------------------------------------------------------------------------
(* The definition, unfolded.                                               *)

\* Induction over the subsets of a finite set S: a set of subsets that has each
\* T whose proper subsets it has, has all of them.
LEMMA SubsetInduction ==
    ASSUME NEW S, IsFiniteSet(S), NEW Good,
           \A T \in SUBSET S : (\A U \in SUBSET T : U # T => U \in Good) => T \in Good
    PROVE  SUBSET S \subseteq Good
<1> DEFINE R == StrictSubsetOrdering(S)
           Bad == {T \in SUBSET S : T \notin Good}
<1>1. IsWellFoundedOn(R, SUBSET S)
    BY FS_StrictSubsetOrderingWellFounded, FS_FiniteSubsetsOfFinite
<1>2. SUFFICES ASSUME Bad # {} PROVE FALSE
    OBVIOUS
<1>3. PICK T \in Bad : \A U \in Bad : <<U, T>> \notin R
    <2>1. Bad \subseteq SUBSET S
        OBVIOUS
    <2> HIDE DEF R, Bad
    <2> QED
        BY <1>1, <1>2, <2>1, WFMin
<1>4. T \in SUBSET S /\ T \notin Good
    OBVIOUS
<1>5. ASSUME NEW U \in SUBSET T, U # T PROVE U \in Good
    <2>1. U \in SUBSET S /\ <<U, T>> \in R
        BY <1>4, <1>5 DEF StrictSubsetOrdering
    <2>2. U \notin Bad
        BY <1>3, <2>1
    <2> QED
        BY <2>1, <2>2
<1> QED
    BY <1>4, <1>5

\* The element of T that the definition adds first.
FirstOf(T) == CHOOSE x \in T : TRUE

\* What the recursive function g of the definition is at T.
SumStep(g, f, T) ==
    IF T = {} THEN 0 ELSE f[FirstOf(T)] + g[T \ {FirstOf(T)}]

\* g satisfies the recursive definition on the subsets of S.
IsSumOn(g, f, S) == g = [T \in SUBSET S |-> SumStep(g, f, T)]

LEMMA SumUnfold ==
    ASSUME NEW f, NEW S
    PROVE  SumFunctionOnSet(f, S) = (CHOOSE g : IsSumOn(g, f, S))[S]
BY DEF SumFunctionOnSet, FoldFunctionOnSet, MapThenFoldSet, IsSumOn, SumStep, FirstOf

LEMMA FirstOfIn == ASSUME NEW T, T # {} PROVE FirstOf(T) \in T
BY DEF FirstOf

\* Two functions that satisfy it agree where both are defined.
LEMMA SumUnique ==
    ASSUME NEW f, NEW A, NEW B, NEW g, NEW h, IsSumOn(g, f, A), IsSumOn(h, f, B),
           NEW S, S \subseteq A, S \subseteq B, IsFiniteSet(S)
    PROVE  g[S] = h[S]
<1> DEFINE Good == {T \in SUBSET S : g[T] = h[T]}
<1>1. ASSUME NEW T \in SUBSET S, \A U \in SUBSET T : U # T => U \in Good
      PROVE  T \in Good
    <2>1. g[T] = SumStep(g, f, T) /\ h[T] = SumStep(h, f, T)
        BY DEF IsSumOn
    <2>2. CASE T = {}
        BY <2>1, <2>2 DEF SumStep
    <2>3. CASE T # {}
        <3>1. T \ {FirstOf(T)} \in Good
            BY <1>1, <2>3, FirstOfIn
        <3> QED
            BY <2>1, <2>3, <3>1 DEF SumStep
    <2> QED
        BY <2>2, <2>3
<1> HIDE DEF Good
<1>2. SUBSET S \subseteq Good
    BY <1>1, SubsetInduction
<1> QED
    BY <1>2 DEF Good

\* On a finite set there is one.
LEMMA SumExists ==
    ASSUME NEW f, NEW S, IsFiniteSet(S)
    PROVE  \E g : IsSumOn(g, f, S)
<1> DEFINE Good == {T \in SUBSET S : \E g : IsSumOn(g, f, T)}
<1>1. ASSUME NEW T \in SUBSET S, \A U \in SUBSET T : U # T => U \in Good
      PROVE  T \in Good
    <2> DEFINE G(U) == CHOOSE g : IsSumOn(g, f, U)
               h0 == [U \in SUBSET T |-> IF U = T THEN 0 ELSE G(U)[U]]
               h == [U \in SUBSET T |-> SumStep(h0, f, U)]
    <2>1. \A U \in SUBSET T : U # T => IsSumOn(G(U), f, U)
        BY <1>1
    <2> HIDE DEF G
    <2>2. ASSUME NEW U \in SUBSET T, U # T PROVE SumStep(h0, f, U) = G(U)[U]
        <3>1. G(U)[U] = SumStep(G(U), f, U)
            BY <2>1, <2>2 DEF IsSumOn
        <3>2. CASE U = {}
            BY <3>1, <3>2 DEF SumStep
        <3>3. CASE U # {}
            <4> DEFINE V == U \ {FirstOf(U)}
            <4>1. V \in SUBSET U /\ V \in SUBSET T /\ V # T
                BY <2>2
            <4>2. IsFiniteSet(V)
                BY <4>1, FS_Subset
            <4>3. IsSumOn(G(U), f, U) /\ IsSumOn(G(V), f, V)
                BY <2>1, <2>2, <4>1
            <4>4. G(U)[V] = G(V)[V]
                BY ONLY <4>1, <4>2, <4>3, SumUnique
            <4>5. h0[V] = G(V)[V]
                BY <4>1
            <4> QED
                BY <3>1, <3>3, <4>4, <4>5 DEF SumStep
        <3> QED
            BY <3>2, <3>3
    <2>3. ASSUME NEW U \in SUBSET T PROVE SumStep(h0, f, U) = SumStep(h, f, U)
        <3>1. CASE U = {}
            BY <3>1 DEF SumStep
        <3>2. CASE U # {}
            <4> DEFINE V == U \ {FirstOf(U)}
            <4>1. V \in SUBSET T /\ V # T
                BY <3>2, FirstOfIn
            <4>2. h0[V] = h[V]
                BY <4>1, <2>2
            <4> QED
                BY <3>2, <4>2 DEF SumStep
        <3> QED
            BY <3>1, <3>2
    <2>4. IsSumOn(h, f, T)
        BY <2>3 DEF IsSumOn
    <2> QED
        BY <2>4
<1> HIDE DEF Good
<1>2. SUBSET S \subseteq Good
    BY <1>1, SubsetInduction
<1> QED
    BY <1>2 DEF Good

-----------------------------------------------------------------------------
(* What a sum is.                                                          *)

LEMMA SumEmpty == ASSUME NEW f PROVE SumFunctionOnSet(f, {}) = 0
<1> DEFINE g == CHOOSE h : IsSumOn(h, f, {})
<1>1. IsSumOn(g, f, {})
    BY SumExists, FS_EmptySet
<1>2. g[{}] = 0
    BY <1>1 DEF IsSumOn, SumStep
<1> QED
    BY <1>2, SumUnfold

\* The element the definition takes first, and the sum of the others.
LEMMA SumFirst ==
    ASSUME NEW f, NEW S, IsFiniteSet(S), S # {}
    PROVE  SumFunctionOnSet(f, S)
              = f[FirstOf(S)] + SumFunctionOnSet(f, S \ {FirstOf(S)})
<1> DEFINE V == S \ {FirstOf(S)}
           G(U) == CHOOSE g : IsSumOn(g, f, U)
<1>1. IsFiniteSet(V) /\ V \in SUBSET S
    BY FS_Subset
<1>2. IsSumOn(G(S), f, S) /\ IsSumOn(G(V), f, V)
    BY <1>1, SumExists
<1>3. G(S)[S] = f[FirstOf(S)] + G(S)[V]
    BY <1>2 DEF IsSumOn, SumStep
<1>4. SumFunctionOnSet(f, S) = G(S)[S] /\ SumFunctionOnSet(f, V) = G(V)[V]
    BY SumUnfold
<1> HIDE DEF G
<1>5. G(S)[V] = G(V)[V]
    BY ONLY <1>1, <1>2, SumUnique
<1> QED
    BY <1>3, <1>4, <1>5

LEMMA SumInt ==
    ASSUME NEW f, NEW S, IsFiniteSet(S), \A x \in S : f[x] \in Int
    PROVE  SumFunctionOnSet(f, S) \in Int
<1> DEFINE Good == {T \in SUBSET S : SumFunctionOnSet(f, T) \in Int}
<1>1. ASSUME NEW T \in SUBSET S, \A U \in SUBSET T : U # T => U \in Good
      PROVE  T \in Good
    <2>1. CASE T = {}
        BY <2>1, SumEmpty
    <2>2. CASE T # {}
        <3>1. FirstOf(T) \in T /\ T \ {FirstOf(T)} \in Good
            BY <1>1, <2>2, FirstOfIn
        <3>2. IsFiniteSet(T)
            BY FS_Subset
        <3> QED
            BY <2>2, <3>1, <3>2, SumFirst
    <2> QED
        BY <2>1, <2>2
<1> HIDE DEF Good
<1>2. SUBSET S \subseteq Good
    BY <1>1, SubsetInduction
<1> QED
    BY <1>2 DEF Good

\* The order does not matter: any element may be taken first.
LEMMA SumRemove ==
    ASSUME NEW f, NEW S, IsFiniteSet(S), \A x \in S : f[x] \in Int, NEW a \in S
    PROVE  SumFunctionOnSet(f, S) = f[a] + SumFunctionOnSet(f, S \ {a})
<1> DEFINE Good == {T \in SUBSET S : \A x \in T :
              SumFunctionOnSet(f, T) = f[x] + SumFunctionOnSet(f, T \ {x})}
<1>1. ASSUME NEW T \in SUBSET S, \A U \in SUBSET T : U # T => U \in Good
      PROVE  T \in Good
    <2> SUFFICES ASSUME NEW x \in T
                 PROVE  SumFunctionOnSet(f, T) = f[x] + SumFunctionOnSet(f, T \ {x})
        OBVIOUS
    <2> DEFINE p == FirstOf(T)
               rest == T \ {p, x}
    <2>1. IsFiniteSet(T) /\ IsFiniteSet(rest)
        BY FS_Subset
    <2>2. p \in T /\ SumFunctionOnSet(f, T) = f[p] + SumFunctionOnSet(f, T \ {p})
        BY <2>1, FirstOfIn, SumFirst
    <2> HIDE DEF p
    <2>3. CASE p = x
        BY <2>2, <2>3
    <2>4. CASE p # x
        <3>1. T \ {p} \in Good /\ T \ {x} \in Good
            BY <1>1, <2>2
        <3>2. (T \ {p}) \ {x} = rest /\ (T \ {x}) \ {p} = rest
            OBVIOUS
        <3>3. /\ SumFunctionOnSet(f, T \ {p}) = f[x] + SumFunctionOnSet(f, rest)
              /\ SumFunctionOnSet(f, T \ {x}) = f[p] + SumFunctionOnSet(f, rest)
            BY <2>2, <2>4, <3>1, <3>2
        <3>4. f[p] \in Int /\ f[x] \in Int /\ SumFunctionOnSet(f, rest) \in Int
            BY <2>1, <2>2, SumInt
        <3> QED
            BY <2>2, <3>3, <3>4
    <2> QED
        BY <2>3, <2>4
<1> HIDE DEF Good
<1>2. SUBSET S \subseteq Good
    BY <1>1, SubsetInduction
<1> QED
    BY <1>2 DEF Good

LEMMA SumSingleton ==
    ASSUME NEW f, NEW a, f[a] \in Int
    PROVE  SumFunctionOnSet(f, {a}) = f[a]
<1>1. IsFiniteSet({a})
    BY FS_Singleton
<1>2. {a} \ {a} = {}
    OBVIOUS
<1> QED
    BY <1>1, <1>2, SumRemove, SumEmpty

\* An element that is not there yet.
LEMMA SumInsert ==
    ASSUME NEW f, NEW S, IsFiniteSet(S), NEW a, a \notin S,
           \A x \in S \cup {a} : f[x] \in Int
    PROVE  SumFunctionOnSet(f, S \cup {a}) = f[a] + SumFunctionOnSet(f, S)
<1>1. IsFiniteSet(S \cup {a}) /\ (S \cup {a}) \ {a} = S
    BY FS_AddElement
<1> QED
    BY <1>1, SumRemove

-----------------------------------------------------------------------------
(* Sums of two functions, and over two sets.                               *)

\* Only the values at the elements count.
LEMMA SumEqual ==
    ASSUME NEW f, NEW g, NEW S, IsFiniteSet(S), \A x \in S : f[x] = g[x]
    PROVE  SumFunctionOnSet(f, S) = SumFunctionOnSet(g, S)
<1> DEFINE Good == {T \in SUBSET S : SumFunctionOnSet(f, T) = SumFunctionOnSet(g, T)}
<1>1. ASSUME NEW T \in SUBSET S, \A U \in SUBSET T : U # T => U \in Good
      PROVE  T \in Good
    <2>1. CASE T = {}
        BY <2>1, SumEmpty
    <2>2. CASE T # {}
        <3>1. FirstOf(T) \in T /\ T \ {FirstOf(T)} \in Good
            BY <1>1, <2>2, FirstOfIn
        <3>2. IsFiniteSet(T)
            BY FS_Subset
        <3>3. /\ SumFunctionOnSet(f, T)
                    = f[FirstOf(T)] + SumFunctionOnSet(f, T \ {FirstOf(T)})
              /\ SumFunctionOnSet(g, T)
                    = g[FirstOf(T)] + SumFunctionOnSet(g, T \ {FirstOf(T)})
            BY <2>2, <3>2, SumFirst
        <3> QED
            BY <3>1, <3>3
    <2> QED
        BY <2>1, <2>2
<1> HIDE DEF Good
<1>2. SUBSET S \subseteq Good
    BY <1>1, SubsetInduction
<1> QED
    BY <1>2 DEF Good

\* So a function may be restricted to the set it is summed over.
LEMMA SumRestrict ==
    ASSUME NEW f, NEW S, IsFiniteSet(S)
    PROVE  SumFunction([x \in S |-> f[x]]) = SumFunctionOnSet(f, S)
<1> DEFINE g == [x \in S |-> f[x]]
<1>1. SumFunction(g) = SumFunctionOnSet(g, S)
    BY DEF SumFunction
<1>2. \A x \in S : g[x] = f[x]
    OBVIOUS
<1> HIDE DEF g
<1>3. SumFunctionOnSet(g, S) = SumFunctionOnSet(f, S)
    BY <1>2, SumEqual
<1> QED
    BY <1>1, <1>3 DEF g

LEMMA SumMonotone ==
    ASSUME NEW f, NEW g, NEW S, IsFiniteSet(S),
           \A x \in S : f[x] \in Int /\ g[x] \in Int /\ f[x] <= g[x]
    PROVE  SumFunctionOnSet(f, S) <= SumFunctionOnSet(g, S)
<1> DEFINE Good == {T \in SUBSET S : SumFunctionOnSet(f, T) <= SumFunctionOnSet(g, T)}
<1>1. ASSUME NEW T \in SUBSET S, \A U \in SUBSET T : U # T => U \in Good
      PROVE  T \in Good
    <2>1. CASE T = {}
        BY <2>1, SumEmpty
    <2>2. CASE T # {}
        <3> DEFINE p == FirstOf(T)
        <3>1. p \in T /\ T \ {p} \in Good
            BY <1>1, <2>2, FirstOfIn
        <3>2. IsFiniteSet(T) /\ IsFiniteSet(T \ {p})
            BY FS_Subset
        <3>3. /\ SumFunctionOnSet(f, T) = f[p] + SumFunctionOnSet(f, T \ {p})
              /\ SumFunctionOnSet(g, T) = g[p] + SumFunctionOnSet(g, T \ {p})
            BY <2>2, <3>2, SumFirst
        <3>4. /\ SumFunctionOnSet(f, T \ {p}) \in Int
              /\ SumFunctionOnSet(g, T \ {p}) \in Int
            BY <3>2, SumInt
        <3> HIDE DEF p
        <3> QED
            BY <3>1, <3>3, <3>4
    <2> QED
        BY <2>1, <2>2
<1> HIDE DEF Good
<1>2. SUBSET S \subseteq Good
    BY <1>1, SubsetInduction
<1> QED
    BY <1>2 DEF Good

\* Sums over two sets without a common element.
LEMMA SumUnion ==
    ASSUME NEW f, NEW A, NEW B, IsFiniteSet(A), IsFiniteSet(B), A \cap B = {},
           \A x \in A \cup B : f[x] \in Int
    PROVE  SumFunctionOnSet(f, A \cup B)
              = SumFunctionOnSet(f, A) + SumFunctionOnSet(f, B)
<1> DEFINE Good == {T \in SUBSET B : SumFunctionOnSet(f, A \cup T)
                        = SumFunctionOnSet(f, A) + SumFunctionOnSet(f, T)}
<1>1. ASSUME NEW T \in SUBSET B, \A U \in SUBSET T : U # T => U \in Good
      PROVE  T \in Good
    <2>0. SumFunctionOnSet(f, A) \in Int
        BY SumInt
    <2>1. CASE T = {}
        BY <2>0, <2>1, SumEmpty
    <2>2. CASE T # {}
        <3> PICK a \in T : TRUE
            BY <2>2
        <3> DEFINE V == T \ {a}
        <3>1. V \in Good
            BY <1>1
        <3>2. IsFiniteSet(T) /\ IsFiniteSet(V) /\ IsFiniteSet(A \cup T)
            BY FS_Subset, FS_Union
        <3>3. (A \cup T) \ {a} = A \cup V /\ a \in A \cup T
            OBVIOUS
        <3>4. SumFunctionOnSet(f, A \cup T) = f[a] + SumFunctionOnSet(f, A \cup V)
            <4>1. \A x \in A \cup T : f[x] \in Int
                OBVIOUS
            <4> QED
                BY ONLY <3>2, <3>3, <4>1, SumRemove
        <3>5. SumFunctionOnSet(f, T) = f[a] + SumFunctionOnSet(f, V)
            BY <3>2, SumRemove
        <3>6. f[a] \in Int /\ SumFunctionOnSet(f, V) \in Int
            BY <3>2, SumInt
        <3> QED
            BY <2>0, <3>1, <3>4, <3>5, <3>6
    <2> QED
        BY <2>1, <2>2
<1> HIDE DEF Good
<1>2. SUBSET B \subseteq Good
    BY <1>1, SubsetInduction
<1> QED
    BY <1>2 DEF Good

\* A sum of natural numbers is one.
LEMMA SumNat ==
    ASSUME NEW f, NEW S, IsFiniteSet(S), \A x \in S : f[x] \in Nat
    PROVE  SumFunctionOnSet(f, S) \in Nat
<1> DEFINE Good == {T \in SUBSET S : SumFunctionOnSet(f, T) \in Nat}
<1>1. ASSUME NEW T \in SUBSET S, \A U \in SUBSET T : U # T => U \in Good
      PROVE  T \in Good
    <2>1. CASE T = {}
        BY <2>1, SumEmpty
    <2>2. CASE T # {}
        <3>1. FirstOf(T) \in T /\ T \ {FirstOf(T)} \in Good
            BY <1>1, <2>2, FirstOfIn
        <3>2. IsFiniteSet(T)
            BY FS_Subset
        <3> QED
            BY <2>2, <3>1, <3>2, SumFirst
    <2> QED
        BY <2>1, <2>2
<1> HIDE DEF Good
<1>2. SUBSET S \subseteq Good
    BY <1>1, SubsetInduction
<1> QED
    BY <1>2 DEF Good

LEMMA SumZero ==
    ASSUME NEW f, NEW S, IsFiniteSet(S), \A x \in S : f[x] = 0
    PROVE  SumFunctionOnSet(f, S) = 0
<1> DEFINE Good == {T \in SUBSET S : SumFunctionOnSet(f, T) = 0}
<1>1. ASSUME NEW T \in SUBSET S, \A U \in SUBSET T : U # T => U \in Good
      PROVE  T \in Good
    <2>1. CASE T = {}
        BY <2>1, SumEmpty
    <2>2. CASE T # {}
        <3>1. FirstOf(T) \in T /\ T \ {FirstOf(T)} \in Good
            BY <1>1, <2>2, FirstOfIn
        <3>2. IsFiniteSet(T)
            BY FS_Subset
        <3> QED
            BY <2>2, <3>1, <3>2, SumFirst
    <2> QED
        BY <2>1, <2>2
<1> HIDE DEF Good
<1>2. SUBSET S \subseteq Good
    BY <1>1, SubsetInduction
<1> QED
    BY <1>2 DEF Good

\* Of natural numbers, a part of the set has no larger sum.
LEMMA SumSubset ==
    ASSUME NEW f, NEW S, IsFiniteSet(S), \A x \in S : f[x] \in Nat,
           NEW T, T \subseteq S
    PROVE  SumFunctionOnSet(f, T) <= SumFunctionOnSet(f, S)
<1> DEFINE V == S \ T
<1>1. IsFiniteSet(T) /\ IsFiniteSet(V) /\ T \cap V = {} /\ T \cup V = S
    BY FS_Subset
<1>2. SumFunctionOnSet(f, T) \in Nat /\ SumFunctionOnSet(f, V) \in Nat
    BY <1>1, SumNat
<1>3. SumFunctionOnSet(f, S) = SumFunctionOnSet(f, T) + SumFunctionOnSet(f, V)
    <2>1. \A x \in T \cup V : f[x] \in Int
        OBVIOUS
    <2> HIDE DEF V
    <2> QED
        BY <1>1, <2>1, SumUnion
<1> HIDE DEF V
<1> QED
    BY <1>2, <1>3

\* Changing a function at one element changes its sum by as much.
LEMMA SumChange ==
    ASSUME NEW f, NEW g, NEW S, IsFiniteSet(S), NEW a \in S,
           \A x \in S : f[x] \in Int /\ g[x] \in Int,
           \A x \in S : x # a => g[x] = f[x]
    PROVE  SumFunctionOnSet(g, S) = SumFunctionOnSet(f, S) + g[a] - f[a]
<1> DEFINE V == S \ {a}
<1>1. IsFiniteSet(V)
    BY FS_Subset
<1>2. SumFunctionOnSet(g, V) = SumFunctionOnSet(f, V)
    BY <1>1, SumEqual
<1>3. SumFunctionOnSet(f, V) \in Int
    BY <1>1, SumInt
<1>4. /\ SumFunctionOnSet(f, S) = f[a] + SumFunctionOnSet(f, V)
      /\ SumFunctionOnSet(g, S) = g[a] + SumFunctionOnSet(g, V)
    BY SumRemove
<1> QED
    BY <1>2, <1>3, <1>4

-----------------------------------------------------------------------------
(* Images.                                                                 *)

\* The image of a finite set is finite.
LEMMA ImageFinite ==
    ASSUME NEW S, IsFiniteSet(S), NEW h
    PROVE  IsFiniteSet({h[x] : x \in S})
<1> DEFINE T == {h[x] : x \in S}
           hS == [x \in S |-> h[x]]
<1>1. hS \in Surjection(S, T)
    BY DEF Surjection
<1> QED
    BY <1>1, FS_Surjection

\* Summing the same values under other names.
LEMMA SumReindex ==
    ASSUME NEW f, NEW g, NEW h, NEW S, IsFiniteSet(S),
           \A x \in S : f[x] \in Int /\ g[h[x]] = f[x],
           \A x, y \in S : h[x] = h[y] => x = y
    PROVE  SumFunctionOnSet(g, {h[x] : x \in S}) = SumFunctionOnSet(f, S)
<1> DEFINE Image(T) == {h[x] : x \in T}
           Good == {T \in SUBSET S :
                       SumFunctionOnSet(g, Image(T)) = SumFunctionOnSet(f, T)}
<1>1. ASSUME NEW T \in SUBSET S, \A U \in SUBSET T : U # T => U \in Good
      PROVE  T \in Good
    <2>1. CASE T = {}
        <3>1. Image({}) = {}
            OBVIOUS
        <3> QED
            BY <2>1, <3>1, SumEmpty
    <2>2. CASE T # {}
        <3> PICK a \in T : TRUE
            BY <2>2
        <3> DEFINE V == T \ {a}
        <3>1. V \in Good
            BY <1>1
        <3>2. IsFiniteSet(T) /\ IsFiniteSet(Image(T))
            <4>1. IsFiniteSet(T)
                BY FS_Subset
            <4>2. IsFiniteSet({h[x] : x \in T})
                BY ONLY <4>1, ImageFinite
            <4> QED
                BY <4>1, <4>2
        <3>3. Image(T) \ {h[a]} = Image(V) /\ h[a] \in Image(T)
            OBVIOUS
        <3>4. \A y \in Image(T) : g[y] \in Int
            OBVIOUS
        <3>5. SumFunctionOnSet(f, T) = f[a] + SumFunctionOnSet(f, V)
            BY <3>2, SumRemove
        <3>6. SumFunctionOnSet(g, Image(T)) = g[h[a]] + SumFunctionOnSet(g, Image(V))
            <4> HIDE DEF Image, V
            <4> QED
                BY <3>2, <3>3, <3>4, SumRemove
        <3>7. /\ g[h[a]] = f[a]
              /\ SumFunctionOnSet(g, Image(V)) = SumFunctionOnSet(f, V)
            BY <3>1
        <3> HIDE DEF Image, V
        <3> QED
            BY <3>5, <3>6, <3>7
    <2> QED
        BY <2>1, <2>2
<1> HIDE DEF Good
<1>2. SUBSET S \subseteq Good
    BY <1>1, SubsetInduction
<1> QED
    BY <1>2 DEF Good

-----------------------------------------------------------------------------
(* Multiples.                                                              *)

LEMMA Distribute ==
    ASSUME NEW k \in Int, NEW a \in Int, NEW b \in Int
    PROVE  k * a \in Int /\ k * (a + b) = k * a + k * b
OBVIOUS

LEMMA SumScale ==
    ASSUME NEW f, NEW g, NEW S, IsFiniteSet(S), NEW k \in Int,
           \A x \in S : f[x] \in Int /\ g[x] = k * f[x]
    PROVE  SumFunctionOnSet(g, S) = k * SumFunctionOnSet(f, S)
<1> DEFINE Good == {T \in SUBSET S : SumFunctionOnSet(g, T) = k * SumFunctionOnSet(f, T)}
<1>1. ASSUME NEW T \in SUBSET S, \A U \in SUBSET T : U # T => U \in Good
      PROVE  T \in Good
    <2>1. CASE T = {}
        <3>1. SumFunctionOnSet(g, T) = 0 /\ SumFunctionOnSet(f, T) = 0
            BY <2>1, SumEmpty
        <3>2. k * 0 = 0
            OBVIOUS
        <3> QED
            BY <3>1, <3>2
    <2>2. CASE T # {}
        <3> DEFINE a == FirstOf(T)
                   V == T \ {FirstOf(T)}
        <3>1. a \in T /\ V \in Good
            BY <1>1, <2>2, FirstOfIn
        <3>2. IsFiniteSet(T) /\ IsFiniteSet(V)
            BY FS_Subset
        <3>3. /\ SumFunctionOnSet(f, T) = f[a] + SumFunctionOnSet(f, V)
              /\ SumFunctionOnSet(g, T) = g[a] + SumFunctionOnSet(g, V)
            BY <2>2, <3>2, SumFirst
        <3>4. f[a] \in Int /\ g[a] = k * f[a] /\ SumFunctionOnSet(f, V) \in Int
            BY <3>1, <3>2, SumInt
        <3>5. SumFunctionOnSet(g, V) = k * SumFunctionOnSet(f, V)
            BY <3>1
        <3> HIDE DEF a, V
        <3>6. k * (f[a] + SumFunctionOnSet(f, V)) = k * f[a] + k * SumFunctionOnSet(f, V)
            BY <3>4, Distribute
        <3> QED
            BY <3>3, <3>4, <3>5, <3>6
    <2> QED
        BY <2>1, <2>2
<1> HIDE DEF Good
<1>2. SUBSET S \subseteq Good
    BY <1>1, SubsetInduction
<1> QED
    BY <1>2 DEF Good

\* The elements of S that h puts in the class of x.
ClassOf(h, S, x) == {y \in S : h[y] = h[x]}

\* When the values of every class add up to nothing, so do their multiples by a
\* number that belongs to the class.
LEMMA SumWeighted ==
    ASSUME NEW f, NEW g, NEW h, NEW w, NEW S, IsFiniteSet(S),
           \A x \in S : f[x] \in Int /\ w[h[x]] \in Int /\ g[x] = w[h[x]] * f[x],
           \A x \in S : SumFunctionOnSet(f, ClassOf(h, S, x)) = 0
    PROVE  SumFunctionOnSet(g, S) = 0
<1> DEFINE Classes == {h[x] : x \in S}
           In(C) == {x \in S : h[x] \in C}
           Good == {C \in SUBSET Classes : SumFunctionOnSet(g, In(C)) = 0}
<1>1. ASSUME NEW x \in S PROVE g[x] \in Int
    <2>1. w[h[x]] \in Int /\ f[x] \in Int /\ g[x] = w[h[x]] * f[x]
        OBVIOUS
    <2> QED
        BY <2>1, Distribute
<1>2. ASSUME NEW C \in SUBSET Classes, \A D \in SUBSET C : D # C => D \in Good
      PROVE  C \in Good
    <2>1. CASE C = {}
        <3>1. In(C) = {}
            BY <2>1
        <3> HIDE DEF In
        <3> QED
            BY <3>1, SumEmpty
    <2>2. CASE C # {}
        <3> DEFINE rest == C \ {FirstOf(C)}
                   one == {y \in S : h[y] = FirstOf(C)}
        <3>1. FirstOf(C) \in C /\ rest \in Good
            BY <1>2, <2>2, FirstOfIn
        <3>2. In(C) = In(rest) \cup one /\ In(rest) \cap one = {}
            BY <3>1
        <3>3. IsFiniteSet(In(rest)) /\ IsFiniteSet(one)
            BY FS_Subset
        <3>4. SumFunctionOnSet(g, one) = 0
            <4>1. PICK x \in S : FirstOf(C) = h[x]
                BY <3>1
            <4>2. /\ \A y \in one : f[y] \in Int /\ g[y] = w[h[x]] * f[y]
                  /\ w[h[x]] \in Int /\ SumFunctionOnSet(f, one) = 0
                BY <4>1 DEF ClassOf
            <4> HIDE DEF one
            <4>3. SumFunctionOnSet(g, one) = w[h[x]] * SumFunctionOnSet(f, one)
                BY <3>3, <4>2, SumScale
            <4> QED
                BY <4>2, <4>3
        <3>5. SumFunctionOnSet(g, In(rest)) = 0
            BY <3>1
        <3>6. \A x \in In(rest) \cup one : g[x] \in Int
            BY <1>1
        <3>7. SumFunctionOnSet(g, In(C)) = 0
            <4> HIDE DEF In, one, rest
            <4> QED
                BY <3>2, <3>3, <3>4, <3>5, <3>6, SumUnion
        <3> QED
            BY <3>7
    <2> QED
        BY <2>1, <2>2
<1>3. IsFiniteSet(Classes)
    BY ImageFinite
<1>4. In(Classes) = S
    OBVIOUS
<1> HIDE DEF Good, Classes
<1>5. SUBSET Classes \subseteq Good
    BY <1>2, <1>3, SubsetInduction
<1> QED
    BY <1>4, <1>5 DEF Good
=============================================================================
