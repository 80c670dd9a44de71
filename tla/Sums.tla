-------------------------------- MODULE Sums --------------------------------
(***************************************************************************)
(* Sums of the values of a function over a finite set, SumFunctionOnSet of *)
(* Functions, which is defined by a fold that takes the members in an      *)
(* order of its own choosing.  What the order is does not matter; sums are *)
(* typed, linear and monotone.  Induction is over the subsets of the set,  *)
(* ordered by inclusion, with the property to be proved given as the set   *)
(* of those that have it.                                                  *)
(***************************************************************************)
EXTENDS FiniteSetsExt, FiniteSetTheorems, TLAPS

\* Induction over the subsets of a finite set, with the property as a set.
LEMMA SubsetInduction ==
    ASSUME NEW S, IsFiniteSet(S), NEW G,
           \A s \in SUBSET S : (\A x \in s : s \ {x} \in G) => s \in G
    PROVE  S \in G
<1> SUFFICES ASSUME (SUBSET S) \ G # {}
             PROVE  FALSE
    OBVIOUS
<1>1. IsWellFoundedOn(StrictSubsetOrdering(S), SUBSET S)
    <2>1. FiniteSubsetsOf(S) = SUBSET S
        BY FS_FiniteSubsetsOfFinite
    <2>2. IsWellFoundedOn(StrictSubsetOrdering(S), FiniteSubsetsOf(S))
        BY FS_StrictSubsetOrderingWellFounded
    <2> QED
        BY ONLY <2>1, <2>2
<1>2. (SUBSET S) \ G \subseteq SUBSET S
    OBVIOUS
<1>3. PICK s \in (SUBSET S) \ G :
          \A t \in (SUBSET S) \ G : <<t, s>> \notin StrictSubsetOrdering(S)
    BY <1>1, <1>2, WFMin
<1>4. ASSUME NEW x \in s
      PROVE  s \ {x} \in G
    <2>1. <<s \ {x}, s>> \in StrictSubsetOrdering(S)
        BY DEF StrictSubsetOrdering
    <2> QED
        BY <1>3, <2>1
<1> QED
    BY <1>3, <1>4

\* The member the fold takes next.
Chosen(s) == CHOOSE x \in s : TRUE

\* What the fold of SumFunctionOnSet computes for every subset on its way.
Body(f, S, g) == [s \in SUBSET S |-> IF s = {} THEN 0 ELSE f[Chosen(s)] + g[s \ {Chosen(s)}]]
PartialSums(f, S) == CHOOSE g : g = Body(f, S, g)

\* The sum is the last value of the fold.
LEMMA SumIsFold ==
    ASSUME NEW f, NEW S
    PROVE  SumFunctionOnSet(f, S) = PartialSums(f, S)[S]
BY DEF SumFunctionOnSet, FoldFunctionOnSet, MapThenFoldSet, PartialSums, Body, Chosen

\* One equation of the fold.
Equation(f, g, s) == g[s] = IF s = {} THEN 0 ELSE f[Chosen(s)] + g[s \ {Chosen(s)}]

\* The fold takes a member.
LEMMA ChosenIn ==
    ASSUME NEW s, s # {}
    PROVE  Chosen(s) \in s
BY DEF Chosen

\* Induction over the naturals, with the property as a set.
LEMMA NaturalInduction ==
    ASSUME NEW G, 0 \in G, \A n \in Nat : n \in G => n + 1 \in G
    PROVE  \A n \in Nat : n \in G
<1> SUFFICES ASSUME Nat \ G # {}
             PROVE  FALSE
    OBVIOUS
<1> DEFINE R == OpToRel(<, Nat)
<1>1. \A m, n \in Nat : m < n => <<m, n>> \in R
    BY DEF OpToRel
<1>2. IsWellFoundedOn(R, Nat)
    BY NatLessThanWellFounded
<1> HIDE DEF R
<1>3. Nat \ G \subseteq Nat
    OBVIOUS
<1>4. PICK n \in Nat \ G : \A m \in Nat \ G : <<m, n>> \notin R
    BY <1>2, <1>3, WFMin
<1>5. n # 0 /\ n - 1 \in Nat /\ n - 1 < n
    BY <1>4
<1>6. n - 1 \in G
    BY <1>1, <1>4, <1>5
<1> QED
    BY <1>4, <1>5, <1>6

\* The fold is defined: level by level, there is a function of all subsets
\* that satisfies its equations.
LEMMA FoldExists ==
    ASSUME NEW f, NEW S, IsFiniteSet(S)
    PROVE  \E g : g = Body(f, S, g)
<1> DEFINE D(n) == {s \in SUBSET S : Cardinality(s) <= n}
           Solves(g, n) == \A s \in D(n) : Equation(f, g, s)
           G == {n \in Nat : \E g : Solves(g, n)}
<1>0. \A s \in SUBSET S : IsFiniteSet(s) /\ Cardinality(s) \in Nat
    BY FS_Subset, FS_CardinalityType
<1>1. 0 \in G
    <2>1. \A s \in D(0) : s = {}
        BY <1>0, FS_EmptySet
    <2>2. Solves([s \in {{}} |-> 0], 0)
        BY <2>1 DEF Equation
    <2> QED
        BY <2>2
<1>2. ASSUME NEW n \in Nat, n \in G
      PROVE  n + 1 \in G
    <2>1. PICK g : Solves(g, n)
        BY <1>2
    <2> DEFINE h == [s \in D(n + 1) |-> IF s = {} THEN 0 ELSE f[Chosen(s)] + g[s \ {Chosen(s)}]]
    <2>2. ASSUME NEW s \in D(n + 1), s # {}
          PROVE  h[s \ {Chosen(s)}] = g[s \ {Chosen(s)}]
        <3> DEFINE t == s \ {Chosen(s)}
        <3>1. Cardinality(t) = Cardinality(s) - 1
            BY <1>0, <2>2, ChosenIn, FS_RemoveElement
        <3>2. t \in D(n) /\ t \in D(n + 1)
            BY <1>0, <3>1
        <3>3. Equation(f, g, t)
            BY <2>1, <3>2
        <3> QED
            BY <3>2, <3>3 DEF Equation
    <2>3. Solves(h, n + 1)
        BY <2>2 DEF Equation
    <2>4. \E k : Solves(k, n + 1)
        BY <2>3
    <2> QED
        BY <2>4
<1>3. Cardinality(S) \in Nat
    BY FS_CardinalityType
<1>4. Cardinality(S) \in G
    <2> HIDE DEF G
    <2> QED
        BY <1>1, <1>2, <1>3, NaturalInduction
<1>5. PICK g : Solves(g, Cardinality(S))
    BY <1>4
<1>6. \A s \in SUBSET S : s \in D(Cardinality(S))
    BY FS_Subset
<1>7. \A s \in SUBSET S : Equation(f, g, s)
    BY <1>5, <1>6
<1> DEFINE h == [s \in SUBSET S |-> g[s]]
<1>8. \A s \in SUBSET S : s \ {Chosen(s)} \in SUBSET S
    OBVIOUS
<1>9. h = Body(f, S, h)
    BY <1>7, <1>8 DEF Equation, Body
<1> QED
    BY <1>9

\* So the fold's own function satisfies them.
LEMMA FoldEquation ==
    ASSUME NEW f, NEW S, IsFiniteSet(S)
    PROVE  \A s \in SUBSET S : Equation(f, PartialSums(f, S), s)
<1> PICK g : g = PartialSums(f, S)
    OBVIOUS
<1>1. g = Body(f, S, g)
    BY FoldExists DEF PartialSums
<1>2. \A s \in SUBSET S : Equation(f, g, s)
    BY <1>1 DEF Equation, Body
<1> QED
    BY <1>2

\* The sum over a subset is the same, whichever set the fold runs over.
LEMMA FoldOfSubset ==
    ASSUME NEW f, NEW S, IsFiniteSet(S), NEW T \in SUBSET S
    PROVE  PartialSums(f, S)[T] = SumFunctionOnSet(f, T)
<1> DEFINE g == PartialSums(f, S)
           h == PartialSums(f, T)
           G == {s \in SUBSET T : g[s] = h[s]}
<1>1. IsFiniteSet(T)
    BY FS_Subset
<1>2. \A s \in SUBSET S : Equation(f, g, s)
    BY FoldEquation
<1>3. \A s \in SUBSET T : Equation(f, h, s)
    BY <1>1, FoldEquation
<1> HIDE DEF g, h
<1>4. ASSUME NEW s \in SUBSET T, \A x \in s : s \ {x} \in G
      PROVE  s \in G
    BY <1>2, <1>3, <1>4, ChosenIn DEF Equation
<1>5. T \in G
    <2> HIDE DEF G
    <2> QED
        BY <1>1, <1>4, SubsetInduction
<1> QED
    BY <1>5, SumIsFold DEF g, h

\* The recursion of the sum.
LEMMA SumStep ==
    ASSUME NEW f, NEW S, IsFiniteSet(S)
    PROVE  SumFunctionOnSet(f, S) =
               IF S = {} THEN 0 ELSE f[Chosen(S)] + SumFunctionOnSet(f, S \ {Chosen(S)})
<1>1. Equation(f, PartialSums(f, S), S)
    BY FoldEquation
<1>2. S \ {Chosen(S)} \in SUBSET S
    OBVIOUS
<1>3. PartialSums(f, S)[S \ {Chosen(S)}] = SumFunctionOnSet(f, S \ {Chosen(S)})
    BY <1>2, FoldOfSubset
<1> QED
    BY <1>1, <1>3, SumIsFold DEF Equation

\* The empty sum is zero.
LEMMA SumEmpty ==
    ASSUME NEW f
    PROVE  SumFunctionOnSet(f, {}) = 0
BY SumStep, FS_EmptySet

\* A sum of integers is an integer.
LEMMA SumInt ==
    ASSUME NEW S, IsFiniteSet(S), NEW f, \A x \in S : f[x] \in Int
    PROVE  SumFunctionOnSet(f, S) \in Int
<1> DEFINE G == {s \in SUBSET S : SumFunctionOnSet(f, s) \in Int}
<1>1. ASSUME NEW s \in SUBSET S, \A x \in s : s \ {x} \in G
      PROVE  s \in G
    <2>1. IsFiniteSet(s)
        BY FS_Subset
    <2>2. CASE s = {}
        BY <2>2, SumEmpty
    <2>3. CASE s # {}
        <3> PICK c \in s : c = Chosen(s)
            BY <2>3, ChosenIn
        <3>1. SumFunctionOnSet(f, s) = f[c] + SumFunctionOnSet(f, s \ {c})
            BY <2>1, <2>3, SumStep
        <3>2. SumFunctionOnSet(f, s \ {c}) \in Int /\ f[c] \in Int
            BY <1>1
        <3> QED
            BY <3>1, <3>2
    <2> QED
        BY <2>2, <2>3
<1>2. S \in G
    <2> HIDE DEF G
    <2> QED
        BY ONLY <1>1, IsFiniteSet(S), SubsetInduction
<1> QED
    BY <1>2

\* Of naturals, a natural.
LEMMA SumNat ==
    ASSUME NEW S, IsFiniteSet(S), NEW f, \A x \in S : f[x] \in Nat
    PROVE  SumFunctionOnSet(f, S) \in Nat
<1> DEFINE G == {s \in SUBSET S : SumFunctionOnSet(f, s) \in Nat}
<1>1. ASSUME NEW s \in SUBSET S, \A x \in s : s \ {x} \in G
      PROVE  s \in G
    <2>1. IsFiniteSet(s)
        BY FS_Subset
    <2>2. CASE s = {}
        BY <2>2, SumEmpty
    <2>3. CASE s # {}
        <3> PICK c \in s : c = Chosen(s)
            BY <2>3, ChosenIn
        <3>1. SumFunctionOnSet(f, s) = f[c] + SumFunctionOnSet(f, s \ {c})
            BY <2>1, <2>3, SumStep
        <3>2. SumFunctionOnSet(f, s \ {c}) \in Nat /\ f[c] \in Nat
            BY <1>1
        <3> QED
            BY <3>1, <3>2
    <2> QED
        BY <2>2, <2>3
<1>2. S \in G
    <2> HIDE DEF G
    <2> QED
        BY ONLY <1>1, IsFiniteSet(S), SubsetInduction
<1> QED
    BY <1>2

\* Any member may be taken out first: the order of the fold does not matter.
LEMMA SumRemove ==
    ASSUME NEW S, IsFiniteSet(S), NEW f, \A x \in S : f[x] \in Int
    PROVE  \A x \in S : SumFunctionOnSet(f, S) = f[x] + SumFunctionOnSet(f, S \ {x})
<1> DEFINE T(s) == SumFunctionOnSet(f, s)
           G == {s \in SUBSET S : \A x \in s : T(s) = f[x] + T(s \ {x})}
<1>0. \A s \in SUBSET S : T(s) \in Int
    BY FS_Subset, SumInt
<1>1. \A s \in SUBSET S : s # {} => T(s) = f[Chosen(s)] + T(s \ {Chosen(s)})
    BY FS_Subset, SumStep
<1> HIDE DEF T
<1>2. ASSUME NEW s \in SUBSET S, \A x \in s : s \ {x} \in G
      PROVE  s \in G
    <2> SUFFICES ASSUME NEW x \in s, x # Chosen(s)
                 PROVE  T(s) = f[x] + T(s \ {x})
        BY <1>1
    <2> DEFINE c == Chosen(s)
               r == (s \ {c}) \ {x}
    <2>1. c \in s /\ r = (s \ {x}) \ {c} /\ r \in SUBSET S
        BY ChosenIn
    <2>2. T(s) = f[c] + T(s \ {c})
        BY <1>1
    <2>3. T(s \ {c}) = f[x] + T(r)
        BY <1>2, <2>1
    <2>4. T(s \ {x}) = f[c] + T(r)
        BY <1>2, <2>1
    <2>5. f[c] \in Int /\ f[x] \in Int /\ T(r) \in Int
        BY <1>0, <2>1
    <2> HIDE DEF c, r
    <2> QED
        BY <2>2, <2>3, <2>4, <2>5
<1>3. S \in G
    <2> HIDE DEF G
    <2> QED
        BY ONLY <1>2, IsFiniteSet(S), SubsetInduction
<1> QED
    BY <1>3 DEF T

\* Equal values, equal sums.
LEMMA SumSame ==
    ASSUME NEW S, IsFiniteSet(S), NEW f, NEW g, \A x \in S : f[x] = g[x]
    PROVE  SumFunctionOnSet(f, S) = SumFunctionOnSet(g, S)
<1> DEFINE G == {s \in SUBSET S : SumFunctionOnSet(f, s) = SumFunctionOnSet(g, s)}
<1>1. ASSUME NEW s \in SUBSET S, \A x \in s : s \ {x} \in G
      PROVE  s \in G
    <2>1. IsFiniteSet(s)
        BY FS_Subset
    <2>2. CASE s = {}
        BY <2>2, SumEmpty
    <2>3. CASE s # {}
        <3> PICK c \in s : c = Chosen(s)
            BY <2>3, ChosenIn
        <3>1. SumFunctionOnSet(f, s) = f[c] + SumFunctionOnSet(f, s \ {c})
            BY <2>1, <2>3, SumStep
        <3>2. SumFunctionOnSet(g, s) = g[c] + SumFunctionOnSet(g, s \ {c})
            BY <2>1, <2>3, SumStep
        <3>3. SumFunctionOnSet(f, s \ {c}) = SumFunctionOnSet(g, s \ {c}) /\ f[c] = g[c]
            BY <1>1
        <3> QED
            BY <3>1, <3>2, <3>3
    <2> QED
        BY <2>2, <2>3
<1>2. S \in G
    <2> HIDE DEF G
    <2> QED
        BY ONLY <1>1, IsFiniteSet(S), SubsetInduction
<1> QED
    BY <1>2

\* Sums are linear.
LEMMA SumLinear ==
    ASSUME NEW S, IsFiniteSet(S), NEW f, NEW g, NEW h, NEW c \in Int, NEW d \in Int,
           \A x \in S : /\ f[x] \in Int /\ g[x] \in Int /\ h[x] \in Int
                        /\ c * f[x] = d * g[x] + h[x]
    PROVE  c * SumFunctionOnSet(f, S) = d * SumFunctionOnSet(g, S) + SumFunctionOnSet(h, S)
<1> DEFINE F(s) == SumFunctionOnSet(f, s)
           H(s) == SumFunctionOnSet(g, s)
           K(s) == SumFunctionOnSet(h, s)
           G == {s \in SUBSET S : c * F(s) = d * H(s) + K(s)}
<1>1. ASSUME NEW s \in SUBSET S, \A x \in s : s \ {x} \in G
      PROVE  s \in G
    <2>1. IsFiniteSet(s)
        BY FS_Subset
    <2>2. CASE s = {}
        BY <2>2, SumEmpty
    <2>3. CASE s # {}
        <3> PICK e \in s : e = Chosen(s)
            BY <2>3, ChosenIn
        <3> PICK t : t = s \ {e}
            OBVIOUS
        <3>1. IsFiniteSet(t) /\ t \in G
            BY <1>1, <2>1, FS_Subset
        <3>2. F(s) = f[e] + F(t)
            BY <2>1, <2>3, SumStep
        <3>3. H(s) = g[e] + H(t)
            BY <2>1, <2>3, SumStep
        <3>4. K(s) = h[e] + K(t)
            BY <2>1, <2>3, SumStep
        <3>5. F(t) \in Int /\ H(t) \in Int /\ K(t) \in Int
            BY <3>1, SumInt
        <3>6. c * F(t) = d * H(t) + K(t)
            BY <3>1
        <3>7. f[e] \in Int /\ g[e] \in Int /\ h[e] \in Int /\ c * f[e] = d * g[e] + h[e]
            OBVIOUS
        <3> PICK fe, ge, he, ft, ht, kt \in Int :
                fe = f[e] /\ ge = g[e] /\ he = h[e] /\ ft = F(t) /\ ht = H(t) /\ kt = K(t)
            BY <3>5, <3>7
        <3>8. c * ft = d * ht + kt /\ c * fe = d * ge + he
            BY <3>6, <3>7
        <3>9. c * (fe + ft) = d * (ge + ht) + (he + kt)
            BY ONLY <3>8, fe \in Int, ge \in Int, he \in Int, ft \in Int, ht \in Int, kt \in Int,
                    c \in Int, d \in Int
        <3> QED
            BY <3>2, <3>3, <3>4, <3>9
    <2> QED
        BY <2>2, <2>3
<1>2. S \in G
    <2> HIDE DEF G
    <2> QED
        BY ONLY <1>1, IsFiniteSet(S), SubsetInduction
<1> QED
    BY <1>2

\* A sum of smaller values is no larger.
LEMMA SumMonotone ==
    ASSUME NEW S, IsFiniteSet(S), NEW f, NEW g,
           \A x \in S : f[x] \in Int /\ g[x] \in Int /\ f[x] <= g[x]
    PROVE  SumFunctionOnSet(f, S) <= SumFunctionOnSet(g, S)
<1> DEFINE h == [x \in S |-> g[x] - f[x]]
<1>1. \A x \in S : h[x] \in Nat /\ h[x] \in Int /\ 1 * g[x] = 1 * f[x] + h[x]
    OBVIOUS
<1>2. 1 * SumFunctionOnSet(g, S) = 1 * SumFunctionOnSet(f, S) + SumFunctionOnSet(h, S)
    <2> HIDE DEF h
    <2> QED
        BY <1>1, SumLinear
<1>3. SumFunctionOnSet(h, S) \in Nat
    <2> HIDE DEF h
    <2> QED
        BY <1>1, SumNat
<1>4. SumFunctionOnSet(f, S) \in Int /\ SumFunctionOnSet(g, S) \in Int
    BY SumInt
<1> HIDE DEF h
<1> QED
    BY <1>2, <1>3, <1>4

\* Values that are zero outside a subset sum up to the sum over it.
LEMMA SumMasked ==
    ASSUME NEW S, IsFiniteSet(S), NEW U \in SUBSET S, NEW f, \A x \in U : f[x] \in Int,
           NEW g, \A x \in S : g[x] = IF x \in U THEN f[x] ELSE 0
    PROVE  SumFunctionOnSet(g, S) = SumFunctionOnSet(f, U)
<1> DEFINE G == {s \in SUBSET S : SumFunctionOnSet(g, s) = SumFunctionOnSet(f, U \cap s)}
<1>1. ASSUME NEW s \in SUBSET S, \A x \in s : s \ {x} \in G
      PROVE  s \in G
    <2>1. IsFiniteSet(s)
        BY FS_Subset
    <2>2. CASE s = {}
        <3>1. U \cap s = {}
            BY <2>2
        <3> QED
            BY <2>2, <3>1, SumEmpty
    <2>3. CASE s # {}
        <3> PICK e \in s : e = Chosen(s)
            BY <2>3, ChosenIn
        <3>1. SumFunctionOnSet(g, s) = g[e] + SumFunctionOnSet(g, s \ {e})
            BY <2>1, <2>3, SumStep
        <3>2. SumFunctionOnSet(g, s \ {e}) = SumFunctionOnSet(f, U \cap (s \ {e}))
            BY <1>1
        <3> PICK t : t = U \cap (s \ {e})
            OBVIOUS
        <3>3. IsFiniteSet(U \cap s) /\ IsFiniteSet(t)
            BY <2>1, FS_Subset
        <3>4. SumFunctionOnSet(f, t) \in Int
            BY <3>3, SumInt
        <3>5. CASE e \in U
            <4>1. e \in U \cap s /\ (U \cap s) \ {e} = t
                BY <3>5
            <4>2. \A x \in U \cap s : f[x] \in Int
                OBVIOUS
            <4>3. SumFunctionOnSet(f, U \cap s) = f[e] + SumFunctionOnSet(f, (U \cap s) \ {e})
                BY ONLY <3>3, <4>1, <4>2, SumRemove
            <4>4. g[e] = f[e]
                BY <3>5
            <4> QED
                BY <3>1, <3>2, <4>1, <4>3, <4>4
        <3>6. CASE e \notin U
            <4>1. U \cap s = t
                BY <3>6
            <4>2. g[e] = 0
                BY <3>6
            <4>3. SumFunctionOnSet(g, s) = SumFunctionOnSet(f, t)
                BY <3>1, <3>2, <3>4, <4>2
            <4> QED
                BY <4>1, <4>3
        <3> QED
            BY <3>5, <3>6
    <2> QED
        BY <2>2, <2>3
<1>2. S \in G
    <2> HIDE DEF G
    <2> QED
        BY ONLY <1>1, IsFiniteSet(S), SubsetInduction
<1>3. U \cap S = U
    OBVIOUS
<1> QED
    BY <1>2, <1>3

\* What is never negative sums up to more over more.
LEMMA SumOfSubset ==
    ASSUME NEW S, IsFiniteSet(S), NEW U \in SUBSET S, NEW f, \A x \in S : f[x] \in Nat
    PROVE  SumFunctionOnSet(f, U) <= SumFunctionOnSet(f, S)
<1> PICK g : g = [x \in S |-> IF x \in U THEN f[x] ELSE 0]
    OBVIOUS
<1>1. \A x \in S : g[x] = IF x \in U THEN f[x] ELSE 0
    OBVIOUS
<1>2. \A x \in U : f[x] \in Int
    OBVIOUS
<1>3. SumFunctionOnSet(g, S) = SumFunctionOnSet(f, U)
    BY <1>1, <1>2, SumMasked
<1>4. \A x \in S : g[x] \in Int /\ f[x] \in Int /\ g[x] <= f[x]
    BY <1>1
<1>5. SumFunctionOnSet(g, S) <= SumFunctionOnSet(f, S)
    BY <1>4, SumMonotone
<1> QED
    BY <1>3, <1>5

\* Counting a constant.
LEMMA SumConstant ==
    ASSUME NEW S, IsFiniteSet(S), NEW c \in Int, NEW f, \A x \in S : f[x] = c
    PROVE  SumFunctionOnSet(f, S) = c * Cardinality(S)
<1> DEFINE G == {s \in SUBSET S : SumFunctionOnSet(f, s) = c * Cardinality(s)}
<1>1. ASSUME NEW s \in SUBSET S, \A x \in s : s \ {x} \in G
      PROVE  s \in G
    <2>1. IsFiniteSet(s)
        BY FS_Subset
    <2>2. CASE s = {}
        BY <2>2, SumEmpty, FS_EmptySet
    <2>3. CASE s # {}
        <3> PICK e \in s : e = Chosen(s)
            BY <2>3, ChosenIn
        <3>1. SumFunctionOnSet(f, s) = f[e] + SumFunctionOnSet(f, s \ {e})
            BY <2>1, <2>3, SumStep
        <3>2. SumFunctionOnSet(f, s \ {e}) = c * Cardinality(s \ {e})
            BY <1>1
        <3>3. Cardinality(s \ {e}) = Cardinality(s) - 1
            BY <2>1, FS_RemoveElement
        <3>4. Cardinality(s) \in Nat
            BY <2>1, FS_CardinalityType
        <3>5. f[e] = c
            OBVIOUS
        <3> PICK n \in Nat : n = Cardinality(s)
            BY <3>4
        <3>6. SumFunctionOnSet(f, s) = c + c * (n - 1)
            BY <3>1, <3>2, <3>3, <3>5
        <3>7. c + c * (n - 1) = c * n
            BY ONLY c \in Int, n \in Nat
        <3> QED
            BY <3>6, <3>7
    <2> QED
        BY <2>2, <2>3
<1>2. S \in G
    <2> HIDE DEF G
    <2> QED
        BY ONLY <1>1, IsFiniteSet(S), SubsetInduction
<1> QED
    BY <1>2

\* The naturals are well-ordered.
LEMMA LeastNatural ==
    ASSUME NEW T \in SUBSET Nat, T # {}
    PROVE  \E m \in T : \A n \in T : m <= n
<1> DEFINE R == OpToRel(<, Nat)
<1>1. \A m, n \in Nat : m < n => <<m, n>> \in R
    BY DEF OpToRel
<1>2. IsWellFoundedOn(R, Nat)
    BY NatLessThanWellFounded
<1> HIDE DEF R
<1>3. PICK m \in T : \A n \in T : <<n, m>> \notin R
    BY <1>2, WFMin
<1>4. \A n \in T : m <= n
    <2>1. ASSUME NEW n \in T
          PROVE  ~(n < m)
        BY <1>1, <1>3
    <2> QED
        BY <2>1
<1> QED
    BY <1>4
=============================================================================
