----------------------------- MODULE SetLemmas ------------------------------
(***************************************************************************)
(* Lemmas about the operators on finite sets that the modules are built    *)
(* from: the least and the greatest element of a set of numbers, and the   *)
(* sum of a function over a set, which the community modules define by a   *)
(* recursive function (MapThenSumSet).                                     *)
(*                                                                         *)
(* The induction principles of the library take an operator as a           *)
(* parameter; what is proved by induction here uses the smallest           *)
(* counterexample instead (WFMin).                                         *)
(***************************************************************************)
EXTENDS Integers, FiniteSetsExt, FiniteSetTheorems, WellFoundedInduction, TLAPS

-----------------------------------------------------------------------------
(* Minimum and maximum *)

\* Min of the community modules picks the least element of the set.
LEMMA MinOfNaturals ==
    ASSUME NEW S, S \subseteq Nat, S # {}
    PROVE  Min(S) \in S /\ \A y \in S : Min(S) <= y
<1> DEFINE R == {ss \in Nat \X Nat : ss[1] < ss[2]}
<1>1. IsWellFoundedOn(R, Nat)
  BY NatLessThanWellFounded DEF OpToRel
<1> HIDE DEF R
<1>2. PICK x \in S : \A y \in S : ~ (<<y, x>> \in R)
  BY <1>1, WFMin
<1>3. \A y \in S : x <= y
  <2> TAKE y \in S
  <2>1. ~ (y < x)
    <3>1. y \in Nat /\ x \in Nat
      OBVIOUS
    <3>2. ~ (<<y, x>> \in R)
      BY <1>2
    <3> QED
      BY <3>1, <3>2 DEF R
  <2> QED
    BY <2>1
<1> QED
  BY <1>3 DEF Min

\* Max picks an element of a bounded set.
LEMMA MaxOfNaturals ==
    ASSUME NEW n \in Nat, NEW S, S \subseteq 0 .. n, S # {}
    PROVE  Max(S) \in S /\ \A y \in S : Max(S) >= y
<1> DEFINE T == {n - x : x \in S}
<1>1. T \subseteq Nat /\ T # {}
  <2>1. \A x \in S : n - x \in Nat
    OBVIOUS
  <2>2. PICK x \in S : TRUE
    OBVIOUS
  <2>3. n - x \in T
    BY <2>2
  <2> QED
    BY <2>1, <2>3
<1>2. Min(T) \in T /\ \A y \in T : Min(T) <= y
  BY <1>1, MinOfNaturals
<1>3. PICK x \in S : Min(T) = n - x
  BY <1>2
<1>4. \A y \in S : x >= y
  BY <1>2, <1>3
<1> QED
  BY <1>4 DEF Max

\* Among some subsets of a finite set there is a smallest one.
LEMMA SmallestSubset ==
    ASSUME NEW S, IsFiniteSet(S), NEW B, B \subseteq SUBSET S, B # {}
    PROVE  \E s \in B : \A t \in B : t \subseteq s => t = s
<1> DEFINE sizes == {Cardinality(s) : s \in B}
<1>1. \A s \in B : IsFiniteSet(s) /\ Cardinality(s) \in Nat
  BY FS_Subset, FS_CardinalityType
<1>2. sizes \subseteq Nat /\ sizes # {}
  BY <1>1
<1>3. PICK s \in B : \A t \in B : Cardinality(s) <= Cardinality(t)
  <2>1. Min(sizes) \in sizes /\ \A y \in sizes : Min(sizes) <= y
    BY <1>2, MinOfNaturals
  <2> QED
    BY <2>1
<1>4. ASSUME NEW t \in B, t \subseteq s
      PROVE  t = s
  <2>1. Cardinality(t) \in Nat /\ Cardinality(s) \in Nat /\ Cardinality(s) <= Cardinality(t)
    BY <1>1, <1>3
  <2>2. IsFiniteSet(s)
    BY <1>1
  <2>3. Cardinality(t) <= Cardinality(s) /\ (Cardinality(s) = Cardinality(t) => s = t)
    BY <2>2, <1>4, FS_Subset
  <2> QED
    BY <2>1, <2>3
<1> QED
  BY <1>4

\* A set has at least as many elements as its image under a function.
LEMMA ImageIsNoLarger ==
    ASSUME NEW f, NEW S, IsFiniteSet(S)
    PROVE  /\ IsFiniteSet({f[x] : x \in S})
           /\ Cardinality({f[x] : x \in S}) <= Cardinality(S)
<1> DEFINE T == {f[x] : x \in S}
           h == [x \in S |-> f[x]]
<1>1. h \in Surjection(S, T)
  BY DEF Surjection
<1> QED
  BY <1>1, FS_Surjection

-----------------------------------------------------------------------------
(* Sums *)

\* The sum of a[x] for the x of S.
SumOver(a, S) == MapThenSumSet(LAMBDA x : a[x], S)

\* What MapThenFoldSet does: it takes out one element after another.
AnyOf(s) == CHOOSE x \in s : TRUE
SumStep(a, g, s) == IF s = {} THEN 0 ELSE a[AnyOf(s)] + g[s \ {AnyOf(s)}]
Sums(a, S) == CHOOSE g : g = [s \in SUBSET S |-> SumStep(a, g, s)]

\* Its recursive function exists.
LEMMA SumsExist ==
    ASSUME NEW a, NEW S, IsFiniteSet(S)
    PROVE  \A s \in SUBSET S : Sums(a, S)[s] = SumStep(a, Sums(a, S), s)
<1> DEFINE UpTo(n) == {s \in SUBSET S : Cardinality(s) <= n}
           Good(n) == \E g : g = [s \in UpTo(n) |-> SumStep(a, g, s)]
           bad == {n \in Nat : ~ Good(n)}
<1>1. \A s \in SUBSET S : IsFiniteSet(s) /\ Cardinality(s) \in Nat
  BY FS_Subset, FS_CardinalityType
<1>2. \A s \in SUBSET S : s # {} =>
          /\ AnyOf(s) \in s
          /\ Cardinality(s \ {AnyOf(s)}) = Cardinality(s) - 1
          /\ s \ {AnyOf(s)} \in SUBSET S
  <2> TAKE s \in SUBSET S
  <2> HAVE s # {}
  <2>1. AnyOf(s) \in s
    BY DEF AnyOf
  <2>2. Cardinality(s \ {AnyOf(s)}) = Cardinality(s) - 1
    BY <1>1, <2>1, FS_RemoveElement
  <2> QED
    BY <2>1, <2>2
<1>3. \A s \in SUBSET S : Cardinality(s) = 0 => s = {}
  BY <1>1, FS_EmptySet
<1>4. Good(0)
  <2> DEFINE g == [s \in UpTo(0) |-> 0]
  <2>1. \A s \in UpTo(0) : s = {}
    BY <1>1, <1>3
  <2>2. g = [s \in UpTo(0) |-> SumStep(a, g, s)]
    BY <2>1 DEF SumStep
  <2> QED
    BY <2>2
<1>5. ASSUME NEW n \in Nat, Good(n)
      PROVE  Good(n + 1)
  <2>1. PICK g : g = [s \in UpTo(n) |-> SumStep(a, g, s)]
    BY <1>5
  <2> DEFINE h == [s \in UpTo(n + 1) |-> SumStep(a, g, s)]
  <2>2. ASSUME NEW s \in UpTo(n + 1), s # {}
        PROVE  s \ {AnyOf(s)} \in UpTo(n)
    BY <1>1, <1>2, <2>2
  <2>3. \A s \in UpTo(n) : s \in UpTo(n + 1) /\ h[s] = g[s]
    BY <1>1, <2>1
  <2>4. ASSUME NEW s \in UpTo(n + 1)
        PROVE  SumStep(a, g, s) = SumStep(a, h, s)
    BY <2>2, <2>3 DEF SumStep
  <2> HIDE DEF UpTo
  <2>5. h = [s \in UpTo(n + 1) |-> SumStep(a, h, s)]
    BY <2>4
  <2> QED
    BY <2>5
<1> HIDE DEF Good
<1>6. bad = {}
  <2> SUFFICES ASSUME bad # {} PROVE FALSE
    OBVIOUS
  <2> DEFINE m == Min(bad)
  <2>1. m \in bad /\ \A y \in bad : m <= y
    BY MinOfNaturals
  <2> HIDE DEF m
  <2>2. m \in Nat /\ m # 0 /\ ~ Good(m)
    BY <1>4, <2>1
  <2>3. m - 1 \in Nat /\ Good(m - 1)
    BY <2>1, <2>2
  <2>4. (m - 1) + 1 = m
    BY <2>2
  <2>5. Good((m - 1) + 1)
    BY <1>5, <2>3
  <2> QED
    BY <2>2, <2>4, <2>5
<1>7. Good(Cardinality(S))
  BY <1>1, <1>6
<1>8. UpTo(Cardinality(S)) = SUBSET S
  <2>1. \A s \in SUBSET S : Cardinality(s) <= Cardinality(S)
    BY FS_Subset
  <2> QED
    BY <2>1
<1>9. \E g : g = [s \in SUBSET S |-> SumStep(a, g, s)]
  <2>1. PICK g : g = [s \in UpTo(Cardinality(S)) |-> SumStep(a, g, s)]
    BY <1>7 DEF Good
  <2> QED
    BY <1>8, <2>1
<1>10. Sums(a, S) = [s \in SUBSET S |-> SumStep(a, Sums(a, S), s)]
  BY <1>9 DEF Sums
<1> QED
  BY <1>10

\* MapThenSumSet is an instance of it.
LEMMA SumIsSums ==
    ASSUME NEW a, NEW S
    PROVE  SumOver(a, S) = Sums(a, S)[S]
BY DEF SumOver, MapThenSumSet, MapThenFoldSet, Sums, SumStep, AnyOf

\* The recursive function for a set gives the sums over its subsets.
LEMMA SumsAgree ==
    ASSUME NEW a, NEW b, NEW S, NEW T, IsFiniteSet(S), IsFiniteSet(T),
           NEW s \in SUBSET (S \cap T), \A x \in s : a[x] = b[x]
    PROVE  Sums(a, S)[s] = Sums(b, T)[s]
<1> DEFINE bad == {t \in SUBSET s : Sums(a, S)[t] # Sums(b, T)[t]}
<1>1. IsFiniteSet(s)
  BY FS_Subset
<1>2. \A t \in SUBSET s : /\ Sums(a, S)[t] = SumStep(a, Sums(a, S), t)
                          /\ Sums(b, T)[t] = SumStep(b, Sums(b, T), t)
  <2> TAKE t \in SUBSET s
  <2>1. t \in SUBSET S /\ t \in SUBSET T
    OBVIOUS
  <2> QED
    BY <2>1, SumsExist
<1>3. bad = {}
  <2> SUFFICES ASSUME bad # {} PROVE FALSE
    OBVIOUS
  <2>1. PICK t \in bad : \A u \in bad : u \subseteq t => u = t
    <3>1. bad \subseteq SUBSET s
      OBVIOUS
    <3> HIDE DEF bad
    <3> QED
      BY <1>1, <3>1, SmallestSubset
  <2>2. CASE t = {}
    BY <1>2, <2>1, <2>2 DEF SumStep
  <2>3. CASE t # {}
    <3>1. AnyOf(t) \in t
      BY <2>3 DEF AnyOf
    <3>2. Sums(a, S)[t \ {AnyOf(t)}] = Sums(b, T)[t \ {AnyOf(t)}]
      BY <2>1, <3>1
    <3>3. a[AnyOf(t)] = b[AnyOf(t)]
      BY <2>1, <3>1
    <3>4. /\ Sums(a, S)[t] = a[AnyOf(t)] + Sums(a, S)[t \ {AnyOf(t)}]
          /\ Sums(b, T)[t] = b[AnyOf(t)] + Sums(b, T)[t \ {AnyOf(t)}]
      BY <1>2, <2>1, <2>3 DEF SumStep
    <3> QED
      BY <2>1, <3>2, <3>3, <3>4
  <2> QED
    BY <2>2, <2>3
<1> QED
  BY <1>3

\* Sums of functions that agree on a set are equal.
LEMMA SumsOfEquals ==
    ASSUME NEW a, NEW b, NEW S, IsFiniteSet(S), \A x \in S : a[x] = b[x]
    PROVE  SumOver(a, S) = SumOver(b, S)
BY SumIsSums, SumsAgree

\* Any function that takes out one element after another gives the sum.
LEMMA SumsUnique ==
    ASSUME NEW a, NEW S, IsFiniteSet(S), NEW g,
           \A s \in SUBSET S : g[s] = IF s = {} THEN 0 ELSE a[AnyOf(s)] + g[s \ {AnyOf(s)}]
    PROVE  g[S] = SumOver(a, S)
<1> DEFINE bad == {s \in SUBSET S : g[s] # Sums(a, S)[s]}
<1>1. \A s \in SUBSET S : Sums(a, S)[s] = SumStep(a, Sums(a, S), s)
  BY SumsExist
<1>2. bad = {}
  <2> SUFFICES ASSUME bad # {} PROVE FALSE
    OBVIOUS
  <2>1. PICK s \in bad : \A t \in bad : t \subseteq s => t = s
    <3>1. bad \subseteq SUBSET S
      OBVIOUS
    <3> HIDE DEF bad
    <3> QED
      BY <3>1, SmallestSubset
  <2>2. s # {}
    BY <1>1, <2>1 DEF SumStep
  <2>3. AnyOf(s) \in s
    BY <2>2 DEF AnyOf
  <2>4. s \ {AnyOf(s)} \in SUBSET S /\ s \ {AnyOf(s)} \notin bad
    BY <2>1, <2>3
  <2>5. g[s \ {AnyOf(s)}] = Sums(a, S)[s \ {AnyOf(s)}]
    BY <2>4
  <2> QED
    BY <1>1, <2>1, <2>2, <2>5 DEF SumStep
<1> QED
  BY <1>2, SumIsSums

\* The empty sum.
LEMMA SumOfNone ==
    ASSUME NEW a
    PROVE  SumOver(a, {}) = 0
<1>1. IsFiniteSet({})
  BY FS_EmptySet
<1>2. Sums(a, {})[{}] = SumStep(a, Sums(a, {}), {})
  BY <1>1, SumsExist
<1>3. Sums(a, {})[{}] = 0
  BY <1>2 DEF SumStep
<1> QED
  BY <1>3, SumIsSums

\* A sum is that of the rest and of the element taken out first.
LEMMA SumTakesOne ==
    ASSUME NEW a, NEW S, IsFiniteSet(S), S # {}
    PROVE  SumOver(a, S) = a[AnyOf(S)] + SumOver(a, S \ {AnyOf(S)})
<1> DEFINE T == S \ {AnyOf(S)}
<1>1. IsFiniteSet(T) /\ T \in SUBSET (S \cap T)
  BY FS_Subset
<1>2. Sums(a, S)[S] = SumStep(a, Sums(a, S), S)
  BY SumsExist
<1>3. Sums(a, S)[S] = a[AnyOf(S)] + Sums(a, S)[T]
  BY <1>2 DEF SumStep
<1>4. Sums(a, S)[T] = Sums(a, T)[T]
  BY <1>1, SumsAgree
<1> QED
  BY <1>3, <1>4, SumIsSums

\* Sums of integers are integers, and of natural numbers natural.
LEMMA SumType ==
    ASSUME NEW a, NEW S, IsFiniteSet(S), \A x \in S : a[x] \in Int
    PROVE  SumOver(a, S) \in Int /\ ((\A x \in S : a[x] \in Nat) => SumOver(a, S) \in Nat)
<1> DEFINE bad == {s \in SUBSET S :
              ~ (SumOver(a, s) \in Int /\ ((\A x \in S : a[x] \in Nat) => SumOver(a, s) \in Nat))}
<1> SUFFICES bad = {}
  OBVIOUS
<1> SUFFICES ASSUME bad # {} PROVE FALSE
  OBVIOUS
<1>1. PICK s \in bad : \A t \in bad : t \subseteq s => t = s
  <2>1. bad \subseteq SUBSET S
    OBVIOUS
  <2> HIDE DEF bad
  <2> QED
    BY <2>1, SmallestSubset
<1>2. CASE s = {}
  BY <1>1, <1>2, SumOfNone
<1>3. CASE s # {}
  <2>1. AnyOf(s) \in s /\ AnyOf(s) \in S
    BY <1>1, <1>3 DEF AnyOf
  <2>2. IsFiniteSet(s)
    BY <1>1, FS_Subset
  <2>3. SumOver(a, s) = a[AnyOf(s)] + SumOver(a, s \ {AnyOf(s)})
    BY <1>3, <2>2, SumTakesOne
  <2>4. s \ {AnyOf(s)} \notin bad /\ s \ {AnyOf(s)} \in SUBSET S
    BY <1>1, <2>1
  <2> DEFINE rest == SumOver(a, s \ {AnyOf(s)})
             x == AnyOf(s)
  <2>5. rest \in Int /\ ((\A y \in S : a[y] \in Nat) => rest \in Nat)
    BY <2>4
  <2> HIDE DEF rest, x
  <2>6. SumOver(a, s) = a[x] + rest
    BY <2>3 DEF rest, x
  <2>7. x \in S
    BY <2>1 DEF x
  <2> QED
    BY <1>1, <2>5, <2>6, <2>7
<1> QED
  BY <1>2, <1>3

\* Any element may be taken out of a sum.
LEMMA SumTakesAny ==
    ASSUME NEW a, NEW S, IsFiniteSet(S), \A x \in S : a[x] \in Int, NEW x \in S
    PROVE  SumOver(a, S) = a[x] + SumOver(a, S \ {x})
<1> DEFINE bad == {s \in SUBSET S : \E y \in s : SumOver(a, s) # a[y] + SumOver(a, s \ {y})}
<1> SUFFICES bad = {}
  OBVIOUS
<1> SUFFICES ASSUME bad # {} PROVE FALSE
  OBVIOUS
<1>1. PICK s \in bad : \A t \in bad : t \subseteq s => t = s
  <2>1. bad \subseteq SUBSET S
    OBVIOUS
  <2> HIDE DEF bad
  <2> QED
    BY <2>1, SmallestSubset
<1>2. PICK y \in s : SumOver(a, s) # a[y] + SumOver(a, s \ {y})
  BY <1>1
<1> DEFINE z == AnyOf(s)
<1>3. z \in s
  BY <1>2 DEF AnyOf
<1>4. SumOver(a, s) = a[z] + SumOver(a, s \ {z})
  <2>1. IsFiniteSet(s)
    BY <1>1, FS_Subset
  <2> QED
    BY <1>3, <2>1, SumTakesOne
<1> HIDE DEF z
<1>5. y # z
  BY <1>2, <1>4
<1> DEFINE rest == s \ {y, z}
<1>6. SumOver(a, s \ {z}) = a[y] + SumOver(a, rest)
  <2>1. s \ {z} \notin bad /\ s \ {z} \in SUBSET S /\ y \in s \ {z}
    BY <1>1, <1>2, <1>3, <1>5
  <2>2. (s \ {z}) \ {y} = rest
    OBVIOUS
  <2> QED
    BY <2>1, <2>2
<1>7. SumOver(a, s \ {y}) = a[z] + SumOver(a, rest)
  <2>1. s \ {y} \notin bad /\ s \ {y} \in SUBSET S /\ z \in s \ {y}
    BY <1>1, <1>2, <1>3, <1>5
  <2>2. (s \ {y}) \ {z} = rest
    OBVIOUS
  <2> QED
    BY <2>1, <2>2
<1>8. SumOver(a, rest) \in Int
  <2>1. rest \subseteq S /\ \A w \in rest : a[w] \in Int
    BY <1>1
  <2>2. IsFiniteSet(rest)
    BY <2>1, FS_Subset
  <2> QED
    BY <2>1, <2>2, SumType
<1>9. a[y] \in Int /\ a[z] \in Int
  BY <1>1, <1>2, <1>3
<1> QED
  BY <1>2, <1>4, <1>6, <1>7, <1>8, <1>9

\* One more element adds its value.
LEMMA SumAdds ==
    ASSUME NEW a, NEW S, IsFiniteSet(S), NEW x, x \notin S,
           \A y \in S \cup {x} : a[y] \in Int
    PROVE  SumOver(a, S \cup {x}) = a[x] + SumOver(a, S)
<1>1. IsFiniteSet(S \cup {x})
  BY FS_AddElement
<1>2. (S \cup {x}) \ {x} = S /\ x \in S \cup {x}
  OBVIOUS
<1> QED
  BY <1>1, <1>2, SumTakesAny
=============================================================================
