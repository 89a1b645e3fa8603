----------------------------- MODULE SumLemmas -----------------------------
(***************************************************************************)
(* What the proofs need to know of SumFunctionOnSet, the sum of a function *)
(* over a finite set.  Its recursion removes one chosen member of the set  *)
(* at a time; an induction over the subsets of a finite set follows from   *)
(* the least number principle, which follows from the well-foundedness of  *)
(* < on the naturals, and so does one over a range of integers.            *)
(***************************************************************************)
EXTENDS Integers, FiniteSets, Functions, FiniteSetTheorems, WellFoundedInduction, TLAPS

\* < on the naturals is well founded, with the relation written out.
LEMMA NatWellFounded == IsWellFoundedOn({ss \in Nat \X Nat : ss[1] < ss[2]}, Nat)
  BY NatLessThanWellFounded DEF OpToRel

\* Every non-empty set of naturals has a least member.
LEMMA LeastNumber == ASSUME NEW T, T \subseteq Nat, T # {}
  PROVE \E x \in T : \A y \in T : x <= y
<1>1. PICK R : R = {ss \in Nat \X Nat : ss[1] < ss[2]}
  OBVIOUS
<1>2. IsWellFoundedOn(R, Nat)
  BY <1>1, NatWellFounded
<1>3. PICK x \in T : \A y \in T : <<y, x>> \notin R
  BY <1>2, WFMin
<1>4. x \in Nat
  OBVIOUS
<1>5. ASSUME NEW y \in T PROVE x <= y
  <2>1. y \in Nat
    OBVIOUS
  <2>2. ~(y < x)
    <3> SUFFICES ASSUME y < x PROVE FALSE
      OBVIOUS
    <3>1. <<y, x>> \in R
      BY <1>1, <1>4, <2>1
    <3> QED BY <3>1, <1>3
  <2> QED BY <2>1, <2>2, <1>4
<1> QED BY <1>5

\* Induction over a range of integers that starts at a natural number.
LEMMA RangeInduction ==
  ASSUME NEW a \in Nat, NEW b \in Nat, a <= b, NEW T, a \in T,
         \A n \in a..b : n \in T /\ n < b => n + 1 \in T
  PROVE  \A n \in a..b : n \in T
<1> SUFFICES ASSUME NEW n \in a..b, n \notin T PROVE FALSE
  OBVIOUS
<1>1. PICK B : B = {m \in a..b : m \notin T}
  OBVIOUS
<1>2. B \subseteq Nat /\ B # {}
  BY <1>1
<1>3. PICK m \in B : \A k \in B : m <= k
  BY <1>2, LeastNumber
<1>4. m \in a..b /\ m # a /\ m - 1 \in a..b /\ m - 1 < b
  BY <1>1
<1>5. m - 1 \notin B
  BY <1>3, <1>4
<1>6. (m - 1) + 1 \in T
  BY <1>1, <1>4, <1>5
<1> QED BY <1>1, <1>4, <1>6

\* The member the recursion of SumFunctionOnSet takes first.
Pick(s) == CHOOSE x \in s : TRUE

\* g sums f over the members of S, a set of sets closed under removing Pick.
IsSum(g, f, S) ==
  g = [s \in S |-> IF s = {} THEN 0 ELSE f[Pick(s)] + g[s \ {Pick(s)}]]

\* SumFunctionOnSet is the function IsSum describes, taken at the whole set.
LEMMA SumUnfolds ==
  ASSUME NEW f, NEW D
  PROVE  SumFunctionOnSet(f, D) = (CHOOSE g : IsSum(g, f, SUBSET D))[D]
BY DEF SumFunctionOnSet, FoldFunctionOnSet, MapThenFoldSet, IsSum, Pick

\* Removing the chosen member makes a finite set smaller by one.
LEMMA PickRemoves ==
  ASSUME NEW s, IsFiniteSet(s), s # {}
  PROVE  /\ Pick(s) \in s
         /\ IsFiniteSet(s \ {Pick(s)})
         /\ Cardinality(s) \in Nat
         /\ Cardinality(s \ {Pick(s)}) \in Nat
         /\ Cardinality(s \ {Pick(s)}) = Cardinality(s) - 1
<1>1. Pick(s) \in s
  BY DEF Pick
<1> QED BY <1>1, FS_RemoveElement, FS_CardinalityType

\* Induction over the subsets of a finite set, one Pick at a time.
LEMMA SubsetInduction ==
  ASSUME NEW D, IsFiniteSet(D), NEW T, {} \in T,
         \A s \in SUBSET D : s # {} /\ s \ {Pick(s)} \in T => s \in T
  PROVE  \A s \in SUBSET D : s \in T
<1> SUFFICES ASSUME NEW s \in SUBSET D, s \notin T PROVE FALSE
  OBVIOUS
<1>1. PICK B : B = {t \in SUBSET D : t \notin T}
  OBVIOUS
<1>2. PICK N : N = {Cardinality(t) : t \in B}
  OBVIOUS
<1>3. \A t \in B : IsFiniteSet(t) /\ Cardinality(t) \in Nat /\ t \in SUBSET D /\ t \notin T
  BY <1>1, FS_Subset, FS_CardinalityType
<1>4. PICK n \in N : \A m \in N : n <= m
  <2>1. N \subseteq Nat /\ N # {}
    BY <1>1, <1>2, <1>3
  <2> QED BY <2>1, LeastNumber
<1>5. PICK t \in B : n = Cardinality(t)
  BY <1>2
<1>6. t # {}
  BY <1>3
<1>7. t \ {Pick(t)} \in B
  BY <1>1, <1>3, <1>6
<1>8. Cardinality(t \ {Pick(t)}) = Cardinality(t) - 1 /\ Cardinality(t) \in Nat
  BY <1>3, <1>6, PickRemoves
<1>9. n <= Cardinality(t \ {Pick(t)})
  BY <1>2, <1>4, <1>7
<1> QED BY <1>5, <1>8, <1>9

\* The subsets of D with at most n members.
UpTo(D, n) == {s \in SUBSET D : Cardinality(s) <= n}

\* The recursion has a solution on the small subsets, whatever "small" is.
LEMMA SumExistsUpTo ==
  ASSUME NEW f, NEW D, IsFiniteSet(D)
  PROVE  \A n \in Nat : \E g : IsSum(g, f, UpTo(D, n))
<1>1. PICK Bad : Bad = {n \in Nat : ~ \E g : IsSum(g, f, UpTo(D, n))}
  OBVIOUS
<1>2. SUFFICES ASSUME Bad # {} PROVE FALSE
  BY <1>1
<1>3. PICK n \in Bad : \A m \in Bad : n <= m
  BY <1>1, <1>2, LeastNumber
<1>4. n \in Nat /\ ~ \E g : IsSum(g, f, UpTo(D, n))
  BY <1>1
<1>5. \A s \in SUBSET D : IsFiniteSet(s) /\ Cardinality(s) \in Nat
  BY FS_Subset, FS_CardinalityType
<1>6. CASE n = 0
  <2>1. \A s \in UpTo(D, 0) : s = {}
    BY <1>5, FS_EmptySet DEF UpTo
  <2>2. IsSum([s \in UpTo(D, 0) |-> 0], f, UpTo(D, 0))
    BY <2>1 DEF IsSum
  <2> QED BY <1>4, <1>6, <2>2
<1>7. CASE n # 0
  <2>1. n - 1 \in Nat /\ n - 1 \notin Bad
    BY <1>3, <1>4, <1>7
  <2>2. PICK g : IsSum(g, f, UpTo(D, n - 1))
    BY <1>1, <2>1
  <2>3. PICK h : h = [s \in UpTo(D, n) |->
                        IF s = {} THEN 0 ELSE f[Pick(s)] + g[s \ {Pick(s)}]]
    OBVIOUS
  <2>4. ASSUME NEW s \in UpTo(D, n), s # {}
        PROVE  s \ {Pick(s)} \in UpTo(D, n - 1) /\ s \ {Pick(s)} \in UpTo(D, n)
    <3>1. s \in SUBSET D /\ Cardinality(s) <= n
      BY DEF UpTo
    <3>2. Cardinality(s \ {Pick(s)}) = Cardinality(s) - 1
      BY <1>5, <2>4, <3>1, PickRemoves
    <3>3. s \ {Pick(s)} \in SUBSET D
      BY <3>1
    <3> QED BY <1>4, <1>5, <3>1, <3>2, <3>3 DEF UpTo
  <2>5. \A s \in UpTo(D, n - 1) :
           g[s] = IF s = {} THEN 0 ELSE f[Pick(s)] + g[s \ {Pick(s)}]
    BY <2>2 DEF IsSum
  <2>6. \A s \in UpTo(D, n) :
           s # {} => h[s \ {Pick(s)}] = g[s \ {Pick(s)}]
    BY <2>3, <2>4, <2>5
  <2>7. IsSum(h, f, UpTo(D, n))
    BY <2>3, <2>6 DEF IsSum
  <2> QED BY <1>4, <2>7
<1> QED BY <1>6, <1>7

\* The sum over a finite set is the value of a function that obeys the recursion.
LEMMA SumDefined ==
  ASSUME NEW f, NEW D, IsFiniteSet(D)
  PROVE  \E g : /\ g[{}] = 0
                /\ \A s \in SUBSET D :
                      s # {} => g[s] = f[Pick(s)] + g[s \ {Pick(s)}]
                /\ SumFunctionOnSet(f, D) = g[D]
<1>1. UpTo(D, Cardinality(D)) = SUBSET D /\ Cardinality(D) \in Nat
  BY FS_Subset, FS_CardinalityType DEF UpTo
<1>2. \E g : IsSum(g, f, SUBSET D)
  <2>1. \A n \in Nat : \E g : IsSum(g, f, UpTo(D, n))
    BY SumExistsUpTo
  <2>2. \E g : IsSum(g, f, UpTo(D, Cardinality(D)))
    BY <1>1, <2>1
  <2> QED BY <1>1, <2>2
<1>3. PICK g : g = (CHOOSE h : IsSum(h, f, SUBSET D))
  OBVIOUS
<1>4. IsSum(g, f, SUBSET D)
  BY <1>2, <1>3
<1>5. \A s \in SUBSET D : g[s] = IF s = {} THEN 0 ELSE f[Pick(s)] + g[s \ {Pick(s)}]
  BY <1>4 DEF IsSum
<1>6. SumFunctionOnSet(f, D) = g[D]
  BY <1>3, SumUnfolds
<1>7. {} \in SUBSET D
  OBVIOUS
<1> QED BY <1>5, <1>6, <1>7

\* A sum of naturals is a natural that no summand exceeds.
LEMMA SumOfNaturals ==
  ASSUME NEW D, IsFiniteSet(D), NEW f \in [D -> Nat]
  PROVE  /\ SumFunctionOnSet(f, D) \in Nat
         /\ \A x \in D : f[x] <= SumFunctionOnSet(f, D)
<1>1. PICK g : /\ g[{}] = 0
               /\ \A s \in SUBSET D : s # {} => g[s] = f[Pick(s)] + g[s \ {Pick(s)}]
               /\ SumFunctionOnSet(f, D) = g[D]
  BY SumDefined
<1>2. PICK T : T = {s \in SUBSET D : g[s] \in Nat /\ \A x \in s : f[x] <= g[s]}
  OBVIOUS
<1>3. {} \in T
  BY <1>1, <1>2
<1>4. ASSUME NEW s \in SUBSET D, s # {}, s \ {Pick(s)} \in T
      PROVE  s \in T
  <2>1. Pick(s) \in s /\ Pick(s) \in D
    BY <1>4 DEF Pick
  <2>2. g[s] = f[Pick(s)] + g[s \ {Pick(s)}]
    BY <1>1, <1>4
  <2>3. g[s \ {Pick(s)}] \in Nat /\ \A x \in s \ {Pick(s)} : f[x] <= g[s \ {Pick(s)}]
    BY <1>2, <1>4
  <2>4. \A x \in s : x \in D /\ f[x] \in Nat
    OBVIOUS
  <2>5. g[s] \in Nat
    BY <2>1, <2>2, <2>3, <2>4
  <2>6. ASSUME NEW x \in s PROVE f[x] <= g[s]
    <3>1. CASE x = Pick(s)
      BY <2>2, <2>3, <2>4, <3>1
    <3>2. CASE x # Pick(s)
      BY <2>1, <2>2, <2>3, <2>4, <3>2
    <3> QED BY <3>1, <3>2
  <2> QED BY <1>2, <2>5, <2>6
<1>5. D \in T
  <2>1. \A s \in SUBSET D : s \in T
    BY <1>3, <1>4, SubsetInduction
  <2> QED BY <2>1
<1> QED BY <1>1, <1>2, <1>5

\* A sum of zeros is zero.
LEMMA SumOfZeros ==
  ASSUME NEW D, IsFiniteSet(D), NEW f, \A x \in D : f[x] = 0
  PROVE  SumFunctionOnSet(f, D) = 0
<1>1. PICK g : /\ g[{}] = 0
               /\ \A s \in SUBSET D : s # {} => g[s] = f[Pick(s)] + g[s \ {Pick(s)}]
               /\ SumFunctionOnSet(f, D) = g[D]
  BY SumDefined
<1>2. PICK T : T = {s \in SUBSET D : g[s] = 0}
  OBVIOUS
<1>3. {} \in T
  BY <1>1, <1>2
<1>4. ASSUME NEW s \in SUBSET D, s # {}, s \ {Pick(s)} \in T
      PROVE  s \in T
  <2>1. Pick(s) \in D
    BY <1>4 DEF Pick
  <2>2. g[s] = f[Pick(s)] + g[s \ {Pick(s)}]
    BY <1>1, <1>4
  <2>3. f[Pick(s)] = 0 /\ g[s \ {Pick(s)}] = 0
    BY <1>2, <1>4, <2>1
  <2>4. g[s] = 0
    BY <2>2, <2>3
  <2> QED BY <1>2, <2>4
<1>5. D \in T
  <2>1. \A s \in SUBSET D : s \in T
    BY <1>3, <1>4, SubsetInduction
  <2> QED BY <2>1
<1> QED BY <1>1, <1>2, <1>5

\* Changing one summand changes the sum by as much.
LEMMA SumUpdate ==
  ASSUME NEW D, IsFiniteSet(D), NEW f \in [D -> Nat], NEW h \in [D -> Nat],
         NEW d \in D, \A x \in D : x # d => h[x] = f[x]
  PROVE  SumFunctionOnSet(h, D) = SumFunctionOnSet(f, D) + h[d] - f[d]
<1>1. PICK F : /\ F[{}] = 0
               /\ \A s \in SUBSET D : s # {} => F[s] = f[Pick(s)] + F[s \ {Pick(s)}]
               /\ SumFunctionOnSet(f, D) = F[D]
  BY ONLY ZenonT(60), IsFiniteSet(D), SumDefined
<1>2. PICK H : /\ H[{}] = 0
               /\ \A s \in SUBSET D : s # {} => H[s] = h[Pick(s)] + H[s \ {Pick(s)}]
               /\ SumFunctionOnSet(h, D) = H[D]
  BY ONLY ZenonT(60), IsFiniteSet(D), SumDefined
<1>3. PICK T : T = {s \in SUBSET D :
                      /\ F[s] \in Nat /\ H[s] \in Nat
                      /\ H[s] = IF d \in s THEN F[s] + h[d] - f[d] ELSE F[s]}
  OBVIOUS
<1>4. {} \in T
  BY <1>1, <1>2, <1>3
<1>5. ASSUME NEW s \in SUBSET D, s # {}, s \ {Pick(s)} \in T
      PROVE  s \in T
  <2>1. Pick(s) \in s /\ Pick(s) \in D
    BY <1>5 DEF Pick
  <2>2. f[Pick(s)] \in Nat /\ h[Pick(s)] \in Nat /\ f[d] \in Nat /\ h[d] \in Nat
    BY <2>1
  <2>3. /\ F[s] = f[Pick(s)] + F[s \ {Pick(s)}]
        /\ H[s] = h[Pick(s)] + H[s \ {Pick(s)}]
    BY <1>1, <1>2, <1>5
  <2>4. /\ F[s \ {Pick(s)}] \in Nat /\ H[s \ {Pick(s)}] \in Nat
        /\ H[s \ {Pick(s)}] = IF d \in s \ {Pick(s)}
                              THEN F[s \ {Pick(s)}] + h[d] - f[d]
                              ELSE F[s \ {Pick(s)}]
    BY <1>3, <1>5
  <2>5. CASE d = Pick(s)
    BY <1>3, <2>1, <2>2, <2>3, <2>4, <2>5
  <2>6. CASE d # Pick(s)
    <3>1. h[Pick(s)] = f[Pick(s)]
      BY <2>1, <2>6
    <3>2. d \in s <=> d \in s \ {Pick(s)}
      BY <2>6
    <3> QED BY <1>3, <2>1, <2>2, <2>3, <2>4, <3>1, <3>2
  <2> QED BY <2>5, <2>6
<1>6. D \in T
  <2>1. \A s \in SUBSET D : s \in T
    BY <1>4, <1>5, SubsetInduction
  <2> QED BY <2>1
<1> QED BY <1>1, <1>2, <1>3, <1>6

\* Induction over the subsets of a finite set, from all smaller ones.
LEMMA StrongSubsetInduction ==
  ASSUME NEW D, IsFiniteSet(D), NEW T,
         \A s \in SUBSET D : (\A t \in SUBSET s : t # s => t \in T) => s \in T
  PROVE  \A s \in SUBSET D : s \in T
<1> SUFFICES ASSUME NEW s \in SUBSET D, s \notin T PROVE FALSE
  OBVIOUS
<1>1. PICK B : B = {t \in SUBSET D : t \notin T}
  OBVIOUS
<1>2. PICK N : N = {Cardinality(t) : t \in B}
  OBVIOUS
<1>3. \A t \in B : IsFiniteSet(t) /\ Cardinality(t) \in Nat /\ t \in SUBSET D /\ t \notin T
  BY <1>1, FS_Subset, FS_CardinalityType
<1>4. PICK n \in N : \A m \in N : n <= m
  <2>1. N \subseteq Nat /\ N # {}
    BY <1>1, <1>2, <1>3
  <2> QED BY <2>1, LeastNumber
<1>5. PICK t \in B : n = Cardinality(t)
  BY <1>2
<1>6. ASSUME NEW r \in SUBSET t, r # t PROVE r \in T
  <2>1. r \in SUBSET D
    BY <1>3
  <2>2. Cardinality(r) < n
    BY <1>3, <1>5, <1>6, FS_Subset, FS_CardinalityType
  <2>3. r \notin B
    <3> SUFFICES ASSUME r \in B PROVE FALSE
      OBVIOUS
    <3>1. n <= Cardinality(r) /\ Cardinality(r) \in Nat /\ n \in Nat
      BY <1>2, <1>3, <1>4, <1>5
    <3> QED BY <2>2, <3>1
  <2> QED BY <1>1, <2>1, <2>3
<1> QED BY <1>3, <1>6

\* F sums f over the subsets of D, whichever member is taken out first.
ByMembers(F, f, D) ==
  /\ F[{}] = 0
  /\ \A s \in SUBSET D : F[s] \in Nat /\ \A x \in s : F[s] = f[x] + F[s \ {x}]

\* The order of summation does not matter: any member can be taken out first.
LEMMA AnyOrder ==
  ASSUME NEW D, IsFiniteSet(D), NEW f \in [D -> Nat], NEW F, F[{}] = 0,
         \A s \in SUBSET D : s # {} => F[s] = f[Pick(s)] + F[s \ {Pick(s)}]
  PROVE  ByMembers(F, f, D)
<1>1. PICK T : T = {s \in SUBSET D : F[s] \in Nat /\ \A x \in s : F[s] = f[x] + F[s \ {x}]}
  OBVIOUS
<1>2. ASSUME NEW s \in SUBSET D, \A t \in SUBSET s : t # s => t \in T
      PROVE  s \in T
  <2>1. CASE s = {}
    BY <1>1, <2>1
  <2>2. CASE s # {}
    <3>1. PICK p : p = Pick(s)
      OBVIOUS
    <3>2. p \in s /\ p \in D /\ F[s] = f[p] + F[s \ {p}] /\ f[p] \in Nat
      BY <2>2, <3>1 DEF Pick
    <3>3. s \ {p} \in T
      BY <1>2, <3>2
    <3>4. F[s \ {p}] \in Nat
      BY <1>1, <3>3
    <3>5. ASSUME NEW x \in s PROVE F[s] = f[x] + F[s \ {x}]
      <4>1. CASE x = p
        BY <3>2, <4>1
      <4>2. CASE x # p
        <5>1. PICK r : r = s \ {p, x}
          OBVIOUS
        <5>2. /\ (s \ {p}) \ {x} = r /\ (s \ {x}) \ {p} = r
              /\ s \ {x} \in T /\ r \in T /\ x \in s \ {p} /\ p \in s \ {x}
          BY <1>2, <3>2, <4>2, <5>1
        <5>3. F[s \ {p}] = f[x] + F[r]
          BY <1>1, <3>3, <5>2
        <5>4. F[s \ {x}] = f[p] + F[r]
          BY <1>1, <5>2
        <5>5. F[r] \in Nat /\ f[x] \in Nat
          BY <1>1, <5>2
        <5> QED BY <3>2, <5>3, <5>4, <5>5
      <4> QED BY <4>1, <4>2
    <3>6. F[s] \in Nat
      BY <3>2, <3>4
    <3> QED BY <1>1, <3>5, <3>6
  <2> QED BY <2>1, <2>2
<1>3. \A s \in SUBSET D : s \in T
  BY <1>2, StrongSubsetInduction
<1> QED BY <1>1, <1>3 DEF ByMembers

\* The sum over a finite set, with the order of summation left open.
LEMMA SumByMembers ==
  ASSUME NEW D, IsFiniteSet(D), NEW f \in [D -> Nat]
  PROVE  \E F : ByMembers(F, f, D) /\ SumFunctionOnSet(f, D) = F[D]
<1>1. PICK F : /\ F[{}] = 0
               /\ \A s \in SUBSET D : s # {} => F[s] = f[Pick(s)] + F[s \ {Pick(s)}]
               /\ SumFunctionOnSet(f, D) = F[D]
  BY SumDefined
<1>2. ByMembers(F, f, D)
  BY <1>1, AnyOrder
<1> QED BY <1>1, <1>2

\* Two sums over the same set agree when their summands do.
LEMMA AgreeingSums ==
  ASSUME NEW E, IsFiniteSet(E), NEW f, NEW g, NEW F, NEW G,
         \A x \in E : g[x] = f[x], ByMembers(F, f, E), ByMembers(G, g, E)
  PROVE  G[E] = F[E]
<1>1. PICK T : T = {s \in SUBSET E : G[s] = F[s]}
  OBVIOUS
<1>2. {} \in T
  BY <1>1 DEF ByMembers
<1>3. ASSUME NEW s \in SUBSET E, s # {} /\ s \ {Pick(s)} \in T PROVE s \in T
  <2>1. PICK p : p = Pick(s)
    OBVIOUS
  <2>2. p \in s
    BY <1>3, <2>1 DEF Pick
  <2>3. G[s \ {p}] = F[s \ {p}] /\ g[p] = f[p]
    BY <1>1, <1>3, <2>1, <2>2
  <2>4. G[s] = g[p] + G[s \ {p}] /\ F[s] = f[p] + F[s \ {p}]
    BY <2>2 DEF ByMembers
  <2> QED BY <1>1, <2>3, <2>4
<1>4. \A s \in SUBSET E : s \in T
  BY <1>2, <1>3, SubsetInduction
<1> QED BY <1>1, <1>4

\* Zeros do not add to a sum.
LEMMA ZerosDrop ==
  ASSUME NEW D, IsFiniteSet(D), NEW E \in SUBSET D, NEW f, NEW F,
         \A x \in D \ E : f[x] = 0, ByMembers(F, f, D)
  PROVE  F[D] = F[E]
<1>1. PICK T : T = {s \in SUBSET D : F[s] = F[s \cap E]}
  OBVIOUS
<1>2. {} \in T
  <2>1. {} \cap E = {}
    OBVIOUS
  <2> QED BY <1>1, <2>1
<1>3. ASSUME NEW s \in SUBSET D, s # {} /\ s \ {Pick(s)} \in T PROVE s \in T
  <2>1. PICK p, r : p = Pick(s) /\ r = s \ {Pick(s)}
    OBVIOUS
  <2>2. p \in s /\ p \in D /\ r = s \ {p} /\ r \in SUBSET D
    BY <1>3, <2>1 DEF Pick
  <2>3. F[s] = f[p] + F[r] /\ F[r] \in Nat
    BY <2>2 DEF ByMembers
  <2>4. F[r] = F[r \cap E]
    BY <1>1, <1>3, <2>1
  <2>5. CASE p \in E
    <3>1. PICK t : t = s \cap E
      OBVIOUS
    <3>2. r \cap E = t \ {p} /\ p \in t /\ t \in SUBSET D
      BY <2>2, <2>5, <3>1
    <3>3. F[t] = f[p] + F[t \ {p}]
      BY <3>2 DEF ByMembers
    <3>4. F[s] = F[t]
      BY <2>3, <2>4, <3>2, <3>3
    <3> QED BY <1>1, <3>1, <3>4
  <2>6. CASE p \notin E
    <3>1. r \cap E = s \cap E
      BY <2>2, <2>6
    <3>2. f[p] = 0
      BY <2>2, <2>6
    <3>3. F[s] = F[r]
      BY <2>3, <3>2
    <3> QED BY <1>1, <2>4, <3>1, <3>3
  <2> QED BY <2>5, <2>6
<1>4. \A s \in SUBSET D : s \in T
  BY <1>2, <1>3, SubsetInduction
<1>5. D \cap E = E
  OBVIOUS
<1> QED BY <1>1, <1>4, <1>5

\* A function that is zero outside E is summed by summing over E.
LEMMA SumOverSupport ==
  ASSUME NEW D, IsFiniteSet(D), NEW f \in [D -> Nat], NEW E \in SUBSET D,
         \A x \in D \ E : f[x] = 0, NEW g \in [E -> Nat], \A x \in E : g[x] = f[x]
  PROVE  SumFunctionOnSet(g, E) = SumFunctionOnSet(f, D)
<1>1. IsFiniteSet(E)
  BY FS_Subset
<1>2. PICK F : ByMembers(F, f, D) /\ SumFunctionOnSet(f, D) = F[D]
  BY SumByMembers
<1>3. PICK G : ByMembers(G, g, E) /\ SumFunctionOnSet(g, E) = G[E]
  BY <1>1, SumByMembers
<1>4. ByMembers(F, f, E)
  <2>1. \A s \in SUBSET E : s \in SUBSET D
    OBVIOUS
  <2> QED BY <1>2, <2>1 DEF ByMembers
<1>5. G[E] = F[E]
  BY <1>1, <1>3, <1>4, AgreeingSums
<1>6. F[D] = F[E]
  BY <1>2, ZerosDrop
<1> QED BY <1>2, <1>3, <1>5, <1>6

\* A bound on every summand, as a proportion, is a bound on the sum.
LEMMA SumInProportion ==
  ASSUME NEW D, IsFiniteSet(D), NEW f \in [D -> Nat], NEW g \in [D -> Nat],
         NEW a \in Nat, NEW b \in Nat, \A x \in D : f[x] * b <= g[x] * a
  PROVE  SumFunctionOnSet(f, D) * b <= SumFunctionOnSet(g, D) * a
<1>1. PICK F : /\ F[{}] = 0
               /\ \A s \in SUBSET D : s # {} => F[s] = f[Pick(s)] + F[s \ {Pick(s)}]
               /\ SumFunctionOnSet(f, D) = F[D]
  BY SumDefined
<1>2. PICK G : /\ G[{}] = 0
               /\ \A s \in SUBSET D : s # {} => G[s] = g[Pick(s)] + G[s \ {Pick(s)}]
               /\ SumFunctionOnSet(g, D) = G[D]
  BY SumDefined
<1>3. PICK T : T = {s \in SUBSET D : F[s] \in Nat /\ G[s] \in Nat /\ F[s] * b <= G[s] * a}
  OBVIOUS
<1>4. {} \in T
  BY <1>1, <1>2, <1>3
<1>5. ASSUME NEW s \in SUBSET D, s # {} /\ s \ {Pick(s)} \in T PROVE s \in T
  <2>1. PICK p, r : p = Pick(s) /\ r = s \ {Pick(s)}
    OBVIOUS
  <2>2. /\ p \in D /\ F[s] = f[p] + F[r] /\ G[s] = g[p] + G[r]
    BY <1>1, <1>2, <1>5, <2>1 DEF Pick
  <2>3. /\ F[r] \in Nat /\ G[r] \in Nat /\ F[r] * b <= G[r] * a
        /\ f[p] \in Nat /\ g[p] \in Nat /\ f[p] * b <= g[p] * a
    BY <1>3, <1>5, <2>1, <2>2
  <2>4. \A i, j, k \in Nat : (i + j) * k = i * k + j * k /\ i * k \in Nat
    OBVIOUS
  <2>5. F[s] * b = f[p] * b + F[r] * b /\ G[s] * a = g[p] * a + G[r] * a
    BY <2>2, <2>3, <2>4
  <2>6. /\ f[p] * b \in Nat /\ F[r] * b \in Nat /\ g[p] * a \in Nat /\ G[r] * a \in Nat
    BY <2>3, <2>4
  <2>7. F[s] * b <= G[s] * a
    BY <2>3, <2>5, <2>6
  <2> QED BY <1>3, <2>2, <2>3, <2>7
<1>6. D \in T
  <2>1. \A s \in SUBSET D : s \in T
    BY <1>4, <1>5, SubsetInduction
  <2> QED BY <2>1
<1> QED BY <1>1, <1>2, <1>3, <1>6

\* A sum over a range of numbers, with one more at its end.
LEMMA SumAppend ==
  ASSUME NEW n \in Nat, NEW g \in [1..n -> Nat], NEW h \in [1..(n + 1) -> Nat],
         \A i \in 1..n : h[i] = g[i]
  PROVE  SumFunctionOnSet(h, 1..(n + 1)) = SumFunctionOnSet(g, 1..n) + h[n + 1]
<1>1. PICK D : D = 1..(n + 1)
  OBVIOUS
<1>2. PICK E : E = 1..n
  OBVIOUS
<1>3. IsFiniteSet(D) /\ E \in SUBSET D /\ n + 1 \in D /\ n + 1 \notin E /\ D \ E = {n + 1}
  <2>1. IsFiniteSet(D)
    <3>1. 1 \in Int /\ n + 1 \in Int
      OBVIOUS
    <3> QED BY <1>1, <3>1, FS_Interval
  <2>2. E \in SUBSET D /\ n + 1 \in D /\ n + 1 \notin E
    BY <1>1, <1>2
  <2>3. \A i \in D : i = n + 1 \/ i \in E
    BY <1>1, <1>2
  <2> QED BY <2>1, <2>2, <2>3
<1>4. PICK f : f = [i \in D |-> IF i = n + 1 THEN 0 ELSE h[i]]
  OBVIOUS
<1>5. f \in [D -> Nat] /\ h \in [D -> Nat] /\ g \in [E -> Nat]
  BY <1>1, <1>2, <1>4
<1>6. SumFunctionOnSet(g, E) = SumFunctionOnSet(f, D)
  <2>1. \A x \in D \ E : f[x] = 0
    BY <1>3, <1>4
  <2>2. \A x \in E : g[x] = f[x]
    BY <1>2, <1>3, <1>4
  <2> QED BY <1>3, <1>5, <2>1, <2>2, SumOverSupport
<1>7. SumFunctionOnSet(h, D) = SumFunctionOnSet(f, D) + h[n + 1] - f[n + 1]
  <2>1. \A x \in D : x # n + 1 => h[x] = f[x]
    BY <1>4
  <2> QED BY <1>3, <1>5, <2>1, SumUpdate
<1>8. f[n + 1] = 0 /\ h[n + 1] \in Nat /\ SumFunctionOnSet(f, D) \in Nat
  BY <1>3, <1>4, <1>5, SumOfNaturals
<1> QED BY <1>1, <1>2, <1>6, <1>7, <1>8
=============================================================================
