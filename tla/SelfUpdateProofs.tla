-------------------------- MODULE SelfUpdateProofs --------------------------
(***************************************************************************)
(* Proofs about ReleaseVersions and SelfUpdate.                             *)
(*                                                                          *)
(* compareReleaseVersions is a total order on what versions mean, however   *)
(* many parts they have; so the second fetch of Perform, whose manifest is  *)
(* not compared again, goes down only if the host does.  The loop of        *)
(* compareReleaseVersions is a recursive function; what that computes is    *)
(* shown with the least-number principle, which WellFoundedInduction has in *)
(* a form without an operator parameter.                                    *)
(***************************************************************************)
EXTENDS SelfUpdate, WellFoundedInduction, TLAPS

\* Every set of numbers that is not empty has a least one.
LEMMA LeastNumber ==
  ASSUME NEW T, T \subseteq Nat, T # {}
  PROVE  \E x \in T : \A y \in T : x <= y
<1> DEFINE R == {ss \in Nat \X Nat : ss[1] < ss[2]}
<1>1. IsWellFoundedOn(R, Nat)
  BY NatLessThanWellFounded DEF OpToRel
<1> HIDE DEF R
<1>2. PICK x \in T : \A y \in T : ~(<<y, x>> \in R)
  BY <1>1, WFMin
<1>3. \A y \in T : <<y, x>> \in R <=> y < x
  BY DEF R
<1>4. \A y \in T : ~(y < x)
  BY <1>2, <1>3, Zenon
<1>5. \A y \in T : x <= y
  BY <1>4
<1>6. QED
  BY <1>5

-----------------------------------------------------------------------------
(* The loop of compareReleaseVersions *)

\* The loop over the parts a and b of two versions up to n, with the result e when
\* no part differs.
Loop(a, b, n, e) ==
    CHOOSE f : f = [i \in 1..(n + 1) |->
        IF i > n THEN e
        ELSE IF Part(a, i) # Part(b, i) THEN Sign(Part(a, i), Part(b, i))
        ELSE f[i + 1]]

\* The loop's equation has a solution: what the first difference from i on says.
LEMMA LoopEquation ==
  ASSUME NEW a, NEW b, NEW n \in Nat, NEW e
  PROVE  \A i \in 1..(n + 1) :
            Loop(a, b, n, e)[i] =
                IF i > n THEN e
                ELSE IF Part(a, i) # Part(b, i) THEN Sign(Part(a, i), Part(b, i))
                ELSE Loop(a, b, n, e)[i + 1]
<1> DEFINE D == {j \in 1..n : Part(a, j) # Part(b, j)}
           From(i) == {j \in D : i <= j}
           L(i) == CHOOSE j \in From(i) : \A k \in From(i) : j <= k
           s(j) == Sign(Part(a, j), Part(b, j))
           g == [i \in 1..(n + 1) |-> IF From(i) = {} THEN e ELSE s(L(i))]
<1> HIDE DEF s
<1>1. ASSUME NEW i \in 1..(n + 1), From(i) # {}
      PROVE  L(i) \in From(i) /\ \A k \in From(i) : L(i) <= k
  <2>1. From(i) \subseteq Nat
    OBVIOUS
  <2> HIDE DEF From
  <2>2. \E j \in From(i) : \A k \in From(i) : j <= k
    BY <1>1, <2>1, LeastNumber
  <2>3. QED
    BY <2>2
<1>2. ASSUME NEW i \in 1..(n + 1), i > n
      PROVE  g[i] = e
  BY <1>2
<1>3. ASSUME NEW i \in 1..(n + 1), i <= n, i \in D
      PROVE  g[i] = s(i)
  <2>1. i \in From(i)
    BY <1>3
  <2>2. L(i) = i
    <3>1. L(i) \in From(i) /\ L(i) <= i
      BY <1>1, <2>1
    <3> HIDE DEF L
    <3>2. QED
      BY <3>1
  <2>3. QED
    BY <2>1, <2>2
<1>4. ASSUME NEW i \in 1..(n + 1), i <= n, i \notin D
      PROVE  g[i] = g[i + 1]
  <2>1. From(i) = From(i + 1)
    BY <1>4
  <2>2. L(i) = L(i + 1)
    BY <2>1
  <2> HIDE DEF L, From
  <2>3. i + 1 \in 1..(n + 1)
    BY <1>4
  <2>4. QED
    BY <2>1, <2>2, <2>3
<1>5. g = [i \in 1..(n + 1) |->
            IF i > n THEN e
            ELSE IF Part(a, i) # Part(b, i) THEN s(i) ELSE g[i + 1]]
  <2>1. \A i \in 1..(n + 1) : g[i] = IF i > n THEN e
                                     ELSE IF Part(a, i) # Part(b, i) THEN s(i) ELSE g[i + 1]
    <3> SUFFICES ASSUME NEW i \in 1..(n + 1)
                 PROVE  g[i] = IF i > n THEN e
                               ELSE IF Part(a, i) # Part(b, i) THEN s(i) ELSE g[i + 1]
      OBVIOUS
    <3>1. i <= n => (i \in D <=> Part(a, i) # Part(b, i))
      OBVIOUS
    <3> HIDE DEF g, D
    <3>2. QED
      BY <1>2, <1>3, <1>4, <3>1
  <2>2. g = [i \in 1..(n + 1) |-> g[i]]
    OBVIOUS
  <2> HIDE DEF g
  <2>3. QED
    BY <2>1, <2>2
<1>6. \E f : f = [i \in 1..(n + 1) |->
            IF i > n THEN e
            ELSE IF Part(a, i) # Part(b, i) THEN Sign(Part(a, i), Part(b, i))
            ELSE f[i + 1]]
  <2> HIDE DEF g
  <2>1. QED
    BY <1>5 DEF s
<1> DEFINE f == Loop(a, b, n, e)
<1>7. f = [i \in 1..(n + 1) |->
            IF i > n THEN e
            ELSE IF Part(a, i) # Part(b, i) THEN Sign(Part(a, i), Part(b, i))
            ELSE f[i + 1]]
  BY <1>6 DEF Loop
<1> HIDE DEF f
<1>8. \A i \in 1..(n + 1) : f[i] = IF i > n THEN e
                                   ELSE IF Part(a, i) # Part(b, i)
                                        THEN Sign(Part(a, i), Part(b, i)) ELSE f[i + 1]
  BY <1>7
<1>9. QED
  BY <1>8 DEF f

\* The first difference decides, or, when there is none, e.
LEMMA LoopResult ==
  ASSUME NEW a, NEW b, NEW n \in Nat, NEW e, NEW d \in 1..(n + 1),
         \A k \in 1..(d - 1) : Part(a, k) = Part(b, k),
         d <= n => Part(a, d) # Part(b, d)
  PROVE  Loop(a, b, n, e)[1] = IF d > n THEN e ELSE Sign(Part(a, d), Part(b, d))
<1> DEFINE f == Loop(a, b, n, e)
           r == IF d > n THEN e ELSE Sign(Part(a, d), Part(b, d))
           B == {k \in 0..(d - 1) : f[d - k] # r}
<1>1. \A i \in 1..(n + 1) : f[i] = IF i > n THEN e
                                   ELSE IF Part(a, i) # Part(b, i)
                                        THEN Sign(Part(a, i), Part(b, i)) ELSE f[i + 1]
  BY LoopEquation
<1> HIDE DEF f
<1>2. f[d] = r
  BY <1>1
<1>3. \A i \in 1..(d - 1) : f[i] = f[i + 1]
  BY <1>1
<1> HIDE DEF r
<1>4. B = {}
  <2> SUFFICES ASSUME B # {}
               PROVE  FALSE
    OBVIOUS
  <2>1. PICK k \in B : \A j \in B : k <= j
    <3>1. B \subseteq Nat
      OBVIOUS
    <3> HIDE DEF B
    <3>2. QED
      BY <3>1, LeastNumber
  <2>2. k \in 1..(d - 1) /\ f[d - k] # r
    BY <1>2
  <2>3. f[d - k] = f[d - (k - 1)]
    <3>1. d - k \in 1..(d - 1) /\ (d - k) + 1 = d - (k - 1)
      BY <2>2
    <3>2. QED
      BY <1>3, <3>1
  <2>4. k - 1 \in B
    BY <2>2, <2>3
  <2>5. QED
    BY <2>1, <2>2, <2>4
<1>5. d - 1 \in 0..(d - 1) /\ d - (d - 1) = 1
  OBVIOUS
<1>6. f[1] = r
  BY <1>4, <1>5
<1>7. QED
  BY <1>6 DEF f, r

-----------------------------------------------------------------------------
(* The order of versions *)

\* The parts are the same, padded with zeros.
SameParts(v, w) == \A i \in Nat \ {0} : Part(v.parts, i) = Part(w.parts, i)

\* The first part that differs is the j-th.
DifferFirstAt(v, w, j) ==
    /\ j \in Nat \ {0}
    /\ Part(v.parts, j) # Part(w.parts, j)
    /\ \A k \in 1..(j - 1) : Part(v.parts, k) = Part(w.parts, k)

Prerelease(v) == Parsed(v).prerelease

\* The types the comparison works on.
LEMMA PartTypes ==
  ASSUME NEW v \in Version
  PROVE  /\ Len(v.parts) \in Nat
         /\ Prerelease(v) \in Nat
         /\ \A i \in Nat \ {0} : Part(v.parts, i) \in Int
         /\ \A i \in Nat \ {0} : i > Len(v.parts) => Part(v.parts, i) = 0
  BY DEF Version, Prerelease, Parsed, Missing, Malformed, Part

\* Two versions have the same parts or a first one that differs.
LEMMA SameOrDiffer ==
  ASSUME NEW v \in Version, NEW w \in Version
  PROVE  SameParts(v, w) \/ \E j \in Nat \ {0} : DifferFirstAt(v, w, j)
<1> DEFINE D == {j \in Nat \ {0} : Part(v.parts, j) # Part(w.parts, j)}
<1>1. CASE D = {}
  BY <1>1 DEF SameParts
<1>2. CASE D # {}
  <2>1. PICK j \in D : \A k \in D : j <= k
    <3>1. D \subseteq Nat
      OBVIOUS
    <3> HIDE DEF D
    <3>2. QED
      BY <1>2, <3>1, LeastNumber
  <2>2. \A k \in 1..(j - 1) : Part(v.parts, k) = Part(w.parts, k)
    <3> SUFFICES ASSUME NEW k \in 1..(j - 1), Part(v.parts, k) # Part(w.parts, k)
                 PROVE  FALSE
      OBVIOUS
    <3>1. k \in D /\ k < j
      OBVIOUS
    <3>2. QED
      BY <2>1, <3>1
  <2>3. QED
    BY <2>2 DEF DifferFirstAt
<1>3. QED
  BY <1>1, <1>2

\* compareReleaseVersions: the first part that differs decides, then the prerelease.
LEMMA CompareIs ==
  ASSUME NEW v \in Version, NEW w \in Version
  PROVE  /\ SameParts(v, w) =>
              CompareReleaseVersions(v, w) = ComparePrereleases(Prerelease(v), Prerelease(w))
         /\ \A j : DifferFirstAt(v, w, j) =>
              CompareReleaseVersions(v, w) = Sign(Part(v.parts, j), Part(w.parts, j))
<1> DEFINE n == IF Len(w.parts) > Len(v.parts) THEN Len(w.parts) ELSE Len(v.parts)
           e == ComparePrereleases(Prerelease(v), Prerelease(w))
<1>1. CompareReleaseVersions(v, w) = Loop(v.parts, w.parts, n, e)[1]
  BY DEF CompareReleaseVersions, Loop, Parsed, Prerelease
<1>2. n \in Nat /\ \A i \in Nat \ {0} : i > n => Part(v.parts, i) = Part(w.parts, i)
  BY PartTypes
<1> HIDE DEF n, e
<1>3. ASSUME SameParts(v, w)
      PROVE  CompareReleaseVersions(v, w) = e
  <2>1. n + 1 \in 1..(n + 1) /\ n + 1 > n
    BY <1>2
  <2>2. \A k \in 1..((n + 1) - 1) : Part(v.parts, k) = Part(w.parts, k)
    BY <1>2, <1>3 DEF SameParts
  <2>3. Loop(v.parts, w.parts, n, e)[1] = e
    BY <1>2, <2>1, <2>2, LoopResult
  <2>4. QED
    BY <1>1, <2>3
<1>4. ASSUME NEW j, DifferFirstAt(v, w, j)
      PROVE  CompareReleaseVersions(v, w) = Sign(Part(v.parts, j), Part(w.parts, j))
  <2>1. j \in Nat \ {0} /\ Part(v.parts, j) # Part(w.parts, j)
    BY <1>4 DEF DifferFirstAt
  <2>2. j <= n /\ j \in 1..(n + 1)
    BY <1>2, <2>1
  <2>3. Loop(v.parts, w.parts, n, e)[1] = Sign(Part(v.parts, j), Part(w.parts, j))
    BY <1>2, <1>4, <2>1, <2>2, LoopResult DEF DifferFirstAt
  <2>4. QED
    BY <1>1, <2>3
<1>5. QED
  BY <1>3, <1>4 DEF e

\* The order of the parts, as the loop finds it out.
LEMMA CompareLess ==
  ASSUME NEW v \in Version, NEW w \in Version
  PROVE  CompareReleaseVersions(v, w) < 0 <=>
            \/ /\ SameParts(v, w)
               /\ ComparePrereleases(Prerelease(v), Prerelease(w)) < 0
            \/ \E j \in Nat \ {0} : /\ DifferFirstAt(v, w, j)
                                    /\ Part(v.parts, j) < Part(w.parts, j)
<1>1. CASE SameParts(v, w)
  <2>1. \A j \in Nat \ {0} : ~DifferFirstAt(v, w, j)
    BY <1>1 DEF SameParts, DifferFirstAt
  <2>2. QED
    BY <1>1, <2>1, CompareIs
<1>2. ASSUME NEW j \in Nat \ {0}, DifferFirstAt(v, w, j)
      PROVE  /\ ~SameParts(v, w)
             /\ CompareReleaseVersions(v, w) < 0 <=> Part(v.parts, j) < Part(w.parts, j)
             /\ \A i \in Nat \ {0} : DifferFirstAt(v, w, i) => i = j
  <2>1. ~SameParts(v, w)
    BY <1>2 DEF SameParts, DifferFirstAt
  <2>2. Part(v.parts, j) \in Int /\ Part(w.parts, j) \in Int
    BY PartTypes
  <2>3. CompareReleaseVersions(v, w) = Sign(Part(v.parts, j), Part(w.parts, j))
    BY <1>2, CompareIs
  <2>4. CompareReleaseVersions(v, w) < 0 <=> Part(v.parts, j) < Part(w.parts, j)
    BY <2>2, <2>3 DEF Sign
  <2>5. \A i \in Nat \ {0} : DifferFirstAt(v, w, i) => i = j
    <3> SUFFICES ASSUME NEW i \in Nat \ {0}, DifferFirstAt(v, w, i), i # j
                 PROVE  FALSE
      OBVIOUS
    <3>1. CASE i < j
      <4>1. i \in 1..(j - 1)
        BY <3>1
      <4>2. QED
        BY <1>2, <4>1 DEF DifferFirstAt
    <3>2. CASE j < i
      <4>1. j \in 1..(i - 1)
        BY <3>2
      <4>2. QED
        BY <1>2, <4>1 DEF DifferFirstAt
    <3>3. QED
      BY <3>1, <3>2
  <2>6. QED
    BY <2>1, <2>4, <2>5
<1>3. QED
  BY <1>1, <1>2, SameOrDiffer

\* A version is neither below nor above itself.
LEMMA CompareReflexive ==
  ASSUME NEW v \in Version
  PROVE  CompareReleaseVersions(v, v) = 0
<1>1. SameParts(v, v)
  BY DEF SameParts
<1>2. QED
  BY <1>1, CompareIs DEF ComparePrereleases

\* Exchanging the versions reverses the result.
LEMMA CompareAntisymmetric ==
  ASSUME NEW v \in Version, NEW w \in Version
  PROVE  CompareReleaseVersions(v, w) = -CompareReleaseVersions(w, v)
<1>1. CASE SameParts(v, w)
  <2>1. SameParts(w, v)
    BY <1>1 DEF SameParts
  <2>2. ComparePrereleases(Prerelease(v), Prerelease(w))
           = -ComparePrereleases(Prerelease(w), Prerelease(v))
    BY PartTypes DEF ComparePrereleases, Sign
  <2>3. QED
    BY <1>1, <2>1, <2>2, CompareIs
<1>2. ASSUME NEW j \in Nat \ {0}, DifferFirstAt(v, w, j)
      PROVE  CompareReleaseVersions(v, w) = -CompareReleaseVersions(w, v)
  <2>1. DifferFirstAt(w, v, j)
    BY <1>2 DEF DifferFirstAt
  <2>2. Part(v.parts, j) \in Int /\ Part(w.parts, j) \in Int
    BY PartTypes
  <2>3. Sign(Part(v.parts, j), Part(w.parts, j)) = -Sign(Part(w.parts, j), Part(v.parts, j))
    BY <2>2 DEF Sign
  <2>4. QED
    BY <1>2, <2>1, <2>3, CompareIs
<1>3. QED
  BY <1>1, <1>2, SameOrDiffer

\* What is below a version that is below a third is below the third.
LEMMA CompareTransitive ==
  ASSUME NEW u \in Version, NEW v \in Version, NEW w \in Version,
         CompareReleaseVersions(u, v) < 0, CompareReleaseVersions(v, w) < 0
  PROVE  CompareReleaseVersions(u, w) < 0
<1> DEFINE Below(x, y, j) == DifferFirstAt(x, y, j) /\ Part(x.parts, j) < Part(y.parts, j)
<1>1. \A j \in Nat \ {0} : /\ Part(u.parts, j) \in Int
                           /\ Part(v.parts, j) \in Int
                           /\ Part(w.parts, j) \in Int
  BY PartTypes
<1>2. CASE SameParts(u, v) /\ SameParts(v, w)
  <2>1. SameParts(u, w)
    BY <1>2 DEF SameParts
  <2>2. \A j \in Nat \ {0} : ~DifferFirstAt(u, v, j) /\ ~DifferFirstAt(v, w, j)
    BY <1>2 DEF SameParts, DifferFirstAt
  <2>3. /\ ComparePrereleases(Prerelease(u), Prerelease(v)) < 0
        /\ ComparePrereleases(Prerelease(v), Prerelease(w)) < 0
    BY <2>2, CompareLess
  <2>4. ComparePrereleases(Prerelease(u), Prerelease(w)) < 0
    BY <2>3, PartTypes DEF ComparePrereleases, Sign
  <2>5. QED
    BY <2>1, <2>4, CompareLess
<1>3. ASSUME SameParts(u, v), NEW j \in Nat \ {0}, Below(v, w, j)
      PROVE  CompareReleaseVersions(u, w) < 0
  <2>1. Below(u, w, j)
    BY <1>3 DEF SameParts, DifferFirstAt
  <2>2. QED
    BY <2>1, CompareLess
<1>4. ASSUME SameParts(v, w), NEW j \in Nat \ {0}, Below(u, v, j)
      PROVE  CompareReleaseVersions(u, w) < 0
  <2>1. Below(u, w, j)
    BY <1>4 DEF SameParts, DifferFirstAt
  <2>2. QED
    BY <2>1, CompareLess
<1>5. ASSUME NEW i \in Nat \ {0}, NEW j \in Nat \ {0}, Below(u, v, i), Below(v, w, j)
      PROVE  CompareReleaseVersions(u, w) < 0
  <2>1. CASE i <= j
    <3>1. \A k \in 1..(i - 1) : k \in 1..(j - 1)
      BY <2>1
    <3>2. \A k \in 1..(i - 1) : Part(u.parts, k) = Part(w.parts, k)
      BY <1>5, <3>1 DEF DifferFirstAt
    <3>3. Part(v.parts, i) <= Part(w.parts, i)
      <4>1. CASE i = j
        BY <1>1, <1>5, <4>1
      <4>2. CASE i # j
        <5>1. i \in 1..(j - 1)
          BY <2>1, <4>2
        <5>2. QED
          BY <1>1, <1>5, <5>1 DEF DifferFirstAt
      <4>3. QED
        BY <4>1, <4>2
    <3>4. Part(u.parts, i) < Part(w.parts, i)
      BY <1>1, <1>5, <3>3
    <3>5. Below(u, w, i)
      BY <1>1, <3>2, <3>4 DEF DifferFirstAt
    <3>6. QED
      BY <3>5, CompareLess
  <2>2. CASE j < i
    <3>1. \A k \in 1..(j - 1) : k \in 1..(i - 1)
      BY <2>2
    <3>2. \A k \in 1..(j - 1) : Part(u.parts, k) = Part(w.parts, k)
      BY <1>5, <3>1 DEF DifferFirstAt
    <3>3. j \in 1..(i - 1)
      BY <2>2
    <3>4. Part(u.parts, j) < Part(w.parts, j)
      BY <1>5, <3>3 DEF DifferFirstAt
    <3>5. Below(u, w, j)
      BY <1>1, <3>2, <3>4 DEF DifferFirstAt
    <3>6. QED
      BY <3>5, CompareLess
  <2>3. QED
    BY <2>1, <2>2
<1>6. SameParts(u, v) \/ \E i \in Nat \ {0} : Below(u, v, i)
  BY CompareLess
<1>7. SameParts(v, w) \/ \E i \in Nat \ {0} : Below(v, w, i)
  BY CompareLess
<1>8. QED
  BY <1>2, <1>3, <1>4, <1>5, <1>6, <1>7

\* Versions compare as equal when they mean the same, and only then.
LEMMA CompareEqual ==
  ASSUME NEW v \in Version, NEW w \in Version
  PROVE  CompareReleaseVersions(v, w) = 0 <=> SameParts(v, w) /\ Prerelease(v) = Prerelease(w)
<1>1. CASE SameParts(v, w)
  <2>1. CompareReleaseVersions(v, w) = ComparePrereleases(Prerelease(v), Prerelease(w))
    BY <1>1, CompareIs
  <2>2. ComparePrereleases(Prerelease(v), Prerelease(w)) = 0 <=> Prerelease(v) = Prerelease(w)
    BY PartTypes DEF ComparePrereleases, Sign
  <2>3. QED
    BY <1>1, <2>1, <2>2
<1>2. ASSUME NEW j \in Nat \ {0}, DifferFirstAt(v, w, j)
      PROVE  ~SameParts(v, w) /\ CompareReleaseVersions(v, w) # 0
  <2>1. Part(v.parts, j) \in Int /\ Part(w.parts, j) \in Int
    BY PartTypes
  <2>2. CompareReleaseVersions(v, w) = Sign(Part(v.parts, j), Part(w.parts, j))
    BY <1>2, CompareIs
  <2>3. QED
    BY <1>2, <2>1, <2>2 DEF Sign, DifferFirstAt, SameParts
<1>3. QED
  BY <1>1, <1>2, SameOrDiffer

\* compareReleaseVersions is a total order on what versions mean: equal are those with
\* the same prerelease and the same parts but for zeros at the end, exchanging the
\* arguments reverses the answer, and no chain of releases, each newer than the one
\* before, leads back to where it began.
THEOREM ComparisonIsAnOrder ==
    \A u, v, w \in Version :
        /\ CompareReleaseVersions(v, w) = 0 <=> SameParts(v, w) /\ Prerelease(v) = Prerelease(w)
        /\ CompareReleaseVersions(v, w) = -CompareReleaseVersions(w, v)
        /\ CompareReleaseVersions(u, v) < 0 /\ CompareReleaseVersions(v, w) < 0
              => CompareReleaseVersions(u, w) < 0
  BY CompareEqual, CompareAntisymmetric, CompareTransitive

-----------------------------------------------------------------------------
(* The order of versions as a line *)

\* f accumulates the parts of v up to the n-th as digits of a number to `base`.
Accumulates(f, v, base, n) ==
    f = [i \in 0..n |-> IF i = 0 THEN 0 ELSE f[i - 1] * base + Part(v.parts, i)]

\* The function `value` of Rank.
Value(v, base, n) ==
    CHOOSE f : f = [i \in 0..n |-> IF i = 0 THEN 0 ELSE f[i - 1] * base + Part(v.parts, i)]

\* There is such a function for every n: the one for n - 1 can be extended.
LEMMA ValueExists ==
  ASSUME NEW v, NEW base, NEW n \in Nat
  PROVE  \E f : Accumulates(f, v, base, n)
<1> DEFINE next(i, x) == x * base + Part(v.parts, i)
           T == {m \in Nat : ~\E f : Accumulates(f, v, base, m)}
<1>1. \A f, m : Accumulates(f, v, base, m) <=>
                  f = [i \in 0..m |-> IF i = 0 THEN 0 ELSE next(i, f[i - 1])]
  BY DEF Accumulates
<1> HIDE DEF next
<1>2. T = {}
  <2> SUFFICES ASSUME T # {}
               PROVE  FALSE
    OBVIOUS
  <2>1. PICK m \in T : \A k \in T : m <= k
    <3>1. T \subseteq Nat
      OBVIOUS
    <3> HIDE DEF T
    <3>2. QED
      BY <3>1, LeastNumber
  <2>2. m \in Nat /\ ~\E f : Accumulates(f, v, base, m)
    BY <2>1
  <2>3. CASE m = 0
    <3> DEFINE z == [i \in 0..0 |-> 0]
    <3>1. z = [i \in 0..0 |-> IF i = 0 THEN 0 ELSE next(i, z[i - 1])]
      OBVIOUS
    <3> HIDE DEF z
    <3>2. Accumulates(z, v, base, 0)
      BY <1>1, <3>1
    <3>3. QED
      BY <2>2, <2>3, <3>2
  <2>4. CASE m # 0
    <3>1. m - 1 \in Nat /\ ~(m <= m - 1)
      BY <2>2, <2>4
    <3>2. m - 1 \notin T
      BY <2>1, <3>1
    <3>3. PICK f : Accumulates(f, v, base, m - 1)
      BY <3>1, <3>2
    <3>4. f = [i \in 0..(m - 1) |-> IF i = 0 THEN 0 ELSE next(i, f[i - 1])]
      BY <1>1, <3>3
    <3> DEFINE g == [i \in 0..m |-> IF i = m THEN next(m, f[m - 1]) ELSE f[i]]
    <3>5. \A i \in 0..m : g[i] = IF i = 0 THEN 0 ELSE next(i, g[i - 1])
      <4> SUFFICES ASSUME NEW i \in 0..m
                   PROVE  g[i] = IF i = 0 THEN 0 ELSE next(i, g[i - 1])
        BY <2>2
      <4>1. i # 0 => i - 1 \in 0..m /\ i - 1 # m
        BY <2>2
      <4>2. i # 0 => g[i - 1] = f[i - 1]
        BY <4>1
      <4>3. CASE i = m
        BY <2>2, <2>4, <4>2, <4>3
      <4>4. CASE i # m
        <5>1. i \in 0..(m - 1)
          BY <2>2, <4>4
        <5>2. f[i] = IF i = 0 THEN 0 ELSE next(i, f[i - 1])
          BY <3>4, <5>1
        <5>3. g[i] = f[i]
          BY <4>4
        <5> HIDE DEF g
        <5>4. QED
          BY <4>2, <5>2, <5>3
      <4>5. QED
        BY <4>3, <4>4
    <3>6. g = [i \in 0..m |-> g[i]]
      OBVIOUS
    <3> HIDE DEF g
    <3>7. g = [i \in 0..m |-> IF i = 0 THEN 0 ELSE next(i, g[i - 1])]
      BY <3>5, <3>6
    <3>8. Accumulates(g, v, base, m)
      BY <1>1, <3>7
    <3>9. QED
      BY <2>2, <3>8
  <2>5. QED
    BY <2>3, <2>4
<1>3. n \notin T
  BY <1>2
<1>4. QED
  BY <1>3

\* So `value` is what its equation says.
LEMMA ValueEquation ==
  ASSUME NEW v, NEW base, NEW n \in Nat
  PROVE  \A i \in 0..n :
            Value(v, base, n)[i] =
                IF i = 0 THEN 0 ELSE Value(v, base, n)[i - 1] * base + Part(v.parts, i)
<1> DEFINE f == Value(v, base, n)
<1>1. Accumulates(f, v, base, n)
  BY ValueExists DEF Accumulates, Value
<1> HIDE DEF f
<1>2. \A i \in 0..n : f[i] = IF i = 0 THEN 0 ELSE f[i - 1] * base + Part(v.parts, i)
  BY <1>1 DEF Accumulates
<1>3. QED
  BY <1>2 DEF f

\* The versions that a line with this base, top and width has a place for.
FitsOn(v, base, top, width) ==
    /\ v \in Version /\ Parses(v)
    /\ Len(v.parts) <= width
    /\ \A i \in DOMAIN v.parts : v.parts[i] < base
    /\ v.pre < top

\* Every part of such a version is a digit, and past the width it is 0.
LEMMA PartIsDigit ==
  ASSUME NEW v, NEW base \in Nat \ {0}, NEW top, NEW width \in Nat,
         FitsOn(v, base, top, width)
  PROVE  \A i \in Nat \ {0} : /\ Part(v.parts, i) \in Nat
                              /\ Part(v.parts, i) < base
                              /\ i > width => Part(v.parts, i) = 0
<1> SUFFICES ASSUME NEW i \in Nat \ {0}
             PROVE  /\ Part(v.parts, i) \in Nat
                    /\ Part(v.parts, i) < base
                    /\ i > width => Part(v.parts, i) = 0
  OBVIOUS
<1>1. v.parts \in Seq(Nat \cup {Malformed}) /\ Len(v.parts) \in Nat /\ Len(v.parts) <= width
  BY DEF FitsOn, Version
<1>2. CASE i <= Len(v.parts)
  <2>1. i \in DOMAIN v.parts
    BY <1>1, <1>2
  <2>2. v.parts[i] \in Nat \cup {Malformed} /\ v.parts[i] # Malformed /\ v.parts[i] < base
    BY <1>1, <2>1 DEF FitsOn, Parses
  <2>3. Part(v.parts, i) = v.parts[i] /\ ~(i > width)
    BY <1>1, <1>2 DEF Part
  <2>4. QED
    BY <2>2, <2>3
<1>3. CASE ~(i <= Len(v.parts))
  BY <1>1, <1>3 DEF Part
<1>4. QED
  BY <1>2, <1>3

\* The accumulated value is a number.
LEMMA ValueIsNat ==
  ASSUME NEW v, NEW base \in Nat \ {0}, NEW top, NEW width \in Nat,
         FitsOn(v, base, top, width)
  PROVE  \A i \in 0..width : Value(v, base, width)[i] \in Nat
<1> DEFINE f == Value(v, base, width)
           T == {i \in 0..width : f[i] \notin Nat}
<1>1. \A i \in 0..width : f[i] = IF i = 0 THEN 0 ELSE f[i - 1] * base + Part(v.parts, i)
  BY ValueEquation
<1> HIDE DEF f
<1>2. T = {}
  <2> SUFFICES ASSUME T # {}
               PROVE  FALSE
    OBVIOUS
  <2>1. PICK i \in T : \A k \in T : i <= k
    <3>1. T \subseteq Nat
      OBVIOUS
    <3> HIDE DEF T
    <3>2. QED
      BY <3>1, LeastNumber
  <2>2. i \in 0..width /\ f[i] \notin Nat
    BY <2>1
  <2>3. i # 0
    BY <1>1, <2>2
  <2>4. i - 1 \in 0..width /\ ~(i <= i - 1) /\ i \in Nat \ {0}
    BY <2>2, <2>3
  <2>5. f[i - 1] \in Nat
    BY <2>1, <2>4
  <2>6. Part(v.parts, i) \in Nat
    BY <2>4, PartIsDigit
  <2>7. f[i] = f[i - 1] * base + Part(v.parts, i)
    BY <1>1, <2>2, <2>3
  <2>8. QED
    BY <2>2, <2>5, <2>6, <2>7
<1>3. QED
  BY <1>2 DEF f

\* Where the parts are the same up to n, so are the values.
LEMMA SameValue ==
  ASSUME NEW v, NEW w, NEW base, NEW width \in Nat, NEW n \in 0..width,
         \A k \in 1..n : Part(v.parts, k) = Part(w.parts, k)
  PROVE  Value(v, base, width)[n] = Value(w, base, width)[n]
<1> DEFINE f == Value(v, base, width)
           g == Value(w, base, width)
           T == {i \in 0..n : f[i] # g[i]}
<1>1. \A i \in 0..width : f[i] = IF i = 0 THEN 0 ELSE f[i - 1] * base + Part(v.parts, i)
  BY ValueEquation
<1>2. \A i \in 0..width : g[i] = IF i = 0 THEN 0 ELSE g[i - 1] * base + Part(w.parts, i)
  BY ValueEquation
<1> HIDE DEF f, g
<1>3. T = {}
  <2> SUFFICES ASSUME T # {}
               PROVE  FALSE
    OBVIOUS
  <2>1. PICK i \in T : \A k \in T : i <= k
    <3>1. T \subseteq Nat
      OBVIOUS
    <3> HIDE DEF T
    <3>2. QED
      BY <3>1, LeastNumber
  <2>2. i \in 0..n /\ i \in 0..width /\ f[i] # g[i]
    BY <2>1
  <2>3. i # 0
    BY <1>1, <1>2, <2>2
  <2>4. i - 1 \in 0..n /\ ~(i <= i - 1) /\ i \in 1..n
    BY <2>2, <2>3
  <2>5. f[i - 1] = g[i - 1]
    BY <2>1, <2>4
  <2>6. Part(v.parts, i) = Part(w.parts, i)
    BY <2>4
  <2>7. f[i] = f[i - 1] * base + Part(v.parts, i)
    BY <1>1, <2>2, <2>3
  <2>8. g[i] = g[i - 1] * base + Part(w.parts, i)
    BY <1>2, <2>2, <2>3
  <2>9. QED
    BY <2>2, <2>5, <2>6, <2>7, <2>8
<1>4. n \in 0..n
  OBVIOUS
<1>5. f[n] = g[n]
  BY <1>3, <1>4
<1>6. QED
  BY <1>5 DEF f, g

\* A number that is greater in front stays greater whatever digits follow.
LEMMA DigitsFollow ==
  ASSUME NEW x \in Nat, NEW y \in Nat, NEW b \in Nat, NEW c \in Nat, NEW d \in Nat,
         x + 1 <= y, c < b
  PROVE  x * b + c + 1 <= y * b + d
<1>1. PICK k \in Nat : y = x + 1 + k
  <2>1. y - (x + 1) \in Nat /\ y = x + 1 + (y - (x + 1))
    OBVIOUS
  <2>2. QED
    BY <2>1
<1>2. y * b = x * b + b + k * b
  BY <1>1
<1>3. x * b \in Nat /\ k * b \in Nat /\ y * b \in Nat
  BY <1>1
<1>4. QED
  BY <1>2, <1>3

\* The first part that differs decides on the values.
LEMMA LowerValue ==
  ASSUME NEW base \in Nat \ {0}, NEW top, NEW width \in Nat, NEW v, NEW w,
         FitsOn(v, base, top, width), FitsOn(w, base, top, width),
         NEW d, DifferFirstAt(v, w, d), Part(v.parts, d) < Part(w.parts, d)
  PROVE  Value(v, base, width)[width] + 1 <= Value(w, base, width)[width]
<1> DEFINE f == Value(v, base, width)
           g == Value(w, base, width)
           T == {i \in d..width : ~(f[i] + 1 <= g[i])}
<1>1. \A i \in 0..width : f[i] = IF i = 0 THEN 0 ELSE f[i - 1] * base + Part(v.parts, i)
  BY ValueEquation
<1>2. \A i \in 0..width : g[i] = IF i = 0 THEN 0 ELSE g[i - 1] * base + Part(w.parts, i)
  BY ValueEquation
<1>3. d \in Nat \ {0} /\ \A k \in 1..(d - 1) : Part(v.parts, k) = Part(w.parts, k)
  BY DEF DifferFirstAt
<1>4. d <= width
  <2>1. d > width => Part(v.parts, d) = 0 /\ Part(w.parts, d) = 0
    BY <1>3, PartIsDigit
  <2>2. QED
    BY <1>3, <2>1 DEF DifferFirstAt
<1>5. \A i \in 0..width : f[i] \in Nat /\ g[i] \in Nat
  BY ValueIsNat
<1>6. d - 1 \in 0..width
  BY <1>3, <1>4
<1>7. f[d - 1] = g[d - 1]
  BY <1>3, <1>6, SameValue
<1> HIDE DEF f, g
<1>8. T = {}
  <2> SUFFICES ASSUME T # {}
               PROVE  FALSE
    OBVIOUS
  <2>1. PICK i \in T : \A k \in T : i <= k
    <3>1. T \subseteq Nat
      BY <1>3
    <3> HIDE DEF T
    <3>2. QED
      BY <3>1, LeastNumber
  <2>2. i \in d..width /\ i \in 0..width /\ i \in Nat \ {0} /\ i - 1 \in 0..width
        /\ ~(f[i] + 1 <= g[i])
    BY <1>3, <1>4, <2>1
  <2>3. f[i] = f[i - 1] * base + Part(v.parts, i)
    BY <1>1, <2>2
  <2>4. g[i] = g[i - 1] * base + Part(w.parts, i)
    BY <1>2, <2>2
  <2>5. /\ Part(v.parts, i) \in Nat /\ Part(v.parts, i) < base
        /\ Part(w.parts, i) \in Nat
    BY <2>2, PartIsDigit
  <2>6. f[i - 1] \in Nat /\ g[i - 1] \in Nat
    BY <1>5, <2>2
  <2>7. CASE i = d
    <3>1. f[i - 1] = g[i - 1] /\ Part(v.parts, i) < Part(w.parts, i)
      BY <1>7, <2>7
    <3>2. f[i - 1] * base \in Nat
      BY <2>6
    <3>3. f[i] + 1 <= g[i]
      BY <2>3, <2>4, <2>5, <3>1, <3>2
    <3>4. QED
      BY <2>2, <3>3
  <2>8. CASE i # d
    <3>1. i - 1 \in d..width /\ ~(i <= i - 1)
      BY <1>3, <2>2, <2>8
    <3>2. f[i - 1] + 1 <= g[i - 1]
      BY <2>1, <3>1
    <3>3. f[i - 1] * base + Part(v.parts, i) + 1 <= g[i - 1] * base + Part(w.parts, i)
      BY <2>5, <2>6, <3>2, DigitsFollow
    <3>4. QED
      BY <2>2, <2>3, <2>4, <3>3
  <2>9. QED
    BY <2>7, <2>8
<1>9. width \in d..width
  BY <1>3, <1>4
<1>10. f[width] + 1 <= g[width]
  BY <1>8, <1>9
<1>11. QED
  BY <1>10 DEF f, g

\* The last digit of the rank: a release is above its prereleases.
Last(v, top) == IF v.pre \in {Missing, 0} THEN top ELSE v.pre

LEMMA RankIs ==
  ASSUME NEW base \in Nat \ {0}, NEW top \in Nat, NEW width \in Nat, NEW v,
         FitsOn(v, base, top, width)
  PROVE  /\ Rank(v, base, top, width) = Value(v, base, width)[width] * (top + 1) + Last(v, top)
         /\ Value(v, base, width)[width] \in Nat
         /\ Last(v, top) \in Nat /\ Last(v, top) <= top
<1>1. Rank(v, base, top, width) = Value(v, base, width)[width] * (top + 1) + Last(v, top)
  BY DEF Rank, Value, Last
<1>2. Value(v, base, width)[width] \in Nat
  BY ValueIsNat
<1>3. Last(v, top) \in Nat /\ Last(v, top) <= top
  BY DEF Last, FitsOn, Version, Missing
<1>4. QED
  BY <1>1, <1>2, <1>3

\* The version with the lower first difference lies before the other.
LEMMA LowerRank ==
  ASSUME NEW base \in Nat \ {0}, NEW top \in Nat, NEW width \in Nat, NEW v, NEW w,
         FitsOn(v, base, top, width), FitsOn(w, base, top, width),
         NEW d, DifferFirstAt(v, w, d), Part(v.parts, d) < Part(w.parts, d)
  PROVE  /\ Rank(v, base, top, width) \in Nat
         /\ Rank(w, base, top, width) \in Nat
         /\ Rank(v, base, top, width) < Rank(w, base, top, width)
<1> DEFINE x == Value(v, base, width)[width]
           y == Value(w, base, width)[width]
           p == Last(v, top)
           q == Last(w, top)
<1>1. x \in Nat /\ p \in Nat /\ p <= top /\ Rank(v, base, top, width) = x * (top + 1) + p
  BY RankIs
<1>2. y \in Nat /\ q \in Nat /\ q <= top /\ Rank(w, base, top, width) = y * (top + 1) + q
  BY RankIs
<1>3. x + 1 <= y
  BY LowerValue
<1> HIDE DEF x, y, p, q
<1>4. top + 1 \in Nat /\ p < top + 1
  BY <1>1
<1>5. x * (top + 1) + p + 1 <= y * (top + 1) + q
  BY <1>1, <1>2, <1>3, <1>4, DigitsFollow
<1>6. x * (top + 1) \in Nat /\ y * (top + 1) \in Nat
  BY <1>1, <1>2
<1>7. QED
  BY <1>1, <1>2, <1>5, <1>6

\* Comparing two versions is comparing their places on the line.
LEMMA ComparedAsRanked ==
  ASSUME NEW base \in Nat \ {0}, NEW top \in Nat, NEW width \in Nat, NEW v, NEW w,
         FitsOn(v, base, top, width), FitsOn(w, base, top, width)
  PROVE  CompareReleaseVersions(v, w)
            = Sign(Rank(v, base, top, width), Rank(w, base, top, width))
<1>1. v \in Version /\ w \in Version
  BY DEF FitsOn
<1>2. CASE SameParts(v, w)
  <2> DEFINE x == Value(v, base, width)[width]
             y == Value(w, base, width)[width]
             p == Last(v, top)
             q == Last(w, top)
  <2>1. CompareReleaseVersions(v, w) = ComparePrereleases(Prerelease(v), Prerelease(w))
    BY <1>1, <1>2, CompareIs
  <2>2. x = y
    <3>1. width \in 0..width /\ \A k \in 1..width : Part(v.parts, k) = Part(w.parts, k)
      BY <1>2 DEF SameParts
    <3>2. QED
      BY <3>1, SameValue
  <2>3. x \in Nat /\ p \in Nat /\ p <= top /\ Rank(v, base, top, width) = x * (top + 1) + p
    BY RankIs
  <2>4. q \in Nat /\ q <= top /\ Rank(w, base, top, width) = y * (top + 1) + q
    BY RankIs
  <2>5. ComparePrereleases(Prerelease(v), Prerelease(w)) = Sign(p, q)
    <3>1. /\ Prerelease(v) \in Nat
          /\ Prerelease(v) < top \/ Prerelease(v) = 0
          /\ p = IF Prerelease(v) = 0 THEN top ELSE Prerelease(v)
      BY DEF FitsOn, Version, Prerelease, Parsed, Last, Missing
    <3>2. /\ Prerelease(w) \in Nat
          /\ Prerelease(w) < top \/ Prerelease(w) = 0
          /\ q = IF Prerelease(w) = 0 THEN top ELSE Prerelease(w)
      BY DEF FitsOn, Version, Prerelease, Parsed, Last, Missing
    <3> HIDE DEF p, q
    <3>3. QED
      BY <3>1, <3>2 DEF ComparePrereleases, Sign
  <2> HIDE DEF x, y, p, q
  <2>6. x * (top + 1) \in Nat
    BY <2>3
  <2>7. Sign(x * (top + 1) + p, x * (top + 1) + q) = Sign(p, q)
    BY <2>3, <2>4, <2>6 DEF Sign
  <2>8. QED
    BY <2>1, <2>2, <2>3, <2>4, <2>5, <2>7
<1>3. ASSUME NEW d \in Nat \ {0}, DifferFirstAt(v, w, d)
      PROVE  CompareReleaseVersions(v, w)
                = Sign(Rank(v, base, top, width), Rank(w, base, top, width))
  <2>1. CompareReleaseVersions(v, w) = Sign(Part(v.parts, d), Part(w.parts, d))
    BY <1>1, <1>3, CompareIs
  <2>2. Part(v.parts, d) \in Nat /\ Part(w.parts, d) \in Nat
    BY PartIsDigit
  <2>3. CASE Part(v.parts, d) < Part(w.parts, d)
    BY <1>3, <2>1, <2>2, <2>3, LowerRank DEF Sign
  <2>4. CASE Part(w.parts, d) < Part(v.parts, d)
    <3>1. DifferFirstAt(w, v, d)
      BY <1>3 DEF DifferFirstAt
    <3>2. QED
      BY <2>1, <2>2, <2>4, <3>1, LowerRank DEF Sign
  <2>5. Part(v.parts, d) # Part(w.parts, d)
    BY <1>3 DEF DifferFirstAt
  <2>6. QED
    BY <2>2, <2>3, <2>4, <2>5
<1>4. QED
  BY <1>1, <1>2, <1>3, SameOrDiffer

\* Whatever versions there are, with any number of parts and any prereleases: a line that
\* is fine enough for them orders them as compareReleaseVersions does.
THEOREM ComparisonFollowsTheLine ==
    \A base \in Nat \ {0}, top \in Nat, width \in Nat, vs \in SUBSET Version :
        (\A v \in vs : Parses(v) => FitsOn(v, base, top, width))
            => OrderedAsRanked(vs, base, top, width)
<1> SUFFICES ASSUME NEW base \in Nat \ {0}, NEW top \in Nat, NEW width \in Nat,
                    NEW vs \in SUBSET Version,
                    \A v \in vs : Parses(v) => FitsOn(v, base, top, width),
                    NEW a \in vs, NEW b \in vs, Comparable(a, b)
             PROVE  CompareReleaseVersions(a, b)
                       = Sign(Rank(a, base, top, width), Rank(b, base, top, width))
  BY DEF OrderedAsRanked
<1>1. FitsOn(a, base, top, width) /\ FitsOn(b, base, top, width)
  BY DEF Comparable
<1>2. QED
  BY <1>1, ComparedAsRanked

\* The versions that TLC compares are versions, and fit on the line it compares them with.
LEMMA BoundedFits ==
  ASSUME NEW v \in BoundedVersion
  PROVE  /\ v \in Version
         /\ Parses(v) => FitsOn(v, MaxPart + 1, MaxPrerelease + 1, MaxParts)
<1>1. MaxParts \in Nat /\ MaxPart \in Nat /\ MaxPrerelease \in Nat
  BY VersionAssumption DEF VersionAssumption
<1>2. PICK n \in 0..MaxParts : \E parts \in [1..n -> {Malformed} \cup 0..MaxPart] :
          \E pre \in {Missing} \cup 0..MaxPrerelease : v = Written(parts, pre, Missing)
  BY DEF BoundedVersion
<1>3. PICK parts \in [1..n -> {Malformed} \cup 0..MaxPart],
           pre \in {Missing} \cup 0..MaxPrerelease : v = Written(parts, pre, Missing)
  BY <1>2
<1>4. v.parts = parts /\ v.pre = pre /\ v = [parts |-> parts, pre |-> pre, build |-> Missing]
  BY <1>3 DEF Written
<1>5. parts \in Seq(Nat \cup {Malformed}) /\ Len(parts) = n /\ DOMAIN parts = 1..n
  <2>1. {Malformed} \cup 0..MaxPart \subseteq Nat \cup {Malformed}
    BY <1>1
  <2>2. n \in Nat
    BY <1>1
  <2>3. parts \in [1..n -> Nat \cup {Malformed}]
    BY <2>1
  <2>4. QED
    BY <2>2, <2>3
<1>6. pre \in Nat \cup {Missing} /\ pre < MaxPrerelease + 1
  BY <1>1 DEF Missing
<1>7. v \in Version
  BY <1>4, <1>5, <1>6 DEF Version
<1>8. \A i \in DOMAIN v.parts : v.parts[i] < MaxPart + 1
  <2>1. \A i \in 1..n : parts[i] \in {Malformed} \cup 0..MaxPart
    OBVIOUS
  <2>2. QED
    BY <1>1, <1>4, <1>5, <2>1 DEF Malformed
<1>9. Len(v.parts) <= MaxParts
  BY <1>1, <1>4, <1>5
<1>10. QED
  BY <1>4, <1>6, <1>7, <1>8, <1>9 DEF FitsOn

\* VersionsAreOrdered, for every number of parts and every part and prerelease they may
\* have.
THEOREM VersionsOrdered == Spec => []VersionsAreOrdered
<1>1. /\ MaxPart + 1 \in Nat \ {0} /\ MaxPrerelease + 1 \in Nat /\ MaxParts \in Nat
  BY VersionAssumption DEF VersionAssumption
<1>2. BoundedVersion \in SUBSET Version
  BY BoundedFits
<1>3. \A v \in BoundedVersion :
          Parses(v) => FitsOn(v, MaxPart + 1, MaxPrerelease + 1, MaxParts)
  BY BoundedFits
<1>4. OrderedAsRanked(BoundedVersion, MaxPart + 1, MaxPrerelease + 1, MaxParts)
  BY <1>1, <1>2, <1>3, ComparisonFollowsTheLine
<1>5. VersionsAreOrdered
  BY <1>4 DEF VersionsAreOrdered
<1>6. QED
  BY <1>5, PTL

-----------------------------------------------------------------------------
(* Installing *)

Label == {"off", "startup", "check", "prompt", "recheck", "refetch", "download", "create",
          "write", "rename", "reexec", "over"}

UpdateShape ==
    /\ latest \in Release
    /\ pc \in [Process -> Label]
    /\ reported \in [Process -> Content]
    /\ manifest \in [Process -> Content]
    /\ applied \in [Process -> BOOLEAN]
    /\ updated \in [Process -> BOOLEAN]

\* What the file holds and what a process runs is a release.
ReleasesOnly ==
    /\ exe \in Release
    /\ running \in [Process -> Release]

\* Perform has decided for release r: it is newer than what p runs, if that can be told.
DecidedFor(p, r) ==
    /\ r \in Release
    /\ Parses(CurrentVersion(p)) => CompareReleaseVersions(CurrentVersion(p), VersionOf[r]) < 0

\* From its decision to the installation, Perform remembers what it decided for ...
Decided ==
    \A p \in Process :
        pc[p] \in {"refetch", "download", "create", "write", "rename"} =>
            DecidedFor(p, reported[p])

\* ... and from the second fetch on, what it installs is something published.
FetchedAgain ==
    \A p \in Process : pc[p] \in {"download", "create", "write", "rename"} => manifest[p] \in Release

\* A process that has installed a release finds itself marked when it starts over.
UpdatesOnce ==
    \A p \in Process : updated[p] =>
        /\ pc[p] \in {"reexec", "startup", "over"}
        /\ pc[p] = "startup" => applied[p]

UpdateInv == UpdateShape /\ ReleasesOnly /\ Decided /\ FetchedAgain /\ UpdatesOnce

\* A manifest that verifies is of a release, if not of the latest.
LEMMA FetchedIsPublished ==
  ASSUME latest \in Release, NEW m \in FetchLatestReleaseManifest
  PROVE  m \in Release
<1>1. PICK n \in ServedManifests : n.signed /\ m = n.content
  BY DEF FetchLatestReleaseManifest, VerifyReleaseManifestSignature
<1>2. n # [content |-> Forged, signed |-> FALSE]
  BY <1>1
<1>3. n \in [content : 1..latest, signed : {TRUE}]
  BY <1>2, Zenon DEF ServedManifests
<1>4. m \in 1..latest
  BY <1>1, <1>3
<1>5. QED
  BY <1>4, ReleaseAssumption DEF Release

\* A release that is not older than another has no lower version.
LEMMA ReleasesInOrder ==
  ASSUME NEW r \in Release, NEW s \in Release, r <= s
  PROVE  /\ VersionOf[r] \in Version
         /\ Parses(VersionOf[r])
         /\ CompareReleaseVersions(VersionOf[r], VersionOf[s]) <= 0
         /\ r = s \/ CompareReleaseVersions(VersionOf[r], VersionOf[s]) < 0
<1>1. VersionOf[r] \in Version /\ VersionOf[s] \in Version
  BY ReleaseAssumption DEF Content
<1>2. Parses(VersionOf[r])
  BY PublishedInOrder
<1>3. CASE r = s
  <2>1. CompareReleaseVersions(VersionOf[r], VersionOf[s]) = 0
    BY <1>1, <1>3, CompareReflexive
  <2>2. QED
    BY <1>1, <1>2, <1>3, <2>1
<1>4. CASE r # s
  <2>1. r < s
    BY <1>4, ReleaseAssumption DEF Release
  <2>2. CompareReleaseVersions(VersionOf[r], VersionOf[s]) < 0
    BY <2>1, PublishedInOrder
  <2>3. CompareReleaseVersions(VersionOf[r], VersionOf[s]) \in Int
    <3>1. SameParts(VersionOf[r], VersionOf[s]) =>
             CompareReleaseVersions(VersionOf[r], VersionOf[s]) \in {-1, 0, 1}
      BY <1>1, CompareIs DEF ComparePrereleases, Sign
    <3>2. \A j : DifferFirstAt(VersionOf[r], VersionOf[s], j) =>
             CompareReleaseVersions(VersionOf[r], VersionOf[s]) \in {-1, 0, 1}
      BY <1>1, CompareIs DEF Sign
    <3>3. QED
      BY <1>1, <3>1, <3>2, SameOrDiffer
  <2>4. QED
    BY <1>1, <1>2, <2>2, <2>3
<1>5. QED
  BY <1>3, <1>4

\* A build is installed, nobody has started.
LEMMA UpdateInit == Init => UpdateInv
  BY ReleaseAssumption
  DEF Init, UpdateInv, UpdateShape, Label, ReleasesOnly, Decided, FetchedAgain, UpdatesOnce, Release,
      Content

\* Check decides for the release it is offered, and Perform goes on to fetch again.
LEMMA CheckInv ==
  ASSUME UpdateInv, NEW p \in Process, Check(p)
  PROVE  UpdateInv'
<1> USE DEF UpdateInv
<1>1. PICK m \in FetchLatestReleaseManifest :
         /\ reported' = [reported EXCEPT ![p] = m]
         /\ Goto(p, IF ~ShouldInstallLatestRelease(CurrentVersion(p), VersionOf[m],
                                                   command[p] = "update") THEN "over"
                    ELSE IF pc[p] = "check" THEN "prompt" ELSE "refetch")
  BY DEF Check
<1>2. m \in Release
  BY FetchedIsPublished DEF UpdateShape
<1>3. /\ ~updated[p]
      /\ \A q \in Process : q # p => pc'[q] = pc[q] /\ reported'[q] = reported[q]
      /\ reported'[p] = m
      /\ reported' \in [Process -> Content] /\ pc' \in [Process -> Label]
      /\ UNCHANGED <<latest, exe, running, applied, manifest, updated>>
  BY <1>1, <1>2 DEF Check, At, Goto, hostVars, fileVars, UpdateShape, Label, UpdatesOnce, Content
<1>4. /\ pc'[p] \in {"over", "prompt", "refetch"}
      /\ pc'[p] = "refetch" => ShouldInstallLatestRelease(CurrentVersion(p), VersionOf[m],
                                                          command[p] = "update")
  BY <1>1 DEF Goto, UpdateShape
<1>5. pc'[p] = "refetch" => DecidedFor(p, m)
  BY <1>2, <1>4, PublishedInOrder DEF ShouldInstallLatestRelease, Comparable, DecidedFor
<1>6. UpdateShape' /\ ReleasesOnly'
  BY <1>3 DEF UpdateShape, Label, ReleasesOnly
<1>7. Decided'
  BY <1>3, <1>4, <1>5 DEF Decided, DecidedFor, CurrentVersion
<1>8. FetchedAgain'
  BY <1>3, <1>4 DEF FetchedAgain
<1>9. UpdatesOnce'
  BY <1>3 DEF UpdatesOnce
<1>10. QED
  BY <1>6, <1>7, <1>8, <1>9

\* Perform's second fetch brings any release that was published.
LEMMA RefetchInv ==
  ASSUME UpdateInv, NEW p \in Process, Refetch(p)
  PROVE  UpdateInv'
<1> USE DEF UpdateInv
<1>1. PICK m \in FetchLatestReleaseManifest : manifest' = [manifest EXCEPT ![p] = m]
  BY DEF Refetch
<1>2. m \in Release
  BY FetchedIsPublished DEF UpdateShape
<1>3. /\ pc[p] = "refetch" /\ ~updated[p]
      /\ pc' = [pc EXCEPT ![p] = "download"]
      /\ UNCHANGED <<latest, exe, running, applied, reported, updated>>
  BY DEF Refetch, At, Goto, hostVars, fileVars, UpdatesOnce
<1>4. UpdateShape' /\ ReleasesOnly'
  BY <1>1, <1>2, <1>3 DEF UpdateShape, Label, ReleasesOnly, Content
<1>5. Decided' /\ UpdatesOnce'
  BY <1>3 DEF Decided, UpdatesOnce, DecidedFor, CurrentVersion, UpdateShape
<1>6. FetchedAgain'
  BY <1>1, <1>2, <1>3 DEF FetchedAgain, UpdateShape
<1>7. QED
  BY <1>4, <1>5, <1>6

\* Every step of the publisher, of the user and of an invocation.
LEMMA UpdateStep == UpdateInv /\ [Next]_updateVars => UpdateInv'
<1> SUFFICES ASSUME UpdateInv, [Next]_updateVars
             PROVE  UpdateInv'
  OBVIOUS
<1> USE DEF UpdateInv
<1>1. CASE UNCHANGED updateVars
  BY <1>1 DEF updateVars, hostVars, fileVars, UpdateShape, ReleasesOnly, Decided, FetchedAgain,
              UpdatesOnce, DecidedFor, CurrentVersion
<1>2. CASE PublishArchive \/ PublishManifest
  <2>1. /\ latest' \in Release
        /\ UNCHANGED <<pc, exe, running, applied, reported, manifest, updated>>
    BY <1>2, ReleaseAssumption DEF PublishArchive, PublishManifest, fileVars, UpdateShape, Release
  <2>2. QED
    BY <2>1 DEF UpdateShape, Label, ReleasesOnly, Decided, FetchedAgain, UpdatesOnce, DecidedFor,
                CurrentVersion
<1>3. ASSUME NEW p \in Process, NEW c \in {"session", "update"}, Start(p, c)
      PROVE  UpdateInv'
  <2>1. /\ pc[p] = "off" /\ ~updated[p]
        /\ \E l \in {"recheck", "startup"} : pc' = [pc EXCEPT ![p] = l]
        /\ running' = [running EXCEPT ![p] = exe]
        /\ UNCHANGED <<latest, exe, applied, reported, manifest, updated>>
    BY <1>3 DEF Start, At, Goto, hostVars, fileVars, UpdatesOnce
  <2>2. UpdateShape' /\ ReleasesOnly'
    BY <2>1 DEF UpdateShape, Label, ReleasesOnly
  <2>3. Decided' /\ FetchedAgain' /\ UpdatesOnce'
    BY <2>1 DEF Decided, FetchedAgain, UpdatesOnce, DecidedFor, CurrentVersion, UpdateShape,
                ReleasesOnly
  <2>4. QED
    BY <2>2, <2>3
<1>4. ASSUME NEW p \in Process, Check(p)
      PROVE  UpdateInv'
  BY <1>4, CheckInv
<1>5. ASSUME NEW p \in Process, Refetch(p)
      PROVE  UpdateInv'
  BY <1>5, RefetchInv
<1>6. ASSUME NEW p \in Process,
             \/ \E asks \in BOOLEAN : MaybePrompt(p, asks)
             \/ \E updateNow \in BOOLEAN : Answer(p, updateNow)
             \/ Fails(p) \/ Killed(p)
      PROVE  UpdateInv'
  <2>1. /\ \E l \in {"over", "check", "recheck"} : pc' = [pc EXCEPT ![p] = l]
        /\ UNCHANGED <<latest, exe, running, applied, reported, manifest, updated>>
        /\ updated[p] => pc'[p] = "over"
    BY <1>6 DEF MaybePrompt, Answer, Fails, Killed, At, Goto, hostVars, fileVars, UpdatesOnce,
                UpdateShape
  <2>2. UpdateShape' /\ ReleasesOnly'
    BY <2>1 DEF UpdateShape, Label, ReleasesOnly
  <2>3. Decided' /\ FetchedAgain' /\ UpdatesOnce'
    BY <2>1 DEF Decided, FetchedAgain, UpdatesOnce, DecidedFor, CurrentVersion, UpdateShape
  <2>4. QED
    BY <2>2, <2>3
<1>7. ASSUME NEW p \in Process, Download(p) \/ CreateTemp(p) \/ WriteTemp(p)
      PROVE  UpdateInv'
  <2>1. /\ pc[p] \in {"download", "create", "write"} /\ ~updated[p]
        /\ \E l \in {"create", "write", "rename"} : pc' = [pc EXCEPT ![p] = l]
        /\ UNCHANGED <<latest, exe, running, applied, reported, manifest, updated>>
    BY <1>7 DEF Download, CreateTemp, WriteTemp, At, Goto, hostVars, fileVars, UpdatesOnce
  <2>2. UpdateShape' /\ ReleasesOnly'
    BY <2>1 DEF UpdateShape, Label, ReleasesOnly
  <2>3. Decided' /\ FetchedAgain' /\ UpdatesOnce'
    BY <2>1 DEF Decided, FetchedAgain, UpdatesOnce, DecidedFor, CurrentVersion, UpdateShape
  <2>4. QED
    BY <2>2, <2>3
<1>8. ASSUME NEW p \in Process, Rename(p)
      PROVE  UpdateInv'
  <2>1. /\ pc[p] = "rename"
        /\ \E l \in {"over", "reexec"} : pc' = [pc EXCEPT ![p] = l]
        /\ exe' = manifest[p]
        /\ updated' = [updated EXCEPT ![p] = TRUE]
        /\ UNCHANGED <<latest, running, applied, reported, manifest>>
    BY <1>8 DEF Rename, At, Goto, hostVars
  <2>2. UpdateShape' /\ ReleasesOnly'
    BY <2>1 DEF UpdateShape, Label, ReleasesOnly, FetchedAgain
  <2>3. Decided' /\ FetchedAgain'
    BY <2>1 DEF Decided, FetchedAgain, DecidedFor, CurrentVersion, UpdateShape
  <2>4. UpdatesOnce'
    BY <2>1 DEF FetchedAgain, UpdatesOnce, DecidedFor, UpdateShape
  <2>5. QED
    BY <2>2, <2>3, <2>4
<1>9. ASSUME NEW p \in Process, Reexec(p)
      PROVE  UpdateInv'
  <2>1. /\ pc[p] = "reexec"
        /\ pc' = [pc EXCEPT ![p] = "startup"]
        /\ running' = [running EXCEPT ![p] = exe]
        /\ applied' = [applied EXCEPT ![p] = TRUE]
        /\ UNCHANGED <<latest, exe, reported, manifest, updated>>
    BY <1>9 DEF Reexec, At, Goto, hostVars, fileVars
  <2>2. UpdateShape' /\ ReleasesOnly'
    BY <2>1 DEF UpdateShape, Label, ReleasesOnly
  <2>3. Decided' /\ FetchedAgain' /\ UpdatesOnce'
    BY <2>1 DEF Decided, FetchedAgain, UpdatesOnce, DecidedFor, CurrentVersion, UpdateShape,
                ReleasesOnly
  <2>4. QED
    BY <2>2, <2>3
<1>10. QED
  BY <1>1, <1>2, <1>3, <1>4, <1>5, <1>6, <1>7, <1>8, <1>9 DEF Next, Step

\* Decisions, manifests and marks are what UpdateInv says of them at every label.
THEOREM UpdateInvariant == Spec => []UpdateInv
  BY UpdateInit, UpdateStep, PTL DEF Spec

\* However installations overlap, fail or are killed, and whatever is served in the
\* place of a release, the executable and every process are a release's whole binary.
THEOREM ExecutableStaysWhole == Spec => []ExecutableIsWhole
<1>1. UpdateInv => ExecutableIsWhole
  BY DEF UpdateInv, ReleasesOnly, ExecutableIsWhole
<1>2. QED
  BY <1>1, UpdateInvariant, PTL

\* An invocation that has replaced the executable asks for no update again, whatever
\* version the new binary takes itself for and whatever the host would offer.
THEOREM InvocationsReplaceOnce == Spec => []ReplacesOnce
<1>1. UpdateInv => ReplacesOnce
  BY DEF UpdateInv, UpdatesOnce, ReplacesOnce
<1>2. QED
  BY <1>1, UpdateInvariant, PTL

\* Perform installs a release that is not newer than the binary it runs only if the host
\* answered its second fetch with an earlier release than the one it had compared.
THEOREM OnlyTheHostDowngrades == Spec => DowngradeNeedsTheHost
<1>1. UpdateInv /\ [Next]_updateVars => [InstallStep]_updateVars
  <2> SUFFICES ASSUME UpdateInv, Next, NEW p \in Process, updated'[p], ~updated[p],
                      Comparable(CurrentVersion(p), VersionOf[exe']), ~HostWentBack(p)
               PROVE  CompareReleaseVersions(CurrentVersion(p), VersionOf[exe']) < 0
    BY DEF InstallStep
  <2> USE DEF UpdateInv
  <2>1. Rename(p)
    BY DEF Next, Step, PublishArchive, PublishManifest, Start, MaybePrompt, Check, Answer, Refetch,
           Download, CreateTemp, WriteTemp, Rename, Reexec, Fails, Killed, UpdateShape
  <2>2. /\ exe' = manifest[p]
        /\ DecidedFor(p, reported[p])
        /\ manifest[p] \in Release
    BY <2>1 DEF Rename, At, Decided, FetchedAgain
  <2>3. /\ reported[p] \in Release
        /\ CompareReleaseVersions(CurrentVersion(p), VersionOf[reported[p]]) < 0
    BY <2>2 DEF DecidedFor, Comparable
  <2>4. reported[p] <= manifest[p]
    BY <2>2, <2>3, ReleaseAssumption DEF HostWentBack, Release
  <2>5. /\ CurrentVersion(p) \in Version
        /\ VersionOf[reported[p]] \in Version
        /\ VersionOf[manifest[p]] \in Version
    BY <2>2, <2>3, ReleaseAssumption DEF CurrentVersion, ReleasesOnly, Content
  <2>6. CASE reported[p] = manifest[p]
    BY <2>2, <2>3, <2>6
  <2>7. CASE CompareReleaseVersions(VersionOf[reported[p]], VersionOf[manifest[p]]) < 0
    BY <2>2, <2>3, <2>5, <2>7, CompareTransitive
  <2>8. QED
    BY <2>2, <2>3, <2>4, <2>6, <2>7, ReleasesInOrder
<1>2. QED
  BY <1>1, UpdateInvariant, PTL DEF Spec, DowngradeNeedsTheHost
=============================================================================
