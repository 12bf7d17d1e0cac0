--------------------------- MODULE DvrSpaceProofs ---------------------------
(***************************************************************************)
(* What holds of the files on the card for all files, sizes, cards and     *)
(* lengths of an hour and a day, when a thread's look at the list or at    *)
(* the account and its use of it are not torn apart (NoRace):              *)
(*   Shape       which files there are, and what the semaphores promise    *)
(*   ListInv     list, directories and card, at each step of a flush       *)
(*   ScanInv     what the list lacks is still to be visited by the scan,   *)
(*               and was recorded before whatever else is                  *)
(*   AccountInv  what the account has left is on the card                  *)
(* and from them what the run dvr_space checks.  Before them stand what    *)
(* the proofs need of a total, of DirsOf and of add_dir_to_list: both      *)
(* definitions recur, and what they give is proved by a least              *)
(* counterexample.                                                         *)
(***************************************************************************)
EXTENDS DvrSpace, TLAPS, FiniteSetTheorems, WellFoundedInduction, SequenceTheorems

(* A set of numbers that has a member has a least one.                     *)
LEMMA LeastNat ==
  ASSUME NEW T \in SUBSET Nat, T # {}
  PROVE  \E x \in T : \A y \in T : x <= y
<1> DEFINE R == OpToRel(<, Nat)
<1>1. \A x, y \in Nat : y < x => <<y, x>> \in R
  BY DEF OpToRel
<1>2. IsWellFoundedOn(R, Nat)
  BY NatLessThanWellFounded
<1> HIDE DEF R
<1>3. PICK x \in T : \A y \in T : ~(<<y, x>> \in R)
  BY <1>2, WFMin
<1>4. \A y \in T : ~(y < x)
  BY <1>1, <1>3, Zenon
<1>5. \A y \in T : x <= y
  BY <1>4
<1> QED BY <1>5, Zenon

(* Of some subsets of a finite set one includes no other.                  *)
LEMMA SmallestSet ==
  ASSUME NEW S, IsFiniteSet(S), NEW T \in SUBSET SUBSET S, T # {}
  PROVE  \E x \in T : \A y \in T : y \subseteq x => y = x
<1> DEFINE C == {Cardinality(x) : x \in T}
<1>1. \A x \in T : IsFiniteSet(x) /\ Cardinality(x) \in Nat
  BY FS_Subset, FS_CardinalityType
<1>2. C \in SUBSET Nat /\ C # {}
  BY <1>1
<1>3. PICK c \in C : \A d \in C : c <= d
  BY <1>2, LeastNat
<1>4. PICK x \in T : Cardinality(x) = c
  BY <1>3
<1>5. ASSUME NEW y \in T, y \subseteq x PROVE y = x
  <2>1. IsFiniteSet(x) /\ y \in SUBSET x
    BY <1>1, <1>5
  <2>2. Cardinality(y) <= Cardinality(x) /\ (Cardinality(x) = Cardinality(y) => x = y)
    BY <2>1, FS_Subset
  <2>3. Cardinality(x) <= Cardinality(y)
    BY <1>3, <1>4
  <2> QED BY <1>1, <2>2, <2>3
<1> QED BY <1>5

-----------------------------------------------------------------------------

(* The member that a fold over a set takes first, and the fold of Total.   *)
Some(s) == CHOOSE x \in s : TRUE
IsSum(f, D) ==
  f = [s \in D |-> IF s = {} THEN 0 ELSE Size(Some(s)) + f[s \ {Some(s)}]]

(* There is a function that takes every subset to the sum of its sizes,    *)
LEMMA SumExists ==
  ASSUME NEW S, IsFiniteSet(S), S \subseteq Files
  PROVE  \E f : IsSum(f, SUBSET S) /\ f \in [SUBSET S -> Nat]
<1> DEFINE D(n) == {s \in SUBSET S : Cardinality(s) <= n}
           Without == {n \in Nat : ~ \E f : IsSum(f, D(n)) /\ f \in [D(n) -> Nat]}
<1>c. \A s \in SUBSET S : IsFiniteSet(s) /\ Cardinality(s) \in Nat
                          /\ Cardinality(s) <= Cardinality(S)
  BY FS_Subset, FS_CardinalityType
<1>1. ASSUME Without # {} PROVE FALSE
  <2>1. PICK n \in Without : \A m \in Without : n <= m
    BY <1>1, LeastNat
  <2>2. CASE n = 0
    <3>1. \A s \in D(n) : s = {}
      BY <1>c, <2>2, FS_EmptySet
    <3> DEFINE f == [s \in D(n) |-> 0]
    <3>2. IsSum(f, D(n)) /\ f \in [D(n) -> Nat]
      BY <3>1 DEF IsSum
    <3> QED BY <2>1, <3>2
  <2>3. CASE n # 0
    <3>0. n \in Nat /\ n - 1 \in Nat /\ n - 1 < n
      BY <2>1, <2>3
    <3>1. n - 1 \in Nat /\ n - 1 \notin Without
      <4> HIDE DEF Without
      <4> QED BY <2>1, <3>0
    <3>2. PICK g : IsSum(g, D(n - 1)) /\ g \in [D(n - 1) -> Nat]
      BY <3>1
    <3> DEFINE f == [s \in D(n) |-> IF s = {} THEN 0 ELSE Size(Some(s)) + g[s \ {Some(s)}]]
    <3>3. ASSUME NEW s \in D(n), s # {}
          PROVE  s \ {Some(s)} \in D(n - 1) /\ Size(Some(s)) \in Nat
      <4>1. Some(s) \in s
        BY <3>3 DEF Some
      <4>2. Cardinality(s \ {Some(s)}) = Cardinality(s) - 1
        BY <1>c, <4>1, FS_RemoveElement
      <4> QED BY <1>c, <4>1, <4>2, SizesAssumption
    <3>4. f \in [D(n) -> Nat]
      BY <3>2, <3>3
    <3>5. ASSUME NEW s \in D(n - 1) PROVE f[s] = g[s]
      <4>1. s \in D(n)
        BY <1>c, <2>1
      <4>2. g[s] = IF s = {} THEN 0 ELSE Size(Some(s)) + g[s \ {Some(s)}]
        BY <3>2 DEF IsSum
      <4> QED BY <4>1, <4>2
    <3>6. ASSUME NEW s \in D(n)
          PROVE  f[s] = IF s = {} THEN 0 ELSE Size(Some(s)) + f[s \ {Some(s)}]
      BY <3>3, <3>5
    <3>7. IsSum(f, D(n))
      BY <3>6 DEF IsSum
    <3> QED BY <2>1, <3>4, <3>7
  <2> QED BY <2>2, <2>3
<1>2. Cardinality(S) \in Nat
  BY FS_CardinalityType
<1>3. D(Cardinality(S)) = SUBSET S
  BY <1>c
<1> QED BY <1>1, <1>2, <1>3

(* ... it is the same however large the set is of which these are the      *)
(* subsets,                                                                *)
LEMMA SumUnique ==
  ASSUME NEW S, IsFiniteSet(S), NEW T \in SUBSET S, NEW f, NEW g,
         IsSum(f, SUBSET S), IsSum(g, SUBSET T)
  PROVE  f[T] = g[T]
<1> DEFINE B == {s \in SUBSET T : f[s] # g[s]}
<1>1. ASSUME B # {} PROVE FALSE
  <2>1. IsFiniteSet(T) /\ B \in SUBSET SUBSET T
    BY FS_Subset
  <2>2. PICK s \in B : \A u \in B : u \subseteq s => u = s
    <3> HIDE DEF B
    <3> QED BY <1>1, <2>1, SmallestSet
  <2>3. /\ f[s] = IF s = {} THEN 0 ELSE Size(Some(s)) + f[s \ {Some(s)}]
        /\ g[s] = IF s = {} THEN 0 ELSE Size(Some(s)) + g[s \ {Some(s)}]
    BY DEF IsSum
  <2>4. s # {}
    BY <2>3
  <2>5. Some(s) \in s
    BY <2>4 DEF Some
  <2>6. f[s \ {Some(s)}] = g[s \ {Some(s)}]
    BY <2>2, <2>5
  <2> QED BY <2>2, <2>3, <2>6
<1> QED BY <1>1

(* ... and Total is that function.                                         *)
LEMMA TotalIs ==
  ASSUME NEW S, IsFiniteSet(S), S \subseteq Files, NEW f, IsSum(f, SUBSET S)
  PROVE  Total(S) = f[S]
<1> DEFINE g == CHOOSE iter : iter = [s \in SUBSET S |->
                  IF s = {} THEN 0 ELSE Size(CHOOSE x \in s : TRUE)
                                        + iter[s \ {CHOOSE x \in s : TRUE}]]
<1>1. Total(S) = g[S]
  BY DEF Total, MapThenSumSet, MapThenFoldSet
<1>2. IsSum(g, SUBSET S)
  BY DEF IsSum, Some
<1> HIDE DEF g
<1> QED BY <1>1, <1>2, SumUnique

(* So a total is a number, and that of a set is that of what remains       *)
(* without the member taken first, and its size;                           *)
LEMMA TotalStep ==
  ASSUME NEW S, IsFiniteSet(S), S \subseteq Files
  PROVE  /\ Total(S) \in Nat
         /\ S = {} => Total(S) = 0
         /\ S # {} => /\ Some(S) \in S
                      /\ Total(S) = Size(Some(S)) + Total(S \ {Some(S)})
<1>1. PICK f : IsSum(f, SUBSET S) /\ f \in [SUBSET S -> Nat]
  BY SumExists
<1>2. Total(S) = f[S]
  BY <1>1, TotalIs
<1>3. f[S] = IF S = {} THEN 0 ELSE Size(Some(S)) + f[S \ {Some(S)}]
  BY <1>1 DEF IsSum
<1>4. ASSUME S # {} PROVE f[S \ {Some(S)}] = Total(S \ {Some(S)})
  <2> DEFINE T == S \ {Some(S)}
  <2>1. T \in SUBSET S /\ IsFiniteSet(T) /\ T \subseteq Files
    BY FS_Subset
  <2>2. PICK g : IsSum(g, SUBSET T) /\ g \in [SUBSET T -> Nat]
    BY <2>1, SumExists
  <2>3. Total(T) = g[T]
    BY <2>1, <2>2, TotalIs
  <2>4. f[T] = g[T]
    BY <1>1, <2>1, <2>2, SumUnique
  <2> QED BY <2>3, <2>4
<1>5. S # {} => Some(S) \in S
  BY DEF Some
<1> QED BY <1>1, <1>2, <1>3, <1>4, <1>5

(* ... or without any other.                                               *)
LEMMA TotalRemove ==
  ASSUME NEW S, IsFiniteSet(S), S \subseteq Files, NEW x \in S
  PROVE  Total(S) = Size(x) + Total(S \ {x})
<1> DEFINE B == {s \in SUBSET S : \E y \in s : Total(s) # Size(y) + Total(s \ {y})}
<1>f. \A s \in SUBSET S : IsFiniteSet(s) /\ s \subseteq Files
  BY FS_Subset
<1>1. ASSUME B # {} PROVE FALSE
  <2>1. PICK s \in B : \A u \in B : u \subseteq s => u = s
    <3>1. B \in SUBSET SUBSET S
      OBVIOUS
    <3> HIDE DEF B
    <3> QED BY <1>1, <3>1, SmallestSet
  <2>2. PICK y \in s : Total(s) # Size(y) + Total(s \ {y})
    OBVIOUS
  <2> DEFINE c == Some(s)
             t == (s \ {c}) \ {y}
  <2>3. c \in s /\ Total(s) = Size(c) + Total(s \ {c})
    BY <1>f, TotalStep
  <2>4. c # y
    BY <2>2, <2>3
  <2>5. s \ {c} \notin B /\ s \ {y} \notin B
    BY <2>1, <2>2, <2>3
  <2>6. Total(s \ {c}) = Size(y) + Total(t)
    BY <2>2, <2>4, <2>5
  <2>7. Total(s \ {y}) = Size(c) + Total((s \ {y}) \ {c})
    BY <2>3, <2>4, <2>5
  <2>8. (s \ {y}) \ {c} = t
    OBVIOUS
  <2>9. Size(y) \in Nat /\ Size(c) \in Nat /\ Total(t) \in Nat
    <3>1. y \in Files /\ c \in Files /\ t \in SUBSET S
      BY <2>2, <2>3, <1>f
    <3>2. Total(t) \in Nat
      BY <3>1, <1>f, TotalStep
    <3> QED BY <3>1, <3>2, SizesAssumption
  <2> HIDE DEF c, t
  <2> QED BY <2>2, <2>3, <2>6, <2>7, <2>8, <2>9
<1>2. S \notin B
  BY <1>1
<1> QED BY <1>2

(* The total of a set is that of a part and that of the rest.              *)
LEMMA TotalSplits ==
  ASSUME NEW S, IsFiniteSet(S), S \subseteq Files, NEW T \in SUBSET S
  PROVE  /\ Total(S) \in Nat /\ Total(T) \in Nat /\ Total(S \ T) \in Nat
         /\ Total(S) = Total(T) + Total(S \ T)
<1> DEFINE B == {u \in SUBSET T : Total(S) # Total(S \ u) + Total(u)}
<1>f. \A s \in SUBSET S : IsFiniteSet(s) /\ s \subseteq Files /\ Total(s) \in Nat
  BY FS_Subset, TotalStep
<1>1. ASSUME B # {} PROVE FALSE
  <2>1. PICK u \in B : \A v \in B : v \subseteq u => v = u
    <3>1. B \in SUBSET SUBSET S
      OBVIOUS
    <3> HIDE DEF B
    <3> QED BY <1>1, <3>1, SmallestSet
  <2>2. u # {}
    <3>1. S \ {} = S /\ Total({}) = 0
      BY <1>f, TotalStep
    <3>2. Total(S) = Total(S \ {}) + Total({})
      BY <3>1, <1>f
    <3> QED BY <2>1, <3>2
  <2>3. PICK x \in u : TRUE
    BY <2>2
  <2> DEFINE v == u \ {x}
             w == S \ v
  <2>4. Total(S) = Total(w) + Total(v)
    BY <2>1, <2>3
  <2>5. Total(u) = Size(x) + Total(v)
    BY <1>f, TotalRemove
  <2>6. x \in w /\ w \in SUBSET S /\ w \ {x} = S \ u
    OBVIOUS
  <2>7. Total(w) = Size(x) + Total(S \ u)
    <3> HIDE DEF w
    <3> QED BY <2>6, <1>f, TotalRemove
  <2>8. Size(x) \in Nat /\ Total(v) \in Nat /\ Total(S \ u) \in Nat
    BY <1>f, SizesAssumption
  <2> QED BY <2>4, <2>5, <2>7, <2>8
<1>2. T \notin B
  BY <1>1
<1> QED BY <1>2, <1>f

-----------------------------------------------------------------------------

(* The fold of DirsOf.                                                     *)
Step(ds, hours, f, i) == IF i = 0 THEN << >>
                         ELSE IF ds[i] \in hours THEN Append(f[i - 1], ds[i]) ELSE f[i - 1]

(* There is a function that it defines.                                    *)
LEMMA KeptExists ==
  ASSUME NEW ds, NEW hours, NEW m \in Nat
  PROVE  \E f : f = [i \in 0..m |-> Step(ds, hours, f, i)]
<1> DEFINE Without == {n \in Nat : ~ \E f : f = [i \in 0..n |-> Step(ds, hours, f, i)]}
<1>1. ASSUME Without # {} PROVE FALSE
  <2>1. PICK n \in Without : \A k \in Without : n <= k
    <3> HIDE DEF Without
    <3>1. Without \in SUBSET Nat
      BY DEF Without
    <3> QED BY <1>1, <3>1, LeastNat
  <2>2. CASE n = 0
    <3> DEFINE f == [i \in 0..n |-> << >>]
    <3>1. f = [i \in 0..n |-> Step(ds, hours, f, i)]
      BY <2>2 DEF Step
    <3> QED BY <2>1, <3>1
  <2>3. CASE n # 0
    <3>0. n \in Nat /\ n - 1 \in Nat /\ n - 1 < n
      BY <2>1, <2>3
    <3>1. n - 1 \notin Without
      <4> HIDE DEF Without
      <4> QED BY <2>1, <3>0
    <3>2. PICK g : g = [i \in 0..n - 1 |-> Step(ds, hours, g, i)]
      BY <3>0, <3>1
    <3> DEFINE f == [i \in 0..n |-> Step(ds, hours, g, i)]
    <3>3. ASSUME NEW i \in 0..n - 1 PROVE f[i] = g[i]
      BY <3>0, <3>2
    <3>4. ASSUME NEW i \in 0..n PROVE f[i] = Step(ds, hours, f, i)
      <4>1. f[i] = Step(ds, hours, g, i)
        OBVIOUS
      <4>2. CASE i = 0
        BY <4>1, <4>2 DEF Step
      <4>3. CASE i # 0
        <5>1. f[i - 1] = g[i - 1]
          BY <3>0, <3>3, <4>3
        <5> HIDE DEF f
        <5> QED BY <4>1, <4>3, <5>1 DEF Step
      <4> QED BY <4>2, <4>3
    <3>5. f = [i \in 0..n |-> Step(ds, hours, f, i)]
      <4> HIDE DEF f
      <4>1. f = [i \in 0..n |-> f[i]]
        BY DEF f
      <4> QED BY <3>4, <4>1
    <3> QED BY <2>1, <3>5
  <2> QED BY <2>2, <2>3
<1>2. m \notin Without
  BY <1>1
<1> QED BY <1>2

(* What is kept of the first i directories: those of the hours, each once. *)
KeptSo(s, ds, hours, H, i) ==
  /\ s \in Seq(H)
  /\ \A x : (\E k \in 1..Len(s) : s[k] = x) <=> x \in hours /\ (\E j \in 1..i : ds[j] = x)
  /\ \A k, l \in 1..Len(s) : s[k] = s[l] => k = l

(* A sequence and one member more.                                         *)
LEMMA AppendFacts ==
  ASSUME NEW H, NEW s \in Seq(H), NEW x \in H
  PROVE  /\ Append(s, x) \in Seq(H) /\ Len(s) \in Nat /\ Len(Append(s, x)) = Len(s) + 1
         /\ \A k \in 1..Len(s) : Append(s, x)[k] = s[k]
         /\ Append(s, x)[Len(s) + 1] = x
<1>1. Append(s, x) \in Seq(H)
  BY AppendProperties
<1> QED BY <1>1

(* That is what is kept, however many there are.                           *)
LEMMA KeptIsSo ==
  ASSUME NEW H, NEW ds \in Seq(H), NEW hours, NEW f,
         f = [i \in 0..Len(ds) |-> Step(ds, hours, f, i)],
         \A a, b \in 1..Len(ds) : ds[a] = ds[b] => a = b
  PROVE  \A i \in 0..Len(ds) : KeptSo(f[i], ds, hours, H, i)
<1> DEFINE Bad == {i \in 0..Len(ds) : ~KeptSo(f[i], ds, hours, H, i)}
<1>0. Len(ds) \in Nat /\ Bad \in SUBSET Nat
  OBVIOUS
<1>s. \A i \in 0..Len(ds) : f[i] = Step(ds, hours, f, i)
  OBVIOUS
<1>1. ASSUME Bad # {} PROVE FALSE
  <2>1. PICK n \in Bad : \A k \in Bad : n <= k
    <3> HIDE DEF Bad
    <3> QED BY <1>0, <1>1, LeastNat
  <2>2. n \in 0..Len(ds) /\ n \in Nat
    BY <1>0, <2>1
  <2>3. CASE n = 0
    <3>1. f[n] = << >>
      BY <1>s, <2>2, <2>3 DEF Step
    <3>2. << >> \in Seq(H)
      BY EmptySeq
    <3>3. KeptSo(f[n], ds, hours, H, n)
      BY <2>3, <3>1, <3>2 DEF KeptSo
    <3> QED BY <2>1, <3>3
  <2>4. CASE n # 0
    <3> DEFINE p == n - 1
               s == f[p]
    <3>0. p \in 0..Len(ds) /\ n \in 1..Len(ds) /\ p < n /\ n = p + 1 /\ p \in Nat
      BY <1>0, <2>2, <2>4
    <3>1. KeptSo(s, ds, hours, H, p)
      <4>1. p \notin Bad
        <5> HIDE DEF Bad
        <5> QED BY <2>1, <2>2, <3>0
      <4> QED BY <3>0, <4>1
    <3>2. f[n] = IF ds[n] \in hours THEN Append(s, ds[n]) ELSE s
      BY <1>s, <2>2, <2>4 DEF Step
    <3>3. ds[n] \in H
      BY <3>0
    <3> HIDE DEF s, p
    <3>4. CASE ds[n] \notin hours
      <4>1. f[n] = s
        BY <3>2, <3>4
      <4>2. KeptSo(s, ds, hours, H, n)
        BY <3>0, <3>1, <3>4 DEF KeptSo
      <4> QED BY <2>1, <4>1, <4>2
    <3>5. CASE ds[n] \in hours
      <4> DEFINE t == Append(s, ds[n])
      <4>0. s \in Seq(H)
        BY <3>1 DEF KeptSo
      <4>1. /\ t \in Seq(H) /\ Len(s) \in Nat /\ Len(t) = Len(s) + 1
            /\ \A k \in 1..Len(s) : t[k] = s[k]
            /\ t[Len(s) + 1] = ds[n]
        BY <3>3, <4>0, AppendFacts
      <4>2. \A x : (\E k \in 1..Len(s) : s[k] = x)
                     <=> x \in hours /\ (\E j \in 1..p : ds[j] = x)
        BY <3>1 DEF KeptSo
      <4>3. \A k, l \in 1..Len(s) : s[k] = s[l] => k = l
        BY <3>1 DEF KeptSo
      <4> HIDE DEF t
      <4>4. \A k \in 1..Len(s) : s[k] # ds[n]
        <5>1. ~ \E j \in 1..p : ds[j] = ds[n]
          BY <3>0
        <5> QED BY <4>2, <5>1
      <4>5. \A k, l \in 1..Len(t) : t[k] = t[l] => k = l
        BY <4>1, <4>3, <4>4
      <4>6. ASSUME NEW x
            PROVE  (\E k \in 1..Len(t) : t[k] = x) <=> x \in hours /\ (\E j \in 1..n : ds[j] = x)
        <5>1. (\E k \in 1..Len(t) : t[k] = x) <=> (\E k \in 1..Len(s) : s[k] = x) \/ x = ds[n]
          BY <4>1
        <5>2. (\E j \in 1..n : ds[j] = x) <=> (\E j \in 1..p : ds[j] = x) \/ x = ds[n]
          BY <3>0
        <5> QED BY <3>5, <4>2, <5>1, <5>2
      <4>7. KeptSo(t, ds, hours, H, n)
        BY <4>1, <4>5, <4>6 DEF KeptSo
      <4> QED BY <2>1, <3>2, <3>5, <4>7 DEF t
    <3> QED BY <3>4, <3>5
  <2> QED BY <2>3, <2>4
<1> QED BY <1>1

(* DirsOf gives the directories of the hours, each once.                   *)
LEMMA DirsOfFacts ==
  ASSUME NEW H, NEW ds \in Seq(H), NEW hours, IsInjective(ds)
  PROVE  /\ DirsOf(ds, hours) \in Seq(H) /\ IsInjective(DirsOf(ds, hours))
         /\ ToSet(DirsOf(ds, hours)) = ToSet(ds) \intersect hours
<1> DEFINE f == CHOOSE kept : kept = [i \in 0..Len(ds) |->
                  IF i = 0 THEN << >>
                  ELSE IF ds[i] \in hours THEN Append(kept[i - 1], ds[i]) ELSE kept[i - 1]]
           n == Len(ds)
           s == f[n]
<1>1. DirsOf(ds, hours) = s
  BY DEF DirsOf
<1>2. n \in Nat /\ DOMAIN ds = 1..n
  OBVIOUS
<1>3. f = [i \in 0..n |-> Step(ds, hours, f, i)]
  <2>1. \E kept : kept = [i \in 0..n |-> Step(ds, hours, kept, i)]
    BY <1>2, KeptExists
  <2>2. f = CHOOSE kept : kept = [i \in 0..n |-> Step(ds, hours, kept, i)]
    BY Zenon DEF Step
  <2> HIDE DEF f
  <2> QED BY <2>1, <2>2, Zenon
<1> HIDE DEF f
<1>4. \A a, b \in 1..n : ds[a] = ds[b] => a = b
  BY <1>2 DEF IsInjective
<1>5. KeptSo(s, ds, hours, H, n)
  BY <1>2, <1>3, <1>4, KeptIsSo
<1> HIDE DEF s, n
<1>6. s \in Seq(H) /\ DOMAIN s = 1..Len(s)
  BY <1>5 DEF KeptSo
<1>7. IsInjective(s)
  BY <1>5, <1>6 DEF KeptSo, IsInjective
<1>8. ASSUME NEW x PROVE x \in ToSet(s) <=> x \in ToSet(ds) \intersect hours
  BY <1>2, <1>5, <1>6 DEF KeptSo, ToSet
<1> QED BY <1>1, <1>6, <1>7, <1>8

-----------------------------------------------------------------------------

(* The directories of some files.                                          *)
Hours(files) == {HourOf(f) : f \in files}

(* Quotient and remainder.                                                 *)
LEMMA SpanFacts ==
  ASSUME NEW a \in Nat, NEW n \in Nat \ {0}
  PROVE  \E q \in Nat, r \in 0..n - 1 : a \div n = q /\ a % n = r /\ a = n * q + r
<1> DEFINE q == a \div n
           p == n * q
           r == a % n
<1>1. r \in 0..n - 1
  OBVIOUS
<1>2. q \in Nat
  OBVIOUS
<1>3. n > 0 /\ n \in Int /\ a \in Int
  OBVIOUS
<1>4. r = a - p
  BY <1>3, Z3
<1> HIDE DEF q
<1>5. p \in Int
  BY <1>2, <1>3
<1>6. r \in Int
  BY <1>1, <1>3
<1> HIDE DEF p, r
<1>7. a = p + r
  BY <1>3, <1>4, <1>5, <1>6
<1>8. q \in Nat /\ r \in 0..n - 1 /\ a \div n = q /\ a % n = r /\ a = n * q + r
  BY <1>1, <1>2, <1>7 DEF p, q, r
<1> QED BY <1>8

(* A number taken as an unsigned long.                                     *)
LEMMA ModFacts ==
  ASSUME NEW a \in Int
  PROVE  /\ Word \in Nat \ {0}
         /\ a % Word \in 0..Word - 1
         /\ a \in 0..Word - 1 => a % Word = a
<1>1. Word \in Nat \ {0}
  BY SizesAssumption
<1> QED BY <1>1

(* The types of a file, its size, its hour and its day.                    *)
LEMMA FileFacts ==
  ASSUME NEW f \in Files
  PROVE  /\ f \in Nat /\ f # NoFile /\ Size(f) \in Nat
         /\ HourOf(f) \in Nat /\ DayOf(HourOf(f)) \in Nat
<1>1. f \in Nat /\ Hour \in Nat \ {0} /\ Day \in Nat \ {0} /\ Size(f) \in Nat
  BY TimesAssumption, SizesAssumption
<1>2. HourOf(f) \in Nat
  BY <1>1, SpanFacts DEF HourOf
<1>3. HourOf(f) * Hour \in Nat
  BY <1>1, <1>2
<1> QED BY <1>1, <1>2, <1>3, SpanFacts DEF DayOf, NoFile

(* Least is the least.                                                     *)
LEMMA LeastFacts ==
  ASSUME NEW S \in SUBSET Nat, S # {}
  PROVE  Least(S) \in S /\ \A y \in S : Least(S) <= y
  BY LeastNat DEF Least

(* Max is one of the numbers.                                              *)
LEMMA MaxFacts ==
  ASSUME NEW n \in Nat, NEW S \in SUBSET (1..n), S # {}
  PROVE  Max(S) \in S
<1> DEFINE T == {n - i : i \in S}
<1>0. \A i \in S : i \in Nat /\ n - i \in Nat
  OBVIOUS
<1>1. T \in SUBSET Nat /\ T # {}
  BY <1>0
<1>2. PICK t \in T : \A y \in T : t <= y
  BY <1>1, LeastNat
<1>3. PICK i \in S : t = n - i
  OBVIOUS
<1>4. \A j \in S : i >= j
  BY <1>0, <1>2, <1>3
<1> QED BY <1>4 DEF Max

(* InsertAt adds one member, at any place.                                 *)
LEMMA InsertFacts ==
  ASSUME NEW H, NEW ds \in Seq(H), NEW x \in H, NEW i \in 1..Len(ds),
         IsInjective(ds), x \notin ToSet(ds)
  PROVE  /\ InsertAt(ds, i, x) \in Seq(H) /\ IsInjective(InsertAt(ds, i, x))
         /\ ToSet(InsertAt(ds, i, x)) = ToSet(ds) \union {x}
<1> DEFINE n == Len(ds)
           t == InsertAt(ds, i, x)
<1>1. n \in Nat /\ DOMAIN ds = 1..n
  OBVIOUS
<1>2. /\ t \in Seq(H) /\ Len(t) = n + 1
      /\ \A k \in 1..n + 1 : t[k] = IF k < i THEN ds[k]
                                    ELSE IF k = i THEN x ELSE ds[k - 1]
  BY <1>1 DEF InsertAt
<1> HIDE DEF t
<1>3. \A a, b \in 1..n : ds[a] = ds[b] => a = b
  BY <1>1 DEF IsInjective
<1>4. \A a \in 1..n : ds[a] # x
  BY <1>1 DEF ToSet
<1>5. DOMAIN t = 1..n + 1
  BY <1>2
<1>6. ASSUME NEW k \in 1..n + 1, NEW l \in 1..n + 1, t[k] = t[l] PROVE k = l
  <2>1. /\ t[k] = IF k < i THEN ds[k] ELSE IF k = i THEN x ELSE ds[k - 1]
        /\ t[l] = IF l < i THEN ds[l] ELSE IF l = i THEN x ELSE ds[l - 1]
    BY <1>2
  <2>2. /\ k < i => k \in 1..n
        /\ l < i => l \in 1..n
        /\ k > i => k - 1 \in 1..n
        /\ l > i => l - 1 \in 1..n
    BY <1>1
  <2> DEFINE p == IF k < i THEN k ELSE k - 1
             q == IF l < i THEN l ELSE l - 1
  <2>3. /\ k # i => p \in 1..n /\ t[k] = ds[p]
        /\ l # i => q \in 1..n /\ t[l] = ds[q]
        /\ k = i => t[k] = x
        /\ l = i => t[l] = x
    BY <2>1, <2>2, <1>1
  <2>4. k # i /\ l # i /\ p = q => k = l
    BY <1>1
  <2> HIDE DEF p, q
  <2> QED BY <1>3, <1>4, <1>6, <2>3, <2>4
<1>7. IsInjective(t)
  BY <1>5, <1>6 DEF IsInjective
<1>8. ASSUME NEW y \in ToSet(ds) PROVE y \in ToSet(t)
  <2>1. PICK a \in 1..n : ds[a] = y
    BY <1>1 DEF ToSet
  <2>2. CASE a < i
    <3>1. a \in 1..n + 1 /\ t[a] = y
      BY <1>1, <1>2, <2>1, <2>2
    <3> QED BY <1>5, <3>1 DEF ToSet
  <2>3. CASE ~(a < i)
    <3>1. a + 1 \in 1..n + 1 /\ t[a + 1] = y
      BY <1>1, <1>2, <2>1, <2>3
    <3> QED BY <1>5, <3>1 DEF ToSet
  <2> QED BY <2>2, <2>3
<1>9. x \in ToSet(t)
  <2>1. i \in 1..n + 1 /\ t[i] = x
    BY <1>1, <1>2
  <2> QED BY <1>5, <2>1 DEF ToSet
<1>10. ASSUME NEW y \in ToSet(t) PROVE y \in ToSet(ds) \union {x}
  <2>1. PICK k \in 1..n + 1 : t[k] = y
    BY <1>5, <1>10 DEF ToSet
  <2>2. \/ k \in 1..n /\ y = ds[k]
        \/ y = x
        \/ k - 1 \in 1..n /\ y = ds[k - 1]
    BY <1>1, <1>2, <2>1
  <2> QED BY <1>1, <2>2 DEF ToSet
<1>11. ToSet(t) = ToSet(ds) \union {x}
  BY <1>8, <1>9, <1>10
<1> QED BY <1>2, <1>7, <1>11 DEF t

(* So does add_dir_to_list, whatever the order of the days,                *)
LEMMA AddFacts ==
  ASSUME NEW H, NEW ds \in Seq(H), NEW x \in H, IsInjective(ds), x \notin ToSet(ds)
  PROVE  /\ add_dir_to_list(ds, x) \in Seq(H) /\ IsInjective(add_dir_to_list(ds, x))
         /\ ToSet(add_dir_to_list(ds, x)) = ToSet(ds) \union {x}
<1>1. Len(ds) \in Nat /\ DOMAIN ds = 1..Len(ds)
  OBVIOUS
<1>2. CASE EarlierDays(ds, x) = {}
  <2> DEFINE t == Append(ds, x)
  <2>1. /\ t \in Seq(H) /\ Len(t) = Len(ds) + 1 /\ t[Len(ds) + 1] = x
        /\ \A k \in 1..Len(ds) : t[k] = ds[k]
    BY AppendFacts
  <2>2. add_dir_to_list(ds, x) = t
    BY <1>2 DEF add_dir_to_list
  <2> HIDE DEF t
  <2>3. DOMAIN t = 1..Len(ds) + 1
    BY <2>1
  <2>4. IsInjective(t)
    BY <1>1, <2>1, <2>3 DEF IsInjective, ToSet
  <2>5. ToSet(t) = ToSet(ds) \union {x}
    BY <1>1, <2>1, <2>3 DEF ToSet
  <2> QED BY <2>1, <2>2, <2>4, <2>5
<1>3. CASE EarlierDays(ds, x) # {}
  <2>1. EarlierDays(ds, x) \in SUBSET (1..Len(ds))
    BY <1>1 DEF EarlierDays
  <2>2. Max(EarlierDays(ds, x)) \in 1..Len(ds)
    BY <1>1, <1>3, <2>1, MaxFacts
  <2> QED BY <1>3, <2>2, InsertFacts DEF add_dir_to_list
<1> QED BY <1>2, <1>3

(* ... and create_entry_dir, when every directory of the list is on the    *)
(* card.                                                                   *)
LEMMA EntryDirFacts ==
  ASSUME NEW H, NEW ds \in Seq(H), NEW x \in H, IsInjective(ds),
         ToSet(ds) \subseteq folders
  PROVE  /\ create_entry_dir(ds, x) \in Seq(H) /\ IsInjective(create_entry_dir(ds, x))
         /\ ToSet(create_entry_dir(ds, x)) = ToSet(ds) \union {x}
<1>1. Contains(ds, x) <=> x \in ToSet(ds)
  BY DEF Contains, ToSet
<1>2. CASE x \in ToSet(ds)
  BY <1>1, <1>2 DEF create_entry_dir
<1>3. CASE x \notin ToSet(ds)
  BY <1>1, <1>3, AddFacts DEF create_entry_dir
<1> QED BY <1>2, <1>3

-----------------------------------------------------------------------------

(* A file being saved is a recorded one that is not on the card yet; the   *)
(* scan does not take its reserve while a file is charged; and every       *)
(* semaphore posted, and a scan at work, is for a call of                  *)
(* ak_dvr_file_create_list.                                                *)
Shape ==
  /\ card \subseteq past /\ listed \subseteq past /\ refused \subseteq past
  /\ past \subseteq Files
  /\ IsFiniteSet(past)
  /\ tmp # NoFile => tmp \in past \ card
  /\ flush \in {"idle", "account", "dir", "entry", "rename", "bare"}
  /\ flush # "idle" => tmp # NoFile /\ scan.pc # "reserve"
  /\ lists \in 0..MaxLists
  /\ pre_record_sem + finish_sem <= lists
  /\ scan.pc # "idle" => pre_record_sem + finish_sem < lists

(* The list has the files of the card, but for those that were refused a   *)
(* node, and from FlushLists to FlushRenames the one that is about to be   *)
(* there; it has their directories and, between FlushFindsDir and          *)
(* FlushLists, the one that is about to have a file; and the directories   *)
(* are on the card.                                                        *)
ListInv ==
  /\ listed \subseteq card \union (IF flush = "rename" THEN {tmp} ELSE {})
  /\ flush \in {"rename", "bare"} => tmp \in listed \union refused
  /\ \A f \in listed : HourOf(f) \in ToSet(dirs)
  /\ ToSet(dirs) \subseteq Hours(listed)
                           \union (IF flush = "entry" THEN {HourOf(tmp)} ELSE {})
  /\ Hours(card) \subseteq folders /\ folders \subseteq Hours(Files)
  /\ flush \in {"entry", "rename"} => HourOf(tmp) \in folders

(* The files that the scan has still to visit.                             *)
Unseen == {f \in past : \/ status = "ready" \/ f \in scan.files
                        \/ HourOf(f) \in scan.hours \/ DayOf(HourOf(f)) \in scan.days}

(* The fields of scan.                                                     *)
ScanType == [pc : {"idle", "day", "hour", "file", "sum", "room", "reserve", "post"},
             days : SUBSET Nat, hours : SUBSET Hours(Files), files : SUBSET Files,
             hour : Nat, total : Nat, sum : Nat]

(* The files that are on the list, or are not for want of a node.          *)
Known == listed \union refused

(* A file on the card that is not among them is one the scan has still to  *)
(* visit; and of those still to visit, the ones that are, or are gone from *)
(* the card, were recorded later. So a file that is gone, which ends the   *)
(* visit of its directory, ends it for none that the list lacks.           *)
ScanInv ==
  /\ scan \in ScanType
  /\ scan.files \subseteq past
  /\ status = "fetching" <=> scan.pc \in {"day", "hour", "file", "sum"}
  /\ status = "ready" => scan.pc = "idle"
  /\ scan.pc # "file" => scan.files = {}
  /\ scan.pc \notin {"file", "hour"} => scan.hours = {}
  /\ scan.pc \notin {"file", "hour", "day"} => scan.days = {}
  /\ \A f \in scan.files : HourOf(f) \notin scan.hours /\ DayOf(HourOf(f)) \notin scan.days
  /\ \A h \in scan.hours : DayOf(h) \notin scan.days
  /\ card \ Known \subseteq Unseen
  /\ \A f \in card \ Known, g \in Unseen : g \in Known \/ g \notin card => f < g

(* The reserve is taken off the account.                                   *)
SettledNow == pre_record_sem = 0 /\ scan.pc \in {"idle", "post"} /\ status = "ok" /\ ~no_space

(* What the temporary file takes of the card, what the account was charged *)
(* for and is not on the card, and what was kept back.                     *)
TmpSize == IF tmp = NoFile THEN 0 ELSE Size(tmp)
Charged == IF flush \in {"dir", "entry", "rename", "bare"} THEN Size(tmp) ELSE 0
Kept == IF SettledNow THEN Reserved ELSE 0

(* What is on the card fits, what the account has left is there, and what  *)
(* is about to be taken off it is not more than it has.                    *)
AccountInv ==
  /\ Total(card) + TmpSize <= Capacity
  /\ free_size + Kept + Total(card) + Charged <= Capacity
  /\ flush = "account" => Size(tmp) <= free_size
  /\ scan.pc = "reserve" => Reserved <= free_size

(* Together they are inductive.                                            *)
IInv == TypeOK /\ Shape /\ ListInv /\ ScanInv /\ AccountInv

(* Without a race, a thread that looks and uses meets no other that does.  *)
NoRace == "race" \notin Faults
AloneNow ==
  /\ Alone("scan") => flush = "idle"
  /\ Alone("flush") => scan.pc # "reserve"
  /\ Alone("ctl") => flush = "idle" /\ scan.pc # "reserve"
LEMMA AloneIs ==
  ASSUME NoRace
  PROVE  AloneNow
  BY DEF NoRace, Alone, AloneNow

(* FileFacts, for all files and directories.                               *)
LEMMA HourFacts ==
  /\ \A f \in Files : f \in Nat /\ f # NoFile /\ Size(f) \in Nat
                      /\ HourOf(f) \in Nat /\ DayOf(HourOf(f)) \in Nat
                      /\ HourOf(f) \in Hours(Files)
  /\ \A h \in Hours(Files) : h \in Nat /\ DayOf(h) \in Nat
BY FileFacts DEF Hours

(* The totals of what is on the card.                                      *)
LEMMA CardFacts ==
  ASSUME Shape
  PROVE  /\ IsFiniteSet(card) /\ IsFiniteSet(listed)
         /\ card \subseteq Files /\ listed \subseteq Files
         /\ Total(card) \in Nat
         /\ \A S \in SUBSET card : Total(S) \in Nat /\ Total(card \ S) \in Nat
                                   /\ Total(card) = Total(S) + Total(card \ S)
         /\ \A f \in Files \ card : Total(card \union {f}) = Total(card) + Size(f)
<1>1. IsFiniteSet(card) /\ IsFiniteSet(listed) /\ card \subseteq Files /\ listed \subseteq Files
  BY FS_Subset DEF Shape
<1>2. \A S \in SUBSET card : Total(S) \in Nat /\ Total(card \ S) \in Nat
                                   /\ Total(card) = Total(S) + Total(card \ S)
  BY <1>1, TotalSplits
<1>3. Total(card) \in Nat
  BY <1>1, TotalStep
<1>4. ASSUME NEW f \in Files \ card PROVE Total(card \union {f}) = Total(card) + Size(f)
  <2> DEFINE c == card \union {f}
  <2>1. IsFiniteSet(c) /\ c \subseteq Files /\ f \in c /\ c \ {f} = card
    BY <1>1, FS_AddElement
  <2>2. Total(c) = Size(f) + Total(c \ {f})
    <3> HIDE DEF c
    <3> QED BY <2>1, TotalRemove
  <2> QED BY <1>3, <2>1, <2>2, SizesAssumption
<1> QED BY <1>1, <1>2, <1>3, <1>4

(* remove_earliest_file, while list and card agree: what it takes off the  *)
(* list is off the card and back in the account, and directories go with   *)
(* their last file.                                                        *)
LEMMA RemoveFacts ==
  ASSUME IInv, flush \notin {"entry", "rename", "bare"}, NEW occupy \in Nat, remove_earliest_file(occupy)
  PROVE  \E gone \in SUBSET listed :
           /\ gone = Doomed(occupy)
           /\ listed' = listed \ gone /\ card' = card \ gone
           /\ Total(gone) \in Nat /\ Total(card') \in Nat
           /\ Total(card) = Total(card') + Total(gone)
           /\ free_size' = free_size + Total(gone)
           /\ free_size' = RoomAfter(occupy)
           /\ used_size' \in 0..Word - 1
           /\ dirs' \in Seq({HourOf(f) : f \in Files}) /\ IsInjective(dirs')
           /\ \A f \in listed' : HourOf(f) \in ToSet(dirs')
           /\ ToSet(dirs') \subseteq Hours(listed')
           /\ Hours(card') \subseteq folders' /\ folders' \subseteq folders
           /\ refused' = refused
<1> DEFINE gone == Doomed(occupy)
<1>1. gone \in SUBSET listed
  BY DEF Doomed, Reachable
<1> HIDE DEF gone
<1>2. listed \subseteq card
  BY DEF IInv, ListInv
<1>3. /\ listed' = listed \ gone
      /\ dirs' = DirsOf(dirs, ToSet(dirs) \ Emptied(gone))
      /\ card' = card \ gone
      /\ folders' = folders \ {h \in Emptied(gone) : In(h, card \ gone) = {}}
      /\ free_size' = free_size + Total(gone)
      /\ used_size' = (used_size - Total(gone)) % Word
      /\ refused' = refused
  BY DEF remove_earliest_file, gone
<1>4. Total(gone) \in Nat /\ Total(card') \in Nat /\ Total(card) = Total(card') + Total(gone)
  <2>1. gone \in SUBSET card
    BY <1>1, <1>2
  <2>2. Total(gone) \in Nat /\ Total(card \ gone) \in Nat
        /\ Total(card) = Total(gone) + Total(card \ gone)
    BY <2>1, CardFacts DEF IInv
  <2> QED BY <1>3, <2>2
<1>5. used_size' \in 0..Word - 1
  <2>1. used_size - Total(gone) \in Int
    BY <1>4, SizesAssumption DEF IInv, TypeOK
  <2> QED BY <1>3, <2>1, ModFacts
<1>6. /\ dirs' \in Seq({HourOf(f) : f \in Files}) /\ IsInjective(dirs')
      /\ ToSet(dirs') = ToSet(dirs) \intersect (ToSet(dirs) \ Emptied(gone))
  BY <1>3, DirsOfFacts DEF IInv, TypeOK
<1>7. ASSUME NEW f \in listed' PROVE HourOf(f) \in ToSet(dirs')
  <2>1. f \in In(HourOf(f), listed \ gone) /\ HourOf(f) \in ToSet(dirs)
    BY <1>3, <1>7 DEF In, IInv, ListInv
  <2>2. HourOf(f) \notin Emptied(gone)
    BY <2>1 DEF Emptied
  <2> QED BY <1>6, <2>1, <2>2
<1>8. ASSUME NEW h \in ToSet(dirs') PROVE h \in Hours(listed')
  <2>1. h \in ToSet(dirs) /\ h \notin Emptied(gone)
    BY <1>6, <1>8
  <2>2. h \in Hours(listed)
    BY <2>1 DEF IInv, ListInv
  <2>3. In(h, listed) # {}
    BY <2>2 DEF Hours, In
  <2>4. In(h, listed \ gone) # {}
    BY <2>1, <2>3 DEF Emptied
  <2> QED BY <1>3, <2>4 DEF Hours, In
<1>9. ASSUME NEW f \in card' PROVE HourOf(f) \in folders'
  <2>1. HourOf(f) \in folders
    BY <1>3, <1>9 DEF IInv, ListInv, Hours
  <2>2. f \in In(HourOf(f), card \ gone)
    BY <1>3, <1>9 DEF In
  <2> QED BY <1>3, <2>1, <2>2
<1>10. Hours(card') \subseteq folders'
  BY <1>9 DEF Hours
<1>11. free_size' = RoomAfter(occupy)
  BY <1>3 DEF RoomAfter, gone
<1> QED BY <1>1, <1>3, <1>4, <1>5, <1>6, <1>7, <1>8, <1>10, <1>11 DEF gone

-----------------------------------------------------------------------------

USE DEF accountVars, listVars, diskVars, semVars, ctlVars, recorderVars, ScanType, Known

(* find_dir_list, with a node or without, adds at most the one directory.  *)
LEMMA FindFacts ==
  ASSUME TypeOK, ToSet(dirs) \subseteq folders, NEW f \in Files, find_dir_list(f)
  PROVE  /\ dirs' \in Seq({HourOf(g) : g \in Files}) /\ IsInjective(dirs')
         /\ ToSet(dirs) \subseteq ToSet(dirs')
         /\ ToSet(dirs') \subseteq ToSet(dirs) \union {HourOf(f)}
<1> DEFINE H == {HourOf(g) : g \in Files}
<1>1. HourOf(f) \in H /\ dirs \in Seq(H) /\ IsInjective(dirs)
  BY DEF TypeOK
<1>2. CASE dirs' = dirs
  BY <1>1, <1>2
<1>3. CASE dirs' = create_entry_dir(dirs, HourOf(f))
  <2> HIDE DEF H
  <2>1. LET ds == create_entry_dir(dirs, HourOf(f))
        IN ds \in Seq(H) /\ IsInjective(ds) /\ ToSet(ds) = ToSet(dirs) \union {HourOf(f)}
    BY <1>1, EntryDirFacts
  <2> QED BY <1>3, <2>1 DEF H
<1> QED BY <1>2, <1>3 DEF find_dir_list

(* A file is listed when its directory is, and otherwise known to be       *)
(* refused.                                                                *)
Noted(f) ==
  /\ listed \subseteq listed' /\ listed' \subseteq listed \union {f}
  /\ Known' = Known \union {f}
  /\ listed' \intersect refused' = {}
LEMMA EnterFacts ==
  ASSUME TypeOK, NEW f \in Files, NEW ds, Enter(f, ds)
  PROVE  /\ Noted(f)
         /\ HourOf(f) \in ToSet(ds) => f \in listed'
         /\ HourOf(f) \notin ToSet(ds) => listed' = listed
<1>1. Contains(ds, HourOf(f)) <=> HourOf(f) \in ToSet(ds)
  BY DEF Contains, ToSet
<1> QED BY <1>1 DEF Enter, Unlisted, Noted, TypeOK
LEMMA UnlistedFacts ==
  ASSUME TypeOK, NEW f \in Files, Unlisted(f)
  PROVE  Noted(f) /\ listed' = listed
  BY DEF Unlisted, Noted, TypeOK

(* All hold at first.                                                      *)
LEMMA InitHolds ==
  ASSUME Init PROVE IInv
<1>1. card \subseteq Files /\ IsFiniteSet(card) /\ Total(card) <= Capacity
  BY SavedAssumption DEF Init
<1>2. Total(card) \in Nat
  BY <1>1, TotalStep
<1>3. << >> \in Seq({HourOf(f) : f \in Files}) /\ DOMAIN << >> = {}
  BY EmptySeq
<1>4. IsInjective(<< >>) /\ ToSet(<< >>) = {}
  BY <1>3 DEF IsInjective, ToSet
<1>5. TypeOK
  BY <1>1, <1>3, <1>4, SizesAssumption, BoundAssumption DEF Init, TypeOK
<1>6. Shape
  BY <1>1, BoundAssumption DEF Init, Shape, ScanIdle
<1>7. ListInv
  BY <1>1, <1>4 DEF Init, ListInv, Hours
<1>8. ScanInv
  BY <1>1 DEF Init, ScanInv, ScanIdle, Unseen
<1>9. AccountInv
  BY <1>1, <1>2, SizesAssumption
     DEF Init, AccountInv, TmpSize, Charged, Kept, SettledNow, ScanIdle
<1> QED BY <1>5, <1>6, <1>7, <1>8, <1>9 DEF IInv

(* The quantities of the account are numbers.                              *)
Nums ==  /\ TmpSize \in Nat /\ Charged \in Nat /\ Kept \in Nat /\ Total(card) \in Nat
         /\ free_size \in Nat /\ used_size \in Nat /\ pre_record_sem \in Nat
         /\ finish_sem \in Nat /\ lists \in Nat /\ scan.total \in Nat /\ scan.sum \in Nat
         /\ Capacity \in Nat /\ Reserved \in Nat /\ Word \in Nat /\ Capacity < Word
         /\ MaxLists \in Nat
         /\ tmp # NoFile => tmp \in Files /\ Size(tmp) \in Nat
LEMMA NumFacts ==
  ASSUME IInv PROVE Nums
<1>1. Total(card) \in Nat
  BY CardFacts DEF IInv
<1>2. /\ tmp # NoFile => tmp \in Files /\ Size(tmp) \in Nat
      /\ flush # "idle" => tmp # NoFile
  BY SizesAssumption DEF IInv, Shape
<1>3. TmpSize \in Nat /\ Charged \in Nat /\ Kept \in Nat
  BY <1>2, SizesAssumption DEF TmpSize, Charged, Kept
<1> QED BY <1>1, <1>2, <1>3, SizesAssumption, BoundAssumption
       DEF IInv, TypeOK, Shape, ScanInv, Nums

(* What a thread that looks for room leaves: what it took from the card is *)
(* in the account.                                                         *)
Made ==
  /\ dirs' \in Seq({HourOf(f) : f \in Files}) /\ IsInjective(dirs')
  /\ \A f \in listed' : HourOf(f) \in ToSet(dirs')
  /\ ToSet(dirs') \subseteq Hours(listed')
  /\ Hours(card') \subseteq folders' /\ folders' \subseteq folders
  /\ used_size' \in 0..Word - 1 /\ free_size' \in Nat
  /\ Total(card') \in Nat /\ free_size' + Total(card') = free_size + Total(card)
  /\ free_size <= free_size' /\ refused' = refused
  /\ \E gone \in SUBSET listed : listed' = listed \ gone /\ card' = card \ gone

(* It may leave all as it was,                                             *)
LEMMA KeepMakes ==
  ASSUME IInv, flush = "idle", KeepAll PROVE Made
<1>1. /\ dirs' = dirs /\ listed' = listed /\ card' = card /\ folders' = folders
      /\ free_size' = free_size /\ used_size' = used_size
  BY DEF KeepAll
<1>2. listed' = listed \ {} /\ card' = card \ {} /\ {} \in SUBSET listed
  BY <1>1
<1>n. Nums
  BY NumFacts
<1>3. /\ used_size' \in 0..Word - 1 /\ free_size' \in Nat /\ Total(card') \in Nat
      /\ free_size' + Total(card') = free_size + Total(card) /\ free_size <= free_size'
  BY <1>n, <1>1 DEF IInv, TypeOK, Nums
<1>4. /\ dirs' \in Seq({HourOf(f) : f \in Files}) /\ IsInjective(dirs')
      /\ \A f \in listed' : HourOf(f) \in ToSet(dirs')
      /\ ToSet(dirs') \subseteq Hours(listed')
      /\ Hours(card') \subseteq folders' /\ folders' \subseteq folders
      /\ refused' = refused
  BY <1>1 DEF KeepAll, IInv, TypeOK, ListInv
<1> QED BY <1>2, <1>3, <1>4 DEF Made

(* ... or make room.                                                       *)
LEMMA RemoveMakes ==
  ASSUME IInv, flush = "idle", NEW occupy \in Nat, remove_earliest_file(occupy)
  PROVE  Made /\ free_size' = RoomAfter(occupy)
<1>1. PICK gone \in SUBSET listed :
         /\ listed' = listed \ gone /\ card' = card \ gone
         /\ Total(gone) \in Nat /\ Total(card') \in Nat
         /\ Total(card) = Total(card') + Total(gone)
         /\ free_size' = free_size + Total(gone)
         /\ free_size' = RoomAfter(occupy)
         /\ used_size' \in 0..Word - 1
         /\ dirs' \in Seq({HourOf(f) : f \in Files}) /\ IsInjective(dirs')
         /\ \A f \in listed' : HourOf(f) \in ToSet(dirs')
         /\ ToSet(dirs') \subseteq Hours(listed')
         /\ Hours(card') \subseteq folders' /\ folders' \subseteq folders
         /\ refused' = refused
  BY RemoveFacts
<1>n. Nums
  BY NumFacts
<1>2. free_size' \in Nat /\ free_size' + Total(card') = free_size + Total(card)
      /\ free_size <= free_size'
  BY <1>n, <1>1 DEF Nums
<1> QED BY <1>1, <1>2 DEF Made

(* Every step keeps the invariant. ak_dvr_file_create_list:                *)
LEMMA CreateBeginsKeeps ==
  ASSUME IInv, NoRace, CreateBegins PROVE IInv'
<1>n. Nums
  BY NumFacts
<1>a. AloneNow
  BY AloneIs DEF AloneNow
<1> USE HourFacts, SizesAssumption, BoundAssumption DEF AloneNow
<1>f. free_size' = Capacity - Total(card) - TmpSize /\ free_size' \in 0..Capacity
  BY <1>n DEF CreateBegins, DiskFree, TmpSize, Nums, IInv, AccountInv
<1>1. TypeOK'
  BY <1>a, <1>f, <1>n DEF Nums, IInv, TypeOK, Shape, CreateBegins
<1>2. Shape'
  BY <1>a DEF IInv, TypeOK, Shape, ScanInv, CreateBegins, NoFile
<1>3. ListInv'
  BY <1>a DEF IInv, TypeOK, Shape, ListInv, ScanInv, CreateBegins, Hours
<1>4. ScanInv'
  BY <1>a DEF IInv, TypeOK, Shape, ListInv, ScanInv, CreateBegins, Hours, Unseen
<1>5. AccountInv'
  <2>1. flush = "idle" /\ flush' = flush /\ scan.pc # "reserve" /\ scan' = scan /\ card' = card
    BY <1>a DEF CreateBegins
  <2>2. TmpSize' = TmpSize /\ Charged' = 0 /\ Kept' = 0
    BY <1>n, <2>1 DEF CreateBegins, TmpSize, Charged, Kept, SettledNow, Nums
  <2> QED BY <1>n, <1>f, <2>1, <2>2 DEF IInv, AccountInv, Nums
<1> QED BY <1>1, <1>2, <1>3, <1>4, <1>5 DEF IInv

LEMMA CreateLooksKeeps ==
  ASSUME IInv, NoRace, CreateLooks PROVE IInv'
<1>n. Nums
  BY NumFacts
<1>a. AloneNow
  BY AloneIs DEF AloneNow
<1> USE HourFacts, SizesAssumption, BoundAssumption DEF AloneNow
<1>1. TypeOK'
  BY <1>a DEF IInv, TypeOK, Shape, ScanInv, CreateLooks, NoFile
<1>2. Shape'
  BY <1>a DEF IInv, TypeOK, Shape, ScanInv, CreateLooks, NoFile
<1>3. ListInv'
  BY <1>a DEF IInv, TypeOK, Shape, ListInv, ScanInv, CreateLooks, Hours
<1>4. ScanInv'
  BY <1>a DEF IInv, TypeOK, Shape, ListInv, ScanInv, CreateLooks, Hours, Unseen
<1>5. AccountInv'
  BY <1>n, <1>a DEF IInv, TypeOK, Shape, AccountInv, ScanInv, CreateLooks, TmpSize,
     Charged, Kept, SettledNow, Nums
<1> QED BY <1>1, <1>2, <1>3, <1>4, <1>5 DEF IInv

LEMMA CreateWaitedKeeps ==
  ASSUME IInv, NoRace, CreateWaited PROVE IInv'
<1>n. Nums
  BY NumFacts
<1>a. AloneNow
  BY AloneIs DEF AloneNow
<1> USE HourFacts, SizesAssumption, BoundAssumption DEF AloneNow
<1>1. TypeOK'
  BY <1>a DEF IInv, TypeOK, Shape, ScanInv, CreateWaited, NoFile
<1>2. Shape'
  BY <1>a DEF IInv, TypeOK, Shape, ScanInv, CreateWaited, NoFile
<1>3. ListInv'
  BY <1>a DEF IInv, TypeOK, Shape, ListInv, ScanInv, CreateWaited, Hours
<1>4. ScanInv'
  BY <1>a DEF IInv, TypeOK, Shape, ListInv, ScanInv, CreateWaited, Hours, Unseen
<1>5. AccountInv'
  BY <1>n, <1>a DEF IInv, TypeOK, Shape, AccountInv, ScanInv, CreateWaited, TmpSize,
     Charged, Kept, SettledNow, Nums
<1> QED BY <1>1, <1>2, <1>3, <1>4, <1>5 DEF IInv

(* The scan:                                                               *)
LEMMA ScanWakesKeeps ==
  ASSUME IInv, NoRace, ScanWakes PROVE IInv'
<1>n. Nums
  BY NumFacts
<1>a. AloneNow
  BY AloneIs DEF AloneNow
<1> USE HourFacts, SizesAssumption, BoundAssumption DEF AloneNow
<1>r. /\ scan.pc = "idle" /\ pre_record_sem > 0 /\ pre_record_sem' = pre_record_sem - 1
      /\ status' = "fetching" /\ scan'.pc = "day"
      /\ UNCHANGED <<listVars, diskVars, accountVars, full_flag, finish_sem, ctlVars,
                     recorderVars, no_space, flush>>
  BY DEF ScanWakes, ScanIdle
<1>1. TypeOK'
  BY <1>n, <1>r DEF Nums, IInv, TypeOK
<1>2. Shape'
  BY <1>n, <1>r DEF Nums, IInv, Shape
<1>3. ListInv'
  BY <1>a DEF IInv, TypeOK, Shape, ListInv, ScanInv, ScanWakes, ScanIdle, Hours
<1>4. ScanInv'
  <2>1. /\ scan' = [ScanIdle EXCEPT !.pc = "day", !.days = {DayOf(h) : h \in folders}]
        /\ scan.pc = "idle" /\ status' = "fetching" /\ past' = past /\ card' = card
        /\ listed' = listed /\ refused' = refused
    BY DEF ScanWakes
  <2>2. /\ scan'.pc = "day" /\ scan'.days = {DayOf(h) : h \in folders}
        /\ scan'.hours = {} /\ scan'.files = {}
        /\ scan' \in ScanType
    BY <2>1 DEF ScanIdle, IInv, ListInv
  <2>3. card' \ Known' \subseteq Unseen'
    <3>1. ASSUME NEW f \in card PROVE f \in Unseen'
      <4>1. f \in past /\ HourOf(f) \in folders
        BY DEF IInv, Shape, ListInv, Hours
      <4>2. DayOf(HourOf(f)) \in scan'.days
        BY <2>2, <4>1
      <4> QED BY <2>1, <4>1, <4>2 DEF Unseen
    <3> QED BY <2>1, <3>1
  <2>4. \A f \in card' \ Known', g \in Unseen' : g \in Known' \/ g \notin card' => f < g
    <3>1. status # "ready" => card \ Known = {}
      BY <2>1 DEF Unseen, IInv, ScanInv
    <3>2. status = "ready" => Unseen = past
      BY DEF Unseen
    <3>3. Unseen' \subseteq past
      BY <2>1 DEF Unseen
    <3> QED BY <2>1, <3>1, <3>2, <3>3 DEF IInv, ScanInv
  <2> QED BY <2>1, <2>2, <2>3, <2>4 DEF ScanInv
<1>5. AccountInv'
  BY <1>n, <1>a DEF IInv, TypeOK, Shape, AccountInv, ScanInv, ScanWakes, ScanIdle, TmpSize,
     Charged, Kept, SettledNow, Nums
<1> QED BY <1>1, <1>2, <1>3, <1>4, <1>5 DEF IInv

LEMMA ScanEntersDayKeeps ==
  ASSUME IInv, NoRace, ScanEntersDay PROVE IInv'
<1>n. Nums
  BY NumFacts
<1>a. AloneNow
  BY AloneIs DEF AloneNow
<1> USE HourFacts, SizesAssumption, BoundAssumption DEF AloneNow
<1>1. TypeOK'
  BY <1>a DEF IInv, TypeOK, Shape, ScanInv, ScanEntersDay, ScanOnly, ScanIs, NoFile
<1>2. Shape'
  BY <1>a DEF IInv, TypeOK, Shape, ScanInv, ScanEntersDay, ScanOnly, ScanIs, NoFile
<1>3. ListInv'
  BY <1>a DEF IInv, TypeOK, Shape, ListInv, ScanInv, ScanEntersDay, ScanOnly, ScanIs, Hours
<1>4. ScanInv'
  <2>1. /\ scan.pc = "day" /\ status = "fetching" /\ status' = status /\ past' = past
        /\ card' = card /\ listed' = listed /\ refused' = refused
        /\ scan.days \in SUBSET Nat
        /\ scan.files = {} /\ scan.hours = {}
    BY DEF ScanEntersDay, ScanOnly, IInv, ScanInv
  <2>2. CASE scan.days = {}
    BY <2>1, <2>2 DEF ScanEntersDay, ScanIs, ScanOnly, IInv, ScanInv, Unseen
  <2>3. CASE scan.days # {}
    <3> DEFINE d == Least(scan.days)
    <3>1. d \in scan.days
      BY <2>1, <2>3, LeastFacts
    <3>2. scan' = [scan EXCEPT !.pc = "hour", !.days = @ \ {d},
                               !.hours = {h \in folders : DayOf(h) = d}]
      BY <2>3 DEF ScanEntersDay, ScanIs
    <3> HIDE DEF d
    <3>3. /\ scan'.pc = "hour" /\ scan'.days = scan.days \ {d} /\ scan'.files = {}
          /\ scan'.hours = {h \in folders : DayOf(h) = d}
          /\ scan' \in ScanType
      BY <2>1, <3>2 DEF IInv, ScanInv, ListInv
    <3>4. \A f \in past : f \in Unseen <=> DayOf(HourOf(f)) \in scan.days
      BY <2>1 DEF Unseen
    <3>5. \A f \in past : f \in Unseen' <=> \/ HourOf(f) \in scan'.hours
                                            \/ DayOf(HourOf(f)) \in scan'.days
      BY <2>1, <3>3 DEF Unseen
    <3>6. Unseen' \subseteq past /\ Unseen \subseteq past
      BY <2>1 DEF Unseen
    <3>7. Unseen' \subseteq Unseen
      BY <3>1, <3>3, <3>4, <3>5, <3>6
    <3>8. card \ Known \subseteq Unseen'
      <4>1. card \ Known \subseteq Unseen /\ Hours(card) \subseteq folders
        BY DEF IInv, ScanInv, ListInv
      <4> QED BY <3>3, <3>4, <3>5, <3>6, <4>1 DEF Hours
    <3>9. \A h \in scan'.hours : DayOf(h) \notin scan'.days
      BY <3>3
    <3> QED BY <2>1, <3>3, <3>7, <3>8, <3>9 DEF IInv, ScanInv
  <2> QED BY <2>2, <2>3
<1>5. AccountInv'
  BY <1>n, <1>a DEF IInv, TypeOK, Shape, AccountInv, ScanInv, ScanEntersDay, ScanOnly,
     ScanIs, TmpSize, Charged, Kept, SettledNow, Nums
<1> QED BY <1>1, <1>2, <1>3, <1>4, <1>5 DEF IInv

LEMMA ScanEntersHourKeeps ==
  ASSUME IInv, NoRace, ScanEntersHour PROVE IInv'
<1>n. Nums
  BY NumFacts
<1>a. AloneNow
  BY AloneIs DEF AloneNow
<1> USE HourFacts, SizesAssumption, BoundAssumption DEF AloneNow
<1>1. TypeOK'
  BY <1>a DEF IInv, TypeOK, Shape, ScanInv, ScanEntersHour, ScanOnly, ScanIs, NoFile
<1>2. Shape'
  BY <1>a DEF IInv, TypeOK, Shape, ScanInv, ScanEntersHour, ScanOnly, ScanIs, NoFile
<1>3. ListInv'
  BY <1>a DEF IInv, TypeOK, Shape, ListInv, ScanInv, ScanEntersHour, ScanOnly, ScanIs, Hours
<1>4. ScanInv'
  <2>1. /\ scan.pc = "hour" /\ status = "fetching" /\ status' = status /\ past' = past
        /\ card' = card /\ listed' = listed /\ refused' = refused
        /\ scan.hours \in SUBSET Nat
        /\ scan.files = {} /\ scan.hours \subseteq Hours(Files)
    BY DEF ScanEntersHour, ScanOnly, IInv, ScanInv
  <2>2. CASE scan.hours = {}
    <3>1. scan' = [scan EXCEPT !.pc = "day", !.sum = DayAdded(@) % Word]
      BY <2>2 DEF ScanEntersHour, ScanIs
    <3>2. DayAdded(scan.sum) % Word \in Nat
      <4>1. DayAdded(scan.sum) \in Int
        BY <1>n DEF DayAdded, Nums
      <4> QED BY <4>1, ModFacts
    <3> QED BY <2>1, <2>2, <3>1, <3>2 DEF IInv, ScanInv, Unseen
  <2>3. CASE scan.hours # {}
    <3> DEFINE h == Least(scan.hours)
    <3>1. h \in scan.hours
      BY <2>1, <2>3, LeastFacts
    <3>2. scan' = [scan EXCEPT !.pc = "file", !.hours = @ \ {h}, !.hour = h,
                               !.total = 0, !.files = In(h, card)]
      BY <2>3 DEF ScanEntersHour, ScanIs
    <3> HIDE DEF h
    <3>3. /\ scan'.pc = "file" /\ scan'.days = scan.days /\ scan'.files = In(h, card)
          /\ scan'.hours = scan.hours \ {h}
          /\ scan' \in ScanType
      BY <2>1, <3>1, <3>2 DEF IInv, ScanInv, ListInv, In, Shape
    <3>4. \A f \in past : f \in Unseen <=> \/ HourOf(f) \in scan.hours
                                           \/ DayOf(HourOf(f)) \in scan.days
      BY <2>1 DEF Unseen
    <3>5. \A f \in past : f \in Unseen' <=> \/ f \in card /\ HourOf(f) = h
                                            \/ HourOf(f) \in scan'.hours
                                            \/ DayOf(HourOf(f)) \in scan'.days
      BY <2>1, <3>3 DEF Unseen, In
    <3>6. Unseen' \subseteq past /\ Unseen \subseteq past
      BY <2>1 DEF Unseen
    <3>7. Unseen' \subseteq Unseen
      BY <3>1, <3>3, <3>4, <3>5, <3>6
    <3>8. card \ Known \subseteq Unseen'
      <4>1. card \ Known \subseteq Unseen
        BY DEF IInv, ScanInv
      <4> QED BY <3>3, <3>4, <3>5, <3>6, <4>1
    <3>9. \A f \in scan'.files : /\ f \in past /\ HourOf(f) \notin scan'.hours
                                  /\ DayOf(HourOf(f)) \notin scan'.days
      BY <3>1, <3>3 DEF In, IInv, ScanInv, Shape
    <3>10. \A k \in scan'.hours : DayOf(k) \notin scan'.days
      BY <3>3 DEF IInv, ScanInv
    <3> QED BY <2>1, <3>3, <3>7, <3>8, <3>9, <3>10 DEF IInv, ScanInv
  <2> QED BY <2>2, <2>3
<1>5. AccountInv'
  BY <1>n, <1>a DEF IInv, TypeOK, Shape, AccountInv, ScanInv, ScanEntersHour, ScanOnly,
     ScanIs, TmpSize, Charged, Kept, SettledNow, Nums
<1> QED BY <1>1, <1>2, <1>3, <1>4, <1>5 DEF IInv

LEMMA ScanLeavesHourKeeps ==
  ASSUME IInv, NoRace, ScanLeavesHour PROVE IInv'
<1>n. Nums
  BY NumFacts
<1>a. AloneNow
  BY AloneIs DEF AloneNow
<1> USE HourFacts, SizesAssumption, BoundAssumption DEF AloneNow
<1>1. TypeOK'
  BY <1>a DEF IInv, TypeOK, Shape, ScanInv, ScanLeavesHour, ScanIs, NoFile
<1>2. Shape'
  BY <1>a DEF IInv, TypeOK, Shape, ScanInv, ScanLeavesHour, ScanIs, NoFile
<1>3. ListInv'
  <2>1. /\ flush = "idle" /\ flush' = flush /\ card' = card /\ listed' = listed
        /\ dirs' = dirs /\ tmp' = tmp /\ folders' \subseteq folders
        /\ \A h \in folders \ folders' : In(h, card) = {}
    BY <1>a DEF ScanLeavesHour
  <2>2. Hours(card) \subseteq folders'
    BY <2>1 DEF Hours, In, IInv, ListInv
  <2> QED BY <2>1, <2>2 DEF IInv, ListInv
<1>4. ScanInv'
  <2>1. (scan.sum + scan.total) % Word \in Nat
    <3>1. scan.sum + scan.total \in Int
      BY <1>n DEF Nums
    <3> QED BY <3>1, ModFacts
  <2> QED BY <2>1 DEF ScanLeavesHour, ScanIs, IInv, ScanInv, Unseen
<1>5. AccountInv'
  BY <1>n, <1>a DEF IInv, TypeOK, Shape, AccountInv, ScanInv, ScanLeavesHour, ScanIs,
     TmpSize, Charged, Kept, SettledNow, Nums
<1> QED BY <1>1, <1>2, <1>3, <1>4, <1>5 DEF IInv

(* A file that is gone ends the directory: by the order in which files     *)
(* were recorded, none after it is missing in the list.                    *)
LEMMA ScanFileKeeps ==
  ASSUME IInv, NoRace, ScanFile PROVE IInv'
<1>n. Nums
  BY NumFacts
<1>a. AloneNow
  BY AloneIs DEF AloneNow
<1> USE HourFacts, SizesAssumption, BoundAssumption DEF AloneNow
<1> DEFINE f0 == Least(scan.files)
<1>l. f0 \in scan.files /\ f0 \in past /\ f0 \in Files /\ \A f \in scan.files : f0 <= f
  <2>1. scan.files \in SUBSET Nat /\ scan.files # {}
    BY DEF ScanFile, IInv, ScanInv
  <2> QED BY <2>1, LeastFacts DEF IInv, ScanInv
<1>i. flush = "idle"
  BY <1>a DEF ScanFile
<1>s. /\ flush' = flush /\ card' = card /\ folders' = folders /\ past' = past /\ tmp' = tmp
      /\ free_size' = free_size /\ used_size' = used_size /\ status' = status
      /\ pre_record_sem' = pre_record_sem /\ finish_sem' = finish_sem
      /\ lists' = lists /\ no_space' = no_space /\ scan.pc = "file" /\ scan'.pc = "file"
  BY DEF ScanFile, ScanIs, IInv, ScanInv
<1>g. f0 \notin card => /\ dirs' = dirs /\ listed' = listed /\ refused' = refused
                        /\ scan' = [scan EXCEPT !.pc = "file", !.files = {}]
  BY DEF ScanFile, ScanIs
<1>c. f0 \in card => /\ add_file_to_list(f0)
                     /\ scan' = [scan EXCEPT !.pc = "file", !.files = @ \ {f0},
                                              !.total = @ + Size(f0)]
  BY DEF ScanFile, ScanIs
<1> HIDE DEF f0
<1>t. TypeOK /\ ToSet(dirs) \subseteq folders
  BY <1>i DEF IInv, ListInv, Hours
<1>d. f0 \in card => /\ dirs' \in Seq({HourOf(f) : f \in Files}) /\ IsInjective(dirs')
                     /\ Noted(f0)
                     /\ \A f \in listed' : HourOf(f) \in ToSet(dirs')
                     /\ ToSet(dirs') \subseteq Hours(listed')
  <2>1. CASE Unlisted(f0) /\ UNCHANGED dirs
    <3>1. Noted(f0) /\ listed' = listed
      BY <1>l, <1>t, <2>1, UnlistedFacts
    <3> QED BY <1>i, <2>1, <3>1 DEF IInv, TypeOK, ListInv
  <2>2. CASE find_dir_list(f0) /\ Enter(f0, dirs')
    <3>1. /\ dirs' \in Seq({HourOf(g) : g \in Files}) /\ IsInjective(dirs')
          /\ ToSet(dirs) \subseteq ToSet(dirs')
          /\ ToSet(dirs') \subseteq ToSet(dirs) \union {HourOf(f0)}
      BY <1>l, <1>t, <2>2, FindFacts
    <3>2. /\ Noted(f0)
          /\ HourOf(f0) \in ToSet(dirs') => f0 \in listed'
          /\ HourOf(f0) \notin ToSet(dirs') => listed' = listed
      BY <1>l, <1>t, <2>2, EnterFacts
    <3>3. \A f \in listed' : HourOf(f) \in ToSet(dirs')
      BY <3>1, <3>2 DEF Noted, IInv, ListInv
    <3>4. ToSet(dirs') \subseteq Hours(listed')
      BY <1>i, <3>1, <3>2 DEF Noted, IInv, ListInv, Hours
    <3> QED BY <3>1, <3>2, <3>3, <3>4
  <2> QED BY <1>c, <2>1, <2>2 DEF add_file_to_list
<1>1. TypeOK'
  <2>1. listed' \subseteq Files /\ refused' \subseteq Files \ listed'
    BY <1>l, <1>g, <1>d DEF Noted, IInv, TypeOK
  <2> QED BY <1>s, <1>g, <1>d, <2>1 DEF IInv, TypeOK
<1>2. Shape'
  BY <1>s, <1>i, <1>g, <1>d, <1>l DEF Noted, IInv, Shape
<1>3. ListInv'
  <2>1. CASE f0 \notin card
    BY <1>s, <1>g, <2>1 DEF IInv, ListInv
  <2>2. CASE f0 \in card
    <3>1. listed' \subseteq card
      BY <1>i, <1>d, <2>2 DEF Noted, IInv, ListInv
    <3> QED BY <1>s, <1>i, <1>d, <2>2, <3>1 DEF IInv, ListInv
  <2> QED BY <2>1, <2>2
<1>4. ScanInv'
  <2>1. scan \in ScanType /\ status = "fetching"
    BY <1>s DEF IInv, ScanInv
  <2>2. /\ scan'.days = scan.days /\ scan'.hours = scan.hours /\ scan'.files \subseteq scan.files
        /\ f0 \notin scan'.files
        /\ scan' \in ScanType
    <3>1. CASE f0 \in card
      <4>1. Size(f0) \in Nat
        BY <1>l
      <4>2. scan.files \ {f0} \in SUBSET Files /\ scan.total + Size(f0) \in Nat
        BY <2>1, <4>1
      <4> QED BY <1>c, <2>1, <3>1, <4>2
    <3>2. CASE f0 \notin card
      BY <1>g, <2>1, <3>2
    <3> QED BY <3>1, <3>2
  <2>3. \A f \in past : f \in Unseen <=> \/ f \in scan.files \/ HourOf(f) \in scan.hours
                                         \/ DayOf(HourOf(f)) \in scan.days
    BY <2>1 DEF Unseen
  <2>4. \A f \in past : f \in Unseen' <=> \/ f \in scan'.files \/ HourOf(f) \in scan.hours
                                          \/ DayOf(HourOf(f)) \in scan.days
    BY <1>s, <2>1, <2>2 DEF Unseen
  <2>5. Unseen' \subseteq past /\ Unseen \subseteq past
    BY <1>s DEF Unseen
  <2>6. Unseen' \subseteq Unseen /\ f0 \in Unseen
    BY <1>l, <2>2, <2>3, <2>4, <2>5
  <2>7. f0 \notin Unseen'
    BY <1>l, <2>2, <2>4 DEF IInv, ScanInv
  <2>8. card' \ Known' \subseteq Unseen'
    <3>1. CASE f0 \in card
      BY <1>s, <1>c, <1>d, <2>1, <2>3, <2>4, <2>5, <3>1 DEF Noted, IInv, ScanInv
    <3>2. CASE f0 \notin card
      <4>1. ASSUME NEW f \in card \ Known PROVE f \in Unseen'
        <5>1. f \in Unseen /\ f < f0 /\ f \in Nat /\ f0 \in Nat
          BY <1>l, <2>6, <3>2 DEF IInv, ScanInv, Shape
        <5>2. f \notin scan.files
          BY <1>l, <5>1
        <5> QED BY <2>3, <2>4, <2>5, <5>1, <5>2
      <4> QED BY <1>s, <1>g, <3>2, <4>1
    <3> QED BY <3>1, <3>2
  <2>9. \A f \in card' \ Known', g \in Unseen' : g \in Known' \/ g \notin card' => f < g
    <3>1. Known \subseteq Known' /\ Known' \subseteq Known \union {f0}
      BY <1>g, <1>d DEF Noted
    <3> QED BY <1>s, <2>6, <2>7, <3>1 DEF IInv, ScanInv
  <2> QED BY <1>s, <2>1, <2>2, <2>8, <2>9 DEF IInv, ScanInv
<1>5. AccountInv'
  <2>1. TmpSize' = TmpSize /\ Charged' = Charged /\ Kept' = Kept
    BY <1>s DEF TmpSize, Charged, Kept, SettledNow
  <2> QED BY <1>s, <2>1 DEF IInv, AccountInv
<1> QED BY <1>1, <1>2, <1>3, <1>4, <1>5 DEF IInv

LEMMA ScanSumsKeeps ==
  ASSUME IInv, NoRace, ScanSums PROVE IInv'
<1>n. Nums
  BY NumFacts
<1>a. AloneNow
  BY AloneIs DEF AloneNow
<1> USE HourFacts, SizesAssumption, BoundAssumption DEF AloneNow
<1>i. flush = "idle"
  BY <1>a DEF ScanSums
<1>l. listed \subseteq card
  BY <1>i DEF IInv, ListInv
<1>d. /\ dirs' \in Seq({HourOf(f) : f \in Files}) /\ IsInjective(dirs')
      /\ ToSet(dirs') = ToSet(dirs) \intersect {HourOf(f) : f \in listed}
  <2>1. dirs' = DirsOf(dirs, {HourOf(f) : f \in listed})
    BY <1>l DEF ScanSums
  <2> QED BY <2>1, DirsOfFacts DEF IInv, TypeOK
<1>u. used_size' \in 0..Word - 1
  <2>1. used_size + scan.sum \in Int
    BY <1>n DEF Nums
  <2> QED BY <2>1, ModFacts DEF ScanSums
<1>1. TypeOK'
  BY <1>d, <1>u, <1>l DEF IInv, TypeOK, ScanSums
<1>2. Shape'
  BY <1>a DEF IInv, TypeOK, Shape, ScanInv, ScanSums, ScanIs, NoFile
<1>3. ListInv'
  <2>1. /\ flush = "idle" /\ flush' = flush /\ card' = card /\ listed' = listed
        /\ tmp' = tmp /\ folders' \subseteq folders
        /\ \A h \in folders \ folders' : In(h, card) = {}
    BY <1>i, <1>l DEF ScanSums
  <2>2. Hours(card) \subseteq folders'
    BY <2>1 DEF Hours, In, IInv, ListInv
  <2> QED BY <1>d, <2>1, <2>2 DEF IInv, ListInv, Hours
<1>4. ScanInv'
  BY <1>a DEF IInv, TypeOK, Shape, ListInv, ScanInv, ScanSums, ScanIs, Hours, Unseen
<1>5. AccountInv'
  BY <1>n, <1>a DEF IInv, TypeOK, Shape, AccountInv, ScanInv, ScanSums, ScanIs, TmpSize,
     Charged, Kept, SettledNow, Nums
<1> QED BY <1>1, <1>2, <1>3, <1>4, <1>5 DEF IInv

(* The reserve is there when it is to be taken, or the card is reported.   *)
LEMMA ScanLooksForRoomKeeps ==
  ASSUME IInv, NoRace, ScanLooksForRoom PROVE IInv'
<1>n. Nums
  BY NumFacts
<1>a. AloneNow
  BY AloneIs DEF AloneNow
<1> USE HourFacts, SizesAssumption, BoundAssumption DEF AloneNow
<1>i. flush = "idle" /\ flush' = flush
  BY <1>a DEF ScanLooksForRoom
<1>r. /\ scan.pc = "room" /\ scan' \in ScanType
      /\ scan'.files = {} /\ scan'.hours = {} /\ scan'.days = {}
      /\ scan'.pc \in {"reserve", "post"}
      /\ past' = past /\ tmp' = tmp /\ pre_record_sem' = pre_record_sem
      /\ finish_sem' = finish_sem /\ lists' = lists /\ status' = status
  BY DEF ScanLooksForRoom, ScanIs, IInv, ScanInv
<1>p. scan'.pc = "post" => no_space'
  BY DEF ScanLooksForRoom, ScanIs, IInv, ScanInv
<1>m. Made /\ (scan'.pc = "reserve" => Reserved <= free_size')
  <2>1. CASE cyc_flag /\ free_size < Reserved /\ free_size + used_size > Reserved
    <3>1. remove_earliest_file(Reserved)
      BY <2>1 DEF ScanLooksForRoom
    <3>2. Made /\ free_size' = RoomAfter(Reserved)
      BY <1>i, <1>n, <3>1, RemoveMakes DEF Nums
    <3>3. scan'.pc = "reserve" => RoomAfter(Reserved) > Reserved
      BY <2>1 DEF ScanLooksForRoom, ScanIs, IInv, ScanInv
    <3>4. free_size' \in Nat
      BY <3>2 DEF Made
    <3> QED BY <1>n, <3>2, <3>3, <3>4 DEF Nums
  <2>2. CASE ~(cyc_flag /\ free_size < Reserved /\ free_size + used_size > Reserved)
    <3>1. KeepAll
      BY <2>2 DEF ScanLooksForRoom
    <3>2. scan'.pc = "reserve" => Reserved <= free_size
      BY <1>n, <2>2 DEF ScanLooksForRoom, ScanIs, IInv, ScanInv, Nums
    <3> QED BY <1>i, <3>1, <3>2, KeepMakes DEF KeepAll
  <2> QED BY <2>1, <2>2
<1>1. TypeOK'
  <2>1. PICK gone \in SUBSET listed : listed' = listed \ gone /\ card' = card \ gone
    BY <1>m DEF Made
  <2>2. free_size' <= Capacity
    BY <1>m, <1>n DEF Made, Nums, IInv, AccountInv
  <2> QED BY <1>m, <1>n, <1>r, <2>1, <2>2 DEF Made, Nums, IInv, TypeOK
<1>2. Shape'
  <2>1. PICK gone \in SUBSET listed : listed' = listed \ gone /\ card' = card \ gone
    BY <1>m DEF Made
  <2>3. card' \subseteq card /\ listed' \subseteq listed /\ IsFiniteSet(past)
        /\ refused' = refused
    BY <1>m, <2>1 DEF Made, IInv, Shape
  <2> QED BY <1>i, <1>r, <2>3 DEF IInv, Shape
<1>3. ListInv'
  <2>1. PICK gone \in SUBSET listed : listed' = listed \ gone /\ card' = card \ gone
    BY <1>m DEF Made
  <2>2. listed' \subseteq card'
    BY <1>i, <2>1 DEF IInv, ListInv
  <2> QED BY <1>i, <1>m, <1>r, <2>2 DEF Made, IInv, ListInv
<1>4. ScanInv'
  <2>1. PICK gone \in SUBSET listed : listed' = listed \ gone /\ card' = card \ gone
    BY <1>m DEF Made
  <2>3. status # "ready" /\ status # "fetching"
    BY <1>r DEF IInv, ScanInv
  <2>4. Unseen = {} /\ Unseen' = {}
    BY <1>r, <2>3 DEF Unseen, IInv, ScanInv
  <2>5. card' \ Known' \subseteq card \ Known
    BY <1>i, <1>m, <2>1 DEF Made, IInv, ListInv
  <2>6. /\ scan'.files \subseteq past'
        /\ status' = "fetching" <=> scan'.pc \in {"day", "hour", "file", "sum"}
        /\ status' # "ready"
    BY <1>r, <2>3
  <2>7. card' \ Known' = {}
    BY <2>4, <2>5 DEF IInv, ScanInv
  <2>8. /\ \A f \in scan'.files : /\ HourOf(f) \notin scan'.hours
                                   /\ DayOf(HourOf(f)) \notin scan'.days
        /\ \A h \in scan'.hours : DayOf(h) \notin scan'.days
    BY <1>r
  <2> HIDE <1>a
  <2> QED BY <1>r, <2>6, <2>7, <2>8 DEF ScanInv
<1>5. AccountInv'
  <2>0. ~SettledNow /\ ~SettledNow'
    <3>1. scan.pc \notin {"idle", "post"}
      BY <1>r
    <3>2. scan'.pc \in {"idle", "post"} => no_space'
      BY <1>r, <1>p
    <3> QED BY <3>1, <3>2, Zenon DEF SettledNow
  <2>1. TmpSize' = TmpSize /\ Charged' = 0 /\ Kept' = 0 /\ Charged = 0 /\ Kept = 0
    BY <1>i, <1>r, <2>0 DEF TmpSize, Charged, Kept
  <2> QED BY <1>i, <1>m, <1>n, <1>r, <2>1 DEF IInv, AccountInv, Nums, Made
<1> QED BY <1>1, <1>2, <1>3, <1>4, <1>5 DEF IInv

LEMMA ScanReservesKeeps ==
  ASSUME IInv, NoRace, ScanReserves PROVE IInv'
<1>n. Nums
  BY NumFacts
<1>a. AloneNow
  BY AloneIs DEF AloneNow
<1> USE HourFacts, SizesAssumption, BoundAssumption DEF AloneNow
<1>r. /\ scan.pc = "reserve" /\ scan' = [scan EXCEPT !.pc = "post"] /\ scan'.pc = "post"
      /\ flush = "idle" /\ flush' = flush /\ card' = card /\ tmp' = tmp
      /\ free_size' = free_size - Reserved /\ free_size' \in 0..Capacity
  <2>1. scan.pc = "reserve" /\ scan' = [scan EXCEPT !.pc = "post"] /\ scan'.pc = "post"
    BY DEF ScanReserves, ScanIs, IInv, ScanInv
  <2>2. flush = "idle" /\ Reserved <= free_size /\ free_size \in 0..Capacity
    BY <2>1 DEF IInv, Shape, AccountInv, TypeOK
  <2>3. free_size - Reserved \in 0..Capacity /\ free_size - Reserved \in 0..Word - 1
    BY <1>n, <2>2 DEF Nums
  <2>4. (free_size - Reserved) % Word = free_size - Reserved
    BY <2>3, ModFacts
  <2> QED BY <2>1, <2>2, <2>3, <2>4 DEF ScanReserves
<1>1. TypeOK'
  BY <1>r DEF IInv, TypeOK, ScanReserves
<1>2. Shape'
  BY <1>a DEF IInv, TypeOK, Shape, ScanInv, ScanReserves, ScanIs, NoFile
<1>3. ListInv'
  BY <1>a DEF IInv, TypeOK, Shape, ListInv, ScanInv, ScanReserves, ScanIs, Hours
<1>4. ScanInv'
  BY <1>a DEF IInv, TypeOK, Shape, ListInv, ScanInv, ScanReserves, ScanIs, Hours, Unseen
<1>5. AccountInv'
  <2>1. TmpSize' = TmpSize /\ Charged' = 0 /\ Kept = 0 /\ Charged = 0
    BY <1>r DEF TmpSize, Charged, Kept, SettledNow
  <2>2. Kept' \in {0, Reserved}
    BY DEF Kept
  <2>3. Total(card) + TmpSize <= Capacity /\ free_size + Total(card) <= Capacity
    BY <1>n, <2>1 DEF IInv, AccountInv, Nums
  <2>4. free_size' + Kept' + Total(card) <= Capacity
    BY <1>n, <1>r, <2>2, <2>3 DEF Nums
  <2>5. flush' # "account" /\ scan'.pc # "reserve"
    BY <1>r
  <2>6. Total(card') + TmpSize' <= Capacity
    BY <1>r, <2>1, <2>3
  <2>7. free_size' + Kept' + Total(card') + Charged' <= Capacity
    BY <1>n, <1>r, <2>1, <2>2, <2>4 DEF Nums
  <2> QED BY <2>5, <2>6, <2>7 DEF AccountInv
<1> QED BY <1>1, <1>2, <1>3, <1>4, <1>5 DEF IInv

LEMMA ScanPostsKeeps ==
  ASSUME IInv, NoRace, ScanPosts PROVE IInv'
<1>n. Nums
  BY NumFacts
<1>a. AloneNow
  BY AloneIs DEF AloneNow
<1> USE HourFacts, SizesAssumption, BoundAssumption DEF AloneNow
<1>r. /\ scan.pc = "post" /\ scan' = ScanIdle /\ scan'.pc = "idle"
      /\ finish_sem' \in {finish_sem, finish_sem + 1}
      /\ UNCHANGED <<listVars, diskVars, accountVars, pre_record_sem, lists, past, tmp,
                     status, no_space, flush>>
  BY DEF ScanPosts, ScanIdle, PostsFinish
<1>b. /\ pre_record_sem' + finish_sem' <= lists' /\ lists' = lists /\ lists \in 0..MaxLists
      /\ pre_record_sem' \in Nat /\ finish_sem' \in Nat
  <2>1. pre_record_sem + finish_sem < lists /\ lists \in 0..MaxLists
    BY <1>r DEF IInv, Shape
  <2>2. pre_record_sem' = pre_record_sem /\ lists' = lists
    BY <1>r
  <2>3. pre_record_sem \in Nat /\ finish_sem \in Nat /\ lists \in Nat
    BY <1>n DEF Nums
  <2>4. CASE finish_sem' = finish_sem
    BY <2>1, <2>2, <2>3, <2>4
  <2>5. CASE finish_sem' = finish_sem + 1
    BY <2>1, <2>2, <2>3, <2>5
  <2> QED BY <1>r, <2>4, <2>5
<1>1. TypeOK'
  <2>1. \A a, b \in Nat : a + b <= lists => a \in 0..MaxLists /\ b \in 0..MaxLists
    BY <1>b
  <2>2. pre_record_sem' \in 0..MaxLists /\ finish_sem' \in 0..MaxLists
    BY <1>b, <2>1
  <2> QED BY <1>r, <2>2 DEF IInv, TypeOK
<1>2. Shape'
  BY <1>r, <1>b DEF IInv, Shape
<1>3. ListInv'
  BY <1>a DEF IInv, TypeOK, Shape, ListInv, ScanInv, ScanPosts, ScanIdle, Hours
<1>4. ScanInv'
  BY <1>a DEF IInv, TypeOK, Shape, ListInv, ScanInv, ScanPosts, ScanIdle, Hours, Unseen
<1>5. AccountInv'
  BY <1>n, <1>a DEF IInv, TypeOK, Shape, AccountInv, ScanInv, ScanPosts, ScanIdle, TmpSize,
     Charged, Kept, SettledNow, Nums
<1> QED BY <1>1, <1>2, <1>3, <1>4, <1>5 DEF IInv

(* The recorder: a new file is later than all others.                      *)
LEMMA RecordKeeps ==
  ASSUME IInv, NoRace, Record PROVE IInv'
<1>n. Nums
  BY NumFacts
<1>a. AloneNow
  BY AloneIs DEF AloneNow
<1> USE HourFacts, SizesAssumption, BoundAssumption DEF AloneNow
<1>r. PICK f \in Files \ past :
         /\ tmp = NoFile /\ flush = "idle" /\ \A g \in past : g < f
         /\ Size(f) <= DiskFree /\ tmp' = f /\ past' = past \union {f}
         /\ UNCHANGED <<listVars, diskVars, accountVars, semVars, ctlVars,
                        cyc_flag, status, no_space, scan, flush>>
  BY DEF Record
<1>f. IsFiniteSet(past')
  BY <1>r, FS_AddElement DEF IInv, Shape
<1>1. TypeOK'
  BY <1>a DEF IInv, TypeOK, Shape, ScanInv, Record, NoFile
<1>2. Shape'
  BY <1>r, <1>f DEF IInv, Shape
<1>3. ListInv'
  BY <1>a DEF IInv, TypeOK, Shape, ListInv, ScanInv, Record, Hours
<1>4. ScanInv'
  <2>1. /\ card' \ Known' = card \ Known /\ Known' = Known /\ card' = card
        /\ Unseen' \subseteq Unseen \union {f}
    BY <1>r DEF Unseen
  <2>2. \A g \in card : g < f
    BY <1>r DEF IInv, Shape
  <2>3. \A e \in card' \ Known', g \in Unseen' : g \in Known' \/ g \notin card' => e < g
    BY <2>1, <2>2 DEF IInv, ScanInv
  <2>4. card' \ Known' \subseteq Unseen'
    BY <1>r DEF IInv, ScanInv, Unseen
  <2> QED BY <1>r, <2>3, <2>4 DEF IInv, ScanInv
<1>5. AccountInv'
  <2>1. TmpSize = 0 /\ TmpSize' = Size(f) /\ Charged' = Charged /\ Kept' = Kept
    BY <1>r DEF TmpSize, Charged, Kept, SettledNow, NoFile
  <2>2. DiskFree = Capacity - Total(card) /\ Size(f) \in Nat
    BY <1>n, <1>r DEF DiskFree, Nums
  <2> QED BY <1>n, <1>r, <2>1, <2>2 DEF IInv, AccountInv, Nums
<1> QED BY <1>1, <1>2, <1>3, <1>4, <1>5 DEF IInv

(* The flush:                                                              *)
LEMMA FlushLooksKeeps ==
  ASSUME IInv, NoRace, FlushLooks PROVE IInv'
<1>n. Nums
  BY NumFacts
<1>a. AloneNow
  BY AloneIs DEF AloneNow
<1> USE HourFacts, SizesAssumption, BoundAssumption DEF AloneNow
<1>i. /\ flush = "idle" /\ tmp # NoFile /\ scan.pc # "reserve" /\ scan' = scan
      /\ past' = past /\ status' = status /\ pre_record_sem' = pre_record_sem
      /\ finish_sem' = finish_sem /\ lists' = lists
      /\ flush' = "account" => tmp' = tmp
      /\ flush' = "idle" => tmp' = NoFile
      /\ flush' \in {"account", "idle"}
      /\ no_space => no_space'
  BY <1>a DEF FlushLooks
<1> DEFINE occupy == Size(tmp)
<1>o. occupy \in Nat
  BY <1>i, <1>n DEF Nums
<1>m. Made /\ (flush' = "account" => occupy <= free_size')
  <2>1. CASE cyc_flag /\ occupy > free_size
    <3>1. remove_earliest_file(occupy)
      BY <2>1 DEF FlushLooks
    <3>2. Made /\ free_size' = RoomAfter(occupy)
      <4> HIDE DEF occupy
      <4> QED BY <1>i, <1>o, <3>1, RemoveMakes
    <3>3. flush' = "account" => occupy <= free_size \/ occupy < RoomAfter(occupy)
      BY <2>1 DEF FlushLooks
    <3> HIDE DEF occupy
    <3>4. free_size' \in Nat /\ RoomAfter(occupy) \in Nat
      BY <3>2 DEF Made
    <3> QED BY <1>n, <1>o, <2>1, <3>2, <3>3, <3>4 DEF Nums
  <2>2. CASE ~(cyc_flag /\ occupy > free_size)
    <3>1. KeepAll
      BY <2>2 DEF FlushLooks
    <3>2. flush' = "account" => occupy <= free_size
      BY <1>n, <1>o, <2>2 DEF FlushLooks, Nums
    <3> QED BY <1>i, <3>1, <3>2, KeepMakes DEF KeepAll
  <2> QED BY <2>1, <2>2
<1> HIDE DEF occupy
<1>1. TypeOK'
  <2>1. PICK gone \in SUBSET listed : listed' = listed \ gone /\ card' = card \ gone
    BY <1>m DEF Made
  <2>2. free_size' <= Capacity
    BY <1>m, <1>n DEF Made, Nums, IInv, AccountInv
  <2> QED BY <1>m, <1>n, <1>i, <2>1, <2>2 DEF Made, Nums, IInv, TypeOK
<1>2. Shape'
  <2>1. PICK gone \in SUBSET listed : listed' = listed \ gone /\ card' = card \ gone
    BY <1>m DEF Made
  <2>3. card' \subseteq card /\ listed' \subseteq listed /\ IsFiniteSet(past)
        /\ refused' = refused
    BY <1>m, <2>1 DEF Made, IInv, Shape
  <2> QED BY <1>i, <2>3 DEF IInv, Shape
<1>3. ListInv'
  <2>1. PICK gone \in SUBSET listed : listed' = listed \ gone /\ card' = card \ gone
    BY <1>m DEF Made
  <2>2. listed' \subseteq card'
    BY <1>i, <2>1 DEF IInv, ListInv
  <2> QED BY <1>i, <1>m, <2>2 DEF Made, IInv, ListInv
<1>4. ScanInv'
  <2>1. PICK gone \in SUBSET listed : listed' = listed \ gone /\ card' = card \ gone
    BY <1>m DEF Made
  <2>2. listed \subseteq card /\ refused' = refused /\ listed \intersect refused = {}
    BY <1>i, <1>m DEF Made, IInv, TypeOK, ListInv
  <2>3. card' \ Known' = card \ Known /\ Unseen' = Unseen
    BY <1>i, <2>1, <2>2 DEF Unseen
  <2>4. \A f \in card' \ Known', g \in Unseen' : g \in Known' \/ g \notin card' => f < g
    <3>1. \A g : g \in Known' \/ g \notin card' => g \in Known \/ g \notin card
      BY <2>1, <2>2
    <3> QED BY <2>3, <3>1 DEF IInv, ScanInv
  <2> QED BY <1>i, <2>3, <2>4 DEF IInv, ScanInv
<1>5. AccountInv'
  <2>1. TmpSize' <= TmpSize /\ TmpSize' \in Nat /\ Charged' = 0 /\ Charged = 0
    BY <1>i, <1>n DEF TmpSize, Charged, Nums
  <2>2. Kept' <= Kept /\ Kept' \in Nat
    BY <1>i, <1>n DEF Kept, SettledNow, Nums
  <2>3. flush' = "account" => Size(tmp') <= free_size'
    BY <1>i, <1>m DEF occupy
  <2>4. /\ Total(card') \in Nat /\ free_size' \in Nat /\ free_size <= free_size'
        /\ free_size' + Total(card') = free_size + Total(card)
    BY <1>m DEF Made
  <2>5. Total(card') <= Total(card)
    BY <1>n, <2>4 DEF Nums
  <2>6. Total(card') + TmpSize' <= Capacity
    BY <1>n, <2>1, <2>4, <2>5 DEF IInv, AccountInv, Nums
  <2>7. free_size + Kept + Total(card) <= Capacity
    BY <1>n, <2>1 DEF IInv, AccountInv, Nums
  <2>8. free_size' + Kept' + Total(card') <= Capacity
    BY <1>n, <2>2, <2>4, <2>7 DEF Nums
  <2> QED BY <1>i, <1>n, <2>1, <2>2, <2>3, <2>4, <2>6, <2>8 DEF AccountInv, Nums
<1> QED BY <1>1, <1>2, <1>3, <1>4, <1>5 DEF IInv

LEMMA FlushAccountsKeeps ==
  ASSUME IInv, NoRace, FlushAccounts PROVE IInv'
<1>n. Nums
  BY NumFacts
<1>a. AloneNow
  BY AloneIs DEF AloneNow
<1> USE HourFacts, SizesAssumption, BoundAssumption DEF AloneNow
<1>r. /\ flush = "account" /\ flush' = "dir" /\ tmp' = tmp /\ tmp # NoFile
      /\ Size(tmp) \in Nat /\ Size(tmp) <= free_size
      /\ free_size' = (free_size - Size(tmp)) % Word
      /\ used_size' = (used_size + Size(tmp)) % Word
      /\ UNCHANGED <<listVars, diskVars, semVars, ctlVars, past, cyc_flag, status,
                     no_space, scan>>
  BY <1>n DEF FlushAccounts, FlushOnly, update_used_size, IInv, Shape, AccountInv, Nums
<1>f. free_size' = free_size - Size(tmp) /\ free_size' \in 0..Capacity
  <2>1. free_size \in 0..Capacity
    BY DEF IInv, TypeOK
  <2>2. free_size - Size(tmp) \in 0..Word - 1 /\ free_size - Size(tmp) \in 0..Capacity
    BY <1>n, <1>r, <2>1 DEF Nums
  <2> QED BY <1>r, <2>2, ModFacts
<1>u. used_size' \in 0..Word - 1
  <2>1. used_size + Size(tmp) \in Int
    BY <1>n, <1>r DEF Nums
  <2> QED BY <1>r, <2>1, ModFacts
<1>1. TypeOK'
  BY <1>r, <1>f, <1>u DEF IInv, TypeOK
<1>2. Shape'
  BY <1>a DEF IInv, TypeOK, Shape, ScanInv, FlushAccounts, FlushOnly, NoFile
<1>3. ListInv'
  BY <1>a DEF IInv, TypeOK, Shape, ListInv, ScanInv, FlushAccounts, FlushOnly, Hours
<1>4. ScanInv'
  BY <1>a DEF IInv, TypeOK, Shape, ListInv, ScanInv, FlushAccounts, FlushOnly, Hours, Unseen
<1>5. AccountInv'
  <2>1. TmpSize' = TmpSize /\ Charged' = Size(tmp) /\ Charged = 0 /\ Kept' = Kept
    BY <1>r DEF TmpSize, Charged, Kept, SettledNow
  <2>2. scan'.pc # "reserve"
    BY <1>r DEF IInv, Shape
  <2> QED BY <1>n, <1>r, <1>f, <2>1, <2>2 DEF IInv, AccountInv, Nums
<1> QED BY <1>1, <1>2, <1>3, <1>4, <1>5 DEF IInv

LEMMA FlushIsRefusedKeeps ==
  ASSUME IInv, NoRace, FlushIsRefused PROVE IInv'
<1>n. Nums
  BY NumFacts
<1>a. AloneNow
  BY AloneIs DEF AloneNow
<1> USE HourFacts, SizesAssumption, BoundAssumption DEF AloneNow
<1>r. /\ flush = "dir" /\ flush' = "bare" /\ tmp' = tmp /\ tmp \in Files
      /\ tmp # NoFile /\ tmp \in past \ card /\ Unlisted(tmp)
      /\ UNCHANGED <<dirs, diskVars, accountVars, semVars, ctlVars, past, cyc_flag, status,
                     no_space, scan>>
  BY <1>n DEF FlushIsRefused, FlushOnly, IInv, Shape, Nums
<1>e. Noted(tmp) /\ listed' = listed
  BY <1>r, UnlistedFacts DEF IInv
<1>1. TypeOK'
  <2>1. refused' \subseteq Files \ listed'
    BY <1>r, <1>e DEF Noted, IInv, TypeOK
  <2> QED BY <1>r, <1>e, <2>1 DEF IInv, TypeOK
<1>2. Shape'
  BY <1>r, <1>e DEF Noted, IInv, Shape
<1>3. ListInv'
  <2>1. tmp' \in listed' \union refused'
    BY <1>r, <1>e DEF Noted
  <2> QED BY <1>r, <1>e, <2>1 DEF IInv, ListInv
<1>4. ScanInv'
  <2>1. card' \ Known' = card \ Known /\ Unseen' = Unseen
    BY <1>r, <1>e DEF Noted, Unseen
  <2>2. \A f \in card' \ Known', g \in Unseen' : g \in Known' \/ g \notin card' => f < g
    BY <1>r, <1>e, <2>1 DEF Noted, IInv, ScanInv
  <2> QED BY <1>r, <2>1, <2>2 DEF IInv, ScanInv
<1>5. AccountInv'
  <2>1. TmpSize' = TmpSize /\ Charged' = Charged /\ Kept' = Kept
    BY <1>r DEF TmpSize, Charged, Kept, SettledNow
  <2> QED BY <1>r, <2>1 DEF IInv, AccountInv
<1> QED BY <1>1, <1>2, <1>3, <1>4, <1>5 DEF IInv

LEMMA FlushFindsDirKeeps ==
  ASSUME IInv, NoRace, FlushFindsDir PROVE IInv'
<1>n. Nums
  BY NumFacts
<1>a. AloneNow
  BY AloneIs DEF AloneNow
<1> USE HourFacts, SizesAssumption, BoundAssumption DEF AloneNow
<1>r. /\ flush = "dir" /\ flush' = "entry" /\ tmp' = tmp /\ tmp \in Files
      /\ find_dir_list(tmp)
      /\ folders' = folders \union {HourOf(tmp)}
      /\ UNCHANGED <<listed, refused, card, accountVars, semVars, ctlVars, past, cyc_flag,
                     status, no_space, scan>>
  BY <1>n DEF FlushFindsDir, FlushOnly, IInv, Shape, Nums
<1>d. /\ dirs' \in Seq({HourOf(f) : f \in Files}) /\ IsInjective(dirs')
      /\ ToSet(dirs) \subseteq ToSet(dirs')
      /\ ToSet(dirs') \subseteq ToSet(dirs) \union {HourOf(tmp)}
  <2>1. TypeOK /\ ToSet(dirs) \subseteq folders
    BY <1>r DEF IInv, ListInv, Hours
  <2> QED BY <1>r, <2>1, FindFacts
<1>1. TypeOK'
  BY <1>r, <1>d DEF IInv, TypeOK
<1>2. Shape'
  BY <1>r DEF IInv, Shape
<1>3. ListInv'
  BY <1>r, <1>d DEF IInv, ListInv, Hours
<1>4. ScanInv'
  BY <1>r DEF IInv, ScanInv, Unseen
<1>5. AccountInv'
  <2>1. TmpSize' = TmpSize /\ Charged' = Charged /\ Kept' = Kept
    BY <1>r DEF TmpSize, Charged, Kept, SettledNow
  <2> QED BY <1>r, <2>1 DEF IInv, AccountInv
<1> QED BY <1>1, <1>2, <1>3, <1>4, <1>5 DEF IInv

LEMMA FlushListsKeeps ==
  ASSUME IInv, NoRace, FlushLists PROVE IInv'
<1>n. Nums
  BY NumFacts
<1>a. AloneNow
  BY AloneIs DEF AloneNow
<1> USE HourFacts, SizesAssumption, BoundAssumption DEF AloneNow
<1>r. /\ flush = "entry" /\ flush' = "rename" /\ tmp' = tmp /\ tmp \in past \ card
      /\ tmp # NoFile /\ tmp \in Files
      /\ UNCHANGED <<dirs, diskVars, accountVars, semVars, ctlVars, past, cyc_flag, status,
                     no_space, scan>>
      /\ Enter(tmp, dirs)
  BY <1>n DEF FlushLists, FlushOnly, IInv, Shape, Nums
<1>e. /\ Noted(tmp)
      /\ HourOf(tmp) \in ToSet(dirs) => tmp \in listed'
      /\ HourOf(tmp) \notin ToSet(dirs) => listed' = listed
  BY <1>r, EnterFacts DEF IInv
<1>1. TypeOK'
  <2>1. listed' \subseteq Files /\ refused' \subseteq Files \ listed'
    BY <1>r, <1>e DEF Noted, IInv, TypeOK
  <2> QED BY <1>r, <2>1 DEF IInv, TypeOK
<1>2. Shape'
  BY <1>r, <1>e DEF Noted, IInv, Shape
<1>3. ListInv'
  <2>1. \A f \in listed' : HourOf(f) \in ToSet(dirs)
    BY <1>r, <1>e DEF Noted, IInv, ListInv
  <2>2. ToSet(dirs) \subseteq Hours(listed')
    BY <1>r, <1>e DEF Noted, IInv, ListInv, Hours
  <2>3. tmp \in listed' \union refused' /\ listed' \subseteq card \union {tmp}
    BY <1>r, <1>e DEF Noted, IInv, ListInv
  <2> QED BY <1>r, <2>1, <2>2, <2>3 DEF IInv, ListInv
<1>4. ScanInv'
  <2>1. card' \ Known' = card \ Known /\ Unseen' = Unseen
    BY <1>r, <1>e DEF Noted, Unseen
  <2>2. \A f \in card' \ Known', g \in Unseen' : g \in Known' \/ g \notin card' => f < g
    BY <1>r, <1>e, <2>1 DEF Noted, IInv, ScanInv
  <2> QED BY <1>r, <2>1, <2>2 DEF IInv, ScanInv
<1>5. AccountInv'
  <2>1. TmpSize' = TmpSize /\ Charged' = Charged /\ Kept' = Kept
    BY <1>r DEF TmpSize, Charged, Kept, SettledNow
  <2> QED BY <1>r, <2>1 DEF IInv, AccountInv
<1> QED BY <1>1, <1>2, <1>3, <1>4, <1>5 DEF IInv

LEMMA FlushRenamesKeeps ==
  ASSUME IInv, NoRace, FlushRenames PROVE IInv'
<1>n. Nums
  BY NumFacts
<1> USE HourFacts, SizesAssumption, BoundAssumption
<1>r. /\ flush \in {"rename", "bare"} /\ flush' = "idle" /\ tmp' = NoFile
      /\ tmp \in Files \ card /\ tmp \in past /\ tmp # NoFile /\ scan.pc # "reserve"
      /\ UNCHANGED <<folders, listVars, accountVars, semVars, ctlVars, past, cyc_flag,
                     status, no_space, scan>>
      /\ card' \in {card, card \union {tmp}} /\ Size(tmp) \in Nat
      /\ tmp \in Known
  BY <1>n DEF FlushRenames, FlushOnly, IInv, Shape, ListInv, Nums
<1>p. flush = "rename" => card' = card \union {tmp}
  BY DEF FlushRenames, IInv, ListInv
<1>f. tmp \in card' => HourOf(tmp) \in folders
  BY <1>r DEF FlushRenames
<1>1. TypeOK'
  BY <1>r DEF IInv, TypeOK
<1>2. Shape'
  BY <1>r DEF IInv, Shape
<1>3. ListInv'
  <2>1. listed' \subseteq card'
    BY <1>r, <1>p DEF IInv, ListInv
  <2>2. Hours(card') \subseteq folders'
    BY <1>r, <1>f DEF IInv, ListInv, Hours
  <2>3. ToSet(dirs') \subseteq Hours(listed')
    BY <1>r DEF IInv, ListInv
  <2> QED BY <1>r, <2>1, <2>2, <2>3 DEF IInv, ListInv
<1>4. ScanInv'
  <2>1. card' \ Known' = card \ Known /\ Unseen' = Unseen
    BY <1>r DEF Unseen
  <2>2. \A f \in card' \ Known', g \in Unseen' : g \in Known' \/ g \notin card' => f < g
    BY <1>r, <2>1 DEF IInv, ScanInv
  <2> QED BY <1>r, <2>1, <2>2 DEF IInv, ScanInv
<1>5. AccountInv'
  <2>2. Total(card') \in Nat /\ Total(card') <= Total(card) + Size(tmp)
    <3>1. Total(card \union {tmp}) = Total(card) + Size(tmp)
      BY <1>r, CardFacts DEF IInv
    <3>2. Total(card) \in Nat /\ Size(tmp) \in Nat
      BY <1>n, <1>r DEF Nums
    <3>3. CASE card' = card
      BY <3>2, <3>3
    <3>4. CASE card' = card \union {tmp}
      BY <3>1, <3>2, <3>4
    <3> QED BY <1>r, <3>3, <3>4
  <2>3. /\ TmpSize' = 0 /\ TmpSize = Size(tmp) /\ Charged = Size(tmp) /\ Charged' = 0
        /\ Kept' = Kept
    BY <1>r DEF TmpSize, Charged, Kept, SettledNow, NoFile
  <2>4. scan'.pc # "reserve"
    BY <1>r
  <2> QED BY <1>n, <1>r, <2>2, <2>3, <2>4 DEF IInv, AccountInv, Nums
<1> QED BY <1>1, <1>2, <1>3, <1>4, <1>5 DEF IInv

-----------------------------------------------------------------------------

(* So do all of them.                                                      *)
LEMMA StepKeeps ==
  ASSUME IInv, NoRace, [Next]_vars PROVE IInv'
<1>1. CASE ak_dvr_file_create_list
  BY <1>1, CreateBeginsKeeps, CreateLooksKeeps, CreateWaitedKeeps DEF ak_dvr_file_create_list
<1>2. CASE get_pre_saved_record
  BY <1>2, ScanWakesKeeps, ScanEntersDayKeeps, ScanEntersHourKeeps, ScanLeavesHourKeeps,
     ScanFileKeeps, ScanSumsKeeps, ScanLooksForRoomKeeps, ScanReservesKeeps, ScanPostsKeeps
     DEF get_pre_saved_record
<1>3. CASE Record
  BY <1>3, RecordKeeps
<1>4. CASE flush_record_file
  BY <1>4, FlushLooksKeeps, FlushAccountsKeeps, FlushIsRefusedKeeps,
     FlushFindsDirKeeps, FlushListsKeeps, FlushRenamesKeeps DEF flush_record_file, generate_record_file
<1>5. CASE UNCHANGED vars
  BY <1>5 DEF vars, accountVars, listVars, diskVars, semVars, ctlVars, recorderVars, IInv,
     TypeOK, Shape, ListInv, ScanInv, AccountInv, Unseen, TmpSize, Charged, Kept, SettledNow
<1> QED BY <1>1, <1>2, <1>3, <1>4, <1>5 DEF Next

(* For all files, sizes and cards: the invariant holds.                    *)
THEOREM InvAlways ==
  ASSUME NoRace PROVE Spec => []IInv
<1>1. Init => IInv
  BY InitHolds
<1>2. IInv /\ [Next]_vars => IInv'
  BY StepKeeps
<1> QED BY <1>1, <1>2, PTL DEF Spec

-----------------------------------------------------------------------------

(* check_time_axis is true of two spans of time that meet.                 *)
LEMMA AxesMeet ==
  ASSUME NEW s \in Int, NEW e \in Int, NEW from \in Int, NEW to \in Int,
         s < e, from < to, s < to, from < e
  PROVE  check_time_axis(s, e, from, to)
  BY DEF check_time_axis

(* A file of the list is found by any second of it: its span meets the     *)
(* widened one, and so does the span of its day.                           *)
LEMMA FoundInHours ==
  ASSUME IInv, status = "ok", NEW f \in listed, NEW s \in f..f + Lasting - 1
  PROVE  f \in record_file_get_list(s, s + 1)
<1> DEFINE h == HourOf(f)
           day == DayOf(h) * Day
<1>1. /\ f \in Nat /\ Hour \in Nat /\ Hour > 0 /\ Day \in Nat /\ Day > 0 /\ Hour <= Day
      /\ Lasting \in Nat /\ 1 <= Lasting /\ Lasting <= Hour
      /\ s \in Nat /\ f <= s /\ s < f + Lasting
  BY TimesAssumption DEF IInv, TypeOK
<1>2. PICK q \in Nat, r \in 0..Hour - 1 : h = q /\ f = Hour * q + r
  BY <1>1, SpanFacts DEF HourOf
<1>3. PICK d \in Nat, t \in 0..Day - 1 : DayOf(h) = d /\ h * Hour = Day * d + t
  <2> DEFINE p == h * Hour
  <2>1. p \in Nat /\ DayOf(h) = p \div Day
    BY <1>1, <1>2 DEF DayOf
  <2> HIDE DEF p
  <2>2. \E d \in Nat, t \in 0..Day - 1 : p \div Day = d /\ p % Day = t /\ p = Day * d + t
    BY <1>1, <2>1, SpanFacts
  <2> QED BY <2>1, <2>2 DEF p
<1>4. PICK r1 \in 0..Hour - 1 : s % Hour = r1 /\ Widen(s) = (s - r1) - Day
                               /\ \E q1 \in Nat : s = Hour * q1 + r1
  BY <1>1, SpanFacts DEF Widen
<1>5. PICK r2 \in 0..Hour - 1 : (s + 1) % Hour = r2 /\ WidenEnd(s + 1) = (s + 1 - r2) + Hour
  BY <1>1, SpanFacts DEF WidenEnd
<1> DEFINE b == Hour * q
<1>6. b \in Nat /\ Day * d \in Nat /\ day = Day * d /\ b = day + t /\ f = b + r
  BY <1>1, <1>2, <1>3
<1>7. s - r1 <= b + Hour
  <2>1. PICK q1 \in Nat : s = Hour * q1 + r1
    BY <1>4
  <2>2. Hour * q1 < Hour * q + 2 * Hour
    BY <1>1, <1>2, <1>4, <1>6, <2>1
  <2>3. q1 < q + 2
    BY <1>1, <1>2, <2>1, <2>2
  <2>4. Hour * q1 <= Hour * q + Hour
    BY <1>1, <1>2, <2>1, <2>3
  <2> QED BY <1>1, <1>4, <1>6, <2>1, <2>4
<1> HIDE DEF b, day, h
<1>8. /\ day \in Nat /\ Widen(s) \in Int /\ WidenEnd(s + 1) \in Int
      /\ Widen(s) < WidenEnd(s + 1)
      /\ day < WidenEnd(s + 1) /\ Widen(s) < day + Day
      /\ f < WidenEnd(s + 1) /\ Widen(s) < f + Lasting
  BY <1>1, <1>4, <1>5, <1>6, <1>7
<1>9. check_time_axis(day, day + Day, Widen(s), WidenEnd(s + 1))
  BY <1>1, <1>8, AxesMeet
<1>10. check_time_axis(f, f + Lasting, Widen(s), WidenEnd(s + 1))
  BY <1>1, <1>8, AxesMeet
<1> QED BY <1>9, <1>10 DEF record_file_get_list, get_replay_from_list, day, h

(* For all files, sizes, cards and lengths of an hour and a day: with both *)
(* threads at rest the list is the card but for the files that were        *)
(* refused a node, the account is backed by the card beyond the reserve,   *)
(* and every other file is found for replay by each of its seconds,        *)
(* however often and whenever the pool refused.                            *)
THEOREM CardIsAsKeptAlways ==
  ASSUME NoRace PROVE Spec => []CardIsAsKept
<1>1. IInv => CardIsAsKept
  <2> SUFFICES ASSUME IInv PROVE CardIsAsKept
    OBVIOUS
  <2>1. AtRest => listed = card \ refused
    BY DEF AtRest, IInv, TypeOK, ListInv, ScanInv, Unseen
  <2>2. AccountIsBacked
    <3>n. Nums
      BY NumFacts
    <3>1. AtRest /\ ~no_space => SettledNow /\ flush = "idle"
      BY Zenon DEF AtRest, SettledNow
    <3>2. AtRest /\ ~no_space => Kept = Reserved /\ Charged = 0
      BY <3>1 DEF Kept, Charged
    <3> QED BY <3>n, <3>2 DEF AccountIsBacked, IInv, AccountInv, Nums
  <2>3. ReplayIsFound
    BY <2>1, FoundInHours DEF ReplayIsFound, AtRest
  <2> QED BY <2>1, <2>2, <2>3 DEF CardIsAsKept, ListIsCard, IInv
<1> QED BY <1>1, InvAlways, PTL

(* For all of them, however often the pool refuses a node: a file the      *)
(* account was charged for is on the card when its flush is done, unless   *)
(* it was refused one and is the first of its hour there.                  *)
THEOREM NoSegmentLostAlways ==
  ASSUME NoRace PROVE Spec => NoSegmentLost
<1> DEFINE Done == flush' = "idle" /\ flush \in {"rename", "bare"}
           Saves == \/ tmp \in card'
                    \/ flush = "bare" /\ In(HourOf(tmp), card) = {}
<1>1. IInv /\ [Next]_vars => [Done => Saves]_vars
  <2> SUFFICES ASSUME IInv, [Next]_vars, Done PROVE Saves
    OBVIOUS
  <2>1. FlushRenames
    BY DEF Next, vars, ak_dvr_file_create_list, CreateBegins, CreateLooks, CreateWaited,
       get_pre_saved_record, ScanWakes, ScanEntersDay, ScanEntersHour, ScanLeavesHour, ScanFile,
       ScanSums, ScanLooksForRoom, ScanReserves, ScanPosts, ScanOnly, Record,
       flush_record_file, FlushLooks, generate_record_file, FlushAccounts, FlushIsRefused,
       FlushFindsDir, FlushLists
  <2>2. CASE HourOf(tmp) \in folders
    BY <2>1, <2>2 DEF FlushRenames
  <2>3. CASE HourOf(tmp) \notin folders
    <3>1. flush = "bare"
      BY <2>3 DEF IInv, ListInv
    <3>2. In(HourOf(tmp), card) = {}
      BY <2>3 DEF IInv, ListInv, Hours, In
    <3> QED BY <3>1, <3>2
  <2> QED BY <2>2, <2>3
<1> QED BY <1>1, InvAlways, PTL DEF Spec, NoSegmentLost

-----------------------------------------------------------------------------

(* What remove_earliest_file takes is not of a later day than what it      *)
(* leaves: a file of an earlier day is reached before, with no more in     *)
(* front of it.                                                            *)
LEMMA OlderGoesFirst ==
  ASSUME IInv, NEW occupy \in Nat, NEW f \in Doomed(occupy), NEW g \in listed \ Doomed(occupy)
  PROVE  DayOf(HourOf(f)) <= DayOf(HourOf(g))
<1> SUFFICES ASSUME DayOf(HourOf(g)) < DayOf(HourOf(f)) PROVE FALSE
  <2>1. f \in Files /\ g \in Files
    BY DEF Doomed, Reachable, IInv, TypeOK
  <2> QED BY <2>1, FileFacts
<1> DEFINE Before(x) == {y \in Reachable : FileBefore(y, x)}
<1>1. /\ f \in Reachable /\ free_size + Total(Before(f)) <= occupy /\ free_size \in Nat
      /\ Reachable \subseteq listed /\ listed \subseteq Files /\ IsFiniteSet(listed)
  BY CardFacts DEF Doomed, Reachable, IInv, TypeOK
<1>2. \A h \in Hours(Files) : DayOf(h) \in Nat
  BY HourFacts
<1>3. \A i \in DOMAIN dirs : dirs[i] \in Hours(Files)
  BY DEF IInv, TypeOK, Hours
<1>4. HourOf(g) \in Hours(Files) /\ HourOf(f) \in Hours(Files)
  BY <1>1 DEF Hours
<1>5. \A h \in Hours(Files) : DirBefore(h, HourOf(g)) => DirBefore(h, HourOf(f))
  BY <1>2, <1>4 DEF DirBefore
<1>6. g \in Reachable
  BY <1>1, <1>3, <1>5 DEF Reachable
<1>7. Before(g) \subseteq Before(f)
  <2> SUFFICES ASSUME NEW y \in Reachable, FileBefore(y, g) PROVE FileBefore(y, f)
    OBVIOUS
  <2>1. HourOf(y) \in Hours(Files)
    BY <1>1 DEF Hours
  <2>2. CASE DirBefore(HourOf(y), HourOf(g))
    BY <1>5, <2>1, <2>2 DEF FileBefore
  <2>3. CASE HourOf(y) = HourOf(g)
    BY <2>3 DEF FileBefore, DirBefore
  <2> QED BY <2>2, <2>3 DEF FileBefore
<1>8. Total(Before(g)) <= Total(Before(f)) /\ Total(Before(g)) \in Nat /\ Total(Before(f)) \in Nat
  <2>1. IsFiniteSet(Before(f)) /\ Before(f) \subseteq Files /\ Before(g) \in SUBSET Before(f)
    BY <1>1, <1>7, FS_Subset
  <2> HIDE DEF Before
  <2>2. /\ Total(Before(f)) \in Nat /\ Total(Before(g)) \in Nat
        /\ Total(Before(f) \ Before(g)) \in Nat
        /\ Total(Before(f)) = Total(Before(g)) + Total(Before(f) \ Before(g))
    BY <2>1, TotalSplits
  <2> QED BY <2>2
<1>9. free_size + Total(Before(g)) <= occupy
  <2> HIDE DEF Before
  <2> QED BY <1>1, <1>8
<1> QED BY <1>6, <1>9 DEF Doomed

(* For all of them: a file that makes room is of a day not later than that *)
(* of any file left on the list.                                           *)
THEOREM OldestDayGoesAlways ==
  ASSUME NoRace PROVE Spec => OldestDayGoes
<1>1. IInv /\ [Next]_vars =>
        [\A f \in card \ card', g \in listed' : DayOf(HourOf(f)) <= DayOf(HourOf(g))]_vars
  <2> SUFFICES ASSUME IInv, [Next]_vars, NEW f \in card \ card', NEW g \in listed'
               PROVE  DayOf(HourOf(f)) <= DayOf(HourOf(g))
    OBVIOUS
  <2>1. ASSUME NEW occupy \in Nat, remove_earliest_file(occupy)
        PROVE  DayOf(HourOf(f)) <= DayOf(HourOf(g))
    <3>1. f \in Doomed(occupy) /\ g \in listed \ Doomed(occupy)
      BY <2>1 DEF remove_earliest_file
    <3> QED BY <3>1, OlderGoesFirst
  <2>2. CASE ScanLooksForRoom
    <3>1. card' = card \/ remove_earliest_file(Reserved)
      BY <2>2 DEF ScanLooksForRoom, KeepAll, diskVars
    <3> QED BY <2>1, <3>1, SizesAssumption
  <2>3. CASE FlushLooks
    <3>1. card' = card \/ remove_earliest_file(Size(tmp))
      BY <2>3 DEF FlushLooks, KeepAll, diskVars
    <3>2. Size(tmp) \in Nat
      BY <2>3, SizesAssumption DEF FlushLooks, IInv, Shape
    <3> QED BY <2>1, <3>1, <3>2
  <2>4. CASE ~ScanLooksForRoom /\ ~FlushLooks
    <3>1. card \subseteq card'
      BY <2>4 DEF Next, vars, ak_dvr_file_create_list, CreateBegins, CreateLooks, CreateWaited,
         get_pre_saved_record, ScanWakes, ScanEntersDay, ScanEntersHour, ScanLeavesHour,
         ScanFile,
         ScanSums, ScanReserves, ScanPosts, ScanOnly, Record, flush_record_file,
         generate_record_file, FlushAccounts, FlushIsRefused, FlushFindsDir, FlushLists,
         FlushRenames, FlushOnly, diskVars
    <3> QED BY <3>1
  <2> QED BY <2>2, <2>3, <2>4
<1> QED BY <1>1, InvAlways, PTL DEF Spec, OldestDayGoes
=============================================================================
