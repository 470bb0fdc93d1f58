-------------------------- MODULE AdmissionProofs --------------------------
(***************************************************************************)
(* Proofs about Admission: the ledger of the targets, the capacity and the *)
(* shares of the token classes, the depth of the queue and the progress of *)
(* a pass, for any jobs, models, targets, memories and limits.             *)
(*                                                                         *)
(* Typed is the type invariant.  LedgerExact is inductive beside it and    *)
(* carries SharesProtected.  QueueBound counts the requests between their  *)
(* test and their push as well (Room), PassMakesProgress the jobs that     *)
(* the scheduler has still ahead of it (Ahead).  The end of a job, its     *)
(* late end and its two requeues are handled together, as Moves.           *)
(*                                                                         *)
(* Sums, maxima and the filter of a list are recursive; what they compute  *)
(* is proved from the absence of a least counterexample.                   *)
(***************************************************************************)
EXTENDS Admission, FiniteSetTheorems, WellFoundedInduction, TLAPS

------------------------------------------------------------------------------
(* Sums and maxima. *)

\* A nonempty set of naturals has a least member.
LEMMA LeastNat ==
    ASSUME NEW S \in SUBSET Nat, S # {}
    PROVE  \E n \in S : \A k \in S : n <= k
<1>1. IsWellFoundedOn(OpToRel(<, Nat), Nat)
  BY NatLessThanWellFounded
<1>2. PICK n \in S : \A k \in S : ~ (<<k, n>> \in OpToRel(<, Nat))
  BY <1>1, WFMin
<1>3. \A k \in S : ~ (k < n)
  BY <1>2 DEF OpToRel
<1> QED
  BY <1>3

Pick(s) == CHOOSE x \in s : TRUE
\* h is the function that adds up g on the subsets of S, member by member.
Adds(g, h, s) == h[s] = IF s = {} THEN 0 ELSE g[Pick(s)] + h[s \ {Pick(s)}]
IsSum(g, h, S) == h = [s \in SUBSET S |-> h[s]] /\ \A s \in SUBSET S : Adds(g, h, s)

\* Induction over the finite subsets of U, as the absence of a least counterexample.
LEMMA SmallestBad ==
    ASSUME NEW U, IsFiniteSet(U), NEW B \in SUBSET SUBSET U, B # {}
    PROVE  \E s \in B : \A r \in B : Cardinality(s) <= Cardinality(r)
<1> DEFINE N == {Cardinality(s) : s \in B}
<1>1. \A s \in B : Cardinality(s) \in Nat
  BY FS_Subset, FS_CardinalityType
<1>2. N \in SUBSET Nat /\ N # {}
  BY <1>1
<1>3. PICK n \in N : \A k \in N : n <= k
  <2> HIDE DEF N
  <2> QED
    BY <1>2, LeastNat
<1> QED
  BY <1>3

\* The member that the sum takes first.
LEMMA PickIn == \A s : s # {} => Pick(s) \in s
BY DEF Pick

\* Removing a member of a finite set makes it smaller.
LEMMA Smaller ==
    ASSUME NEW U, IsFiniteSet(U), NEW s \in SUBSET U, NEW x \in s
    PROVE  /\ s \ {x} \in SUBSET U
           /\ Cardinality(s) \in Nat /\ Cardinality(s \ {x}) \in Nat
           /\ Cardinality(s \ {x}) = Cardinality(s) - 1
<1>1. IsFiniteSet(s)
  BY FS_Subset
<1>2. Cardinality(s) \in Nat
  BY <1>1, FS_CardinalityType
<1>3. IsFiniteSet(s \ {x}) /\ Cardinality(s \ {x}) = Cardinality(s) - 1
  BY <1>1, FS_RemoveElement
<1>4. Cardinality(s \ {x}) \in Nat
  BY <1>3, FS_CardinalityType
<1> QED
  BY <1>2, <1>3, <1>4

\* There is a sum function on the subsets of a finite set.
LEMMA SumExists ==
    ASSUME NEW U, IsFiniteSet(U), NEW g \in [U -> Nat]
    PROVE  \E h \in [SUBSET U -> Nat] : \A s \in SUBSET U : Adds(g, h, s)
<1> DEFINE Upto(n) == \E h \in [SUBSET U -> Nat] :
                        \A s \in SUBSET U : Cardinality(s) <= n => Adds(g, h, s)
           Bad == {n \in Nat : ~Upto(n)}
<1>1. Upto(0)
  <2> DEFINE h == [s \in SUBSET U |-> 0]
  <2>1. ASSUME NEW s \in SUBSET U, Cardinality(s) <= 0
        PROVE  s = {}
    <3>1. IsFiniteSet(s)
      BY FS_Subset
    <3>2. Cardinality(s) = 0
      BY <2>1, <3>1, FS_CardinalityType
    <3> QED
      BY <3>1, <3>2, FS_EmptySet
  <2>2. h \in [SUBSET U -> Nat] /\ \A s \in SUBSET U : Cardinality(s) <= 0 => Adds(g, h, s)
    BY <2>1 DEF Adds
  <2> QED
    BY <2>2
<1>2. ASSUME NEW n \in Nat, Upto(n)
      PROVE  Upto(n + 1)
  <2>1. PICK h \in [SUBSET U -> Nat] :
            \A s \in SUBSET U : Cardinality(s) <= n => Adds(g, h, s)
    BY <1>2
  <2> DEFINE k == [s \in SUBSET U |-> IF s = {} THEN 0 ELSE g[Pick(s)] + h[s \ {Pick(s)}]]
  <2>2. \A s \in SUBSET U : s # {} => Pick(s) \in U /\ s \ {Pick(s)} \in SUBSET U
    BY PickIn
  <2>3. k \in [SUBSET U -> Nat]
    BY <2>2
  <2>4. ASSUME NEW s \in SUBSET U, Cardinality(s) <= n + 1
        PROVE  Adds(g, k, s)
    <3>1. CASE s = {}
      BY <3>1 DEF Adds
    <3>2. CASE s # {}
      <4> DEFINE r == s \ {Pick(s)}
      <4>1. r \in SUBSET U /\ Cardinality(r) <= n
        BY <3>2, <2>4, PickIn, Smaller
      <4>2. Adds(g, h, r)
        BY <2>1, <4>1
      <4>3. k[r] = h[r]
        BY <4>1, <4>2 DEF Adds
      <4>4. k[s] = g[Pick(s)] + h[r]
        BY <3>2
      <4> QED
        BY <3>2, <4>3, <4>4 DEF Adds
    <3> QED
      BY <3>1, <3>2
  <2> HIDE DEF k
  <2> QED
    BY <2>3, <2>4
<1>3. Bad = {}
  <2> SUFFICES ASSUME Bad # {}
               PROVE  FALSE
    OBVIOUS
  <2> HIDE DEF Upto
  <2>1. PICK n \in Bad : \A k \in Bad : n <= k
    BY LeastNat
  <2>2. n \in Nat /\ ~Upto(n)
    OBVIOUS
  <2>3. n # 0
    BY <1>1, <2>2
  <2>4. n - 1 \in Nat /\ n - 1 < n /\ (n - 1) + 1 = n
    BY <2>2, <2>3
  <2>5. Upto(n - 1)
    BY <2>1, <2>4
  <2>6. Upto((n - 1) + 1)
    BY <1>2, <2>4, <2>5
  <2> QED
    BY <2>2, <2>4, <2>6
<1>4. Cardinality(U) \in Nat
  BY FS_CardinalityType
<1>5. Upto(Cardinality(U))
  <2> HIDE DEF Upto
  <2> QED
    BY <1>3, <1>4
<1>6. \A s \in SUBSET U : Cardinality(s) <= Cardinality(U)
  BY FS_Subset
<1> QED
  BY <1>5, <1>6

\* SumFunctionOnSet is the function that adds up, if there is exactly one.
LEMMA SumIs ==
    ASSUME NEW S, NEW g, NEW h, IsSum(g, h, S), \A k : IsSum(g, k, S) => k = h
    PROVE  SumFunctionOnSet(g, S) = h[S]
<1>1. h = [s \in SUBSET S |-> IF s = {} THEN 0 ELSE g[Pick(s)] + h[s \ {Pick(s)}]]
  BY DEF IsSum, Adds
<1> DEFINE Eq(it) == it = [s \in SUBSET S |->
                       IF s = {} THEN 0 ELSE LET x == CHOOSE x \in s : TRUE
                                             IN  g[x] + it[s \ {x}]]
<1>2. Eq(h)
  BY <1>1 DEF Pick
<1>3. ASSUME NEW k, Eq(k)
      PROVE  k = h
  <2>1. k = [s \in SUBSET S |-> k[s]]
    BY <1>3
  <2>2. \A s \in SUBSET S : Adds(g, k, s)
    BY <1>3 DEF Adds, Pick
  <2> QED
    BY <2>1, <2>2 DEF IsSum
<1>4. (CHOOSE it : Eq(it)) = h
  <2> HIDE DEF Eq
  <2> QED
    BY <1>2, <1>3
<1>5. SumFunctionOnSet(g, S) = (CHOOSE it : Eq(it))[S]
  BY DEF SumFunctionOnSet, FoldFunctionOnSet, MapThenFoldSet
<1> QED
  BY <1>4, <1>5

\* There is only one, and it is SumFunctionOnSet.
LEMMA SumUnique ==
    ASSUME NEW U, IsFiniteSet(U), NEW g, NEW h, NEW k, IsSum(g, h, U), IsSum(g, k, U)
    PROVE  k = h
<1> DEFINE B == {s \in SUBSET U : k[s] # h[s]}
<1>1. B = {}
  <2> SUFFICES ASSUME B # {}
               PROVE  FALSE
    OBVIOUS
  <2>1. PICK s \in B : \A r \in B : Cardinality(s) <= Cardinality(r)
    BY SmallestBad
  <2>2. s \in SUBSET U /\ k[s] # h[s]
    OBVIOUS
  <2>3. s # {}
    BY <2>2 DEF IsSum, Adds
  <2> DEFINE r == s \ {Pick(s)}
  <2>4. r \in SUBSET U /\ ~(Cardinality(s) <= Cardinality(r))
    BY <2>2, <2>3, PickIn, Smaller
  <2>5. k[r] = h[r]
    BY <2>1, <2>4
  <2> QED
    BY <2>2, <2>3, <2>5 DEF IsSum, Adds
<1>2. \A s \in SUBSET U : k[s] = h[s]
  BY <1>1
<1> QED
  BY <1>2 DEF IsSum

\* What a sum is: nothing for the empty set, and any member may be taken out.
LEMMA SumLaws ==
    ASSUME NEW U, IsFiniteSet(U), NEW g \in [U -> Nat]
    PROVE  /\ \A s \in SUBSET U : SumFunctionOnSet(g, s) \in Nat
           /\ SumFunctionOnSet(g, {}) = 0
           /\ \A s \in SUBSET U : \A x \in s :
                 SumFunctionOnSet(g, s) = g[x] + SumFunctionOnSet(g, s \ {x})
<1>1. PICK h \in [SUBSET U -> Nat] : \A s \in SUBSET U : Adds(g, h, s)
  BY SumExists
<1>2. ASSUME NEW S \in SUBSET U
      PROVE  SumFunctionOnSet(g, S) = h[S]
  <2> DEFINE f == [s \in SUBSET S |-> h[s]]
  <2>1. IsFiniteSet(S)
    BY FS_Subset
  <2>2. \A s \in SUBSET S : s \in SUBSET U /\ s \ {Pick(s)} \in SUBSET S
    OBVIOUS
  <2>3. IsSum(g, f, S)
    BY <1>1, <2>2 DEF IsSum, Adds
  <2>4. SumFunctionOnSet(g, S) = f[S]
    <3> HIDE DEF f
    <3>1. \A k : IsSum(g, k, S) => k = f
      BY <2>1, <2>3, SumUnique
    <3> QED
      BY <2>3, <3>1, SumIs
  <2> QED
    BY <2>4
<1>3. \A s \in SUBSET U : \A x \in s : h[s] = g[x] + h[s \ {x}]
  <2> DEFINE B == {s \in SUBSET U : \E x \in s : h[s] # g[x] + h[s \ {x}]}
  <2> SUFFICES ASSUME B # {}
               PROVE  FALSE
    OBVIOUS
  <2>0. B \in SUBSET SUBSET U
    OBVIOUS
  <2>1. PICK s \in B : \A r \in B : Cardinality(s) <= Cardinality(r)
    <3> HIDE DEF B
    <3> QED
      BY <2>0, SmallestBad
  <2>2. PICK x \in s : h[s] # g[x] + h[s \ {x}]
    OBVIOUS
  <2> DEFINE y == Pick(s)
  <2>3. s \in SUBSET U /\ y \in s /\ x \in U /\ y \in U
    BY <2>2, PickIn
  <2>4. h[s] = g[y] + h[s \ {y}]
    BY <1>1, <2>3 DEF Adds
  <2>5. x # y
    BY <2>2, <2>4
  <2>6. /\ s \ {y} \in SUBSET U /\ ~(Cardinality(s) <= Cardinality(s \ {y}))
        /\ s \ {x} \in SUBSET U /\ ~(Cardinality(s) <= Cardinality(s \ {x}))
    BY <2>3, Smaller
  <2>7. h[s \ {y}] = g[x] + h[(s \ {y}) \ {x}]
    BY <2>1, <2>3, <2>5, <2>6
  <2>8. h[s \ {x}] = g[y] + h[(s \ {x}) \ {y}]
    BY <2>1, <2>3, <2>5, <2>6
  <2>9. (s \ {y}) \ {x} = (s \ {x}) \ {y}
    OBVIOUS
  <2>10. /\ g[x] \in Nat /\ g[y] \in Nat /\ (s \ {x}) \ {y} \in SUBSET U
         /\ h[(s \ {x}) \ {y}] \in Nat
    BY <2>3
  <2> DEFINE rest == h[(s \ {x}) \ {y}]
             a == g[x]
             b == g[y]
  <2>11. /\ h[s] = b + h[s \ {y}] /\ h[s \ {y}] = a + rest /\ h[s \ {x}] = b + rest
         /\ h[s] # a + h[s \ {x}]
    BY <2>2, <2>4, <2>7, <2>8, <2>9
  <2>12. a \in Nat /\ b \in Nat /\ rest \in Nat
    BY <2>10
  <2> HIDE DEF a, b, rest
  <2> QED
    BY <2>11, <2>12
<1>4. h[{}] = 0
  BY <1>1 DEF Adds
<1> QED
  BY <1>2, <1>3, <1>4

\* A member more, and the same sum of functions that agree.
LEMMA SumWith ==
    ASSUME NEW U, IsFiniteSet(U), NEW g \in [U -> Nat], NEW s \in SUBSET U, NEW x \in U \ s
    PROVE  SumFunctionOnSet(g, s \cup {x}) = g[x] + SumFunctionOnSet(g, s)
<1>1. s \cup {x} \in SUBSET U /\ x \in s \cup {x} /\ (s \cup {x}) \ {x} = s
  OBVIOUS
<1> DEFINE r == s \cup {x}
<1>2. SumFunctionOnSet(g, r) = g[x] + SumFunctionOnSet(g, r \ {x})
  <2> HIDE DEF r
  <2> QED
    BY <1>1, SumLaws DEF r
<1> QED
  BY <1>1, <1>2

\* Larger values have a larger sum.
LEMMA SumAtMost ==
    ASSUME NEW U, IsFiniteSet(U), NEW f \in [U -> Nat], NEW g \in [U -> Nat], NEW S \in SUBSET U,
           \A x \in S : f[x] <= g[x]
    PROVE  SumFunctionOnSet(f, S) <= SumFunctionOnSet(g, S)
<1> DEFINE B == {s \in SUBSET S : ~(SumFunctionOnSet(f, s) <= SumFunctionOnSet(g, s))}
<1>1. B \in SUBSET SUBSET U
  OBVIOUS
<1>2. B = {}
  <2> SUFFICES ASSUME B # {}
               PROVE  FALSE
    OBVIOUS
  <2>1. PICK s \in B : \A r \in B : Cardinality(s) <= Cardinality(r)
    <3> HIDE DEF B
    <3> QED
      BY <1>1, SmallestBad
  <2>2. /\ s \in SUBSET S /\ s \in SUBSET U
        /\ ~(SumFunctionOnSet(f, s) <= SumFunctionOnSet(g, s))
    OBVIOUS
  <2>3. s # {}
    <3>1. SumFunctionOnSet(f, {}) = 0 /\ SumFunctionOnSet(g, {}) = 0
      BY SumLaws
    <3> QED
      BY <2>2, <3>1
  <2>4. PICK x : x \in s
    BY <2>3
  <2> DEFINE r == s \ {x}
  <2>5. r \in SUBSET S /\ r \in SUBSET U /\ ~(Cardinality(s) <= Cardinality(r))
    BY <2>2, <2>4, Smaller
  <2>6. SumFunctionOnSet(f, r) <= SumFunctionOnSet(g, r)
    BY <2>1, <2>5
  <2>7. /\ SumFunctionOnSet(f, s) = f[x] + SumFunctionOnSet(f, r)
        /\ SumFunctionOnSet(g, s) = g[x] + SumFunctionOnSet(g, r)
    BY <2>2, <2>4, SumLaws
  <2>8. SumFunctionOnSet(f, r) \in Nat /\ SumFunctionOnSet(g, r) \in Nat
    BY <2>5, SumLaws
  <2>9. f[x] \in Nat /\ g[x] \in Nat /\ f[x] <= g[x]
    BY <2>2, <2>4
  <2> DEFINE a == f[x]
             b == g[x]
             c == SumFunctionOnSet(f, r)
             d == SumFunctionOnSet(g, r)
  <2>10. a + c <= b + d
    <3> HIDE DEF a, b, c, d
    <3> QED
      BY <2>6, <2>8, <2>9 DEF a, b, c, d
  <2> QED
    BY <2>2, <2>7, <2>10
<1> QED
  BY <1>2

\* Equal values have the same sum.
LEMMA SumAgree ==
    ASSUME NEW U, IsFiniteSet(U), NEW f \in [U -> Nat], NEW g \in [U -> Nat], NEW S \in SUBSET U,
           \A x \in S : f[x] = g[x]
    PROVE  SumFunctionOnSet(f, S) = SumFunctionOnSet(g, S)
<1>1. \A x \in S : f[x] \in Nat /\ g[x] \in Nat /\ f[x] <= g[x] /\ g[x] <= f[x]
  OBVIOUS
<1>2. /\ SumFunctionOnSet(f, S) <= SumFunctionOnSet(g, S)
      /\ SumFunctionOnSet(g, S) <= SumFunctionOnSet(f, S)
  BY <1>1, SumAtMost
<1>3. SumFunctionOnSet(f, S) \in Nat /\ SumFunctionOnSet(g, S) \in Nat
  BY SumLaws
<1> QED
  BY <1>2, <1>3

\* A part has no larger sum than the whole.
LEMMA SumOfPart ==
    ASSUME NEW U, IsFiniteSet(U), NEW g \in [U -> Nat], NEW S \in SUBSET U, NEW T \in SUBSET S
    PROVE  SumFunctionOnSet(g, T) <= SumFunctionOnSet(g, S)
<1> DEFINE B == {s \in SUBSET S : T \subseteq s
                                  /\ ~(SumFunctionOnSet(g, T) <= SumFunctionOnSet(g, s))}
<1>1. B \in SUBSET SUBSET U
  OBVIOUS
<1>2. B = {}
  <2> SUFFICES ASSUME B # {}
               PROVE  FALSE
    OBVIOUS
  <2>1. PICK s \in B : \A r \in B : Cardinality(s) <= Cardinality(r)
    <3> HIDE DEF B
    <3> QED
      BY <1>1, SmallestBad
  <2>2. /\ s \in SUBSET S /\ s \in SUBSET U /\ T \subseteq s
        /\ ~(SumFunctionOnSet(g, T) <= SumFunctionOnSet(g, s))
    OBVIOUS
  <2>3. s # T
    <3>1. SumFunctionOnSet(g, T) \in Nat
      BY SumLaws
    <3> QED
      BY <2>2, <3>1
  <2>4. PICK x : x \in s /\ x \notin T
    BY <2>2, <2>3
  <2> DEFINE r == s \ {x}
  <2>5. r \in SUBSET S /\ r \in SUBSET U /\ T \subseteq r /\ ~(Cardinality(s) <= Cardinality(r))
    BY <2>2, <2>4, Smaller
  <2>6. SumFunctionOnSet(g, T) <= SumFunctionOnSet(g, r)
    BY <2>1, <2>5
  <2>7. SumFunctionOnSet(g, s) = g[x] + SumFunctionOnSet(g, r)
    BY <2>2, <2>4, SumLaws
  <2>8. /\ SumFunctionOnSet(g, r) \in Nat /\ SumFunctionOnSet(g, T) \in Nat /\ g[x] \in Nat
    BY <2>2, <2>4, <2>5, SumLaws
  <2> DEFINE b == g[x]
             c == SumFunctionOnSet(g, T)
             d == SumFunctionOnSet(g, r)
  <2>10. c <= b + d
    <3> HIDE DEF b, c, d
    <3> QED
      BY <2>6, <2>8 DEF b, c, d
  <2> QED
    BY <2>2, <2>7, <2>10
<1> QED
  BY <1>2

\* A finite set of naturals has a largest member.
LEMMA MaxIsLargest ==
    ASSUME NEW S \in SUBSET Nat, IsFiniteSet(S), S # {}
    PROVE  Max(S) \in S /\ \A x \in S : x <= Max(S)
<1> DEFINE Top(s, m) == m \in s /\ \A x \in s : x <= m
           B == {s \in SUBSET S : s # {} /\ ~ \E m : Top(s, m)}
<1>1. B \in SUBSET SUBSET S
  OBVIOUS
<1>2. B = {}
  <2> SUFFICES ASSUME B # {}
               PROVE  FALSE
    OBVIOUS
  <2>1. PICK s \in B : \A r \in B : Cardinality(s) <= Cardinality(r)
    <3> HIDE DEF B
    <3> QED
      BY <1>1, SmallestBad
  <2>2. s \in SUBSET S /\ s # {} /\ ~ \E m : Top(s, m)
    OBVIOUS
  <2>3. PICK x : x \in s
    BY <2>2
  <2>4. x \in Nat /\ \A y \in s : y \in Nat
    BY <2>2, <2>3
  <2> DEFINE r == s \ {x}
  <2>5. r \in SUBSET S /\ ~(Cardinality(s) <= Cardinality(r))
    <3>1. /\ r \in SUBSET S /\ Cardinality(s) \in Nat
          /\ Cardinality(r) = Cardinality(s) - 1
      BY <2>2, <2>3, Smaller
    <3> QED
      BY <3>1
  <2>6. CASE r = {}
    <3>1. Top(s, x)
      BY <2>3, <2>4, <2>6
    <3> QED
      BY <2>2, <3>1
  <2>7. CASE r # {}
    <3>1. PICK m : Top(r, m)
      BY <2>1, <2>5, <2>7
    <3>2. Top(s, m) \/ Top(s, x)
      BY <2>3, <2>4, <3>1
    <3> QED
      BY <2>2, <3>2
  <2> QED
    BY <2>6, <2>7
<1>3. \E m \in S : \A x \in S : m >= x
  BY <1>2
<1>4. Max(S) \in S /\ \A x \in S : Max(S) >= x
  BY <1>3 DEF Max
<1>5. Max(S) \in Nat /\ \A x \in S : x \in Nat
  BY <1>4
<1> QED
  BY <1>4, <1>5

------------------------------------------------------------------------------
(* Numbers of the model profiles and of the reports. *)

\* max(a, b).
LEMMA MaxOfTwo ==
    ASSUME NEW a \in Nat, NEW b \in Nat
    PROVE  Max({a, b}) \in Nat /\ a <= Max({a, b}) /\ b <= Max({a, b})
<1>1. IsFiniteSet({a} \cup {b})
  BY FS_Singleton, FS_AddElement
<1>2. {a, b} = {a} \cup {b}
  OBVIOUS
<1>3. {a, b} \in SUBSET Nat /\ IsFiniteSet({a, b}) /\ {a, b} # {}
  BY <1>1, <1>2
<1>4. Max({a, b}) \in {a, b} /\ \A x \in {a, b} : x <= Max({a, b})
  BY <1>3, MaxIsLargest
<1> QED
  BY <1>4

\* The roundings of build_model_profile.
LEMMA CeilDivNat == \A a \in Nat : CeilDiv(a, 100) \in Nat /\ CeilDiv(a, 512) \in Nat
BY DEF CeilDiv

\* The memory of a run, by kind.
LEMMA RunNat == RunMb["cpu"] \in Nat /\ RunMb["gpu"] \in Nat
<1>1. KvCacheMb = 492
  BY DEF KvCacheMb, CeilDiv
<1> QED
  BY <1>1 DEF RunMb, OverheadMb, Kinds

\* A model profile holds naturals, and a job costs at least one token.
LEMMA ProfileNat ==
    ASSUME NEW m \in Models, NEW kind \in Kinds
    PROVE  /\ WeightsMb[m][kind] \in Nat
           /\ RunMb[kind] \in Nat
           /\ TokenCost[m][kind] \in Nat /\ TokenCost[m][kind] >= 1
<1>1. SizeMb[m] \in Nat
  BY AdmissionAssumption
<1> DEFINE percent == IF kind = "gpu" THEN 110 ELSE 135
           size == Max({256, SizeMb[m]})
<1>2. size \in Nat
  BY <1>1, MaxOfTwo
<1>3. CeilDiv(size * percent, 100) \in Nat
  <2>1. size * percent \in Nat
    BY <1>2
  <2> HIDE DEF size, percent
  <2> QED
    BY <2>1, CeilDivNat
<1>4. Max({256, CeilDiv(size * percent, 100)}) \in Nat
  BY <1>3, MaxOfTwo
<1>5. WeightsMb[m][kind] = Max({256, CeilDiv(size * percent, 100)})
  BY DEF WeightsMb
<1>6. WeightsMb[m][kind] \in Nat
  BY <1>4, <1>5
<1>7. RunMb[kind] \in Nat
  BY RunNat DEF Kinds
<1> DEFINE cost == CeilDiv(WeightsMb[m][kind] + RunMb[kind], 512)
<1>8. cost \in Nat
  <2>1. WeightsMb[m][kind] + RunMb[kind] \in Nat
    BY <1>6, <1>7
  <2> QED
    BY <2>1, CeilDivNat
<1>9. Max({1, cost}) \in Nat /\ 1 <= Max({1, cost})
  <2> HIDE DEF cost
  <2> QED
    BY <1>8, MaxOfTwo
<1>10. TokenCost[m][kind] = Max({1, cost})
  BY DEF TokenCost
<1> QED
  BY <1>6, <1>7, <1>9, <1>10

\* What a heartbeat may say of a target.
Reported(t, h) == h.free \in FreeMb /\ h.base \in Nat /\ h.base <= MaxBase(t)

\* The reserve of the host never makes the usable memory negative.
LEMMA UsableNat == \A t \in Targets, free \in FreeMb : Usable(t, free) \in Nat
BY AdmissionAssumption DEF Usable, AtLeast

\* A busy target reports no more tokens than an idle one with the same memory.
LEMMA BaseBound ==
    ASSUME NEW t \in Targets, NEW free \in FreeMb, NEW busy
    PROVE  /\ BaseTokens(t, free, busy) \in Nat
           /\ BaseTokens(t, free, busy) <= BaseTokens(t, free, FALSE)
<1> DEFINE tokens == Usable(t, free) \div 512
           u == Usable(t, free)
<1>1. u \in Nat /\ Cpus \in Nat
  BY UsableNat, AdmissionAssumption
<1> HIDE DEF u
<1>2. u \div 512 \in Nat /\ (u \div 512) \div 4 \in Nat /\ (u \div 512) \div 4 <= u \div 512
  BY <1>1
<1>3. tokens = u \div 512
  BY DEF u
<1>4. tokens \in Nat /\ tokens \div 4 \in Nat /\ tokens \div 4 <= tokens
  BY <1>2, <1>3
<1> HIDE DEF tokens
<1>5. \A b : BaseTokens(t, free, b) =
               IF t \in GpuTargets THEN AtLeast(1, tokens)
               ELSE AtLeast(IF TotalMb >= 12 * 1024 THEN 8 ELSE 1,
                            AtMost(Cpus, IF b THEN tokens \div 4 ELSE tokens))
  BY DEF BaseTokens, tokens
<1> DEFINE base == BaseTokens(t, free, busy)
           full == BaseTokens(t, free, FALSE)
<1>6. CASE t \in GpuTargets
  <2>1. base = AtLeast(1, tokens) /\ full = AtLeast(1, tokens)
    BY <1>5, <1>6
  <2> HIDE DEF base, full
  <2>2. base \in Nat /\ base <= full
    BY <1>4, <2>1 DEF AtLeast
  <2> QED
    BY <2>2 DEF base, full
<1>7. CASE t \notin GpuTargets
  <2> DEFINE least == IF TotalMb >= 12 * 1024 THEN 8 ELSE 1
             n == IF busy THEN tokens \div 4 ELSE tokens
  <2>1. least \in Nat /\ n \in Nat /\ n <= tokens
    BY <1>4
  <2>2. base = AtLeast(least, AtMost(Cpus, n)) /\ full = AtLeast(least, AtMost(Cpus, tokens))
    BY <1>5, <1>7
  <2> HIDE DEF least, n, base, full
  <2>3. base \in Nat /\ base <= full
    BY <1>1, <1>4, <2>1, <2>2 DEF AtLeast, AtMost
  <2> QED
    BY <2>3 DEF base, full
<1> QED
  BY <1>6, <1>7

\* MaxBase is the most that a target reports.
LEMMA MaxBaseBounds ==
    ASSUME NEW t \in Targets
    PROVE  /\ MaxBase(t) \in Nat
           /\ \A free \in FreeMb : BaseTokens(t, free, FALSE) <= MaxBase(t)
<1> DEFINE bases == {BaseTokens(t, free, FALSE) : free \in FreeMb}
           f == [free \in FreeMb |-> BaseTokens(t, free, FALSE)]
<1>1. bases \in SUBSET Nat /\ bases # {}
  BY BaseBound, AdmissionAssumption
<1>2. f \in Surjection(FreeMb, bases)
  BY DEF Surjection
<1>3. IsFiniteSet(bases)
  <2> HIDE DEF bases, f
  <2> QED
    BY <1>2, FS_Surjection, AdmissionAssumption
<1>4. Max(bases) \in bases /\ \A x \in bases : x <= Max(bases)
  <2> HIDE DEF bases
  <2> QED
    BY <1>1, <1>3, MaxIsLargest
<1> QED
  BY <1>1, <1>4 DEF MaxBase

\* Every heartbeat stays below it.
LEMMA ReportIsReported ==
    ASSUME NEW t \in Targets, NEW free \in FreeMb, NEW loaded, NEW busy
    PROVE  Reported(t, Report(t, free, loaded, busy))
<1> DEFINE b == BaseTokens(t, free, busy)
           f == BaseTokens(t, free, FALSE)
<1>1. b \in Nat /\ b <= f /\ f \in Nat
  BY BaseBound
<1>2. f <= MaxBase(t) /\ MaxBase(t) \in Nat
  BY MaxBaseBounds
<1>3. b <= MaxBase(t)
  <2> HIDE DEF b, f
  <2> QED
    BY <1>1, <1>2
<1> QED
  BY <1>1, <1>3 DEF Reported, Report

------------------------------------------------------------------------------
(* pick_target *)

\* A member with the least score.
LEMMA LeastBy ==
    ASSUME NEW D, D # {}, NEW f, \A t \in D : f[t] \in Nat
    PROVE  \E t \in D : \A o \in D : f[t] <= f[o]
<1> DEFINE N == {f[t] : t \in D}
<1>1. N \in SUBSET Nat /\ N # {}
  OBVIOUS
<1>2. PICK n \in N : \A k \in N : n <= k
  <2> HIDE DEF N
  <2> QED
    BY <1>1, LeastNat
<1> QED
  BY <1>2

\* Scores are compared entry by entry.
LEMMA LessBy ==
    ASSUME NEW a1 \in Int, NEW a2 \in Int, NEW a3 \in Int, NEW a4 \in Int,
           NEW b1 \in Int, NEW b2 \in Int, NEW b3 \in Int, NEW b4 \in Int,
           \/ a1 < b1
           \/ a1 = b1 /\ a2 < b2
           \/ a1 = b1 /\ a2 = b2 /\ a3 < b3
           \/ a1 = b1 /\ a2 = b2 /\ a3 = b3 /\ a4 < b4
    PROVE  Less(<<a1, a2, a3, a4>>, <<b1, b2, b3, b4>>)
<1> DEFINE a == <<a1, a2, a3, a4>>
           b == <<b1, b2, b3, b4>>
<1>1. DOMAIN a = 1 .. 4
  OBVIOUS
<1>2. CASE a1 < b1
  <2>1. 1 \in DOMAIN a /\ a[1] < b[1] /\ \A i \in 1 .. (1 - 1) : a[i] = b[i]
    BY <1>2
  <2> QED
    BY <2>1 DEF Less
<1>3. CASE a1 = b1 /\ a2 < b2
  <2>1. 2 \in DOMAIN a /\ a[2] < b[2] /\ \A i \in 1 .. (2 - 1) : a[i] = b[i]
    BY <1>3
  <2> QED
    BY <2>1 DEF Less
<1>4. CASE a1 = b1 /\ a2 = b2 /\ a3 < b3
  <2>1. 3 \in DOMAIN a /\ a[3] < b[3] /\ \A i \in 1 .. (3 - 1) : a[i] = b[i]
    BY <1>4
  <2> QED
    BY <2>1 DEF Less
<1>5. CASE a1 = b1 /\ a2 = b2 /\ a3 = b3 /\ a4 < b4
  <2>1. 4 \in DOMAIN a /\ a[4] < b[4] /\ \A i \in 1 .. (4 - 1) : a[i] = b[i]
    BY <1>5
  <2> QED
    BY <2>1 DEF Less
<1> QED
  BY <1>2, <1>3, <1>4, <1>5

\* The scheduler always picks one of the targets it has read.
LEMMA PickIsTarget ==
    ASSUME NEW m, DOMAIN snapshot # {}, DOMAIN snapshot \subseteq Targets,
           \A t \in DOMAIN snapshot : snapshot[t].free \in FreeMb,
           \A t \in Targets : usage[t].active \in Nat
    PROVE  PickTarget(m) \in DOMAIN snapshot
<1> DEFINE D == DOMAIN snapshot
           top == Max(FreeMb)
           warm == [t \in D |-> IF m \in snapshot[t].loaded THEN 0 ELSE 1]
           jobs == [t \in D |-> usage[t].active]
           used == [t \in D |-> top - snapshot[t].free]
           id == [t \in D |-> t]
<1>1. /\ \A t \in D : warm[t] \in Nat /\ jobs[t] \in Nat /\ id[t] \in Nat
      /\ D # {}
  BY AdmissionAssumption
<1>2. \A t \in D : used[t] \in Nat
  <2>1. top \in Nat /\ \A x \in FreeMb : x \in Nat /\ x <= top
    BY MaxIsLargest, AdmissionAssumption
  <2> HIDE DEF top
  <2> QED
    BY <2>1
<1>3. \A t \in D : Score(t, m) = <<warm[t], jobs[t], -snapshot[t].free, id[t]>>
  BY DEF Score
<1>4. \A t, o \in D : /\ used[t] < used[o] => -snapshot[t].free < -snapshot[o].free
                      /\ used[t] = used[o] => -snapshot[t].free = -snapshot[o].free
                      /\ -snapshot[t].free \in Int
  <2>1. top \in Nat /\ \A x \in FreeMb : x \in Nat
    BY MaxIsLargest, AdmissionAssumption
  <2> HIDE DEF top
  <2> QED
    BY <2>1
<1>5. \A t, o \in D : id[t] = id[o] => t = o
  OBVIOUS
<1> HIDE DEF D, warm, jobs, used, id
<1>6. PICK t1 \in D : \A o \in D : warm[t1] <= warm[o]
  BY <1>1, LeastBy
<1> DEFINE D1 == {t \in D : warm[t] = warm[t1]}
<1>7. PICK t2 \in D1 : \A o \in D1 : jobs[t2] <= jobs[o]
  <2>1. D1 # {} /\ \A t \in D1 : jobs[t] \in Nat
    BY <1>1
  <2> HIDE DEF D1
  <2> QED
    BY <2>1, LeastBy
<1> DEFINE D2 == {t \in D1 : jobs[t] = jobs[t2]}
<1>8. PICK t3 \in D2 : \A o \in D2 : used[t3] <= used[o]
  <2>1. D2 # {} /\ \A t \in D2 : used[t] \in Nat
    BY <1>2
  <2> HIDE DEF D2
  <2> QED
    BY <2>1, LeastBy
<1> DEFINE D3 == {t \in D2 : used[t] = used[t3]}
<1>9. PICK t4 \in D3 : \A o \in D3 : id[t4] <= id[o]
  <2>1. D3 # {} /\ \A t \in D3 : id[t] \in Nat
    BY <1>1
  <2> HIDE DEF D3
  <2> QED
    BY <2>1, LeastBy
<1>10. ASSUME NEW o \in D \ {t4}
       PROVE  Less(Score(t4, m), Score(o, m))
  <2>1. \/ warm[t4] < warm[o]
        \/ warm[t4] = warm[o] /\ jobs[t4] < jobs[o]
        \/ warm[t4] = warm[o] /\ jobs[t4] = jobs[o] /\ used[t4] < used[o]
        \/ warm[t4] = warm[o] /\ jobs[t4] = jobs[o] /\ used[t4] = used[o] /\ id[t4] < id[o]
    <3>1. CASE o \notin D1
      BY <1>1, <1>6, <3>1
    <3>2. CASE o \in D1 /\ o \notin D2
      BY <1>1, <1>7, <3>2
    <3>3. CASE o \in D2 /\ o \notin D3
      BY <1>2, <1>8, <3>3
    <3>4. CASE o \in D3
      BY <1>1, <1>5, <1>9, <3>4
    <3> QED
      BY <3>1, <3>2, <3>3, <3>4
  <2>2. /\ Score(t4, m) = <<warm[t4], jobs[t4], -snapshot[t4].free, id[t4]>>
        /\ Score(o, m) = <<warm[o], jobs[o], -snapshot[o].free, id[o]>>
    BY <1>3
  <2>3. /\ used[t4] < used[o] => -snapshot[t4].free < -snapshot[o].free
        /\ used[t4] = used[o] => -snapshot[t4].free = -snapshot[o].free
        /\ -snapshot[t4].free \in Int /\ -snapshot[o].free \in Int
    BY <1>4
  <2>4. /\ warm[t4] \in Int /\ jobs[t4] \in Int /\ id[t4] \in Int
        /\ warm[o] \in Int /\ jobs[o] \in Int /\ id[o] \in Int
    BY <1>1
  <2> DEFINE mine == -snapshot[t4].free
             other == -snapshot[o].free
  <2>5. Less(<<warm[t4], jobs[t4], mine, id[t4]>>, <<warm[o], jobs[o], other, id[o]>>)
    <3>1. mine \in Int /\ other \in Int
      BY <2>3
    <3>2. \/ warm[t4] < warm[o]
          \/ warm[t4] = warm[o] /\ jobs[t4] < jobs[o]
          \/ warm[t4] = warm[o] /\ jobs[t4] = jobs[o] /\ mine < other
          \/ warm[t4] = warm[o] /\ jobs[t4] = jobs[o] /\ mine = other /\ id[t4] < id[o]
      BY <2>1, <2>3
    <3> HIDE DEF mine, other
    <3> QED
      BY <2>4, <3>1, <3>2, LessBy
  <2> QED
    BY <2>2, <2>5
<1>11. \E t \in D : \A o \in D \ {t} : Less(Score(t, m), Score(o, m))
  BY <1>10
<1> QED
  BY <1>11 DEF PickTarget, D

------------------------------------------------------------------------------
(* list_pending_candidates *)

Takes(s, h, n) ==
    h[n] = IF n = 0 THEN <<>>
           ELSE IF job[s[n]].status = "queued" THEN Append(h[n - 1], s[n])
           ELSE h[n - 1]
IsTaken(s, h) == h = [n \in 0 .. Len(s) |-> h[n]] /\ \A n \in 0 .. Len(s) : Takes(s, h, n)

\* The recursion of Queued has a solution ...
LEMMA TakenExists ==
    ASSUME NEW s \in Seq(Jobs)
    PROVE  \E h \in [0 .. Len(s) -> Seq(Jobs)] : \A n \in 0 .. Len(s) : Takes(s, h, n)
<1> DEFINE I == 0 .. Len(s)
           Upto(n) == \E h \in [I -> Seq(Jobs)] : \A i \in I : i <= n => Takes(s, h, i)
           Bad == {n \in Nat : ~Upto(n)}
<1>0. Len(s) \in Nat
  OBVIOUS
<1>1. Upto(0)
  <2> DEFINE h == [i \in I |-> <<>>]
  <2>1. h \in [I -> Seq(Jobs)] /\ \A i \in I : i <= 0 => Takes(s, h, i)
    BY <1>0 DEF Takes
  <2> QED
    BY <2>1
<1>2. ASSUME NEW n \in Nat, Upto(n)
      PROVE  Upto(n + 1)
  <2>1. PICK h \in [I -> Seq(Jobs)] : \A i \in I : i <= n => Takes(s, h, i)
    BY <1>2
  <2> DEFINE k == [i \in I |-> IF i = 0 THEN <<>>
                               ELSE IF job[s[i]].status = "queued" THEN Append(h[i - 1], s[i])
                               ELSE h[i - 1]]
  <2>2. \A i \in I : i # 0 => i - 1 \in I /\ s[i] \in Jobs /\ h[i - 1] \in Seq(Jobs)
    BY <1>0
  <2>3. k \in [I -> Seq(Jobs)]
    <3>1. ASSUME NEW i \in I
          PROVE  k[i] \in Seq(Jobs)
      <4>1. CASE i = 0
        BY <4>1
      <4>2. CASE i # 0
        <5>1. s[i] \in Jobs /\ h[i - 1] \in Seq(Jobs)
          BY <2>2, <4>2
        <5>2. Append(h[i - 1], s[i]) \in Seq(Jobs)
          BY <5>1
        <5> QED
          BY <4>2, <5>1, <5>2
      <4> QED
        BY <4>1, <4>2
    <3> QED
      BY <3>1
  <2>4. ASSUME NEW i \in I, i <= n + 1
        PROVE  Takes(s, k, i)
    <3>1. CASE i = 0
      BY <3>1 DEF Takes
    <3>2. CASE i # 0
      <4>1. i - 1 \in I /\ i - 1 <= n
        BY <1>0, <2>4, <3>2
      <4>2. Takes(s, h, i - 1)
        BY <2>1, <4>1
      <4>3. k[i - 1] = h[i - 1]
        BY <4>1, <4>2 DEF Takes
      <4>4. k[i] = IF job[s[i]].status = "queued" THEN Append(h[i - 1], s[i]) ELSE h[i - 1]
        BY <3>2
      <4> HIDE DEF k
      <4> QED
        BY <3>2, <4>3, <4>4 DEF Takes
    <3> QED
      BY <3>1, <3>2
  <2> HIDE DEF k
  <2> QED
    BY <2>3, <2>4
<1>3. Bad = {}
  <2> SUFFICES ASSUME Bad # {}
               PROVE  FALSE
    OBVIOUS
  <2> HIDE DEF Upto
  <2>1. PICK n \in Bad : \A k \in Bad : n <= k
    BY LeastNat
  <2>2. n \in Nat /\ ~Upto(n)
    OBVIOUS
  <2>3. n # 0
    BY <1>1, <2>2
  <2>4. n - 1 \in Nat /\ n - 1 < n /\ (n - 1) + 1 = n
    BY <2>2, <2>3
  <2>5. Upto(n - 1)
    BY <2>1, <2>4
  <2>6. Upto((n - 1) + 1)
    BY <1>2, <2>4, <2>5
  <2> QED
    BY <2>2, <2>4, <2>6
<1>4. Upto(Len(s))
  <2> HIDE DEF Upto
  <2> QED
    BY <1>0, <1>3
<1>5. \A i \in I : i <= Len(s)
  BY <1>0
<1> QED
  BY <1>4, <1>5

\* ... and only one.
LEMMA TakenUnique ==
    ASSUME NEW s \in Seq(Jobs), NEW h, NEW k, IsTaken(s, h), IsTaken(s, k)
    PROVE  k = h
<1> DEFINE I == 0 .. Len(s)
           B == {n \in I : k[n] # h[n]}
<1>0. Len(s) \in Nat
  OBVIOUS
<1>1. B = {}
  <2> SUFFICES ASSUME B # {}
               PROVE  FALSE
    OBVIOUS
  <2>1. B \in SUBSET Nat
    BY <1>0
  <2>2. PICK n \in B : \A i \in B : n <= i
    <3> HIDE DEF B
    <3> QED
      BY <2>1, LeastNat
  <2>3. n \in I /\ k[n] # h[n] /\ n \in Nat
    BY <1>0
  <2>4. Takes(s, h, n) /\ Takes(s, k, n)
    BY <2>3 DEF IsTaken
  <2>5. n # 0
    BY <2>3, <2>4 DEF Takes
  <2>6. n - 1 \in I /\ ~(n <= n - 1)
    BY <1>0, <2>3, <2>5
  <2>7. k[n - 1] = h[n - 1]
    BY <2>2, <2>6
  <2> QED
    BY <2>3, <2>4, <2>5, <2>7 DEF Takes
<1>2. \A n \in I : k[n] = h[n]
  BY <1>1
<1> QED
  BY <1>2 DEF IsTaken

\* The scan keeps the queued jobs of the window, all of them and no others.
LEMMA QueuedKeeps ==
    ASSUME NEW s \in Seq(Jobs)
    PROVE  /\ Queued(s) \in Seq(Jobs)
           /\ \A k \in 1 .. Len(s) : job[s[k]].status = "queued" =>
                 \E i \in 1 .. Len(Queued(s)) : Queued(s)[i] = s[k]
<1>0. Len(s) \in Nat
  OBVIOUS
<1>1. PICK h \in [0 .. Len(s) -> Seq(Jobs)] : \A n \in 0 .. Len(s) : Takes(s, h, n)
  BY TakenExists
<1>2. IsTaken(s, h)
  BY <1>1 DEF IsTaken
<1> DEFINE Eq(f) == f = [n \in 0 .. Len(s) |->
                            IF n = 0 THEN <<>>
                            ELSE IF job[s[n]].status = "queued" THEN Append(f[n - 1], s[n])
                            ELSE f[n - 1]]
<1>3. Eq(h)
  BY <1>1 DEF Takes
<1>4. ASSUME NEW f, Eq(f)
      PROVE  f = h
  <2>1. IsTaken(s, f)
    BY <1>4 DEF IsTaken, Takes
  <2> QED
    BY <1>2, <2>1, TakenUnique
<1>5. (CHOOSE f : Eq(f)) = h
  <2> HIDE DEF Eq
  <2> QED
    BY <1>3, <1>4
<1>6. Queued(s) = (CHOOSE f : Eq(f))[Len(s)]
  BY DEF Queued
<1>7. Queued(s) = h[Len(s)]
  BY <1>5, <1>6
<1> DEFINE In(n, x) == \E i \in 1 .. Len(h[n]) : h[n][i] = x
           B == {n \in 0 .. Len(s) : \E k \in 1 .. n : job[s[k]].status = "queued" /\ ~In(n, s[k])}
<1>8. ASSUME NEW n \in 1 .. Len(s), NEW x, In(n - 1, x) \/ (x = s[n] /\ job[x].status = "queued")
      PROVE  In(n, x)
  <2>1. n - 1 \in 0 .. Len(s) /\ n \in 0 .. Len(s) /\ n # 0 /\ s[n] \in Jobs
    BY <1>0
  <2>2. h[n - 1] \in Seq(Jobs) /\ Takes(s, h, n)
    BY <1>1, <2>1
  <2> DEFINE r == h[n - 1]
             q == h[n]
  <2>3. q = IF job[s[n]].status = "queued" THEN Append(r, s[n]) ELSE r
    BY <2>1, <2>2 DEF Takes
  <2>4. (\E i \in 1 .. Len(r) : r[i] = x) \/ (x = s[n] /\ job[x].status = "queued")
    BY <1>8
  <2>5. r \in Seq(Jobs)
    BY <2>2
  <2> HIDE DEF r, q
  <2>6. \E i \in 1 .. Len(q) : q[i] = x
    <3>1. CASE job[s[n]].status = "queued"
      <4>1. /\ Len(q) = Len(r) + 1 /\ q[Len(r) + 1] = s[n] /\ Len(r) \in Nat
            /\ \A i \in 1 .. Len(r) : q[i] = r[i]
        BY <2>1, <2>3, <2>5, <3>1
      <4> QED
        BY <2>4, <4>1
    <3>2. CASE job[s[n]].status # "queued"
      BY <2>3, <2>4, <3>2
    <3> QED
      BY <3>1, <3>2
  <2> QED
    BY <2>6 DEF q
<1>9. B = {}
  <2> SUFFICES ASSUME B # {}
               PROVE  FALSE
    OBVIOUS
  <2> HIDE DEF In
  <2>1. B \in SUBSET Nat
    BY <1>0
  <2>2. PICK n \in B : \A i \in B : n <= i
    <3> HIDE DEF B
    <3> QED
      BY <2>1, LeastNat
  <2>3. PICK k \in 1 .. n : job[s[k]].status = "queued" /\ ~In(n, s[k])
    OBVIOUS
  <2>4. n \in 1 .. Len(s) /\ n - 1 \in 0 .. Len(s) /\ ~(n <= n - 1)
    BY <1>0, <2>3
  <2>5. k # n
    BY <1>8, <2>3, <2>4
  <2>6. k \in 1 .. (n - 1)
    BY <2>4, <2>5
  <2>7. In(n - 1, s[k])
    BY <2>2, <2>3, <2>4, <2>6
  <2> QED
    BY <1>8, <2>3, <2>4, <2>7
<1>10. \A k \in 1 .. Len(s) : job[s[k]].status = "queued" => In(Len(s), s[k])
  <2> HIDE DEF In
  <2> QED
    BY <1>0, <1>9
<1>11. h[Len(s)] \in Seq(Jobs)
  BY <1>0
<1> QED
  BY <1>7, <1>10, <1>11

------------------------------------------------------------------------------
(* The types, and which jobs have arrived. *)

Statuses == {"none", "rejected", "queued", "admitted", "done", "gone"}
JobRecords == [status : Statuses, kind : Kinds, retries : Nat, on : Targets \cup {None},
               tokens : Nat, mem : Nat]
Fields == Classes \cup {"tokens", "mem", "active"}

Typed ==
    /\ pending \in [Classes -> Seq(Jobs)]
    /\ job \in [Jobs -> JobRecords]
    /\ usage \in [Targets -> [Fields -> Nat]]
    /\ refs \in [Targets -> [Models -> Nat]]
    /\ record = [t \in Targets |-> record[t]]
    /\ \A t \in Targets : Reported(t, record[t])
    /\ alive \subseteq Targets
    /\ arrived \in 0 .. Len(Submissions) /\ arriving \subseteq 1 .. arrived
    /\ pass \in Seq(Jobs) /\ (pass # <<>> => DOMAIN snapshot # {})
    /\ DOMAIN snapshot \subseteq Targets
    /\ \A t \in DOMAIN snapshot : Reported(t, snapshot[t])
    /\ \A j \in Jobs : job[j].status = "admitted" => job[j].on \in Targets
    /\ \A j \in Jobs : job[j].status = "queued" => job[j].on = None
    /\ \A j \in Jobs : job[j].status # "none" => j <= arrived /\ j \notin arriving

\* Jobs are numbered in the order of their arrival.
LEMMA JobsFinite ==
    /\ Jobs = 1 .. Len(Submissions) /\ Len(Submissions) \in Nat
    /\ IsFiniteSet(Jobs) /\ Jobs \subseteq Nat
    /\ \A j \in Jobs : Class(j) \in Classes /\ Model(j) \in Models
<1>1. Submissions \in Seq([class : Classes, model : Models])
  BY AdmissionAssumption
<1>2. Jobs = 1 .. Len(Submissions) /\ Len(Submissions) \in Nat
  BY <1>1 DEF Jobs
<1>3. IsFiniteSet(1 .. Len(Submissions))
  BY <1>2, FS_Interval
<1>4. \A j \in Jobs : Submissions[j] \in [class : Classes, model : Models]
  <2> DEFINE R == [class : Classes, model : Models]
  <2>1. Submissions \in Seq(R)
    BY <1>1
  <2> HIDE DEF R
  <2>2. \A j \in 1 .. Len(Submissions) : Submissions[j] \in R
    BY <2>1
  <2> QED
    BY <1>2, <2>2 DEF R
<1> QED
  BY <1>2, <1>3, <1>4 DEF Class, Model

\* The initial state has the types.
LEMMA InitTyped == Init => Typed
<1> SUFFICES ASSUME Init
             PROVE  Typed
  OBVIOUS
<1>1. pending \in [Classes -> Seq(Jobs)]
  BY DEF Init
<1>2. /\ job \in [Jobs -> JobRecords]
      /\ \A j \in Jobs : job[j].status = "none"
  BY DEF Init, NewJob, JobRecords, Statuses, Kinds
<1>3. usage \in [Targets -> [Fields -> Nat]]
  <2>1. NoUsage \in [Fields -> Nat]
    BY DEF NoUsage, Fields, Classes
  <2> QED
    BY <2>1 DEF Init
<1>4. refs \in [Targets -> [Models -> Nat]]
  BY DEF Init
<1>5. /\ record = [t \in Targets |-> record[t]]
      /\ \A t \in Targets : Reported(t, record[t])
  <2>1. Max(FreeMb) \in FreeMb
    BY MaxIsLargest, AdmissionAssumption
  <2>2. record = [t \in Targets |-> Report(t, Max(FreeMb), {}, FALSE)]
    BY DEF Init
  <2>3. \A t \in Targets : record[t] = Report(t, Max(FreeMb), {}, FALSE)
    BY <2>2
  <2>4. \A t \in Targets : Reported(t, Report(t, Max(FreeMb), {}, FALSE))
    BY <2>1, ReportIsReported
  <2>5. record = [t \in Targets |-> record[t]]
    BY <2>2
  <2> QED
    BY <2>3, <2>4, <2>5
<1>6. alive \subseteq Targets /\ arrived \in 0 .. Len(Submissions) /\ arriving \subseteq 1 .. arrived
  BY JobsFinite DEF Init
<1>7. pass \in Seq(Jobs) /\ pass = <<>> /\ DOMAIN snapshot = {}
  BY DEF Init
<1> QED
  BY <1>1, <1>2, <1>3, <1>4, <1>5, <1>6, <1>7 DEF Typed

------------------------------------------------------------------------------
(* The pending lists. *)

\* LREM of one occurrence of e: nothing, or one place of the list that holds e
\* is closed up.
LEMMA RemoveFirstShape ==
    ASSUME NEW S, NEW s \in Seq(S), NEW e
    PROVE  LET r == RemoveFirst(s, e)
           IN  \/ r = s /\ \A k \in 1..Len(s) : s[k] # e
               \/ \E m \in 1..Len(s) :
                     /\ s[m] = e /\ r \in Seq(S) /\ Len(r) = Len(s) - 1
                     /\ \A k \in 1..(m - 1) : r[k] = s[k]
                     /\ \A k \in m..(Len(s) - 1) : r[k] = s[k + 1]
<1> DEFINE I == {i \in 1..Len(s) : s[i] = e}
           m == Min(I)
           r == RemoveAt(s, m)
<1>1. CASE I = {}
  <2>1. RemoveFirst(s, e) = s /\ \A k \in 1..Len(s) : s[k] # e
    BY <1>1 DEF RemoveFirst
  <2> QED
    BY <2>1
<1>2. CASE I # {}
  <2>1. RemoveFirst(s, e) = r
    BY <1>2 DEF RemoveFirst, SelectInSeq
  <2>2. m \in I
    <3>1. I \in SUBSET Nat
      OBVIOUS
    <3> QED
      BY <1>2, <3>1, LeastNat DEF Min
  <2>3. m \in 1..Len(s) /\ s[m] = e
    BY <2>2
  <2> HIDE DEF m
  <2>4. /\ r \in Seq(S) /\ Len(r) = Len(s) - 1
        /\ \A k \in 1..(m - 1) : r[k] = s[k]
        /\ \A k \in m..(Len(s) - 1) : r[k] = s[k + 1]
    <3> DEFINE a == SubSeq(s, 1, m - 1)
               b == SubSeq(s, m + 1, Len(s))
    <3>1. a \in Seq(S) /\ Len(a) = m - 1 /\ \A k \in 1..(m - 1) : a[k] = s[k]
      BY <2>3
    <3>2. /\ b \in Seq(S) /\ Len(b) = Len(s) - m
          /\ \A k \in 1..(Len(s) - m) : b[k] = s[m + k]
      BY <2>3
    <3>3. r = a \o b
      BY DEF RemoveAt
    <3> HIDE DEF a, b, r
    <3>4. r \in Seq(S) /\ Len(r) = Len(s) - 1
      BY <2>3, <3>1, <3>2, <3>3
    <3>5. \A k \in 1..(m - 1) : r[k] = s[k]
      BY <2>3, <3>1, <3>2, <3>3
    <3>6. ASSUME NEW k \in m..(Len(s) - 1)
          PROVE  r[k] = s[k + 1]
      <4>1. r[k] = b[k - (m - 1)]
        BY <2>3, <3>1, <3>2, <3>3
      <4>2. k - (m - 1) \in 1..(Len(s) - m) /\ m + (k - (m - 1)) = k + 1
        BY <2>3
      <4> QED
        BY <3>2, <4>1, <4>2
    <3> QED
      BY <3>4, <3>5, <3>6
  <2> QED
    BY <2>1, <2>3, <2>4
<1> QED
  BY <1>1, <1>2

\* LREM leaves a list of jobs.
LEMMA RemoveFirstTyped ==
    \A s \in Seq(Jobs) : \A j : RemoveFirst(s, j) \in Seq(Jobs)
BY RemoveFirstShape

\* The scan window of a list is a list of jobs ...
LEMMA WindowTyped ==
    ASSUME NEW c \in Classes, pending \in [Classes -> Seq(Jobs)]
    PROVE  Window(c) \in Seq(Jobs)
<1> DEFINE s == pending[c]
           n == AtMost(ScanDepth, Len(s))
<1>1. s \in Seq(Jobs) /\ Len(s) \in Nat /\ ScanDepth \in Nat
  BY AdmissionAssumption
<1>2. n \in 0 .. Len(s)
  BY <1>1 DEF AtMost
<1> HIDE DEF s, n
<1>3. SubSeq(s, 1, n) \in Seq(Jobs)
  BY <1>1, <1>2
<1> QED
  BY <1>3 DEF Window, s, n

\* ... and so are the candidates.
LEMMA CandidatesTyped ==
    ASSUME Typed
    PROVE  Candidates \in Seq(Jobs)
<1>1. pending \in [Classes -> Seq(Jobs)]
  BY DEF Typed
<1>2. \A c \in Classes : Queued(Window(c)) \in Seq(Jobs)
  BY <1>1, WindowTyped, QueuedKeeps
<1> DEFINE Q(c) == Queued(Window(c))
<1>3. Q("siem") \in Seq(Jobs) /\ Q("chat") \in Seq(Jobs) /\ Q("parse") \in Seq(Jobs)
      /\ Q("batch") \in Seq(Jobs)
  BY <1>2 DEF Classes
<1> HIDE DEF Q
<1>4. Q("siem") \o Q("chat") \o Q("parse") \o Q("batch") \in Seq(Jobs)
  BY <1>3
<1> QED
  BY <1>4 DEF Candidates, Q

------------------------------------------------------------------------------
(* Every action keeps the types. *)

\* The job and the target of a step of the scheduler, and what it may reserve.
LEMMA Considered ==
    ASSUME Typed, pass # <<>>
    PROVE  LET j == Head(pass)
               t == PickTarget(Model(j))
           IN  /\ j \in Jobs /\ t \in Targets /\ t \in DOMAIN snapshot
               /\ Class(j) \in Classes /\ Model(j) \in Models
               /\ Reported(t, snapshot[t])
               /\ DowngradedKind(j) \in Kinds
               /\ TokenCost[Model(j)][Kind(t)] \in Nat /\ TokenCost[Model(j)][Kind(t)] >= 1
               /\ RequiredMb(t, Model(j), snapshot[t]) \in Nat
<1> DEFINE j == Head(pass)
           t == PickTarget(Model(j))
<1>1. j \in Jobs
  BY DEF Typed
<1>2. Class(j) \in Classes /\ Model(j) \in Models
  BY <1>1, JobsFinite
<1>3. /\ DOMAIN snapshot # {} /\ DOMAIN snapshot \subseteq Targets
      /\ \A x \in DOMAIN snapshot : Reported(x, snapshot[x])
      /\ \A x \in Targets : usage[x] \in [Fields -> Nat]
  BY DEF Typed
<1>4. \A x \in Targets : usage[x].active \in Nat
  BY <1>3 DEF Fields
<1> HIDE DEF j
<1>5. t \in DOMAIN snapshot
  BY <1>3, <1>4, PickIsTarget DEF Reported
<1>6. t \in Targets /\ Reported(t, snapshot[t])
  BY <1>3, <1>5
<1> HIDE DEF t
<1>7. DowngradedKind(j) \in Kinds
  BY <1>1 DEF DowngradedKind, Typed, JobRecords, Kinds
<1>8. Kind(t) \in Kinds
  BY DEF Kind, Kinds
<1>9. /\ TokenCost[Model(j)][Kind(t)] \in Nat /\ TokenCost[Model(j)][Kind(t)] >= 1
      /\ WeightsMb[Model(j)][Kind(t)] \in Nat /\ RunMb[Kind(t)] \in Nat
  BY <1>2, <1>8, ProfileNat
<1>10. RequiredMb(t, Model(j), snapshot[t]) \in Nat
  BY <1>9 DEF RequiredMb
<1> QED
  BY <1>1, <1>2, <1>5, <1>6, <1>7, <1>9, <1>10 DEF j, t

\* The counters v are u with n tokens and m megabytes more of class c.
Reserved(u, v, c, n, m) ==
    /\ v.tokens = u.tokens + n /\ v.mem = u.mem + m /\ v.active = u.active + 1
    /\ \A d \in Classes : v[d] = IF d = c THEN u[d] + n ELSE u[d]

\* try_admit_job adds to the counters of the class and of the target.
LEMMA ReserveShape ==
    ASSUME NEW u \in [Fields -> Nat], NEW c \in Classes, NEW n \in Nat, NEW m \in Nat
    PROVE  Reserve(u, c, n, m) \in [Fields -> Nat] /\ Reserved(u, Reserve(u, c, n, m), c, n, m)
<1> DEFINE v == Reserve(u, c, n, m)
           w == [f \in Fields |-> IF f = "tokens" \/ f = c THEN u[f] + n
                                  ELSE IF f = "mem" THEN u[f] + m
                                  ELSE IF f = "active" THEN u[f] + 1 ELSE u[f]]
<1>1. c \in Fields /\ c # "tokens" /\ c # "mem" /\ c # "active" /\ Classes \subseteq Fields
  BY DEF Fields, Classes
<1>2. "tokens" \in Fields /\ "mem" \in Fields /\ "active" \in Fields
  BY DEF Fields
<1>3. \A d \in Classes : d # "tokens" /\ d # "mem" /\ d # "active"
  BY DEF Classes
<1>4. v = w
  BY <1>1, <1>2 DEF Reserve
<1>5. w \in [Fields -> Nat]
  BY <1>2
<1> QED
  BY <1>1, <1>2, <1>3, <1>4, <1>5 DEF Reserved

\* The counters v are u without them, clamped at zero.
GivenBack(u, v, c, n, m) ==
    /\ v.tokens = AtLeast(0, u.tokens - n) /\ v.mem = AtLeast(0, u.mem - m)
    /\ v.active = AtLeast(0, u.active - 1)
    /\ \A d \in Classes : v[d] = IF d = c THEN AtLeast(0, u[d] - n) ELSE u[d]

\* _release_reserved_capacity takes them off again.
LEMMA GiveBackShape ==
    ASSUME NEW u \in [Fields -> Nat], NEW c \in Classes, NEW n \in Nat, NEW m \in Nat
    PROVE  GiveBack(u, c, n, m) \in [Fields -> Nat] /\ GivenBack(u, GiveBack(u, c, n, m), c, n, m)
<1> DEFINE v == GiveBack(u, c, n, m)
           w == [f \in Fields |-> IF f = "tokens" \/ f = c THEN AtLeast(0, u[f] - n)
                                  ELSE IF f = "mem" THEN AtLeast(0, u[f] - m)
                                  ELSE IF f = "active" THEN AtLeast(0, u[f] - 1) ELSE u[f]]
<1>1. c \in Fields /\ c # "tokens" /\ c # "mem" /\ c # "active" /\ Classes \subseteq Fields
  BY DEF Fields, Classes
<1>2. "tokens" \in Fields /\ "mem" \in Fields /\ "active" \in Fields
  BY DEF Fields
<1>3. \A d \in Classes : d # "tokens" /\ d # "mem" /\ d # "active"
  BY DEF Classes
<1>4. v = w
  BY <1>1, <1>2 DEF GiveBack
<1>5. w \in [Fields -> Nat]
  <2>1. \A f \in Fields : u[f] \in Nat
    OBVIOUS
  <2>2. \A f \in Fields : /\ AtLeast(0, u[f] - n) \in Nat /\ AtLeast(0, u[f] - m) \in Nat
                          /\ AtLeast(0, u[f] - 1) \in Nat
    BY <2>1 DEF AtLeast
  <2> QED
    BY <2>1, <2>2
<1> QED
  BY <1>1, <1>2, <1>3, <1>4, <1>5 DEF GivenBack

\* Releasing a job keeps the counters natural.
LEMMA ReleaseTyped ==
    ASSUME Typed, NEW j \in Jobs, Release(j)
    PROVE  /\ usage' \in [Targets -> [Fields -> Nat]]
           /\ refs' \in [Targets -> [Models -> Nat]]
<1>1. /\ job[j].on \in Targets \cup {None} /\ job[j].tokens \in Nat /\ job[j].mem \in Nat
      /\ usage \in [Targets -> [Fields -> Nat]] /\ refs \in [Targets -> [Models -> Nat]]
  BY DEF Typed, JobRecords
<1>2. Class(j) \in Classes /\ Model(j) \in Models
  BY JobsFinite
<1>3. CASE job[j].on = None
  BY <1>1, <1>3 DEF Release
<1>4. CASE job[j].on # None
  <2>1. GiveBack(usage[job[j].on], Class(j), job[j].tokens, job[j].mem) \in [Fields -> Nat]
    BY <1>1, <1>2, <1>4, GiveBackShape
  <2>2. usage' \in [Targets -> [Fields -> Nat]]
    BY <1>1, <1>4, <2>1 DEF Release
  <2>3. AtLeast(0, refs[job[j].on][Model(j)] - 1) \in Nat
    BY <1>1, <1>2, <1>4 DEF AtLeast
  <2>4. refs' \in [Targets -> [Models -> Nat]]
    <3> DEFINE t == job[j].on
               m == Model(j)
               n == AtLeast(0, refs[t][m] - 1)
    <3>1. /\ refs' = [refs EXCEPT ![t] = [refs[t] EXCEPT ![m] = n]]
          /\ t \in Targets /\ m \in Models /\ n \in Nat
      BY <1>1, <1>2, <1>4, <2>3 DEF Release
    <3> HIDE DEF t, m, n
    <3> QED
      BY <1>1, <3>1
  <2> QED
    BY <2>2, <2>4
<1> QED
  BY <1>3, <1>4

\* What a change of one job's record keeps of the facts about jobs.
JobsTyped ==
    /\ job \in [Jobs -> JobRecords]
    /\ arrived \in 0 .. Len(Submissions) /\ arriving \subseteq 1 .. arrived
    /\ \A j \in Jobs : job[j].status = "admitted" => job[j].on \in Targets
    /\ \A j \in Jobs : job[j].status = "queued" => job[j].on = None
    /\ \A j \in Jobs : job[j].status # "none" => j <= arrived /\ j \notin arriving

\* The record of one arrived job is replaced.
LEMMA JobSteps ==
    ASSUME JobsTyped, NEW j \in Jobs, NEW r \in JobRecords,
           r.status = "admitted" => r.on \in Targets, r.status = "queued" => r.on = None,
           arriving' \subseteq arriving, arrived' = arrived,
           j \notin arriving' /\ j <= arrived,
           job' = [job EXCEPT ![j] = r]
    PROVE  JobsTyped'
<1>1. job' \in [Jobs -> JobRecords]
  BY DEF JobsTyped
<1>2. \A k \in Jobs : job'[k] = IF k = j THEN r ELSE job[k]
  BY DEF JobsTyped
<1> QED
  BY <1>1, <1>2 DEF JobsTyped

\* The other facts, about the lists, the counters, the records and the pass.
RestTyped ==
    /\ pending \in [Classes -> Seq(Jobs)]
    /\ usage \in [Targets -> [Fields -> Nat]]
    /\ refs \in [Targets -> [Models -> Nat]]
    /\ record = [t \in Targets |-> record[t]]
    /\ \A t \in Targets : Reported(t, record[t])
    /\ alive \subseteq Targets
    /\ pass \in Seq(Jobs) /\ (pass # <<>> => DOMAIN snapshot # {})
    /\ DOMAIN snapshot \subseteq Targets
    /\ \A t \in DOMAIN snapshot : Reported(t, snapshot[t])

\* Both parts together.
LEMMA TypedParts == Typed <=> RestTyped /\ JobsTyped
BY DEF Typed, RestTyped, JobsTyped

\* The records that enqueue_job and the two requeues write.
LEMMA QueuedRecord ==
    ASSUME NEW kind \in Kinds, NEW n \in Nat
    PROVE  /\ QueuedJob(kind) \in JobRecords /\ QueuedJob(kind).status = "queued"
           /\ QueuedJob(kind).on = None
           /\ [QueuedJob(kind) EXCEPT !.retries = n] \in JobRecords
           /\ [QueuedJob(kind) EXCEPT !.retries = n].status = "queued"
           /\ [QueuedJob(kind) EXCEPT !.retries = n].on = None
BY DEF QueuedJob, NewJob, JobRecords, Statuses, Kinds

\* The saturation test of enqueue_job.
LEMMA EnqueueTestTyped == Typed /\ EnqueueTest => Typed'
<1> SUFFICES ASSUME Typed, EnqueueTest
             PROVE  Typed'
  OBVIOUS
<1>1. JobsTyped /\ RestTyped
  BY TypedParts
<1>2. RestTyped'
  BY <1>1 DEF RestTyped, EnqueueTest, Reported
<1>3. arrived' \in Jobs /\ arrived' = arrived + 1 /\ arrived \in Nat /\ arrived' <= Len(Submissions)
  BY <1>1, JobsFinite DEF EnqueueTest, JobsTyped
<1> DEFINE a == arrived'
           r == [job[a] EXCEPT !.status = IF Saturated THEN "rejected" ELSE "none"]
<1>4. job' = [job EXCEPT ![a] = r] /\ arriving' = IF Saturated THEN arriving ELSE arriving \cup {a}
  BY DEF EnqueueTest
<1>5. job[a] \in JobRecords /\ job[a].status = "none" /\ job[a].status \in Statuses
  BY <1>1, <1>3, JobsFinite DEF JobsTyped, JobRecords
<1>6. r \in JobRecords /\ r.status = IF Saturated THEN "rejected" ELSE "none"
  <2> HIDE DEF a
  <2> QED
    BY <1>5 DEF JobRecords, Statuses
<1> HIDE DEF a, r
<1>7. \A k \in Jobs : job'[k] = IF k = a THEN r ELSE job[k]
  BY <1>1, <1>4 DEF JobsTyped
<1>8. a = arrived + 1 /\ arrived' = a /\ a \in Jobs
  BY <1>3 DEF a
<1>9. job' \in [Jobs -> JobRecords] /\ arrived' \in 0 .. Len(Submissions)
  <2>1. job' \in [Jobs -> JobRecords]
    BY <1>1, <1>4, <1>6, <1>8 DEF JobsTyped
  <2>2. arrived' \in 0 .. Len(Submissions)
    BY <1>3, JobsFinite
  <2> QED
    BY <2>1, <2>2
<1>10. arriving' \subseteq 1 .. arrived'
  BY <1>1, <1>3, <1>4, <1>8 DEF JobsTyped
<1>11. \A k \in Jobs : /\ job'[k].status = "admitted" => job'[k].on \in Targets
                       /\ job'[k].status = "queued" => job'[k].on = None
  BY <1>1, <1>6, <1>7 DEF JobsTyped
<1>12. ASSUME NEW k \in Jobs, job'[k].status # "none"
       PROVE  k <= arrived' /\ k \notin arriving'
  <2>1. CASE k = a
    <3>1. Saturated
      BY <1>6, <1>7, <1>12, <2>1
    <3>2. a \notin arriving
      BY <1>1, <1>3, <1>8 DEF JobsTyped
    <3> QED
      BY <1>3, <1>4, <1>8, <2>1, <3>1, <3>2, JobsFinite
  <2>2. CASE k # a
    <3>1. k <= arrived /\ k \notin arriving /\ k \in Nat
      BY <1>1, <1>7, <1>12, <2>2, JobsFinite DEF JobsTyped
    <3> QED
      BY <1>3, <1>4, <2>2, <3>1
  <2> QED
    BY <2>1, <2>2
<1>13. JobsTyped'
  BY <1>9, <1>10, <1>11, <1>12 DEF JobsTyped
<1> QED
  BY <1>2, <1>13, TypedParts, PTL

\* The push of enqueue_job.
LEMMA EnqueuePushTyped == \A j \in Jobs : Typed /\ EnqueuePush(j) => Typed'
<1> SUFFICES ASSUME NEW j \in Jobs, Typed, EnqueuePush(j)
             PROVE  Typed'
  OBVIOUS
<1>1. JobsTyped /\ RestTyped
  BY TypedParts
<1>2. RoutedKind \in Kinds
  BY DEF RoutedKind, Kinds
<1>3. JobsTyped'
  <2>1. /\ arriving' \subseteq arriving /\ arrived' = arrived /\ j \notin arriving' /\ j <= arrived
        /\ job' = [job EXCEPT ![j] = QueuedJob(RoutedKind)]
    BY <1>1 DEF EnqueuePush, JobsTyped
  <2>2. /\ QueuedJob(RoutedKind) \in JobRecords /\ QueuedJob(RoutedKind).status = "queued"
        /\ QueuedJob(RoutedKind).on = None
    BY <1>2, QueuedRecord
  <2> QED
    BY <1>1, <2>1, <2>2, JobSteps
<1>4. pending' \in [Classes -> Seq(Jobs)]
  <2>1. Class(j) \in Classes /\ pending[Class(j)] \in Seq(Jobs)
    BY <1>1, JobsFinite DEF RestTyped
  <2>2. Append(pending[Class(j)], j) \in Seq(Jobs)
    BY <2>1
  <2> QED
    BY <1>1, <2>1, <2>2 DEF EnqueuePush, RestTyped
<1>5. RestTyped'
  BY <1>1, <1>4 DEF RestTyped, EnqueuePush, Reported
<1> QED
  BY <1>3, <1>5, TypedParts, PTL

\* list_pending_candidates and the target records.
LEMMA SchedulerScanTyped == Typed /\ SchedulerScan => Typed'
<1> SUFFICES ASSUME Typed, SchedulerScan
             PROVE  Typed'
  OBVIOUS
<1>1. JobsTyped /\ RestTyped
  BY TypedParts
<1>2. JobsTyped'
  BY <1>1 DEF JobsTyped, SchedulerScan
<1>3. pass' \in Seq(Jobs)
  BY CandidatesTyped DEF SchedulerScan
<1>4. DOMAIN snapshot' = alive /\ \A t \in alive : snapshot'[t] = record[t]
  BY DEF SchedulerScan
<1>5. RestTyped'
  BY <1>1, <1>3, <1>4 DEF RestTyped, SchedulerScan, Reported
<1> QED
  BY <1>2, <1>5, TypedParts, PTL

\* What an end, a late end or a requeue of a job does, with r for its new record.
Moves(j, r) ==
    /\ job[j].status \in {"queued", "admitted", "done"}
    /\ r \in JobRecords /\ r.status \in {"queued", "done"} /\ (r.status = "queued" => r.on = None)
    /\ job' = [job EXCEPT ![j] = r] /\ Release(j)
    /\ broken \subseteq broken' /\ (job[j].status = "done" => job[j].on \in broken')
    /\ \/ UNCHANGED <<pending, back>>
       \/ pending' = [pending EXCEPT ![Class(j)] = Append(@, j)] /\ back' = back \cup {j}
    /\ ~calm' /\ UNCHANGED <<record, alive, arriving, arrived, pass, snapshot>>

\* mark_job_completed and mark_job_failed, in time or late, and both requeues.
LEMMA MovesAre ==
    ASSUME Typed, NEW j \in Jobs,
           \/ Finish(j)
           \/ \E t \in Targets : LateEnd(j, t) \/ ClaimMismatch(j, t)
           \/ \E t \in Targets, lives \in BOOLEAN : Requeue(j, t, lives)
    PROVE  \E r : Moves(j, r)
<1>1. job[j] \in JobRecords /\ DowngradedKind(j) \in Kinds
  BY DEF Typed, DowngradedKind, JobRecords, Kinds
<1>2. /\ EndedRecord(j) \in JobRecords /\ EndedRecord(j).status = "done"
      /\ \A n \in Nat : /\ RequeuedRecord(j, n) \in JobRecords
                        /\ RequeuedRecord(j, n).status = "queued" /\ RequeuedRecord(j, n).on = None
  <2>1. EndedRecord(j) \in JobRecords /\ EndedRecord(j).status = "done"
    BY <1>1 DEF EndedRecord, JobRecords, Statuses
  <2>2. \A n \in Nat : /\ RequeuedRecord(j, n) \in JobRecords
                       /\ RequeuedRecord(j, n).status = "queued" /\ RequeuedRecord(j, n).on = None
    BY <1>1, QueuedRecord DEF RequeuedRecord
  <2> QED
    BY <2>1, <2>2
<1>3. job[j].retries \in Nat /\ job[j].retries + 1 \in Nat
  BY <1>1 DEF JobRecords
<1>4. CASE Finish(j)
  <2>1. Moves(j, EndedRecord(j))
    BY <1>2, <1>4 DEF Moves, Finish
  <2> QED
    BY <2>1
<1>5. ASSUME NEW t \in Targets, LateEnd(j, t)
      PROVE  \E r : Moves(j, r)
  <2>1. Moves(j, EndedRecord(j))
    BY <1>2, <1>5 DEF Moves, LateEnd, Twice
  <2> QED
    BY <2>1
<1>6. ASSUME NEW t \in Targets, ClaimMismatch(j, t)
      PROVE  \E r : Moves(j, r)
  <2>1. Moves(j, RequeuedRecord(j, job[j].retries))
    BY <1>2, <1>3, <1>6 DEF Moves, ClaimMismatch, Twice
  <2> QED
    BY <2>1
<1>7. ASSUME NEW t \in Targets, NEW lives \in BOOLEAN, Requeue(j, t, lives)
      PROVE  \E r : Moves(j, r)
  <2>1. job[j].status \in {"queued", "admitted", "done"}
    BY <1>7 DEF Requeue, Lapses
  <2>2. Moves(j, RequeuedRecord(j, job[j].retries + 1))
    BY <1>2, <1>3, <1>7, <2>1 DEF Moves, Requeue, Twice
  <2> QED
    BY <2>2
<1> QED
  BY <1>4, <1>5, <1>6, <1>7

\* What the expiry of a record, and a stop after a terminal save, do: no release.
Drops(j, r) ==
    /\ job[j].status \in {"queued", "admitted"}
    /\ r \in JobRecords /\ r.status \in {"gone", "done"}
    /\ job' = [job EXCEPT ![j] = r]
    /\ broken \subseteq broken' /\ (job[j].status = "admitted" => job[j].on \in broken')
    /\ ~calm'
    /\ UNCHANGED <<pending, usage, refs, record, alive, arriving, arrived, pass, snapshot, back>>

\* These are the two steps that drop a reservation.
LEMMA DropsAre ==
    ASSUME Typed, NEW j \in Jobs, RecordExpires(j) \/ FinishCut(j)
    PROVE  \E r : Drops(j, r)
<1>1. job[j] \in JobRecords
  BY DEF Typed
<1>2. CASE RecordExpires(j)
  <2> DEFINE r == [job[j] EXCEPT !.status = "gone"]
  <2>1. r \in JobRecords /\ r.status = "gone"
    BY <1>1 DEF JobRecords, Statuses
  <2>2. Drops(j, r)
    <3>1. job' = [job EXCEPT ![j] = r]
      BY <1>2 DEF RecordExpires
    <3> HIDE DEF r
    <3> QED
      BY <1>2, <2>1, <3>1 DEF RecordExpires, Drops
  <2> QED
    BY <2>2
<1>3. CASE FinishCut(j)
  <2>1. EndedRecord(j) \in JobRecords /\ EndedRecord(j).status = "done"
    BY <1>1 DEF EndedRecord, JobRecords, Statuses
  <2>2. Drops(j, EndedRecord(j))
    BY <1>3, <2>1 DEF FinishCut, Drops
  <2> QED
    BY <2>2
<1> QED
  BY <1>2, <1>3

\* What a stop of the scheduler in try_admit_job does.
CutsJob(j, t, kind, cost, mem) ==
    /\ job[j].status = "queued"
    /\ Admits(t, kind, Class(j), Model(j), snapshot[t], usage[t])
    /\ job' = [job EXCEPT ![j].kind = kind]
    /\ pending' = [pending EXCEPT ![Class(j)] = RemoveFirst(@, j)]
    /\ usage' = [usage EXCEPT ![t] = Reserve(@, Class(j), cost, mem)]
    /\ refs' = [refs EXCEPT ![t][Model(j)] = @ + 1]
    /\ broken' = broken \cup {t} /\ pass' = <<>> /\ ~calm'
    /\ UNCHANGED <<record, alive, arriving, arrived, snapshot, back>>
Cuts == \E j \in Jobs, t \in Targets, kind \in Kinds, mem \in Nat :
           Reported(t, snapshot[t]) /\ CutsJob(j, t, kind, TokenCost[Model(j)][Kind(t)], mem)

\* The reservation is made and the record is not saved.
LEMMA CutsAre == Typed /\ ConsiderCut => Cuts
<1> SUFFICES ASSUME Typed, ConsiderCut
             PROVE  Cuts
  OBVIOUS
<1> DEFINE j == Head(pass)
           t == PickTarget(Model(j))
           kind == DowngradedKind(j)
           mem == RequiredMb(t, Model(j), snapshot[t])
<1>1. j \in Jobs /\ t \in Targets /\ kind \in Kinds /\ mem \in Nat /\ Reported(t, snapshot[t])
  BY Considered DEF ConsiderCut
<1>2. CutsJob(j, t, kind, TokenCost[Model(j)][Kind(t)], mem)
  BY DEF ConsiderCut, CutsJob, Admissible, Charge, Cost, Mem
<1> HIDE DEF j, t, kind, mem
<1> QED
  BY <1>1, <1>2 DEF Cuts

\* The kinds of steps.
LEMMA NextSteps ==
    ASSUME Typed, [Next]_vars
    PROVE  \/ EnqueueTest \/ SchedulerScan \/ Consider \/ Cuts
           \/ \E j \in Jobs : EnqueuePush(j) \/ RequeueCut(j) \/ (\E r : Drops(j, r)) \/ \E r : Moves(j, r)
           \/ \E t \in Targets : HeartbeatExpires(t) \/ TargetReturns(t)
           \/ \E t \in Targets : \E free \in FreeMb : \E loaded, busy : Heartbeat(t, free, loaded, busy)
           \/ UNCHANGED vars
BY MovesAre, DropsAre, CutsAre DEF Next

\* A job ends or is put back.
LEMMA MovesTyped == \A j \in Jobs : \A r : Typed /\ Moves(j, r) => Typed'
<1> SUFFICES ASSUME NEW j \in Jobs, NEW r, Typed, Moves(j, r)
             PROVE  Typed'
  OBVIOUS
<1>1. JobsTyped /\ RestTyped
  BY TypedParts
<1>2. j <= arrived /\ j \notin arriving
  BY <1>1 DEF JobsTyped, Moves
<1>3. JobsTyped'
  BY <1>1, <1>2, JobSteps DEF Moves
<1>4. usage' \in [Targets -> [Fields -> Nat]] /\ refs' \in [Targets -> [Models -> Nat]]
  BY ReleaseTyped DEF Moves
<1>5. pending' \in [Classes -> Seq(Jobs)]
  <2>1. Class(j) \in Classes /\ pending[Class(j)] \in Seq(Jobs) /\ pending \in [Classes -> Seq(Jobs)]
    BY JobsFinite DEF Typed
  <2>2. Append(pending[Class(j)], j) \in Seq(Jobs)
    BY <2>1
  <2> QED
    BY <2>1, <2>2 DEF Moves
<1>6. RestTyped'
  BY <1>1, <1>4, <1>5 DEF RestTyped, Reported, Moves
<1> QED
  BY <1>3, <1>6, TypedParts, PTL

\* A requeue is cut short.
LEMMA RequeueCutTyped == \A j \in Jobs : Typed /\ RequeueCut(j) => Typed'
<1> SUFFICES ASSUME NEW j \in Jobs, Typed, RequeueCut(j)
             PROVE  Typed'
  OBVIOUS
<1>1. JobsTyped /\ RestTyped
  BY TypedParts
<1>2. usage' \in [Targets -> [Fields -> Nat]] /\ refs' \in [Targets -> [Models -> Nat]]
  BY ReleaseTyped DEF RequeueCut
<1>3. JobsTyped'
  BY <1>1 DEF RequeueCut, JobsTyped
<1>4. RestTyped'
  BY <1>1, <1>2 DEF RequeueCut, RestTyped, Reported
<1> QED
  BY <1>3, <1>4, TypedParts, PTL

\* A reservation is dropped.
LEMMA DropsTyped == \A j \in Jobs : \A r : Typed /\ Drops(j, r) => Typed'
<1> SUFFICES ASSUME NEW j \in Jobs, NEW r, Typed, Drops(j, r)
             PROVE  Typed'
  OBVIOUS
<1>1. JobsTyped /\ RestTyped
  BY TypedParts
<1>2. j \notin arriving' /\ j <= arrived
  BY <1>1 DEF Drops, JobsTyped
<1>3. JobsTyped'
  BY <1>1, <1>2, JobSteps DEF Drops
<1>4. RestTyped'
  BY <1>1 DEF RestTyped, Drops, Reported
<1> QED
  BY <1>3, <1>4, TypedParts, PTL

\* A heartbeat.
LEMMA HeartbeatTyped ==
    \A t \in Targets, free \in FreeMb : \A loaded, busy :
        Typed /\ Heartbeat(t, free, loaded, busy) => Typed'
<1> SUFFICES ASSUME NEW t \in Targets, NEW free \in FreeMb, NEW loaded, NEW busy,
                    Typed, Heartbeat(t, free, loaded, busy)
             PROVE  Typed'
  OBVIOUS
<1>1. JobsTyped /\ RestTyped
  BY TypedParts
<1>2. JobsTyped'
  BY <1>1 DEF JobsTyped, Heartbeat
<1> DEFINE h == Report(t, free, loaded, busy)
<1>3. Reported(t, h)
  BY ReportIsReported
<1>4. record' = [record EXCEPT ![t] = h]
  BY DEF Heartbeat
<1> HIDE DEF h
<1>5. \A x \in Targets : record'[x] = IF x = t THEN h ELSE record[x]
  BY <1>1, <1>4 DEF RestTyped
<1>6. record' = [x \in Targets |-> record'[x]]
  BY <1>1, <1>4 DEF RestTyped
<1>7. \A x \in Targets : Reported(x, record'[x])
  BY <1>1, <1>3, <1>5 DEF RestTyped
<1>8. RestTyped'
  BY <1>1, <1>6, <1>7 DEF RestTyped, Heartbeat, Reported
<1> QED
  BY <1>2, <1>8, TypedParts, PTL

\* A target goes or comes back.
LEMMA AliveTyped ==
    \A t \in Targets : Typed /\ (HeartbeatExpires(t) \/ TargetReturns(t)) => Typed'
BY DEF Typed, HeartbeatExpires, TargetReturns, Reported

\* The three outcomes of a step of the scheduler.
Skips == UNCHANGED <<pending, job, usage, refs>>
Keeps(j, kind) ==
    job[j].status = "queued" /\ job' = [job EXCEPT ![j].kind = kind] /\ UNCHANGED <<pending, usage, refs>>
AdmittedJob(j, t, kind, cost, mem) ==
    [job[j] EXCEPT !.status = "admitted", !.kind = kind, !.on = t, !.tokens = cost, !.mem = mem]
AdmitsJob(j, t, kind, cost, mem) ==
    /\ job[j].status = "queued"
    /\ Admits(t, kind, Class(j), Model(j), snapshot[t], usage[t])
    /\ Contains(pending[Class(j)], j)
    /\ job' = [job EXCEPT ![j] = AdmittedJob(j, t, kind, cost, mem)]
    /\ pending' = [pending EXCEPT ![Class(j)] = RemoveFirst(@, j)]
    /\ usage' = [usage EXCEPT ![t] = Reserve(@, Class(j), cost, mem)]
    /\ refs' = [refs EXCEPT ![t][Model(j)] = @ + 1]

\* try_admit_job skips the job, keeps it queued or admits it.
LEMMA ConsiderOutcomes ==
    ASSUME Typed, Consider
    PROVE  \E j \in Jobs, t \in Targets, kind \in Kinds, mem \in Nat :
              /\ Reported(t, snapshot[t])
              /\ \/ Skips
                 \/ Keeps(j, kind)
                 \/ AdmitsJob(j, t, kind, TokenCost[Model(j)][Kind(t)], mem)
<1> DEFINE j == Head(pass)
           t == PickTarget(Model(j))
           kind == DowngradedKind(j)
           mem == RequiredMb(t, Model(j), snapshot[t])
<1>1. pass # <<>>
  BY DEF Consider
<1>2. j \in Jobs /\ t \in Targets /\ kind \in Kinds /\ mem \in Nat /\ Reported(t, snapshot[t])
  BY <1>1, Considered
<1>3. \/ Skips
      \/ Keeps(j, kind)
      \/ AdmitsJob(j, t, kind, TokenCost[Model(j)][Kind(t)], mem)
  BY DEF Consider, Skips, Keeps, AdmitsJob, AdmittedJob, Admissible, Charge, Cost, Mem
<1> HIDE DEF j, t, kind, mem
<1> QED
  BY <1>2, <1>3

\* try_admit_job.
LEMMA ConsiderTyped == Typed /\ Consider => Typed'
<1> SUFFICES ASSUME Typed, Consider
             PROVE  Typed'
  OBVIOUS
<1>1. JobsTyped /\ RestTyped
  BY TypedParts
<1>2. /\ pass' \in Seq(Jobs) /\ (pass' # <<>> => DOMAIN snapshot' # {})
      /\ DOMAIN snapshot' \subseteq Targets /\ \A t \in DOMAIN snapshot' : Reported(t, snapshot'[t])
      /\ record' = [t \in Targets |-> record'[t]] /\ alive' \subseteq Targets
      /\ \A t \in Targets : Reported(t, record'[t])
  BY <1>1 DEF Consider, RestTyped
<1>3. arriving' = arriving /\ arrived' = arrived
  BY DEF Consider
<1>4. PICK j \in Jobs, t \in Targets, kind \in Kinds, mem \in Nat :
              /\ Reported(t, snapshot[t])
              /\ \/ Skips
                 \/ Keeps(j, kind)
                 \/ AdmitsJob(j, t, kind, TokenCost[Model(j)][Kind(t)], mem)
  BY ConsiderOutcomes
<1>5. /\ JobsTyped'
      /\ pending' \in [Classes -> Seq(Jobs)]
      /\ usage' \in [Targets -> [Fields -> Nat]]
      /\ refs' \in [Targets -> [Models -> Nat]]
  <2>1. CASE Skips
    BY <1>1, <1>3, <2>1 DEF Skips, JobsTyped, RestTyped
  <2>2. CASE Keeps(j, kind)
    <3> DEFINE r == [job[j] EXCEPT !.kind = kind]
    <3>1. r \in JobRecords /\ r.status = "queued" /\ r.on = None /\ job' = [job EXCEPT ![j] = r]
      BY <1>1, <2>2 DEF Keeps, JobsTyped, JobRecords
    <3>2. j \notin arriving' /\ j <= arrived
      BY <1>1, <1>3, <2>2 DEF Keeps, JobsTyped
    <3> HIDE DEF r
    <3>3. JobsTyped'
      BY <1>1, <1>3, <3>1, <3>2, JobSteps
    <3> QED
      BY <1>1, <2>2, <3>3 DEF Keeps, RestTyped
  <2>3. CASE AdmitsJob(j, t, kind, TokenCost[Model(j)][Kind(t)], mem)
    <3> DEFINE cost == TokenCost[Model(j)][Kind(t)]
               r == AdmittedJob(j, t, kind, cost, mem)
    <3>1. Class(j) \in Classes /\ Model(j) \in Models /\ Kind(t) \in Kinds
      BY JobsFinite DEF Kind, Kinds
    <3>2. cost \in Nat
      BY <3>1, ProfileNat
    <3> HIDE DEF cost
    <3>3. r \in JobRecords /\ r.status = "admitted" /\ r.on = t
      BY <1>1, <3>2 DEF AdmittedJob, JobsTyped, JobRecords, Statuses
    <3>4. /\ job' = [job EXCEPT ![j] = r]
          /\ pending' = [pending EXCEPT ![Class(j)] = RemoveFirst(@, j)]
          /\ usage' = [usage EXCEPT ![t] = Reserve(@, Class(j), cost, mem)]
          /\ refs' = [refs EXCEPT ![t][Model(j)] = @ + 1]
          /\ job[j].status = "queued"
      BY <2>3 DEF AdmitsJob, cost
    <3> HIDE DEF r
    <3>5. j \notin arriving' /\ j <= arrived
      BY <1>1, <1>3, <3>4 DEF JobsTyped
    <3>6. JobsTyped'
      BY <1>1, <1>3, <3>3, <3>4, <3>5, JobSteps
    <3>7. pending' \in [Classes -> Seq(Jobs)]
      <4>1. RemoveFirst(pending[Class(j)], j) \in Seq(Jobs)
        BY <1>1, <3>1, RemoveFirstTyped DEF RestTyped
      <4> QED
        BY <1>1, <3>1, <3>4, <4>1 DEF RestTyped
    <3>8. usage' \in [Targets -> [Fields -> Nat]]
      <4>1. Reserve(usage[t], Class(j), cost, mem) \in [Fields -> Nat]
        BY <1>1, <3>1, <3>2, ReserveShape DEF RestTyped
      <4> QED
        BY <1>1, <3>4, <4>1 DEF RestTyped
    <3>9. refs' \in [Targets -> [Models -> Nat]]
      BY <1>1, <3>1, <3>4 DEF RestTyped
    <3> QED
      BY <3>6, <3>7, <3>8, <3>9
  <2> QED
    BY <1>4, <2>1, <2>2, <2>3
<1>6. RestTyped'
  BY <1>2, <1>5 DEF RestTyped, Reported
<1> QED
  BY <1>5, <1>6, TypedParts, PTL

\* try_admit_job, cut short.
LEMMA CutsTyped == Typed /\ Cuts => Typed'
<1> SUFFICES ASSUME Typed, NEW j \in Jobs, NEW t \in Targets, NEW kind \in Kinds, NEW mem \in Nat,
                    CutsJob(j, t, kind, TokenCost[Model(j)][Kind(t)], mem)
             PROVE  Typed'
  BY DEF Cuts
<1> DEFINE cost == TokenCost[Model(j)][Kind(t)]
           r == [job[j] EXCEPT !.kind = kind]
<1>1. JobsTyped /\ RestTyped
  BY TypedParts
<1>2. Class(j) \in Classes /\ Model(j) \in Models /\ Kind(t) \in Kinds
  BY JobsFinite DEF Kind, Kinds
<1>3. cost \in Nat
  BY <1>2, ProfileNat
<1>4. /\ job[j].status = "queued" /\ job' = [job EXCEPT ![j] = r]
      /\ pending' = [pending EXCEPT ![Class(j)] = RemoveFirst(@, j)]
      /\ usage' = [usage EXCEPT ![t] = Reserve(@, Class(j), cost, mem)]
      /\ refs' = [refs EXCEPT ![t][Model(j)] = @ + 1]
      /\ pass' = <<>> /\ UNCHANGED <<record, alive, arriving, arrived, snapshot>>
  BY DEF CutsJob
<1> HIDE DEF cost
<1>5. r \in JobRecords /\ r.status = "queued" /\ r.on = None
  BY <1>1, <1>4 DEF JobsTyped, JobRecords
<1> HIDE DEF r
<1>6. j \notin arriving /\ j <= arrived
  BY <1>1, <1>4 DEF JobsTyped
<1>7. JobsTyped'
  BY <1>1, <1>4, <1>5, <1>6, JobSteps
<1>8. pending' \in [Classes -> Seq(Jobs)]
  <2>1. RemoveFirst(pending[Class(j)], j) \in Seq(Jobs)
    BY <1>1, <1>2, RemoveFirstTyped DEF RestTyped
  <2> QED
    BY <1>1, <1>2, <1>4, <2>1 DEF RestTyped
<1>9. usage' \in [Targets -> [Fields -> Nat]]
  <2>1. Reserve(usage[t], Class(j), cost, mem) \in [Fields -> Nat]
    BY <1>1, <1>2, <1>3, ReserveShape DEF RestTyped
  <2> QED
    BY <1>1, <1>4, <2>1 DEF RestTyped
<1>10. refs' \in [Targets -> [Models -> Nat]]
  BY <1>1, <1>2, <1>4 DEF RestTyped
<1>11. RestTyped'
  BY <1>1, <1>4, <1>8, <1>9, <1>10 DEF RestTyped, Reported
<1> QED
  BY <1>7, <1>11, TypedParts, PTL

\* Every step.
LEMMA NextTyped == Typed /\ [Next]_vars => Typed'
<1> SUFFICES ASSUME Typed, [Next]_vars
             PROVE  Typed'
  OBVIOUS
<1>1. CASE EnqueueTest \/ SchedulerScan \/ Consider \/ Cuts
  BY <1>1, EnqueueTestTyped, SchedulerScanTyped, ConsiderTyped, CutsTyped
<1>2. CASE \E j \in Jobs : EnqueuePush(j) \/ RequeueCut(j) \/ (\E r : Drops(j, r)) \/ \E r : Moves(j, r)
  BY <1>2, EnqueuePushTyped, RequeueCutTyped, DropsTyped, MovesTyped
<1>3. CASE \E t \in Targets : HeartbeatExpires(t) \/ TargetReturns(t)
  BY <1>3, AliveTyped
<1>4. CASE \E t \in Targets : \E free \in FreeMb : \E loaded, busy : Heartbeat(t, free, loaded, busy)
  BY <1>4, HeartbeatTyped
<1>5. CASE UNCHANGED vars
  BY <1>5 DEF vars, Typed, Reported
<1> QED
  BY <1>1, <1>2, <1>3, <1>4, <1>5, NextSteps

\* The types are an invariant.
LEMMA StaysTyped == Spec => []Typed
<1>1. Init => Typed
  BY InitTyped
<1>2. Typed /\ [Next]_vars => Typed'
  BY NextTyped
<1> QED
  BY <1>1, <1>2, PTL DEF Spec

------------------------------------------------------------------------------
(* The ledger of a target: the counters u and r of a target against the set A  *)
(* of the jobs on it, their tokens g and their memory w.                       *)

Books(u, r, g, w, A) ==
    /\ \A c \in Classes : u[c] = SumFunctionOnSet(g, {j \in A : Class(j) = c})
    /\ u.tokens = SumFunctionOnSet(g, A)
    /\ u.mem = SumFunctionOnSet(w, A)
    /\ u.active = Cardinality(A)
    /\ \A m \in Models : r[m] = Cardinality({j \in A : Model(j) = m})

Balanced == \A t \in Targets \ broken : Books(usage[t], refs[t], Tokens, Memory, On(t))

\* LedgerExact, target by target.
LEMMA LedgerIsBooks == LedgerExact <=> Balanced
BY DEF LedgerExact, Balanced, Books

\* A sum grows by the value of a member that joins and shrinks by the value of
\* one that leaves, whatever happens to the values of the others.
LEMMA SumJoin ==
    ASSUME NEW U, IsFiniteSet(U), NEW g \in [U -> Nat], NEW f \in [U -> Nat],
           NEW A \in SUBSET U, NEW j \in U \ A, \A x \in A : f[x] = g[x]
    PROVE  SumFunctionOnSet(f, A \cup {j}) = SumFunctionOnSet(g, A) + f[j]
<1>1. SumFunctionOnSet(f, A) = SumFunctionOnSet(g, A)
  BY SumAgree
<1>2. SumFunctionOnSet(g, A) \in Nat /\ f[j] \in Nat
  BY SumLaws
<1>3. SumFunctionOnSet(f, A \cup {j}) = f[j] + SumFunctionOnSet(f, A)
  BY SumWith
<1> DEFINE total == SumFunctionOnSet(g, A)
           mine == f[j]
<1>4. SumFunctionOnSet(f, A \cup {j}) = mine + total /\ total \in Nat /\ mine \in Nat
  BY <1>1, <1>2, <1>3
<1> HIDE DEF total, mine
<1>5. mine + total = total + mine
  BY <1>4
<1> QED
  BY <1>4, <1>5 DEF total, mine

\* The sum without a member, as _release_reserved_capacity computes it: the
\* clamp at zero never bites.
LEMMA SumLeave ==
    ASSUME NEW U, IsFiniteSet(U), NEW g \in [U -> Nat], NEW f \in [U -> Nat],
           NEW A \in SUBSET U, NEW j \in A, \A x \in A \ {j} : f[x] = g[x]
    PROVE  SumFunctionOnSet(f, A \ {j}) = AtLeast(0, SumFunctionOnSet(g, A) - g[j])
<1> DEFINE B == A \ {j}
<1>0. B \in SUBSET U /\ \A x \in B : f[x] = g[x]
  OBVIOUS
<1>1. SumFunctionOnSet(f, B) = SumFunctionOnSet(g, B)
  <2> HIDE DEF B
  <2> QED
    BY <1>0, SumAgree
<1>2. SumFunctionOnSet(g, A) = g[j] + SumFunctionOnSet(g, A \ {j})
  BY SumLaws
<1>3. SumFunctionOnSet(g, B) \in Nat /\ g[j] \in Nat
  BY <1>0, SumLaws
<1> DEFINE rest == SumFunctionOnSet(g, B)
           total == SumFunctionOnSet(g, A)
           mine == g[j]
<1>4. total = mine + rest /\ rest \in Nat /\ mine \in Nat
  BY <1>2, <1>3
<1> HIDE DEF rest, total, mine
<1>5. rest = AtLeast(0, total - mine)
  BY <1>4 DEF AtLeast
<1> QED
  BY <1>1, <1>5 DEF rest, total, mine

\* The number of jobs with one more ...
LEMMA CountJoin ==
    ASSUME NEW U, IsFiniteSet(U), NEW A \in SUBSET U, NEW j \in U \ A
    PROVE  Cardinality(A \cup {j}) = Cardinality(A) + 1
<1>1. IsFiniteSet(A) /\ j \notin A
  BY FS_Subset
<1> QED
  BY <1>1, FS_AddElement

\* ... and with one less.
LEMMA CountLeave ==
    ASSUME NEW U, IsFiniteSet(U), NEW A \in SUBSET U, NEW j \in A
    PROVE  Cardinality(A \ {j}) = AtLeast(0, Cardinality(A) - 1)
<1>1. /\ Cardinality(A) \in Nat /\ Cardinality(A \ {j}) \in Nat
      /\ Cardinality(A \ {j}) = Cardinality(A) - 1
  BY Smaller
<1> DEFINE a == Cardinality(A)
           b == Cardinality(A \ {j})
<1> HIDE DEF a, b
<1>2. b = AtLeast(0, a - 1)
  BY <1>1 DEF AtLeast, a, b
<1> QED
  BY <1>2 DEF a, b

\* The books do not see jobs elsewhere.
LEMMA BooksApart ==
    ASSUME NEW g \in [Jobs -> Nat], NEW w \in [Jobs -> Nat], NEW A \in SUBSET Jobs,
           NEW f \in [Jobs -> Nat], NEW x \in [Jobs -> Nat],
           \A k \in A : f[k] = g[k] /\ x[k] = w[k],
           NEW u, NEW r, Books(u, r, g, w, A)
    PROVE  Books(u, r, f, x, A)
<1>0. IsFiniteSet(Jobs)
  BY JobsFinite
<1>1. ASSUME NEW c \in Classes
      PROVE  u[c] = SumFunctionOnSet(f, {k \in A : Class(k) = c})
  <2> DEFINE B == {k \in A : Class(k) = c}
  <2>1. B \in SUBSET Jobs /\ \A k \in B : f[k] = g[k]
    OBVIOUS
  <2>2. u[c] = SumFunctionOnSet(g, B)
    BY DEF Books
  <2> HIDE DEF B
  <2>3. SumFunctionOnSet(f, B) = SumFunctionOnSet(g, B)
    BY <1>0, <2>1, SumAgree
  <2>4. u[c] = SumFunctionOnSet(f, B)
    BY <2>2, <2>3
  <2> QED
    BY <2>4 DEF B
<1>2. /\ SumFunctionOnSet(f, A) = SumFunctionOnSet(g, A)
      /\ SumFunctionOnSet(x, A) = SumFunctionOnSet(w, A)
  BY <1>0, SumAgree
<1> QED
  BY <1>1, <1>2 DEF Books

\* The books stay exact when a job is admitted ...
LEMMA BooksJoin ==
    ASSUME NEW g \in [Jobs -> Nat], NEW w \in [Jobs -> Nat], NEW A \in SUBSET Jobs,
           NEW f \in [Jobs -> Nat], NEW x \in [Jobs -> Nat], NEW j \in Jobs \ A,
           \A k \in A : f[k] = g[k] /\ x[k] = w[k],
           NEW u \in [Fields -> Nat], NEW r \in [Models -> Nat], Books(u, r, g, w, A)
    PROVE  Books(Reserve(u, Class(j), f[j], x[j]), [r EXCEPT ![Model(j)] = @ + 1],
                 f, x, A \cup {j})
<1> DEFINE v == Reserve(u, Class(j), f[j], x[j])
           q == [r EXCEPT ![Model(j)] = @ + 1]
<1>0. IsFiniteSet(Jobs)
  BY JobsFinite
<1>1. Class(j) \in Classes /\ Model(j) \in Models /\ f[j] \in Nat /\ x[j] \in Nat
  BY JobsFinite
<1>2. /\ v.tokens = u.tokens + f[j] /\ v.mem = u.mem + x[j] /\ v.active = u.active + 1
      /\ \A d \in Classes : v[d] = IF d = Class(j) THEN u[d] + f[j] ELSE u[d]
  <2> DEFINE n == f[j]
             m == x[j]
             c == Class(j)
  <2>1. n \in Nat /\ m \in Nat /\ c \in Classes
    BY <1>1
  <2> HIDE DEF n, m, c
  <2>2. Reserved(u, Reserve(u, c, n, m), c, n, m)
    BY <2>1, ReserveShape
  <2> QED
    BY <2>2 DEF n, m, c, Reserved
<1>3. ASSUME NEW c \in Classes
      PROVE  v[c] = SumFunctionOnSet(f, {k \in A \cup {j} : Class(k) = c})
  <2> DEFINE B == {k \in A : Class(k) = c}
             C == {k \in A \cup {j} : Class(k) = c}
  <2>1. /\ B \in SUBSET Jobs /\ j \in Jobs \ B /\ \A k \in B : f[k] = g[k]
        /\ C = IF c = Class(j) THEN B \cup {j} ELSE B
    OBVIOUS
  <2>2. u[c] = SumFunctionOnSet(g, B)
    BY DEF Books
  <2> HIDE DEF B, C
  <2>3. SumFunctionOnSet(f, B) = SumFunctionOnSet(g, B)
    BY <1>0, <2>1, SumAgree
  <2>4. SumFunctionOnSet(f, B \cup {j}) = SumFunctionOnSet(g, B) + f[j]
    BY <1>0, <2>1, SumJoin
  <2> HIDE DEF v
  <2>5. v[c] = SumFunctionOnSet(f, C)
    BY <1>2, <2>1, <2>2, <2>3, <2>4
  <2> QED
    BY <2>5 DEF C
<1>4. SumFunctionOnSet(f, A \cup {j}) = SumFunctionOnSet(g, A) + f[j]
  BY <1>0, SumJoin
<1>5. SumFunctionOnSet(x, A \cup {j}) = SumFunctionOnSet(w, A) + x[j]
  BY <1>0, SumJoin
<1>6. Cardinality(A \cup {j}) = Cardinality(A) + 1
  BY <1>0, CountJoin
<1>7. ASSUME NEW y \in Models
      PROVE  q[y] = Cardinality({k \in A \cup {j} : Model(k) = y})
  <2> DEFINE B == {k \in A : Model(k) = y}
             C == {k \in A \cup {j} : Model(k) = y}
  <2>1. B \in SUBSET Jobs /\ j \in Jobs \ B /\ C = IF y = Model(j) THEN B \cup {j} ELSE B
    OBVIOUS
  <2>2. r[y] = Cardinality(B)
    BY DEF Books
  <2>3. q[y] = IF y = Model(j) THEN r[y] + 1 ELSE r[y]
    OBVIOUS
  <2> HIDE DEF B, C, q
  <2>4. Cardinality(B \cup {j}) = Cardinality(B) + 1
    BY <1>0, <2>1, CountJoin
  <2>5. q[y] = Cardinality(C)
    BY <2>1, <2>2, <2>3, <2>4
  <2> QED
    BY <2>5 DEF C
<1> HIDE DEF v, q
<1>8. v.tokens = SumFunctionOnSet(f, A \cup {j}) /\ v.mem = SumFunctionOnSet(x, A \cup {j})
      /\ v.active = Cardinality(A \cup {j})
  BY <1>2, <1>4, <1>5, <1>6 DEF Books
<1>9. Books(v, q, f, x, A \cup {j})
  BY <1>3, <1>7, <1>8 DEF Books
<1> QED
  BY <1>9 DEF v, q

\* ... and when it leaves.
LEMMA BooksLeave ==
    ASSUME NEW g \in [Jobs -> Nat], NEW w \in [Jobs -> Nat], NEW A \in SUBSET Jobs,
           NEW f \in [Jobs -> Nat], NEW x \in [Jobs -> Nat], NEW j \in A,
           \A k \in A \ {j} : f[k] = g[k] /\ x[k] = w[k],
           NEW u \in [Fields -> Nat], NEW r \in [Models -> Nat], Books(u, r, g, w, A)
    PROVE  Books(GiveBack(u, Class(j), g[j], w[j]), [r EXCEPT ![Model(j)] = AtLeast(0, @ - 1)],
                 f, x, A \ {j})
<1> DEFINE v == GiveBack(u, Class(j), g[j], w[j])
           q == [r EXCEPT ![Model(j)] = AtLeast(0, @ - 1)]
<1>0. IsFiniteSet(Jobs)
  BY JobsFinite
<1>1. Class(j) \in Classes /\ Model(j) \in Models /\ g[j] \in Nat /\ w[j] \in Nat
  BY JobsFinite
<1>2. /\ v.tokens = AtLeast(0, u.tokens - g[j]) /\ v.mem = AtLeast(0, u.mem - w[j])
      /\ v.active = AtLeast(0, u.active - 1)
      /\ \A d \in Classes : v[d] = IF d = Class(j) THEN AtLeast(0, u[d] - g[j]) ELSE u[d]
  <2>1. GivenBack(u, v, Class(j), g[j], w[j])
    BY <1>1, GiveBackShape
  <2> HIDE DEF v
  <2> QED
    BY <2>1 DEF GivenBack
<1>3. ASSUME NEW c \in Classes
      PROVE  v[c] = SumFunctionOnSet(f, {k \in A \ {j} : Class(k) = c})
  <2> DEFINE B == {k \in A : Class(k) = c}
             C == {k \in A \ {j} : Class(k) = c}
  <2>1. /\ B \in SUBSET Jobs /\ (j \in B <=> c = Class(j)) /\ C = B \ {j}
        /\ \A k \in B \ {j} : f[k] = g[k]
    OBVIOUS
  <2>2. u[c] = SumFunctionOnSet(g, B)
    BY DEF Books
  <2> HIDE DEF B, C, v
  <2>3. CASE c = Class(j)
    <3>1. SumFunctionOnSet(f, B \ {j}) = AtLeast(0, SumFunctionOnSet(g, B) - g[j])
      BY <1>0, <2>1, <2>3, SumLeave
    <3>2. v[c] = SumFunctionOnSet(f, C)
      BY <1>2, <2>1, <2>2, <2>3, <3>1
    <3> QED
      BY <3>2 DEF C
  <2>4. CASE c # Class(j)
    <3>1. C = B /\ \A k \in B : f[k] = g[k]
      BY <2>1, <2>4
    <3>2. SumFunctionOnSet(f, B) = SumFunctionOnSet(g, B)
      BY <1>0, <2>1, <3>1, SumAgree
    <3>3. v[c] = SumFunctionOnSet(f, C)
      BY <1>2, <2>2, <2>4, <3>1, <3>2
    <3> QED
      BY <3>3 DEF C
  <2> QED
    BY <2>3, <2>4
<1>4. SumFunctionOnSet(f, A \ {j}) = AtLeast(0, SumFunctionOnSet(g, A) - g[j])
  BY <1>0, SumLeave
<1>5. SumFunctionOnSet(x, A \ {j}) = AtLeast(0, SumFunctionOnSet(w, A) - w[j])
  BY <1>0, SumLeave
<1>6. Cardinality(A \ {j}) = AtLeast(0, Cardinality(A) - 1)
  BY <1>0, CountLeave
<1>7. ASSUME NEW y \in Models
      PROVE  q[y] = Cardinality({k \in A \ {j} : Model(k) = y})
  <2> DEFINE B == {k \in A : Model(k) = y}
             C == {k \in A \ {j} : Model(k) = y}
  <2>1. B \in SUBSET Jobs /\ (j \in B <=> y = Model(j)) /\ C = B \ {j}
    OBVIOUS
  <2>2. r[y] = Cardinality(B)
    BY DEF Books
  <2>3. q[y] = IF y = Model(j) THEN AtLeast(0, r[y] - 1) ELSE r[y]
    OBVIOUS
  <2> HIDE DEF B, C, q
  <2>4. y = Model(j) => Cardinality(B \ {j}) = AtLeast(0, Cardinality(B) - 1)
    BY <1>0, <2>1, CountLeave
  <2>5. y # Model(j) => C = B
    BY <2>1
  <2>6. q[y] = Cardinality(C)
    BY <2>1, <2>2, <2>3, <2>4, <2>5
  <2> QED
    BY <2>6 DEF C
<1> HIDE DEF v, q
<1>8. v.tokens = SumFunctionOnSet(f, A \ {j}) /\ v.mem = SumFunctionOnSet(x, A \ {j})
      /\ v.active = Cardinality(A \ {j})
  BY <1>2, <1>4, <1>5, <1>6 DEF Books
<1>9. Books(v, q, f, x, A \ {j})
  BY <1>3, <1>7, <1>8 DEF Books
<1> QED
  BY <1>9 DEF v, q

\* The numbers in the job records are naturals.
Numbers == Tokens \in [Jobs -> Nat] /\ Memory \in [Jobs -> Nat]
\* So the functions that the ledger sums are functions to the naturals.
LEMMA TokensTyped == JobsTyped => Numbers
BY DEF Numbers, JobsTyped, JobRecords, Tokens, Memory

\* A step that moves no reservation keeps the ledger.
LEMMA LedgerRests ==
    ASSUME Typed, Typed', LedgerExact, broken \subseteq broken',
           \A t \in Targets \ broken' : usage'[t] = usage[t] /\ refs'[t] = refs[t],
           \A k \in Jobs : \/ job'[k] = job[k]
                           \/ job'[k].status # "admitted" /\ job[k].on \in broken'
                           \/ job[k].status # "admitted" /\ job'[k].status # "admitted"
                           \/ /\ job'[k].status = job[k].status /\ job'[k].on = job[k].on
                              /\ job'[k].tokens = job[k].tokens /\ job'[k].mem = job[k].mem
    PROVE  LedgerExact'
<1>1. JobsTyped /\ JobsTyped'
  BY TypedParts, PTL
<1>2. /\ Tokens \in [Jobs -> Nat] /\ Memory \in [Jobs -> Nat]
      /\ Tokens' \in [Jobs -> Nat] /\ Memory' \in [Jobs -> Nat]
  <2>1. Numbers /\ Numbers'
    BY <1>1, TokensTyped, PTL
  <2> QED
    BY <2>1 DEF Numbers
<1>3. ASSUME NEW t \in Targets \ broken'
      PROVE  Books(usage'[t], refs'[t], Tokens', Memory', On(t)')
  <2>1. On(t)' = On(t)
    BY DEF On
  <2>2. \A k \in On(t) : Tokens'[k] = Tokens[k] /\ Memory'[k] = Memory[k]
    BY DEF On, Tokens, Memory
  <2>3. Books(usage[t], refs[t], Tokens, Memory, On(t))
    BY LedgerIsBooks DEF Balanced
  <2> DEFINE A == On(t)
             g == Tokens
             w == Memory
             f == Tokens'
             x == Memory'
  <2>4. /\ A \in SUBSET Jobs /\ g \in [Jobs -> Nat] /\ w \in [Jobs -> Nat]
        /\ f \in [Jobs -> Nat] /\ x \in [Jobs -> Nat]
        /\ \A k \in A : f[k] = g[k] /\ x[k] = w[k]
        /\ Books(usage[t], refs[t], g, w, A)
    BY <1>2, <2>2, <2>3 DEF On
  <2> HIDE DEF A, g, w, f, x
  <2>5. Books(usage[t], refs[t], f, x, A)
    BY <2>4, BooksApart
  <2> QED
    BY <1>3, <2>1, <2>5 DEF A, f, x
<1>4. Balanced'
  BY <1>3 DEF Balanced
<1> QED
  BY <1>4, LedgerIsBooks, PTL

\* An admission keeps the ledger.
LEMMA LedgerAdmits ==
    ASSUME Typed, Typed', LedgerExact, NEW j \in Jobs, NEW t \in Targets, NEW kind \in Kinds,
           NEW cost \in Nat, NEW mem \in Nat, AdmitsJob(j, t, kind, cost, mem), broken' = broken
    PROVE  LedgerExact'
<1>1. JobsTyped /\ JobsTyped' /\ RestTyped
  BY TypedParts, PTL
<1>2. /\ Tokens \in [Jobs -> Nat] /\ Memory \in [Jobs -> Nat]
      /\ Tokens' \in [Jobs -> Nat] /\ Memory' \in [Jobs -> Nat]
  <2>1. Numbers /\ Numbers'
    BY <1>1, TokensTyped, PTL
  <2> QED
    BY <2>1 DEF Numbers
<1> DEFINE r == AdmittedJob(j, t, kind, cost, mem)
<1>3. r.status = "admitted" /\ r.on = t /\ r.tokens = cost /\ r.mem = mem
  BY <1>1 DEF AdmittedJob, JobsTyped, JobRecords
<1> HIDE DEF r
<1>4. \A k \in Jobs : job'[k] = IF k = j THEN r ELSE job[k]
  BY <1>1 DEF AdmitsJob, JobsTyped, r
<1>5. ASSUME NEW y \in Targets \ broken'
      PROVE  Books(usage'[y], refs'[y], Tokens', Memory', On(y)')
  <2> DEFINE A == On(y)
             g == Tokens
             w == Memory
             f == Tokens'
             x == Memory'
             u == usage[y]
             q == refs[y]
  <2>1. A \in SUBSET Jobs /\ j \notin A
    BY DEF On, AdmitsJob
  <2>2. \A k \in A : f[k] = g[k] /\ x[k] = w[k]
    BY <1>4, <2>1 DEF Tokens, Memory
  <2>3. On(y)' = IF y = t THEN A \cup {j} ELSE A
    BY <1>3, <1>4, <2>1 DEF On
  <2>4. Books(u, q, g, w, A)
    BY LedgerIsBooks DEF Balanced
  <2>5. /\ g \in [Jobs -> Nat] /\ w \in [Jobs -> Nat]
        /\ f \in [Jobs -> Nat] /\ x \in [Jobs -> Nat]
        /\ u \in [Fields -> Nat] /\ q \in [Models -> Nat]
    BY <1>1, <1>2 DEF RestTyped
  <2>6. f[j] = cost /\ x[j] = mem
    BY <1>3, <1>4 DEF Tokens, Memory
  <2>7. CASE y = t
    <3>1. /\ usage'[y] = Reserve(u, Class(j), cost, mem)
          /\ refs'[y] = [q EXCEPT ![Model(j)] = @ + 1]
      BY <1>1, <2>7 DEF AdmitsJob, RestTyped
    <3> HIDE DEF A, g, w, f, x, u, q
    <3>2. Books(Reserve(u, Class(j), f[j], x[j]), [q EXCEPT ![Model(j)] = @ + 1], f, x, A \cup {j})
      BY <2>1, <2>2, <2>4, <2>5, BooksJoin
    <3>3. Books(usage'[y], refs'[y], f, x, A \cup {j})
      BY <2>6, <3>1, <3>2
    <3> QED
      BY <2>3, <2>7, <3>3 DEF f, x
  <2>8. CASE y # t
    <3>1. usage'[y] = u /\ refs'[y] = q
      BY <1>1, <2>8 DEF AdmitsJob, RestTyped
    <3> HIDE DEF A, g, w, f, x, u, q
    <3>2. Books(u, q, f, x, A)
      BY <2>1, <2>2, <2>4, <2>5, BooksApart
    <3>3. Books(usage'[y], refs'[y], f, x, A)
      BY <3>1, <3>2
    <3> QED
      BY <2>3, <2>8, <3>3 DEF f, x
  <2> QED
    BY <2>7, <2>8
<1>6. Balanced'
  BY <1>5 DEF Balanced
<1> QED
  BY <1>6, LedgerIsBooks, PTL

\* The end or the requeue of an admitted job keeps the ledger.
LEMMA LedgerReleases ==
    ASSUME Typed, Typed', LedgerExact, NEW j \in Jobs, job[j].status = "admitted", Release(j),
           NEW r, r.status # "admitted", job' = [job EXCEPT ![j] = r], broken \subseteq broken'
    PROVE  LedgerExact'
<1>1. JobsTyped /\ JobsTyped' /\ RestTyped
  BY TypedParts, PTL
<1>2. /\ Tokens \in [Jobs -> Nat] /\ Memory \in [Jobs -> Nat]
      /\ Tokens' \in [Jobs -> Nat] /\ Memory' \in [Jobs -> Nat]
  <2>1. Numbers /\ Numbers'
    BY <1>1, TokensTyped, PTL
  <2> QED
    BY <2>1 DEF Numbers
<1> DEFINE t == job[j].on
<1>3. t \in Targets /\ t # None
  BY <1>1, AdmissionAssumption DEF JobsTyped
<1>4. \A k \in Jobs : job'[k] = IF k = j THEN r ELSE job[k]
  BY <1>1 DEF JobsTyped
<1>5. ASSUME NEW y \in Targets \ broken'
      PROVE  Books(usage'[y], refs'[y], Tokens', Memory', On(y)')
  <2> DEFINE A == On(y)
             g == Tokens
             w == Memory
             f == Tokens'
             x == Memory'
             u == usage[y]
             q == refs[y]
  <2>1. A \in SUBSET Jobs /\ (j \in A <=> y = t)
    BY DEF On
  <2>2. \A k \in A \ {j} : f[k] = g[k] /\ x[k] = w[k]
    BY <1>4, <2>1 DEF Tokens, Memory
  <2>3. On(y)' = A \ {j}
    BY <1>4 DEF On
  <2>4. Books(u, q, g, w, A)
    BY LedgerIsBooks DEF Balanced
  <2>5. /\ g \in [Jobs -> Nat] /\ w \in [Jobs -> Nat]
        /\ f \in [Jobs -> Nat] /\ x \in [Jobs -> Nat]
        /\ u \in [Fields -> Nat] /\ q \in [Models -> Nat]
    BY <1>1, <1>2 DEF RestTyped
  <2>6. g[j] = job[j].tokens /\ w[j] = job[j].mem
    BY DEF Tokens, Memory
  <2>7. CASE y = t
    <3>1. /\ usage'[y] = GiveBack(u, Class(j), job[j].tokens, job[j].mem)
          /\ refs'[y] = [q EXCEPT ![Model(j)] = AtLeast(0, @ - 1)]
      BY <1>1, <1>3, <2>7 DEF Release, RestTyped
    <3>2. j \in A
      BY <2>1, <2>7
    <3> HIDE DEF A, g, w, f, x, u, q
    <3>3. Books(GiveBack(u, Class(j), g[j], w[j]), [q EXCEPT ![Model(j)] = AtLeast(0, @ - 1)],
                f, x, A \ {j})
      BY <2>1, <2>2, <2>4, <2>5, <3>2, BooksLeave
    <3>4. Books(usage'[y], refs'[y], f, x, A \ {j})
      BY <2>6, <3>1, <3>3
    <3> QED
      BY <2>3, <3>4 DEF f, x
  <2>8. CASE y # t
    <3>1. usage'[y] = u /\ refs'[y] = q
      BY <1>1, <1>3, <2>8 DEF Release, RestTyped
    <3>2. A \ {j} = A
      BY <2>1, <2>8
    <3> HIDE DEF A, g, w, f, x, u, q
    <3>3. Books(u, q, f, x, A)
      BY <2>1, <2>2, <2>4, <2>5, <3>2, BooksApart
    <3>4. Books(usage'[y], refs'[y], f, x, A)
      BY <3>1, <3>3
    <3> QED
      BY <2>3, <3>2, <3>4 DEF f, x
  <2> QED
    BY <2>7, <2>8
<1>6. Balanced'
  BY <1>5 DEF Balanced
<1> QED
  BY <1>6, LedgerIsBooks, PTL

\* What a second release takes is taken on a target that the ledger leaves out,
\* and a waiting job has nothing to release.
LEMMA LedgerMoves ==
    ASSUME Typed, Typed', LedgerExact, NEW j \in Jobs, NEW r, Moves(j, r)
    PROVE  LedgerExact'
<1>1. CASE job[j].status = "admitted"
  BY <1>1, LedgerReleases DEF Moves
<1>2. CASE job[j].status # "admitted"
  <2>1. /\ usage \in [Targets -> [Fields -> Nat]] /\ refs \in [Targets -> [Models -> Nat]]
        /\ job \in [Jobs -> JobRecords]
    BY DEF Typed
  <2>2. job[j].on = None \/ job[j].on \in broken'
    BY <1>2 DEF Moves, Typed
  <2>3. \A t \in Targets \ broken' : usage'[t] = usage[t] /\ refs'[t] = refs[t]
    <3>1. CASE job[j].on = None
      BY <3>1 DEF Moves, Release
    <3>2. CASE job[j].on # None
      BY <2>1, <2>2, <3>2 DEF Moves, Release
    <3> QED
      BY <3>1, <3>2
  <2>4. \A k \in Jobs : \/ job'[k] = job[k]
                        \/ job[k].status # "admitted" /\ job'[k].status # "admitted"
    BY <1>2, <2>1 DEF Moves
  <2> QED
    BY <2>3, <2>4, LedgerRests DEF Moves
<1> QED
  BY <1>1, <1>2

\* Every step keeps the ledger.
LEMMA NextLedger == Typed /\ LedgerExact /\ [Next]_vars => LedgerExact'
<1> SUFFICES ASSUME Typed, LedgerExact, [Next]_vars
             PROVE  LedgerExact'
  OBVIOUS
<1>0. Typed' /\ job \in [Jobs -> JobRecords]
  BY NextTyped DEF Typed
<1>1. CASE EnqueueTest
  <2>1. job' = [job EXCEPT ![arrived'].status = IF Saturated THEN "rejected" ELSE "none"]
        /\ UNCHANGED <<usage, refs, broken>>
    BY <1>1 DEF EnqueueTest
  <2>2. arrived' \in Jobs /\ job[arrived'].status # "admitted"
    <3>1. /\ arrived' = arrived + 1 /\ arrived < Len(Submissions) /\ arrived \in Nat
          /\ \A k \in Jobs : job[k].status # "none" => k <= arrived
      BY <1>1, JobsFinite DEF EnqueueTest, Typed
    <3>2. arrived' \in Jobs
      BY <3>1, JobsFinite
    <3>3. ~(arrived' <= arrived)
      BY <3>1
    <3> QED
      BY <3>1, <3>2, <3>3
  <2>3. \A k \in Jobs : \/ job'[k] = job[k]
                        \/ job[k].status # "admitted" /\ job'[k].status # "admitted"
    <3>1. job'[arrived'].status # "admitted"
      BY <1>0, <2>1, <2>2 DEF JobRecords
    <3> QED
      BY <1>0, <2>1, <2>2, <3>1
  <2> QED
    BY <1>0, <2>1, <2>3, LedgerRests
<1>2. CASE SchedulerScan
  BY <1>0, <1>2, LedgerRests DEF SchedulerScan
<1>3. CASE Consider
  <2>1. PICK j \in Jobs, t \in Targets, kind \in Kinds, mem \in Nat :
              /\ Reported(t, snapshot[t])
              /\ \/ Skips
                 \/ Keeps(j, kind)
                 \/ AdmitsJob(j, t, kind, TokenCost[Model(j)][Kind(t)], mem)
    BY <1>3, ConsiderOutcomes
  <2>0. broken' = broken
    BY <1>3 DEF Consider
  <2>2. CASE Skips
    BY <1>0, <2>0, <2>2, LedgerRests DEF Skips
  <2>3. CASE Keeps(j, kind)
    <3>1. \A k \in Jobs : \/ job'[k] = job[k]
                          \/ /\ job'[k].status = job[k].status /\ job'[k].on = job[k].on
                             /\ job'[k].tokens = job[k].tokens /\ job'[k].mem = job[k].mem
      BY <1>0, <2>3 DEF Keeps, JobRecords
    <3> QED
      BY <1>0, <2>0, <2>3, <3>1, LedgerRests DEF Keeps
  <2>4. CASE AdmitsJob(j, t, kind, TokenCost[Model(j)][Kind(t)], mem)
    <3>1. Model(j) \in Models /\ Kind(t) \in Kinds
      BY JobsFinite DEF Kind, Kinds
    <3>2. TokenCost[Model(j)][Kind(t)] \in Nat
      BY <3>1, ProfileNat
    <3> QED
      BY <1>0, <2>0, <2>4, <3>2, LedgerAdmits
  <2> QED
    BY <2>1, <2>2, <2>3, <2>4
<1>4. ASSUME NEW j \in Jobs, EnqueuePush(j)
      PROVE  LedgerExact'
  <2>1. job' = [job EXCEPT ![j] = QueuedJob(RoutedKind)] /\ UNCHANGED <<usage, refs, broken>>
        /\ j \in arriving
    BY <1>4 DEF EnqueuePush
  <2>2. QueuedJob(RoutedKind).status # "admitted" /\ job[j].status # "admitted"
    BY <2>1 DEF QueuedJob, NewJob, Typed
  <2>3. \A k \in Jobs : \/ job'[k] = job[k]
                        \/ job[k].status # "admitted" /\ job'[k].status # "admitted"
    BY <1>0, <2>1, <2>2
  <2> QED
    BY <1>0, <2>1, <2>3, LedgerRests
<1>5. ASSUME NEW j \in Jobs, NEW r, Moves(j, r)
      PROVE  LedgerExact'
  BY <1>0, <1>5, LedgerMoves
<1>6. CASE Cuts
  <2>1. PICK j \in Jobs, t \in Targets, kind \in Kinds, mem \in Nat :
               CutsJob(j, t, kind, TokenCost[Model(j)][Kind(t)], mem)
    BY <1>6 DEF Cuts
  <2>2. /\ usage \in [Targets -> [Fields -> Nat]] /\ refs \in [Targets -> [Models -> Nat]]
    BY DEF Typed
  <2>3. broken' = broken \cup {t} /\ \A y \in Targets \ {t} : usage'[y] = usage[y] /\ refs'[y] = refs[y]
    BY <2>1, <2>2 DEF CutsJob
  <2>4. job' = [job EXCEPT ![j] = [job[j] EXCEPT !.kind = kind]] /\ job[j].status = "queued"
    BY <2>1 DEF CutsJob
  <2>5. [job[j] EXCEPT !.kind = kind].status = "queued"
    BY <1>0, <2>4 DEF JobRecords
  <2>6. \A k \in Jobs : \/ job'[k] = job[k]
                        \/ job[k].status # "admitted" /\ job'[k].status # "admitted"
    BY <1>0, <2>4, <2>5
  <2> QED
    BY <1>0, <2>3, <2>6, LedgerRests
<1>7. ASSUME NEW j \in Jobs, NEW r, Drops(j, r)
      PROVE  LedgerExact'
  <2>1. \A k \in Jobs : job'[k] = IF k = j THEN r ELSE job[k]
    BY <1>0, <1>7 DEF Drops
  <2>2. \A k \in Jobs : \/ job'[k] = job[k]
                        \/ job[k].status # "admitted" /\ job'[k].status # "admitted"
                        \/ job'[k].status # "admitted" /\ job[k].on \in broken'
    BY <1>7, <2>1 DEF Drops
  <2> QED
    BY <1>0, <1>7, <2>2, LedgerRests DEF Drops
<1>11. ASSUME NEW j \in Jobs, RequeueCut(j)
       PROVE  LedgerExact'
  <2>1. /\ usage \in [Targets -> [Fields -> Nat]] /\ refs \in [Targets -> [Models -> Nat]]
        /\ job[j].on \in broken' /\ job[j].on \in Targets /\ broken \subseteq broken'
    BY <1>11 DEF Typed, RequeueCut
  <2>2. \A t \in Targets \ broken' : usage'[t] = usage[t] /\ refs'[t] = refs[t]
    BY <1>11, <2>1 DEF RequeueCut, Release
  <2> QED
    BY <1>0, <1>11, <2>1, <2>2, LedgerRests DEF RequeueCut
<1>8. ASSUME NEW t \in Targets, HeartbeatExpires(t) \/ TargetReturns(t)
      PROVE  LedgerExact'
  BY <1>0, <1>8, LedgerRests DEF HeartbeatExpires, TargetReturns
<1>9. ASSUME NEW t \in Targets, NEW free, NEW loaded, NEW busy, Heartbeat(t, free, loaded, busy)
      PROVE  LedgerExact'
  BY <1>0, <1>9, LedgerRests DEF Heartbeat
<1>10. CASE UNCHANGED vars
  BY <1>0, <1>10, LedgerRests DEF vars
<1> QED
  BY <1>1, <1>2, <1>3, <1>4, <1>5, <1>6, <1>7, <1>8, <1>9, <1>10, <1>11, NextSteps

\* Nothing is reserved at first.
LEMMA InitLedger == Init => LedgerExact
<1> SUFFICES ASSUME Init, NEW t \in Targets \ broken
             PROVE  Books(usage[t], refs[t], Tokens, Memory, On(t))
  BY LedgerIsBooks DEF Balanced
<1>1. On(t) = {} /\ usage[t] = NoUsage /\ \A m \in Models : refs[t][m] = 0
  BY DEF Init, On, NewJob
<1>2. Tokens \in [Jobs -> Nat] /\ Memory \in [Jobs -> Nat]
  BY DEF Init, Tokens, Memory, NewJob
<1>3. IsFiniteSet(Jobs)
  BY JobsFinite
<1>4. SumFunctionOnSet(Tokens, {}) = 0 /\ SumFunctionOnSet(Memory, {}) = 0
  BY <1>2, <1>3, SumLaws
<1>5. Cardinality({}) = 0
  BY FS_EmptySet
<1>6. \A c : {j \in {} : Class(j) = c} = {} /\ {j \in {} : Model(j) = c} = {}
  OBVIOUS
<1>7. /\ \A c \in Classes : NoUsage[c] = 0
      /\ NoUsage.tokens = 0 /\ NoUsage.mem = 0 /\ NoUsage.active = 0
  BY DEF NoUsage, Classes
<1> QED
  BY <1>1, <1>4, <1>5, <1>6, <1>7 DEF Books

\* What is reserved on a target is exactly what the admitted jobs on it have
\* reserved: no end, requeue, downgrade, late end of a job admitted again or clamp
\* of a counter at zero (_release_reserved_capacity) loses or invents a token or a
\* megabyte.  Only the second release of an ended record, the expiry of a record in
\* use and a stop between a counter and the save beside it do, on their own target.
THEOREM LedgerStaysExact == Spec => []LedgerExact
<1>1. Init => LedgerExact
  BY InitLedger
<1>2. Typed /\ LedgerExact /\ [Next]_vars => LedgerExact'
  BY NextLedger
<1> QED
  BY <1>1, <1>2, StaysTyped, PTL DEF Spec

------------------------------------------------------------------------------
(* Capacity and shares. *)

\* What a step can do to the counters of a target.
Admission(t) ==
    \E j \in Jobs, kind \in Kinds, mem \in Nat :
       /\ Reported(t, snapshot[t])
       /\ Admits(t, kind, Class(j), Model(j), snapshot[t], usage[t])
       /\ usage'[t] = Reserve(usage[t], Class(j), TokenCost[Model(j)][Kind(t)], mem)
Giving(t) ==
    \E c \in Classes, n \in Nat, m \in Nat : usage'[t] = GiveBack(usage[t], c, n, m)

\* The release of a job gives something back on its target only.
LEMMA ReleaseGives ==
    ASSUME Typed, NEW j \in Jobs, Release(j), NEW t \in Targets
    PROVE  usage'[t] = usage[t] \/ Giving(t)
<1>1. /\ Class(j) \in Classes /\ job[j].tokens \in Nat /\ job[j].mem \in Nat
      /\ usage \in [Targets -> [Fields -> Nat]]
  BY JobsFinite DEF Typed, JobRecords
<1>2. \/ usage' = usage
      \/ usage' = [usage EXCEPT ![job[j].on] = GiveBack(@, Class(j), job[j].tokens, job[j].mem)]
  BY DEF Release
<1>3. CASE t = job[j].on
  <2>1. usage'[t] = usage[t] \/ usage'[t] = GiveBack(usage[t], Class(j), job[j].tokens, job[j].mem)
    BY <1>1, <1>2, <1>3
  <2> QED
    BY <1>1, <2>1 DEF Giving
<1>4. CASE t # job[j].on
  BY <1>1, <1>2, <1>4
<1> QED
  BY <1>3, <1>4

\* No other step touches the counters.
LEMMA UsageSteps ==
    ASSUME Typed, [Next]_vars, NEW t \in Targets
    PROVE  usage'[t] = usage[t] \/ Admission(t) \/ Giving(t)
<1>1. CASE EnqueueTest \/ SchedulerScan \/ UNCHANGED vars
  BY <1>1 DEF EnqueueTest, SchedulerScan, vars
<1>2. CASE Consider
  <2>1. PICK j \in Jobs, x \in Targets, kind \in Kinds, mem \in Nat :
              /\ Reported(x, snapshot[x])
              /\ \/ Skips
                 \/ Keeps(j, kind)
                 \/ AdmitsJob(j, x, kind, TokenCost[Model(j)][Kind(x)], mem)
    BY <1>2, ConsiderOutcomes
  <2>2. CASE Skips \/ Keeps(j, kind)
    BY <2>2 DEF Skips, Keeps
  <2>3. CASE AdmitsJob(j, x, kind, TokenCost[Model(j)][Kind(x)], mem)
    <3>1. /\ Admits(x, kind, Class(j), Model(j), snapshot[x], usage[x])
          /\ usage' = [usage EXCEPT ![x] = Reserve(@, Class(j), TokenCost[Model(j)][Kind(x)], mem)]
          /\ usage \in [Targets -> [Fields -> Nat]]
      BY <2>3 DEF AdmitsJob, Typed
    <3>2. CASE t = x
      <4>1. usage'[t] = Reserve(usage[t], Class(j), TokenCost[Model(j)][Kind(t)], mem)
        BY <3>1, <3>2
      <4> QED
        BY <2>1, <3>1, <3>2, <4>1 DEF Admission
    <3>3. CASE t # x
      BY <3>1, <3>3
    <3> QED
      BY <3>2, <3>3
  <2> QED
    BY <2>1, <2>2, <2>3
<1>3. ASSUME NEW j \in Jobs, EnqueuePush(j) \/ \E r : Drops(j, r)
      PROVE  usage'[t] = usage[t]
  BY <1>3 DEF EnqueuePush, Drops
<1>7. CASE Cuts
  <2>1. PICK j \in Jobs, x \in Targets, kind \in Kinds, mem \in Nat :
              /\ Reported(x, snapshot[x])
              /\ CutsJob(j, x, kind, TokenCost[Model(j)][Kind(x)], mem)
    BY <1>7 DEF Cuts
  <2>2. /\ Admits(x, kind, Class(j), Model(j), snapshot[x], usage[x])
        /\ usage' = [usage EXCEPT ![x] = Reserve(@, Class(j), TokenCost[Model(j)][Kind(x)], mem)]
        /\ usage \in [Targets -> [Fields -> Nat]]
    BY <2>1 DEF CutsJob, Typed
  <2>3. CASE t = x
    <3>1. usage'[t] = Reserve(usage[t], Class(j), TokenCost[Model(j)][Kind(t)], mem)
      BY <2>2, <2>3
    <3> QED
      BY <2>1, <2>2, <2>3, <3>1 DEF Admission
  <2>4. CASE t # x
    BY <2>2, <2>4
  <2> QED
    BY <2>3, <2>4
<1>4. ASSUME NEW j \in Jobs, RequeueCut(j) \/ \E r : Moves(j, r)
      PROVE  usage'[t] = usage[t] \/ Giving(t)
  BY <1>4, ReleaseGives DEF Moves, RequeueCut
<1>5. ASSUME NEW x \in Targets, HeartbeatExpires(x) \/ TargetReturns(x)
      PROVE  usage'[t] = usage[t]
  BY <1>5 DEF HeartbeatExpires, TargetReturns
<1>6. ASSUME NEW x \in Targets, NEW free, NEW loaded, NEW busy, Heartbeat(x, free, loaded, busy)
      PROVE  usage'[t] = usage[t]
  BY <1>6 DEF Heartbeat
<1> QED
  BY <1>1, <1>2, <1>3, <1>4, <1>5, <1>6, <1>7, NextSteps

\* Giving back lowers every counter.
LEMMA GivingLowers ==
    ASSUME Typed, NEW t \in Targets, Giving(t)
    PROVE  /\ usage'[t] \in [Fields -> Nat]
           /\ usage'[t].tokens <= usage[t].tokens
           /\ usage'[t].active = AtLeast(0, usage[t].active - 1)
           /\ \A d \in Classes : usage'[t][d] <= usage[t][d]
<1>1. PICK c \in Classes, n \in Nat, m \in Nat : usage'[t] = GiveBack(usage[t], c, n, m)
  BY DEF Giving
<1> DEFINE u == usage[t]
           v == usage'[t]
<1>2. u \in [Fields -> Nat]
  BY DEF Typed
<1> HIDE DEF u, v
<1>3. v = GiveBack(u, c, n, m)
  BY <1>1 DEF u, v
<1>4. /\ v \in [Fields -> Nat]
      /\ v.tokens = AtLeast(0, u.tokens - n)
      /\ v.active = AtLeast(0, u.active - 1)
      /\ \A d \in Classes : v[d] = IF d = c THEN AtLeast(0, u[d] - n) ELSE u[d]
  <2>1. v \in [Fields -> Nat] /\ GivenBack(u, v, c, n, m)
    BY <1>2, <1>3, GiveBackShape
  <2> QED
    BY <2>1 DEF GivenBack
<1>5. u.tokens \in Nat /\ \A d \in Classes : u[d] \in Nat
  BY <1>2 DEF Fields
<1>6. \A x \in Nat : AtLeast(0, x - n) <= x /\ x <= x
  BY DEF AtLeast
<1> QED
  BY <1>4, <1>5, <1>6 DEF u, v

\* An admission keeps within the reported capacity, or is the only one.
LEMMA AdmissionFits ==
    ASSUME Typed, NEW t \in Targets, Admission(t)
    PROVE  \/ usage'[t].tokens <= MaxBase(t)
           \/ t \in CpuTargets /\ usage'[t].active = 1
<1>1. PICK j \in Jobs, kind \in Kinds, mem \in Nat :
       /\ Reported(t, snapshot[t])
       /\ Admits(t, kind, Class(j), Model(j), snapshot[t], usage[t])
       /\ usage'[t] = Reserve(usage[t], Class(j), TokenCost[Model(j)][Kind(t)], mem)
  BY DEF Admission
<1> DEFINE cost == TokenCost[Model(j)][Kind(t)]
           u == usage[t]
           v == usage'[t]
           h == snapshot[t]
<1>2. Class(j) \in Classes /\ Model(j) \in Models /\ Kind(t) \in Kinds
  BY JobsFinite DEF Kind, Kinds
<1>3. cost \in Nat /\ cost >= 1
  BY <1>2, ProfileNat
<1>4. u \in [Fields -> Nat]
  BY DEF Typed
<1>5. /\ Reported(t, h) /\ v = Reserve(u, Class(j), cost, mem)
      /\ ShareAllows(Class(j), cost, Effective(t, cost, h, u), u)
  BY <1>1 DEF Admits
<1> HIDE DEF cost, u, v, h
<1>6. Reserved(u, v, Class(j), cost, mem)
  BY <1>2, <1>3, <1>4, <1>5, ReserveShape
<1>7. u.tokens \in Nat /\ u.active \in Nat /\ h.base \in Nat /\ h.base <= MaxBase(t)
      /\ MaxBase(t) \in Nat
  BY <1>4, <1>5, MaxBaseBounds DEF Fields, Reported
<1>8. v.tokens = u.tokens + cost /\ v.active = u.active + 1
  BY <1>6 DEF Reserved
<1>9. u.tokens + cost <= Effective(t, cost, h, u)
  BY <1>5 DEF ShareAllows
<1>10. CASE SingleSlot(t, cost, h, u)
  BY <1>7, <1>8, <1>10 DEF SingleSlot, Idle, v
<1>11. CASE ~SingleSlot(t, cost, h, u)
  <2>1. u.tokens + cost <= h.base
    BY <1>9, <1>11 DEF Effective
  <2>2. v.tokens <= MaxBase(t)
    BY <1>3, <1>7, <1>8, <2>1
  <2> QED
    BY <2>2 DEF v
<1> QED
  BY <1>10, <1>11

\* Every step keeps the capacity.
LEMMA NextWithin == Typed /\ TokensWithinCapacity /\ [Next]_vars => TokensWithinCapacity'
<1> SUFFICES ASSUME Typed, TokensWithinCapacity, [Next]_vars,
                    NEW t \in Targets, usage'[t].tokens > MaxBase(t)
             PROVE  t \in CpuTargets /\ usage'[t].active <= 1
  BY DEF TokensWithinCapacity, MaxBase
<1>1. Typed'
  BY NextTyped
<1>2. usage[t] \in [Fields -> Nat] /\ usage'[t] \in [Fields -> Nat] /\ MaxBase(t) \in Nat
  BY <1>1, MaxBaseBounds DEF Typed
<1>3. CASE usage'[t] = usage[t]
  BY <1>3 DEF TokensWithinCapacity
<1>4. CASE Admission(t)
  <2>1. ~(usage'[t].tokens <= MaxBase(t))
    BY <1>2 DEF Fields
  <2>2. t \in CpuTargets /\ usage'[t].active = 1
    BY <1>4, <2>1, AdmissionFits
  <2> QED
    BY <2>2
<1>5. CASE Giving(t)
  <2>1. /\ usage'[t].tokens <= usage[t].tokens
        /\ usage'[t].active = AtLeast(0, usage[t].active - 1)
    BY <1>5, GivingLowers
  <2>2. usage[t].tokens > MaxBase(t)
    BY <1>2, <2>1 DEF Fields
  <2>3. t \in CpuTargets /\ usage[t].active <= 1 /\ usage[t].active \in Nat
    BY <1>2, <2>2 DEF TokensWithinCapacity, Fields
  <2> DEFINE n == usage[t].active
  <2>4. n \in Nat /\ n <= 1 /\ usage'[t].active = AtLeast(0, n - 1)
    BY <2>1, <2>3
  <2> HIDE DEF n
  <2>5. usage'[t].active <= 1
    BY <2>4 DEF AtLeast
  <2> QED
    BY <2>3, <2>5
<1> QED
  BY <1>3, <1>4, <1>5, UsageSteps

\* No target has anything reserved at first ...
LEMMA InitUsage == Init => \A t \in Targets : usage[t] = NoUsage
BY DEF Init

\* ... which is within every capacity.
LEMMA InitWithin == Init => TokensWithinCapacity
<1> SUFFICES ASSUME Init, NEW t \in Targets
             PROVE  ~(usage[t].tokens > MaxBase(t))
  BY DEF TokensWithinCapacity
<1>1. usage[t].tokens = 0
  BY InitUsage DEF NoUsage
<1>2. MaxBase(t) \in Nat
  BY MaxBaseBounds
<1> QED
  BY <1>1, <1>2

\* However the reported capacities vary while jobs come and go, and whatever is
\* released twice or lost, a target never has more tokens reserved than the most it
\* can report, except a CPU target with a single job on its counter
\* (cpu_single_slot_override).
THEOREM CapacityRespected == Spec => []TokensWithinCapacity
<1>1. Init => TokensWithinCapacity
  BY InitWithin
<1>2. Typed /\ TokensWithinCapacity /\ [Next]_vars => TokensWithinCapacity'
  BY NextWithin
<1> QED
  BY <1>1, <1>2, StaysTyped, PTL DEF Spec

\* The tokens of a set of jobs, class by class.
LEMMA SumByClass ==
    ASSUME NEW g \in [Jobs -> Nat], NEW A \in SUBSET Jobs
    PROVE  LET S(c) == SumFunctionOnSet(g, {k \in A : Class(k) = c})
           IN  /\ SumFunctionOnSet(g, A) = S("chat") + S("siem") + S("batch") + S("parse")
               /\ \A c \in Classes : S(c) \in Nat
<1> DEFINE Part(s, c) == {k \in s : Class(k) = c}
           Of(s, c) == SumFunctionOnSet(g, Part(s, c))
           Adding(s) == SumFunctionOnSet(g, s)
                          = Of(s, "chat") + Of(s, "siem") + Of(s, "batch") + Of(s, "parse")
           B == {s \in SUBSET A : ~Adding(s)}
<1>0. IsFiniteSet(Jobs) /\ \A j \in Jobs : Class(j) \in Classes
  BY JobsFinite
<1>1. \A s \in SUBSET A : \A c : Part(s, c) \in SUBSET Jobs
  OBVIOUS
<1>2. \A s \in SUBSET A : SumFunctionOnSet(g, s) \in Nat /\ \A c : Of(s, c) \in Nat
  <2> HIDE DEF Part
  <2> QED
    BY <1>0, <1>1, SumLaws
<1>3. ASSUME NEW s \in SUBSET A, NEW x \in s, Adding(s \ {x})
      PROVE  Adding(s)
  <2> DEFINE r == s \ {x}
             c == Class(x)
  <2>1. r \in SUBSET A /\ x \in Jobs /\ c \in Classes /\ s \in SUBSET Jobs /\ g[x] \in Nat
    BY <1>0
  <2>2. SumFunctionOnSet(g, s) = g[x] + SumFunctionOnSet(g, r)
    BY <1>0, <2>1, SumLaws
  <2>3. Of(s, c) = g[x] + Of(r, c)
    <3>1. x \in Part(s, c) /\ Part(r, c) = Part(s, c) \ {x} /\ Part(s, c) \in SUBSET Jobs
      BY <2>1
    <3> DEFINE P == Part(s, c)
    <3> HIDE DEF P
    <3>2. SumFunctionOnSet(g, P) = g[x] + SumFunctionOnSet(g, P \ {x})
      BY <1>0, <3>1, SumLaws DEF P
    <3> QED
      BY <3>1, <3>2 DEF P
  <2>4. ASSUME NEW d, d # c
        PROVE  Of(s, d) = Of(r, d)
    <3>1. Part(s, d) = Part(r, d)
      BY <2>4
    <3> HIDE DEF Part
    <3> QED
      BY <3>1
  <2>5. /\ Of(r, "chat") \in Nat /\ Of(r, "siem") \in Nat /\ Of(r, "batch") \in Nat
        /\ Of(r, "parse") \in Nat /\ SumFunctionOnSet(g, r) \in Nat
    BY <1>2, <2>1
  <2>6. SumFunctionOnSet(g, r) = Of(r, "chat") + Of(r, "siem") + Of(r, "batch") + Of(r, "parse")
    BY <1>3
  <2> DEFINE a1 == Of(r, "chat")
             a2 == Of(r, "siem")
             a3 == Of(r, "batch")
             a4 == Of(r, "parse")
             b1 == Of(s, "chat")
             b2 == Of(s, "siem")
             b3 == Of(s, "batch")
             b4 == Of(s, "parse")
             n == g[x]
             p == SumFunctionOnSet(g, r)
             q == SumFunctionOnSet(g, s)
  <2>7. c \in {"chat", "siem", "batch", "parse"}
    BY <2>1 DEF Classes
  <2>8. \/ b1 = n + a1 /\ b2 = a2 /\ b3 = a3 /\ b4 = a4
        \/ b1 = a1 /\ b2 = n + a2 /\ b3 = a3 /\ b4 = a4
        \/ b1 = a1 /\ b2 = a2 /\ b3 = n + a3 /\ b4 = a4
        \/ b1 = a1 /\ b2 = a2 /\ b3 = a3 /\ b4 = n + a4
    <3> HIDE DEF Of, r, c
    <3>1. CASE c = "chat"
      BY <2>3, <2>4, <3>1
    <3>2. CASE c = "siem"
      BY <2>3, <2>4, <3>2
    <3>3. CASE c = "batch"
      BY <2>3, <2>4, <3>3
    <3>4. CASE c = "parse"
      BY <2>3, <2>4, <3>4
    <3> QED
      BY <2>7, <3>1, <3>2, <3>3, <3>4
  <2>9. /\ a1 \in Nat /\ a2 \in Nat /\ a3 \in Nat /\ a4 \in Nat /\ n \in Nat
        /\ p = a1 + a2 + a3 + a4 /\ q = n + p
    BY <2>1, <2>2, <2>5, <2>6
  <2> HIDE DEF a1, a2, a3, a4, b1, b2, b3, b4, n, p, q
  <2>10. q = b1 + b2 + b3 + b4
    BY <2>8, <2>9
  <2> QED
    BY <2>10 DEF q, b1, b2, b3, b4
<1>4. Adding({})
  <2>1. \A c : Part({}, c) = {}
    OBVIOUS
  <2>2. SumFunctionOnSet(g, {}) = 0
    BY <1>0, SumLaws
  <2>3. \A c : Of({}, c) = 0
    BY <2>1, <2>2
  <2> HIDE DEF Of
  <2> QED
    BY <2>2, <2>3
<1>5. B = {}
  <2> SUFFICES ASSUME B # {}
               PROVE  FALSE
    OBVIOUS
  <2> HIDE DEF Adding
  <2>1. B \in SUBSET SUBSET Jobs
    OBVIOUS
  <2>2. PICK s \in B : \A r \in B : Cardinality(s) <= Cardinality(r)
    <3> HIDE DEF B
    <3> QED
      BY <1>0, <2>1, SmallestBad
  <2>3. s \in SUBSET A /\ ~Adding(s)
    OBVIOUS
  <2>4. s # {}
    BY <1>4, <2>3
  <2>5. PICK x : x \in s
    BY <2>4
  <2>6. s \ {x} \in SUBSET A /\ ~(Cardinality(s) <= Cardinality(s \ {x}))
    BY <1>0, <2>3, <2>5, Smaller
  <2>7. Adding(s \ {x})
    BY <2>2, <2>6
  <2> QED
    BY <1>3, <2>3, <2>5, <2>7
<1>6. Adding(A)
  <2> HIDE DEF Adding
  <2> QED
    BY <1>5
<1>7. \A c : Of(A, c) \in Nat
  BY <1>2
<1> QED
  BY <1>6, <1>7

\* The shares of a smaller capacity leave no more room than those of a larger
\* one, up to a token.
LEMMA Rooms ==
    ASSUME NEW e \in Nat, NEW most \in Nat, e <= most
    PROVE  /\ ChatCap(e) \in Nat /\ SiemCap(e) \in Nat /\ ChatCap(e) >= 1
           /\ ChatCap(most) \in Nat /\ SiemCap(most) \in Nat
           /\ e - ChatCap(e) <= most - ChatCap(most)
           /\ SiemCap(e) <= SiemCap(most)
           /\ e - ChatCap(e) - SiemCap(e) <= most - ChatCap(most) - SiemCap(most) + 1
           /\ SiemCap(e) <= e
<1> DEFINE h == e \div 2
           q == e \div 4
           H == most \div 2
           Q == most \div 4
<1>1. /\ h \in Nat /\ q \in Nat /\ H \in Nat /\ Q \in Nat
      /\ 2 * h <= e /\ e <= 2 * h + 1 /\ 4 * q <= e /\ e <= 4 * q + 3
      /\ 2 * H <= most /\ most <= 2 * H + 1 /\ 4 * Q <= most /\ most <= 4 * Q + 3
  OBVIOUS
<1>2. ChatCap(e) = AtLeast(1, h) /\ ChatCap(most) = AtLeast(1, H) /\ SiemCap(e) = q /\ SiemCap(most) = Q
  BY DEF ChatCap, SiemCap
<1> HIDE DEF h, q, H, Q
<1>3. h <= H /\ q <= Q
  BY <1>1
<1>4. e - AtLeast(1, h) <= most - AtLeast(1, H)
  BY <1>1 DEF AtLeast
<1>5. e - AtLeast(1, h) - q <= most - AtLeast(1, H) - Q + 1
  BY <1>1 DEF AtLeast
<1>6. AtLeast(1, h) \in Nat /\ AtLeast(1, h) >= 1 /\ AtLeast(1, H) \in Nat /\ q <= e
  BY <1>1 DEF AtLeast
<1> QED
  BY <1>1, <1>2, <1>3, <1>4, <1>5, <1>6

\* The share arithmetic of the admission of a batch job, in numbers.
LEMMA ShareArithmetic ==
    ASSUME NEW chat \in Nat, NEW siem \in Nat, NEW batch \in Nat, NEW parse \in Nat,
           NEW cost \in Nat, cost >= 1, NEW e \in Nat, NEW C \in Nat, NEW S \in Nat,
           NEW most \in Nat, NEW M \in Nat, NEW N \in Nat,
           e - C <= most - M, S <= N, e - C - S <= most - M - N + 1
    PROVE  LET tokens == chat + siem + batch + parse
               chatUnused == AtLeast(0, C - chat)
               siemUnused == AtLeast(0, S - siem)
           IN  /\ AtLeast(0, e - tokens - (chatUnused + siemUnused)) >= cost =>
                     /\ siem + (batch + cost) <= most - M + 1
                     /\ batch + cost <= most - M - N + 1
<1> DEFINE tokens == chat + siem + batch + parse
           chatUnused == AtLeast(0, C - chat)
           siemUnused == AtLeast(0, S - siem)
<1>1. chatUnused \in Nat /\ siemUnused \in Nat /\ chat + chatUnused >= C /\ siem + siemUnused >= S
  BY DEF AtLeast
<1>2. tokens \in Nat /\ tokens = chat + siem + batch + parse
  OBVIOUS
<1> HIDE DEF chatUnused, siemUnused, tokens
<1>3. ASSUME AtLeast(0, e - tokens - (chatUnused + siemUnused)) >= cost
      PROVE  siem + (batch + cost) <= most - M + 1 /\ batch + cost <= most - M - N + 1
  <2>1. e - tokens - (chatUnused + siemUnused) >= cost
    BY <1>1, <1>2, <1>3 DEF AtLeast
  <2> QED
    BY <1>1, <1>2, <2>1
<1> QED
  BY <1>3 DEF chatUnused, siemUnused, tokens

\* The shares of one target, for counters u.
Shares(t, u) ==
    /\ u.siem + u.batch <= MaxBase(t) - ChatCap(MaxBase(t)) + 1
    /\ u.batch <= MaxBase(t) - ChatCap(MaxBase(t)) - SiemCap(MaxBase(t)) + 1

\* SharesProtected, target by target.
LEMMA SharesAre == SharesProtected <=> \A t \in Targets \ broken : Shares(t, usage[t])
BY DEF SharesProtected, Shares

\* The whole of a target's tokens is the sum of the classes.
LEMMA UsageByClass ==
    ASSUME Typed, LedgerExact, NEW t \in Targets \ broken
    PROVE  LET u == usage[t]
           IN  /\ u.chat \in Nat /\ u.siem \in Nat /\ u.batch \in Nat /\ u.parse \in Nat
               /\ u.tokens = u.chat + u.siem + u.batch + u.parse
<1> DEFINE A == On(t)
           g == Tokens
<1>1. Books(usage[t], refs[t], g, Memory, A)
  BY LedgerIsBooks DEF Balanced
<1>2. g \in [Jobs -> Nat] /\ A \in SUBSET Jobs
  <2>1. Numbers
    BY TypedParts, TokensTyped
  <2> QED
    BY <2>1 DEF Numbers, On
<1> HIDE DEF A, g
<1> DEFINE S(c) == SumFunctionOnSet(g, {k \in A : Class(k) = c})
<1>3. SumFunctionOnSet(g, A) = S("chat") + S("siem") + S("batch") + S("parse")
  BY <1>2, SumByClass
<1>4. \A c \in Classes : usage[t][c] = S(c)
  BY <1>1 DEF Books
<1>5. usage[t].tokens = SumFunctionOnSet(g, A)
  BY <1>1 DEF Books
<1> HIDE DEF S
<1>6. \A c \in Classes : usage[t][c] \in Nat
  BY DEF Typed, Fields
<1>7. "chat" \in Classes /\ "siem" \in Classes /\ "batch" \in Classes /\ "parse" \in Classes
  BY DEF Classes
<1> QED
  BY <1>3, <1>4, <1>5, <1>6, <1>7

\* Neither a batch nor a siem job passes the share test of a capacity that is
\* just its own cost: the single-slot override never lets one in.
LEMMA OverrideSparesShares ==
    ASSUME NEW u, u.tokens = 0, u.chat = 0, u.siem = 0, NEW c, NEW cost \in Nat, cost >= 1,
           ShareAllows(c, cost, cost, u)
    PROVE  c # "batch" /\ c # "siem"
<1> DEFINE C == ChatCap(cost)
           S == SiemCap(cost)
<1>1. C \in Nat /\ S \in Nat /\ C >= 1
  BY Rooms
<1>2. S < cost
  BY DEF SiemCap
<1>3. /\ c = "batch" => AtLeast(0, cost - 0 - (AtLeast(0, C - 0) + AtLeast(0, S - 0))) >= cost
      /\ c = "siem" => \/ 0 + cost <= S
                       \/ AtLeast(0, cost - 0 - AtLeast(0, C - 0)) >= cost
  BY DEF ShareAllows
<1> HIDE DEF C, S
<1>4. AtLeast(0, C - 0) = C /\ AtLeast(0, S - 0) = S
  BY <1>1 DEF AtLeast
<1>5. ~(AtLeast(0, cost - 0 - (C + S)) >= cost) /\ ~(AtLeast(0, cost - 0 - C) >= cost)
  BY <1>1 DEF AtLeast
<1> QED
  BY <1>1, <1>2, <1>3, <1>4, <1>5

\* An admission keeps the shares: by the share test for batch and for a siem
\* job that borrows, by the batch share for a siem job within its own.
LEMMA AdmissionKeepsShares ==
    ASSUME Typed, LedgerExact, NEW t \in Targets \ broken, Shares(t, usage[t]), Admission(t)
    PROVE  Shares(t, usage'[t])
<1>1. PICK j \in Jobs, kind \in Kinds, mem \in Nat :
       /\ Reported(t, snapshot[t])
       /\ Admits(t, kind, Class(j), Model(j), snapshot[t], usage[t])
       /\ usage'[t] = Reserve(usage[t], Class(j), TokenCost[Model(j)][Kind(t)], mem)
  BY DEF Admission
<1> DEFINE cost == TokenCost[Model(j)][Kind(t)]
           u == usage[t]
           v == usage'[t]
           h == snapshot[t]
           c == Class(j)
           most == MaxBase(t)
<1>2. c \in Classes /\ Model(j) \in Models /\ Kind(t) \in Kinds
  BY JobsFinite DEF Kind, Kinds
<1>3. cost \in Nat /\ cost >= 1
  BY <1>2, ProfileNat
<1>4. u \in [Fields -> Nat]
  BY DEF Typed
<1>5. /\ Reported(t, h) /\ v = Reserve(u, c, cost, mem)
      /\ ShareAllows(c, cost, Effective(t, cost, h, u), u)
  BY <1>1 DEF Admits
<1>6. /\ u.chat \in Nat /\ u.siem \in Nat /\ u.batch \in Nat /\ u.parse \in Nat
      /\ u.tokens = u.chat + u.siem + u.batch + u.parse
  BY UsageByClass
<1>7. most \in Nat
  BY MaxBaseBounds
<1>8. Shares(t, u)
  OBVIOUS
<1> HIDE DEF cost, u, v, h, c
<1>9. Reserved(u, v, c, cost, mem)
  BY <1>2, <1>3, <1>4, <1>5, ReserveShape
<1>10. /\ v.siem = IF c = "siem" THEN u.siem + cost ELSE u.siem
       /\ v.batch = IF c = "batch" THEN u.batch + cost ELSE u.batch
  BY <1>9 DEF Reserved, Classes
<1>11. CASE SingleSlot(t, cost, h, u)
  <2>1. ShareAllows(c, cost, cost, u)
    BY <1>5, <1>11 DEF Effective
  <2>2. u.tokens = 0
    BY <1>11 DEF SingleSlot, Idle
  <2>3. u.chat = 0 /\ u.siem = 0
    <3> DEFINE n1 == u.chat
               n2 == u.siem
               n3 == u.batch
               n4 == u.parse
    <3>1. n1 \in Nat /\ n2 \in Nat /\ n3 \in Nat /\ n4 \in Nat /\ 0 = n1 + n2 + n3 + n4
      BY <1>6, <2>2
    <3> HIDE DEF n1, n2, n3, n4
    <3>2. n1 = 0 /\ n2 = 0
      BY <3>1
    <3> QED
      BY <3>2 DEF n1, n2
  <2>4. c # "batch" /\ c # "siem"
    BY <1>3, <2>1, <2>2, <2>3, OverrideSparesShares
  <2>5. v.siem = u.siem /\ v.batch = u.batch
    BY <1>10, <2>4
  <2>6. Shares(t, v)
    BY <1>8, <2>5 DEF Shares
  <2> QED
    BY <2>6 DEF v
<1>12. CASE ~SingleSlot(t, cost, h, u)
  <2> DEFINE e == h.base
             C == ChatCap(e)
             S == SiemCap(e)
             M == ChatCap(most)
             N == SiemCap(most)
             chat == u.chat
             siem == u.siem
             batch == u.batch
             parse == u.parse
             tokens == u.tokens
  <2>1. e \in Nat /\ e <= most
    BY <1>5 DEF Reported
  <2>2. ShareAllows(c, cost, e, u)
    BY <1>5, <1>12 DEF Effective
  <2>3. /\ c = "batch" => AtLeast(0, e - tokens - (AtLeast(0, C - chat) + AtLeast(0, S - siem))) >= cost
        /\ c = "siem" => \/ siem + cost <= S
                         \/ AtLeast(0, e - tokens - AtLeast(0, C - chat)) >= cost
    BY <2>2 DEF ShareAllows
  <2>4. /\ C \in Nat /\ S \in Nat /\ M \in Nat /\ N \in Nat
        /\ e - C <= most - M /\ S <= N /\ e - C - S <= most - M - N + 1
    <3> HIDE DEF e, most
    <3> QED
      BY <1>7, <2>1, Rooms
  <2>5. /\ chat \in Nat /\ siem \in Nat /\ batch \in Nat /\ parse \in Nat
        /\ tokens = chat + siem + batch + parse
    BY <1>6
  <2>6. siem + batch <= most - M + 1 /\ batch <= most - M - N + 1
    BY <1>8 DEF Shares
  <2>7. /\ v.siem = IF c = "siem" THEN siem + cost ELSE siem
        /\ v.batch = IF c = "batch" THEN batch + cost ELSE batch
    BY <1>10
  <2> HIDE DEF e, C, S, M, N, chat, siem, batch, parse, tokens, most
  <2>8. v.siem + v.batch <= most - M + 1 /\ v.batch <= most - M - N + 1
    <3>1. CASE c = "batch"
      <4>1. siem + (batch + cost) <= most - M + 1 /\ batch + cost <= most - M - N + 1
        BY <1>3, <1>7, <2>1, <2>3, <2>4, <2>5, <3>1, ShareArithmetic
      <4> QED
        BY <2>7, <3>1, <4>1
    <3>2. CASE c = "siem"
      <4>1. (siem + cost) + batch <= most - M + 1
        <5>1. CASE siem + cost <= S
          BY <1>3, <1>7, <2>4, <2>5, <2>6, <5>1
        <5>2. CASE AtLeast(0, e - tokens - AtLeast(0, C - chat)) >= cost
          <6> DEFINE x == AtLeast(0, C - chat)
          <6>1. x \in Nat /\ chat + x >= C
            BY <2>4, <2>5 DEF AtLeast
          <6>2. AtLeast(0, e - tokens - x) >= cost
            BY <5>2
          <6> HIDE DEF x
          <6>3. e - tokens - x >= cost
            BY <1>3, <2>1, <2>5, <6>1, <6>2 DEF AtLeast
          <6> QED
            BY <1>3, <1>7, <2>1, <2>4, <2>5, <6>1, <6>3
        <5> QED
          BY <2>3, <3>2, <5>1, <5>2
      <4> QED
        BY <2>6, <2>7, <3>2, <4>1
    <3>3. CASE c # "batch" /\ c # "siem"
      BY <2>6, <2>7, <3>3
    <3> QED
      BY <3>1, <3>2, <3>3
  <2>9. Shares(t, v)
    BY <2>8 DEF Shares, M, N, most
  <2> QED
    BY <2>9 DEF v
<1> QED
  BY <1>11, <1>12

\* What is broken stays so.
LEMMA BrokenStays == Typed /\ [Next]_vars => broken \subseteq broken'
BY NextSteps DEF EnqueueTest, SchedulerScan, Consider, EnqueuePush, Drops, Moves, Cuts, CutsJob,
                 RequeueCut, HeartbeatExpires, TargetReturns, Heartbeat, vars

\* Every step keeps the shares.
LEMMA NextShares ==
    Typed /\ LedgerExact /\ SharesProtected /\ [Next]_vars => SharesProtected'
<1> SUFFICES ASSUME Typed, LedgerExact, SharesProtected, [Next]_vars
             PROVE  SharesProtected'
  OBVIOUS
<1>1. ASSUME NEW t \in Targets \ broken'
      PROVE  Shares(t, usage'[t])
  <2>1. Shares(t, usage[t]) /\ t \in Targets \ broken
    BY SharesAre, BrokenStays
  <2>2. CASE usage'[t] = usage[t]
    BY <2>1, <2>2
  <2>3. CASE Admission(t)
    BY <2>1, <2>3, AdmissionKeepsShares
  <2>4. CASE Giving(t)
    <3> DEFINE u == usage[t]
               v == usage'[t]
               a == MaxBase(t) - ChatCap(MaxBase(t)) + 1
               b == MaxBase(t) - ChatCap(MaxBase(t)) - SiemCap(MaxBase(t)) + 1
    <3>1. /\ u \in [Fields -> Nat] /\ v \in [Fields -> Nat]
          /\ \A d \in Classes : v[d] <= u[d]
      BY <2>4, GivingLowers DEF Typed
    <3>2. MaxBase(t) \in Nat
      BY MaxBaseBounds
    <3>3. a \in Int /\ b \in Int
      <4> DEFINE m == MaxBase(t)
      <4>1. m \in Nat
        BY <3>2
      <4> HIDE DEF m
      <4>2. ChatCap(m) \in Nat /\ SiemCap(m) \in Nat
        BY <4>1, Rooms
      <4>3. m - ChatCap(m) + 1 \in Int /\ m - ChatCap(m) - SiemCap(m) + 1 \in Int
        BY <4>1, <4>2
      <4> QED
        BY <4>3 DEF m
    <3>4. u.siem + u.batch <= a /\ u.batch <= b
      BY <2>1 DEF Shares
    <3> HIDE DEF u, v, a, b
    <3>5. /\ u.siem \in Nat /\ u.batch \in Nat /\ v.siem \in Nat /\ v.batch \in Nat
          /\ v.siem <= u.siem /\ v.batch <= u.batch
      BY <3>1 DEF Fields, Classes
    <3>6. v.siem + v.batch <= a /\ v.batch <= b
      BY <3>3, <3>4, <3>5
    <3>7. Shares(t, v)
      BY <3>6 DEF Shares, a, b
    <3> QED
      BY <3>7 DEF v
  <2> QED
    BY <2>2, <2>3, <2>4, UsageSteps
<1> QED
  BY <1>1 DEF SharesProtected, Shares, MaxBase

\* The shares hold at first.
LEMMA InitShares == Init => SharesProtected
<1> SUFFICES ASSUME Init, NEW t \in Targets \ broken
             PROVE  Shares(t, usage[t])
  BY SharesAre
<1>1. usage[t].siem = 0 /\ usage[t].batch = 0
  BY InitUsage DEF NoUsage
<1> DEFINE m == MaxBase(t)
<1>2. m \in Nat
  BY MaxBaseBounds
<1> HIDE DEF m
<1>3. 0 <= m - ChatCap(m) + 1 /\ 0 <= m - ChatCap(m) - SiemCap(m) + 1
  <2> DEFINE h == m \div 2
             q == m \div 4
  <2>1. h \in Nat /\ q \in Nat /\ 2 * h <= m /\ 4 * q <= m
    BY <1>2
  <2>2. ChatCap(m) = AtLeast(1, h) /\ SiemCap(m) = q
    BY DEF ChatCap, SiemCap
  <2> HIDE DEF h, q
  <2>3. 0 <= m - AtLeast(1, h) + 1 /\ 0 <= m - AtLeast(1, h) - q + 1
    BY <1>2, <2>1 DEF AtLeast
  <2> QED
    BY <2>2, <2>3
<1>4. 0 + 0 <= m - ChatCap(m) + 1
  BY <1>3
<1> QED
  BY <1>1, <1>3, <1>4 DEF Shares, m

\* Whatever the order of arrivals, admissions and ends, and however the reported
\* capacities vary, siem and batch jobs stay out of the share kept for chat, and
\* batch jobs out of the share kept for siem, up to one token of rounding, on every
\* target whose ledger is unbroken.
THEOREM SharesStayProtected == Spec => []SharesProtected
<1>1. Init => SharesProtected
  BY InitShares
<1>2. Typed /\ LedgerExact /\ SharesProtected /\ [Next]_vars => SharesProtected'
  BY NextShares
<1> QED
  BY <1>1, <1>2, StaysTyped, LedgerStaysExact, PTL DEF Spec

------------------------------------------------------------------------------
(* The depth of the queue. *)

InList(j) == \E c \in Classes : j \in ToSet(pending[c])

\* Being in a list, by position.
LEMMA InListIs ==
    ASSUME pending \in [Classes -> Seq(Jobs)], NEW j
    PROVE  InList(j) <=> \E c \in Classes : \E k \in 1 .. Len(pending[c]) : pending[c][k] = j
BY DEF InList, ToSet

\* Appending a job to its list.
LEMMA ListsAppend ==
    ASSUME Typed, Typed', NEW j \in Jobs,
           pending' = [pending EXCEPT ![Class(j)] = Append(@, j)]
    PROVE  \A k : InList(k)' => InList(k) \/ k = j
<1>1. /\ pending \in [Classes -> Seq(Jobs)] /\ pending' \in [Classes -> Seq(Jobs)]
      /\ Class(j) \in Classes
  BY JobsFinite DEF Typed
<1>2. ASSUME NEW c \in Classes
      PROVE  \A k \in 1 .. Len(pending'[c]) :
                pending'[c][k] = j \/ \E i \in 1 .. Len(pending[c]) : pending[c][i] = pending'[c][k]
  <2> DEFINE s == pending[c]
             z == pending'[c]
  <2>1. s \in Seq(Jobs) /\ Len(s) \in Nat
    BY <1>1
  <2>2. z = IF c = Class(j) THEN Append(s, j) ELSE s
    BY <1>1
  <2> HIDE DEF s, z
  <2>3. \A k \in 1 .. Len(z) : z[k] = j \/ \E i \in 1 .. Len(s) : s[i] = z[k]
    BY <2>1, <2>2
  <2> QED
    BY <2>3 DEF s, z
<1>3. ASSUME NEW k, InList(k)'
      PROVE  InList(k) \/ k = j
  <2>1. PICK c \in Classes : k \in ToSet(pending'[c])
    BY <1>3 DEF InList
  <2>2. PICK i \in 1 .. Len(pending'[c]) : pending'[c][i] = k
    BY <1>1, <2>1 DEF ToSet
  <2> QED
    BY <1>1, <1>2, <2>2, InListIs
<1> QED
  BY <1>3

\* Removing an entry of a job from its list.
LEMMA ListsRemove ==
    ASSUME Typed, Typed', NEW j \in Jobs,
           pending' = [pending EXCEPT ![Class(j)] = RemoveFirst(@, j)]
    PROVE  \A k : InList(k)' => InList(k)
<1>1. /\ pending \in [Classes -> Seq(Jobs)] /\ pending' \in [Classes -> Seq(Jobs)]
      /\ Class(j) \in Classes
  BY JobsFinite DEF Typed
<1>2. ASSUME NEW c \in Classes
      PROVE  \A k \in 1 .. Len(pending'[c]) :
                \E i \in 1 .. Len(pending[c]) : pending[c][i] = pending'[c][k]
  <2> DEFINE s == pending[c]
             z == pending'[c]
             r == RemoveFirst(s, j)
  <2>1. s \in Seq(Jobs) /\ Len(s) \in Nat
    BY <1>1
  <2>2. z = IF c = Class(j) THEN r ELSE s
    BY <1>1
  <2> HIDE DEF s, z
  <2>3. \/ r = s
        \/ \E m \in 1 .. Len(s) : /\ Len(r) = Len(s) - 1
                                  /\ \A k \in 1 .. (m - 1) : r[k] = s[k]
                                  /\ \A k \in m .. (Len(s) - 1) : r[k] = s[k + 1]
    BY <2>1, RemoveFirstShape
  <2> HIDE DEF r
  <2>4. \A k \in 1 .. Len(r) : \E i \in 1 .. Len(s) : s[i] = r[k]
    <3>1. CASE r = s
      BY <3>1
    <3>2. ASSUME NEW m \in 1 .. Len(s), Len(r) = Len(s) - 1,
                 \A k \in 1 .. (m - 1) : r[k] = s[k],
                 \A k \in m .. (Len(s) - 1) : r[k] = s[k + 1],
                 NEW k \in 1 .. Len(r)
          PROVE  \E i \in 1 .. Len(s) : s[i] = r[k]
      <4>1. CASE k < m
        BY <2>1, <3>2, <4>1
      <4>2. CASE ~(k < m)
        <5>1. k + 1 \in 1 .. Len(s) /\ k \in m .. (Len(s) - 1)
          BY <2>1, <3>2, <4>2
        <5> QED
          BY <3>2, <5>1
      <4> QED
        BY <4>1, <4>2
    <3> QED
      BY <2>3, <3>1, <3>2
  <2>5. \A k \in 1 .. Len(z) : \E i \in 1 .. Len(s) : s[i] = z[k]
    BY <2>2, <2>4
  <2> QED
    BY <2>5 DEF s, z
<1>3. ASSUME NEW k, InList(k)'
      PROVE  InList(k)
  <2>1. PICK c \in Classes : k \in ToSet(pending'[c])
    BY <1>3 DEF InList
  <2>2. PICK i \in 1 .. Len(pending'[c]) : pending'[c][i] = k
    BY <1>1, <2>1 DEF ToSet
  <2> QED
    BY <1>1, <1>2, <2>2, InListIs
<1> QED
  BY <1>3

\* The jobs that QueueBound counts, and the bound with the requests under way.
Fresh == {j \in Jobs \ back : InList(j)}
Room == Cardinality(Fresh) + Cardinality(arriving) <= FullLimit + Cardinality(Requests) - 1

\* These sets are finite.
LEMMA FreshFinite ==
    ASSUME Typed
    PROVE  /\ Fresh \in SUBSET Jobs /\ arriving \in SUBSET Jobs /\ IsFiniteSet(Jobs)
           /\ IsFiniteSet(Fresh) /\ IsFiniteSet(arriving)
           /\ Cardinality(Fresh) \in Nat /\ Cardinality(arriving) \in Nat
<1>1. Fresh \in SUBSET Jobs /\ arriving \in SUBSET Jobs /\ IsFiniteSet(Jobs)
  BY JobsFinite DEF Typed, Fresh
<1>2. IsFiniteSet(Fresh) /\ IsFiniteSet(arriving)
  BY <1>1, FS_Subset
<1> QED
  BY <1>1, <1>2, FS_CardinalityType

\* A list of n entries holds at most n jobs.
LEMMA SetOfList ==
    ASSUME NEW s \in Seq(Jobs)
    PROVE  IsFiniteSet(ToSet(s)) /\ Cardinality(ToSet(s)) <= Len(s) /\ Cardinality(ToSet(s)) \in Nat
<1> DEFINE I == 1 .. Len(s)
           T == ToSet(s)
<1>1. Len(s) \in Nat /\ DOMAIN s = I
  OBVIOUS
<1>2. IsFiniteSet(I) /\ Cardinality(I) = Len(s)
  BY <1>1, FS_Interval
<1>3. s \in Surjection(I, T)
  BY <1>1 DEF Surjection, ToSet
<1> HIDE DEF I, T
<1>4. IsFiniteSet(T) /\ Cardinality(T) <= Cardinality(I)
  BY <1>2, <1>3, FS_Surjection
<1>5. Cardinality(T) \in Nat
  BY <1>4, FS_CardinalityType
<1> QED
  BY <1>2, <1>4, <1>5 DEF T

Many(A, n) == n \in Nat /\ IsFiniteSet(A) /\ Cardinality(A) <= n

\* A union has at most as many members as its parts together.
LEMMA UnionCount ==
    ASSUME NEW A, NEW B, NEW m, NEW n, Many(A, m), Many(B, n)
    PROVE  Many(A \cup B, m + n)
<1>0. IsFiniteSet(A) /\ IsFiniteSet(B)
  BY DEF Many
<1>1. IsFiniteSet(A \cup B) /\ IsFiniteSet(A \cap B)
  BY <1>0, FS_Union, FS_Intersection
<1>2. Cardinality(A \cup B) = Cardinality(A) + Cardinality(B) - Cardinality(A \cap B)
  BY <1>0, FS_Union
<1>3. Cardinality(A) \in Nat /\ Cardinality(B) \in Nat /\ Cardinality(A \cap B) \in Nat
  BY <1>0, <1>1, FS_CardinalityType
<1> DEFINE a == Cardinality(A)
           b == Cardinality(B)
           c == Cardinality(A \cap B)
           d == Cardinality(A \cup B)
<1>4. a <= m /\ b <= n /\ m \in Nat /\ n \in Nat
  BY DEF Many
<1> HIDE DEF a, b, c, d
<1>5. d <= m + n /\ m + n \in Nat
  BY <1>2, <1>3, <1>4 DEF a, b, c, d
<1> QED
  BY <1>1, <1>5 DEF d, Many

\* The saturation test counts every job that QueueBound counts.
LEMMA FreshAtMostPending ==
    ASSUME Typed
    PROVE  Cardinality(Fresh) <= TotalPending /\ TotalPending \in Nat
<1> DEFINE T(c) == ToSet(pending[c])
           L(c) == Len(pending[c])
<1>1. \A c \in Classes : pending[c] \in Seq(Jobs)
  BY DEF Typed
<1>2. \A c \in Classes : Many(T(c), L(c))
  BY <1>1, SetOfList DEF Many
<1>3. "siem" \in Classes /\ "chat" \in Classes /\ "parse" \in Classes /\ "batch" \in Classes
  BY DEF Classes
<1> DEFINE all == ((T("siem") \cup T("chat")) \cup T("parse")) \cup T("batch")
           total == ((L("siem") + L("chat")) + L("parse")) + L("batch")
<1>4. Fresh \subseteq all
  BY DEF Fresh, InList, Classes
<1>5. TotalPending = total
  BY DEF TotalPending
<1> HIDE DEF T, L
<1>6. Many(T("siem") \cup T("chat"), L("siem") + L("chat"))
  BY <1>2, <1>3, UnionCount
<1>7. Many((T("siem") \cup T("chat")) \cup T("parse"), (L("siem") + L("chat")) + L("parse"))
  BY <1>2, <1>3, <1>6, UnionCount
<1>8. Many(all, total)
  BY <1>2, <1>3, <1>7, UnionCount
<1> HIDE DEF all, total
<1>9. Cardinality(Fresh) <= Cardinality(all) /\ IsFiniteSet(Fresh)
  BY <1>4, <1>8, FS_Subset DEF Many
<1>10. Cardinality(Fresh) \in Nat /\ Cardinality(all) \in Nat
  BY <1>8, <1>9, FS_CardinalityType DEF Many
<1>11. total \in Nat /\ Cardinality(all) <= total
  BY <1>8 DEF Many
<1>12. Cardinality(Fresh) <= total
  BY <1>9, <1>10, <1>11
<1> QED
  BY <1>5, <1>11, <1>12

\* No set of live targets and reports allows a longer queue than all targets at
\* their best.
LEMMA LimitAtMostFull ==
    ASSUME Typed
    PROVE  DynamicLimit \in Nat /\ FullLimit \in Nat /\ DynamicLimit <= FullLimit
<1> DEFINE f == [t \in Targets |-> record[t].base]
           g == [t \in Targets |-> MaxBase(t)]
           a == SumFunctionOnSet(f, alive)
           b == SumFunctionOnSet(g, alive)
           d == SumFunctionOnSet(g, Targets)
           m == Cardinality(alive)
           n == Cardinality(Targets)
<1>1. IsFiniteSet(Targets) /\ alive \in SUBSET Targets
  BY AdmissionAssumption DEF Typed
<1>2. /\ f \in [Targets -> Nat] /\ \A t \in Targets : f[t] <= g[t]
      /\ g \in [Targets -> Nat]
  BY MaxBaseBounds DEF Typed, Reported
<1> HIDE DEF f, g
<1>3. a \in Nat /\ b \in Nat /\ d \in Nat
  BY <1>1, <1>2, SumLaws
<1>4. a <= b
  BY <1>1, <1>2, SumAtMost
<1>5. b <= d
  BY <1>1, <1>2, SumOfPart
<1>6. m \in Nat /\ n \in Nat /\ m <= n
  <2>1. IsFiniteSet(alive) /\ m <= n
    BY <1>1, FS_Subset
  <2> QED
    BY <1>1, <2>1, FS_CardinalityType
<1>7. QueueFactor \in Nat /\ WorkerWeight \in Nat /\ MinDepth \in Nat
  BY AdmissionAssumption
<1>8. DynamicLimit = AtLeast(MinDepth, a * QueueFactor + m * WorkerWeight)
  BY DEF DynamicLimit, LiveTokens, f
<1>9. FullLimit = AtLeast(MinDepth, d * QueueFactor + n * WorkerWeight)
  BY DEF FullLimit, g
<1> HIDE DEF a, b, d, m, n
<1>10. a <= d
  BY <1>3, <1>4, <1>5
<1>11. \A x, y, z \in Nat : x <= y => x * z <= y * z /\ x * z \in Nat /\ y * z \in Nat
  OBVIOUS
<1> DEFINE p == a * QueueFactor
           q == d * QueueFactor
           v == m * WorkerWeight
           w == n * WorkerWeight
<1>12. p <= q /\ v <= w /\ p \in Nat /\ q \in Nat /\ v \in Nat /\ w \in Nat
  BY <1>3, <1>6, <1>7, <1>10, <1>11
<1>13. DynamicLimit = AtLeast(MinDepth, p + v) /\ FullLimit = AtLeast(MinDepth, q + w)
  BY <1>8, <1>9
<1> HIDE DEF p, q, v, w
<1> QED
  BY <1>7, <1>12, <1>13 DEF AtLeast

\* The bound when no job joins ...
LEMMA RoomKept ==
    ASSUME Typed, Typed', Room, Fresh' \subseteq Fresh, arriving' = arriving
    PROVE  Room'
<1> DEFINE a == Cardinality(Fresh)
           b == Cardinality(Fresh')
           c == Cardinality(arriving)
           f == FullLimit
           r == Cardinality(Requests)
<1>1. IsFiniteSet(Fresh) /\ a \in Nat /\ c \in Nat
  BY FreshFinite
<1>2. b <= a /\ IsFiniteSet(Fresh')
  BY <1>1, FS_Subset
<1>3. b \in Nat
  BY <1>2, FS_CardinalityType
<1>4. f \in Nat /\ r \in Nat
  BY LimitAtMostFull, FS_CardinalityType, AdmissionAssumption
<1>5. a + c <= f + r - 1
  BY DEF Room
<1> HIDE DEF a, b, c, f, r
<1>6. b + c <= f + r - 1
  BY <1>1, <1>2, <1>3, <1>4, <1>5
<1> QED
  BY <1>6 DEF Room, b, c, f, r

\* ... and when an arriving job is pushed.
LEMMA RoomTaken ==
    ASSUME Typed, Typed', Room, NEW j \in arriving, Fresh' \subseteq Fresh \cup {j},
           arriving' = arriving \ {j}
    PROVE  Room'
<1> DEFINE a == Cardinality(Fresh)
           b == Cardinality(Fresh')
           c == Cardinality(arriving)
           d == Cardinality(arriving')
           f == FullLimit
           r == Cardinality(Requests)
           F == Fresh
           G == Fresh'
<1>1. IsFiniteSet(F) /\ IsFiniteSet(arriving) /\ a \in Nat /\ c \in Nat
  BY FreshFinite
<1>2. d = c - 1
  BY <1>1, FS_RemoveElement
<1>3. IsFiniteSet(F \cup {j}) /\ Cardinality(F \cup {j}) <= a + 1
  <2>1. CASE j \in F
    <3>1. F \cup {j} = F
      BY <2>1
    <3>2. a <= a + 1
      <4> HIDE DEF a
      <4> QED
        BY <1>1
    <3> QED
      BY <1>1, <3>1, <3>2
  <2>2. CASE j \notin F
    <3> HIDE DEF F
    <3>1. IsFiniteSet(F \cup {j}) /\ Cardinality(F \cup {j}) = Cardinality(F) + 1
      BY <1>1, <2>2, FS_AddElement
    <3>2. Cardinality(F) = a
      BY DEF F
    <3>3. a + 1 <= a + 1
      <4> HIDE DEF a
      <4> QED
        BY <1>1
    <3> QED
      BY <3>1, <3>2, <3>3
  <2> QED
    BY <2>1, <2>2
<1>4. Cardinality(G) <= Cardinality(F \cup {j}) /\ IsFiniteSet(G)
  <2>1. G \in SUBSET (F \cup {j})
    OBVIOUS
  <2> HIDE DEF F, G
  <2> QED
    BY <1>3, <2>1, FS_Subset
<1> DEFINE g == Cardinality(F \cup {j})
<1>5. b \in Nat /\ g \in Nat /\ b <= g /\ g <= a + 1
  <2>1. Cardinality(G) \in Nat /\ g \in Nat
    <3> HIDE DEF F, G
    <3> QED
      BY <1>3, <1>4, FS_CardinalityType
  <2> QED
    BY <1>3, <1>4, <2>1
<1>6. f \in Nat /\ r \in Nat
  BY LimitAtMostFull, FS_CardinalityType, AdmissionAssumption
<1>7. a + c <= f + r - 1
  BY DEF Room
<1> HIDE DEF a, b, c, d, f, r, g
<1>8. b + d <= f + r - 1
  BY <1>1, <1>2, <1>5, <1>6, <1>7
<1> QED
  BY <1>8 DEF Room, b, d, f, r

\* A request that passes the saturation test, alone or beside others.
LEMMA RoomTested ==
    ASSUME Typed, Typed', Fresh' \subseteq Fresh, ~Saturated,
           Cardinality(arriving) < Cardinality(Requests), NEW j, j \notin arriving,
           arriving' = arriving \cup {j}
    PROVE  Room'
<1> DEFINE a == Cardinality(Fresh)
           b == Cardinality(Fresh')
           c == Cardinality(arriving)
           d == Cardinality(arriving')
           f == FullLimit
           r == Cardinality(Requests)
           p == TotalPending
           l == DynamicLimit
<1>1. IsFiniteSet(Fresh) /\ IsFiniteSet(arriving) /\ a \in Nat /\ c \in Nat
  BY FreshFinite
<1>2. d = c + 1
  BY <1>1, FS_AddElement
<1>3. b <= a /\ IsFiniteSet(Fresh')
  BY <1>1, FS_Subset
<1>4. b \in Nat
  BY <1>3, FS_CardinalityType
<1>5. f \in Nat /\ r \in Nat /\ l \in Nat /\ l <= f
  BY LimitAtMostFull, FS_CardinalityType, AdmissionAssumption
<1>6. a <= p /\ p \in Nat /\ ~(p >= l) /\ c < r
  BY FreshAtMostPending DEF Saturated
<1> HIDE DEF a, b, c, d, f, r, p, l
<1>7. b + d <= f + r - 1
  BY <1>1, <1>2, <1>3, <1>4, <1>5, <1>6
<1> QED
  BY <1>7 DEF Room, b, d, f, r

\* Every step keeps the bound.
LEMMA NextQueue == Typed /\ Room /\ [Next]_vars => Room'
<1> SUFFICES ASSUME Typed, Room, [Next]_vars
             PROVE  Room'
  OBVIOUS
<1>0. Typed' /\ arriving \subseteq Jobs
  BY NextTyped, JobsFinite DEF Typed
<1>a. ASSUME UNCHANGED <<pending, back>>
      PROVE  Fresh' \subseteq Fresh
  BY <1>a DEF Fresh, InList
<1>1. CASE EnqueueTest
  <2> DEFINE a == arrived'
  <2>1. /\ UNCHANGED <<pending, back>>
        /\ arriving' = IF Saturated THEN arriving ELSE arriving \cup {a}
        /\ Cardinality(arriving) < Cardinality(Requests)
    BY <1>1 DEF EnqueueTest
  <2>2. a = arrived + 1 /\ arrived \in Nat /\ arriving \subseteq 1 .. arrived
    BY <1>1, JobsFinite DEF EnqueueTest, Typed
  <2>3. a \notin arriving
    BY <2>2
  <2> HIDE DEF a
  <2>4. CASE Saturated
    BY <1>0, <1>a, <2>1, <2>4, RoomKept
  <2>5. CASE ~Saturated
    BY <1>0, <1>a, <2>1, <2>3, <2>5, RoomTested
  <2> QED
    BY <2>4, <2>5
<1>2. CASE SchedulerScan
  BY <1>0, <1>2, <1>a, RoomKept DEF SchedulerScan
<1>3. CASE Consider
  <2>1. PICK j \in Jobs, t \in Targets, kind \in Kinds, mem \in Nat :
              /\ Reported(t, snapshot[t])
              /\ \/ Skips
                 \/ Keeps(j, kind)
                 \/ AdmitsJob(j, t, kind, TokenCost[Model(j)][Kind(t)], mem)
    BY <1>3, ConsiderOutcomes
  <2>2. UNCHANGED <<arriving, back>>
    BY <1>3 DEF Consider
  <2>3. CASE Skips \/ Keeps(j, kind)
    BY <1>0, <1>a, <2>2, <2>3, RoomKept DEF Skips, Keeps
  <2>4. CASE AdmitsJob(j, t, kind, TokenCost[Model(j)][Kind(t)], mem)
    <3>1. \A k : InList(k)' => InList(k)
      BY <1>0, <2>4, ListsRemove DEF AdmitsJob
    <3>2. Fresh' \subseteq Fresh
      BY <2>2, <3>1 DEF Fresh
    <3> QED
      BY <1>0, <2>2, <3>2, RoomKept
  <2> QED
    BY <2>1, <2>3, <2>4
<1>4. ASSUME NEW j \in Jobs, EnqueuePush(j)
      PROVE  Room'
  <2>1. /\ j \in arriving /\ arriving' = arriving \ {j} /\ back' = back
        /\ pending' = [pending EXCEPT ![Class(j)] = Append(@, j)]
    BY <1>4 DEF EnqueuePush
  <2>2. \A k : InList(k)' => InList(k) \/ k = j
    BY <1>0, <2>1, ListsAppend
  <2>3. Fresh' \subseteq Fresh \cup {j}
    BY <2>1, <2>2 DEF Fresh
  <2> QED
    BY <1>0, <2>1, <2>3, RoomTaken
<1>5. ASSUME NEW j \in Jobs, NEW r, Moves(j, r)
      PROVE  Room'
  <2>1. CASE UNCHANGED <<pending, back>>
    BY <1>0, <1>5, <1>a, <2>1, RoomKept DEF Moves
  <2>2. CASE pending' = [pending EXCEPT ![Class(j)] = Append(@, j)] /\ back' = back \cup {j}
    <3>1. \A k : InList(k)' => InList(k) \/ k = j
      BY <1>0, <2>2, ListsAppend
    <3>2. Fresh' \subseteq Fresh
      BY <2>2, <3>1 DEF Fresh
    <3> QED
      BY <1>0, <1>5, <3>2, RoomKept DEF Moves
  <2> QED
    BY <1>5, <2>1, <2>2 DEF Moves
<1>6. ASSUME NEW j \in Jobs, RequeueCut(j) \/ \E r : Drops(j, r)
      PROVE  Room'
  BY <1>0, <1>6, <1>a, RoomKept DEF Drops, RequeueCut
<1>10. CASE Cuts
  <2>1. PICK j \in Jobs, t \in Targets, kind \in Kinds, mem \in Nat :
               CutsJob(j, t, kind, TokenCost[Model(j)][Kind(t)], mem)
    BY <1>10 DEF Cuts
  <2>2. \A k : InList(k)' => InList(k)
    BY <1>0, <2>1, ListsRemove DEF CutsJob
  <2>3. Fresh' \subseteq Fresh /\ arriving' = arriving
    BY <2>1, <2>2 DEF Fresh, CutsJob
  <2> QED
    BY <1>0, <2>3, RoomKept
<1>7. ASSUME NEW t \in Targets, HeartbeatExpires(t) \/ TargetReturns(t)
      PROVE  Room'
  BY <1>0, <1>7, <1>a, RoomKept DEF HeartbeatExpires, TargetReturns
<1>8. ASSUME NEW t \in Targets, NEW free, NEW loaded, NEW busy, Heartbeat(t, free, loaded, busy)
      PROVE  Room'
  BY <1>0, <1>8, <1>a, RoomKept DEF Heartbeat
<1>9. CASE UNCHANGED vars
  BY <1>0, <1>9, <1>a, RoomKept DEF vars
<1> QED
  BY <1>1, <1>2, <1>3, <1>4, <1>5, <1>6, <1>7, <1>8, <1>9, <1>10, NextSteps

\* The lists are empty at first.
LEMMA InitQueue == Init => Room
<1> SUFFICES ASSUME Init
             PROVE  Room
  OBVIOUS
<1>1. Typed
  BY InitTyped
<1>2. \A c \in Classes : pending[c] = <<>>
  BY DEF Init
<1>4. Fresh = {} /\ arriving = {}
  BY <1>2 DEF Fresh, InList, ToSet, Init
<1>5. Cardinality({}) = 0
  BY FS_EmptySet
<1> DEFINE f == FullLimit
           r == Cardinality(Requests)
<1>6. f \in Nat /\ r \in Nat /\ r # 0
  BY <1>1, LimitAtMostFull, FS_CardinalityType, FS_EmptySet, AdmissionAssumption
<1> HIDE DEF f, r
<1>7. 0 + 0 <= f + r - 1
  BY <1>6
<1> QED
  BY <1>4, <1>5, <1>7 DEF Room, f, r

\* Requests that test the queue at the same time exceed its limit by at most one
\* job each, whatever the heartbeats report in between; only jobs that were put
\* back, by the reaper or by a worker of the wrong kind, come on top.
THEOREM QueueStaysBounded == Spec => []QueueBound
<1>1. Init => Room
  BY InitQueue
<1>2. Typed /\ Room /\ [Next]_vars => Room'
  BY NextQueue
<1>3. Typed /\ Room => QueueBound
  <2> SUFFICES ASSUME Typed, Room
               PROVE  QueueBound
    OBVIOUS
  <2> DEFINE a == Cardinality(Fresh)
             c == Cardinality(arriving)
             f == FullLimit
             r == Cardinality(Requests)
  <2>1. a \in Nat /\ c \in Nat /\ f \in Nat /\ r \in Nat /\ a + c <= f + r - 1
    BY FreshFinite, LimitAtMostFull, FS_CardinalityType, AdmissionAssumption DEF Room
  <2> HIDE DEF a, c, f, r
  <2>2. a <= f + r - 1
    BY <2>1
  <2>3. {j \in Jobs \ back : \E d \in Classes : j \in ToSet(pending[d])} = Fresh
    BY DEF Fresh, InList
  <2> QED
    BY <2>2, <2>3 DEF QueueBound, a, f, r
<1> QED
  BY <1>1, <1>2, <1>3, StaysTyped, PTL DEF Spec

------------------------------------------------------------------------------
(* The progress of a pass. *)

InPass(j) == \E i \in 1 .. Len(pass) : pass[i] = j
AllIdle == \A t \in Targets : Idle(usage[t])

\* While only the scheduler runs, its records are the current ones, and as long
\* as nothing is admitted every job that could be is still ahead of it.
Ahead ==
    calm => /\ snapshot = [t \in alive |-> record[t]]
            /\ AllIdle => \A j \in Jobs : Hope(j) => InPass(j)

Has(s, x) == \E i \in 1 .. Len(s) : s[i] = x

\* A concatenation holds what its parts hold.
LEMMA HasConcat ==
    ASSUME NEW a \in Seq(Jobs), NEW b \in Seq(Jobs), NEW x, Has(a, x) \/ Has(b, x)
    PROVE  Has(a \o b, x)
<1>1. /\ a \o b \in Seq(Jobs) /\ Len(a \o b) = Len(a) + Len(b) /\ Len(a) \in Nat /\ Len(b) \in Nat
      /\ \A i \in 1 .. Len(a) : (a \o b)[i] = a[i]
      /\ \A i \in 1 .. Len(b) : (a \o b)[Len(a) + i] = b[i]
  OBVIOUS
<1>2. CASE Has(a, x)
  BY <1>1, <1>2 DEF Has
<1>3. CASE Has(b, x)
  <2>1. PICK i \in 1 .. Len(b) : b[i] = x
    BY <1>3 DEF Has
  <2>2. Len(a) + i \in 1 .. Len(a \o b)
    BY <1>1
  <2> QED
    BY <1>1, <2>1, <2>2 DEF Has
<1> QED
  BY <1>2, <1>3

\* The scan finds every queued job of the windows.
LEMMA ScanFindsHope ==
    ASSUME Typed, NEW j \in Jobs, Hope(j)
    PROVE  \E i \in 1 .. Len(Candidates) : Candidates[i] = j
<1> DEFINE c == Class(j)
           Q(d) == Queued(Window(d))
           s == pending[c]
           n == AtMost(ScanDepth, Len(s))
<1>1. c \in Classes /\ pending \in [Classes -> Seq(Jobs)]
  BY JobsFinite DEF Typed
<1>2. \A d \in Classes : Window(d) \in Seq(Jobs) /\ Q(d) \in Seq(Jobs)
  BY <1>1, WindowTyped, QueuedKeeps
<1>3. PICK k \in 1 .. n : s[k] = j
  BY DEF Hope
<1>4. job[j].status = "queued"
  BY DEF Hope
<1>5. \E i \in 1 .. Len(Window(c)) : Window(c)[i] = j
  <2>1. s \in Seq(Jobs) /\ Len(s) \in Nat /\ ScanDepth \in Nat
    BY <1>1, AdmissionAssumption
  <2>2. n \in 0 .. Len(s)
    BY <2>1 DEF AtMost
  <2>3. Window(c) = SubSeq(s, 1, n)
    BY DEF Window
  <2> HIDE DEF s, n
  <2>4. Len(SubSeq(s, 1, n)) = n /\ \A i \in 1 .. n : SubSeq(s, 1, n)[i] = s[i]
    BY <2>1, <2>2
  <2> QED
    BY <1>3, <2>3, <2>4
<1>6. \E i \in 1 .. Len(Q(c)) : Q(c)[i] = j
  <2> DEFINE w == Window(c)
  <2>1. w \in Seq(Jobs)
    BY <1>1, <1>2
  <2> HIDE DEF w
  <2>2. \A i \in 1 .. Len(w) : job[w[i]].status = "queued" =>
           \E x \in 1 .. Len(Queued(w)) : Queued(w)[x] = w[i]
    BY <2>1, QueuedKeeps
  <2> QED
    BY <1>4, <1>5, <2>2 DEF w
<1>7. /\ Q("siem") \in Seq(Jobs) /\ Q("chat") \in Seq(Jobs) /\ Q("parse") \in Seq(Jobs)
      /\ Q("batch") \in Seq(Jobs) /\ c \in {"siem", "chat", "parse", "batch"}
  BY <1>1, <1>2 DEF Classes
<1>8. Candidates = ((Q("siem") \o Q("chat")) \o Q("parse")) \o Q("batch")
  BY DEF Candidates
<1> HIDE DEF Q, c
<1> DEFINE ab == Q("siem") \o Q("chat")
           abc == ab \o Q("parse")
<1>9. ab \in Seq(Jobs) /\ abc \in Seq(Jobs)
  BY <1>7
<1> HIDE DEF ab, abc
<1>10. Has(Q(c), j)
  BY <1>6 DEF Has
<1>11. CASE c = "siem" \/ c = "chat"
  <2>1. Has(ab, j)
    BY <1>7, <1>10, <1>11, HasConcat DEF ab
  <2>2. Has(abc, j)
    BY <1>7, <1>9, <2>1, HasConcat DEF abc
  <2>3. Has(abc \o Q("batch"), j)
    BY <1>7, <1>9, <2>2, HasConcat
  <2> QED
    BY <1>8, <2>3 DEF Has, ab, abc
<1>12. CASE c = "parse"
  <2>1. Has(abc, j)
    BY <1>7, <1>9, <1>10, <1>12, HasConcat DEF abc
  <2>2. Has(abc \o Q("batch"), j)
    BY <1>7, <1>9, <2>1, HasConcat
  <2> QED
    BY <1>8, <2>2 DEF Has, ab, abc
<1>13. CASE c = "batch"
  <2>1. Has(abc \o Q("batch"), j)
    BY <1>7, <1>9, <1>10, <1>13, HasConcat
  <2> QED
    BY <1>8, <2>1 DEF Has, ab, abc
<1> QED
  BY <1>7, <1>11, <1>12, <1>13

\* A job that every live target would take is taken when its turn comes.
LEMMA HopeIsAdmitted ==
    ASSUME Typed, Consider, snapshot = [t \in alive |-> record[t]], Hope(Head(pass))
    PROVE  ~AllIdle'
<1> DEFINE j == Head(pass)
           t == PickTarget(Model(j))
           kind == DowngradedKind(j)
           cost == TokenCost[Model(j)][Kind(t)]
           mem == RequiredMb(t, Model(j), snapshot[t])
<1>1. pass # <<>>
  BY DEF Consider
<1>2. /\ j \in Jobs /\ t \in Targets /\ t \in DOMAIN snapshot /\ Class(j) \in Classes
      /\ cost \in Nat /\ mem \in Nat
  BY <1>1, Considered
<1>3. t \in alive /\ snapshot[t] = record[t]
  <2> HIDE DEF t
  <2> QED
    BY <1>2
<1>4. job[j].status = "queued" /\ Contains(pending[Class(j)], j)
  <2>1. PICK k \in 1 .. AtMost(ScanDepth, Len(pending[Class(j)])) : pending[Class(j)][k] = j
    BY DEF Hope
  <2>2. pending[Class(j)] \in Seq(Jobs)
    BY <1>2 DEF Typed
  <2>3. k \in 1 .. Len(pending[Class(j)])
    <3> DEFINE l == Len(pending[Class(j)])
    <3>1. l \in Nat /\ k \in 1 .. AtMost(ScanDepth, l) /\ ScanDepth \in Nat
      BY <2>2, AdmissionAssumption
    <3> HIDE DEF l
    <3>2. k \in 1 .. l
      BY <3>1 DEF AtMost
    <3> QED
      BY <3>2 DEF l
  <2>4. job[j].status = "queued"
    BY DEF Hope
  <2> QED
    BY <2>1, <2>3, <2>4 DEF Contains
<1>5. kind = Kind(t)
  <2>1. HasGpuWorker => job[j].kind = Kind(t)
    BY <1>3 DEF Hope
  <2>2. ~HasGpuWorker => Kind(t) = "cpu"
    BY <1>3 DEF HasGpuWorker, Kind
  <2> QED
    BY <2>1, <2>2 DEF DowngradedKind
<1>6. Admits(t, kind, Class(j), Model(j), snapshot[t], usage[t])
  <2>1. Admits(t, Kind(t), Class(j), Model(j), record[t], usage[t])
    BY <1>3 DEF Hope
  <2> QED
    BY <1>3, <1>5, <2>1
<1>7. usage' = [usage EXCEPT ![t] = Reserve(@, Class(j), cost, mem)]
  BY <1>4, <1>6 DEF Consider, Admissible, Charge, Cost, Mem
<1> HIDE DEF j, t, kind, cost, mem
<1>8. usage \in [Targets -> [Fields -> Nat]]
  BY DEF Typed
<1>9. usage'[t] = Reserve(usage[t], Class(j), cost, mem)
  BY <1>2, <1>7, <1>8
<1>10. Reserved(usage[t], Reserve(usage[t], Class(j), cost, mem), Class(j), cost, mem)
  BY <1>2, <1>8, ReserveShape
<1>11. usage'[t].active = usage[t].active + 1 /\ usage[t].active \in Nat
  BY <1>2, <1>8, <1>9, <1>10 DEF Reserved, Fields
<1>12. usage'[t].active # 0
  BY <1>11
<1> QED
  BY <1>2, <1>12 DEF AllIdle, Idle

\* A step of the scheduler that admits nothing gives no job hope that had none.
LEMMA HopeIsOld ==
    ASSUME Typed, NEW x \in Jobs, NEW k \in Jobs, Hope(k)',
           Skips \/ Keeps(x, DowngradedKind(x)), UNCHANGED <<alive, record>>
    PROVE  Hope(k)
<1>1. UNCHANGED <<pending, usage, refs>>
  BY DEF Skips, Keeps
<1>2. /\ job'[k].status = job[k].status
      /\ HasGpuWorker => job'[k].kind = job[k].kind
  <2>1. CASE Skips
    BY <2>1 DEF Skips
  <2>2. CASE Keeps(x, DowngradedKind(x))
    <3> DEFINE kind == DowngradedKind(x)
               r == [job[x] EXCEPT !.kind = kind]
    <3>1. job' = [job EXCEPT ![x] = r] /\ job \in [Jobs -> JobRecords]
      BY <2>2 DEF Keeps, Typed
    <3>2. r.status = job[x].status /\ r.kind = kind
      BY <3>1 DEF JobRecords
    <3>3. HasGpuWorker => kind = job[x].kind
      BY DEF DowngradedKind
    <3> HIDE DEF r, kind
    <3>4. job'[k] = IF k = x THEN r ELSE job[k]
      BY <3>1
    <3> QED
      BY <3>2, <3>3, <3>4
  <2> QED
    BY <2>1, <2>2
<1>3. HasGpuWorker' = HasGpuWorker
  BY DEF HasGpuWorker
<1>4. /\ job'[k].status = "queued"
      /\ \E i \in 1 .. AtMost(ScanDepth, Len(pending[Class(k)])) : pending[Class(k)][i] = k
      /\ \A t \in alive : HasGpuWorker => job'[k].kind = Kind(t)
  BY <1>1, <1>3 DEF Hope
<1>5. \A t \in alive : Admits(t, Kind(t), Class(k), Model(k), record[t], usage[t])'
  BY DEF Hope
<1>6. \A t \in alive : Admits(t, Kind(t), Class(k), Model(k), record[t], usage[t])
  BY <1>1, <1>5 DEF Admits, MemoryAllows, RequiredMb, ColdStart, Warm
<1> QED
  BY <1>2, <1>4, <1>6 DEF Hope

\* A step of the scheduler that admits makes a target busy.
LEMMA ConsiderAdmitsOrNot ==
    ASSUME Typed, Consider
    PROVE  Skips \/ Keeps(Head(pass), DowngradedKind(Head(pass))) \/ ~AllIdle'
<1> DEFINE j == Head(pass)
           t == PickTarget(Model(j))
           kind == DowngradedKind(j)
           cost == TokenCost[Model(j)][Kind(t)]
           mem == RequiredMb(t, Model(j), snapshot[t])
<1>1. /\ t \in Targets /\ Class(j) \in Classes /\ cost \in Nat /\ mem \in Nat
  BY Considered DEF Consider
<1>2. \/ Skips
      \/ Keeps(j, kind)
      \/ usage' = [usage EXCEPT ![t] = Reserve(@, Class(j), cost, mem)]
  BY DEF Consider, Skips, Keeps, Admissible, Charge, Cost, Mem
<1> HIDE DEF j, t, kind, cost, mem
<1>3. CASE usage' = [usage EXCEPT ![t] = Reserve(@, Class(j), cost, mem)]
  <2>1. usage \in [Targets -> [Fields -> Nat]]
    BY DEF Typed
  <2>2. usage'[t] = Reserve(usage[t], Class(j), cost, mem)
    BY <1>1, <1>3, <2>1
  <2>3. Reserved(usage[t], Reserve(usage[t], Class(j), cost, mem), Class(j), cost, mem)
    BY <1>1, <2>1, ReserveShape
  <2>4. usage'[t].active = usage[t].active + 1 /\ usage[t].active \in Nat
    BY <1>1, <2>1, <2>2, <2>3 DEF Reserved, Fields
  <2>5. usage'[t].active # 0
    BY <2>4
  <2> QED
    BY <1>1, <2>5 DEF AllIdle, Idle
<1> QED
  BY <1>2, <1>3 DEF j, kind

\* A candidate that the scheduler passes by had no hope.
LEMMA ConsiderAhead == Typed /\ Ahead /\ Consider => Ahead'
<1> SUFFICES ASSUME Typed, Ahead, Consider, calm'
             PROVE  /\ snapshot' = [t \in alive' |-> record'[t]]
                    /\ AllIdle' => \A k \in Jobs : Hope(k)' => InPass(k)'
  BY DEF Ahead
<1>1. UNCHANGED <<alive, record, snapshot, calm>> /\ pass # <<>> /\ pass' = Tail(pass)
  BY DEF Consider
<1>2. snapshot = [t \in alive |-> record[t]] /\ (AllIdle => \A k \in Jobs : Hope(k) => InPass(k))
  BY <1>1 DEF Ahead
<1>3. pass \in Seq(Jobs) /\ Head(pass) \in Jobs
  BY <1>1 DEF Typed
<1>4. ASSUME AllIdle', NEW k \in Jobs, Hope(k)'
      PROVE  InPass(k)'
  <2>1. Skips \/ Keeps(Head(pass), DowngradedKind(Head(pass)))
    BY <1>4, ConsiderAdmitsOrNot
  <2>2. Hope(k)
    BY <1>1, <1>3, <1>4, <2>1, HopeIsOld
  <2>3. UNCHANGED usage
    BY <2>1 DEF Skips, Keeps
  <2>4. AllIdle
    BY <1>4, <2>3 DEF AllIdle, Idle
  <2>5. PICK i \in 1 .. Len(pass) : pass[i] = k
    BY <1>2, <2>2, <2>4 DEF InPass
  <2>6. k # Head(pass)
    BY <1>2, <1>4, <2>2, HopeIsAdmitted
  <2>7. i # 1
    BY <1>1, <1>3, <2>5, <2>6
  <2>8. i - 1 \in 1 .. Len(Tail(pass)) /\ Tail(pass)[i - 1] = pass[i]
    BY <1>1, <1>3, <2>7
  <2> QED
    BY <1>1, <2>5, <2>8 DEF InPass
<1> QED
  BY <1>1, <1>2, <1>4

\* Every step keeps the jobs with hope ahead of the scheduler.
LEMMA NextAhead == Typed /\ Ahead /\ [Next]_vars => Ahead'
<1> SUFFICES ASSUME Typed, Ahead, [Next]_vars
             PROVE  Ahead'
  OBVIOUS
<1>1. CASE Consider
  BY <1>1, ConsiderAhead
<1>2. CASE SchedulerScan
  <2>1. pass' = Candidates /\ UNCHANGED <<pending, job, usage, refs, record, alive>>
        /\ snapshot' = [t \in alive |-> record[t]]
    BY <1>2 DEF SchedulerScan
  <2>2. ASSUME NEW k \in Jobs, Hope(k)'
        PROVE  InPass(k)'
    <3>1. Hope(k)
      BY <2>1, <2>2 DEF Hope, HasGpuWorker, Admits, MemoryAllows, RequiredMb, ColdStart, Warm
    <3> QED
      BY <2>1, <3>1, ScanFindsHope DEF InPass
  <2> QED
    BY <2>1, <2>2 DEF Ahead
<1>3. CASE EnqueueTest
  BY <1>3 DEF EnqueueTest, Ahead
<1>4. CASE \/ Cuts
           \/ \E j \in Jobs : EnqueuePush(j) \/ RequeueCut(j) \/ (\E r : Drops(j, r)) \/ \E r : Moves(j, r)
  <2>1. ~calm'
    BY <1>4 DEF EnqueuePush, Drops, Moves, Cuts, CutsJob, RequeueCut
  <2> QED
    BY <2>1 DEF Ahead
<1>5. CASE \E t \in Targets : HeartbeatExpires(t) \/ TargetReturns(t)
  <2>1. ~calm'
    BY <1>5 DEF HeartbeatExpires, TargetReturns
  <2> QED
    BY <2>1 DEF Ahead
<1>6. CASE \E t \in Targets : \E free \in FreeMb : \E loaded, busy : Heartbeat(t, free, loaded, busy)
  <2>1. ~calm'
    BY <1>6 DEF Heartbeat
  <2> QED
    BY <2>1 DEF Ahead
<1>7. CASE UNCHANGED vars
  <2>1. UNCHANGED <<pending, job, usage, refs, record, alive, snapshot, calm, pass>>
    BY <1>7 DEF vars
  <2>2. \A k \in Jobs : Hope(k)' => Hope(k)
    BY <2>1 DEF Hope, HasGpuWorker, Admits, MemoryAllows, RequiredMb, ColdStart, Warm
  <2>3. AllIdle' => AllIdle
    BY <2>1 DEF AllIdle, Idle
  <2> QED
    BY <2>1, <2>2, <2>3 DEF Ahead, InPass
<1> QED
  BY <1>1, <1>2, <1>3, <1>4, <1>5, <1>6, <1>7, NextSteps

\* A complete pass over an idle cluster, with nothing beside it, admits a job if
\* the window holds one that every live target would take: neither the order of
\* the classes, nor the scan window, nor the ranking of pick_target makes the
\* scheduler look past it.
THEOREM PassesMakeProgress == Spec => []PassMakesProgress
<1>1. Init => Ahead
  BY DEF Init, Ahead
<1>2. Typed /\ Ahead /\ [Next]_vars => Ahead'
  BY NextAhead
<1>3. Ahead => PassMakesProgress
  BY DEF Ahead, PassMakesProgress, AllIdle, InPass
<1> QED
  BY <1>1, <1>2, <1>3, StaysTyped, PTL DEF Spec

=============================================================================
