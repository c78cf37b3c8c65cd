-------------------------- MODULE SequenceLemmas ---------------------------
(***************************************************************************)
(* Facts about numbers and sequences that the proofs about tasks share.    *)
(*                                                                         *)
(* Among and FlattenSeq are recursive functions. What they compute is      *)
(* shown by the least number for which it would not hold, so that no       *)
(* operator is taken as a parameter: a set of numbers that is not empty    *)
(* has a least member since the intervals below its members are finite     *)
(* sets.                                                                   *)
(***************************************************************************)
EXTENDS TaskFamily, SequencesExt, FiniteSets, WellFoundedInduction, FiniteSetTheorems, TLAPS

-----------------------------------------------------------------------------
(* Numbers *)

\* A set of numbers that is not empty has a least member: the intervals below its
\* members are finite sets, and among finite sets there is one no other is part of.
LEMMA Least ==
  ASSUME NEW T \in SUBSET Nat, T # {}
  PROVE  \E n \in T : \A m \in T : n <= m
<1>. DEFINE R == StrictSubsetOrdering(Nat)
            U == {1..n : n \in T}
<1>1. IsWellFoundedOn(R, FiniteSubsetsOf(Nat))
  BY FS_StrictSubsetOrderingWellFounded
<1>2. U \subseteq FiniteSubsetsOf(Nat) /\ U # {}
  <2>1. \A n \in T : IsFiniteSet(1..n) BY FS_Interval
  <2>2. \A n \in T : 1..n \in SUBSET Nat OBVIOUS
  <2>3. \A n \in T : 1..n \in FiniteSubsetsOf(Nat) BY <2>1, <2>2 DEF FiniteSubsetsOf
  <2>. QED BY <2>3
<1>3. PICK x \in U : \A y \in U : ~ (<<y, x>> \in R)
  <2>. HIDE DEF R, U
  <2>. QED BY <1>1, <1>2, WFMin
<1>4. PICK n \in T : x = 1..n OBVIOUS
<1>5. ASSUME NEW m \in T, m < n PROVE FALSE
  <2>1. 1..m \in U OBVIOUS
  <2>2. 1..m \subseteq 1..n BY <1>5
  <2>3. n \in 1..n /\ n \notin 1..m BY <1>5
  <2>4. <<1..m, 1..n>> \in R BY <2>2, <2>3, <1>5 DEF StrictSubsetOrdering
  <2>. QED BY <2>1, <2>4, <1>3, <1>4
<1>. QED BY <1>5

\* Induction up to N: what holds of 0, and of n when it holds of n - 1, holds of all.
LEMMA UpTo ==
  ASSUME NEW N \in Nat, NEW T, 0 \in T, \A n \in 1..N : n - 1 \in T => n \in T
  PROVE  \A n \in 0..N : n \in T
<1>. DEFINE U == {n \in 0..N : n \notin T}
<1>1. SUFFICES ASSUME U # {} PROVE FALSE OBVIOUS
<1>2. PICK n \in U : \A m \in U : n <= m
  <2>1. U \in SUBSET Nat OBVIOUS
  <2>. QED BY <1>1, <2>1, Least
<1>3. n \in 1..N /\ n - 1 \in 0..N /\ n - 1 < n OBVIOUS
<1>4. n - 1 \in T BY <1>2, <1>3
<1>. QED BY <1>3, <1>4

\* A set of numbers up to N that is not empty has a greatest member.
LEMMA Greatest ==
  ASSUME NEW N \in Nat, NEW T \in SUBSET (0..N), T # {}
  PROVE  \E n \in T : \A m \in T : m <= n
<1>. DEFINE U == {N - n : n \in T}
<1>1. U \in SUBSET Nat /\ U # {}
  <2>1. \A n \in T : N - n \in Nat OBVIOUS
  <2>. QED BY <2>1
<1>2. PICK u \in U : \A v \in U : u <= v
  <2>. HIDE DEF U
  <2>. QED BY <1>1, Least
<1>3. PICK n \in T : u = N - n OBVIOUS
<1>4. ASSUME NEW m \in T PROVE m <= n
  <2>1. N - m \in U OBVIOUS
  <2>2. N - n <= N - m BY <1>2, <1>3, <2>1
  <2>3. n \in 0..N /\ m \in 0..N OBVIOUS
  <2>. QED BY <2>2, <2>3
<1>. QED BY <1>4

-----------------------------------------------------------------------------
(* Recursive functions *)

\* f has the values that its equation gives it: base, then what G makes of the one before.
Iterates(f, N, base, G) ==
  f = [i \in 0..N |-> IF i = 0 THEN base ELSE G[i][f[i - 1]]]

\* There is a function with these values: the functions up to n that have them,
\* one number after the other.
LEMMA Recursion ==
  ASSUME NEW N \in Nat, NEW D, NEW base \in D, NEW G \in [1..N -> [D -> D]]
  PROVE  \E f \in [0..N -> D] : Iterates(f, N, base, G)
<1>. DEFINE Good(f, n) == f \in [0..n -> D] /\ Iterates(f, n, base, G)
            T == {n \in 0..N : \E f : Good(f, n)}
<1>1. 0 \in T
  <2>1. Good([i \in 0..0 |-> base], 0) BY DEF Iterates
  <2>. HIDE DEF Good
  <2>. QED BY <2>1
<1>2. ASSUME NEW n \in 1..N, n - 1 \in T PROVE n \in T
  <2>1. PICK f : Good(f, n - 1) BY <1>2
  <2>2. /\ f \in [0..(n - 1) -> D]
        /\ \A i \in 0..(n - 1) : f[i] = IF i = 0 THEN base ELSE G[i][f[i - 1]]
    <3>1. f = [i \in 0..(n - 1) |-> IF i = 0 THEN base ELSE G[i][f[i - 1]]]
      BY <2>1 DEF Iterates
    <3>2. ASSUME NEW i \in 0..(n - 1) PROVE f[i] = IF i = 0 THEN base ELSE G[i][f[i - 1]]
      BY <3>1
    <3>. QED BY <2>1, <3>2
  <2>. DEFINE g == [i \in 0..n |-> IF i = n THEN G[n][f[n - 1]] ELSE f[i]]
  <2>3. f[n - 1] \in D /\ G[n][f[n - 1]] \in D BY <2>2
  <2>4. g \in [0..n -> D] BY <2>2, <2>3
  <2>5. ASSUME NEW i \in 0..n PROVE g[i] = IF i = 0 THEN base ELSE G[i][g[i - 1]]
    <3>1. CASE i = n
      <4>1. n # 0 /\ g[n - 1] = f[n - 1] /\ g[n] = G[n][f[n - 1]] OBVIOUS
      <4>. QED BY <4>1, <3>1
    <3>2. CASE i # n
      <4>1. i \in 0..(n - 1) /\ g[i] = f[i] BY <3>2
      <4>2. i # 0 => g[i - 1] = f[i - 1] BY <3>2
      <4>. QED BY <2>2, <4>1, <4>2
    <3>. QED BY <3>1, <3>2
  <2>6. g = [i \in 0..n |-> IF i = 0 THEN base ELSE G[i][g[i - 1]]]
    <3>1. g = [i \in 0..n |-> g[i]] BY <2>4
    <3>. HIDE DEF g
    <3>. QED BY <2>5, <3>1
  <2>7. Good(g, n)
    <3>. HIDE DEF g
    <3>. QED BY <2>4, <2>6 DEF Iterates
  <2>. HIDE DEF Good, g
  <2>. QED BY <2>7
<1>3. N \in T
  <2>. HIDE DEF T
  <2>1. \A n \in 1..N : n - 1 \in T => n \in T BY <1>2
  <2>2. \A n \in 0..N : n \in T BY <1>1, <2>1, UpTo
  <2>. QED BY <2>2
<1>. QED BY <1>3

\* What its equation says of such a function. (Two definitions that leaves keep
\* closed.)
Operates(N, D, base, G) == N \in Nat /\ base \in D /\ G \in [1..N -> [D -> D]]
Steps(f, N, D, base, G) == f \in [0..N -> D] /\ f[0] = base /\ \A i \in 1..N : f[i] = G[i][f[i - 1]]

\* Such a function stays in D and makes each step as G says.
LEMMA IterationSteps ==
  ASSUME NEW N, NEW D, NEW base, NEW G, NEW f, Operates(N, D, base, G), Iterates(f, N, base, G)
  PROVE  Steps(f, N, D, base, G)
<1>. N \in Nat /\ base \in D /\ G \in [1..N -> [D -> D]] BY DEF Operates
<1>1. DOMAIN f = 0..N /\ f = [i \in 0..N |-> f[i]]
  <2>. DEFINE R == [i \in 0..N |-> IF i = 0 THEN base ELSE G[i][f[i - 1]]]
  <2>1. f = R BY DEF Iterates
  <2>2. DOMAIN R = 0..N /\ R = [i \in 0..N |-> R[i]] OBVIOUS
  <2>. HIDE DEF R
  <2>. QED BY <2>1, <2>2
<1>2. ASSUME NEW i \in 0..N PROVE f[i] = IF i = 0 THEN base ELSE G[i][f[i - 1]]
  <2>. DEFINE R == [j \in 0..N |-> IF j = 0 THEN base ELSE G[j][f[j - 1]]]
  <2>1. f = R BY DEF Iterates
  <2>2. R[i] = IF i = 0 THEN base ELSE G[i][f[i - 1]] OBVIOUS
  <2>. HIDE DEF R
  <2>. QED BY <2>1, <2>2
<1>3. f[0] = base BY <1>2
<1>4. \A i \in 1..N : f[i] = G[i][f[i - 1]]
  <2>1. ASSUME NEW i \in 1..N PROVE i \in 0..N /\ i # 0 OBVIOUS
  <2>. QED BY <1>2, <2>1
<1>. DEFINE T == {i \in 0..N : f[i] \in D}
<1>5. 0 \in T BY <1>3
<1>6. ASSUME NEW n \in 1..N, n - 1 \in T PROVE n \in T
  <2>1. f[n - 1] \in D BY <1>6
  <2>2. G[n][f[n - 1]] \in D BY <2>1
  <2>. QED BY <1>4, <2>2
<1>7. \A n \in 0..N : n \in T
  <2>. HIDE DEF T
  <2>. QED BY <1>5, <1>6, UpTo
<1>8. f \in [0..N -> D]
  <2>1. \A i \in 0..N : f[i] \in D BY <1>7
  <2>. QED BY <1>1, <2>1
<1>. QED BY <1>3, <1>4, <1>8 DEF Steps

\* The same when each number has a set of values of its own, and G leads from one
\* to the next.
Stages(N, V, base, G) ==
  N \in Nat /\ base \in V[0] /\ \A i \in 1..N : \A d \in V[i - 1] : G[i][d] \in V[i]

\* There is such a function, and it goes from one of these sets to the next.
LEMMA StagedRecursion ==
  ASSUME NEW N, NEW V, NEW base, NEW G, Stages(N, V, base, G)
  PROVE  \E f : Iterates(f, N, base, G) /\ \A i \in 0..N : f[i] \in V[i]
<1>. DEFINE D == UNION {V[i] : i \in 0..N}
            Step(i, d) == IF d \in V[i - 1] THEN G[i][d] ELSE d
            H == [i \in 1..N |-> [d \in D |-> Step(i, d)]]
<1>0. /\ N \in Nat /\ base \in V[0]
      /\ \A i \in 1..N : \A d \in V[i - 1] : G[i][d] \in V[i]
  BY DEF Stages
<1>1. base \in D /\ \A i \in 0..N : V[i] \subseteq D
  <2>1. 0 \in 0..N BY <1>0
  <2>. QED BY <1>0, <2>1
<1>2. H \in [1..N -> [D -> D]]
  <2>1. ASSUME NEW i \in 1..N, NEW d \in D PROVE Step(i, d) \in D
    <3>1. i \in 0..N BY <1>0
    <3>. HIDE DEF D
    <3>. QED BY <1>0, <1>1, <3>1
  <2>. HIDE DEF D, Step
  <2>. QED BY <2>1
<1>3. PICK f \in [0..N -> D] : Iterates(f, N, base, H)
  <2>. HIDE DEF D, H
  <2>. QED BY <1>0, <1>1, <1>2, Recursion
<1>4. Steps(f, N, D, base, H)
  <2>. HIDE DEF D, H
  <2>1. Operates(N, D, base, H) BY <1>0, <1>1, <1>2 DEF Operates
  <2>. QED BY <1>3, <2>1, IterationSteps
<1>5. f[0] = base /\ \A i \in 1..N : f[i] = Step(i, f[i - 1])
  <2>1. f[0] = base /\ \A i \in 1..N : f[i] = H[i][f[i - 1]]
    <3>. HIDE DEF D, H
    <3>. QED BY <1>4 DEF Steps
  <2>2. ASSUME NEW i \in 1..N PROVE i - 1 \in 0..N BY <1>0
  <2>. HIDE DEF D, Step
  <2>. QED BY <2>1, <2>2
<1>. DEFINE T == {i \in 0..N : f[i] \in V[i]}
<1>6. 0 \in T BY <1>0, <1>5
<1>7. ASSUME NEW n \in 1..N, n - 1 \in T PROVE n \in T
  <2>1. n \in 0..N /\ f[n - 1] \in V[n - 1] BY <1>0, <1>7
  <2>2. f[n] = G[n][f[n - 1]] BY <1>5, <2>1
  <2>. QED BY <1>0, <2>1, <2>2
<1>8. \A n \in 0..N : f[n] \in V[n]
  <2>1. \A n \in 0..N : n \in T
    <3>. HIDE DEF T
    <3>. QED BY <1>0, <1>6, <1>7, UpTo
  <2>. QED BY <2>1
<1>9. Iterates(f, N, base, G)
  <2>1. ASSUME NEW i \in 0..N PROVE f[i] = IF i = 0 THEN base ELSE G[i][f[i - 1]]
    <3>1. CASE i = 0 BY <1>5, <3>1
    <3>2. CASE i # 0
      <4>1. i \in 1..N /\ i - 1 \in 0..N BY <1>0, <3>2
      <4>. QED BY <1>5, <1>8, <3>2, <4>1
    <3>. QED BY <3>1, <3>2
  <2>2. f = [i \in 0..N |-> f[i]]
    <3>. HIDE DEF D
    <3>. QED OBVIOUS
  <2>3. f = [i \in 0..N |-> IF i = 0 THEN base ELSE G[i][f[i - 1]]]
    <3>. HIDE DEF D
    <3>. QED BY <2>1, <2>2
  <2>. QED BY <2>3 DEF Iterates
<1>. QED BY <1>8, <1>9

-----------------------------------------------------------------------------
(* Sequences *)

\* The elements of a sequence that got longer.
LEMMA AppendRange ==
  ASSUME NEW E, NEW s \in Seq(E), NEW x \in E
  PROVE  Append(s, x) \in Seq(E) /\ Range(Append(s, x)) = Range(s) \cup {x}
<1>. DEFINE a == Append(s, x)
<1>1. a \in Seq(E) OBVIOUS
<1>2. /\ Len(s) \in Nat /\ Len(a) = Len(s) + 1 /\ a[Len(s) + 1] = x
      /\ DOMAIN a = 1..Len(a) /\ DOMAIN s = 1..Len(s)
      /\ \A i \in 1..Len(s) : a[i] = s[i]
  OBVIOUS
<1>. HIDE DEF a
<1>3. Len(s) + 1 \in 1..Len(a) /\ \A i \in 1..Len(s) : i \in 1..Len(a) BY <1>2
<1>4. \A i \in 1..Len(a) : i \in 1..Len(s) \/ i = Len(s) + 1 BY <1>2
<1>5. Range(s) \cup {x} \subseteq Range(a) BY <1>2, <1>3 DEF Range
<1>6. Range(a) \subseteq Range(s) \cup {x} BY <1>2, <1>4 DEF Range
<1>. QED BY <1>1, <1>5, <1>6 DEF a

\* The elements of two sequences one after the other.
LEMMA ConcatRange ==
  ASSUME NEW E, NEW a \in Seq(E), NEW b \in Seq(E)
  PROVE  a \o b \in Seq(E) /\ Range(a \o b) = Range(a) \cup Range(b)
<1>1. /\ a \o b \in Seq(E) /\ Len(a) \in Nat /\ Len(b) \in Nat
      /\ DOMAIN (a \o b) = 1..(Len(a) + Len(b)) /\ DOMAIN a = 1..Len(a) /\ DOMAIN b = 1..Len(b)
  OBVIOUS
<1>2. /\ \A i \in 1..Len(a) : i \in 1..(Len(a) + Len(b)) /\ (a \o b)[i] = a[i]
      /\ \A i \in 1..Len(b) : Len(a) + i \in 1..(Len(a) + Len(b)) /\ (a \o b)[Len(a) + i] = b[i]
  OBVIOUS
<1>3. ASSUME NEW i \in 1..(Len(a) + Len(b)) PROVE (a \o b)[i] \in Range(a) \cup Range(b)
  <2>1. CASE i \in 1..Len(a) BY <1>1, <1>2, <2>1 DEF Range
  <2>2. CASE i \notin 1..Len(a)
    <3>1. i - Len(a) \in 1..Len(b) /\ i = Len(a) + (i - Len(a)) BY <1>1, <2>2
    <3>2. PICK j \in 1..Len(b) : i = Len(a) + j BY <3>1
    <3>. QED BY <1>1, <1>2, <3>2 DEF Range
  <2>. QED BY <2>1, <2>2
<1>4. Range(a \o b) \subseteq Range(a) \cup Range(b) BY <1>1, <1>3 DEF Range
<1>5. Range(a) \cup Range(b) \subseteq Range(a \o b) BY <1>1, <1>2 DEF Range
<1>. QED BY <1>1, <1>4, <1>5

\* Only members of X are in s more than once.
Once(s, X) == \A i, j \in 1..Len(s) : s[i] = s[j] /\ i # j => s[i] \in X

\* An element that is new, or may come again, keeps a sequence without duplicates.
LEMMA AppendOnce ==
  ASSUME NEW E, NEW s \in Seq(E), NEW x \in E, NEW X, Once(s, X), x \in Range(s) => x \in X
  PROVE  Once(Append(s, x), X)
<1>. DEFINE a == Append(s, x)
<1>1. /\ Len(s) \in Nat /\ Len(a) = Len(s) + 1 /\ a[Len(s) + 1] = x /\ DOMAIN s = 1..Len(s)
      /\ \A i \in 1..Len(s) : a[i] = s[i]
  OBVIOUS
<1>. HIDE DEF a
<1>2. \A i \in 1..Len(a) : i \in 1..Len(s) \/ i = Len(s) + 1 BY <1>1
<1>3. \A i \in 1..Len(s) : s[i] = x => x \in X BY <1>1 DEF Range
<1>4. SUFFICES ASSUME NEW i \in 1..Len(a), NEW j \in 1..Len(a), a[i] = a[j], i # j PROVE a[i] \in X
  BY DEF Once, a
<1>5. CASE i \in 1..Len(s) /\ j \in 1..Len(s) BY <1>1, <1>4, <1>5 DEF Once
<1>6. CASE i \in 1..Len(s) /\ j = Len(s) + 1 BY <1>1, <1>3, <1>4, <1>6
<1>7. CASE i = Len(s) + 1 /\ j \in 1..Len(s) BY <1>1, <1>3, <1>4, <1>7
<1>. QED BY <1>2, <1>4, <1>5, <1>6, <1>7

\* Sequences without common elements keep each other without duplicates.
LEMMA ConcatOnce ==
  ASSUME NEW E, NEW a \in Seq(E), NEW b \in Seq(E), NEW X, Once(a, X), Once(b, X),
         Range(a) \cap Range(b) = {}
  PROVE  Once(a \o b, X)
<1>. DEFINE c == a \o b
<1>1. /\ Len(a) \in Nat /\ Len(b) \in Nat /\ Len(c) = Len(a) + Len(b)
      /\ DOMAIN a = 1..Len(a) /\ DOMAIN b = 1..Len(b)
  OBVIOUS
<1>2. /\ \A i \in 1..Len(a) : c[i] = a[i]
      /\ \A i \in 1..Len(b) : c[Len(a) + i] = b[i]
  OBVIOUS
<1>. HIDE DEF c
<1>3. ASSUME NEW i \in 1..Len(c), i \notin 1..Len(a)
      PROVE  i - Len(a) \in 1..Len(b) /\ i = Len(a) + (i - Len(a)) /\ c[i] = b[i - Len(a)]
  <2>1. i - Len(a) \in 1..Len(b) /\ i = Len(a) + (i - Len(a)) BY <1>1, <1>3
  <2>2. PICK j \in 1..Len(b) : i = Len(a) + j /\ j = i - Len(a) BY <2>1
  <2>. QED BY <1>2, <2>1, <2>2
<1>4. \A i \in 1..Len(a), j \in 1..Len(b) : a[i] # b[j] BY <1>1 DEF Range
<1>5. SUFFICES ASSUME NEW i \in 1..Len(c), NEW j \in 1..Len(c), c[i] = c[j], i # j PROVE c[i] \in X
  BY DEF Once, c
<1>6. CASE i \in 1..Len(a) /\ j \in 1..Len(a) BY <1>2, <1>5, <1>6 DEF Once
<1>7. CASE i \in 1..Len(a) /\ j \notin 1..Len(a) BY <1>2, <1>3, <1>4, <1>5, <1>7
<1>8. CASE i \notin 1..Len(a) /\ j \in 1..Len(a) BY <1>2, <1>3, <1>4, <1>5, <1>8
<1>9. CASE i \notin 1..Len(a) /\ j \notin 1..Len(a)
  <2>1. i - Len(a) # j - Len(a) BY <1>1, <1>3, <1>5, <1>9
  <2>2. b[i - Len(a)] = b[j - Len(a)] BY <1>3, <1>5, <1>9
  <2>3. b[i - Len(a)] \in X
    <3>1. \A k, l \in 1..Len(b) : b[k] = b[l] /\ k # l => b[k] \in X BY DEF Once
    <3>2. i - Len(a) \in 1..Len(b) /\ j - Len(a) \in 1..Len(b) BY <1>3, <1>9
    <3>. QED BY <2>1, <2>2, <3>1, <3>2, Zenon
  <2>. QED BY <1>3, <1>9, <2>3
<1>. QED BY <1>6, <1>7, <1>8, <1>9

\* Among keeps the elements of s that are in S, in their order: each comes from a
\* position of its own, later ones from later positions.
Comes(kept, s, n, S, position) ==
  /\ position \in [1..Len(kept) -> 1..n]
  /\ \A i \in 1..Len(kept) : kept[i] = s[position[i]] /\ kept[i] \in S
  /\ \A i, j \in 1..Len(kept) : i < j => position[i] < position[j]
  /\ \A k \in 1..n : s[k] \in S => \E i \in 1..Len(kept) : position[i] = k

\* The next element is kept at the end when it is in S, and left out otherwise.
LEMMA ComesNext ==
  ASSUME NEW E, NEW s \in Seq(E), NEW S, NEW n \in 1..Len(s), NEW kept \in Seq(E),
         NEW position, Comes(kept, s, n - 1, S, position)
  PROVE  \E p : Comes(IF s[n] \in S THEN Append(kept, s[n]) ELSE kept, s, n, S, p)
<1>. n \in Nat /\ n >= 1 /\ 1..(n - 1) \subseteq 1..n /\ Len(kept) \in Nat OBVIOUS
<1>. DEFINE L == Len(kept)
<1>1. /\ position \in [1..L -> 1..(n - 1)]
      /\ \A i \in 1..L : kept[i] = s[position[i]] /\ kept[i] \in S
      /\ \A i, j \in 1..L : i < j => position[i] < position[j]
      /\ \A k \in 1..(n - 1) : s[k] \in S => \E i \in 1..L : position[i] = k
  BY DEF Comes
<1>2. CASE s[n] \notin S
  <2>1. position \in [1..L -> 1..n] BY <1>1
  <2>2. \A k \in 1..n : s[k] \in S => k \in 1..(n - 1) BY <1>2
  <2>3. Comes(kept, s, n, S, position) BY <1>1, <2>1, <2>2 DEF Comes
  <2>. QED BY <1>2, <2>3
<1>3. CASE s[n] \in S
  <2>. DEFINE longer == Append(kept, s[n])
              p == [i \in 1..(L + 1) |-> IF i = L + 1 THEN n ELSE position[i]]
  <2>0. s[n] \in E OBVIOUS
  <2>1. /\ Len(longer) = L + 1 /\ longer[L + 1] = s[n]
        /\ \A i \in 1..L : longer[i] = kept[i]
    BY <2>0
  <2>2. \A i \in 1..L : position[i] \in 1..(n - 1) /\ p[i] = position[i]
    <3>1. ASSUME NEW i \in 1..L PROVE position[i] \in 1..(n - 1)
      <4>. HIDE DEF L, p
      <4>. QED BY <1>1
    <3>2. ASSUME NEW i \in 1..L PROVE p[i] = position[i]
      <4>1. i \in 1..(L + 1) /\ i # L + 1 OBVIOUS
      <4>. HIDE DEF L
      <4>. QED BY <4>1
    <3>. QED BY <3>1, <3>2
  <2>3. p[L + 1] = n OBVIOUS
  <2>4. \A i \in 1..(L + 1) : i \in 1..L \/ i = L + 1 OBVIOUS
  <2>5. p \in [1..(L + 1) -> 1..n]
    <3>1. \A i \in 1..(L + 1) : (IF i = L + 1 THEN n ELSE position[i]) \in 1..n
      <4>1. n \in 1..n OBVIOUS
      <4>2. \A i \in 1..L : position[i] \in 1..n BY <2>2
      <4>. HIDE DEF L
      <4>. QED BY <2>4, <4>1, <4>2
    <3>. QED BY <3>1
  <2>. HIDE DEF longer, p, L
  <2>6. \A i \in 1..(L + 1) : longer[i] = s[p[i]] /\ longer[i] \in S
    BY <1>1, <1>3, <2>1, <2>2, <2>3, <2>4
  <2>7. ASSUME NEW i \in 1..(L + 1), NEW j \in 1..(L + 1), i < j PROVE p[i] < p[j]
    <3>0. L \in Nat BY DEF L
    <3>1. i \in 1..L BY <2>7, <3>0
    <3>2. CASE j = L + 1 BY <3>1, <3>2, <2>2, <2>3
    <3>3. CASE j \in 1..L BY <3>1, <3>3, <2>2, <2>7, <1>1
    <3>. QED BY <2>4, <3>2, <3>3
  <2>8. ASSUME NEW k \in 1..n, s[k] \in S PROVE \E i \in 1..(L + 1) : p[i] = k
    <3>0. L \in Nat BY DEF L
    <3>1. CASE k = n
      <4>1. L + 1 \in 1..(L + 1) BY <3>0
      <4>. QED BY <3>1, <2>3, <4>1
    <3>2. CASE k # n
      <4>1. k \in 1..(n - 1) BY <3>2
      <4>2. PICK i \in 1..L : position[i] = k BY <4>1, <2>8, <1>1
      <4>3. i \in 1..(L + 1) BY <3>0
      <4>. QED BY <4>2, <4>3, <2>2
    <3>. QED BY <3>1, <3>2
  <2>9. Comes(longer, s, n, S, p) BY <2>1, <2>5, <2>6, <2>7, <2>8 DEF Comes
  <2>. QED BY <1>3, <2>9 DEF longer
<1>. QED BY <1>2, <1>3

\* What Among keeps are the elements in S, each from its position.
LEMMA AmongKeepsOrder ==
  ASSUME NEW E, NEW s \in Seq(E), NEW S
  PROVE  Among(s, S) \in Seq(E) /\ \E position : Comes(Among(s, S), s, Len(s), S, position)
<1>. DEFINE N == Len(s)
            D == Seq(E)
            Step(i, d) == IF s[i] \in S THEN Append(d, s[i]) ELSE d
            G == [i \in 1..N |-> [d \in D |-> Step(i, d)]]
            Is(f) == f = [i \in 0..N |-> IF i = 0 THEN <<>> ELSE Step(i, f[i - 1])]
<1>0. N \in Nat /\ <<>> \in D /\ \A i \in 1..N : s[i] \in E OBVIOUS
<1>1. \A i \in 1..N, d \in D : Step(i, d) \in D BY <1>0
<1>11. G \in [1..N -> [D -> D]]
  <2>. HIDE DEF D, N, Step
  <2>. QED BY <1>1
<1>2. ASSUME NEW f \in [0..N -> D] PROVE Is(f) <=> Iterates(f, N, <<>>, G)
  <2>1. ASSUME NEW i \in 0..N, i # 0 PROVE Step(i, f[i - 1]) = G[i][f[i - 1]]
    <3>1. i \in 1..N /\ i - 1 \in 0..N BY <2>1, <1>0
    <3>. HIDE DEF N, D, Step
    <3>. QED BY <3>1
  <2>. HIDE DEF G, N, D, Step
  <2>. QED BY <2>1 DEF Iterates
<1>3. PICK f \in [0..N -> D] : Iterates(f, N, <<>>, G)
  <2>. HIDE DEF N, D, G
  <2>. QED BY <1>0, <1>11, Recursion
<1>4. PICK k : k = (CHOOSE g : Is(g)) OBVIOUS
<1>5. Is(k)
  <2>1. Is(f) BY <1>2, <1>3
  <2>. HIDE DEF Is
  <2>. QED BY <2>1, <1>4
<1>6. Among(s, S) = k[N] BY <1>4 DEF Among
<1>. DEFINE T == {n \in 0..N : k[n] \in D /\ \E position : Comes(k[n], s, n, S, position)}
<1>7. k[0] = <<>> /\ \A n \in 1..N : k[n] = Step(n, k[n - 1])
  <2>1. \A n \in 0..N : k[n] = IF n = 0 THEN <<>> ELSE Step(n, k[n - 1])
    <3>. HIDE DEF N, Step
    <3>. QED BY <1>5
  <2>2. 0 \in 0..N /\ \A n \in 1..N : n \in 0..N /\ n # 0 BY <1>0
  <2>. HIDE DEF N, Step
  <2>. QED BY <2>1, <2>2
<1>8. 0 \in T
  <2>1. Comes(<<>>, s, 0, S, [i \in 1..0 |-> 0]) BY DEF Comes
  <2>2. 0 \in 0..N /\ k[0] \in D BY <1>0, <1>7
  <2>3. Comes(k[0], s, 0, S, [i \in 1..0 |-> 0]) BY <2>1, <1>7
  <2>. HIDE DEF Comes, D, N
  <2>. QED BY <2>2, <2>3
<1>9. ASSUME NEW n \in 1..N, n - 1 \in T PROVE n \in T
  <2>0. n \in 0..N OBVIOUS
  <2>1. PICK position : k[n - 1] \in D /\ Comes(k[n - 1], s, n - 1, S, position) BY <1>9
  <2>2. \E p : Comes(k[n], s, n, S, p)
    <3>. HIDE DEF Comes
    <3>. QED BY <2>1, <1>7, ComesNext
  <2>3. k[n] \in D
    <3>. HIDE DEF D, N, Step
    <3>. QED BY <1>1, <1>7, <2>1
  <2>. HIDE DEF Comes, D
  <2>. QED BY <2>0, <2>2, <2>3
<1>10. N \in T
  <2>. HIDE DEF T, N
  <2>1. \A n \in 1..N : n - 1 \in T => n \in T BY <1>9
  <2>2. \A n \in 0..N : n \in T BY <1>0, <1>8, <2>1, UpTo
  <2>. QED BY <1>0, <2>2
<1>. HIDE DEF Is, G
<1>. QED BY <1>6, <1>10

\* Its elements are those of s in S.
LEMMA AmongRange ==
  ASSUME NEW E, NEW s \in Seq(E), NEW S
  PROVE  Among(s, S) \in Seq(E) /\ Range(Among(s, S)) = Range(s) \cap S
<1>. DEFINE a == Among(s, S)
<1>1. a \in Seq(E) /\ \E position : Comes(a, s, Len(s), S, position) BY AmongKeepsOrder
<1>. HIDE DEF a
<1>2. PICK position : Comes(a, s, Len(s), S, position) BY <1>1
<1>3. DOMAIN a = 1..Len(a) /\ DOMAIN s = 1..Len(s) BY <1>1
<1>4. ASSUME NEW x \in Range(a) PROVE x \in Range(s) \cap S
  <2>1. PICK i \in 1..Len(a) : x = a[i] BY <1>3 DEF Range
  <2>2. a[i] \in S /\ position[i] \in 1..Len(s) /\ a[i] = s[position[i]] BY <1>2 DEF Comes
  <2>. QED BY <1>3, <2>1, <2>2 DEF Range
<1>5. ASSUME NEW x \in Range(s), x \in S PROVE x \in Range(a)
  <2>1. PICK k \in 1..Len(s) : x = s[k] BY <1>3 DEF Range
  <2>2. PICK i \in 1..Len(a) : position[i] = k BY <1>2, <1>5, <2>1 DEF Comes
  <2>3. a[i] = x BY <2>1, <2>2, <1>2 DEF Comes
  <2>. QED BY <1>3, <2>3 DEF Range
<1>6. Range(a) = Range(s) \cap S BY <1>4, <1>5
<1>. QED BY <1>1, <1>6 DEF a

\* The elements of a finite set in some order, each of them once.
LEMMA SetToSeqElements ==
  ASSUME NEW S, IsFiniteSet(S)
  PROVE  /\ SetToSeq(S) \in Seq(S) /\ Range(SetToSeq(S)) = S
         /\ \A i, j \in 1..Len(SetToSeq(S)) : SetToSeq(S)[i] = SetToSeq(S)[j] => i = j
<1>. DEFINE n == Cardinality(S)
<1>1. n \in Nat /\ ExistsBijection(1..n, S) BY FS_CardinalityType
<1>2. \E f \in [1..n -> S] : IsInjective(f)
  BY <1>1 DEF ExistsBijection, Bijection, Injection, IsInjective
<1>3. PICK q : q = SetToSeq(S) OBVIOUS
<1>4. q \in [1..n -> S] /\ IsInjective(q)
  <2>. HIDE DEF n, IsInjective
  <2>. QED BY <1>2, <1>3 DEF SetToSeq, n
<1>5. q \in Seq(S) /\ Len(q) = n /\ DOMAIN q = 1..n BY <1>1, <1>4
<1>6. \A i, j \in 1..Len(q) : q[i] = q[j] => i = j BY <1>4, <1>5 DEF IsInjective
<1>7. Range(q) = S
  <2>1. q \in Injection(1..n, S)
    <3>. HIDE DEF n
    <3>. QED BY <1>4 DEF Injection, IsInjective
  <2>2. IsFiniteSet(1..n) /\ Cardinality(1..n) = n
    <3>1. 0 \in Nat /\ 1 \in Int /\ n \in Int BY <1>1
    <3>2. IsFiniteSet(1..n) /\ Cardinality(1..n) = IF 1 > n THEN 0 ELSE n - 1 + 1
      <4>. HIDE DEF n
      <4>. QED BY <3>1, FS_Interval
    <3>. HIDE DEF n
    <3>. QED BY <1>1, <3>2
  <2>3. q \in Surjection(1..n, S)
    <3>. HIDE DEF n
    <3>1. Cardinality(1..n) = Cardinality(S) BY <2>2 DEF n
    <3>. QED BY <2>1, <3>1, FS_Injection
  <2>4. \A x \in S : \E i \in 1..n : q[i] = x
    <3>. HIDE DEF n
    <3>. QED BY <2>3 DEF Surjection
  <2>5. \A i \in 1..n : q[i] \in S BY <1>4
  <2>. QED BY <1>5, <2>4, <2>5 DEF Range
<1>. HIDE DEF n
<1>. QED BY <1>3, <1>5, <1>6, <1>7

\* The elements of its sequences, one sequence after the other.
LEMMA FlattenSeqRange ==
  ASSUME NEW E, NEW ss \in Seq(Seq(E))
  PROVE  FlattenSeq(ss) \in Seq(E) /\ Range(FlattenSeq(ss)) = UNION {Range(ss[i]) : i \in 1..Len(ss)}
<1>. DEFINE N == Len(ss)
            D == Seq(E)
            Step(i, d) == IF i = 1 THEN ss[i] ELSE d \o ss[i]
            G == [i \in 1..N |-> [d \in D |-> Step(i, d)]]
            Is(f) == f = [i \in 1..N |-> IF i = 1 THEN ss[i] ELSE f[i - 1] \o ss[i]]
            Parts(n) == UNION {Range(ss[i]) : i \in 1..n}
<1>0. N \in Nat /\ <<>> \in D /\ \A i \in 1..N : ss[i] \in D OBVIOUS
<1>1. \A i \in 1..N, d \in D : Step(i, d) \in D BY <1>0
<1>2. CASE N = 0
  <2>1. FlattenSeq(ss) = <<>> /\ ss = <<>> BY <1>2 DEF FlattenSeq
  <2>2. Range(<<>>) = {} BY DEF Range
  <2>3. {Range(ss[i]) : i \in 1..Len(ss)} = {} BY <1>2
  <2>. QED BY <2>1, <2>2, <2>3
<1>3. CASE N # 0
  <2>1. G \in [1..N -> [D -> D]]
    <3>. HIDE DEF D, N, Step
    <3>. QED BY <1>1
  <2>2. PICK g \in [0..N -> D] : Iterates(g, N, <<>>, G)
    <3>. HIDE DEF N, D, G
    <3>. QED BY <1>0, <2>1, Recursion
  <2>3. \A i \in 1..N : g[i] = Step(i, g[i - 1])
    <3>1. g \in [0..N -> D] /\ g[0] = <<>> /\ \A i \in 1..N : g[i] = G[i][g[i - 1]]
      <4>1. Operates(N, D, <<>>, G)
        <5>1. N \in Nat /\ <<>> \in D BY <1>0
        <5>. HIDE DEF N, D, G
        <5>. QED BY <2>1, <5>1 DEF Operates
      <4>. HIDE DEF N, D, G
      <4>2. Steps(g, N, D, <<>>, G) BY <2>2, <4>1, IterationSteps
      <4>. QED BY <4>2 DEF Steps
    <3>2. ASSUME NEW i \in 1..N PROVE g[i - 1] \in D
      <4>1. i - 1 \in 0..N BY <1>0
      <4>. HIDE DEF D, N
      <4>. QED BY <4>1
    <3>. HIDE DEF D, N, Step
    <3>. QED BY <3>1, <3>2
  <2>. DEFINE f == [i \in 1..N |-> g[i]]
  <2>4. Is(f)
    <3>1. ASSUME NEW i \in 1..N PROVE f[i] = IF i = 1 THEN ss[i] ELSE f[i - 1] \o ss[i]
      <4>1. i # 1 => i - 1 \in 1..N /\ f[i - 1] = g[i - 1] BY <1>0
      <4>. QED BY <2>3, <4>1
    <3>2. f = [i \in 1..N |-> f[i]] OBVIOUS
    <3>. HIDE DEF f, N
    <3>. QED BY <3>1, <3>2
  <2>5. PICK k : k = (CHOOSE h : Is(h)) OBVIOUS
  <2>6. Is(k)
    <3>. HIDE DEF Is, f
    <3>. QED BY <2>4, <2>5
  <2>7. FlattenSeq(ss) = k[N] BY <1>3, <2>5 DEF FlattenSeq
  <2>8. \A i \in 1..N : k[i] = IF i = 1 THEN ss[i] ELSE k[i - 1] \o ss[i]
    <3>. HIDE DEF N
    <3>. QED BY <2>6
  <2>. DEFINE T == {n \in 0..N : n = 0 \/ (k[n] \in D /\ Range(k[n]) = Parts(n))}
  <2>9. 0 \in T BY <1>0
  <2>10. ASSUME NEW n \in 1..N, n - 1 \in T PROVE n \in T
    <3>1. n \in 0..N /\ n \in Nat BY <1>0
    <3>2. CASE n = 1
      <4>1. k[n] = ss[1] BY <2>8, <3>2
      <4>2. Parts(n) = Range(ss[1]) BY <3>2
      <4>. HIDE DEF Parts, D, N
      <4>. QED BY <1>0, <3>1, <3>2, <4>1, <4>2
    <3>3. CASE n # 1
      <4>1. k[n - 1] \in D /\ Range(k[n - 1]) = Parts(n - 1) BY <2>10, <3>3
      <4>2. k[n] = k[n - 1] \o ss[n] BY <2>8, <3>3
      <4>3. Range(k[n - 1] \o ss[n]) = Range(k[n - 1]) \cup Range(ss[n])
        BY <1>0, <4>1, ConcatRange
      <4>4. Parts(n) = Parts(n - 1) \cup Range(ss[n])
        <5>1. \A i : i \in 1..n <=> i \in 1..(n - 1) \/ i = n BY <3>1
        <5>. QED BY <5>1
      <4>5. k[n] \in D BY <1>0, <4>1, <4>2
      <4>. HIDE DEF Parts, D, N
      <4>. QED BY <3>1, <4>1, <4>2, <4>3, <4>4, <4>5
    <3>. QED BY <3>2, <3>3
  <2>11. N \in T
    <3>. HIDE DEF T, N
    <3>1. \A n \in 1..N : n - 1 \in T => n \in T BY <2>10
    <3>2. \A n \in 0..N : n \in T BY <1>0, <2>9, <3>1, UpTo
    <3>. QED BY <1>0, <3>2
  <2>12. k[N] \in D /\ Range(k[N]) = Parts(N) BY <1>3, <2>11
  <2>. QED BY <2>7, <2>12
<1>. QED BY <1>2, <1>3

\* What is kept has no duplicates that were not there before.
LEMMA AmongOnce ==
  ASSUME NEW E, NEW s \in Seq(E), NEW S, NEW X, Once(s, X)
  PROVE  Once(Among(s, S), X)
<1>. DEFINE a == Among(s, S)
<1>1. a \in Seq(E) /\ \E position : Comes(a, s, Len(s), S, position) BY AmongKeepsOrder
<1>. HIDE DEF a
<1>2. PICK position : Comes(a, s, Len(s), S, position) BY <1>1
<1>3. SUFFICES ASSUME NEW i \in 1..Len(a), NEW j \in 1..Len(a), a[i] = a[j], i # j PROVE a[i] \in X
  BY DEF Once, a
<1>4. Len(a) \in Nat /\ Len(s) \in Nat BY <1>1
<1>5. position[i] \in 1..Len(s) /\ position[j] \in 1..Len(s) /\ a[i] = s[position[i]] /\ a[j] = s[position[j]]
  BY <1>2 DEF Comes
<1>6. position[i] # position[j]
  <2>1. CASE i < j BY <1>2, <1>5, <2>1 DEF Comes
  <2>2. CASE j < i BY <1>2, <1>5, <2>2 DEF Comes
  <2>. QED BY <1>3, <1>4, <2>1, <2>2
<1>. QED BY <1>3, <1>5, <1>6 DEF Once

=============================================================================
