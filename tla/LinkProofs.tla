----------------------------- MODULE LinkProofs -----------------------------
(***************************************************************************)
(* Lemmas about linked lists, for the proofs of what keeps one.  A list is *)
(* described by the sequence of its nodes (IsChain) or by their set alone  *)
(* (ListOf).                                                               *)
(***************************************************************************)
EXTENDS Links, Sequences, SequencesExt, FiniteSetTheorems, SequenceTheorems,
        WellFoundedInduction, TLAPS

\* A set of naturals that holds the successors of all below it is all of them.
LEMMA Induct ==
  ASSUME NEW S \in SUBSET Nat, 0 \in S, \A n \in S : n + 1 \in S
  PROVE  \A n \in Nat : n \in S
<1> DEFINE Less == OpToRel(<, Nat)
<1>1. \A x, y \in Nat : <<y, x>> \in Less <=> y < x
  BY Zenon DEF OpToRel
<1>2. IsWellFoundedOn(Less, Nat)
  BY NatLessThanWellFounded, Zenon
<1> HIDE DEF Less
<1>3. SUFFICES ASSUME Nat \ S # {} PROVE FALSE
  OBVIOUS
<1>4. Nat \ S \subseteq Nat
  OBVIOUS
<1>5. PICK x \in Nat \ S : \A y \in Nat \ S : ~ (<<y, x>> \in Less)
  BY <1>2, <1>3, <1>4, WFMin, Zenon
<1>6. \A y \in Nat \ S : ~ (y < x)
  BY <1>1, <1>5, Zenon
<1>7. x # 0 /\ x - 1 \in Nat
  BY <1>5
<1>8. x - 1 \in S
  BY <1>6, <1>7
<1>9. (x - 1) + 1 = x
  BY <1>5
<1> QED  BY <1>5, <1>8, <1>9

\* The list from p on has the nodes s, in this order and each once.
IsChain(s, link, p, nil) ==
  /\ p = IF s = <<>> THEN nil ELSE s[1]
  /\ \A i, j \in DOMAIN s : s[i] = s[j] => i = j
  /\ \A i \in DOMAIN s : /\ s[i] # nil
                         /\ link[s[i]] = IF i = Len(s) THEN nil ELSE s[i + 1]

\* The equation that defines the function of Follow.
IsFollow(f, link, p, nil, steps) ==
  f = [i \in 0..steps |->
        IF i = 0 THEN p ELSE IF f[i - 1] = nil THEN nil ELSE link[f[i - 1]]]

\* A function that satisfies it is the one Follow chooses.
LEMMA FollowUnique ==
  ASSUME NEW link, NEW p, NEW nil, NEW steps \in Nat, NEW f, IsFollow(f, link, p, nil, steps)
  PROVE  \A i \in 0..steps : Follow(link, p, nil, steps)[i] = f[i]
<1> DEFINE g == CHOOSE h : IsFollow(h, link, p, nil, steps)
<1>1. IsFollow(g, link, p, nil, steps)
  OBVIOUS
<1>2. Follow(link, p, nil, steps) = g
  BY DEF Follow, IsFollow
<1> HIDE DEF g
<1> DEFINE S == {i \in Nat : i <= steps => g[i] = f[i]}
<1>3. \A i \in 0..steps :
        /\ f[i] = IF i = 0 THEN p ELSE IF f[i - 1] = nil THEN nil ELSE link[f[i - 1]]
        /\ g[i] = IF i = 0 THEN p ELSE IF g[i - 1] = nil THEN nil ELSE link[g[i - 1]]
  BY <1>1 DEF IsFollow
<1>4. 0 \in S
  <2>1. 0 \in 0..steps
    OBVIOUS
  <2>2. f[0] = p /\ g[0] = p
    BY <1>3, <2>1
  <2> QED  BY <2>2
<1>5. ASSUME NEW k \in S PROVE k + 1 \in S
  <2> SUFFICES ASSUME k + 1 <= steps PROVE g[k + 1] = f[k + 1]
    OBVIOUS
  <2>1. PICK j : j = k + 1
    OBVIOUS
  <2>2. j \in 0..steps /\ j # 0 /\ j - 1 = k
    BY <2>1
  <2>3. g[k] = f[k]
    BY <2>2
  <2>4. f[j] = g[j]
    BY <1>3, <2>2, <2>3
  <2> QED  BY <2>1, <2>4
<1>6. S \in SUBSET Nat
  OBVIOUS
<1> HIDE DEF S
<1>7. \A k \in Nat : k \in S
  BY <1>4, <1>5, <1>6, Induct
<1> QED  BY <1>2, <1>7 DEF S

\* Following the links of a chain one comes to its nodes, then to nil.
LEMMA FollowChain ==
  ASSUME NEW N, NEW s \in Seq(N), NEW link, NEW p, NEW nil, IsChain(s, link, p, nil),
         NEW steps \in Nat
  PROVE  \A i \in 0..steps :
           Follow(link, p, nil, steps)[i] = IF i < Len(s) THEN s[i + 1] ELSE nil
<1> DEFINE f == [i \in 0..steps |-> IF i < Len(s) THEN s[i + 1] ELSE nil]
<1>1. Len(s) \in Nat /\ DOMAIN s = 1..Len(s) /\ (s = <<>> <=> Len(s) = 0)
  OBVIOUS
<1>2. \A i \in 0..steps : f[i] = IF i < Len(s) THEN s[i + 1] ELSE nil
  OBVIOUS
<1>3. ASSUME NEW i \in 0..steps
      PROVE  f[i] = IF i = 0 THEN p ELSE IF f[i - 1] = nil THEN nil ELSE link[f[i - 1]]
  <2>1. CASE i = 0
    BY <1>1, <1>2, <2>1 DEF IsChain
  <2>2. CASE i # 0
    <3>1. i - 1 \in 0..steps /\ (i - 1) + 1 = i /\ i \in Nat
      BY <2>2
    <3>2. f[i - 1] = IF i - 1 < Len(s) THEN s[i] ELSE nil
      BY <1>2, <3>1
    <3>3. CASE i - 1 < Len(s)
      <4>1. i \in DOMAIN s
        BY <1>1, <2>2, <3>1, <3>3
      <4>2. s[i] # nil /\ link[s[i]] = IF i = Len(s) THEN nil ELSE s[i + 1]
        BY <4>1 DEF IsChain
      <4>3. f[i - 1] = s[i]
        BY <3>2, <3>3
      <4>4. (i = Len(s)) <=> ~(i < Len(s))
        <5>1. PICK m \in Nat : m = Len(s)
          BY <1>1
        <5>2. i - 1 < m /\ i \in Nat
          BY <3>1, <3>3, <5>1
        <5>3. (i = m) <=> ~(i < m)
          BY <5>2
        <5> QED  BY <5>1, <5>3
      <4>5. f[i] = IF i < Len(s) THEN s[i + 1] ELSE nil
        BY <1>2
      <4>6. f[i] = link[s[i]]
        BY <4>2, <4>4, <4>5
      <4>7. f[i - 1] # nil /\ link[f[i - 1]] = f[i]
        BY <4>2, <4>3, <4>6
      <4> HIDE DEF f
      <4> QED  BY <2>2, <4>7
    <3>4. CASE ~(i - 1 < Len(s))
      <4>1. ~(i < Len(s))
        BY <1>1, <3>1, <3>4
      <4> QED  BY <1>2, <2>2, <3>2, <3>4, <4>1
    <3> QED  BY <3>3, <3>4
  <2> QED  BY <2>1, <2>2
<1>4. f = [i \in 0..steps |-> f[i]]
  OBVIOUS
<1> HIDE DEF f
<1>5. IsFollow(f, link, p, nil, steps)
  BY <1>3, <1>4 DEF IsFollow
<1> QED  BY <1>2, <1>5, FollowUnique

\* So they are the nodes reached, if the chain is not too long.
LEMMA ReachedChain ==
  ASSUME NEW N, NEW s \in Seq(N), NEW link, NEW p, NEW nil, IsChain(s, link, p, nil),
         NEW steps \in Nat, Len(s) <= steps + 1
  PROVE  Reached(link, p, nil, steps) = ToSet(s)
<1>1. Len(s) \in Nat /\ DOMAIN s = 1..Len(s)
  OBVIOUS
<1>2. PICK f : f = Follow(link, p, nil, steps)
  OBVIOUS
<1>3. \A i \in 0..steps : f[i] = IF i < Len(s) THEN s[i + 1] ELSE nil
  BY <1>2, FollowChain
<1>4. ASSUME NEW i \in 0..steps, f[i] # nil PROVE f[i] \in ToSet(s)
  <2>1. i < Len(s) /\ f[i] = s[i + 1]
    BY <1>3, <1>4
  <2>2. i + 1 \in DOMAIN s
    BY <1>1, <2>1
  <2> QED  BY <2>1, <2>2 DEF ToSet
<1>5. ASSUME NEW i \in DOMAIN s PROVE \E k \in 0..steps : f[k] = s[i] /\ f[k] # nil
  <2>1. i - 1 \in 0..steps /\ i - 1 < Len(s) /\ (i - 1) + 1 = i
    BY <1>1
  <2>2. f[i - 1] = s[i] /\ s[i] # nil
    BY <1>3, <2>1 DEF IsChain
  <2> QED  BY <2>1, <2>2
<1> QED  BY <1>2, <1>4, <1>5 DEF Reached, ToSet

\* A sequence without repetition has as many entries as values.
LEMMA CountDistinct ==
  ASSUME NEW T, NEW s \in Seq(T), \A i, j \in DOMAIN s : s[i] = s[j] => i = j
  PROVE  IsFiniteSet(ToSet(s)) /\ Cardinality(ToSet(s)) = Len(s)
<1>1. PICK n \in Nat : n = Len(s)
  BY LenProperties
<1>2. DOMAIN s = 1..n /\ s = [i \in 1..n |-> s[i]]
  BY <1>1, LenProperties
<1>3. ToSet(s) = {s[i] : i \in 1..n}
  BY <1>2 DEF ToSet
<1>4. s \in Bijection(1..n, ToSet(s))
  <2>1. s \in [1..n -> ToSet(s)] /\ \A y \in ToSet(s) : \E i \in 1..n : s[i] = y
    BY <1>2, <1>3
  <2>2. \A i, j \in 1..n : s[i] = s[j] => i = j
    BY <1>2
  <2> QED  BY <1>2, <2>1, <2>2, Zenon DEF Bijection, Injection, Surjection, IsInjective
<1>5. IsFiniteSet(1..n) /\ Cardinality(1..n) = n
  <2>1. 1 \in Int /\ n \in Int
    OBVIOUS
  <2>2. IsFiniteSet(1..n) /\ Cardinality(1..n) = IF 1 > n THEN 0 ELSE n - 1 + 1
    BY <2>1, FS_Interval, Zenon
  <2> QED  BY <2>2
<1>6. ExistsBijection(1..n, ToSet(s))
  BY <1>4 DEF ExistsBijection
<1> QED  BY <1>1, <1>5, <1>6, FS_Bijection

\* The list from p on has exactly the nodes S.
ListOf(N, link, p, nil, S) ==
  \E s \in Seq(N) : IsChain(s, link, p, nil) /\ ToSet(s) = S

\* What a chain says of the set of its nodes.
LEMMA ListFacts ==
  ASSUME NEW N, NEW link, NEW p, NEW nil, NEW S, ListOf(N, link, p, nil, S)
  PROVE  /\ IsFiniteSet(S) /\ S \subseteq N /\ nil \notin S
         /\ p \in S \cup {nil} /\ (p = nil <=> S = {})
         /\ \A n \in S : link[n] \in S \cup {nil} /\ link[n] # p /\ link[n] # n
         /\ \A m, n \in S : link[m] = link[n] => m = n
<1>1. PICK s \in Seq(N) : IsChain(s, link, p, nil) /\ ToSet(s) = S
  BY DEF ListOf
<1>2. Len(s) \in Nat /\ DOMAIN s = 1..Len(s) /\ (s = <<>> <=> Len(s) = 0)
  OBVIOUS
<1>3. /\ \A i, j \in DOMAIN s : s[i] = s[j] => i = j
      /\ \A i \in DOMAIN s : s[i] # nil
      /\ \A i \in DOMAIN s : link[s[i]] = IF i = Len(s) THEN nil ELSE s[i + 1]
  BY <1>1 DEF IsChain
<1>4. IsFiniteSet(S)
  BY <1>1, <1>3, CountDistinct
<1>5. \A n : n \in S <=> \E i \in DOMAIN s : s[i] = n
  BY <1>1 DEF ToSet
<1>6. S \subseteq N /\ nil \notin S
  <2>1. \A i \in DOMAIN s : s[i] \in N
    OBVIOUS
  <2> QED  BY <1>3, <1>5, <2>1
<1>7. CASE s = <<>>
  <2>1. S = {} /\ p = nil
    BY <1>1, <1>2, <1>5, <1>7 DEF IsChain
  <2> QED  BY <1>4, <1>6, <2>1
<1>8. CASE s # <<>>
  <2>1. 1 \in DOMAIN s /\ p = s[1]
    BY <1>1, <1>2, <1>8 DEF IsChain
  <2>2. p \in S /\ p # nil
    BY <1>3, <1>5, <2>1
  <2>3. ASSUME NEW n \in S
        PROVE  link[n] \in S \cup {nil} /\ link[n] # p /\ link[n] # n
    <3>1. PICK i \in DOMAIN s : s[i] = n
      BY <1>5
    <3>2. CASE i = Len(s)
      BY <1>3, <1>6, <2>2, <3>1, <3>2
    <3>3. CASE i # Len(s)
      <4>1. PICK j : j = i + 1
        OBVIOUS
      <4>2. j \in DOMAIN s /\ j # 1 /\ j # i
        BY <1>2, <3>3, <4>1
      <4>3. link[n] = s[j]
        BY <1>3, <3>1, <3>3, <4>1
      <4>4. s[j] \in S /\ s[j] # s[1] /\ s[j] # s[i]
        BY <1>3, <1>5, <2>1, <4>2
      <4> QED  BY <2>1, <3>1, <4>3, <4>4
    <3> QED  BY <3>2, <3>3
  <2>4. ASSUME NEW m \in S, NEW n \in S, link[m] = link[n] PROVE m = n
    <3>1. PICK i \in DOMAIN s : s[i] = m
      BY <1>5
    <3>2. PICK j \in DOMAIN s : s[j] = n
      BY <1>5
    <3>3. link[m] = IF i = Len(s) THEN nil ELSE s[i + 1]
      BY <1>3, <3>1
    <3>4. link[n] = IF j = Len(s) THEN nil ELSE s[j + 1]
      BY <1>3, <3>2
    <3>5. PICK k, l : k = i + 1 /\ l = j + 1
      OBVIOUS
    <3>6. (i # Len(s) => k \in DOMAIN s) /\ (j # Len(s) => l \in DOMAIN s)
      BY <1>2, <3>5
    <3>7. i = j
      <4>1. CASE i = Len(s) /\ j = Len(s)
        BY <4>1
      <4>2. CASE i = Len(s) /\ j # Len(s)
        BY <1>3, <2>4, <3>3, <3>4, <3>5, <3>6, <4>2
      <4>3. CASE i # Len(s) /\ j = Len(s)
        BY <1>3, <2>4, <3>3, <3>4, <3>5, <3>6, <4>3
      <4>4. CASE i # Len(s) /\ j # Len(s)
        <5>1. s[k] = s[l]
          BY <2>4, <3>3, <3>4, <3>5, <4>4
        <5>2. k = l
          BY <1>3, <3>6, <4>4, <5>1
        <5> QED  BY <1>2, <3>5, <5>2
      <4> QED  BY <4>1, <4>2, <4>3, <4>4
    <3> QED  BY <3>1, <3>2, <3>7
  <2> QED  BY <1>4, <1>6, <2>2, <2>3, <2>4
<1> QED  BY <1>7, <1>8

\* A list is what the links of its nodes say, whatever the others are.
LEMMA ListFrame ==
  ASSUME NEW N, NEW link, NEW p, NEW nil, NEW S, ListOf(N, link, p, nil, S),
         NEW other, \A n \in S : other[n] = link[n]
  PROVE  ListOf(N, other, p, nil, S)
<1>1. PICK s \in Seq(N) : IsChain(s, link, p, nil) /\ ToSet(s) = S
  BY DEF ListOf
<1>2. \A i \in DOMAIN s : s[i] \in S
  BY <1>1 DEF ToSet
<1>3. \A i \in DOMAIN s : other[s[i]] = link[s[i]]
  BY <1>2
<1>4. IsChain(s, other, p, nil)
  BY <1>1, <1>3, Zenon DEF IsChain
<1> QED  BY <1>1, <1>4 DEF ListOf

\* A list of S has S for the nodes reached, if it is not too long.
LEMMA ListReached ==
  ASSUME NEW N, NEW link, NEW p, NEW nil, NEW S, ListOf(N, link, p, nil, S),
         NEW steps \in Nat, Cardinality(S) <= steps + 1
  PROVE  Reached(link, p, nil, steps) = S
<1>1. PICK s \in Seq(N) : IsChain(s, link, p, nil) /\ ToSet(s) = S
  BY DEF ListOf
<1>2. \A i, j \in DOMAIN s : s[i] = s[j] => i = j
  BY <1>1 DEF IsChain
<1>3. Cardinality(S) = Len(s)
  BY <1>1, <1>2, CountDistinct
<1> QED  BY <1>1, <1>3, ReachedChain

\* A list without its first node.
LEMMA ListPop ==
  ASSUME NEW N, NEW link, NEW p, NEW nil, NEW S, ListOf(N, link, p, nil, S), p # nil,
         NEW R, R = S \ {p}, NEW q, q = link[p]
  PROVE  ListOf(N, link, q, nil, R)
<1>1. PICK s \in Seq(N) : IsChain(s, link, p, nil) /\ ToSet(s) = S
  BY DEF ListOf
<1>2. Len(s) \in Nat /\ DOMAIN s = 1..Len(s) /\ (s = <<>> <=> Len(s) = 0)
  OBVIOUS
<1>3. s # <<>> /\ p = s[1]
  BY <1>1 DEF IsChain
<1>4. PICK r : r = Tail(s)
  OBVIOUS
<1>5. /\ r \in Seq(N) /\ Len(r) = Len(s) - 1 /\ DOMAIN r = 1..Len(r)
      /\ \A i \in 1..Len(r) : r[i] = s[i + 1]
  BY <1>2, <1>3, <1>4
<1>6. /\ \A i, j \in DOMAIN s : s[i] = s[j] => i = j
      /\ \A i \in DOMAIN s : s[i] # nil /\ link[s[i]] = IF i = Len(s) THEN nil ELSE s[i + 1]
  BY <1>1 DEF IsChain
<1>7. \A i \in DOMAIN r : i + 1 \in DOMAIN s /\ i + 1 # 1 /\ r[i] = s[i + 1]
  BY <1>2, <1>5
<1>8. IsChain(r, link, q, nil)
  <2>1. ASSUME NEW i \in DOMAIN r, NEW j \in DOMAIN r, r[i] = r[j] PROVE i = j
    <3>1. s[i + 1] = s[j + 1]
      BY <1>7, <2>1
    <3>2. i + 1 = j + 1
      BY <1>6, <1>7, <3>1
    <3> QED  BY <1>5, <3>2
  <2>2. ASSUME NEW i \in DOMAIN r
        PROVE  r[i] # nil /\ link[r[i]] = IF i = Len(r) THEN nil ELSE r[i + 1]
    <3>1. PICK j : j = i + 1
      OBVIOUS
    <3>2. j \in DOMAIN s /\ r[i] = s[j] /\ (i = Len(r) <=> j = Len(s))
      BY <1>2, <1>5, <1>7, <3>1
    <3>3. s[j] # nil /\ link[s[j]] = IF j = Len(s) THEN nil ELSE s[j + 1]
      BY <1>6, <3>2
    <3>4. CASE i = Len(r)
      BY <3>2, <3>3, <3>4
    <3>5. CASE i # Len(r)
      <4>1. j \in 1..Len(r)
        BY <1>5, <3>1, <3>5
      <4>2. r[j] = s[j + 1]
        BY <1>5, <4>1
      <4> QED  BY <3>1, <3>2, <3>3, <3>5, <4>2
    <3> QED  BY <3>4, <3>5
  <2>3. q = IF r = <<>> THEN nil ELSE r[1]
    <3>1. 1 \in DOMAIN s
      BY <1>2, <1>3
    <3>2. q = IF 1 = Len(s) THEN nil ELSE s[1 + 1]
      BY <1>3, <1>6, <3>1
    <3>3. r = <<>> <=> 1 = Len(s)
      <4>1. r = <<>> <=> Len(r) = 0
        BY <1>5
      <4> QED  BY <1>2, <1>5, <4>1
    <3>4. 1 # Len(s) => r[1] = s[1 + 1]
      <4> SUFFICES ASSUME 1 # Len(s) PROVE r[1] = s[1 + 1]
        OBVIOUS
      <4>1. 1 \in 1..Len(r)
        BY <1>2, <1>3, <1>5
      <4> QED  BY <1>5, <4>1
    <3> QED  BY <3>2, <3>3, <3>4
  <2> QED  BY <2>1, <2>2, <2>3 DEF IsChain
<1>9. ToSet(r) = R
  <2>1. ASSUME NEW n PROVE (\E i \in DOMAIN r : r[i] = n) <=> n \in R
    <3>1. ASSUME NEW i \in DOMAIN r, r[i] = n PROVE n \in R
      <4>1. PICK j \in DOMAIN s : j # 1 /\ s[j] = n
        BY <1>7, <3>1
      <4>2. n # p
        BY <1>2, <1>3, <1>6, <4>1
      <4> QED  BY <1>1, <4>1, <4>2 DEF ToSet
    <3>2. ASSUME n \in R PROVE \E i \in DOMAIN r : r[i] = n
      <4>1. PICK j \in DOMAIN s : s[j] = n /\ j # 1
        BY <1>1, <1>3, <3>2 DEF ToSet
      <4>2. j - 1 \in DOMAIN r /\ (j - 1) + 1 = j
        BY <1>2, <1>5, <4>1
      <4> QED  BY <1>7, <4>1, <4>2
    <3> QED  BY <3>1, <3>2
  <2> QED  BY <2>1 DEF ToSet
<1> QED  BY <1>5, <1>8, <1>9 DEF ListOf

\* A node put in front of a list.
LEMMA ListPush ==
  ASSUME NEW N, NEW link, NEW p, NEW nil, NEW S, ListOf(N, link, p, nil, S),
         NEW n \in N, n \notin S, n # nil, link[n] = p, NEW R, R = S \cup {n}
  PROVE  ListOf(N, link, n, nil, R)
<1>1. PICK s \in Seq(N) : IsChain(s, link, p, nil) /\ ToSet(s) = S
  BY DEF ListOf
<1>2. Len(s) \in Nat /\ DOMAIN s = 1..Len(s) /\ (s = <<>> <=> Len(s) = 0)
  OBVIOUS
<1>3. PICK r : r = <<n>> \o s
  OBVIOUS
<1>4. /\ r \in Seq(N) /\ Len(r) = Len(s) + 1 /\ DOMAIN r = 1..Len(r) /\ r # <<>>
      /\ \A i \in 1..Len(r) : r[i] = IF i = 1 THEN n ELSE s[i - 1]
  BY <1>2, <1>3
<1>5. /\ \A i, j \in DOMAIN s : s[i] = s[j] => i = j
      /\ \A i \in DOMAIN s : s[i] # nil /\ link[s[i]] = IF i = Len(s) THEN nil ELSE s[i + 1]
      /\ p = IF s = <<>> THEN nil ELSE s[1]
  BY <1>1 DEF IsChain
<1>6. \A i \in DOMAIN s : s[i] \in S
  BY <1>1 DEF ToSet
<1>7. \A i \in DOMAIN r : i # 1 => i - 1 \in DOMAIN s /\ r[i] = s[i - 1]
  BY <1>2, <1>4
<1>8. 1 \in DOMAIN r /\ r[1] = n
  BY <1>2, <1>4
<1>9. IsChain(r, link, n, nil)
  <2>1. ASSUME NEW i \in DOMAIN r, NEW j \in DOMAIN r, r[i] = r[j] PROVE i = j
    <3>1. CASE i # 1 /\ j # 1
      <4>1. s[i - 1] = s[j - 1]
        BY <1>7, <2>1, <3>1
      <4>2. i - 1 = j - 1
        BY <1>5, <1>7, <3>1, <4>1
      <4> QED  BY <1>4, <4>2
    <3>2. CASE i = 1 \/ j = 1
      BY <1>6, <1>7, <1>8, <2>1, <3>2
    <3> QED  BY <3>1, <3>2
  <2>2. ASSUME NEW i \in DOMAIN r
        PROVE  r[i] # nil /\ link[r[i]] = IF i = Len(r) THEN nil ELSE r[i + 1]
    <3>1. CASE i = 1
      <4>1. i = Len(r) <=> s = <<>>
        BY <1>2, <1>4, <3>1
      <4>2. i # Len(r) => r[i + 1] = s[1]
        <5> SUFFICES ASSUME i # Len(r) PROVE r[2] = s[1]
          BY <3>1
        <5>1. 2 \in 1..Len(r)
          BY <1>2, <1>4, <3>1
        <5>2. r[2] = s[2 - 1]
          BY <1>4, <5>1
        <5> QED  BY <5>2
      <4> QED  BY <1>5, <1>8, <3>1, <4>1, <4>2
    <3>2. CASE i # 1
      <4>1. PICK j : j = i - 1
        OBVIOUS
      <4>2. j \in DOMAIN s /\ r[i] = s[j] /\ (i = Len(r) <=> j = Len(s)) /\ j + 1 = i
        BY <1>2, <1>4, <1>7, <3>2, <4>1
      <4>3. s[j] # nil /\ link[s[j]] = IF j = Len(s) THEN nil ELSE s[i]
        BY <1>5, <4>2
      <4>4. i # Len(r) => r[i + 1] = s[i]
        <5> SUFFICES ASSUME i # Len(r) PROVE r[i + 1] = s[i]
          OBVIOUS
        <5>1. i + 1 \in 1..Len(r) /\ i + 1 # 1 /\ (i + 1) - 1 = i
          BY <1>2, <1>4
        <5> QED  BY <1>4, <5>1
      <4> QED  BY <4>2, <4>3, <4>4
    <3> QED  BY <3>1, <3>2
  <2> QED  BY <1>4, <1>8, <2>1, <2>2 DEF IsChain
<1>10. ToSet(r) = R
  <2>1. ASSUME NEW m PROVE (\E i \in DOMAIN r : r[i] = m) <=> m \in R
    <3>1. ASSUME NEW i \in DOMAIN r, r[i] = m PROVE m \in R
      BY <1>6, <1>7, <1>8, <3>1
    <3>2. ASSUME m \in R PROVE \E i \in DOMAIN r : r[i] = m
      <4>1. CASE m = n
        BY <1>8, <4>1
      <4>2. CASE m # n
        <5>1. PICK j \in DOMAIN s : s[j] = m
          BY <1>1, <3>2, <4>2 DEF ToSet
        <5>2. j + 1 \in DOMAIN r /\ j + 1 # 1 /\ (j + 1) - 1 = j
          BY <1>2, <1>4
        <5> QED  BY <1>7, <5>1, <5>2
      <4> QED  BY <4>1, <4>2
    <3> QED  BY <3>1, <3>2
  <2> QED  BY <2>1 DEF ToSet
<1> QED  BY <1>4, <1>9, <1>10 DEF ListOf

\* The list without a node.
LEMMA ListEmpty ==
  ASSUME NEW N, NEW link, NEW nil
  PROVE  ListOf(N, link, nil, nil, {})
<1>1. <<>> \in Seq(N) /\ DOMAIN <<>> = {} /\ ToSet(<<>>) = {}
  BY DEF ToSet
<1>2. IsChain(<<>>, link, nil, nil)
  BY <1>1 DEF IsChain
<1> QED  BY <1>1, <1>2 DEF ListOf

\* The nodes 1..m, each linked to the one after it: a memory block cut in pieces.
LEMMA ListInterval ==
  ASSUME NEW N, NEW m \in Nat, 1..m \subseteq N, NEW link, NEW nil,
         \A n \in 1..m : n # nil /\ link[n] = IF n = m THEN nil ELSE n + 1,
         NEW p, p = IF m = 0 THEN nil ELSE 1, NEW R, R = 1..m
  PROVE  ListOf(N, link, p, nil, R)
<1>1. PICK s : s = [i \in 1..m |-> i]
  OBVIOUS
<1>2. s \in Seq(N) /\ Len(s) = m /\ DOMAIN s = 1..m /\ \A i \in 1..m : s[i] = i
  BY <1>1
<1>3. s = <<>> <=> m = 0
  BY <1>2
<1>4. p = IF s = <<>> THEN nil ELSE s[1]
  BY <1>2, <1>3
<1>5. \A i \in DOMAIN s : s[i] # nil /\ link[s[i]] = IF i = Len(s) THEN nil ELSE s[i + 1]
  BY <1>2
<1>6. \A i, j \in DOMAIN s : s[i] = s[j] => i = j
  BY <1>2
<1>7. IsChain(s, link, p, nil)
  BY <1>4, <1>5, <1>6 DEF IsChain
<1>8. ToSet(s) = R
  BY <1>2 DEF ToSet
<1> QED  BY <1>2, <1>7, <1>8 DEF ListOf
=============================================================================
