------------------------- MODULE EmsNeighborsProofs -------------------------
(***************************************************************************)
(* Proofs about EmsNeighbors, for arrays and numbers of lists of any size. *)
(* As long as the node has heard of no more neighbours than it has entries *)
(* the entries are taken in the order of their numbers, and every list     *)
(* goes from its newest entry to older ones.                               *)
(***************************************************************************)
EXTENDS EmsNeighbors, FiniteSetTheorems, WellFoundedInduction, TLAPS

-----------------------------------------------------------------------------
\* The constants, one fact at a time.
LEMMA Constants ==
  /\ NEIGHBORHOOD_SIZE \in Nat \ {0} /\ NEIGHBORHOOD_HEAD_SIZE \in Nat \ {0}
  /\ NEIGHBOR_GOOD_TILL \in Nat /\ NONE \in Nat /\ NONE >= NEIGHBORHOOD_SIZE
  /\ Near \subseteq Nat \ {0}
  /\ NONE \notin Indices /\ NoUid \notin Near /\ Trash \in Heads /\ 0 \in Indices
BY NeighborsAssumption, SMT DEF Indices, NoUid, Trash, Heads

\* Every uid has a list, and it is not the trash.
LEMMA HashType ==
  ASSUME NEW uid \in Nat
  PROVE  Hash(uid) \in Heads \ {Trash}
<1>1. NEIGHBORHOOD_HEAD_SIZE \in Nat \ {0}
  BY Constants
<1>2. uid % NEIGHBORHOOD_HEAD_SIZE \in 0 .. NEIGHBORHOOD_HEAD_SIZE - 1
  BY <1>1, SMTT(60)
<1> QED
  BY <1>1, <1>2, SMT DEF Hash, Heads, Trash

\* Every set of natural numbers that is not empty has a least member.
LEMMA LeastMember ==
  ASSUME NEW Numbers \in SUBSET Nat, Numbers # {}
  PROVE  \E m \in Numbers : \A n \in Numbers : m <= n
<1>1. \E m \in Numbers : \A n \in Numbers : ~ (<<n, m>> \in OpToRel(<, Nat))
  BY NatLessThanWellFounded, WFMin
<1>2. \A m, n \in Numbers : <<n, m>> \in OpToRel(<, Nat) <=> n < m
  BY DEF OpToRel
<1>3. PICK m \in Numbers : \A n \in Numbers : ~ (n < m)
  BY <1>1, <1>2
<1>4. \A n \in Numbers : m <= n
  BY <1>3, SMT
<1> QED
  BY <1>4

-----------------------------------------------------------------------------
(* The walk along a list. *)

\* Where a search is that starts at a and follows next for m steps.
Way(next, a, m, g) ==
  /\ g \in [0 .. m -> Index] /\ g[0] = a
  /\ \A i \in 1 .. m : g[i] = IF Valid_num(g[i - 1]) THEN next[g[i - 1]] ELSE NONE

LEMMA WayExists ==
  ASSUME NEW next \in [Indices -> Index], NEW a \in Index, NEW m \in Nat
  PROVE  \E g : Way(next, a, m, g)
<1> DEFINE Bad == {k \in Nat : ~ \E g : Way(next, a, k, g)}
<1>1. SUFFICES ASSUME Bad # {} PROVE FALSE
  OBVIOUS
<1>2. PICK k \in Bad : \A j \in Bad : k <= j
  <2>1. Bad \in SUBSET Nat
    OBVIOUS
  <2> HIDE DEF Bad
  <2> QED
    BY <1>1, <2>1, LeastMember
<1>3. CASE k = 0
  <2> DEFINE g == [i \in 0 .. k |-> a]
  <2>1. g \in [0 .. k -> Index] /\ g[0] = a /\ 1 .. k = {}
    BY <1>3
  <2>2. Way(next, a, k, g)
    BY <2>1 DEF Way
  <2> QED
    BY <2>2
<1>4. CASE k # 0
  <2>1. k \in Nat /\ k - 1 \in Nat /\ k - 1 < k
    BY <1>4
  <2>2. k - 1 \notin Bad
    <3> HIDE DEF Bad
    <3> QED
      BY <1>2, <2>1
  <2>3. PICK f : Way(next, a, k - 1, f)
    BY <2>1, <2>2
  <2> DEFINE x == IF Valid_num(f[k - 1]) THEN next[f[k - 1]] ELSE NONE
             g == [i \in 0 .. k |-> IF i = k THEN x ELSE f[i]]
  <2>4. \A i \in 0 .. k : i # k => i \in 0 .. k - 1
    BY <2>1
  <2>5. f \in [0 .. k - 1 -> Index] /\ f[0] = a /\ k - 1 \in 0 .. k - 1
    BY <2>1, <2>3 DEF Way
  <2>6. x \in Index
    BY <2>5 DEF Index, Valid_num
  <2> HIDE DEF x
  <2>7. g \in [0 .. k -> Index]
    BY <2>4, <2>5, <2>6
  <2>8. g[0] = a
    BY <1>4, <2>1, <2>5
  <2>9. ASSUME NEW i \in 1 .. k
        PROVE  g[i] = IF Valid_num(g[i - 1]) THEN next[g[i - 1]] ELSE NONE
    <3>1. i - 1 \in 0 .. k /\ i - 1 # k /\ i \in 0 .. k
      BY <2>1
    <3>2. g[i - 1] = f[i - 1]
      BY <3>1
    <3>3. CASE i = k
      BY <3>1, <3>2, <3>3 DEF x
    <3>4. CASE i # k
      <4>1. i \in 1 .. k - 1
        BY <2>1, <3>4
      <4>2. f[i] = IF Valid_num(f[i - 1]) THEN next[f[i - 1]] ELSE NONE
        BY <2>3, <4>1 DEF Way
      <4> QED
        BY <3>1, <3>2, <3>4, <4>2
    <3> QED
      BY <3>3, <3>4
  <2> HIDE DEF g
  <2>10. Way(next, a, k, g)
    BY <2>7, <2>8, <2>9 DEF Way
  <2> QED
    BY <2>10
<1> QED
  BY <1>3, <1>4

LEMMA WalkIs ==
  ASSUME NEW n, NEW h \in Heads, n.head \in [Heads -> Index], n.next \in [Indices -> Index]
  PROVE  Way(n.next, n.head[h], NEIGHBORHOOD_SIZE, Walk(n, h))
<1> DEFINE S == NEIGHBORHOOD_SIZE
           Going(f) ==
             f = [k \in 0 .. S |->
                    IF k = 0 THEN n.head[h]
                    ELSE LET i == f[k - 1] IN IF Valid_num(i) THEN n.next[i] ELSE NONE]
<1>0. S \in Nat
  BY Constants
<1>1. PICK g : Way(n.next, n.head[h], S, g)
  <2>1. n.head[h] \in Index
    OBVIOUS
  <2> HIDE DEF S
  <2> QED
    BY <1>0, <2>1, WayExists
<1> HIDE DEF S
<1>2. ASSUME NEW k \in 0 .. S
      PROVE  g[k] = IF k = 0 THEN n.head[h]
                    ELSE IF Valid_num(g[k - 1]) THEN n.next[g[k - 1]] ELSE NONE
  <2>1. CASE k = 0
    BY <1>1, <2>1 DEF Way
  <2>2. CASE k # 0
    <3>1. k \in 1 .. S
      BY <1>0, <2>2
    <3> QED
      BY <1>1, <2>2, <3>1 DEF Way
  <2> QED
    BY <2>1, <2>2
<1>3. g = [k \in 0 .. S |-> g[k]]
  BY <1>1 DEF Way
<1>4. Going(g)
  BY <1>2, <1>3
<1>5. Going(Walk(n, h))
  <2> DEFINE at == CHOOSE f : Going(f)
  <2>1. Going(at)
    BY <1>4
  <2>2. Walk(n, h) = at
    BY DEF Walk, S
  <2> HIDE DEF at, Going
  <2> QED
    BY <2>1, <2>2
<1> DEFINE at == Walk(n, h)
<1>6. \A k \in 0 .. S : at[k] = IF k = 0 THEN n.head[h]
                                ELSE IF Valid_num(at[k - 1]) THEN n.next[at[k - 1]] ELSE NONE
  BY <1>5
<1>7. at = [k \in 0 .. S |-> at[k]]
  BY <1>5
<1> HIDE DEF at, Going
<1>8. 0 \in 0 .. S /\ \A k \in 1 .. S : k \in 0 .. S /\ k # 0
  BY <1>0
<1>9. at[0] = n.head[h]
  BY <1>6, <1>8
<1>10. \A k \in 1 .. S : at[k] = IF Valid_num(at[k - 1]) THEN n.next[at[k - 1]] ELSE NONE
  BY <1>6, <1>8
<1>11. \A k \in 0 .. S : at[k] = g[k]
  <2> DEFINE Bad == {k \in 0 .. S : at[k] # g[k]}
  <2>1. SUFFICES ASSUME Bad # {} PROVE FALSE
    OBVIOUS
  <2>2. PICK k \in Bad : \A j \in Bad : k <= j
    <3>1. Bad \in SUBSET Nat
      BY <1>0
    <3> HIDE DEF Bad
    <3> QED
      BY <2>1, <3>1, LeastMember
  <2>3. k # 0
    BY <1>1, <1>9 DEF Way
  <2>4. k \in 1 .. S /\ k - 1 \in 0 .. S /\ k - 1 < k
    BY <1>0, <2>3
  <2>5. at[k - 1] = g[k - 1]
    <3>1. k - 1 \notin Bad
      <4> HIDE DEF Bad
      <4> QED
        BY <2>2, <2>4
    <3> QED
      BY <2>4, <3>1
  <2>6. at[k] = g[k]
    BY <1>1, <1>10, <2>4, <2>5 DEF Way
  <2> QED
    BY <2>6
<1>12. \A k \in 0 .. S : at[k] \in Index
  BY <1>1, <1>11 DEF Way
<1>13. at \in [0 .. S -> Index]
  BY <1>7, <1>12
<1>14. Way(n.next, n.head[h], S, at)
  BY <1>9, <1>10, <1>13 DEF Way
<1> QED
  BY <1>14 DEF at, S

-----------------------------------------------------------------------------
(* The operations on the arrays. *)

Arrays ==
  [head : [Heads -> Index], uid : [Indices -> Near \cup {NoUid}],
   prev : [Indices -> Index], next : [Indices -> Index], time : [Indices -> 0 .. NONE]]

\* The fields of the arrays are what they say.
LEMMA Fields ==
  ASSUME NEW n \in Arrays
  PROVE  /\ n.head \in [Heads -> Index] /\ n.uid \in [Indices -> Near \cup {NoUid}]
         /\ n.prev \in [Indices -> Index] /\ n.next \in [Indices -> Index]
         /\ n.time \in [Indices -> 0 .. NONE]
BY DEF Arrays

\* A search finds the first hit of its walk, or nothing if there is none.
LEMMA FindIs ==
  ASSUME NEW n, NEW uid
  PROVE  LET at == Walk(n, Hash(uid))
             Hit(k) == Valid_num(at[k]) /\ n.uid[at[k]] = uid
         IN  \/ /\ find_neighbor(n, uid) = NONE
                /\ \A k \in 0 .. NEIGHBORHOOD_SIZE : ~ Hit(k)
             \/ \E k \in 0 .. NEIGHBORHOOD_SIZE :
                  /\ find_neighbor(n, uid) = at[k] /\ Hit(k)
                  /\ \A j \in 0 .. NEIGHBORHOOD_SIZE : Hit(j) => k <= j
<1> DEFINE at == Walk(n, Hash(uid))
           Hit(k) == Valid_num(at[k]) /\ n.uid[at[k]] = uid
           hits == {k \in 0 .. NEIGHBORHOOD_SIZE : Hit(k)}
           first == CHOOSE k \in hits : \A j \in hits : k <= j
<1>1. find_neighbor(n, uid) = IF hits = {} THEN NONE ELSE at[first]
  BY DEF find_neighbor
<1>2. CASE hits = {}
  BY <1>1, <1>2
<1>3. CASE hits # {}
  <2>1. hits \in SUBSET Nat
    BY Constants
  <2> HIDE DEF hits
  <2>2. \E k \in hits : \A j \in hits : k <= j
    BY <1>3, <2>1, LeastMember
  <2>3. first \in hits /\ \A j \in hits : first <= j
    BY <2>2
  <2> HIDE DEF first
  <2>4. first \in 0 .. NEIGHBORHOOD_SIZE /\ Hit(first)
    BY <2>3 DEF hits
  <2>5. \A j \in 0 .. NEIGHBORHOOD_SIZE : Hit(j) => first <= j
    BY <2>3 DEF hits
  <2>6. find_neighbor(n, uid) = at[first]
    BY <1>1, <1>3
  <2> QED
    BY <2>4, <2>5, <2>6
<1> QED
  BY <1>2, <1>3

\* What is found is an entry with the uid.
LEMMA FoundHasUid ==
  ASSUME NEW n \in Arrays, NEW uid \in Near, find_neighbor(n, uid) # NONE
  PROVE  find_neighbor(n, uid) \in Indices /\ n.uid[find_neighbor(n, uid)] = uid
<1> DEFINE at == Walk(n, Hash(uid))
<1>1. Hash(uid) \in Heads
  BY Constants, HashType
<1>2. Way(n.next, n.head[Hash(uid)], NEIGHBORHOOD_SIZE, at)
  BY <1>1, Fields, WalkIs
<1>3. PICK k \in 0 .. NEIGHBORHOOD_SIZE : /\ find_neighbor(n, uid) = at[k]
                                          /\ Valid_num(at[k]) /\ n.uid[at[k]] = uid
  BY FindIs
<1> HIDE DEF at
<1>4. at[k] \in Index
  BY <1>2 DEF Way
<1> QED
  BY <1>3, <1>4 DEF Index, Valid_num

\* Only the lists and the uids decide what is found.
LEMMA FoundAgain ==
  ASSUME NEW n, NEW o, NEW uid, n.head = o.head, n.next = o.next, n.uid = o.uid
  PROVE  find_neighbor(n, uid) = find_neighbor(o, uid)
<1>1. Walk(n, Hash(uid)) = Walk(o, Hash(uid))
  BY DEF Walk
<1> QED
  BY <1>1 DEF find_neighbor

\* There is an entry to give up.
LEMMA OldestIs ==
  ASSUME NEW n \in Arrays
  PROVE  Oldest(n) \in Indices
<1> DEFINE Left == {NONE - n.time[i] : i \in Indices}
           Olds == {i \in Indices : \A j \in Indices : n.time[j] <= n.time[i]}
<1>1. NONE \in Nat /\ 0 \in Indices /\ Indices \subseteq Nat
  BY Constants DEF Indices
<1>2. \A i \in Indices : n.time[i] \in Nat /\ NONE - n.time[i] \in Nat
  <2>1. \A i \in Indices : n.time[i] \in 0 .. NONE
    BY Fields
  <2>2. \A t \in 0 .. NONE : t \in Nat /\ NONE - t \in Nat
    BY <1>1
  <2> QED
    BY <2>1, <2>2
<1>3. PICK l \in Left : \A k \in Left : l <= k
  <2>1. Left \in SUBSET Nat
    BY <1>2
  <2>2. NONE - n.time[0] \in Left
    BY <1>1
  <2> HIDE DEF Left
  <2> QED
    BY <2>1, <2>2, LeastMember
<1>4. PICK o \in Indices : l = NONE - n.time[o]
  OBVIOUS
<1>5. \A j \in Indices : n.time[j] <= n.time[o]
  <2> SUFFICES ASSUME NEW j \in Indices PROVE n.time[j] <= n.time[o]
    OBVIOUS
  <2>1. NONE - n.time[o] <= NONE - n.time[j]
    BY <1>3, <1>4
  <2> QED
    BY <1>1, <1>2, <2>1
<1>6. PICK i \in Olds : \A j \in Olds : i <= j
  <2>1. Olds \in SUBSET Nat /\ o \in Olds
    BY <1>1, <1>5
  <2> HIDE DEF Olds
  <2> QED
    BY <2>1, LeastMember
<1>7. ASSUME NEW j \in 0 .. i - 1 PROVE n.time[j] < n.time[i]
  <2>1. j \in Indices /\ ~ (i <= j)
    <3>1. i \in Indices /\ NEIGHBORHOOD_SIZE \in Nat
      BY Constants
    <3> HIDE DEF Olds
    <3> QED
      BY <3>1 DEF Indices
  <2>2. n.time[j] <= n.time[i]
    BY <2>1
  <2>3. j \notin Olds
    BY <1>6, <2>1
  <2>4. PICK k \in Indices : ~ (n.time[k] <= n.time[j])
    BY <2>1, <2>3
  <2>5. n.time[k] <= n.time[i]
    OBVIOUS
  <2> QED
    BY <1>2, <2>1, <2>4, <2>5
<1>8. \E x \in Indices : /\ \A j \in Indices : n.time[j] <= n.time[x]
                         /\ \A j \in 0 .. x - 1 : n.time[j] < n.time[x]
  <2>1. i \in Indices /\ \A j \in Indices : n.time[j] <= n.time[i]
    OBVIOUS
  <2> QED
    BY <1>7, <2>1
<1> QED
  BY <1>8 DEF Oldest

\* Whatever the links are like, to give up an entry makes it the first free one.
LEMMA DelType ==
  ASSUME NEW n \in Arrays, NEW x \in Indices
  PROVE  Del_neighbor(n, x) \in Arrays /\ Del_neighbor(n, x).head[Trash] = x
<1> DEFINE passed == IF Valid_num(n.prev[x])
                     THEN [n EXCEPT !.next[n.prev[x]] = n.next[x]]
                     ELSE [n EXCEPT !.head[Hash(n.uid[x])] = n.next[x]]
           back == IF Valid_num(passed.next[x])
                   THEN [passed EXCEPT !.prev[passed.next[x]] = passed.prev[x]]
                   ELSE passed
<1>1. Del_neighbor(n, x) = [back EXCEPT !.next[x] = back.head[Trash], !.time[x] = NONE, !.head[Trash] = x]
  BY DEF Del_neighbor
<1>2. x \in Index /\ NONE \in 0 .. NONE /\ Trash \in Heads
  BY Constants DEF Index
<1>3. n.next[x] \in Index
  BY Fields
<1>4. passed \in Arrays
  BY <1>3 DEF Arrays
<1> HIDE DEF passed
<1>5. passed.prev[x] \in Index
  BY <1>4, Fields
<1>6. back \in Arrays
  BY <1>4, <1>5 DEF Arrays
<1> HIDE DEF back
<1>7. back.head[Trash] \in Index
  BY <1>2, <1>6, Fields
<1> DEFINE o == [back EXCEPT !.next[x] = back.head[Trash], !.time[x] = NONE, !.head[Trash] = x]
<1>8. o \in Arrays
  BY <1>2, <1>6, <1>7 DEF Arrays
<1>9. o.head[Trash] = x
  BY <1>2, <1>6 DEF Arrays
<1> QED
  BY <1>1, <1>8, <1>9

\* What the first free entry becomes.
LEMMA TakeFreeIs ==
  ASSUME NEW n \in Arrays, NEW uid \in Near, n.head[Trash] # NONE
  PROVE  LET r == n.head[Trash]
             o == TakeFree(n, uid)
             first == n.head[Hash(uid)]
         IN  /\ r \in Indices /\ o \in Arrays
             /\ o.head[Trash] = n.next[r] /\ o.head[Hash(uid)] = r
             /\ \A h \in Heads \ {Trash, Hash(uid)} : o.head[h] = n.head[h]
             /\ o.next[r] = first /\ \A i \in Indices \ {r} : o.next[i] = n.next[i]
             /\ o.uid[r] = uid /\ \A i \in Indices \ {r} : o.uid[i] = n.uid[i]
             /\ o.time[r] = 0 /\ \A i \in Indices \ {r} : o.time[i] = n.time[i]
             /\ \A i \in Indices : o.prev[i] = IF i = first THEN r ELSE n.prev[i]
<1> DEFINE r == n.head[Trash]
           h == Hash(uid)
           first == n.head[h]
           back == IF Valid_num(first) THEN [n EXCEPT !.prev[first] = r] ELSE n
           o == [back EXCEPT !.head[Trash] = n.next[r], !.next[r] = first,
                             !.head[h] = r, !.time[r] = 0, !.uid[r] = uid]
<1>1. TakeFree(n, uid) = o
  BY DEF TakeFree
<1>2. Trash \in Heads /\ h \in Heads /\ h # Trash /\ 0 \in 0 .. NONE /\ NONE \notin Indices
  BY Constants, HashType
<1>3. r \in Indices /\ first \in Index
  BY <1>2, Fields DEF Index
<1> HIDE DEF h, r, first
<1>4. /\ back.head = n.head /\ back.next = n.next /\ back.uid = n.uid /\ back.time = n.time
      /\ back \in Arrays
      /\ \A i \in Indices : back.prev[i] = IF i = first THEN r ELSE n.prev[i]
  <2>1. CASE Valid_num(first)
    <3>1. back = [n EXCEPT !.prev[first] = r]
      BY <2>1
    <3> QED
      BY <1>3, <3>1 DEF Arrays, Index
  <2>2. CASE ~ Valid_num(first)
    <3>1. back = n /\ first = NONE
      BY <2>2 DEF Valid_num
    <3> QED
      BY <1>2, <3>1
  <2> QED
    BY <2>1, <2>2
<1>5. n.next[r] \in Index /\ r \in Index
  BY <1>3, Fields DEF Index
<1> HIDE DEF back
<1>6. o \in Arrays
  BY <1>2, <1>3, <1>4, <1>5 DEF Arrays
<1>7. /\ o.head = [back.head EXCEPT ![Trash] = n.next[r], ![h] = r]
      /\ o.next = [back.next EXCEPT ![r] = first] /\ o.uid = [back.uid EXCEPT ![r] = uid]
      /\ o.time = [back.time EXCEPT ![r] = 0] /\ o.prev = back.prev
  BY <1>4 DEF Arrays
<1> HIDE DEF o
<1>8. /\ back.head \in [Heads -> Index] /\ back.uid \in [Indices -> Near \cup {NoUid}]
      /\ back.next \in [Indices -> Index] /\ back.time \in [Indices -> 0 .. NONE]
  BY <1>4, Fields
<1>9. /\ o.head[Trash] = n.next[r] /\ o.head[h] = r
      /\ \A k \in Heads \ {Trash, h} : o.head[k] = n.head[k]
  BY <1>2, <1>4, <1>7, <1>8
<1>10. /\ o.next[r] = first /\ \A i \in Indices \ {r} : o.next[i] = n.next[i]
       /\ o.uid[r] = uid /\ \A i \in Indices \ {r} : o.uid[i] = n.uid[i]
       /\ o.time[r] = 0 /\ \A i \in Indices \ {r} : o.time[i] = n.time[i]
  BY <1>3, <1>4, <1>7, <1>8
<1>11. \A i \in Indices : o.prev[i] = IF i = first THEN r ELSE n.prev[i]
  BY <1>4, <1>7
<1> QED
  BY <1>1, <1>3, <1>6, <1>9, <1>10, <1>11 DEF h, r, first

\* A new neighbour is the first of its list.
LEMMA NewIs ==
  ASSUME NEW n \in Arrays, NEW uid \in Near
  PROVE  LET o == new_neighbor(n, uid)
         IN  /\ o \in Arrays /\ o.head[Hash(uid)] \in Indices
             /\ o.uid[o.head[Hash(uid)]] = uid /\ o.time[o.head[Hash(uid)]] = 0
<1> DEFINE m == IF Valid_num(n.head[Trash]) THEN n ELSE Del_neighbor(n, Oldest(n))
<1>1. m \in Arrays /\ m.head[Trash] # NONE
  <2>1. CASE Valid_num(n.head[Trash])
    BY <2>1 DEF Valid_num
  <2>2. CASE ~ Valid_num(n.head[Trash])
    <3>1. Oldest(n) \in Indices
      BY OldestIs
    <3>2. Del_neighbor(n, Oldest(n)) \in Arrays /\ Del_neighbor(n, Oldest(n)).head[Trash] = Oldest(n)
      BY <3>1, DelType
    <3> QED
      BY <2>2, <3>1, <3>2, Constants
  <2> QED
    BY <2>1, <2>2
<1>2. new_neighbor(n, uid) = TakeFree(m, uid)
  BY DEF new_neighbor
<1> HIDE DEF m
<1> DEFINE o == TakeFree(m, uid)
<1>3. /\ m.head[Trash] \in Indices /\ o \in Arrays /\ o.head[Hash(uid)] = m.head[Trash]
      /\ o.uid[m.head[Trash]] = uid /\ o.time[m.head[Trash]] = 0
  BY <1>1, TakeFreeIs
<1> HIDE DEF o
<1>4. new_neighbor(n, uid) = o
  BY <1>2 DEF o
<1> QED
  BY <1>3, <1>4

\* ... and a search finds it there at once.
LEMMA FirstIsFound ==
  ASSUME NEW n \in Arrays, NEW uid \in Near, n.head[Hash(uid)] \in Indices,
         n.uid[n.head[Hash(uid)]] = uid
  PROVE  find_neighbor(n, uid) = n.head[Hash(uid)]
<1> DEFINE at == Walk(n, Hash(uid))
<1>1. Hash(uid) \in Heads
  BY Constants, HashType
<1>2. Way(n.next, n.head[Hash(uid)], NEIGHBORHOOD_SIZE, at)
  BY <1>1, Fields, WalkIs
<1>3. \/ /\ find_neighbor(n, uid) = NONE
         /\ \A k \in 0 .. NEIGHBORHOOD_SIZE : ~ (Valid_num(at[k]) /\ n.uid[at[k]] = uid)
      \/ \E k \in 0 .. NEIGHBORHOOD_SIZE :
           /\ find_neighbor(n, uid) = at[k]
           /\ \A j \in 0 .. NEIGHBORHOOD_SIZE : Valid_num(at[j]) /\ n.uid[at[j]] = uid => k <= j
  BY FindIs
<1> HIDE DEF at
<1>4. at[0] = n.head[Hash(uid)] /\ 0 \in 0 .. NEIGHBORHOOD_SIZE
  BY <1>2, Constants DEF Way
<1>5. Valid_num(at[0]) /\ n.uid[at[0]] = uid
  BY <1>4, Constants DEF Valid_num
<1>6. PICK k \in 0 .. NEIGHBORHOOD_SIZE : find_neighbor(n, uid) = at[k] /\ k <= 0
  BY <1>3, <1>4, <1>5
<1>7. k = 0
  BY <1>6, Constants
<1> QED
  BY <1>4, <1>6, <1>7

-----------------------------------------------------------------------------
(* Of any node, the one with damaged lists included. *)

LEMMA TypeInit == Init => TypeOK
<1> SUFFICES ASSUME Init PROVE TypeOK
  OBVIOUS
<1>1. /\ NONE \in Index /\ 0 \in Index /\ NONE \in 0 .. NONE
      /\ \A i \in Indices : i + 1 \in Indices => i + 1 \in Index
  BY Constants DEF Index
<1>2. [h \in Heads |-> IF h = Trash THEN 0 ELSE NONE] \in [Heads -> Index]
  BY <1>1
<1>3. [i \in Indices |-> NoUid] \in [Indices -> Near \cup {NoUid}]
  OBVIOUS
<1>4. [i \in Indices |-> 0] \in [Indices -> Index]
  BY <1>1
<1>5. [i \in Indices |-> IF i + 1 \in Indices THEN i + 1 ELSE NONE] \in [Indices -> Index]
  BY <1>1
<1>6. [i \in Indices |-> NONE] \in [Indices -> 0 .. NONE]
  BY <1>1
<1>7. nb \in Arrays
  BY <1>2, <1>3, <1>4, <1>5, <1>6 DEF Init, Arrays
<1>8. 0 \in 0 .. NEIGHBOR_GOOD_TILL \div 2
  BY Constants
<1> QED
  BY <1>7, <1>8 DEF Init, TypeOK, Arrays

\* Types survive every step, and what was registered is found.
LEMMA RegisterType ==
  ASSUME TypeOK, NEW uid \in Near, register_neighbor(uid)
  PROVE  /\ TypeOK'
         /\ find_neighbor(nb', uid) \in Indices
         /\ nb'.uid[find_neighbor(nb', uid)] = uid /\ nb'.time[find_neighbor(nb', uid)] = 0
<1> DEFINE loc == find_neighbor(nb, uid)
<1>1. nb \in Arrays
  BY DEF TypeOK, Arrays
<1>2. heard' \subseteq Near /\ UNCHANGED <<count, asked, hung>>
  BY DEF TypeOK, register_neighbor
<1>3. CASE loc # NONE
  <2>1. loc \in Indices /\ nb.uid[loc] = uid
    BY <1>1, <1>3, FoundHasUid
  <2>2. nb' = [nb EXCEPT !.time[loc] = 0]
    BY <1>3 DEF register_neighbor, Valid_num
  <2> HIDE DEF loc
  <2>3. 0 \in 0 .. NONE
    BY Constants
  <2>4. /\ nb' \in Arrays /\ nb'.head = nb.head /\ nb'.next = nb.next /\ nb'.uid = nb.uid
        /\ nb'.time[loc] = 0
    BY <1>1, <2>1, <2>2, <2>3 DEF Arrays
  <2>5. find_neighbor(nb', uid) = loc
    BY <2>4, FoundAgain DEF loc
  <2> QED
    BY <1>2, <2>1, <2>4, <2>5 DEF TypeOK, Arrays
<1>4. CASE loc = NONE
  <2>1. nb' = new_neighbor(nb, uid)
    BY <1>4 DEF register_neighbor, Valid_num
  <2> DEFINE o == new_neighbor(nb, uid)
             i == o.head[Hash(uid)]
  <2>2. o \in Arrays /\ i \in Indices /\ o.uid[i] = uid /\ o.time[i] = 0
    BY <1>1, NewIs
  <2>3. find_neighbor(o, uid) = i
    BY <2>2, FirstIsFound
  <2>4. nb' = o
    BY <2>1
  <2> HIDE DEF o
  <2> QED
    BY <1>2, <2>2, <2>3, <2>4 DEF TypeOK, Arrays
<1> QED
  BY <1>3, <1>4

LEMMA TypeStep == TypeOK /\ [Next]_vars => TypeOK'
<1> SUFFICES ASSUME TypeOK, [Next]_vars PROVE TypeOK'
  OBVIOUS
<1>1. ASSUME NEW uid \in Near, register_neighbor(uid) PROVE TypeOK'
  BY <1>1, RegisterType
<1>2. ASSUME NEW uid \in Near, Hang(uid) PROVE TypeOK'
  BY <1>2 DEF Hang, TypeOK
<1>3. ASSUME check_transmission PROVE TypeOK'
  <2> DEFINE time == [i \in Indices |-> IF Valid_num(nb.time[i]) THEN nb.time[i] + 1 ELSE NONE]
  <2>1. nb \in Arrays /\ nb' = [nb EXCEPT !.time = time] /\ heard' = heard /\ hung' = hung
    BY <1>3 DEF check_transmission, TypeOK, Arrays
  <2>2. \A i \in Indices : nb.time[i] \in 0 .. NONE
    BY <2>1, Fields
  <2>3. \A t \in 0 .. NONE : IF Valid_num(t) THEN t + 1 \in 0 .. NONE ELSE NONE \in 0 .. NONE
    BY Constants DEF Valid_num
  <2>4. time \in [Indices -> 0 .. NONE]
    BY <2>2, <2>3
  <2> HIDE DEF time
  <2>5. nb' \in Arrays
    BY <2>1, <2>4 DEF Arrays
  <2>6. count' \in 0 .. NEIGHBOR_GOOD_TILL \div 2
    <3> DEFINE half == NEIGHBOR_GOOD_TILL \div 2
    <3>1. half \in Nat /\ count \in 0 .. half
      BY Constants DEF TypeOK
    <3>2. count' = IF count = half THEN 0 ELSE count + 1
      BY <1>3 DEF check_transmission
    <3> HIDE DEF half
    <3>3. count' \in 0 .. half
      BY <3>1, <3>2
    <3> QED
      BY <3>3 DEF half
  <2>7. asked' \subseteq Indices
    BY <1>3 DEF check_transmission
  <2> QED
    BY <2>1, <2>5, <2>6, <2>7 DEF TypeOK, Arrays
<1>4. CASE UNCHANGED vars
  BY <1>4 DEF vars, TypeOK
<1> QED
  BY <1>1, <1>2, <1>3, <1>4 DEF Next

-----------------------------------------------------------------------------
(* The invariant. *)

\* The entries taken, in the order of their numbers, and the next free one.
Used == 0 .. Cardinality(heard) - 1
FreeFrom(i) == IF i < NEIGHBORHOOD_SIZE THEN i ELSE NONE

\* x is the last entry of list h before i, or there is none.
Newest(x, h, i) ==
  \/ x = NONE /\ \A j \in Used : j < i => Hash(nb.uid[j]) # h
  \/ /\ x \in Used /\ x < i /\ Hash(nb.uid[x]) = h
     /\ \A j \in Used : j < i /\ Hash(nb.uid[j]) = h => j <= x

FreeInOrder ==
  /\ nb.head[Trash] = FreeFrom(Cardinality(heard))
  /\ \A i \in Indices \ Used : /\ nb.uid[i] = NoUid /\ nb.time[i] = NONE
                               /\ nb.next[i] = FreeFrom(i + 1)

UsedOnce ==
  /\ heard = {nb.uid[i] : i \in Used}
  /\ \A i, j \in Used : nb.uid[i] = nb.uid[j] => i = j

ListsNewestFirst ==
  /\ \A h \in Heads \ {Trash} : Newest(nb.head[h], h, NEIGHBORHOOD_SIZE)
  /\ \A i \in Used : Newest(nb.next[i], Hash(nb.uid[i]), i)
  /\ \A i \in Used : Valid_num(nb.next[i]) => nb.prev[nb.next[i]] = i

Chained == Few => FreeInOrder /\ UsedOnce /\ ListsNewestFirst /\ asked \subseteq Used

IInv == TypeOK /\ IsFiniteSet(heard) /\ Chained

LEMMA UsedType ==
  ASSUME IInv, Few
  PROVE  /\ Cardinality(heard) \in Nat /\ Cardinality(heard) <= NEIGHBORHOOD_SIZE
         /\ Used \subseteq Indices /\ NONE \notin Used
         /\ \A i \in Used : nb.uid[i] \in heard /\ nb.uid[i] \in Near /\ Hash(nb.uid[i]) \in Heads \ {Trash}
<1>1. Cardinality(heard) \in Nat
  BY FS_CardinalityType DEF IInv
<1>2. Cardinality(heard) <= NEIGHBORHOOD_SIZE
  BY DEF Few
<1>3. Used \subseteq Indices /\ NONE \notin Used
  BY <1>1, <1>2, Constants DEF Used, Indices
<1>4. \A i \in Used : nb.uid[i] \in heard /\ nb.uid[i] \in Near
  BY DEF IInv, Chained, UsedOnce, TypeOK
<1>5. \A i \in Used : Hash(nb.uid[i]) \in Heads \ {Trash}
  BY <1>4, Constants, HashType
<1> QED
  BY <1>1, <1>2, <1>3, <1>4, <1>5

\* Along a list the entries grow older, so the walk comes to its end in time.
LEMMA WalkOlder ==
  ASSUME IInv, Few, NEW h \in Heads \ {Trash}, NEW m \in 0 .. NEIGHBORHOOD_SIZE,
         Walk(nb, h)[m] # NONE
  PROVE  LET i == Walk(nb, h)[m]
         IN  i \in Used /\ Hash(nb.uid[i]) = h /\ i + m < NEIGHBORHOOD_SIZE
<1> DEFINE S == NEIGHBORHOOD_SIZE
           at == Walk(nb, h)
           Older(k) == at[k] \in Used /\ Hash(nb.uid[at[k]]) = h /\ at[k] + k < S
           Bad == {k \in 0 .. S : at[k] # NONE /\ ~ Older(k)}
<1>1. SUFFICES ASSUME Bad # {} PROVE FALSE
  OBVIOUS
<1>2. S \in Nat /\ Bad \in SUBSET Nat
  BY Constants
<1>3. PICK k \in Bad : \A j \in Bad : k <= j
  <2> HIDE DEF Bad
  <2> QED
    BY <1>1, <1>2, LeastMember
<1>4. Way(nb.next, nb.head[h], S, at)
  <2>1. nb \in Arrays
    BY DEF IInv, TypeOK, Arrays
  <2> QED
    BY <2>1, Fields, WalkIs
<1>5. ListsNewestFirst /\ Used \subseteq Nat
  BY UsedType, Constants DEF IInv, Chained, Indices
<1> HIDE DEF at, S
<1>6. k \in 0 .. S /\ at[k] # NONE /\ ~ Older(k)
  OBVIOUS
<1>7. CASE k = 0
  <2>1. at[0] = nb.head[h]
    BY <1>4 DEF Way
  <2>2. Newest(at[0], h, S)
    BY <1>5, <2>1 DEF ListsNewestFirst, S
  <2>3. at[0] \in Used /\ at[0] < S /\ Hash(nb.uid[at[0]]) = h
    BY <1>6, <1>7, <2>2 DEF Newest
  <2>4. at[0] + 0 < S
    <3>1. at[0] \in Nat /\ at[0] < S
      BY <1>5, <2>3
    <3> QED
      BY <3>1
  <2> QED
    BY <1>6, <1>7, <2>3, <2>4
<1>8. CASE k # 0
  <2>1. k \in 1 .. S /\ k - 1 \in 0 .. S /\ k - 1 < k
    BY <1>2, <1>6, <1>8
  <2>2. k - 1 \notin Bad
    <3> HIDE DEF Bad
    <3> QED
      BY <1>2, <1>3, <2>1
  <2> DEFINE i == at[k - 1]
  <2>3. i # NONE /\ at[k] = nb.next[i]
    BY <1>4, <1>6, <2>1 DEF Way, Valid_num
  <2>4. i \in Used /\ Hash(nb.uid[i]) = h /\ i + (k - 1) < S
    BY <2>1, <2>2, <2>3
  <2> HIDE DEF i
  <2>5. Newest(nb.next[i], h, i)
    BY <1>5, <2>4 DEF ListsNewestFirst
  <2>6. at[k] \in Used /\ at[k] < i /\ Hash(nb.uid[at[k]]) = h
    BY <1>6, <2>3, <2>5 DEF Newest
  <2>7. at[k] + k < S
    <3>1. S \in Nat /\ k \in Nat /\ i \in Nat /\ at[k] \in Nat /\ at[k] < i /\ i + (k - 1) < S
      BY <1>2, <1>5, <2>1, <2>4, <2>6
    <3> QED
      BY <3>1
  <2> QED
    BY <1>6, <2>6, <2>7
<1> QED
  BY <1>7, <1>8

\* No list is without end.
LEMMA WalkEnds ==
  ASSUME IInv, Few, NEW h \in Heads \ {Trash}
  PROVE  ~ Endless(nb, h)
<1>1. SUFFICES ASSUME Walk(nb, h)[NEIGHBORHOOD_SIZE] # NONE PROVE FALSE
  BY DEF Endless, Valid_num
<1> DEFINE i == Walk(nb, h)[NEIGHBORHOOD_SIZE]
<1>2. NEIGHBORHOOD_SIZE \in Nat /\ NEIGHBORHOOD_SIZE \in 0 .. NEIGHBORHOOD_SIZE
  BY Constants
<1>3. i \in Used /\ i + NEIGHBORHOOD_SIZE < NEIGHBORHOOD_SIZE
  BY <1>1, <1>2, WalkOlder
<1> HIDE DEF i
<1>4. i \in Nat
  BY <1>3, UsedType, Constants DEF Indices
<1> QED
  BY <1>2, <1>3, <1>4

\* ... and it comes by every entry of its list.
LEMMA WalkMeets ==
  ASSUME IInv, Few, NEW j \in Used
  PROVE  \E m \in 0 .. NEIGHBORHOOD_SIZE : Walk(nb, Hash(nb.uid[j]))[m] = j
<1> DEFINE S == NEIGHBORHOOD_SIZE
           h == Hash(nb.uid[j])
           at == Walk(nb, h)
           Bad == {k \in 0 .. S : at[k] = NONE \/ at[k] <= j}
<1>1. SUFFICES ASSUME \A m \in 0 .. S : at[m] # j PROVE FALSE
  OBVIOUS
<1>2. S \in Nat /\ S \in 0 .. S /\ Bad \in SUBSET Nat
  BY Constants
<1>3. h \in Heads \ {Trash} /\ Used \subseteq Nat /\ NONE \notin Used /\ ListsNewestFirst
      /\ j < S
  BY UsedType, Constants DEF IInv, Chained, Indices
<1>4. Way(nb.next, nb.head[h], S, at)
  <2>1. nb \in Arrays
    BY DEF IInv, TypeOK, Arrays
  <2> QED
    BY <1>3, <2>1, Fields, WalkIs
<1>5. \A m \in 0 .. S : at[m] # NONE => at[m] \in Used /\ Hash(nb.uid[at[m]]) = h
  BY <1>3, WalkOlder
<1>6. at[S] = NONE
  BY <1>3, WalkEnds DEF Endless, Valid_num
<1>7. PICK k \in Bad : \A i \in Bad : k <= i
  <2>1. S \in Bad
    BY <1>2, <1>6
  <2> HIDE DEF Bad
  <2> QED
    BY <1>2, <2>1, LeastMember
<1>8. h = Hash(nb.uid[j])
  OBVIOUS
<1> HIDE DEF at, h, S
<1>9. k \in 0 .. S /\ (at[k] = NONE \/ at[k] <= j)
  OBVIOUS
<1>10. \E i : /\ Newest(at[k], h, i) /\ j < i
  <2>1. CASE k = 0
    <3>1. at[k] = nb.head[h]
      BY <1>4, <2>1 DEF Way
    <3>2. Newest(at[k], h, S)
      BY <1>3, <3>1 DEF ListsNewestFirst, S
    <3> QED
      BY <1>3, <3>2
  <2>2. CASE k # 0
    <3>1. k \in 1 .. S /\ k - 1 \in 0 .. S /\ k - 1 < k
      BY <1>2, <1>9, <2>2
    <3>2. k - 1 \notin Bad
      <4> HIDE DEF Bad
      <4> QED
        BY <1>2, <1>7, <3>1
    <3> DEFINE i == at[k - 1]
    <3>3. i # NONE /\ ~ (i <= j)
      BY <3>1, <3>2
    <3>4. i \in Used /\ Hash(nb.uid[i]) = h
      BY <1>5, <3>1, <3>3
    <3>5. at[k] = nb.next[i]
      BY <1>4, <3>1, <3>3 DEF Way, Valid_num
    <3> HIDE DEF i
    <3>6. Newest(at[k], h, i)
      BY <1>3, <3>4, <3>5 DEF ListsNewestFirst
    <3>7. j < i
      BY <1>3, <3>3, <3>4
    <3> QED
      BY <3>6, <3>7
  <2> QED
    BY <2>1, <2>2
<1>11. at[k] \in Used /\ j <= at[k]
  BY <1>8, <1>10 DEF Newest
<1>12. at[k] = j
  <2>1. at[k] \in Nat /\ j \in Nat /\ at[k] <= j /\ j <= at[k]
    BY <1>3, <1>9, <1>11
  <2> QED
    BY <2>1
<1> QED
  BY <1>1, <1>9, <1>12

\* The free entries follow each other.
LEMMA TrashWalk ==
  ASSUME IInv, Few, NEW m \in 0 .. NEIGHBORHOOD_SIZE
  PROVE  Walk(nb, Trash)[m] = FreeFrom(Cardinality(heard) + m)
<1> DEFINE S == NEIGHBORHOOD_SIZE
           c == Cardinality(heard)
           at == Walk(nb, Trash)
           Bad == {k \in 0 .. S : at[k] # FreeFrom(c + k)}
<1>1. SUFFICES ASSUME Bad # {} PROVE FALSE
  OBVIOUS
<1>2. S \in Nat /\ Bad \in SUBSET Nat /\ c \in Nat
  BY Constants, UsedType
<1>3. PICK k \in Bad : \A j \in Bad : k <= j
  <2> HIDE DEF Bad
  <2> QED
    BY <1>1, <1>2, LeastMember
<1>4. Way(nb.next, nb.head[Trash], S, at)
  <2>1. nb \in Arrays /\ Trash \in Heads
    BY Constants DEF IInv, TypeOK, Arrays
  <2> QED
    BY <2>1, Fields, WalkIs
<1>5. FreeInOrder
  BY DEF IInv, Chained
<1> HIDE DEF at
<1>6. k \in 0 .. S /\ at[k] # FreeFrom(c + k)
  OBVIOUS
<1>7. CASE k = 0
  <2>1. at[0] = FreeFrom(c) /\ c + 0 = c
    BY <1>2, <1>4, <1>5 DEF Way, FreeInOrder
  <2> QED
    BY <1>6, <1>7, <2>1
<1>8. CASE k # 0
  <2>1. k \in 1 .. S /\ k - 1 \in 0 .. S /\ k - 1 < k
    BY <1>2, <1>6, <1>8
  <2>2. k - 1 \notin Bad
    <3> HIDE DEF Bad
    <3> QED
      BY <1>2, <1>3, <2>1
  <2>3. at[k - 1] = FreeFrom(c + (k - 1))
    BY <2>1, <2>2
  <2>4. at[k] = IF Valid_num(at[k - 1]) THEN nb.next[at[k - 1]] ELSE NONE
    BY <1>4, <2>1 DEF Way
  <2> DEFINE i == c + (k - 1)
  <2>5. i \in Nat /\ i + 1 = c + k /\ c <= i
    BY <1>2, <2>1
  <2>6. CASE i < S
    <3>1. i \in Indices \ Used /\ Valid_num(i)
      BY <1>2, <2>5, <2>6, Constants DEF Indices, Used, Valid_num
    <3>2. at[k - 1] = i
      BY <2>3, <2>6 DEF FreeFrom
    <3>3. nb.next[i] = FreeFrom(i + 1)
      BY <1>5, <3>1 DEF FreeInOrder
    <3> QED
      BY <1>6, <2>4, <2>5, <3>1, <3>2, <3>3
  <2>7. CASE ~ (i < S)
    <3>1. at[k] = NONE
      BY <2>3, <2>4, <2>7 DEF FreeFrom, Valid_num
    <3>2. ~ (c + k < S)
      BY <1>2, <2>5, <2>7
    <3> QED
      BY <1>6, <3>1, <3>2 DEF FreeFrom
  <2> QED
    BY <2>6, <2>7
<1> QED
  BY <1>7, <1>8

\* A search finds whoever was heard of, and nobody else.
LEMMA FoundIfHeard ==
  ASSUME IInv, Few, NEW uid \in Near
  PROVE  IF uid \in heard
         THEN /\ find_neighbor(nb, uid) \in Used
              /\ {j \in Indices : nb.uid[j] = uid} = {find_neighbor(nb, uid)}
         ELSE find_neighbor(nb, uid) = NONE
<1> DEFINE at == Walk(nb, Hash(uid))
           x == find_neighbor(nb, uid)
<1>1. Hash(uid) \in Heads \ {Trash} /\ uid # NoUid
  BY Constants, HashType
<1>2. nb \in Arrays /\ UsedOnce /\ FreeInOrder
  BY DEF IInv, TypeOK, Arrays, Chained
<1>3. \/ /\ x = NONE
         /\ \A k \in 0 .. NEIGHBORHOOD_SIZE : ~ (Valid_num(at[k]) /\ nb.uid[at[k]] = uid)
      \/ \E k \in 0 .. NEIGHBORHOOD_SIZE :
           x = at[k] /\ Valid_num(at[k]) /\ nb.uid[at[k]] = uid
  BY FindIs
<1>4. \A k \in 0 .. NEIGHBORHOOD_SIZE : Valid_num(at[k]) => at[k] \in Used
  BY <1>1, WalkOlder DEF Valid_num
<1>5. Used \subseteq Indices /\ NONE \notin Used
  BY UsedType
<1>6. ASSUME uid \in heard
      PROVE  x \in Used /\ nb.uid[x] = uid
  <2>1. PICK j \in Used : nb.uid[j] = uid
    BY <1>2, <1>6 DEF UsedOnce
  <2>2. PICK m \in 0 .. NEIGHBORHOOD_SIZE : at[m] = j
    BY <2>1, WalkMeets
  <2>3. Valid_num(at[m]) /\ nb.uid[at[m]] = uid
    BY <1>5, <2>1, <2>2 DEF Valid_num
  <2> HIDE DEF at, x
  <2> QED
    BY <1>3, <1>4, <2>3
<1>7. ASSUME uid \notin heard
      PROVE  x = NONE
  <2>1. \A i \in Used : nb.uid[i] # uid
    BY <1>2, <1>7 DEF UsedOnce
  <2> HIDE DEF at, x
  <2> QED
    BY <1>3, <1>4, <2>1
<1> HIDE DEF x
<1>8. \A j \in Indices : x \in Used /\ nb.uid[x] = uid /\ nb.uid[j] = uid => j = x
  BY <1>1, <1>2 DEF UsedOnce, FreeInOrder
<1>9. ASSUME uid \in heard
      PROVE  {j \in Indices : nb.uid[j] = uid} = {x}
  BY <1>5, <1>6, <1>8, <1>9
<1> QED
  BY <1>6, <1>7, <1>9 DEF x

-----------------------------------------------------------------------------
(* The invariant holds. *)

LEMMA InitHolds == Init => IInv
<1> SUFFICES ASSUME Init PROVE IInv
  OBVIOUS
<1>1. TypeOK
  BY TypeInit
<1>2. heard = {} /\ asked = {} /\ IsFiniteSet(heard) /\ Cardinality(heard) = 0
  BY FS_EmptySet DEF Init
<1>3. Used = {}
  BY <1>2 DEF Used
<1>4. FreeInOrder
  <2>1. nb.head[Trash] = 0 /\ FreeFrom(0) = 0
    BY Constants DEF Init, FreeFrom
  <2>2. ASSUME NEW i \in Indices
        PROVE  nb.uid[i] = NoUid /\ nb.time[i] = NONE /\ nb.next[i] = FreeFrom(i + 1)
    <3>1. i + 1 \in Indices <=> i + 1 < NEIGHBORHOOD_SIZE
      BY Constants DEF Indices
    <3> QED
      BY <3>1 DEF Init, FreeFrom
  <2> QED
    BY <1>2, <2>1, <2>2 DEF FreeInOrder
<1>5. UsedOnce
  BY <1>2, <1>3 DEF UsedOnce
<1>6. ListsNewestFirst
  <2>1. \A h \in Heads \ {Trash} : nb.head[h] = NONE
    BY DEF Init
  <2> QED
    BY <1>3, <2>1 DEF ListsNewestFirst, Newest
<1> QED
  BY <1>1, <1>2, <1>4, <1>5, <1>6 DEF IInv, Chained

\* A step that changes no list keeps it, if free entries get no time.
LEMMA TimesPass ==
  ASSUME IInv, TypeOK', heard' = heard,
         nb'.head = nb.head, nb'.uid = nb.uid, nb'.prev = nb.prev, nb'.next = nb.next,
         Few => /\ asked' \subseteq Used
                /\ \A i \in Indices \ Used : nb'.time[i] = nb.time[i]
  PROVE  IInv'
<1>1. IsFiniteSet(heard)' /\ (Few' <=> Few) /\ Used' = Used
  BY DEF IInv, Few, Used
<1>2. ASSUME Few
      PROVE  (FreeInOrder /\ UsedOnce /\ ListsNewestFirst /\ asked \subseteq Used)'
  <2>1. FreeInOrder /\ UsedOnce /\ ListsNewestFirst
    BY <1>2 DEF IInv, Chained
  <2>2. FreeInOrder'
    BY <1>1, <1>2, <2>1 DEF FreeInOrder
  <2>3. UsedOnce'
    BY <1>1, <2>1 DEF UsedOnce
  <2>4. ListsNewestFirst'
    BY <1>1, <2>1 DEF ListsNewestFirst, Newest
  <2> QED
    BY <1>1, <1>2, <2>2, <2>3, <2>4
<1> QED
  BY <1>1, <1>2 DEF IInv, Chained

\* A new neighbour takes the next entry and becomes the newest of its list.
LEMMA NewKeeps ==
  ASSUME IInv, TypeOK', Few, NEW uid \in Near \ heard, heard' = heard \cup {uid}, Few',
         nb' = new_neighbor(nb, uid), asked' = asked
  PROVE  IInv'
<1> DEFINE S == NEIGHBORHOOD_SIZE
           c == Cardinality(heard)
           hash == Hash(uid)
           first == nb.head[hash]
<1>1. IsFiniteSet(heard') /\ Cardinality(heard') = c + 1
  BY FS_AddElement DEF IInv
<1>2. c \in Nat /\ S \in Nat /\ c < S
  <2>1. c \in Nat /\ S \in Nat /\ c + 1 <= S
    BY <1>1, UsedType, Constants DEF Few
  <2> HIDE DEF c, S
  <2> QED
    BY <2>1
<1>3. Used' = 0 .. c /\ Used = 0 .. c - 1
  <2>1. Used' = 0 .. (c + 1) - 1 /\ Used = 0 .. c - 1
    BY <1>1 DEF Used
  <2>2. (c + 1) - 1 = c
    BY <1>2
  <2> QED
    BY <2>1, <2>2
<1>4. FreeInOrder /\ UsedOnce /\ ListsNewestFirst /\ asked \subseteq Used
  BY DEF IInv, Chained
<1>5. hash \in Heads \ {Trash} /\ nb \in Arrays /\ NONE \notin Indices
  BY HashType, Constants DEF IInv, TypeOK, Arrays
<1>6. nb.head[Trash] = c /\ c # NONE /\ c \in Indices
  <2>1. nb.head[Trash] = c
    BY <1>2, <1>4 DEF FreeInOrder, FreeFrom
  <2>2. c \in Indices
    BY <1>2 DEF Indices
  <2> QED
    BY <1>5, <2>1, <2>2
<1>7. nb' = TakeFree(nb, uid)
  BY <1>6 DEF new_neighbor, Valid_num
<1> HIDE DEF c, hash, first
<1>8. /\ nb'.head[Trash] = nb.next[c] /\ nb'.head[hash] = c
      /\ \A h \in Heads \ {Trash, hash} : nb'.head[h] = nb.head[h]
      /\ nb'.next[c] = first /\ \A i \in Indices \ {c} : nb'.next[i] = nb.next[i]
      /\ nb'.uid[c] = uid /\ \A i \in Indices \ {c} : nb'.uid[i] = nb.uid[i]
      /\ \A i \in Indices \ {c} : nb'.time[i] = nb.time[i]
      /\ \A i \in Indices : nb'.prev[i] = IF i = first THEN c ELSE nb.prev[i]
  <2> DEFINE o == TakeFree(nb, uid)
  <2>1. /\ o.head[Trash] = nb.next[c] /\ o.head[hash] = c
        /\ \A h \in Heads \ {Trash, hash} : o.head[h] = nb.head[h]
        /\ o.next[c] = first /\ \A i \in Indices \ {c} : o.next[i] = nb.next[i]
        /\ o.uid[c] = uid /\ \A i \in Indices \ {c} : o.uid[i] = nb.uid[i]
        /\ \A i \in Indices \ {c} : o.time[i] = nb.time[i]
        /\ \A i \in Indices : o.prev[i] = IF i = first THEN c ELSE nb.prev[i]
    BY <1>5, <1>6, TakeFreeIs DEF hash, first
  <2> HIDE DEF o
  <2>2. nb' = o
    BY <1>7 DEF o
  <2> QED
    BY <2>1, <2>2
<1>9. /\ Used' = Used \cup {c} /\ Used \subseteq Indices \ {c} /\ Used \subseteq Nat
      /\ (\A j \in Used : j < c) /\ (\A j \in Indices : j < S)
  BY <1>2, <1>3 DEF Indices
<1>10. (\A i \in Used : nb'.uid[i] = nb.uid[i] /\ nb'.next[i] = nb.next[i]) /\ nb'.uid[c] = uid
  BY <1>8, <1>9
<1>11. FreeInOrder'
  <2>1. c \in Indices \ Used
    BY <1>6, <1>9
  <2>2. nb'.head[Trash] = FreeFrom(c + 1)
    BY <1>4, <1>8, <2>1 DEF FreeInOrder
  <2>3. ASSUME NEW i \in Indices \ Used'
        PROVE  nb'.uid[i] = NoUid /\ nb'.time[i] = NONE /\ nb'.next[i] = FreeFrom(i + 1)
    BY <1>4, <1>8, <1>9 DEF FreeInOrder
  <2> QED
    BY <1>1, <2>2, <2>3 DEF FreeInOrder, FreeFrom
<1>12. UsedOnce'
  <2>1. heard = {nb.uid[i] : i \in Used}
    BY <1>4 DEF UsedOnce
  <2>2. heard' = {nb'.uid[i] : i \in Used'}
    <3> DEFINE Uids == {nb'.uid[i] : i \in Used'}
    <3>1. Used' = Used \cup {c}
      BY <1>9
    <3>2. {nb'.uid[i] : i \in Used} = heard
      BY <1>10, <2>1
    <3>3. Uids = {nb'.uid[i] : i \in Used} \cup {nb'.uid[c]}
      BY <3>1
    <3> HIDE DEF Uids
    <3>4. Uids = heard \cup {uid}
      BY <1>10, <3>2, <3>3
    <3> QED
      BY <3>4 DEF Uids
  <2>3. \A i \in Used : nb'.uid[i] # uid
    <3>1. \A i \in Used : nb.uid[i] \in heard
      BY <2>1
    <3>2. uid \notin heard
      OBVIOUS
    <3> QED
      BY <1>10, <3>1, <3>2
  <2>4. \A i, j \in Used : nb'.uid[i] = nb'.uid[j] => i = j
    BY <1>4, <1>10 DEF UsedOnce
  <2>5. \A i, j \in Used' : nb'.uid[i] = nb'.uid[j] => i = j
    BY <1>9, <1>10, <2>3, <2>4
  <2> QED
    BY <2>2, <2>5 DEF UsedOnce
<1>13. hash = Hash(uid)
  BY DEF hash
<1>14. Newest(first, hash, S)
  BY <1>4, <1>5 DEF ListsNewestFirst, first
<1>15. ListsNewestFirst'
  <2>1. ASSUME NEW h \in Heads \ {Trash}
        PROVE  Newest(nb.head[h], h, S)'
    <3>1. CASE h = hash
      <4>1. nb'.head[h] = c /\ c \in Used' /\ Hash(nb'.uid[c]) = h
        BY <1>8, <1>9, <1>13, <3>1
      <4>2. \A j \in Used' : j <= c
        BY <1>2, <1>9
      <4> QED
        BY <1>2, <4>1, <4>2 DEF Newest
    <3>2. CASE h # hash
      <4>1. nb'.head[h] = nb.head[h]
        BY <1>8, <3>2
      <4>2. Newest(nb.head[h], h, S)
        BY <1>4 DEF ListsNewestFirst
      <4>3. Hash(nb'.uid[c]) # h
        BY <1>10, <1>13, <3>2
      <4> QED
        BY <1>9, <1>10, <4>1, <4>2, <4>3 DEF Newest
    <3> QED
      BY <3>1, <3>2
  <2>2. ASSUME NEW i \in Used'
        PROVE  Newest(nb.next[i], Hash(nb.uid[i]), i)'
    <3>1. CASE i = c
      <4>1. nb'.next[i] = first /\ Hash(nb'.uid[i]) = hash
        BY <1>8, <1>13, <3>1
      <4>2. \A j \in Used' : j < c => j \in Used /\ j < S /\ nb'.uid[j] = nb.uid[j]
        <5>1. Used' = Used \cup {c} /\ \A j \in Used : j \in Nat /\ j < c
          BY <1>9
        <5>2. ASSUME NEW j \in Used', j < c
              PROVE  j \in Used
          BY <1>2, <5>1, <5>2
        <5>3. \A j \in Used : j < S
          BY <1>2, <5>1
        <5> QED
          BY <1>10, <5>2, <5>3
      <4>3. CASE first = NONE
        <5>1. \A j \in Used : j < S => Hash(nb.uid[j]) # hash
          BY <1>9, <1>14, <4>3, UsedType DEF Newest
        <5> QED
          BY <3>1, <4>1, <4>2, <4>3, <5>1 DEF Newest
      <4>4. CASE first # NONE
        <5>1. /\ first \in Used /\ Hash(nb.uid[first]) = hash
              /\ \A j \in Used : j < S /\ Hash(nb.uid[j]) = hash => j <= first
          BY <1>14, <4>4 DEF Newest
        <5>2. first \in Used' /\ first < c /\ Hash(nb'.uid[first]) = hash
          BY <1>9, <1>10, <5>1
        <5>3. \A j \in Used' : j < c /\ Hash(nb'.uid[j]) = hash => j <= first
          BY <4>2, <5>1
        <5> QED
          BY <3>1, <4>1, <5>2, <5>3 DEF Newest
      <4> QED
        BY <4>3, <4>4
    <3>2. CASE i # c
      <4>1. i \in Used
        BY <1>9, <3>2
      <4>2. nb'.next[i] = nb.next[i] /\ nb'.uid[i] = nb.uid[i]
        BY <1>10, <4>1
      <4>3. Newest(nb.next[i], Hash(nb.uid[i]), i)
        BY <1>4, <4>1 DEF ListsNewestFirst
      <4>4. \A j \in Used' : j < i => j \in Used
        BY <1>2, <1>9, <4>1
      <4> QED
        BY <1>9, <1>10, <4>2, <4>3, <4>4 DEF Newest
    <3> QED
      BY <3>1, <3>2
  <2>3. ASSUME NEW i \in Used', Valid_num(nb'.next[i])
        PROVE  nb'.prev[nb'.next[i]] = i
    <3>1. CASE i = c
      <4>1. nb'.next[i] = first /\ first # NONE
        BY <1>8, <2>3, <3>1 DEF Valid_num
      <4>2. first \in Indices
        BY <1>9, <1>14, <4>1 DEF Newest
      <4> QED
        BY <1>8, <3>1, <4>1, <4>2
    <3>2. CASE i # c
      <4>1. i \in Used /\ i < S
        BY <1>9, <3>2
      <4> DEFINE x == nb.next[i]
      <4>2. nb'.next[i] = x /\ x # NONE
        BY <1>10, <2>3, <4>1 DEF Valid_num
      <4>3. nb.prev[x] = i /\ Newest(x, Hash(nb.uid[i]), i)
        BY <1>4, <4>1, <4>2 DEF ListsNewestFirst, Valid_num
      <4> HIDE DEF x
      <4>4. x \in Used /\ x < i /\ Hash(nb.uid[x]) = Hash(nb.uid[i])
        BY <4>2, <4>3 DEF Newest
      <4>5. x # first
        <5>1. SUFFICES ASSUME x = first PROVE FALSE
          OBVIOUS
        <5>2. Hash(nb.uid[x]) = hash /\ \A j \in Used : j < S /\ Hash(nb.uid[j]) = hash => j <= x
          BY <1>14, <4>2, <5>1 DEF Newest
        <5>3. i <= x
          BY <4>1, <4>4, <5>2
        <5>4. i \in Nat /\ x \in Nat /\ x < i /\ i <= x
          BY <1>9, <4>1, <4>4, <5>3
        <5> QED
          BY <5>4
      <4> QED
        BY <1>8, <1>9, <4>2, <4>3, <4>4, <4>5
    <3> QED
      BY <3>1, <3>2
  <2> QED
    BY <2>1, <2>2, <2>3 DEF ListsNewestFirst, S
<1>16. asked' \subseteq Used'
  BY <1>4, <1>9
<1> QED
  BY <1>1, <1>11, <1>12, <1>15, <1>16 DEF IInv, Chained

LEMMA RegisterKeeps ==
  ASSUME IInv, NEW uid \in Near, register_neighbor(uid)
  PROVE  IInv'
<1>1. TypeOK' /\ heard' = heard \cup {uid} /\ asked' = asked
  BY RegisterType DEF IInv, register_neighbor
<1>2. IsFiniteSet(heard) /\ IsFiniteSet(heard')
  BY <1>1, FS_AddElement DEF IInv
<1>3. CASE ~ Few'
  BY <1>1, <1>2, <1>3 DEF IInv, Chained
<1>4. CASE Few'
  <2>1. Few
    <3>1. Cardinality(heard) <= Cardinality(heard')
      BY <1>1, <1>2, FS_Subset
    <3>2. Cardinality(heard) \in Nat /\ Cardinality(heard') \in Nat
      BY <1>2, FS_CardinalityType
    <3>3. Cardinality(heard') <= NEIGHBORHOOD_SIZE /\ NEIGHBORHOOD_SIZE \in Nat
      BY <1>4, Constants DEF Few
    <3> QED
      BY <3>1, <3>2, <3>3 DEF Few
  <2> DEFINE loc == find_neighbor(nb, uid)
  <2>2. CASE uid \in heard
    <3>1. loc \in Used /\ Valid_num(loc)
      BY <2>1, <2>2, FoundIfHeard, UsedType DEF Valid_num
    <3>2. nb' = [nb EXCEPT !.time[loc] = 0]
      BY <3>1 DEF register_neighbor
    <3> HIDE DEF loc
    <3>3. nb \in Arrays /\ heard' = heard
      BY <1>1, <2>2 DEF IInv, TypeOK, Arrays
    <3>4. /\ nb'.head = nb.head /\ nb'.uid = nb.uid /\ nb'.prev = nb.prev /\ nb'.next = nb.next
          /\ \A i \in Indices \ Used : nb'.time[i] = nb.time[i]
      BY <3>1, <3>2, <3>3 DEF Arrays
    <3>5. asked' \subseteq Used
      BY <1>1, <2>1 DEF IInv, Chained
    <3> QED
      BY <1>1, <3>3, <3>4, <3>5, TimesPass
  <2>3. CASE uid \notin heard
    <3>1. ~ Valid_num(loc)
      BY <2>1, <2>3, FoundIfHeard DEF Valid_num
    <3>2. nb' = new_neighbor(nb, uid)
      BY <3>1 DEF register_neighbor
    <3> QED
      BY <1>1, <1>4, <2>1, <2>3, <3>2, NewKeeps
  <2> QED
    BY <2>2, <2>3
<1> QED
  BY <1>3, <1>4

LEMMA StepKeeps == IInv /\ [Next]_vars => IInv'
<1> SUFFICES ASSUME IInv, [Next]_vars PROVE IInv'
  OBVIOUS
<1>1. TypeOK'
  BY TypeStep DEF IInv
<1>2. ASSUME NEW uid \in Near, register_neighbor(uid) PROVE IInv'
  BY <1>2, RegisterKeeps
<1>3. ASSUME nb' = nb, heard' = heard, asked' = asked PROVE IInv'
  <2>1. Few => asked' \subseteq Used
    BY <1>3 DEF IInv, Chained
  <2> QED
    BY <1>1, <1>3, <2>1, TimesPass
<1>4. ASSUME NEW uid \in Near, Hang(uid) PROVE IInv'
  BY <1>3, <1>4 DEF Hang
<1>5. ASSUME check_transmission PROVE IInv'
  <2> DEFINE time == [i \in Indices |-> IF Valid_num(nb.time[i]) THEN nb.time[i] + 1 ELSE NONE]
  <2>1. /\ nb \in Arrays /\ nb' = [nb EXCEPT !.time = time] /\ heard' = heard
        /\ \A i \in asked' : i \in Indices /\ Valid_num(nb.time[i])
    BY <1>5 DEF check_transmission, IInv, TypeOK, Arrays
  <2>2. ASSUME Few
        PROVE  \A i \in Indices \ Used : nb.time[i] = NONE /\ time[i] = NONE
    BY <2>2 DEF IInv, Chained, FreeInOrder, Valid_num
  <2> HIDE DEF time
  <2>3. /\ nb'.head = nb.head /\ nb'.uid = nb.uid /\ nb'.prev = nb.prev /\ nb'.next = nb.next
        /\ nb'.time = time
    BY <2>1 DEF Arrays
  <2>4. Few => /\ asked' \subseteq Used
               /\ \A i \in Indices \ Used : nb'.time[i] = nb.time[i]
    BY <2>1, <2>2, <2>3 DEF Valid_num
  <2> QED
    BY <1>1, <2>1, <2>3, <2>4, TimesPass
<1>6. CASE UNCHANGED vars
  BY <1>3, <1>6 DEF vars
<1> QED
  BY <1>2, <1>4, <1>5, <1>6 DEF Next

LEMMA Invariant == Spec => []IInv
<1> QED
  BY InitHolds, StepKeeps, PTL DEF Spec

\* The indices, times and links of transmission.c stay within the arrays or
\* say NONE, damaged lists or not.
THEOREM TypeCorrect == Spec => []TypeOK
<1> QED
  BY TypeInit, TypeStep, PTL DEF Spec

-----------------------------------------------------------------------------
(* What the invariant gives. *)

\* The trash list ends and holds what is free.
LEMMA TrashIs ==
  ASSUME IInv, Few
  PROVE  ~ Endless(nb, Trash) /\ ListOf(Trash) = Indices \ Used
<1> DEFINE S == NEIGHBORHOOD_SIZE
           c == Cardinality(heard)
           at == Walk(nb, Trash)
<1>1. /\ S \in Nat /\ c \in Nat /\ c <= S /\ NONE \notin Indices
      /\ Used = 0 .. c - 1 /\ Indices = 0 .. S - 1
  BY UsedType, Constants DEF Used, Indices
<1>2. \A k \in 0 .. S : at[k] = FreeFrom(c + k)
  BY TrashWalk
<1>3. ListOf(Trash) = {at[k] : k \in 0 .. S} \ {NONE}
  BY DEF ListOf
<1>4. Endless(nb, Trash) <=> at[S] # NONE
  BY DEF Endless, Valid_num
<1> HIDE DEF c, at
<1>5. ~ Endless(nb, Trash)
  <2>1. S \in 0 .. S /\ ~ (c + S < S)
    BY <1>1
  <2> QED
    BY <1>2, <1>4, <2>1 DEF FreeFrom
<1>6. ASSUME NEW i \in ListOf(Trash)
      PROVE  i \in Indices \ Used
  <2>1. PICK k \in 0 .. S : i = at[k] /\ i # NONE
    BY <1>3
  <2>2. i = FreeFrom(c + k)
    BY <1>2, <2>1
  <2>3. i = c + k /\ c + k < S
    BY <2>1, <2>2 DEF FreeFrom
  <2> QED
    BY <1>1, <2>3
<1>7. ASSUME NEW i \in Indices \ Used
      PROVE  i \in ListOf(Trash)
  <2>1. i - c \in 0 .. S /\ c + (i - c) = i /\ i < S
    BY <1>1
  <2>2. at[i - c] = i
    BY <1>2, <2>1 DEF FreeFrom
  <2> QED
    BY <1>1, <1>3, <2>1, <2>2
<1> QED
  BY <1>5, <1>6, <1>7

\* Every other list holds the neighbours of its hash.
LEMMA ListIs ==
  ASSUME IInv, Few, NEW h \in Heads \ {Trash}
  PROVE  ListOf(h) = {i \in Used : Hash(nb.uid[i]) = h}
<1> DEFINE at == Walk(nb, h)
<1>1. ListOf(h) = {at[k] : k \in 0 .. NEIGHBORHOOD_SIZE} \ {NONE}
  BY DEF ListOf
<1>2. \A k \in 0 .. NEIGHBORHOOD_SIZE : at[k] # NONE => at[k] \in Used /\ Hash(nb.uid[at[k]]) = h
  BY WalkOlder
<1>3. ASSUME NEW i \in Used, Hash(nb.uid[i]) = h
      PROVE  \E k \in 0 .. NEIGHBORHOOD_SIZE : at[k] = i
  BY <1>3, WalkMeets
<1>4. NONE \notin Used
  BY UsedType
<1> HIDE DEF at
<1> QED
  BY <1>1, <1>2, <1>3, <1>4

LEMMA SoundIfInvariant == IInv => ListsAreSound
<1> SUFFICES ASSUME IInv, Few
             PROVE  /\ \A h \in Heads : ~ Endless(nb, h)
                    /\ \A i \in Indices : Cardinality({h \in Heads : i \in ListOf(h)}) = 1
                    /\ \A h \in Heads \ {Trash} : \A i \in ListOf(h) :
                         /\ Hash(nb.uid[i]) = h
                         /\ Valid_num(nb.next[i]) => nb.prev[nb.next[i]] = i
  BY DEF ListsAreSound
<1>1. \A h \in Heads : ~ Endless(nb, h)
  BY WalkEnds, TrashIs
<1>2. ASSUME NEW i \in Indices
      PROVE  Cardinality({h \in Heads : i \in ListOf(h)}) = 1
  <2> DEFINE Mine == {h \in Heads : i \in ListOf(h)}
  <2>1. \E h : Mine = {h}
    <3>1. CASE i \in Used
      <4>1. Hash(nb.uid[i]) \in Heads \ {Trash}
        BY <3>1, UsedType
      <4>2. i \notin ListOf(Trash)
        BY <3>1, TrashIs
      <4>3. \A h \in Heads \ {Trash} : i \in ListOf(h) <=> Hash(nb.uid[i]) = h
        BY <3>1, ListIs
      <4>4. Mine = {Hash(nb.uid[i])}
        BY <4>1, <4>2, <4>3
      <4> QED
        BY <4>4
    <3>2. CASE i \notin Used
      <4>1. i \in ListOf(Trash) /\ Trash \in Heads
        BY <3>2, TrashIs, Constants
      <4>2. \A h \in Heads \ {Trash} : i \notin ListOf(h)
        BY <3>2, ListIs
      <4>3. Mine = {Trash}
        BY <4>1, <4>2
      <4> QED
        BY <4>3
    <3> QED
      BY <3>1, <3>2
  <2> HIDE DEF Mine
  <2>2. Cardinality(Mine) = 1
    BY <2>1, FS_Singleton
  <2> QED
    BY <2>2 DEF Mine
<1>3. ASSUME NEW h \in Heads \ {Trash}, NEW i \in ListOf(h)
      PROVE  /\ Hash(nb.uid[i]) = h
             /\ Valid_num(nb.next[i]) => nb.prev[nb.next[i]] = i
  <2>1. i \in Used /\ Hash(nb.uid[i]) = h
    BY ListIs
  <2> QED
    BY <2>1 DEF IInv, Chained, ListsNewestFirst
<1> QED
  BY <1>1, <1>2, <1>3

\* With no more neighbours than entries every list ends, every entry is in
\* one list, the right one, and the links back agree with the links forth.
THEOREM ListsSound == Spec => []ListsAreSound
<1> QED
  BY SoundIfInvariant, Invariant, PTL

\* With no more neighbours than entries find_neighbor finds those heard of and
\* nobody else, and only they are asked for a sign of life.
THEOREM HeardFound == Spec => []HeardIsFound
<1>1. IInv => HeardIsFound
  <2> SUFFICES ASSUME IInv, Few
               PROVE  /\ \A uid \in Near :
                           LET i == find_neighbor(nb, uid)
                           IN  IF uid \in heard THEN {j \in Indices : nb.uid[j] = uid} = {i}
                                                ELSE i = NONE
                      /\ \A i \in asked : nb.uid[i] \in heard
    BY DEF HeardIsFound
  <2>1. \A i \in asked : nb.uid[i] \in heard
    BY UsedType DEF IInv, Chained
  <2> QED
    BY <2>1, FoundIfHeard
<1> QED
  BY <1>1, Invariant, PTL

\* Of any node, however many neighbours it has had: one just registered is
\* found by the next look-up, with a fresh time.
THEOREM RegisteredFound == Spec => RegisteredIsFound
<1> DEFINE Found == \A uid \in Near : register_neighbor(uid) =>
                      LET i == find_neighbor(nb', uid)
                      IN  i # NONE /\ nb'.uid[i] = uid /\ nb'.time[i] = 0
<1>1. TypeOK => Found
  BY RegisterType, Constants
<1>2. TypeOK /\ [Next]_vars => [Found]_vars
  BY <1>1
<1>3. Spec => []TypeOK
  BY TypeCorrect
<1> QED
  BY <1>2, <1>3, PTL DEF Spec, RegisteredIsFound
=============================================================================
