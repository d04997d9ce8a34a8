--------------------------- MODULE EmsRoutesProofs ---------------------------
(***************************************************************************)
(* Proofs about EmsRoutes, for tables of any size.  Every change of the    *)
(* order permutes it; and as long as no neighbour was replaced, the live   *)
(* entries of uid_table are its first last_table ones, so that an entry's  *)
(* number and its position, which the code confuses, are both live.        *)
(***************************************************************************)
EXTENDS EmsRoutes, WellFoundedInduction, TLAPS

\* The order has every entry, and no entry twice.
Permutes(order) ==
  /\ order \in [Entries -> Entries]
  /\ \A e \in Entries : \E p \in Entries : order[p] = e
  /\ \A p, q \in Entries : order[p] = order[q] => p = q

\* Live positions hold the first entries, the others the entry of their number.
Straight(order, last) ==
  /\ \A p \in Entries : p < last => order[p] < last
  /\ \A p \in Entries : last <= p => order[p] = p

\* What is said of a live route.
Told ==
  \A e \in Live(last_table) :
    LET route == uid_table[e]
    IN  /\ route.uid \in Peers /\ route.link \in Indices
        /\ neighbor[route.link] = via[e] /\ via[e] # NoUid
        /\ route.name # NoName => route.name = announced[route.uid]

OnePerUid ==
  \A e, f \in Live(last_table) : uid_table[e].uid = uid_table[f].uid => e = f

IInv ==
  /\ TypeOK
  /\ Permutes(table_order)
  /\ ~ crowded => /\ Straight(table_order, last_table)
                  /\ Told /\ OnePerUid
                  /\ fault # "wild"

-----------------------------------------------------------------------------
(* The constants, and the operations on the order. *)

\* The constants, one fact at a time.
LEMMA Constants ==
  /\ NEIGHBORHOOD_SIZE \in Nat \ {0} /\ UID_TABLE_SIZE \in Nat \ {0}
  /\ Entries = 0 .. UID_TABLE_SIZE - 1 /\ Indices = 0 .. NEIGHBORHOOD_SIZE - 1
  /\ NONE \in Nat /\ NONE \notin Entries /\ NONE \notin Indices
  /\ NoUid \notin Near /\ NoUid \notin Peers /\ NoName \notin Names
BY RoutesAssumption, SMT DEF Entries, Indices

\* Every set of natural numbers that is not empty has a least member.
LEMMA LeastMember ==
  ASSUME NEW S \in SUBSET Nat, S # {}
  PROVE  \E m \in S : \A n \in S : m <= n
<1>1. \E m \in S : \A n \in S : ~ (<<n, m>> \in OpToRel(<, Nat))
  BY NatLessThanWellFounded, WFMin
<1>2. \A m, n \in S : <<n, m>> \in OpToRel(<, Nat) <=> n < m
  BY DEF OpToRel
<1>3. PICK m \in S : \A n \in S : ~ (n < m)
  BY <1>1, <1>2
<1>4. \A n \in S : m <= n
  BY <1>3, SMT
<1> QED
  BY <1>4

\* Two positions change places.
LEMMA SwapPermutes ==
  ASSUME NEW order, Permutes(order), NEW p \in Entries, NEW q \in Entries
  PROVE  /\ Permutes(Swap(order, p, q))
         /\ \A r \in Entries : Swap(order, p, q)[r] =
              IF r = q THEN order[p] ELSE IF r = p THEN order[q] ELSE order[r]
<1> DEFINE s == Swap(order, p, q)
<1>1. s \in [Entries -> Entries]
  BY DEF Swap, Permutes
<1>2. \A r \in Entries : s[r] = IF r = q THEN order[p] ELSE IF r = p THEN order[q] ELSE order[r]
  BY DEF Swap, Permutes
<1> HIDE DEF s
<1>3. ASSUME NEW e \in Entries PROVE \E r \in Entries : s[r] = e
  <2>1. PICK r \in Entries : order[r] = e
    BY DEF Permutes
  <2>2. s[IF r = p THEN q ELSE IF r = q THEN p ELSE r] = e
    BY <1>2, <2>1
  <2> QED
    BY <2>2
<1>4. ASSUME NEW r \in Entries, NEW t \in Entries, s[r] = s[t] PROVE r = t
  BY <1>2, <1>4 DEF Permutes
<1> QED
  BY <1>1, <1>2, <1>3, <1>4 DEF Permutes, s

LEMMA SwapStraight ==
  ASSUME NEW order, Permutes(order), NEW last \in Nat, Straight(order, last),
         NEW p \in Entries, NEW q \in Entries, p < last, q < last
  PROVE  Straight(Swap(order, p, q), last)
<1>1. /\ UID_TABLE_SIZE \in Nat /\ Entries = 0 .. UID_TABLE_SIZE - 1
  BY Constants
<1>2. \A r \in Entries : Swap(order, p, q)[r] =
        IF r = q THEN order[p] ELSE IF r = p THEN order[q] ELSE order[r]
  BY SwapPermutes
<1> QED
  BY <1>1, <1>2 DEF Straight

\* send_package_by_table permutes the order, and only its live positions.
LEMMA SentPermutes ==
  ASSUME NEW order, Permutes(order), NEW x \in Entries
  PROVE  /\ Permutes(Sent(order, x))
         /\ \A last \in Nat : Straight(order, last) /\ x < last => Straight(Sent(order, x), last)
<1>1. CASE x = 0
  BY <1>1 DEF Sent
<1>2. CASE x # 0
  <2>1. x - 1 \in Entries /\ x \in Nat
    BY <1>2, Constants
  <2>2. Sent(order, x) = Swap(order, x, x - 1)
    BY <1>2 DEF Sent
  <2>3. \A last \in Nat : x < last => x - 1 < last
    BY <2>1
  <2> QED
    BY <2>1, <2>2, <2>3, SwapPermutes, SwapStraight
<1> QED
  BY <1>1, <1>2

\* promote_uid_table permutes the order, and only positions up to that of the
\* entry's number.
LEMMA PromotePermutes ==
  ASSUME NEW order, Permutes(order), NEW x \in Entries
  PROVE  /\ Permutes(promote_uid_table(order, x))
         /\ \A last \in Nat :
              Straight(order, last) /\ x < last => Straight(promote_uid_table(order, x), last)
<1> DEFINE s == promote_uid_table(order, x)
<1>0. /\ UID_TABLE_SIZE \in Nat \ {0} /\ Entries = 0 .. UID_TABLE_SIZE - 1
      /\ order \in [Entries -> Entries]
  BY Constants DEF Permutes
<1>1. \A r \in Entries : s[r] = IF r = 0 THEN order[x] ELSE IF r <= x THEN order[r - 1] ELSE order[r]
  BY DEF promote_uid_table
<1>2. s \in [Entries -> Entries]
  <2>1. \A r \in Entries : r # 0 => r - 1 \in Entries
    BY <1>0
  <2> QED
    BY <1>0, <2>1 DEF promote_uid_table
<1> HIDE DEF s
<1>3. ASSUME NEW e \in Entries PROVE \E r \in Entries : s[r] = e
  <2>1. PICK r \in Entries : order[r] = e
    BY DEF Permutes
  <2>2. CASE r = x
    <3>1. 0 \in Entries /\ s[0] = e
      BY <1>0, <1>1, <2>1, <2>2
    <3> QED
      BY <3>1
  <2>3. CASE r < x
    <3>1. r + 1 \in Entries /\ r + 1 # 0 /\ r + 1 <= x /\ (r + 1) - 1 = r
      BY <1>0, <2>3
    <3>2. s[r + 1] = e
      BY <1>1, <2>1, <3>1
    <3> QED
      BY <3>1, <3>2
  <2>4. CASE x < r
    <3>1. s[r] = e
      BY <1>0, <1>1, <2>1, <2>4
    <3> QED
      BY <3>1
  <2> QED
    BY <1>0, <2>2, <2>3, <2>4
<1>4. ASSUME NEW r \in Entries, NEW t \in Entries, s[r] = s[t] PROVE r = t
  <2> DEFINE of(k) == IF k = 0 THEN x ELSE IF k <= x THEN k - 1 ELSE k
  <2>1. \A k \in Entries : of(k) \in Entries /\ s[k] = order[of(k)]
    BY <1>0, <1>1
  <2>2. of(r) = of(t)
    BY <1>4, <2>1 DEF Permutes
  <2> QED
    BY <1>0, <2>2
<1>5. ASSUME NEW last \in Nat, Straight(order, last), x < last
      PROVE  Straight(s, last)
  <2>1. ASSUME NEW r \in Entries, r < last PROVE s[r] < last
    <3>1. r # 0 => r - 1 \in Entries /\ r - 1 < last
      BY <1>0, <1>5, <2>1
    <3> QED
      BY <1>1, <1>5, <2>1, <3>1 DEF Straight
  <2>2. ASSUME NEW r \in Entries, last <= r PROVE s[r] = r
    <3>1. r # 0 /\ ~ (r <= x)
      BY <1>0, <1>5, <2>2
    <3> QED
      BY <1>1, <1>5, <2>2, <3>1 DEF Straight
  <2> QED
    BY <2>1, <2>2 DEF Straight
<1> QED
  BY <1>2, <1>3, <1>4, <1>5 DEF Permutes, s

\* A look-up finds the entry of a position asked for, if there is one.
LEMMA FoundIs ==
  ASSUME NEW S \in SUBSET Entries, NEW order \in [Entries -> Entries]
  PROVE  \/ S = {} /\ Found(S, order) = NONE
         \/ /\ Found(S, order) \in Entries /\ Valid_num(Found(S, order))
            /\ \E p \in S : Found(S, order) = order[p]
<1>1. CASE S = {}
  BY <1>1 DEF Found
<1>2. CASE S # {}
  <2>1. \E p \in S : \A q \in S : p <= q
    <3>1. S \in SUBSET Nat
      BY Constants, SMT
    <3> QED
      BY <1>2, <3>1, LeastMember
  <2> DEFINE p == CHOOSE r \in S : \A q \in S : r <= q
  <2>2. p \in S /\ Found(S, order) = order[p]
    BY <1>2, <2>1 DEF Found
  <2> HIDE DEF p
  <2> QED
    BY <2>2, Constants DEF Valid_num
<1> QED
  BY <1>1, <1>2

\* find_table_by_uid finds a live route of the uid if there is one.
LEMMA FindUid ==
  ASSUME NEW table, NEW order \in [Entries -> Entries], NEW last \in 0 .. UID_TABLE_SIZE,
         NEW uid
  PROVE  LET x == find_table_by_uid(table, order, last, uid)
         IN  \/ x = NONE /\ ~ Valid_num(x) /\ \A p \in Live(last) : table[order[p]].uid # uid
             \/ /\ x \in Entries /\ Valid_num(x)
                /\ \E p \in Live(last) : x = order[p] /\ table[x].uid = uid
<1> DEFINE S == {p \in Live(last) : table[order[p]].uid = uid}
<1>1. Live(last) \subseteq Entries
  BY Constants DEF Live
<1>2. S \in SUBSET Entries /\ find_table_by_uid(table, order, last, uid) = Found(S, order)
  BY <1>1 DEF find_table_by_uid
<1>3. ~ Valid_num(NONE)
  BY DEF Valid_num
<1>4. \/ S = {} /\ Found(S, order) = NONE
      \/ /\ Found(S, order) \in Entries /\ Valid_num(Found(S, order))
         /\ \E p \in S : Found(S, order) = order[p]
  BY <1>2, FoundIs
<1> QED
  BY <1>2, <1>3, <1>4

\* The live positions of a straight order hold the live entries.
LEMMA LiveEntries ==
  ASSUME NEW order, Permutes(order), NEW last \in 0 .. UID_TABLE_SIZE, Straight(order, last)
  PROVE  /\ \A p \in Live(last) : order[p] \in Live(last)
         /\ \A e \in Live(last) : \E p \in Live(last) : order[p] = e
         /\ Live(last) \subseteq Entries
<1>1. /\ Entries = 0 .. UID_TABLE_SIZE - 1 /\ UID_TABLE_SIZE \in Nat /\ Live(last) = 0 .. last - 1
      /\ last \in Nat /\ last <= UID_TABLE_SIZE
  BY Constants DEF Live
<1>2. Live(last) \subseteq Entries
  BY <1>1
<1>3. \A p \in Live(last) : order[p] \in Live(last)
  <2> SUFFICES ASSUME NEW p \in Live(last) PROVE order[p] \in Live(last)
    OBVIOUS
  <2>1. p \in Entries /\ p < last
    BY <1>1, <1>2
  <2>2. order[p] \in Entries /\ order[p] < last
    BY <2>1 DEF Permutes, Straight
  <2> QED
    BY <1>1, <2>2
<1>4. ASSUME NEW e \in Live(last) PROVE \E p \in Live(last) : order[p] = e
  <2>1. PICK p \in Entries : order[p] = e
    BY <1>2 DEF Permutes
  <2>2. p < last
    BY <1>1, <2>1 DEF Straight
  <2> QED
    BY <1>1, <2>1, <2>2
<1> QED
  BY <1>2, <1>3, <1>4
-----------------------------------------------------------------------------
(* Learning a route. *)

\* register_uid writes one entry; straight or not, it is one of the table,
\* and if no neighbour was replaced it is the live one of the uid from then on.
LEMMA Registered ==
  ASSUME IInv, NEW uid \in Peers, NEW link \in Indices, NEW name \in Names \cup {NoName}
  PROVE  LET learnt == register_uid(uid, link, name)
             e == learnt.entry
         IN  /\ e \in Entries /\ learnt.last \in 0 .. UID_TABLE_SIZE
             /\ \E old \in Names \cup {NoName} :
                  /\ learnt.table = [uid_table EXCEPT ![e] =
                       [uid |-> uid, link |-> link, name |-> IF name = NoName THEN old ELSE name]]
                  /\ ~ crowded /\ old # NoName =>
                       e \in Live(last_table) /\ uid_table[e].uid = uid /\ uid_table[e].name = old
             /\ ~ crowded =>
                  /\ Straight(table_order, learnt.last) /\ e < learnt.last
                  /\ \A f \in Live(learnt.last) :
                       f # e => f \in Live(last_table) /\ uid_table[f].uid # uid
<1> DEFINE known == find_table_by_uid(uid_table, table_order, last_table, uid)
           p == IF last_table = UID_TABLE_SIZE THEN last_table - 1 ELSE last_table
           e == IF Valid_num(known) THEN known ELSE table_order[p]
           old == IF Valid_num(known) THEN uid_table[e].name ELSE NoName
           last == IF Valid_num(known) THEN last_table ELSE p + 1
           learnt == register_uid(uid, link, name)
<1>0. /\ UID_TABLE_SIZE \in Nat \ {0} /\ Entries = 0 .. UID_TABLE_SIZE - 1
      /\ last_table \in 0 .. UID_TABLE_SIZE /\ table_order \in [Entries -> Entries]
      /\ uid_table \in [Entries -> Routes]
      /\ Live(last_table) = 0 .. last_table - 1
  BY Constants DEF IInv, TypeOK, Live
<1>1. /\ learnt.entry = e /\ learnt.last = last
      /\ learnt.table = [uid_table EXCEPT ![e] =
                           [uid |-> uid, link |-> link, name |-> IF name = NoName THEN old ELSE name]]
  BY DEF register_uid
<1>2. \/ known = NONE /\ ~ Valid_num(known)
         /\ \A q \in Live(last_table) : uid_table[table_order[q]].uid # uid
      \/ /\ known \in Entries /\ Valid_num(known)
         /\ \E q \in Live(last_table) : known = table_order[q] /\ uid_table[known].uid = uid
  <2>1. /\ last_table \in 0 .. UID_TABLE_SIZE
        /\ table_order \in [Entries -> Entries]
    BY <1>0
  <2> QED
    BY <2>1, FindUid
<1>3. p \in Entries /\ p + 1 \in 0 .. UID_TABLE_SIZE
  BY <1>0
<1>4. e \in Entries /\ last \in 0 .. UID_TABLE_SIZE
  BY <1>0, <1>2, <1>3
<1>5. old \in Names \cup {NoName}
  BY <1>0, <1>4 DEF Routes
<1>6. ASSUME ~ crowded
      PROVE  /\ Straight(table_order, last) /\ e < last
             /\ Valid_num(known) => e \in Live(last_table) /\ uid_table[e].uid = uid
             /\ \A f \in Live(last) : f # e => f \in Live(last_table) /\ uid_table[f].uid # uid
  <2>0. Permutes(table_order) /\ Straight(table_order, last_table) /\ OnePerUid
    BY <1>6 DEF IInv
  <2>1. /\ \A q \in Live(last_table) : table_order[q] \in Live(last_table)
        /\ \A f \in Live(last_table) : \E q \in Live(last_table) : table_order[q] = f
    BY <1>0, <2>0, LiveEntries
  <2>2. CASE Valid_num(known)
    <3>1. e \in Live(last_table) /\ uid_table[e].uid = uid /\ last = last_table
      BY <1>2, <2>1, <2>2
    <3>2. \A f \in Live(last_table) : f # e => uid_table[f].uid # uid
      BY <2>0, <3>1 DEF OnePerUid
    <3>3. Straight(table_order, last)
      BY <2>0, <3>1
    <3>4. e < last
      BY <1>0, <3>1
    <3>5. \A f \in Live(last) : f # e => f \in Live(last_table) /\ uid_table[f].uid # uid
      BY <3>1, <3>2
    <3> HIDE DEF e, last, known
    <3> QED
      BY <3>1, <3>3, <3>4, <3>5
  <2>3. CASE ~ Valid_num(known)
    <3>1. \A f \in Live(last_table) : uid_table[f].uid # uid
      BY <1>2, <2>1, <2>3
    <3>2. e = table_order[p] /\ last = p + 1
      BY <2>3
    <3>3. CASE last_table = UID_TABLE_SIZE
      <4>1. last = last_table /\ e < last
        BY <1>0, <1>4, <3>2, <3>3
      <4> QED
        BY <2>0, <2>3, <3>1, <4>1
    <3>4. CASE last_table # UID_TABLE_SIZE
      <4>1. e = last_table /\ last = last_table + 1
        BY <1>0, <1>3, <2>0, <3>2, <3>4 DEF Straight
      <4>2. ASSUME NEW r \in Entries
            PROVE  /\ r < last_table + 1 => table_order[r] < last_table + 1
                   /\ last_table + 1 <= r => table_order[r] = r
        <5>1. \/ r < last_table /\ table_order[r] < last_table
              \/ last_table <= r /\ table_order[r] = r
          BY <1>0, <2>0 DEF Straight
        <5>2. table_order[r] \in Entries
          BY <1>0
        <5> QED
          BY <1>0, <5>1, <5>2
      <4>3. \A f \in Live(last) : f # e => f \in Live(last_table)
        BY <1>0, <4>1 DEF Live
      <4>4. Straight(table_order, last)
        BY <4>1, <4>2 DEF Straight
      <4>5. e < last
        BY <1>0, <4>1
      <4> QED
        BY <2>3, <3>1, <4>3, <4>4, <4>5
    <3> QED
      BY <3>3, <3>4
  <2> QED
    BY <2>2, <2>3
<1>7. ~ crowded /\ old # NoName =>
        e \in Live(last_table) /\ uid_table[e].uid = uid /\ uid_table[e].name = old
  BY <1>6
<1> HIDE DEF known, p, e, old, last, learnt
<1>8. \E before \in Names \cup {NoName} :
        /\ learnt.table = [uid_table EXCEPT ![e] =
             [uid |-> uid, link |-> link, name |-> IF name = NoName THEN before ELSE name]]
        /\ ~ crowded /\ before # NoName =>
             e \in Live(last_table) /\ uid_table[e].uid = uid /\ uid_table[e].name = before
  BY <1>1, <1>5, <1>7
<1>9. /\ learnt.entry \in Entries /\ learnt.last \in 0 .. UID_TABLE_SIZE
      /\ \E before \in Names \cup {NoName} :
           /\ learnt.table = [uid_table EXCEPT ![learnt.entry] =
                [uid |-> uid, link |-> link, name |-> IF name = NoName THEN before ELSE name]]
           /\ ~ crowded /\ before # NoName =>
                /\ learnt.entry \in Live(last_table) /\ uid_table[learnt.entry].uid = uid
                /\ uid_table[learnt.entry].name = before
      /\ ~ crowded =>
           /\ Straight(table_order, learnt.last) /\ learnt.entry < learnt.last
           /\ \A f \in Live(learnt.last) :
                f # learnt.entry => f \in Live(last_table) /\ uid_table[f].uid # uid
  BY <1>1, <1>4, <1>6, <1>8
<1> QED
  BY <1>9, Zenon DEF learnt

\* What is said of the live routes once one is written.
LEMMA LearntIsTold ==
  ASSUME IInv, ~ crowded, NEW uid \in Peers, NEW link \in Indices,
         NEW name \in Names \cup {NoName},
         neighbor[link] # NoUid,
         uid_table' = register_uid(uid, link, name).table,
         last_table' = register_uid(uid, link, name).last,
         via' = [via EXCEPT ![register_uid(uid, link, name).entry] = neighbor[link]],
         announced' = IF name = NoName THEN announced ELSE [announced EXCEPT ![uid] = name],
         neighbor' = neighbor
  PROVE  Told' /\ OnePerUid'
<1> DEFINE e == register_uid(uid, link, name).entry
           last == register_uid(uid, link, name).last
<1>0. \E old \in Names \cup {NoName} :
        /\ register_uid(uid, link, name).table = [uid_table EXCEPT ![e] =
             [uid |-> uid, link |-> link, name |-> IF name = NoName THEN old ELSE name]]
        /\ ~ crowded /\ old # NoName =>
             e \in Live(last_table) /\ uid_table[e].uid = uid /\ uid_table[e].name = old
  BY Registered
<1>1. PICK old \in Names \cup {NoName} :
        /\ uid_table' = [uid_table EXCEPT ![e] =
             [uid |-> uid, link |-> link, name |-> IF name = NoName THEN old ELSE name]]
        /\ old # NoName => e \in Live(last_table) /\ uid_table[e].uid = uid /\ uid_table[e].name = old
  BY <1>0
<1>2. /\ e \in Entries /\ last \in 0 .. UID_TABLE_SIZE /\ e < last /\ last_table' = last
      /\ \A f \in Live(last) : f # e => f \in Live(last_table) /\ uid_table[f].uid # uid
  BY Registered
<1>3. /\ uid_table \in [Entries -> Routes] /\ via \in [Entries -> Near \cup {NoUid}]
      /\ announced \in [Peers -> Names \cup {NoName}]
      /\ Told /\ OnePerUid
  BY DEF IInv, TypeOK
<1>4. via' = [via EXCEPT ![e] = neighbor[link]]
  OBVIOUS
<1> HIDE DEF e, last
<1>5. Live(last) \subseteq Entries /\ Live(last_table') = Live(last)
  BY <1>2, Constants DEF Live
<1>6. /\ uid_table'[e] = [uid |-> uid, link |-> link, name |-> IF name = NoName THEN old ELSE name]
      /\ via'[e] = neighbor[link]
      /\ \A f \in Entries : f # e => uid_table'[f] = uid_table[f] /\ via'[f] = via[f]
  BY <1>1, <1>2, <1>3, <1>4
<1>7. \A u \in Peers : announced'[u] = IF u = uid /\ name # NoName THEN name ELSE announced[u]
  BY <1>3
<1>8. ASSUME NEW f \in Live(last)
      PROVE  LET route == uid_table'[f]
             IN  /\ route.uid \in Peers /\ route.link \in Indices
                 /\ neighbor[route.link] = via'[f] /\ via'[f] # NoUid
                 /\ route.name # NoName => route.name = announced'[route.uid]
  <2>1. CASE f = e
    <3>1. name = NoName /\ old # NoName => old = announced[uid]
      BY <1>1, <1>3 DEF Told
    <3> QED
      BY <1>6, <1>7, <2>1, <3>1
  <2>2. CASE f # e
    <3>1. f \in Live(last_table) /\ uid_table[f].uid # uid /\ uid_table'[f] = uid_table[f]
          /\ via'[f] = via[f]
      BY <1>2, <1>5, <1>6, <2>2
    <3> QED
      BY <1>3, <1>7, <3>1 DEF Told
  <2> QED
    BY <2>1, <2>2
<1>9. ASSUME NEW f \in Live(last), NEW g \in Live(last), uid_table'[f].uid = uid_table'[g].uid
      PROVE  f = g
  <2>1. \A k \in Live(last) : k # e => k \in Live(last_table) /\ uid_table[k].uid # uid
                                       /\ uid_table'[k] = uid_table[k]
    BY <1>2, <1>5, <1>6
  <2>2. uid_table'[e].uid = uid
    BY <1>6
  <2> QED
    BY <1>3, <1>9, <2>1, <2>2 DEF OnePerUid
<1>10. Told'
  BY <1>5, <1>8 DEF Told
<1>11. OnePerUid'
  BY <1>5, <1>9 DEF OnePerUid
<1> QED
  BY <1>10, <1>11

\* Learning a route, with or without a promotion and an announcement, keeps
\* the invariant (register_uid, promote_uid_table, send_package_by_table).
LEMMA LearnPreserves ==
  ASSUME IInv, NEW uid \in Peers, NEW link \in Indices, NEW name \in Names \cup {NoName},
         NEW promote \in BOOLEAN, NEW answer \in BOOLEAN, Learn(uid, link, name, promote, answer)
  PROVE  IInv'
<1> DEFINE learnt == register_uid(uid, link, name)
           order == IF promote THEN promote_uid_table(table_order, learnt.entry) ELSE table_order
           x == find_table_by_uid(learnt.table, order, learnt.last, uid)
           sends == answer /\ Valid_num(x)
<1>1. /\ fault = "none" /\ neighbor[link] # NoUid
      /\ uid_table' = learnt.table /\ last_table' = learnt.last
      /\ table_order' = IF sends THEN Sent(order, x) ELSE order
      /\ fault' = IF sends /\ ~ Valid_num(learnt.table[x].link) THEN "wild" ELSE fault
      /\ via' = IF crowded THEN via ELSE [via EXCEPT ![learnt.entry] = neighbor[link]]
      /\ announced' = IF crowded \/ name = NoName THEN announced ELSE [announced EXCEPT ![uid] = name]
      /\ neighbor' = neighbor /\ crowded' = crowded
  BY DEF Learn
<1>2. /\ learnt.entry \in Entries /\ learnt.last \in 0 .. UID_TABLE_SIZE
      /\ ~ crowded => Straight(table_order, learnt.last) /\ learnt.entry < learnt.last
  BY Registered
<1>3. learnt.table \in [Entries -> Routes]
  <2>1. PICK old \in Names \cup {NoName} :
          learnt.table = [uid_table EXCEPT ![learnt.entry] =
            [uid |-> uid, link |-> link, name |-> IF name = NoName THEN old ELSE name]]
    BY Registered
  <2>2. [uid |-> uid, link |-> link, name |-> IF name = NoName THEN old ELSE name] \in Routes
    BY DEF Routes
  <2>3. uid_table \in [Entries -> Routes]
    BY DEF IInv, TypeOK
  <2> HIDE DEF learnt
  <2> QED
    BY <1>2, <2>1, <2>2, <2>3
<1>4. ~ crowded => Told' /\ OnePerUid'
  <2> HIDE DEF order, x, sends
  <2> QED
    BY <1>1, LearntIsTold
<1> HIDE DEF learnt
<1>5. Permutes(order) /\ (~ crowded => Straight(order, learnt.last))
  BY <1>2, PromotePermutes, Constants DEF IInv
<1>6. \/ ~ Valid_num(x)
      \/ x \in Entries /\ Valid_num(x) /\ \E p \in Live(learnt.last) : x = order[p]
  <2>1. order \in [Entries -> Entries]
    BY <1>5 DEF Permutes
  <2> HIDE DEF order
  <2> QED
    BY <1>2, <2>1, FindUid
<1>7. ~ crowded /\ Valid_num(x) => x \in Live(learnt.last)
  <2> HIDE DEF order, x
  <2> QED
    BY <1>2, <1>5, <1>6, LiveEntries
<1>8. /\ Permutes(table_order')
      /\ ~ crowded => Straight(table_order', learnt.last)
  <2>1. learnt.last \in Nat /\ (x \in Live(learnt.last) => x < learnt.last)
    BY <1>2, Constants DEF Live
  <2> HIDE DEF order, x
  <2> QED
    BY <1>1, <1>5, <1>6, <1>7, <2>1, SentPermutes
<1>9. ~ crowded => fault' # "wild"
  <2> HIDE DEF order, x
  <2>1. ~ crowded /\ Valid_num(x) => learnt.table[x].link \in Indices
    BY <1>1, <1>4, <1>7 DEF Told
  <2> QED
    BY <1>1, <2>1, Constants DEF Valid_num
<1>10. TypeOK'
  <2>1. via' \in [Entries -> Near \cup {NoUid}] /\ announced' \in [Peers -> Names \cup {NoName}]
    <3>1. /\ neighbor[link] \in Near \cup {NoUid}
          /\ via \in [Entries -> Near \cup {NoUid}] /\ announced \in [Peers -> Names \cup {NoName}]
      BY DEF IInv, TypeOK
    <3> QED
      BY <1>1, <1>2, <3>1
  <2>2. table_order' \in [Entries -> Entries]
    BY <1>8 DEF Permutes
  <2> HIDE DEF order, x, sends
  <2> QED
    BY <1>1, <1>2, <1>3, <2>1, <2>2 DEF IInv, TypeOK
<1> QED
  BY <1>1, <1>4, <1>8, <1>9, <1>10 DEF IInv
-----------------------------------------------------------------------------
(* Correct_table_order, whose loop Corrected writes as a recursive function. *)

\* One turn of the loop, and the results of n turns.
Turn(table, p, i) ==
  IF Valid_num(table[p.order[i - 1]].link)
  THEN [order |-> Swap(p.order, i - 1, p.j), j |-> p.j + 1]
  ELSE p

Turns(table, order, n, g) ==
  g = [i \in 0 .. n |-> IF i = 0 THEN [order |-> order, j |-> 0] ELSE Turn(table, g[i - 1], i)]

\* There is a function that satisfies the recursion.
LEMMA TurnsExist ==
  ASSUME NEW table, NEW order, NEW n \in Nat
  PROVE  \E g : Turns(table, order, n, g)
<1> DEFINE S == {m \in Nat : ~ \E g : Turns(table, order, m, g)}
<1>1. SUFFICES ASSUME S # {} PROVE FALSE
  OBVIOUS
<1>2. PICK m \in S : \A k \in S : m <= k
  <2>1. S \in SUBSET Nat
    OBVIOUS
  <2> HIDE DEF S
  <2> QED
    BY <1>1, <2>1, LeastMember
<1>3. CASE m = 0
  <2> DEFINE g == [i \in 0 .. m |-> [order |-> order, j |-> 0]]
  <2>1. \A i \in 0 .. m : i = 0
    BY <1>3
  <2>2. g = [i \in 0 .. m |->
               IF i = 0 THEN [order |-> order, j |-> 0] ELSE Turn(table, g[i - 1], i)]
    BY <2>1
  <2>3. Turns(table, order, m, g)
    BY <2>2 DEF Turns
  <2> QED
    BY <2>3
<1>4. CASE m # 0
  <2>1. m \in Nat /\ m - 1 \in Nat /\ m - 1 < m
    BY <1>4
  <2>2. m - 1 \notin S
    <3> HIDE DEF S
    <3> QED
      BY <1>2, <2>1
  <2>3. PICK h : Turns(table, order, m - 1, h)
    BY <2>1, <2>2
  <2>4. \A i \in 0 .. m - 1 :
          h[i] = IF i = 0 THEN [order |-> order, j |-> 0] ELSE Turn(table, h[i - 1], i)
    BY <2>3 DEF Turns
  <2> DEFINE g == [i \in 0 .. m |-> IF i = m THEN Turn(table, h[m - 1], m) ELSE h[i]]
  <2>5. \A i \in 0 .. m :
          /\ i # m => i \in 0 .. m - 1
          /\ i # 0 => i - 1 \in 0 .. m /\ i - 1 # m
    BY <2>1
  <2>6. \A i \in 0 .. m : i # 0 => g[i - 1] = h[i - 1]
    BY <2>5
  <2>7. \A i \in 0 .. m :
          g[i] = IF i = 0 THEN [order |-> order, j |-> 0] ELSE Turn(table, g[i - 1], i)
    <3> SUFFICES ASSUME NEW i \in 0 .. m
                 PROVE  g[i] = IF i = 0 THEN [order |-> order, j |-> 0]
                               ELSE Turn(table, g[i - 1], i)
      OBVIOUS
    <3>1. CASE i = m
      BY <1>4, <2>6, <3>1
    <3>2. CASE i # m
      <4>1. g[i] = h[i] /\ i \in 0 .. m - 1
        BY <2>5, <3>2
      <4> QED
        BY <2>4, <2>6, <4>1
    <3> QED
      BY <3>1, <3>2
  <2>8. g = [i \in 0 .. m |-> g[i]]
    OBVIOUS
  <2> HIDE DEF g
  <2>9. g = [i \in 0 .. m |->
               IF i = 0 THEN [order |-> order, j |-> 0] ELSE Turn(table, g[i - 1], i)]
    BY <2>7, <2>8
  <2>10. Turns(table, order, m, g)
    BY <2>9 DEF Turns
  <2> QED
    BY <2>10
<1> QED
  BY <1>3, <1>4

\* Correct_table_order permutes the order, and leaves no more live positions
\* than there were.
LEMMA CorrectedPermutes ==
  ASSUME NEW table, NEW order, Permutes(order), NEW last \in 0 .. UID_TABLE_SIZE
  PROVE  /\ Permutes(Corrected(table, order, last).order)
         /\ Corrected(table, order, last).j \in 0 .. last
<1> DEFINE g == CHOOSE h : Turns(table, order, last, h)
<1>0. UID_TABLE_SIZE \in Nat /\ Entries = 0 .. UID_TABLE_SIZE - 1 /\ last \in Nat
  BY Constants
<1>1. Turns(table, order, last, g)
  BY <1>0, TurnsExist
<1>2. Corrected(table, order, last) = g[last]
  BY DEF Corrected, Turns, Turn
<1> HIDE DEF g
<1>3. \A i \in 0 .. last :
        g[i] = IF i = 0 THEN [order |-> order, j |-> 0] ELSE Turn(table, g[i - 1], i)
  BY <1>1 DEF Turns
<1> DEFINE S == {i \in 0 .. last : ~ (Permutes(g[i].order) /\ g[i].j \in 0 .. i)}
<1>4. SUFFICES ASSUME S # {} PROVE FALSE
  BY <1>0, <1>2
<1>5. PICK m \in S : \A k \in S : m <= k
  <2>1. S \in SUBSET Nat
    BY <1>0
  <2> HIDE DEF S
  <2> QED
    BY <1>4, <2>1, LeastMember
<1>6. CASE m = 0
  <2>1. g[m] = [order |-> order, j |-> 0]
    BY <1>3, <1>6
  <2> QED
    BY <1>6, <2>1
<1>7. CASE m # 0
  <2>1. /\ m \in 0 .. last /\ m - 1 \in 0 .. last /\ m - 1 \in Entries /\ m - 1 < m
    BY <1>0, <1>7
  <2>2. m - 1 \notin S
    <3> HIDE DEF S
    <3> QED
      BY <1>0, <1>5, <2>1
  <2>3. Permutes(g[m - 1].order) /\ g[m - 1].j \in 0 .. m - 1
    BY <2>1, <2>2
  <2>4. g[m] = Turn(table, g[m - 1], m)
    BY <1>3, <1>7, <2>1
  <2>5. g[m - 1].j \in Entries
    BY <1>0, <2>1, <2>3
  <2>6. Permutes(Swap(g[m - 1].order, m - 1, g[m - 1].j))
    BY <2>1, <2>3, <2>5, SwapPermutes
  <2>7. /\ g[m - 1].j \in 0 .. m /\ g[m - 1].j + 1 \in 0 .. m
    BY <1>0, <2>1, <2>3
  <2>8. Permutes(g[m].order) /\ g[m].j \in 0 .. m
    BY <2>3, <2>4, <2>6, <2>7 DEF Turn
  <2> QED
    BY <2>8
<1> QED
  BY <1>6, <1>7
-----------------------------------------------------------------------------
(* The other actions, and the invariant. *)

LEMMA InitHolds == Init => IInv
<1> SUFFICES ASSUME Init PROVE IInv
  OBVIOUS
<1>0. /\ UID_TABLE_SIZE \in Nat \ {0} /\ Entries = 0 .. UID_TABLE_SIZE - 1
      /\ 0 \in Indices /\ Live(last_table) = {}
  BY Constants DEF Init, Live
<1>1. TypeOK
  <2>1. [uid |-> NoUid, link |-> 0, name |-> NoName] \in Routes
    BY <1>0 DEF Routes
  <2>2. uid_table \in [Entries -> Routes] /\ table_order \in [Entries -> Entries]
    BY <2>1 DEF Init
  <2>3. last_table \in 0 .. UID_TABLE_SIZE
    BY <1>0 DEF Init
  <2>4. neighbor \in [Indices -> Near \cup {NoUid}] /\ via \in [Entries -> Near \cup {NoUid}]
    BY DEF Init
  <2> QED
    BY <2>2, <2>3, <2>4 DEF Init, TypeOK
<1>2. Permutes(table_order)
  BY DEF Init, Permutes
<1>3. Straight(table_order, last_table)
  BY <1>0 DEF Init, Straight
<1>4. Told /\ OnePerUid /\ fault # "wild"
  BY <1>0 DEF Told, OnePerUid, Init
<1> QED
  BY <1>1, <1>2, <1>3, <1>4 DEF IInv

\* A free entry of the neighbours is taken: no live route leads through it.
LEMMA NewNeighborPreserves ==
  ASSUME IInv, NEW i \in Indices, NEW uid \in Near, NewNeighbor(i, uid)
  PROVE  IInv'
<1>1. TypeOK'
  BY DEF IInv, TypeOK, NewNeighbor
<1>2. ASSUME ~ crowded PROVE Told'
  <2>1. Told /\ neighbor \in [Indices -> Near \cup {NoUid}]
    BY <1>2 DEF IInv, TypeOK
  <2>2. ASSUME NEW e \in Live(last_table)
        PROVE  neighbor'[uid_table[e].link] = neighbor[uid_table[e].link]
    <3>1. uid_table[e].link \in Indices /\ neighbor[uid_table[e].link] # NoUid
      BY <2>1 DEF Told
    <3> QED
      BY <2>1, <3>1 DEF NewNeighbor
  <2> QED
    BY <2>1, <2>2 DEF Told, NewNeighbor, Live
<1>3. ~ crowded => OnePerUid'
  BY DEF IInv, OnePerUid, NewNeighbor, Live
<1> QED
  BY <1>1, <1>2, <1>3 DEF IInv, NewNeighbor

\* A neighbour is replaced: the routes are corrected, whatever they are.
LEMMA ReplaceNeighborPreserves ==
  ASSUME IInv, NEW x \in Indices, NEW uid \in Near, ReplaceNeighbor(x, uid)
  PROVE  IInv'
<1>1. /\ uid_table \in [Entries -> Routes] /\ last_table \in 0 .. UID_TABLE_SIZE
      /\ Permutes(table_order) /\ UID_TABLE_SIZE \in Nat
  BY Constants DEF IInv, TypeOK
<1>2. PICK table :
        /\ table = [e \in Entries |->
             IF uid_table[e].link = x /\ \E p \in Live(last_table) : table_order[p] = e
             THEN [uid_table[e] EXCEPT !.link = NONE]
             ELSE uid_table[e]]
        /\ uid_table' = table
        /\ table_order' = Corrected(table, table_order, last_table).order
        /\ last_table' = Corrected(table, table_order, last_table).j
  BY DEF ReplaceNeighbor
<1>3. uid_table' \in [Entries -> Routes]
  <2>1. \A e \in Entries : [uid_table[e] EXCEPT !.link = NONE] \in Routes
    BY <1>1 DEF Routes
  <2> QED
    BY <1>1, <1>2, <2>1
<1>4. Permutes(table_order') /\ last_table' \in 0 .. last_table
  BY <1>1, <1>2, CorrectedPermutes
<1>5. last_table' \in 0 .. UID_TABLE_SIZE
  BY <1>1, <1>4
<1>6. TypeOK'
  <2>1. /\ neighbor' \in [Indices -> Near \cup {NoUid}] /\ fault' \in {"none", "wild", "null"}
        /\ via' \in [Entries -> Near \cup {NoUid}] /\ announced' \in [Peers -> Names \cup {NoName}]
        /\ crowded' \in BOOLEAN
    BY DEF IInv, TypeOK, ReplaceNeighbor
  <2> QED
    BY <1>3, <1>4, <1>5, <2>1 DEF TypeOK, Permutes
<1>7. crowded'
  BY DEF ReplaceNeighbor
<1> QED
  BY <1>4, <1>6, <1>7 DEF IInv

\* The order changes, and nothing that is said of the routes.
LEMMA Reordered ==
  ASSUME IInv, Permutes(table_order'), ~ crowded => Straight(table_order', last_table),
         fault' \in {"none", "wild", "null"}, ~ crowded => fault' # "wild",
         UNCHANGED <<neighbor, uid_table, last_table, via, announced, crowded>>
  PROVE  IInv'
<1>1. TypeOK'
  BY DEF IInv, TypeOK, Permutes
<1>2. ~ crowded => Told' /\ OnePerUid'
  BY DEF IInv, Told, OnePerUid, Live
<1> QED
  BY <1>1, <1>2 DEF IInv

\* A live route is used: it has a link, and its number is a live position.
LEMMA UseEntryPreserves ==
  ASSUME IInv, NEW p \in Live(last_table), UseEntry(table_order[p])
  PROVE  IInv'
<1> DEFINE x == table_order[p]
<1>1. /\ Permutes(table_order) /\ last_table \in 0 .. UID_TABLE_SIZE
      /\ Live(last_table) \subseteq Entries /\ Live(last_table) = 0 .. last_table - 1
      /\ last_table \in Nat
  BY Constants DEF IInv, TypeOK, Live
<1>2. x \in Entries
  BY <1>1 DEF Permutes
<1>3. ~ crowded => x \in Live(last_table) /\ x < last_table /\ Valid_num(uid_table[x].link)
  <2>1. ~ crowded => x \in Live(last_table)
    BY <1>1, LiveEntries DEF IInv
  <2> HIDE DEF x
  <2>2. ~ crowded => uid_table[x].link \in Indices
    BY <2>1 DEF IInv, Told
  <2> QED
    BY <1>1, <2>1, <2>2, Constants DEF Valid_num
<1>4. /\ fault = "none"
      /\ table_order' = IF Valid_num(uid_table[x].link) THEN Sent(table_order, x) ELSE table_order
      /\ fault' = IF Valid_num(uid_table[x].link) THEN fault ELSE "wild"
      /\ UNCHANGED <<neighbor, uid_table, last_table, via, announced, crowded>>
  BY DEF UseEntry
<1> HIDE DEF x
<1>5. Permutes(table_order') /\ (~ crowded => Straight(table_order', last_table))
  BY <1>1, <1>2, <1>3, <1>4, SentPermutes DEF IInv
<1>6. fault' \in {"none", "wild", "null"} /\ (~ crowded => fault' # "wild")
  BY <1>3, <1>4
<1> QED
  BY <1>4, <1>5, <1>6, Reordered

LEMMA SendToUidPreserves ==
  ASSUME IInv, NEW uid \in Peers, SendToUid(uid)
  PROVE  IInv'
<1> DEFINE x == find_table_by_uid(uid_table, table_order, last_table, uid)
<1>1. table_order \in [Entries -> Entries] /\ last_table \in 0 .. UID_TABLE_SIZE
  BY DEF IInv, TypeOK
<1>2. Valid_num(x) /\ UseEntry(x)
  BY DEF SendToUid
<1>3. \E p \in Live(last_table) : x = table_order[p]
  BY <1>1, <1>2, FindUid
<1> HIDE DEF x
<1> QED
  BY <1>2, <1>3, UseEntryPreserves

LEMMA SendToNamePreserves ==
  ASSUME IInv, NEW name \in Names, SendToName(name)
  PROVE  IInv'
<1> DEFINE S == {p \in Live(last_table) : uid_table[table_order[p]].name = name}
           x == Found(S, table_order)
<1>1. table_order \in [Entries -> Entries] /\ Live(last_table) \subseteq Entries
  BY Constants DEF IInv, TypeOK, Live
<1>2. Valid_num(x) /\ UseEntry(x)
  BY DEF SendToName, find_table_by_name
<1>3. \E p \in S : x = table_order[p]
  <2>1. S \in SUBSET Entries /\ ~ Valid_num(NONE)
    BY <1>1 DEF Valid_num
  <2> HIDE DEF S
  <2> QED
    BY <1>1, <1>2, <2>1, FoundIs
<1>4. \E p \in Live(last_table) : x = table_order[p]
  BY <1>3
<1> HIDE DEF S, x
<1> QED
  BY <1>2, <1>4, UseEntryPreserves

\* An announcement is passed on: the routes of both ends are promoted, and
\* what is used is a live route, or none at all.
LEMMA PassAnnouncementPreserves ==
  ASSUME IInv, NEW end \in Peers, NEW src \in Peers, PassAnnouncement(end, src)
  PROVE  IInv'
<1> DEFINE x == find_table_by_uid(uid_table, table_order, last_table, end)
           first == promote_uid_table(table_order, x)
           y == find_table_by_uid(uid_table, first, last_table, src)
           second == promote_uid_table(first, y)
           sends == Valid_num(y) /\ Valid_num(uid_table[y].link)
<1>1. /\ fault = "none" /\ Valid_num(x)
      /\ table_order' = IF ~ Valid_num(y) THEN first
                        ELSE IF sends THEN Sent(second, y) ELSE second
      /\ fault' = IF ~ Valid_num(y) THEN "null" ELSE IF sends THEN fault ELSE "wild"
      /\ UNCHANGED <<neighbor, uid_table, last_table, via, announced, crowded>>
  BY DEF PassAnnouncement
<1>2. /\ table_order \in [Entries -> Entries] /\ last_table \in 0 .. UID_TABLE_SIZE
      /\ last_table \in Nat /\ Permutes(table_order)
      /\ ~ crowded => Straight(table_order, last_table) /\ Told
      /\ \A e \in Live(last_table) : e < last_table
  BY Constants DEF IInv, TypeOK, Live
<1>3. x \in Entries /\ \E p \in Live(last_table) : x = table_order[p]
  <2>1. /\ table_order \in [Entries -> Entries] /\ last_table \in 0 .. UID_TABLE_SIZE
        /\ Valid_num(x)
    BY <1>1, <1>2
  <2> QED
    BY <2>1, FindUid
<1>4. ~ crowded => x < last_table
  <2> HIDE DEF x
  <2> QED
    BY <1>2, <1>3, LiveEntries
<1>5. Permutes(first) /\ (~ crowded => Straight(first, last_table))
  <2> HIDE DEF x
  <2> QED
    BY <1>2, <1>3, <1>4, PromotePermutes
<1> HIDE DEF first
<1>6. Valid_num(y) => y \in Entries /\ \E p \in Live(last_table) : y = first[p]
  <2>1. first \in [Entries -> Entries] /\ last_table \in 0 .. UID_TABLE_SIZE
    BY <1>2, <1>5 DEF Permutes
  <2> QED
    BY <2>1, FindUid
<1> HIDE DEF y
<1>7. ~ crowded /\ Valid_num(y) => y \in Live(last_table) /\ y < last_table
  BY <1>2, <1>5, <1>6, LiveEntries
<1>8. Valid_num(y) => Permutes(second) /\ (~ crowded => Straight(second, last_table))
  BY <1>2, <1>5, <1>6, <1>7, PromotePermutes
<1> HIDE DEF second
<1>9. Valid_num(y) => /\ Permutes(Sent(second, y))
                      /\ ~ crowded => Straight(Sent(second, y), last_table)
  BY <1>2, <1>6, <1>7, <1>8, SentPermutes
<1>10. Permutes(table_order') /\ (~ crowded => Straight(table_order', last_table))
  BY <1>1, <1>5, <1>8, <1>9
<1>11. ~ crowded /\ Valid_num(y) => Valid_num(uid_table[y].link)
  <2>1. ~ crowded /\ Valid_num(y) => uid_table[y].link \in Indices
    BY <1>2, <1>7 DEF Told
  <2> QED
    BY <2>1, Constants DEF Valid_num
<1>12. fault' \in {"none", "wild", "null"} /\ (~ crowded => fault' # "wild")
  BY <1>1, <1>11
<1> QED
  BY <1>1, <1>10, <1>12, Reordered

LEMMA NextPreserves == IInv /\ [Next]_vars => IInv'
<1> SUFFICES ASSUME IInv, [Next]_vars PROVE IInv'
  OBVIOUS
<1>1. ASSUME NEW i \in Indices, NEW uid \in Near, NewNeighbor(i, uid) PROVE IInv'
  BY <1>1, NewNeighborPreserves
<1>2. ASSUME NEW i \in Indices, NEW uid \in Near, ReplaceNeighbor(i, uid) PROVE IInv'
  BY <1>2, ReplaceNeighborPreserves
<1>3. ASSUME NEW uid \in Peers, NEW link \in Indices, NEW name \in Names \cup {NoName},
             \/ PassRequest(uid, link) \/ AnswerRequest(uid, link)
             \/ AnswerDiscovery(uid, link) \/ HearAnnouncement(uid, link, name)
      PROVE  IInv'
  <2>1. CASE PassRequest(uid, link)
    BY <2>1, LearnPreserves DEF PassRequest
  <2>2. CASE AnswerRequest(uid, link)
    BY <2>2, LearnPreserves DEF AnswerRequest
  <2>3. CASE AnswerDiscovery(uid, link)
    BY <2>3, LearnPreserves DEF AnswerDiscovery
  <2>4. CASE HearAnnouncement(uid, link, name)
    BY <2>4, LearnPreserves DEF HearAnnouncement
  <2> QED
    BY <1>3, <2>1, <2>2, <2>3, <2>4
<1>4. ASSUME NEW uid \in Peers, SendToUid(uid) PROVE IInv'
  BY <1>4, SendToUidPreserves
<1>5. ASSUME NEW name \in Names, SendToName(name) PROVE IInv'
  BY <1>5, SendToNamePreserves
<1>6. ASSUME NEW end \in Peers, NEW src \in Peers, PassAnnouncement(end, src) PROVE IInv'
  BY <1>6, PassAnnouncementPreserves
<1>7. CASE UNCHANGED vars
  BY <1>7 DEF IInv, TypeOK, Permutes, Straight, Told, OnePerUid, Live, vars
<1> QED
  BY <1>1, <1>2, <1>3, <1>4, <1>5, <1>6, <1>7 DEF Next

\* In every state of every node the invariant holds.
LEMMA Invariant == Spec => []IInv
<1>1. Init => IInv
  BY InitHolds
<1>2. IInv /\ [Next]_vars => IInv'
  BY NextPreserves
<1> QED
  BY <1>1, <1>2, PTL DEF Spec

-----------------------------------------------------------------------------
(* The theorems. *)

\* The routes and their order stay in the bounds of the arrays
\* (register_uid, find_table_by_uid, Correct_table_order).
THEOREM TypeCorrect == Spec => []TypeOK
<1>1. IInv => TypeOK
  BY DEF IInv
<1> QED
  BY <1>1, Invariant, PTL

\* table_order never loses an entry of uid_table and never doubles one
\* (promote_uid_table, send_package_by_table, Correct_table_order).
THEOREM OrderPermutes == Spec => []OrderIsPermutation
<1>1. IInv => OrderIsPermutation
  BY DEF IInv, Permutes, OrderIsPermutation
<1> QED
  BY <1>1, Invariant, PTL

\* As long as no neighbour was replaced, a route carries no other name than
\* the one its uid announced last (register_uid).
THEOREM NamesAreRight == Spec => []RoutesAreNamedRight
<1>1. ASSUME IInv PROVE RoutesAreNamedRight
  <2>1. last_table \in 0 .. UID_TABLE_SIZE /\ Permutes(table_order)
    BY <1>1 DEF IInv, TypeOK
  <2>2. ~ crowded => \A p \in Live(last_table) : table_order[p] \in Live(last_table)
    BY <1>1, <2>1, LiveEntries DEF IInv
  <2> QED
    BY <1>1, <2>2 DEF IInv, Told, RoutesAreNamedRight
<1> QED
  BY <1>1, Invariant, PTL

\* As long as no neighbour was replaced, the live routes lead through the
\* neighbour they were learnt from, there is one per uid, and no package is
\* sent by a route without a link (send_package_by_table).
THEOREM RoutesAreTrue == Spec => []LiveRoutesAreTrue
<1>1. ASSUME IInv PROVE LiveRoutesAreTrue
  <2> SUFFICES ASSUME ~ crowded
               PROVE  /\ fault # "wild"
                      /\ \A p \in Live(last_table) :
                           LET e == table_order[p]
                           IN  /\ Valid_num(uid_table[e].link)
                               /\ neighbor[uid_table[e].link] = via[e]
                               /\ via[e] # NoUid
                      /\ \A p, q \in Live(last_table) :
                           uid_table[table_order[p]].uid = uid_table[table_order[q]].uid => p = q
    BY DEF LiveRoutesAreTrue
  <2>1. last_table \in 0 .. UID_TABLE_SIZE /\ Permutes(table_order) /\ Told /\ OnePerUid
    BY <1>1 DEF IInv, TypeOK
  <2>2. /\ \A p \in Live(last_table) : table_order[p] \in Live(last_table)
        /\ Live(last_table) \subseteq Entries
    BY <1>1, <2>1, LiveEntries DEF IInv
  <2>3. \A e \in Live(last_table) :
          /\ Valid_num(uid_table[e].link)
          /\ neighbor[uid_table[e].link] = via[e] /\ via[e] # NoUid
    BY <2>1, Constants DEF Told, Valid_num
  <2>4. ASSUME NEW p \in Live(last_table), NEW q \in Live(last_table),
               uid_table[table_order[p]].uid = uid_table[table_order[q]].uid
        PROVE  p = q
    <3>1. table_order[p] = table_order[q]
      BY <2>1, <2>2, <2>4 DEF OnePerUid
    <3> QED
      BY <2>1, <2>2, <3>1 DEF Permutes
  <2> QED
    BY <1>1, <2>2, <2>3, <2>4 DEF IInv
<1> QED
  BY <1>1, Invariant, PTL
=============================================================================
