------------------------- MODULE TimerTaskListProofs -------------------------
(***************************************************************************)
(* The linked nodes of timer_queue, for any connections, timeouts, initial *)
(* capacity and number of nodes: the priority list and the free list       *)
(* partition the deque; each operation on them is that operation of the    *)
(* ordered queue of module TimerQueue; sessions have the entries they      *)
(* should, and are never ticked early.                                     *)
(***************************************************************************)
EXTENDS TimerTaskList, SequenceTheorems, WellFoundedInduction, TLAPS

\* Induction over the natural numbers: a set that holds zero and the successor
\* of each of its members holds them all.
LEMMA EveryNat ==
    ASSUME NEW S, S \subseteq Nat, 0 \in S, \A n \in S : n + 1 \in S
    PROVE  S = Nat
<1> DEFINE T == Nat \ S
<1> SUFFICES ASSUME T # {} PROVE FALSE
  OBVIOUS
<1>1. PICK x \in T : \A y \in T : ~ (<<y, x>> \in OpToRel(<, Nat))
  <2>1. T \subseteq Nat
    OBVIOUS
  <2> HIDE DEF T
  <2> QED BY <2>1, NatLessThanWellFounded, WFMin
<1>2. x - 1 \in Nat /\ x - 1 < x /\ (x - 1) + 1 = x
  BY DEF T
<1>3. x - 1 \notin T
  BY <1>1, <1>2 DEF OpToRel
<1> QED BY <1>2, <1>3

\* One round of the recursion of Links: the walks of at most k nodes from each
\* node, given those of k - 1 nodes.
Walks(ts, f, k) ==
    [n \in null .. Len(ts) |->
        IF k = 0 \/ n = null THEN <<>> ELSE <<n>> \o f[k - 1][ts[n].next]]

\* The function that Links defines by recursion exists.
LEMMA WalksExist ==
    ASSUME NEW ts
    PROVE  \A m \in Nat : \E f : f = [k \in 0 .. m |-> Walks(ts, f, k)]
<1> DEFINE S == {m \in Nat : \E f : f = [k \in 0 .. m |-> Walks(ts, f, k)]}
<1>1. 0 \in S
  <2> DEFINE g == [k \in 0 .. 0 |-> [n \in null .. Len(ts) |-> <<>>]]
  <2>1. \A k \in 0 .. 0 : g[k] = Walks(ts, g, k)
    BY DEF Walks
  <2>2. g = [k \in 0 .. 0 |-> Walks(ts, g, k)]
    BY <2>1
  <2> QED BY <2>2
<1>2. ASSUME NEW m \in S PROVE m + 1 \in S
  <2>1. m \in Nat /\ m + 1 \in Nat
    OBVIOUS
  <2>2. PICK f : f = [k \in 0 .. m |-> Walks(ts, f, k)]
    OBVIOUS
  <2> DEFINE g == [k \in 0 .. m + 1 |-> Walks(ts, f, k)]
  <2>3. \A k \in 0 .. m : g[k] = f[k]
    BY <2>1, <2>2
  <2>4. ASSUME NEW k \in 0 .. m + 1 PROVE Walks(ts, f, k) = Walks(ts, g, k)
    <3>1. CASE k = 0
      BY <3>1 DEF Walks
    <3>2. CASE k # 0
      <4>1. k - 1 \in 0 .. m
        BY <2>1, <3>2
      <4>2. g[k - 1] = f[k - 1]
        BY <4>1, <2>3
      <4> HIDE DEF g
      <4> QED BY <4>2 DEF Walks
    <3> QED BY <3>1, <3>2
  <2>5. g = [k \in 0 .. m + 1 |-> Walks(ts, g, k)]
    BY <2>4
  <2> HIDE DEF g
  <2> QED BY <2>1, <2>5
<1>3. S = Nat
  <2> HIDE DEF S
  <2>1. S \subseteq Nat
    BY DEF S
  <2> QED BY <1>1, <1>2, <2>1, EveryNat
<1> QED BY <1>3

\* Links follows the links.
LEMMA LinksWalk ==
    ASSUME NEW ts, NEW head, Len(ts) \in Nat
    PROVE  \E f : /\ f = [k \in 0 .. Len(ts) + 1 |-> Walks(ts, f, k)]
                  /\ Links(ts, head) = f[Len(ts) + 1][head]
<1> DEFINE f == CHOOSE g : g = [k \in 0 .. Len(ts) + 1 |-> Walks(ts, g, k)]
<1>1. f = [k \in 0 .. Len(ts) + 1 |-> Walks(ts, f, k)]
  <2>1. \E g : g = [k \in 0 .. Len(ts) + 1 |-> Walks(ts, g, k)]
    <3> DEFINE m == Len(ts) + 1
    <3>1. m \in Nat
      OBVIOUS
    <3> HIDE DEF m
    <3>2. \E g : g = [k \in 0 .. m |-> Walks(ts, g, k)]
      BY <3>1, WalksExist, Zenon
    <3> QED BY <3>2 DEF m
  <2> QED BY <2>1
<1>2. Links(ts, head) = f[Len(ts) + 1][head]
  BY DEF Links, Walks
<1> QED BY <1>1, <1>2

-----------------------------------------------------------------------------
(* Chains: a list that is laid out along the links.                        *)

\* The i-th node of the list p, nullptr behind its end.
Nth(p, i) == IF i \in 1 .. Len(p) THEN p[i] ELSE null

\* The list p is linked from head on in the nodes ts.
Chain(ts, head, p) ==
    /\ p \in Seq(1 .. Len(ts))
    /\ head = Nth(p, 1)
    /\ \A i \in 1 .. Len(p) : ts[p[i]].next = Nth(p, i + 1)

\* A walk along a chain that has no more links than there are nodes passes the
\* chain's nodes, in its order.
LEMMA LinksOfChain ==
    ASSUME NEW ts, Len(ts) \in Nat, NEW head, NEW p,
           Chain(ts, head, p), Len(p) <= Len(ts)
    PROVE  Links(ts, head) = p
<1> DEFINE L == Len(ts)
           m == Len(p)
           part(i, k) == SubSeq(p, i, IF (i + k) - 1 <= m THEN (i + k) - 1 ELSE m)
<1>1. PICK f : /\ f = [k \in 0 .. L + 1 |-> Walks(ts, f, k)]
               /\ Links(ts, head) = f[L + 1][head]
  BY LinksWalk
<1>2. /\ p \in Seq(1 .. L) /\ L \in Nat /\ m \in Nat /\ m <= L
      /\ \A i \in 1 .. m : p[i] \in 1 .. L
  BY LenProperties DEF Chain
<1>3. /\ head = Nth(p, 1)
      /\ \A i \in 1 .. m : ts[p[i]].next = Nth(p, i + 1)
  BY DEF Chain
<1>4. m = Len(p)
  OBVIOUS
<1> HIDE DEF m, L
<1>5. \A i \in 1 .. m + 1 : Nth(p, i) \in 0 .. L
  BY <1>2, <1>4 DEF Nth, null
<1> DEFINE S == {k \in Nat : k <= L + 1 => \A i \in 1 .. m + 1 : f[k][Nth(p, i)] = part(i, k)}
<1>6. 0 \in S
  <2> SUFFICES ASSUME NEW i \in 1 .. m + 1 PROVE f[0][Nth(p, i)] = part(i, 0)
    OBVIOUS
  <2>1. 0 \in 0 .. L + 1
    BY <1>2
  <2>2. f[0] = Walks(ts, f, 0)
    BY <1>1, <2>1
  <2>3. f[0][Nth(p, i)] = <<>>
    BY <2>2, <1>5 DEF Walks, null, L
  <2>4. (i + 0) - 1 <= m /\ (i + 0) - 1 < i /\ (i + 0) - 1 \in Int /\ i \in Int
    BY <1>2
  <2>5. part(i, 0) = <<>>
    BY <2>4, SubSeqEmpty
  <2> QED BY <2>3, <2>5
<1>7. ASSUME NEW k \in S PROVE k + 1 \in S
  <2>1. k \in Nat /\ k + 1 \in Nat
    OBVIOUS
  <2> SUFFICES ASSUME k + 1 <= L + 1, NEW i \in 1 .. m + 1
               PROVE  f[k + 1][Nth(p, i)] = part(i, k + 1)
    BY <2>1
  <2>2. k <= L + 1 /\ k + 1 \in 0 .. L + 1 /\ k + 1 # 0 /\ (k + 1) - 1 = k
    BY <2>1, <1>2
  <2>3. \A j \in 1 .. m + 1 : f[k][Nth(p, j)] = part(j, k)
    BY <2>2
  <2>4. f[k + 1] = Walks(ts, f, k + 1)
    BY <1>1, <2>2
  <2>5. f[k + 1][Nth(p, i)] = IF Nth(p, i) = null THEN <<>>
                              ELSE <<Nth(p, i)>> \o f[k][ts[Nth(p, i)].next]
    BY <2>2, <2>4, <1>5 DEF Walks, null, L
  <2>6. CASE i = m + 1
    <3>1. Nth(p, i) = null
      BY <2>6, <1>2, <1>4 DEF Nth
    <3>2. ~ ((i + (k + 1)) - 1 <= m) /\ m < i /\ i \in Int /\ m \in Int
      BY <2>1, <2>6, <1>2
    <3>3. part(i, k + 1) = <<>>
      BY <3>2, SubSeqEmpty
    <3> QED BY <2>5, <3>1, <3>3
  <2>7. CASE i # m + 1
    <3>1. i \in 1 .. m /\ i + 1 \in 1 .. m + 1
      BY <2>7, <1>2
    <3>2. Nth(p, i) = p[i] /\ p[i] # null
      BY <3>1, <1>2, <1>4 DEF Nth, null
    <3>3. f[k + 1][Nth(p, i)] = <<p[i]>> \o part(i + 1, k)
      BY <2>3, <2>5, <3>1, <3>2, <1>3
    <3> DEFINE e == IF i + k <= m THEN i + k ELSE m
    <3>4. e \in i .. m
      BY <2>1, <3>1, <1>2
    <3>5. part(i + 1, k) = SubSeq(p, i + 1, e)
      <4>1. ((i + 1) + k) - 1 = i + k
        BY <2>1, <3>1
      <4> QED BY <4>1
    <3>6. part(i, k + 1) = SubSeq(p, i, e)
      <4>1. (i + (k + 1)) - 1 = i + k
        BY <2>1, <3>1
      <4> QED BY <4>1
    <3> HIDE DEF e, part
    <3>7. SubSeq(p, i, e) = <<p[i]>> \o SubSeq(p, i + 1, e)
      BY <3>1, <3>4, <1>2, <1>4, SubSeqRecursiveFirst
    <3> QED BY <3>3, <3>5, <3>6, <3>7
  <2> QED BY <2>6, <2>7
<1>8. S = Nat
  <2>1. S \subseteq Nat
    OBVIOUS
  <2> HIDE DEF S
  <2> QED BY <1>6, <1>7, <2>1, EveryNat
<1>9. L + 1 \in S /\ 1 \in 1 .. m + 1 /\ ~ ((1 + (L + 1)) - 1 <= m)
  <2> HIDE DEF S
  <2> QED BY <1>2, <1>8
<1>10. f[L + 1][Nth(p, 1)] = part(1, L + 1)
  BY <1>9, <1>2
<1>11. part(1, L + 1) = SubSeq(p, 1, m)
  BY <1>9
<1>12. SubSeq(p, 1, m) = p
  BY <1>2, <1>4, SubSeqFull
<1> QED BY <1>1, <1>3, <1>10, <1>11, <1>12

-----------------------------------------------------------------------------
(* Lists of the deque's nodes.                                             *)

TaskOf(L) == [next : null .. L, expirationTime : Nat,
              connection : Connections \cup {NoConnection}]

\* The deque ts holds the priority list p, from priority on, and the free list
\* f, from free on: no node is in both, or twice in one, or in none.
Lists(ts, priority, free, p, f) ==
    /\ ts \in Seq(TaskOf(Len(ts)))
    /\ Chain(ts, priority, p) /\ Chain(ts, free, f)
    /\ \A i, j \in 1 .. Len(p) : p[i] = p[j] => i = j
    /\ \A i, j \in 1 .. Len(f) : f[i] = f[j] => i = j
    /\ \A i \in 1 .. Len(p), j \in 1 .. Len(f) : p[i] # f[j]
    /\ Len(p) + Len(f) = Len(ts)
    /\ \A i \in 1 .. Len(p) : /\ ts[p[i]].expirationTime \in Times
                              /\ ts[p[i]].connection \in Connections
    /\ \A i \in 1 .. Len(f) : /\ ts[f[i]].expirationTime = 0
                              /\ ts[f[i]].connection = NoConnection

\* The entries of the nodes p.
EntryAt(ts, n) == [expirationTime |-> ts[n].expirationTime, connection |-> ts[n].connection]
EntriesIn(ts, p) == [i \in 1 .. Len(p) |-> EntryAt(ts, p[i])]

\* Putting x behind the first k, and taking out the k-th.
Ins(s, k, x) == [i \in 1 .. Len(s) + 1 |-> IF i <= k THEN s[i] ELSE IF i = k + 1 THEN x ELSE s[i - 1]]
Del(s, k)    == [i \in 1 .. Len(s) - 1 |-> IF i < k THEN s[i] ELSE s[i + 1]]

\* A function on the first numbers is a sequence.
LEMMA Listed ==
    ASSUME NEW n \in Nat, NEW S, NEW g \in [1 .. n -> S]
    PROVE  g \in Seq(S) /\ Len(g) = n
OBVIOUS

\* What putting x behind the first k does, position by position.
LEMMA InsAt ==
    ASSUME NEW S, NEW s, s \in Seq(S), NEW k, k \in 0 .. Len(s), NEW x, x \in S,
           NEW r, r = Ins(s, k, x)
    PROVE  /\ r \in Seq(S) /\ Len(r) = Len(s) + 1
           /\ \A i \in 1 .. k : r[i] = s[i]
           /\ r[k + 1] = x
           /\ \A i \in k + 2 .. Len(s) + 1 : r[i] = s[i - 1]
<1> DEFINE m == Len(s)
<1>1. m \in Nat /\ m + 1 \in Nat /\ k \in 0 .. m /\ m = Len(s)
  BY LenProperties
<1>2. \A i \in 1 .. m : s[i] \in S
  BY ElementOfSeq
<1> HIDE DEF m
<1>3. r = [i \in 1 .. m + 1 |-> IF i <= k THEN s[i] ELSE IF i = k + 1 THEN x ELSE s[i - 1]]
  BY <1>1 DEF Ins
<1>4. ASSUME NEW i \in 1 .. m + 1
      PROVE  (IF i <= k THEN s[i] ELSE IF i = k + 1 THEN x ELSE s[i - 1]) \in S
  <2>1. i <= k => i \in 1 .. m
    BY <1>1
  <2>2. ~ (i <= k) /\ i # k + 1 => i - 1 \in 1 .. m
    BY <1>1
  <2> QED BY <2>1, <2>2, <1>2
<1>5. r \in [1 .. m + 1 -> S]
  BY <1>3, <1>4
<1>6. r \in Seq(S) /\ Len(r) = m + 1
  BY <1>1, <1>5, Listed
<1>7. \A i \in 1 .. k : r[i] = s[i]
  BY <1>1, <1>3
<1>8. r[k + 1] = x
  BY <1>1, <1>3
<1>9. \A i \in k + 2 .. m + 1 : r[i] = s[i - 1]
  BY <1>1, <1>3
<1> QED BY <1>1, <1>6, <1>7, <1>8, <1>9

\* What taking out the k-th does, position by position.
LEMMA DelAt ==
    ASSUME NEW S, NEW s, s \in Seq(S), NEW k, k \in 1 .. Len(s), NEW r, r = Del(s, k)
    PROVE  /\ r \in Seq(S) /\ Len(r) = Len(s) - 1
           /\ \A i \in 1 .. k - 1 : r[i] = s[i]
           /\ \A i \in k .. Len(s) - 1 : r[i] = s[i + 1]
<1> DEFINE m == Len(s)
<1>1. m \in Nat /\ m - 1 \in Nat /\ k \in 1 .. m /\ m = Len(s)
  BY LenProperties
<1>2. \A i \in 1 .. m : s[i] \in S
  BY ElementOfSeq
<1> HIDE DEF m
<1>3. r = [i \in 1 .. m - 1 |-> IF i < k THEN s[i] ELSE s[i + 1]]
  BY <1>1 DEF Del
<1>4. ASSUME NEW i \in 1 .. m - 1
      PROVE  (IF i < k THEN s[i] ELSE s[i + 1]) \in S
  <2>1. i \in 1 .. m /\ i + 1 \in 1 .. m
    BY <1>1
  <2> QED BY <2>1, <1>2
<1>5. r \in [1 .. m - 1 -> S]
  BY <1>3, <1>4
<1>6. r \in Seq(S) /\ Len(r) = m - 1
  BY <1>1, <1>5, Listed
<1>7. \A i \in 1 .. k - 1 : r[i] = s[i]
  BY <1>1, <1>3
<1>8. \A i \in k .. m - 1 : r[i] = s[i + 1]
  BY <1>1, <1>3
<1> QED BY <1>1, <1>6, <1>7, <1>8

\* The nodes ts become ts2: node N is linked behind the first k of the list p,
\* with an entry for c at time t.  It was the first of the free list f, or is
\* new; g is what the free list still has.
Joins(N, k, t, c, ts, priority, p, f, ts2, priority2, free2, g) ==
    /\ k \in 0 .. Len(p) /\ t \in Times /\ c \in Connections
    /\ ts2 \in Seq(TaskOf(Len(ts2))) /\ Len(ts) <= Len(ts2) /\ N \in 1 .. Len(ts2)
    /\ \A i \in 1 .. Len(p) : p[i] # N
    /\ \A n \in 1 .. Len(ts) : n # N =>
           /\ ts2[n].expirationTime = ts[n].expirationTime
           /\ ts2[n].connection = ts[n].connection
           /\ ts2[n].next = IF n = Nth(p, k) THEN N ELSE ts[n].next
    /\ ts2[N].next = Nth(p, k + 1) /\ ts2[N].expirationTime = t /\ ts2[N].connection = c
    /\ priority2 = IF k = 0 THEN N ELSE priority
    /\ g \in Seq(1 .. Len(ts)) /\ free2 = Nth(g, 1) /\ Len(p) + 1 + Len(g) = Len(ts2)
    /\ \A i \in 1 .. Len(g) : i + 1 \in 1 .. Len(f) /\ g[i] = f[i + 1]
    /\ Len(g) # 0 => Len(g) = Len(f) - 1 /\ N = f[1]

\* Then the lists stay apart, and the entry is in its place.
LEMMA ListInsert ==
    ASSUME NEW ts, NEW priority, NEW free, NEW p, NEW f, Lists(ts, priority, free, p, f),
           NEW N, NEW k, NEW t, NEW c, NEW ts2, NEW priority2, NEW free2, NEW g,
           Joins(N, k, t, c, ts, priority, p, f, ts2, priority2, free2, g)
    PROVE  /\ Lists(ts2, priority2, free2, Ins(p, k, N), g)
           /\ EntriesIn(ts2, Ins(p, k, N)) =
                 Ins(EntriesIn(ts, p), k, [expirationTime |-> t, connection |-> c])
<1> DEFINE L == Len(ts)
           L2 == Len(ts2)
           m == Len(p)
           q == Ins(p, k, N)
           pos(i) == IF i <= k THEN i ELSE i - 1
<1>1. /\ ts \in Seq(TaskOf(L)) /\ p \in Seq(1 .. L) /\ f \in Seq(1 .. L)
      /\ priority = Nth(p, 1) /\ \A i \in 1 .. m : ts[p[i]].next = Nth(p, i + 1)
      /\ \A i \in 1 .. Len(f) : ts[f[i]].next = Nth(f, i + 1)
  BY DEF Lists, Chain
<1>2. /\ \A i, j \in 1 .. m : p[i] = p[j] => i = j
      /\ \A i, j \in 1 .. Len(f) : f[i] = f[j] => i = j
      /\ \A i \in 1 .. m, j \in 1 .. Len(f) : p[i] # f[j]
      /\ \A i \in 1 .. m : ts[p[i]].expirationTime \in Times /\ ts[p[i]].connection \in Connections
      /\ \A i \in 1 .. Len(f) : ts[f[i]].expirationTime = 0 /\ ts[f[i]].connection = NoConnection
  BY DEF Lists
<1>21. /\ k \in 0 .. m /\ t \in Times /\ c \in Connections
       /\ ts2 \in Seq(TaskOf(L2)) /\ L <= L2 /\ N \in 1 .. L2
       /\ priority2 = IF k = 0 THEN N ELSE priority
       /\ g \in Seq(1 .. L) /\ free2 = Nth(g, 1) /\ m + 1 + Len(g) = L2
  BY DEF Joins
<1>22. /\ \A i \in 1 .. m : p[i] # N
       /\ \A n \in 1 .. L : n # N =>
             /\ ts2[n].expirationTime = ts[n].expirationTime
             /\ ts2[n].connection = ts[n].connection
             /\ ts2[n].next = IF n = Nth(p, k) THEN N ELSE ts[n].next
  BY DEF Joins
<1>23. ts2[N].next = Nth(p, k + 1) /\ ts2[N].expirationTime = t /\ ts2[N].connection = c
  BY DEF Joins
<1>24. /\ \A i \in 1 .. Len(g) : i + 1 \in 1 .. Len(f) /\ g[i] = f[i + 1]
       /\ Len(g) # 0 => Len(g) = Len(f) - 1 /\ N = f[1]
  BY DEF Joins
<1>3. L \in Nat /\ L2 \in Nat /\ m \in Nat /\ Len(f) \in Nat /\ Len(g) \in Nat /\ k \in 0 .. m /\ L <= L2
  BY <1>1, <1>21, LenProperties
<1>4. /\ \A i \in 1 .. m : p[i] \in 1 .. L
      /\ \A i \in 1 .. Len(f) : f[i] \in 1 .. L
      /\ \A i \in 1 .. Len(g) : g[i] \in 1 .. L
  BY <1>1, <1>21, ElementOfSeq
<1>5. p \in Seq(1 .. L2) /\ g \in Seq(1 .. L2)
  <2>1. 1 .. L \subseteq 1 .. L2
    BY <1>3
  <2> QED BY <1>1, <1>21, <2>1, SeqMonotonic
<1>6. m = Len(p) /\ L = Len(ts) /\ L2 = Len(ts2) /\ q = Ins(p, k, N)
  OBVIOUS
<1> HIDE DEF L, L2, m, q
<1>7. /\ q \in Seq(1 .. L2) /\ Len(q) = m + 1
      /\ \A i \in 1 .. k : q[i] = p[i]
      /\ q[k + 1] = N
      /\ \A i \in k + 2 .. m + 1 : q[i] = p[i - 1]
  <2>1. N \in 1 .. L2 /\ k \in 0 .. Len(p)
    BY <1>6, <1>21
  <2>2. /\ q \in Seq(1 .. L2) /\ Len(q) = Len(p) + 1
        /\ \A i \in 1 .. k : q[i] = p[i]
        /\ q[k + 1] = N
        /\ \A i \in k + 2 .. Len(p) + 1 : q[i] = p[i - 1]
    <3> DEFINE S == 1 .. L2
    <3>1. p \in Seq(S) /\ q = Ins(p, k, N) /\ N \in S /\ k \in 0 .. Len(p)
      BY <1>5, <1>6, <2>1
    <3> HIDE DEF S
    <3>2. q \in Seq(S)
      BY <3>1, InsAt
    <3>3. Len(q) = Len(p) + 1
      BY <3>1, InsAt
    <3>4. \A i \in 1 .. k : q[i] = p[i]
      BY <3>1, InsAt
    <3>5. q[k + 1] = N
      BY <3>1, InsAt
    <3>6. \A i \in k + 2 .. Len(p) + 1 : q[i] = p[i - 1]
      <4>1. q = [i \in 1 .. m + 1 |-> IF i <= k THEN p[i] ELSE IF i = k + 1 THEN N ELSE p[i - 1]]
        BY <1>6 DEF Ins
      <4> QED BY <4>1, <1>3, <1>6
    <3> QED BY <3>2, <3>3, <3>4, <3>5, <3>6 DEF S
  <2> QED BY <1>6, <2>2
<1>8. \A i \in 1 .. m + 1 : i # k + 1 => pos(i) \in 1 .. m /\ q[i] = p[pos(i)]
  <2> SUFFICES ASSUME NEW i \in 1 .. m + 1, i # k + 1 PROVE pos(i) \in 1 .. m /\ q[i] = p[pos(i)]
    OBVIOUS
  <2>1. CASE i <= k
    BY <2>1, <1>3, <1>7
  <2>2. CASE ~ (i <= k)
    <3>1. i \in k + 2 .. m + 1 /\ i - 1 \in 1 .. m
      BY <2>2, <1>3
    <3> QED BY <2>2, <3>1, <1>7
  <2> QED BY <2>1, <2>2
\* The links of the nodes that were in the priority list.
<1>9. ASSUME NEW i \in 1 .. m
      PROVE  /\ p[i] \in 1 .. L /\ p[i] # N /\ p[i] # null
             /\ ts2[p[i]].expirationTime = ts[p[i]].expirationTime
             /\ ts2[p[i]].connection = ts[p[i]].connection
             /\ ts2[p[i]].next = IF i = k THEN N ELSE Nth(p, i + 1)
  <2>1. p[i] \in 1 .. L /\ p[i] # N /\ p[i] # null
    BY <1>4, <1>22 DEF null
  <2>2. p[i] = Nth(p, k) <=> i = k
    <3>1. CASE k = 0
      BY <3>1, <2>1, <1>3, <1>6 DEF Nth
    <3>2. CASE k # 0
      <4>1. k \in 1 .. m
        BY <3>2, <1>3
      <4> QED BY <4>1, <1>2, <1>6 DEF Nth
    <3> QED BY <3>1, <3>2
  <2> QED BY <2>1, <2>2, <1>1, <1>22
<1>10. Chain(ts2, priority2, q)
  <2>1. priority2 = Nth(q, 1)
    <3>1. CASE k = 0
      BY <3>1, <1>3, <1>7, <1>21 DEF Nth
    <3>2. CASE k # 0
      <4>1. 1 \in 1 .. k /\ 1 \in 1 .. m /\ 1 \in 1 .. m + 1
        BY <3>2, <1>3
      <4> QED BY <3>2, <4>1, <1>1, <1>6, <1>7, <1>21 DEF Nth
    <3> QED BY <3>1, <3>2
  <2>2. ASSUME NEW i \in 1 .. m + 1 PROVE ts2[q[i]].next = Nth(q, i + 1)
    <3>1. CASE i < k
      <4>1. i \in 1 .. m /\ i + 1 \in 1 .. m /\ i + 1 \in 1 .. k /\ i \in 1 .. k /\ i # k /\ i + 1 \in 1 .. m + 1
        BY <3>1, <1>3
      <4> QED BY <4>1, <1>6, <1>7, <1>9 DEF Nth
    <3>2. CASE i = k
      <4>1. k \in 1 .. m /\ k \in 1 .. k /\ k + 1 \in 1 .. m + 1
        BY <3>2, <1>3
      <4> QED BY <3>2, <4>1, <1>7, <1>9 DEF Nth
    <3>3. CASE i = k + 1
      <4>1. CASE k + 1 <= m
        <5>1. k + 1 \in 1 .. m /\ k + 2 \in k + 2 .. m + 1 /\ k + 2 \in 1 .. m + 1
              /\ (k + 2) - 1 = k + 1 /\ (k + 1) + 1 = k + 2
          BY <4>1, <1>3
        <5>2. Nth(q, i + 1) = p[k + 1]
          BY <3>3, <5>1, <1>7 DEF Nth
        <5> QED BY <3>3, <5>1, <5>2, <1>6, <1>7, <1>23 DEF Nth
      <4>2. CASE ~ (k + 1 <= m)
        <5>1. ~ (k + 1 \in 1 .. m) /\ ~ (i + 1 \in 1 .. m + 1)
          BY <3>3, <4>2, <1>3
        <5> QED BY <3>3, <5>1, <1>6, <1>7, <1>23 DEF Nth
      <4> QED BY <4>1, <4>2
    <3>4. CASE i > k + 1
      <4>1. i - 1 \in 1 .. m /\ i - 1 # k /\ i \in k + 2 .. m + 1 /\ (i - 1) + 1 = i
        BY <3>4, <1>3
      <4>2. ts2[q[i]].next = Nth(p, i)
        BY <4>1, <1>7, <1>9
      <4>3. CASE i <= m
        <5>1. i \in 1 .. m /\ i + 1 \in k + 2 .. m + 1 /\ i + 1 \in 1 .. m + 1 /\ (i + 1) - 1 = i
          BY <4>1, <4>3, <1>3
        <5> QED BY <4>2, <5>1, <1>6, <1>7 DEF Nth
      <4>4. CASE ~ (i <= m)
        <5>1. ~ (i \in 1 .. m) /\ ~ (i + 1 \in 1 .. m + 1)
          BY <4>4, <1>3
        <5> QED BY <4>2, <5>1, <1>6, <1>7 DEF Nth
      <4> QED BY <4>3, <4>4
    <3> QED BY <3>1, <3>2, <3>3, <3>4, <1>3
  <2> QED BY <2>1, <2>2, <1>6, <1>7 DEF Chain
<1>11. \A i, j \in 1 .. Len(q) : q[i] = q[j] => i = j
  <2> SUFFICES ASSUME NEW i \in 1 .. m + 1, NEW j \in 1 .. m + 1, q[i] = q[j] PROVE i = j
    BY <1>7
  <2>1. CASE i = k + 1 /\ j # k + 1
    BY <2>1, <1>7, <1>8, <1>9
  <2>2. CASE i # k + 1 /\ j = k + 1
    BY <2>2, <1>7, <1>8, <1>9
  <2>3. CASE i # k + 1 /\ j # k + 1
    <3>1. pos(i) = pos(j)
      BY <2>3, <1>2, <1>8
    <3> QED BY <2>3, <3>1, <1>3
  <2> QED BY <2>1, <2>2, <2>3
\* The nodes that stay in the free list.
<1>12. ASSUME NEW i \in 1 .. Len(g)
       PROVE  /\ i + 1 \in 1 .. Len(f) /\ g[i] = f[i + 1] /\ g[i] \in 1 .. L /\ g[i] # N
              /\ ts2[g[i]].expirationTime = 0 /\ ts2[g[i]].connection = NoConnection
              /\ ts2[g[i]].next = Nth(f, i + 2)
              /\ \A j \in 1 .. m : p[j] # g[i]
  <2>1. i + 1 \in 1 .. Len(f) /\ g[i] = f[i + 1] /\ g[i] \in 1 .. L
    BY <1>4, <1>24
  <2>2. N = f[1] /\ 1 \in 1 .. Len(f) /\ i + 1 # 1
    BY <2>1, <1>3, <1>24
  <2>3. g[i] # N
    BY <2>1, <2>2, <1>2
  <2>4. \A j \in 1 .. m : p[j] # g[i]
    BY <2>1, <1>2
  <2>5. g[i] # Nth(p, k)
    BY <2>1, <2>4, <1>6 DEF Nth, null
  <2>6. (i + 1) + 1 = i + 2
    OBVIOUS
  <2>7. /\ ts2[g[i]].expirationTime = ts[g[i]].expirationTime
        /\ ts2[g[i]].connection = ts[g[i]].connection
        /\ ts2[g[i]].next = ts[g[i]].next
    BY <2>1, <2>3, <2>5, <1>22
  <2>8. /\ ts[f[i + 1]].expirationTime = 0 /\ ts[f[i + 1]].connection = NoConnection
        /\ ts[f[i + 1]].next = Nth(f, (i + 1) + 1)
    BY <2>1, <1>1, <1>2
  <2> QED BY <2>1, <2>3, <2>4, <2>6, <2>7, <2>8
<1>13. Chain(ts2, free2, g)
  <2>1. ASSUME NEW i \in 1 .. Len(g) PROVE Nth(f, i + 2) = Nth(g, i + 1)
    <3>1. Len(g) = Len(f) - 1
      BY <1>3, <1>24
    <3>2. CASE i + 1 <= Len(g)
      <4>1. i + 1 \in 1 .. Len(g) /\ i + 2 \in 1 .. Len(f) /\ (i + 1) + 1 = i + 2
        BY <3>1, <3>2, <1>3
      <4>2. g[i + 1] = f[i + 2]
        BY <4>1, <1>12
      <4> QED BY <4>1, <4>2 DEF Nth
    <3>3. CASE ~ (i + 1 <= Len(g))
      <4>1. ~ (i + 1 \in 1 .. Len(g)) /\ ~ (i + 2 \in 1 .. Len(f))
        BY <3>1, <3>3, <1>3
      <4> QED BY <4>1 DEF Nth
    <3> QED BY <3>2, <3>3
  <2> QED BY <2>1, <1>5, <1>6, <1>12, <1>21 DEF Chain
<1>14. \A i, j \in 1 .. Len(g) : g[i] = g[j] => i = j
  <2> SUFFICES ASSUME NEW i \in 1 .. Len(g), NEW j \in 1 .. Len(g), g[i] = g[j] PROVE i = j
    OBVIOUS
  <2>1. i + 1 = j + 1
    BY <1>2, <1>12
  <2> QED BY <2>1, <1>3
<1>15. \A i \in 1 .. Len(q), j \in 1 .. Len(g) : q[i] # g[j]
  <2> SUFFICES ASSUME NEW i \in 1 .. m + 1, NEW j \in 1 .. Len(g) PROVE q[i] # g[j]
    BY <1>7
  <2>1. CASE i = k + 1
    BY <2>1, <1>7, <1>12
  <2>2. CASE i # k + 1
    BY <2>2, <1>8, <1>12
  <2> QED BY <2>1, <2>2
<1>16. \A i \in 1 .. Len(q) : ts2[q[i]].expirationTime \in Times /\ ts2[q[i]].connection \in Connections
  <2> SUFFICES ASSUME NEW i \in 1 .. m + 1
               PROVE  ts2[q[i]].expirationTime \in Times /\ ts2[q[i]].connection \in Connections
    BY <1>7
  <2>1. CASE i = k + 1
    BY <2>1, <1>7, <1>21, <1>23
  <2>2. CASE i # k + 1
    BY <2>2, <1>2, <1>8, <1>9
  <2> QED BY <2>1, <2>2
<1>17. Lists(ts2, priority2, free2, q, g)
  <2>1. Len(q) + Len(g) = Len(ts2)
    BY <1>3, <1>6, <1>7, <1>21
  <2>2. \A i \in 1 .. Len(g) : /\ ts2[g[i]].expirationTime = 0
                               /\ ts2[g[i]].connection = NoConnection
    BY <1>12
  <2>3. ts2 \in Seq(TaskOf(Len(ts2)))
    BY <1>6, <1>21
  <2> QED BY <2>1, <2>2, <2>3, <1>10, <1>11, <1>13, <1>14, <1>15, <1>16 DEF Lists
<1>18. EntriesIn(ts2, q) = Ins(EntriesIn(ts, p), k, [expirationTime |-> t, connection |-> c])
  <2> DEFINE e == [expirationTime |-> t, connection |-> c]
             E == EntriesIn(ts, p)
  <2>1. E = [i \in 1 .. m |-> EntryAt(ts, p[i])]
    BY <1>6 DEF EntriesIn
  <2>2. Len(E) = m
    BY <2>1, <1>3, Listed
  <2>3. ASSUME NEW i \in 1 .. m + 1
        PROVE  EntryAt(ts2, q[i]) = IF i <= k THEN E[i] ELSE IF i = k + 1 THEN e ELSE E[i - 1]
    <3>1. CASE i = k + 1
      <4>1. ~ (i <= k)
        BY <3>1, <1>3
      <4> QED BY <3>1, <4>1, <1>7, <1>23 DEF EntryAt
    <3>2. CASE i # k + 1
      <4>1. /\ pos(i) \in 1 .. m /\ q[i] = p[pos(i)]
        BY <3>2, <1>8
      <4>2. EntryAt(ts2, q[i]) = E[pos(i)]
        BY <4>1, <2>1, <1>9 DEF EntryAt
      <4> HIDE DEF E
      <4> QED BY <3>2, <4>2
    <3> QED BY <3>1, <3>2
  <2>4. EntriesIn(ts2, q) = [i \in 1 .. m + 1 |-> EntryAt(ts2, q[i])]
    BY <1>7 DEF EntriesIn
  <2>5. Ins(E, k, e) = [i \in 1 .. m + 1 |-> IF i <= k THEN E[i] ELSE IF i = k + 1 THEN e ELSE E[i - 1]]
    BY <2>2 DEF Ins
  <2> HIDE DEF E, e
  <2>6. EntriesIn(ts2, q) = Ins(E, k, e)
    BY <2>3, <2>4, <2>5
  <2> QED BY <2>6 DEF E, e
<1> QED BY <1>6, <1>17, <1>18

\* The nodes ts become ts2: the k-th node of the list p is cleared and linked
\* before the free list.
Parts(k, ts, priority, free, p, ts2, priority2, free2) ==
    /\ k \in 1 .. Len(p)
    /\ ts2 \in Seq(TaskOf(Len(ts2))) /\ Len(ts2) = Len(ts)
    /\ \A n \in 1 .. Len(ts) : n # p[k] =>
           /\ ts2[n].expirationTime = ts[n].expirationTime
           /\ ts2[n].connection = ts[n].connection
           /\ ts2[n].next = IF n = Nth(p, k - 1) THEN Nth(p, k + 1) ELSE ts[n].next
    /\ ts2[p[k]].next = free /\ ts2[p[k]].expirationTime = 0
    /\ ts2[p[k]].connection = NoConnection
    /\ priority2 = IF k = 1 THEN Nth(p, 2) ELSE priority
    /\ free2 = p[k]

\* Then the lists stay apart, and only that entry is gone.
LEMMA ListDelete ==
    ASSUME NEW ts, NEW priority, NEW free, NEW p, NEW f, Lists(ts, priority, free, p, f),
           NEW k, NEW ts2, NEW priority2, NEW free2,
           Parts(k, ts, priority, free, p, ts2, priority2, free2)
    PROVE  /\ Lists(ts2, priority2, free2, Del(p, k), Ins(f, 0, p[k]))
           /\ EntriesIn(ts2, Del(p, k)) = Del(EntriesIn(ts, p), k)
<1> DEFINE L == Len(ts)
           m == Len(p)
           l == Len(f)
           q == Del(p, k)
           g == Ins(f, 0, p[k])
           pos(i) == IF i < k THEN i ELSE i + 1
<1>1. /\ ts \in Seq(TaskOf(L)) /\ p \in Seq(1 .. L) /\ f \in Seq(1 .. L)
      /\ priority = Nth(p, 1) /\ \A i \in 1 .. m : ts[p[i]].next = Nth(p, i + 1)
      /\ free = Nth(f, 1) /\ \A i \in 1 .. l : ts[f[i]].next = Nth(f, i + 1)
  BY DEF Lists, Chain
<1>2. /\ \A i, j \in 1 .. m : p[i] = p[j] => i = j
      /\ \A i, j \in 1 .. l : f[i] = f[j] => i = j
      /\ \A i \in 1 .. m, j \in 1 .. l : p[i] # f[j]
      /\ \A i \in 1 .. m : ts[p[i]].expirationTime \in Times /\ ts[p[i]].connection \in Connections
      /\ \A i \in 1 .. l : ts[f[i]].expirationTime = 0 /\ ts[f[i]].connection = NoConnection
  BY DEF Lists
<1>21. /\ k \in 1 .. m /\ ts2 \in Seq(TaskOf(Len(ts2))) /\ Len(ts2) = L
       /\ priority2 = (IF k = 1 THEN Nth(p, 2) ELSE priority) /\ free2 = p[k]
       /\ m + l = L
  BY DEF Parts, Lists
<1>22. \A n \in 1 .. L : n # p[k] =>
             /\ ts2[n].expirationTime = ts[n].expirationTime
             /\ ts2[n].connection = ts[n].connection
             /\ ts2[n].next = IF n = Nth(p, k - 1) THEN Nth(p, k + 1) ELSE ts[n].next
  BY DEF Parts
<1>23. /\ ts2[p[k]].next = free /\ ts2[p[k]].expirationTime = 0
       /\ ts2[p[k]].connection = NoConnection
  BY DEF Parts
<1>3. L \in Nat /\ m \in Nat /\ l \in Nat /\ k \in 1 .. m
  BY <1>1, <1>21, LenProperties
<1>4. /\ \A i \in 1 .. m : p[i] \in 1 .. L
      /\ \A i \in 1 .. l : f[i] \in 1 .. L
  BY <1>1, ElementOfSeq
<1>6. m = Len(p) /\ L = Len(ts) /\ l = Len(f) /\ q = Del(p, k) /\ g = Ins(f, 0, p[k])
  OBVIOUS
<1> HIDE DEF L, l, m, q, g
<1>5. q \in Seq(1 .. L) /\ Len(q) = m - 1
  <2> DEFINE S == 1 .. L
  <2>1. p \in Seq(S) /\ q = Del(p, k) /\ k \in 1 .. Len(p)
    BY <1>1, <1>3, <1>6
  <2> HIDE DEF S
  <2>2. q \in Seq(S)
    BY <2>1, DelAt
  <2>3. Len(q) = Len(p) - 1
    BY <2>1, DelAt
  <2> QED BY <2>2, <2>3, <1>6 DEF S
<1>7. g \in Seq(1 .. L) /\ Len(g) = l + 1
  <2> DEFINE S == 1 .. L
             x == p[k]
             o == 0
  <2>1. f \in Seq(S) /\ g = Ins(f, o, x) /\ o \in 0 .. Len(f) /\ x \in S
    BY <1>1, <1>3, <1>4, <1>6
  <2> HIDE DEF S, o, x
  <2>2. g \in Seq(S)
    BY <2>1, InsAt
  <2>3. Len(g) = Len(f) + 1
    BY <2>1, InsAt
  <2> QED BY <2>2, <2>3, <1>6 DEF S
<1>8. \A i \in 1 .. m - 1 : pos(i) \in 1 .. m /\ pos(i) # k /\ q[i] = p[pos(i)]
  <2>1. q = [i \in 1 .. m - 1 |-> IF i < k THEN p[i] ELSE p[i + 1]]
    BY <1>6 DEF Del
  <2> QED BY <2>1, <1>3
<1>9. g[1] = p[k] /\ \A i \in 2 .. l + 1 : i - 1 \in 1 .. l /\ g[i] = f[i - 1]
  <2>1. g = [i \in 1 .. l + 1 |-> IF i <= 0 THEN f[i] ELSE IF i = 0 + 1 THEN p[k] ELSE f[i - 1]]
    BY <1>6 DEF Ins
  <2> QED BY <2>1, <1>3
\* The nodes that stay in the priority list.
<1>10. ASSUME NEW i \in 1 .. m, i # k
       PROVE  /\ p[i] \in 1 .. L /\ p[i] # p[k]
              /\ ts2[p[i]].expirationTime = ts[p[i]].expirationTime
              /\ ts2[p[i]].connection = ts[p[i]].connection
              /\ ts2[p[i]].next = IF i = k - 1 THEN Nth(p, k + 1) ELSE Nth(p, i + 1)
  <2>1. p[i] \in 1 .. L /\ p[i] # p[k] /\ p[i] # null
    BY <1>2, <1>3, <1>4, <1>10 DEF null
  <2>2. p[i] = Nth(p, k - 1) <=> i = k - 1
    <3>1. CASE k = 1
      <4>1. ~ (k - 1 \in 1 .. m) /\ i # k - 1
        BY <3>1
      <4> QED BY <4>1, <2>1, <1>6 DEF Nth
    <3>2. CASE k # 1
      <4>1. k - 1 \in 1 .. m
        BY <3>2, <1>3
      <4> QED BY <4>1, <1>2, <1>6 DEF Nth
    <3> QED BY <3>1, <3>2
  <2> QED BY <2>1, <2>2, <1>1, <1>22
<1>11. Chain(ts2, priority2, q)
  <2>1. priority2 = Nth(q, 1)
    <3>1. CASE k = 1 /\ 2 <= m
      <4>1. 2 \in 1 .. m /\ 1 \in 1 .. m - 1 /\ pos(1) = 2
        BY <3>1, <1>3
      <4>2. q[1] = p[2]
        BY <4>1, <1>8
      <4> QED BY <3>1, <4>1, <4>2, <1>5, <1>6, <1>21 DEF Nth
    <3>2. CASE k = 1 /\ ~ (2 <= m)
      <4>1. ~ (2 \in 1 .. m) /\ ~ (1 \in 1 .. m - 1)
        BY <3>2, <1>3
      <4> QED BY <3>2, <4>1, <1>5, <1>6, <1>21 DEF Nth
    <3>3. CASE k # 1
      <4>1. 1 \in 1 .. m /\ 1 \in 1 .. m - 1 /\ pos(1) = 1
        BY <3>3, <1>3
      <4>2. q[1] = p[1]
        BY <4>1, <1>8
      <4> QED BY <3>3, <4>1, <4>2, <1>1, <1>5, <1>6, <1>21 DEF Nth
    <3> QED BY <3>1, <3>2, <3>3
  <2>2. ASSUME NEW i \in 1 .. m - 1 PROVE ts2[q[i]].next = Nth(q, i + 1)
    <3>1. CASE i < k - 1
      <4>1. /\ i \in 1 .. m /\ i # k /\ i # k - 1 /\ i + 1 \in 1 .. m /\ i + 1 \in 1 .. m - 1
            /\ pos(i) = i /\ pos(i + 1) = i + 1
        BY <3>1, <1>3
      <4>2. q[i] = p[i] /\ q[i + 1] = p[i + 1]
        BY <4>1, <1>8
      <4> QED BY <4>1, <4>2, <1>5, <1>6, <1>10 DEF Nth
    <3>2. CASE i = k - 1
      <4>1. k - 1 \in 1 .. m /\ k - 1 # k /\ pos(i) = k - 1 /\ i + 1 = k
        BY <3>2, <1>3
      <4>2. q[i] = p[k - 1]
        BY <4>1, <1>8
      <4>3. ts2[q[i]].next = Nth(p, k + 1)
        BY <4>1, <4>2, <1>10
      <4>4. CASE k + 1 <= m
        <5>1. k + 1 \in 1 .. m /\ k \in 1 .. m - 1 /\ pos(k) = k + 1
          BY <4>4, <1>3
        <5>2. q[k] = p[k + 1]
          BY <5>1, <1>8
        <5> QED BY <4>1, <4>3, <5>1, <5>2, <1>5, <1>6 DEF Nth
      <4>5. CASE ~ (k + 1 <= m)
        <5>1. ~ (k + 1 \in 1 .. m) /\ ~ (k \in 1 .. m - 1)
          BY <4>5, <1>3
        <5> QED BY <4>1, <4>3, <5>1, <1>5, <1>6 DEF Nth
      <4> QED BY <4>4, <4>5
    <3>3. CASE i > k - 1
      <4>1. i + 1 \in 1 .. m /\ i + 1 # k /\ i + 1 # k - 1 /\ pos(i) = i + 1 /\ (i + 1) + 1 = i + 2
        BY <3>3, <1>3
      <4>2. q[i] = p[i + 1]
        BY <4>1, <1>8
      <4>3. ts2[q[i]].next = Nth(p, i + 2)
        BY <4>1, <4>2, <1>10
      <4>4. CASE i + 2 <= m
        <5>1. i + 2 \in 1 .. m /\ i + 1 \in 1 .. m - 1 /\ pos(i + 1) = i + 2
          BY <3>3, <4>4, <1>3
        <5>2. q[i + 1] = p[i + 2]
          BY <5>1, <1>8
        <5> QED BY <4>3, <5>1, <5>2, <1>5, <1>6 DEF Nth
      <4>5. CASE ~ (i + 2 <= m)
        <5>1. ~ (i + 2 \in 1 .. m) /\ ~ (i + 1 \in 1 .. m - 1)
          BY <4>5, <1>3
        <5> QED BY <4>3, <5>1, <1>5, <1>6 DEF Nth
      <4> QED BY <4>4, <4>5
    <3> QED BY <3>1, <3>2, <3>3, <1>3
  <2>3. 1 .. Len(ts2) = 1 .. L /\ 1 .. Len(q) = 1 .. m - 1
    BY <1>5, <1>21
  <2> QED BY <2>1, <2>2, <2>3, <1>5 DEF Chain
<1>12. \A i, j \in 1 .. Len(q) : q[i] = q[j] => i = j
  <2> SUFFICES ASSUME NEW i \in 1 .. m - 1, NEW j \in 1 .. m - 1, q[i] = q[j] PROVE i = j
    BY <1>5
  <2>1. pos(i) = pos(j)
    BY <1>2, <1>8
  <2> QED BY <2>1, <1>3
\* The nodes that were in the free list.
<1>13. ASSUME NEW i \in 1 .. l
       PROVE  /\ f[i] # p[k]
              /\ ts2[f[i]].expirationTime = 0 /\ ts2[f[i]].connection = NoConnection
              /\ ts2[f[i]].next = Nth(f, i + 1)
  <2>1. f[i] \in 1 .. L /\ f[i] # p[k] /\ f[i] # null
    BY <1>2, <1>3, <1>4 DEF null
  <2>2. f[i] # Nth(p, k - 1)
    BY <2>1, <1>2, <1>6 DEF Nth
  <2>3. /\ ts2[f[i]].expirationTime = ts[f[i]].expirationTime
        /\ ts2[f[i]].connection = ts[f[i]].connection
        /\ ts2[f[i]].next = ts[f[i]].next
    BY <2>1, <2>2, <1>22
  <2> QED BY <2>1, <2>3, <1>1, <1>2
<1>14. Chain(ts2, free2, g)
  <2>1. free2 = Nth(g, 1)
    <3>1. 1 \in 1 .. l + 1
      BY <1>3
    <3> QED BY <3>1, <1>7, <1>9, <1>21 DEF Nth
  <2>2. ASSUME NEW i \in 1 .. l + 1 PROVE ts2[g[i]].next = Nth(f, i)
    <3>1. CASE i = 1
      BY <3>1, <1>1, <1>9, <1>23
    <3>2. CASE i # 1
      <4>1. i \in 2 .. l + 1 /\ (i - 1) + 1 = i
        BY <3>2, <1>3
      <4>2. i - 1 \in 1 .. l /\ g[i] = f[i - 1]
        BY <4>1, <1>9
      <4> QED BY <4>1, <4>2, <1>13
    <3> QED BY <3>1, <3>2
  <2>3. ASSUME NEW i \in 1 .. l + 1 PROVE Nth(f, i) = Nth(g, i + 1)
    <3>1. CASE i <= l
      <4>1. i \in 1 .. l /\ i + 1 \in 2 .. l + 1 /\ i + 1 \in 1 .. l + 1 /\ (i + 1) - 1 = i
        BY <3>1, <1>3
      <4>2. g[i + 1] = f[i]
        BY <4>1, <1>9
      <4> QED BY <4>1, <4>2, <1>6, <1>7 DEF Nth
    <3>2. CASE ~ (i <= l)
      <4>1. ~ (i \in 1 .. l) /\ ~ (i + 1 \in 1 .. l + 1)
        BY <3>2, <1>3
      <4> QED BY <4>1, <1>6, <1>7 DEF Nth
    <3> QED BY <3>1, <3>2
  <2>4. 1 .. Len(ts2) = 1 .. L /\ 1 .. Len(g) = 1 .. l + 1
    BY <1>7, <1>21
  <2> QED BY <2>1, <2>2, <2>3, <2>4, <1>7 DEF Chain
<1>15. \A i, j \in 1 .. Len(g) : g[i] = g[j] => i = j
  <2> SUFFICES ASSUME NEW i \in 1 .. l + 1, NEW j \in 1 .. l + 1, g[i] = g[j] PROVE i = j
    BY <1>7
  <2>1. CASE i = 1 /\ j # 1
    <3>1. j \in 2 .. l + 1
      BY <2>1, <1>3
    <3> QED BY <2>1, <3>1, <1>9, <1>13
  <2>2. CASE i # 1 /\ j = 1
    <3>1. i \in 2 .. l + 1
      BY <2>2, <1>3
    <3> QED BY <2>2, <3>1, <1>9, <1>13
  <2>3. CASE i # 1 /\ j # 1
    <3>1. i \in 2 .. l + 1 /\ j \in 2 .. l + 1
      BY <2>3, <1>3
    <3>2. i - 1 = j - 1
      BY <3>1, <1>2, <1>9
    <3> QED BY <3>1, <3>2
  <2> QED BY <2>1, <2>2, <2>3
<1>16. \A i \in 1 .. Len(q), j \in 1 .. Len(g) : q[i] # g[j]
  <2> SUFFICES ASSUME NEW i \in 1 .. m - 1, NEW j \in 1 .. l + 1 PROVE q[i] # g[j]
    BY <1>5, <1>7
  <2>1. CASE j = 1
    BY <2>1, <1>8, <1>9, <1>10
  <2>2. CASE j # 1
    <3>1. j \in 2 .. l + 1
      BY <2>2, <1>3
    <3> QED BY <3>1, <1>2, <1>8, <1>9
  <2> QED BY <2>1, <2>2
<1>17. \A i \in 1 .. Len(q) : ts2[q[i]].expirationTime \in Times /\ ts2[q[i]].connection \in Connections
  <2> SUFFICES ASSUME NEW i \in 1 .. m - 1
               PROVE  ts2[q[i]].expirationTime \in Times /\ ts2[q[i]].connection \in Connections
    BY <1>5
  <2> QED BY <1>2, <1>8, <1>10
<1>18. \A i \in 1 .. Len(g) : ts2[g[i]].expirationTime = 0 /\ ts2[g[i]].connection = NoConnection
  <2> SUFFICES ASSUME NEW i \in 1 .. l + 1
               PROVE  ts2[g[i]].expirationTime = 0 /\ ts2[g[i]].connection = NoConnection
    BY <1>7
  <2>1. CASE i = 1
    BY <2>1, <1>9, <1>23
  <2>2. CASE i # 1
    <3>1. i \in 2 .. l + 1
      BY <2>2, <1>3
    <3> QED BY <3>1, <1>9, <1>13
  <2> QED BY <2>1, <2>2
<1>19. Lists(ts2, priority2, free2, q, g)
  <2>1. Len(q) + Len(g) = Len(ts2)
    BY <1>3, <1>5, <1>7, <1>21
  <2> QED BY <2>1, <1>11, <1>12, <1>14, <1>15, <1>16, <1>17, <1>18, <1>21 DEF Lists
<1>20. EntriesIn(ts2, q) = Del(EntriesIn(ts, p), k)
  <2> DEFINE E == EntriesIn(ts, p)
  <2>1. E = [i \in 1 .. m |-> EntryAt(ts, p[i])]
    BY <1>6 DEF EntriesIn
  <2>2. Len(E) = m
    BY <2>1, <1>3, Listed
  <2>3. ASSUME NEW i \in 1 .. m - 1
        PROVE  EntryAt(ts2, q[i]) = IF i < k THEN E[i] ELSE E[i + 1]
    <3>1. /\ pos(i) \in 1 .. m /\ pos(i) # k /\ q[i] = p[pos(i)]
      BY <1>8
    <3>2. EntryAt(ts2, q[i]) = E[pos(i)]
      BY <3>1, <2>1, <1>10 DEF EntryAt
    <3> HIDE DEF E
    <3> QED BY <3>2
  <2>4. EntriesIn(ts2, q) = [i \in 1 .. m - 1 |-> EntryAt(ts2, q[i])]
    BY <1>5 DEF EntriesIn
  <2>5. Del(E, k) = [i \in 1 .. m - 1 |-> IF i < k THEN E[i] ELSE E[i + 1]]
    BY <2>2 DEF Del
  <2> HIDE DEF E
  <2>6. EntriesIn(ts2, q) = Del(E, k)
    BY <2>3, <2>4, <2>5
  <2> QED BY <2>6 DEF E
<1> QED BY <1>6, <1>19, <1>20

-----------------------------------------------------------------------------
(* The operations, on nodes laid out as lists.                             *)

\* Lists that are laid out apart are what the links show.
LEMMA ListsAre ==
    ASSUME NEW ts, NEW priority, NEW free, NEW p, NEW f, Lists(ts, priority, free, p, f)
    PROVE  Links(ts, priority) = p /\ Links(ts, free) = f
<1>1. /\ Chain(ts, priority, p) /\ Chain(ts, free, f)
      /\ ts \in Seq(TaskOf(Len(ts))) /\ Len(p) + Len(f) = Len(ts)
  BY DEF Lists
<1>2. Len(ts) \in Nat /\ Len(p) \in Nat /\ Len(f) \in Nat
  BY <1>1, LenProperties DEF Chain
<1>3. Len(p) <= Len(ts) /\ Len(f) <= Len(ts)
  BY <1>1, <1>2
<1> QED BY <1>1, <1>2, <1>3, LinksOfChain

\* What the lists say of single nodes.
LEMMA ListNodes ==
    ASSUME NEW ts, NEW priority, NEW free, NEW p, NEW f, Lists(ts, priority, free, p, f)
    PROVE  /\ Len(ts) \in Nat /\ Len(p) \in Nat /\ Len(f) \in Nat /\ Len(p) + Len(f) = Len(ts)
           /\ p \in Seq(1 .. Len(ts)) /\ f \in Seq(1 .. Len(ts))
           /\ \A n \in 1 .. Len(ts) : ts[n] \in TaskOf(Len(ts))
           /\ \A i \in 1 .. Len(p) : p[i] \in 1 .. Len(ts) /\ p[i] # null
           /\ \A i \in 1 .. Len(f) : f[i] \in 1 .. Len(ts) /\ f[i] # null
           /\ priority = Nth(p, 1) /\ \A i \in 1 .. Len(p) : ts[p[i]].next = Nth(p, i + 1)
           /\ free = Nth(f, 1) /\ \A i \in 1 .. Len(f) : ts[f[i]].next = Nth(f, i + 1)
           /\ \A i, j \in 1 .. Len(p) : p[i] = p[j] => i = j
           /\ \A i \in 1 .. Len(p), j \in 1 .. Len(f) : p[i] # f[j]
           /\ \A i \in 1 .. Len(p) : /\ ts[p[i]].expirationTime \in Times
                                     /\ ts[p[i]].connection \in Connections
<1>1. ts \in Seq(TaskOf(Len(ts))) /\ p \in Seq(1 .. Len(ts)) /\ f \in Seq(1 .. Len(ts))
  BY DEF Lists, Chain
<1>2. Len(ts) \in Nat /\ Len(p) \in Nat /\ Len(f) \in Nat
  BY <1>1, LenProperties
<1>3. /\ \A n \in 1 .. Len(ts) : ts[n] \in TaskOf(Len(ts))
      /\ \A i \in 1 .. Len(p) : p[i] \in 1 .. Len(ts)
      /\ \A i \in 1 .. Len(f) : f[i] \in 1 .. Len(ts)
  BY <1>1, ElementOfSeq
<1>4. \A n \in 1 .. Len(ts) : n # null
  BY <1>2 DEF null
<1> QED BY <1>1, <1>2, <1>3, <1>4, Zenon DEF Lists, Chain

\* A walk stops before the first of the nodes it looks for, or at the end.
LEMMA WalkStops ==
    ASSUME NEW S, NEW p, p \in Seq(S), NEW stops
    PROVE  \E k \in 0 .. Len(p) :
              /\ \A i \in 1 .. k : p[i] \notin stops
              /\ k < Len(p) => p[k + 1] \in stops
<1> DEFINE m == Len(p)
           Good(k, n) == /\ \A i \in 1 .. k : p[i] \notin stops
                         /\ k < n => p[k + 1] \in stops
           T == {n \in Nat : n <= m => \E k \in 0 .. n : Good(k, n)}
<1>1. m \in Nat /\ m = Len(p)
  BY LenProperties
<1> HIDE DEF m
<1>2. 0 \in T
  OBVIOUS
<1>3. ASSUME NEW n \in T PROVE n + 1 \in T
  <2>1. n \in Nat /\ n + 1 \in Nat
    OBVIOUS
  <2> SUFFICES ASSUME n + 1 <= m PROVE \E k \in 0 .. n + 1 : Good(k, n + 1)
    BY <2>1
  <2>2. n <= m
    BY <2>1, <1>1
  <2>3. PICK k \in 0 .. n : Good(k, n)
    BY <2>2
  <2>4. CASE k < n
    <3>1. k \in 0 .. n + 1
      BY <2>1
    <3> QED BY <2>3, <2>4, <3>1
  <2>5. CASE ~ (k < n) /\ p[n + 1] \in stops
    <3>1. k = n /\ n \in 0 .. n + 1
      BY <2>1, <2>5
    <3> QED BY <2>3, <2>5, <3>1
  <2>6. CASE ~ (k < n) /\ p[n + 1] \notin stops
    <3>1. k = n /\ n + 1 \in 0 .. n + 1 /\ ~ (n + 1 < n + 1)
          /\ \A i \in 1 .. n + 1 : i \in 1 .. n \/ i = n + 1
      BY <2>1, <2>6
    <3>2. Good(n + 1, n + 1)
      BY <2>3, <2>6, <3>1
    <3> QED BY <3>1, <3>2
  <2> QED BY <2>4, <2>5, <2>6
<1>4. T = Nat
  <2>1. T \subseteq Nat
    OBVIOUS
  <2> HIDE DEF T
  <2> QED BY <1>2, <1>3, <2>1, EveryNat
<1>5. m \in T
  <2> HIDE DEF T
  <2> QED BY <1>1, <1>4
<1>6. \E k \in 0 .. m : Good(k, m)
  BY <1>1, <1>5
<1> QED BY <1>1, <1>6

\* The node at which the walk of push and remove stops.
LEMMA LastBeforeIs ==
    ASSUME NEW p, NEW f, Lists(allTasks, priorityTaskList, freeTaskList, p, f), NEW stops
    PROVE  \E k \in 0 .. Len(p) :
              /\ LastBefore(stops) = Nth(p, k)
              /\ After(Nth(p, k)) = Nth(p, k + 1)
              /\ \A i \in 1 .. k : p[i] \notin stops
              /\ k < Len(p) => p[k + 1] \in stops
<1> DEFINE Stop(k) == /\ \A i \in 1 .. k : p[i] \notin stops
                      /\ k < Len(p) => p[k + 1] \in stops
           k == CHOOSE j \in 0 .. Len(p) : Stop(j)
<1>1. PriorityList = p
  BY ListsAre DEF PriorityList
<1>2. \E j \in 0 .. Len(p) : Stop(j)
  BY ListNodes, WalkStops
<1>3. k \in 0 .. Len(p) /\ Stop(k)
  <2> HIDE DEF Stop
  <2> QED BY <1>2
<1>4. LastBefore(stops) = IF k = 0 THEN null ELSE p[k]
  BY <1>1 DEF LastBefore
<1> HIDE DEF k
<1>5. /\ Len(p) \in Nat /\ priorityTaskList = Nth(p, 1)
      /\ \A i \in 1 .. Len(p) : p[i] # null /\ allTasks[p[i]].next = Nth(p, i + 1)
  BY ListNodes
<1>6. CASE k = 0
  <2>1. Nth(p, k) = null
    BY <1>6 DEF Nth
  <2>2. After(Nth(p, k)) = Nth(p, k + 1)
    BY <2>1, <1>5, <1>6 DEF After
  <2> QED BY <1>3, <1>4, <1>6, <2>1, <2>2
<1>7. CASE k # 0
  <2>1. k \in 1 .. Len(p)
    BY <1>3, <1>5, <1>7
  <2>2. Nth(p, k) = p[k]
    BY <2>1 DEF Nth
  <2>3. After(Nth(p, k)) = Nth(p, k + 1)
    BY <2>1, <2>2, <1>5 DEF After
  <2> QED BY <1>3, <1>4, <1>7, <2>2, <2>3
<1> QED BY <1>6, <1>7

\* push links the node of new_task behind the entries that do not expire later.
LEMMA PushJoins ==
    ASSUME NEW p, NEW f, Lists(allTasks, priorityTaskList, freeTaskList, p, f),
           Times \subseteq Nat, NEW t \in Times, NEW c \in Connections, push(t, c)
    PROVE  \E k \in 0 .. Len(p) : \E N, g :
              /\ \A i \in 1 .. k : ~ Later(t, p[i])
              /\ k < Len(p) => Later(t, p[k + 1])
              /\ Joins(N, k, t, c, allTasks, priorityTaskList, p, f,
                       allTasks', priorityTaskList', freeTaskList', g)
<1> DEFINE ts == allTasks
           L == Len(ts)
           stops == {n \in Node : Later(t, n)}
           last == LastBefore(stops)
           N == new_task
           task == [next |-> After(last), expirationTime |-> t, connection |-> c]
           grown == IF freeTaskList = null THEN Append(ts, task) ELSE [ts EXCEPT ![N] = task]
           g == IF f = <<>> THEN <<>> ELSE Tail(f)
<1>1. PICK k \in 0 .. Len(p) :
          /\ last = Nth(p, k) /\ After(Nth(p, k)) = Nth(p, k + 1)
          /\ \A i \in 1 .. k : p[i] \notin stops
          /\ k < Len(p) => p[k + 1] \in stops
  BY LastBeforeIs
<1>2. /\ L \in Nat /\ Len(p) \in Nat /\ Len(f) \in Nat /\ Len(p) + Len(f) = L
      /\ p \in Seq(1 .. L) /\ f \in Seq(1 .. L)
      /\ \A n \in 1 .. L : ts[n] \in TaskOf(L)
      /\ \A i \in 1 .. Len(p) : p[i] \in 1 .. L /\ p[i] # null
      /\ \A i \in 1 .. Len(f) : f[i] \in 1 .. L /\ f[i] # null
      /\ freeTaskList = Nth(f, 1) /\ \A i \in 1 .. Len(f) : ts[f[i]].next = Nth(f, i + 1)
      /\ \A i, j \in 1 .. Len(p) : p[i] = p[j] => i = j
      /\ \A i \in 1 .. Len(p), j \in 1 .. Len(f) : p[i] # f[j]
  <2>1. L \in Nat /\ Len(p) \in Nat /\ Len(f) \in Nat /\ Len(p) + Len(f) = L
    BY ListNodes
  <2>2. p \in Seq(1 .. L) /\ f \in Seq(1 .. L)
    BY ListNodes
  <2>3. \A n \in 1 .. L : ts[n] \in TaskOf(L)
    BY ListNodes
  <2>4. \A i \in 1 .. Len(p) : p[i] \in 1 .. L /\ p[i] # null
    BY ListNodes
  <2>5. \A i \in 1 .. Len(f) : f[i] \in 1 .. L /\ f[i] # null
    BY ListNodes
  <2>6. freeTaskList = Nth(f, 1) /\ \A i \in 1 .. Len(f) : ts[f[i]].next = Nth(f, i + 1)
    BY ListNodes
  <2>7. \A i, j \in 1 .. Len(p) : p[i] = p[j] => i = j
    BY ListNodes
  <2>8. \A i \in 1 .. Len(p), j \in 1 .. Len(f) : p[i] # f[j]
    BY ListNodes
  <2> QED BY <2>1, <2>2, <2>3, <2>4, <2>5, <2>6, <2>7, <2>8
<1>3. ts \in Seq(TaskOf(L))
  BY DEF Lists
<1>4. /\ \A i \in 1 .. k : ~ Later(t, p[i])
      /\ k < Len(p) => Later(t, p[k + 1])
  <2>1. \A i \in 1 .. k : i \in 1 .. Len(p)
    BY <1>2
  <2> QED BY <2>1, <1>1, <1>2 DEF Node
<1>5. /\ freeTaskList' = IF freeTaskList = null THEN null ELSE ts[freeTaskList].next
      /\ IF last = null THEN priorityTaskList' = N /\ allTasks' = grown
         ELSE allTasks' = [grown EXCEPT ![last].next = N] /\ priorityTaskList' = priorityTaskList
  BY DEF push
<1>6. N = IF freeTaskList = null THEN L + 1 ELSE freeTaskList
  BY DEF new_task
<1>7. task = [next |-> Nth(p, k + 1), expirationTime |-> t, connection |-> c]
  BY <1>1
<1>8. last = Nth(p, k)
  BY <1>1
<1>9. (k = 0 => last = null) /\ (k # 0 => k \in 1 .. Len(p) /\ last = p[k] /\ last \in 1 .. L /\ last # null)
  BY <1>2, <1>8 DEF Nth
<1>10. Nth(p, k + 1) \in 0 .. L
  BY <1>2 DEF Nth, null
<1>11. grown = IF freeTaskList = null THEN Append(ts, task) ELSE [ts EXCEPT ![N] = task]
  OBVIOUS
<1>12. g = IF f = <<>> THEN <<>> ELSE Tail(f)
  OBVIOUS
<1> HIDE DEF stops, last, N, task, grown, g, L
\* The node is the first free one, or is new.
<1>13. /\ N \in Nat /\ N # null
       /\ f = <<>> => freeTaskList = null /\ N = L + 1 /\ g = <<>> /\ Len(g) = 0 /\ Len(f) = 0
       /\ f # <<>> => /\ freeTaskList # null /\ N = f[1] /\ N \in 1 .. L /\ 1 \in 1 .. Len(f)
                      /\ g = Tail(f) /\ Len(g) = Len(f) - 1
                      /\ \A i \in 1 .. Len(g) : i + 1 \in 1 .. Len(f) /\ g[i] = f[i + 1]
  <2>1. CASE f = <<>>
    <3>1. Len(f) = 0 /\ ~ (1 \in 1 .. Len(f))
      BY <2>1
    <3>2. freeTaskList = null
      BY <3>1, <1>2 DEF Nth
    <3> QED BY <2>1, <3>1, <3>2, <1>2, <1>6, <1>12 DEF null
  <2>2. CASE f # <<>>
    <3>1. Len(f) # 0
      BY <2>2, <1>2, EmptySeq
    <3>2. 1 \in 1 .. Len(f)
      BY <3>1, <1>2
    <3>3. freeTaskList = f[1] /\ freeTaskList # null
      BY <3>2, <1>2 DEF Nth
    <3>4. g = Tail(f) /\ N = f[1]
      BY <2>2, <3>3, <1>6, <1>12
    <3>5. Len(g) = Len(f) - 1 /\ \A i \in 1 .. Len(g) : g[i] = f[i + 1]
      BY <2>2, <3>4, <1>2, HeadTailProperties
    <3>6. \A i \in 1 .. Len(g) : i + 1 \in 1 .. Len(f)
      BY <3>5, <1>2
    <3>7. N \in 1 .. L /\ N # null /\ N \in Nat
      BY <3>2, <3>4, <1>2
    <3> QED BY <2>2, <3>2, <3>3, <3>4, <3>5, <3>6, <3>7
  <2> QED BY <2>1, <2>2
<1>14. /\ g \in Seq(1 .. L) /\ freeTaskList' = Nth(g, 1)
  <2>1. CASE f = <<>>
    <3>1. ~ (1 \in 1 .. Len(g))
      BY <2>1, <1>13
    <3> QED BY <2>1, <3>1, <1>5, <1>13 DEF Nth
  <2>2. CASE f # <<>>
    <3>1. g \in Seq(1 .. L)
      <4> DEFINE S == 1 .. L
      <4>1. f \in Seq(S)
        BY <1>2
      <4> HIDE DEF S
      <4>2. Tail(f) \in Seq(S)
        BY <2>2, <4>1, HeadTailProperties
      <4> QED BY <2>2, <4>2, <1>13 DEF S
    <3>2. freeTaskList' = Nth(f, 2)
      <4>1. ts[f[1]].next = Nth(f, 1 + 1)
        BY <2>2, <1>2, <1>13
      <4> QED BY <2>2, <4>1, <1>5, <1>6, <1>13
    <3>3. Nth(f, 2) = Nth(g, 1)
      <4>1. CASE 2 <= Len(f)
        <5>1. 2 \in 1 .. Len(f) /\ 1 \in 1 .. Len(g) /\ 1 + 1 = 2
          BY <2>2, <4>1, <1>2, <1>13
        <5>2. g[1] = f[2]
          BY <2>2, <5>1, <1>13
        <5> QED BY <5>1, <5>2 DEF Nth
      <4>2. CASE ~ (2 <= Len(f))
        <5>1. ~ (2 \in 1 .. Len(f)) /\ ~ (1 \in 1 .. Len(g))
          BY <2>2, <4>2, <1>2, <1>13
        <5> QED BY <5>1 DEF Nth
      <4> QED BY <4>1, <4>2
    <3> QED BY <3>1, <3>2, <3>3
  <2> QED BY <2>1, <2>2
<1>15. /\ \A i \in 1 .. Len(p) : p[i] # N
       /\ last # N
  <2>1. \A i \in 1 .. Len(p) : p[i] # N
    <3> SUFFICES ASSUME NEW i \in 1 .. Len(p) PROVE p[i] # N
      OBVIOUS
    <3>1. CASE f = <<>>
      BY <3>1, <1>2, <1>13
    <3>2. CASE f # <<>>
      BY <3>2, <1>2, <1>13
    <3> QED BY <3>1, <3>2
  <2> QED BY <2>1, <1>9, <1>13
\* The deque with the node, before it is linked.
<1>16. /\ Len(grown) \in Nat /\ L <= Len(grown) /\ N \in 1 .. Len(grown)
       /\ Len(p) + 1 + Len(g) = Len(grown)
       /\ grown \in Seq(TaskOf(Len(grown)))
       /\ grown[N] = task
       /\ \A n \in 1 .. L : n # N => grown[n] = ts[n]
  <2>1. CASE f = <<>>
    <3>1. grown = Append(ts, task) /\ N = L + 1
      BY <2>1, <1>11, <1>13
    <3>2. task \in TaskOf(L + 1)
      BY <1>2, <1>7, <1>10 DEF TaskOf, null
    <3>3. ts \in Seq(TaskOf(L + 1))
      <4>1. TaskOf(L) \subseteq TaskOf(L + 1)
        BY <1>2 DEF TaskOf, null
      <4> QED BY <4>1, <1>3, SeqMonotonic
    <3> HIDE DEF ts
    <3>4. L = Len(ts)
      BY DEF L
    <3>5. /\ grown \in Seq(TaskOf(L + 1)) /\ Len(grown) = L + 1 /\ grown[L + 1] = task
          /\ \A n \in 1 .. L : grown[n] = ts[n]
      <4> DEFINE S == TaskOf(L + 1)
      <4>1. ts \in Seq(S) /\ task \in S
        BY <3>2, <3>3
      <4> HIDE DEF S
      <4>2. Append(ts, task) \in Seq(S) /\ Len(Append(ts, task)) = L + 1
        BY <4>1, <3>4, <1>2
      <4>3. Append(ts, task)[L + 1] = task
        BY <4>1, <3>4, <1>2
      <4>4. \A n \in 1 .. L : Append(ts, task)[n] = ts[n]
        BY <4>1, <3>4, <1>2
      <4> QED BY <4>2, <4>3, <4>4, <3>1 DEF S
    <3> QED BY <2>1, <3>1, <3>5, <1>2, <1>13
  <2>2. CASE f # <<>>
    <3>1. grown = [ts EXCEPT ![N] = task] /\ N \in 1 .. L
      BY <2>2, <1>11, <1>13
    <3>2. task \in TaskOf(L)
      BY <1>2, <1>7, <1>10 DEF TaskOf, null
    <3> HIDE DEF ts
    <3>3. L = Len(ts)
      BY DEF L
    <3>4. /\ grown \in Seq(TaskOf(L)) /\ Len(grown) = L
          /\ \A n \in 1 .. L : grown[n] = IF n = N THEN task ELSE ts[n]
      BY <3>1, <3>2, <3>3, <1>3, ExceptSeq
    <3>5. Len(grown) \in Nat /\ L <= Len(grown) /\ N \in 1 .. Len(grown)
          /\ Len(p) + 1 + Len(g) = Len(grown)
      <4>1. Len(g) = Len(f) - 1 /\ Len(p) + Len(f) = L /\ L \in Nat /\ Len(p) \in Nat /\ Len(f) \in Nat
        BY <2>2, <1>2, <1>13
      <4> QED BY <3>1, <3>4, <4>1
    <3>6. grown[N] = task /\ \A n \in 1 .. L : n # N => grown[n] = ts[n]
      BY <3>1, <3>4
    <3> QED BY <3>4, <3>5, <3>6
  <2> QED BY <2>1, <2>2
\* And linked.
<1>17. /\ allTasks' \in Seq(TaskOf(Len(allTasks'))) /\ Len(allTasks') = Len(grown)
       /\ allTasks'[N] = task
       /\ \A n \in 1 .. L : n # N =>
             /\ allTasks'[n].expirationTime = ts[n].expirationTime
             /\ allTasks'[n].connection = ts[n].connection
             /\ allTasks'[n].next = IF n = last THEN N ELSE ts[n].next
  <2>1. CASE k = 0
    <3>1. allTasks' = grown /\ \A n \in 1 .. L : n # last
      BY <2>1, <1>5, <1>9 DEF null
    <3> QED BY <3>1, <1>16
  <2>2. CASE k # 0
    <3>1. last \in 1 .. L /\ last # N /\ last \in 1 .. Len(grown)
      BY <2>2, <1>2, <1>9, <1>15, <1>16
    <3>2. allTasks' = [grown EXCEPT ![last].next = N]
      BY <2>2, <1>5, <1>9
    <3> DEFINE x == [grown[last] EXCEPT !.next = N]
    <3>3. allTasks' = [grown EXCEPT ![last] = x]
      BY <3>2
    <3>4. grown[last] = ts[last] /\ ts[last] \in TaskOf(L)
      BY <3>1, <1>2, <1>16
    <3>5. /\ x.expirationTime = ts[last].expirationTime /\ x.connection = ts[last].connection
          /\ x.next = N /\ x \in TaskOf(Len(grown))
      <4>1. ts[last] \in TaskOf(Len(grown))
        BY <3>1, <1>16, ElementOfSeq, <3>4
      <4>2. N \in null .. Len(grown)
        BY <1>16 DEF null
      <4> QED BY <3>4, <4>1, <4>2 DEF TaskOf
    <3> HIDE DEF x
    <3>6. /\ allTasks' \in Seq(TaskOf(Len(grown))) /\ Len(allTasks') = Len(grown)
          /\ \A n \in 1 .. Len(grown) : allTasks'[n] = IF n = last THEN x ELSE grown[n]
      BY <3>1, <3>3, <3>5, <1>16, ExceptSeq
    <3>7. \A n \in 1 .. L : n \in 1 .. Len(grown)
      BY <1>2, <1>16
    <3> QED BY <3>1, <3>5, <3>6, <3>7, <1>16
  <2> QED BY <2>1, <2>2
<1>18. priorityTaskList' = IF k = 0 THEN N ELSE priorityTaskList
  BY <1>5, <1>9
<1>19. allTasks'[N].next = Nth(p, k + 1) /\ allTasks'[N].expirationTime = t /\ allTasks'[N].connection = c
  BY <1>7, <1>17
<1>20. Joins(N, k, t, c, allTasks, priorityTaskList, p, f, allTasks', priorityTaskList', freeTaskList', g)
  <2>1. L = Len(allTasks) /\ ts = allTasks
    BY DEF L
  <2>2. /\ \A i \in 1 .. Len(g) : i + 1 \in 1 .. Len(f) /\ g[i] = f[i + 1]
        /\ Len(g) # 0 => Len(g) = Len(f) - 1 /\ N = f[1]
    BY <1>13
  <2>3. Len(p) + 1 + Len(g) = Len(allTasks') /\ L <= Len(allTasks') /\ N \in 1 .. Len(allTasks')
    BY <1>16, <1>17
  <2> HIDE DEF ts
  <2> QED BY <2>1, <2>2, <2>3, <1>8, <1>14, <1>15, <1>17, <1>18, <1>19, Zenon DEF Joins
<1> QED BY <1>4, <1>20

\* Unlink takes a node out of the priority list, given the one before it.
LEMMA UnlinkParts ==
    ASSUME NEW p, NEW f, Lists(allTasks, priorityTaskList, freeTaskList, p, f),
           NEW k \in 1 .. Len(p), Unlink(Nth(p, k - 1), p[k])
    PROVE  Parts(k, allTasks, priorityTaskList, freeTaskList, p,
                 allTasks', priorityTaskList', freeTaskList')
<1> DEFINE ts == allTasks
           L == Len(ts)
           n == p[k]
           last == Nth(p, k - 1)
           clear == [NoTask EXCEPT !.next = freeTaskList]
           freed == [ts EXCEPT ![n] = clear]
<1>1. L \in Nat /\ Len(p) \in Nat /\ Len(f) \in Nat /\ k \in 1 .. Len(p)
  BY ListNodes
<1>2. ts \in Seq(TaskOf(L)) /\ L = Len(ts)
  BY DEF Lists
<1>3. \A i \in 1 .. Len(p) : p[i] \in 1 .. L /\ p[i] # null
  BY ListNodes
<1>4. \A i, j \in 1 .. Len(p) : p[i] = p[j] => i = j
  BY ListNodes
<1>5. \A i \in 1 .. Len(p) : ts[p[i]].next = Nth(p, i + 1)
  BY ListNodes
<1>6. freeTaskList \in 0 .. L
  <2>1. freeTaskList = Nth(f, 1)
    BY ListNodes
  <2>2. \A i \in 1 .. Len(f) : f[i] \in 1 .. L
    BY ListNodes
  <2> QED BY <2>1, <2>2, <1>1 DEF Nth, null
<1>7. \A i \in 1 .. L : ts[i] \in TaskOf(L)
  BY ListNodes
<1>8. n \in 1 .. L /\ n # null
  BY <1>1, <1>3
<1>9. After(n) = Nth(p, k + 1)
  BY <1>1, <1>5, <1>8 DEF After
<1>10. /\ freeTaskList' = n
       /\ IF last = null THEN priorityTaskList' = Nth(p, k + 1) /\ allTasks' = freed
          ELSE /\ allTasks' = [freed EXCEPT ![last].next = Nth(p, k + 1)]
               /\ priorityTaskList' = priorityTaskList
  BY <1>9 DEF Unlink, Freed
<1>11. /\ k = 1 => last = null
       /\ k # 1 => k - 1 \in 1 .. Len(p) /\ last = p[k - 1] /\ last \in 1 .. L /\ last # null /\ last # n
  <2>1. CASE k = 1
    <3>1. ~ (k - 1 \in 1 .. Len(p))
      BY <2>1
    <3> QED BY <2>1, <3>1 DEF Nth
  <2>2. CASE k # 1
    <3>1. k - 1 \in 1 .. Len(p) /\ k - 1 # k
      BY <2>2, <1>1
    <3> QED BY <2>2, <3>1, <1>1, <1>3, <1>4 DEF Nth
  <2> QED BY <2>1, <2>2
<1>12. /\ clear.next = freeTaskList /\ clear.expirationTime = 0 /\ clear.connection = NoConnection
       /\ clear \in TaskOf(L)
  BY <1>1, <1>6 DEF NoTask, TaskOf, null
<1>13. freed = [ts EXCEPT ![n] = clear]
  OBVIOUS
<1>14. Nth(p, k + 1) \in 0 .. L
  BY <1>1, <1>3 DEF Nth, null
<1>20. n = p[k] /\ last = Nth(p, k - 1)
  OBVIOUS
<1> HIDE DEF ts, L, n, last, clear, freed
<1>15. /\ freed \in Seq(TaskOf(L)) /\ Len(freed) = L
       /\ \A i \in 1 .. L : freed[i] = IF i = n THEN clear ELSE ts[i]
  BY <1>2, <1>8, <1>12, <1>13, ExceptSeq
<1>16. /\ allTasks' \in Seq(TaskOf(L)) /\ Len(allTasks') = L
       /\ allTasks'[n] = clear
       /\ \A i \in 1 .. L : i # n =>
             /\ allTasks'[i].expirationTime = ts[i].expirationTime
             /\ allTasks'[i].connection = ts[i].connection
             /\ allTasks'[i].next = IF i = last THEN Nth(p, k + 1) ELSE ts[i].next
  <2>1. CASE k = 1
    <3>1. allTasks' = freed /\ \A i \in 1 .. L : i # last
      BY <2>1, <1>10, <1>11 DEF null
    <3> QED BY <3>1, <1>8, <1>15
  <2>2. CASE k # 1
    <3>1. last \in 1 .. L /\ last # n
      BY <2>2, <1>11
    <3>2. allTasks' = [freed EXCEPT ![last].next = Nth(p, k + 1)]
      BY <2>2, <1>10, <1>11
    <3> DEFINE x == [freed[last] EXCEPT !.next = Nth(p, k + 1)]
    <3>3. allTasks' = [freed EXCEPT ![last] = x]
      BY <3>2
    <3>4. freed[last] = ts[last] /\ ts[last] \in TaskOf(L)
      BY <3>1, <1>7, <1>15
    <3>5. /\ x.expirationTime = ts[last].expirationTime /\ x.connection = ts[last].connection
          /\ x.next = Nth(p, k + 1) /\ x \in TaskOf(L)
      BY <3>4, <1>14 DEF TaskOf, null
    <3> HIDE DEF x
    <3>6. /\ allTasks' \in Seq(TaskOf(L)) /\ Len(allTasks') = L
          /\ \A i \in 1 .. L : allTasks'[i] = IF i = last THEN x ELSE freed[i]
      BY <3>1, <3>3, <3>5, <1>15, ExceptSeq
    <3> QED BY <3>1, <3>5, <3>6, <1>8, <1>15
  <2> QED BY <2>1, <2>2
<1>17. priorityTaskList' = IF k = 1 THEN Nth(p, 2) ELSE priorityTaskList
  <2>1. k = 1 => k + 1 = 2
    OBVIOUS
  <2> QED BY <2>1, <1>10, <1>11
<1>18. L = Len(allTasks) /\ ts = allTasks
  BY DEF L, ts
<1>19. allTasks'[n].next = freeTaskList /\ allTasks'[n].expirationTime = 0 /\ allTasks'[n].connection = NoConnection
  BY <1>12, <1>16
<1> QED BY <1>1, <1>10, <1>16, <1>17, <1>18, <1>19, <1>20, Zenon DEF Parts

\* The nodes are laid out as lists.
ListInv == \E p, f : Lists(allTasks, priorityTaskList, freeTaskList, p, f)

\* What the links show is these lists.
LEMMA ListsShown ==
    ASSUME ListInv
    PROVE  /\ Lists(allTasks, priorityTaskList, freeTaskList, PriorityList, FreeList)
           /\ QueueEntries = EntriesIn(allTasks, PriorityList)
           /\ Len(QueueEntries) = Len(PriorityList)
           /\ QueueEntries \in Seq([expirationTime : Times, connection : Connections])
<1>1. PICK p, f : Lists(allTasks, priorityTaskList, freeTaskList, p, f)
  BY DEF ListInv
<1>2. PriorityList = p /\ FreeList = f
  BY <1>1, ListsAre DEF PriorityList, FreeList
<1>3. QueueEntries = EntriesIn(allTasks, p)
  BY <1>2 DEF QueueEntries, EntriesIn, EntryAt
<1>4. Len(p) \in Nat
  BY <1>1, ListNodes
<1>5. \A i \in 1 .. Len(p) : EntryAt(allTasks, p[i]) \in [expirationTime : Times, connection : Connections]
  BY <1>1 DEF Lists, EntryAt
<1>6. /\ EntriesIn(allTasks, p) \in Seq([expirationTime : Times, connection : Connections])
      /\ Len(EntriesIn(allTasks, p)) = Len(p)
  <2> DEFINE S == [expirationTime : Times, connection : Connections]
  <2>1. EntriesIn(allTasks, p) \in [1 .. Len(p) -> S]
    BY <1>5 DEF EntriesIn
  <2> HIDE DEF S
  <2>2. EntriesIn(allTasks, p) \in Seq(S) /\ Len(EntriesIn(allTasks, p)) = Len(p)
    BY <2>1, <1>4, Listed
  <2> QED BY <2>2 DEF S
<1> QED BY <1>1, <1>2, <1>3, <1>6

\* The same of the next state.
LEMMA NextShown ==
    ASSUME NEW p, NEW f, Lists(allTasks', priorityTaskList', freeTaskList', p, f)
    PROVE  ListInv' /\ QueueEntries' = EntriesIn(allTasks', p)
<1>1. PriorityList' = p
  BY ListsAre DEF PriorityList
<1>2. QueueEntries' = EntriesIn(allTasks', p)
  BY <1>1 DEF QueueEntries, EntriesIn, EntryAt
<1> QED BY <1>2 DEF ListInv

\* What the entries say of the nodes.
LEMMA EntriesShow ==
    ASSUME NEW ts, NEW p, Len(p) \in Nat
    PROVE  /\ Len(EntriesIn(ts, p)) = Len(p)
           /\ \A i \in 1 .. Len(p) :
                 /\ EntriesIn(ts, p)[i].expirationTime = ts[p[i]].expirationTime
                 /\ EntriesIn(ts, p)[i].connection = ts[p[i]].connection
<1>1. EntriesIn(ts, p) = [i \in 1 .. Len(p) |-> EntryAt(ts, p[i])]
  BY DEF EntriesIn
<1>2. Len(EntriesIn(ts, p)) = Len(p)
  <2> DEFINE S == {EntryAt(ts, p[i]) : i \in 1 .. Len(p)}
  <2>1. EntriesIn(ts, p) \in [1 .. Len(p) -> S]
    BY <1>1
  <2> HIDE DEF S
  <2> QED BY <2>1, Listed
<1> QED BY <1>1, <1>2 DEF EntryAt

Entry(t, c) == [expirationTime |-> t, connection |-> c]

\* push keeps the lists and puts the entry before the first that expires later.
LEMMA PushQueue ==
    ASSUME ListInv, Times \subseteq Nat, NEW t \in Times, NEW c \in Connections, push(t, c)
    PROVE  /\ ListInv'
           /\ \E k \in 0 .. Len(QueueEntries) :
                 /\ QueueEntries' = Ins(QueueEntries, k, Entry(t, c))
                 /\ \A i \in 1 .. k : QueueEntries[i].expirationTime <= t
                 /\ k < Len(QueueEntries) => t < QueueEntries[k + 1].expirationTime
<1> DEFINE p == PriorityList
           f == FreeList
           Q == QueueEntries
<1>1. /\ Lists(allTasks, priorityTaskList, freeTaskList, p, f)
      /\ Q = EntriesIn(allTasks, p)
  BY ListsShown
<1> HIDE DEF p, f, Q
<1>0. PICK k \in 0 .. Len(p) : \E N, g :
              /\ \A i \in 1 .. k : ~ Later(t, p[i])
              /\ k < Len(p) => Later(t, p[k + 1])
              /\ Joins(N, k, t, c, allTasks, priorityTaskList, p, f,
                       allTasks', priorityTaskList', freeTaskList', g)
  BY <1>1, PushJoins
<1>2. PICK N, g :
              /\ \A i \in 1 .. k : ~ Later(t, p[i])
              /\ k < Len(p) => Later(t, p[k + 1])
              /\ Joins(N, k, t, c, allTasks, priorityTaskList, p, f,
                       allTasks', priorityTaskList', freeTaskList', g)
  BY <1>0
<1>3. /\ Lists(allTasks', priorityTaskList', freeTaskList', Ins(p, k, N), g)
      /\ EntriesIn(allTasks', Ins(p, k, N)) = Ins(Q, k, Entry(t, c))
  BY <1>1, <1>2, ListInsert DEF Entry
<1>4. ListInv' /\ QueueEntries' = Ins(Q, k, Entry(t, c))
  BY <1>3, NextShown
<1>5. /\ Len(p) \in Nat
      /\ \A i \in 1 .. Len(p) : allTasks[p[i]].expirationTime \in Times
  BY <1>1, ListNodes
<1>6. /\ Len(Q) = Len(p)
      /\ \A i \in 1 .. Len(p) : Q[i].expirationTime = allTasks[p[i]].expirationTime
  BY <1>1, <1>5, EntriesShow
<1>7. \A i \in 1 .. k : Q[i].expirationTime <= t
  <2> SUFFICES ASSUME NEW i \in 1 .. k PROVE Q[i].expirationTime <= t
    OBVIOUS
  <2>1. i \in 1 .. Len(p)
    BY <1>5
  <2>2. Q[i].expirationTime \in Nat /\ t \in Nat /\ ~ (t < Q[i].expirationTime)
    BY <2>1, <1>2, <1>5, <1>6 DEF Later
  <2> QED BY <2>2
<1>8. k < Len(Q) => t < Q[k + 1].expirationTime
  <2> SUFFICES ASSUME k < Len(p) PROVE t < Q[k + 1].expirationTime
    BY <1>6
  <2>1. k + 1 \in 1 .. Len(p)
    BY <1>5
  <2> QED BY <2>1, <1>2, <1>6 DEF Later
<1>9. k \in 0 .. Len(Q)
  BY <1>6
<1> QED BY <1>4, <1>7, <1>8, <1>9 DEF Q

\* pop takes out the first entry.
LEMMA PopQueue ==
    ASSUME ListInv, pop
    PROVE  /\ ListInv'
           /\ Len(QueueEntries) \in Nat /\ Len(QueueEntries) # 0
           /\ QueueEntries' = Del(QueueEntries, 1)
           /\ QueueEntries[1].expirationTime <= now
           /\ QueueEntries[1].connection = allTasks[priorityTaskList].connection
<1> DEFINE p == PriorityList
           f == FreeList
           Q == QueueEntries
<1>1. /\ Lists(allTasks, priorityTaskList, freeTaskList, p, f)
      /\ Q = EntriesIn(allTasks, p)
  BY ListsShown
<1> HIDE DEF p, f, Q
<1>2. Len(p) \in Nat /\ priorityTaskList = Nth(p, 1)
  BY <1>1, ListNodes
<1>3. 1 \in 1 .. Len(p) /\ priorityTaskList = p[1]
  BY <1>2 DEF pop, Due, Nth
<1>4. Nth(p, 1 - 1) = null
  BY DEF Nth
<1>5. Unlink(Nth(p, 1 - 1), p[1])
  BY <1>3, <1>4 DEF pop
<1>6. Parts(1, allTasks, priorityTaskList, freeTaskList, p, allTasks', priorityTaskList', freeTaskList')
  BY <1>1, <1>3, <1>5, UnlinkParts
<1>7. /\ Lists(allTasks', priorityTaskList', freeTaskList', Del(p, 1), Ins(f, 0, p[1]))
      /\ EntriesIn(allTasks', Del(p, 1)) = Del(Q, 1)
  BY <1>1, <1>6, ListDelete
<1>8. ListInv' /\ QueueEntries' = Del(Q, 1)
  BY <1>7, NextShown
<1>9. Len(Q) = Len(p) /\ Q[1].expirationTime = allTasks[p[1]].expirationTime
      /\ Q[1].connection = allTasks[p[1]].connection
  BY <1>1, <1>2, <1>3, EntriesShow
<1>10. allTasks[p[1]].expirationTime <= now
  BY <1>3 DEF pop, Due
<1> QED BY <1>2, <1>3, <1>8, <1>9, <1>10 DEF Q

\* remove takes out the first entry of the connection, if it has one.
LEMMA RemoveQueue ==
    ASSUME ListInv, NEW c \in Connections, remove(c)
    PROVE  \/ /\ UNCHANGED listVars
              /\ \A i \in 1 .. Len(QueueEntries) : QueueEntries[i].connection # c
           \/ /\ ListInv'
              /\ \E k \in 1 .. Len(QueueEntries) :
                    /\ QueueEntries[k].connection = c
                    /\ \A i \in 1 .. k - 1 : QueueEntries[i].connection # c
                    /\ QueueEntries' = Del(QueueEntries, k)
<1> DEFINE p == PriorityList
           f == FreeList
           Q == QueueEntries
           stops == {n \in Node : allTasks[n].connection = c}
<1>1. /\ Lists(allTasks, priorityTaskList, freeTaskList, p, f)
      /\ Q = EntriesIn(allTasks, p)
  BY ListsShown
<1> HIDE DEF p, f, Q
<1>2. PICK k \in 0 .. Len(p) :
              /\ LastBefore(stops) = Nth(p, k)
              /\ After(Nth(p, k)) = Nth(p, k + 1)
              /\ \A i \in 1 .. k : p[i] \notin stops
              /\ k < Len(p) => p[k + 1] \in stops
  BY <1>1, LastBeforeIs
<1>3. IF After(Nth(p, k)) = null THEN UNCHANGED listVars ELSE Unlink(Nth(p, k), After(Nth(p, k)))
  <2>1. LastBefore({n \in Node : allTasks[n].connection = c}) = Nth(p, k)
    BY <1>2
  <2> QED BY <2>1 DEF remove
<1>4. Len(p) \in Nat /\ \A i \in 1 .. Len(p) : p[i] \in 1 .. Len(allTasks) /\ p[i] # null
  BY <1>1, ListNodes
<1>5. /\ Len(Q) = Len(p)
      /\ \A i \in 1 .. Len(p) : Q[i].connection = allTasks[p[i]].connection
  BY <1>1, <1>4, EntriesShow
<1>6. \A i \in 1 .. Len(p) : p[i] \in stops <=> Q[i].connection = c
  BY <1>4, <1>5 DEF Node
<1> HIDE DEF stops
<1>7. CASE k = Len(p)
  <2>1. ~ (k + 1 \in 1 .. Len(p))
    BY <1>4, <1>7
  <2>2. UNCHANGED listVars
    BY <2>1, <1>2, <1>3 DEF Nth
  <2>3. \A i \in 1 .. Len(Q) : Q[i].connection # c
    BY <1>2, <1>5, <1>6, <1>7
  <2> QED BY <2>2, <2>3 DEF Q
<1>8. CASE k # Len(p)
  <2> DEFINE h == k + 1
  <2>1. h \in 1 .. Len(p) /\ h - 1 = k /\ k < Len(p)
    BY <1>4, <1>8
  <2>2. After(Nth(p, k)) = p[h] /\ p[h] # null
    BY <2>1, <1>2, <1>4 DEF Nth
  <2>3. Unlink(Nth(p, h - 1), p[h])
    BY <2>1, <2>2, <1>3
  <2>4. p[h] \in stops /\ \A i \in 1 .. h - 1 : p[i] \notin stops
    BY <2>1, <1>2
  <2> HIDE DEF h
  <2>5. Parts(h, allTasks, priorityTaskList, freeTaskList, p, allTasks', priorityTaskList', freeTaskList')
    BY <2>1, <2>3, <1>1, UnlinkParts
  <2>6. /\ Lists(allTasks', priorityTaskList', freeTaskList', Del(p, h), Ins(f, 0, p[h]))
        /\ EntriesIn(allTasks', Del(p, h)) = Del(Q, h)
    BY <2>5, <1>1, ListDelete
  <2>7. ListInv' /\ QueueEntries' = Del(Q, h)
    BY <2>6, NextShown
  <2>8. Q[h].connection = c /\ \A i \in 1 .. h - 1 : Q[i].connection # c
    <3>1. \A i \in 1 .. h - 1 : i \in 1 .. Len(p)
      BY <2>1, <1>4
    <3> QED BY <2>1, <2>4, <3>1, <1>6
  <2> QED BY <2>1, <2>7, <2>8, <1>5 DEF Q
<1> QED BY <1>7, <1>8

-----------------------------------------------------------------------------
(* Sessions and their entries.                                             *)

Has(Q, c) == \E i \in 1 .. Len(Q) : Q[i].connection = c
HasOne(Q, c) == \A i, j \in 1 .. Len(Q) : Q[i].connection = c /\ Q[j].connection = c => i = j

\* A new entry for c is one more of c, and of no other connection.
LEMMA InsHas ==
    ASSUME NEW Q, Len(Q) \in Nat, NEW k \in 0 .. Len(Q), NEW t, NEW c,
           NEW R, R = Ins(Q, k, Entry(t, c))
    PROVE  /\ Len(R) = Len(Q) + 1
           /\ \A d : Has(R, d) <=> d = c \/ Has(Q, d)
           /\ \A d : HasOne(Q, d) /\ (d = c => ~ Has(Q, d)) => HasOne(R, d)
           /\ \A i \in 1 .. Len(R) : R[i] = Entry(t, c) \/ \E j \in 1 .. Len(Q) : R[i] = Q[j]
<1> DEFINE m == Len(Q)
           x == Entry(t, c)
           pos(i) == IF i <= k THEN i ELSE i - 1
           at(i) == IF i <= k THEN i ELSE i + 1
<1>1. R = [i \in 1 .. m + 1 |-> IF i <= k THEN Q[i] ELSE IF i = k + 1 THEN x ELSE Q[i - 1]]
  BY DEF Ins
<1>2. m \in Nat /\ k \in 0 .. m /\ m = Len(Q)
  OBVIOUS
<1> HIDE DEF m
<1>3. Len(R) = m + 1
  <2> DEFINE S == {R[i] : i \in 1 .. m + 1}
  <2>1. R \in [1 .. m + 1 -> S] /\ m + 1 \in Nat
    BY <1>1, <1>2
  <2> HIDE DEF S
  <2> QED BY <2>1, Listed
<1>4. x.connection = c
  BY DEF Entry
<1> HIDE DEF x
<1>5. \A i \in 1 .. m + 1 : \/ i = k + 1 /\ R[i] = x
                            \/ i # k + 1 /\ pos(i) \in 1 .. m /\ R[i] = Q[pos(i)]
  BY <1>1, <1>2
<1>6. \A i \in 1 .. m : at(i) \in 1 .. m + 1 /\ R[at(i)] = Q[i]
  BY <1>1, <1>2
<1>7. k + 1 \in 1 .. m + 1 /\ R[k + 1] = x
  BY <1>1, <1>2
<1>8. ASSUME NEW d PROVE Has(R, d) <=> d = c \/ Has(Q, d)
  <2>1. ASSUME Has(R, d) PROVE d = c \/ Has(Q, d)
    BY <2>1, <1>2, <1>3, <1>4, <1>5 DEF Has
  <2>2. ASSUME Has(Q, d) PROVE Has(R, d)
    BY <2>2, <1>2, <1>3, <1>6 DEF Has
  <2>3. ASSUME d = c PROVE Has(R, d)
    BY <2>3, <1>3, <1>4, <1>7 DEF Has
  <2> QED BY <2>1, <2>2, <2>3
<1>9. ASSUME NEW d, HasOne(Q, d), d = c => ~ Has(Q, d) PROVE HasOne(R, d)
  <2> SUFFICES ASSUME NEW i \in 1 .. m + 1, NEW j \in 1 .. m + 1,
                      R[i].connection = d, R[j].connection = d
               PROVE  i = j
    BY <1>3 DEF HasOne
  <2>1. CASE i = k + 1 /\ j # k + 1
    <3>1. d = c /\ pos(j) \in 1 .. m /\ Q[pos(j)].connection = d
      BY <2>1, <1>4, <1>5
    <3> QED BY <3>1, <1>2, <1>9 DEF Has
  <2>2. CASE i # k + 1 /\ j = k + 1
    <3>1. d = c /\ pos(i) \in 1 .. m /\ Q[pos(i)].connection = d
      BY <2>2, <1>4, <1>5
    <3> QED BY <3>1, <1>2, <1>9 DEF Has
  <2>3. CASE i # k + 1 /\ j # k + 1
    <3>1. /\ pos(i) \in 1 .. m /\ Q[pos(i)].connection = d
          /\ pos(j) \in 1 .. m /\ Q[pos(j)].connection = d
      BY <2>3, <1>5
    <3>2. pos(i) = pos(j)
      BY <3>1, <1>2, <1>9 DEF HasOne
    <3> QED BY <2>3, <3>2, <1>2
  <2> QED BY <2>1, <2>2, <2>3
<1>10. \A i \in 1 .. Len(R) : R[i] = x \/ \E j \in 1 .. Len(Q) : R[i] = Q[j]
  BY <1>2, <1>3, <1>5
<1> QED BY <1>2, <1>3, <1>8, <1>9, <1>10 DEF x

\* Taking out an entry leaves its connection none, when that was its only one.
LEMMA DelHas ==
    ASSUME NEW Q, Len(Q) \in Nat, NEW k \in 1 .. Len(Q), NEW R, R = Del(Q, k)
    PROVE  /\ \A d : HasOne(Q, d) => (Has(R, d) <=> Has(Q, d) /\ Q[k].connection # d)
           /\ \A d : HasOne(Q, d) => HasOne(R, d)
           /\ \A i \in 1 .. Len(R) : \E j \in 1 .. Len(Q) : R[i] = Q[j]
<1> DEFINE m == Len(Q)
           pos(i) == IF i < k THEN i ELSE i + 1
           at(i) == IF i < k THEN i ELSE i - 1
<1>1. R = [i \in 1 .. m - 1 |-> IF i < k THEN Q[i] ELSE Q[i + 1]]
  BY DEF Del
<1>2. m \in Nat /\ k \in 1 .. m /\ m = Len(Q)
  OBVIOUS
<1> HIDE DEF m
<1>3. Len(R) = m - 1
  <2> DEFINE S == {R[i] : i \in 1 .. m - 1}
             n == m - 1
  <2>1. R \in [1 .. n -> S] /\ n \in Nat
    BY <1>1, <1>2
  <2> HIDE DEF S, n
  <2>2. Len(R) = n
    BY <2>1, Listed
  <2> QED BY <2>2 DEF n
<1>4. \A i \in 1 .. m - 1 : pos(i) \in 1 .. m /\ pos(i) # k /\ R[i] = Q[pos(i)]
  BY <1>1, <1>2
<1>5. \A i \in 1 .. m : i # k => at(i) \in 1 .. m - 1 /\ R[at(i)] = Q[i]
  BY <1>1, <1>2
<1>6. ASSUME NEW d, HasOne(Q, d)
      PROVE  Has(R, d) <=> Has(Q, d) /\ Q[k].connection # d
  <2>1. ASSUME Has(R, d) PROVE Has(Q, d) /\ Q[k].connection # d
    <3>1. PICK i \in 1 .. m - 1 : R[i].connection = d
      BY <2>1, <1>3 DEF Has
    <3>2. pos(i) \in 1 .. m /\ pos(i) # k /\ Q[pos(i)].connection = d
      BY <3>1, <1>4
    <3> HIDE DEF pos
    <3> QED BY <3>2, <1>2, <1>6 DEF Has, HasOne
  <2>2. ASSUME Has(Q, d), Q[k].connection # d PROVE Has(R, d)
    <3>1. PICK i \in 1 .. m : Q[i].connection = d
      BY <2>2, <1>2 DEF Has
    <3>2. at(i) \in 1 .. m - 1 /\ R[at(i)].connection = d
      BY <2>2, <3>1, <1>5
    <3> HIDE DEF at
    <3> QED BY <3>2, <1>3 DEF Has
  <2> QED BY <2>1, <2>2
<1>7. ASSUME NEW d, HasOne(Q, d) PROVE HasOne(R, d)
  <2> SUFFICES ASSUME NEW i \in 1 .. m - 1, NEW j \in 1 .. m - 1,
                      R[i].connection = d, R[j].connection = d
               PROVE  i = j
    BY <1>3 DEF HasOne
  <2>1. pos(i) = pos(j)
    BY <1>2, <1>4, <1>7 DEF HasOne
  <2> QED BY <2>1, <1>2
<1>8. \A i \in 1 .. Len(R) : \E j \in 1 .. Len(Q) : R[i] = Q[j]
  BY <1>2, <1>3, <1>4
<1> QED BY <1>6, <1>7, <1>8

-----------------------------------------------------------------------------
(* The inductive invariant: the nodes are laid out as two lists; a session  *)
(* has one entry unless it is being ticked, an unregistered connection has  *)
(* none; the entry of a session expires its timeout after the last tick.    *)

Typed ==
    /\ now \in 1 .. MaxTime
    /\ session \in [Connections -> {"none", "ready", "inactive"}]
    /\ phase \in {"other", "timers"}
    /\ ticking \in Connections \cup {NoConnection}
    /\ ticked \in [Connections -> 0 .. MaxTime]

TicksInTimers == ticking # NoConnection => phase = "timers"

Sessions ==
    \A c \in Connections :
        /\ HasOne(QueueEntries, c)
        /\ session[c] = "ready" => (Has(QueueEntries, c) <=> ticking # c)
        /\ session[c] = "none" => ~ Has(QueueEntries, c) /\ ticking # c

OnTime ==
    \A i \in 1 .. Len(QueueEntries) :
        session[QueueEntries[i].connection] = "ready" =>
            QueueEntries[i].expirationTime =
                ticked[QueueEntries[i].connection] + TickTimeout[QueueEntries[i].connection]

IInv == ListInv /\ Typed /\ TicksInTimers /\ Sessions /\ OnTime

\* Times are natural numbers, and hold each time at which a tick may be due.
LEMMA TimesAre ==
    /\ Times \subseteq Nat
    /\ \A t \in 1 .. MaxTime : t \in Times /\ \A c \in Connections : t + TickTimeout[c] \in Times
<1>1. MaxTime \in Nat /\ \A c \in Connections : TickTimeout[c] \in Nat
  BY TickAssumption, BoundsAssumption
<1> QED BY <1>1 DEF Times

\* The constructor links the initial nodes into the free list.
LEMMA InitInv == Init => IInv
<1> SUFFICES ASSUME Init PROVE IInv
  OBVIOUS
<1> DEFINE n == InitialCapacity
           f == [i \in 1 .. n |-> (n + 1) - i]
           p == <<>>
<1>1. n \in Nat /\ n = InitialCapacity
  BY BoundsAssumption
<1> HIDE DEF n
<1>2. /\ allTasks = [i \in 1 .. n |-> [NoTask EXCEPT !.next = i - 1]]
      /\ priorityTaskList = null /\ freeTaskList = n
  BY <1>1 DEF Init
<1>3. \A i \in 1 .. n : /\ allTasks[i].next = i - 1 /\ allTasks[i].expirationTime = 0
                        /\ allTasks[i].connection = NoConnection /\ allTasks[i] \in TaskOf(n)
  BY <1>1, <1>2 DEF NoTask, TaskOf, null
<1>4. allTasks \in Seq(TaskOf(n)) /\ Len(allTasks) = n
  <2> DEFINE S == TaskOf(n)
  <2>1. allTasks \in [1 .. n -> S]
    BY <1>2, <1>3
  <2> HIDE DEF S
  <2>2. allTasks \in Seq(S) /\ Len(allTasks) = n
    BY <2>1, <1>1, Listed
  <2> QED BY <2>2 DEF S
<1>5. /\ f \in Seq(1 .. n) /\ Len(f) = n /\ \A i \in 1 .. n : f[i] = (n + 1) - i
  <2> DEFINE S == 1 .. n
  <2>1. f \in [1 .. n -> S] /\ \A i \in 1 .. n : f[i] = (n + 1) - i
    BY <1>1
  <2> HIDE DEF S, f
  <2>2. f \in Seq(S) /\ Len(f) = n
    BY <2>1, <1>1, Listed
  <2> QED BY <2>1, <2>2 DEF S
<1> HIDE DEF f
<1>6. p \in Seq(1 .. n) /\ Len(p) = 0
  OBVIOUS
<1> HIDE DEF p
<1>7. Chain(allTasks, priorityTaskList, p)
  <2>1. 1 .. Len(p) = {}
    BY <1>6
  <2> QED BY <2>1, <1>2, <1>4, <1>6 DEF Chain, Nth
<1>8. Chain(allTasks, freeTaskList, f)
  <2>1. freeTaskList = Nth(f, 1)
    BY <1>1, <1>2, <1>5 DEF Nth, null
  <2>2. ASSUME NEW i \in 1 .. n PROVE allTasks[f[i]].next = Nth(f, i + 1)
    <3>1. f[i] = (n + 1) - i /\ (n + 1) - i \in 1 .. n /\ allTasks[f[i]].next = n - i
      <4>1. f[i] = (n + 1) - i /\ (n + 1) - i \in 1 .. n /\ ((n + 1) - i) - 1 = n - i
        BY <1>1, <1>5
      <4>2. allTasks[(n + 1) - i].next = ((n + 1) - i) - 1
        BY <4>1, <1>3
      <4> QED BY <4>1, <4>2
    <3>2. n - i = Nth(f, i + 1)
      BY <1>1, <1>5 DEF Nth, null
    <3> QED BY <3>1, <3>2
  <2> QED BY <2>1, <2>2, <1>4, <1>5 DEF Chain
<1>9. Lists(allTasks, priorityTaskList, freeTaskList, p, f)
  <2>1. 1 .. Len(p) = {} /\ Len(p) + Len(f) = Len(allTasks)
    BY <1>1, <1>4, <1>5, <1>6
  <2>2. \A i, j \in 1 .. Len(f) : f[i] = f[j] => i = j
    BY <1>1, <1>5
  <2>3. \A i \in 1 .. Len(f) : /\ allTasks[f[i]].expirationTime = 0
                               /\ allTasks[f[i]].connection = NoConnection
    <3>1. \A i \in 1 .. Len(f) : f[i] \in 1 .. n
      BY <1>1, <1>5
    <3> QED BY <3>1, <1>3
  <2> QED BY <2>1, <2>2, <2>3, <1>4, <1>7, <1>8 DEF Lists
<1>10. ListInv
  BY <1>9 DEF ListInv
<1>11. 1 .. Len(QueueEntries) = {}
  <2>1. PriorityList = p
    BY <1>9, ListsAre DEF PriorityList
  <2>2. Len(QueueEntries) = 0
    BY <2>1, <1>6, <1>10, ListsShown
  <2> QED BY <2>2
<1>12. Typed /\ TicksInTimers
  BY BoundsAssumption DEF Init, Typed, TicksInTimers
<1>13. Sessions
  <2>1. \A c \in Connections : ticking # c /\ session[c] = "none"
    BY TickAssumption DEF Init
  <2> QED BY <2>1, <1>11 DEF Sessions, Has, HasOne
<1>14. OnTime
  BY <1>11 DEF OnTime
<1> QED BY <1>10, <1>12, <1>13, <1>14 DEF IInv

\* A step that leaves the lists alone leaves the entries alone.
LEMMA ListsKept ==
    ASSUME ListInv, UNCHANGED listVars
    PROVE  ListInv' /\ QueueEntries' = QueueEntries
BY DEF ListInv, listVars, QueueEntries, PriorityList

\* What the invariant says of the entries.
LEMMA EntriesTyped ==
    ASSUME ListInv
    PROVE  /\ Len(QueueEntries) \in Nat
           /\ \A i \in 1 .. Len(QueueEntries) : /\ QueueEntries[i].expirationTime \in Times
                                                /\ QueueEntries[i].connection \in Connections
<1> DEFINE S == [expirationTime : Times, connection : Connections]
<1>1. QueueEntries \in Seq(S)
  BY ListsShown
<1> HIDE DEF S
<1>2. Len(QueueEntries) \in Nat /\ \A i \in 1 .. Len(QueueEntries) : QueueEntries[i] \in S
  BY <1>1, LenProperties, ElementOfSeq
<1> QED BY <1>2 DEF S

\* A session begins, or is ticked: its entry is pushed.
LEMMA PushInv ==
    ASSUME IInv, NEW c \in Connections, push(now + TickTimeout[c], c),
           ~ Has(QueueEntries, c), now' = now,
           session' = [session EXCEPT ![c] = "ready"],
           ticked' = [ticked EXCEPT ![c] = now],
           ticking' = NoConnection, ticking \in {c, NoConnection}
    PROVE  ListInv' /\ Sessions' /\ OnTime'
<1> DEFINE Q == QueueEntries
           t == now + TickTimeout[c]
<1>1. ListInv /\ Typed /\ Sessions /\ OnTime /\ now \in 1 .. MaxTime
  BY DEF IInv, Typed
<1>2. t \in Times /\ Times \subseteq Nat
  BY <1>1, TimesAre
<1>3. push(t, c)
  OBVIOUS
<1>13. t = now + TickTimeout[c]
  OBVIOUS
<1> HIDE DEF t
<1>4. /\ ListInv'
      /\ \E k \in 0 .. Len(QueueEntries) : QueueEntries' = Ins(QueueEntries, k, Entry(t, c))
  BY <1>1, <1>2, <1>3, PushQueue
<1>5. PICK k \in 0 .. Len(Q) : QueueEntries' = Ins(Q, k, Entry(t, c))
  BY <1>4
<1>6. Len(Q) \in Nat /\ \A i \in 1 .. Len(Q) : Q[i].connection \in Connections
  BY <1>1, EntriesTyped
<1>7. ~ Has(Q, c)
  OBVIOUS
<1> HIDE DEF Q
<1> DEFINE R == QueueEntries'
<1>8. R = Ins(Q, k, Entry(t, c))
  BY <1>5
<1> HIDE DEF R
<1>9. /\ \A d : Has(R, d) <=> d = c \/ Has(Q, d)
      /\ \A d : HasOne(Q, d) /\ (d = c => ~ Has(Q, d)) => HasOne(R, d)
      /\ \A i \in 1 .. Len(R) : R[i] = Entry(t, c) \/ \E j \in 1 .. Len(Q) : R[i] = Q[j]
  BY <1>6, <1>8, InsHas
<1>10. /\ session \in [Connections -> {"none", "ready", "inactive"}]
       /\ ticked \in [Connections -> 0 .. MaxTime]
  BY <1>1 DEF Typed
<1>11. ASSUME NEW d \in Connections
       PROVE  /\ HasOne(R, d)
              /\ session'[d] = "ready" => (Has(R, d) <=> ticking' # d)
              /\ session'[d] = "none" => ~ Has(R, d) /\ ticking' # d
  <2>1. /\ HasOne(Q, d)
        /\ session[d] = "ready" => (Has(Q, d) <=> ticking # d)
        /\ session[d] = "none" => ~ Has(Q, d) /\ ticking # d
    BY <1>1 DEF Sessions, Q
  <2>2. HasOne(R, d)
    BY <2>1, <1>7, <1>9
  <2>3. ticking' # d /\ ticking' = NoConnection
    BY TickAssumption
  <2>4. CASE d = c
    <3>1. session'[d] = "ready"
      BY <2>4, <1>10
    <3> QED BY <2>2, <2>3, <2>4, <3>1, <1>9
  <2>5. CASE d # c
    <3>1. session'[d] = session[d] /\ ticking # d
      BY <2>5, <1>10, TickAssumption
    <3> QED BY <2>1, <2>2, <2>3, <2>5, <3>1, <1>9
  <2> QED BY <2>4, <2>5
<1>12. ASSUME NEW i \in 1 .. Len(R), session'[R[i].connection] = "ready"
       PROVE  R[i].expirationTime = ticked'[R[i].connection] + TickTimeout[R[i].connection]
  <2>1. CASE R[i] = Entry(t, c)
    <3>1. R[i].connection = c /\ R[i].expirationTime = t
      BY <2>1 DEF Entry
    <3>2. ticked'[c] = now
      BY <1>10
    <3> QED BY <3>1, <3>2, <1>13
  <2>2. CASE \E j \in 1 .. Len(Q) : R[i] = Q[j]
    <3>1. PICK j \in 1 .. Len(Q) : R[i] = Q[j]
      BY <2>2
    <3>2. Q[j].connection # c /\ Q[j].connection \in Connections
      BY <1>6, <1>7 DEF Has
    <3> DEFINE d == Q[j].connection
    <3>3. session'[d] = session[d] /\ ticked'[d] = ticked[d]
      BY <3>2, <1>10
    <3>4. session[d] = "ready"
      BY <3>1, <3>3, <1>12
    <3>5. Q[j].expirationTime = ticked[d] + TickTimeout[d]
      BY <3>4, <1>1 DEF OnTime, Q
    <3> QED BY <3>1, <3>3, <3>5
  <2> QED BY <2>1, <2>2, <1>9
<1>14. Sessions'
  BY <1>11 DEF Sessions, R
<1>15. OnTime'
  BY <1>12 DEF OnTime, R
<1> QED BY <1>4, <1>14, <1>15

\* Each action keeps the invariant.
LEMMA NextInv == IInv /\ [Next]_vars => IInv'
<1> SUFFICES ASSUME IInv, [Next]_vars PROVE IInv'
  OBVIOUS
<1>1. ListInv /\ Typed /\ TicksInTimers /\ Sessions /\ OnTime
  BY DEF IInv
<1>2. /\ now \in 1 .. MaxTime
      /\ session \in [Connections -> {"none", "ready", "inactive"}]
      /\ phase \in {"other", "timers"}
      /\ ticking \in Connections \cup {NoConnection}
      /\ ticked \in [Connections -> 0 .. MaxTime]
  BY <1>1 DEF Typed
<1>3. NoConnection \notin Connections
  BY TickAssumption
<1>4. now \in 0 .. MaxTime
  BY <1>2, BoundsAssumption
<1>5. /\ Len(QueueEntries) \in Nat
      /\ \A i \in 1 .. Len(QueueEntries) : QueueEntries[i].connection \in Connections
  BY <1>1, EntriesTyped
<1>6. ASSUME NEW c \in Connections, on_recv_message(c) PROVE IInv'
  <2>1. /\ phase = "other" /\ session[c] = "none" /\ session' = [session EXCEPT ![c] = "ready"]
        /\ ticked' = [ticked EXCEPT ![c] = now] /\ push(now + TickTimeout[c], c)
        /\ now' = now /\ phase' = phase /\ ticking' = ticking
    BY <1>6 DEF on_recv_message
  <2>2. ticking = NoConnection
    BY <2>1, <1>1 DEF TicksInTimers
  <2>3. ~ Has(QueueEntries, c)
    BY <2>1, <1>1 DEF Sessions
  <2>4. ListInv' /\ Sessions' /\ OnTime'
    BY <2>1, <2>2, <2>3, PushInv
  <2>5. Typed'
    BY <2>1, <1>2, <1>4 DEF Typed
  <2>6. TicksInTimers'
    BY <2>1, <2>2 DEF TicksInTimers
  <2> QED BY <2>4, <2>5, <2>6 DEF IInv
<1>7. ASSUME NEW c \in Connections, deactivate(c) PROVE IInv'
  <2>1. /\ phase = "other" /\ session[c] = "ready" /\ session' = [session EXCEPT ![c] = "inactive"]
        /\ UNCHANGED listVars /\ now' = now /\ phase' = phase /\ ticking' = ticking /\ ticked' = ticked
    BY <1>7 DEF deactivate
  <2>2. ListInv' /\ QueueEntries' = QueueEntries
    BY <2>1, <1>1, ListsKept
  <2>3. \A d \in Connections : session'[d] = IF d = c THEN "inactive" ELSE session[d]
    BY <2>1, <1>2
  <2>4. Sessions'
    <3> SUFFICES ASSUME NEW d \in Connections
                 PROVE  /\ HasOne(QueueEntries', d)
                        /\ session'[d] = "ready" => (Has(QueueEntries', d) <=> ticking' # d)
                        /\ session'[d] = "none" => ~ Has(QueueEntries', d) /\ ticking' # d
      BY DEF Sessions
    <3>1. /\ HasOne(QueueEntries, d)
          /\ session[d] = "ready" => (Has(QueueEntries, d) <=> ticking # d)
          /\ session[d] = "none" => ~ Has(QueueEntries, d) /\ ticking # d
      BY <1>1 DEF Sessions
    <3>2. session'[d] = "inactive" \/ session'[d] = session[d]
      BY <2>3
    <3> QED BY <2>1, <2>2, <3>1, <3>2
  <2>5. OnTime'
    BY <2>1, <2>2, <2>3, <1>1, <1>5 DEF OnTime
  <2>6. Typed'
    BY <2>1, <1>2 DEF Typed
  <2>7. TicksInTimers'
    BY <2>1, <1>1 DEF TicksInTimers
  <2> QED BY <2>2, <2>4, <2>5, <2>6, <2>7 DEF IInv
<1>8. ASSUME NEW c \in Connections, unregister_handle(c) PROVE IInv'
  <2>1. /\ phase = "other" /\ session' = [session EXCEPT ![c] = "none"] /\ remove(c)
        /\ now' = now /\ phase' = phase /\ ticking' = ticking /\ ticked' = ticked
    BY <1>8 DEF unregister_handle
  <2>2. ticking = NoConnection
    BY <2>1, <1>1 DEF TicksInTimers
  <2> DEFINE Q == QueueEntries
             R == QueueEntries'
  <2>3. /\ ListInv'
        /\ \A d \in Connections : HasOne(R, d) /\ (Has(R, d) <=> Has(Q, d) /\ d # c)
        /\ \A i \in 1 .. Len(R) : \E j \in 1 .. Len(Q) : R[i] = Q[j]
    <3>1. \A d \in Connections : HasOne(Q, d)
      BY <1>1 DEF Sessions
    <3>2. CASE UNCHANGED listVars /\ \A i \in 1 .. Len(Q) : Q[i].connection # c
      <4>1. ListInv' /\ R = Q
        BY <3>2, <1>1, ListsKept
      <4>2. ~ Has(Q, c)
        BY <3>2 DEF Has
      <4> HIDE DEF Q, R
      <4> QED BY <4>1, <4>2, <3>1
    <3>3. CASE /\ ListInv'
               /\ \E k \in 1 .. Len(Q) : /\ Q[k].connection = c
                                         /\ \A i \in 1 .. k - 1 : Q[i].connection # c
                                         /\ R = Del(Q, k)
      <4>1. PICK k \in 1 .. Len(Q) : Q[k].connection = c /\ R = Del(Q, k)
        BY <3>3
      <4>2. Len(Q) \in Nat
        BY <1>5
      <4> HIDE DEF Q, R
      <4>3. /\ \A d : HasOne(Q, d) => (Has(R, d) <=> Has(Q, d) /\ Q[k].connection # d)
            /\ \A d : HasOne(Q, d) => HasOne(R, d)
            /\ \A i \in 1 .. Len(R) : \E j \in 1 .. Len(Q) : R[i] = Q[j]
        BY <4>1, <4>2, DelHas
      <4> QED BY <3>1, <3>3, <4>1, <4>3
    <3> QED BY <2>1, <3>2, <3>3, <1>1, RemoveQueue
  <2>4. \A d \in Connections : session'[d] = IF d = c THEN "none" ELSE session[d]
    BY <2>1, <1>2
  <2>5. Sessions'
    <3> SUFFICES ASSUME NEW d \in Connections
                 PROVE  /\ HasOne(R, d)
                        /\ session'[d] = "ready" => (Has(R, d) <=> ticking' # d)
                        /\ session'[d] = "none" => ~ Has(R, d) /\ ticking' # d
      BY DEF Sessions
    <3>1. /\ session[d] = "ready" => (Has(Q, d) <=> ticking # d)
          /\ session[d] = "none" => ~ Has(Q, d) /\ ticking # d
      BY <1>1 DEF Sessions
    <3>2. HasOne(R, d) /\ (Has(R, d) <=> Has(Q, d) /\ d # c)
      BY <2>3
    <3>3. ticking' # d /\ ticking # d
      BY <2>1, <2>2, <1>3
    <3>4. session'[d] = IF d = c THEN "none" ELSE session[d]
      BY <2>4
    <3> HIDE DEF Q, R
    <3> QED BY <3>1, <3>2, <3>3, <3>4
  <2>6. OnTime'
    <3> SUFFICES ASSUME NEW i \in 1 .. Len(R), session'[R[i].connection] = "ready"
                 PROVE  R[i].expirationTime = ticked'[R[i].connection] + TickTimeout[R[i].connection]
      BY DEF OnTime
    <3>1. PICK j \in 1 .. Len(Q) : R[i] = Q[j]
      BY <2>3
    <3>2. Q[j].connection \in Connections
      BY <1>5
    <3>3. session[Q[j].connection] = "ready"
      <4>1. session'[Q[j].connection] = "ready"
        BY <3>1
      <4> QED BY <4>1, <3>2, <2>4
    <3>4. Q[j].expirationTime = ticked[Q[j].connection] + TickTimeout[Q[j].connection]
      BY <3>3, <1>1 DEF OnTime
    <3> QED BY <3>1, <3>4, <2>1
  <2>7. Typed'
    BY <2>1, <1>2 DEF Typed
  <2>8. TicksInTimers'
    BY <2>1, <1>1 DEF TicksInTimers
  <2> QED BY <2>3, <2>5, <2>6, <2>7, <2>8 DEF IInv
<1>9. ASSUME EnterTimers \/ LeaveTimers PROVE IInv'
  <2>1. /\ UNCHANGED listVars /\ now' = now /\ session' = session /\ ticking' = ticking
        /\ ticked' = ticked /\ phase' \in {"other", "timers"}
        /\ ticking # NoConnection => phase' = "timers"
    BY <1>9 DEF EnterTimers, LeaveTimers
  <2>2. ListInv' /\ QueueEntries' = QueueEntries
    BY <2>1, <1>1, ListsKept
  <2>3. Sessions' /\ OnTime'
    BY <2>1, <2>2, <1>1 DEF Sessions, OnTime
  <2>4. Typed' /\ TicksInTimers'
    BY <2>1, <1>2 DEF Typed, TicksInTimers
  <2> QED BY <2>2, <2>3, <2>4 DEF IInv
<1>10. ASSUME PopDue PROVE IInv'
  <2>1. /\ phase = "timers" /\ ticking = NoConnection /\ pop
        /\ ticking' = allTasks[priorityTaskList].connection
        /\ now' = now /\ session' = session /\ phase' = phase /\ ticked' = ticked
    BY <1>10 DEF PopDue
  <2> DEFINE Q == QueueEntries
             R == QueueEntries'
  <2>2. /\ ListInv' /\ Len(Q) \in Nat /\ Len(Q) # 0 /\ R = Del(Q, 1)
        /\ ticking' = Q[1].connection
    BY <2>1, <1>1, PopQueue
  <2>3. 1 \in 1 .. Len(Q) /\ ticking' \in Connections
    BY <2>2, <1>5
  <2>4. \A d \in Connections : HasOne(Q, d)
    BY <1>1 DEF Sessions
  <2>5. /\ \A d \in Connections : HasOne(R, d) /\ (Has(R, d) <=> Has(Q, d) /\ ticking' # d)
        /\ \A i \in 1 .. Len(R) : \E j \in 1 .. Len(Q) : R[i] = Q[j]
        /\ Has(Q, ticking')
    <3> HIDE DEF Q, R
    <3>1. /\ \A d : HasOne(Q, d) => (Has(R, d) <=> Has(Q, d) /\ Q[1].connection # d)
          /\ \A d : HasOne(Q, d) => HasOne(R, d)
          /\ \A i \in 1 .. Len(R) : \E j \in 1 .. Len(Q) : R[i] = Q[j]
      BY <2>2, <2>3, DelHas
    <3>2. Has(Q, ticking')
      BY <2>2, <2>3 DEF Has
    <3> QED BY <2>2, <2>4, <3>1, <3>2
  <2>6. Sessions'
    <3> SUFFICES ASSUME NEW d \in Connections
                 PROVE  /\ HasOne(R, d)
                        /\ session'[d] = "ready" => (Has(R, d) <=> ticking' # d)
                        /\ session'[d] = "none" => ~ Has(R, d) /\ ticking' # d
      BY DEF Sessions
    <3>1. /\ session[d] = "ready" => (Has(Q, d) <=> ticking # d)
          /\ session[d] = "none" => ~ Has(Q, d) /\ ticking # d
      BY <1>1 DEF Sessions
    <3>2. HasOne(R, d) /\ (Has(R, d) <=> Has(Q, d) /\ ticking' # d)
      BY <2>5
    <3>3. ticking # d /\ session' = session
      BY <2>1, <1>3
    <3>4. ticking' = d => Has(Q, d)
      BY <2>5
    <3> HIDE DEF Q, R
    <3> QED BY <3>1, <3>2, <3>3, <3>4
  <2>7. OnTime'
    <3> SUFFICES ASSUME NEW i \in 1 .. Len(R), session'[R[i].connection] = "ready"
                 PROVE  R[i].expirationTime = ticked'[R[i].connection] + TickTimeout[R[i].connection]
      BY DEF OnTime
    <3>1. PICK j \in 1 .. Len(Q) : R[i] = Q[j]
      BY <2>5
    <3>2. session[Q[j].connection] = "ready"
      BY <3>1, <2>1
    <3>3. Q[j].expirationTime = ticked[Q[j].connection] + TickTimeout[Q[j].connection]
      BY <3>2, <1>1 DEF OnTime
    <3> QED BY <3>1, <3>3, <2>1
  <2>8. Typed' /\ TicksInTimers'
    BY <2>1, <2>3, <1>2 DEF Typed, TicksInTimers
  <2> QED BY <2>2, <2>6, <2>7, <2>8 DEF IInv
<1>11. ASSUME tick PROVE IInv'
  <2>1. /\ ticking # NoConnection /\ ticking' = NoConnection
        /\ now' = now /\ session' = session /\ phase' = phase
    BY <1>11 DEF tick
  <2>2. ticking \in Connections
    BY <2>1, <1>2
  <2>3. CASE session[ticking] = "inactive"
    <3>1. UNCHANGED listVars /\ ticked' = ticked
      BY <2>3, <1>11 DEF tick
    <3>2. ListInv' /\ QueueEntries' = QueueEntries
      BY <3>1, <1>1, ListsKept
    <3>3. Sessions'
      <4> SUFFICES ASSUME NEW d \in Connections
                   PROVE  /\ HasOne(QueueEntries', d)
                          /\ session'[d] = "ready" => (Has(QueueEntries', d) <=> ticking' # d)
                          /\ session'[d] = "none" => ~ Has(QueueEntries', d) /\ ticking' # d
        BY DEF Sessions
      <4>1. /\ HasOne(QueueEntries, d)
            /\ session[d] = "ready" => (Has(QueueEntries, d) <=> ticking # d)
            /\ session[d] = "none" => ~ Has(QueueEntries, d) /\ ticking # d
        BY <1>1 DEF Sessions
      <4>2. ticking' # d
        BY <2>1, <1>3
      <4>3. d = ticking => session[d] # "ready" /\ session[d] # "none"
        BY <2>3
      <4> QED BY <2>1, <3>2, <4>1, <4>2, <4>3
    <3>4. OnTime'
      BY <2>1, <3>1, <3>2, <1>1 DEF OnTime
    <3>5. Typed' /\ TicksInTimers'
      BY <2>1, <3>1, <1>2 DEF Typed, TicksInTimers
    <3> QED BY <3>2, <3>3, <3>4, <3>5 DEF IInv
  <2>4. CASE session[ticking] # "inactive"
    <3>1. push(now + TickTimeout[ticking], ticking) /\ ticked' = [ticked EXCEPT ![ticking] = now]
      BY <2>4, <1>11 DEF tick
    <3>2. session[ticking] = "ready" /\ ~ Has(QueueEntries, ticking)
      BY <2>2, <2>4, <1>1, <1>2 DEF Sessions
    <3>3. session' = [session EXCEPT ![ticking] = "ready"]
      BY <2>1, <2>2, <3>2, <1>2
    <3> DEFINE c == ticking
    <3>4. ListInv' /\ Sessions' /\ OnTime'
      BY <2>1, <2>2, <3>1, <3>2, <3>3, PushInv
    <3>5. Typed'
      BY <2>1, <2>2, <3>1, <1>2, <1>4 DEF Typed
    <3>6. TicksInTimers'
      BY <2>1 DEF TicksInTimers
    <3> QED BY <3>4, <3>5, <3>6 DEF IInv
  <2> QED BY <2>3, <2>4
<1>12. ASSUME system_clock PROVE IInv'
  <2>1. /\ now' \in 1 .. MaxTime /\ UNCHANGED listVars /\ session' = session /\ phase' = phase
        /\ ticking' = ticking /\ ticked' = ticked
    BY <1>12 DEF system_clock
  <2>2. ListInv' /\ QueueEntries' = QueueEntries
    BY <2>1, <1>1, ListsKept
  <2>3. Sessions' /\ OnTime' /\ TicksInTimers'
    BY <2>1, <2>2, <1>1 DEF Sessions, OnTime, TicksInTimers
  <2>4. Typed'
    BY <2>1, <1>2 DEF Typed
  <2> QED BY <2>2, <2>3, <2>4 DEF IInv
<1>13. CASE UNCHANGED vars
  <2>1. /\ UNCHANGED listVars /\ now' = now /\ session' = session /\ phase' = phase
        /\ ticking' = ticking /\ ticked' = ticked
    BY <1>13 DEF vars
  <2>2. ListInv' /\ QueueEntries' = QueueEntries
    BY <2>1, <1>1, ListsKept
  <2>3. Sessions' /\ OnTime' /\ TicksInTimers'
    BY <2>1, <2>2, <1>1 DEF Sessions, OnTime, TicksInTimers
  <2>4. Typed'
    BY <2>1, <1>2 DEF Typed
  <2> QED BY <2>2, <2>3, <2>4 DEF IInv
<1> QED BY <1>6, <1>7, <1>8, <1>9, <1>10, <1>11, <1>12, <1>13 DEF Next

-----------------------------------------------------------------------------
(* The queue that the lists implement.                                     *)

QueueProofs == INSTANCE TimerQueueProofs WITH entries <- QueueEntries

\* Putting an entry behind the first k, as the queue's specification says it.
LEMMA InsIsInserted ==
    ASSUME NEW S, NEW Q, Q \in Seq(S), NEW k, k \in 0 .. Len(Q), NEW x, x \in S
    PROVE  Ins(Q, k, x) = SubSeq(Q, 1, k) \o <<x>> \o SubSeq(Q, k + 1, Len(Q))
<1> DEFINE r == SubSeq(Q, 1, k) \o <<x>> \o SubSeq(Q, k + 1, Len(Q))
           s == Ins(Q, k, x)
<1>1. r = QueueProofs!Inserted(Q, k, x)
  BY DEF QueueProofs!Inserted
<1>2. s = Ins(Q, k, x)
  OBVIOUS
<1>3. Len(Q) \in Nat /\ k \in 0 .. Len(Q)
  BY LenProperties
<1> HIDE DEF r, s
<1>4. r \in Seq(S)
  BY <1>1, QueueProofs!InsertedAt
<1>5. Len(r) = Len(Q) + 1
  BY <1>1, QueueProofs!InsertedAt
<1>6. \A i \in 1 .. k : r[i] = Q[i]
  BY <1>1, QueueProofs!InsertedAt
<1>7. r[k + 1] = x
  BY <1>1, QueueProofs!InsertedAt
<1>8. \A i \in k + 2 .. Len(Q) + 1 : r[i] = Q[i - 1]
  BY <1>1, QueueProofs!InsertedAt
<1>9. s \in Seq(S)
  BY <1>2, InsAt
<1>10. Len(s) = Len(Q) + 1
  BY <1>2, InsAt
<1>11. \A i \in 1 .. Len(Q) + 1 : s[i] = IF i <= k THEN Q[i] ELSE IF i = k + 1 THEN x ELSE Q[i - 1]
  BY <1>2 DEF Ins
<1>12. ASSUME NEW i \in 1 .. Len(s) PROVE s[i] = r[i]
  <2>1. i \in 1 .. Len(Q) + 1
    BY <1>10
  <2>2. CASE i <= k
    BY <2>1, <2>2, <1>3, <1>6, <1>11
  <2>3. CASE i = k + 1
    BY <2>1, <2>3, <1>3, <1>7, <1>11
  <2>4. CASE i > k + 1
    BY <2>1, <2>4, <1>3, <1>8, <1>11
  <2> QED BY <2>1, <2>2, <2>3, <2>4, <1>3
<1>13. s = r
  BY <1>4, <1>5, <1>9, <1>10, <1>12, SeqEqual
<1> QED BY <1>13 DEF r, s

\* Taking out the k-th, as the queue's specification says it.
LEMMA DelIsRemoved ==
    ASSUME NEW S, NEW Q, Q \in Seq(S), NEW k, k \in 1 .. Len(Q)
    PROVE  Del(Q, k) = SubSeq(Q, 1, k - 1) \o SubSeq(Q, k + 1, Len(Q))
<1> DEFINE r == SubSeq(Q, 1, k - 1) \o SubSeq(Q, k + 1, Len(Q))
           s == Del(Q, k)
<1>1. r = QueueProofs!Removed(Q, k)
  BY DEF QueueProofs!Removed
<1>2. s = Del(Q, k)
  OBVIOUS
<1>3. Len(Q) \in Nat /\ k \in 1 .. Len(Q)
  BY LenProperties
<1> HIDE DEF r, s
<1>4. r \in Seq(S)
  BY <1>1, QueueProofs!RemovedAt
<1>5. Len(r) = Len(Q) - 1
  BY <1>1, QueueProofs!RemovedAt
<1>6. \A i \in 1 .. k - 1 : r[i] = Q[i]
  BY <1>1, QueueProofs!RemovedAt
<1>7. \A i \in k .. Len(Q) - 1 : r[i] = Q[i + 1]
  BY <1>1, QueueProofs!RemovedAt
<1>8. s \in Seq(S)
  BY <1>2, DelAt
<1>9. Len(s) = Len(Q) - 1
  BY <1>2, DelAt
<1>10. \A i \in 1 .. Len(Q) - 1 : s[i] = IF i < k THEN Q[i] ELSE Q[i + 1]
  BY <1>2 DEF Del
<1>11. ASSUME NEW i \in 1 .. Len(s) PROVE s[i] = r[i]
  <2>1. i \in 1 .. Len(Q) - 1
    BY <1>9
  <2>2. CASE i < k
    BY <2>1, <2>2, <1>3, <1>6, <1>10
  <2>3. CASE ~ (i < k)
    BY <2>1, <2>3, <1>3, <1>7, <1>10
  <2> QED BY <2>2, <2>3
<1>12. s = r
  BY <1>4, <1>5, <1>8, <1>9, <1>11, SeqEqual
<1> QED BY <1>12 DEF r, s

\* No entry is in the queue at first.
LEMMA QueueInit == Init => Queue!Init
<1> SUFFICES ASSUME Init PROVE QueueEntries = <<>>
  BY DEF Queue!Init
<1>1. IInv
  BY InitInv
<1>2. PriorityList = <<>>
  <2>1. /\ Len(PriorityList) \in Nat /\ PriorityList \in Seq(1 .. Len(allTasks))
        /\ priorityTaskList = Nth(PriorityList, 1)
        /\ \A i \in 1 .. Len(PriorityList) : PriorityList[i] # null
    BY <1>1, ListsShown, ListNodes DEF IInv
  <2>2. ~ (1 \in 1 .. Len(PriorityList))
    BY <2>1 DEF Init, Nth
  <2>3. Len(PriorityList) = 0
    BY <2>1, <2>2
  <2> QED BY <2>1, <2>3, EmptySeq
<1>3. QueueEntries = EntriesIn(allTasks, <<>>)
  BY <1>1, <1>2, ListsShown DEF IInv
<1>4. EntriesIn(allTasks, <<>>) = <<>>
  BY DEF EntriesIn
<1> QED BY <1>3, <1>4

\* A push of the lists is a push of the queue.
LEMMA PushSimulated ==
    ASSUME IInv, NEW c \in Connections, push(now + TickTimeout[c], c)
    PROVE  Queue!Next
<1> DEFINE t == now + TickTimeout[c]
           Q == QueueEntries
           e == [expirationTime |-> t, connection |-> c]
<1>1. t \in Times /\ Times \subseteq Nat
  BY TimesAre DEF IInv, Typed
<1>2. push(t, c)
  OBVIOUS
<1> HIDE DEF t
<1>3. PICK k \in 0 .. Len(Q) :
         /\ QueueEntries' = Ins(Q, k, Entry(t, c))
         /\ \A i \in 1 .. k : Q[i].expirationTime <= t
         /\ k < Len(Q) => t < Q[k + 1].expirationTime
  BY <1>1, <1>2, PushQueue DEF IInv
<1>4. Q \in Seq([expirationTime : Times, connection : Connections])
  BY ListsShown DEF IInv
<1>5. Ins(Q, k, e) = SubSeq(Q, 1, k) \o <<e>> \o SubSeq(Q, k + 1, Len(Q))
  <2> DEFINE S == [expirationTime : Times, connection : Connections]
  <2>1. Q \in Seq(S) /\ e \in S
    BY <1>1, <1>4
  <2> HIDE DEF S, Q, e
  <2> QED BY <2>1, InsIsInserted
<1>6. Queue!push(t, c)
  BY <1>3, <1>5, Zenon DEF Queue!push, Queue!InsertBehind, Entry
<1> QED BY <1>1, <1>6 DEF Queue!Next

\* Each step is one operation of the queue, or leaves it alone.
LEMMA QueueNext == IInv /\ [Next]_vars => [Queue!Next]_QueueEntries
<1> SUFFICES ASSUME IInv, [Next]_vars PROVE Queue!Next \/ QueueEntries' = QueueEntries
  OBVIOUS
<1> DEFINE Q == QueueEntries
<1>1. ListInv /\ now \in Times /\ ticking \in Connections \cup {NoConnection}
  BY TimesAre DEF IInv, Typed
<1>2. Q \in Seq([expirationTime : Times, connection : Connections])
  BY <1>1, ListsShown
<1>3. ASSUME NEW k \in 1 .. Len(Q)
      PROVE  Del(Q, k) = SubSeq(Q, 1, k - 1) \o SubSeq(Q, k + 1, Len(Q))
  <2> DEFINE S == [expirationTime : Times, connection : Connections]
  <2>1. Q \in Seq(S)
    BY <1>2
  <2> HIDE DEF S, Q
  <2> QED BY <2>1, DelIsRemoved
<1>4. ASSUME NEW c \in Connections, on_recv_message(c) PROVE Queue!Next
  BY <1>4, PushSimulated DEF on_recv_message
<1>5. ASSUME tick, session[ticking] # "inactive" PROVE Queue!Next
  <2>1. ticking \in Connections /\ push(now + TickTimeout[ticking], ticking)
    BY <1>1, <1>5 DEF tick
  <2> QED BY <2>1, PushSimulated
<1>6. ASSUME NEW c \in Connections, unregister_handle(c)
      PROVE  Queue!Next \/ QueueEntries' = QueueEntries
  <2>1. remove(c)
    BY <1>6 DEF unregister_handle
  <2>2. CASE UNCHANGED listVars
    BY <2>2, <1>1, ListsKept
  <2>3. CASE \E k \in 1 .. Len(Q) : /\ Q[k].connection = c
                                    /\ \A i \in 1 .. k - 1 : Q[i].connection # c
                                    /\ QueueEntries' = Del(Q, k)
    <3>1. PICK k \in 1 .. Len(Q) : /\ Q[k].connection = c
                                   /\ \A i \in 1 .. k - 1 : Q[i].connection # c
                                   /\ QueueEntries' = Del(Q, k)
      BY <2>3
    <3>2. QueueEntries' = SubSeq(Q, 1, k - 1) \o SubSeq(Q, k + 1, Len(Q))
      BY <3>1, <1>3
    <3>3. Queue!remove(c)
      BY <3>1, <3>2, Zenon DEF Queue!remove
    <3> QED BY <3>3 DEF Queue!Next
  <2> QED BY <2>1, <2>2, <2>3, <1>1, RemoveQueue
<1>7. ASSUME PopDue PROVE Queue!Next
  <2>1. pop
    BY <1>7 DEF PopDue
  <2>2. /\ Len(Q) \in Nat /\ Len(Q) # 0 /\ QueueEntries' = Del(Q, 1)
        /\ Q[1].expirationTime <= now
    BY <2>1, <1>1, PopQueue
  <2>3. 1 \in 1 .. Len(Q) /\ Q # <<>>
    BY <2>2
  <2>4. QueueEntries' = Tail(Q)
    <3> DEFINE S == [expirationTime : Times, connection : Connections]
               R == QueueEntries'
    <3>1. Q \in Seq(S)
      BY <1>2
    <3>2. R = Del(Q, 1)
      BY <2>2
    <3> HIDE DEF S, Q, R
    <3>3. /\ R \in Seq(S) /\ Len(R) = Len(Q) - 1
          /\ \A i \in 1 .. Len(Q) - 1 : R[i] = Q[i + 1]
      BY <2>3, <3>1, <3>2, DelAt
    <3>4. /\ Tail(Q) \in Seq(S) /\ Len(Tail(Q)) = Len(Q) - 1
          /\ \A i \in 1 .. Len(Tail(Q)) : Tail(Q)[i] = Q[i + 1]
      BY <2>3, <3>1, HeadTailProperties
    <3>5. R = Tail(Q)
      BY <3>3, <3>4, SeqEqual
    <3> QED BY <3>5 DEF R
  <2>5. Head(Q) = Q[1]
    BY <2>3, <1>2
  <2>6. Queue!pop(now)
    BY <2>2, <2>3, <2>4, <2>5 DEF Queue!pop
  <2> QED BY <2>6, <1>1 DEF Queue!Next
<1>8. ASSUME UNCHANGED listVars PROVE QueueEntries' = QueueEntries
  BY <1>1, <1>8, ListsKept
<1>9. CASE UNCHANGED vars
  BY <1>8, <1>9 DEF vars
<1>10. ASSUME NEW c \in Connections, deactivate(c) PROVE QueueEntries' = QueueEntries
  BY <1>8, <1>10 DEF deactivate
<1>11. CASE EnterTimers \/ LeaveTimers \/ system_clock
  BY <1>8, <1>11 DEF EnterTimers, LeaveTimers, system_clock
<1>12. ASSUME tick, session[ticking] = "inactive" PROVE QueueEntries' = QueueEntries
  BY <1>8, <1>12 DEF tick
<1> QED BY <1>4, <1>5, <1>6, <1>7, <1>9, <1>10, <1>11, <1>12, Zenon DEF Next

-----------------------------------------------------------------------------
\* The lists, the sessions and the times of their entries keep the invariant.
THEOREM Inductive == Spec => []IInv
BY InitInv, NextInv, PTL DEF Spec

\* The links and the state of the sessions keep their types.
THEOREM TypeCorrect == Spec => []TypeOK
<1>1. IInv => TypeOK
  <2> SUFFICES ASSUME IInv PROVE TypeOK
    OBVIOUS
  <2>1. Lists(allTasks, priorityTaskList, freeTaskList, PriorityList, FreeList)
    BY ListsShown DEF IInv
  <2>2. /\ Len(allTasks) \in Nat /\ Len(PriorityList) \in Nat /\ Len(FreeList) \in Nat
        /\ priorityTaskList = Nth(PriorityList, 1) /\ freeTaskList = Nth(FreeList, 1)
    BY <2>1, ListNodes
  <2>3. \A i \in 1 .. Len(PriorityList) : PriorityList[i] \in 1 .. Len(allTasks)
    BY <2>1, ListNodes
  <2>4. \A i \in 1 .. Len(FreeList) : FreeList[i] \in 1 .. Len(allTasks)
    BY <2>1, ListNodes
  <2>5. priorityTaskList \in null .. Len(allTasks) /\ freeTaskList \in null .. Len(allTasks)
    BY <2>2, <2>3, <2>4 DEF Nth, null
  <2>6. allTasks \in Seq([next : null .. Len(allTasks), expirationTime : Nat,
                          connection : Connections \cup {NoConnection}])
    BY <2>1 DEF Lists, TaskOf
  <2> QED BY <2>5, <2>6 DEF TypeOK, IInv, Typed
<1> QED BY <1>1, Inductive, PTL

\* No node of the deque is leaked, shared or linked twice, and a free node is
\* clean: the destructor's count and the asserts of push.
THEOREM Conserved == Spec => []NodesConserved
<1>1. IInv => NodesConserved
  <2> SUFFICES ASSUME IInv PROVE NodesConserved
    OBVIOUS
  <2> DEFINE p == PriorityList
             f == FreeList
             all == p \o f
             S == 1 .. Len(allTasks)
             m == Len(p)
             n == Len(f)
  <2>1. Lists(allTasks, priorityTaskList, freeTaskList, p, f)
    BY ListsShown DEF IInv
  <2>2. m \in Nat /\ n \in Nat /\ m + n = Len(allTasks)
    BY <2>1, ListNodes
  <2>3. p \in Seq(S) /\ f \in Seq(S)
    BY <2>1, ListNodes
  <2>4. /\ \A i, j \in 1 .. m : p[i] = p[j] => i = j
        /\ \A i, j \in 1 .. n : f[i] = f[j] => i = j
        /\ \A i \in 1 .. m, j \in 1 .. n : p[i] # f[j]
    BY <2>1 DEF Lists
  <2>5. \A i \in 1 .. n : f[i] \in S
    BY <2>1, ListNodes
  <2>6. \A i \in S : allTasks[i] \in TaskOf(Len(allTasks))
    BY <2>1, ListNodes
  <2>7. \A i \in 1 .. n : allTasks[f[i]] = [NoTask EXCEPT !.next = allTasks[f[i]].next]
    <3> SUFFICES ASSUME NEW i \in 1 .. n
                 PROVE  allTasks[f[i]] = [NoTask EXCEPT !.next = allTasks[f[i]].next]
      OBVIOUS
    <3>1. allTasks[f[i]] \in TaskOf(Len(allTasks))
      BY <2>5, <2>6
    <3>2. allTasks[f[i]].expirationTime = 0 /\ allTasks[f[i]].connection = NoConnection
      BY <2>1 DEF Lists
    <3> QED BY <3>1, <3>2 DEF TaskOf, NoTask
  <2> HIDE DEF S, p, f
  <2>8. /\ Len(all) = m + n
        /\ \A i \in 1 .. m + n : all[i] = IF i <= m THEN p[i] ELSE f[i - m]
    BY <2>3, ConcatProperties
  <2> HIDE DEF all, m, n
  <2>9. ASSUME NEW i \in 1 .. m + n, NEW j \in 1 .. m + n, i # j PROVE all[i] # all[j]
    <3>1. CASE i <= m /\ j <= m
      <4>1. i \in 1 .. m /\ j \in 1 .. m
        BY <3>1, <2>2
      <4> QED BY <3>1, <4>1, <2>4, <2>8, <2>9
    <3>2. CASE i <= m /\ ~ (j <= m)
      <4>1. i \in 1 .. m /\ j - m \in 1 .. n
        BY <3>2, <2>2
      <4> QED BY <3>2, <4>1, <2>4, <2>8
    <3>3. CASE ~ (i <= m) /\ j <= m
      <4>1. j \in 1 .. m /\ i - m \in 1 .. n
        BY <3>3, <2>2
      <4>2. all[i] = f[i - m] /\ all[j] = p[j]
        BY <3>3, <2>8
      <4> QED BY <4>1, <4>2, <2>4
    <3>4. CASE ~ (i <= m) /\ ~ (j <= m)
      <4>1. i - m \in 1 .. n /\ j - m \in 1 .. n /\ i - m # j - m
        BY <3>4, <2>2, <2>9
      <4>2. all[i] = f[i - m] /\ all[j] = f[j - m]
        BY <3>4, <2>8
      <4> QED BY <4>1, <4>2, <2>4
    <3> QED BY <3>1, <3>2, <3>3, <3>4
  <2> QED BY <2>2, <2>7, <2>8, <2>9, Zenon DEF NodesConserved, all, p, f, m, n
<1> QED BY <1>1, Inductive, PTL

\* A session has one entry or is being ticked, and an unregistered connection
\* has none: no pointer to it is left when it is destroyed.
THEOREM OneEntry == Spec => []OneEntryPerSession
<1>1. IInv => OneEntryPerSession
  <2> SUFFICES ASSUME IInv, NEW c \in Connections
               PROVE  LET E == {i \in 1 .. Len(QueueEntries) : QueueEntries[i].connection = c}
                      IN  /\ \A i, j \in E : i = j
                          /\ session[c] = "ready" => (E = {} <=> ticking = c)
                          /\ session[c] = "none" => E = {} /\ ticking # c
    BY DEF OneEntryPerSession
  <2>1. /\ HasOne(QueueEntries, c)
        /\ session[c] = "ready" => (Has(QueueEntries, c) <=> ticking # c)
        /\ session[c] = "none" => ~ Has(QueueEntries, c) /\ ticking # c
    BY DEF IInv, Sessions
  <2> DEFINE E == {i \in 1 .. Len(QueueEntries) : QueueEntries[i].connection = c}
  <2>2. E = {} <=> ~ Has(QueueEntries, c)
    BY DEF Has
  <2>3. \A i, j \in E : i = j
    BY <2>1 DEF HasOne
  <2> HIDE DEF E
  <2>4. /\ \A i, j \in E : i = j
        /\ session[c] = "ready" => (E = {} <=> ticking = c)
        /\ session[c] = "none" => E = {} /\ ticking # c
    BY <2>1, <2>2, <2>3
  <2> QED BY <2>4 DEF E
<1> QED BY <1>1, Inductive, PTL

\* A session is popped for its tick no sooner than its timeout after it began
\* or ticked last, however the clock is set.
THEOREM NotEarly == Spec => NoEarlyTick
<1>1. IInv /\ [Next]_vars =>
         [\A c \in Connections :
             PopDue /\ ticking' = c /\ session[c] = "ready"
                 => now >= ticked[c] + TickTimeout[c]]_vars
  <2> SUFFICES ASSUME IInv, NEW c \in Connections, PopDue, ticking' = c, session[c] = "ready"
               PROVE  now >= ticked[c] + TickTimeout[c]
    OBVIOUS
  <2>1. pop /\ ticking' = allTasks[priorityTaskList].connection
    BY DEF PopDue
  <2>2. /\ Len(QueueEntries) \in Nat /\ Len(QueueEntries) # 0
        /\ QueueEntries[1].expirationTime <= now
        /\ QueueEntries[1].connection = c
    BY <2>1, PopQueue DEF IInv
  <2>3. 1 \in 1 .. Len(QueueEntries)
    BY <2>2
  <2>4. QueueEntries[1].expirationTime = ticked[c] + TickTimeout[c]
    BY <2>2, <2>3 DEF IInv, OnTime
  <2>5. /\ ticked[c] \in Nat /\ TickTimeout[c] \in Nat /\ now \in Nat
    BY TickAssumption, BoundsAssumption DEF IInv, Typed
  <2> QED BY <2>2, <2>4, <2>5
<1> QED BY <1>1, Inductive, PTL DEF Spec, NoEarlyTick

\* Every operation on the linked nodes is that operation of the ordered queue.
THEOREM Implements == Spec => ImplementsTimerQueue
BY QueueInit, QueueNext, Inductive, PTL DEF Spec, ImplementsTimerQueue, Queue!Spec

\* So the entry that is due first is always at the head of the priority list.
THEOREM HeadIsFirst == Spec => []Queue!Sorted
<1>1. Times \subseteq Nat
  BY TimesAre
<1>2. QueueProofs!Spec => [](QueueProofs!TypeOK /\ QueueProofs!Sorted)
  BY <1>1, QueueProofs!Ordered
<1>3. Queue!Init <=> QueueProofs!Init
  BY DEF Queue!Init, QueueProofs!Init
<1>4. [Queue!Next]_QueueEntries <=> [QueueProofs!Next]_QueueEntries
  BY Zenon DEF Queue!Next, Queue!push, Queue!pop, Queue!remove, Queue!InsertBehind,
     QueueProofs!Next, QueueProofs!push, QueueProofs!pop, QueueProofs!remove, QueueProofs!InsertBehind
<1>5. Queue!Sorted <=> QueueProofs!Sorted
  BY DEF Queue!Sorted, QueueProofs!Sorted
<1>6. Queue!Spec => QueueProofs!Spec
  BY <1>3, <1>4, PTL DEF Queue!Spec, QueueProofs!Spec
<1> QED BY <1>2, <1>5, <1>6, Implements, PTL DEF ImplementsTimerQueue

=============================================================================
