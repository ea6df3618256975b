--------------------------- MODULE TimerQueueProofs ---------------------------
(***************************************************************************)
(* The queue of module TimerQueue stays ordered by expiration time, for    *)
(* any connections and times.                                              *)
(***************************************************************************)
EXTENDS TimerQueue, SequenceTheorems, TLAPS

\* Two sequences one behind the other.
LEMMA GluedAt ==
    ASSUME NEW S, NEW a \in Seq(S), NEW b \in Seq(S)
    PROVE  /\ a \o b \in Seq(S)
           /\ Len(a \o b) = Len(a) + Len(b)
           /\ \A i \in 1 .. Len(a) : (a \o b)[i] = a[i]
           /\ \A i \in 1 .. Len(b) : (a \o b)[i + Len(a)] = b[i]
<1>. DEFINE ab == a \o b
<1>0. Len(a) \in Nat /\ Len(b) \in Nat
  OBVIOUS
<1>1. /\ ab \in Seq(S)
      /\ Len(ab) = Len(a) + Len(b)
      /\ \A i \in 1 .. Len(a) + Len(b) : ab[i] = IF i <= Len(a) THEN a[i] ELSE b[i - Len(a)]
  BY ConcatProperties
<1>. HIDE DEF ab
<1>2. ASSUME NEW i \in 1 .. Len(a)
      PROVE  ab[i] = a[i]
  BY <1>0, <1>1
<1>3. ASSUME NEW i \in 1 .. Len(b)
      PROVE  ab[i + Len(a)] = b[i]
  <2>1. /\ i + Len(a) \in 1 .. Len(a) + Len(b)
        /\ ~ (i + Len(a) <= Len(a))
        /\ (i + Len(a)) - Len(a) = i
    BY <1>0
  <2>. QED
    BY <2>1, <1>1
<1>. QED
  BY <1>1, <1>2, <1>3 DEF ab

\* Putting an entry e behind the first k.
Inserted(s, k, e) == SubSeq(s, 1, k) \o <<e>> \o SubSeq(s, k + 1, Len(s))

\* What inserting an entry behind the first k does, position by position.
LEMMA InsertedAt ==
    ASSUME NEW S, NEW s, s \in Seq(S), NEW k \in 0 .. Len(s), NEW e, e \in S,
           NEW r, r = Inserted(s, k, e)
    PROVE  /\ r \in Seq(S)
           /\ Len(r) = Len(s) + 1
           /\ \A i \in 1 .. k : r[i] = s[i]
           /\ r[k + 1] = e
           /\ \A i \in k + 2 .. Len(s) + 1 : r[i] = s[i - 1]
<1>. DEFINE n == Len(s)
            a == SubSeq(s, 1, k)
            b == SubSeq(s, k + 1, Len(s))
            d == <<e>>
            c == a \o d
<1>1. n \in Nat /\ k \in Nat /\ k <= n /\ n - k \in Nat /\ k + 1 \in Nat
  BY LenProperties
<1>2. a \in Seq(S) /\ Len(a) = k /\ \A i \in 1 .. k : a[i] = s[i]
  OBVIOUS
<1>3. b \in Seq(S) /\ Len(b) = n - k /\ \A i \in 1 .. n - k : b[i] = s[i + k]
  OBVIOUS
<1>4. d \in Seq(S) /\ Len(d) = 1 /\ d[1] = e
  OBVIOUS
<1>5. r = c \o b
  BY DEF Inserted
<1>6. n = Len(s)
  OBVIOUS
<1>7. c = a \o d
  OBVIOUS
<1>. HIDE DEF n, a, b, c, d
<1>8. c \in Seq(S) /\ Len(c) = k + 1 /\ (\A i \in 1 .. k : c[i] = s[i]) /\ c[k + 1] = e
  <2>1. c \in Seq(S)
    BY <1>2, <1>4, <1>7, GluedAt
  <2>2. Len(c) = Len(a) + Len(d)
    BY <1>2, <1>4, <1>7, GluedAt
  <2>3. \A i \in 1 .. k : c[i] = a[i]
    BY <1>2, <1>4, <1>7, GluedAt
  <2>4. \A i \in 1 .. Len(d) : c[i + Len(a)] = d[i]
    <3>. a \in Seq(S) /\ d \in Seq(S)
      BY <1>2, <1>4
    <3>. QED
      BY <1>7, GluedAt
  <2>5. c[1 + k] = e /\ 1 + k = k + 1
    BY <2>4, <1>1, <1>2, <1>4
  <2>. QED
    BY <2>1, <2>2, <2>3, <2>5, <1>1, <1>2, <1>4
<1>16. b \in Seq(S) /\ c \in Seq(S)
  BY <1>3, <1>8
<1>9. r \in Seq(S)
  BY <1>5, <1>16, GluedAt
<1>10. Len(r) = Len(c) + Len(b)
  BY <1>5, <1>16, GluedAt
<1>11. \A i \in 1 .. Len(c) : r[i] = c[i]
  BY <1>5, <1>16, GluedAt
<1>12. \A i \in 1 .. Len(b) : r[i + Len(c)] = b[i]
  BY <1>5, <1>16, GluedAt
<1>13. ASSUME NEW i \in k + 2 .. n + 1
       PROVE  r[i] = s[i - 1]
  <2>1. /\ i - (k + 1) \in 1 .. n - k
        /\ (i - (k + 1)) + k = i - 1
        /\ (i - (k + 1)) + (k + 1) = i
    BY <1>1
  <2>. QED
    BY <2>1, <1>3, <1>8, <1>12
<1>14. Len(r) = n + 1
  BY <1>1, <1>3, <1>8, <1>10
<1>15. (\A i \in 1 .. k : r[i] = s[i]) /\ r[k + 1] = e
  BY <1>1, <1>8, <1>11
<1>. QED
  BY <1>6, <1>9, <1>13, <1>14, <1>15

\* Taking out entry k.
Removed(s, k) == SubSeq(s, 1, k - 1) \o SubSeq(s, k + 1, Len(s))

\* What taking out entry k does, position by position.
LEMMA RemovedAt ==
    ASSUME NEW S, NEW s, s \in Seq(S), NEW k \in 1 .. Len(s),
           NEW r, r = Removed(s, k)
    PROVE  /\ r \in Seq(S)
           /\ Len(r) = Len(s) - 1
           /\ \A i \in 1 .. k - 1 : r[i] = s[i]
           /\ \A i \in k .. Len(s) - 1 : r[i] = s[i + 1]
<1>. DEFINE n == Len(s)
            a == SubSeq(s, 1, k - 1)
            b == SubSeq(s, k + 1, Len(s))
<1>1. n \in Nat /\ k \in Nat /\ 1 <= k /\ k <= n /\ n - k \in Nat /\ k - 1 \in Nat
  BY LenProperties
<1>2. a \in Seq(S) /\ Len(a) = k - 1 /\ \A i \in 1 .. k - 1 : a[i] = s[i]
  OBVIOUS
<1>3. b \in Seq(S) /\ Len(b) = n - k /\ \A i \in 1 .. n - k : b[i] = s[i + k]
  OBVIOUS
<1>4. r = a \o b
  BY DEF Removed
<1>5. n = Len(s)
  OBVIOUS
<1>. HIDE DEF n, a, b
<1>12. a \in Seq(S) /\ b \in Seq(S)
  BY <1>2, <1>3
<1>6. r \in Seq(S)
  BY <1>4, <1>12, GluedAt
<1>7. Len(r) = Len(a) + Len(b)
  BY <1>4, <1>12, GluedAt
<1>8. \A i \in 1 .. Len(a) : r[i] = a[i]
  BY <1>4, <1>12, GluedAt
<1>9. \A i \in 1 .. Len(b) : r[i + Len(a)] = b[i]
  BY <1>4, <1>12, GluedAt
<1>10. ASSUME NEW i \in k .. n - 1
       PROVE  r[i] = s[i + 1]
  <2>1. /\ i - (k - 1) \in 1 .. n - k
        /\ (i - (k - 1)) + k = i + 1
        /\ (i - (k - 1)) + (k - 1) = i
    BY <1>1
  <2>2. r[i] = b[i - (k - 1)]
    BY <2>1, <1>2, <1>3, <1>9
  <2>. QED
    BY <2>1, <2>2, <1>3
<1>11. Len(r) = n - 1
  BY <1>1, <1>2, <1>3, <1>7
<1>. QED
  BY <1>2, <1>5, <1>6, <1>8, <1>10, <1>11

\* The operations keep the type of the queue and its order.
LEMMA PushOrdered ==
    ASSUME Times \subseteq Nat, TypeOK, Sorted, NEW t \in Times, NEW c \in Connections, push(t, c)
    PROVE  TypeOK' /\ Sorted'
<1>. DEFINE e == [expirationTime |-> t, connection |-> c]
<1>1. PICK k \in 0 .. Len(entries) :
        /\ \A i \in 1 .. k : entries[i].expirationTime <= t
        /\ k < Len(entries) => t < entries[k + 1].expirationTime
        /\ InsertBehind(k, e)
  BY DEF push
<1>2. e \in Entry /\ e.expirationTime = t
  BY DEF Entry
<1>. HIDE DEF e
<1>3. entries \in Seq(Entry)
  BY DEF TypeOK
<1>4. /\ entries' \in Seq(Entry)
      /\ Len(entries') = Len(entries) + 1
      /\ \A i \in 1 .. k : entries'[i] = entries[i]
      /\ entries'[k + 1] = e
      /\ \A i \in k + 2 .. Len(entries) + 1 : entries'[i] = entries[i - 1]
  <2>1. entries' = Inserted(entries, k, e)
    BY <1>1 DEF InsertBehind, Inserted
  <2>2. entries' \in Seq(Entry)
    BY <2>1, <1>2, <1>3, InsertedAt
  <2>3. Len(entries') = Len(entries) + 1
    BY <2>1, <1>2, <1>3, InsertedAt
  <2>4. \A i \in 1 .. k : entries'[i] = entries[i]
    BY <2>1, <1>2, <1>3, InsertedAt
  <2>5. entries'[k + 1] = e
    BY <2>1, <1>2, <1>3, InsertedAt
  <2>6. \A i \in k + 2 .. Len(entries) + 1 : entries'[i] = entries[i - 1]
    BY <2>1, <1>2, <1>3, InsertedAt
  <2>. QED
    BY <2>2, <2>3, <2>4, <2>5, <2>6
<1>5. ASSUME NEW i \in 1 .. Len(entries)
      PROVE  entries[i].expirationTime \in Nat
  <2>1. entries[i] \in Entry
    BY <1>3, ElementOfSeq
  <2>. QED
    BY <2>1 DEF Entry
<1>6. t \in Nat
  OBVIOUS
<1>7. \A i \in k + 1 .. Len(entries) : t < entries[i].expirationTime
  <2>. SUFFICES ASSUME NEW i \in k + 1 .. Len(entries)
                PROVE  t < entries[i].expirationTime
    OBVIOUS
  <2>1. entries[k + 1].expirationTime <= entries[i].expirationTime
    BY <1>3, <1>5 DEF Sorted
  <2>. QED
    BY <2>1, <1>1, <1>3, <1>5, <1>6
<1>8. ASSUME NEW i \in 1 .. Len(entries'), NEW j \in 1 .. Len(entries'), i < j
      PROVE  entries'[i].expirationTime <= entries'[j].expirationTime
  <2>1. CASE j <= k
    <3>1. i \in 1 .. k /\ j \in 1 .. k /\ i \in 1 .. Len(entries) /\ j \in 1 .. Len(entries)
      BY <2>1, <1>3, <1>4, <1>8
    <3>2. entries'[i] = entries[i] /\ entries'[j] = entries[j]
      BY <3>1, <1>4
    <3>. QED
      BY <3>1, <3>2, <1>8 DEF Sorted
  <2>2. CASE j = k + 1
    BY <2>2, <1>1, <1>2, <1>3, <1>4, <1>8
  <2>3. CASE j > k + 1 /\ i <= k
    <3>1. i \in 1 .. Len(entries) /\ j - 1 \in 1 .. Len(entries) /\ i < j - 1
      BY <2>3, <1>3, <1>4
    <3>2. entries'[i] = entries[i] /\ entries'[j] = entries[j - 1]
      BY <2>3, <1>3, <1>4
    <3>. QED
      BY <3>1, <3>2 DEF Sorted
  <2>4. CASE j > k + 1 /\ i = k + 1
    <3>1. j - 1 \in k + 1 .. Len(entries)
      BY <2>4, <1>3, <1>4
    <3>2. entries'[i] = e /\ entries'[j] = entries[j - 1]
      BY <2>4, <1>3, <1>4
    <3>3. t < entries[j - 1].expirationTime /\ entries[j - 1].expirationTime \in Nat
      BY <3>1, <1>3, <1>5, <1>7
    <3>. QED
      BY <3>2, <3>3, <1>2, <1>6
  <2>5. CASE i > k + 1
    <3>1. i - 1 \in 1 .. Len(entries) /\ j - 1 \in 1 .. Len(entries) /\ i - 1 < j - 1
      BY <2>5, <1>3, <1>4, <1>8
    <3>2. entries'[i] = entries[i - 1] /\ entries'[j] = entries[j - 1]
      BY <2>5, <1>3, <1>4, <1>8
    <3>. QED
      BY <3>1, <3>2 DEF Sorted
  <2>. QED
    BY <2>1, <2>2, <2>3, <2>4, <2>5, <1>3, <1>4, <1>8
<1>. QED
  BY <1>4, <1>8 DEF TypeOK, Sorted

\* Popping the head keeps the order.
LEMMA PopOrdered ==
    ASSUME Times \subseteq Nat, TypeOK, Sorted, NEW t \in Times, pop(t)
    PROVE  TypeOK' /\ Sorted'
<1>1. /\ entries' \in Seq(Entry)
      /\ Len(entries') = Len(entries) - 1
      /\ \A i \in 1 .. Len(entries') : entries'[i] = entries[i + 1]
  BY DEF TypeOK, pop
<1>2. ASSUME NEW i \in 1 .. Len(entries'), NEW j \in 1 .. Len(entries'), i < j
      PROVE  entries'[i].expirationTime <= entries'[j].expirationTime
  <2>1. i + 1 \in 1 .. Len(entries) /\ j + 1 \in 1 .. Len(entries) /\ i + 1 < j + 1
    BY <1>1, <1>2 DEF TypeOK
  <2>. QED
    BY <2>1, <1>1 DEF Sorted
<1>. QED
  BY <1>1, <1>2 DEF TypeOK, Sorted

\* Removing an entry keeps the order.
LEMMA RemoveOrdered ==
    ASSUME Times \subseteq Nat, TypeOK, Sorted, NEW c \in Connections, remove(c)
    PROVE  TypeOK' /\ Sorted'
<1>1. PICK k \in 1 .. Len(entries) : entries' = Removed(entries, k)
  BY DEF remove, Removed
<1>2. /\ entries' \in Seq(Entry)
      /\ Len(entries') = Len(entries) - 1
      /\ \A i \in 1 .. k - 1 : entries'[i] = entries[i]
      /\ \A i \in k .. Len(entries) - 1 : entries'[i] = entries[i + 1]
  <2>1. entries \in Seq(Entry)
    BY DEF TypeOK
  <2>2. entries' \in Seq(Entry)
    BY <2>1, <1>1, RemovedAt
  <2>3. Len(entries') = Len(entries) - 1
    BY <2>1, <1>1, RemovedAt
  <2>4. \A i \in 1 .. k - 1 : entries'[i] = entries[i]
    BY <2>1, <1>1, RemovedAt, SMTT(30)
  <2>5. \A i \in k .. Len(entries) - 1 : entries'[i] = entries[i + 1]
    BY <2>1, <1>1, RemovedAt, SMTT(30)
  <2>. QED
    BY <2>2, <2>3, <2>4, <2>5
<1>3. ASSUME NEW i \in 1 .. Len(entries'), NEW j \in 1 .. Len(entries'), i < j
      PROVE  entries'[i].expirationTime <= entries'[j].expirationTime
  <2>. DEFINE old(n) == IF n < k THEN n ELSE n + 1
  <2>1. old(i) \in 1 .. Len(entries) /\ old(j) \in 1 .. Len(entries) /\ old(i) < old(j)
    BY <1>2, <1>3 DEF TypeOK
  <2>2. entries'[i] = entries[old(i)] /\ entries'[j] = entries[old(j)]
    BY <1>2, <1>3
  <2>. QED
    BY <2>1, <2>2 DEF Sorted
<1>. QED
  BY <1>2, <1>3 DEF TypeOK, Sorted

-----------------------------------------------------------------------------
\* Pushes, pops and removes in any order leave a queue of entries whose head is
\* the one to expire first: the assert of timer_queue::pop.
THEOREM Ordered ==
    ASSUME Times \subseteq Nat
    PROVE  Spec => [](TypeOK /\ Sorted)
<1>1. Init => TypeOK /\ Sorted
  BY DEF Init, TypeOK, Sorted
<1>2. TypeOK /\ Sorted /\ [Next]_entries => TypeOK' /\ Sorted'
  <2>. SUFFICES ASSUME TypeOK, Sorted, [Next]_entries
                PROVE  TypeOK' /\ Sorted'
    OBVIOUS
  <2>1. CASE UNCHANGED entries
    BY <2>1 DEF TypeOK, Sorted
  <2>2. CASE Next
    BY <2>2, PushOrdered, PopOrdered, RemoveOrdered DEF Next
  <2>. QED
    BY <2>1, <2>2
<1>. QED
  BY <1>1, <1>2, PTL DEF Spec

=============================================================================
