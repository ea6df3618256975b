------------------------ MODULE RestConnectionProofs ------------------------
(***************************************************************************)
(* Proofs of the safety of RestConnection, for any headers, paths, queries *)
(* and timeouts a client gives and any bounds on headers, bodies and       *)
(* requests.  What a send task finds, and the promise made to the client   *)
(* (RequestReply), are proved for a configuration that curl refuses before *)
(* the client's first request (~RegisterRaces).                            *)
(***************************************************************************)
EXTENDS RestConnection, SequenceTheorems, WellFoundedInduction, TLAPS

-----------------------------------------------------------------------------
(* The first and the last place in a text.                                 *)

\* A set of numbers has a least member.
LEMMA Least ==
    ASSUME NEW S \in SUBSET Nat, S # {}
    PROVE  \E m \in S : \A k \in S : m <= k
  <1>1. PICK m \in S : \A k \in S : ~(<<k, m>> \in OpToRel(<, Nat))
    BY NatLessThanWellFounded, WFMin
  <1>2. \A k \in S : <<k, m>> \in Nat \X Nat
    OBVIOUS
  <1>3. \A k \in S : ~(k < m)
    BY <1>1, <1>2 DEF OpToRel
  <1> QED BY <1>3

\* A set of the places of a text has a greatest member.
LEMMA Greatest ==
    ASSUME NEW n \in Nat, NEW S \in SUBSET (1 .. n), S # {}
    PROVE  \E m \in S : \A k \in S : k <= m
  <1> DEFINE T == {n - k : k \in S}
  <1>1. T \in SUBSET Nat /\ T # {}
    <2>1. \A k \in S : n - k \in Nat
      OBVIOUS
    <2> QED BY <2>1
  <1>2. PICK d \in T : \A e \in T : d <= e
    BY <1>1, Least
  <1>3. PICK m \in S : d = n - m
    OBVIOUS
  <1>4. \A k \in S : n - m <= n - k
    BY <1>2, <1>3
  <1> QED BY <1>4

\* The minimum and the maximum are the members that bound the others.
LEMMA MinIs ==
    ASSUME NEW S \in SUBSET Nat, NEW m \in S, \A k \in S : m <= k
    PROVE  Min(S) = m
  <1>1. \A x \in S : (\A y \in S : x =< y) => x = m
    OBVIOUS
  <1> QED BY <1>1 DEF Min

\* An element that no other exceeds is the maximum.
LEMMA MaxIs ==
    ASSUME NEW S \in SUBSET Nat, NEW m \in S, \A k \in S : k <= m
    PROVE  Max(S) = m
  <1>1. \A x \in S : (\A y \in S : x >= y) => x = m
    OBVIOUS
  <1> QED BY <1>1 DEF Max

-----------------------------------------------------------------------------
(* Texts: trim, header lines and targets.                                  *)

\* A text of one character, and one of two.
LEMMA Unit ==
    ASSUME NEW S, NEW e \in S
    PROVE  <<e>> \in Seq(S) /\ Len(<<e>>) = 1 /\ <<e>>[1] = e
  OBVIOUS

\* A pair is the concatenation of its two elements.
LEMMA Pair ==
    ASSUME NEW S, NEW e \in S, NEW f \in S
    PROVE  <<e, f>> = <<e>> \o <<f>>
  <1> DEFINE u == <<e>> \o <<f>>
             v == <<e, f>>
  <1>1. /\ u \in Seq(S) /\ Len(u) = 1 + 1
        /\ \A i \in 1 .. 1 + 1 : u[i] = IF i <= 1 THEN <<e>>[i] ELSE <<f>>[i - 1]
    BY Unit, ConcatProperties
  <1>2. v \in Seq(S) /\ Len(v) = 2 /\ v[1] = e /\ v[2] = f
    OBVIOUS
  <1> HIDE DEF u, v
  <1>3. u[1] = e /\ u[2] = f
    BY <1>1, Unit
  <1>4. \A i \in 1 .. Len(u) : u[i] = v[i]
    BY <1>1, <1>2, <1>3
  <1>5. u = v
    BY <1>1, <1>2, <1>4, SeqEqual
  <1> QED BY <1>5 DEF u, v

NotBlanks(t) == {i \in 1 .. Len(t) : IsNotBlank(t[i])}

\* What trim keeps: all from the first character that is no blank to the last one.
LEMMA TrimBlank ==
    ASSUME NEW t \in Text, NotBlanks(t) = {}
    PROVE  trim(t) = <<>>
  BY DEF trim, SelectInSeq, NotBlanks

\* trim keeps what lies between the first and the last character that is no
\* blank.
LEMMA TrimBetween ==
    ASSUME NEW t \in Text, NEW a \in NotBlanks(t), NEW b \in NotBlanks(t),
           \A k \in NotBlanks(t) : a <= k /\ k <= b
    PROVE  trim(t) = SubSeq(t, a, b)
  <1>1. Len(t) \in Nat
    BY LenProperties DEF Text
  <1>2. NotBlanks(t) \in SUBSET Nat /\ NotBlanks(t) # {}
    BY <1>1 DEF NotBlanks
  <1>3. Min(NotBlanks(t)) = a /\ Max(NotBlanks(t)) = b
    BY <1>2, MinIs, MaxIs
  <1>4. SelectInSeq(t, IsNotBlank) = a
    BY <1>2, <1>3 DEF SelectInSeq, NotBlanks
  <1>5. SelectLastInSeq(t, IsNotBlank) = b
    BY <1>2, <1>3 DEF SelectLastInSeq, NotBlanks
  <1>6. a # 0
    BY <1>1 DEF NotBlanks
  <1> QED BY <1>4, <1>5, <1>6 DEF trim

\* A blank before a text is trimmed away.
LEMMA TrimAfterBlank ==
    ASSUME NEW t \in Text, NEW c \in Char, ~IsNotBlank(c)
    PROVE  trim(<<c>> \o t) = trim(t)
  <1> DEFINE u == <<c>> \o t
  <1>1. <<c>> \in Seq(Char) /\ Len(<<c>>) = 1 /\ <<c>>[1] = c /\ t \in Seq(Char)
    BY Unit DEF Text
  <1>2. Len(t) \in Nat
    BY <1>1, LenProperties
  <1>3. u \in Seq(Char) /\ Len(u) = 1 + Len(t) /\ u[1] = c /\ \A i \in 1 .. Len(t) : u[i + 1] = t[i]
    <2>1. /\ u \in Seq(Char) /\ Len(u) = 1 + Len(t)
          /\ \A i \in 1 .. 1 + Len(t) : u[i] = IF i <= 1 THEN <<c>>[i] ELSE t[i - 1]
      BY <1>1, <1>2, ConcatProperties
    <2> HIDE DEF u
    <2>2. u[1] = c
      BY <1>1, <1>2, <2>1
    <2>3. \A i \in 1 .. Len(t) : i + 1 \in 1 .. 1 + Len(t) /\ ~(i + 1 <= 1) /\ (i + 1) - 1 = i
      BY <1>2
    <2>4. \A i \in 1 .. Len(t) : u[i + 1] = t[i]
      BY <2>1, <2>3
    <2> QED BY <2>1, <2>2, <2>4
  <1> HIDE DEF u
  <1>5. \A i \in 1 .. Len(u) : i \in NotBlanks(u) <=> i - 1 \in NotBlanks(t)
    <2> SUFFICES ASSUME NEW i \in 1 .. Len(u)
                 PROVE  i \in NotBlanks(u) <=> i - 1 \in NotBlanks(t)
      OBVIOUS
    <2>1. CASE i = 1
      <3>1. i - 1 \notin 1 .. Len(t) /\ u[i] = c
        BY <1>2, <1>3, <2>1
      <3> QED BY <3>1 DEF NotBlanks
    <2>2. CASE i # 1
      <3>1. i - 1 \in 1 .. Len(t) /\ i = (i - 1) + 1
        BY <1>2, <1>3, <2>2
      <3>2. u[i] = t[i - 1]
        BY <1>3, <3>1
      <3> QED BY <3>1, <3>2 DEF NotBlanks
    <2> QED BY <2>1, <2>2
  <1>6. \A i \in NotBlanks(t) : i \in 1 .. Len(t) /\ i + 1 \in NotBlanks(u)
    <2>1. \A i \in NotBlanks(t) : i \in 1 .. Len(t)
      BY DEF NotBlanks
    <2>2. \A i \in 1 .. Len(t) : i + 1 \in 1 .. Len(u) /\ (i + 1) - 1 = i
      BY <1>2, <1>3
    <2> QED BY <1>5, <2>1, <2>2
  <1>7. \A i \in NotBlanks(u) : i \in 1 .. Len(u) /\ i - 1 \in NotBlanks(t)
    BY <1>5 DEF NotBlanks
  <1>8. CASE NotBlanks(t) = {}
    BY <1>1, <1>3, <1>7, <1>8, TrimBlank DEF u, Text
  <1>9. CASE NotBlanks(t) # {}
    <2>1. NotBlanks(t) \in SUBSET (1 .. Len(t)) /\ NotBlanks(t) \in SUBSET Nat
      BY DEF NotBlanks
    <2>2. PICK a \in NotBlanks(t) : \A k \in NotBlanks(t) : a <= k
      BY <1>9, <2>1, Least
    <2>3. PICK b \in NotBlanks(t) : \A k \in NotBlanks(t) : k <= b
      BY <1>2, <1>9, <2>1, Greatest
    <2>4. trim(t) = SubSeq(t, a, b)
      BY <2>2, <2>3, TrimBetween
    <2>5. a \in 1 .. Len(t) /\ b \in 1 .. Len(t)
      BY <2>1
    <2>6. \A k \in NotBlanks(u) : a + 1 <= k /\ k <= b + 1
      <3> SUFFICES ASSUME NEW k \in NotBlanks(u)
                   PROVE  a + 1 <= k /\ k <= b + 1
        OBVIOUS
      <3>1. k \in 1 .. Len(u) /\ a <= k - 1 /\ k - 1 <= b
        BY <1>7, <2>2, <2>3
      <3> QED BY <1>2, <1>3, <2>5, <3>1
    <2>7. trim(u) = SubSeq(u, a + 1, b + 1)
      BY <1>3, <1>6, <2>6, TrimBetween DEF Text
    <2>8. SubSeq(u, a + 1, b + 1) = SubSeq(t, a, b)
      <3> DEFINE v == SubSeq(u, a + 1, b + 1)
                 w == SubSeq(t, a, b)
      <3>0. /\ \A i \in a .. b : i \in 1 .. Len(t) /\ t[i] \in Char
            /\ a \in Int /\ b \in Int
        BY <1>1, <1>2, <2>5, ElementOfSeq
      <3>1. /\ w \in Seq(Char) /\ Len(w) = IF a <= b THEN b - a + 1 ELSE 0
            /\ \A i \in 1 .. b - a + 1 : w[i] = t[a + i - 1]
        BY <3>0, SubSeqProperties
      <3>2. /\ \A i \in a + 1 .. b + 1 : i \in 1 .. Len(u) /\ u[i] \in Char
            /\ a + 1 \in Int /\ b + 1 \in Int
        BY <1>2, <1>3, <2>5, ElementOfSeq
      <3>3. /\ v \in Seq(Char)
            /\ Len(v) = IF a + 1 <= b + 1 THEN (b + 1) - (a + 1) + 1 ELSE 0
            /\ \A i \in 1 .. (b + 1) - (a + 1) + 1 : v[i] = u[(a + 1) + i - 1]
        BY <3>2, SubSeqProperties
      <3> HIDE DEF v, w
      <3>4. Len(v) = Len(w) /\ Len(w) \in Nat /\ \A i \in 1 .. Len(w) : i \in 1 .. b - a + 1
        BY <2>5, <1>2, <3>1, <3>3
      <3>5. \A i \in 1 .. Len(w) : v[i] = w[i]
        <4> SUFFICES ASSUME NEW i \in 1 .. Len(w) PROVE v[i] = w[i]
          OBVIOUS
        <4>1. a + i - 1 \in 1 .. Len(t) /\ (a + 1) + i - 1 = (a + i - 1) + 1
          BY <1>2, <2>5, <3>4
        <4>2. v[i] = u[(a + i - 1) + 1]
          BY <1>2, <2>5, <3>3, <3>4, <4>1
        <4>3. u[(a + i - 1) + 1] = t[a + i - 1]
          BY <1>3, <4>1
        <4>4. w[i] = t[a + i - 1]
          BY <3>1, <3>4
        <4> QED BY <4>2, <4>3, <4>4
      <3>6. v = w
        BY <3>1, <3>3, <3>4, <3>5, SeqEqual
      <3> QED BY <3>6 DEF v, w
    <2> QED BY <2>4, <2>7, <2>8 DEF u
  <1> QED BY <1>8, <1>9

\* The first place of c, when c is in no place before it.
LEMMA FirstColon ==
    ASSUME NEW t \in Text, NEW m \in 1 .. Len(t), t[m] = ":",
           \A i \in 1 .. m - 1 : t[i] # ":"
    PROVE  SelectInSeq(t, IsColon) = m
  <1> DEFINE S == {i \in 1 .. Len(t) : IsColon(t[i])}
  <1>1. Len(t) \in Nat
    BY LenProperties DEF Text
  <1>2. S \in SUBSET Nat /\ m \in S /\ \A k \in S : m <= k
    BY <1>1 DEF IsColon
  <1>3. Min(S) = m
    BY <1>2, MinIs
  <1> QED BY <1>2, <1>3 DEF SelectInSeq

\* A header line is taken apart at the colon after its name.
LEMMA SplitLine ==
    ASSUME NEW name \in Text, NEW rest \in Text, ~Contains(name, ":")
    PROVE  split_http_header((name \o <<":">>) \o rest)
               = [name |-> trim(name), value |-> trim(rest)]
  <1> DEFINE line == (name \o <<":">>) \o rest
             d == Len(name) + 1
  <1>1. <<":">> \in Seq(Char) /\ Len(<<":">>) = 1 /\ <<":">>[1] = ":"
    BY CharAssumption, Unit
  <1>2. /\ name \in Seq(Char) /\ rest \in Seq(Char)
        /\ Len(name) \in Nat /\ Len(rest) \in Nat
    BY LenProperties DEF Text
  <1>3. \A i \in 1 .. Len(name) : name[i] # ":"
    BY DEF Contains
  <1> DEFINE front == name \o <<":">>
  <1>4. /\ front \in Seq(Char) /\ Len(front) = Len(name) + 1
        /\ \A i \in 1 .. Len(name) + 1 : front[i] = IF i <= Len(name) THEN name[i] ELSE ":"
    BY <1>1, <1>2, ConcatProperties
  <1> HIDE DEF front
  <1>5. /\ front \o rest \in Seq(Char) /\ Len(front \o rest) = d + Len(rest)
        /\ \A i \in 1 .. d + Len(rest) :
              (front \o rest)[i] = IF i <= d THEN front[i] ELSE rest[i - d]
    <2>1. /\ front \o rest \in Seq(Char) /\ Len(front \o rest) = Len(front) + Len(rest)
          /\ \A i \in 1 .. Len(front) + Len(rest) :
                (front \o rest)[i] = IF i <= Len(front) THEN front[i] ELSE rest[i - Len(front)]
      BY <1>2, <1>4, ConcatProperties
    <2>2. Len(front) = d
      BY <1>4
    <2> QED BY <2>1, <2>2, Zenon
  <1>6. line = front \o rest
    BY DEF front
  <1>7. SelectInSeq(line, IsColon) = d
    <2>1. /\ line \in Text /\ d \in 1 .. Len(line) /\ line[d] = ":"
          /\ \A i \in 1 .. d - 1 : line[i] # ":"
      BY <1>2, <1>3, <1>4, <1>5, <1>6 DEF Text
    <2> HIDE DEF line, d
    <2> QED BY <2>1, FirstColon
  <1>8. SubSeq(line, 1, d - 1) = name
    <2>1. /\ SubSeq(line, 1, d - 1) \in Seq(Char) /\ Len(SubSeq(line, 1, d - 1)) = Len(name)
          /\ \A i \in 1 .. Len(name) : SubSeq(line, 1, d - 1)[i] = line[i]
      BY <1>2, <1>4, <1>5, <1>6
    <2> QED BY <1>2, <1>4, <1>5, <1>6, <2>1, SeqEqual
  <1>9. SubSeq(line, d + 1, Len(line)) = rest
    <2>1. /\ SubSeq(line, d + 1, Len(line)) \in Seq(Char)
          /\ Len(SubSeq(line, d + 1, Len(line))) = Len(rest)
          /\ \A i \in 1 .. Len(rest) : SubSeq(line, d + 1, Len(line))[i] = line[d + i]
      BY <1>2, <1>4, <1>5, <1>6
    <2>2. \A i \in 1 .. Len(rest) : line[d + i] = rest[i]
      BY <1>2, <1>5, <1>6
    <2> QED BY <1>2, <2>1, <2>2, SeqEqual
  <1>10. d # 0
    BY <1>2
  <1> HIDE DEF line, d
  <1>11. split_http_header(line) = [name |-> trim(name), value |-> trim(rest)]
    BY <1>7, <1>8, <1>9, <1>10 DEF split_http_header
  <1> QED BY <1>11 DEF line

\* A text of two characters between two texts.
LEMMA PairBetween ==
    ASSUME NEW s \in Text, NEW t \in Text, NEW c \in Char, NEW d \in Char
    PROVE  (s \o <<c, d>>) \o t = (s \o <<c>>) \o (<<d>> \o t)
  <1> DEFINE u == <<c>>
             v == <<d>>
  <1>0. s \in Seq(Char) /\ t \in Seq(Char)
    BY DEF Text
  <1>1. u \in Seq(Char) /\ v \in Seq(Char) /\ s \o u \in Seq(Char) /\ <<c, d>> = u \o v
    BY <1>0, Unit, Pair, ConcatProperties
  <1> HIDE DEF u, v
  <1>a. \A x, y, z \in Seq(Char) : (x \o y) \o z = x \o (y \o z)
    BY ConcatAssociative
  <1>2. s \o (u \o v) = (s \o u) \o v
    BY <1>0, <1>1, <1>a, Zenon
  <1>3. ((s \o u) \o v) \o t = (s \o u) \o (v \o t)
    BY <1>0, <1>1, <1>a, Zenon
  <1>4. (s \o <<c, d>>) \o t = (s \o u) \o (v \o t)
    BY <1>1, <1>2, <1>3
  <1> QED BY <1>4 DEF u, v

\* A header is read back from either line a client may give it as.
LEMMA NameReadBack ==
    ASSUME NEW name \in Text, NEW value \in Text, ~Contains(name, ":")
    PROVE  /\ (name \o <<":", " ">>) \o value \in Text /\ (name \o <<":">>) \o value \in Text
           /\ split_http_header((name \o <<":", " ">>) \o value)
                  = [name |-> trim(name), value |-> trim(value)]
           /\ split_http_header((name \o <<":">>) \o value)
                  = [name |-> trim(name), value |-> trim(value)]
  <1>1. ":" \in Char /\ " " \in Char /\ ~IsNotBlank(" ") /\ Text = Seq(Char)
    BY CharAssumption DEF IsNotBlank, IsBlank, Blank, Text
  <1>2. (name \o <<":", " ">>) \o value = (name \o <<":">>) \o (<<" ">> \o value)
    <2>1. \A s, t \in Text : \A c, d \in Char : (s \o <<c, d>>) \o t = (s \o <<c>>) \o (<<d>> \o t)
      BY PairBetween
    <2>2. \A c, d \in Char : (name \o <<c, d>>) \o value = (name \o <<c>>) \o (<<d>> \o value)
      BY <2>1, Zenon
    <2> QED BY <1>1, <2>2, Zenon
  <1>3. <<":">> \in Text /\ <<" ">> \in Text
    BY <1>1, Unit
  <1>4. name \o <<":">> \in Text /\ <<" ">> \o value \in Text
    BY <1>1, <1>3, ConcatProperties
  <1>5. (name \o <<":">>) \o value \in Text /\ (name \o <<":">>) \o (<<" ">> \o value) \in Text
    BY <1>1, <1>4, ConcatProperties
  <1>6. split_http_header((name \o <<":">>) \o (<<" ">> \o value))
            = [name |-> trim(name), value |-> trim(<<" ">> \o value)]
    BY <1>4, SplitLine
  <1>7. split_http_header((name \o <<":">>) \o value)
            = [name |-> trim(name), value |-> trim(value)]
    BY SplitLine
  <1>8. trim(<<" ">> \o value) = trim(value)
    BY <1>1, TrimAfterBlank
  <1> QED BY <1>2, <1>5, <1>6, <1>7, <1>8, Zenon

\* A header that is written with a blank after the colon is read back by its
\* name and value, blanks around them apart.
LEMMA HeaderReadBack ==
    ASSUME NEW h \in [name : Text, value : Text], ~Contains(h.name, ":")
    PROVE  /\ h.name \o <<":", " ">> \o h.value \in Text
           /\ store_header(h.name, h.value) \in Text
           /\ split_http_header(h.name \o <<":", " ">> \o h.value) = Given(h)
           /\ split_http_header(store_header(h.name, h.value)) = Given(h)
  <1>1. h.name \in Text /\ h.value \in Text
    OBVIOUS
  <1> QED BY <1>1, NameReadBack DEF store_header, Given

\* A target is taken apart where the query begins, if there is one.
LEMMA ReadTarget ==
    ASSUME NEW path \in Text, NEW query \in Text,
           \A i \in 1 .. Len(path) : ~IsQuestion(path[i]),
           query # <<>> => IsQuestion(query[1])
    PROVE  TargetRead(path \o query) = [path |-> path, query |-> query]
  <1> DEFINE target == path \o query
             S == {i \in 1 .. Len(target) : IsQuestion(target[i])}
             d == Len(path) + 1
  <1>1. /\ path \in Seq(Char) /\ query \in Seq(Char)
        /\ Len(path) \in Nat /\ Len(query) \in Nat
    BY LenProperties DEF Text
  <1>2. /\ target \in Seq(Char) /\ Len(target) = Len(path) + Len(query)
        /\ \A i \in 1 .. Len(path) + Len(query) :
              target[i] = IF i <= Len(path) THEN path[i] ELSE query[i - Len(path)]
    BY <1>1, ConcatProperties
  <1> HIDE DEF target
  <1>3. \A i \in 1 .. Len(path) : target[i] = path[i]
    BY <1>1, <1>2
  <1>4. \A i \in 1 .. Len(query) : target[Len(path) + i] = query[i]
    <2> SUFFICES ASSUME NEW i \in 1 .. Len(query) PROVE target[Len(path) + i] = query[i]
      OBVIOUS
    <2>1. /\ Len(path) + i \in 1 .. Len(path) + Len(query) /\ ~(Len(path) + i <= Len(path))
          /\ (Len(path) + i) - Len(path) = i
      BY <1>1
    <2> QED BY <1>2, <2>1
  <1>5. CASE query = <<>>
    <2>1. target = path
      BY <1>1, <1>5, ConcatEmptySeq DEF target
    <2>2. SelectInSeq(target, IsQuestion) = 0
      BY <2>1 DEF SelectInSeq
    <2> QED BY <1>5, <2>1, <2>2 DEF TargetRead, target
  <1>6. CASE query # <<>>
    <2>1. Len(query) \in Nat \ {0}
      BY <1>1, <1>6, EmptySeq
    <2>2. IsQuestion(target[d])
      BY <1>1, <1>4, <1>6, <2>1
    <2>3. d \in 1 .. Len(target)
      BY <1>1, <1>2, <2>1
    <2>4. \A k \in S : d <= k
      BY <1>1, <1>2, <1>3
    <2>5. S \in SUBSET Nat /\ d \in S
      BY <2>2, <2>3
    <2>6. Min(S) = d
      <3> HIDE DEF S, d
      <3> QED BY <2>4, <2>5, MinIs
    <2>7. SelectInSeq(target, IsQuestion) = d
      BY <2>5, <2>6 DEF SelectInSeq
    <2>8. SubSeq(target, 1, d - 1) = path
      <3>1. /\ SubSeq(target, 1, d - 1) \in Seq(Char) /\ Len(SubSeq(target, 1, d - 1)) = Len(path)
            /\ \A i \in 1 .. Len(path) : SubSeq(target, 1, d - 1)[i] = target[i]
        BY <1>1, <1>2, <2>1
      <3> QED BY <1>1, <1>3, <3>1, SeqEqual
    <2>9. SubSeq(target, d, Len(target)) = query
      <3>1. /\ SubSeq(target, d, Len(target)) \in Seq(Char)
            /\ Len(SubSeq(target, d, Len(target))) = Len(query)
            /\ \A i \in 1 .. Len(query) : SubSeq(target, d, Len(target))[i] = target[Len(path) + i]
        BY <1>1, <1>2, <2>1
      <3> QED BY <1>1, <1>4, <3>1, SeqEqual
    <2>10. d # 0
      BY <1>1
    <2> HIDE DEF d
    <2>11. TargetRead(target) = [path |-> path, query |-> query]
      BY <2>7, <2>8, <2>9, <2>10 DEF TargetRead
    <2> QED BY <2>11 DEF target
  <1> QED BY <1>5, <1>6

\* The path and the query a client gave are read back from the target.
LEMMA TargetReadBack ==
    ASSUME NEW p \in Text, NEW q \in Text, ~Contains(p, "?")
    PROVE  /\ RequestTarget(p, q) \in Text
           /\ TargetRead(RequestTarget(p, q)) = [path |-> UrlPath(p), query |-> QueryPart(q)]
           /\ UrlPath(p) \in {p, <<"/">> \o p} /\ Head(UrlPath(p)) = "/"
           /\ QueryPart(q) \in {q, <<"?">> \o q}
           /\ q = <<>> => QueryPart(q) = <<>>
  <1>1. /\ p \in Seq(Char) /\ q \in Seq(Char) /\ Len(p) \in Nat /\ Len(q) \in Nat
        /\ \A i \in 1 .. Len(p) : ~IsQuestion(p[i])
    BY LenProperties DEF Text, Contains, IsQuestion
  <1>2. /\ <<"/">> \in Seq(Char) /\ Len(<<"/">>) = 1 /\ <<"/">>[1] = "/"
        /\ <<"?">> \in Seq(Char) /\ Len(<<"?">>) = 1 /\ <<"?">>[1] = "?"
    BY CharAssumption, Unit
  <1> DEFINE path == UrlPath(p)
             query == QueryPart(q)
  <1>3. /\ path \in Text /\ path \in {p, <<"/">> \o p} /\ Head(path) = "/"
        /\ \A i \in 1 .. Len(path) : ~IsQuestion(path[i])
    <2>1. CASE p = <<>> \/ Head(p) # "/"
      <3> DEFINE u == <<"/">> \o p
      <3>1. /\ u \in Seq(Char) /\ Len(u) = 1 + Len(p)
            /\ \A i \in 1 .. 1 + Len(p) : u[i] = IF i <= 1 THEN <<"/">>[i] ELSE p[i - 1]
        BY <1>1, <1>2, ConcatProperties
      <3>2. path = u
        BY <2>1 DEF UrlPath
      <3> HIDE DEF u
      <3>3. 1 \in 1 .. 1 + Len(p)
        BY <1>1
      <3>4. u[1] = <<"/">>[1]
        BY <3>1, <3>3
      <3>5. Head(u) = "/"
        BY <1>2, <3>4
      <3>6. ~IsQuestion(<<"/">>[1])
        BY <1>2 DEF IsQuestion
      <3>7. \A i \in 1 .. Len(u) : i <= 1 => u[i] = <<"/">>[1]
        BY <1>1, <3>1, <3>4
      <3>8. \A i \in 1 .. Len(u) : ~(i <= 1) => i - 1 \in 1 .. Len(p) /\ u[i] = p[i - 1]
        BY <1>1, <3>1
      <3>9. \A i \in 1 .. Len(u) : ~IsQuestion(u[i])
        BY <1>1, <3>6, <3>7, <3>8
      <3> QED BY <3>1, <3>2, <3>5, <3>9 DEF u, Text
    <2>2. CASE ~(p = <<>> \/ Head(p) # "/")
      BY <1>1, <2>2 DEF UrlPath, Text
    <2> QED BY <2>1, <2>2
  <1>4. /\ query \in Text /\ query \in {q, <<"?">> \o q} /\ (q = <<>> => query = <<>>)
        /\ query # <<>> => IsQuestion(query[1])
    <2>1. CASE q = <<>> \/ Head(q) = "?"
      BY <1>1, <2>1 DEF QueryPart, IsQuestion, Text
    <2>2. CASE ~(q = <<>> \/ Head(q) = "?")
      <3> DEFINE u == <<"?">> \o q
      <3>1. /\ u \in Seq(Char) /\ Len(u) = 1 + Len(q)
            /\ \A i \in 1 .. 1 + Len(q) : u[i] = IF i <= 1 THEN <<"?">>[i] ELSE q[i - 1]
        BY <1>1, <1>2, ConcatProperties
      <3>2. query = u
        BY <2>2 DEF QueryPart
      <3> HIDE DEF u
      <3>3. 1 \in 1 .. 1 + Len(q)
        BY <1>1
      <3>4. u[1] = <<"?">>[1]
        BY <3>1, <3>3
      <3>5. IsQuestion(u[1])
        BY <1>2, <3>4 DEF IsQuestion
      <3> QED BY <2>2, <3>1, <3>2, <3>5 DEF u, Text
    <2> QED BY <2>1, <2>2
  <1> HIDE DEF path, query
  <1>5. TargetRead(path \o query) = [path |-> path, query |-> query]
    BY <1>3, <1>4, ReadTarget
  <1>6. path \o query \in Text
    BY <1>3, <1>4, ConcatProperties DEF Text
  <1>7. RequestTarget(p, q) = path \o query
    BY DEF RequestTarget, path, query
  <1> QED BY <1>3, <1>4, <1>5, <1>6, <1>7 DEF path, query

-----------------------------------------------------------------------------
(* The inductive invariant.                                                *)

Action == {"add", "send", "remove"}
HeaderGiven == [name : Text, value : Text]

\* The tasks to be handled.
Tasks == batch \o queue

\* The state TypeOK speaks of, by what changes together.
WorkType ==
    /\ loc \in {"events", "tasks"}
    /\ queue \in Seq(Action) /\ batch \in Seq(Action)
ConnectionType ==
    /\ status \in {"initializing", "ready", "busy", "inactive"}
    /\ handle \in BOOLEAN /\ transfer \in BOOLEAN
    /\ bodyOffset \in 0 .. MaxBody /\ requestTarget \in Text
    /\ inFlight \in 0 .. MaxRequests /\ reported \in 0 .. MaxRequests
RequestType == request \in Ask(Node)
MemoryType ==
    /\ freeNodes \in Seq(Node)
    /\ nodeData \in Seq({0} \cup Place)
    /\ allValues \in Seq(Text)
    /\ lastValueIndex \in {0} \cup Place
OptionsType ==
    options \in [request : {"get", "post", "put"}, customRequest : BOOLEAN,
                 target : Text, headers : Seq(Node), timeout : Nat,
                 postSize : 0 .. MaxBody, inSize : 0 .. MaxBody]
ClientType ==
    /\ building \in BOOLEAN /\ failed \in BOOLEAN /\ alive \in BOOLEAN
    /\ built \in Ask(HeaderGiven)
    /\ unanswered \in 0 .. MaxRequests /\ requests \in 0 .. MaxRequests

\* The status says which tasks are still to come.
RoundInv == loc = "events" => batch = <<>>
PhaseInv ==
    /\ building => alive /\ unanswered = 0
    /\ ~alive => unanswered = 0
    /\ failed => status = "inactive"
    /\ status = "initializing" =>
           /\ alive /\ unanswered = 0 => Tasks = <<"add">>
           /\ alive /\ unanswered # 0 => Tasks = <<"add", "send">>
           /\ ~alive => Tasks = <<"add", "remove">>
    /\ status = "ready" =>
           /\ alive /\ unanswered = 0 => Tasks = <<>>
           /\ alive /\ unanswered # 0 => Tasks = <<"send">>
           /\ ~alive => Tasks = <<"remove">>
    /\ status = "busy" => Tasks = <<>> /\ alive /\ unanswered # 0 /\ inFlight = unanswered
    /\ status = "inactive" =>
           /\ alive => failed /\ Tasks \in {<<>>, <<"send">>} /\ (building => Tasks = <<>>)
           /\ ~alive => Tasks \in {<<>>, <<"remove">>, <<"send", "remove">>}
           /\ ~RegisterRaces => ~building /\ unanswered = 0 /\ Tasks \in {<<>>, <<"remove">>}

\* Every node is in one place, and the strings of the request are the first ones.
Distinct(s) == \A i, j \in 1 .. Len(s) : i # j => s[i] # s[j]
Apart(s, t) == \A i \in 1 .. Len(s), j \in 1 .. Len(t) : s[i] # t[j]
MemoryInv ==
    /\ Len(freeNodes) + Len(request.headers) = Len(nodeData)
    /\ Distinct(freeNodes) /\ Distinct(request.headers) /\ Apart(freeNodes, request.headers)
    /\ \A i \in 1 .. Len(freeNodes) : nodeData[freeNodes[i]] = 0
    /\ Len(nodeData) <= MaxHeaders /\ Len(allValues) <= MaxHeaders
    /\ lastValueIndex = Len(request.headers) /\ Len(request.headers) <= Len(allValues)

\* Each header of the request is the one given last but as many as come before it.
HeaderInv ==
    /\ Len(built.headers) = Len(request.headers)
    /\ \A i \in 1 .. Len(request.headers) :
          LET place == Len(request.headers) - i + 1
          IN  /\ nodeData[request.headers[i]] = place
              /\ split_http_header(allValues[place]) = Given(built.headers[place])

\* The other parts of the request are what the client gave, from the first part
\* until the answer; nothing of a transfer outlives it.
RequestInv ==
    /\ building => requests < MaxRequests
    /\ ~building /\ unanswered = 0 => request = EmptyRequest /\ built = EmptyRequest
    /\ request.method = built.method /\ request.path = built.path
    /\ request.query = built.query /\ request.body = built.body
    /\ request.timeout = built.timeout
    /\ request.method = "get" => request.body = 0
    /\ ~Contains(request.path, "?")
    /\ ~transfer => bodyOffset = 0 /\ requestTarget = <<>> /\ ~options.customRequest

\* What curl was told is the request.
OptionsInv ==
    transfer =>
        /\ options.target = RequestTarget(request.path, request.query)
        /\ options.headers = request.headers /\ options.timeout = request.timeout
        /\ WireMethod = request.method /\ WireSize = request.body

DataInv == MemoryInv /\ HeaderInv /\ RequestInv /\ OptionsInv

IInv == TypeOK /\ TransferCoherent /\ RoundInv /\ PhaseInv /\ DataInv

\* TypeOK by its parts.
LEMMA TypeParts ==
    TypeOK <=> /\ WorkType /\ ConnectionType /\ RequestType /\ MemoryType /\ OptionsType
               /\ ClientType
  BY DEF TypeOK, WorkType, ConnectionType, RequestType, MemoryType, OptionsType, ClientType,
         Action, HeaderGiven

\* The same parts, of the next state.
LEMMA TypePartsNext ==
    TypeOK' <=> /\ WorkType' /\ ConnectionType' /\ RequestType' /\ MemoryType' /\ OptionsType'
                /\ ClientType'
  BY DEF TypeOK, WorkType, ConnectionType, RequestType, MemoryType, OptionsType, ClientType,
         Action, HeaderGiven, Node, Place

\* A request that was reset has the type of a request.
LEMMA EmptyType ==
    ASSUME NEW H
    PROVE  EmptyRequest \in Ask(H)
  <1>1. <<>> \in Seq(H) /\ <<>> \in Text
    BY DEF Text
  <1>2. 0 \in 0 .. MaxBody /\ 1000 \in Nat
    BY BoundsAssumption
  <1> QED BY <1>1, <1>2 DEF EmptyRequest, Ask, Method, default_request_timeout

\* The initial states.
LEMMA InitInv == Init => IInv
  <1> SUFFICES ASSUME Init PROVE IInv
    OBVIOUS
  <1>1. 0 \in 0 .. MaxBody /\ 0 \in 0 .. MaxRequests /\ 0 \in Nat /\ 0 <= MaxHeaders
    BY BoundsAssumption
  <1>2. <<"add">> \in Seq(Action) /\ <<>> \in Seq(Action)
    BY DEF Action
  <1>3. /\ <<>> \in Text /\ <<>> \in Seq(Node) /\ <<>> \in Seq({0} \cup Place)
        /\ <<>> \in Seq(Text)
    BY DEF Text
  <1>4. EmptyRequest \in Ask(Node) /\ EmptyRequest \in Ask(HeaderGiven)
    BY EmptyType
  <1>5. WorkType /\ ConnectionType
    BY <1>1, <1>2, <1>3 DEF Init, WorkType, ConnectionType
  <1>6. RequestType /\ MemoryType /\ ClientType
    BY <1>1, <1>3, <1>4 DEF Init, RequestType, MemoryType, ClientType
  <1>7. OptionsType
    BY <1>1, <1>3 DEF Init, OptionsType
  <1>8. TransferCoherent /\ RoundInv /\ OptionsInv
    BY DEF Init, TransferCoherent, RoundInv, OptionsInv
  <1>9. PhaseInv
    <2>1. Tasks = <<"add">>
      BY <1>2, ConcatEmptySeq DEF Init, Tasks
    <2> QED BY <2>1 DEF Init, PhaseInv
  <1>10. MemoryInv /\ HeaderInv
    BY <1>1 DEF Init, MemoryInv, HeaderInv, EmptyRequest, Distinct, Apart
  <1>11. RequestInv
    BY DEF Init, RequestInv, EmptyRequest, Contains
  <1> QED BY <1>5, <1>6, <1>7, <1>8, <1>9, <1>10, <1>11, TypeParts DEF IInv, DataInv

-----------------------------------------------------------------------------
(* Nodes: what a header takes and a reset gives back.                      *)

\* Reversing a sequence keeps its elements and its length.
LEMMA ReverseProperties ==
    ASSUME NEW S, NEW s \in Seq(S)
    PROVE  /\ Reverse(s) \in Seq(S) /\ Len(Reverse(s)) = Len(s)
           /\ \A i \in 1 .. Len(s) : Reverse(s)[i] = s[Len(s) - i + 1]
  <1>1. Len(s) \in Nat /\ \A i \in 1 .. Len(s) : s[i] \in S
    BY LenProperties, ElementOfSeq
  <1>2. \A i \in 1 .. Len(s) : (Len(s) - i) + 1 \in 1 .. Len(s)
    BY <1>1
  <1>3. Reverse(s) \in [1 .. Len(s) -> S]
    BY <1>1, <1>2 DEF Reverse
  <1>4. Reverse(s) \in Seq(S) /\ Len(Reverse(s)) = Len(s)
    BY <1>1, <1>3, IsASeq, LenProperties
  <1> QED BY <1>1, <1>4 DEF Reverse

\* A function on 1 .. n is a sequence of length n.
LEMMA FunctionIsSeq ==
    ASSUME NEW S, NEW n \in Nat, NEW f \in [1 .. n -> S]
    PROVE  f \in Seq(S) /\ Len(f) = n
  OBVIOUS

\* What is given back goes before what was free, each node once.
MadeOf(u, s, t) ==
    \A i \in 1 .. Len(u) : \/ \E j \in 1 .. Len(s) : u[i] = s[j]
                           \/ \E j \in 1 .. Len(t) : u[i] = t[j]
\* Two lists without common nodes, one given back in front of the other, hold
\* every node once.
LEMMA GivenBack ==
    ASSUME NEW S, NEW s \in Seq(S), NEW t \in Seq(S),
           Distinct(s), Distinct(t), Apart(s, t)
    PROVE  /\ Reverse(t) \o s \in Seq(S) /\ Len(Reverse(t) \o s) = Len(t) + Len(s)
           /\ Distinct(Reverse(t) \o s)
           /\ MadeOf(Reverse(t) \o s, t, s)
  <1> DEFINE r == Reverse(t)
             u == r \o s
             m == Len(t)
             n == Len(s)
  <1>1. m \in Nat /\ n \in Nat
    BY LenProperties
  <1>2. r \in Seq(S) /\ Len(r) = m /\ \A i \in 1 .. m : r[i] = t[m - i + 1]
    BY ReverseProperties
  <1> HIDE DEF r
  <1>3. /\ u \in Seq(S) /\ Len(u) = m + n
        /\ \A i \in 1 .. m + n : u[i] = IF i <= m THEN r[i] ELSE s[i - m]
    <2>1. /\ u \in Seq(S) /\ Len(u) = Len(r) + Len(s)
          /\ \A i \in 1 .. Len(r) + Len(s) : u[i] = IF i <= Len(r) THEN r[i] ELSE s[i - Len(r)]
      BY <1>2, ConcatProperties
    <2> QED BY <1>2, <2>1, Zenon
  <1> HIDE DEF u, m, n
  <1>4. \A i \in 1 .. m + n : i <= m => m - i + 1 \in 1 .. m /\ u[i] = t[m - i + 1]
    BY <1>1, <1>2, <1>3
  <1>5. \A i \in 1 .. m + n : ~(i <= m) => i - m \in 1 .. n /\ u[i] = s[i - m]
    BY <1>1, <1>3
  <1>6. /\ \A i, j \in 1 .. m : i # j => t[i] # t[j]
        /\ \A i, j \in 1 .. n : i # j => s[i] # s[j]
        /\ \A i \in 1 .. n, j \in 1 .. m : s[i] # t[j]
    BY DEF Distinct, Apart, m, n
  <1>7. ASSUME NEW i \in 1 .. m + n, NEW j \in 1 .. m + n, i # j
        PROVE  u[i] # u[j]
    <2>1. CASE i <= m /\ j <= m
      <3>1. m - i + 1 # m - j + 1
        BY <1>1, <1>7
      <3> QED BY <1>4, <1>6, <2>1, <3>1
    <2>2. CASE ~(i <= m) /\ ~(j <= m)
      <3>1. i - m # j - m
        BY <1>1, <1>7
      <3> QED BY <1>5, <1>6, <2>2, <3>1
    <2>3. CASE i <= m /\ ~(j <= m)
      BY <1>4, <1>5, <1>6, <2>3
    <2>4. CASE ~(i <= m) /\ j <= m
      BY <1>4, <1>5, <1>6, <2>4
    <2> QED BY <2>1, <2>2, <2>3, <2>4
  <1>8. \A i \in 1 .. m + n : (\E j \in 1 .. m : u[i] = t[j]) \/ (\E j \in 1 .. n : u[i] = s[j])
    BY <1>4, <1>5
  <1>9. Distinct(u)
    BY <1>3, <1>7 DEF Distinct
  <1>10. MadeOf(u, t, s)
    BY <1>3, <1>8 DEF MadeOf, m, n
  <1> QED BY <1>3, <1>9, <1>10 DEF u, r, m, n

\* reset_request leaves a request as new and every node free and clean.
LEMMA ResetFacts ==
    ASSUME TypeOK, MemoryInv, reset_request
    PROVE  /\ RequestType' /\ MemoryType' /\ OptionsType' /\ MemoryInv'
           /\ request' = EmptyRequest /\ bodyOffset' = 0 /\ requestTarget' = <<>>
           /\ options'.customRequest = (options.customRequest /\ request.method # "custom")
  <1> DEFINE h == request.headers
             n == Len(nodeData)
  <1>1. /\ h \in Seq(Node) /\ freeNodes \in Seq(Node) /\ n \in Nat /\ Node = 1 .. n
        /\ nodeData \in Seq({0} \cup Place) /\ nodeData \in [1 .. n -> {0} \cup Place]
    BY LenProperties DEF TypeOK, Ask, Node
  <1>n. Len(h) \in Nat /\ Len(freeNodes) \in Nat /\ n \in Nat
    BY <1>1, LenProperties
  <1>2. /\ Len(freeNodes) + Len(h) = n
        /\ Distinct(freeNodes) /\ Distinct(h) /\ Apart(freeNodes, h)
    BY DEF MemoryInv
  <1>3. /\ freeNodes' = Reverse(h) \o freeNodes
        /\ nodeData' = [k \in Node |-> IF Contains(h, k) THEN 0 ELSE nodeData[k]]
        /\ request' = EmptyRequest /\ bodyOffset' = 0 /\ requestTarget' = <<>>
        /\ lastValueIndex' = 0 /\ allValues' = allValues /\ options' = ClearedOptions
    BY DEF reset_request, push_free_nodes, FreshRequest, ClearedTarget
  <1> HIDE DEF h
  <1>4. /\ freeNodes' \in Seq(Node) /\ Len(freeNodes') = Len(h) + Len(freeNodes)
        /\ Distinct(freeNodes') /\ MadeOf(freeNodes', h, freeNodes)
    <2> DEFINE u == Reverse(h) \o freeNodes
    <2>1. /\ u \in Seq(Node) /\ Len(u) = Len(h) + Len(freeNodes) /\ Distinct(u)
          /\ MadeOf(u, h, freeNodes)
      <3>1. h \in Seq(Node) /\ freeNodes \in Seq(Node) /\ Distinct(freeNodes) /\ Distinct(h)
            /\ Apart(freeNodes, h)
        BY <1>1, <1>2
      <3> QED BY <3>1, GivenBack, Zenon
    <2> HIDE DEF u
    <2>2. freeNodes' = u
      BY <1>3 DEF u
    <2> QED BY <2>1, <2>2, Zenon
  <1>5. /\ nodeData' \in [1 .. n -> {0} \cup Place] /\ nodeData' \in Seq({0} \cup Place)
        /\ Len(nodeData') = n
    <2>1. nodeData' \in [1 .. n -> {0} \cup Place]
      BY <1>1, <1>3
    <2>2. nodeData' \in Seq({0} \cup Place)
      BY <1>1, <2>1, FunctionIsSeq
    <2>3. Len(nodeData') = n
      BY <1>1, <2>1, FunctionIsSeq
    <2> QED BY <2>1, <2>2, <2>3
  <1>6. Node' = Node /\ Place' = Place
    BY <1>1, <1>3, <1>5 DEF Node, Place
  <1>7. MemoryType'
    <2>1. allValues \in Seq(Text)
      BY DEF TypeOK
    <2>2. freeNodes' \in Seq(Node') /\ nodeData' \in Seq({0} \cup Place')
      BY <1>4, <1>5, <1>6, Zenon
    <2>3. lastValueIndex' \in {0} \cup Place'
      BY <1>3
    <2> QED BY <1>3, <2>1, <2>2, <2>3 DEF MemoryType
  <1>8. RequestType'
    BY <1>3, EmptyType DEF RequestType
  <1>9. /\ OptionsType'
        /\ options'.customRequest = (options.customRequest /\ request.method # "custom")
    <2>1. OptionsType
      BY TypeParts
    <2>2. options' = [options EXCEPT !.customRequest = options.customRequest /\ request.method # "custom",
                                     !.target = <<>>, !.headers = <<>>]
      BY <1>3 DEF ClearedOptions
    <2>3. <<>> \in Text /\ <<>> \in Seq(Node')
      BY DEF Text
    <2>4. (options.customRequest /\ request.method # "custom") \in BOOLEAN
      OBVIOUS
    <2> HIDE DEF h
    <2>5. OptionsType'
      BY <2>1, <2>2, <2>3, <2>4 DEF OptionsType
    <2> QED BY <2>1, <2>2, <2>5 DEF OptionsType
  <1>10. MemoryInv'
    <2>1. request'.headers = <<>> /\ Len(request'.headers) = 0
      BY <1>3 DEF EmptyRequest
    <2>2. Distinct(request'.headers) /\ Apart(freeNodes', request'.headers)
      BY <2>1 DEF Distinct, Apart
    <2>3. ASSUME NEW i \in 1 .. Len(freeNodes') PROVE nodeData'[freeNodes'[i]] = 0
      <3>1. CASE \E j \in 1 .. Len(h) : freeNodes'[i] = h[j]
        <4>1. PICK j \in 1 .. Len(h) : freeNodes'[i] = h[j]
          BY <3>1
        <4>2. h[j] \in Node /\ Contains(h, h[j])
          BY <1>1, ElementOfSeq DEF Contains
        <4> QED BY <1>3, <4>1, <4>2
      <3>2. CASE \E j \in 1 .. Len(freeNodes) : freeNodes'[i] = freeNodes[j]
        <4>1. PICK j \in 1 .. Len(freeNodes) : freeNodes'[i] = freeNodes[j]
          BY <3>2
        <4>2. freeNodes[j] \in Node /\ nodeData[freeNodes[j]] = 0
          BY <1>1, ElementOfSeq DEF MemoryInv
        <4> QED BY <1>3, <4>1, <4>2
      <3> QED BY <1>4, <3>1, <3>2 DEF MadeOf
    <2>4. /\ Len(freeNodes') + Len(request'.headers) = Len(nodeData')
          /\ Len(request'.headers) <= Len(allValues')
      <3>1. Len(allValues) \in Nat
        BY LenProperties DEF TypeOK
      <3>2. (Len(h) + Len(freeNodes)) + 0 = n
        <4> HIDE DEF n
        <4> QED BY <1>n, <1>2
      <3> QED BY <1>3, <1>4, <1>5, <2>1, <3>1, <3>2
    <2>5. Len(nodeData') <= MaxHeaders /\ Len(allValues') <= MaxHeaders
      BY <1>3, <1>5 DEF MemoryInv
    <2>6. lastValueIndex' = Len(request'.headers)
      BY <1>3, <2>1
    <2> QED BY <1>4, <2>2, <2>3, <2>4, <2>5, <2>6 DEF MemoryInv
  <1> QED BY <1>3, <1>7, <1>8, <1>9, <1>10

\* A node before a sequence of others.
LEMMA Before ==
    ASSUME NEW S, NEW s \in Seq(S), NEW e \in S
    PROVE  /\ <<e>> \o s \in Seq(S) /\ Len(<<e>> \o s) = Len(s) + 1 /\ (<<e>> \o s)[1] = e
           /\ \A i \in 1 .. Len(s) : (<<e>> \o s)[i + 1] = s[i]
           /\ \A i \in 2 .. Len(s) + 1 : i - 1 \in 1 .. Len(s) /\ (<<e>> \o s)[i] = s[i - 1]
  <1> DEFINE v == <<e>>
             u == v \o s
  <1>1. v \in Seq(S) /\ Len(v) = 1 /\ v[1] = e /\ Len(s) \in Nat
    BY Unit, LenProperties
  <1> HIDE DEF v
  <1>2. /\ u \in Seq(S) /\ Len(u) = Len(v) + Len(s)
        /\ \A i \in 1 .. Len(v) + Len(s) : u[i] = IF i <= Len(v) THEN v[i] ELSE s[i - Len(v)]
    BY <1>1, ConcatProperties
  <1> HIDE DEF u
  <1>3. u[1] = e
    BY <1>1, <1>2
  <1>4. \A i \in 2 .. Len(s) + 1 : i - 1 \in 1 .. Len(s) /\ u[i] = s[i - 1]
    BY <1>1, <1>2
  <1>5. \A i \in 1 .. Len(s) : i + 1 \in 2 .. Len(s) + 1 /\ (i + 1) - 1 = i
    BY <1>1
  <1>6. \A i \in 1 .. Len(s) : u[i + 1] = s[i]
    BY <1>4, <1>5
  <1>7. Len(u) = Len(s) + 1
    BY <1>1, <1>2
  <1> QED BY <1>2, <1>3, <1>4, <1>6, <1>7 DEF u, v

\* A node put in front of a list it is not in leaves every node in it once.
LEMMA BeforeDistinct ==
    ASSUME NEW S, NEW s \in Seq(S), NEW e \in S, Distinct(s), \A i \in 1 .. Len(s) : s[i] # e
    PROVE  Distinct(<<e>> \o s)
  <1> DEFINE u == <<e>> \o s
  <1>1. /\ Len(u) = Len(s) + 1 /\ u[1] = e /\ Len(s) \in Nat
        /\ \A i \in 2 .. Len(s) + 1 : i - 1 \in 1 .. Len(s) /\ u[i] = s[i - 1]
    BY Before, LenProperties
  <1> HIDE DEF u
  <1>2. ASSUME NEW i \in 1 .. Len(u), NEW j \in 1 .. Len(u), i # j
        PROVE  u[i] # u[j]
    <2>1. CASE i = 1
      <3>1. j \in 2 .. Len(s) + 1
        BY <1>1, <1>2, <2>1
      <3> QED BY <1>1, <2>1, <3>1
    <2>2. CASE j = 1
      <3>1. i \in 2 .. Len(s) + 1
        BY <1>1, <1>2, <2>2
      <3> QED BY <1>1, <2>2, <3>1
    <2>3. CASE i # 1 /\ j # 1
      <3>1. i \in 2 .. Len(s) + 1 /\ j \in 2 .. Len(s) + 1 /\ i - 1 # j - 1
        BY <1>1, <1>2, <2>3
      <3>2. i - 1 \in 1 .. Len(s) /\ j - 1 \in 1 .. Len(s) /\ u[i] = s[i - 1] /\ u[j] = s[j - 1]
        BY <1>1, <3>1
      <3> QED BY <3>1, <3>2 DEF Distinct
    <2> QED BY <2>1, <2>2, <2>3
  <1> QED BY <1>2 DEF Distinct, u

\* What is left when the first free node is taken.
LEMMA TailDistinct ==
    ASSUME NEW S, NEW s \in Seq(S), s # <<>>, Distinct(s)
    PROVE  /\ Tail(s) \in Seq(S) /\ Len(Tail(s)) = Len(s) - 1 /\ Len(s) \in Nat \ {0}
           /\ Head(s) = s[1] /\ Head(s) \in S
           /\ Distinct(Tail(s))
           /\ \A i \in 1 .. Len(Tail(s)) :
                 i + 1 \in 1 .. Len(s) /\ Tail(s)[i] = s[i + 1] /\ Tail(s)[i] # Head(s)
  <1> DEFINE u == Tail(s)
  <1>1. /\ u \in Seq(S) /\ Len(u) = Len(s) - 1 /\ Head(s) \in S
        /\ \A i \in 1 .. Len(u) : u[i] = s[i + 1]
    BY HeadTailProperties
  <1>2. Len(s) \in Nat \ {0} /\ Head(s) = s[1]
    BY EmptySeq
  <1> HIDE DEF u
  <1>3. \A i \in 1 .. Len(u) : i + 1 \in 1 .. Len(s) /\ i + 1 # 1 /\ 1 \in 1 .. Len(s)
    BY <1>1, <1>2
  <1>4. \A i, j \in 1 .. Len(s) : i # j => s[i] # s[j]
    BY DEF Distinct
  <1>5. \A i \in 1 .. Len(u) : u[i] # Head(s)
    BY <1>1, <1>2, <1>3, <1>4
  <1>6. \A i, j \in 1 .. Len(u) : i # j => i + 1 # j + 1
    BY <1>1, <1>2
  <1>7. Distinct(u)
    BY <1>1, <1>3, <1>4, <1>6 DEF Distinct
  <1> QED BY <1>1, <1>2, <1>3, <1>5, <1>7 DEF u

\* The place store_header uses, and the strings that stay.
LEMMA ValueStored ==
    ASSUME TypeOK, MemoryInv, HeaderInv, NEW text \in Text, NEW h, NEW b, StoreHeader(text, h, b)
    PROVE  LET place == lastValueIndex + 1
           IN  /\ place = Len(request.headers) + 1 /\ place \in 1 .. Len(allValues')
               /\ lastValueIndex' = place
               /\ allValues' \in Seq(Text) /\ allValues'[place] = text
               /\ Len(allValues) <= Len(allValues') /\ Len(allValues') <= MaxHeaders
               /\ Len(allValues) \in Nat /\ Len(allValues') \in Nat
               /\ \A k \in 1 .. Len(request.headers) : allValues'[k] = allValues[k]
  <1> DEFINE n == Len(request.headers)
             m == Len(allValues)
             place == lastValueIndex + 1
  <1>1. /\ lastValueIndex = n /\ n <= m /\ m <= MaxHeaders /\ n < MaxHeaders
        /\ lastValueIndex' = lastValueIndex + 1
        /\ allValues' = IF lastValueIndex = m THEN Append(allValues, text)
                        ELSE [allValues EXCEPT ![place] = text]
    BY DEF MemoryInv, HeaderInv, StoreHeader, NextValueIndex
  <1>2. allValues \in Seq(Text) /\ m \in Nat /\ n \in Nat /\ MaxHeaders \in Nat
    BY LenProperties, BoundsAssumption DEF TypeOK, Ask
  <1> HIDE DEF n, m
  <1>3. place = n + 1 /\ place \in Nat \ {0} /\ place <= MaxHeaders
    BY <1>1, <1>2
  <1>4. CASE lastValueIndex = m
    <2>1. allValues' = Append(allValues, text)
      BY <1>1, <1>4
    <2>2. /\ allValues' \in Seq(Text) /\ Len(allValues') = m + 1
          /\ \A k \in 1 .. m : allValues'[k] = allValues[k]
          /\ allValues'[m + 1] = text
      BY <1>2, <2>1, AppendProperties DEF m
    <2>3. m = n
      BY <1>1, <1>4
    <2> QED BY <1>1, <1>2, <1>3, <2>2, <2>3 DEF n, m
  <1>5. CASE lastValueIndex # m
    <2>1. allValues' = [allValues EXCEPT ![place] = text] /\ place \in 1 .. m
      BY <1>1, <1>2, <1>3, <1>5
    <2>2. /\ allValues' \in Seq(Text) /\ Len(allValues') = m
          /\ \A k \in 1 .. m : allValues'[k] = IF k = place THEN text ELSE allValues[k]
      <3> HIDE DEF place
      <3> QED BY <1>2, <2>1, ExceptSeq DEF m
    <2>3. \A k \in 1 .. n : k \in 1 .. m /\ k # place
      BY <1>1, <1>2, <1>3
    <2>4. /\ \A k \in 1 .. n : allValues'[k] = allValues[k]
          /\ allValues'[place] = text
      BY <2>1, <2>2, <2>3
    <2>5. place \in 1 .. Len(allValues') /\ Len(allValues') <= MaxHeaders /\ m <= Len(allValues')
          /\ Len(allValues') \in Nat
      BY <1>1, <1>2, <2>1, <2>2
    <2> QED BY <1>1, <1>2, <1>3, <2>2, <2>4, <2>5 DEF n, m
  <1> QED BY <1>4, <1>5

\* The node pop_free_node finds is in no other place.
LEMMA NodeTaken ==
    ASSUME TypeOK, MemoryInv, HeaderInv, NEW text, NEW h, NEW b, StoreHeader(text, h, b)
    PROVE  LET node  == IF freeNodes = <<>> THEN Len(nodeData) + 1 ELSE Head(freeNodes)
               place == lastValueIndex + 1
           IN  /\ node \in 1 .. Len(nodeData')
               /\ Len(nodeData) <= Len(nodeData') /\ Len(nodeData') <= MaxHeaders
               /\ Len(nodeData) \in Nat /\ Len(nodeData') \in Nat
               /\ nodeData' \in [1 .. Len(nodeData') -> {0} \cup Place \cup {place}]
               /\ nodeData'[node] = place
               /\ \A k \in 1 .. Len(nodeData) : k # node => nodeData'[k] = nodeData[k]
               /\ \A i \in 1 .. Len(request.headers) : request.headers[i] # node
               /\ freeNodes' \in Seq(Node) /\ Distinct(freeNodes')
               /\ \A i \in 1 .. Len(freeNodes') :
                     /\ freeNodes'[i] # node
                     /\ \E j \in 1 .. Len(freeNodes) : freeNodes'[i] = freeNodes[j]
               /\ Len(freeNodes') + (Len(request.headers) + 1) = Len(nodeData')
  <1> DEFINE n == Len(nodeData)
             heads == request.headers
             node  == IF freeNodes = <<>> THEN n + 1 ELSE Head(freeNodes)
             place == lastValueIndex + 1
             D == {0} \cup Place \cup {place}
  <1>1. /\ freeNodes \in Seq(Node) /\ heads \in Seq(Node) /\ Node = 1 .. n
        /\ nodeData \in [1 .. n -> {0} \cup Place]
    BY LenProperties DEF TypeOK, Ask, Node
  <1>2. /\ n \in Nat /\ Len(heads) \in Nat /\ Len(freeNodes) \in Nat /\ MaxHeaders \in Nat
    BY <1>1, LenProperties, BoundsAssumption DEF TypeOK
  <1>3. /\ Len(freeNodes) + Len(heads) = n /\ n <= MaxHeaders /\ Len(heads) < MaxHeaders
    BY DEF MemoryInv, HeaderInv, StoreHeader
  <1>4. /\ freeNodes' = IF freeNodes = <<>> THEN <<>> ELSE Tail(freeNodes)
        /\ nodeData' = IF freeNodes = <<>> THEN Append(nodeData, place)
                       ELSE [nodeData EXCEPT ![node] = place]
    BY DEF StoreHeader
  <1>5. nodeData \in [1 .. n -> D] /\ nodeData \in Seq(D) /\ place \in D
    <2>1. nodeData \in [1 .. n -> D] /\ place \in D
      <3> HIDE DEF n, place
      <3> QED BY <1>1
    <2> HIDE DEF D, place
    <2>2. nodeData \in Seq(D)
      <3> HIDE DEF n
      <3> QED BY <1>2, <2>1, FunctionIsSeq
    <2> QED BY <2>1, <2>2
  <1>6. \A i \in 1 .. Len(heads) : heads[i] \in 1 .. n
    BY <1>1, ElementOfSeq
  <1> HIDE DEF D, place, heads
  <1>7. CASE freeNodes = <<>>
    <2>1. node = n + 1 /\ Len(freeNodes) = 0 /\ freeNodes' = <<>> /\ nodeData' = Append(nodeData, place)
      BY <1>4, <1>7
    <2> HIDE DEF node
    <2>2. /\ nodeData' \in Seq(D) /\ Len(nodeData') = n + 1
          /\ \A k \in 1 .. n : nodeData'[k] = nodeData[k]
          /\ nodeData'[n + 1] = place
      BY <1>5, <2>1, AppendProperties
    <2>3. nodeData' \in [1 .. Len(nodeData') -> D]
      BY <2>2, LenProperties
    <2>4. Len(freeNodes') = 0 /\ freeNodes' \in Seq(Node) /\ Distinct(freeNodes')
          /\ 1 .. Len(freeNodes') = {}
      BY <2>1 DEF Distinct
    <2>5. \A i \in 1 .. Len(heads) : heads[i] # node
      <3> HIDE DEF n
      <3> QED BY <1>2, <1>6, <2>1
    <2>6. /\ node \in 1 .. Len(nodeData') /\ n <= Len(nodeData') /\ Len(nodeData') <= MaxHeaders
          /\ Len(nodeData') \in Nat
          /\ Len(freeNodes') + (Len(heads) + 1) = Len(nodeData')
      <3>1. Len(nodeData') = n + 1
        BY <2>2
      <3> HIDE DEF n
      <3>2. Len(heads) = n
        BY <1>2, <1>3, <2>1
      <3> QED BY <1>2, <1>3, <2>1, <2>4, <3>1, <3>2
    <2>7. nodeData'[node] = place
      BY <2>1, <2>2
    <2> QED BY <1>2, <2>2, <2>3, <2>4, <2>5, <2>6, <2>7 DEF node, place, heads, D
  <1>8. CASE freeNodes # <<>>
    <2>1. node = Head(freeNodes) /\ freeNodes' = Tail(freeNodes)
          /\ nodeData' = [nodeData EXCEPT ![node] = place]
      BY <1>4, <1>8
    <2> HIDE DEF node
    <2>2. Distinct(freeNodes) /\ Apart(freeNodes, heads)
      BY DEF MemoryInv, heads
    <2>3. /\ freeNodes' \in Seq(Node) /\ Len(freeNodes') = Len(freeNodes) - 1
          /\ Len(freeNodes) \in Nat \ {0}
          /\ node = freeNodes[1] /\ node \in Node
          /\ Distinct(freeNodes')
          /\ \A i \in 1 .. Len(freeNodes') :
                i + 1 \in 1 .. Len(freeNodes) /\ freeNodes'[i] = freeNodes[i + 1] /\ freeNodes'[i] # node
      BY <1>1, <1>8, <2>1, <2>2, TailDistinct
    <2>4. node \in 1 .. n
      BY <1>1, <2>3
    <2>5. /\ nodeData' \in Seq(D) /\ Len(nodeData') = n
          /\ \A k \in 1 .. n : nodeData'[k] = IF k = node THEN place ELSE nodeData[k]
      BY <1>5, <2>1, <2>4, ExceptSeq
    <2>6. nodeData' \in [1 .. Len(nodeData') -> D]
      BY <2>5, LenProperties
    <2>7. \A i \in 1 .. Len(heads) : heads[i] # node
      BY <2>2, <2>3 DEF Apart
    <2>8. \A i \in 1 .. Len(freeNodes') : \E j \in 1 .. Len(freeNodes) : freeNodes'[i] = freeNodes[j]
      BY <2>3
    <2>9. /\ n <= Len(nodeData') /\ Len(nodeData') <= MaxHeaders /\ Len(nodeData') \in Nat
          /\ Len(freeNodes') + (Len(heads) + 1) = Len(nodeData')
      <3>1. Len(nodeData') = n /\ Len(freeNodes') = Len(freeNodes) - 1
        BY <2>3, <2>5
      <3> HIDE DEF n
      <3> QED BY <1>2, <1>3, <3>1
    <2> QED BY <1>2, <2>3, <2>4, <2>5, <2>6, <2>7, <2>8, <2>9 DEF node, place, heads, D
  <1> QED BY <1>7, <1>8

\* A header is stored: the request has one more, and none of the others is touched.
LEMMA StoreFacts ==
    ASSUME TypeOK, MemoryInv, HeaderInv,
           NEW text \in Text, NEW h \in HeaderGiven, NEW b \in 0 .. MaxBody,
           split_http_header(text) = Given(h), StoreHeader(text, h, b)
    PROVE  RequestType' /\ MemoryType' /\ OptionsType' /\ MemoryInv' /\ HeaderInv'
  <1> DEFINE node  == IF freeNodes = <<>> THEN Len(nodeData) + 1 ELSE Head(freeNodes)
             place == lastValueIndex + 1
             heads == request.headers
             n     == Len(heads)
  <1>1. /\ node \in 1 .. Len(nodeData')
        /\ Len(nodeData) <= Len(nodeData') /\ Len(nodeData') <= MaxHeaders
        /\ Len(nodeData) \in Nat /\ Len(nodeData') \in Nat
        /\ nodeData' \in [1 .. Len(nodeData') -> {0} \cup Place \cup {place}]
        /\ nodeData'[node] = place
        /\ \A k \in 1 .. Len(nodeData) : k # node => nodeData'[k] = nodeData[k]
        /\ \A i \in 1 .. n : heads[i] # node
        /\ freeNodes' \in Seq(Node) /\ Distinct(freeNodes')
        /\ \A i \in 1 .. Len(freeNodes') :
              /\ freeNodes'[i] # node
              /\ \E j \in 1 .. Len(freeNodes) : freeNodes'[i] = freeNodes[j]
        /\ Len(freeNodes') + (n + 1) = Len(nodeData')
    BY NodeTaken
  <1>2. /\ place = n + 1 /\ place \in 1 .. Len(allValues')
        /\ lastValueIndex' = place
        /\ allValues' \in Seq(Text) /\ allValues'[place] = text
        /\ Len(allValues) <= Len(allValues') /\ Len(allValues') <= MaxHeaders
        /\ Len(allValues) \in Nat /\ Len(allValues') \in Nat
        /\ \A k \in 1 .. n : allValues'[k] = allValues[k]
    BY ValueStored
  <1>3. /\ request' = [request EXCEPT !.headers = <<node>> \o heads, !.body = b]
        /\ built' = [built EXCEPT !.headers = Append(built.headers, h), !.body = b]
        /\ options' = options
    BY DEF StoreHeader, BuildVars, curlVars
  <1>4. /\ heads \in Seq(Node) /\ freeNodes \in Seq(Node) /\ request \in Ask(Node)
        /\ options \in [request : {"get", "post", "put"}, customRequest : BOOLEAN,
                        target : Text, headers : Seq(Node), timeout : Nat,
                        postSize : 0 .. MaxBody, inSize : 0 .. MaxBody]
        /\ built \in Ask(HeaderGiven) /\ built.headers \in Seq(HeaderGiven)
    BY DEF TypeOK, Ask, HeaderGiven
  <1>5. n \in Nat /\ Len(built.headers) = n
    BY <1>4, LenProperties DEF HeaderInv
  <1> HIDE DEF node, place
  <1>6. Node \subseteq Node' /\ node \in Node' /\ Place \subseteq Place' /\ place \in Place'
    <2>1. /\ Len(nodeData) \in Nat /\ Len(nodeData') \in Nat /\ Len(nodeData) <= Len(nodeData')
          /\ Len(allValues) \in Nat /\ Len(allValues') \in Nat /\ Len(allValues) <= Len(allValues')
      BY <1>1, <1>2
    <2>2. 1 .. Len(nodeData) \subseteq 1 .. Len(nodeData')
      BY <2>1
    <2>3. 1 .. Len(allValues) \subseteq 1 .. Len(allValues')
      BY <2>1
    <2> QED BY <1>1, <1>2, <2>2, <2>3, Zenon DEF Node, Place
  <1>7. /\ Seq(Node) \subseteq Seq(Node') /\ heads \in Seq(Node') /\ freeNodes' \in Seq(Node')
    BY <1>1, <1>4, <1>6, SeqMonotonic
  <1> DEFINE newHeads == <<node>> \o heads
  <1>8. /\ newHeads \in Seq(Node') /\ Len(newHeads) = n + 1 /\ newHeads[1] = node
        /\ \A i \in 2 .. n + 1 : i - 1 \in 1 .. n /\ newHeads[i] = heads[i - 1]
    BY <1>6, <1>7, Before
  <1> DEFINE newBuilt == Append(built.headers, h)
  <1>9. /\ newBuilt \in Seq(HeaderGiven) /\ Len(newBuilt) = n + 1 /\ newBuilt[n + 1] = h
        /\ \A k \in 1 .. n : newBuilt[k] = built.headers[k]
    BY <1>4, <1>5, AppendProperties
  <1>10. Distinct(newHeads)
    <2>1. Distinct(heads)
      BY DEF MemoryInv
    <2>2. \A i \in 1 .. Len(heads) : heads[i] # node
      BY <1>1
    <2> QED BY <1>6, <1>7, <2>1, <2>2, BeforeDistinct
  <1>11. request'.headers = newHeads /\ built'.headers = newBuilt
    BY <1>3, <1>4 DEF Ask
  <1>12. RequestType'
    <2>1. request' \in [method : Method, path : Text, query : Text, headers : Seq(Node'),
                        body : 0 .. MaxBody, timeout : Nat]
      <3> HIDE DEF heads, newHeads
      <3>1. request' = [request EXCEPT !.headers = newHeads, !.body = b]
        BY <1>3 DEF newHeads
      <3> QED BY <1>4, <1>8, <3>1 DEF Ask
    <2> QED BY <2>1 DEF RequestType, Ask
  <1>13. MemoryType'
    <2>1. {0} \cup Place \cup {place} \subseteq {0} \cup Place'
      BY <1>6
    <2>2. nodeData' \in [1 .. Len(nodeData') -> {0} \cup Place']
      BY <1>1, <2>1
    <2>3. nodeData' \in Seq({0} \cup Place')
      BY <1>1, <2>2, FunctionIsSeq
    <2>4. lastValueIndex' \in {0} \cup Place'
      BY <1>2, <1>6
    <2> QED BY <1>2, <1>7, <2>3, <2>4 DEF MemoryType
  <1>14. OptionsType'
    <2>1. options' \in [request : {"get", "post", "put"}, customRequest : BOOLEAN,
                        target : Text, headers : Seq(Node'), timeout : Nat,
                        postSize : 0 .. MaxBody, inSize : 0 .. MaxBody]
      BY <1>3, <1>4, <1>7
    <2> QED BY <2>1 DEF OptionsType
  <1> HIDE DEF newHeads, newBuilt
  <1>15. MemoryInv'
    <2>1. Apart(freeNodes', newHeads)
      <3> SUFFICES ASSUME NEW i \in 1 .. Len(freeNodes'), NEW j \in 1 .. Len(newHeads)
                   PROVE  freeNodes'[i] # newHeads[j]
        BY DEF Apart
      <3>1. CASE j = 1
        BY <1>1, <1>8, <3>1
      <3>2. CASE j # 1
        <4>1. j \in 2 .. n + 1
          BY <1>5, <1>8, <3>2
        <4>2. j - 1 \in 1 .. n /\ newHeads[j] = heads[j - 1]
          BY <1>8, <4>1
        <4>3. PICK k \in 1 .. Len(freeNodes) : freeNodes'[i] = freeNodes[k]
          BY <1>1
        <4>4. freeNodes[k] # heads[j - 1]
          BY <4>2 DEF MemoryInv, Apart
        <4> QED BY <4>2, <4>3, <4>4
      <3> QED BY <3>1, <3>2
    <2>2. ASSUME NEW i \in 1 .. Len(freeNodes') PROVE nodeData'[freeNodes'[i]] = 0
      <3>1. PICK k \in 1 .. Len(freeNodes) : freeNodes'[i] = freeNodes[k]
        BY <1>1
      <3>2. freeNodes[k] \in 1 .. Len(nodeData) /\ nodeData[freeNodes[k]] = 0
        BY <1>4, ElementOfSeq DEF MemoryInv, Node
      <3>3. freeNodes'[i] # node
        BY <1>1
      <3> QED BY <1>1, <3>1, <3>2, <3>3
    <2>3. Len(request'.headers) = n + 1
      BY <1>8, <1>11
    <2>4. lastValueIndex' = Len(request'.headers) /\ Len(request'.headers) <= Len(allValues')
      BY <1>2, <1>5, <2>3
    <2>5. Len(freeNodes') + Len(request'.headers) = Len(nodeData')
      BY <1>1, <2>3
    <2>6. Distinct(freeNodes') /\ Distinct(request'.headers) /\ Apart(freeNodes', request'.headers)
      BY <1>1, <1>10, <1>11, <2>1
    <2> QED BY <1>1, <1>2, <2>2, <2>4, <2>5, <2>6 DEF MemoryInv
  <1>16. HeaderInv'
    <2>1. Len(newBuilt) = Len(newHeads)
      BY <1>8, <1>9
    <2>2. ASSUME NEW i \in 1 .. n + 1
          PROVE  /\ nodeData'[newHeads[i]] = (n + 1) - i + 1
                 /\ split_http_header(allValues'[(n + 1) - i + 1]) = Given(newBuilt[(n + 1) - i + 1])
      <3>1. CASE i = 1
        <4>1. (n + 1) - i + 1 = n + 1
          BY <1>5, <3>1
        <4>2. newHeads[i] = node
          BY <1>8, <3>1
        <4> QED BY <1>1, <1>2, <1>9, <4>1, <4>2
      <3>2. CASE i # 1
        <4> DEFINE k == n - (i - 1) + 1
        <4>1. i \in 2 .. n + 1 /\ i - 1 \in 1 .. n /\ k \in 1 .. n /\ (n + 1) - i + 1 = k
          BY <1>5, <3>2
        <4>2. newHeads[i] = heads[i - 1] /\ heads[i - 1] \in 1 .. Len(nodeData) /\ heads[i - 1] # node
          BY <1>1, <1>4, <1>8, <4>1, ElementOfSeq DEF Node
        <4>3. nodeData[heads[i - 1]] = k /\ split_http_header(allValues[k]) = Given(built.headers[k])
          BY <4>1 DEF HeaderInv
        <4>4. nodeData'[heads[i - 1]] = k
          BY <1>1, <4>2, <4>3
        <4>5. allValues'[k] = allValues[k] /\ newBuilt[k] = built.headers[k]
          BY <1>2, <1>9, <4>1
        <4> HIDE DEF k
        <4> QED BY <4>1, <4>2, <4>3, <4>4, <4>5
      <3> QED BY <3>1, <3>2
    <2>3. Len(newHeads) = n + 1
      BY <1>8
    <2> HIDE DEF n
    <2> QED BY <1>11, <2>1, <2>2, <2>3 DEF HeaderInv
  <1> QED BY <1>12, <1>13, <1>14, <1>15, <1>16

-----------------------------------------------------------------------------
(* Tasks: what each step finds and leaves.                                 *)

\* The tasks, waiting or swapped in, are sequences of actions.
LEMMA TasksType ==
    ASSUME TypeOK
    PROVE  batch \in Seq(Action) /\ queue \in Seq(Action) /\ Tasks \in Seq(Action)
  <1>1. batch \in Seq(Action) /\ queue \in Seq(Action)
    BY DEF TypeOK, Action
  <1> QED BY <1>1, ConcatProperties DEF Tasks

\* A client's task comes last.
LEMMA TasksPushed ==
    ASSUME TypeOK, NEW x \in Action, queue' = Append(queue, x), batch' = batch
    PROVE  Tasks' = Append(Tasks, x)
  <1>1. batch \in Seq(Action) /\ queue \in Seq(Action) /\ Tasks \in Seq(Action)
        /\ <<x>> \in Seq(Action)
    BY TasksType, Unit
  <1>2. queue' = queue \o <<x>> /\ Append(Tasks, x) = Tasks \o <<x>>
    BY <1>1, AppendIsConcat
  <1>3. \A r, s, t \in Seq(Action) : (r \o s) \o t = r \o (s \o t)
    BY ConcatAssociative
  <1>4. (batch \o queue) \o <<x>> = batch \o (queue \o <<x>>)
    BY <1>1, <1>3, Zenon
  <1> QED BY <1>2, <1>4, Zenon DEF Tasks

\* The first task of the batch is the first of all.
LEMMA TasksHandled ==
    ASSUME TypeOK, NEW x, NextTask(x), TaskDone
    PROVE  Tasks # <<>> /\ Head(Tasks) = x /\ Tasks' = Tail(Tasks)
  <1> DEFINE u == batch \o queue
             v == Tail(batch) \o queue
             m == Len(batch)
             n == Len(queue)
  <1>1. /\ batch \in Seq(Action) /\ queue \in Seq(Action) /\ batch # <<>> /\ Head(batch) = x
        /\ batch' = Tail(batch) /\ queue' = queue
    BY TasksType DEF NextTask, TaskDone
  <1>2. /\ Tail(batch) \in Seq(Action) /\ Len(Tail(batch)) = m - 1
        /\ m \in Nat \ {0} /\ n \in Nat
        /\ \A i \in 1 .. m - 1 : Tail(batch)[i] = batch[i + 1]
    BY <1>1, HeadTailProperties, EmptySeq, LenProperties
  <1>3. /\ u \in Seq(Action) /\ Len(u) = m + n
        /\ \A i \in 1 .. m + n : u[i] = IF i <= m THEN batch[i] ELSE queue[i - m]
    BY <1>1, ConcatProperties
  <1>4. /\ v \in Seq(Action) /\ Len(v) = (m - 1) + n
        /\ \A i \in 1 .. (m - 1) + n : v[i] = IF i <= m - 1 THEN batch[i + 1] ELSE queue[i - (m - 1)]
    <2>1. /\ v \in Seq(Action) /\ Len(v) = Len(Tail(batch)) + n
          /\ \A i \in 1 .. Len(Tail(batch)) + n :
                v[i] = IF i <= Len(Tail(batch)) THEN Tail(batch)[i] ELSE queue[i - Len(Tail(batch))]
      BY <1>1, <1>2, ConcatProperties
    <2> HIDE DEF v, m, n
    <2>2. Len(v) = (m - 1) + n
      BY <1>2, <2>1
    <2>3. \A i \in 1 .. (m - 1) + n : v[i] = IF i <= m - 1 THEN batch[i + 1] ELSE queue[i - (m - 1)]
      BY <1>2, <2>1
    <2> QED BY <2>1, <2>2, <2>3
  <1>5. u # <<>> /\ Head(u) = x
    <2>1. 1 \in 1 .. m + n /\ 1 <= m /\ Len(u) # 0
      BY <1>2, <1>3
    <2>2. u[1] = batch[1]
      BY <1>3, <2>1
    <2> QED BY <1>1, <2>1, <2>2
  <1> HIDE DEF u, v
  <1>6. /\ Tail(u) \in Seq(Action) /\ Len(Tail(u)) = Len(u) - 1
        /\ \A i \in 1 .. Len(Tail(u)) : Tail(u)[i] = u[i + 1]
    BY <1>3, <1>5, HeadTailProperties
  <1>7. \A i \in 1 .. Len(v) : Tail(u)[i] = v[i]
    <2> HIDE DEF m, n
    <2> SUFFICES ASSUME NEW i \in 1 .. Len(v) PROVE Tail(u)[i] = v[i]
      OBVIOUS
    <2>1. /\ i \in 1 .. (m - 1) + n /\ i + 1 \in 1 .. m + n /\ i \in 1 .. Len(Tail(u))
          /\ (i + 1) - m = i - (m - 1) /\ (i + 1 <= m <=> i <= m - 1)
      BY <1>2, <1>3, <1>4, <1>6
    <2>2. Tail(u)[i] = u[i + 1]
      BY <1>6, <2>1
    <2>3. u[i + 1] = IF i <= m - 1 THEN batch[i + 1] ELSE queue[i - (m - 1)]
      BY <1>3, <2>1
    <2> QED BY <1>4, <2>1, <2>2, <2>3
  <1>8. Tail(u) = v
    <2>1. Len(Tail(u)) = Len(v)
      BY <1>2, <1>3, <1>4, <1>6
    <2> QED BY <1>4, <1>6, <1>7, <2>1, SeqEqual
  <1> QED BY <1>1, <1>5, <1>8 DEF Tasks, u, v

\* The task whose turn it is comes first.
LEMMA FirstTask ==
    ASSUME TypeOK, NEW x, NextTask(x)
    PROVE  Tasks # <<>> /\ Head(Tasks) = x
  <1>1. /\ batch \in Seq(Action) /\ queue \in Seq(Action) /\ batch # <<>> /\ Head(batch) = x
    BY TasksType DEF NextTask
  <1>2. /\ Tasks \in Seq(Action) /\ Len(Tasks) = Len(batch) + Len(queue)
        /\ \A i \in 1 .. Len(batch) + Len(queue) :
              Tasks[i] = IF i <= Len(batch) THEN batch[i] ELSE queue[i - Len(batch)]
    BY <1>1, ConcatProperties DEF Tasks
  <1>3. Len(batch) \in Nat \ {0} /\ Len(queue) \in Nat
    BY <1>1, EmptySeq, LenProperties
  <1>4. 1 \in 1 .. Len(batch) + Len(queue) /\ 1 <= Len(batch) /\ Len(Tasks) # 0
    BY <1>2, <1>3
  <1>5. Tasks[1] = batch[1]
    BY <1>2, <1>4
  <1> QED BY <1>1, <1>4, <1>5

\* The swap keeps them.
LEMMA TasksSwapped ==
    ASSUME TypeOK, RoundInv, swap_task_queue
    PROVE  Tasks' = Tasks
  BY TasksType, ConcatEmptySeq DEF swap_task_queue, RoundInv, Tasks

\* Appending to a sequence of one element makes a pair.
LEMMA AppendToUnit ==
    ASSUME NEW S, NEW x \in S, NEW y \in S
    PROVE  Append(<<x>>, y) = <<x, y>>
  <1>1. <<x>> \in Seq(S)
    BY Unit
  <1>2. Append(<<x>>, y) = <<x>> \o <<y>>
    BY <1>1, AppendIsConcat
  <1> QED BY <1>2, Pair

\* The sequences of tasks there may be.
LEMMA Shapes ==
    /\ Head(<<"add">>) = "add" /\ Head(<<"send">>) = "send" /\ Head(<<"remove">>) = "remove"
    /\ Head(<<"add", "send">>) = "add" /\ Head(<<"add", "remove">>) = "add"
    /\ Head(<<"send", "remove">>) = "send"
    /\ Tail(<<"add">>) = <<>> /\ Tail(<<"send">>) = <<>> /\ Tail(<<"remove">>) = <<>>
    /\ Tail(<<"add", "send">>) = <<"send">> /\ Tail(<<"add", "remove">>) = <<"remove">>
    /\ Append(<<>>, "send") = <<"send">> /\ Append(<<>>, "remove") = <<"remove">>
    /\ Append(<<"add">>, "send") = <<"add", "send">>
    /\ Append(<<"add">>, "remove") = <<"add", "remove">>
    /\ Append(<<"send">>, "remove") = <<"send", "remove">>
  <1>1. /\ Head(<<"add">>) = "add" /\ Head(<<"send">>) = "send" /\ Head(<<"remove">>) = "remove"
        /\ Head(<<"add", "send">>) = "add" /\ Head(<<"add", "remove">>) = "add"
        /\ Head(<<"send", "remove">>) = "send"
    OBVIOUS
  <1>2. Tail(<<"add">>) = <<>> /\ Tail(<<"send">>) = <<>> /\ Tail(<<"remove">>) = <<>>
    OBVIOUS
  <1>3. Tail(<<"add", "send">>) = <<"send">>
    OBVIOUS
  <1>4. Tail(<<"add", "remove">>) = <<"remove">>
    OBVIOUS
  <1>5. Append(<<>>, "send") = <<"send">> /\ Append(<<>>, "remove") = <<"remove">>
    OBVIOUS
  <1>a. "add" \in Action /\ "send" \in Action /\ "remove" \in Action
    BY DEF Action
  <1>6. Append(<<"add">>, "send") = <<"add", "send">>
    BY <1>a, AppendToUnit
  <1>7. Append(<<"add">>, "remove") = <<"add", "remove">>
    BY <1>a, AppendToUnit
  <1>8. Append(<<"send">>, "remove") = <<"send", "remove">>
    BY <1>a, AppendToUnit
  <1> QED BY <1>1, <1>2, <1>3, <1>4, <1>5, <1>6, <1>7, <1>8

Status == {"initializing", "ready", "busy", "inactive"}

\* A task that is first tells the status, as the asserts of its handler expect.
LEMMA AddFound ==
    ASSUME PhaseInv, status \in Status, Tasks # <<>>, Head(Tasks) = "add"
    PROVE  /\ status = "initializing"
           /\ alive /\ unanswered = 0 => Tail(Tasks) = <<>>
           /\ alive /\ unanswered # 0 => Tail(Tasks) = <<"send">>
           /\ ~alive => Tail(Tasks) = <<"remove">>
  <1>1. "add" # "send" /\ "add" # "remove"
    OBVIOUS
  <1>2. ~(status \in {"ready", "busy", "inactive"})
    BY <1>1, Shapes, Zenon DEF PhaseInv
  <1>3. status = "initializing"
    BY <1>2, Zenon DEF Status
  <1> QED BY <1>3, Shapes, Zenon DEF PhaseInv

\* When a send is handled the request is the one that waits for its answer,
\* unless the registration failed.
LEMMA SendFound ==
    ASSUME PhaseInv, status \in Status, Tasks # <<>>, Head(Tasks) = "send"
    PROVE  \/ status = "ready" /\ alive /\ unanswered # 0 /\ Tail(Tasks) = <<>>
           \/ RegisterRaces /\ status = "inactive"
  <1>1. "send" # "add" /\ "send" # "remove"
    OBVIOUS
  <1>2. ~(status \in {"initializing", "busy"})
    BY <1>1, Shapes, Zenon DEF PhaseInv
  <1>3. status = "ready" => alive /\ unanswered # 0 /\ Tail(Tasks) = <<>>
    BY <1>1, Shapes, Zenon DEF PhaseInv
  <1>4. status = "inactive" => RegisterRaces
    BY <1>1, Shapes, Zenon DEF PhaseInv
  <1> QED BY <1>2, <1>3, <1>4, Zenon DEF Status

\* When a remove is handled the client is gone and no task follows.
LEMMA RemoveFound ==
    ASSUME PhaseInv, status \in Status, Tasks # <<>>, Head(Tasks) = "remove"
    PROVE  status \in {"ready", "inactive"} /\ ~alive /\ Tail(Tasks) = <<>>
  <1>1. "remove" # "add" /\ "remove" # "send"
    OBVIOUS
  <1>2. ~(status \in {"initializing", "busy"})
    BY <1>1, Shapes, Zenon DEF PhaseInv
  <1>3. status = "ready" => ~alive /\ Tail(Tasks) = <<>>
    BY <1>1, Shapes, Zenon DEF PhaseInv
  <1>4. status = "inactive" => ~alive /\ Tail(Tasks) = <<>>
    BY <1>1, Shapes, Zenon DEF PhaseInv
  <1> QED BY <1>2, <1>3, <1>4, Zenon DEF Status

-----------------------------------------------------------------------------
(* The status, the tasks and what the client does.                         *)

PhaseVars == <<status, handle, transfer, building, unanswered, failed, alive, inFlight>>

\* A step that leaves the tasks and the status alone keeps the phase of the
\* connection.
LEMMA PhaseKept ==
    ASSUME PhaseInv, TransferCoherent, Tasks' = Tasks, UNCHANGED PhaseVars
    PROVE  PhaseInv' /\ TransferCoherent'
  <1>1. /\ status' = status /\ handle' = handle /\ transfer' = transfer /\ building' = building
        /\ unanswered' = unanswered /\ failed' = failed /\ alive' = alive /\ inFlight' = inFlight
    BY DEF PhaseVars
  <1>2. TransferCoherent'
    BY <1>1 DEF TransferCoherent
  <1>3. PhaseInv'
    BY <1>1, Zenon DEF PhaseInv
  <1> QED BY <1>2, <1>3

\* A client begins a request.
LEMMA MethodPhase ==
    ASSUME TypeOK, PhaseInv, TransferCoherent, NEW m, set_request_method(m)
    PROVE  PhaseInv' /\ TransferCoherent'
  <1>1. /\ alive /\ ~building /\ unanswered = 0 /\ ~failed /\ building' = TRUE
        /\ status' = status /\ handle' = handle /\ transfer' = transfer
        /\ unanswered' = unanswered /\ failed' = failed /\ alive' = alive /\ inFlight' = inFlight
        /\ batch' = batch /\ queue' = queue
    BY DEF set_request_method, BuildVars, workVars, curlVars
  <1>2. Tasks' = Tasks
    BY <1>1 DEF Tasks
  <1>3. TransferCoherent'
    BY <1>1 DEF TransferCoherent
  <1>4. status # "inactive"
    BY <1>1, Zenon DEF PhaseInv
  <1>5. PhaseInv'
    BY <1>1, <1>2, <1>4, Zenon DEF PhaseInv
  <1> QED BY <1>3, <1>5

\* rest_request::perform: a send follows an add or an answered request.
LEMMA PerformPhase ==
    ASSUME TypeOK, PhaseInv, TransferCoherent, perform
    PROVE  PhaseInv' /\ TransferCoherent'
  <1>1. /\ building /\ queue' = Append(queue, "send") /\ batch' = batch
        /\ building' = FALSE /\ unanswered' = requests + 1
        /\ status' = status /\ handle' = handle /\ transfer' = transfer
        /\ failed' = failed /\ alive' = alive /\ inFlight' = inFlight
    BY DEF perform, connVars, curlVars
  <1>2. Tasks' = Append(Tasks, "send")
    BY <1>1, TasksPushed DEF Action
  <1>3. unanswered' # 0
    <2>1. requests \in Nat
      BY DEF TypeOK
    <2> QED BY <1>1, <2>1
  <1>4. TransferCoherent'
    BY <1>1 DEF TransferCoherent
  <1>5. alive /\ unanswered = 0 /\ status # "busy"
    BY <1>1, Zenon DEF PhaseInv
  <1>6. status = "initializing" => Tasks' = <<"add", "send">>
    BY <1>2, <1>5, Shapes, Zenon DEF PhaseInv
  <1>7. status = "ready" => Tasks' = <<"send">>
    BY <1>2, <1>5, Shapes, Zenon DEF PhaseInv
  <1>8. status = "inactive" => Tasks' = <<"send">> /\ RegisterRaces /\ failed
    BY <1>1, <1>2, <1>5, Shapes, Zenon DEF PhaseInv
  <1>9. PhaseInv'
    BY <1>1, <1>3, <1>5, <1>6, <1>7, <1>8, Zenon DEF PhaseInv
  <1> QED BY <1>4, <1>9

\* The destructor of the client: the remove is the last task.
LEMMA RemovePhase ==
    ASSUME TypeOK, PhaseInv, TransferCoherent, remove_connection
    PROVE  PhaseInv' /\ TransferCoherent'
  <1>1. /\ alive /\ ~building /\ unanswered = 0
        /\ queue' = Append(queue, "remove") /\ batch' = batch
        /\ building' = building /\ unanswered' = unanswered
        /\ status' = status /\ handle' = handle /\ transfer' = transfer
        /\ failed' = failed /\ alive' = FALSE /\ inFlight' = inFlight
    BY DEF remove_connection, connVars, curlVars
  <1>2. Tasks' = Append(Tasks, "remove")
    BY <1>1, TasksPushed DEF Action
  <1>3. TransferCoherent'
    BY <1>1 DEF TransferCoherent
  <1>4. status # "busy"
    BY <1>1, Zenon DEF PhaseInv
  <1>5. status = "initializing" => Tasks' = <<"add", "remove">>
    BY <1>1, <1>2, Shapes, Zenon DEF PhaseInv
  <1>6. status = "ready" => Tasks' = <<"remove">>
    BY <1>1, <1>2, Shapes, Zenon DEF PhaseInv
  <1>7. status = "inactive" /\ Tasks = <<>> => Tasks' = <<"remove">>
    BY <1>2, Shapes, Zenon
  <1>8. status = "inactive" /\ Tasks = <<"send">> => Tasks' = <<"send", "remove">>
    BY <1>2, Shapes, Zenon
  <1>9. status = "inactive" => \/ Tasks = <<>>
                               \/ Tasks = <<"send">> /\ RegisterRaces
    <2>1. <<"send">> # <<>> /\ <<"send">> # <<"remove">>
      BY Shapes
    <2> QED BY <1>1, <2>1, FlagsAssumption, Zenon DEF PhaseInv
  <1>10. PhaseInv'
    BY <1>1, <1>4, <1>5, <1>6, <1>7, <1>8, <1>9, Zenon DEF PhaseInv
  <1> QED BY <1>3, <1>10

\* A failure leaves the tasks of a client that was told, or is gone.
LEMMA FailPhase ==
    ASSUME PhaseInv, Fail, alive \in BOOLEAN,
           alive => Tasks' \in {<<>>, <<"send">>} /\ (building => Tasks' = <<>>),
           ~alive => Tasks' \in {<<>>, <<"remove">>, <<"send", "remove">>},
           ~RegisterRaces => ~building /\ Tasks' \in {<<>>, <<"remove">>}
    PROVE  PhaseInv' /\ TransferCoherent'
  <1>1. /\ status' = "inactive" /\ handle' = FALSE /\ transfer' = FALSE /\ failed' = TRUE
        /\ unanswered' = 0 /\ building' = building /\ alive' = alive /\ inFlight' = inFlight
    BY DEF Fail, deactivate
  <1>2. TransferCoherent'
    BY <1>1 DEF TransferCoherent
  <1>3. /\ "inactive" # "initializing" /\ "inactive" # "ready" /\ "inactive" # "busy"
    OBVIOUS
  <1>4. building => alive
    BY DEF PhaseInv
  <1>5. PhaseInv'
    BY <1>1, <1>3, <1>4, Zenon DEF PhaseInv
  <1> QED BY <1>2, <1>5

\* register_handle leaves the connection ready, or inactive when curl refuses.
LEMMA RegisterPhase ==
    ASSUME TypeOK, PhaseInv, TransferCoherent, register_handle
    PROVE  PhaseInv' /\ TransferCoherent'
  <1>1. Tasks # <<>> /\ Head(Tasks) = "add" /\ Tasks' = Tail(Tasks)
    BY TasksHandled DEF register_handle
  <1>2. status \in Status /\ alive \in BOOLEAN
    BY DEF TypeOK, Status
  <1>3. /\ status = "initializing"
        /\ alive /\ unanswered = 0 => Tasks' = <<>>
        /\ alive /\ unanswered # 0 => Tasks' = <<"send">>
        /\ ~alive => Tasks' = <<"remove">>
    BY <1>1, <1>2, AddFound, Zenon
  <1>4. CASE /\ handle' = TRUE /\ status' = "ready"
             /\ UNCHANGED <<requestTarget, requestVars, curlVars, clientVars>>
    <2>1. /\ transfer' = transfer /\ building' = building
          /\ unanswered' = unanswered /\ failed' = failed /\ alive' = alive
      BY <1>4 DEF curlVars, clientVars
    <2>2. transfer = FALSE
      BY <1>3 DEF TransferCoherent, TypeOK
    <2>3. TransferCoherent'
      BY <1>4, <2>1, <2>2 DEF TransferCoherent
    <2>4. "ready" # "initializing" /\ "ready" # "busy" /\ "ready" # "inactive"
          /\ "initializing" # "inactive"
      OBVIOUS
    <2>5. PhaseInv'
      BY <1>3, <1>4, <2>1, <2>4, Zenon DEF PhaseInv
    <2> QED BY <2>3, <2>5
  <1>5. CASE (RegisterRaces \/ (~building /\ unanswered = 0)) /\ Fail
    <2>1. building => unanswered = 0 /\ alive
      BY DEF PhaseInv
    <2>2. alive => Tasks' \in {<<>>, <<"send">>} /\ (building => Tasks' = <<>>)
      BY <1>3, <2>1, Zenon
    <2>3. ~alive => Tasks' \in {<<>>, <<"remove">>, <<"send", "remove">>}
      BY <1>3, Zenon
    <2>4. ~RegisterRaces => ~building /\ Tasks' \in {<<>>, <<"remove">>}
      BY <1>3, <1>5, Zenon
    <2> QED BY <1>2, <1>5, <2>2, <2>3, <2>4, FailPhase
  <1> QED BY <1>4, <1>5, Zenon DEF register_handle

\* send_message starts the one transfer of the connection, or fails it at
\* once.
LEMMA SendPhase ==
    ASSUME TypeOK, PhaseInv, TransferCoherent, send_message
    PROVE  PhaseInv' /\ TransferCoherent'
  <1>1. Tasks # <<>> /\ Head(Tasks) = "send" /\ Tasks' = Tail(Tasks) /\ status = "ready"
    BY TasksHandled DEF send_message
  <1>2. status \in Status /\ alive \in BOOLEAN
    BY DEF TypeOK, Status
  <1>3. "ready" # "inactive"
    OBVIOUS
  <1>4. alive /\ unanswered # 0 /\ Tasks' = <<>>
    BY <1>1, <1>2, <1>3, SendFound, Zenon
  <1>5. CASE /\ status' = "busy" /\ transfer' = TRUE /\ inFlight' = unanswered
             /\ UNCHANGED <<handle, requestVars, reported, clientVars>>
    <2>1. /\ handle' = handle /\ building' = building
          /\ unanswered' = unanswered /\ failed' = failed /\ alive' = alive
      BY <1>5 DEF clientVars
    <2>2. handle = TRUE
      BY <1>1 DEF TransferCoherent, TypeOK
    <2>3. TransferCoherent'
      BY <1>5, <2>1, <2>2 DEF TransferCoherent
    <2>4. "busy" # "initializing" /\ "ready" # "busy" /\ "busy" # "inactive"
      OBVIOUS
    <2>5. ~building /\ ~failed
      BY <1>1, <1>3, <1>4, Zenon DEF PhaseInv
    <2>6. PhaseInv'
      BY <1>4, <1>5, <2>1, <2>4, <2>5, Zenon DEF PhaseInv
    <2> QED BY <2>3, <2>6
  <1>6. CASE Fail
    <2>1. ~building
      BY <1>4, Zenon DEF PhaseInv
    <2> QED BY <1>2, <1>4, <1>6, <2>1, FailPhase
  <1> QED BY <1>5, <1>6, Zenon DEF send_message

\* unregister_handle leaves neither handle nor transfer.
LEMMA UnregisterPhase ==
    ASSUME TypeOK, PhaseInv, TransferCoherent, unregister_handle
    PROVE  PhaseInv' /\ TransferCoherent'
  <1>1. Tasks # <<>> /\ Head(Tasks) = "remove" /\ Tasks' = Tail(Tasks)
    BY TasksHandled DEF unregister_handle
  <1>2. status \in Status
    BY DEF TypeOK, Status
  <1>3. status \in {"ready", "inactive"} /\ ~alive /\ Tasks' = <<>>
    BY <1>1, <1>2, RemoveFound, Zenon
  <1>4. /\ inFlight' = inFlight /\ building' = building
        /\ unanswered' = unanswered /\ failed' = failed /\ alive' = alive
    BY DEF unregister_handle, clientVars
  <1>5. /\ status' = "inactive" /\ handle' = FALSE /\ transfer' = FALSE
    <2>1. CASE handle
      BY <2>1 DEF unregister_handle, deactivate
    <2>2. CASE ~handle
      BY <1>3, <2>2 DEF unregister_handle, TransferCoherent, TypeOK
    <2> QED BY <2>1, <2>2
  <1>6. TransferCoherent'
    BY <1>5 DEF TransferCoherent
  <1>7. "inactive" # "initializing" /\ "inactive" # "ready" /\ "inactive" # "busy"
    OBVIOUS
  <1>8. ~building /\ unanswered = 0
    BY <1>3, Zenon DEF PhaseInv
  <1>9. PhaseInv'
    BY <1>3, <1>4, <1>5, <1>7, <1>8, Zenon DEF PhaseInv
  <1> QED BY <1>6, <1>9

\* A complete response ends the transfer and answers the request.
LEMMA CompletePhase ==
    ASSUME TypeOK, PhaseInv, TransferCoherent, on_response_complete
    PROVE  PhaseInv' /\ TransferCoherent'
  <1>1. /\ transfer /\ status' = "ready" /\ transfer' = FALSE /\ unanswered' = 0
        /\ batch' = batch /\ queue' = queue /\ handle' = handle /\ inFlight' = inFlight
        /\ building' = building /\ failed' = failed /\ alive' = alive
    BY DEF on_response_complete, TransferRuns, workVars
  <1>2. status = "busy" /\ handle = TRUE
    BY <1>1 DEF TransferCoherent, TypeOK
  <1>3. TransferCoherent'
    BY <1>1, <1>2 DEF TransferCoherent
  <1>4. Tasks' = Tasks
    BY <1>1 DEF Tasks
  <1>5. "ready" # "initializing" /\ "ready" # "busy" /\ "ready" # "inactive" /\ "busy" # "inactive"
    OBVIOUS
  <1>6. Tasks = <<>> /\ alive /\ ~building /\ ~failed
    BY <1>2, <1>5, Zenon DEF PhaseInv
  <1>7. PhaseInv'
    BY <1>1, <1>4, <1>5, <1>6, Zenon DEF PhaseInv
  <1> QED BY <1>3, <1>7

\* A failed transfer deactivates the connection.
LEMMA TransferFailsPhase ==
    ASSUME TypeOK, PhaseInv, TransferCoherent, TransferFails
    PROVE  PhaseInv' /\ TransferCoherent'
  <1>1. transfer /\ Fail /\ batch' = batch /\ queue' = queue /\ alive \in BOOLEAN
    BY DEF TransferFails, TransferRuns, workVars, TypeOK
  <1>2. status = "busy"
    BY <1>1 DEF TransferCoherent
  <1>3. Tasks' = Tasks
    BY <1>1 DEF Tasks
  <1>4. Tasks = <<>> /\ alive /\ ~building
    BY <1>2, Zenon DEF PhaseInv
  <1> QED BY <1>1, <1>3, <1>4, FailPhase

-----------------------------------------------------------------------------
(* The request, what curl was told of it, and the client's memory of it.   *)

DataType == RequestType /\ MemoryType /\ OptionsType /\ built \in Ask(HeaderGiven)

\* The type invariant covers the data of the request.
LEMMA DataTypeHere == ASSUME TypeOK PROVE DataType
  BY TypeParts DEF DataType, ClientType

\* No transfer runs while a client builds a request, or may begin one.
LEMMA NoTransfer ==
    ASSUME PhaseInv, TransferCoherent, building \/ unanswered = 0
    PROVE  transfer = FALSE \/ transfer \notin BOOLEAN
  <1>1. unanswered = 0
    BY Zenon DEF PhaseInv
  <1>2. status # "busy"
    BY <1>1, Zenon DEF PhaseInv
  <1> QED BY <1>2 DEF TransferCoherent

\* Steps that leave the request and curl's options alone.
DataVars == <<requestVars, requestTarget, options, transfer, built>>

\* A step that leaves the request, its memory and its options alone keeps what
\* holds of them.
LEMMA DataKept ==
    ASSUME TypeOK, DataInv, UNCHANGED DataVars,
           building' => requests' < MaxRequests,
           ~building' /\ unanswered' = 0 => ~building /\ unanswered = 0
    PROVE  DataInv' /\ DataType'
  <1>1. /\ request' = request /\ bodyOffset' = bodyOffset /\ freeNodes' = freeNodes
        /\ nodeData' = nodeData /\ allValues' = allValues /\ lastValueIndex' = lastValueIndex
        /\ requestTarget' = requestTarget /\ options' = options /\ transfer' = transfer
        /\ built' = built
    BY DEF DataVars, requestVars
  <1>2. Node' = Node /\ Place' = Place
    BY <1>1 DEF Node, Place
  <1>3. DataType'
    <2>1. DataType
      BY DataTypeHere
    <2> QED BY <1>1, <1>2, <2>1, Zenon DEF DataType, RequestType, MemoryType, OptionsType
  <1>4. MemoryInv'
    BY <1>1, Zenon DEF DataInv, MemoryInv
  <1>5. HeaderInv'
    BY <1>1, Zenon DEF DataInv, HeaderInv
  <1>6. OptionsInv'
    BY <1>1, Zenon DEF DataInv, OptionsInv, WireMethod, WireSize
  <1>7. RequestInv'
    BY <1>1, Zenon DEF DataInv, RequestInv
  <1> QED BY <1>3, <1>4, <1>5, <1>6, <1>7 DEF DataInv

\* A client gives a part of a request.
LEMMA PartSet ==
    ASSUME TypeOK, TransferCoherent, PhaseInv, DataInv, building \/ unanswered = 0,
           UNCHANGED <<MemoryVars, bodyOffset, requestTarget, options, transfer>>, building',
           request' \in Ask(Node), built' \in Ask(HeaderGiven),
           request'.headers = request.headers, built'.headers = built.headers,
           request'.method = built'.method, request'.path = built'.path,
           request'.query = built'.query, request'.body = built'.body,
           request'.timeout = built'.timeout,
           request'.method = "get" => request'.body = 0,
           ~Contains(request'.path, "?"),
           requests' < MaxRequests
    PROVE  DataInv' /\ DataType'
  <1>1. /\ bodyOffset' = bodyOffset /\ freeNodes' = freeNodes
        /\ nodeData' = nodeData /\ allValues' = allValues /\ lastValueIndex' = lastValueIndex
        /\ requestTarget' = requestTarget /\ options' = options /\ transfer' = transfer
    BY DEF MemoryVars
  <1>2. Node' = Node /\ Place' = Place
    BY <1>1 DEF Node, Place
  <1>3. DataType'
    <2>1. DataType
      BY DataTypeHere
    <2> QED BY <1>1, <1>2, <2>1, Zenon DEF DataType, RequestType, MemoryType, OptionsType
  <1>4. MemoryInv'
    BY <1>1, Zenon DEF DataInv, MemoryInv
  <1>5. HeaderInv'
    BY <1>1, Zenon DEF DataInv, HeaderInv
  <1>6. transfer = FALSE
    BY NoTransfer DEF TypeOK
  <1>7. OptionsInv'
    BY <1>1, <1>6 DEF OptionsInv
  <1>8. RequestInv'
    <2>1. bodyOffset' = 0 /\ requestTarget' = <<>> /\ ~options'.customRequest
      BY <1>1, <1>6 DEF DataInv, RequestInv
    <2> QED BY <2>1, Zenon DEF RequestInv
  <1> QED BY <1>3, <1>4, <1>5, <1>7, <1>8 DEF DataInv

\* set_request_method begins a request in clean memory.
LEMMA MethodData ==
    ASSUME IInv, NEW m \in Method, set_request_method(m)
    PROVE  DataInv' /\ DataType'
  <1>1. /\ ~building /\ unanswered = 0 /\ requests < MaxRequests /\ building' = TRUE
        /\ request' = [request EXCEPT !.method = m]
        /\ built' = [EmptyRequest EXCEPT !.method = m]
        /\ UNCHANGED <<MemoryVars, bodyOffset, requestTarget, options, transfer, requests>>
    BY DEF set_request_method, BuildVars, curlVars, MemoryVars
  <1>2. request = EmptyRequest /\ built = EmptyRequest
    BY <1>1 DEF IInv, DataInv, RequestInv
  <1>3. EmptyRequest \in Ask(Node) /\ EmptyRequest \in Ask(HeaderGiven)
    BY EmptyType
  <1>4. request' \in Ask(Node) /\ built' \in Ask(HeaderGiven)
    BY <1>1, <1>2, <1>3 DEF Ask
  <1>5. /\ request'.headers = request.headers /\ built'.headers = built.headers
        /\ request'.method = built'.method /\ request'.path = built'.path
        /\ request'.query = built'.query /\ request'.body = built'.body
        /\ request'.timeout = built'.timeout /\ request'.body = 0 /\ request'.path = <<>>
    BY <1>1, <1>2 DEF EmptyRequest
  <1>6. ~Contains(request'.path, "?")
    BY <1>5 DEF Contains
  <1>7. requests' < MaxRequests /\ building'
    BY <1>1
  <1>8. UNCHANGED <<MemoryVars, bodyOffset, requestTarget, options, transfer>>
    BY <1>1
  <1> QED BY <1>1, <1>4, <1>5, <1>6, <1>7, <1>8, PartSet DEF IInv

\* The setters of path, query and timeout change the request alone.
LEMMA PartData ==
    ASSUME IInv,
           \/ \E path \in Path : set_request_path(path)
           \/ \E query \in Query : set_request_query(query)
           \/ \E timeout \in Timeout : set_request_timeout(timeout)
    PROVE  DataInv' /\ DataType'
  <1>1. /\ request \in Ask(Node) /\ built \in Ask(HeaderGiven)
        /\ request.method = built.method /\ request.path = built.path
        /\ request.query = built.query /\ request.body = built.body
        /\ request.timeout = built.timeout
        /\ request.method = "get" => request.body = 0
        /\ ~Contains(request.path, "?")
        /\ building => requests < MaxRequests
    BY DEF IInv, DataInv, RequestInv, TypeOK, HeaderGiven
  <1>2. ASSUME NEW part, NEW value, SetPart(part, value)
        PROVE  /\ building /\ building' /\ requests' < MaxRequests
               /\ UNCHANGED <<MemoryVars, bodyOffset, requestTarget, options, transfer>>
               /\ request' = [request EXCEPT ![part] = value]
               /\ built' = [built EXCEPT ![part] = value]
    <2>1. /\ building /\ requests' = requests /\ building' = building
          /\ UNCHANGED <<MemoryVars, bodyOffset, requestTarget, options, transfer>>
          /\ request' = [request EXCEPT ![part] = value]
          /\ built' = [built EXCEPT ![part] = value]
      BY <1>2 DEF SetPart, BuildVars, curlVars, MemoryVars
    <2> QED BY <1>1, <2>1
  <1>3. CASE \E path \in Path : set_request_path(path)
    <2>1. PICK path \in Path : SetPart("path", path)
      BY <1>3 DEF set_request_path
    <2>2. path \in Text /\ ~Contains(path, "?")
      BY TargetAssumption
    <2>3. request' = [request EXCEPT !.path = path] /\ built' = [built EXCEPT !.path = path]
      BY <1>2, <2>1
    <2>4. request' \in Ask(Node) /\ built' \in Ask(HeaderGiven)
      BY <1>1, <2>2, <2>3 DEF Ask
    <2>5. /\ request'.headers = request.headers /\ built'.headers = built.headers
          /\ request'.method = built'.method /\ request'.path = built'.path
          /\ request'.query = built'.query /\ request'.body = built'.body
          /\ request'.timeout = built'.timeout /\ request'.path = path
          /\ request'.method = request.method /\ request'.body = request.body
      BY <1>1, <2>3 DEF Ask
    <2>6. request'.method = "get" => request'.body = 0
      BY <1>1, <2>5
    <2>7. ~Contains(request'.path, "?")
      BY <2>2, <2>5
    <2> QED BY <1>2, <2>1, <2>4, <2>5, <2>6, <2>7, PartSet DEF IInv
  <1>4. CASE \E query \in Query : set_request_query(query)
    <2>1. PICK query \in Query : SetPart("query", query)
      BY <1>4 DEF set_request_query
    <2>2. query \in Text
      BY TargetAssumption
    <2>3. request' = [request EXCEPT !.query = query] /\ built' = [built EXCEPT !.query = query]
      BY <1>2, <2>1
    <2>4. request' \in Ask(Node) /\ built' \in Ask(HeaderGiven)
      BY <1>1, <2>2, <2>3 DEF Ask
    <2>5. /\ request'.headers = request.headers /\ built'.headers = built.headers
          /\ request'.method = built'.method /\ request'.path = built'.path
          /\ request'.query = built'.query /\ request'.body = built'.body
          /\ request'.timeout = built'.timeout /\ request'.path = request.path
          /\ request'.method = request.method /\ request'.body = request.body
      BY <1>1, <2>3 DEF Ask
    <2>6. request'.method = "get" => request'.body = 0
      BY <1>1, <2>5
    <2>7. ~Contains(request'.path, "?")
      BY <1>1, <2>5
    <2> QED BY <1>2, <2>1, <2>4, <2>5, <2>6, <2>7, PartSet DEF IInv
  <1>5. CASE \E timeout \in Timeout : set_request_timeout(timeout)
    <2>1. PICK timeout \in Timeout : SetPart("timeout", timeout)
      BY <1>5 DEF set_request_timeout
    <2>2. timeout \in Nat
      BY TimeoutAssumption
    <2>3. request' = [request EXCEPT !.timeout = timeout] /\ built' = [built EXCEPT !.timeout = timeout]
      BY <1>2, <2>1
    <2>4. request' \in Ask(Node) /\ built' \in Ask(HeaderGiven)
      BY <1>1, <2>2, <2>3 DEF Ask
    <2>5. /\ request'.headers = request.headers /\ built'.headers = built.headers
          /\ request'.method = built'.method /\ request'.path = built'.path
          /\ request'.query = built'.query /\ request'.body = built'.body
          /\ request'.timeout = built'.timeout /\ request'.path = request.path
          /\ request'.method = request.method /\ request'.body = request.body
      BY <1>1, <2>3 DEF Ask
    <2>6. request'.method = "get" => request'.body = 0
      BY <1>1, <2>5
    <2>7. ~Contains(request'.path, "?")
      BY <1>1, <2>5
    <2> QED BY <1>2, <2>1, <2>4, <2>5, <2>6, <2>7, PartSet DEF IInv
  <1> QED BY <1>3, <1>4, <1>5

\* A client gives a header, or a body with its content type.
LEMMA HeaderData ==
    ASSUME IInv, NEW text \in Text, NEW h \in HeaderGiven, NEW b \in 0 .. MaxBody,
           split_http_header(text) = Given(h), StoreHeader(text, h, b),
           request.method = "get" => b = 0
    PROVE  DataInv' /\ DataType'
  <1>1. /\ building /\ building' = building /\ requests' = requests
        /\ request' = [request EXCEPT !.headers = <<IF freeNodes = <<>> THEN Len(nodeData) + 1
                                                    ELSE Head(freeNodes)>> \o @, !.body = b]
        /\ built' = [built EXCEPT !.headers = Append(@, h), !.body = b]
        /\ bodyOffset' = bodyOffset /\ requestTarget' = requestTarget
        /\ options' = options /\ transfer' = transfer
    BY DEF StoreHeader, BuildVars, curlVars
  <1>2. /\ TypeOK /\ MemoryInv /\ HeaderInv /\ RequestInv /\ PhaseInv /\ TransferCoherent
        /\ request \in Ask(Node) /\ built \in Ask(HeaderGiven)
    BY DEF IInv, DataInv, TypeOK, HeaderGiven
  <1>3. RequestType' /\ MemoryType' /\ OptionsType' /\ MemoryInv' /\ HeaderInv'
    BY <1>2, StoreFacts
  <1>4. built' \in Ask(HeaderGiven)
    <2> DEFINE s == Append(built.headers, h)
    <2>1. built.headers \in Seq(HeaderGiven)
      BY <1>2 DEF Ask
    <2>2. s \in Seq(HeaderGiven)
      BY <2>1, AppendProperties
    <2>3. built' = [built EXCEPT !.headers = s, !.body = b]
      BY <1>1, <1>2 DEF Ask
    <2> HIDE DEF s
    <2> QED BY <1>2, <2>2, <2>3 DEF Ask
  <1>5. transfer = FALSE
    BY <1>1, <1>2, NoTransfer DEF TypeOK
  <1>6. OptionsInv'
    BY <1>1, <1>5 DEF OptionsInv
  <1>7. RequestInv'
    <2>1. /\ request'.method = request.method /\ request'.path = request.path
          /\ request'.query = request.query /\ request'.body = b
          /\ request'.timeout = request.timeout
      BY <1>1, <1>2 DEF Ask
    <2>2. /\ built'.method = built.method /\ built'.path = built.path
          /\ built'.query = built.query /\ built'.body = b
          /\ built'.timeout = built.timeout
      BY <1>1, <1>2 DEF Ask
    <2>3. bodyOffset' = 0 /\ requestTarget' = <<>> /\ ~options'.customRequest
      BY <1>1, <1>2, <1>5 DEF RequestInv
    <2>4. requests' < MaxRequests /\ building'
      BY <1>1, <1>2 DEF RequestInv
    <2>5. /\ request.method = built.method /\ request.path = built.path
          /\ request.query = built.query /\ request.timeout = built.timeout
          /\ ~Contains(request.path, "?")
      BY <1>2 DEF RequestInv
    <2>6. request'.method = "get" => request'.body = 0
      BY <2>1
    <2>7. ~Contains(request'.path, "?")
      BY <2>1, <2>5
    <2> QED BY <2>1, <2>2, <2>3, <2>4, <2>5, <2>6, <2>7, Zenon DEF RequestInv
  <1> QED BY <1>3, <1>4, <1>6, <1>7 DEF DataInv, DataType

\* add_request_header takes a node for the header, or makes one.
LEMMA AddHeaderData ==
    ASSUME IInv, NEW h \in Header, add_request_header(h)
    PROVE  DataInv' /\ DataType'
  <1>1. h \in [name : Text, value : Text] /\ ~Contains(h.name, ":") /\ h \in HeaderGiven
    BY HeaderAssumption DEF HeaderGiven
  <1>2. /\ h.name \o <<":", " ">> \o h.value \in Text
        /\ store_header(h.name, h.value) \in Text
        /\ split_http_header(h.name \o <<":", " ">> \o h.value) = Given(h)
        /\ split_http_header(store_header(h.name, h.value)) = Given(h)
    BY <1>1, HeaderReadBack
  <1>3. request.body \in 0 .. MaxBody /\ (request.method = "get" => request.body = 0)
    BY DEF IInv, DataInv, RequestInv, TypeOK, Ask
  <1>4. CASE StoreHeader(h.name \o <<":", " ">> \o h.value, h, request.body)
    BY <1>1, <1>2, <1>3, <1>4, HeaderData
  <1>5. CASE StoreHeader(store_header(h.name, h.value), h, request.body)
    BY <1>1, <1>2, <1>3, <1>5, HeaderData
  <1> QED BY <1>4, <1>5 DEF add_request_header

\* set_request_body keeps a view of the body and adds its content type.
LEMMA BodyData ==
    ASSUME IInv, NEW b \in 1 .. MaxBody, NEW h \in Header, set_request_body(b, h.value)
    PROVE  DataInv' /\ DataType'
  <1> DEFINE name == <<"Content-Type">>
             g == [name |-> name, value |-> h.value]
  <1>1. "Content-Type" \in Char /\ h.value \in Text
    BY CharAssumption, HeaderAssumption
  <1>2. name \in Text /\ Len(name) = 1 /\ name[1] = "Content-Type"
    BY <1>1, Unit DEF Text
  <1>3. ~Contains(name, ":")
    <2>1. "Content-Type" # ":"
      OBVIOUS
    <2>2. \A i \in 1 .. Len(name) : i = 1
      BY <1>2
    <2> HIDE DEF name
    <2> QED BY <1>2, <2>1, <2>2 DEF Contains
  <1> HIDE DEF name
  <1>4. g \in HeaderGiven /\ g.name = name /\ g.value = h.value
    BY <1>1, <1>2 DEF HeaderGiven
  <1>5. /\ request.method # "get"
        /\ StoreHeader(store_header(name, h.value), g, b)
    BY DEF set_request_body, name
  <1> HIDE DEF g
  <1>6. store_header(name, h.value) \in Text /\ split_http_header(store_header(name, h.value)) = Given(g)
    BY <1>1, <1>2, <1>3, <1>4, NameReadBack DEF store_header, Given
  <1>7. b \in 0 .. MaxBody
    BY BoundsAssumption
  <1> QED BY <1>4, <1>5, <1>6, <1>7, HeaderData

\* The connection takes the request back.
LEMMA ResetData ==
    ASSUME IInv, reset_request, transfer' = FALSE, built' = EmptyRequest,
           building' = building, requests' = requests
    PROVE  DataInv' /\ DataType'
  <1>1. /\ TypeOK /\ MemoryInv /\ RequestInv /\ OptionsInv
    BY DEF IInv, DataInv
  <1>2. /\ RequestType' /\ MemoryType' /\ OptionsType' /\ MemoryInv'
        /\ request' = EmptyRequest /\ bodyOffset' = 0 /\ requestTarget' = <<>>
        /\ options'.customRequest = (options.customRequest /\ request.method # "custom")
    BY <1>1, ResetFacts
  <1>3. built' \in Ask(HeaderGiven)
    BY EmptyType
  <1>4. HeaderInv'
    <2>1. Len(request'.headers) = 0 /\ Len(built'.headers) = 0
      BY <1>2 DEF EmptyRequest
    <2> QED BY <2>1 DEF HeaderInv
  <1>5. OptionsInv'
    BY DEF OptionsInv
  <1>6. options'.customRequest = FALSE
    <2>1. CASE transfer
      <3>1. options.customRequest => request.method = "custom"
        BY <1>1, <2>1 DEF OptionsInv, WireMethod
      <3> QED BY <1>2, <3>1
    <2>2. CASE ~transfer
      BY <1>1, <1>2, <2>2 DEF RequestInv
    <2> QED BY <2>1, <2>2
  <1>7. RequestInv'
    <2>1. request'.path = <<>> /\ request'.body = 0
      BY <1>2 DEF EmptyRequest
    <2>2. ~Contains(request'.path, "?")
      BY <2>1 DEF Contains
    <2>3. building' => requests' < MaxRequests
      BY <1>1 DEF RequestInv
    <2> QED BY <1>2, <1>6, <2>1, <2>2, <2>3, Zenon DEF RequestInv
  <1> QED BY <1>2, <1>3, <1>4, <1>5, <1>7 DEF DataInv, DataType

\* A failure resets the request and gives its nodes back.
LEMMA FailData ==
    ASSUME IInv, Fail
    PROVE  DataInv' /\ DataType'
  BY ResetData DEF Fail, deactivate

\* The request goes to curl.
LEMMA SendData ==
    ASSUME IInv, send_message
    PROVE  DataInv' /\ DataType'
  <1>1. TypeOK /\ PhaseInv /\ TransferCoherent /\ DataInv
    BY DEF IInv
  <1>2. CASE /\ requestTarget' = RequestTarget(request.path, request.query)
             /\ options' = RequestOptions
             /\ status' = "busy"
             /\ transfer' = TRUE
             /\ inFlight' = unanswered
             /\ UNCHANGED <<handle, requestVars, reported, clientVars>>
    <2>1. /\ request' = request /\ bodyOffset' = bodyOffset /\ freeNodes' = freeNodes
          /\ nodeData' = nodeData /\ allValues' = allValues /\ lastValueIndex' = lastValueIndex
          /\ building' = building /\ unanswered' = unanswered /\ requests' = requests
          /\ built' = built /\ options' = RequestOptions /\ transfer' = TRUE
      BY <1>2 DEF requestVars, clientVars
    <2>2. Node' = Node /\ Place' = Place
      BY <2>1 DEF Node, Place
    <2>3. transfer = FALSE
      <3>1. status = "ready"
        BY DEF send_message
      <3> QED BY <1>1, <3>1 DEF TransferCoherent, TypeOK
    <2>4. /\ request \in Ask(Node) /\ options.customRequest = FALSE
          /\ request.method \in Method
          /\ request.method = "get" => request.body = 0
      BY <1>1, <2>3 DEF TypeOK, DataInv, RequestInv, Ask
    <2> DEFINE target == RequestTarget(request.path, request.query)
    <2>5. target \in Text
      <3>1. request.path \in Text /\ request.query \in Text /\ ~Contains(request.path, "?")
        BY <1>1, <2>4 DEF Ask, DataInv, RequestInv
      <3> QED BY <3>1, TargetReadBack
    <2>6. /\ request.headers \in Seq(Node) /\ request.timeout \in Nat /\ request.body \in 0 .. MaxBody
      BY <2>4 DEF Ask
    <2> DEFINE common == [options EXCEPT !.target = target, !.headers = request.headers,
                                         !.timeout = request.timeout]
    <2>7. RequestOptions = CASE request.method = "custom" ->
                                   [common EXCEPT !.customRequest = TRUE, !.request = "post",
                                                  !.postSize = request.body]
                             [] request.method = "get"  -> [common EXCEPT !.request = "get"]
                             [] request.method = "post" ->
                                   [common EXCEPT !.request = "post", !.postSize = request.body]
                             [] request.method = "put"  ->
                                   [common EXCEPT !.request = "put", !.inSize = request.body]
      BY DEF RequestOptions
    <2> HIDE DEF target
    <2>8. OptionsType
      BY <1>1, TypeParts
    <2>9. /\ OptionsType' /\ options'.target = target /\ options'.headers = request.headers
          /\ options'.timeout = request.timeout
          /\ WireMethod' = request.method /\ WireSize' = request.body
      <3>1. CASE request.method = "custom"
        <4>1. options' = [common EXCEPT !.customRequest = TRUE, !.request = "post",
                                        !.postSize = request.body]
          BY <2>1, <2>7, <3>1
        <4> QED BY <2>2, <2>4, <2>5, <2>6, <2>8, <3>1, <4>1 DEF OptionsType, WireMethod, WireSize
      <3>2. CASE request.method = "get"
        <4>1. options' = [common EXCEPT !.request = "get"]
          BY <2>1, <2>7, <3>2
        <4>2. /\ options'.request = "get" /\ options'.customRequest = FALSE
              /\ options'.target = target /\ options'.headers = request.headers
              /\ options'.timeout = request.timeout
          BY <2>4, <2>8, <4>1 DEF OptionsType
        <4>3. OptionsType'
          BY <2>2, <2>4, <2>5, <2>6, <2>8, <4>1 DEF OptionsType
        <4>4. WireMethod' = request.method
          BY <3>2, <4>2 DEF WireMethod
        <4>5. WireSize' = 0
          BY <4>2 DEF WireSize
        <4>6. request.body = 0
          BY <2>4, <3>2
        <4> QED BY <4>2, <4>3, <4>4, <4>5, <4>6
      <3>3. CASE request.method = "post"
        <4>1. options' = [common EXCEPT !.request = "post", !.postSize = request.body]
          BY <2>1, <2>7, <3>3
        <4> QED BY <2>2, <2>4, <2>5, <2>6, <2>8, <3>3, <4>1 DEF OptionsType, WireMethod, WireSize
      <3>4. CASE request.method = "put"
        <4>1. options' = [common EXCEPT !.request = "put", !.inSize = request.body]
          BY <2>1, <2>7, <3>4
        <4>2. /\ options'.request = "put" /\ options'.customRequest = FALSE
              /\ options'.target = target /\ options'.headers = request.headers
              /\ options'.timeout = request.timeout /\ options'.inSize = request.body
          BY <2>4, <2>8, <4>1 DEF OptionsType
        <4>3. OptionsType'
          BY <2>2, <2>4, <2>5, <2>6, <2>8, <4>1 DEF OptionsType
        <4>4. WireMethod' = request.method
          BY <3>4, <4>2 DEF WireMethod
        <4>5. WireSize' = request.body
          BY <2>4, <3>4, <4>2 DEF WireSize
        <4> QED BY <4>2, <4>3, <4>4, <4>5
      <3> QED BY <2>4, <3>1, <3>2, <3>3, <3>4, Zenon DEF Method
    <2> HIDE DEF common
    <2>10. DataType'
      <3>1. DataType
        BY <1>1, DataTypeHere
      <3> QED BY <2>1, <2>2, <2>9, <3>1, Zenon DEF DataType, RequestType, MemoryType
    <2>11. MemoryInv'
      BY <1>1, <2>1, Zenon DEF DataInv, MemoryInv
    <2>12. HeaderInv'
      BY <1>1, <2>1, Zenon DEF DataInv, HeaderInv
    <2>13. OptionsInv'
      BY <2>1, <2>9, Zenon DEF OptionsInv, target
    <2>14. RequestInv'
      BY <1>1, <2>1, Zenon DEF DataInv, RequestInv
    <2> QED BY <2>10, <2>11, <2>12, <2>13, <2>14 DEF DataInv
  <1>3. CASE Fail
    BY <1>3, FailData
  <1> QED BY <1>2, <1>3, Zenon DEF send_message

\* The worker's steps that neither take a request nor give one back.
LEMMA QuietData ==
    ASSUME IInv,
           \/ perform \/ remove_connection \/ swap_task_queue \/ TasksDone
           \/ \E line \in Line : header_callback(line)
           \/ write_callback
    PROVE  DataInv' /\ DataType'
  <1>1. TypeOK /\ DataInv
    BY DEF IInv
  <1>2. CASE perform
    <2>1. /\ UNCHANGED <<connVars, built>> /\ building' = FALSE /\ unanswered' = requests + 1
      BY <1>2 DEF perform
    <2>2. UNCHANGED DataVars
      BY <2>1 DEF connVars, requestVars, curlVars, DataVars
    <2>3. unanswered' # 0
      <3>1. requests \in Nat
        BY <1>1 DEF TypeOK
      <3> QED BY <2>1, <3>1
    <2> QED BY <1>1, <2>1, <2>2, <2>3, DataKept
  <1>3. CASE remove_connection
    <2>1. UNCHANGED <<connVars, built, building, unanswered, requests>>
      BY <1>3 DEF remove_connection
    <2>2. UNCHANGED DataVars
      BY <2>1 DEF connVars, requestVars, curlVars, DataVars
    <2>3. building' => requests' < MaxRequests
      BY <1>1, <2>1 DEF DataInv, RequestInv
    <2> QED BY <1>1, <2>1, <2>2, <2>3, DataKept
  <1>4. CASE swap_task_queue \/ TasksDone
    <2>1. UNCHANGED <<connVars, clientVars>>
      BY <1>4 DEF swap_task_queue, TasksDone
    <2>2. UNCHANGED DataVars /\ UNCHANGED <<building, unanswered, requests>>
      BY <2>1 DEF connVars, requestVars, curlVars, clientVars, DataVars
    <2>3. building' => requests' < MaxRequests
      BY <1>1, <2>2 DEF DataInv, RequestInv
    <2> QED BY <1>1, <2>2, <2>3, DataKept
  <1>5. CASE (\E line \in Line : header_callback(line)) \/ write_callback
    <2>1. UNCHANGED <<requestTarget, requestVars, transfer, options, clientVars>>
      BY <1>5 DEF header_callback, write_callback
    <2>2. UNCHANGED DataVars /\ UNCHANGED <<building, unanswered, requests>>
      BY <2>1 DEF requestVars, clientVars, DataVars
    <2>3. building' => requests' < MaxRequests
      BY <1>1, <2>2 DEF DataInv, RequestInv
    <2> QED BY <1>1, <2>2, <2>3, DataKept
  <1> QED BY <1>2, <1>3, <1>4, <1>5

\* register_handle sets the options of a new handle only.
LEMMA RegisterData ==
    ASSUME IInv, register_handle
    PROVE  DataInv' /\ DataType'
  <1>1. TypeOK /\ DataInv
    BY DEF IInv
  <1>2. CASE UNCHANGED <<requestTarget, requestVars, curlVars, clientVars>>
    <2>1. UNCHANGED DataVars /\ UNCHANGED <<building, unanswered, requests>>
      BY <1>2 DEF requestVars, curlVars, clientVars, DataVars
    <2>2. building' => requests' < MaxRequests
      BY <1>1, <2>1 DEF DataInv, RequestInv
    <2> QED BY <1>1, <2>1, <2>2, DataKept
  <1>3. CASE Fail
    BY <1>3, FailData
  <1> QED BY <1>2, <1>3 DEF register_handle

\* unregister_handle leaves no option behind.
LEMMA UnregisterData ==
    ASSUME IInv, unregister_handle
    PROVE  DataInv' /\ DataType'
  <1>1. TypeOK /\ DataInv /\ PhaseInv
    BY DEF IInv
  <1>2. /\ building' = building /\ unanswered' = unanswered /\ requests' = requests
        /\ built' = built
    BY DEF unregister_handle, clientVars
  <1>3. CASE handle
    <2>1. reset_request /\ transfer' = FALSE
      BY <1>3 DEF unregister_handle, deactivate
    <2>2. Tasks # <<>> /\ Head(Tasks) = "remove"
      BY <1>1, TasksHandled DEF unregister_handle
    <2>3. status \in Status
      BY <1>1 DEF TypeOK, Status
    <2>4. ~alive
      BY <1>1, <2>2, <2>3, RemoveFound, Zenon
    <2>5. ~building /\ unanswered = 0
      BY <1>1, <2>4, Zenon DEF PhaseInv
    <2>6. built = EmptyRequest
      BY <1>1, <2>5, Zenon DEF DataInv, RequestInv
    <2> QED BY <1>2, <2>1, <2>6, ResetData
  <1>4. CASE ~handle
    <2>1. UNCHANGED <<requestTarget, requestVars, transfer, options>>
      BY <1>4 DEF unregister_handle
    <2>2. UNCHANGED DataVars
      BY <1>2, <2>1 DEF requestVars, DataVars
    <2>3. building' => requests' < MaxRequests
      BY <1>1, <1>2 DEF DataInv, RequestInv
    <2> QED BY <1>1, <1>2, <2>2, <2>3, DataKept
  <1> QED BY <1>3, <1>4

\* A part of the body is read: only bodyOffset changes, and a transfer runs.
LEMMA ReadData ==
    ASSUME IInv, NEW n \in 1 .. MaxBody, read_callback(n)
    PROVE  DataInv' /\ DataType' /\ bodyOffset' \in 0 .. MaxBody
  <1>1. TypeOK /\ DataInv /\ transfer
    BY DEF IInv, read_callback, TransferRuns
  <1>2. /\ request' = request /\ freeNodes' = freeNodes
        /\ nodeData' = nodeData /\ allValues' = allValues /\ lastValueIndex' = lastValueIndex
        /\ requestTarget' = requestTarget /\ options' = options /\ transfer' = transfer
        /\ built' = built /\ building' = building /\ unanswered' = unanswered /\ requests' = requests
        /\ bodyOffset' = bodyOffset + PartSize(n)
    BY DEF read_callback, MemoryVars, curlVars, clientVars
  <1>3. Node' = Node /\ Place' = Place
    BY <1>2 DEF Node, Place
  <1>4. DataType'
    <2>1. DataType
      BY <1>1, DataTypeHere
    <2> QED BY <1>2, <1>3, <2>1, Zenon DEF DataType, RequestType, MemoryType, OptionsType
  <1>5. MemoryInv' /\ HeaderInv'
    BY <1>1, <1>2, Zenon DEF DataInv, MemoryInv, HeaderInv
  <1>6. OptionsInv'
    BY <1>1, <1>2, Zenon DEF DataInv, OptionsInv, WireMethod, WireSize
  <1>7. RequestInv'
    BY <1>1, <1>2, Zenon DEF DataInv, RequestInv
  <1>8. bodyOffset' \in 0 .. MaxBody
    <2>1. request.body \in 0 .. MaxBody /\ bodyOffset \in 0 .. MaxBody
      BY <1>1 DEF TypeOK, Ask
    <2>2. CASE n < request.body - bodyOffset
      <3>1. bodyOffset' = bodyOffset + n
        BY <1>2, <2>2 DEF PartSize
      <3> QED BY <2>1, <2>2, <3>1, BoundsAssumption
    <2>3. CASE ~(n < request.body - bodyOffset)
      <3>1. bodyOffset' = bodyOffset + (request.body - bodyOffset)
        BY <1>2, <2>3 DEF PartSize
      <3> QED BY <2>1, <3>1, BoundsAssumption
    <2> QED BY <2>2, <2>3
  <1> QED BY <1>4, <1>5, <1>6, <1>7, <1>8 DEF DataInv

\* Every step keeps what holds of the request, its memory and its options.
LEMMA NextData ==
    ASSUME IInv, Next
    PROVE  DataInv' /\ DataType'
  <1>1. CASE Client
    <2>1. CASE \E m \in Method : set_request_method(m)
      BY <2>1, MethodData
    <2>2. CASE \/ \E path \in Path : set_request_path(path)
               \/ \E query \in Query : set_request_query(query)
               \/ \E timeout \in Timeout : set_request_timeout(timeout)
      BY <2>2, PartData
    <2>3. CASE \E h \in Header : add_request_header(h)
      BY <2>3, AddHeaderData
    <2>4. CASE \E b \in 1 .. MaxBody, h \in Header : set_request_body(b, h.value)
      BY <2>4, BodyData
    <2>5. CASE perform \/ remove_connection
      BY <2>5, QuietData
    <2> QED BY <1>1, <2>1, <2>2, <2>3, <2>4, <2>5, Zenon DEF Client
  <1>2. CASE WorkerThread
    <2>1. CASE register_handle
      BY <2>1, RegisterData
    <2>2. CASE send_message
      BY <2>2, SendData
    <2>3. CASE unregister_handle
      BY <2>3, UnregisterData
    <2>4. CASE \E n \in 1 .. MaxBody : read_callback(n)
      BY <2>4, ReadData
    <2>5. CASE on_response_complete
      BY <2>5, ResetData DEF on_response_complete
    <2>6. CASE TransferFails
      BY <2>6, FailData DEF TransferFails
    <2>7. CASE \/ swap_task_queue \/ TasksDone
               \/ \E line \in Line : header_callback(line)
               \/ write_callback
      BY <2>7, QuietData
    <2> QED BY <1>2, <2>1, <2>2, <2>3, <2>4, <2>5, <2>6, <2>7, Zenon
            DEF WorkerThread, on_recv_message
  <1> QED BY <1>1, <1>2 DEF Next

\* The status, the tasks and what the client does stay in step.
LEMMA NextPhase ==
    ASSUME IInv, Next
    PROVE  PhaseInv' /\ TransferCoherent'
  <1>1. TypeOK /\ PhaseInv /\ TransferCoherent /\ RoundInv
    BY DEF IInv
  <1>2. CASE \E m \in Method : set_request_method(m)
    BY <1>1, <1>2, MethodPhase
  <1>3. CASE perform
    BY <1>1, <1>3, PerformPhase
  <1>4. CASE remove_connection
    BY <1>1, <1>4, RemovePhase
  <1>5. CASE \/ \E path \in Path : set_request_path(path)
             \/ \E query \in Query : set_request_query(query)
             \/ \E timeout \in Timeout : set_request_timeout(timeout)
             \/ \E h \in Header : add_request_header(h)
             \/ \E b \in 1 .. MaxBody, h \in Header : set_request_body(b, h.value)
    <2>1. UNCHANGED <<BuildVars, building>>
      BY <1>5 DEF set_request_path, set_request_query, set_request_timeout, SetPart,
                  add_request_header, set_request_body, StoreHeader
    <2>2. UNCHANGED PhaseVars /\ Tasks' = Tasks
      BY <2>1 DEF BuildVars, workVars, curlVars, PhaseVars, Tasks
    <2> QED BY <1>1, <2>2, PhaseKept
  <1>6. CASE swap_task_queue
    <2>1. UNCHANGED PhaseVars
      BY <1>6 DEF swap_task_queue, connVars, curlVars, clientVars, PhaseVars
    <2> QED BY <1>1, <1>6, <2>1, PhaseKept, TasksSwapped
  <1>7. CASE register_handle
    BY <1>1, <1>7, RegisterPhase
  <1>8. CASE send_message
    BY <1>1, <1>8, SendPhase
  <1>9. CASE unregister_handle
    BY <1>1, <1>9, UnregisterPhase
  <1>10. CASE \/ TasksDone
              \/ \E n \in 1 .. MaxBody : read_callback(n)
              \/ \E line \in Line : header_callback(line)
              \/ write_callback
    <2>1. UNCHANGED <<queue, batch, status, handle, transfer, inFlight, clientVars>>
      BY <1>10 DEF TasksDone, read_callback, header_callback, write_callback, connVars, curlVars,
                   workVars
    <2>2. UNCHANGED PhaseVars /\ Tasks' = Tasks
      BY <2>1 DEF clientVars, PhaseVars, Tasks
    <2> QED BY <1>1, <2>2, PhaseKept
  <1>11. CASE on_response_complete
    BY <1>1, <1>11, CompletePhase
  <1>12. CASE TransferFails
    BY <1>1, <1>12, TransferFailsPhase
  <1> QED BY <1>2, <1>3, <1>4, <1>5, <1>6, <1>7, <1>8, <1>9, <1>10, <1>11, <1>12, Zenon
          DEF Next, Client, WorkerThread, on_recv_message

\* An empty batch is what the worker thread leaves the tasks with.
LEMMA NextRound ==
    ASSUME IInv, Next
    PROVE  RoundInv'
  <1>1. loc = "events" => batch = <<>>
    BY DEF IInv, RoundInv
  <1>2. CASE Client
    <2>1. loc' = loc /\ batch' = batch
      BY <1>2 DEF Client, set_request_method, set_request_path, set_request_query,
                  set_request_timeout, SetPart, add_request_header, set_request_body,
                  StoreHeader, perform, remove_connection, BuildVars, workVars
    <2> QED BY <1>1, <2>1 DEF RoundInv
  <1>3. CASE swap_task_queue
    BY <1>3 DEF swap_task_queue, RoundInv
  <1>4. CASE register_handle \/ send_message \/ unregister_handle
    <2>1. loc' = "tasks"
      BY <1>4 DEF register_handle, send_message, unregister_handle, NextTask, TaskDone
    <2> QED BY <2>1 DEF RoundInv
  <1>5. CASE TasksDone
    BY <1>5 DEF TasksDone, RoundInv
  <1>6. CASE \/ \E n \in 1 .. MaxBody : read_callback(n)
             \/ \E line \in Line : header_callback(line)
             \/ write_callback \/ on_recv_message
    <2>1. loc' = loc /\ batch' = batch
      BY <1>6 DEF read_callback, header_callback, write_callback, on_recv_message,
                  on_response_complete, TransferFails, workVars
    <2> QED BY <1>1, <2>1 DEF RoundInv
  <1> QED BY <1>2, <1>3, <1>4, <1>5, <1>6, Zenon DEF Next, WorkerThread

\* Tasks stay tasks.
LEMMA NextWorkType ==
    ASSUME IInv, Next
    PROVE  WorkType'
  <1>1. loc \in {"events", "tasks"} /\ queue \in Seq(Action) /\ batch \in Seq(Action)
    BY TypeParts DEF IInv, WorkType
  <1>2. \A x \in Action : Append(queue, x) \in Seq(Action)
    BY <1>1, AppendProperties
  <1>3. "send" \in Action /\ "remove" \in Action /\ <<>> \in Seq(Action)
    BY DEF Action
  <1>4. CASE perform \/ remove_connection
    <2>1. /\ loc' = loc /\ batch' = batch
          /\ queue' = Append(queue, "send") \/ queue' = Append(queue, "remove")
      BY <1>4 DEF perform, remove_connection
    <2> QED BY <1>1, <1>2, <1>3, <2>1, Zenon DEF WorkType
  <1>5. CASE \/ \E m \in Method : set_request_method(m)
             \/ \E path \in Path : set_request_path(path)
             \/ \E query \in Query : set_request_query(query)
             \/ \E timeout \in Timeout : set_request_timeout(timeout)
             \/ \E h \in Header : add_request_header(h)
             \/ \E b \in 1 .. MaxBody, h \in Header : set_request_body(b, h.value)
             \/ \E n \in 1 .. MaxBody : read_callback(n)
             \/ \E line \in Line : header_callback(line)
             \/ write_callback \/ on_recv_message
    <2>1. loc' = loc /\ batch' = batch /\ queue' = queue
      BY <1>5 DEF set_request_method, set_request_path, set_request_query,
                  set_request_timeout, SetPart, add_request_header, set_request_body,
                  StoreHeader, BuildVars, read_callback, header_callback, write_callback,
                  on_recv_message, on_response_complete, TransferFails, workVars
    <2> QED BY <1>1, <2>1, Zenon DEF WorkType
  <1>6. CASE swap_task_queue
    <2>1. loc' = "tasks" /\ batch' = queue /\ queue' = <<>>
      BY <1>6 DEF swap_task_queue
    <2> QED BY <1>1, <1>3, <2>1 DEF WorkType
  <1>7. CASE register_handle \/ send_message \/ unregister_handle
    <2>1. batch # <<>> /\ batch' = Tail(batch) /\ loc' = loc /\ queue' = queue
      BY <1>7 DEF register_handle, send_message, unregister_handle, NextTask, TaskDone
    <2>2. Tail(batch) \in Seq(Action)
      BY <1>1, <2>1, HeadTailProperties
    <2> QED BY <1>1, <2>1, <2>2, Zenon DEF WorkType
  <1>8. CASE TasksDone
    <2>1. loc' = "events" /\ batch' = batch /\ queue' = queue
      BY <1>8 DEF TasksDone
    <2> QED BY <1>1, <2>1 DEF WorkType
  <1> QED BY <1>4, <1>5, <1>6, <1>7, <1>8, Zenon DEF Next, Client, WorkerThread

\* A request is over, one way or the other.
LEMMA ResetType ==
    ASSUME TypeOK, reset_request
    PROVE  bodyOffset' \in 0 .. MaxBody /\ requestTarget' \in Text
  <1>1. bodyOffset' = 0 /\ requestTarget' = <<>>
    BY DEF reset_request, ClearedTarget
  <1> QED BY <1>1, BoundsAssumption DEF Text

\* A step that leaves the connection alone keeps its type.
LEMMA ConnectionKept ==
    ASSUME TypeOK,
           UNCHANGED <<status, handle, requestTarget, bodyOffset, transfer, inFlight, reported>>
    PROVE  ConnectionType'
  <1>1. ConnectionType
    BY TypeParts
  <1> QED BY <1>1 DEF ConnectionType

\* The connection after a failure.
LEMMA FailConnection ==
    ASSUME TypeOK, deactivate, UNCHANGED <<inFlight, reported>>
    PROVE  ConnectionType'
  <1>1. inFlight \in 0 .. MaxRequests /\ reported \in 0 .. MaxRequests
    BY TypeParts DEF ConnectionType
  <1>2. bodyOffset' \in 0 .. MaxBody /\ requestTarget' \in Text
    BY ResetType DEF deactivate
  <1> QED BY <1>1, <1>2 DEF deactivate, ConnectionType

\* Every step keeps the type of the connection.
LEMMA NextConnectionType ==
    ASSUME IInv, Next
    PROVE  ConnectionType'
  <1>1. TypeOK /\ ConnectionType /\ RequestInv
    BY TypeParts DEF IInv, DataInv
  <1>2. CASE \/ Client \/ swap_task_queue \/ TasksDone
    <2>1. UNCHANGED <<status, handle, requestTarget, bodyOffset, transfer, inFlight, reported>>
      BY <1>2 DEF Client, set_request_method, set_request_path, set_request_query,
                  set_request_timeout, SetPart, add_request_header, set_request_body,
                  StoreHeader, perform, remove_connection, BuildVars, connVars, requestVars,
                  curlVars, swap_task_queue, TasksDone
    <2> QED BY <1>1, <2>1, ConnectionKept
  <1>3. CASE register_handle
    <2>1. CASE Fail
      BY <1>1, <2>1, FailConnection DEF Fail
    <2>2. CASE handle' = TRUE /\ status' = "ready"
               /\ UNCHANGED <<requestTarget, requestVars, curlVars, clientVars>>
      BY <1>1, <2>2 DEF ConnectionType, requestVars, curlVars
    <2> QED BY <1>3, <2>1, <2>2 DEF register_handle
  <1>4. CASE send_message
    <2>1. CASE Fail
      BY <1>1, <2>1, FailConnection DEF Fail
    <2>2. CASE ~Fail
      <3>1. /\ requestTarget' = RequestTarget(request.path, request.query)
            /\ status' = "busy" /\ transfer' = TRUE /\ inFlight' = unanswered
            /\ handle' = handle /\ bodyOffset' = bodyOffset /\ reported' = reported
        BY <1>4, <2>2 DEF send_message, requestVars
      <3>2. request.path \in Text /\ request.query \in Text /\ ~Contains(request.path, "?")
            /\ unanswered \in 0 .. MaxRequests
        BY <1>1, TypeParts DEF RequestType, Ask, RequestInv, ClientType
      <3>3. requestTarget' \in Text
        BY <3>1, <3>2, TargetReadBack
      <3> QED BY <1>1, <3>1, <3>2, <3>3 DEF ConnectionType
    <2> QED BY <2>1, <2>2
  <1>5. CASE unregister_handle
    <2>1. CASE handle
      <3>1. deactivate /\ UNCHANGED <<inFlight, reported>>
        BY <1>5, <2>1 DEF unregister_handle
      <3> QED BY <1>1, <3>1, FailConnection
    <2>2. CASE ~handle
      <3>1. UNCHANGED <<status, handle, requestTarget, bodyOffset, transfer, inFlight, reported>>
        BY <1>5, <2>2 DEF unregister_handle, requestVars
      <3> QED BY <1>1, <3>1, ConnectionKept
    <2> QED BY <2>1, <2>2
  <1>6. CASE \E n \in 1 .. MaxBody : read_callback(n)
    <2>1. bodyOffset' \in 0 .. MaxBody
      BY <1>6, ReadData
    <2>2. UNCHANGED <<status, handle, requestTarget, transfer, inFlight, reported>>
      BY <1>6 DEF read_callback, curlVars
    <2> QED BY <1>1, <2>1, <2>2 DEF ConnectionType
  <1>7. CASE (\E line \in Line : header_callback(line)) \/ write_callback
    <2>1. UNCHANGED <<status, handle, requestTarget, bodyOffset, transfer, inFlight>>
      BY <1>7 DEF header_callback, write_callback, requestVars
    <2>2. reported' = reported \/ reported' = inFlight
      BY <1>7 DEF header_callback, write_callback
    <2> QED BY <1>1, <2>1, <2>2 DEF ConnectionType
  <1>8. CASE on_response_complete
    <2>1. bodyOffset' \in 0 .. MaxBody /\ requestTarget' \in Text
      BY <1>1, <1>8, ResetType DEF on_response_complete
    <2> QED BY <1>1, <1>8, <2>1 DEF on_response_complete, ConnectionType
  <1>9. CASE TransferFails
    BY <1>1, <1>9, FailConnection DEF TransferFails, Fail
  <1> QED BY <1>2, <1>3, <1>4, <1>5, <1>6, <1>7, <1>8, <1>9, Zenon
          DEF Next, WorkerThread, on_recv_message

\* What the client keeps, the text of its request aside.
LEMMA NextClientType ==
    ASSUME IInv, Next
    PROVE  ClientType'
  <1>1. /\ building \in BOOLEAN /\ failed \in BOOLEAN /\ alive \in BOOLEAN
        /\ unanswered \in 0 .. MaxRequests /\ requests \in 0 .. MaxRequests
    BY TypeParts DEF IInv, ClientType
  <1>2. built' \in Ask(HeaderGiven)
    BY NextData DEF DataType
  <1>3. 0 \in 0 .. MaxRequests
    BY BoundsAssumption
  <1>4. CASE perform
    <2>1. requests + 1 \in 0 .. MaxRequests
      <3>1. requests < MaxRequests
        BY <1>4 DEF perform, IInv, DataInv, RequestInv
      <3> QED BY <1>1, <3>1, BoundsAssumption
    <2> QED BY <1>1, <1>2, <1>4, <2>1 DEF perform, ClientType
  <1>5. CASE \/ \E m \in Method : set_request_method(m)
             \/ \E path \in Path : set_request_path(path)
             \/ \E query \in Query : set_request_query(query)
             \/ \E timeout \in Timeout : set_request_timeout(timeout)
             \/ \E h \in Header : add_request_header(h)
             \/ \E b \in 1 .. MaxBody, h \in Header : set_request_body(b, h.value)
             \/ remove_connection
    <2>1. /\ unanswered' = unanswered /\ requests' = requests /\ failed' = failed
          /\ building' \in {building, TRUE} /\ alive' \in {alive, FALSE}
      BY <1>5 DEF set_request_method, set_request_path, set_request_query,
                  set_request_timeout, SetPart, add_request_header, set_request_body,
                  StoreHeader, remove_connection, BuildVars
    <2> QED BY <1>1, <1>2, <2>1 DEF ClientType
  <1>6. CASE WorkerThread
    <2>1. /\ building' = building /\ alive' = alive /\ requests' = requests
          /\ failed' \in {failed, TRUE} /\ unanswered' \in {unanswered, 0}
      <3>1. CASE \/ swap_task_queue \/ TasksDone \/ unregister_handle \/ write_callback
                 \/ \E n \in 1 .. MaxBody : read_callback(n)
                 \/ \E line \in Line : header_callback(line)
        BY <3>1 DEF swap_task_queue, TasksDone, unregister_handle, write_callback,
                    read_callback, header_callback, clientVars
      <3>2. CASE register_handle \/ send_message
        BY <3>2 DEF register_handle, send_message, Fail, clientVars
      <3>3. CASE on_recv_message
        BY <3>3 DEF on_recv_message, on_response_complete, TransferFails, Fail
      <3> QED BY <1>6, <3>1, <3>2, <3>3 DEF WorkerThread
    <2> QED BY <1>1, <1>2, <1>3, <2>1 DEF ClientType
  <1> QED BY <1>4, <1>5, <1>6, Zenon DEF Next, Client

\* Nothing that the invariant speaks of changes.
LEMMA StutterInv ==
    ASSUME IInv, UNCHANGED vars
    PROVE  IInv'
  <1>1. /\ loc' = loc /\ queue' = queue /\ batch' = batch /\ status' = status
        /\ handle' = handle /\ request' = request /\ bodyOffset' = bodyOffset
        /\ requestTarget' = requestTarget /\ freeNodes' = freeNodes /\ nodeData' = nodeData
        /\ allValues' = allValues /\ lastValueIndex' = lastValueIndex
        /\ transfer' = transfer /\ options' = options /\ inFlight' = inFlight
        /\ reported' = reported /\ building' = building /\ built' = built
        /\ unanswered' = unanswered /\ failed' = failed /\ alive' = alive
        /\ requests' = requests
    BY DEF vars, workVars, connVars, requestVars, curlVars, clientVars
  <1>2. TypeOK /\ DataInv /\ PhaseInv /\ TransferCoherent /\ RoundInv
    BY DEF IInv
  <1>3. Tasks' = Tasks
    BY <1>1 DEF Tasks
  <1>4. PhaseInv' /\ TransferCoherent'
    BY <1>1, <1>2, <1>3, PhaseKept DEF PhaseVars
  <1>5. DataInv' /\ DataType'
    <2>1. building' => requests' < MaxRequests
      BY <1>1, <1>2 DEF DataInv, RequestInv
    <2> QED BY <1>1, <1>2, <2>1, DataKept DEF DataVars, requestVars
  <1>6. RoundInv'
    BY <1>1, <1>2 DEF RoundInv
  <1>7. WorkType' /\ ConnectionType' /\ ClientType'
    <2>1. WorkType /\ ConnectionType /\ ClientType
      BY <1>2, TypeParts
    <2> QED BY <1>1, <2>1, Zenon DEF WorkType, ConnectionType, ClientType
  <1> QED BY <1>4, <1>5, <1>6, <1>7, TypePartsNext DEF IInv, DataType

\* The inductive invariant holds in every reachable state.
THEOREM Inductive == Spec => []IInv
  <1>1. IInv /\ Next => IInv'
    <2> SUFFICES ASSUME IInv, Next PROVE IInv'
      OBVIOUS
    <2>1. TypeOK'
      BY NextWorkType, NextConnectionType, NextClientType, NextData, TypePartsNext DEF DataType
    <2> QED BY <2>1, NextPhase, NextRound, NextData DEF IInv
  <1>2. IInv /\ [Next]_vars => IInv'
    BY <1>1, StutterInv
  <1> QED BY <1>2, InitInv, PTL DEF Spec

\* Every variable keeps its type: headers are nodes of the connection, nodes point to
\* places that were allocated, and sizes and counts stay in their bounds.
THEOREM TypeCorrect == Spec => []TypeOK
  <1>1. IInv => TypeOK
    BY DEF IInv
  <1> QED BY <1>1, Inductive, PTL

\* The callbacks of a transfer find the connection busy: status, handle and transfer
\* move together.
THEOREM TransfersCohere == Spec => []TransferCoherent
  <1>1. IInv => TransferCoherent
    BY DEF IInv
  <1> QED BY <1>1, Inductive, PTL

\* Without a transfer the connection has no trace of one.
LEMMA AtRest ==
    ASSUME IInv, unanswered = 0
    PROVE  transfer = FALSE /\ bodyOffset = 0 /\ requestTarget = <<>>
  <1>1. PhaseInv /\ TransferCoherent /\ RequestInv /\ transfer \in BOOLEAN
    BY DEF IInv, DataInv, TypeOK
  <1>2. transfer = FALSE
    BY <1>1, NoTransfer
  <1> QED BY <1>1, <1>2 DEF RequestInv

\* A client that may build a request finds it as new, and ~rest_connection finds all
\* released.
THEOREM RequestsReturn == Spec => []RequestReturned
  <1>1. ASSUME IInv, ~building, unanswered = 0
        PROVE  request = EmptyRequest /\ bodyOffset = 0 /\ lastValueIndex = 0
    <2>1. request = EmptyRequest
      BY <1>1 DEF IInv, DataInv, RequestInv
    <2>2. lastValueIndex = Len(request.headers)
      BY <1>1 DEF IInv, DataInv, MemoryInv
    <2> QED BY <1>1, <2>1, <2>2, AtRest DEF EmptyRequest
  <1>2. ASSUME IInv, Destroyed PROVE ~building /\ unanswered = 0 /\ ~handle
    <2>1. PhaseInv /\ TransferCoherent /\ TypeOK /\ ~alive
      BY <1>2 DEF IInv, Destroyed
    <2>2. ~building /\ unanswered = 0
      BY <2>1, Zenon DEF PhaseInv
    <2>3. Tasks = <<>>
      BY <1>2, <2>1, TasksType, ConcatEmptySeq DEF Destroyed, Tasks
    <2>4. status # "initializing" /\ status # "ready" /\ status # "busy"
      BY <2>1, <2>2, <2>3, Shapes, Zenon DEF PhaseInv
    <2> QED BY <2>1, <2>2, <2>4 DEF TransferCoherent
  <1>3. IInv => RequestReturned
    BY <1>1, <1>2 DEF RequestReturned
  <1> QED BY <1>3, Inductive, PTL

\* Two sequences without repetitions and apart make one.
LEMMA ConcatDistinct ==
    ASSUME NEW S, NEW s \in Seq(S), NEW t \in Seq(S), Distinct(s), Distinct(t), Apart(s, t)
    PROVE  Len(s \o t) = Len(s) + Len(t) /\ Distinct(s \o t)
  <1> DEFINE u == s \o t
             m == Len(s)
             n == Len(t)
  <1>1. m \in Nat /\ n \in Nat
    BY LenProperties
  <1>2. /\ u \in Seq(S) /\ Len(u) = m + n
        /\ \A i \in 1 .. m + n : u[i] = IF i <= m THEN s[i] ELSE t[i - m]
    BY ConcatProperties
  <1>3. /\ \A i, j \in 1 .. m : i # j => s[i] # s[j]
        /\ \A i, j \in 1 .. n : i # j => t[i] # t[j]
        /\ \A i \in 1 .. m, j \in 1 .. n : s[i] # t[j]
    BY DEF Distinct, Apart
  <1> HIDE DEF u, m, n
  <1>4. \A i \in 1 .. m + n : i <= m => i \in 1 .. m /\ u[i] = s[i]
    BY <1>1, <1>2
  <1>5. \A i \in 1 .. m + n : ~(i <= m) => i - m \in 1 .. n /\ u[i] = t[i - m]
    BY <1>1, <1>2
  <1>6. ASSUME NEW i \in 1 .. m + n, NEW j \in 1 .. m + n, i # j
        PROVE  u[i] # u[j]
    <2>1. CASE i <= m /\ j <= m
      BY <1>3, <1>4, <1>6, <2>1
    <2>2. CASE ~(i <= m) /\ ~(j <= m)
      <3>1. i - m # j - m
        BY <1>1, <1>6
      <3> QED BY <1>3, <1>5, <2>2, <3>1
    <2>3. CASE i <= m /\ ~(j <= m)
      BY <1>3, <1>4, <1>5, <2>3
    <2>4. CASE ~(i <= m) /\ j <= m
      <3>1. u[j] = s[j] /\ u[i] = t[i - m] /\ j \in 1 .. m /\ i - m \in 1 .. n
        BY <1>4, <1>5, <2>4
      <3> QED BY <1>3, <3>1
    <2> QED BY <2>1, <2>2, <2>3, <2>4
  <1>7. Distinct(u)
    BY <1>2, <1>6 DEF Distinct
  <1> QED BY <1>2, <1>7 DEF u, m, n

\* Every node is in the request's headers or on the free list, once, a free node is
\* clean, and no more nodes and strings are made than one request may have headers.
THEOREM NodesConserve == Spec => []NodesConserved
  <1>1. ASSUME IInv PROVE NodesConserved
    <2>1. MemoryInv /\ freeNodes \in Seq(Node) /\ request.headers \in Seq(Node)
      BY <1>1 DEF IInv, DataInv, TypeOK, Ask
    <2>2. Len(AllNodes) = Len(nodeData) /\ Distinct(AllNodes)
      <3>1. Len(AllNodes) = Len(freeNodes) + Len(request.headers) /\ Distinct(AllNodes)
        BY <2>1, ConcatDistinct DEF MemoryInv, AllNodes
      <3> QED BY <2>1, <3>1 DEF MemoryInv
    <2> QED BY <2>1, <2>2 DEF MemoryInv, NodesConserved, Distinct
  <1> QED BY <1>1, Inductive, PTL

\* Curl reads the headers the client gave, the last one first, although their nodes
\* and strings held those of earlier requests.
THEOREM HeadersKept == Spec => []HeadersIntact
  <1>1. ASSUME IInv, transfer
        PROVE  /\ Len(options.headers) = Len(built.headers)
               /\ \A i \in 1 .. Len(options.headers) :
                     HeaderRead(options.headers[i]) = Given(Reverse(built.headers)[i])
    <2>1. /\ HeaderInv /\ options.headers = request.headers /\ built.headers \in Seq(HeaderGiven)
      BY <1>1 DEF IInv, DataInv, OptionsInv, TypeOK, Ask, HeaderGiven
    <2>2. /\ Len(request.headers) = Len(built.headers)
          /\ \A i \in 1 .. Len(request.headers) :
                LET place == Len(request.headers) - i + 1
                IN  /\ nodeData[request.headers[i]] = place
                    /\ split_http_header(allValues[place]) = Given(built.headers[place])
      BY <2>1, Zenon DEF HeaderInv
    <2>3. \A i \in 1 .. Len(built.headers) :
              Reverse(built.headers)[i] = built.headers[Len(built.headers) - i + 1]
      BY <2>1, ReverseProperties
    <2>4. ASSUME NEW i \in 1 .. Len(request.headers)
          PROVE  HeaderRead(request.headers[i]) = Given(Reverse(built.headers)[i])
      <3>1. /\ nodeData[request.headers[i]] = Len(request.headers) - i + 1
            /\ split_http_header(allValues[Len(request.headers) - i + 1])
                 = Given(built.headers[Len(request.headers) - i + 1])
        BY <2>2, Zenon
      <3>2. Reverse(built.headers)[i] = built.headers[Len(request.headers) - i + 1]
        BY <2>2, <2>3, Zenon
      <3> QED BY <3>1, <3>2, Zenon DEF HeaderRead
    <2> QED BY <2>1, <2>2, <2>4, Zenon
  <1>2. IInv => HeadersIntact
    BY <1>1, Zenon DEF HeadersIntact
  <1> QED BY <1>2, Inductive, PTL

\* What curl sends is what the client asked for: no option of an earlier request shows,
\* and the path and the query are read back from the target.
THEOREM WireIsAsked == Spec => []WireMatches
  <1>1. ASSUME IInv, transfer PROVE WireMatches
    <2>1. /\ request.path \in Text /\ request.query \in Text
      BY <1>1, TypeParts DEF IInv, RequestType, Ask
    <2>2. /\ ~Contains(request.path, "?") /\ request.method = built.method
          /\ request.path = built.path /\ request.query = built.query
          /\ request.body = built.body /\ request.timeout = built.timeout
      BY <1>1 DEF IInv, DataInv, RequestInv
    <2>3. /\ options.target = RequestTarget(request.path, request.query)
          /\ options.timeout = request.timeout
          /\ WireMethod = request.method /\ WireSize = request.body
      BY <1>1 DEF IInv, DataInv, OptionsInv
    <2>4. /\ TargetRead(options.target).path = UrlPath(request.path)
          /\ TargetRead(options.target).query = QueryPart(request.query)
      BY <2>1, <2>2, <2>3, TargetReadBack
    <2>5. /\ UrlPath(request.path) \in {request.path, <<"/">> \o request.path}
          /\ Head(UrlPath(request.path)) = "/"
          /\ QueryPart(request.query) \in {request.query, <<"?">> \o request.query}
          /\ request.query = <<>> => QueryPart(request.query) = <<>>
      BY <2>1, <2>2, TargetReadBack
    <2> QED BY <2>2, <2>3, <2>4, <2>5, Zenon DEF WireMatches
  <1>2. IInv => WireMatches
    BY <1>1, Zenon DEF WireMatches
  <1> QED BY <1>2, Inductive, PTL

\* A task finds what the asserts of its handler say, as long as curl refuses the
\* configuration only before the client's first request.
THEOREM TasksExpected ==
    ASSUME ~RegisterRaces
    PROVE  Spec => []TaskExpected
  <1>1. ASSUME IInv, NEW x, NextTask(x)
        PROVE  Tasks # <<>> /\ Head(Tasks) = x
    BY <1>1, FirstTask DEF IInv
  <1>2. ASSUME IInv PROVE PhaseInv /\ TransferCoherent /\ RequestInv /\ status \in Status
    BY <1>2 DEF IInv, DataInv, TypeOK, Status
  <1>3. ASSUME IInv, NextTask("add") PROVE status = "initializing" /\ ~handle
    <2>1. status = "initializing"
      BY <1>1, <1>2, <1>3, AddFound
    <2> QED BY <1>2, <1>3, <2>1 DEF TransferCoherent
  <1>4. ASSUME IInv, NextTask("send")
        PROVE  status = "ready" /\ requestTarget = <<>> /\ bodyOffset = 0
    <2>1. status = "ready"
      BY <1>1, <1>2, <1>4, SendFound
    <2>2. ~transfer
      BY <1>2, <1>4, <2>1 DEF TransferCoherent
    <2> QED BY <1>2, <1>4, <2>1, <2>2 DEF RequestInv
  <1>5. ASSUME IInv, NextTask("remove") PROVE status # "busy"
    <2>1. status \in {"ready", "inactive"}
      BY <1>1, <1>2, <1>5, RemoveFound
    <2> QED BY <2>1
  <1>6. IInv => TaskExpected
    BY <1>3, <1>4, <1>5 DEF TaskExpected, SendExpected, RemoveExpected
  <1> QED BY <1>6, Inductive, PTL

-----------------------------------------------------------------------------
(* The connection implements RequestReply.                                 *)

\* What the promise speaks of.
LEMMA RepliesVars ==
    UNCHANGED <<requests, unanswered, reported, failed>> => UNCHANGED Replies!vars
  BY DEF Replies!vars

\* A failure is the one error.
LEMMA FailReplies ==
    ASSUME Fail, ~failed
    PROVE  Replies!Next
  BY DEF Fail, Replies!Next, Replies!Error

\* A transfer runs for the request that waits.
LEMMA TransferWaits ==
    ASSUME IInv, TransferRuns
    PROVE  unanswered # 0 /\ inFlight = unanswered /\ ~failed
  <1>1. PhaseInv /\ TransferCoherent /\ transfer
    BY DEF IInv, TransferRuns
  <1>2. status = "busy" /\ "busy" # "inactive"
    BY <1>1 DEF TransferCoherent
  <1> QED BY <1>1, <1>2, Zenon DEF PhaseInv

\* A step of the client is the performing of a request or nothing.
LEMMA ClientReplies ==
    ASSUME IInv, Client, ~RegisterRaces
    PROVE  [Replies!Next]_Replies!vars
  <1>1. CASE perform
    <2>1. building /\ PhaseInv
      BY <1>1 DEF perform, IInv
    <2>2. unanswered = 0 /\ ~failed
      BY <2>1, Zenon DEF PhaseInv
    <2>3. requests' = requests + 1 /\ unanswered' = requests' /\ reported' = reported
          /\ failed' = failed
      BY <1>1 DEF perform, connVars, curlVars
    <2>4. Replies!Perform
      BY <2>2, <2>3 DEF Replies!Perform
    <2> QED BY <2>4 DEF Replies!Next
  <1>2. CASE ~perform
    <2>1. UNCHANGED <<requests, unanswered, reported, failed>>
      BY <1>2 DEF Client, set_request_method, set_request_path, set_request_query,
                  set_request_timeout, SetPart, add_request_header, set_request_body,
                  StoreHeader, remove_connection, BuildVars, connVars, curlVars
    <2> QED BY <2>1, RepliesVars
  <1> QED BY <1>1, <1>2

\* A step of the worker thread is a report, an answer or nothing.
LEMMA WorkerReplies ==
    ASSUME IInv, WorkerThread
    PROVE  [Replies!Next]_Replies!vars
  <1>1. PhaseInv /\ TypeOK /\ status \in Status
    BY DEF IInv, TypeOK, Status
  <1>2. CASE \/ swap_task_queue \/ TasksDone \/ unregister_handle
             \/ \E n \in 1 .. MaxBody : read_callback(n)
    <2>1. UNCHANGED <<requests, unanswered, reported, failed>>
      BY <1>2 DEF swap_task_queue, TasksDone, unregister_handle, read_callback, connVars,
                  curlVars, clientVars
    <2> QED BY <2>1, RepliesVars
  <1>3. CASE register_handle
    <2>1. CASE Fail
      <3>1. Tasks # <<>> /\ Head(Tasks) = "add"
        BY <1>1, <1>3, FirstTask DEF register_handle
      <3>2. status = "initializing" /\ "initializing" # "inactive"
        BY <1>1, <3>1, AddFound
      <3>3. ~failed
        BY <1>1, <3>2, Zenon DEF PhaseInv
      <3> QED BY <2>1, <3>3, FailReplies
    <2>2. CASE ~Fail
      <3>1. UNCHANGED <<requests, unanswered, reported, failed>>
        BY <1>3, <2>2 DEF register_handle, curlVars, clientVars
      <3> QED BY <3>1, RepliesVars
    <2> QED BY <2>1, <2>2
  <1>4. CASE send_message
    <2>1. CASE Fail
      <3>1. status = "ready" /\ "ready" # "inactive"
        BY <1>4 DEF send_message
      <3>2. ~failed
        BY <1>1, <3>1, Zenon DEF PhaseInv
      <3> QED BY <2>1, <3>2, FailReplies
    <2>2. CASE ~Fail
      <3>1. UNCHANGED <<requests, unanswered, reported, failed>>
        BY <1>4, <2>2 DEF send_message, clientVars
      <3> QED BY <3>1, RepliesVars
    <2> QED BY <2>1, <2>2
  <1>5. CASE (\E line \in Line : header_callback(line)) \/ write_callback
    <2>1. /\ TransferRuns
          /\ reported' = reported \/ reported' = inFlight
          /\ UNCHANGED <<requests, unanswered, failed>>
      BY <1>5 DEF header_callback, write_callback, clientVars
    <2>2. unanswered # 0 /\ inFlight = unanswered
      BY <2>1, TransferWaits
    <2>3. CASE reported' = reported
      BY <2>1, <2>3, RepliesVars
    <2>4. CASE reported' = inFlight
      BY <2>1, <2>2, <2>4 DEF Replies!Next, Replies!Report
    <2> QED BY <2>1, <2>3, <2>4
  <1>6. CASE on_response_complete
    <2>1. unanswered # 0
      BY <1>6, TransferWaits DEF on_response_complete
    <2>2. Replies!Complete
      BY <1>6, <2>1 DEF on_response_complete, Replies!Complete
    <2> QED BY <2>2 DEF Replies!Next
  <1>7. CASE TransferFails
    <2>1. ~failed
      BY <1>7, TransferWaits DEF TransferFails
    <2> QED BY <1>7, <2>1, FailReplies DEF TransferFails
  <1> QED BY <1>2, <1>3, <1>4, <1>5, <1>6, <1>7, Zenon DEF WorkerThread, on_recv_message

\* The safety part of the promise: requests are performed one after the other, what is
\* reported belongs to the request that waits, and each is answered once.
THEOREM RepliesToRequests ==
    ASSUME ~RegisterRaces
    PROVE  Spec => Replies!Init /\ [][Replies!Next]_Replies!vars
  <1>1. Init => Replies!Init
    BY DEF Init, Replies!Init
  <1>2. IInv /\ UNCHANGED vars => UNCHANGED Replies!vars
    BY DEF vars, connVars, curlVars, clientVars, Replies!vars
  <1>3. IInv /\ [Next]_vars => [Replies!Next]_Replies!vars
    BY <1>2, ClientReplies, WorkerReplies DEF Next
  <1> QED BY <1>1, <1>3, Inductive, PTL DEF Spec
==============================================================================
