-------------------------- MODULE CurlConfigProofs --------------------------
(***************************************************************************)
(* Proof that a curl handle is given what was set last before the client   *)
(* was constructed, for any number of setters called in any order, any     *)
(* hosts, ports and paths.                                                 *)
(***************************************************************************)
EXTENDS CurlConfig, SequenceTheorems, WellFoundedInduction, TLAPS

-----------------------------------------------------------------------------
(* Texts of fields.                                                        *)

\* A text of fields in a set of tokens.
LEMMA Unit ==
    ASSUME NEW S, NEW e \in S
    PROVE  <<e>> \in Seq(S) /\ Len(<<e>>) = 1 /\ <<e>>[1] = e
  OBVIOUS

\* A text ends its first field at its first separator.
LEMMA EndAt ==
    ASSUME NEW S, NEW text \in Seq(S), NEW separator, NEW d \in 1 .. Len(text) + 1,
           \A i \in 1 .. d - 1 : text[i] # separator,
           d <= Len(text) => text[d] = separator
    PROVE  FirstEnd(text, separator) = d
  <1> DEFINE E == {i \in 1 .. Len(text) : text[i] = separator} \cup {Len(text) + 1}
  <1>1. Len(text) \in Nat
    BY LenProperties
  <1>2. d \in E
    BY <1>1
  <1>3. \A i \in E : i \in Nat /\ d <= i
    BY <1>1
  <1> HIDE DEF E
  <1>4. \A x \in E : (\A y \in E : x =< y) => x = d
    BY <1>2, <1>3
  <1>5. Min(E) = d
    BY <1>2, <1>3, <1>4 DEF Min
  <1> QED BY <1>5 DEF FirstEnd, E

\* A field, a separator and the rest are taken apart.
LEMMA Split ==
    ASSUME NEW S, NEW separator \in S, NEW a \in Seq(S), NEW rest \in Seq(S),
           \A i \in 1 .. Len(a) : a[i] # separator
    PROVE  LET text == a \o <<separator>> \o rest
           IN  /\ text \in Seq(S)
               /\ Upto(text, separator) = a
               /\ Behind(text, separator) = rest
  <1> DEFINE b == a \o <<separator>>
             text == b \o rest
             d == Len(a) + 1
  <1>1. Len(a) \in Nat /\ Len(rest) \in Nat
    BY LenProperties
  <1>2. /\ b \in Seq(S) /\ Len(b) = Len(a) + 1
        /\ \A i \in 1 .. Len(a) + 1 : b[i] = IF i <= Len(a) THEN a[i] ELSE separator
    <2>1. <<separator>> \in Seq(S) /\ Len(<<separator>>) = 1 /\ <<separator>>[1] = separator
      BY Unit
    <2>2. \A i \in 1 .. Len(a) + 1 : ~(i <= Len(a)) => i - Len(a) = 1
      BY <1>1
    <2> QED BY <2>1, <2>2, ConcatProperties
  <1> HIDE DEF b
  <1>3. /\ text \in Seq(S) /\ Len(text) = Len(a) + 1 + Len(rest)
        /\ \A i \in 1 .. Len(b) + Len(rest) :
              text[i] = IF i <= Len(b) THEN b[i] ELSE rest[i - Len(b)]
    <2>1. Len(b) + Len(rest) = Len(a) + 1 + Len(rest) /\ b \in Seq(S)
      BY <1>2
    <2> QED BY <2>1, ConcatProperties
  <1> HIDE DEF text
  <1>4. /\ \A i \in 1 .. Len(a) : text[i] = a[i]
        /\ text[d] = separator
    <2>1. \A i \in 1 .. Len(a) : /\ i \in 1 .. Len(b) + Len(rest) /\ i <= Len(b)
                                  /\ i \in 1 .. Len(a) + 1 /\ i <= Len(a)
      BY <1>1, <1>2
    <2>2. \A i \in 1 .. Len(a) : text[i] = b[i]
      BY <1>3, <2>1
    <2>3. \A i \in 1 .. Len(a) : b[i] = a[i]
      BY <1>2, <2>1
    <2>4. d \in 1 .. Len(b) + Len(rest) /\ d <= Len(b) /\ d \in 1 .. Len(a) + 1 /\ ~ (d <= Len(a))
      BY <1>1, <1>2
    <2>5. text[d] = b[d] /\ b[d] = separator
      BY <1>2, <1>3, <2>4
    <2> QED BY <2>2, <2>3, <2>5
  <1>5. \A i \in 1 .. Len(rest) : text[d + i] = rest[i]
    <2> SUFFICES ASSUME NEW i \in 1 .. Len(rest) PROVE text[d + i] = rest[i]
      OBVIOUS
    <2>1. /\ d + i \in 1 .. Len(b) + Len(rest) /\ ~(d + i <= Len(b)) /\ (d + i) - Len(b) = i
      BY <1>1, <1>2
    <2> QED BY <1>3, <2>1
  <1>6. FirstEnd(text, separator) = d
    <2>1. /\ d \in 1 .. Len(text) + 1
          /\ \A i \in 1 .. d - 1 : text[i] # separator
          /\ d <= Len(text) => text[d] = separator
      BY <1>1, <1>3, <1>4
    <2>2. text \in Seq(S)
      BY <1>3
    <2> HIDE DEF d
    <2> QED BY <2>1, <2>2, EndAt
  <1>7. SubSeq(text, 1, d - 1) = a
    <2>1. /\ SubSeq(text, 1, d - 1) \in Seq(S) /\ Len(SubSeq(text, 1, d - 1)) = Len(a)
          /\ \A i \in 1 .. Len(a) : SubSeq(text, 1, d - 1)[i] = text[i]
      BY <1>1, <1>3
    <2> QED BY <1>1, <1>4, <2>1, SeqEqual
  <1>8. SubSeq(text, d + 1, Len(text)) = rest
    <2>1. /\ SubSeq(text, d + 1, Len(text)) \in Seq(S)
          /\ Len(SubSeq(text, d + 1, Len(text))) = Len(rest)
          /\ \A i \in 1 .. Len(rest) : SubSeq(text, d + 1, Len(text))[i] = text[d + i]
      BY <1>1, <1>3
    <2> QED BY <1>1, <1>5, <2>1, SeqEqual
  <1>9. Upto(text, separator) = a /\ Behind(text, separator) = rest
    BY <1>6, <1>7, <1>8 DEF Upto, Behind
  <1> QED BY <1>3, <1>9 DEF text, b

\* A text without a separator is one field, with nothing behind it.
LEMMA Whole ==
    ASSUME NEW S, NEW separator, NEW a \in Seq(S),
           \A i \in 1 .. Len(a) : a[i] # separator
    PROVE  Upto(a, separator) = a /\ Behind(a, separator) = <<>>
  <1> DEFINE d == Len(a) + 1
  <1>1. Len(a) \in Nat
    BY LenProperties
  <1>2. FirstEnd(a, separator) = d
    <2>1. d \in 1 .. Len(a) + 1 /\ (\A i \in 1 .. d - 1 : a[i] # separator) /\ ~(d <= Len(a))
      BY <1>1
    <2> HIDE DEF d
    <2> QED BY <2>1, EndAt
  <1>3. SubSeq(a, 1, d - 1) = a
    <2>1. /\ SubSeq(a, 1, d - 1) \in Seq(S) /\ Len(SubSeq(a, 1, d - 1)) = Len(a)
          /\ \A i \in 1 .. Len(a) : SubSeq(a, 1, d - 1)[i] = a[i]
      BY <1>1
    <2> QED BY <2>1, SeqEqual
  <1>4. SubSeq(a, d + 1, Len(a)) = <<>>
    <2>1. SubSeq(a, d + 1, Len(a)) \in Seq(S) /\ Len(SubSeq(a, d + 1, Len(a))) = 0
      BY <1>1
    <2> QED BY <2>1, EmptySeq
  <1> QED BY <1>2, <1>3, <1>4 DEF Upto, Behind

\* What is left of a text from place d on.
LEMMA Rest ==
    ASSUME NEW S, NEW text \in Seq(S), NEW d \in 1 .. Len(text) + 1
    PROVE  LET rest == SubSeq(text, d, Len(text))
           IN  /\ rest \in Seq(S)
               /\ Len(rest) = (Len(text) + 1) - d
               /\ \A i \in 1 .. (Len(text) + 1) - d : rest[i] = text[(d - 1) + i]
  <1>1. Len(text) \in Nat
    BY LenProperties
  <1>2. SubSeq(text, d, Len(text)) \in Seq(S)
    BY <1>1
  <1>3. Len(SubSeq(text, d, Len(text))) = (Len(text) + 1) - d
    BY <1>1
  <1>4. \A i \in 1 .. (Len(text) + 1) - d : SubSeq(text, d, Len(text))[i] = text[(d - 1) + i]
    BY <1>1
  <1> QED BY <1>2, <1>3, <1>4

\* A pair of tokens is the concatenation of the two.
LEMMA Pair ==
    ASSUME NEW S, NEW e \in S, NEW f \in S
    PROVE  <<e, f>> \in Seq(S) /\ <<e, f>> = <<e>> \o <<f>>
  <1> DEFINE u == <<e>> \o <<f>>
             v == <<e, f>>
  <1>1. /\ u \in Seq(S) /\ Len(u) = 1 + 1
        /\ \A i \in 1 .. 1 + 1 : u[i] = IF i <= 1 THEN <<e>>[i] ELSE <<f>>[i - 1]
    <2>1. /\ <<e>> \in Seq(S) /\ Len(<<e>>) = 1
          /\ <<f>> \in Seq(S) /\ Len(<<f>>) = 1
      BY Unit
    <2>2. /\ u \in Seq(S) /\ Len(u) = Len(<<e>>) + Len(<<f>>)
          /\ \A i \in 1 .. Len(<<e>>) + Len(<<f>>) :
                u[i] = IF i <= Len(<<e>>) THEN <<e>>[i] ELSE <<f>>[i - Len(<<e>>)]
      BY <2>1, ConcatProperties
    <2> QED BY <2>1, <2>2
  <1>2. v \in Seq(S) /\ Len(v) = 2 /\ v[1] = e /\ v[2] = f
    OBVIOUS
  <1>3. u[1] = e /\ u[2] = f /\ \A i \in 1 .. 2 : i = 1 \/ i = 2
    BY <1>1
  <1> HIDE DEF u, v
  <1>4. \A i \in 1 .. Len(u) : u[i] = v[i]
    BY <1>1, <1>2, <1>3
  <1>5. u = v
    BY <1>1, <1>2, <1>4, SeqEqual
  <1> QED BY <1>2, <1>5 DEF u, v

\* A triple of tokens is a pair and a token.
LEMMA Triple ==
    ASSUME NEW S, NEW e \in S, NEW f \in S, NEW g \in S
    PROVE  <<e, f, g>> \in Seq(S) /\ <<e, f, g>> = <<e, f>> \o <<g>>
  <1> DEFINE t == <<e, f>>
             u == t \o <<g>>
             v == <<e, f, g>>
  <1>1. t \in Seq(S) /\ Len(t) = 2 /\ t[1] = e /\ t[2] = f
    OBVIOUS
  <1> HIDE DEF t
  <1>2. /\ u \in Seq(S) /\ Len(u) = 2 + 1
        /\ \A i \in 1 .. 2 + 1 : u[i] = IF i <= 2 THEN t[i] ELSE <<g>>[i - 2]
    <2>1. <<g>> \in Seq(S) /\ Len(<<g>>) = 1
      BY Unit
    <2>2. /\ u \in Seq(S) /\ Len(u) = Len(t) + Len(<<g>>)
          /\ \A i \in 1 .. Len(t) + Len(<<g>>) :
                u[i] = IF i <= Len(t) THEN t[i] ELSE <<g>>[i - Len(t)]
      BY <1>1, <2>1, ConcatProperties
    <2> QED BY <1>1, <2>1, <2>2
  <1>3. v \in Seq(S) /\ Len(v) = 3 /\ v[1] = e /\ v[2] = f /\ v[3] = g
    OBVIOUS
  <1>4. u[1] = e /\ u[2] = f /\ u[3] = g /\ \A i \in 1 .. 3 : i = 1 \/ i = 2 \/ i = 3
    BY <1>1, <1>2
  <1> HIDE DEF u, v
  <1>5. \A i \in 1 .. Len(u) : u[i] = v[i]
    BY <1>2, <1>3, <1>4
  <1>6. u = v
    BY <1>2, <1>3, <1>5, SeqEqual
  <1> QED BY <1>3, <1>6 DEF t, u, v

-----------------------------------------------------------------------------
(* What curl reads in the texts of curl_config.                            *)

Token == Host \cup Port \cup DOMAIN Setters \cup {"://", ":", "!", "if", "host", "ifhost", "net0"}

\* A token is one field; no token is no field.
LEMMA OneField ==
    ASSUME NEW S, NEW x \in S \cup {None}, NEW separator, x # separator, None # separator
    PROVE  /\ Text(x) \in Seq(S)
           /\ \A i \in 1 .. Len(Text(x)) : Text(x)[i] # separator
           /\ Text(x) = <<>> <=> x = None
  <1>1. CASE x = None
    <2>1. Text(x) = <<>>
      BY <1>1 DEF Text
    <2> QED BY <1>1, <2>1, EmptySeq
  <1>2. CASE x # None
    <2>1. x \in S /\ Text(x) = <<x>>
      BY <1>2 DEF Text
    <2>2. /\ <<x>> \in Seq(S) /\ Len(<<x>>) = 1 /\ <<x>>[1] = x
          /\ \A i \in 1 .. 1 : i = 1
      BY <2>1, Unit
    <2>3. <<x>> # <<>>
      BY <2>2
    <2> QED BY <1>2, <2>1, <2>2, <2>3
  <1> QED BY <1>1, <1>2

\* The host and the port are read back from a URL.
LEMMA UrlRead ==
    ASSUME NEW S, NEW k \in S, "://" \in S, ":" \in S, NEW h \in S, NEW p \in S \cup {None},
           h # ":", p # ":"
    PROVE  LET url  == <<k, "://", h>> \o PortText(p)
               rest == SubSeq(url, 3, Len(url))
           IN  Upto(rest, ":") = <<h>> /\ Upto(Behind(rest, ":"), ":") = Text(p)
  <1> DEFINE t == <<k, "://", h>>
             url == t \o PortText(p)
             rest == SubSeq(url, 3, Len(url))
  <1>1. t \in Seq(S) /\ Len(t) = 3 /\ t[3] = h
    OBVIOUS
  <1>2. /\ <<h>> \in Seq(S) /\ Len(<<h>>) = 1 /\ <<h>>[1] = h
        /\ \A i \in 1 .. Len(<<h>>) : <<h>>[i] # ":"
    BY Unit
  <1> HIDE DEF t
  <1>3. CASE p = None
    <2>1. url = t
      BY <1>1, <1>3, ConcatEmptySeq DEF PortText
    <2> HIDE DEF url
    <2>2. rest \in Seq(S) /\ Len(rest) = 1 /\ rest[1] = h
      <3>0. url \in Seq(S) /\ Len(url) = 3 /\ url[3] = h
        BY <1>1, <2>1
      <3>1. /\ 3 \in 1 .. Len(url) + 1
            /\ (Len(url) + 1) - 3 = 1 /\ 1 \in 1 .. 1 /\ (3 - 1) + 1 = 3
        BY <3>0
      <3> QED BY <3>0, <3>1, Rest
    <2>3. rest = <<h>>
      <3> HIDE DEF rest
      <3>1. \A i \in 1 .. Len(rest) : rest[i] = <<h>>[i]
        BY <1>2, <2>2
      <3> QED BY <1>2, <2>2, <3>1, SeqEqual
    <2>4. Upto(rest, ":") = <<h>> /\ Behind(rest, ":") = <<>>
      BY <1>2, <2>3, Whole
    <2>5. Upto(<<>>, ":") = <<>>
      <3>1. <<>> \in Seq(S) /\ \A i \in 1 .. Len(<<>>) : <<>>[i] # ":"
        BY EmptySeq
      <3> QED BY <3>1, Whole
    <2>6. Text(p) = <<>>
      BY <1>3 DEF Text
    <2> QED BY <2>4, <2>5, <2>6 DEF url, t
  <1>4. CASE p # None
    <2> DEFINE c == <<":", p>>
               r == <<h>> \o <<":">> \o <<p>>
    <2>1. /\ p \in S /\ c \in Seq(S) /\ Len(c) = 2 /\ c[1] = ":" /\ c[2] = p
          /\ PortText(p) = c /\ Text(p) = <<p>>
      BY <1>4 DEF PortText, Text
    <2> HIDE DEF c
    <2>2. /\ url \in Seq(S) /\ Len(url) = 3 + 2
          /\ \A i \in 1 .. 3 + 2 : url[i] = IF i <= 3 THEN t[i] ELSE c[i - 3]
      <3>1. url = t \o c
        BY <2>1
      <3> HIDE DEF url
      <3>2. t \in Seq(S) /\ c \in Seq(S)
        BY <1>1, <2>1
      <3>3. /\ url \in Seq(S) /\ Len(url) = Len(t) + Len(c)
            /\ \A i \in 1 .. Len(t) + Len(c) :
                  url[i] = IF i <= Len(t) THEN t[i] ELSE c[i - Len(t)]
        BY <3>1, <3>2, ConcatProperties
      <3> QED BY <1>1, <2>1, <3>3
    <2>3. url[3] = h /\ url[4] = ":" /\ url[5] = p
      BY <1>1, <2>1, <2>2
    <2> HIDE DEF url
    <2>4. rest \in Seq(S) /\ Len(rest) = 3 /\ rest[1] = h /\ rest[2] = ":" /\ rest[3] = p
      <3>1. /\ url \in Seq(S) /\ Len(url) = 5 /\ 3 \in 1 .. Len(url) + 1
            /\ (Len(url) + 1) - 3 = 3 /\ (3 - 1) + 1 = 3 /\ (3 - 1) + 2 = 4 /\ (3 - 1) + 3 = 5
            /\ 1 \in 1 .. 3 /\ 2 \in 1 .. 3 /\ 3 \in 1 .. 3
        BY <2>2
      <3>2. /\ rest \in Seq(S) /\ Len(rest) = 3
            /\ \A i \in 1 .. 3 : rest[i] = url[(3 - 1) + i]
        BY <3>1, Rest
      <3> HIDE DEF rest
      <3> QED BY <2>3, <3>1, <3>2
    <2>5. /\ <<h, ":", p>> \in Seq(S) /\ <<h, ":">> = <<h>> \o <<":">>
          /\ <<h, ":", p>> = <<h, ":">> \o <<p>>
      BY <2>1, Pair, Triple
    <2>6. rest = <<h, ":", p>>
      <3> DEFINE w == <<h, ":", p>>
      <3>1. w \in Seq(S) /\ Len(w) = 3 /\ w[1] = h /\ w[2] = ":" /\ w[3] = p
        BY <2>1
      <3>2. \A i \in 1 .. 3 : i = 1 \/ i = 2 \/ i = 3
        OBVIOUS
      <3> HIDE DEF rest, w
      <3>3. \A i \in 1 .. Len(rest) : rest[i] = w[i]
        BY <2>4, <3>1, <3>2
      <3>4. rest = w
        BY <2>4, <3>1, <3>3, SeqEqual
      <3> QED BY <3>4 DEF w
    <2>7. rest = r
      BY <2>5, <2>6
    <2>8. /\ <<p>> \in Seq(S) /\ \A i \in 1 .. Len(<<p>>) : <<p>>[i] # ":"
      BY <2>1, Unit
    <2> HIDE DEF rest
    <2>9. Upto(rest, ":") = <<h>> /\ Behind(rest, ":") = <<p>>
      <3> DEFINE u == <<h>>
                 v == <<p>>
      <3>1. u \in Seq(S) /\ v \in Seq(S) /\ \A i \in 1 .. Len(u) : u[i] # ":"
        BY <1>2, <2>8
      <3> HIDE DEF u, v
      <3>2. Upto(u \o <<":">> \o v, ":") = u /\ Behind(u \o <<":">> \o v, ":") = v
        BY <3>1, Split
      <3> QED BY <2>7, <3>2 DEF u, v
    <2>10. Upto(<<p>>, ":") = <<p>>
      BY <2>8, Whole
    <2> QED BY <2>1, <2>9, <2>10 DEF rest, url, t
  <1> QED BY <1>3, <1>4

\* The first of at least two fields is one token; the others follow the separator.
LEMMA FirstField ==
    ASSUME NEW S, NEW separator, NEW text \in Seq(S), Len(text) >= 2,
           text[1] # separator, text[2] = separator
    PROVE  /\ Upto(text, separator) = <<text[1]>>
           /\ Behind(text, separator) = SubSeq(text, 3, Len(text))
  <1>1. Len(text) \in Nat /\ 2 \in 1 .. Len(text) + 1 /\ text[1] \in S
    BY LenProperties
  <1>2. \A i \in 1 .. 2 - 1 : text[i] # separator
    OBVIOUS
  <1>3. FirstEnd(text, separator) = 2
    BY <1>1, <1>2, EndAt
  <1>4. SubSeq(text, 1, 2 - 1) = <<text[1]>>
    <2> DEFINE u == SubSeq(text, 1, 2 - 1)
               v == <<text[1]>>
    <2>1. u \in Seq(S) /\ Len(u) = 1 /\ u[1] = text[1]
      BY <1>1
    <2>2. v \in Seq(S) /\ Len(v) = 1 /\ v[1] = text[1]
      BY <1>1
    <2> HIDE DEF u, v
    <2>3. \A i \in 1 .. Len(u) : u[i] = v[i]
      BY <2>1, <2>2
    <2>4. u = v
      BY <2>1, <2>2, <2>3, SeqEqual
    <2> QED BY <2>4 DEF u, v
  <1> QED BY <1>3, <1>4 DEF Upto, Behind

\* The interface and the host to bind to are read back.
LEMMA InterfaceRead ==
    ASSUME NEW S, {"if", "host", "ifhost", "!"} \subseteq S,
           NEW name \in S \cup {None}, NEW host \in S \cup {None}, name # "!", host # "!",
           NEW text,
           text = CASE name # None /\ host # None -> <<"ifhost", "!", name, "!", host>>
                    [] name # None /\ host = None -> <<"if", "!", name>>
                    [] name = None /\ host # None -> <<"host", "!", host>>
                    [] OTHER -> <<>>
    PROVE  BindsTo(text) = [name |-> Text(name), host |-> Text(host)]
  <1>0. <<"ifhost">> # <<"if">> /\ <<"ifhost">> # <<"host">> /\ <<"if">> # <<"host">>
    <2>1. <<"ifhost">>[1] = "ifhost" /\ <<"if">>[1] = "if" /\ <<"host">>[1] = "host"
      OBVIOUS
    <2> QED BY <2>1
  <1>1. ASSUME NEW k \in S, NEW x \in S, k # "!"
        PROVE  Upto(<<k, "!", x>>, "!") = <<k>> /\ Behind(<<k, "!", x>>, "!") = <<x>>
    <2> DEFINE t == <<k, "!", x>>
               u == SubSeq(t, 3, Len(t))
               v == <<x>>
    <2>1. t \in Seq(S) /\ Len(t) = 3 /\ t[1] = k /\ t[2] = "!" /\ t[3] = x
      OBVIOUS
    <2>2. v \in Seq(S) /\ Len(v) = 1 /\ v[1] = x
      OBVIOUS
    <2> HIDE DEF t, v
    <2>3. u \in Seq(S) /\ Len(u) = 1 /\ u[1] = x
      BY <2>1
    <2>4. Upto(t, "!") = <<k>> /\ Behind(t, "!") = u
      BY <1>1, <2>1, FirstField
    <2> HIDE DEF u
    <2>5. \A i \in 1 .. Len(u) : u[i] = v[i]
      BY <2>2, <2>3
    <2>6. u = v
      BY <2>2, <2>3, <2>5, SeqEqual
    <2> QED BY <2>4, <2>6 DEF t, v
  <1>2. CASE name # None /\ host # None
    <2> DEFINE t == <<"ifhost", "!", name, "!", host>>
               u == SubSeq(t, 3, Len(t))
               v == <<name, "!", host>>
    <2>1. name \in S /\ host \in S
      BY <1>2
    <2>2. /\ t \in Seq(S) /\ Len(t) = 5 /\ t[1] = "ifhost" /\ t[2] = "!" /\ t[3] = name
          /\ t[4] = "!" /\ t[5] = host
      BY <2>1
    <2>3. v \in Seq(S) /\ Len(v) = 3 /\ v[1] = name /\ v[2] = "!" /\ v[3] = host
      BY <2>1
    <2>4. text = t
      BY <1>2
    <2> HIDE DEF t, v
    <2>5. u \in Seq(S) /\ Len(u) = 3 /\ u[1] = name /\ u[2] = "!" /\ u[3] = host
      <3>1. t \in Seq(S) /\ Len(t) = 5
        BY <2>2
      <3>2. /\ 3 \in 1 .. Len(t) + 1 /\ (Len(t) + 1) - 3 = 3
            /\ (3 - 1) + 1 = 3 /\ (3 - 1) + 2 = 4 /\ (3 - 1) + 3 = 5
            /\ 1 \in 1 .. 3 /\ 2 \in 1 .. 3 /\ 3 \in 1 .. 3
        BY <3>1
      <3>3. /\ u \in Seq(S) /\ Len(u) = 3
            /\ \A i \in 1 .. 3 : u[i] = t[(3 - 1) + i]
        BY <3>1, <3>2, Rest
      <3>4. t[3] = name /\ t[4] = "!" /\ t[5] = host
        BY <2>2
      <3> HIDE DEF u
      <3> QED BY <3>2, <3>3, <3>4
    <2>6. Upto(t, "!") = <<"ifhost">> /\ Behind(t, "!") = u
      <3>1. t \in Seq(S) /\ Len(t) >= 2
        BY <2>2
      <3>2. t[1] = "ifhost" /\ t[2] = "!" /\ t[1] # "!"
        BY <2>2
      <3> QED BY <3>1, <3>2, FirstField
    <2> HIDE DEF u
    <2>7. \A i \in 1 .. 3 : i = 1 \/ i = 2 \/ i = 3
      OBVIOUS
    <2>8. \A i \in 1 .. Len(u) : u[i] = v[i]
      BY <2>3, <2>5, <2>7
    <2>9. u = v
      BY <2>3, <2>5, <2>8, SeqEqual
    <2>10. Upto(v, "!") = <<name>> /\ Behind(v, "!") = <<host>>
      BY <1>1, <2>1 DEF v
    <2>11. Text(name) = <<name>> /\ Text(host) = <<host>>
      BY <1>2 DEF Text
    <2>12. BindsTo(t) = [name |-> <<name>>, host |-> <<host>>]
      BY <1>0, <2>6, <2>9, <2>10 DEF BindsTo
    <2> QED BY <2>4, <2>11, <2>12
  <1>3. CASE name # None /\ host = None
    <2>1. text = <<"if", "!", name>> /\ name \in S
      BY <1>3
    <2>2. Upto(text, "!") = <<"if">> /\ Behind(text, "!") = <<name>>
      BY <1>1, <2>1
    <2>3. Upto(<<name>>, "!") = <<name>>
      <3>1. <<name>> \in Seq(S) /\ \A i \in 1 .. Len(<<name>>) : <<name>>[i] # "!"
        BY <2>1
      <3> QED BY <3>1, Whole
    <2>4. Text(name) = <<name>> /\ Text(host) = <<>>
      BY <1>3 DEF Text
    <2> QED BY <1>0, <2>2, <2>3, <2>4 DEF BindsTo
  <1>4. CASE name = None /\ host # None
    <2>1. text = <<"host", "!", host>> /\ host \in S
      BY <1>4
    <2>2. Upto(text, "!") = <<"host">> /\ Behind(text, "!") = <<host>>
      BY <1>1, <2>1
    <2>3. Text(name) = <<>> /\ Text(host) = <<host>>
      BY <1>4 DEF Text
    <2> QED BY <1>0, <2>2, <2>3 DEF BindsTo
  <1>5. CASE name = None /\ host = None
    <2>1. text = <<>>
      BY <1>5
    <2>2. text \in Seq(S) /\ \A i \in 1 .. Len(text) : text[i] # "!"
      BY <2>1, EmptySeq
    <2>3. Upto(text, "!") = <<>> /\ Behind(text, "!") = <<>>
      BY <2>1, <2>2, Whole
    <2>4. <<>> # <<"if">> /\ <<>> # <<"ifhost">> /\ <<>> # <<"host">>
      OBVIOUS
    <2>5. Text(name) = <<>> /\ Text(host) = <<>>
      BY <1>5 DEF Text
    <2> QED BY <2>3, <2>4, <2>5 DEF BindsTo
  <1> QED BY <1>2, <1>3, <1>4, <1>5

-----------------------------------------------------------------------------
(* The calls of setters.                                                   *)

Call ==
    [set : {"real"}, host : Host, port : Port \cup {None}]
    \cup [set : {"interface"}, name : {None, "net0"}, host : {None} \cup Host]
    \cup [set : {"keepAlive"}, delay : {1, 2}]
    \cup [set : {"authority"}, info : {"authority"}]
    \cup [set : {"certificate"}, certificate : {"certificate"}, type : {"der", "p12", "pem"}]
    \cup [set : {"connectTimeout", "tickTimeout"}, to : {1}]
    \cup [set : {"urlPath"}, to : Path]

\* Some of the calls made, if there are any, have a last one.
LEMMA Greatest ==
    ASSUME NEW n \in Nat, NEW S \in SUBSET (1 .. n), S # {}
    PROVE  Max(S) \in S
  <1> DEFINE T == {n - k : k \in S}
  <1>1. T \in SUBSET Nat /\ T # {}
    <2>1. \A k \in S : n - k \in Nat
      OBVIOUS
    <2> QED BY <2>1
  <1>2. PICK d \in T : \A e \in T : ~ (<<e, d>> \in OpToRel(<, Nat))
    <2> HIDE DEF T
    <2> QED BY <1>1, NatLessThanWellFounded, WFMin
  <1>3. PICK m \in S : d = n - m
    OBVIOUS
  <1>4. \A k \in S : n - k \in T /\ n - k \in Nat
    BY <1>1
  <1>5. \A k \in S : ~ (n - k < n - m)
    BY <1>2, <1>3, <1>4 DEF OpToRel
  <1>6. \A k \in S : m >= k
    BY <1>5
  <1>7. \E x \in S : \A y \in S : x >= y
    BY <1>6
  <1> QED BY <1>7 DEF Max

\* Before any call the default holds.
LEMMA NoCall == \A setters, default : LastCall(<<>>, setters, default) = default
  BY DEF LastCall

\* One more call is the last of its setters, and changes nothing for the others.
LEMMA OneMoreCall ==
    ASSUME NEW made \in Seq(Call), NEW call \in Call, NEW setters, NEW default
    PROVE  LastCall(Append(made, call), setters, default) =
               IF call.set \in setters THEN call ELSE LastCall(made, setters, default)
  <1> DEFINE n == Len(made)
             more == Append(made, call)
             those == {i \in 1 .. n : made[i].set \in setters}
             now == {i \in 1 .. Len(more) : more[i].set \in setters}
  <1>1. n \in Nat
    BY LenProperties
  <1>2. /\ Len(more) = n + 1 /\ more[n + 1] = call
        /\ \A i \in 1 .. n : more[i] = made[i]
    BY AppendProperties
  <1> HIDE DEF more
  <1>3. CASE call.set \in setters
    <2>1. n + 1 \in now /\ \A k \in now : k \in Nat /\ n + 1 >= k
      BY <1>1, <1>2, <1>3
    <2> HIDE DEF now, n
    <2>2. \A x \in now : (\A y \in now : x >= y) => x = n + 1
      BY <1>1, <2>1
    <2>3. Max(now) = n + 1
      BY <2>1, <2>2 DEF Max
    <2>4. now # {}
      BY <2>1
    <2>5. LastCall(more, setters, default) = more[Max(now)]
      BY <2>4 DEF LastCall, now
    <2> QED BY <1>2, <1>3, <2>3, <2>5 DEF more
  <1>4. CASE call.set \notin setters
    <2>1. now = those
      BY <1>1, <1>2, <1>4
    <2>2. CASE those = {}
      <3>1. LastCall(more, setters, default) = default
        BY <2>1, <2>2 DEF LastCall
      <3>2. LastCall(made, setters, default) = default
        BY <2>2 DEF LastCall
      <3> QED BY <1>4, <3>1, <3>2 DEF more
    <2>3. CASE those # {}
      <3>1. Max(those) \in 1 .. n
        <4>1. those \in SUBSET (1 .. n)
          OBVIOUS
        <4> HIDE DEF those
        <4> QED BY <1>1, <2>3, <4>1, Greatest
      <3>2. LastCall(more, setters, default) = more[Max(now)]
        <4>1. now # {}
          BY <2>1, <2>3
        <4> QED BY <4>1 DEF LastCall
      <3>3. LastCall(made, setters, default) = made[Max(those)]
        BY <2>3 DEF LastCall
      <3> HIDE DEF those, now
      <3> QED BY <1>2, <1>4, <2>1, <3>1, <3>2, <3>3 DEF more
    <2> QED BY <2>2, <2>3
  <1> QED BY <1>3, <1>4

-----------------------------------------------------------------------------
(* The inductive invariant.                                                *)

Own == [host |-> config.host, port |-> config.port]

\* What the calls made say was set last.
peer    == LastCall(calls, {"real"}, Own)
from    == LastCall(calls, {"interface"}, [name |-> None, host |-> None])
delay   == LastCall(calls, {"keepAlive"}, [delay |-> 60])
tls     == LastCall(calls, {"authority", "certificate"}, none)
connect == LastCall(calls, {"connectTimeout"}, [to |-> 1000])
tick    == LastCall(calls, {"tickTimeout"}, [to |-> 0])
path    == LastCall(calls, {"urlPath"}, [to |-> <<>>])

\* The configuration is what the calls so far say.
ConfigAsSet ==
    /\ IF config.realHost = None THEN peer = Own
       ELSE peer.host = config.realHost /\ peer.port = config.realPort
    /\ from.name = config.ifName /\ from.host = config.ifHost
    /\ config.keepAlive = delay.delay
    /\ config.authority = IF tls.set = "authority" THEN tls.info ELSE None
    /\ config.certificate = IF tls.set = "certificate" THEN tls.certificate ELSE None
    /\ tls.set = "certificate" => /\ tls.type = config.type /\ tls.type \in {"der", "p12", "pem"}
                                  /\ tls.certificate # None
    /\ config.connectTimeout = connect.to
    /\ config.tickTimeout = tick.to
    /\ config.urlPath = path.to

\* The texts read back as what the calls before the construction say.
TextsAsSet ==
    LET peerSet == LastCall(madeOf, {"real"}, Own)
        fromSet == LastCall(madeOf, {"interface"}, [name |-> None, host |-> None])
        tlsSet  == LastCall(madeOf, {"authority", "certificate"}, none)
        pathSet == LastCall(madeOf, {"urlPath"}, [to |-> <<>>]).to
    IN  /\ texts.config.url = <<class, "://", config.host>> \o PortText(config.port)
        /\ ConnectsTo([url |-> texts.config.url, connectTo |-> texts.config.connectTo,
                       interface |-> texts.config.interface]) =
              [host |-> <<peerSet.host>>,
               port |-> Text(IF peerSet.port = None THEN config.port ELSE peerSet.port)]
        /\ BindsTo(texts.config.interface) = [name |-> Text(fromSet.name), host |-> Text(fromSet.host)]
        /\ texts.config.keepAlive = LastCall(madeOf, {"keepAlive"}, [delay |-> 60]).delay
        /\ texts.config.authority = IF tlsSet.set = "authority" THEN tlsSet.info ELSE None
        /\ texts.config.certificate = IF tlsSet.set = "certificate" THEN tlsSet.certificate ELSE None
        /\ tlsSet.set = "certificate" => /\ tlsSet.type = texts.config.type /\ tlsSet.type \in {"der", "p12", "pem"}
                                      /\ tlsSet.certificate # None
        /\ texts.connectTimeout = LastCall(madeOf, {"connectTimeout"}, [to |-> 1000]).to
        /\ texts.tickTimeout = LastCall(madeOf, {"tickTimeout"}, [to |-> 0]).to
        /\ texts.path \in {pathSet, <<"/">> \o pathSet} /\ Head(texts.path) = "/"

Config ==
    [host : Host, port : Port \cup {None},
         realHost : Host \cup {None}, realPort : Port \cup {None},
         ifName : {None, "net0"}, ifHost : {None} \cup Host, keepAlive : {1, 2, 60},
         authority : {None, "authority"}, certificate : {None, "certificate"},
         type : {"pem", "der", "p12"}, connectTimeout : {1, 1000},
         tickTimeout : {0, 1}, urlPath : Path \cup {<<>>}]

Typed ==
    /\ class \in DOMAIN Setters
    /\ calls \in Seq(Call)
    /\ config \in Config
    /\ ~Secure => config.realHost = None

\* A handle has the options that the texts say.
OptionsOfTexts ==
    options # none =>
        /\ texts # none
        /\ options = [address |-> setup_address, keepAlive |-> texts.config.keepAlive,
                      tls |-> setup_tls, session |-> SessionOptions]

IInv == Typed /\ ConfigAsSet /\ (texts # none => TextsAsSet) /\ OptionsOfTexts

-----------------------------------------------------------------------------
(* Every step keeps the invariant.                                         *)

\* A new configuration has the defaults.
LEMMA InitInv == Init => IInv
  <1> SUFFICES ASSUME Init PROVE IInv
    OBVIOUS
  <1>1. PICK h \in Host, p \in Port \cup {None} : config = NewConfig(h, p)
    BY DEF Init
  <1>2. class \in DOMAIN Setters /\ calls = <<>> /\ texts = none /\ options = none
    BY DEF Init
  <1>3. Typed
    <2>1. calls \in Seq(Call)
      BY <1>2, EmptySeq
    <2> QED BY <1>1, <1>2, <2>1 DEF Typed, Config, NewConfig, Defaults
  <1>4. ConfigAsSet
    <2>1. none.set # "authority" /\ none.set # "certificate"
      BY DEF none
    <2> QED BY <1>1, <1>2, <2>1, NoCall DEF ConfigAsSet, NewConfig, Defaults,
        peer, from, delay, tls, connect, tick, path
  <1> QED BY <1>2, <1>3, <1>4 DEF IInv, OptionsOfTexts

\* A call of a setter leaves the texts and the options as they are.
LEMMA CalledKeeps ==
    ASSUME IInv, Typed', ConfigAsSet', UNCHANGED <<class, texts, madeOf, options, Own>>
    PROVE  IInv'
  <1>1. config.host' = config.host /\ config.port' = config.port
    BY DEF Own
  <1>2. (texts # none => TextsAsSet)'
    BY <1>1 DEF IInv, TextsAsSet, Own
  <1>3. OptionsOfTexts'
    BY DEF IInv, OptionsOfTexts, setup_address, setup_tls, SessionOptions, Session
  <1> QED BY <1>2, <1>3 DEF IInv

\* A call is the last of its setters and changes nothing for the others.
LEMMA CallMade ==
    ASSUME calls \in Seq(Call), NEW call \in Call, calls' = Append(calls, call), Own' = Own
    PROVE  /\ calls' \in Seq(Call)
           /\ peer' = IF call.set = "real" THEN call ELSE peer
           /\ from' = IF call.set = "interface" THEN call ELSE from
           /\ delay' = IF call.set = "keepAlive" THEN call ELSE delay
           /\ tls' = IF call.set \in {"authority", "certificate"} THEN call ELSE tls
           /\ connect' = IF call.set = "connectTimeout" THEN call ELSE connect
           /\ tick' = IF call.set = "tickTimeout" THEN call ELSE tick
           /\ path' = IF call.set = "urlPath" THEN call ELSE path
  <1>1. \A setters, default : LastCall(calls', setters, default) =
            IF call.set \in setters THEN call ELSE LastCall(calls, setters, default)
    BY OneMoreCall
  <1>2. calls' \in Seq(Call)
    BY AppendProperties
  <1>3. peer' = IF call.set = "real" THEN call ELSE peer
    BY <1>1 DEF peer
  <1>4. from' = IF call.set = "interface" THEN call ELSE from
    BY <1>1 DEF from
  <1>5. delay' = IF call.set = "keepAlive" THEN call ELSE delay
    BY <1>1 DEF delay
  <1>6. tls' = IF call.set \in {"authority", "certificate"} THEN call ELSE tls
    BY <1>1 DEF tls
  <1>7. connect' = IF call.set = "connectTimeout" THEN call ELSE connect
    BY <1>1 DEF connect
  <1>8. tick' = IF call.set = "tickTimeout" THEN call ELSE tick
    BY <1>1 DEF tick
  <1>9. path' = IF call.set = "urlPath" THEN call ELSE path
    BY <1>1 DEF path
  <1> QED BY <1>2, <1>3, <1>4, <1>5, <1>6, <1>7, <1>8, <1>9

\* The address to connect to is the one set last.
LEMMA RealCalled == ASSUME IInv, NEW h \in Host, NEW p \in Port \cup {None}, with_peer_real_address(h, p) PROVE IInv'
  <1> DEFINE call == [set |-> "real", host |-> h, port |-> p]
  <1>1. call \in Call
    BY DEF Call
  <1>2. /\ call.set \in Setters[class] /\ calls' = Append(calls, call)
        /\ UNCHANGED <<class, texts, madeOf, options>>
        /\ config' = [config EXCEPT !.realHost = h, !.realPort = p]
    BY DEF with_peer_real_address, Calls
  <1>3. /\ config' \in Config
        /\ config'.realHost = h
        /\ config'.realPort = p
        /\ config'.host = config.host /\ config'.port = config.port
        /\ config'.ifName = config.ifName /\ config'.ifHost = config.ifHost
        /\ config'.keepAlive = config.keepAlive /\ config'.authority = config.authority
        /\ config'.certificate = config.certificate /\ config'.type = config.type
        /\ config'.connectTimeout = config.connectTimeout
        /\ config'.tickTimeout = config.tickTimeout /\ config'.urlPath = config.urlPath
    <2>1. config \in Config
      BY DEF IInv, Typed
    <2>2. /\ config'.realHost = h
          /\ config'.realPort = p
          /\ config'.host = config.host /\ config'.port = config.port
          /\ config'.ifName = config.ifName /\ config'.ifHost = config.ifHost
          /\ config'.keepAlive = config.keepAlive /\ config'.authority = config.authority
          /\ config'.certificate = config.certificate /\ config'.type = config.type
          /\ config'.connectTimeout = config.connectTimeout
          /\ config'.tickTimeout = config.tickTimeout /\ config'.urlPath = config.urlPath
      BY <1>2, <2>1 DEF Config
    <2>3. config' = [host |-> config'.host, port |-> config'.port, realHost |-> config'.realHost,
                     realPort |-> config'.realPort, ifName |-> config'.ifName,
                     ifHost |-> config'.ifHost, keepAlive |-> config'.keepAlive,
                     authority |-> config'.authority, certificate |-> config'.certificate,
                     type |-> config'.type, connectTimeout |-> config'.connectTimeout,
                     tickTimeout |-> config'.tickTimeout, urlPath |-> config'.urlPath]
      BY <1>2, <2>1 DEF Config
    <2>4. config' \in Config
      BY <2>1, <2>2, <2>3 DEF Config
    <2> QED BY <2>2, <2>4
  <1>4. Own' = Own
    BY <1>3 DEF Own
  <1>5. /\ calls' \in Seq(Call)
        /\ peer' = IF call.set = "real" THEN call ELSE peer
        /\ from' = IF call.set = "interface" THEN call ELSE from
        /\ delay' = IF call.set = "keepAlive" THEN call ELSE delay
        /\ tls' = IF call.set \in {"authority", "certificate"} THEN call ELSE tls
        /\ connect' = IF call.set = "connectTimeout" THEN call ELSE connect
        /\ tick' = IF call.set = "tickTimeout" THEN call ELSE tick
        /\ path' = IF call.set = "urlPath" THEN call ELSE path
    <2> HIDE DEF call
    <2> QED BY <1>1, <1>2, <1>4, CallMade DEF IInv, Typed
  <1>6. Typed'
    BY <1>2, <1>3, <1>5 DEF IInv, Typed, Secure, Setters, http_config, ws_config, https_config, wss_config
  <1>7. ConfigAsSet'
    BY <1>3, <1>4, <1>5, TokenAssumption DEF IInv, ConfigAsSet, None
  <1> QED BY <1>2, <1>4, <1>6, <1>7, CalledKeeps

\* So is the interface.
LEMMA InterfaceCalled == ASSUME IInv, NEW n \in {None, "net0"}, NEW h \in {None} \cup Host, with_interface(n, h) PROVE IInv'
  <1> DEFINE call == [set |-> "interface", name |-> n, host |-> h]
  <1>1. call \in Call
    BY DEF Call
  <1>2. /\ call.set \in Setters[class] /\ calls' = Append(calls, call)
        /\ UNCHANGED <<class, texts, madeOf, options>>
        /\ config' = [config EXCEPT !.ifName = n, !.ifHost = h]
    BY DEF with_interface, Calls
  <1>3. /\ config' \in Config
        /\ config'.ifName = n
        /\ config'.ifHost = h
        /\ config'.host = config.host /\ config'.port = config.port
        /\ config'.realHost = config.realHost /\ config'.realPort = config.realPort
        /\ config'.keepAlive = config.keepAlive /\ config'.authority = config.authority
        /\ config'.certificate = config.certificate /\ config'.type = config.type
        /\ config'.connectTimeout = config.connectTimeout
        /\ config'.tickTimeout = config.tickTimeout /\ config'.urlPath = config.urlPath
    <2>1. config \in Config
      BY DEF IInv, Typed
    <2>2. /\ config'.ifName = n
          /\ config'.ifHost = h
          /\ config'.host = config.host /\ config'.port = config.port
          /\ config'.realHost = config.realHost /\ config'.realPort = config.realPort
          /\ config'.keepAlive = config.keepAlive /\ config'.authority = config.authority
          /\ config'.certificate = config.certificate /\ config'.type = config.type
          /\ config'.connectTimeout = config.connectTimeout
          /\ config'.tickTimeout = config.tickTimeout /\ config'.urlPath = config.urlPath
      BY <1>2, <2>1 DEF Config
    <2>3. config' = [host |-> config'.host, port |-> config'.port, realHost |-> config'.realHost,
                     realPort |-> config'.realPort, ifName |-> config'.ifName,
                     ifHost |-> config'.ifHost, keepAlive |-> config'.keepAlive,
                     authority |-> config'.authority, certificate |-> config'.certificate,
                     type |-> config'.type, connectTimeout |-> config'.connectTimeout,
                     tickTimeout |-> config'.tickTimeout, urlPath |-> config'.urlPath]
      BY <1>2, <2>1 DEF Config
    <2>4. config' \in Config
      BY <2>1, <2>2, <2>3 DEF Config
    <2> QED BY <2>2, <2>4
  <1>4. Own' = Own
    BY <1>3 DEF Own
  <1>5. /\ calls' \in Seq(Call)
        /\ peer' = IF call.set = "real" THEN call ELSE peer
        /\ from' = IF call.set = "interface" THEN call ELSE from
        /\ delay' = IF call.set = "keepAlive" THEN call ELSE delay
        /\ tls' = IF call.set \in {"authority", "certificate"} THEN call ELSE tls
        /\ connect' = IF call.set = "connectTimeout" THEN call ELSE connect
        /\ tick' = IF call.set = "tickTimeout" THEN call ELSE tick
        /\ path' = IF call.set = "urlPath" THEN call ELSE path
    <2> HIDE DEF call
    <2> QED BY <1>1, <1>2, <1>4, CallMade DEF IInv, Typed
  <1>6. Typed'
    BY <1>2, <1>3, <1>5 DEF IInv, Typed, Secure
  <1>7. ConfigAsSet'
    BY <1>3, <1>4, <1>5 DEF IInv, ConfigAsSet, None
  <1> QED BY <1>2, <1>4, <1>6, <1>7, CalledKeeps

\* So is the delay.
LEMMA KeepAliveCalled == ASSUME IInv, NEW d \in {1, 2}, with_keep_alive_delay(d) PROVE IInv'
  <1> DEFINE call == [set |-> "keepAlive", delay |-> d]
  <1>1. call \in Call
    BY DEF Call
  <1>2. /\ call.set \in Setters[class] /\ calls' = Append(calls, call)
        /\ UNCHANGED <<class, texts, madeOf, options>>
        /\ config' = [config EXCEPT !.keepAlive = d]
    BY DEF with_keep_alive_delay, Calls
  <1>3. /\ config' \in Config
        /\ config'.keepAlive = d
        /\ config'.host = config.host /\ config'.port = config.port
        /\ config'.realHost = config.realHost /\ config'.realPort = config.realPort
        /\ config'.ifName = config.ifName /\ config'.ifHost = config.ifHost
        /\ config'.authority = config.authority /\ config'.certificate = config.certificate
        /\ config'.type = config.type /\ config'.connectTimeout = config.connectTimeout
        /\ config'.tickTimeout = config.tickTimeout /\ config'.urlPath = config.urlPath
    <2>1. config \in Config
      BY DEF IInv, Typed
    <2>2. /\ config'.keepAlive = d
          /\ config'.host = config.host /\ config'.port = config.port
          /\ config'.realHost = config.realHost /\ config'.realPort = config.realPort
          /\ config'.ifName = config.ifName /\ config'.ifHost = config.ifHost
          /\ config'.authority = config.authority /\ config'.certificate = config.certificate
          /\ config'.type = config.type /\ config'.connectTimeout = config.connectTimeout
          /\ config'.tickTimeout = config.tickTimeout /\ config'.urlPath = config.urlPath
      BY <1>2, <2>1 DEF Config
    <2>3. config' = [host |-> config'.host, port |-> config'.port, realHost |-> config'.realHost,
                     realPort |-> config'.realPort, ifName |-> config'.ifName,
                     ifHost |-> config'.ifHost, keepAlive |-> config'.keepAlive,
                     authority |-> config'.authority, certificate |-> config'.certificate,
                     type |-> config'.type, connectTimeout |-> config'.connectTimeout,
                     tickTimeout |-> config'.tickTimeout, urlPath |-> config'.urlPath]
      BY <1>2, <2>1 DEF Config
    <2>4. config' \in Config
      BY <2>1, <2>2, <2>3 DEF Config
    <2> QED BY <2>2, <2>4
  <1>4. Own' = Own
    BY <1>3 DEF Own
  <1>5. /\ calls' \in Seq(Call)
        /\ peer' = IF call.set = "real" THEN call ELSE peer
        /\ from' = IF call.set = "interface" THEN call ELSE from
        /\ delay' = IF call.set = "keepAlive" THEN call ELSE delay
        /\ tls' = IF call.set \in {"authority", "certificate"} THEN call ELSE tls
        /\ connect' = IF call.set = "connectTimeout" THEN call ELSE connect
        /\ tick' = IF call.set = "tickTimeout" THEN call ELSE tick
        /\ path' = IF call.set = "urlPath" THEN call ELSE path
    <2> HIDE DEF call
    <2> QED BY <1>1, <1>2, <1>4, CallMade DEF IInv, Typed
  <1>6. Typed'
    BY <1>2, <1>3, <1>5 DEF IInv, Typed, Secure
  <1>7. ConfigAsSet'
    BY <1>3, <1>4, <1>5 DEF IInv, ConfigAsSet, None
  <1> QED BY <1>2, <1>4, <1>6, <1>7, CalledKeeps

\* An authority takes a certificate back.
LEMMA AuthorityCalled == ASSUME IInv, with_certificate_authority("authority") PROVE IInv'
  <1> DEFINE call == [set |-> "authority", info |-> "authority"]
  <1>1. call \in Call
    BY DEF Call
  <1>2. /\ call.set \in Setters[class] /\ calls' = Append(calls, call)
        /\ UNCHANGED <<class, texts, madeOf, options>>
        /\ config' = [config EXCEPT !.authority = "authority", !.certificate = None, !.type = "pem"]
    BY DEF with_certificate_authority, Calls
  <1>3. /\ config' \in Config
        /\ config'.authority = "authority"
        /\ config'.certificate = None
        /\ config'.type = "pem"
        /\ config'.host = config.host /\ config'.port = config.port
        /\ config'.realHost = config.realHost /\ config'.realPort = config.realPort
        /\ config'.ifName = config.ifName /\ config'.ifHost = config.ifHost
        /\ config'.keepAlive = config.keepAlive
        /\ config'.connectTimeout = config.connectTimeout
        /\ config'.tickTimeout = config.tickTimeout /\ config'.urlPath = config.urlPath
    <2>1. config \in Config
      BY DEF IInv, Typed
    <2>2. /\ config'.authority = "authority"
          /\ config'.certificate = None
          /\ config'.type = "pem"
          /\ config'.host = config.host /\ config'.port = config.port
          /\ config'.realHost = config.realHost /\ config'.realPort = config.realPort
          /\ config'.ifName = config.ifName /\ config'.ifHost = config.ifHost
          /\ config'.keepAlive = config.keepAlive
          /\ config'.connectTimeout = config.connectTimeout
          /\ config'.tickTimeout = config.tickTimeout /\ config'.urlPath = config.urlPath
      BY <1>2, <2>1 DEF Config
    <2>3. config' = [host |-> config'.host, port |-> config'.port, realHost |-> config'.realHost,
                     realPort |-> config'.realPort, ifName |-> config'.ifName,
                     ifHost |-> config'.ifHost, keepAlive |-> config'.keepAlive,
                     authority |-> config'.authority, certificate |-> config'.certificate,
                     type |-> config'.type, connectTimeout |-> config'.connectTimeout,
                     tickTimeout |-> config'.tickTimeout, urlPath |-> config'.urlPath]
      BY <1>2, <2>1 DEF Config
    <2>4. config' \in Config
      BY <2>1, <2>2, <2>3 DEF Config
    <2> QED BY <2>2, <2>4
  <1>4. Own' = Own
    BY <1>3 DEF Own
  <1>5. /\ calls' \in Seq(Call)
        /\ peer' = IF call.set = "real" THEN call ELSE peer
        /\ from' = IF call.set = "interface" THEN call ELSE from
        /\ delay' = IF call.set = "keepAlive" THEN call ELSE delay
        /\ tls' = IF call.set \in {"authority", "certificate"} THEN call ELSE tls
        /\ connect' = IF call.set = "connectTimeout" THEN call ELSE connect
        /\ tick' = IF call.set = "tickTimeout" THEN call ELSE tick
        /\ path' = IF call.set = "urlPath" THEN call ELSE path
    <2> HIDE DEF call
    <2> QED BY <1>1, <1>2, <1>4, CallMade DEF IInv, Typed
  <1>6. Typed'
    BY <1>2, <1>3, <1>5 DEF IInv, Typed, Secure
  <1>7. ConfigAsSet'
    BY <1>3, <1>4, <1>5 DEF IInv, ConfigAsSet, None
  <1> QED BY <1>2, <1>4, <1>6, <1>7, CalledKeeps

\* A certificate takes an authority back.
LEMMA CertificateCalled == ASSUME IInv, NEW type \in {"der", "p12", "pem"}, with_ssl_certificate("certificate", type) PROVE IInv'
  <1> DEFINE call == [set |-> "certificate", certificate |-> "certificate", type |-> type]
  <1>1. call \in Call
    BY DEF Call
  <1>2. /\ call.set \in Setters[class] /\ calls' = Append(calls, call)
        /\ UNCHANGED <<class, texts, madeOf, options>>
        /\ config' = [config EXCEPT !.authority = None, !.certificate = "certificate", !.type = type]
    BY DEF with_ssl_certificate, Calls
  <1>3. /\ config' \in Config
        /\ config'.authority = None
        /\ config'.certificate = "certificate"
        /\ config'.type = type
        /\ config'.host = config.host /\ config'.port = config.port
        /\ config'.realHost = config.realHost /\ config'.realPort = config.realPort
        /\ config'.ifName = config.ifName /\ config'.ifHost = config.ifHost
        /\ config'.keepAlive = config.keepAlive
        /\ config'.connectTimeout = config.connectTimeout
        /\ config'.tickTimeout = config.tickTimeout /\ config'.urlPath = config.urlPath
    <2>1. config \in Config
      BY DEF IInv, Typed
    <2>2. /\ config'.authority = None
          /\ config'.certificate = "certificate"
          /\ config'.type = type
          /\ config'.host = config.host /\ config'.port = config.port
          /\ config'.realHost = config.realHost /\ config'.realPort = config.realPort
          /\ config'.ifName = config.ifName /\ config'.ifHost = config.ifHost
          /\ config'.keepAlive = config.keepAlive
          /\ config'.connectTimeout = config.connectTimeout
          /\ config'.tickTimeout = config.tickTimeout /\ config'.urlPath = config.urlPath
      BY <1>2, <2>1 DEF Config
    <2>3. config' = [host |-> config'.host, port |-> config'.port, realHost |-> config'.realHost,
                     realPort |-> config'.realPort, ifName |-> config'.ifName,
                     ifHost |-> config'.ifHost, keepAlive |-> config'.keepAlive,
                     authority |-> config'.authority, certificate |-> config'.certificate,
                     type |-> config'.type, connectTimeout |-> config'.connectTimeout,
                     tickTimeout |-> config'.tickTimeout, urlPath |-> config'.urlPath]
      BY <1>2, <2>1 DEF Config
    <2>4. config' \in Config
      BY <2>1, <2>2, <2>3 DEF Config
    <2> QED BY <2>2, <2>4
  <1>4. Own' = Own
    BY <1>3 DEF Own
  <1>5. /\ calls' \in Seq(Call)
        /\ peer' = IF call.set = "real" THEN call ELSE peer
        /\ from' = IF call.set = "interface" THEN call ELSE from
        /\ delay' = IF call.set = "keepAlive" THEN call ELSE delay
        /\ tls' = IF call.set \in {"authority", "certificate"} THEN call ELSE tls
        /\ connect' = IF call.set = "connectTimeout" THEN call ELSE connect
        /\ tick' = IF call.set = "tickTimeout" THEN call ELSE tick
        /\ path' = IF call.set = "urlPath" THEN call ELSE path
    <2> HIDE DEF call
    <2> QED BY <1>1, <1>2, <1>4, CallMade DEF IInv, Typed
  <1>6. Typed'
    BY <1>2, <1>3, <1>5 DEF IInv, Typed, Secure
  <1>7. ConfigAsSet'
    BY <1>3, <1>4, <1>5 DEF IInv, ConfigAsSet, None
  <1> QED BY <1>2, <1>4, <1>6, <1>7, CalledKeeps

\* The timeout to connect is the one set last.
LEMMA ConnectTimeoutCalled == ASSUME IInv, with_connect_timeout(1) PROVE IInv'
  <1> DEFINE call == [set |-> "connectTimeout", to |-> 1]
  <1>1. call \in Call
    BY DEF Call
  <1>2. /\ call.set \in Setters[class] /\ calls' = Append(calls, call)
        /\ UNCHANGED <<class, texts, madeOf, options>>
        /\ config' = [config EXCEPT !.connectTimeout = 1]
    BY DEF with_connect_timeout, Calls
  <1>3. /\ config' \in Config
        /\ config'.connectTimeout = 1
        /\ config'.host = config.host /\ config'.port = config.port
        /\ config'.realHost = config.realHost /\ config'.realPort = config.realPort
        /\ config'.ifName = config.ifName /\ config'.ifHost = config.ifHost
        /\ config'.keepAlive = config.keepAlive /\ config'.authority = config.authority
        /\ config'.certificate = config.certificate /\ config'.type = config.type
        /\ config'.tickTimeout = config.tickTimeout /\ config'.urlPath = config.urlPath
    <2>1. config \in Config
      BY DEF IInv, Typed
    <2>2. /\ config'.connectTimeout = 1
          /\ config'.host = config.host /\ config'.port = config.port
          /\ config'.realHost = config.realHost /\ config'.realPort = config.realPort
          /\ config'.ifName = config.ifName /\ config'.ifHost = config.ifHost
          /\ config'.keepAlive = config.keepAlive /\ config'.authority = config.authority
          /\ config'.certificate = config.certificate /\ config'.type = config.type
          /\ config'.tickTimeout = config.tickTimeout /\ config'.urlPath = config.urlPath
      BY <1>2, <2>1 DEF Config
    <2>3. config' = [host |-> config'.host, port |-> config'.port, realHost |-> config'.realHost,
                     realPort |-> config'.realPort, ifName |-> config'.ifName,
                     ifHost |-> config'.ifHost, keepAlive |-> config'.keepAlive,
                     authority |-> config'.authority, certificate |-> config'.certificate,
                     type |-> config'.type, connectTimeout |-> config'.connectTimeout,
                     tickTimeout |-> config'.tickTimeout, urlPath |-> config'.urlPath]
      BY <1>2, <2>1 DEF Config
    <2>4. config' \in Config
      BY <2>1, <2>2, <2>3 DEF Config
    <2> QED BY <2>2, <2>4
  <1>4. Own' = Own
    BY <1>3 DEF Own
  <1>5. /\ calls' \in Seq(Call)
        /\ peer' = IF call.set = "real" THEN call ELSE peer
        /\ from' = IF call.set = "interface" THEN call ELSE from
        /\ delay' = IF call.set = "keepAlive" THEN call ELSE delay
        /\ tls' = IF call.set \in {"authority", "certificate"} THEN call ELSE tls
        /\ connect' = IF call.set = "connectTimeout" THEN call ELSE connect
        /\ tick' = IF call.set = "tickTimeout" THEN call ELSE tick
        /\ path' = IF call.set = "urlPath" THEN call ELSE path
    <2> HIDE DEF call
    <2> QED BY <1>1, <1>2, <1>4, CallMade DEF IInv, Typed
  <1>6. Typed'
    BY <1>2, <1>3, <1>5 DEF IInv, Typed, Secure
  <1>7. ConfigAsSet'
    BY <1>3, <1>4, <1>5 DEF IInv, ConfigAsSet, None
  <1> QED BY <1>2, <1>4, <1>6, <1>7, CalledKeeps

\* So is the timeout of ticks.
LEMMA TickTimeoutCalled == ASSUME IInv, with_tick_timeout(1) PROVE IInv'
  <1> DEFINE call == [set |-> "tickTimeout", to |-> 1]
  <1>1. call \in Call
    BY DEF Call
  <1>2. /\ call.set \in Setters[class] /\ calls' = Append(calls, call)
        /\ UNCHANGED <<class, texts, madeOf, options>>
        /\ config' = [config EXCEPT !.tickTimeout = 1]
    BY DEF with_tick_timeout, Calls
  <1>3. /\ config' \in Config
        /\ config'.tickTimeout = 1
        /\ config'.host = config.host /\ config'.port = config.port
        /\ config'.realHost = config.realHost /\ config'.realPort = config.realPort
        /\ config'.ifName = config.ifName /\ config'.ifHost = config.ifHost
        /\ config'.keepAlive = config.keepAlive /\ config'.authority = config.authority
        /\ config'.certificate = config.certificate /\ config'.type = config.type
        /\ config'.connectTimeout = config.connectTimeout /\ config'.urlPath = config.urlPath
    <2>1. config \in Config
      BY DEF IInv, Typed
    <2>2. /\ config'.tickTimeout = 1
          /\ config'.host = config.host /\ config'.port = config.port
          /\ config'.realHost = config.realHost /\ config'.realPort = config.realPort
          /\ config'.ifName = config.ifName /\ config'.ifHost = config.ifHost
          /\ config'.keepAlive = config.keepAlive /\ config'.authority = config.authority
          /\ config'.certificate = config.certificate /\ config'.type = config.type
          /\ config'.connectTimeout = config.connectTimeout /\ config'.urlPath = config.urlPath
      BY <1>2, <2>1 DEF Config
    <2>3. config' = [host |-> config'.host, port |-> config'.port, realHost |-> config'.realHost,
                     realPort |-> config'.realPort, ifName |-> config'.ifName,
                     ifHost |-> config'.ifHost, keepAlive |-> config'.keepAlive,
                     authority |-> config'.authority, certificate |-> config'.certificate,
                     type |-> config'.type, connectTimeout |-> config'.connectTimeout,
                     tickTimeout |-> config'.tickTimeout, urlPath |-> config'.urlPath]
      BY <1>2, <2>1 DEF Config
    <2>4. config' \in Config
      BY <2>1, <2>2, <2>3 DEF Config
    <2> QED BY <2>2, <2>4
  <1>4. Own' = Own
    BY <1>3 DEF Own
  <1>5. /\ calls' \in Seq(Call)
        /\ peer' = IF call.set = "real" THEN call ELSE peer
        /\ from' = IF call.set = "interface" THEN call ELSE from
        /\ delay' = IF call.set = "keepAlive" THEN call ELSE delay
        /\ tls' = IF call.set \in {"authority", "certificate"} THEN call ELSE tls
        /\ connect' = IF call.set = "connectTimeout" THEN call ELSE connect
        /\ tick' = IF call.set = "tickTimeout" THEN call ELSE tick
        /\ path' = IF call.set = "urlPath" THEN call ELSE path
    <2> HIDE DEF call
    <2> QED BY <1>1, <1>2, <1>4, CallMade DEF IInv, Typed
  <1>6. Typed'
    BY <1>2, <1>3, <1>5 DEF IInv, Typed, Secure
  <1>7. ConfigAsSet'
    BY <1>3, <1>4, <1>5 DEF IInv, ConfigAsSet, None
  <1> QED BY <1>2, <1>4, <1>6, <1>7, CalledKeeps

\* So is the path.
LEMMA UrlPathCalled == ASSUME IInv, NEW p \in Path, with_url_path(p) PROVE IInv'
  <1> DEFINE call == [set |-> "urlPath", to |-> p]
  <1>1. call \in Call
    BY DEF Call
  <1>2. /\ call.set \in Setters[class] /\ calls' = Append(calls, call)
        /\ UNCHANGED <<class, texts, madeOf, options>>
        /\ config' = [config EXCEPT !.urlPath = p]
    BY DEF with_url_path, Calls
  <1>3. /\ config' \in Config
        /\ config'.urlPath = p
        /\ config'.host = config.host /\ config'.port = config.port
        /\ config'.realHost = config.realHost /\ config'.realPort = config.realPort
        /\ config'.ifName = config.ifName /\ config'.ifHost = config.ifHost
        /\ config'.keepAlive = config.keepAlive /\ config'.authority = config.authority
        /\ config'.certificate = config.certificate /\ config'.type = config.type
        /\ config'.connectTimeout = config.connectTimeout
        /\ config'.tickTimeout = config.tickTimeout
    <2>1. config \in Config
      BY DEF IInv, Typed
    <2>2. /\ config'.urlPath = p
          /\ config'.host = config.host /\ config'.port = config.port
          /\ config'.realHost = config.realHost /\ config'.realPort = config.realPort
          /\ config'.ifName = config.ifName /\ config'.ifHost = config.ifHost
          /\ config'.keepAlive = config.keepAlive /\ config'.authority = config.authority
          /\ config'.certificate = config.certificate /\ config'.type = config.type
          /\ config'.connectTimeout = config.connectTimeout
          /\ config'.tickTimeout = config.tickTimeout
      BY <1>2, <2>1 DEF Config
    <2>3. config' = [host |-> config'.host, port |-> config'.port, realHost |-> config'.realHost,
                     realPort |-> config'.realPort, ifName |-> config'.ifName,
                     ifHost |-> config'.ifHost, keepAlive |-> config'.keepAlive,
                     authority |-> config'.authority, certificate |-> config'.certificate,
                     type |-> config'.type, connectTimeout |-> config'.connectTimeout,
                     tickTimeout |-> config'.tickTimeout, urlPath |-> config'.urlPath]
      BY <1>2, <2>1 DEF Config
    <2>4. config' \in Config
      BY <2>1, <2>2, <2>3 DEF Config
    <2> QED BY <2>2, <2>4
  <1>4. Own' = Own
    BY <1>3 DEF Own
  <1>5. /\ calls' \in Seq(Call)
        /\ peer' = IF call.set = "real" THEN call ELSE peer
        /\ from' = IF call.set = "interface" THEN call ELSE from
        /\ delay' = IF call.set = "keepAlive" THEN call ELSE delay
        /\ tls' = IF call.set \in {"authority", "certificate"} THEN call ELSE tls
        /\ connect' = IF call.set = "connectTimeout" THEN call ELSE connect
        /\ tick' = IF call.set = "tickTimeout" THEN call ELSE tick
        /\ path' = IF call.set = "urlPath" THEN call ELSE path
    <2> HIDE DEF call
    <2> QED BY <1>1, <1>2, <1>4, CallMade DEF IInv, Typed
  <1>6. Typed'
    BY <1>2, <1>3, <1>5 DEF IInv, Typed, Secure
  <1>7. ConfigAsSet'
    BY <1>3, <1>4, <1>5 DEF IInv, ConfigAsSet, None
  <1> QED BY <1>2, <1>4, <1>6, <1>7, CalledKeeps

\* Tokens are not separators.
LEMMA Tokens ==
    /\ ":" \in Token /\ "://" \in Token /\ {"if", "host", "ifhost", "!"} \subseteq Token
    /\ Host \subseteq Token /\ Port \subseteq Token /\ "net0" \in Token
    /\ DOMAIN Setters \subseteq Token
    /\ \A t \in Host \cup Port : t # ":" /\ t # "!" /\ t # None
    /\ None # ":" /\ None # "!" /\ "net0" # "!"
  BY TokenAssumption DEF Token, None

\* A text of tokens without a colon.
Plain(text) == text \in Seq(Token) /\ \A i \in 1 .. Len(text) : text[i] # ":"

\* A field in front of others is read back, and the others are left.
LEMMA FieldRead ==
    ASSUME NEW a, NEW rest, Plain(a), rest \in Seq(Token)
    PROVE  /\ Field(a, rest) \in Seq(Token)
           /\ Upto(Field(a, rest), ":") = a /\ Behind(Field(a, rest), ":") = rest
  <1>1. ":" \in Token /\ a \in Seq(Token) /\ \A i \in 1 .. Len(a) : a[i] # ":"
    BY Tokens DEF Plain
  <1> DEFINE S == Token
  <1>2. ":" \in S /\ a \in Seq(S) /\ rest \in Seq(S) /\ \A i \in 1 .. Len(a) : a[i] # ":"
    BY <1>1
  <1> HIDE DEF S
  <1>3. /\ a \o <<":">> \o rest \in Seq(S)
        /\ Upto(a \o <<":">> \o rest, ":") = a /\ Behind(a \o <<":">> \o rest, ":") = rest
    BY <1>2, Split
  <1> QED BY <1>3 DEF Field, S

\* One token or none is such a text.
LEMMA PlainText ==
    ASSUME NEW x \in Token \cup {None}, x # ":"
    PROVE  Plain(Text(x))
  <1>1. Text(x) \in Seq(Token) /\ \A i \in 1 .. Len(Text(x)) : Text(x)[i] # ":"
    BY Tokens, OneField
  <1> QED BY <1>1 DEF Plain

\* The four fields of CURLOPT_CONNECT_TO are read back, the empty ones too.
LEMMA ConnectToRead ==
    ASSUME NEW a, NEW b, NEW r, NEW q, Plain(a), Plain(b), Plain(r), Plain(q),
           NEW to, to = Field(a, Field(b, Field(r, q)))
    PROVE  /\ Upto(to, ":") = a /\ Upto(Behind(to, ":"), ":") = b
           /\ Upto(Behind(Behind(to, ":"), ":"), ":") = r
           /\ Upto(Behind(Behind(Behind(to, ":"), ":"), ":"), ":") = q
  <1> DEFINE hosts == Field(r, q)
             ports == Field(b, hosts)
  <1>1. q \in Seq(Token) /\ Upto(q, ":") = q
    BY Whole DEF Plain
  <1>2. hosts \in Seq(Token) /\ Upto(hosts, ":") = r /\ Behind(hosts, ":") = q
    BY <1>1, FieldRead
  <1>3. ports \in Seq(Token) /\ Upto(ports, ":") = b /\ Behind(ports, ":") = hosts
    BY <1>2, FieldRead
  <1>4. to = Field(a, ports) /\ Upto(to, ":") = a /\ Behind(to, ":") = ports
    BY <1>3, FieldRead
  <1> QED BY <1>1, <1>2, <1>3, <1>4

\* The texts that curl_config makes are read as the configuration says.
LEMMA AddressRead ==
    ASSUME IInv
    PROVE  ConnectsTo([url |-> UrlText, connectTo |-> ConnectToText, interface |-> InterfaceText]) =
              [host |-> <<peer.host>>,
               port |-> Text(IF peer.port = None THEN config.port ELSE peer.port)]
  <1> DEFINE url == UrlText
             to == ConnectToText
             own == SubSeq(url, 3, Len(url))
             address == [url |-> url, connectTo |-> to, interface |-> InterfaceText]
  <1>1. /\ config.host \in Host /\ config.port \in Port \cup {None}
        /\ config.realHost \in Host \cup {None} /\ config.realPort \in Port \cup {None}
        /\ class \in DOMAIN Setters
    BY DEF IInv, Typed, Config
  <1>2. /\ config.host \in Token /\ config.port \in Token \cup {None}
        /\ config.realHost \in Token \cup {None} /\ config.realPort \in Token \cup {None}
        /\ class \in Token
        /\ config.host # ":" /\ config.port # ":" /\ config.realHost # ":" /\ config.realPort # ":"
    BY <1>1, Tokens
  <1>3. Upto(own, ":") = <<config.host>> /\ Upto(Behind(own, ":"), ":") = Text(config.port)
    BY <1>2, Tokens, UrlRead DEF UrlText
  <1>4. address.url = url /\ address.connectTo = to
    OBVIOUS
  <1>5. CASE config.realHost = None
    <2>1. to = <<>>
      BY <1>5 DEF ConnectToText
    <2>2. Upto(to, ":") = <<>>
      <3>1. <<>> \in Seq(Token) /\ \A i \in 1 .. Len(<<>>) : <<>>[i] # ":"
        BY EmptySeq
      <3> QED BY <2>1, <3>1, Whole
    <2>3. <<>> # <<config.host>>
      OBVIOUS
    <2>4. peer.host = config.host /\ peer.port = config.port
      BY <1>5 DEF IInv, ConfigAsSet, Own
    <2> HIDE DEF url, to, address
    <2>5. ConnectsTo(address) = [host |-> <<config.host>>, port |-> Text(config.port)]
      BY <1>3, <1>4, <2>2, <2>3 DEF ConnectsTo
    <2> QED BY <2>4, <2>5 DEF url, to, address
  <1>6. CASE config.realHost # None
    <2> DEFINE ports == Behind(to, ":")
               hosts == Behind(ports, ":")
               newPort == Upto(Behind(hosts, ":"), ":")
    <2>1. Secure
      BY <1>6 DEF IInv, Typed
    <2>2. /\ config.realHost \in Token
          /\ to = Field(<<config.host>>, Field(Text(config.port),
                     Field(<<config.realHost>>, Text(config.realPort))))
      BY <1>2, <1>6, <2>1 DEF ConnectToText
    <2>3. /\ Upto(to, ":") = <<config.host>> /\ Upto(ports, ":") = Text(config.port)
          /\ Upto(hosts, ":") = <<config.realHost>> /\ newPort = Text(config.realPort)
      <3> HIDE DEF to
      <3>1. Text(config.host) = <<config.host>> /\ Text(config.realHost) = <<config.realHost>>
        BY <1>1, <1>6, Tokens DEF Text
      <3>2. /\ Plain(Text(config.host)) /\ Plain(Text(config.port))
            /\ Plain(Text(config.realHost)) /\ Plain(Text(config.realPort))
        BY <1>2, PlainText
      <3>3. to = Field(Text(config.host), Field(Text(config.port),
                    Field(Text(config.realHost), Text(config.realPort))))
        BY <2>2, <3>1
      <3> QED BY <3>1, <3>2, <3>3, ConnectToRead
    <2>4. <<config.realHost>> # <<>>
      OBVIOUS
    <2>5. Text(config.realPort) = <<>> <=> config.realPort = None
      BY <1>2, Tokens, OneField
    <2>6. peer.host = config.realHost /\ peer.port = config.realPort
      BY <1>6 DEF IInv, ConfigAsSet
    <2> HIDE DEF url, to, address
    <2>7. ConnectsTo(address) = [host |-> <<config.realHost>>,
                                 port |-> IF Text(config.realPort) = <<>> THEN Text(config.port)
                                          ELSE Text(config.realPort)]
      BY <1>3, <1>4, <2>3, <2>4 DEF ConnectsTo
    <2> QED BY <2>5, <2>6, <2>7 DEF url, to, address
  <1> QED BY <1>5, <1>6

\* A client is constructed with texts that say what was set.
LEMMA Constructs == ASSUME IInv, Construct PROVE IInv'
  <1>1. /\ texts = none /\ options = none /\ madeOf' = calls
        /\ UNCHANGED <<class, config, calls, options>>
    BY DEF Construct, IInv, OptionsOfTexts
  <1>2. /\ texts'.config = curl_config
        /\ texts'.connectTimeout = config.connectTimeout
        /\ texts'.tickTimeout = config.tickTimeout
        /\ texts'.path = UrlPath(config.urlPath)
    BY DEF Construct
  <1>3. /\ curl_config.url = UrlText /\ curl_config.connectTo = ConnectToText
        /\ curl_config.interface = InterfaceText /\ curl_config.keepAlive = config.keepAlive
        /\ curl_config.authority = config.authority
        /\ curl_config.certificate = config.certificate /\ curl_config.type = config.type
    BY DEF curl_config
  <1>4. BindsTo(InterfaceText) = [name |-> Text(from.name), host |-> Text(from.host)]
    <2>1. config.ifName \in Token \cup {None} /\ config.ifHost \in Token \cup {None}
      BY Tokens DEF IInv, Typed, Config
    <2>2. config.ifName # "!" /\ config.ifHost # "!"
      BY Tokens DEF IInv, Typed, Config
    <2>3. BindsTo(InterfaceText) = [name |-> Text(config.ifName), host |-> Text(config.ifHost)]
      <3> DEFINE name == config.ifName
                 host == config.ifHost
      <3>1. InterfaceText =
               CASE name # None /\ host # None -> <<"ifhost", "!", name, "!", host>>
                 [] name # None /\ host = None -> <<"if", "!", name>>
                 [] name = None /\ host # None -> <<"host", "!", host>>
                 [] OTHER -> <<>>
        BY Zenon DEF InterfaceText
      <3>2. /\ name \in Token \cup {None} /\ host \in Token \cup {None} /\ name # "!" /\ host # "!"
            /\ {"if", "host", "ifhost", "!"} \subseteq Token
        BY <2>1, <2>2, Tokens
      <3> HIDE DEF name, host
      <3>3. BindsTo(InterfaceText) = [name |-> Text(name), host |-> Text(host)]
        BY <3>1, <3>2, InterfaceRead
      <3> QED BY <3>3 DEF name, host
    <2>4. from.name = config.ifName /\ from.host = config.ifHost
      BY DEF IInv, ConfigAsSet
    <2> QED BY <2>3, <2>4
  <1>5. /\ UrlPath(config.urlPath) \in {path.to, <<"/">> \o path.to}
        /\ Head(UrlPath(config.urlPath)) = "/"
    <2> DEFINE S == STRING \cup {"/"}
    <2>1. config.urlPath \in Seq(S) /\ path.to = config.urlPath
      <3>1. config.urlPath \in Path \cup {<<>>}
        BY DEF IInv, Typed, Config
      <3>2. <<>> \in Seq(S)
        BY EmptySeq
      <3>3. path.to = config.urlPath
        BY DEF IInv, ConfigAsSet
      <3>4. Path \subseteq Seq(S)
        BY PathAssumption
      <3> QED BY <3>1, <3>2, <3>3, <3>4
    <2>2. CASE config.urlPath = <<>> \/ Head(config.urlPath) # "/"
      <3> DEFINE u == <<"/">> \o config.urlPath
      <3>1. <<"/">> \in Seq(S) /\ Len(<<"/">>) = 1 /\ <<"/">>[1] = "/"
        <4>1. "/" \in S
          OBVIOUS
        <4> QED BY <4>1, Unit
      <3>2. Len(config.urlPath) \in Nat
        BY <2>1, LenProperties
      <3>3. /\ u \in Seq(S) /\ Len(u) = Len(<<"/">>) + Len(config.urlPath)
            /\ \A i \in 1 .. Len(<<"/">>) + Len(config.urlPath) :
                  u[i] = IF i <= Len(<<"/">>) THEN <<"/">>[i]
                         ELSE config.urlPath[i - Len(<<"/">>)]
        BY <2>1, <3>1, ConcatProperties
      <3>4. UrlPath(config.urlPath) = u
        BY <2>2 DEF UrlPath
      <3> HIDE DEF u
      <3>5. u[1] = "/" /\ u # <<>>
        BY <3>1, <3>2, <3>3
      <3>6. Head(u) = "/"
        BY <3>3, <3>5
      <3> QED BY <2>1, <3>4, <3>6 DEF u
    <2>3. CASE config.urlPath # <<>> /\ Head(config.urlPath) = "/"
      BY <2>1, <2>3 DEF UrlPath
    <2> QED BY <2>2, <2>3
  <1>6. TextsAsSet'
    <2>1. /\ peer' = LastCall(madeOf', {"real"}, Own') /\ peer' = peer
          /\ from' = from /\ delay' = delay /\ tls' = tls /\ connect' = connect
          /\ tick' = tick /\ path' = path
      BY <1>1 DEF peer, from, delay, tls, connect, tick, path, Own
    <2>2. /\ peer = LastCall(madeOf', {"real"}, Own')
          /\ from = LastCall(madeOf', {"interface"}, [name |-> None, host |-> None])
          /\ delay = LastCall(madeOf', {"keepAlive"}, [delay |-> 60])
          /\ tls = LastCall(madeOf', {"authority", "certificate"}, none)
          /\ connect = LastCall(madeOf', {"connectTimeout"}, [to |-> 1000])
          /\ tick = LastCall(madeOf', {"tickTimeout"}, [to |-> 0])
          /\ path = LastCall(madeOf', {"urlPath"}, [to |-> <<>>])
      BY <1>1 DEF peer, from, delay, tls, connect, tick, path, Own
    <2>3. /\ config.keepAlive = delay.delay
          /\ config.authority = IF tls.set = "authority" THEN tls.info ELSE None
          /\ config.certificate = IF tls.set = "certificate" THEN tls.certificate ELSE None
          /\ tls.set = "certificate" => /\ tls.type = config.type /\ tls.type \in {"der", "p12", "pem"}
                                        /\ tls.certificate # None
          /\ config.connectTimeout = connect.to /\ config.tickTimeout = tick.to
      BY DEF IInv, ConfigAsSet
    <2>4. UrlText = <<class, "://", config.host>> \o PortText(config.port)
      BY DEF UrlText
    <2> QED BY <1>1, <1>2, <1>3, <1>4, <1>5, <2>2, <2>3, <2>4, AddressRead DEF TextsAsSet
  <1>7. Typed' /\ ConfigAsSet'
    BY <1>1 DEF IInv, Typed, ConfigAsSet, Secure, Own, peer, from, delay, tls, connect, tick, path
  <1> QED BY <1>1, <1>6, <1>7 DEF IInv, OptionsOfTexts

\* A handle is given the options of the texts, or given up.
LEMMA Registers == ASSUME IInv, register_handle \/ unregister_handle PROVE IInv'
  <1>1. UNCHANGED <<class, config, calls, texts, madeOf>>
    BY DEF register_handle, unregister_handle
  <1>2. Typed' /\ ConfigAsSet'
    BY <1>1 DEF IInv, Typed, ConfigAsSet, Secure, Own, peer, from, delay, tls, connect, tick, path
  <1>3. (texts # none => TextsAsSet)'
    BY <1>1 DEF IInv, TextsAsSet, Own
  <1>4. OptionsOfTexts'
    BY <1>1 DEF OptionsOfTexts, register_handle, unregister_handle, setup_address, setup_tls,
                SessionOptions, Session
  <1> QED BY <1>2, <1>3, <1>4 DEF IInv

\* So does every step.
LEMMA NextInv == IInv /\ [Next]_vars => IInv'
  <1> SUFFICES ASSUME IInv, [Next]_vars PROVE IInv'
    OBVIOUS
  <1>1. CASE \E h \in Host, p \in Port \cup {None} : with_peer_real_address(h, p)
    BY <1>1, RealCalled
  <1>2. CASE \E n \in {None, "net0"}, h \in {None} \cup Host : with_interface(n, h)
    BY <1>2, InterfaceCalled
  <1>3. CASE \E d \in {1, 2} : with_keep_alive_delay(d)
    BY <1>3, KeepAliveCalled
  <1>4. CASE with_certificate_authority("authority")
    BY <1>4, AuthorityCalled
  <1>5. CASE \E type \in {"der", "p12", "pem"} : with_ssl_certificate("certificate", type)
    BY <1>5, CertificateCalled
  <1>6. CASE with_connect_timeout(1) \/ with_tick_timeout(1)
    BY <1>6, ConnectTimeoutCalled, TickTimeoutCalled
  <1>7. CASE \E p \in Path : with_url_path(p)
    BY <1>7, UrlPathCalled
  <1>8. CASE Construct
    BY <1>8, Constructs
  <1>9. CASE register_handle \/ unregister_handle
    BY <1>9, Registers
  <1>10. CASE UNCHANGED vars
    <2>1. Typed' /\ ConfigAsSet'
      BY <1>10 DEF vars, IInv, Typed, ConfigAsSet, Secure, Own, peer, from, delay, tls, connect,
                   tick, path
    <2>2. (texts # none => TextsAsSet)'
      BY <1>10 DEF vars, IInv, TextsAsSet, Own
    <2>3. OptionsOfTexts'
      BY <1>10 DEF vars, IInv, OptionsOfTexts, setup_address, setup_tls, SessionOptions, Session
    <2> QED BY <2>1, <2>2, <2>3 DEF IInv
  <1> QED BY <1>1, <1>2, <1>3, <1>4, <1>5, <1>6, <1>7, <1>8, <1>9, <1>10 DEF Next

-----------------------------------------------------------------------------
\* The configuration, the texts made of it and the options of a handle say what
\* was set last.
THEOREM Inductive == Spec => []IInv
  BY InitInv, NextInv, PTL DEF Spec

\* Whatever setters a user calls, in any order and any number, before and after
\* a client is constructed: curl is given what was set last before.
THEOREM AsSet == Spec => []OptionsAsSet
<1>1. IInv => OptionsAsSet
  <2> SUFFICES ASSUME IInv, options # none PROVE OptionsAsSet
    BY DEF OptionsAsSet
  <2>1. /\ TextsAsSet
        /\ options = [address |-> setup_address, keepAlive |-> texts.config.keepAlive,
                      tls |-> setup_tls, session |-> SessionOptions]
    BY DEF IInv, OptionsOfTexts
  <2>2. /\ options.address = [url |-> texts.config.url, connectTo |-> texts.config.connectTo,
                              interface |-> texts.config.interface]
        /\ options.keepAlive = texts.config.keepAlive
        /\ options.tls = setup_tls /\ options.session = SessionOptions
    BY <2>1 DEF setup_address
  <2>3. /\ options.address.url = texts.config.url
        /\ options.address.interface = texts.config.interface
    BY <2>2
  <2> DEFINE t == LastCall(madeOf, {"authority", "certificate"}, none)
  <2>4. setup_tls = [authority   |-> IF t.set = "authority" THEN t.info ELSE None,
                     certificate |-> IF t.set = "certificate" THEN t.certificate ELSE None,
                     type        |-> IF t.set # "certificate" THEN None
                                     ELSE CASE t.type = "der" -> "DER"
                                            [] t.type = "p12" -> "P12"
                                            [] t.type = "pem" -> "PEM"]
    <3>1. /\ texts.config.authority = IF t.set = "authority" THEN t.info ELSE None
          /\ texts.config.certificate = IF t.set = "certificate" THEN t.certificate ELSE None
          /\ t.set = "certificate" => /\ t.type = texts.config.type /\ t.type \in {"der", "p12", "pem"}
                                      /\ t.certificate # None
      BY <2>1 DEF TextsAsSet
    <3> HIDE DEF t
    <3>2. (IF texts.config.certificate = None THEN None
           ELSE convert_ssl_certificate_type[texts.config.type]) =
              IF t.set # "certificate" THEN None
              ELSE CASE t.type = "der" -> "DER" [] t.type = "p12" -> "P12" [] t.type = "pem" -> "PEM"
      BY <3>1 DEF convert_ssl_certificate_type
    <3> QED BY <3>1, <3>2 DEF setup_tls
  <2>5. Session => /\ options.session.target = texts.path
                   /\ options.session.timeout = texts.connectTimeout
    BY <2>2 DEF SessionOptions
  <2> HIDE DEF t
  <2>6. ConnectsTo(options.address) =
          LET p == LastCall(madeOf, {"real"}, Own)
          IN  [host |-> <<p.host>>, port |-> Text(IF p.port = None THEN config.port ELSE p.port)]
    <3> DEFINE a == [url |-> texts.config.url, connectTo |-> texts.config.connectTo,
                     interface |-> texts.config.interface]
               p == LastCall(madeOf, {"real"}, Own)
    <3>1. ConnectsTo(a) =
            [host |-> <<p.host>>, port |-> Text(IF p.port = None THEN config.port ELSE p.port)]
      BY <2>1, Zenon DEF TextsAsSet
    <3>2. options.address = a
      BY <2>2
    <3> HIDE DEF a, p
    <3>3. ConnectsTo(options.address) =
            [host |-> <<p.host>>, port |-> Text(IF p.port = None THEN config.port ELSE p.port)]
      BY <3>1, <3>2
    <3> QED BY <3>3 DEF p
  <2> QED BY <2>1, <2>2, <2>3, <2>4, <2>5, <2>6 DEF OptionsAsSet, TextsAsSet, Own, t
<1> QED BY <1>1, Inductive, PTL
=============================================================================
