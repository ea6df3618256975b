------------------------------ MODULE HttpText ------------------------------
(***************************************************************************)
(* The texts a connection builds and takes apart (src/src/thread.cpp):     *)
(* header lines, the target of a request, the path of a WebSocket's URL.   *)
(* A text is a sequence of characters.                                     *)
(***************************************************************************)
EXTENDS Naturals, Sequences, SequencesExt

CONSTANT MaxText    \* bound: characters of a text the laws are checked with
ASSUME TextAssumption == MaxText \in Nat

Blank == {" ", "\t", "\r", "\n"}
IsBlank(c) == c \in Blank
IsNotBlank(c) == ~IsBlank(c)

\* Mutant of trim: the last character is left behind.
TrimShort(value) ==
    LET trimLeftIndex == SelectInSeq(value, IsNotBlank)
        trimRightIndex == SelectLastInSeq(value, IsNotBlank)
    IN  IF trimLeftIndex = 0 THEN <<>> ELSE SubSeq(value, trimLeftIndex, trimRightIndex - 1)

\* find_first_not_of and find_last_not_of, a position of 0 for npos.
trim(value) ==
    LET trimLeftIndex == SelectInSeq(value, IsNotBlank)
        trimRightIndex == SelectLastInSeq(value, IsNotBlank)
    IN  IF trimLeftIndex = 0 THEN <<>> ELSE SubSeq(value, trimLeftIndex, trimRightIndex)

IsColon(c) == c = ":"

\* A line without a colon, such as the status line, has no name.
split_http_header(header) ==
    LET delimiterIndex == SelectInSeq(header, IsColon)
    IN  IF delimiterIndex = 0 THEN [name |-> <<>>, value |-> <<>>]
        ELSE [name  |-> trim(SubSeq(header, 1, delimiterIndex - 1)),
              value |-> trim(SubSeq(header, delimiterIndex + 1, Len(header)))]

store_header(headerName, headerValue) == headerName \o <<":">> \o headerValue

\* A path begins with a slash, given or not.
UrlPath(path) == IF path = <<>> \/ Head(path) # "/" THEN <<"/">> \o path ELSE path

\* A query, if there is one, begins with a question mark, given or not.
QueryPart(query) == IF query = <<>> \/ Head(query) = "?" THEN query ELSE <<"?">> \o query

RequestTarget(path, query) == UrlPath(path) \o QueryPart(query)

-----------------------------------------------------------------------------
(* Laws.                                                                   *)

Texts == BoundedSeq({"a", " ", ":", "/", "?"}, MaxText)

\* trim takes away blanks at both ends, all of them and nothing else.
TrimsBlanks(t) ==
    \E l, r \in 0 .. Len(t) :
        LET ToBlank(s) == ToSet(s) \subseteq Blank
        IN  /\ l + r <= Len(t)
            /\ t = SubSeq(t, 1, l) \o trim(t) \o SubSeq(t, Len(t) - r + 1, Len(t))
            /\ ToBlank(SubSeq(t, 1, l)) /\ ToBlank(SubSeq(t, Len(t) - r + 1, Len(t)))
            /\ trim(t) # <<>> => ~IsBlank(Head(trim(t))) /\ ~IsBlank(Last(trim(t)))

\* A server that reads a target takes all up to the first question mark for the
\* path and the rest for the query.
IsQuestion(c) == c = "?"
TargetRead(target) ==
    LET mark == SelectInSeq(target, IsQuestion)
    IN  IF mark = 0 THEN [path |-> target, query |-> <<>>]
        ELSE [path |-> SubSeq(target, 1, mark - 1), query |-> SubSeq(target, mark, Len(target))]

\* A header stored by name and value is read back as that name and that value,
\* without blanks around them, colons in the value included; a path without a
\* question mark and any query are read back from the target of the request.
TextReadBack ==
    /\ \A t \in Texts : TrimsBlanks(t)
    /\ \A n, v \in Texts :
          ~Contains(n, ":") =>
              split_http_header(store_header(n, v)) = [name |-> trim(n), value |-> trim(v)]
    /\ \A p, q \in Texts :
          ~Contains(p, "?") =>
              LET read == TargetRead(RequestTarget(p, q))
              IN  /\ read.path \in {p, <<"/">> \o p} /\ Head(read.path) = "/"
                  /\ read.query \in {q, <<"?">> \o q} /\ (q = <<>> => read.query = <<>>)
=============================================================================
