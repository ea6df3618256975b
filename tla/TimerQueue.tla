----------------------------- MODULE TimerQueue -----------------------------
(***************************************************************************)
(* What thread::timer_queue promises to the worker thread: entries in the  *)
(* order of their expiration times, first come first served among equals.  *)
(* Module TimerTaskList implements it with linked nodes.                   *)
(***************************************************************************)
EXTENDS Naturals, Sequences

CONSTANTS Connections, Times      \* times are natural numbers

Entry == [expirationTime : Times, connection : Connections]

VARIABLE entries    \* the first to expire first

TypeOK == entries \in Seq(Entry)

Init == entries = <<>>

\* Entries 1 .. k, then e, then the rest.
InsertBehind(k, e) ==
    entries' = SubSeq(entries, 1, k) \o <<e>> \o SubSeq(entries, k + 1, Len(entries))

\* The new entry goes before the first that expires strictly later.
push(t, c) ==
    \E k \in 0 .. Len(entries) :
        /\ \A i \in 1 .. k : entries[i].expirationTime <= t
        /\ k < Len(entries) => t < entries[k + 1].expirationTime
        /\ InsertBehind(k, [expirationTime |-> t, connection |-> c])

\* At time t the first entry is due.
pop(t) ==
    /\ entries # <<>>
    /\ Head(entries).expirationTime <= t
    /\ entries' = Tail(entries)

\* Only the first entry of a connection is taken out.
remove(c) ==
    \E k \in 1 .. Len(entries) :
        /\ entries[k].connection = c
        /\ \A i \in 1 .. k - 1 : entries[i].connection # c
        /\ entries' = SubSeq(entries, 1, k - 1) \o SubSeq(entries, k + 1, Len(entries))

Next == \/ \E t \in Times, c \in Connections : push(t, c)
        \/ \E t \in Times : pop(t)
        \/ \E c \in Connections : remove(c)

Spec == Init /\ [][Next]_entries

\* The entry that is due first is always at the head (assert of pop): no entry
\* waits behind one that expires later, however pushes and removes mix.
Sorted == \A i, j \in 1 .. Len(entries) :
              i < j => entries[i].expirationTime <= entries[j].expirationTime
=============================================================================
