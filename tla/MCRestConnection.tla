-------------------------- MODULE MCRestConnection --------------------------
(***************************************************************************)
(* RestConnection for TLC: a header whose value holds a colon and blanks,  *)
(* a header line and a status line of a response.  The laws of HttpText,   *)
(* which cover the paths and queries that have their first character, are  *)
(* checked before the run.                                                 *)
(***************************************************************************)
EXTENDS RestConnection
ASSUME TextLaws == TextReadBack
MCChar   == STRING
MCHeader == {[name |-> <<"n">>, value |-> <<"v">>],
             [name |-> <<"n">>, value |-> <<"v", ":", " ", "w", " ">>]}
MCLine   == {<<"status">>, <<"n", ":", " ", "v", "\r", "\n">>}
MCPath   == {<<"p">>}
MCQuery  == {<<"q">>}
=============================================================================
