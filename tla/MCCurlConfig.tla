---------------------------- MODULE MCCurlConfig ----------------------------
(* CurlConfig for TLC, with a path that begins with a slash and one without. *)
EXTENDS CurlConfig
MCPath == {<<"path">>, <<"/", "path">>}
=============================================================================
