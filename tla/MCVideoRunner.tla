---------------------------- MODULE MCVideoRunner ----------------------------
(***************************************************************************)
(* VideoRunner with values for TLC: two values of each setting tell an old *)
(* one from a new one, and a mix of both from either.                      *)
(***************************************************************************)
EXTENDS VideoRunner

MCValues == {1, 2}
=============================================================================
