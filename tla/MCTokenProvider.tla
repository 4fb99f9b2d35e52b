-------------------------- MODULE MCTokenProvider --------------------------
(***************************************************************************)
(* TokenProvider for TLC.  Lifetimes at the margin, so that a token is     *)
(* never reused, at the default, and above what a Duration can hold; time  *)
(* enough for a token to come within the margin of its end, and a second   *)
(* one to replace it.                                                      *)
(***************************************************************************)
EXTENDS TokenProvider

CONSTANTS c1, c2    \* model values

MCCallers   == {c1, c2}
MCLifetimes == {1, 3, 5}
=============================================================================
