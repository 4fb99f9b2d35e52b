---------------------------- MODULE MCApiCalls ----------------------------
(***************************************************************************)
(* ApiCalls for TLC: all methods, and every status that the generated      *)
(* client declares a body for.                                             *)
(***************************************************************************)
EXTENDS ApiCalls

MCRefusals == {400, 401, 404, 409, 500}
=============================================================================
