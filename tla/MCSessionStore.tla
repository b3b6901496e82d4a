---------------------------- MODULE MCSessionStore ----------------------------
(***************************************************************************)
(* SessionStore for TLC: the Nemivers that share the database are alike.   *)
(***************************************************************************)
EXTENDS SessionStore, TLC

Alike == Permutations(Nemivers)
=============================================================================
