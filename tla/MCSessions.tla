----------------------------- MODULE MCSessions -----------------------------
(***************************************************************************)
(* Sessions.tla for TLC.  No definition tells one user, or one message,    *)
(* from another, and the properties are invariants.                        *)
(***************************************************************************)
EXTENDS Sessions, TLC

UserSymmetry == Permutations(Users)
=============================================================================
