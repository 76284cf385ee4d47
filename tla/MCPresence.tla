----------------------------- MODULE MCPresence -----------------------------
(***************************************************************************)
(* Instances of Presence for TLC.                                          *)
(***************************************************************************)
EXTENDS Presence, TLC

(* Users and uuids are only compared with each other; the runs that use    *)
(* this check invariants only.                                             *)
Symmetry == Permutations(Users) \cup Permutations(Sessions)
=============================================================================
