------------------------------- MODULE MCIpc -------------------------------
(***************************************************************************)
(* Ipc for TLC.  Service names are compared only for equality (strcmp in  *)
(* the duplicate check and in the registry walks), so any permutation of   *)
(* the names maps behaviours to behaviours and the properties, which      *)
(* quantify over all names, are invariant under it.                        *)
(***************************************************************************)
EXTENDS Ipc, TLC

NameSymmetry == Permutations(Names)
=============================================================================
