----------------------------- MODULE AppleKeysMC -----------------------------
(* An instance of AppleKeys for TLC. *)
EXTENDS AppleKeys, TLC

ValidationSymmetry == Permutations(Validations)
=============================================================================
