---------------------------- MODULE MCWalletLedger ----------------------------
(***************************************************************************)
(* WalletLedger for TLC.                                                   *)
(***************************************************************************)
EXTENDS WalletLedger, TLC

\* Sessions and hold keys are interchangeable.
SessionSymmetry == Permutations(Sessions) \cup Permutations(Holds)
=============================================================================
