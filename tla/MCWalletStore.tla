---------------------------- MODULE MCWalletStore ----------------------------
(***************************************************************************)
(* WalletStore for TLC.  Nothing in it tells one shell, wallet name,       *)
(* password or setting from another.                                       *)
(***************************************************************************)
EXTENDS WalletStore, TLC

Symmetry == Permutations(Shells) \cup Permutations(Names)
              \cup Permutations(Passwords) \cup Permutations(Keys)
=============================================================================
