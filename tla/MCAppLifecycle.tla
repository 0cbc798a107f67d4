--------------------------- MODULE MCAppLifecycle ---------------------------
(* Small instances of AppLifecycle. *)
EXTENDS AppLifecycle, TLC

\* Wallets differ only by name.
WalletSymmetry == Permutations(Wallets)
=============================================================================
