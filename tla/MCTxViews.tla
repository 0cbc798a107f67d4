----------------------------- MODULE MCTxViews -----------------------------
(* Small instances of TxViews. *)
EXTENDS TxViews

CONSTANTS s1, s2, m1, m2, btc, ltc, shared, sole

\* Two swaps of one coin.
SwapCoins == [id \in {s1, s2} |-> btc]

\* One swap has an address of its own, the other transactions share one.
TxAddresses == [id \in TxIDs |-> IF id = s2 THEN sole ELSE shared]
=============================================================================
