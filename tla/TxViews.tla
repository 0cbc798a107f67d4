------------------------------ MODULE TxViews ------------------------------
(***************************************************************************)
(* The views of the transactions together: the table of the wallet page,   *)
(* the swaps under way and the busy addresses of the address book.  They   *)
(* are connected to the same signal of WalletModel, so one notification    *)
(* runs the handler of each before the next one is taken, and an answer    *)
(* one of them asked for reaches all.                                      *)
(***************************************************************************)
EXTENDS TransactionList, ActiveSwaps, BusyAddresses

ASSUME ViewsAssumption == ListConstants /\ SwapConstants /\ AddressConstants

viewVars == <<list, swapVars, busy>>
vars == <<feedVars, viewVars>>

Init == ListInit /\ SwapInit /\ BusyInit

\* The slots connected to transactionsChanged run one after the other.
Deliver == ListDeliver /\ SwapDeliver /\ BusyDeliver

Next ==
    \/ WalletStep /\ UNCHANGED viewVars
    \/ Deliver

Spec == Init /\ [][Next]_vars

-----------------------------------------------------------------------------
TypeOK ==
    /\ FeedTypeOK
    /\ ready \in BOOLEAN
    /\ ListTypeOK
    /\ SwapTypeOK
    /\ BusyTypeOK
=============================================================================
