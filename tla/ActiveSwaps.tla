----------------------------- MODULE ActiveSwaps -----------------------------
(***************************************************************************)
(* SwapOffersViewModel's account of the atomic swaps that are under way:   *)
(* the table of swaps, the map m_activeTx, the counter kept for each coin  *)
(* and their number, all maintained by onTransactionsDataModelChanged.     *)
(***************************************************************************)
EXTENDS TxFeed

CONSTANTS
    Coins,      \* the coins a swap can be against
    Swaps,      \* the transactions that are atomic swaps
    CoinOf      \* the coin of each swap

SwapConstants ==
    /\ Swaps \subseteq TxIDs /\ IsFiniteSet(Swaps)
    /\ CoinOf \in [Swaps -> Coins]

VARIABLES
    swapList,       \* m_transactionsList: the status shown for each swap
    activeTx,       \* the keys of m_activeTx
    counters,       \* m_activeTxCounters
    activeTxCount   \* m_activeTxCount

swapVars == <<swapList, activeTx, counters, activeTxCount>>

Count(ids, c) == Cardinality({id \in ids : CoinOf[id] = c})

SwapInit ==
    /\ FeedInit
    /\ swapList = [id \in Swaps |-> "absent"]
    /\ activeTx = {}
    /\ counters = [c \in Coins |-> 0]
    /\ activeTxCount = 0

\* Rows of the table are set to what the event says of them.
SetRows(ids, t) == [id \in Swaps |-> IF id \in ids THEN t[id] ELSE swapList[id]]

\* Mutant: emplace's result is not looked at.
InsertActive_Unchecked(ids) == [c \in Coins |-> counters[c] + Count(ids, c)]

\* insertActive: a counter moves only with the map.
InsertActive(ids) == [c \in Coins |-> counters[c] + Count(ids \ activeTx, c)]

\* eraseActive, the same for what leaves the map.
EraseActive(ids) == [c \in Coins |-> counters[c] - Count(ids \cap activeTx, c)]

\* Mutant: the counters are not cleared.
OnReset_KeepsCounters(swaps, active, t) ==
    /\ swapList' = [id \in Swaps |-> IF id \in swaps THEN t[id] ELSE "absent"]
    /\ activeTx' = active
    /\ counters' = [c \in Coins |-> counters[c] + Count(active, c)]

OnReset(swaps, active, t) ==
    /\ swapList' = [id \in Swaps |-> IF id \in swaps THEN t[id] ELSE "absent"]
    /\ activeTx' = active
    /\ counters' = [c \in Coins |-> Count(active, c)]

\* Mutant: only the map is looked at.
OnRemoved_RowStays(swaps) ==
    /\ UNCHANGED swapList
    /\ activeTx' = activeTx \ swaps
    /\ counters' = EraseActive(swaps)

OnRemoved(swaps) ==
    /\ swapList' = [id \in Swaps |-> IF id \in swaps THEN "absent" ELSE swapList[id]]
    /\ activeTx' = activeTx \ swaps
    /\ counters' = EraseActive(swaps)

OnAdded(swaps, active, t) ==
    /\ swapList' = SetRows(swaps, t)
    /\ activeTx' = activeTx \cup active
    /\ counters' = InsertActive(active)

\* Mutant: inactive transactions stay in the map.
OnUpdated_NoErase(swaps, active, t) ==
    /\ swapList' = SetRows(swaps, t)
    /\ activeTx' = activeTx \cup active
    /\ counters' = InsertActive(active)

OnUpdated(swaps, active, t) ==
    /\ swapList' = SetRows(swaps, t)
    /\ activeTx' = (activeTx \cup active) \ (swaps \ active)
    /\ counters' = [c \in Coins |->
          InsertActive(active)[c] - Count((swaps \ active) \cap activeTx, c)]

\* onTransactionsDataModelChanged.  An event without swaps is ignored, a Reset
\* too.
OnTransactionsDataModelChanged(e) ==
    LET swaps  == e.ids \cap Swaps
        active == {id \in swaps : e.txs[id] = "active"}
    IN IF swaps = {}
       THEN UNCHANGED swapVars
       ELSE /\ \/ e.action = "Reset"   /\ OnReset(swaps, active, e.txs)
               \/ e.action = "Removed" /\ OnRemoved(swaps)
               \/ e.action = "Added"   /\ OnAdded(swaps, active, e.txs)
               \/ e.action = "Updated" /\ OnUpdated(swaps, active, e.txs)
            /\ activeTxCount' = Cardinality(activeTx')

SwapDeliver ==
    /\ TakeNotification
    /\ OnTransactionsDataModelChanged(Head(queue))
    /\ UNCHANGED asked

SwapNext ==
    \/ WalletStep /\ UNCHANGED swapVars
    \/ SwapDeliver

SwapSpec == SwapInit /\ [][SwapNext]_<<feedVars, swapVars>>

\* hasActiveTx: the answer found by scanning the rows of the table.
HasActiveTx(c) == \E id \in Swaps : swapList[id] = "active" /\ CoinOf[id] = c

-----------------------------------------------------------------------------
SwapTypeOK ==
    /\ swapList \in [Swaps -> Statuses]
    /\ activeTx \in SUBSET Swaps
    /\ counters \in [Coins -> Nat]
    /\ activeTxCount \in Nat

\* Each counter is the number of active swaps of its coin, whatever events came
\* before the first Reset: insertActive and eraseActive never count twice.
CountersMatch ==
    /\ \A c \in Coins : counters[c] = Count(activeTx, c)
    /\ activeTxCount = Cardinality(activeTx)

\* The two ways the settings page can ask whether a coin has swaps under way
\* agree: the counter (hasBtcTx, ...) and the scan of the table (hasActiveTx).
IndicatorsAgree == \A c \in Coins : HasActiveTx(c) <=> counters[c] > 0

\* No swap is held active that the wallet had not reported so, and once a Reset
\* was delivered none is missing, although a Reset without swaps is ignored.
ActiveAsSeen ==
    LET inWallet == {id \in Swaps : seen[id] = "active"}
    IN  activeTx \subseteq inWallet /\ (ready => activeTx = inWallet)

\* The table of swaps keeps every swap, those that ended too: it never shows one
\* in a status other than the last reported, and once a Reset was delivered it has
\* exactly the wallet's swaps.  A Reset without swaps clears no row: there is none
\* then, as what is gone was taken out by its own Removed event.
TableAsSeen ==
    \A id \in Swaps :
        swapList[id] # seen[id] => swapList[id] = "absent" /\ ~ready
=============================================================================
