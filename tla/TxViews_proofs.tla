--------------------------- MODULE TxViews_proofs ---------------------------
(***************************************************************************)
(* The views of the transactions, for any finite sets of transactions,     *)
(* swaps and coins.  The swap page: the counters match the map, the map    *)
(* and the table agree, and both hold what the wallet reported; they do so *)
(* among the other views too, as the composition implements the page's     *)
(* specification with the same state.  The list of busy addresses: it has  *)
(* no entry too many, and the entry of an address that one transaction     *)
(* uses alone.                                                             *)
(***************************************************************************)
EXTENDS TxViews, TxFeed_proofs, DataFacts

-----------------------------------------------------------------------------
(* The swap page *)

SwapTypes ==
    /\ swapList \in [Swaps -> Statuses]
    /\ activeTx \in SUBSET Swaps
    /\ counters \in [Coins -> Nat]
    /\ activeTxCount \in Nat
    /\ ready \in BOOLEAN

\* The map has the swaps the table shows as active.
RowsAgree == activeTx = {id \in Swaps : swapList[id] = "active"}

SwapInv ==
    FeedInv /\ SwapTypes /\ RowsAgree /\ CountersMatch /\ ActiveAsSeen /\ TableAsSeen

ActiveIn(t) == {id \in Swaps : t[id] = "active"}

-----------------------------------------------------------------------------
\* Counting the swaps of a coin.
LEMMA CountType ==
    ASSUME SwapConstants, NEW S \in SUBSET Swaps, NEW c \in Coins
    PROVE  /\ Count(S, c) \in Nat
           /\ Count(S, c) > 0 <=> \E id \in S : CoinOf[id] = c
<1> DEFINE T == {id \in S : CoinOf[id] = c}
<1>1. IsFiniteSet(T)
  BY FS_Subset DEF SwapConstants
<1>2. Cardinality(T) \in Nat /\ (Cardinality(T) = 0 <=> T = {})
  BY <1>1, FS_CardinalityType, FS_EmptySet
<1> QED
  BY <1>2 DEF Count

LEMMA CountUnion ==
    ASSUME SwapConstants, NEW S \in SUBSET Swaps, NEW A \in SUBSET Swaps, NEW c \in Coins
    PROVE  Count(S \cup A, c) = Count(S, c) + Count(A \ S, c)
<1> DEFINE T == {id \in S : CoinOf[id] = c}
           U == {id \in A \ S : CoinOf[id] = c}
<1>1. IsFiniteSet(T) /\ IsFiniteSet(U)
  BY FS_Subset DEF SwapConstants
<1>2. T \cap U = {} /\ T \cup U = {id \in S \cup A : CoinOf[id] = c}
  OBVIOUS
<1>3. Cardinality(T \cup U) = Cardinality(T) + Cardinality(U)
  <2>1. Cardinality(T \cup U) = Cardinality(T) + Cardinality(U) - Cardinality(T \cap U)
    BY <1>1, FS_Union
  <2>2. Cardinality(T \cap U) = 0
    BY <1>2, FS_EmptySet
  <2>3. Cardinality(T) \in Nat /\ Cardinality(U) \in Nat
    BY <1>1, FS_CardinalityType
  <2> HIDE DEF T, U
  <2> QED
    BY <2>1, <2>2, <2>3
<1> QED
  BY <1>2, <1>3 DEF Count

LEMMA CountDifference ==
    ASSUME SwapConstants, NEW S \in SUBSET Swaps, NEW A \in SUBSET Swaps, NEW c \in Coins
    PROVE  Count(S \ A, c) = Count(S, c) - Count(A \cap S, c)
<1>1. S = (S \ A) \cup (A \cap S) /\ (A \cap S) \ (S \ A) = A \cap S
  OBVIOUS
<1>2. Count(S, c) = Count(S \ A, c) + Count(A \cap S, c)
  <2>1. S \ A \in SUBSET Swaps /\ A \cap S \in SUBSET Swaps
    OBVIOUS
  <2>2. Count((S \ A) \cup (A \cap S), c)
          = Count(S \ A, c) + Count((A \cap S) \ (S \ A), c)
    BY <2>1, CountUnion
  <2> QED
    BY <1>1, <2>2
<1>3. Count(S \ A, c) \in Nat /\ Count(A \cap S, c) \in Nat
  BY CountType
<1> QED
  BY <1>2, <1>3

-----------------------------------------------------------------------------
LEMMA SwapInitial == ASSUME SwapConstants PROVE SwapInit => SwapInv
<1> SUFFICES ASSUME SwapInit PROVE SwapInv
  OBVIOUS
<1>1. FeedInv
  BY FeedInitial DEF SwapInit
<1>2. SwapTypes /\ RowsAgree /\ ActiveAsSeen /\ TableAsSeen
  BY DEF SwapInit, FeedInit, SwapTypes, RowsAgree, ActiveAsSeen, TableAsSeen, Statuses
<1>3. CountersMatch
  <2>1. \A c \in Coins : ~(Count({}, c) > 0) /\ Count({}, c) \in Nat
    BY CountType
  <2>2. \A c \in Coins : Count({}, c) = 0
    BY <2>1
  <2> QED
    BY <2>2, FS_EmptySet DEF SwapInit, CountersMatch
<1> QED
  BY <1>1, <1>2, <1>3 DEF SwapInv

\* The handler sets map, table and counters to what the event says: what it does
\* to the map, case by case.
LEMMA MapAfter ==
    ASSUME SwapConstants, SwapInv, NEW e \in Events, Follows(e, seen),
           OnTransactionsDataModelChanged(e)
    PROVE  /\ activeTx' \in SUBSET Swaps
           /\ swapList' \in [Swaps -> Statuses]
           /\ RowsAgree'
           /\ activeTx' \subseteq ActiveIn(e.txs)
           /\ ready \/ e.action = "Reset" => activeTx' = ActiveIn(e.txs)
<1> DEFINE swaps == e.ids \cap Swaps
           active == {id \in swaps : e.txs[id] = "active"}
<1>t. /\ e.action \in Actions /\ e.ids \subseteq TxIDs /\ e.txs \in [TxIDs -> Statuses]
      /\ Swaps \subseteq TxIDs
      /\ swapList \in [Swaps -> Statuses] /\ activeTx \in SUBSET Swaps
      /\ seen \in [TxIDs -> Statuses]
  BY DEF Events, SwapInv, SwapTypes, SwapConstants, FeedInv, FeedTypeOK
<1>i. /\ RowsAgree
      /\ activeTx \subseteq ActiveIn(seen)
      /\ ready => activeTx = ActiveIn(seen)
  BY DEF SwapInv, ActiveAsSeen, ActiveIn
<1>o. e.action # "Reset" => \A id \in Swaps \ e.ids : e.txs[id] = seen[id]
  BY <1>t DEF Follows
<1>1. CASE swaps = {}
  <2>1. UNCHANGED <<swapList, activeTx>>
    BY <1>1 DEF OnTransactionsDataModelChanged, swapVars
  <2>2. ActiveIn(e.txs) = ActiveIn(seen)
    <3>1. CASE e.action = "Reset"
      BY <3>1 DEF Follows
    <3>2. CASE e.action # "Reset"
      BY <1>1, <1>o, <3>2 DEF ActiveIn
    <3> QED
      BY <3>1, <3>2
  <2>3. e.action = "Reset" => ActiveIn(e.txs) = {}
    BY <1>t, <1>1 DEF Follows, ActiveIn, Present
  <2> QED
    BY <1>t, <1>i, <2>1, <2>2, <2>3 DEF RowsAgree
<1>2. CASE swaps # {} /\ e.action = "Reset"
  <2>1. OnReset(swaps, active, e.txs)
    BY <1>2 DEF OnTransactionsDataModelChanged
  <2>2. active = ActiveIn(e.txs)
    BY <1>t, <1>2 DEF Follows, ActiveIn, Present
  <2>3. swapList' = [id \in Swaps |-> IF id \in swaps THEN e.txs[id] ELSE "absent"]
    BY <2>1 DEF OnReset
  <2>4. activeTx' = active
    BY <2>1 DEF OnReset
  <2>5. swapList' \in [Swaps -> Statuses]
    BY <1>t, <2>3 DEF Statuses
  <2>6. RowsAgree'
    BY <1>t, <2>3, <2>4 DEF RowsAgree
  <2> QED
    BY <2>2, <2>4, <2>5, <2>6
<1>3. CASE swaps # {} /\ e.action = "Removed"
  <2>1. OnRemoved(swaps)
    BY <1>3 DEF OnTransactionsDataModelChanged
  <2>2. swapList' = [id \in Swaps |-> IF id \in swaps THEN "absent" ELSE swapList[id]]
    BY <2>1 DEF OnRemoved
  <2>3. activeTx' = activeTx \ swaps
    BY <2>1 DEF OnRemoved
  <2>4. ActiveIn(e.txs) = ActiveIn(seen) \ swaps
    BY <1>t, <1>o, <1>3 DEF Follows, ActiveIn
  <2>5. swapList' \in [Swaps -> Statuses]
    BY <1>t, <2>2 DEF Statuses
  <2>6. RowsAgree'
    BY <1>t, <1>i, <2>2, <2>3 DEF RowsAgree
  <2> QED
    BY <1>t, <1>i, <1>3, <2>3, <2>4, <2>5, <2>6
<1>4. CASE swaps # {} /\ e.action \in {"Added", "Updated"}
  <2>1. swapList' = SetRows(swaps, e.txs)
    BY <1>4 DEF OnTransactionsDataModelChanged, OnAdded, OnUpdated
  <2>2. e.action = "Added" => \A id \in swaps : id \notin activeTx
    BY <1>t, <1>i DEF Follows, ActiveIn
  <2>3. activeTx' = (activeTx \cup active) \ (swaps \ active)
    <3>1. CASE e.action = "Added"
      <4>1. activeTx' = activeTx \cup active
        BY <1>4, <3>1 DEF OnTransactionsDataModelChanged, OnAdded
      <4> QED
        BY <2>2, <3>1, <4>1
    <3>2. CASE e.action = "Updated"
      BY <1>4, <3>2 DEF OnTransactionsDataModelChanged, OnUpdated
    <3> QED
      BY <1>4, <3>1, <3>2
  <2>4. ActiveIn(e.txs) = (ActiveIn(seen) \cup active) \ (swaps \ active)
    BY <1>t, <1>o, <1>4 DEF ActiveIn
  <2>5. swapList' \in [Swaps -> Statuses]
    BY <1>t, <2>1 DEF SetRows
  <2>6. RowsAgree'
    BY <1>t, <1>i, <2>1, <2>3 DEF RowsAgree, SetRows
  <2> QED
    BY <1>t, <1>i, <1>4, <2>3, <2>4, <2>5, <2>6
<1> QED
  BY <1>t, <1>1, <1>2, <1>3, <1>4 DEF Actions

\* What the handler does to the table.
LEMMA TableAfter ==
    ASSUME SwapConstants, SwapInv, NEW e \in Events, Follows(e, seen),
           OnTransactionsDataModelChanged(e)
    PROVE  \A id \in Swaps : swapList'[id] # e.txs[id] =>
              swapList'[id] = "absent" /\ ~ (ready \/ e.action = "Reset")
<1> DEFINE swaps == e.ids \cap Swaps
<1>t. /\ e.action \in Actions /\ e.ids \subseteq TxIDs /\ e.txs \in [TxIDs -> Statuses]
      /\ Swaps \subseteq TxIDs
  BY DEF Events, SwapConstants
<1>i. \A id \in Swaps : swapList[id] # seen[id] => swapList[id] = "absent" /\ ~ ready
  BY DEF SwapInv, TableAsSeen
<1>o. e.action # "Reset" => \A id \in Swaps \ e.ids : e.txs[id] = seen[id]
  BY <1>t DEF Follows
<1>r. e.action = "Reset" => \A id \in Swaps \ e.ids : e.txs[id] = "absent"
  BY <1>t DEF Follows, Present
<1>1. CASE swaps = {}
  <2>1. swapList' = swapList
    BY <1>1 DEF OnTransactionsDataModelChanged, swapVars
  <2>2. e.action = "Reset" => e.txs = seen
    BY DEF Follows
  <2> QED
    BY <1>1, <1>i, <1>o, <1>r, <2>1, <2>2
<1>2. CASE swaps # {} /\ e.action = "Reset"
  <2>1. swapList' = [id \in Swaps |-> IF id \in swaps THEN e.txs[id] ELSE "absent"]
    BY <1>2 DEF OnTransactionsDataModelChanged, OnReset
  <2> QED
    BY <1>2, <1>r, <2>1
<1>3. CASE swaps # {} /\ e.action = "Removed"
  <2>1. swapList' = [id \in Swaps |-> IF id \in swaps THEN "absent" ELSE swapList[id]]
    BY <1>3 DEF OnTransactionsDataModelChanged, OnRemoved
  <2>2. \A id \in swaps : e.txs[id] = "absent"
    BY <1>3 DEF Follows
  <2> QED
    BY <1>3, <1>i, <1>o, <2>1, <2>2
<1>4. CASE swaps # {} /\ e.action \in {"Added", "Updated"}
  <2>1. swapList' = SetRows(swaps, e.txs)
    BY <1>4 DEF OnTransactionsDataModelChanged, OnAdded, OnUpdated
  <2> QED
    BY <1>4, <1>i, <1>o, <2>1 DEF SetRows
<1> QED
  BY <1>t, <1>1, <1>2, <1>3, <1>4 DEF Actions

\* The counters move as the map does.
LEMMA CountersAfter ==
    ASSUME SwapConstants, SwapInv, NEW e \in Events,
           OnTransactionsDataModelChanged(e)
    PROVE  CountersMatch' /\ counters' \in [Coins -> Nat] /\ activeTxCount' \in Nat
<1> DEFINE swaps == e.ids \cap Swaps
           active == {id \in swaps : e.txs[id] = "active"}
<1>t. swaps \in SUBSET Swaps /\ active \in SUBSET Swaps /\ activeTx \in SUBSET Swaps
  BY DEF SwapInv, SwapTypes
<1>i. /\ counters \in [Coins -> Nat] /\ activeTxCount \in Nat
      /\ \A c \in Coins : counters[c] = Count(activeTx, c)
      /\ activeTxCount = Cardinality(activeTx)
  BY DEF SwapInv, SwapTypes, CountersMatch
<1>a. CASE swaps = {}
  BY <1>i, <1>a DEF OnTransactionsDataModelChanged, swapVars, CountersMatch, Count
<1>b. CASE swaps # {}
  <2>1. activeTx' \in SUBSET Swaps /\ activeTxCount' = Cardinality(activeTx')
    BY <1>t, <1>b DEF OnTransactionsDataModelChanged, OnReset, OnRemoved, OnAdded, OnUpdated
  <2>2. \A c \in Coins :
           counters'[c] = Count(activeTx', c) /\ counters' = [d \in Coins |-> counters'[d]]
    <3>1. CASE e.action = "Reset"
      BY <1>b, <3>1 DEF OnTransactionsDataModelChanged, OnReset
    <3>2. CASE e.action = "Removed"
      <4>1. activeTx' = activeTx \ swaps /\ counters' = EraseActive(swaps)
        BY <1>b, <3>2 DEF OnTransactionsDataModelChanged, OnRemoved
      <4>2. \A c \in Coins : Count(activeTx \ swaps, c)
                              = Count(activeTx, c) - Count(swaps \cap activeTx, c)
        BY <1>t, CountDifference
      <4> QED
        BY <1>i, <4>1, <4>2 DEF EraseActive
    <3>3. CASE e.action = "Added"
      <4>1. activeTx' = activeTx \cup active /\ counters' = InsertActive(active)
        BY <1>b, <3>3 DEF OnTransactionsDataModelChanged, OnAdded
      <4>2. \A c \in Coins : Count(activeTx \cup active, c)
                              = Count(activeTx, c) + Count(active \ activeTx, c)
        BY <1>t, CountUnion
      <4> QED
        BY <1>i, <4>1, <4>2 DEF InsertActive
    <3>4. CASE e.action = "Updated"
      <4> DEFINE more == activeTx \cup active
                 gone == swaps \ active
      <4>1. /\ activeTx' = more \ gone
            /\ counters' = [c \in Coins |->
                              InsertActive(active)[c] - Count(gone \cap activeTx, c)]
        BY <1>b, <3>4 DEF OnTransactionsDataModelChanged, OnUpdated
      <4>2. \A c \in Coins : Count(more, c) = Count(activeTx, c) + Count(active \ activeTx, c)
        BY <1>t, CountUnion
      <4>3. \A c \in Coins : Count(more \ gone, c) = Count(more, c) - Count(gone \cap more, c)
        <5>1. more \in SUBSET Swaps /\ gone \in SUBSET Swaps
          BY <1>t
        <5> HIDE DEF more, gone
        <5> QED
          BY <5>1, CountDifference
      <4>4. gone \cap more = gone \cap activeTx
        OBVIOUS
      <4> HIDE DEF more, gone
      <4> QED
        BY <1>i, <4>1, <4>2, <4>3, <4>4 DEF InsertActive
    <3>5. e.action \in Actions
      BY DEF Events
    <3> QED
      BY <3>1, <3>2, <3>3, <3>4, <3>5 DEF Actions
  <2>3. \A c \in Coins : counters'[c] \in Nat
    BY <2>1, <2>2, CountType
  <2>4. counters' \in [Coins -> Nat]
    <3>1. counters' = [d \in Coins |-> counters'[d]]
      BY <1>b DEF OnTransactionsDataModelChanged, OnReset, OnRemoved, OnAdded, OnUpdated,
                  EraseActive, InsertActive
    <3> QED
      BY <2>3, <3>1
  <2>5. Cardinality(activeTx') \in Nat
    BY <2>1, FS_Subset, FS_CardinalityType DEF SwapConstants
  <2> QED
    BY <2>1, <2>2, <2>4, <2>5 DEF CountersMatch, Count
<1> QED
  BY <1>a, <1>b

LEMMA SwapDelivered ==
    ASSUME SwapConstants, SwapInv, SwapDeliver
    PROVE  SwapInv'
<1> DEFINE e == Head(queue)
<1>1. asked' \in BOOLEAN /\ TakeNotification /\ FeedInv
  BY DEF SwapDeliver, SwapInv, FeedInv, FeedTypeOK
<1>2. FeedInv' /\ e \in Events /\ Follows(e, seen) /\ seen' = e.txs
  BY <1>1, TakeInOrder
<1>3. OnTransactionsDataModelChanged(e) /\ ready' = (ready \/ e.action = "Reset")
  BY DEF SwapDeliver, TakeNotification
<1> HIDE DEF e
<1>4. /\ activeTx' \in SUBSET Swaps
      /\ swapList' \in [Swaps -> Statuses]
      /\ RowsAgree'
      /\ activeTx' \subseteq ActiveIn(e.txs)
      /\ ready \/ e.action = "Reset" => activeTx' = ActiveIn(e.txs)
  BY <1>2, <1>3, MapAfter
<1>5. CountersMatch' /\ counters' \in [Coins -> Nat] /\ activeTxCount' \in Nat
  BY <1>2, <1>3, CountersAfter
<1>6. ready' \in BOOLEAN
  BY <1>3 DEF SwapInv, SwapTypes
<1>7. SwapTypes'
  BY <1>4, <1>5, <1>6 DEF SwapTypes
<1>8. ActiveAsSeen'
  BY <1>2, <1>3, <1>4 DEF ActiveAsSeen, ActiveIn
<1>9. TableAsSeen'
  <2>1. \A id \in Swaps : swapList'[id] # e.txs[id] =>
           swapList'[id] = "absent" /\ ~ (ready \/ e.action = "Reset")
    BY <1>2, <1>3, TableAfter
  <2> QED
    BY <1>2, <1>3, <2>1 DEF TableAsSeen
<1> QED
  BY <1>2, <1>4, <1>5, <1>7, <1>8, <1>9 DEF SwapInv

LEMMA SwapStep ==
    ASSUME SwapConstants
    PROVE  SwapInv /\ [SwapNext]_<<feedVars, swapVars>> => SwapInv'
<1> SUFFICES ASSUME SwapInv, [SwapNext]_<<feedVars, swapVars>> PROVE SwapInv'
  OBVIOUS
<1>1. CASE WalletStep /\ UNCHANGED swapVars
  <2>1. FeedInv'
    BY <1>1, WalletStepInOrder DEF SwapInv
  <2>2. UNCHANGED <<seen, swapList, activeTx, counters, activeTxCount, ready>>
    BY <1>1, WalletStepKeeps DEF swapVars
  <2> QED
    BY <2>1, <2>2 DEF SwapInv, SwapTypes, RowsAgree, CountersMatch, Count, ActiveAsSeen,
                       TableAsSeen
<1>2. CASE SwapDeliver
  BY <1>2, SwapDelivered
<1>3. CASE UNCHANGED <<feedVars, swapVars>>
  <2>1. FeedInv'
    BY <1>3, FeedUnchanged DEF SwapInv
  <2>2. UNCHANGED <<seen, swapList, activeTx, counters, activeTxCount, ready>>
    BY <1>3 DEF feedVars, swapVars
  <2> QED
    BY <2>1, <2>2 DEF SwapInv, SwapTypes, RowsAgree, CountersMatch, Count, ActiveAsSeen,
                       TableAsSeen
<1> QED
  BY <1>1, <1>2, <1>3 DEF SwapNext

LEMMA SwapInvariant ==
    ASSUME SwapConstants
    PROVE  SwapSpec => []SwapInv
BY SwapInitial, SwapStep, PTL DEF SwapSpec

-----------------------------------------------------------------------------
\* What the invariant says of the properties.
LEMMA SwapInvImplies ==
    ASSUME SwapConstants, SwapInv
    PROVE  CountersMatch /\ IndicatorsAgree /\ ActiveAsSeen /\ TableAsSeen
<1>1. IndicatorsAgree
  <2> SUFFICES ASSUME NEW c \in Coins PROVE HasActiveTx(c) <=> counters[c] > 0
    BY DEF IndicatorsAgree
  <2>1. counters[c] = Count(activeTx, c) /\ activeTx \in SUBSET Swaps
        /\ activeTx = {id \in Swaps : swapList[id] = "active"}
    BY DEF SwapInv, CountersMatch, RowsAgree, SwapTypes
  <2>2. Count(activeTx, c) > 0 <=> \E id \in activeTx : CoinOf[id] = c
    BY <2>1, CountType
  <2> QED
    BY <2>1, <2>2 DEF HasActiveTx
<1> QED
  BY <1>1 DEF SwapInv

\* The counters are those of the map: insertActive and eraseActive never count
\* a swap twice, for any number of swaps and coins.
THEOREM CountersAlwaysMatch ==
    ASSUME SwapConstants
    PROVE  SwapSpec => []CountersMatch
<1>1. SwapInv => CountersMatch
  BY SwapInvImplies
<1> QED
  BY <1>1, SwapInvariant, PTL

\* The counter of a coin and the scan of the table give the same answer.
THEOREM IndicatorsAlwaysAgree ==
    ASSUME SwapConstants
    PROVE  SwapSpec => []IndicatorsAgree
<1>1. SwapInv => IndicatorsAgree
  BY SwapInvImplies
<1> QED
  BY <1>1, SwapInvariant, PTL

\* m_activeTx is what the wallet reported as active, although Resets without
\* swaps are ignored.
THEOREM ActiveSwapsAsSeen ==
    ASSUME SwapConstants
    PROVE  SwapSpec => []ActiveAsSeen
<1>1. SwapInv => ActiveAsSeen
  BY SwapInvImplies
<1> QED
  BY <1>1, SwapInvariant, PTL

\* The table of swaps, those that ended and were deleted too, is what the wallet
\* reported, although Resets without swaps are ignored.
THEOREM TableAlwaysAsSeen ==
    ASSUME SwapConstants
    PROVE  SwapSpec => []TableAsSeen
<1>1. SwapInv => TableAsSeen
  BY SwapInvImplies
<1> QED
  BY <1>1, SwapInvariant, PTL

-----------------------------------------------------------------------------
(* The swap page among the views, and the busy addresses *)

LEMMA ViewsImplementSwapPage == Spec => SwapSpec
<1>1. Init => SwapInit
  BY DEF Init
<1>2. [Next]_vars => [SwapNext]_<<feedVars, swapVars>>
  BY DEF Next, Deliver, SwapNext, vars, viewVars
<1> QED
  BY <1>1, <1>2, PTL DEF Spec, SwapSpec

\* One notification runs the slots of all views, an answer another view asked
\* for is a Reset for this one: the swap page keeps its counters, its map and its
\* table among them.
THEOREM SwapPageAmongViews ==
    Spec => []CountersMatch /\ []IndicatorsAgree /\ []ActiveAsSeen /\ []TableAsSeen
BY ViewsAssumption, ViewsImplementSwapPage, CountersAlwaysMatch,
   IndicatorsAlwaysAgree, ActiveSwapsAsSeen, TableAlwaysAsSeen, PTL

-----------------------------------------------------------------------------
BusyInv == FeedInv /\ ready \in BOOLEAN /\ BusyTypeOK /\ BusyHasCause /\ SoleUserIsBusy

\* The transactions of a set that use an address.
UsersIn(ids, a) == {id \in ids : MyIdOf[id] = a}

LEMMA UsersAreFinite ==
    ASSUME NEW ids \in SUBSET TxIDs, NEW a
    PROVE  /\ IsFiniteSet(UsersIn(ids, a))
           /\ Users(ids, a) = Cardinality(UsersIn(ids, a))
           /\ Users(ids, a) \in Nat
           /\ Users(ids, a) = 0 <=> UsersIn(ids, a) = {}
<1>1. IsFiniteSet(UsersIn(ids, a))
  <2>1. UsersIn(ids, a) \in SUBSET TxIDs
    BY DEF UsersIn
  <2> QED
    BY <2>1, FS_Subset, ViewsAssumption DEF AddressConstants
<1>2. Users(ids, a) = Cardinality(UsersIn(ids, a))
  BY DEF Users, UsersIn
<1> QED
  BY <1>1, <1>2, FS_CardinalityType, FS_EmptySet

LEMMA UsersUnion ==
    ASSUME NEW S \in SUBSET TxIDs, NEW T \in SUBSET TxIDs, S \cap T = {}, NEW a
    PROVE  Users(S \cup T, a) = Users(S, a) + Users(T, a)
<1> DEFINE U == UsersIn(S, a)
           V == UsersIn(T, a)
<1>1. UsersIn(S \cup T, a) = U \cup V /\ U \cap V = {}
  BY DEF UsersIn
<1>2. /\ IsFiniteSet(U) /\ IsFiniteSet(V)
      /\ Users(S, a) = Cardinality(U) /\ Users(T, a) = Cardinality(V)
      /\ Users(S \cup T, a) = Cardinality(UsersIn(S \cup T, a))
      /\ Users(S, a) \in Nat /\ Users(T, a) \in Nat
  BY UsersAreFinite
<1> HIDE DEF U, V
<1>3. Cardinality(U \cup V) = Cardinality(U) + Cardinality(V) - Cardinality(U \cap V)
  BY <1>2, FS_Union
<1>4. Cardinality(U \cap V) = 0
  BY <1>1, FS_EmptySet
<1>5. Users(S \cup T, a) = Cardinality(U \cup V)
  BY <1>1, <1>2, Zenon
<1> QED
  BY <1>2, <1>3, <1>4, <1>5

\* Without some transactions there are fewer users, by no more than are left out.
LEMMA UsersDifference ==
    ASSUME NEW S \in SUBSET TxIDs, NEW T \in SUBSET TxIDs, NEW a
    PROVE  Users(S, a) - Users(T, a) <= Users(S \ T, a)
<1> DEFINE U == UsersIn(S, a)
           V == UsersIn(T, a)
<1>1. UsersIn(S \ T, a) = U \ V
  BY DEF UsersIn
<1>2. /\ IsFiniteSet(U) /\ IsFiniteSet(V)
      /\ Users(S, a) = Cardinality(U) /\ Users(T, a) = Cardinality(V)
      /\ Users(S \ T, a) = Cardinality(UsersIn(S \ T, a))
      /\ Users(S, a) \in Nat /\ Users(T, a) \in Nat
  BY UsersAreFinite
<1> HIDE DEF U, V
<1>3. Cardinality(U \ V) = Cardinality(U) - Cardinality(U \cap V)
  BY <1>2, FS_Difference
<1>4. Cardinality(U \cap V) <= Cardinality(V) /\ Cardinality(U \cap V) \in Nat
  <2>1. U \cap V \in SUBSET V
    OBVIOUS
  <2> QED
    BY <1>2, <2>1, FS_Subset, FS_CardinalityType
<1>5. Users(S \ T, a) = Cardinality(U \ V)
  BY <1>1, <1>2, Zenon
<1> QED
  BY <1>2, <1>3, <1>4, <1>5

\* Transactions under way, in a content of the wallet.
UnderWay(t) == {id \in TxIDs : t[id] \in {"pending", "active"}}

LEMMA ActiveUsersAreUnderWay ==
    /\ \A a : Cardinality(ActiveUsers(a)) = Users(UnderWay(seen), a)
    /\ \A id \in TxIDs : id \in ActiveUsers(MyIdOf[id]) <=> id \in UnderWay(seen)
<1>1. \A a : ActiveUsers(a) = {id \in UnderWay(seen) : MyIdOf[id] = a}
  BY DEF ActiveUsers, UnderWay
<1> QED
  BY <1>1 DEF Users, UnderWay

LEMMA BusyInitial == BusyInit => BusyInv
<1> SUFFICES ASSUME BusyInit PROVE BusyInv
  OBVIOUS
<1>1. FeedInv
  BY FeedInitial DEF BusyInit
<1>2. ready = FALSE /\ busy = [a \in Addresses |-> 0]
  BY DEF BusyInit, FeedInit
<1>3. BusyHasCause
  <2> SUFFICES ASSUME NEW a \in Addresses PROVE busy[a] <= Cardinality(ActiveUsers(a))
    BY DEF BusyHasCause
  <2>1. Users(UnderWay(seen), a) \in Nat
    BY UsersAreFinite DEF UnderWay
  <2> QED
    BY <1>2, <2>1, ActiveUsersAreUnderWay
<1> QED
  BY <1>1, <1>2, <1>3 DEF BusyInv, BusyTypeOK, SoleUserIsBusy

\* What a notification says of the transactions under way.
LEMMA UnderWayAfter ==
    ASSUME NEW e \in Events, seen \in [TxIDs -> Statuses], Follows(e, seen)
    PROVE  LET ended == {id \in e.ids : CanDelete(e.txs[id])}
           IN /\ e.action = "Reset" => UnderWay(e.txs) = e.ids \ ended
              /\ e.action = "Added" =>
                    /\ UnderWay(e.txs) = UnderWay(seen) \cup (e.ids \ ended)
                    /\ UnderWay(seen) \cap (e.ids \ ended) = {}
              /\ e.action = "Updated" => UnderWay(e.txs) = UnderWay(seen) \ ended
              /\ e.action = "Removed" =>
                    UnderWay(e.txs) = UnderWay(seen) /\ UnderWay(seen) \cap e.ids = {}
<1> DEFINE ended == {id \in e.ids : CanDelete(e.txs[id])}
<1>t. /\ e.action \in Actions /\ e.ids \subseteq TxIDs /\ e.txs \in [TxIDs -> Statuses]
  BY DEF Events
<1>o. e.action # "Reset" => \A id \in TxIDs \ e.ids : e.txs[id] = seen[id]
  BY DEF Follows
<1>1. e.action = "Reset" => UnderWay(e.txs) = e.ids \ ended
  BY <1>t DEF Follows, Present, UnderWay, CanDelete, Statuses
<1>2. e.action = "Added" =>
         /\ UnderWay(e.txs) = UnderWay(seen) \cup (e.ids \ ended)
         /\ UnderWay(seen) \cap (e.ids \ ended) = {}
  BY <1>t, <1>o DEF Follows, UnderWay, CanDelete, Statuses
<1>3. e.action = "Updated" => UnderWay(e.txs) = UnderWay(seen) \ ended
  <2> SUFFICES ASSUME e.action = "Updated", NEW id \in TxIDs
               PROVE  e.txs[id] \in {"pending", "active"}
                        <=> seen[id] \in {"pending", "active"} /\ id \notin ended
    BY DEF UnderWay
  <2>1. CASE id \in e.ids
    <3>1. e.txs[id] \in Following(seen[id]) /\ seen[id] # "absent" /\ seen[id] \in Statuses
      BY <2>1 DEF Follows
    <3> QED
      BY <2>1, <3>1 DEF Following, CanDelete, Statuses
  <2>2. CASE id \notin e.ids
    BY <1>o, <2>2
  <2> QED
    BY <2>1, <2>2
<1>4. e.action = "Removed" =>
         UnderWay(e.txs) = UnderWay(seen) /\ UnderWay(seen) \cap e.ids = {}
  BY <1>t, <1>o DEF Follows, UnderWay
<1> QED
  BY <1>1, <1>2, <1>3, <1>4

LEMMA BusyDelivered == BusyInv /\ BusyDeliver => BusyInv'
<1> SUFFICES ASSUME BusyInv, BusyDeliver PROVE BusyInv'
  OBVIOUS
<1> DEFINE e == Head(queue)
           ended == {id \in e.ids : CanDelete(e.txs[id])}
           now == UnderWay(e.txs)
           before == UnderWay(seen)
<1>1. asked' \in BOOLEAN /\ TakeNotification /\ FeedInv
  BY DEF BusyDeliver, BusyInv, FeedInv, FeedTypeOK
<1>2. FeedInv' /\ e \in Events /\ Follows(e, seen) /\ seen' = e.txs
  BY <1>1, TakeInOrder
<1>3. /\ OnTransactions(e) /\ ready' = (ready \/ e.action = "Reset") /\ ready' \in BOOLEAN
  BY DEF BusyDeliver, TakeNotification, BusyInv
<1>e. /\ e.action = "Reset" => now = e.ids \ ended
      /\ e.action = "Added" => now = before \cup (e.ids \ ended) /\ before \cap (e.ids \ ended) = {}
      /\ e.action = "Updated" => now = before \ ended
      /\ e.action = "Removed" => now = before /\ before \cap e.ids = {}
  BY <1>1, <1>2, UnderWayAfter DEF FeedInv, FeedTypeOK
<1>t. /\ e.action \in Actions /\ e.ids \in SUBSET TxIDs /\ ended \in SUBSET TxIDs
      /\ e.ids \ ended \in SUBSET TxIDs /\ now \in SUBSET TxIDs /\ before \in SUBSET TxIDs
  BY <1>2 DEF Events, UnderWay
<1>b. /\ e.action = "Reset" => busy' = Push([a \in Addresses |-> 0], e.ids \ ended)
      /\ e.action = "Added" => busy' = Push(busy, e.ids \ ended)
      /\ e.action = "Updated" => busy' = Erase(busy, ended)
      /\ e.action = "Removed" => busy' = Erase(busy, e.ids)
  BY <1>3 DEF OnTransactions
<1>s. UnderWay(seen') = now
  BY <1>2
<1> HIDE DEF e, ended, now, before
<1>i. /\ busy \in [Addresses -> Nat]
      /\ \A a \in Addresses : busy[a] <= Users(before, a)
  BY ActiveUsersAreUnderWay DEF BusyInv, BusyTypeOK, BusyHasCause, before
\* One address: no more entries than users.
<1>4. ASSUME NEW a \in Addresses
      PROVE  /\ busy'[a] \in Nat
             /\ busy'[a] <= Users(now, a)
             /\ busy' = [x \in Addresses |-> busy'[x]]
  <2>u. /\ Users(before, a) \in Nat /\ Users(now, a) \in Nat /\ Users(e.ids, a) \in Nat
        /\ Users(ended, a) \in Nat /\ Users(e.ids \ ended, a) \in Nat
        /\ busy[a] \in Nat /\ busy[a] <= Users(before, a)
    BY <1>t, <1>i, UsersAreFinite
  <2>1. CASE e.action = "Reset"
    <3>1. Users(now, a) = Users(e.ids \ ended, a)
      BY <1>e, <2>1, Zenon
    <3> QED
      BY <1>b, <2>u, <2>1, <3>1 DEF Push
  <2>2. CASE e.action = "Added"
    <3>1. Users(now, a) = Users(before, a) + Users(e.ids \ ended, a)
      BY <1>t, <1>e, <2>2, UsersUnion
    <3> QED
      BY <1>b, <2>u, <2>2, <3>1 DEF Push
  <2>3. CASE e.action = "Updated"
    <3>1. Users(before, a) - Users(ended, a) <= Users(now, a)
      BY <1>t, <1>e, <2>3, UsersDifference
    <3> QED
      BY <1>b, <2>u, <2>3, <3>1 DEF Erase
  <2>4. CASE e.action = "Removed"
    BY <1>b, <1>e, <2>u, <2>4 DEF Erase
  <2> QED
    BY <1>t, <2>1, <2>2, <2>3, <2>4 DEF Actions
<1>5. BusyTypeOK' /\ BusyHasCause'
  <2>1. busy' = [x \in Addresses |-> busy'[x]]
    BY <1>b, <1>t DEF Push, Erase, Actions
  <2>2. busy' \in [Addresses -> Nat]
    BY <1>4, <2>1
  <2>3. \A a \in Addresses : Cardinality(ActiveUsers(a))' = Users(now, a)
    <3>1. \A a : ActiveUsers(a)' = {id \in UnderWay(seen') : MyIdOf[id] = a}
      BY DEF ActiveUsers, UnderWay
    <3> QED
      BY <1>s, <3>1 DEF Users
  <2> QED
    BY <1>4, <2>2, <2>3 DEF BusyTypeOK, BusyHasCause
<1>6. SoleUserIsBusy'
  <2> SUFFICES ASSUME ready', NEW id \in TxIDs,
                      \A other \in TxIDs \ {id} : MyIdOf[other] # MyIdOf[id],
                      id \in now
               PROVE  busy'[MyIdOf[id]] > 0
    BY <1>s DEF SoleUserIsBusy, IsAddressBusy, ActiveUsers, UnderWay
  <2> DEFINE a == MyIdOf[id]
  <2>a. a \in Addresses /\ busy[a] \in Nat
    BY <1>i, ViewsAssumption DEF AddressConstants
  <2>r. e.action # "Reset" => ready
    BY <1>3, Zenon
  <2>p. e.action # "Reset" /\ id \in before => busy[a] > 0
    BY <2>r DEF BusyInv, SoleUserIsBusy, IsAddressBusy, ActiveUsers, UnderWay, before
  \* The only entries for this address are those of this transaction.
  <2>n. \A ids \in SUBSET TxIDs :
           /\ Users(ids, a) \in Nat
           /\ id \in ids => Users(ids, a) > 0
           /\ id \notin ids => Users(ids, a) = 0
    <3> SUFFICES ASSUME NEW ids \in SUBSET TxIDs
                 PROVE  /\ Users(ids, a) \in Nat
                        /\ id \in ids => Users(ids, a) > 0
                        /\ id \notin ids => Users(ids, a) = 0
      OBVIOUS
    <3>1. UsersIn(ids, a) = IF id \in ids THEN {id} ELSE {}
      BY DEF UsersIn
    <3>2. Users(ids, a) \in Nat /\ (Users(ids, a) = 0 <=> UsersIn(ids, a) = {})
      BY UsersAreFinite
    <3> HIDE DEF a
    <3> QED
      BY <3>1, <3>2
  <2> SUFFICES busy'[a] > 0
    OBVIOUS
  <2> HIDE DEF a
  <2>1. CASE e.action = "Reset"
    BY <1>b, <1>e, <1>t, <2>a, <2>n, <2>1 DEF Push
  <2>2. CASE e.action = "Added"
    <3>1. id \in before \/ id \in e.ids \ ended
      BY <1>e, <2>2
    <3> QED
      BY <1>b, <1>t, <2>a, <2>n, <2>p, <2>2, <3>1 DEF Push
  <2>3. CASE e.action = "Updated"
    <3>1. id \in before /\ Users(ended, a) = 0
      BY <1>e, <1>t, <2>n, <2>3
    <3> QED
      BY <1>b, <2>a, <2>p, <2>3, <3>1 DEF Erase
  <2>4. CASE e.action = "Removed"
    <3>1. id \in before /\ Users(e.ids, a) = 0
      BY <1>e, <1>t, <2>n, <2>4
    <3> QED
      BY <1>b, <2>a, <2>p, <2>4, <3>1 DEF Erase
  <2> QED
    BY <1>t, <2>1, <2>2, <2>3, <2>4 DEF Actions
<1> QED
  BY <1>2, <1>3, <1>5, <1>6 DEF BusyInv

LEMMA BusyInvariant == Spec => []BusyInv
<1>1. Init => BusyInv
  BY BusyInitial DEF Init
<1>2. BusyInv /\ [Next]_vars => BusyInv'
  <2> SUFFICES ASSUME BusyInv, [Next]_vars PROVE BusyInv'
    OBVIOUS
  <2> USE DEF BusyTypeOK, BusyHasCause, SoleUserIsBusy, IsAddressBusy, ActiveUsers
  <2>1. CASE WalletStep /\ UNCHANGED viewVars
    <3>1. FeedInv' /\ UNCHANGED <<seen, ready, busy>>
      BY <2>1, WalletStepInOrder, WalletStepKeeps DEF BusyInv, viewVars
    <3> QED
      BY <3>1 DEF BusyInv
  <2>2. CASE Deliver
    BY <2>2, BusyDelivered DEF Deliver
  <2>3. CASE UNCHANGED vars
    <3>1. FeedInv' /\ UNCHANGED <<seen, ready, busy>>
      BY <2>3, FeedUnchanged DEF BusyInv, vars, viewVars, feedVars
    <3> QED
      BY <3>1 DEF BusyInv
  <2> QED
    BY <2>1, <2>2, <2>3 DEF Next
<1> QED
  BY <1>1, <1>2, PTL DEF Spec

\* m_busyAddresses never holds more entries of an address than transactions under
\* way use it, for any number of transactions and repeated updates: what is kept
\* from being deleted can be deleted in the end.
THEOREM BusyAlwaysHasCause == Spec => []BusyHasCause
<1>1. BusyInv => BusyHasCause
  BY DEF BusyInv
<1> QED
  BY <1>1, BusyInvariant, PTL

\* The address that one transaction uses alone stays busy while that one is under
\* way: the one case in which the list keeps its promise.
THEOREM SoleUserIsAlwaysBusy == Spec => []SoleUserIsBusy
<1>1. BusyInv => SoleUserIsBusy
  BY DEF BusyInv
<1> QED
  BY <1>1, BusyInvariant, PTL

-----------------------------------------------------------------------------
(* The table of transactions *)

ListRows == [id : Simple, status : Statuses \ {"absent"}]

\* The rows there should be.
RowsFor(t) == {[id |-> id, status |-> t[id]] : id \in Simple \cap Present(t)}

ListInv ==
    /\ FeedInv
    /\ ready \in BOOLEAN
    /\ list \in Seq(ListRows)
    /\ OneEach(list)
    /\ IdsIn(RowsIn(list)) \subseteq Present(seen)
    /\ ready => RowsIn(list) = RowsFor(seen)

LEMMA ListInitial == ListInit => ListInv
<1> SUFFICES ASSUME ListInit PROVE ListInv
  OBVIOUS
<1>1. FeedInv /\ ready = FALSE
  BY FeedInitial DEF ListInit, FeedInit
<1>2. list = <<>> /\ list \in Seq(ListRows) /\ Len(list) = 0
  BY DEF ListInit
<1>3. RowsIn(list) = {} /\ OneEach(list)
  BY <1>2 DEF RowsIn, OneEach
<1> QED
  BY <1>1, <1>2, <1>3 DEF ListInv, IdsIn

\* The rows an event brings: one for each of its transactions in the table.
LEMMA ItemsFacts ==
    ASSUME NEW e \in Events, NEW items \in Items(e)
    PROVE  /\ items \in Seq([id : Simple, status : Statuses])
           /\ OneEach(items)
           /\ RowsIn(items) = {[id |-> id, status |-> e.txs[id]] : id \in e.ids \cap Simple}
           /\ IdsIn(RowsIn(items)) = e.ids \cap Simple
<1> DEFINE S == e.ids \cap Simple
<1>1. PICK o \in SetToSeqs(S) : items = [i \in DOMAIN o |-> [id |-> o[i], status |-> e.txs[o[i]]]]
  BY DEF Items
<1>2. S \in SUBSET TxIDs /\ S \in SUBSET Simple /\ \A id \in TxIDs : e.txs[id] \in Statuses
  BY DEF Events
<1> HIDE DEF S
<1>3. IsFiniteSet(S)
  BY <1>2, ViewsAssumption, FS_Subset DEF AddressConstants
<1>4. /\ o \in Seq(S) /\ RowsIn(o) = S
      /\ \A i, j \in 1..Len(o) : o[i] = o[j] => i = j
  BY <1>3, OrderFacts
<1>5. Len(o) \in Nat /\ DOMAIN o = 1..Len(o) /\ \A i \in 1..Len(o) : o[i] \in S
  BY <1>4
<1> DEFINE n == Len(o)
<1> HIDE DEF n
<1>6. items = [i \in 1..n |-> [id |-> o[i], status |-> e.txs[o[i]]]] /\ n \in Nat
  BY <1>1, <1>5 DEF n
<1>7. \A i \in 1..n : items[i] = [id |-> o[i], status |-> e.txs[o[i]]] /\ items[i].id = o[i]
  BY <1>6
<1>8. items \in Seq([id : Simple, status : Statuses]) /\ Len(items) = n
  <2>1. \A i \in 1..n : [id |-> o[i], status |-> e.txs[o[i]]] \in [id : Simple, status : Statuses]
    BY <1>2, <1>5 DEF n
  <2> QED
    BY <1>6, <2>1
<1>n. Len(o) = n
  BY DEF n
<1>9. OneEach(items)
  BY <1>4, <1>7, <1>8, <1>n DEF OneEach
<1>10. RowsIn(items) = {[id |-> id, status |-> e.txs[id]] : id \in S}
  <2>1. RowsIn(items) = {[id |-> o[i], status |-> e.txs[o[i]]] : i \in 1..n}
    BY <1>7, <1>8 DEF RowsIn
  <2>2. S = {o[i] : i \in 1..n}
    BY <1>4 DEF RowsIn, n
  <2> QED
    BY <2>1, <2>2
<1>11. IdsIn(RowsIn(items)) = S
  <2> DEFINE row(id) == [id |-> id, status |-> e.txs[id]]
  <2>1. \A id : row(id).id = id
    OBVIOUS
  <2> HIDE DEF row
  <2>2. RowsIn(items) = {row(id) : id \in S}
    BY <1>10 DEF row
  <2> QED
    BY <2>1, <2>2 DEF IdsIn
<1> QED
  BY <1>8, <1>9, <1>10, <1>11 DEF S

\* Events whose transactions exist bring rows of the table.
LEMMA ItemsAreRows ==
    ASSUME NEW e \in Events, NEW items \in Items(e), \A id \in e.ids : e.txs[id] # "absent"
    PROVE  items \in Seq(ListRows)
<1>1. /\ items \in Seq([id : Simple, status : Statuses])
      /\ RowsIn(items) = {[id |-> id, status |-> e.txs[id]] : id \in e.ids \cap Simple}
  BY ItemsFacts
<1>2. \A i \in 1..Len(items) : items[i].status # "absent" /\ items[i] \in [id : Simple, status : Statuses]
  BY <1>1 DEF RowsIn
<1>3. \A x \in [id : Simple, status : Statuses] : x.status # "absent" => x \in ListRows
  BY DEF ListRows
<1> QED
  BY <1>1, <1>2, <1>3

LEMMA FollowingPresent == \A s : s \in Statuses \ {"absent"} => "absent" \notin Following(s)
BY DEF Following, Statuses

\* The rows that are left when the rows of an event's transactions are.
LEMMA RowsForWithout ==
    ASSUME NEW t \in [TxIDs -> Statuses], NEW u \in [TxIDs -> Statuses],
           NEW ids \in SUBSET TxIDs, \A id \in TxIDs \ ids : u[id] = t[id]
    PROVE  Without(RowsFor(t), ids \cap Simple) =
              {[id |-> id, status |-> u[id]] : id \in (Simple \cap Present(u)) \ ids}
BY DEF Without, RowsFor, Present

LEMMA ListDelivered == ListInv /\ ListDeliver => ListInv'
<1> SUFFICES ASSUME ListInv, ListDeliver PROVE ListInv'
  OBVIOUS
<1>1. FeedInv /\ TakeNotification /\ asked' \in BOOLEAN
  BY DEF ListInv, ListDeliver, FeedInv, FeedTypeOK
<1>e. PICK e : e = Head(queue)
  OBVIOUS
<1>2. FeedInv' /\ e \in Events /\ Follows(e, seen) /\ seen' = e.txs
  BY <1>1, <1>e, TakeInOrder
<1>3. /\ seen \in [TxIDs -> Statuses] /\ seen' \in [TxIDs -> Statuses]
      /\ e.ids \in SUBSET TxIDs /\ e.action \in Actions
  BY <1>1, <1>2 DEF FeedInv, FeedTypeOK, Events
<1>4. /\ ready \in BOOLEAN /\ ready' = (ready \/ e.action = "Reset") /\ ready' \in BOOLEAN
  BY <1>1, <1>e DEF ListInv, TakeNotification
<1>5. PICK items \in Items(e) :
          \/ e.action = "Reset"   /\ list' = Reset(items)
          \/ e.action = "Removed" /\ list' = RemoveItems(list, items)
          \/ e.action = "Added"   /\ list' = Insert(list, items)
          \/ e.action = "Updated" /\ list' = Update(list, items)
  BY <1>e DEF ListDeliver, OnTransactionsChanged
<1>6. /\ items \in Seq([id : Simple, status : Statuses]) /\ OneEach(items)
      /\ RowsIn(items) = {[id |-> id, status |-> seen'[id]] : id \in e.ids \cap Simple}
      /\ IdsIn(RowsIn(items)) = e.ids \cap Simple
  BY <1>2, ItemsFacts
<1>7. /\ list \in Seq(ListRows) /\ OneEach(list)
      /\ IdsIn(RowsIn(list)) \subseteq Present(seen)
      /\ ready => RowsIn(list) = RowsFor(seen)
  BY DEF ListInv
<1>s. IdsIn(RowsIn(list)) \subseteq Simple
  <2>1. \A x \in ListRows : x.id \in Simple
    BY DEF ListRows
  <2>2. \A x \in RowsIn(list) : x \in ListRows
    BY <1>7 DEF RowsIn
  <2> QED
    BY <2>1, <2>2 DEF IdsIn
<1>8. CASE e.action = "Reset"
  <2>1. list' = Reset(items) /\ e.ids = Present(seen')
    BY <1>2, <1>5, <1>8 DEF Follows
  <2>2. items \in Seq(ListRows)
    BY <1>2, <2>1, ItemsAreRows DEF Present
  <2>3. list' \in Seq(ListRows) /\ OneEach(list') /\ RowsIn(list') = RowsIn(items)
    BY <1>6, <2>1, <2>2, ResetRows
  <2>4. RowsIn(list') = RowsFor(seen')
    BY <1>6, <2>1, <2>3 DEF RowsFor
  <2>5. IdsIn(RowsIn(list')) \subseteq Present(seen')
    BY <1>6, <2>1, <2>3
  <2> QED
    BY <1>2, <1>4, <2>3, <2>4, <2>5 DEF ListInv
<1>9. CASE e.action # "Reset"
  <2>1. /\ ready' = ready
        /\ \A id \in TxIDs \ e.ids : seen'[id] = seen[id]
        /\ \A id \in e.ids :
              \/ e.action = "Added" /\ seen[id] = "absent" /\ seen'[id] # "absent"
              \/ e.action = "Updated" /\ seen[id] # "absent" /\ seen'[id] # "absent"
              \/ e.action = "Removed" /\ seen[id] # "absent" /\ seen'[id] = "absent"
    <3>1. ready' = ready
      BY <1>4, <1>9
    <3>2. \A id \in TxIDs \ e.ids : seen'[id] = seen[id]
      BY <1>2, <1>9 DEF Follows
    <3>3. ASSUME NEW id \in e.ids, e.action = "Updated" PROVE seen[id] # "absent" /\ seen'[id] # "absent"
      <4>1. seen[id] \in Statuses \ {"absent"} /\ seen'[id] \in Following(seen[id])
        BY <1>2, <1>3, <3>3 DEF Follows
      <4> QED
        BY <4>1, FollowingPresent
    <3> QED
      BY <1>2, <1>3, <1>9, <3>1, <3>2, <3>3 DEF Follows, Actions
  <2>2. Without(RowsFor(seen), e.ids \cap Simple) =
              {[id |-> id, status |-> seen'[id]] : id \in (Simple \cap Present(seen')) \ e.ids}
    BY <1>3, <2>1, RowsForWithout
  <2>3. CASE e.action = "Removed"
    <3>1. list' = RemoveItems(list, items)
      BY <1>5, <2>3
    <3>2. /\ list' \in Seq(ListRows) /\ OneEach(list')
          /\ RowsIn(list') = Without(RowsIn(list), e.ids \cap Simple)
      <4>1. list \in Seq(ListRows) /\ items \in Seq([id : Simple, status : Statuses])
        BY <1>6, <1>7
      <4>2. /\ RemoveItems(list, items) \in Seq(ListRows)
            /\ OneEach(list) =>
                  /\ OneEach(RemoveItems(list, items))
                  /\ RowsIn(RemoveItems(list, items)) =
                        Without(RowsIn(list), IdsIn(RowsIn(items)))
        BY <4>1, RemoveItemsRows
      <4> QED
        BY <1>6, <1>7, <3>1, <4>2
    <3>3. \A id \in e.ids : id \notin Present(seen')
      BY <2>1, <2>3 DEF Present
    <3>4. ready' => RowsIn(list') = RowsFor(seen')
      BY <1>7, <2>1, <2>2, <3>2, <3>3 DEF RowsFor
    <3>5. IdsIn(RowsIn(list')) \subseteq Present(seen')
      BY <1>3, <1>7, <1>s, <2>1, <3>2 DEF IdsIn, Without, Present
    <3> QED
      BY <1>2, <1>4, <3>2, <3>4, <3>5 DEF ListInv
  <2>4. CASE e.action \in {"Added", "Updated"}
    <3>1. items \in Seq(ListRows)
      BY <1>2, <2>1, <2>4, ItemsAreRows
    <3>2. RowsFor(seen') =
              {[id |-> id, status |-> seen'[id]] : id \in (Simple \cap Present(seen')) \ e.ids}
              \cup RowsIn(items)
      <4>1. e.ids \subseteq Present(seen')
        BY <1>3, <2>1, <2>4 DEF Present
      <4> QED
        BY <1>6, <4>1 DEF RowsFor
    <3>3. CASE e.action = "Added"
      <4>1. list' = Insert(list, items)
        BY <1>5, <3>3
      <4>2. \A x \in RowsIn(list), y \in RowsIn(items) : x.id # y.id
        BY <1>6, <1>7, <2>1, <3>3 DEF IdsIn, Present
      <4>3. /\ list' \in Seq(ListRows) /\ OneEach(list')
            /\ RowsIn(list') = RowsIn(list) \cup RowsIn(items)
        BY <1>6, <1>7, <3>1, <4>1, <4>2, InsertRows
      <4>4. Without(RowsFor(seen), e.ids \cap Simple) = RowsFor(seen)
        BY <2>1, <3>3 DEF Without, RowsFor, Present
      <4>5. ready' => RowsIn(list') = RowsFor(seen')
        BY <1>7, <2>1, <2>2, <3>2, <4>3, <4>4
      <4>6. IdsIn(RowsIn(list')) \subseteq Present(seen')
        BY <1>3, <1>6, <1>7, <2>1, <3>3, <4>3 DEF IdsIn, Present
      <4> QED
        BY <1>2, <1>4, <4>3, <4>5, <4>6 DEF ListInv
    <3>4. CASE e.action = "Updated"
      <4>1. list' = Update(list, items)
        BY <1>5, <3>4
      <4>2. /\ Update(list, items) \in Seq(ListRows) /\ OneEach(Update(list, items))
            /\ RowsIn(Update(list, items)) =
                  Without(RowsIn(list), IdsIn(RowsIn(items))) \cup RowsIn(items)
        <5>1. list \in Seq(ListRows)
          BY <1>7
        <5>2. /\ Update(list, items) \in Seq(ListRows)
              /\ OneEach(list) /\ OneEach(items) =>
                    /\ OneEach(Update(list, items))
                    /\ RowsIn(Update(list, items)) =
                          Without(RowsIn(list), IdsIn(RowsIn(items))) \cup RowsIn(items)
          BY <3>1, <5>1, UpdateRows
        <5> QED
          BY <1>6, <1>7, <5>2
      <4>3. /\ list' \in Seq(ListRows) /\ OneEach(list')
            /\ RowsIn(list') = Without(RowsIn(list), e.ids \cap Simple) \cup RowsIn(items)
        BY <1>6, <4>1, <4>2
      <4>5. ready' => RowsIn(list') = RowsFor(seen')
        BY <1>7, <2>1, <2>2, <3>2, <4>3
      <4>6. IdsIn(RowsIn(list')) \subseteq Present(seen')
        BY <1>3, <1>6, <1>7, <2>1, <3>4, <4>3 DEF IdsIn, Without, Present
      <4> QED
        BY <1>2, <1>4, <4>3, <4>5, <4>6 DEF ListInv
    <3> QED
      BY <2>4, <3>3, <3>4
  <2> QED
    BY <1>3, <1>9, <2>3, <2>4 DEF Actions
<1> QED
  BY <1>8, <1>9

LEMMA ListStep == ListInv /\ [ListNext]_<<feedVars, list>> => ListInv'
<1> SUFFICES ASSUME ListInv, [ListNext]_<<feedVars, list>> PROVE ListInv'
  OBVIOUS
<1>1. CASE WalletStep /\ UNCHANGED list
  BY <1>1, WalletStepInOrder, WalletStepKeeps DEF ListInv
<1>2. CASE ListDeliver
  BY <1>2, ListDelivered
<1>3. CASE UNCHANGED <<feedVars, list>>
  BY <1>3, FeedUnchanged DEF ListInv, feedVars
<1> QED
  BY <1>1, <1>2, <1>3 DEF ListNext

LEMMA ListInvariant == ListSpec => []ListInv
BY ListInitial, ListStep, PTL DEF ListSpec

LEMMA ViewsImplementList == Spec => ListSpec
<1>1. Init => ListInit
  BY DEF Init
<1>2. [Next]_vars => [ListNext]_<<feedVars, list>>
  BY DEF Next, Deliver, vars, viewVars, ListNext
<1> QED
  BY <1>1, <1>2, PTL DEF Spec, ListSpec

\* A transaction has one row, whatever the order of the events before and after
\* the first complete list (wallet_view.cpp onTransactionsChanged).
THEOREM RowsNeverDouble == Spec => []OneRowEach
<1>1. ListInv => OneRowEach
  <2> SUFFICES ASSUME ListInv PROVE OneRowEach
    OBVIOUS
  <2>1. DOMAIN list = 1..Len(list) /\ OneEach(list)
    BY DEF ListInv
  <2> QED
    BY <2>1 DEF OneEach, OneRowEach
<1> QED
  BY <1>1, ViewsImplementList, ListInvariant, PTL

\* The table as a function of the transaction, when it has one row for each.
LEMMA ShownFacts ==
    ListInv => /\ Shown \in [Simple -> Statuses]
               /\ ready => Shown = Content(seen)
<1> SUFFICES ASSUME ListInv
             PROVE  /\ Shown \in [Simple -> Statuses]
                    /\ ready => Shown = Content(seen)
  OBVIOUS
<1>1. list \in Seq(ListRows) /\ OneEach(list) /\ Rows = RowsIn(list)
  BY DEF ListInv, Rows, RowsIn
<1>2. ASSUME NEW row \in Rows, NEW other \in Rows, row.id = other.id PROVE row = other
  BY <1>1, <1>2 DEF RowsIn, OneEach
<1>3. \A row \in Rows : row.status \in Statuses
  <2>1. \A row \in ListRows : row.status \in Statuses
    BY DEF ListRows
  <2>2. \A row \in Rows : row \in ListRows
    BY <1>1 DEF RowsIn
  <2> QED
    BY <2>1, <2>2
<1>4. \A id \in Simple : (\E row \in Rows : row.id = id) =>
         (CHOOSE row \in Rows : row.id = id) \in Rows
  OBVIOUS
<1>5. Shown \in [Simple -> Statuses]
  BY <1>3, <1>4 DEF Shown, Statuses
<1>6. ASSUME ready PROVE Shown = Content(seen)
  <2>1. Rows = RowsFor(seen) /\ seen \in [TxIDs -> Statuses] /\ Simple \subseteq TxIDs
    BY <1>1, <1>6, ViewsAssumption DEF ListInv, FeedInv, FeedTypeOK, ListConstants
  <2>2. ASSUME NEW id \in Simple PROVE Shown[id] = seen[id]
    <3>1. CASE seen[id] = "absent"
      <4>1. \A row \in Rows : row.id # id
        BY <2>1, <3>1 DEF RowsFor, Present
      <4> QED
        BY <3>1, <4>1 DEF Shown
    <3>2. CASE seen[id] # "absent"
      <4> DEFINE r == [id |-> id, status |-> seen[id]]
      <4>1. r \in Rows /\ r.id = id /\ r.status = seen[id]
        BY <2>1, <3>2 DEF RowsFor, Present
      <4> HIDE DEF r
      <4>2. (CHOOSE row \in Rows : row.id = id) = r
        BY <1>2, <4>1
      <4> QED
        BY <4>1, <4>2 DEF Shown
    <3> QED
      BY <3>1, <3>2
  <2>3. Shown = [id \in Simple |-> Shown[id]]
    BY <1>5
  <2> QED
    BY <2>2, <2>3 DEF Content
<1> QED
  BY <1>5, <1>6

ListPipeline == [i \in 1..Len(queue) |-> Content(queue[i].txs)]

ContentOf == [t \in [TxIDs -> Statuses] |-> Content(t)]

LEMMA ContentOfType == ContentOf \in [[TxIDs -> Statuses] -> [Simple -> Statuses]]
BY ViewsAssumption DEF ContentOf, Content, ListConstants

LEMMA ListPipelineIsImage ==
    /\ FeedInv => ListPipeline = Image(ContentOf)
    /\ FeedInv' => ListPipeline' = Image(ContentOf)'
<1>1. \A e \in Events : Content(e.txs) = ContentOf[e.txs]
  BY DEF Events, ContentOf
<1>2. ASSUME FeedInv PROVE ListPipeline = Image(ContentOf)
  <2>1. \A i \in 1..Len(queue) : queue[i] \in Events
    BY <1>2 DEF FeedInv, FeedTypeOK
  <2> QED
    BY <1>1, <2>1 DEF ListPipeline, Image
<1>3. ASSUME FeedInv' PROVE ListPipeline' = Image(ContentOf)'
  <2>1. \A i \in 1..Len(queue') : queue'[i] \in Events
    BY <1>3 DEF FeedInv, FeedTypeOK
  <2>2. \A i \in 1..Len(queue') : Content(queue'[i].txs) = ContentOf[queue'[i].txs]
    BY <1>1, <2>1
  <2> QED
    BY <2>2 DEF ListPipeline, Image, Content, ContentOf
<1> QED
  BY <1>2, <1>3

LEMMA ListPosts == ListInv /\ WalletStep /\ UNCHANGED list => ListMirror!Post
<1> SUFFICES ASSUME ListInv, WalletStep, UNCHANGED list PROVE ListMirror!Post
  OBVIOUS
<1>1. FeedInv /\ FeedInv'
  BY WalletStepInOrder DEF ListInv
<1>2. PICK e \in Events : queue' = Append(queue, e) /\ e.txs = txs'
  BY <1>1, WalletStepNotifies
<1>3. txs' \in [TxIDs -> Statuses]
  BY <1>1 DEF FeedInv, FeedTypeOK
<1>4. Image(ContentOf)' = Append(Image(ContentOf), ContentOf[txs'])
  BY <1>1, <1>2, ContentOfType, ImageAppend
<1>5. ListPipeline' = Append(ListPipeline, Content(txs')) /\ Content(txs') \in [Simple -> Statuses]
  <2>1. Image(ContentOf)' = ListPipeline' /\ Image(ContentOf) = ListPipeline
    BY <1>1, ListPipelineIsImage
  <2> QED
    BY <1>3, <1>4, <2>1, ContentOfType DEF ContentOf
<1>6. Shown' = Shown
  BY DEF Shown, Rows
<1> QED
  BY <1>5, <1>6, WalletStepKeeps DEF ListMirror!Post, ListPipeline, Content

LEMMA ListDelivers == ListInv /\ ListDeliver => ListMirror!Deliver
<1> SUFFICES ASSUME ListInv, ListDeliver PROVE ListMirror!Deliver
  OBVIOUS
<1>0. ListInv'
  BY ListDelivered
<1>1. Shown' \in [Simple -> Statuses] /\ (ready' => Shown' = Content(seen'))
  <2>1. (ListInv => /\ Shown \in [Simple -> Statuses]
                    /\ ready => Shown = Content(seen))'
    BY ShownFacts, PTL
  <2>2. Content(seen)' = Content(seen')
    BY DEF Content
  <2> QED
    BY <1>0, <2>1, <2>2
<1>2. /\ FeedInv /\ FeedInv' /\ ready \in BOOLEAN /\ ready' \in BOOLEAN
      /\ queue # <<>> /\ queue' = Tail(queue) /\ txs' = txs
      /\ ready' = (ready \/ Head(queue).action = "Reset")
      /\ seen' = Head(queue).txs
  BY <1>0 DEF ListDeliver, TakeNotification, ListInv
<1>3. /\ Image(ContentOf) # <<>>
      /\ Head(Image(ContentOf)) = ContentOf[Head(queue).txs]
      /\ Image(ContentOf)' = Tail(Image(ContentOf))
      /\ Head(queue).txs \in [TxIDs -> Statuses]
  BY <1>2, ContentOfType, ImageTail
<1>4. /\ ListPipeline # <<>>
      /\ Head(ListPipeline) = Content(Head(queue).txs)
      /\ ListPipeline' = Tail(ListPipeline)
  <2>1. Image(ContentOf)' = ListPipeline' /\ Image(ContentOf) = ListPipeline
    BY <1>2, ListPipelineIsImage
  <2> QED
    BY <1>3, <2>1 DEF ContentOf
<1>5. Content(txs)' = Content(txs)
  BY <1>2 DEF Content
<1> QED
  BY <1>1, <1>2, <1>4, <1>5 DEF ListMirror!Deliver, ListPipeline

LEMMA ListMirrorInitial == ListInit => ListMirror!Init
<1> SUFFICES ASSUME ListInit PROVE ListMirror!Init
  OBVIOUS
<1>1. txs \in [TxIDs -> Statuses] /\ Simple \subseteq TxIDs /\ ListInv
  BY ViewsAssumption, ListInitial DEF ListInit, FeedInit, ListConstants
<1>2. Content(txs) \in [Simple -> Statuses]
  BY <1>1 DEF Content
<1>3. Shown \in [Simple -> Statuses]
  BY <1>1, ShownFacts
<1> QED
  BY <1>2, <1>3 DEF ListMirror!Init, ListInit, FeedInit

LEMMA ListMirrorStep ==
    ListInv /\ [ListNext]_<<feedVars, list>> => [ListMirror!Next]_(ListMirror!mirrorVars)
<1> SUFFICES ASSUME ListInv, [ListNext]_<<feedVars, list>>
             PROVE  [ListMirror!Next]_(ListMirror!mirrorVars)
  OBVIOUS
<1>1. CASE WalletStep /\ UNCHANGED list
  BY <1>1, ListPosts DEF ListMirror!Next
<1>2. CASE ListDeliver
  BY <1>2, ListDelivers DEF ListMirror!Next
<1>3. CASE UNCHANGED <<feedVars, list>>
  BY <1>3 DEF ListMirror!mirrorVars, Content, Shown, Rows, feedVars
<1> QED
  BY <1>1, <1>2, <1>3 DEF ListNext

\* The table of transactions implements Mirror: after the first complete list
\* each event brings it to the simple transactions the wallet had when it posted
\* that event, each in its status of then.
THEOREM TableMirrorsTransactions == Spec => MirrorsTransactions
<1>1. ListSpec => MirrorsTransactions
  BY ListMirrorInitial, ListMirrorStep, ListInvariant, PTL
     DEF ListSpec, MirrorsTransactions, ListMirror!Spec
<1> QED
  BY <1>1, ViewsImplementList, PTL

\* An event other than a complete list moves no row of the table.
LEMMA DeliveryKeepsOrder ==
    ListInv /\ ListInv' /\ ListDeliver /\ Head(queue).action # "Reset"
        => KeepsOrder(list, list')
<1> SUFFICES ASSUME ListInv, ListInv', ListDeliver, Head(queue).action # "Reset"
             PROVE  KeepsOrder(list, list')
  OBVIOUS
<1>e. PICK e : e = Head(queue)
  OBVIOUS
<1>1. e \in Events /\ e.action # "Reset" /\ Follows(e, seen)
  BY <1>e, TakeInOrder DEF ListInv, ListDeliver, FeedInv, FeedTypeOK
<1>2. list \in Seq(ListRows) /\ OneEach(list) /\ OneEach(list')
  BY DEF ListInv
<1>3. PICK items \in Items(e) :
          \/ e.action = "Reset"   /\ list' = Reset(items)
          \/ e.action = "Removed" /\ list' = RemoveItems(list, items)
          \/ e.action = "Added"   /\ list' = Insert(list, items)
          \/ e.action = "Updated" /\ list' = Update(list, items)
  BY <1>e DEF ListDeliver, OnTransactionsChanged
<1>4. items \in Seq([id : Simple, status : Statuses])
  BY <1>1, ItemsFacts
<1>5. CASE e.action = "Removed"
  <2>1. list' = RemoveItems(list, items)
    BY <1>3, <1>5
  <2> QED
    BY <1>2, <1>4, <2>1, RemoveItemsOrder
<1>6. CASE e.action \in {"Added", "Updated"}
  <2>1. \A id \in e.ids : e.txs[id] # "absent"
    <3>1. CASE e.action = "Added"
      BY <1>1, <3>1 DEF Follows
    <3>2. CASE e.action = "Updated"
      <4>1. ASSUME NEW id \in e.ids PROVE e.txs[id] # "absent"
        <5>1. e.txs[id] \in Following(seen[id]) /\ seen[id] \in Statuses \ {"absent"}
          BY <1>1, <3>2 DEF Follows, ListInv, FeedInv, FeedTypeOK, Events
        <5> QED
          BY <5>1, FollowingPresent
      <4> QED
        BY <4>1
    <3> QED
      BY <1>6, <3>1, <3>2
  <2>2. items \in Seq(ListRows)
    BY <1>1, <2>1, ItemsAreRows
  <2>3. CASE e.action = "Added"
    <3>1. list' = Insert(list, items)
      BY <1>3, <2>3
    <3>2. OneEach(Insert(list, items))
      BY <1>2, <3>1
    <3>3. KeepsOrder(list, Insert(list, items))
      BY <1>2, <2>2, <3>2, InsertOrder
    <3> QED
      BY <3>1, <3>3
  <2>4. CASE e.action = "Updated"
    <3>1. list' = Update(list, items)
      BY <1>3, <2>4
    <3>2. KeepsOrder(list, Update(list, items))
      BY <1>2, <2>2, UpdateOrder
    <3> QED
      BY <3>1, <3>2
  <2> QED
    BY <1>6, <2>3, <2>4
<1> QED
  BY <1>1, <1>5, <1>6 DEF Events, Actions

\* What the user selected or opened stays where it is, whatever several rows an
\* event is about (list_model.h, wallet_view.cpp onTransactionsChanged).
THEOREM RowsAlwaysKeepOrder == Spec => RowsKeepOrder
<1>1. ListInv /\ ListInv' /\ [ListNext]_<<feedVars, list>> =>
         [queue # <<>> /\ queue' = Tail(queue) /\ Head(queue).action # "Reset" =>
            \A i, j \in DOMAIN list : \A k, l \in DOMAIN list' :
              list[i].id = list'[k].id /\ list[j].id = list'[l].id => (i < j <=> k < l)]_<<queue, list>>
  <2> SUFFICES ASSUME ListInv, ListInv', [ListNext]_<<feedVars, list>>,
                      queue # <<>>, queue' = Tail(queue), Head(queue).action # "Reset"
               PROVE  KeepsOrder(list, list')
    <3>1. DOMAIN list = 1..Len(list) /\ DOMAIN list' = 1..Len(list')
      BY DEF ListInv
    <3> QED
      BY <3>1 DEF KeepsOrder
  <2>1. OneEach(list)
    BY DEF ListInv
  <2>2. CASE UNCHANGED list
    BY <2>1, <2>2 DEF KeepsOrder, OneEach
  <2>3. CASE ListDeliver
    BY <2>3, DeliveryKeepsOrder
  <2> QED
    BY <2>2, <2>3 DEF ListNext
<1> QED
  BY <1>1, ViewsImplementList, ListInvariant, PTL DEF ListSpec, RowsKeepOrder

-----------------------------------------------------------------------------
\* The views keep their types whatever comes (TransactionList, ActiveSwaps,
\* BusyAddresses).
THEOREM ViewsTypeCorrect == Spec => []TypeOK
<1>1. ListInv => FeedTypeOK /\ ready \in BOOLEAN /\ ListTypeOK
  BY DEF ListInv, FeedInv, ListTypeOK, ListRows
<1>2. SwapInv => SwapTypeOK
  BY DEF SwapInv, SwapTypes, SwapTypeOK
<1>3. BusyInv => BusyTypeOK
  BY DEF BusyInv
<1>4. Spec => []SwapInv
  BY ViewsAssumption, ViewsImplementSwapPage, SwapInvariant, PTL
<1>5. ListInv /\ SwapInv /\ BusyInv => TypeOK
  BY <1>1, <1>2, <1>3 DEF TypeOK
<1> QED
  BY <1>4, <1>5, ViewsImplementList, ListInvariant, BusyInvariant, PTL
=============================================================================
