--------------------------- MODULE TransactionList ---------------------------
(***************************************************************************)
(* WalletViewModel's table of transactions: a ListModel that               *)
(* onTransactionsChanged keeps in step with the wallet.  Only simple       *)
(* transactions that move no asset are shown.                              *)
(***************************************************************************)
EXTENDS TxFeed, ListModel

CONSTANT Simple     \* the transactions of type Simple and without an asset

ListConstants == Simple \subseteq TxIDs

VARIABLE list       \* _transactionsList: rows of an id and the status shown

ListInit == FeedInit /\ list = <<>>

\* Mutant: transactions of the other types are not left out.
Items_AllTypes(e) ==
    {[i \in DOMAIN o |-> [id |-> o[i], status |-> e.txs[o[i]]]] : o \in SetToSeqs(e.ids)}

\* modifiedTransactions: the items the table is for, in the order they come.
Items(e) ==
    {[i \in DOMAIN o |-> [id |-> o[i], status |-> e.txs[o[i]]]] :
        o \in SetToSeqs(e.ids \cap Simple)}

\* onTransactionsChanged
OnTransactionsChanged(e) ==
    \E items \in Items(e) :
        \/ e.action = "Reset"   /\ list' = Reset(items)
        \/ e.action = "Removed" /\ list' = RemoveItems(list, items)
        \/ e.action = "Added"   /\ list' = Insert(list, items)
        \/ e.action = "Updated" /\ list' = Update(list, items)

ListDeliver ==
    /\ TakeNotification
    /\ OnTransactionsChanged(Head(queue))
    /\ UNCHANGED asked

ListNext ==
    \/ WalletStep /\ UNCHANGED list
    \/ ListDeliver

ListSpec == ListInit /\ [][ListNext]_<<feedVars, list>>

-----------------------------------------------------------------------------
Rows == {list[i] : i \in DOMAIN list}
Ids == {row.id : row \in Rows}

ListTypeOK == list \in Seq([id : Simple, status : Statuses \ {"absent"}])

\* A transaction has one row.  insert() does not look for the item's id: only
\* the order of the Reset among the other events keeps rows from doubling.
OneRowEach ==
    \A i, j \in DOMAIN list : list[i].id = list[j].id => i = j

\* An event about a transaction that is shown moves no other row: what the user
\* selected or opened stays where it is.
RowsKeepOrder ==
    [][queue # <<>> /\ queue' = Tail(queue) /\ Head(queue).action # "Reset" =>
       \A i, j \in DOMAIN list : \A k, l \in DOMAIN list' :
           list[i].id = list'[k].id /\ list[j].id = list'[l].id => (i < j <=> k < l)]_<<queue, list>>

\* The table as a function of the transaction.
Content(t) == [id \in Simple |-> t[id]]
Shown == [id \in Simple |->
             IF \E row \in Rows : row.id = id
             THEN (CHOOSE row \in Rows : row.id = id).status
             ELSE "absent"]

\* The table follows the wallet: Mirror, with the simple transactions.
ListMirror ==
    INSTANCE Mirror WITH
        Contents <- [Simple -> Statuses],
        source   <- Content(txs),
        pipeline <- [i \in 1..Len(queue) |-> Content(queue[i].txs)],
        shown    <- Shown

\* The user sees the transactions of the wallet, each in its latest status.
MirrorsTransactions == ListMirror!Spec
=============================================================================
