------------------------------- MODULE TxFeed -------------------------------
(***************************************************************************)
(* The transactions as one view model gets to know them.  The wallet runs  *)
(* on the reactor thread (WalletClient, external): it changes its          *)
(* transactions, notifies of every change and answers getTransactions()    *)
(* with a Reset that carries all of them.  WalletModel::onTxStatus only    *)
(* forwards a notification as a signal, and Qt posts the signal to the UI  *)
(* thread: events are delivered in order, each with the items as they were *)
(* when it was posted.                                                     *)
(*                                                                         *)
(* Statuses are kept as far as the views tell them apart: "active" is      *)
(* InProgress or Registering, "ended" is Completed, Canceled or Failed.    *)
(***************************************************************************)
EXTENDS Integers, Sequences, FiniteSets

CONSTANTS
    TxIDs,          \* transaction ids
    EndedRepeats,   \* the wallet may notify again of a transaction that ended
    MaxQueue        \* bound: notifications waiting for the UI thread

ASSUME EndedRepeatsAssumption == EndedRepeats \in BOOLEAN
ASSUME MaxQueueAssumption == MaxQueue \in Nat \ {0}

VARIABLES
    txs,        \* the wallet's transactions: the status of every id
    asked,      \* getTransactions() of this view is not answered yet
    queue,      \* notifications posted to the UI thread
    seen,       \* history: txs at the last notification delivered
    ready       \* history: a Reset was delivered

feedVars == <<txs, asked, queue, seen, ready>>

Statuses == {"absent", "pending", "active", "ended"}
Present(t) == {id \in TxIDs : t[id] # "absent"}

\* The statuses a transaction can go to; a notification may also repeat the
\* status it has, when another of its parameters changed.
Following(s) ==
    CASE s = "pending" -> {"pending", "active", "ended"}
      [] s = "active"  -> {"active", "ended"}
      [] s = "ended"   -> IF EndedRepeats THEN {"ended"} ELSE {}

\* WalletClient notifies with the action and the items; the items are the
\* ids, with the status each has in the event's txs.
Notify(action, ids, after) ==
    /\ Len(queue) < MaxQueue
    /\ queue' = Append(queue, [action |-> action, ids |-> ids, txs |-> after])

FeedInit ==
    /\ txs \in [TxIDs -> Statuses]
    /\ asked = TRUE
    /\ queue = <<>>
    /\ seen = txs
    /\ ready = FALSE

\* A transaction is made here or arrives from a peer.
AddTx(id, s) ==
    /\ txs[id] = "absent"
    /\ txs' = [txs EXCEPT ![id] = s]
    /\ Notify("Added", {id}, txs')
    /\ UNCHANGED <<asked, seen, ready>>

UpdateTx(id) ==
    /\ txs[id] # "absent"
    /\ \E s \in Following(txs[id]) : txs' = [txs EXCEPT ![id] = s]
    /\ Notify("Updated", {id}, txs')
    /\ UNCHANGED <<asked, seen, ready>>

\* deleteTx: only what canDelete() allows goes.
DeleteTx(id) ==
    /\ txs[id] = "ended"
    /\ txs' = [txs EXCEPT ![id] = "absent"]
    /\ Notify("Removed", {id}, txs')
    /\ UNCHANGED <<asked, seen, ready>>

\* The answer to getTransactions() of this view or of any other: all views
\* are connected to the same signal.
AnswerGetTransactions ==
    /\ Notify("Reset", Present(txs), txs)
    /\ asked' = FALSE
    /\ UNCHANGED <<txs, seen, ready>>

WalletStep ==
    \/ \E id \in TxIDs : UpdateTx(id) \/ DeleteTx(id)
    \/ \E id \in TxIDs, s \in {"pending", "active"} : AddTx(id, s)
    \/ AnswerGetTransactions

\* The UI thread takes the next notification.
TakeNotification ==
    /\ queue # <<>>
    /\ queue' = Tail(queue)
    /\ seen' = Head(queue).txs
    /\ ready' = (ready \/ Head(queue).action = "Reset")
    /\ UNCHANGED txs

-----------------------------------------------------------------------------
Actions == {"Reset", "Added", "Updated", "Removed"}
Events == [action : Actions, ids : SUBSET TxIDs, txs : [TxIDs -> Statuses]]

FeedTypeOK ==
    /\ txs \in [TxIDs -> Statuses]
    /\ asked \in BOOLEAN
    /\ queue \in Seq(Events)
    /\ seen \in [TxIDs -> Statuses]

\* What an event says of the change from the transactions before it.
Follows(e, before) ==
    /\ \A id \in TxIDs \ e.ids : e.txs[id] = before[id] \/ e.action = "Reset"
    /\ e.action = "Reset" => e.ids = Present(e.txs) /\ e.txs = before
    /\ e.action = "Added" => \A id \in e.ids : before[id] = "absent" /\ e.txs[id] # "absent"
    /\ e.action = "Updated" => \A id \in e.ids :
          before[id] # "absent" /\ e.txs[id] \in Following(before[id])
    /\ e.action = "Removed" => \A id \in e.ids : before[id] = "ended" /\ e.txs[id] = "absent"

\* The queue is the wallet's history since the last delivered event.
FeedInOrder ==
    /\ \A i \in 1..Len(queue) :
          Follows(queue[i], IF i = 1 THEN seen ELSE queue[i - 1].txs)
    /\ txs = IF queue = <<>> THEN seen ELSE queue[Len(queue)].txs
=============================================================================
