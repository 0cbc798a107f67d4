--------------------------- MODULE TokenBootstrap ---------------------------
(***************************************************************************)
(* TokenBootstrapManager: has the swap token the user typed been accepted  *)
(* before?  The manager keeps the ids of the wallet's transactions and the *)
(* tokens it has no verdict on; a token is identified with its transaction *)
(* id.  With no id known it asks the wallet and judges at the next         *)
(* notification, whichever that is.                                        *)
(***************************************************************************)
EXTENDS TxFeed

CONSTANT Tokens     \* the swap offers the user may type a token of

ASSUME TokensAssumption == Tokens \subseteq TxIDs

VARIABLES
    myTxIds,    \* _myTxIds
    inProgress, \* the keys of _tokensInProgress
    said        \* history: the signals the last call or notification emitted

managerVars == <<myTxIds, inProgress, said>>
vars == <<feedVars, managerVars>>

Init ==
    /\ FeedInit
    /\ myTxIds = {} /\ inProgress = {} /\ said = {}

\* Mutant: verdicts are given for the known ids only, the rest is dropped.
CheckIsTxPreviousAccepted_DropsRest(ids, tokens) ==
    /\ said' = {<<id, "previous">> : id \in tokens \cap ids}
    /\ inProgress' = tokens

\* Mutant: the two signals are swapped.
CheckIsTxPreviousAccepted_Swapped(ids, tokens) ==
    /\ said' = {<<id, IF id \in ids THEN "first" ELSE "previous">> : id \in tokens}
    /\ inProgress' = {}

\* checkIsTxPreviousAccepted for the tokens in progress: tokenPreviousAccepted
\* for the ids that are known, tokenFirstTimeAccepted for the rest.
CheckIsTxPreviousAccepted(ids, tokens) ==
    /\ said' = {<<id, IF id \in ids THEN "previous" ELSE "first">> : id \in tokens}
    /\ inProgress' = {}

\* Mutant: without known ids the token just waits.
CheckTokenForDuplicate_NoRequest(id) ==
    /\ IF myTxIds = {}
       THEN /\ inProgress' = inProgress \cup {id}
            /\ said' = {}
       ELSE CheckIsTxPreviousAccepted(myTxIds, inProgress \cup {id})
    /\ UNCHANGED <<txs, asked, queue, seen, myTxIds, ready>>

\* checkTokenForDuplicate for a token that parses and is not one's own.
CheckTokenForDuplicate(id) ==
    /\ IF myTxIds = {}
       THEN /\ inProgress' = inProgress \cup {id}
            /\ said' = {}
            /\ asked' = TRUE
       ELSE /\ CheckIsTxPreviousAccepted(myTxIds, inProgress \cup {id})
            /\ UNCHANGED asked
    /\ UNCHANGED <<txs, queue, seen, myTxIds, ready>>

\* The same when its peer is an own address: tokenOwnGenerated, nothing else.
OwnToken(id) ==
    /\ said' = {<<id, "own">>}
    /\ UNCHANGED <<feedVars, myTxIds, inProgress>>

\* Mutant: removed transactions stay known.
KnownAfter_NoRemove(e) ==
    IF e.action = "Reset" THEN e.ids ELSE myTxIds \cup e.ids

\* onTransactionsChanged: the ids known after the event.
KnownAfter(e) ==
    CASE e.action = "Reset"   -> e.ids
      [] e.action = "Removed" -> myTxIds \ e.ids
      [] OTHER                -> myTxIds \cup e.ids

OnTransactionsChanged ==
    /\ TakeNotification
    /\ myTxIds' = KnownAfter(Head(queue))
    /\ CheckIsTxPreviousAccepted(myTxIds', inProgress)
    /\ UNCHANGED asked

Next ==
    \/ WalletStep /\ UNCHANGED managerVars
    \/ OnTransactionsChanged
    \/ \E id \in Tokens : CheckTokenForDuplicate(id) \/ OwnToken(id)

Spec == Init /\ [][Next]_vars

-----------------------------------------------------------------------------
TypeOK ==
    /\ FeedTypeOK
    /\ myTxIds \subseteq TxIDs
    /\ inProgress \subseteq Tokens
    /\ said \subseteq Tokens \X {"previous", "first", "own"}
    /\ ready \in BOOLEAN

\* tokenPreviousAccepted is only emitted for a transaction the wallet has, and
\* tokenFirstTimeAccepted, once a Reset was delivered, only for one it does not
\* have, as far as the wallet had reported.  Before that Reset the second half
\* can fail: a notification of one transaction makes the rest look unknown.
VerdictsRight ==
    \A id \in Tokens :
        /\ <<id, "previous">> \in said => id \in Present(seen)
        /\ ready /\ <<id, "first">> \in said => id \notin Present(seen)

\* A token without a verdict is never left without a request or a notification
\* on its way (the conditional at the end of checkTokenForDuplicate).
NoTokenStranded == inProgress # {} => asked \/ queue # <<>>

\* Every token that is checked gets its verdict, an empty wallet included.
EveryTokenAnswered == \A id \in Tokens : id \in inProgress ~> id \notin inProgress

\* The known ids follow the wallet: Mirror, with the transactions there are.
IdsMirror ==
    INSTANCE Mirror WITH
        Contents <- SUBSET TxIDs,
        source   <- Present(txs),
        pipeline <- [i \in 1..Len(queue) |-> Present(queue[i].txs)],
        shown    <- myTxIds

\* The ids the manager compares with are those of the wallet.
MirrorsIds == IdsMirror!Spec
=============================================================================
