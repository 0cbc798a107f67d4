----------------------------- MODULE SidePages -----------------------------
(***************************************************************************)
(* Four parts of the program that share nothing with one another but the   *)
(* UI thread: the check of swap tokens, the table of swap offers, the node *)
(* part of the settings, the notifications.  A step of one commutes with   *)
(* every step of the others, so each behaviour follows one of them, while  *)
(* the rest stay as they were at first.                                    *)
(***************************************************************************)
EXTENDS TokenBootstrap, SwapOffers, NodeSettings, Notifications

VARIABLE part       \* the part that is followed

sideVars == <<part, vars, offerVars, nodeVars, newsVars>>

\* One initial state is enough for a part that is not followed.
SideInit ==
    /\ part \in {"tokens", "offers", "node", "news"}
    /\ Init
    /\ part # "tokens" => Present(txs) = {}
    /\ OffersInit
    /\ part # "offers" =>
          /\ board = {} /\ available = 0
          /\ terms = [id \in Offers |-> CHOOSE t \in Terms : TRUE]
          /\ \A coin \in Coins : coinBalance[coin] = 0 /\ coinOK[coin]
    /\ NodeInit
    /\ part # "node" => savedAddress = NoAddress /\ savedLocal /\ ~otherChanged
    /\ NewsInit
    /\ part # "news" => Existing = {}

SideNext ==
    \/ part = "tokens" /\ Next /\ UNCHANGED <<part, offerVars, nodeVars, newsVars>>
    \/ part = "offers" /\ OffersNext /\ UNCHANGED <<part, vars, nodeVars, newsVars>>
    \/ part = "node" /\ NodeNext /\ UNCHANGED <<part, vars, offerVars, newsVars>>
    \/ part = "news" /\ NewsNext /\ UNCHANGED <<part, vars, offerVars, nodeVars>>

\* The wallet's thread answers requests and the UI thread handles events.
SideFairness ==
    /\ WF_sideVars(/\ part = "tokens" /\ asked /\ AnswerGetTransactions
                   /\ UNCHANGED <<managerVars, part, offerVars, nodeVars, newsVars>>)
    /\ WF_sideVars(/\ part = "tokens" /\ OnTransactionsChanged
                   /\ UNCHANGED <<part, offerVars, nodeVars, newsVars>>)

SideSpec == SideInit /\ [][SideNext]_sideVars /\ SideFairness
=============================================================================
