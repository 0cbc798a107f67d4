----------------------------- MODULE SwapOffers -----------------------------
(***************************************************************************)
(* The offers of the swap page (SwapOffersViewModel): the table of all     *)
(* offers and the table of those the user can accept with the money there  *)
(* is.  The wallet tells of its offers and of its available amount, the    *)
(* clients of the swap coins of their balances and states; everything is   *)
(* posted to the UI thread.  Each table is changed by its own call, with   *)
(* the balances as they are at that moment.                                *)
(*                                                                         *)
(* The wallet and the coin clients are external: any balance may come.     *)
(* Expiration times are left out.                                          *)
(***************************************************************************)
EXTENDS ListModel, Integers

CONSTANTS
    Offers,         \* ids of swap offers
    Coins,          \* swap coins
    MaxBalance,     \* bound: amounts of money
    MaxOfferPosts   \* bound: signals waiting for the UI thread

ASSUME OffersAssumption == IsFiniteSet(Offers)
ASSUME MaxBalanceAssumption == MaxBalance \in Nat \ {0}
ASSUME MaxOfferPostsAssumption == MaxOfferPosts \in Nat \ {0}

VARIABLES
    terms,          \* what every offer is for; an offer does not change
    board,          \* offers the wallet knows of
    offerPosts,     \* signals on their way to the UI thread
    available,      \* WalletModel: the available amount
    coinBalance,    \* SwapCoinClientModel: m_balance of every coin
    coinOK,         \* SwapCoinClientModel: m_status is Connected
    allOffers,      \* m_offersList
    fitOffers       \* m_offersListFitBalance

offerVars == <<terms, board, offerPosts, available, coinBalance, coinOK, allOffers, fitOffers>>

Amounts == 0..MaxBalance
Terms == [own : BOOLEAN, sendsHds : BOOLEAN, coin : Coins, hds : 1..MaxBalance, amount : 1..MaxBalance]
Rows(ids) == {[id |-> id] : id \in ids}

\* The page is made with what WalletModel and the clients hold.
OffersInit ==
    /\ terms \in [Offers -> Terms]
    /\ board \in SUBSET Offers
    /\ offerPosts = <<>>
    /\ available \in Amounts
    /\ coinBalance \in [Coins -> Amounts]
    /\ coinOK \in [Coins -> BOOLEAN]
    /\ allOffers = <<>>
    /\ fitOffers = <<>>

-----------------------------------------------------------------------------
(* The wallet and the clients, on their thread *)

PostOffers(signal) ==
    /\ Len(offerPosts) < MaxOfferPosts
    /\ offerPosts' = Append(offerPosts, signal)
    /\ UNCHANGED <<terms, available, coinBalance, coinOK, allOffers, fitOffers>>

AddOffer(id) ==
    /\ id \notin board
    /\ board' = board \cup {id}
    /\ PostOffers([type |-> "Added", offers |-> {id}])

RemoveOffer(id) ==
    /\ id \in board
    /\ board' = board \ {id}
    /\ PostOffers([type |-> "Removed", offers |-> {id}])

\* The answer to getSwapOffers() of this page or of another.
AnswerGetSwapOffers ==
    /\ PostOffers([type |-> "Reset", offers |-> board])
    /\ UNCHANGED board

MoneyMoves ==
    /\ \/ \E amount \in Amounts : PostOffers([type |-> "walletStatus", amount |-> amount])
       \/ \E coin \in Coins, amount \in Amounts :
             PostOffers([type |-> "gotBalance", coin |-> coin, amount |-> amount])
       \/ \E coin \in Coins, ok \in BOOLEAN :
             PostOffers([type |-> "gotStatus", coin |-> coin, ok |-> ok])
    /\ UNCHANGED board

-----------------------------------------------------------------------------
(* The UI thread *)

\* isOfferFitBalance().  The HDS amount must be there in either direction; when
\* the user is to send HDS the coin's wallet only has to be connected.
IsOfferFitBalance(id, hds, balances, connected) ==
    LET t == terms[id]
    IN  \/ t.own
        \/ /\ t.hds <= hds
           /\ IF t.sendsHds
              THEN connected[t.coin]
              ELSE t.amount <= (IF connected[t.coin] THEN balances[t.coin] ELSE 0)

\* The rows of the offers that fit now.
FitRows == Rows({id \in Offers : IsOfferFitBalance(id, available, coinBalance, coinOK)})

Fitting(offers) == Kept(offers, FitRows)

\* resetAllOffersFitBalance(), with the balances just stored.
ResetAllOffersFitBalance == fitOffers' = Reset(Kept(allOffers, FitRows'))

\* Any order: the wallet gives no promise.
SomeOrder(offers) == SetToSeqs(Rows(offers))

\* Only what fits now is looked for.
RemoveAllOffersFitBalance(rows) == RemoveItems(fitOffers, Fitting(rows))

OnSwapOffersDataModelChanged(signal) ==
    /\ \E rows \in SomeOrder(signal.offers) :
          CASE signal.type = "Reset" ->
                 /\ allOffers' = Reset(rows)
                 /\ fitOffers' = Reset(Fitting(allOffers'))
            [] signal.type = "Added" ->
                 /\ allOffers' = Insert(allOffers, rows)
                 /\ fitOffers' = Insert(fitOffers, Fitting(rows))
            [] signal.type = "Removed" ->
                 /\ allOffers' = RemoveItems(allOffers, rows)
                 /\ fitOffers' = RemoveAllOffersFitBalance(rows)
    /\ UNCHANGED <<available, coinBalance, coinOK>>

\* WalletModel::setStatus: availableChanged refills the second table.
SetAvailable(amount) ==
    /\ available' = amount
    /\ UNCHANGED <<allOffers, coinBalance, coinOK>>
    /\ IF amount # available THEN ResetAllOffersFitBalance ELSE UNCHANGED fitOffers

\* SwapCoinClientModel::setBalance: balanceChanged does.
SetBalance(coin, amount) ==
    /\ coinBalance' = [coinBalance EXCEPT ![coin] = amount]
    /\ UNCHANGED <<allOffers, available, coinOK>>
    /\ IF amount # coinBalance[coin] THEN ResetAllOffersFitBalance ELSE UNCHANGED fitOffers

\* Mutant: statusChanged is not connected.
SetStatus_NotConnected(coin, ok) ==
    /\ coinOK' = [coinOK EXCEPT ![coin] = ok]
    /\ UNCHANGED <<allOffers, fitOffers, available, coinBalance>>

\* SwapCoinClientModel::setStatus: statusChanged does.
SetStatus(coin, ok) ==
    /\ coinOK' = [coinOK EXCEPT ![coin] = ok]
    /\ UNCHANGED <<allOffers, available, coinBalance>>
    /\ IF ok # coinOK[coin] THEN ResetAllOffersFitBalance ELSE UNCHANGED fitOffers

TakeOfferPost ==
    /\ offerPosts # <<>>
    /\ offerPosts' = Tail(offerPosts)
    /\ UNCHANGED <<terms, board>>
    /\ LET signal == Head(offerPosts)
       IN  CASE signal.type = "walletStatus" -> SetAvailable(signal.amount)
             [] signal.type = "gotBalance" -> SetBalance(signal.coin, signal.amount)
             [] signal.type = "gotStatus" -> SetStatus(signal.coin, signal.ok)
             [] OTHER -> OnSwapOffersDataModelChanged(signal)

OffersNext ==
    \/ \E id \in Offers : AddOffer(id) \/ RemoveOffer(id)
    \/ AnswerGetSwapOffers
    \/ MoneyMoves
    \/ TakeOfferPost

OffersSpec == OffersInit /\ [][OffersNext]_offerVars

-----------------------------------------------------------------------------
Ids(offers) == {offers[i].id : i \in 1..Len(offers)}

\* The second table has exactly the offers of the first that fit the balances
\* the program shows, one row each, whichever balance, state or offer changed
\* last: it is refilled on some signals and patched on others, and the rows to
\* take out are chosen with the balances of that moment, not those the rows
\* were put in with (swap_offers_view.cpp:365-379, 412-489).
FitIsCurrent ==
    /\ Ids(fitOffers) =
          {id \in Ids(allOffers) : IsOfferFitBalance(id, available, coinBalance, coinOK)}
    /\ Cardinality(Ids(fitOffers)) = Len(fitOffers)
=============================================================================
