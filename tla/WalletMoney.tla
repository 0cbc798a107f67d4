---------------------------- MODULE WalletMoney ----------------------------
(***************************************************************************)
(* The wallet's coins as the pages that spend them see them: the balance   *)
(* in WalletModel's status, and the questions a page asks through          *)
(* getAsync(): what change a total leaves, and to start a transaction.     *)
(* The reactor thread answers in the order it was asked; an answer carries *)
(* no request and goes to every page that is open.  The least fee is       *)
(* another when the chain has passed a fork, which nobody announces.  The  *)
(* wallet's side is external.                                              *)
(***************************************************************************)
EXTENDS Naturals, Sequences, FiniteSetsExt

CONSTANTS
    Holdings,       \* the sets of coins the wallet can have, a coin is its value
    DefaultFee,     \* kDefaultFeeInGroth, the least fee before fork 1
    Fork1Fee,       \* kFeeInGroth_Fork1, the least fee after it
    MaxPending      \* requests, and events, waiting at most

ASSUME HoldingsAssumption ==
    \A holding \in Holdings : holding \subseteq Nat \ {0} /\ IsFiniteSet(holding)
ASSUME LeastFeesAssumption == DefaultFee \in Nat \ {0} /\ Fork1Fee \in Nat \ {0}
ASSUME MaxPendingAssumption == MaxPending \in Nat \ {0}

VARIABLES
    coins,      \* the wallet's coins
    requests,   \* commands posted to the reactor thread
    posted,     \* events posted to the UI thread
    available,  \* m_status.available
    minFee,     \* minFeeHds(): what isFork1() makes it now
    calcCoins   \* history: the coins the last change was calculated with

moneyVars == <<coins, requests, posted, available, minFee, calcCoins>>

MoneyInit ==
    /\ coins \in Holdings
    /\ requests = <<>> /\ posted = <<>>
    /\ available = SumSet(coins)
    /\ minFee \in {DefaultFee, Fork1Fee}
    /\ calcCoins = coins

CalcChange(total) == [kind |-> "calcChange", total |-> total]
StartTransaction(payee, amount, fee) ==
    [kind |-> "startTransaction", payee |-> payee, amount |-> amount, fee |-> fee]

\* The page asks the reactor, by getAsync().
Ask(commands) ==
    /\ Len(requests) + Len(commands) <= MaxPending
    /\ requests' = requests \o commands

\* The least coins that cover the total give the change; without them, none.
ChangeOf(from, total) ==
    LET covering == {s \in {SumSet(S) : S \in SUBSET from} : s >= total}
    IN  IF covering = {} THEN 0 ELSE Min(covering) - total

Post(event) ==
    /\ Len(posted) < MaxPending
    /\ posted' = Append(posted, event)

\* Coins come and go: payments, swaps that go on, the chain.
MoneyMoves ==
    /\ coins' \in Holdings \ {coins}
    /\ Post([kind |-> "status", amount |-> SumSet(coins')])
    /\ UNCHANGED <<requests, available, minFee, calcCoins>>

\* The chain passes the fork; nothing is emitted.
Fork1 ==
    /\ minFee # Fork1Fee /\ minFee' = Fork1Fee
    /\ UNCHANGED <<coins, requests, posted, available, calcCoins>>

AnswerCalcChange ==
    /\ requests # <<>> /\ Head(requests).kind = "calcChange"
    /\ requests' = Tail(requests)
    /\ Post([kind |-> "change", amount |-> ChangeOf(coins, Head(requests).total)])
    /\ calcCoins' = coins
    /\ UNCHANGED <<coins, available, minFee>>

\* The transaction is made, or the peer's address expired.
AnswerStartTransaction ==
    /\ requests # <<>> /\ Head(requests).kind = "startTransaction"
    /\ requests' = Tail(requests)
    /\ \E kind \in {"verified", "expired"} : Post([kind |-> kind])
    /\ UNCHANGED <<coins, available, minFee, calcCoins>>

WalletStep == MoneyMoves \/ Fork1 \/ AnswerCalcChange \/ AnswerStartTransaction

\* The UI thread takes the next event; setStatus is WalletModel's own handler.
TakeEvent ==
    /\ posted # <<>>
    /\ posted' = Tail(posted)
    /\ IF Head(posted).kind = "status"
       THEN available' = Head(posted).amount
       ELSE UNCHANGED available
    /\ UNCHANGED <<coins, minFee, calcCoins>>

AvailableChanged(e) == e.kind = "status" /\ e.amount # available

-----------------------------------------------------------------------------
\* Every calcChange was answered and the answer delivered.
NoneAsked(commands) == \A i \in 1..Len(commands) : commands[i].kind # "calcChange"
NoneAnswered(events) == \A i \in 1..Len(events) : events[i].kind # "change"
Settled == NoneAsked(requests) /\ NoneAnswered(posted)

MoneyEvents ==
    [kind : {"status", "change"}, amount : Nat] \cup [kind : {"verified", "expired"}]

MoneyTypeOK ==
    /\ coins \in Holdings /\ calcCoins \in Holdings
    /\ available \in Nat /\ minFee \in {DefaultFee, Fork1Fee}
    /\ posted \in Seq(MoneyEvents)
=============================================================================
