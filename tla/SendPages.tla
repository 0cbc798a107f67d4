------------------------------ MODULE SendPages ------------------------------
(***************************************************************************)
(* The send page and the page that accepts a swap on one wallet.  A swap   *)
(* token typed on the send page leads to the other page; what the page     *)
(* that was left has asked is answered to the one that is open.            *)
(***************************************************************************)
EXTENDS SendPage, SendSwapPage

ASSUME PagesAssumption == SendConstants /\ SwapConstants

vars == <<moneyVars, sendVars, swapVars>>

Init == MoneyInit /\ SendClosed /\ SwapClosed

\* The offer's token was checked (tokenFirstTimeAccepted), or the user chose an
\* offer in the table: the send page goes, with its dialog, and the swap page
\* comes.  The check's answer may come whatever the user does meanwhile.
OpenSwap(offer) ==
    /\ IF sendOpen THEN SendClose ELSE UNCHANGED sendVars
    /\ SwapOpens(offer)

\* One event runs the slots of the page that is open.
OnEvent ==
    /\ TakeEvent
    /\ SendOnEvent(Head(posted))
    /\ SwapOnEvent(Head(posted))

Next ==
    \/ WalletStep /\ UNCHANGED <<sendVars, swapVars>>
    \/ ~swapOpen /\ SendStep /\ UNCHANGED swapVars
    \/ \E offer \in Offers : OpenSwap(offer)
    \/ SwapStep /\ UNCHANGED sendVars
    \/ OnEvent

Spec == Init /\ [][Next]_vars

-----------------------------------------------------------------------------
Commands ==
    [kind : {"calcChange"}, total : Nat]
    \cup [kind : {"startTransaction"}, payee : Peers \cup {Nobody, "swap"},
          amount : Nat, fee : Nat]

TypeOK ==
    /\ MoneyTypeOK
    /\ requests \in Seq(Commands)
    /\ SendTypeOK
    /\ SwapTypeOK

-----------------------------------------------------------------------------
(* What makes the properties of the two pages inductive *)

OnePage == ~(sendOpen /\ swapOpen)

\* Nothing of a page that was closed is left for the next one.
ClosedIsReset == ~sendOpen => SendClosed

\* The last question on its way is about the total; when there is none, the last
\* answer on its way is that for the total; when there is none, it is shown.
ChangeFollows(commands, events, from, total, shown) ==
    /\ \A i \in 1..Len(commands) :
          /\ commands[i].kind = "calcChange"
          /\ \A j \in i + 1..Len(commands) : commands[j].kind # "calcChange"
          => commands[i].total = total
    /\ NoneAsked(commands) =>
          \A i \in 1..Len(events) :
             /\ events[i].kind = "change"
             /\ \A j \in i + 1..Len(events) : events[j].kind # "change"
             => events[i].amount = ChangeOf(from, total)
    /\ NoneAsked(commands) /\ NoneAnswered(events) => shown = ChangeOf(from, total)

\* The balance shown after the first i events, when it is before now.
Balance(events, i, before, value) ==
    IF \A j \in 1..i : events[j].kind # "status"
    THEN value = before
    ELSE \E j \in 1..i :
            /\ events[j].kind = "status" /\ events[j].amount = value
            /\ \A k \in j + 1..i : events[k].kind # "status"

\* The balance will be that of the wallet's coins.
BalanceFollows == Balance(posted, Len(posted), available, SumSet(coins))

\* The last answer, on its way or delivered, was calculated with coins of the
\* value that is shown then.
CalcFollows(events, before, value) ==
    \E i \in 0..Len(events) :
        /\ i = 0 \/ events[i].kind = "change"
        /\ \A j \in i + 1..Len(events) : events[j].kind # "change"
        /\ Balance(events, i, before, value)

SendFollows ==
    sendOpen => ChangeFollows(requests, posted, calcCoins, sendAmount + sendFee, change)

SwapFollows ==
    swapOpen /\ payHds =>
        /\ ChangeFollows(requests, posted, calcCoins, swapAmount + swapFee, swapChange)
        /\ NoneAsked(requests) => CalcFollows(posted, available, SumSet(calcCoins))

\* The buttons are what canSend was with what they were evaluated with.
ButtonOfEvaluation ==
    sendOpen => sendEnabled = CanSend(evaluatedAt, receiver, sendAmount, sendFee, change)

SwapButtonOfEvaluation ==
    swapOpen /\ Settled =>
        swapEnabled = SwapCanSend(available, swapSeen, payHds, swapAmount, swapFee, swapChange)

\* Nothing changes what the dialog shows while it is there.
ConfirmIsOfPage ==
    confirm # <<>> =>
        confirm = <<[payee |-> shownPeer, amount |-> sendAmount, fee |-> sendFee]>>

\* A receiver that names a peer is the one in the parameters and the one shown.
PeerIsOfReceiver ==
    receiver \in Payees =>
        \A asked \in ParamsOf[receiver] :
            /\ peer = asked.peer
            /\ asked.peer # Nobody => shownPeer = asked.peer

PagesInv ==
    /\ OnePage
    /\ ClosedIsReset
    /\ BalanceFollows
    /\ SendFollows
    /\ SwapFollows
    /\ ButtonOfEvaluation
    /\ SwapButtonOfEvaluation
    /\ ConfirmIsOfPage
    /\ PeerIsOfReceiver
=============================================================================
