------------------------------ MODULE SendPage ------------------------------
(***************************************************************************)
(* SendViewModel and its page (send_regular.qml): the receiver's address   *)
(* or token, amount, fee and the change the wallet calculates for them;    *)
(* the Send button, which QML evaluates when canSendChanged is emitted,    *)
(* and the confirmation dialog.  The page's answers are taken from every   *)
(* changeCalculated, whoever asked.                                        *)
(***************************************************************************)
EXTENDS WalletMoney

CONSTANTS
    Payees,         \* the addresses and tokens that are valid
    Peers,          \* the wallet ids one can pay
    ParamsOf,       \* what ParseParameters finds in each; {} when it fails
    Amounts, Fees,  \* what the user may type
    FeeRange,       \* 2^32 in the code: fees are unsigned int
    Nobody          \* nothing typed, or what is not valid; no peer

\* What a token may say: a PeerID (Nobody: none), an amount (0: none), a fee ({}:
\* none).  An address is only its PeerID.
Params == [peer : Peers \cup {Nobody}, amount : Nat, fee : SUBSET Nat]

SendConstants ==
    /\ ParamsOf \in [Payees -> SUBSET Params]
    /\ \A to \in Payees : \A asked, other \in ParamsOf[to] : asked = other
    /\ FeeRange \in Nat \ {0}
    /\ Amounts \subseteq Nat /\ Fees \subseteq Nat
    /\ Nobody \notin Payees \cup Peers

VARIABLES
    sendOpen,       \* the page is on the stack, its view model exists
    receiver,       \* _receiverTA
    peer,           \* the PeerID in _txParameters
    shownPeer,      \* _receiverAddress
    sendAmount,     \* _sendAmountGrothes
    sendFee,        \* _feeGrothes
    change,         \* _changeGrothes
    sendEnabled,    \* the button: canSend when QML evaluated it last
    evaluatedAt,    \* history: SendInputs when QML evaluated it
    confirm         \* what the confirmation dialog shows, <<>> when closed

sendVars == <<sendOpen, receiver, peer, shownPeer, sendAmount, sendFee, change,
              sendEnabled, evaluatedAt, confirm>>

\* What canSend reads and the page is not told of.
SendInputs == [available |-> available, minFee |-> minFee]
NoInputs == [available |-> 0, minFee |-> 0]

IsEnough(money, amount, fee, rest) == money >= amount + fee + rest

CanSend(inputs, to, amount, fee, rest) ==
    /\ to \in Payees
    /\ amount > 0
    /\ IsEnough(inputs.available, amount, fee, rest)
    /\ fee >= inputs.minFee

\* canSendChanged is emitted: the button is evaluated with what is set now.
CanSendChanged ==
    /\ sendEnabled' = CanSend(SendInputs', receiver', sendAmount', sendFee', change')
    /\ evaluatedAt' = SendInputs'

SendClosed ==
    /\ sendOpen = FALSE
    /\ receiver = Nobody /\ peer = Nobody /\ shownPeer = Nobody
    /\ sendAmount = 0 /\ sendFee = 0 /\ change = 0
    /\ sendEnabled = FALSE /\ evaluatedAt = NoInputs /\ confirm = <<>>

SendClose ==
    /\ sendOpen' = FALSE
    /\ receiver' = Nobody /\ peer' = Nobody /\ shownPeer' = Nobody
    /\ sendAmount' = 0 /\ sendFee' = 0 /\ change' = 0
    /\ sendEnabled' = FALSE /\ evaluatedAt' = NoInputs /\ confirm' = <<>>

\* The page is pushed; its binding sets the default fee, the least one now.
SendOpens ==
    /\ ~sendOpen
    /\ sendOpen' = TRUE
    /\ sendFee' = minFee
    /\ Ask(<<CalcChange(minFee)>>)
    /\ UNCHANGED <<receiver, peer, shownPeer, sendAmount, change, confirm,
                   coins, posted, available, minFee, calcCoins>>
    /\ CanSendChanged

\* The user can edit: no dialog is in front of the page.
Editing == sendOpen /\ confirm = <<>>

\* Mutant: a change of the fee asks for no change.
SetFeeGrothes_NotAsked(fee) ==
    /\ Editing /\ fee # sendFee
    /\ sendFee' = fee
    /\ UNCHANGED <<moneyVars, sendOpen, receiver, peer, shownPeer, sendAmount, change,
                   confirm>>
    /\ CanSendChanged

SetFeeGrothes(fee) ==
    /\ Editing /\ fee # sendFee
    /\ sendFee' = fee
    /\ Ask(<<CalcChange(sendAmount + fee)>>)
    /\ UNCHANGED <<sendOpen, receiver, peer, shownPeer, sendAmount, change, confirm,
                   coins, posted, available, minFee, calcCoins>>
    /\ CanSendChanged

SetSendAmount(amount) ==
    /\ Editing /\ amount # sendAmount
    /\ sendAmount' = amount
    /\ Ask(<<CalcChange(amount + sendFee)>>)
    /\ UNCHANGED <<sendOpen, receiver, peer, shownPeer, sendFee, change, confirm,
                   coins, posted, available, minFee, calcCoins>>
    /\ CanSendChanged

\* Mutant: the fee may be more than there is.
MaxAvailable_Unchecked == available - sendFee

\* getMaxAvailable
MaxAvailable == IF available > sendFee THEN available - sendFee ELSE 0

SetMaxAvailableAmount == SetSendAmount(MaxAvailable)

\* Mutant: the address is shown once.
ExtractParameters_ShownOnce(to) ==
    \E asked \in ParamsOf[to] :
        /\ peer' = asked.peer
        /\ shownPeer' = IF shownPeer = Nobody THEN asked.peer ELSE shownPeer
        /\ UNCHANGED <<sendAmount, sendFee, requests>>

\* What the text says replaces _txParameters; the address shown follows only when
\* there is a PeerID.  An amount and a fee, cut to an unsigned int, replace those
\* of the page, each asking for its change; what is not said stays.
ExtractParameters(to) ==
    \/ ParamsOf[to] = {} /\ UNCHANGED <<peer, shownPeer, sendAmount, sendFee, requests>>
    \/ \E asked \in ParamsOf[to] :
          LET setsAmount == asked.amount > 0 /\ asked.amount # sendAmount
              fees == {fee % FeeRange : fee \in asked.fee} \ {sendFee}
          IN /\ peer' = asked.peer
             /\ shownPeer' = IF asked.peer = Nobody THEN shownPeer ELSE asked.peer
             /\ sendAmount' = IF setsAmount THEN asked.amount ELSE sendAmount
             /\ IF fees # {} THEN sendFee' \in fees ELSE UNCHANGED sendFee
             /\ Ask((IF setsAmount THEN <<CalcChange(sendAmount' + sendFee)>> ELSE <<>>)
                    \o (IF fees # {} THEN <<CalcChange(sendAmount' + sendFee')>> ELSE <<>>))

SetReceiverTA(to) ==
    /\ Editing /\ to # receiver
    /\ receiver' = to
    /\ IF to \in Payees
       THEN ExtractParameters(to)
       ELSE UNCHANGED <<peer, shownPeer, sendAmount, sendFee, requests>>
    /\ UNCHANGED <<sendOpen, change, confirm, coins, posted, available, minFee, calcCoins>>
    /\ CanSendChanged

\* Mutant: QML is not told.
OnChangeCalculated_Silent(amount) ==
    /\ change' = amount
    /\ UNCHANGED <<sendOpen, receiver, peer, shownPeer, sendAmount, sendFee, confirm,
                   sendEnabled, evaluatedAt>>

OnChangeCalculated(amount) ==
    /\ change' = amount
    /\ UNCHANGED <<sendOpen, receiver, peer, shownPeer, sendAmount, sendFee, confirm>>
    /\ CanSendChanged

\* The send button opens the dialog with what the page holds.
ClickSend ==
    /\ Editing /\ sendEnabled
    /\ confirm' = <<[payee |-> shownPeer, amount |-> sendAmount, fee |-> sendFee]>>
    /\ UNCHANGED <<moneyVars, sendOpen, receiver, peer, shownPeer, sendAmount, sendFee, change,
                   sendEnabled, evaluatedAt>>

CanSendNow == CanSend(SendInputs, receiver, sendAmount, sendFee, change)

\* *_txParameters.GetParameter(PeerID): without one an empty optional is read,
\* and whatever id is in memory is paid, if the program goes on at all.
ReadPeer == IF peer = Nobody THEN Peers \cup {Nobody} ELSE {peer}

\* sendMoney, when the user accepts.  In a release build the assertion is off
\* and nothing is sent when it fails.
SendMoney ==
    /\ confirm # <<>>
    /\ IF CanSendNow
       THEN \E whom \in ReadPeer : Ask(<<StartTransaction(whom, sendAmount, sendFee)>>)
       ELSE UNCHANGED requests
    /\ confirm' = <<>>
    /\ UNCHANGED <<coins, posted, available, minFee, calcCoins, sendOpen, receiver, peer,
                   shownPeer, sendAmount, sendFee, change, sendEnabled, evaluatedAt>>

RejectSend ==
    /\ confirm # <<>> /\ confirm' = <<>>
    /\ UNCHANGED <<moneyVars, sendOpen, receiver, peer, shownPeer, sendAmount, sendFee, change,
                   sendEnabled, evaluatedAt>>

SendBack == Editing /\ SendClose /\ UNCHANGED moneyVars

SendStep ==
    \/ SendOpens \/ SetMaxAvailableAmount
    \/ \E fee \in Fees : SetFeeGrothes(fee)
    \/ \E amount \in Amounts : SetSendAmount(amount)
    \/ \E to \in Payees \cup {Nobody} : SetReceiverTA(to)
    \/ ClickSend \/ SendMoney \/ RejectSend \/ SendBack

\* The view model's slots.  availableChanged is passed on, canSendChanged is
\* not emitted for it.  sendMoneyVerified closes the page.
SendOnEvent(e) ==
    \/ sendOpen /\ e.kind = "change" /\ OnChangeCalculated(e.amount)
    \/ sendOpen /\ e.kind = "verified" /\ SendClose
    \/ ~(sendOpen /\ e.kind \in {"change", "verified"}) /\ UNCHANGED sendVars

-----------------------------------------------------------------------------
SendTypeOK ==
    /\ sendOpen \in BOOLEAN /\ sendEnabled \in BOOLEAN
    /\ receiver \in Payees \cup {Nobody}
    /\ peer \in Peers \cup {Nobody} /\ shownPeer \in Peers \cup {Nobody}
    /\ sendAmount \in Nat /\ sendFee \in Nat /\ change \in Nat
    /\ evaluatedAt \in [available : Nat, minFee : Nat]
    /\ Len(confirm) <= 1

\* Answers carry no request and questions of a page that was closed are still
\* answered; but when every answer was delivered the change is that of the
\* amount and fee on the page.
ChangeIsOfTotal ==
    sendOpen /\ Settled => change = ChangeOf(calcCoins, sendAmount + sendFee)

\* Whatever the user edits and whatever answer comes, the button says canSend
\* as long as the balance and the least fee are those it was evaluated with.
ButtonIsCurrent ==
    sendOpen /\ evaluatedAt = SendInputs => sendEnabled = CanSendNow

\* What is sent is the amount and the fee the user confirmed, and if the receiver
\* in the field names a peer, it goes to that peer, the one the dialog showed:
\* whichever tokens were typed before, nothing of them is left, and nothing that
\* arrives behind the dialog changes it.
SentAsConfirmed ==
    [][SendMoney => \A i \in DOMAIN requests' \ DOMAIN requests :
          /\ confirm[1].amount = requests'[i].amount
          /\ confirm[1].fee = requests'[i].fee
          /\ \A asked \in ParamsOf[receiver] :
                asked.peer # Nobody =>
                    requests'[i].payee = asked.peer /\ confirm[1].payee = asked.peer
      ]_<<requests, sendVars>>

\* sendMoney: "assert(canSend());"
SendAssertionHolds ==
    [][SendMoney => CanSendNow]_<<requests, sendVars>>
=============================================================================
