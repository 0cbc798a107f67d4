---------------------------- MODULE SendSwapPage ----------------------------
(***************************************************************************)
(* SendSwapViewModel and its page (send_swap.qml), on which the user       *)
(* accepts a swap offer: he pays in hds or in another coin.  Unlike the    *)
(* send page it calculates again whenever the balance changes; but nobody  *)
(* tells it that the offer expired or the balance in another coin changed. *)
(***************************************************************************)
EXTENDS WalletMoney

CONSTANTS
    Offers,         \* the offers: in which coin the user pays, and how much
    SwapFees,       \* what the user may type
    CoinFee,        \* the default fee in the other coin
    CoinBalances    \* what the wallet of the other coin may hold

SwapConstants ==
    /\ Offers \subseteq [payHds : BOOLEAN, amount : Nat]
    /\ SwapFees \subseteq Nat
    /\ CoinFee \in Nat /\ CoinBalances \subseteq Nat

VARIABLES
    swapOpen,       \* the page is on the stack, its view model exists
    payHds,         \* _sendCurrency is hds
    swapAmount,     \* _sendAmountGrothes
    swapFee,        \* _sendFeeGrothes
    swapChange,     \* _changeGrothes
    swapEnabled,    \* the button: canSend when QML evaluated it last
    swapSeen,       \* history: SwapInputs when QML evaluated it or the page came
    swapConfirm,    \* the confirmation dialog is open
    coinAvailable,  \* the other coin's client: getAvailable, while it is paid in
    expired         \* the clock is past _expiresTime

swapVars == <<swapOpen, payHds, swapAmount, swapFee, swapChange, swapEnabled,
              swapSeen, swapConfirm, coinAvailable, expired>>

\* What canSend reads and the page is not told of.
SwapInputs == [coin |-> coinAvailable, minFee |-> minFee, expired |-> expired]
NoSwapInputs == [coin |-> 0, minFee |-> 0, expired |-> FALSE]

SwapIsEnough(money, coin, hds, amount, fee, rest) ==
    IF hds THEN money >= amount + fee + rest ELSE coin > amount + fee

SwapCanSend(money, inputs, hds, amount, fee, rest) ==
    /\ hds => fee >= inputs.minFee
    /\ SwapIsEnough(money, inputs.coin, hds, amount, fee, rest)
    /\ ~inputs.expired

SwapCanSendChanged ==
    /\ swapEnabled' =
           SwapCanSend(available', SwapInputs', payHds', swapAmount', swapFee', swapChange')
    /\ swapSeen' = SwapInputs'

SwapClosed ==
    /\ swapOpen = FALSE /\ payHds = TRUE
    /\ swapAmount = 0 /\ swapFee = 0 /\ swapChange = 0
    /\ swapEnabled = FALSE /\ swapSeen = NoSwapInputs /\ swapConfirm = FALSE
    /\ coinAvailable = 0 /\ expired = FALSE

SwapClose ==
    /\ swapOpen' = FALSE /\ payHds' = TRUE
    /\ swapAmount' = 0 /\ swapFee' = 0 /\ swapChange' = 0
    /\ swapEnabled' = FALSE /\ swapSeen' = NoSwapInputs /\ swapConfirm' = FALSE
    /\ coinAvailable' = 0 /\ expired' = FALSE

\* The page as it is when the offer is filled in, which may have expired already.
SwapFilled(offer) ==
    /\ swapOpen' = TRUE
    /\ payHds' = offer.payHds
    /\ swapAmount' = offer.amount
    /\ swapFee' = IF offer.payHds THEN minFee ELSE CoinFee
    /\ swapChange' = 0
    /\ swapEnabled' = FALSE /\ swapConfirm' = FALSE
    /\ IF offer.payHds THEN coinAvailable' = 0 ELSE coinAvailable' \in CoinBalances
    /\ expired' \in BOOLEAN
    /\ UNCHANGED <<coins, posted, available, minFee, calcCoins>>
    /\ swapSeen' = SwapInputs'

\* Mutant: the offer is there before the page binds its fee.
SwapOpens_OfferFirst(offer) ==
    /\ SwapFilled(offer)
    /\ Ask(IF offer.payHds THEN <<CalcChange(offer.amount + minFee)>> ELSE <<>>)

\* The page is pushed: its binding sets the default fee while the coin is still
\* hds, which asks for the change; then the offer is filled in, and another coin
\* brings its own fee.  The time the offer expires is set last: until then
\* canSend is false, and setting it emits no canSendChanged.
SwapOpens(offer) ==
    /\ SwapFilled(offer)
    /\ Ask(<<CalcChange(minFee)>>
           \o IF offer.payHds /\ offer.amount # 0
              THEN <<CalcChange(offer.amount + minFee)>>
              ELSE <<>>)

\* Mutant: the change stays and is not asked for, as on the send page.
RecalcAvailable_Ignored ==
    /\ UNCHANGED <<swapChange, requests>>
    /\ SwapCanSendChanged

\* recalcAvailable: for hds the change is asked for and the button is left until
\* the answer.
RecalcAvailable ==
    /\ swapChange' = 0
    /\ IF payHds'
       THEN Ask(<<CalcChange(swapAmount' + swapFee')>>) /\ UNCHANGED <<swapEnabled, swapSeen>>
       ELSE UNCHANGED requests /\ SwapCanSendChanged

SwapEditing == swapOpen /\ ~swapConfirm

SetSendFee(fee) ==
    /\ SwapEditing /\ fee # swapFee
    /\ swapFee' = fee
    /\ UNCHANGED <<swapOpen, payHds, swapAmount, swapConfirm, coinAvailable, expired,
                   coins, posted, available, minFee, calcCoins>>
    /\ RecalcAvailable

\* The fee of the other side is not kept here; canSendChanged is emitted for it.
SetReceiveFee ==
    /\ SwapEditing
    /\ UNCHANGED <<moneyVars, swapOpen, payHds, swapAmount, swapFee, swapChange, swapConfirm,
                   coinAvailable, expired>>
    /\ SwapCanSendChanged

ClickSwap ==
    /\ SwapEditing /\ swapEnabled
    /\ swapConfirm' = TRUE
    /\ UNCHANGED <<moneyVars, swapOpen, payHds, swapAmount, swapFee, swapChange, swapEnabled,
                   swapSeen, coinAvailable, expired>>

\* The user accepts; sendMoney checks nothing, and the page closes.
AcceptSwap ==
    /\ swapConfirm
    /\ Ask(<<StartTransaction("swap", swapAmount, swapFee)>>)
    /\ SwapClose
    /\ UNCHANGED <<coins, posted, available, minFee, calcCoins>>

RejectSwap ==
    /\ swapConfirm /\ swapConfirm' = FALSE
    /\ UNCHANGED <<moneyVars, swapOpen, payHds, swapAmount, swapFee, swapChange, swapEnabled,
                   swapSeen, coinAvailable, expired>>

SwapBack == SwapEditing /\ SwapClose /\ UNCHANGED moneyVars

\* The wallet of the other coin tells its client a balance; the page has no
\* connection to it.
CoinMoves ==
    /\ swapOpen /\ ~payHds
    /\ coinAvailable' \in CoinBalances \ {coinAvailable}
    /\ UNCHANGED <<moneyVars, swapOpen, payHds, swapAmount, swapFee, swapChange, swapEnabled,
                   swapSeen, swapConfirm, expired>>

\* The time comes; the page's timer only colours its label.
Expire ==
    /\ swapOpen /\ ~expired /\ expired' = TRUE
    /\ UNCHANGED <<moneyVars, swapOpen, payHds, swapAmount, swapFee, swapChange, swapEnabled,
                   swapSeen, swapConfirm, coinAvailable>>

SwapStep ==
    \/ \E fee \in SwapFees : SetSendFee(fee)
    \/ SetReceiveFee \/ ClickSwap \/ AcceptSwap \/ RejectSwap \/ SwapBack
    \/ CoinMoves \/ Expire

SwapOnChangeCalculated(amount) ==
    /\ swapChange' = amount
    /\ UNCHANGED <<swapOpen, payHds, swapAmount, swapFee, swapConfirm, coinAvailable, expired,
                   requests>>
    /\ SwapCanSendChanged

\* The view model's slots.
SwapOnEvent(e) ==
    \/ swapOpen /\ e.kind = "change" /\ SwapOnChangeCalculated(e.amount)
    \/ /\ swapOpen /\ AvailableChanged(e)
       /\ UNCHANGED <<swapOpen, payHds, swapAmount, swapFee, swapConfirm, coinAvailable,
                      expired>>
       /\ RecalcAvailable
    \/ ~(swapOpen /\ (e.kind = "change" \/ AvailableChanged(e)))
       /\ UNCHANGED <<swapVars, requests>>

SwapCanSendNow ==
    SwapCanSend(available, SwapInputs, payHds, swapAmount, swapFee, swapChange)

-----------------------------------------------------------------------------
SwapTypeOK ==
    /\ swapOpen \in BOOLEAN /\ payHds \in BOOLEAN
    /\ swapEnabled \in BOOLEAN /\ swapConfirm \in BOOLEAN
    /\ swapAmount \in Nat /\ swapFee \in Nat /\ swapChange \in Nat
    /\ coinAvailable \in CoinBalances \cup {0} /\ expired \in BOOLEAN
    /\ swapSeen \in [coin : Nat, minFee : Nat, expired : BOOLEAN]

\* When every answer was delivered the button says canSend, as long as what no
\* signal tells of (the other coin's balance, the least fee, the clock) is as it
\* was when the button was evaluated last, or when the page came if it never was.
\* Paying in another coin nothing is asked about: it is the answer to the question
\* of the page's first moments that enables the button.
SwapButtonCatchesUp ==
    swapOpen /\ Settled /\ swapSeen = SwapInputs => swapEnabled = SwapCanSendNow

\* Coins may change without the balance changing, and then nothing is calculated
\* again.  Still, when nothing is on its way, the page says there is enough
\* exactly when the wallet's coins cover amount and fee.
SwapEnoughIsExact ==
    swapOpen /\ payHds /\ Settled /\ posted = <<>> =>
        (SwapIsEnough(available, coinAvailable, TRUE, swapAmount, swapFee, swapChange)
         <=> SumSet(coins) >= swapAmount + swapFee)
=============================================================================
