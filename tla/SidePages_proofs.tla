-------------------------- MODULE SidePages_proofs --------------------------
(***************************************************************************)
(* The parts of the program beside the pages of the wallet.  The check of  *)
(* swap tokens, for any set of transactions, queue and tokens: the ids the *)
(* manager knows are those of the wallet as reported, its verdicts are     *)
(* right, no token is stranded, and the manager implements Mirror.  The    *)
(* node's settings, for any addresses and any number of checks under way:  *)
(* the verdict the page rests on is the last answer and of the shown       *)
(* address, and no answer ever applies the settings.  The notifications,   *)
(* for any set of them: a new version pops up once at most, a listed page  *)
(* shows what is visible.  The offers of the swap page, for any set of     *)
(* offers and coins: the table of those the user can accept is right.      *)
(***************************************************************************)
EXTENDS SidePages, TxFeed_proofs, DataFacts

-----------------------------------------------------------------------------
(* The check of swap tokens *)

\* The known ids exist, and after a Reset they are all there are.
IdsKnown ==
    /\ ready \in BOOLEAN
    /\ myTxIds \subseteq Present(seen)
    /\ ready => myTxIds = Present(seen)

ManagerInv == FeedInv /\ IdsKnown

-----------------------------------------------------------------------------
LEMMA ManagerInitial == Init => ManagerInv /\ VerdictsRight /\ NoTokenStranded
<1> SUFFICES ASSUME Init PROVE ManagerInv /\ VerdictsRight /\ NoTokenStranded
  OBVIOUS
<1>1. FeedInv
  BY FeedInitial DEF Init
<1>2. IdsKnown /\ VerdictsRight /\ NoTokenStranded
  BY DEF Init, FeedInit, IdsKnown, VerdictsRight, NoTokenStranded
<1> QED
  BY <1>1, <1>2 DEF ManagerInv

\* What a delivered event makes of the known ids.
LEMMA KnownIds ==
    ASSUME ManagerInv, OnTransactionsChanged
    PROVE  /\ IdsKnown'
           /\ ready' => myTxIds' = Present(Head(queue).txs)
           /\ FeedInv'
<1> DEFINE e == Head(queue)
<1>1. asked' \in BOOLEAN /\ TakeNotification /\ FeedInv
  BY DEF OnTransactionsChanged, ManagerInv, FeedInv, FeedTypeOK
<1>2. FeedInv' /\ e \in Events /\ Follows(e, seen) /\ seen' = e.txs
  BY <1>1, TakeInOrder
<1>3. /\ myTxIds' = KnownAfter(e)
      /\ ready' = (ready \/ e.action = "Reset")
      /\ IdsKnown
  BY DEF OnTransactionsChanged, TakeNotification, ManagerInv
<1> HIDE DEF e
<1>s. seen \in [TxIDs -> Statuses]
  BY <1>1 DEF FeedInv, FeedTypeOK
<1>t. e.action \in Actions /\ e.ids \subseteq TxIDs
  BY <1>2 DEF Events
<1>4. myTxIds' \subseteq Present(e.txs) /\ (ready' => myTxIds' = Present(e.txs))
  <2>1. CASE e.action = "Reset"
    BY <1>2, <1>3, <2>1 DEF Follows, KnownAfter
  <2>2. CASE e.action = "Removed"
    <3>1. Present(e.txs) = Present(seen) \ e.ids
      BY <1>t, <1>2, <2>2 DEF Follows, Present
    <3> QED
      BY <1>3, <2>2, <3>1 DEF KnownAfter, IdsKnown
  <2>3. CASE e.action \in {"Added", "Updated"}
    <3>1. Present(e.txs) = Present(seen) \cup e.ids
      <4>1. \A id \in e.ids : e.txs[id] # "absent"
        BY <1>s, <1>t, <1>2, <2>3 DEF Follows, Following, Statuses
      <4> QED
        BY <1>t, <1>2, <2>3, <4>1 DEF Follows, Present
    <3> QED
      BY <1>3, <2>3, <3>1 DEF KnownAfter, IdsKnown
  <2> QED
    BY <1>t, <2>1, <2>2, <2>3 DEF Actions
<1> QED
  BY <1>2, <1>3, <1>4 DEF IdsKnown, e

LEMMA ManagerStep == ManagerInv /\ [Next]_vars => ManagerInv'
<1> SUFFICES ASSUME ManagerInv, [Next]_vars PROVE ManagerInv'
  OBVIOUS
<1> USE DEF ManagerInv
<1>1. CASE WalletStep /\ UNCHANGED managerVars
  <2>1. FeedInv'
    BY <1>1, WalletStepInOrder
  <2>2. UNCHANGED <<seen, myTxIds, ready>>
    BY <1>1, WalletStepKeeps DEF managerVars
  <2> QED
    BY <2>1, <2>2 DEF IdsKnown, Present
<1>2. CASE OnTransactionsChanged
  BY <1>2, KnownIds
<1>3. ASSUME NEW id \in Tokens, CheckTokenForDuplicate(id) PROVE ManagerInv'
  <2>1. UNCHANGED <<txs, queue, seen, myTxIds, ready>> /\ asked' \in BOOLEAN
    BY <1>3 DEF CheckTokenForDuplicate, CheckIsTxPreviousAccepted, FeedInv, FeedTypeOK
  <2> QED
    BY <2>1 DEF FeedInv, FeedTypeOK, FeedInOrder, IdsKnown, Present
<1>4. ASSUME NEW id \in Tokens, OwnToken(id) PROVE ManagerInv'
  BY <1>4, FeedUnchanged DEF OwnToken, IdsKnown, Present, feedVars
<1>5. CASE UNCHANGED vars
  BY <1>5, FeedUnchanged DEF vars, IdsKnown, Present, feedVars, managerVars
<1> QED
  BY <1>1, <1>2, <1>3, <1>4, <1>5 DEF Next

\* The known ids are the wallet's, and the queue is in order, at all times.
LEMMA ManagerInvariant == Spec => []ManagerInv
<1>1. Init => ManagerInv
  BY ManagerInitial
<1> QED
  BY <1>1, ManagerStep, PTL DEF Spec

-----------------------------------------------------------------------------
LEMMA VerdictsStep ==
    ManagerInv /\ ManagerInv' /\ VerdictsRight /\ [Next]_vars => VerdictsRight'
<1> SUFFICES ASSUME ManagerInv, ManagerInv', VerdictsRight, [Next]_vars
             PROVE  VerdictsRight'
  OBVIOUS
<1> USE DEF VerdictsRight, IdsKnown, ManagerInv, Present
<1>1. CASE WalletStep /\ UNCHANGED managerVars
  BY <1>1 DEF WalletStep, UpdateTx, DeleteTx, AddTx, AnswerGetTransactions, managerVars
<1>2. CASE OnTransactionsChanged
  BY <1>2 DEF OnTransactionsChanged, CheckIsTxPreviousAccepted
<1>3. ASSUME NEW id \in Tokens, CheckTokenForDuplicate(id) PROVE VerdictsRight'
  <2>1. UNCHANGED <<seen, ready>>
    BY <1>3 DEF CheckTokenForDuplicate
  <2>2. CASE myTxIds = {}
    BY <1>3, <2>1, <2>2 DEF CheckTokenForDuplicate
  <2>3. CASE myTxIds # {}
    <3>1. said' = {<<x, IF x \in myTxIds THEN "previous" ELSE "first">> :
                      x \in inProgress \cup {id}}
      BY <1>3, <2>3 DEF CheckTokenForDuplicate, CheckIsTxPreviousAccepted
    <3>2. \A x \in Tokens : /\ <<x, "previous">> \in said' => x \in myTxIds
                            /\ <<x, "first">> \in said' => x \notin myTxIds
      BY <3>1
    <3> QED
      BY <2>1, <3>2
  <2> QED
    BY <2>2, <2>3
<1>4. ASSUME NEW id \in Tokens, OwnToken(id) PROVE VerdictsRight'
  BY <1>4 DEF OwnToken
<1>5. CASE UNCHANGED vars
  BY <1>5 DEF vars, feedVars, managerVars
<1> QED
  BY <1>1, <1>2, <1>3, <1>4, <1>5 DEF Next

\* tokenPreviousAccepted and, after a Reset, tokenFirstTimeAccepted are right
\* about the wallet as reported (onTransactionsChanged, checkTokenForDuplicate).
THEOREM VerdictsAreRight == Spec => []VerdictsRight
<1>1. Init => VerdictsRight
  BY ManagerInitial
<1> QED
  BY <1>1, ManagerInvariant, VerdictsStep, PTL DEF Spec

-----------------------------------------------------------------------------
LEMMA PostedNotEmpty ==
    ASSUME FeedInv, WalletStep
    PROVE  queue' # <<>>
<1>1. PICK e : queue' = Append(queue, e)
  BY DEF WalletStep, UpdateTx, DeleteTx, AddTx, AnswerGetTransactions, Notify
<1>2. Len(queue') = Len(queue) + 1 /\ Len(queue) \in Nat
  BY <1>1 DEF FeedInv, FeedTypeOK
<1> QED
  BY <1>2

LEMMA StrandedStep == ManagerInv /\ NoTokenStranded /\ [Next]_vars => NoTokenStranded'
<1> SUFFICES ASSUME ManagerInv, NoTokenStranded, [Next]_vars PROVE NoTokenStranded'
  OBVIOUS
<1> USE DEF NoTokenStranded
<1>1. CASE WalletStep /\ UNCHANGED managerVars
  BY <1>1, PostedNotEmpty DEF ManagerInv
<1>2. CASE OnTransactionsChanged
  BY <1>2 DEF OnTransactionsChanged, CheckIsTxPreviousAccepted
<1>3. ASSUME NEW id \in Tokens, CheckTokenForDuplicate(id) PROVE NoTokenStranded'
  BY <1>3 DEF CheckTokenForDuplicate, CheckIsTxPreviousAccepted
<1>4. ASSUME NEW id \in Tokens, OwnToken(id) PROVE NoTokenStranded'
  BY <1>4 DEF OwnToken, feedVars
<1>5. CASE UNCHANGED vars
  BY <1>5 DEF vars, feedVars, managerVars
<1> QED
  BY <1>1, <1>2, <1>3, <1>4, <1>5 DEF Next

\* A token that waits has a request or a notification on its way.
THEOREM NoTokenIsStranded == Spec => []NoTokenStranded
<1>1. Init => NoTokenStranded
  BY ManagerInitial
<1> QED
  BY <1>1, ManagerInvariant, StrandedStep, PTL DEF Spec

-----------------------------------------------------------------------------
\* The pipeline of Mirror is what each notification carries.
Pipeline == [i \in 1..Len(queue) |-> Present(queue[i].txs)]

PresentOf == [t \in [TxIDs -> Statuses] |-> Present(t)]

LEMMA PipelineIsImage ==
    /\ FeedInv => Pipeline = Image(PresentOf)
    /\ FeedInv' => Pipeline' = Image(PresentOf)'
<1>1. \A e \in Events : Present(e.txs) = PresentOf[e.txs]
  BY DEF Events, PresentOf
<1>2. ASSUME FeedInv PROVE Pipeline = Image(PresentOf)
  <2>1. \A i \in 1..Len(queue) : queue[i] \in Events
    BY <1>2 DEF FeedInv, FeedTypeOK
  <2> QED
    BY <1>1, <2>1 DEF Pipeline, Image
<1>3. ASSUME FeedInv' PROVE Pipeline' = Image(PresentOf)'
  <2>1. \A i \in 1..Len(queue') : queue'[i] \in Events
    BY <1>3 DEF FeedInv, FeedTypeOK
  <2>2. \A i \in 1..Len(queue') : Present(queue'[i].txs) = PresentOf[queue'[i].txs]
    BY <1>1, <2>1
  <2> QED
    BY <2>2 DEF Pipeline, Image, Present, PresentOf
<1> QED
  BY <1>2, <1>3

LEMMA WalletStepPosts ==
    ManagerInv /\ WalletStep /\ UNCHANGED managerVars => IdsMirror!Post
<1> SUFFICES ASSUME ManagerInv, WalletStep, UNCHANGED managerVars
             PROVE  IdsMirror!Post
  OBVIOUS
<1>1. FeedInv /\ FeedInv'
  BY WalletStepInOrder DEF ManagerInv
<1>2. PICK e \in Events : queue' = Append(queue, e) /\ e.txs = txs'
  BY <1>1, WalletStepNotifies
<1>3. txs' \in [TxIDs -> Statuses]
  BY <1>1 DEF FeedInv, FeedTypeOK
<1>4. PresentOf \in [[TxIDs -> Statuses] -> SUBSET TxIDs]
  BY DEF PresentOf, Present
<1>5. Image(PresentOf)' = Append(Image(PresentOf), PresentOf[txs'])
  BY <1>1, <1>2, <1>4, ImageAppend
<1>6. Pipeline' = Append(Pipeline, Present(txs'))
  <2>1. Image(PresentOf)' = Pipeline' /\ Image(PresentOf) = Pipeline
    BY <1>1, PipelineIsImage
  <2> QED
    BY <1>3, <1>5, <2>1 DEF PresentOf
<1> QED
  BY <1>6, WalletStepKeeps DEF IdsMirror!Post, Pipeline, Present, managerVars

LEMMA NotificationDelivers ==
    ManagerInv /\ ManagerInv' /\ OnTransactionsChanged => IdsMirror!Deliver
<1> SUFFICES ASSUME ManagerInv, ManagerInv', OnTransactionsChanged
             PROVE  IdsMirror!Deliver
  OBVIOUS
<1>1. /\ FeedInv /\ FeedInv' /\ ready \in BOOLEAN /\ ready' \in BOOLEAN
      /\ queue # <<>> /\ queue' = Tail(queue) /\ txs' = txs
      /\ ready' = (ready \/ Head(queue).action = "Reset")
  BY DEF OnTransactionsChanged, TakeNotification, ManagerInv, IdsKnown
<1>2. ready' => myTxIds' = Present(Head(queue).txs)
  BY KnownIds
<1>3. PresentOf \in [[TxIDs -> Statuses] -> SUBSET TxIDs]
  BY DEF PresentOf, Present
<1>4. /\ Image(PresentOf) # <<>>
      /\ Head(Image(PresentOf)) = PresentOf[Head(queue).txs]
      /\ Image(PresentOf)' = Tail(Image(PresentOf))
      /\ Head(queue).txs \in [TxIDs -> Statuses]
  BY <1>1, <1>3, ImageTail
<1>5. /\ Pipeline # <<>>
      /\ Head(Pipeline) = Present(Head(queue).txs)
      /\ Pipeline' = Tail(Pipeline)
  <2>1. Image(PresentOf)' = Pipeline' /\ Image(PresentOf) = Pipeline
    BY <1>1, PipelineIsImage
  <2> QED
    BY <1>4, <2>1 DEF PresentOf
<1>6. myTxIds' \in SUBSET TxIDs
  BY DEF ManagerInv, IdsKnown, Present
<1> QED
  BY <1>1, <1>2, <1>5, <1>6 DEF IdsMirror!Deliver, Pipeline

LEMMA MirrorStep ==
    ManagerInv /\ ManagerInv' /\ [Next]_vars => [IdsMirror!Next]_(IdsMirror!mirrorVars)
<1> SUFFICES ASSUME ManagerInv, ManagerInv', [Next]_vars
             PROVE  [IdsMirror!Next]_(IdsMirror!mirrorVars)
  OBVIOUS
<1>1. CASE WalletStep /\ UNCHANGED managerVars
  BY <1>1, WalletStepPosts DEF IdsMirror!Next
<1>2. CASE OnTransactionsChanged
  BY <1>2, NotificationDelivers DEF IdsMirror!Next
<1>3. CASE UNCHANGED <<txs, queue, myTxIds, ready>>
  BY <1>3 DEF IdsMirror!mirrorVars, Present
<1>4. ASSUME NEW id \in Tokens, CheckTokenForDuplicate(id) \/ OwnToken(id)
      PROVE  UNCHANGED <<txs, queue, myTxIds, ready>>
  BY <1>4 DEF CheckTokenForDuplicate, OwnToken, feedVars
<1>5. UNCHANGED vars => UNCHANGED <<txs, queue, myTxIds, ready>>
  BY DEF vars, feedVars, managerVars
<1> QED
  BY <1>1, <1>2, <1>3, <1>4, <1>5 DEF Next

\* TokenBootstrapManager implements Mirror: after the first Reset each event
\* brings _myTxIds to the ids the wallet had when it posted the event.
THEOREM ManagerMirrorsIds == Spec => MirrorsIds
<1>1. Init => IdsMirror!Init
  BY DEF Init, FeedInit, IdsMirror!Init, Present
<1> QED
  BY <1>1, MirrorStep, ManagerInvariant, PTL DEF Spec, MirrorsIds, IdsMirror!Spec

-----------------------------------------------------------------------------
(* The settings of the node *)

NodeTypes ==
    /\ savedAddress \in NodeAddresses
    /\ nodeAddress \in NodeAddresses
    /\ checks \in Seq(NodeAddresses)

NodeInv == NodeTypes /\ LastCheckIsOfShown

-----------------------------------------------------------------------------
LEMMA NodeInitial == NodeInit => NodeInv
<1> SUFFICES ASSUME NodeInit PROVE NodeInv
  OBVIOUS
<1>1. <<>> \in Seq(NodeAddresses)
  OBVIOUS
<1>2. NodeTypes
  BY <1>1 DEF NodeInit, NodeTypes
<1>3. LastCheckIsOfShown
  BY DEF NodeInit, LastCheckIsOfShown
<1> QED
  BY <1>2, <1>3 DEF NodeInv

\* A new check is the last one under way, and it is of the shown address.
LEMMA TimerKeeps == NodeInv /\ TimerEvent => NodeInv'
<1> SUFFICES ASSUME NodeInv, TimerEvent PROVE NodeInv'
  OBVIOUS
<1>1. checks \in Seq(NodeAddresses) /\ nodeAddress \in NodeAddresses
  BY DEF NodeInv, NodeTypes
<1>2. checks' = Append(checks, nodeAddress) /\ nodeAddress' = nodeAddress
  BY DEF TimerEvent
<1>3. /\ checks' \in Seq(NodeAddresses) /\ checks' # <<>>
      /\ checks'[Len(checks')] = nodeAddress
  BY <1>1, <1>2
<1>4. LastCheckIsOfShown'
  BY <1>2, <1>3 DEF LastCheckIsOfShown
<1> QED
  BY <1>1, <1>2, <1>3, <1>4 DEF NodeInv, NodeTypes, TimerEvent

\* An answer is the last one when no check is left behind it.
LEMMA AnswerKeeps == NodeInv /\ AddressChecked => NodeInv'
<1> SUFFICES ASSUME NodeInv, AddressChecked PROVE NodeInv'
  OBVIOUS
<1>1. /\ checks \in Seq(NodeAddresses) /\ checks # <<>> /\ checks' = Tail(checks)
      /\ UNCHANGED <<nodeAddress, localNodeRun, needCheck>>
  BY DEF NodeInv, NodeTypes, AddressChecked
<1>2. PICK isValid \in BOOLEAN :
         /\ answer' = [address |-> Head(checks), valid |-> isValid]
         /\ OnAddressChecked(isValid)
  BY DEF AddressChecked
<1>3. NodeTypes'
  BY <1>1, <1>2 DEF NodeInv, NodeTypes, OnAddressChecked
<1>4. LastCheckIsOfShown'
  <2> SUFFICES ASSUME ~needCheck, nodeAddress # NoAddress
               PROVE  IF checks' = <<>>
                      THEN answer' = [address |-> nodeAddress, valid |-> valid']
                      ELSE checks'[Len(checks')] = nodeAddress
    BY <1>1 DEF LastCheckIsOfShown
  <2>1. checks[Len(checks)] = nodeAddress
    BY <1>1 DEF NodeInv, LastCheckIsOfShown
  <2>2. CASE checks' = <<>>
    <3>1. Len(checks) = 1
      <4>1. Len(checks') = Len(checks) - 1 /\ Len(checks) \in Nat
        BY <1>1
      <4>2. Len(checks') = 0
        BY <2>2
      <4> QED
        BY <4>1, <4>2
    <3>2. Head(checks) = nodeAddress
      BY <1>1, <2>1, <3>1
    <3>3. valid' = isValid
      BY <1>2, <3>2 DEF OnAddressChecked
    <3> QED
      BY <1>2, <2>2, <3>2, <3>3
  <2>3. CASE checks' # <<>>
    <3>1. Len(checks') = Len(checks) - 1 /\ Len(checks') \in Nat \ {0}
      BY <1>1, <2>3
    <3>2. \A i \in 1..Len(checks') : checks'[i] = checks[i + 1]
      BY <1>1
    <3>3. checks'[Len(checks')] = checks[Len(checks)]
      BY <3>1, <3>2
    <3> QED
      BY <2>1, <2>3, <3>3
  <2> QED
    BY <2>2, <2>3
<1> QED
  BY <1>3, <1>4 DEF NodeInv

LEMMA NodeInvStep == NodeInv /\ [NodeNext]_nodeVars => NodeInv'
<1> SUFFICES ASSUME NodeInv, [NodeNext]_nodeVars PROVE NodeInv'
  OBVIOUS
<1> USE DEF NodeInv, NodeTypes, LastCheckIsOfShown
<1>1. CASE OpenSettings
  BY <1>1 DEF OpenSettings
<1>2. CASE \E value \in NodeAddresses : SetNodeAddress(value)
  BY <1>2 DEF SetNodeAddress
<1>3. CASE SetLocalNodeRun
  BY <1>3 DEF SetLocalNodeRun
<1>4. CASE SetOther
  BY <1>4 DEF SetOther
<1>5. CASE PressApply
  BY <1>5 DEF PressApply, ApplyChanges
<1>6. CASE UndoChanges
  BY <1>6 DEF UndoChanges
<1>7. CASE TimerEvent
  BY <1>7, TimerKeeps
<1>8. CASE AddressChecked
  BY <1>8, AnswerKeeps
<1>9. CASE UNCHANGED nodeVars
  BY <1>9 DEF nodeVars
<1> QED
  BY <1>1, <1>2, <1>3, <1>4, <1>5, <1>6, <1>7, <1>8, <1>9 DEF NodeNext

LEMMA NodeInvHolds == NodeSpec => []NodeInv
BY NodeInitial, NodeInvStep, PTL DEF NodeSpec

\* With no check due or under way the verdict is the last answer, of the
\* address that is shown (settings_view.cpp:822-837, 854-869, 1129-1139).
THEOREM VerdictIsAlwaysOfShown == NodeSpec => []VerdictIsOfShown
<1>1. NodeInv => VerdictIsOfShown
  BY DEF NodeInv, LastCheckIsOfShown, VerdictIsOfShown
<1> QED
  BY <1>1, NodeInvHolds, PTL

-----------------------------------------------------------------------------
(* The notifications *)

NewsItems == [id : News, state : NewsStates]
NewsEvents == [action : {"Reset", "Added", "Updated", "Removed"}, items : SUBSET NewsItems]
Histories == [News -> NewsStates]

ItemsOf(s, ids) == {[id |-> n, state |-> s[n]] : n \in ids}
Existed(s) == {n \in News : s[n] # "absent"}
Visible(s) == ItemsOf(s, {n \in News \ Older : s[n] \in {"unread", "read"}})

\* What an event says of the wallet before and after it.
Reports(e, before, after) ==
    \/ /\ e.action = "Reset" /\ after = before
       /\ e.items = ItemsOf(after, Existed(after))
    \/ \E n \in News :
          /\ e.items = ItemsOf(after, {n})
          /\ \/ e.action = "Added" /\ before[n] = "absent"
                /\ after = [before EXCEPT ![n] = "unread"]
             \/ e.action = "Updated" /\ before[n] = "unread"
                /\ after = [before EXCEPT ![n] = "read"]
             \/ e.action = "Removed" /\ before[n] \in {"unread", "read"}
                /\ after = [before EXCEPT ![n] = "deleted"]

NewsTypes ==
    /\ state \in Histories
    /\ newsPosts \in Seq(NewsEvents)
    /\ newsRows \in Seq(NewsItems)
    /\ first \in BOOLEAN
    /\ popups \in [Newer -> 0..2]
    /\ listed => pageOpen

\* The notifications as the UI thread knows them: a listed page shows those,
\* and nothing was popped up that is not among them.
KnownNews(s) ==
    /\ listed => OneEach(newsRows) /\ RowsIn(newsRows) = Visible(s)
    /\ \A n \in Newer :
          /\ popups[n] < 2
          /\ popups[n] > 0 => ~first /\ s[n] # "absent"

\* The wallet's notifications after each event on its way: h[0] is what the
\* events that were taken have told.
Tells(h) ==
    /\ h \in [0..Len(newsPosts) -> Histories]
    /\ h[Len(newsPosts)] = state
    /\ \A i \in 1..Len(newsPosts) : Reports(newsPosts[i], h[i - 1], h[i])
    /\ KnownNews(h[0])

NewsInv == NewsTypes /\ \E h : Tells(h)

LEMMA NewsInitial == NewsInit => NewsInv
<1> SUFFICES ASSUME NewsInit PROVE NewsInv
  OBVIOUS
<1>1. <<>> \in Seq(NewsEvents) /\ <<>> \in Seq(NewsItems) /\ Len(newsPosts) = 0
  BY DEF NewsInit
<1>2. NewsTypes
  <2>1. popups \in [Newer -> 0..2]
    BY DEF NewsInit
  <2> QED
    BY <1>1, <2>1 DEF NewsInit, NewsTypes, Histories
<1>3. Tells([i \in 0..0 |-> state])
  <2>1. KnownNews(state)
    BY DEF NewsInit, KnownNews
  <2> QED
    BY <1>1, <1>2, <2>1 DEF Tells, NewsTypes
<1> QED
  BY <1>2, <1>3 DEF NewsInv

\* One more event is on its way.
LEMMA PostTells ==
    ASSUME NewsTypes, NEW h, Tells(h), state' \in Histories,
           NEW e \in NewsEvents, newsPosts' = Append(newsPosts, e),
           Reports(e, state, state'), UNCHANGED <<newsRows, listed, first, popups>>
    PROVE  \E g : Tells(g)'
<1>n. PICK n : n = Len(newsPosts)
  OBVIOUS
<1>g. PICK g : g = [i \in 0..n + 1 |-> IF i = n + 1 THEN state' ELSE h[i]]
  OBVIOUS
<1>1. /\ n \in Nat /\ Len(newsPosts') = n + 1 /\ newsPosts'[n + 1] = e
      /\ \A i \in 1..n : newsPosts'[i] = newsPosts[i]
  BY <1>n DEF NewsTypes
<1>2. /\ h \in [0..n -> Histories] /\ h[n] = state
      /\ \A i \in 1..n : Reports(newsPosts[i], h[i - 1], h[i])
      /\ KnownNews(h[0])
  BY <1>n DEF Tells
<1>3. g \in [0..n + 1 -> Histories] /\ g[n + 1] = state' /\ g[0] = h[0]
  <2>1. \A i \in 0..n + 1 : i # n + 1 => i \in 0..n
    BY <1>1
  <2>2. 0 \in 0..n + 1 /\ n + 1 \in 0..n + 1 /\ 0 # n + 1
    BY <1>1
  <2> QED
    BY <1>2, <1>g, <2>1, <2>2
<1>4. ASSUME NEW i \in 1..n + 1 PROVE Reports(newsPosts'[i], g[i - 1], g[i])
  <2>1. CASE i = n + 1
    <3>1. i - 1 = n /\ n \in 0..n + 1 /\ n # n + 1 /\ i \in 0..n + 1
      BY <1>1, <2>1
    <3>2. g[i - 1] = state /\ g[i] = state' /\ newsPosts'[i] = e
      BY <1>1, <1>2, <1>g, <2>1, <3>1
    <3> QED
      BY <3>2
  <2>2. CASE i # n + 1
    <3>1. i \in 1..n /\ i - 1 \in 0..n + 1 /\ i - 1 # n + 1 /\ i \in 0..n + 1
      BY <1>1, <2>2
    <3>2. g[i - 1] = h[i - 1] /\ g[i] = h[i] /\ newsPosts'[i] = newsPosts[i]
      BY <1>1, <1>g, <2>2, <3>1
    <3> QED
      BY <1>2, <3>1, <3>2
  <2> QED
    BY <2>1, <2>2
<1>5. KnownNews(g[0])'
  BY <1>2, <1>3 DEF KnownNews
<1>6. Tells(g)'
  BY <1>1, <1>3, <1>4, <1>5 DEF Tells
<1> QED
  BY <1>6

\* A step that posts and tells nothing.
LEMMA QuietTells ==
    ASSUME NEW h, Tells(h), UNCHANGED <<state, newsPosts, first, popups>>,
           listed' => listed /\ newsRows' = newsRows
    PROVE  \E g : Tells(g)'
<1>1. KnownNews(h[0])'
  BY DEF Tells, KnownNews
<1>2. Tells(h)'
  BY <1>1 DEF Tells
<1> QED
  BY <1>2

LEMMA NewsWalletKeeps == NewsInv /\ NewsWalletStep => NewsInv'
<1> SUFFICES ASSUME NewsInv, NewsWalletStep PROVE NewsInv'
  OBVIOUS
<1>1. PICK h : Tells(h)
  BY DEF NewsInv
<1>2. NewsTypes /\ UNCHANGED <<pageOpen, newsRows, listed, first, popups>>
  BY DEF NewsInv, NewsWalletStep, pageVars, pushVars
<1>3. ASSUME NEW n \in News, NEW to \in NewsStates,
             NEW action \in {"Added", "Updated", "Removed"}, ChangeNews(n, to, action),
             \/ action = "Added" /\ state[n] = "absent" /\ to = "unread"
             \/ action = "Updated" /\ state[n] = "unread" /\ to = "read"
             \/ action = "Removed" /\ state[n] \in {"unread", "read"} /\ to = "deleted"
      PROVE  NewsInv'
  <2>1. state' \in Histories /\ state' = [state EXCEPT ![n] = to]
    BY <1>2, <1>3 DEF NewsTypes, Histories, ChangeNews
  <2> DEFINE e == [action |-> action, items |-> ItemsOf(state', {n})]
  <2>2. newsPosts' = Append(newsPosts, e)
    BY <1>3 DEF ChangeNews, PostNews, ItemsOf
  <2>3. ItemsOf(state', {n}) \in SUBSET NewsItems
    BY <2>1 DEF ItemsOf, Histories, NewsItems
  <2>4. e \in NewsEvents
    BY <2>3 DEF NewsEvents
  <2>5. e.action = action /\ e.items = ItemsOf(state', {n})
    OBVIOUS
  <2> HIDE DEF e
  <2>6. Reports(e, state, state')
    BY <1>3, <2>1, <2>5 DEF Reports
  <2>7. \E g : Tells(g)'
    BY <1>1, <1>2, <2>1, <2>2, <2>4, <2>6, PostTells
  <2>8. NewsTypes'
    BY <1>2, <2>1, <2>2, <2>4 DEF NewsTypes
  <2> QED
    BY <2>7, <2>8 DEF NewsInv
<1>4. ASSUME UNCHANGED <<state, newsPosts>> PROVE NewsInv'
  <2>1. \E g : Tells(g)'
    BY <1>1, <1>2, <1>4, QuietTells
  <2>2. NewsTypes'
    BY <1>2, <1>4 DEF NewsTypes
  <2> QED
    BY <2>1, <2>2 DEF NewsInv
<1> USE DEF NewsStates
<1>5. CASE \E n \in News : NewNotification(n)
  BY <1>3, <1>5 DEF NewNotification
<1>6. CASE \E n \in News : MarkNotificationAsRead(n)
  BY <1>3, <1>4, <1>6 DEF MarkNotificationAsRead
<1>7. CASE \E n \in News : DeleteNotification(n)
  BY <1>3, <1>4, <1>7 DEF DeleteNotification
<1>8. CASE AnswerGetNotifications
  <2> DEFINE e == [action |-> "Reset", items |-> ItemsOf(state, Existed(state))]
  <2>1. state' = state /\ state \in Histories
    BY <1>2, <1>8 DEF AnswerGetNotifications, NewsTypes
  <2>2. newsPosts' = Append(newsPosts, e)
    BY <1>8 DEF AnswerGetNotifications, PostNews, ItemsOf, Existed, Existing
  <2>3. ItemsOf(state, Existed(state)) \in SUBSET NewsItems
    BY <2>1 DEF ItemsOf, Existed, Histories, NewsItems
  <2>4. e \in NewsEvents
    BY <2>3 DEF NewsEvents
  <2>5. e.action = "Reset" /\ e.items = ItemsOf(state, Existed(state))
    OBVIOUS
  <2> HIDE DEF e
  <2>6. Reports(e, state, state')
    BY <2>1, <2>5 DEF Reports
  <2>7. \E g : Tells(g)'
    BY <1>1, <1>2, <2>1, <2>2, <2>4, <2>6, PostTells
  <2>8. NewsTypes'
    BY <1>2, <2>1, <2>2, <2>4 DEF NewsTypes
  <2> QED
    BY <2>7, <2>8 DEF NewsInv
<1> QED
  BY <1>5, <1>6, <1>7, <1>8 DEF NewsWalletStep

\* An event is at the head of what is on its way.
LEMMA HeadTells ==
    ASSUME NewsTypes, newsPosts # <<>>, NEW h, Tells(h)
    PROVE  /\ Head(newsPosts) \in NewsEvents
           /\ h[0] \in Histories /\ h[1] \in Histories
           /\ Reports(Head(newsPosts), h[0], h[1])
           /\ KnownNews(h[0])
<1>1. Len(newsPosts) \in Nat \ {0} /\ Head(newsPosts) = newsPosts[1]
      /\ Head(newsPosts) \in NewsEvents
  BY DEF NewsTypes
<1>2. 1 \in 1..Len(newsPosts) /\ 0 \in 0..Len(newsPosts) /\ 1 \in 0..Len(newsPosts) /\ 1 - 1 = 0
  BY <1>1
<1>3. Reports(newsPosts[1], h[1 - 1], h[1])
  BY <1>2 DEF Tells
<1> QED
  BY <1>1, <1>2, <1>3 DEF Tells

\* What is on its way tells the rest once its head is known.
LEMMA TakeTells ==
    ASSUME NewsTypes, newsPosts # <<>>, newsPosts' = Tail(newsPosts), UNCHANGED state,
           NEW h, Tells(h), KnownNews(h[1])'
    PROVE  \E g : Tells(g)'
<1>n. PICK n : n = Len(newsPosts)
  OBVIOUS
<1>g. PICK g : g = [i \in 0..n - 1 |-> h[i + 1]]
  OBVIOUS
<1>1. /\ n \in Nat /\ n # 0 /\ Len(newsPosts') = n - 1
      /\ \A i \in 1..n - 1 : newsPosts'[i] = newsPosts[i + 1]
  BY <1>n DEF NewsTypes
<1>2. /\ h \in [0..n -> Histories] /\ h[n] = state
      /\ \A i \in 1..n : Reports(newsPosts[i], h[i - 1], h[i])
  BY <1>n DEF Tells
<1>3. g \in [0..n - 1 -> Histories] /\ g[n - 1] = state /\ g[0] = h[1]
  <2>1. \A i \in 0..n - 1 : i + 1 \in 0..n
    BY <1>1
  <2>2. n - 1 \in 0..n - 1 /\ 0 \in 0..n - 1 /\ (n - 1) + 1 = n /\ 0 + 1 = 1
    BY <1>1
  <2> QED
    BY <1>2, <1>g, <2>1, <2>2
<1>4. ASSUME NEW i \in 1..n - 1 PROVE Reports(newsPosts'[i], g[i - 1], g[i])
  <2>1. i \in 0..n - 1 /\ i - 1 \in 0..n - 1 /\ (i - 1) + 1 = i /\ i + 1 \in 1..n /\ (i + 1) - 1 = i
    BY <1>1
  <2>2. g[i - 1] = h[i] /\ g[i] = h[i + 1] /\ newsPosts'[i] = newsPosts[i + 1]
    BY <1>1, <1>g, <2>1
  <2>3. Reports(newsPosts[i + 1], h[(i + 1) - 1], h[i + 1])
    BY <1>2, <2>1
  <2> QED
    BY <2>1, <2>2, <2>3
<1>5. KnownNews(g[0])'
  BY <1>3 DEF KnownNews
<1>6. Tells(g)'
  BY <1>1, <1>2, <1>3, <1>4, <1>5 DEF Tells
<1> QED
  BY <1>6

\* The rows the page makes of an event have different ids and are few.
LEMMA EventRows ==
    ASSUME NEW e \in NewsEvents, NEW before \in Histories, NEW after \in Histories,
           Reports(e, before, after), NEW items \in SetToSeqs(ShownItems(e))
    PROVE  /\ items \in Seq(NewsItems) /\ OneEach(items)
           /\ RowsIn(items) = ShownItems(e)
<1>1. PICK ids \in SUBSET News : e.items = ItemsOf(after, ids)
  <2>1. Existed(after) \in SUBSET News /\ \A n \in News : {n} \in SUBSET News
    BY DEF Existed
  <2> QED
    BY <2>1 DEF Reports
<1>2. ShownItems(e) \in SUBSET e.items /\ ShownItems(e) \in SUBSET NewsItems
  BY DEF ShownItems, NewsEvents
<1>3. IsFiniteSet(ids)
  BY NewsAssumption, FS_Subset
<1>4. IsFiniteSet(e.items)
  <2> DEFINE f == [n \in ids |-> [id |-> n, state |-> after[n]]]
  <2>1. e.items = {f[n] : n \in ids}
    BY <1>1 DEF ItemsOf
  <2> HIDE DEF f
  <2> QED
    BY <1>3, <2>1, FiniteImage
<1>5. IsFiniteSet(ShownItems(e))
  BY <1>2, <1>4, FS_Subset
<1>6. \A x, y \in ShownItems(e) : x.id = y.id => x = y
  BY <1>1, <1>2 DEF ItemsOf
<1>7. OneEach(items)
  BY <1>5, <1>6, OrderOneEach
<1>8. items \in Seq(ShownItems(e)) /\ RowsIn(items) = ShownItems(e)
  BY <1>5, OrderFacts
<1>9. items \in Seq(NewsItems)
  BY <1>2, <1>8
<1> QED
  BY <1>7, <1>8, <1>9

\* A complete list shows what is visible.
LEMMA ListShows ==
    ASSUME NEW e \in NewsEvents, NEW before \in Histories, NEW after \in Histories,
           Reports(e, before, after), e.action = "Reset"
    PROVE  ShownItems(e) = Visible(after) /\ after = before
<1>1. after = before /\ e.items = ItemsOf(after, Existed(after))
  BY DEF Reports
<1>2. \A n \in News : after[n] \in {"absent", "unread", "read", "deleted"}
  BY DEF Histories, NewsStates
<1> QED
  BY <1>1, <1>2 DEF ShownItems, Visible, ItemsOf, Existed

\* A change shows one notification, or none.
LEMMA ChangeShows ==
    ASSUME NEW e \in NewsEvents, NEW before \in Histories, NEW after \in Histories,
           Reports(e, before, after), e.action # "Reset"
    PROVE  \E n \in News :
              /\ ShownItems(e) = IF n \in Older THEN {} ELSE {[id |-> n, state |-> after[n]]}
              /\ \A m \in News : m # n => after[m] = before[m]
              /\ \/ e.action = "Added" /\ before[n] = "absent" /\ after[n] = "unread"
                 \/ e.action = "Updated" /\ before[n] = "unread" /\ after[n] = "read"
                 \/ e.action = "Removed" /\ before[n] \in {"unread", "read"} /\ after[n] = "deleted"
<1>1. PICK n \in News :
          /\ e.items = ItemsOf(after, {n})
          /\ \/ e.action = "Added" /\ before[n] = "absent"
                /\ after = [before EXCEPT ![n] = "unread"]
             \/ e.action = "Updated" /\ before[n] = "unread"
                /\ after = [before EXCEPT ![n] = "read"]
             \/ e.action = "Removed" /\ before[n] \in {"unread", "read"}
                /\ after = [before EXCEPT ![n] = "deleted"]
  BY DEF Reports
<1>2. /\ \A m \in News : m # n => after[m] = before[m]
      /\ \/ e.action = "Added" /\ before[n] = "absent" /\ after[n] = "unread"
         \/ e.action = "Updated" /\ before[n] = "unread" /\ after[n] = "read"
         \/ e.action = "Removed" /\ before[n] \in {"unread", "read"} /\ after[n] = "deleted"
  BY <1>1 DEF Histories
<1>3. e.items = {[id |-> n, state |-> after[n]]}
  BY <1>1 DEF ItemsOf
<1>4. ShownItems(e) = IF n \in Older THEN {} ELSE {[id |-> n, state |-> after[n]]}
  BY <1>2, <1>3 DEF ShownItems
<1> QED
  BY <1>2, <1>4

\* A listed page follows.
LEMMA PageFollows ==
    ASSUME NewsTypes, NEW e \in NewsEvents, NEW before \in Histories, NEW after \in Histories,
           Reports(e, before, after), KnownNews(before), OnNotificationsDataModelChanged(e)
    PROVE  /\ newsRows' \in Seq(NewsItems) /\ (listed' => pageOpen')
           /\ listed' => OneEach(newsRows') /\ RowsIn(newsRows') = Visible(after)
<1>1. CASE ~pageOpen
  <2>1. ~listed /\ UNCHANGED <<pageOpen, newsRows, listed>>
    BY <1>1 DEF NewsTypes, OnNotificationsDataModelChanged, pageVars
  <2> QED
    BY <2>1 DEF NewsTypes
<1>2. CASE pageOpen
  <2>1. PICK items \in SetToSeqs(ShownItems(e)) :
            newsRows' = CASE e.action = "Reset" -> Reset(items)
                          [] e.action = "Added" -> Insert(newsRows, items)
                          [] e.action = "Removed" -> RemoveItems(newsRows, items)
                          [] e.action = "Updated" -> Update(newsRows, items)
    BY <1>2 DEF OnNotificationsDataModelChanged
  <2>2. pageOpen' /\ listed' = (listed \/ e.action = "Reset") /\ newsRows \in Seq(NewsItems)
    BY <1>2 DEF OnNotificationsDataModelChanged, NewsTypes
  <2>3. items \in Seq(NewsItems) /\ OneEach(items) /\ RowsIn(items) = ShownItems(e)
    BY EventRows
  <2>4. listed => OneEach(newsRows) /\ RowsIn(newsRows) = Visible(before)
    BY DEF KnownNews
  <2>5. CASE e.action = "Reset"
    <3>1. newsRows' = Reset(items) /\ listed'
      BY <2>1, <2>2, <2>5
    <3>2. newsRows' \in Seq(NewsItems) /\ OneEach(newsRows') /\ RowsIn(newsRows') = ShownItems(e)
      BY <2>3, <3>1, ResetRows
    <3>3. ShownItems(e) = Visible(after)
      BY <2>5, ListShows
    <3> QED
      BY <2>2, <3>2, <3>3
  <2>6. CASE e.action # "Reset"
    <3>1. PICK n \in News :
              /\ ShownItems(e) = IF n \in Older THEN {} ELSE {[id |-> n, state |-> after[n]]}
              /\ \A m \in News : m # n => after[m] = before[m]
              /\ \/ e.action = "Added" /\ before[n] = "absent" /\ after[n] = "unread"
                 \/ e.action = "Updated" /\ before[n] = "unread" /\ after[n] = "read"
                 \/ e.action = "Removed" /\ before[n] \in {"unread", "read"} /\ after[n] = "deleted"
      BY <2>6, ChangeShows
    <3>2. listed' => listed
      BY <2>2, <2>6
    <3>o. IdsIn(ShownItems(e)) = IF n \in Older THEN {} ELSE {n}
      <4>1. IdsIn({}) = {} /\ IdsIn({[id |-> n, state |-> after[n]]}) = {n}
        BY DEF IdsIn
      <4> QED
        BY <3>1, <4>1
    <3>w. \A s : Without(Visible(s), IdsIn(ShownItems(e))) =
                    ItemsOf(s, {m \in News \ Older : m # n /\ s[m] \in {"unread", "read"}})
      BY <3>o DEF Without, Visible, ItemsOf
    <3>v. ItemsOf(before, {m \in News \ Older : m # n /\ before[m] \in {"unread", "read"}}) =
          ItemsOf(after, {m \in News \ Older : m # n /\ after[m] \in {"unread", "read"}})
      BY <3>1 DEF ItemsOf
    <3>3. CASE e.action = "Added"
      <4>1. newsRows' = Insert(newsRows, items)
        BY <2>1, <3>3
      <4>2. /\ newsRows' \in Seq(NewsItems)
            /\ RowsIn(newsRows') = RowsIn(newsRows) \cup RowsIn(items)
            /\ OneEach(newsRows) /\ OneEach(items)
               /\ (\A x \in RowsIn(newsRows), y \in RowsIn(items) : x.id # y.id)
               => OneEach(newsRows')
        BY <2>2, <2>3, <4>1, InsertRows
      <4>3. before[n] = "absent" /\ after[n] = "unread"
        BY <3>1, <3>3
      <4>4. \A x \in Visible(before), y \in ShownItems(e) : x.id # y.id
        BY <3>1, <4>3 DEF Visible, ItemsOf
      <4>5. Visible(before) \cup ShownItems(e) = Visible(after)
        BY <3>1, <4>3 DEF Visible, ItemsOf
      <4> QED
        BY <2>2, <2>3, <2>4, <3>2, <4>2, <4>4, <4>5
    <3>4. CASE e.action = "Removed"
      <4>1. newsRows' = RemoveItems(newsRows, items)
        BY <2>1, <3>4
      <4>2. /\ newsRows' \in Seq(NewsItems)
            /\ OneEach(newsRows) => OneEach(newsRows') /\
                  RowsIn(newsRows') = Without(RowsIn(newsRows), IdsIn(RowsIn(items)))
        BY <2>2, <2>3, <4>1, RemoveItemsRows
      <4>3. after[n] = "deleted"
        BY <3>1, <3>4
      <4>4. Without(Visible(before), IdsIn(ShownItems(e))) = Visible(after)
        <5>1. {m \in News \ Older : m # n /\ after[m] \in {"unread", "read"}} =
              {m \in News \ Older : after[m] \in {"unread", "read"}}
          BY <4>3
        <5> QED
          BY <3>v, <3>w, <5>1 DEF Visible
      <4> QED
        BY <2>2, <2>3, <2>4, <3>2, <4>2, <4>4
    <3>5. CASE e.action = "Updated"
      <4>1. newsRows' = Update(newsRows, items)
        BY <2>1, <3>5
      <4>2. /\ newsRows' \in Seq(NewsItems)
            /\ OneEach(newsRows) /\ OneEach(items) =>
                  /\ OneEach(newsRows')
                  /\ RowsIn(newsRows') = Without(RowsIn(newsRows), IdsIn(RowsIn(items)))
                                         \cup RowsIn(items)
        <5>1. newsRows \in Seq(NewsItems) /\ items \in Seq(NewsItems)
          BY <2>2, <2>3
        <5>2. /\ Update(newsRows, items) \in Seq(NewsItems)
              /\ OneEach(newsRows) /\ OneEach(items) =>
                    /\ OneEach(Update(newsRows, items))
                    /\ RowsIn(Update(newsRows, items)) =
                          Without(RowsIn(newsRows), IdsIn(RowsIn(items))) \cup RowsIn(items)
          BY <5>1, UpdateRows
        <5> QED
          BY <4>1, <5>2
      <4>3. after[n] = "read"
        BY <3>1, <3>5
      <4>4. Without(Visible(before), IdsIn(ShownItems(e))) \cup ShownItems(e) = Visible(after)
        <5>1. ItemsOf(after, {m \in News \ Older : m # n /\ after[m] \in {"unread", "read"}})
              \cup ShownItems(e) = Visible(after)
          BY <3>1, <4>3 DEF Visible, ItemsOf
        <5> QED
          BY <3>v, <3>w, <5>1
      <4> QED
        BY <2>2, <2>3, <2>4, <3>2, <4>2, <4>4
    <3> QED
      BY <3>1, <3>3, <3>4, <3>5
  <2> QED
    BY <2>5, <2>6
<1> QED
  BY <1>1, <1>2

\* The manager pops up only what is new to it.
LEMMA ManagerPopsNew ==
    ASSUME NewsTypes, NEW e \in NewsEvents, NEW before \in Histories, NEW after \in Histories,
           Reports(e, before, after), KnownNews(before), OnNotificationsChanged(e)
    PROVE  /\ first' \in BOOLEAN /\ popups' \in [Newer -> 0..2]
           /\ \A n \in Newer :
                 /\ popups'[n] < 2
                 /\ popups'[n] > 0 => ~first' /\ after[n] # "absent"
<1>1. \A n \in Newer : n \in News /\ popups[n] \in 0..2 /\ popups[n] < 2
                       /\ (popups[n] > 0 => ~first /\ before[n] # "absent")
  BY NewsAssumption DEF NewsTypes, KnownNews
<1>2. \A n \in News : before[n] # "absent" => after[n] # "absent"
  BY DEF Reports, Histories
<1>3. CASE (first /\ e.action = "Reset") \/ e.action = "Added"
  <2>1. /\ first' = FALSE
        /\ popups' = [n \in Newer |->
              IF n \in Popups(e) /\ popups[n] < 2 THEN popups[n] + 1 ELSE popups[n]]
    BY <1>3 DEF OnNotificationsChanged
  <2>2. ASSUME NEW n \in Newer, n \in Popups(e) PROVE popups[n] = 0 /\ after[n] # "absent"
    <3>1. PICK x \in e.items : x.id = n /\ x.state = "unread"
      BY <2>2 DEF Popups, NewVersions
    <3>2. CASE e.action = "Added"
      <4>1. before[n] = "absent" /\ after[n] # "absent"
        BY <1>1, <3>1, <3>2 DEF Reports, ItemsOf, Histories
      <4> QED
        BY <1>1, <4>1
    <3>3. CASE first /\ e.action = "Reset"
      <4>1. after[n] # "absent"
        BY <3>1, <3>3 DEF Reports, ItemsOf, Existed
      <4> QED
        BY <1>1, <3>3, <4>1
    <3> QED
      BY <1>3, <3>2, <3>3
  <2>3. ASSUME NEW n \in Newer
        PROVE  popups'[n] \in 0..1 /\ (popups'[n] > 0 => after[n] # "absent")
    <3>1. CASE n \in Popups(e)
      <4>1. popups'[n] = 1
        BY <2>1, <2>2, <3>1
      <4> QED
        BY <2>2, <3>1, <4>1
    <3>2. CASE n \notin Popups(e)
      <4>1. popups'[n] = popups[n]
        BY <2>1, <3>2
      <4> QED
        BY <1>1, <1>2, <4>1
    <3> QED
      BY <3>1, <3>2
  <2>4. popups' \in [Newer -> 0..2]
    <3>1. \A k \in 0..1 : k \in 0..2
      OBVIOUS
    <3> QED
      BY <2>1, <2>3, <3>1
  <2> QED
    <3>1. \A n \in Newer : popups'[n] < 2 /\ (popups'[n] > 0 => after[n] # "absent")
      BY <2>3
    <3>2. first' \in BOOLEAN /\ ~first'
      BY <2>1
    <3> QED
      BY <2>4, <3>1, <3>2
<1>4. CASE ~((first /\ e.action = "Reset") \/ e.action = "Added")
  <2>1. UNCHANGED <<first, popups>>
    BY <1>4 DEF OnNotificationsChanged, pushVars
  <2> QED
    BY <1>1, <1>2, <2>1 DEF NewsTypes
<1> QED
  BY <1>3, <1>4

LEMMA TakeNewsKeeps == NewsInv /\ TakeNews => NewsInv'
<1> SUFFICES ASSUME NewsInv, TakeNews PROVE NewsInv'
  OBVIOUS
<1>1. PICK h : Tells(h)
  BY DEF NewsInv
<1>2. NewsTypes
  BY DEF NewsInv
<1>3. /\ newsPosts # <<>> /\ newsPosts' = Tail(newsPosts) /\ UNCHANGED state
      /\ OnNotificationsDataModelChanged(Head(newsPosts))
      /\ OnNotificationsChanged(Head(newsPosts))
  BY DEF TakeNews
<1>e. PICK e, before, after : e = Head(newsPosts) /\ before = h[0] /\ after = h[1]
  OBVIOUS
<1>4. /\ e \in NewsEvents /\ before \in Histories /\ after \in Histories
      /\ Reports(e, before, after) /\ KnownNews(before)
  BY <1>1, <1>2, <1>3, <1>e, HeadTells
<1>5. /\ newsRows' \in Seq(NewsItems) /\ (listed' => pageOpen')
      /\ listed' => OneEach(newsRows') /\ RowsIn(newsRows') = Visible(after)
  BY <1>2, <1>3, <1>4, <1>e, PageFollows
<1>6. /\ first' \in BOOLEAN /\ popups' \in [Newer -> 0..2]
      /\ \A n \in Newer :
            /\ popups'[n] < 2
            /\ popups'[n] > 0 => ~first' /\ after[n] # "absent"
  BY <1>2, <1>3, <1>4, <1>e, ManagerPopsNew
<1>7. KnownNews(h[1])'
  BY <1>5, <1>6, <1>e DEF KnownNews
<1>8. \E g : Tells(g)'
  BY <1>1, <1>2, <1>3, <1>7, TakeTells
<1>9. newsPosts' \in Seq(NewsEvents)
  BY <1>2, <1>3 DEF NewsTypes
<1> QED
  BY <1>2, <1>3, <1>5, <1>6, <1>8, <1>9 DEF NewsInv, NewsTypes

LEMMA NewsStep == NewsInv /\ [NewsNext]_newsVars => NewsInv'
<1> SUFFICES ASSUME NewsInv, [NewsNext]_newsVars PROVE NewsInv'
  OBVIOUS
<1>1. CASE NewsWalletStep
  BY <1>1, NewsWalletKeeps
<1>2. CASE TakeNews
  BY <1>2, TakeNewsKeeps
<1>3. ASSUME UNCHANGED <<state, newsPosts, first, popups>>,
             \/ UNCHANGED <<pageOpen, newsRows, listed>>
             \/ newsRows' = <<>> /\ listed' = FALSE
      PROVE  NewsInv'
  <2>1. PICK h : Tells(h)
    BY DEF NewsInv
  <2>2. \E g : Tells(g)'
    BY <1>3, <2>1, QuietTells
  <2>3. NewsTypes'
    <3>1. <<>> \in Seq(NewsItems)
      OBVIOUS
    <3>2. newsRows' \in Seq(NewsItems) /\ (listed' => pageOpen')
      <4>1. CASE UNCHANGED <<pageOpen, newsRows, listed>>
        BY <4>1 DEF NewsInv, NewsTypes
      <4>2. CASE newsRows' = <<>> /\ listed' = FALSE
        BY <3>1, <4>2
      <4> QED
        BY <1>3, <4>1, <4>2
    <3> QED
      BY <1>3, <3>2 DEF NewsInv, NewsTypes
  <2> QED
    BY <2>2, <2>3 DEF NewsInv
<1> USE DEF pageVars, pushVars
<1>4. CASE OpenNews
  BY <1>3, <1>4 DEF OpenNews
<1>5. CASE CloseNews
  BY <1>3, <1>5 DEF CloseNews
<1>6. CASE \E i \in 1..Len(newsRows) : MarkItemAsRead(i) \/ RemoveNewsItem(i)
  BY <1>3, <1>6 DEF MarkItemAsRead, RemoveNewsItem
<1>7. CASE ClearAll
  BY <1>3, <1>7 DEF ClearAll
<1>8. CASE \E n \in Newer : OnCancelPopup(n)
  BY <1>3, <1>8 DEF OnCancelPopup
<1>9. CASE UNCHANGED newsVars
  BY <1>3, <1>9 DEF newsVars
<1> QED
  BY <1>1, <1>2, <1>4, <1>5, <1>6, <1>7, <1>8, <1>9 DEF NewsNext

LEMMA NewsInvHolds == NewsSpec => []NewsInv
BY NewsInitial, NewsStep, PTL DEF NewsSpec

\* The user is told of a version at most once, whatever order messages, marks
\* and complete lists come in (push_notification_manager.cpp:69-96).
THEOREM VersionPopsUpOnce == NewsSpec => []PopupOnce
<1>1. NewsInv => PopupOnce
  BY DEF NewsInv, Tells, KnownNews, PopupOnce
<1> QED
  BY <1>1, NewsInvHolds, PTL

\* Once everything was delivered the page lists exactly what the wallet has
\* and has not deleted, one row each (notifications_view.cpp:37-52, 80-151).
THEOREM PageFollowsNews == NewsSpec => []NewsFollow
<1>1. NewsInv => NewsFollow
  <2> SUFFICES ASSUME NewsInv, listed, newsPosts = <<>>
               PROVE  /\ RowsIn(newsRows) = Visible(state)
                      /\ Cardinality(ShownIds) = Len(newsRows)
    BY DEF NewsFollow, RowsIn, Visible, ItemsOf
  <2>1. PICK h : Tells(h)
    BY DEF NewsInv
  <2>2. h[0] = state
    BY <2>1 DEF Tells
  <2>3. OneEach(newsRows) /\ RowsIn(newsRows) = Visible(state) /\ newsRows \in Seq(NewsItems)
    BY <2>1, <2>2 DEF Tells, KnownNews, NewsInv, NewsTypes
  <2>4. Cardinality(ShownIds) = Len(newsRows)
    BY <2>3, DistinctRows DEF ShownIds
  <2> QED
    BY <2>3, <2>4
<1> QED
  BY <1>1, NewsInvHolds, PTL

-----------------------------------------------------------------------------
(* The offers of the swap page *)

BoardSignals == [type : {"Added", "Removed", "Reset"}, offers : SUBSET Offers]
StatusSignals == [type : {"walletStatus"}, amount : Amounts]
BalanceSignals == [type : {"gotBalance"}, coin : Coins, amount : Amounts]
ConnectionSignals == [type : {"gotStatus"}, coin : Coins, ok : BOOLEAN]
Signals == BoardSignals \cup StatusSignals \cup BalanceSignals \cup ConnectionSignals

\* What a signal says of the wallet's offers before and after it.
SpeaksOf(e, before, after) ==
    \/ e.type = "Reset" /\ after = before /\ e.offers = after
    \/ \E id \in Offers :
          /\ e.offers = {id}
          /\ \/ e.type = "Added" /\ id \notin before /\ after = before \cup {id}
             \/ e.type = "Removed" /\ id \in before /\ after = before \ {id}
    \/ e.type \in {"walletStatus", "gotBalance", "gotStatus"} /\ after = before

OfferTypes ==
    /\ board \in SUBSET Offers
    /\ offerPosts \in Seq(Signals)
    /\ coinBalance \in [Coins -> Amounts]
    /\ coinOK \in [Coins -> BOOLEAN]
    /\ allOffers \in Seq(Rows(Offers))
    /\ fitOffers \in Seq(Rows(Offers))

\* The second table has the rows of the first that fit.
TablesAgree ==
    /\ OneEach(allOffers) /\ OneEach(fitOffers)
    /\ RowsIn(fitOffers) = RowsIn(allOffers) \cap FitRows

\* The wallet's offers after each signal on its way: h[0] is what the signals
\* that were taken have told, and every row is one of those.
Recalls(h) ==
    /\ h \in [0..Len(offerPosts) -> SUBSET Offers]
    /\ h[Len(offerPosts)] = board
    /\ \A i \in 1..Len(offerPosts) : SpeaksOf(offerPosts[i], h[i - 1], h[i])
    /\ RowsIn(allOffers) \subseteq Rows(h[0])

OffersInv == OfferTypes /\ TablesAgree /\ \E h : Recalls(h)

LEMMA OffersInitial == OffersInit => OffersInv
<1> SUFFICES ASSUME OffersInit PROVE OffersInv
  OBVIOUS
<1>1. /\ <<>> \in Seq(Signals) /\ <<>> \in Seq(Rows(Offers)) /\ Len(offerPosts) = 0
      /\ allOffers = <<>> /\ fitOffers = <<>>
  BY DEF OffersInit
<1>2. OfferTypes
  BY <1>1 DEF OffersInit, OfferTypes
<1>3. OneEach(<<>>) /\ RowsIn(<<>>) = {}
  BY DEF OneEach, RowsIn
<1>4. TablesAgree
  BY <1>1, <1>3 DEF TablesAgree
<1>5. Recalls([i \in 0..0 |-> board])
  BY <1>1, <1>2, <1>3 DEF Recalls, OfferTypes
<1> QED
  BY <1>2, <1>4, <1>5 DEF OffersInv

\* One more signal is on its way.
LEMMA PostRecalls ==
    ASSUME OffersInv, NEW e \in Signals, PostOffers(e), board' \in SUBSET Offers,
           SpeaksOf(e, board, board')
    PROVE  OffersInv'
<1>1. OfferTypes /\ TablesAgree
      /\ offerPosts' = Append(offerPosts, e)
      /\ UNCHANGED <<terms, available, coinBalance, coinOK, allOffers, fitOffers>>
  BY DEF OffersInv, PostOffers
<1>h. PICK h : Recalls(h)
  BY DEF OffersInv
<1>n. PICK n : n = Len(offerPosts)
  OBVIOUS
<1>g. PICK g : g = [i \in 0..n + 1 |-> IF i = n + 1 THEN board' ELSE h[i]]
  OBVIOUS
<1>2. /\ n \in Nat /\ Len(offerPosts') = n + 1 /\ offerPosts'[n + 1] = e
      /\ \A i \in 1..n : offerPosts'[i] = offerPosts[i]
  BY <1>n, <1>1 DEF OfferTypes
<1>3. /\ h \in [0..n -> SUBSET Offers] /\ h[n] = board
      /\ \A i \in 1..n : SpeaksOf(offerPosts[i], h[i - 1], h[i])
      /\ RowsIn(allOffers) \subseteq Rows(h[0])
  BY <1>n, <1>h DEF Recalls
<1>4. g \in [0..n + 1 -> SUBSET Offers] /\ g[n + 1] = board' /\ g[0] = h[0]
  <2>1. \A i \in 0..n + 1 : i # n + 1 => i \in 0..n
    BY <1>2
  <2>2. 0 \in 0..n + 1 /\ n + 1 \in 0..n + 1 /\ 0 # n + 1
    BY <1>2
  <2> QED
    BY <1>3, <1>g, <2>1, <2>2
<1>5. ASSUME NEW i \in 1..n + 1 PROVE SpeaksOf(offerPosts'[i], g[i - 1], g[i])
  <2>1. CASE i = n + 1
    <3>1. i - 1 = n /\ n \in 0..n + 1 /\ n # n + 1 /\ i \in 0..n + 1
      BY <1>2, <2>1
    <3>2. g[i - 1] = board /\ g[i] = board' /\ offerPosts'[i] = e
      BY <1>2, <1>3, <1>g, <2>1, <3>1
    <3> QED
      BY <3>2
  <2>2. CASE i # n + 1
    <3>1. i \in 1..n /\ i - 1 \in 0..n + 1 /\ i - 1 # n + 1 /\ i \in 0..n + 1
      BY <1>2, <2>2
    <3>2. g[i - 1] = h[i - 1] /\ g[i] = h[i] /\ offerPosts'[i] = offerPosts[i]
      BY <1>2, <1>g, <2>2, <3>1
    <3> QED
      BY <1>3, <3>1, <3>2
  <2> QED
    BY <2>1, <2>2
<1>6. Recalls(g)'
  BY <1>1, <1>2, <1>3, <1>4, <1>5 DEF Recalls
<1>7. OfferTypes'
  BY <1>1 DEF OfferTypes
<1>8. TablesAgree'
  BY <1>1 DEF TablesAgree, FitRows, IsOfferFitBalance
<1> QED
  BY <1>6, <1>7, <1>8 DEF OffersInv

LEMMA OffersWalletKeeps ==
    /\ OffersInv
    /\ (\E id \in Offers : AddOffer(id) \/ RemoveOffer(id)) \/ AnswerGetSwapOffers \/ MoneyMoves
    => OffersInv'
<1> SUFFICES ASSUME OffersInv,
                    \/ \E id \in Offers : AddOffer(id) \/ RemoveOffer(id)
                    \/ AnswerGetSwapOffers
                    \/ MoneyMoves
             PROVE  OffersInv'
  OBVIOUS
<1>t. board \in SUBSET Offers
  BY DEF OffersInv, OfferTypes
<1>1. ASSUME NEW id \in Offers, AddOffer(id) PROVE OffersInv'
  <2> DEFINE e == [type |-> "Added", offers |-> {id}]
  <2>1. e \in Signals /\ e.type = "Added" /\ e.offers = {id}
    BY DEF Signals, BoardSignals
  <2> HIDE DEF e
  <2>2. PostOffers(e) /\ board' = board \cup {id} /\ id \notin board
    BY <1>1 DEF AddOffer, e
  <2>3. SpeaksOf(e, board, board')
    BY <2>1, <2>2 DEF SpeaksOf
  <2> QED
    BY <1>t, <2>1, <2>2, <2>3, PostRecalls
<1>2. ASSUME NEW id \in Offers, RemoveOffer(id) PROVE OffersInv'
  <2> DEFINE e == [type |-> "Removed", offers |-> {id}]
  <2>1. e \in Signals /\ e.type = "Removed" /\ e.offers = {id}
    BY DEF Signals, BoardSignals
  <2> HIDE DEF e
  <2>2. PostOffers(e) /\ board' = board \ {id} /\ id \in board
    BY <1>2 DEF RemoveOffer, e
  <2>3. SpeaksOf(e, board, board')
    BY <2>1, <2>2 DEF SpeaksOf
  <2> QED
    BY <1>t, <2>1, <2>2, <2>3, PostRecalls
<1>3. CASE AnswerGetSwapOffers
  <2> DEFINE e == [type |-> "Reset", offers |-> board]
  <2>1. e \in Signals /\ e.type = "Reset" /\ e.offers = board
    BY <1>t DEF Signals, BoardSignals
  <2> HIDE DEF e
  <2>2. PostOffers(e) /\ board' = board
    BY <1>3 DEF AnswerGetSwapOffers, e
  <2>3. SpeaksOf(e, board, board')
    BY <2>1, <2>2 DEF SpeaksOf
  <2> QED
    BY <1>t, <2>1, <2>2, <2>3, PostRecalls
<1>4. CASE MoneyMoves
  <2>1. ASSUME NEW e \in Signals, PostOffers(e), e.type \in {"walletStatus", "gotBalance", "gotStatus"}
        PROVE  OffersInv'
    <3>1. board' = board
      BY <1>4 DEF MoneyMoves
    <3>2. SpeaksOf(e, board, board')
      BY <2>1, <3>1 DEF SpeaksOf
    <3> QED
      BY <1>t, <2>1, <3>1, <3>2, PostRecalls
  <2>2. ASSUME NEW amount \in Amounts, PostOffers([type |-> "walletStatus", amount |-> amount])
        PROVE  OffersInv'
    <3>1. [type |-> "walletStatus", amount |-> amount] \in Signals
      BY DEF Signals, StatusSignals
    <3> QED
      BY <2>1, <2>2, <3>1
  <2>3. ASSUME NEW coin \in Coins, NEW amount \in Amounts,
               PostOffers([type |-> "gotBalance", coin |-> coin, amount |-> amount])
        PROVE  OffersInv'
    <3>1. [type |-> "gotBalance", coin |-> coin, amount |-> amount] \in Signals
      BY DEF Signals, BalanceSignals
    <3> QED
      BY <2>1, <2>3, <3>1
  <2>4. ASSUME NEW coin \in Coins, NEW ok \in BOOLEAN,
               PostOffers([type |-> "gotStatus", coin |-> coin, ok |-> ok])
        PROVE  OffersInv'
    <3>1. [type |-> "gotStatus", coin |-> coin, ok |-> ok] \in Signals
      BY DEF Signals, ConnectionSignals
    <3> QED
      BY <2>1, <2>4, <3>1
  <2> QED
    BY <1>4, <2>2, <2>3, <2>4 DEF MoneyMoves
<1> QED
  BY <1>1, <1>2, <1>3, <1>4

\* What the signal at the head says.
LEMMA HeadSpeaks ==
    ASSUME OfferTypes, offerPosts # <<>>, NEW h, Recalls(h)
    PROVE  /\ Head(offerPosts) \in Signals
           /\ h[0] \in SUBSET Offers /\ h[1] \in SUBSET Offers
           /\ SpeaksOf(Head(offerPosts), h[0], h[1])
           /\ RowsIn(allOffers) \subseteq Rows(h[0])
<1>1. Len(offerPosts) \in Nat \ {0} /\ Head(offerPosts) = offerPosts[1]
      /\ Head(offerPosts) \in Signals
  BY DEF OfferTypes
<1>2. 1 \in 1..Len(offerPosts) /\ 0 \in 0..Len(offerPosts) /\ 1 \in 0..Len(offerPosts) /\ 1 - 1 = 0
  BY <1>1
<1>3. SpeaksOf(offerPosts[1], h[1 - 1], h[1])
  BY <1>2 DEF Recalls
<1> QED
  BY <1>1, <1>2, <1>3 DEF Recalls

\* The rest is on its way once the head is taken.
LEMMA TakeRecalls ==
    ASSUME OfferTypes, offerPosts # <<>>, offerPosts' = Tail(offerPosts), UNCHANGED board,
           NEW h, Recalls(h), RowsIn(allOffers)' \subseteq Rows(h[1])
    PROVE  \E g : Recalls(g)'
<1>n. PICK n : n = Len(offerPosts)
  OBVIOUS
<1>g. PICK g : g = [i \in 0..n - 1 |-> h[i + 1]]
  OBVIOUS
<1>1. /\ n \in Nat /\ n # 0 /\ Len(offerPosts') = n - 1
      /\ \A i \in 1..n - 1 : offerPosts'[i] = offerPosts[i + 1]
  BY <1>n DEF OfferTypes
<1>2. /\ h \in [0..n -> SUBSET Offers] /\ h[n] = board
      /\ \A i \in 1..n : SpeaksOf(offerPosts[i], h[i - 1], h[i])
  BY <1>n DEF Recalls
<1>3. g \in [0..n - 1 -> SUBSET Offers] /\ g[n - 1] = board /\ g[0] = h[1]
  <2>1. \A i \in 0..n - 1 : i + 1 \in 0..n
    BY <1>1
  <2>2. n - 1 \in 0..n - 1 /\ 0 \in 0..n - 1 /\ (n - 1) + 1 = n /\ 0 + 1 = 1
    BY <1>1
  <2> QED
    BY <1>2, <1>g, <2>1, <2>2
<1>4. ASSUME NEW i \in 1..n - 1 PROVE SpeaksOf(offerPosts'[i], g[i - 1], g[i])
  <2>1. i \in 0..n - 1 /\ i - 1 \in 0..n - 1 /\ (i - 1) + 1 = i /\ i + 1 \in 1..n /\ (i + 1) - 1 = i
    BY <1>1
  <2>2. g[i - 1] = h[i] /\ g[i] = h[i + 1] /\ offerPosts'[i] = offerPosts[i + 1]
    BY <1>1, <1>g, <2>1
  <2>3. SpeaksOf(offerPosts[i + 1], h[(i + 1) - 1], h[i + 1])
    BY <1>2, <2>1
  <2> QED
    BY <2>1, <2>2, <2>3
<1>5. Recalls(g)'
  BY <1>1, <1>2, <1>3, <1>4 DEF Recalls
<1> QED
  BY <1>5

\* The second table is filled again with what fits now.
LEMMA Refilled ==
    ASSUME OfferTypes, TablesAgree, UNCHANGED allOffers,
           fitOffers' = Reset(Kept(allOffers, FitRows'))
    PROVE  TablesAgree' /\ fitOffers' \in Seq(Rows(Offers))
<1> DEFINE S == Rows(Offers)
           kept == Kept(allOffers, FitRows')
<1>1. allOffers \in Seq(S) /\ OneEach(allOffers)
  BY DEF OfferTypes, TablesAgree
<1>2. /\ kept \in Seq(S) /\ RowsIn(kept) = RowsIn(allOffers) \cap FitRows'
      /\ OneEach(kept)
  BY <1>1, KeptRows
<1>3. fitOffers' = Reset(kept)
  OBVIOUS
<1> HIDE DEF kept, S
<1>4. /\ Reset(kept) \in Seq(S) /\ RowsIn(Reset(kept)) = RowsIn(kept)
      /\ OneEach(Reset(kept))
  BY <1>2, ResetRows
<1>5. RowsIn(fitOffers') = RowsIn(allOffers') \cap FitRows'
  BY <1>2, <1>3, <1>4
<1>6. OneEach(fitOffers') /\ OneEach(allOffers')
  BY <1>1, <1>3, <1>4
<1> QED
  BY <1>3, <1>4, <1>5, <1>6 DEF TablesAgree, S

\* Nothing a table is chosen by changes.
LEMMA SameFit ==
    UNCHANGED <<terms, available, coinBalance, coinOK>> => FitRows' = FitRows
  BY DEF FitRows, IsOfferFitBalance

LEMMA MoneyKeeps ==
    ASSUME OfferTypes, TablesAgree, offerPosts # <<>>, UNCHANGED terms,
           \/ \E amount \in Amounts : SetAvailable(amount)
           \/ \E coin \in Coins, amount \in Amounts : SetBalance(coin, amount)
           \/ \E coin \in Coins, ok \in BOOLEAN : SetStatus(coin, ok)
    PROVE  /\ TablesAgree' /\ fitOffers' \in Seq(Rows(Offers)) /\ allOffers' = allOffers
           /\ coinBalance' \in [Coins -> Amounts] /\ coinOK' \in [Coins -> BOOLEAN]
<1>t. /\ allOffers \in Seq(Rows(Offers)) /\ fitOffers \in Seq(Rows(Offers))
      /\ coinBalance \in [Coins -> Amounts] /\ coinOK \in [Coins -> BOOLEAN]
  BY DEF OfferTypes
<1>1. ASSUME UNCHANGED <<available, coinBalance, coinOK, allOffers, fitOffers>>
      PROVE  TablesAgree' /\ fitOffers' \in Seq(Rows(Offers))
  <2>1. FitRows' = FitRows
    BY <1>1, SameFit
  <2> QED
    BY <1>1, <1>t, <2>1 DEF TablesAgree
<1>2. ASSUME UNCHANGED allOffers, ResetAllOffersFitBalance
      PROVE  TablesAgree' /\ fitOffers' \in Seq(Rows(Offers))
  BY <1>2, Refilled DEF ResetAllOffersFitBalance
<1>3. ASSUME NEW amount \in Amounts, SetAvailable(amount)
      PROVE  /\ TablesAgree' /\ fitOffers' \in Seq(Rows(Offers)) /\ allOffers' = allOffers
             /\ coinBalance' = coinBalance /\ coinOK' = coinOK
  <2>1. CASE amount # available
    BY <1>2, <1>3, <2>1 DEF SetAvailable
  <2>2. CASE amount = available
    BY <1>1, <1>3, <2>2 DEF SetAvailable
  <2> QED
    BY <2>1, <2>2
<1>4. ASSUME NEW coin \in Coins, NEW amount \in Amounts, SetBalance(coin, amount)
      PROVE  /\ TablesAgree' /\ fitOffers' \in Seq(Rows(Offers)) /\ allOffers' = allOffers
             /\ coinBalance' \in [Coins -> Amounts] /\ coinOK' = coinOK
  <2>0. coinBalance' \in [Coins -> Amounts]
    BY <1>4, <1>t DEF SetBalance
  <2>1. CASE amount # coinBalance[coin]
    BY <1>2, <1>4, <2>0, <2>1 DEF SetBalance
  <2>2. CASE amount = coinBalance[coin]
    <3>1. coinBalance' = coinBalance
      BY <1>4, <1>t, <2>2 DEF SetBalance
    <3> QED
      BY <1>1, <1>4, <1>t, <2>2, <3>1 DEF SetBalance
  <2> QED
    BY <2>1, <2>2
<1>5. ASSUME NEW coin \in Coins, NEW ok \in BOOLEAN, SetStatus(coin, ok)
      PROVE  /\ TablesAgree' /\ fitOffers' \in Seq(Rows(Offers)) /\ allOffers' = allOffers
             /\ coinOK' \in [Coins -> BOOLEAN] /\ coinBalance' = coinBalance
  <2>0. coinOK' \in [Coins -> BOOLEAN]
    BY <1>5, <1>t DEF SetStatus
  <2>1. CASE ok # coinOK[coin]
    BY <1>2, <1>5, <2>0, <2>1 DEF SetStatus
  <2>2. CASE ok = coinOK[coin]
    <3>1. coinOK' = coinOK
      BY <1>5, <1>t, <2>2 DEF SetStatus
    <3> QED
      BY <1>1, <1>5, <1>t, <2>2, <3>1 DEF SetStatus
  <2> QED
    BY <2>1, <2>2
<1> QED
  BY <1>t, <1>3, <1>4, <1>5

LEMMA OffersOrdered ==
    ASSUME NEW ids \in SUBSET Offers, NEW rows \in SomeOrder(ids)
    PROVE  rows \in Seq(Rows(Offers)) /\ OneEach(rows) /\ RowsIn(rows) = Rows(ids)
<1>1. IsFiniteSet(ids)
  BY OffersAssumption, FS_Subset
<1>2. IsFiniteSet(Rows(ids))
  <2> DEFINE f == [id \in ids |-> [id |-> id]]
  <2>1. Rows(ids) = {f[id] : id \in ids}
    BY DEF Rows
  <2> HIDE DEF f
  <2> QED
    BY <1>1, <2>1, FiniteImage
<1>3. rows \in SetToSeqs(Rows(ids)) /\ Rows(ids) \subseteq Rows(Offers)
  BY DEF SomeOrder, Rows
<1>4. \A x, y \in Rows(ids) : x.id = y.id => x = y
  BY DEF Rows
<1>5. rows \in Seq(Rows(ids)) /\ RowsIn(rows) = Rows(ids)
  BY <1>2, <1>3, OrderFacts
<1>6. OneEach(rows)
  BY <1>2, <1>3, <1>4, OrderOneEach
<1> QED
  BY <1>3, <1>5, <1>6

\* Both tables take the same change.
LEMMA TablesFollow ==
    ASSUME OfferTypes, TablesAgree, NEW e \in BoardSignals, NEW before \in SUBSET Offers,
           NEW after \in SUBSET Offers, SpeaksOf(e, before, after),
           RowsIn(allOffers) \subseteq Rows(before), OnSwapOffersDataModelChanged(e),
           UNCHANGED terms
    PROVE  /\ TablesAgree' /\ RowsIn(allOffers)' \subseteq Rows(after)
           /\ allOffers' \in Seq(Rows(Offers)) /\ fitOffers' \in Seq(Rows(Offers))
<1> DEFINE S == Rows(Offers)
           F == FitRows
           All == RowsIn(allOffers)
<1>1. PICK rows \in SomeOrder(e.offers) :
          /\ e.type = "Reset" => /\ allOffers' = Reset(rows)
                                 /\ fitOffers' = Reset(Kept(allOffers', F))
          /\ e.type = "Added" => /\ allOffers' = Insert(allOffers, rows)
                                 /\ fitOffers' = Insert(fitOffers, Kept(rows, F))
          /\ e.type = "Removed" => /\ allOffers' = RemoveItems(allOffers, rows)
                                   /\ fitOffers' = RemoveItems(fitOffers, Kept(rows, F))
  BY DEF OnSwapOffersDataModelChanged, Fitting, RemoveAllOffersFitBalance
<1>2. FitRows' = F
  BY SameFit DEF OnSwapOffersDataModelChanged
<1>3. /\ e.offers \in SUBSET Offers /\ e.type \in {"Added", "Removed", "Reset"}
  BY DEF BoardSignals
<1>4. rows \in Seq(S) /\ OneEach(rows) /\ RowsIn(rows) = Rows(e.offers)
  BY <1>1, <1>3, OffersOrdered
<1>5. /\ allOffers \in Seq(S) /\ fitOffers \in Seq(S)
      /\ OneEach(allOffers) /\ OneEach(fitOffers) /\ RowsIn(fitOffers) = All \cap F
  BY DEF OfferTypes, TablesAgree
<1>6. /\ Kept(rows, F) \in Seq(S) /\ OneEach(Kept(rows, F))
      /\ RowsIn(Kept(rows, F)) = Rows(e.offers) \cap F
  BY <1>4, KeptRows
<1>7. \A x, y \in S : x.id = y.id => x = y
  BY DEF Rows
<1>8. All \subseteq S /\ Rows(e.offers) \subseteq S
  BY <1>3, <1>5 DEF RowsIn, Rows
<1> HIDE DEF S, F, All
<1>9. CASE e.type = "Reset"
  <2>1. e.offers = after
    BY <1>9 DEF SpeaksOf
  <2>2. /\ Reset(rows) \in Seq(S) /\ OneEach(Reset(rows))
        /\ RowsIn(Reset(rows)) = Rows(e.offers)
    BY <1>4, ResetRows
  <2>3. allOffers' \in Seq(S) /\ OneEach(allOffers') /\ RowsIn(allOffers') = Rows(after)
    BY <1>1, <1>9, <2>1, <2>2
  <2> DEFINE kept == Kept(allOffers', F)
  <2>4. kept \in Seq(S) /\ OneEach(kept) /\ RowsIn(kept) = RowsIn(allOffers') \cap F
    BY <2>3, KeptRows
  <2>5. fitOffers' = Reset(kept)
    BY <1>1, <1>9
  <2> HIDE DEF kept
  <2>6. /\ Reset(kept) \in Seq(S) /\ OneEach(Reset(kept)) /\ RowsIn(Reset(kept)) = RowsIn(kept)
    BY <2>4, ResetRows
  <2>7. fitOffers' \in Seq(S) /\ OneEach(fitOffers') /\ RowsIn(fitOffers') = RowsIn(allOffers') \cap F
    BY <2>4, <2>5, <2>6
  <2> QED
    BY <1>2, <2>3, <2>7 DEF TablesAgree, S
<1>10. CASE e.type = "Added"
  <2>1. PICK id \in Offers : e.offers = {id} /\ id \notin before /\ after = before \cup {id}
    BY <1>10 DEF SpeaksOf
  <2>2. \A x \in All, y \in Rows(e.offers) : x.id # y.id
    BY <2>1 DEF Rows, All
  <2>3. /\ Insert(allOffers, rows) \in Seq(S) /\ OneEach(Insert(allOffers, rows))
        /\ RowsIn(Insert(allOffers, rows)) = All \cup Rows(e.offers)
    BY <1>4, <1>5, <2>2, InsertRows DEF All
  <2>4. \A x \in RowsIn(fitOffers), y \in RowsIn(Kept(rows, F)) : x.id # y.id
    BY <1>5, <1>6, <2>2
  <2>5. /\ Insert(fitOffers, Kept(rows, F)) \in Seq(S)
        /\ OneEach(Insert(fitOffers, Kept(rows, F)))
        /\ RowsIn(Insert(fitOffers, Kept(rows, F))) = (All \cap F) \cup (Rows(e.offers) \cap F)
    BY <1>5, <1>6, <2>4, InsertRows
  <2>6. /\ allOffers' \in Seq(S) /\ OneEach(allOffers')
        /\ RowsIn(allOffers') = All \cup Rows(e.offers)
    BY <1>1, <1>10, <2>3
  <2>7. /\ fitOffers' \in Seq(S) /\ OneEach(fitOffers')
        /\ RowsIn(fitOffers') = RowsIn(allOffers') \cap F
    BY <1>1, <1>10, <2>5, <2>6
  <2>8. All \cup Rows(e.offers) \subseteq Rows(after)
    BY <2>1 DEF Rows, All
  <2> QED
    BY <1>2, <2>6, <2>7, <2>8 DEF TablesAgree, S
<1>11. CASE e.type = "Removed"
  <2>1. PICK id \in Offers : e.offers = {id} /\ after = before \ {id}
    BY <1>11 DEF SpeaksOf
  <2>2. /\ RemoveItems(allOffers, rows) \in Seq(S) /\ OneEach(RemoveItems(allOffers, rows))
        /\ RowsIn(RemoveItems(allOffers, rows)) = Without(All, IdsIn(Rows(e.offers)))
    BY <1>4, <1>5, RemoveItemsRows DEF All
  <2>3. /\ RemoveItems(fitOffers, Kept(rows, F)) \in Seq(S)
        /\ OneEach(RemoveItems(fitOffers, Kept(rows, F)))
        /\ RowsIn(RemoveItems(fitOffers, Kept(rows, F))) =
              Without(All \cap F, IdsIn(Rows(e.offers) \cap F))
    <3>1. /\ RemoveItems(fitOffers, Kept(rows, F)) \in Seq(S)
          /\ OneEach(RemoveItems(fitOffers, Kept(rows, F)))
          /\ RowsIn(RemoveItems(fitOffers, Kept(rows, F))) =
                Without(RowsIn(fitOffers), IdsIn(RowsIn(Kept(rows, F))))
      <4>1. PICK kept : kept = Kept(rows, F)
        OBVIOUS
      <4>2. kept \in Seq(S) /\ fitOffers \in Seq(S) /\ OneEach(fitOffers)
        BY <1>5, <1>6, <4>1
      <4>3. /\ RemoveItems(fitOffers, kept) \in Seq(S)
            /\ OneEach(RemoveItems(fitOffers, kept))
            /\ RowsIn(RemoveItems(fitOffers, kept)) =
                  Without(RowsIn(fitOffers), IdsIn(RowsIn(kept)))
        BY <4>2, RemoveItemsRows
      <4> QED
        BY <4>1, <4>3, Zenon
    <3> QED
      BY <1>5, <1>6, <3>1, Zenon
  <2>4. Without(All \cap F, IdsIn(Rows(e.offers) \cap F)) =
        Without(All, IdsIn(Rows(e.offers))) \cap F
    <3>1. \A x \in All \cap F : x.id \in IdsIn(Rows(e.offers) \cap F)
                                <=> x.id \in IdsIn(Rows(e.offers))
      BY <1>7, <1>8 DEF IdsIn
    <3> QED
      BY <3>1 DEF Without
  <2>5. /\ allOffers' \in Seq(S) /\ OneEach(allOffers')
        /\ RowsIn(allOffers') = Without(All, IdsIn(Rows(e.offers)))
    BY <1>1, <1>11, <2>2
  <2>6. /\ fitOffers' \in Seq(S) /\ OneEach(fitOffers')
        /\ RowsIn(fitOffers') = RowsIn(allOffers') \cap F
    BY <1>1, <1>11, <2>3, <2>4, <2>5
  <2>7. Without(All, IdsIn(Rows(e.offers))) \subseteq Rows(after)
    BY <2>1 DEF Rows, All, Without, IdsIn
  <2> QED
    BY <1>2, <2>5, <2>6, <2>7 DEF TablesAgree, S
<1> QED
  BY <1>3, <1>9, <1>10, <1>11

LEMMA TakeOfferKeeps == OffersInv /\ TakeOfferPost => OffersInv'
<1> SUFFICES ASSUME OffersInv, TakeOfferPost PROVE OffersInv'
  OBVIOUS
<1>1. /\ OfferTypes /\ TablesAgree /\ offerPosts # <<>>
      /\ offerPosts' = Tail(offerPosts) /\ UNCHANGED <<terms, board>>
  BY DEF OffersInv, TakeOfferPost
<1>h. PICK h : Recalls(h)
  BY DEF OffersInv
<1> DEFINE e == Head(offerPosts)
<1>2. /\ e \in Signals /\ h[0] \in SUBSET Offers /\ h[1] \in SUBSET Offers
      /\ SpeaksOf(e, h[0], h[1]) /\ RowsIn(allOffers) \subseteq Rows(h[0])
  BY <1>1, <1>h, HeadSpeaks
<1>3. /\ e.type = "walletStatus" => SetAvailable(e.amount)
      /\ e.type = "gotBalance" => SetBalance(e.coin, e.amount)
      /\ e.type = "gotStatus" => SetStatus(e.coin, e.ok)
      /\ e.type \in {"Added", "Removed", "Reset"} => OnSwapOffersDataModelChanged(e)
  BY DEF TakeOfferPost
<1>p. Tail(offerPosts) \in Seq(Signals)
  BY <1>1 DEF OfferTypes
<1> HIDE DEF e
<1>4. ASSUME TablesAgree', RowsIn(allOffers)' \subseteq Rows(h[1]),
             allOffers' \in Seq(Rows(Offers)), fitOffers' \in Seq(Rows(Offers)),
             coinBalance' \in [Coins -> Amounts], coinOK' \in [Coins -> BOOLEAN]
      PROVE  OffersInv'
  <2>1. \E g : Recalls(g)'
    BY <1>1, <1>h, <1>4, TakeRecalls
  <2>2. OfferTypes'
    BY <1>1, <1>4, <1>p DEF OfferTypes
  <2> QED
    BY <1>4, <2>1, <2>2 DEF OffersInv
<1>5. CASE e \in BoardSignals
  <2>1. e.type \in {"Added", "Removed", "Reset"}
    BY <1>5 DEF BoardSignals
  <2>2. OnSwapOffersDataModelChanged(e)
    BY <1>3, <2>1
  <2>3. coinBalance' \in [Coins -> Amounts] /\ coinOK' \in [Coins -> BOOLEAN]
    BY <1>1, <2>2 DEF OnSwapOffersDataModelChanged, OfferTypes
  <2>4. /\ TablesAgree' /\ RowsIn(allOffers)' \subseteq Rows(h[1])
        /\ allOffers' \in Seq(Rows(Offers)) /\ fitOffers' \in Seq(Rows(Offers))
    BY <1>1, <1>2, <1>5, <2>2, TablesFollow
  <2> QED
    BY <1>4, <2>3, <2>4
<1>6. CASE e \in StatusSignals \cup BalanceSignals \cup ConnectionSignals
  <2>1. \/ \E amount \in Amounts : SetAvailable(amount)
        \/ \E coin \in Coins, amount \in Amounts : SetBalance(coin, amount)
        \/ \E coin \in Coins, ok \in BOOLEAN : SetStatus(coin, ok)
    BY <1>3, <1>6 DEF StatusSignals, BalanceSignals, ConnectionSignals
  <2>2. /\ TablesAgree' /\ fitOffers' \in Seq(Rows(Offers)) /\ allOffers' = allOffers
        /\ coinBalance' \in [Coins -> Amounts] /\ coinOK' \in [Coins -> BOOLEAN]
    BY <1>1, <2>1, MoneyKeeps
  <2>3. h[1] = h[0]
    <3>1. e.type \in {"walletStatus", "gotBalance", "gotStatus"}
      BY <1>6 DEF StatusSignals, BalanceSignals, ConnectionSignals
    <3> QED
      BY <1>2, <3>1 DEF SpeaksOf
  <2>4. allOffers' \in Seq(Rows(Offers)) /\ RowsIn(allOffers)' \subseteq Rows(h[1])
    BY <1>1, <1>2, <2>2, <2>3 DEF OfferTypes
  <2> QED
    BY <1>4, <2>2, <2>4
<1> QED
  BY <1>2, <1>5, <1>6 DEF Signals

LEMMA OffersStep == OffersInv /\ [OffersNext]_offerVars => OffersInv'
<1> SUFFICES ASSUME OffersInv, [OffersNext]_offerVars PROVE OffersInv'
  OBVIOUS
<1>1. CASE TakeOfferPost
  BY <1>1, TakeOfferKeeps
<1>2. CASE (\E id \in Offers : AddOffer(id) \/ RemoveOffer(id)) \/ AnswerGetSwapOffers \/ MoneyMoves
  BY <1>2, OffersWalletKeeps
<1>3. CASE UNCHANGED offerVars
  <2>1. FitRows' = FitRows
    BY <1>3, SameFit DEF offerVars
  <2>2. TablesAgree'
    BY <1>3, <2>1 DEF OffersInv, TablesAgree, offerVars
  <2>3. OfferTypes' /\ \E h : Recalls(h)'
    BY <1>3 DEF OffersInv, OfferTypes, Recalls, offerVars
  <2> QED
    BY <2>2, <2>3 DEF OffersInv
<1> QED
  BY <1>1, <1>2, <1>3 DEF OffersNext

\* What the second table rests on: its rows are those of the first that fit,
\* and every signal on its way changes the offers as they were before it
\* (swap_offers_view.cpp:365-379, 412-489).
LEMMA OffersInvHolds == OffersSpec => []OffersInv
<1> QED
  BY OffersInitial, OffersStep, PTL DEF OffersSpec

\* The table of offers the user can accept has exactly the offers of the first
\* table that fit the balances shown, one row each, in every state of every
\* run of the page, for any set of offers and coins (swap_offers_view.cpp).
THEOREM OffersAlwaysFit == OffersSpec => []FitIsCurrent
<1>1. OffersInv => FitIsCurrent
  <2> SUFFICES ASSUME OffersInv PROVE FitIsCurrent
    OBVIOUS
  <2>1. /\ allOffers \in Seq(Rows(Offers)) /\ fitOffers \in Seq(Rows(Offers))
        /\ OneEach(fitOffers) /\ RowsIn(fitOffers) = RowsIn(allOffers) \cap FitRows
    BY DEF OffersInv, OfferTypes, TablesAgree
  <2>2. Ids(fitOffers) = IdsIn(RowsIn(fitOffers)) /\ Ids(allOffers) = IdsIn(RowsIn(allOffers))
    BY DEF Ids, IdsIn, RowsIn
  <2>3. \A x \in RowsIn(allOffers) : \E id \in Offers : x = [id |-> id]
    BY <2>1 DEF RowsIn, Rows
  <2> DEFINE Fits(id) == IsOfferFitBalance(id, available, coinBalance, coinOK)
  <2>4. FitRows = {[id |-> id] : id \in {o \in Offers : Fits(o)}}
    BY DEF FitRows, Rows
  <2> HIDE DEF Fits
  <2>5. IdsIn(RowsIn(allOffers) \cap FitRows) = {id \in IdsIn(RowsIn(allOffers)) : Fits(id)}
    BY <2>3, <2>4 DEF IdsIn
  <2>6. Cardinality(Ids(fitOffers)) = Len(fitOffers)
    BY <2>1, DistinctRows DEF Ids
  <2> QED
    BY <2>1, <2>2, <2>5, <2>6 DEF FitIsCurrent, Fits
<1> QED
  BY <1>1, OffersInvHolds, PTL

-----------------------------------------------------------------------------
(* The parts side by side *)

\* Each part does next to the others what it does alone.
LEMMA PartsAreThemselves == SideSpec => Spec /\ OffersSpec /\ NodeSpec /\ NewsSpec
<1>1. SideInit => Init /\ OffersInit /\ NodeInit /\ NewsInit
  BY DEF SideInit
<1>2. [SideNext]_sideVars =>
         /\ [Next]_vars /\ [OffersNext]_offerVars
         /\ [NodeNext]_nodeVars /\ [NewsNext]_newsVars
  BY Zenon DEF SideNext, sideVars
<1> QED
  BY <1>1, <1>2, PTL DEF SideSpec, Spec, OffersSpec, NodeSpec, NewsSpec

\* All that is proved of the four parts holds where they run side by side: the
\* specification that is model-checked.
THEOREM SidePagesCorrect ==
    SideSpec =>
        /\ [](VerdictsRight /\ NoTokenStranded)
        /\ [](FitIsCurrent /\ VerdictIsOfShown)
        /\ [](NewsFollow /\ PopupOnce)
        /\ MirrorsIds
  BY PartsAreThemselves, VerdictsAreRight, NoTokenIsStranded, OffersAlwaysFit,
     VerdictIsAlwaysOfShown, PageFollowsNews, VersionPopsUpOnce, ManagerMirrorsIds,
     PTL
=============================================================================
