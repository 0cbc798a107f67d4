---------------------------- MODULE TxFeed_proofs ----------------------------
(***************************************************************************)
(* What every view may rely on, for any set of transactions: the queue of  *)
(* notifications is the wallet's history since the last delivered event.   *)
(***************************************************************************)
EXTENDS TxFeed, TLAPS

FeedInv == FeedTypeOK /\ FeedInOrder

LEMMA FeedInitial == FeedInit => FeedInv
<1> SUFFICES ASSUME FeedInit PROVE FeedInv
  OBVIOUS
<1>1. queue \in Seq(Events)
  <2>1. <<>> \in Seq(Events)
    OBVIOUS
  <2> QED
    BY <2>1 DEF FeedInit
<1>2. FeedTypeOK
  BY <1>1 DEF FeedInit, FeedTypeOK
<1>3. FeedInOrder
  BY DEF FeedInit, FeedInOrder
<1> QED
  BY <1>2, <1>3 DEF FeedInv

\* The wallet's content before the next notification to be posted.
LEMMA LastPosted ==
    ASSUME FeedInv
    PROVE  /\ queue = <<>> => txs = seen
           /\ queue # <<>> => Len(queue) \in Nat \ {0} /\ txs = queue[Len(queue)].txs
BY DEF FeedInv, FeedTypeOK, FeedInOrder

\* A notification that says what changed keeps the queue in order.
LEMMA NotifyInOrder ==
    ASSUME FeedInv, NEW e \in Events, Follows(e, txs), e.txs = txs',
           queue' = Append(queue, e), seen' = seen, asked' \in BOOLEAN
    PROVE  FeedInv'
<1> USE DEF FeedInv, FeedTypeOK
<1>1. /\ queue' \in Seq(Events) /\ Len(queue') = Len(queue) + 1 /\ Len(queue) \in Nat
      /\ \A i \in 1..Len(queue) : queue'[i] = queue[i]
      /\ queue'[Len(queue) + 1] = e
  OBVIOUS
<1>2. FeedTypeOK'
  BY <1>1 DEF Events
<1>3. ASSUME NEW i \in 1..Len(queue')
      PROVE  Follows(queue'[i], IF i = 1 THEN seen' ELSE queue'[i - 1].txs)
  <2>1. CASE i <= Len(queue)
    <3>1. Follows(queue[i], IF i = 1 THEN seen ELSE queue[i - 1].txs)
      BY <1>1, <2>1 DEF FeedInOrder
    <3>2. queue'[i] = queue[i] /\ (i # 1 => queue'[i - 1] = queue[i - 1])
      BY <1>1, <2>1
    <3> QED
      BY <3>1, <3>2
  <2>2. CASE i = Len(queue) + 1
    <3>1. txs = IF i = 1 THEN seen ELSE queue'[i - 1].txs
      BY <1>1, <2>2 DEF FeedInOrder
    <3> QED
      BY <1>1, <2>2, <3>1
  <2> QED
    BY <1>1, <2>1, <2>2
<1>4. txs' = IF queue' = <<>> THEN seen' ELSE queue'[Len(queue')].txs
  BY <1>1
<1> QED
  BY <1>2, <1>3, <1>4 DEF FeedInOrder

LEMMA PostedInOrder ==
    ASSUME FeedInv, NEW a \in Actions, NEW ids \in SUBSET TxIDs,
           txs' \in [TxIDs -> Statuses], Notify(a, ids, txs'), seen' = seen,
           asked' \in BOOLEAN, Follows([action |-> a, ids |-> ids, txs |-> txs'], txs)
    PROVE  FeedInv'
<1> DEFINE e == [action |-> a, ids |-> ids, txs |-> txs']
<1>1. e \in Events /\ e.txs = txs' /\ queue' = Append(queue, e)
  BY DEF Events, Notify
<1>2. Follows(e, txs)
  OBVIOUS
<1> HIDE DEF e
<1> QED
  BY <1>1, <1>2, NotifyInOrder

\* Every step of the wallet posts what it changed.
LEMMA WalletStepInOrder == FeedInv /\ WalletStep => FeedInv'
<1> SUFFICES ASSUME FeedInv, WalletStep PROVE FeedInv'
  OBVIOUS
<1>t. txs \in [TxIDs -> Statuses] /\ asked \in BOOLEAN
  BY DEF FeedInv, FeedTypeOK
<1>1. ASSUME NEW id \in TxIDs, UpdateTx(id) PROVE FeedInv'
  <2>1. PICK s \in Following(txs[id]) : txs' = [txs EXCEPT ![id] = s]
    BY <1>1 DEF UpdateTx
  <2>2. s \in Statuses /\ s # "absent" /\ txs[id] # "absent"
    BY <1>t, <1>1 DEF UpdateTx, Following, Statuses
  <2>3. txs' \in [TxIDs -> Statuses]
    BY <1>t, <2>1, <2>2
  <2>4. Follows([action |-> "Updated", ids |-> {id}, txs |-> txs'], txs)
    BY <1>t, <2>1, <2>2 DEF Follows
  <2>5. Notify("Updated", {id}, txs') /\ seen' = seen /\ asked' \in BOOLEAN
    BY <1>t, <1>1 DEF UpdateTx
  <2> QED
    BY <2>3, <2>4, <2>5, PostedInOrder DEF Actions
<1>2. ASSUME NEW id \in TxIDs, DeleteTx(id) PROVE FeedInv'
  <2>1. txs' \in [TxIDs -> Statuses]
    BY <1>t, <1>2 DEF DeleteTx, Statuses
  <2>2. Follows([action |-> "Removed", ids |-> {id}, txs |-> txs'], txs)
    BY <1>t, <1>2 DEF DeleteTx, Follows
  <2>3. Notify("Removed", {id}, txs') /\ seen' = seen /\ asked' \in BOOLEAN
    BY <1>t, <1>2 DEF DeleteTx
  <2> QED
    BY <2>1, <2>2, <2>3, PostedInOrder DEF Actions
<1>3. ASSUME NEW id \in TxIDs, NEW s \in {"pending", "active"}, AddTx(id, s)
      PROVE  FeedInv'
  <2>1. txs' \in [TxIDs -> Statuses]
    BY <1>t, <1>3 DEF AddTx, Statuses
  <2>2. Follows([action |-> "Added", ids |-> {id}, txs |-> txs'], txs)
    BY <1>t, <1>3 DEF AddTx, Follows
  <2>3. Notify("Added", {id}, txs') /\ seen' = seen /\ asked' \in BOOLEAN
    BY <1>t, <1>3 DEF AddTx
  <2> QED
    BY <2>1, <2>2, <2>3, PostedInOrder DEF Actions
<1>4. ASSUME AnswerGetTransactions PROVE FeedInv'
  <2>1. Follows([action |-> "Reset", ids |-> Present(txs), txs |-> txs'], txs)
    BY <1>4 DEF AnswerGetTransactions, Follows
  <2>2. Present(txs) \in SUBSET TxIDs /\ txs' \in [TxIDs -> Statuses]
    BY <1>t, <1>4 DEF Present, AnswerGetTransactions
  <2>3. Notify("Reset", Present(txs), txs') /\ seen' = seen /\ asked' \in BOOLEAN
    BY <1>4 DEF AnswerGetTransactions
  <2> QED
    BY <2>1, <2>2, <2>3, PostedInOrder DEF Actions
<1> QED
  BY <1>1, <1>2, <1>3, <1>4 DEF WalletStep

\* What a delivered event says is true of the last one delivered before it, and
\* what is left is in order.
LEMMA TakeInOrder ==
    ASSUME FeedInv, TakeNotification, asked' \in BOOLEAN
    PROVE  /\ FeedInv'
           /\ Head(queue) \in Events
           /\ Follows(Head(queue), seen)
           /\ seen' = Head(queue).txs
<1> USE DEF FeedInv, FeedTypeOK
<1>1. /\ queue # <<>> /\ queue' = Tail(queue) /\ seen' = Head(queue).txs /\ txs' = txs
      /\ Len(queue) \in Nat \ {0} /\ Head(queue) = queue[1] /\ Head(queue) \in Events
  BY DEF TakeNotification
<1>2. /\ queue' \in Seq(Events) /\ Len(queue') = Len(queue) - 1
      /\ \A i \in 1..Len(queue') : queue'[i] = queue[i + 1]
  BY <1>1
<1>3. Follows(Head(queue), seen)
  BY <1>1 DEF FeedInOrder
<1>4. FeedTypeOK'
  BY <1>1, <1>2 DEF Events
<1>5. ASSUME NEW i \in 1..Len(queue')
      PROVE  Follows(queue'[i], IF i = 1 THEN seen' ELSE queue'[i - 1].txs)
  <2>1. Follows(queue[i + 1], queue[i].txs)
    BY <1>1, <1>2 DEF FeedInOrder
  <2>2. queue[i].txs = IF i = 1 THEN seen' ELSE queue'[i - 1].txs
    BY <1>1, <1>2
  <2> QED
    BY <1>2, <2>1, <2>2
<1>6. txs' = IF queue' = <<>> THEN seen' ELSE queue'[Len(queue')].txs
  <2>1. CASE Len(queue) = 1
    BY <1>1, <1>2, <2>1 DEF FeedInOrder
  <2>2. CASE Len(queue) > 1
    <3>1. Len(queue') \in 1..Len(queue') /\ Len(queue') + 1 = Len(queue)
      BY <1>1, <1>2, <2>2
    <3>2. queue'[Len(queue')] = queue[Len(queue)] /\ queue' # <<>>
      BY <1>2, <3>1
    <3> QED
      BY <1>1, <3>2 DEF FeedInOrder
  <2>3. Len(queue) = 1 \/ Len(queue) > 1
    <3>1. \A n \in Nat \ {0} : n = 1 \/ n > 1
      OBVIOUS
    <3> QED
      BY <1>1, <3>1, Zenon
  <2> QED
    BY <2>1, <2>2, <2>3
<1> QED
  BY <1>1, <1>3, <1>4, <1>5, <1>6 DEF FeedInOrder

LEMMA FeedUnchanged == FeedInv /\ UNCHANGED feedVars => FeedInv'
BY DEF FeedInv, FeedTypeOK, FeedInOrder, feedVars

\* Every step of the wallet adds one notification that carries the result.
LEMMA WalletStepNotifies ==
    ASSUME FeedInv, FeedInv', WalletStep
    PROVE  \E e \in Events : queue' = Append(queue, e) /\ e.txs = txs'
<1>1. PICK a, ids : Notify(a, ids, txs')
  BY DEF WalletStep, UpdateTx, DeleteTx, AddTx, AnswerGetTransactions
<1> DEFINE e == [action |-> a, ids |-> ids, txs |-> txs']
<1>2. queue' = Append(queue, e) /\ e.txs = txs'
  BY <1>1 DEF Notify
<1> HIDE DEF e
<1>3. e \in Events
  <2>1. queue \in Seq(Events) /\ queue' \in Seq(Events)
    BY DEF FeedInv, FeedTypeOK
  <2>2. Len(queue) + 1 \in DOMAIN queue' /\ queue'[Len(queue) + 1] = e
    BY <1>2, <2>1
  <2> QED
    BY <2>1, <2>2
<1> QED
  BY <1>2, <1>3

\* The wallet does nothing to the views.
LEMMA WalletStepKeeps == WalletStep => UNCHANGED <<seen, ready>>
BY DEF WalletStep, UpdateTx, DeleteTx, AddTx, AnswerGetTransactions

-----------------------------------------------------------------------------
\* A function of the wallet's content, of each notification in the queue.
Image(F) == [i \in 1..Len(queue) |-> F[queue[i].txs]]

LEMMA ImageAppend ==
    ASSUME FeedInv, NEW CONSTANT S, NEW CONSTANT F \in [[TxIDs -> Statuses] -> S],
           NEW CONSTANT e \in Events, queue' = Append(queue, e)
    PROVE  Image(F)' = Append(Image(F), F[e.txs])
<1>1. queue \in Seq(Events) /\ Len(queue) \in Nat
  BY DEF FeedInv, FeedTypeOK
<1>2. /\ Len(queue') = Len(queue) + 1
      /\ \A i \in 1..Len(queue) : queue'[i] = queue[i]
      /\ queue'[Len(queue) + 1] = e
  BY <1>1
<1>3. Image(F) \in Seq(S) /\ Len(Image(F)) = Len(queue) /\ F[e.txs] \in S
  <2>1. \A x \in Events : F[x.txs] \in S
    BY DEF Events
  <2>2. \A i \in 1..Len(queue) : F[queue[i].txs] \in S
    BY <1>1, <2>1
  <2> QED
    BY <1>1, <2>1, <2>2 DEF Image
<1>4. Image(F)' = [i \in 1..Len(queue) + 1 |-> F[queue'[i].txs]]
  BY <1>2 DEF Image
<1> QED
  BY <1>1, <1>2, <1>3, <1>4 DEF Image

LEMMA ImageTail ==
    ASSUME FeedInv, NEW CONSTANT S, NEW CONSTANT F \in [[TxIDs -> Statuses] -> S],
           queue # <<>>, queue' = Tail(queue)
    PROVE  /\ Image(F) # <<>>
           /\ Head(Image(F)) = F[Head(queue).txs]
           /\ Image(F)' = Tail(Image(F))
           /\ Head(queue).txs \in [TxIDs -> Statuses]
<1>1. queue \in Seq(Events) /\ Len(queue) \in Nat \ {0}
  BY DEF FeedInv, FeedTypeOK
<1>2. /\ Len(queue') = Len(queue) - 1
      /\ \A i \in 1..Len(queue') : queue'[i] = queue[i + 1]
      /\ Head(queue) = queue[1] /\ Head(queue) \in Events
  BY <1>1
<1>3. Image(F) \in Seq(S) /\ Len(Image(F)) = Len(queue)
  <2>1. \A x \in Events : F[x.txs] \in S
    BY DEF Events
  <2>2. \A i \in 1..Len(queue) : F[queue[i].txs] \in S
    BY <1>1, <2>1
  <2> QED
    BY <1>1, <2>2 DEF Image
<1> QED
  BY <1>1, <1>2, <1>3 DEF Image, Events
=============================================================================
