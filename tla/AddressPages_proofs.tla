------------------------- MODULE AddressPages_proofs -------------------------
(***************************************************************************)
(* For any addresses, comments and bounds: the sets of WalletModel catch   *)
(* up with the wallet while the address book is open, and so do the tables *)
(* of the book; the receive page never shows an address that was used      *)
(* before.                                                                 *)
(***************************************************************************)
EXTENDS AddressPages, DataFacts

SignalsPosted == [type : Signals, content : Contents]

\* The types the proofs need.
PageTypes ==
    /\ own \subseteq Items
    /\ contacts \subseteq Contacts
    /\ given \subseteq Addresses
    /\ saving \subseteq Unsaved
    /\ posted \in Seq(SignalsPosted)
    /\ receiver \in Addresses \cup {None}
    /\ comment \in Labels \cup {None}

PagesInv == PageTypes /\ LastListIsCurrent /\ IdsInv /\ AnnouncedAreNew

-----------------------------------------------------------------------------
\* Where the signals are after one more was posted, and after one was taken.
LEMMA EmitShifts ==
    ASSUME posted \in Seq(SignalsPosted), NEW t \in Signals, NEW c \in Contents, Emit(t, c)
    PROVE  /\ posted' \in Seq(SignalsPosted)
           /\ Len(posted) \in Nat
           /\ Len(posted') = Len(posted) + 1
           /\ \A i \in 1..Len(posted) : posted'[i] = posted[i]
           /\ posted'[Len(posted) + 1].type = t
           /\ posted'[Len(posted) + 1].content = c
<1>1. Signal(t, c) \in SignalsPosted /\ Signal(t, c).type = t /\ Signal(t, c).content = c
  BY DEF Signal, SignalsPosted
<1>2. posted' = Append(posted, Signal(t, c))
  BY DEF Emit
<1> HIDE DEF SignalsPosted
<1> QED
  BY <1>1, <1>2

LEMMA TakeShifts ==
    ASSUME posted \in Seq(SignalsPosted), TakeSignal
    PROVE  /\ posted' \in Seq(SignalsPosted)
           /\ Len(posted) \in Nat \ {0}
           /\ Len(posted') = Len(posted) - 1
           /\ \A i \in 1..Len(posted') : posted'[i] = posted[i + 1]
           /\ Head(posted) = posted[1]
           /\ Head(posted).type \in Signals /\ Head(posted).content \in Contents
<1>1. posted # <<>> /\ posted' = Tail(posted)
  BY DEF TakeSignal
<1>2. Head(posted) \in SignalsPosted
  BY <1>1
<1>3. Head(posted).type \in Signals /\ Head(posted).content \in Contents
  BY <1>2 DEF SignalsPosted
<1> HIDE DEF SignalsPosted
<1> QED
  BY <1>1, <1>3

\* A signal that joins keeps the last complete list current if it says that
\* the wallet has changed, or the wallet has not and a list is the wallet's.
LEMMA ListAfterEmit ==
    ASSUME posted \in Seq(SignalsPosted), LastListIsCurrent,
           NEW t \in Signals, NEW c \in Contents, Emit(t, c),
           t = "changed" \/ own' = own,
           t = "own" => c = own'
    PROVE  LastListIsCurrent'
<1> SUFFICES ASSUME NEW i \in 1..Len(posted'), posted'[i].type = "own",
                    \A j \in i + 1..Len(posted') : posted'[j].type \notin {"own", "changed"}
             PROVE  posted'[i].content = own'
  BY DEF LastListIsCurrent
<1>1. /\ Len(posted) \in Nat /\ Len(posted') = Len(posted) + 1
      /\ \A k \in 1..Len(posted) : posted'[k] = posted[k]
      /\ posted'[Len(posted) + 1].type = t /\ posted'[Len(posted) + 1].content = c
  BY EmitShifts
<1>2. CASE i = Len(posted) + 1
  BY <1>1, <1>2
<1>3. CASE i # Len(posted) + 1
  <2>1. i \in 1..Len(posted) /\ Len(posted) + 1 \in i + 1..Len(posted')
    BY <1>1, <1>3
  <2>2. t \notin {"own", "changed"} /\ own' = own
    BY <1>1, <2>1
  <2>3. \A j \in i + 1..Len(posted) : posted[j].type \notin {"own", "changed"}
    BY <1>1, <2>1
  <2> QED
    BY <1>1, <2>1, <2>2, <2>3 DEF LastListIsCurrent
<1> QED
  BY <1>2, <1>3

\* A step that posts a change or a complete list satisfies IdsInv whatever it
\* does to the sets.
LEMMA IdsAfterEmit ==
    ASSUME posted \in Seq(SignalsPosted),
           NEW t \in {"own", "changed"}, NEW c \in Contents, Emit(t, c)
    PROVE  IdsInv'
<1>1. t \in Signals
  BY DEF Signals
<1>2. /\ Len(posted) \in Nat /\ Len(posted') = Len(posted) + 1
      /\ posted'[Len(posted) + 1].type = t
  BY <1>1, EmitShifts
<1>3. Len(posted) + 1 \in 1..Len(posted')
  BY <1>2
<1> QED
  BY <1>2, <1>3 DEF IdsInv

\* A step that posts anything else leaves the sets as right as they were.
LEMMA IdsAfterOther ==
    ASSUME posted \in Seq(SignalsPosted), IdsInv,
           NEW t \in Signals, NEW c \in Contents, Emit(t, c), t \notin {"own", "changed"},
           own' = own, ids' = ids, labels' = labels, bookOpen' = bookOpen,
           "own" \in asked => "own" \in asked'
    PROVE  IdsInv'
<1>1. /\ Len(posted) \in Nat /\ Len(posted') = Len(posted) + 1
      /\ \A i \in 1..Len(posted) : posted'[i] = posted[i]
  BY EmitShifts
<1>2. (\A i \in 1..Len(posted') : posted'[i].type \notin {"own", "changed"})
      => \A i \in 1..Len(posted) : posted[i].type \notin {"own", "changed"}
  BY <1>1
<1> QED
  BY <1>2 DEF IdsInv, IdsOf, LabelsOf

\* Announcements stay new if no more is announced, and what is used or shown
\* after the step was used, shown, or not generated before it.
LEMMA AnnouncedKept ==
    ASSUME PageTypes, AnnouncedAreNew,
           given \subseteq given',
           \/ posted' = posted
           \/ \E t \in Signals \ {"generated"}, c \in Contents : Emit(t, c),
           Used' \cup {receiver'} \subseteq
              Used \cup {receiver, None, ZeroId} \cup (given' \ given),
           receiver' \notin Used',
           (Used' \ {ZeroId}) \cup ({receiver'} \ {None}) \subseteq given'
    PROVE  AnnouncedAreNew'
<1>1. /\ Len(posted) \in Nat /\ Len(posted') \in Nat
      /\ \A i \in 1..Len(posted') : posted'[i].type = "generated" =>
            i \in 1..Len(posted) /\ posted'[i] = posted[i]
  <2>1. CASE posted' = posted
    BY <2>1 DEF PageTypes
  <2>2. CASE \E t \in Signals \ {"generated"}, c \in Contents : Emit(t, c)
    <3>1. PICK t \in Signals \ {"generated"}, c \in Contents : Emit(t, c)
      BY <2>2
    <3>2. /\ Len(posted) \in Nat /\ Len(posted') = Len(posted) + 1
          /\ \A i \in 1..Len(posted) : posted'[i] = posted[i]
          /\ posted'[Len(posted) + 1].type = t
      BY <3>1, EmitShifts DEF PageTypes
    <3> QED
      BY <3>2
  <2> QED
    BY <2>1, <2>2
<1>2. given \subseteq Addresses /\ None \notin Addresses /\ ZeroId \notin Addresses
  BY OwnNoneAssumption, ZeroIdAssumption DEF PageTypes
<1>3. ASSUME NEW i \in 1..Len(posted'), posted'[i].type = "generated"
      PROVE  /\ posted'[i].content \subseteq given' \ (Used' \cup {receiver'})
             /\ \A j \in 1..Len(posted') \ {i} :
                   posted'[j].type = "generated" => posted'[i].content \cap posted'[j].content = {}
  <2>1. i \in 1..Len(posted) /\ posted'[i] = posted[i] /\ posted[i].type = "generated"
    BY <1>1, <1>3
  <2>2. posted[i].content \subseteq given \ (Used \cup {receiver})
    BY <2>1 DEF AnnouncedAreNew
  <2>3. posted[i].content \subseteq given' \ (Used' \cup {receiver'})
    BY <1>2, <2>2
  <2>4. \A j \in 1..Len(posted') \ {i} :
           posted'[j].type = "generated" => posted'[i].content \cap posted'[j].content = {}
    BY <1>1, <2>1 DEF AnnouncedAreNew
  <2> QED
    BY <2>1, <2>3, <2>4
<1> QED
  BY <1>3 DEF AnnouncedAreNew

-----------------------------------------------------------------------------
(* The steps of the wallet, by what they post *)

ChangeStep ==
    \/ \E item \in Items : AddAddress(item)
    \/ \E item \in saving : SaveAddress(item)
    \/ \E item \in own :
          \/ DeleteAddress(item)
          \/ \E label \in Labels \cup {None}, ends \in Times : UpdateAddress(item, label, ends)
    \/ \E id \in Contacts : ChangeContact(id)

LEMMA WalletSteps ==
    WalletStep => \/ ChangeStep
                  \/ \E which \in {"own", "contacts"} : AnswerGetAddresses(which)
                  \/ AnswerGenerate
                  \/ Tick
BY DEF WalletStep, ChangeStep

\* Every change is announced.
LEMMA ChangePosts ==
    ASSUME ChangeStep
    PROVE  Emit("changed", {}) /\ "changed" \in Signals /\ {} \in Contents
<1>1. "changed" \in Signals /\ {} \in Contents
  BY DEF Signals, Contents
<1>2. Emit("changed", {})
  BY DEF ChangeStep, AddAddress, SaveAddress, UpdateAddress, DeleteAddress, ChangeContact,
         OnAddressesChanged, EmitChanged
<1> QED
  BY <1>1, <1>2

\* An answer carries the list as it is.
LEMMA AnswerPosts ==
    ASSUME PageTypes, NEW which \in {"own", "contacts"}, AnswerGetAddresses(which)
    PROVE  \E c \in Contents :
              Emit(which, c) /\ which \in Signals /\ (which = "own" => c = own)
<1>1. own \in Contents /\ contacts \in Contents /\ which \in Signals
  BY DEF PageTypes, Contents, Signals
<1>2. Emit(which, IF which = "own" THEN own ELSE contacts)
  BY DEF AnswerGetAddresses
<1> QED
  BY <1>1, <1>2

\* A new id is announced, or nothing is.
LEMMA GeneratePosts ==
    ASSUME AnswerGenerate
    PROVE  \/ posted' = posted /\ given' = given
           \/ \E id \in Addresses \ given :
                 /\ given' = given \cup {id}
                 /\ Emit("generated", {id}) /\ "generated" \in Signals /\ {id} \in Contents
<1>1. "generated" \in Signals /\ \A id \in Addresses : {id} \in Contents
  BY DEF Signals, Contents
<1> QED
  BY <1>1 DEF AnswerGenerate

-----------------------------------------------------------------------------
LEMMA PagesInitial == Init => PagesInv
<1> SUFFICES ASSUME Init PROVE PagesInv
  OBVIOUS
<1> USE DEF Init, AddressesInit, BookClosed, ReceiveClosed
<1>1. posted \in Seq(SignalsPosted)
  <2>1. <<>> \in Seq(SignalsPosted)
    OBVIOUS
  <2> QED
    BY <2>1
<1>2. PageTypes
  BY <1>1 DEF PageTypes, IdsOf, Items
<1>3. LastListIsCurrent /\ IdsInv
  BY DEF LastListIsCurrent, IdsInv
<1>4. AnnouncedAreNew
  <2>1. IdsOf(saving) = {} /\ handed = {} /\ receiver = None /\ given = IdsOf(own)
    BY DEF IdsOf
  <2>2. given \subseteq Addresses
    BY <1>2 DEF PageTypes
  <2> QED
    BY <2>1, <2>2, OwnNoneAssumption DEF AnnouncedAreNew, Used
<1> QED
  BY <1>2, <1>3, <1>4 DEF PagesInv

\* A list that was posted is a list of addresses: what the slots take is typed.
LEMMA TypesStep == PageTypes /\ AnnouncedAreNew /\ [Next]_vars => PageTypes'
<1> SUFFICES ASSUME PageTypes, AnnouncedAreNew, [Next]_vars PROVE PageTypes'
  OBVIOUS
<1>1. CASE ChangeStep /\ UNCHANGED <<bookVars, receiveVars>>
  <2>1. posted' \in Seq(SignalsPosted)
    BY <1>1, ChangePosts, EmitShifts DEF PageTypes
  <2>2. receiver' = receiver /\ comment' = comment
    BY <1>1 DEF receiveVars
  <2>3. own' \subseteq Items /\ contacts' \subseteq Contacts /\ given' \subseteq Addresses /\ saving' \subseteq Unsaved
    <3>1. CASE \E item \in Items : AddAddress(item)
      BY <3>1 DEF AddAddress, PageTypes, Items, requestVars
    <3>2. CASE \E item \in saving : SaveAddress(item)
      <4>1. PICK item \in saving : SaveAddress(item)
        BY <3>2
      <4>2. item \in Unsaved /\ (item.id # ZeroId => item \in Items)
        BY <4>1 DEF PageTypes, Unsaved, Items
      <4> QED
        BY <4>1, <4>2, ZeroIdAssumption DEF SaveAddress, PageTypes
    <3>3. CASE \E item \in own : DeleteAddress(item)
      BY <3>3 DEF DeleteAddress, PageTypes, requestVars
    <3>4. CASE \E item \in own, label \in Labels \cup {None}, ends \in Times : UpdateAddress(item, label, ends)
      BY <3>4 DEF UpdateAddress, PageTypes, requestVars, Items
    <3>5. CASE \E id \in Contacts : ChangeContact(id)
      BY <3>5 DEF ChangeContact, PageTypes, requestVars
    <3> QED
      BY <1>1, <3>1, <3>2, <3>3, <3>4, <3>5 DEF ChangeStep
  <2> QED
    BY <2>1, <2>2, <2>3 DEF PageTypes
<1>2. CASE (\E which \in {"own", "contacts"} : AnswerGetAddresses(which)) /\ UNCHANGED <<bookVars, receiveVars>>
  <2>1. PICK which \in {"own", "contacts"} : AnswerGetAddresses(which)
    BY <1>2
  <2>2. posted' \in Seq(SignalsPosted)
    BY <2>1, AnswerPosts, EmitShifts DEF PageTypes
  <2> QED
    BY <1>2, <2>1, <2>2 DEF AnswerGetAddresses, PageTypes, receiveVars, walletVars
<1>3. CASE AnswerGenerate /\ UNCHANGED <<bookVars, receiveVars>>
  <2>1. posted' \in Seq(SignalsPosted) /\ given' \subseteq Addresses
    BY <1>3, GeneratePosts, EmitShifts DEF PageTypes
  <2> QED
    BY <1>3, <2>1 DEF AnswerGenerate, PageTypes, receiveVars
<1>4. CASE Tick /\ UNCHANGED <<bookVars, receiveVars>>
  BY <1>4 DEF Tick, PageTypes, receiveVars, requestVars, modelVars
<1>5. CASE BookStep /\ UNCHANGED receiveVars
  BY <1>5 DEF BookStep, PageTypes, receiveVars, walletVars, modelVars, addressVars, requestVars
<1>6. CASE ReceiveStep /\ UNCHANGED bookVars
  <2>1. CASE OpenReceive /\ UNCHANGED <<walletVars, asked, saving, modelVars>>
    BY <2>1 DEF OpenReceive, PageTypes, walletVars, modelVars
  <2>2. CASE \E text \in Labels \cup {None} : SetAddressComment(text) /\ UNCHANGED addressVars
    BY <2>2 DEF SetAddressComment, PageTypes, walletVars, modelVars, addressVars, requestVars
  <2>3. CASE (CloseReceive \/ CopyAddress \/ AbandonReceive)
             /\ UNCHANGED <<walletVars, asked, requests, modelVars>>
    <3>1. saving' \subseteq Unsaved
      <4>1. CASE AbandonReceive
        BY <4>1 DEF AbandonReceive, PageTypes
      <4>2. CASE CloseReceive \/ CopyAddress
        BY <4>2 DEF CloseReceive, CopyAddress, ReceiveSave, PageTypes, Unsaved
      <4> QED
        BY <2>3, <4>1, <4>2
    <3>2. receiver' = None /\ comment' = None
      BY <2>3 DEF CloseReceive, CopyAddress, AbandonReceive, LeaveReceive
    <3> QED
      BY <2>3, <3>1, <3>2 DEF PageTypes, walletVars, modelVars
  <2> QED
    BY <1>6, <2>1, <2>2, <2>3 DEF ReceiveStep
<1>7. CASE OnSignal
  <2>1. posted' \in Seq(SignalsPosted) /\ Len(posted) \in Nat \ {0} /\ Head(posted) = posted[1]
    BY <1>7, TakeShifts DEF OnSignal, PageTypes
  <2>2. receiver' \in Addresses \cup {None}
    <3>1. posted[1].type = "generated" => posted[1].content \subseteq Addresses
      BY <2>1 DEF AnnouncedAreNew, PageTypes
    <3> QED
      BY <1>7, <2>1, <3>1 DEF OnSignal, OnGeneratedNewAddress, PageTypes
  <2> QED
    BY <1>7, <2>1, <2>2 DEF OnSignal, TakeSignal, OnGeneratedNewAddress, PageTypes, walletVars
<1>8. CASE UNCHANGED vars
  BY <1>8 DEF vars, addressVars, walletVars, requestVars, modelVars, receiveVars, PageTypes
<1> QED
  BY <1>1, <1>2, <1>3, <1>4, <1>5, <1>6, <1>7, <1>8, WalletSteps DEF Next

-----------------------------------------------------------------------------
LEMMA ListStep == PageTypes /\ LastListIsCurrent /\ [Next]_vars => LastListIsCurrent'
<1> SUFFICES ASSUME PageTypes, LastListIsCurrent, [Next]_vars PROVE LastListIsCurrent'
  OBVIOUS
<1>1. posted \in Seq(SignalsPosted)
  BY DEF PageTypes
<1>2. CASE ChangeStep
  BY <1>1, <1>2, ChangePosts, ListAfterEmit
<1>3. CASE \E which \in {"own", "contacts"} : AnswerGetAddresses(which)
  <2>1. PICK which \in {"own", "contacts"} : AnswerGetAddresses(which)
    BY <1>3
  <2>2. own' = own
    BY <2>1 DEF AnswerGetAddresses, walletVars
  <2> QED
    BY <1>1, <2>1, <2>2, AnswerPosts, ListAfterEmit
<1>4. CASE AnswerGenerate
  <2>1. own' = own
    BY <1>4 DEF AnswerGenerate
  <2>2. CASE posted' = posted
    BY <2>1, <2>2 DEF LastListIsCurrent
  <2>3. CASE posted' # posted
    BY <1>1, <1>4, <2>1, <2>3, GeneratePosts, ListAfterEmit
  <2> QED
    BY <2>2, <2>3
<1>5. CASE UNCHANGED <<own, posted>>
  BY <1>5 DEF LastListIsCurrent
<1>6. CASE OnSignal
  <2>1. /\ own' = own /\ Len(posted) \in Nat \ {0} /\ Len(posted') = Len(posted) - 1
        /\ \A i \in 1..Len(posted') : posted'[i] = posted[i + 1]
    BY <1>1, <1>6, TakeShifts DEF OnSignal, TakeSignal, walletVars
  <2> SUFFICES ASSUME NEW i \in 1..Len(posted'), posted'[i].type = "own",
                      \A j \in i + 1..Len(posted') : posted'[j].type \notin {"own", "changed"}
               PROVE  posted'[i].content = own'
    BY DEF LastListIsCurrent
  <2>2. i + 1 \in 1..Len(posted) /\ posted'[i] = posted[i + 1]
    BY <2>1
  <2>3. ASSUME NEW j \in (i + 1) + 1..Len(posted)
        PROVE  posted[j].type \notin {"own", "changed"}
    <3>1. j - 1 \in i + 1..Len(posted') /\ posted'[j - 1] = posted[(j - 1) + 1] /\ (j - 1) + 1 = j
      BY <2>1
    <3> QED
      BY <3>1
  <2> QED
    BY <2>1, <2>2, <2>3 DEF LastListIsCurrent
<1>7. CASE BookStep \/ ReceiveStep \/ UNCHANGED vars
  <2>1. UNCHANGED <<own, posted>>
    BY <1>7 DEF BookStep, ReceiveStep, vars, addressVars, walletVars, modelVars
  <2> QED
    BY <1>5, <2>1
<1>8. CASE Tick
  BY <1>5, <1>8 DEF Tick, modelVars
<1> QED
  BY <1>2, <1>3, <1>4, <1>6, <1>7, <1>8, WalletSteps DEF Next

LEMMA IdsStep == PageTypes /\ LastListIsCurrent /\ IdsInv /\ [Next]_vars => IdsInv'
<1> SUFFICES ASSUME PageTypes, LastListIsCurrent, IdsInv, [Next]_vars PROVE IdsInv'
  OBVIOUS
<1>1. posted \in Seq(SignalsPosted)
  BY DEF PageTypes
<1>2. CASE ChangeStep
  BY <1>1, <1>2, ChangePosts, IdsAfterEmit
<1>3. CASE (\E which \in {"own", "contacts"} : AnswerGetAddresses(which)) /\ UNCHANGED bookVars
  <2>1. PICK which \in {"own", "contacts"} : AnswerGetAddresses(which)
    BY <1>3
  <2>2. PICK c \in Contents : Emit(which, c) /\ which \in Signals
    BY <2>1, AnswerPosts
  <2>3. CASE which = "own"
    BY <1>1, <2>2, <2>3, IdsAfterEmit
  <2>4. CASE which = "contacts"
    <3>1. /\ own' = own /\ ids' = ids /\ labels' = labels /\ bookOpen' = bookOpen
          /\ "own" \in asked => "own" \in asked'
      BY <1>3, <2>1, <2>4 DEF AnswerGetAddresses, walletVars, bookVars
    <3> QED
      BY <1>1, <2>2, <2>4, <3>1, IdsAfterOther
  <2> QED
    BY <2>3, <2>4
<1>4. CASE UNCHANGED <<own, posted, ids, labels, asked, bookOpen>>
  BY <1>4 DEF IdsInv, IdsOf, LabelsOf
<1>5. CASE AnswerGenerate /\ UNCHANGED bookVars
  <2>1. UNCHANGED <<own, ids, labels, asked, bookOpen>>
    BY <1>5 DEF AnswerGenerate, bookVars
  <2>2. CASE posted' = posted
    BY <1>4, <2>1, <2>2
  <2>3. CASE posted' # posted
    <3>1. PICK id \in Addresses \ given :
             Emit("generated", {id}) /\ "generated" \in Signals /\ {id} \in Contents
      BY <1>5, <2>3, GeneratePosts
    <3> QED
      BY <1>1, <2>1, <3>1, IdsAfterOther
  <2> QED
    BY <2>2, <2>3
<1>6. CASE OnSignal
  <2>1. /\ own' = own /\ Len(posted) \in Nat \ {0} /\ Len(posted') = Len(posted) - 1
        /\ \A i \in 1..Len(posted') : posted'[i] = posted[i + 1]
        /\ Head(posted) = posted[1]
    BY <1>1, <1>6, TakeShifts DEF OnSignal, TakeSignal, walletVars
  <2> SUFFICES ASSUME bookOpen', "own" \notin asked',
                      \A i \in 1..Len(posted') : posted'[i].type \notin {"own", "changed"}
               PROVE  ids' = IdsOf(own') /\ labels' = LabelsOf(own')
    BY DEF IdsInv
  <2>2. BookOnSignal(posted[1])
    BY <1>6, <2>1 DEF OnSignal
  <2>3. bookOpen
    BY <2>2 DEF BookOnSignal, OnAddresses, bookVars
  <2>4. posted[1].type # "changed"
    BY <2>2, <2>3 DEF BookOnSignal, GetAddressesFromModel
  <2>5. "own" \notin asked
    BY <2>2, <2>3, <2>4 DEF BookOnSignal, bookVars
  <2>6. \A j \in 2..Len(posted) : posted[j].type \notin {"own", "changed"}
    <3> SUFFICES ASSUME NEW j \in 2..Len(posted)
                 PROVE  posted[j].type \notin {"own", "changed"}
      OBVIOUS
    <3>1. j - 1 \in 1..Len(posted') /\ posted'[j - 1] = posted[(j - 1) + 1] /\ (j - 1) + 1 = j
      BY <2>1
    <3> QED
      BY <3>1
  <2>7. SetAddresses(posted[1])
    BY <1>6, <2>1 DEF OnSignal
  <2>8. CASE posted[1].type = "own"
    <3>1. posted[1].content = own
      BY <2>1, <2>6, <2>8 DEF LastListIsCurrent
    <3> QED
      BY <2>1, <2>7, <2>8, <3>1 DEF SetAddresses
  <2>9. CASE posted[1].type # "own"
    <3>1. \A j \in 1..Len(posted) : posted[j].type \notin {"own", "changed"}
      <4> SUFFICES ASSUME NEW j \in 1..Len(posted) PROVE posted[j].type \notin {"own", "changed"}
        OBVIOUS
      <4>1. j = 1 \/ j \in 2..Len(posted)
        BY <2>1
      <4> QED
        BY <2>4, <2>6, <2>9, <4>1
    <3>2. ids = IdsOf(own) /\ labels = LabelsOf(own)
      BY <2>3, <2>5, <3>1 DEF IdsInv
    <3>3. ids' = ids /\ labels' = labels
      BY <2>7, <2>9 DEF SetAddresses
    <3> QED
      BY <2>1, <3>2, <3>3 DEF IdsOf, LabelsOf
  <2> QED
    BY <2>8, <2>9
<1>7. CASE BookStep
  <2>1. CASE OpenBook
    BY <2>1 DEF OpenBook, GetAddressesFromModel, IdsInv
  <2>2. CASE CloseBook
    BY <2>2 DEF CloseBook, IdsInv
  <2>3. CASE (SortActiveAddresses \/ TimerEvent) /\ UNCHANGED addressVars
    BY <1>4, <2>3 DEF SortActiveAddresses, TimerEvent, addressVars, walletVars, requestVars, modelVars
  <2> QED
    BY <1>7, <2>1, <2>2, <2>3 DEF BookStep
<1>8. CASE (ReceiveStep /\ UNCHANGED bookVars) \/ UNCHANGED vars
  <2>1. UNCHANGED <<own, posted, ids, labels, asked, bookOpen>>
    BY <1>8 DEF ReceiveStep, vars, addressVars, walletVars, requestVars, modelVars, bookVars
  <2> QED
    BY <1>4, <2>1
<1>9. CASE Tick /\ UNCHANGED bookVars
  BY <1>4, <1>9 DEF Tick, requestVars, modelVars, bookVars
<1> QED
  BY <1>2, <1>3, <1>5, <1>6, <1>7, <1>8, <1>9, WalletSteps DEF Next

-----------------------------------------------------------------------------
\* A change of the wallet's addresses uses no id but one never generated.
LEMMA ChangeUses ==
    ASSUME PageTypes, AnnouncedAreNew, ChangeStep, UNCHANGED receiveVars
    PROVE  /\ given \subseteq given'
           /\ Used' \subseteq Used \cup (given' \ given)
           /\ receiver' = receiver
<1>1. handed' = handed /\ receiver' = receiver
  BY DEF receiveVars
<1>2. CASE \E item \in Items : AddAddress(item)
  <2>1. PICK item \in Items : AddAddress(item)
    BY <1>2
  <2>2. own' = own \cup {item} /\ saving' = saving /\ given' = given \cup {item.id} /\ item.id \notin given
    BY <2>1 DEF AddAddress, requestVars
  <2>3. IdsOf(own') = IdsOf(own) \cup {item.id} /\ IdsOf(saving') = IdsOf(saving)
    BY <2>2 DEF IdsOf
  <2> QED
    BY <1>1, <2>2, <2>3 DEF Used
<1>3. CASE \E item \in saving : SaveAddress(item)
  <2>1. PICK item \in saving : SaveAddress(item)
    BY <1>3
  <2>2. own' \subseteq own \cup {item} /\ saving' \subseteq saving /\ given' = given
    BY <2>1 DEF SaveAddress
  <2>3. IdsOf(own') \subseteq IdsOf(own) \cup IdsOf(saving) /\ IdsOf(saving') \subseteq IdsOf(saving)
    BY <2>1, <2>2 DEF IdsOf
  <2> QED
    BY <1>1, <2>2, <2>3 DEF Used
<1>4. CASE \E item \in own : \/ DeleteAddress(item)
                             \/ \E label \in Labels \cup {None}, ends \in Times :
                                   UpdateAddress(item, label, ends)
  <2>1. PICK item \in own : \/ DeleteAddress(item)
                            \/ \E label \in Labels \cup {None}, ends \in Times :
                                  UpdateAddress(item, label, ends)
    BY <1>4
  <2>2. \A other \in own' : other \in own \/ other.id = item.id
    <3>1. CASE DeleteAddress(item)
      BY <3>1 DEF DeleteAddress
    <3>2. ASSUME NEW label, NEW ends, UpdateAddress(item, label, ends)
          PROVE  own' = (own \ {item}) \cup {[id |-> item.id, label |-> label, ends |-> ends]}
      BY <3>2 DEF UpdateAddress
    <3> QED
      BY <2>1, <3>1, <3>2
  <2>3. saving' = saving /\ given' = given
    BY <2>1 DEF DeleteAddress, UpdateAddress, requestVars
  <2>4. IdsOf(own') \subseteq IdsOf(own) /\ IdsOf(saving') = IdsOf(saving)
    BY <2>1, <2>2, <2>3 DEF IdsOf
  <2> QED
    BY <1>1, <2>3, <2>4 DEF Used
<1>5. CASE \E id \in Contacts : ChangeContact(id)
  <2>1. own' = own /\ saving' = saving /\ given' = given
    BY <1>5 DEF ChangeContact, requestVars
  <2> QED
    BY <1>1, <2>1 DEF Used, IdsOf
<1> QED
  BY <1>2, <1>3, <1>4, <1>5 DEF ChangeStep

\* A page that is left may save what it shows, or the id that is not one.
LEMMA LeavingUses ==
    ASSUME PageTypes, CloseReceive \/ CopyAddress \/ AbandonReceive, own' = own
    PROVE  receiver' = None /\ Used' \subseteq Used \cup ({receiver} \ {None}) \cup {ZeroId}
<1>1. receiver' = None
  BY DEF CloseReceive, CopyAddress, AbandonReceive, LeaveReceive
<1>2. handed' \subseteq handed \cup ({receiver} \ {None})
  BY DEF CloseReceive, CopyAddress, AbandonReceive
<1>3. IdsOf(saving') \subseteq IdsOf(saving) \cup ({receiver} \ {None}) \cup {ZeroId}
  <2>1. CASE saving' = saving
    BY <2>1 DEF IdsOf
  <2>2. CASE ReceiveSave /\ saving' # saving
    <3>1. PICK ends \in Times : saving' = saving \cup
             {[id |-> IF receiver = None THEN ZeroId ELSE receiver, label |-> comment, ends |-> ends]}
      BY <2>2 DEF ReceiveSave
    <3> QED
      BY <3>1 DEF IdsOf
  <2> QED
    BY <2>1, <2>2 DEF CloseReceive, CopyAddress, AbandonReceive
<1>4. IdsOf(own') = IdsOf(own)
  BY DEF IdsOf
<1> QED
  BY <1>1, <1>2, <1>3, <1>4 DEF Used

LEMMA AnnouncedStep == PageTypes /\ AnnouncedAreNew /\ [Next]_vars => AnnouncedAreNew'
<1> SUFFICES ASSUME PageTypes, AnnouncedAreNew, [Next]_vars PROVE AnnouncedAreNew'
  OBVIOUS
<1>1. /\ posted \in Seq(SignalsPosted) /\ given \subseteq Addresses
      /\ receiver \in Addresses \cup {None}
      /\ None \notin Addresses \cup Contacts /\ ZeroId \in Contacts \ Addresses
  BY OwnNoneAssumption, ZeroIdAssumption DEF PageTypes
<1>2. /\ (Used \ {ZeroId}) \cup ({receiver} \ {None}) \subseteq given
      /\ receiver \notin Used
  BY DEF AnnouncedAreNew
<1>3. CASE UNCHANGED <<posted, given, receiver, handed, own, saving>>
  BY <1>3 DEF AnnouncedAreNew, Used, IdsOf
<1>4. CASE ChangeStep /\ UNCHANGED receiveVars
  <2>1. /\ given \subseteq given' /\ Used' \subseteq Used \cup (given' \ given)
        /\ receiver' = receiver
    BY <1>4, ChangeUses
  <2>2. \E t \in Signals \ {"generated"}, c \in Contents : Emit(t, c)
    BY <1>4, ChangePosts
  <2>3. receiver' \notin Used'
    <3>1. given' \subseteq Addresses
      BY <1>4, TypesStep DEF PageTypes
    <3> QED
      BY <1>1, <1>2, <2>1, <3>1
  <2>4. (Used' \ {ZeroId}) \cup ({receiver'} \ {None}) \subseteq given'
    BY <1>2, <2>1
  <2> QED
    BY <2>1, <2>2, <2>3, <2>4, AnnouncedKept
<1>5. CASE (\E which \in {"own", "contacts"} : AnswerGetAddresses(which)) /\ UNCHANGED receiveVars
  <2>1. PICK which \in {"own", "contacts"} : AnswerGetAddresses(which)
    BY <1>5
  <2>2. UNCHANGED <<given, receiver, handed, own, saving>>
    BY <1>5, <2>1 DEF AnswerGetAddresses, walletVars, receiveVars
  <2>3. Used' = Used /\ receiver' = receiver /\ given' = given
    BY <2>2 DEF Used, IdsOf
  <2>4. \E t \in Signals \ {"generated"}, c \in Contents : Emit(t, c)
    BY <2>1, AnswerPosts
  <2> QED
    BY <1>2, <2>3, <2>4, AnnouncedKept
<1>6. CASE AnswerGenerate /\ UNCHANGED receiveVars
  <2>1. UNCHANGED <<receiver, handed, own, saving>>
    BY <1>6 DEF AnswerGenerate, receiveVars
  <2>2. Used' = Used /\ receiver' = receiver
    BY <2>1 DEF Used, IdsOf
  <2>3. CASE posted' = posted /\ given' = given
    BY <1>3, <2>1, <2>3
  <2>4. ASSUME NEW id \in Addresses \ given, given' = given \cup {id},
               Emit("generated", {id}), "generated" \in Signals, {id} \in Contents
        PROVE  AnnouncedAreNew'
    <3>1. /\ Len(posted) \in Nat /\ Len(posted') = Len(posted) + 1
          /\ \A i \in 1..Len(posted) : posted'[i] = posted[i]
          /\ posted'[Len(posted) + 1].content = {id}
      BY <1>1, <2>4, EmitShifts
    <3>2. id \notin Used \cup {receiver}
      BY <1>1, <1>2
    <3>3. \A i \in 1..Len(posted') : i \in 1..Len(posted) \/ i = Len(posted) + 1
      BY <3>1
    <3>4. \A i \in 1..Len(posted) : posted[i].type = "generated" =>
             posted[i].content \subseteq given \ (Used \cup {receiver})
      BY DEF AnnouncedAreNew
    <3>5. ASSUME NEW i \in 1..Len(posted'), posted'[i].type = "generated"
          PROVE  posted'[i].content \subseteq given' \ (Used' \cup {receiver'})
      BY <2>2, <2>4, <3>1, <3>2, <3>3, <3>4, <3>5
    <3>6. ASSUME NEW i \in 1..Len(posted'), posted'[i].type = "generated",
                 NEW j \in 1..Len(posted') \ {i}, posted'[j].type = "generated"
          PROVE  posted'[i].content \cap posted'[j].content = {}
      <4>1. CASE i \in 1..Len(posted) /\ j \in 1..Len(posted)
        BY <3>1, <3>6, <4>1 DEF AnnouncedAreNew
      <4>2. CASE i = Len(posted) + 1
        <5>1. j \in 1..Len(posted)
          BY <3>3, <4>2
        <5>2. posted'[j].content \subseteq given
          BY <3>1, <3>4, <3>6, <5>1
        <5> QED
          BY <3>1, <4>2, <5>2
      <4>3. CASE j = Len(posted) + 1
        <5>1. i \in 1..Len(posted)
          BY <3>3, <4>3
        <5>2. posted'[i].content \subseteq given
          BY <3>1, <3>4, <3>6, <5>1
        <5> QED
          BY <3>1, <4>3, <5>2
      <4> QED
        BY <3>3, <4>1, <4>2, <4>3
    <3>7. /\ (Used' \ {ZeroId}) \cup ({receiver'} \ {None}) \subseteq given'
          /\ receiver' \notin Used'
      BY <1>2, <2>2, <2>4
    <3> QED
      BY <3>5, <3>6, <3>7 DEF AnnouncedAreNew
  <2> QED
    BY <1>6, <2>3, <2>4, GeneratePosts
<1>7. CASE OnSignal
  <2>1. /\ UNCHANGED <<own, given, saving, handed>>
        /\ OnGeneratedNewAddress(Head(posted))
    BY <1>7 DEF OnSignal, TakeSignal, OnGeneratedNewAddress, walletVars
  <2>2. Used' = Used
    BY <2>1 DEF Used, IdsOf
  <2>3. /\ Len(posted) \in Nat \ {0} /\ Len(posted') = Len(posted) - 1
        /\ \A i \in 1..Len(posted') : posted'[i] = posted[i + 1]
        /\ Head(posted) = posted[1]
    BY <1>1, <1>7, TakeShifts DEF OnSignal
  <2>4. \A i \in 1..Len(posted') : i + 1 \in 1..Len(posted) \ {1}
    BY <2>3
  <2>5. \/ receiver' = receiver
        \/ posted[1].type = "generated" /\ receiver' \in posted[1].content
    BY <2>1, <2>3 DEF OnGeneratedNewAddress
  <2>6. receiver' \notin Used' /\ ({receiver'} \ {None}) \subseteq given
    <3>1. 1 \in 1..Len(posted)
      BY <2>3
    <3> QED
      BY <1>2, <2>2, <2>5, <3>1 DEF AnnouncedAreNew
  <2>7. ASSUME NEW i \in 1..Len(posted'), posted'[i].type = "generated"
        PROVE  posted'[i].content \subseteq given' \ (Used' \cup {receiver'})
    <3>1. posted[i + 1].type = "generated" /\ i + 1 \in 1..Len(posted) \ {1} /\ 1 \in 1..Len(posted)
      BY <2>3, <2>4, <2>7
    <3>2. posted[i + 1].content \subseteq given \ (Used \cup {receiver})
      BY <3>1 DEF AnnouncedAreNew
    <3>3. posted[1].type = "generated" => posted[i + 1].content \cap posted[1].content = {}
      BY <3>1 DEF AnnouncedAreNew
    <3> QED
      BY <2>1, <2>2, <2>3, <2>5, <3>2, <3>3
  <2>8. ASSUME NEW i \in 1..Len(posted'), posted'[i].type = "generated",
               NEW j \in 1..Len(posted') \ {i}, posted'[j].type = "generated"
        PROVE  posted'[i].content \cap posted'[j].content = {}
    <3>1. i + 1 \in 1..Len(posted) /\ j + 1 \in 1..Len(posted) \ {i + 1}
      BY <2>4
    <3> QED
      BY <2>3, <2>8, <3>1 DEF AnnouncedAreNew
  <2> QED
    BY <1>2, <2>1, <2>2, <2>6, <2>7, <2>8 DEF AnnouncedAreNew
<1>8. CASE ReceiveStep
  <2>1. CASE OpenReceive /\ UNCHANGED <<walletVars, asked, saving, modelVars>>
    <3>1. /\ UNCHANGED <<own, given, saving, handed, posted>>
          /\ receiver' = None
      BY <2>1 DEF OpenReceive, walletVars, modelVars
    <3>2. Used' = Used
      BY <3>1 DEF Used, IdsOf
    <3>3. None \notin Used
      BY <1>1, <1>2
    <3> QED
      BY <1>2, <3>1, <3>2, <3>3, AnnouncedKept
  <2>2. CASE \E text \in Labels \cup {None} : SetAddressComment(text) /\ UNCHANGED addressVars
    BY <1>3, <2>2 DEF SetAddressComment, addressVars, walletVars, requestVars, modelVars
  <2>3. CASE (CloseReceive \/ CopyAddress \/ AbandonReceive)
             /\ UNCHANGED <<walletVars, asked, requests, modelVars>>
    <3>1. own' = own /\ given' = given /\ posted' = posted
      BY <2>3 DEF walletVars, modelVars
    <3>2. receiver' = None /\ Used' \subseteq Used \cup ({receiver} \ {None}) \cup {ZeroId}
      BY <2>3, <3>1, LeavingUses
    <3>3. None \notin Used'
      BY <1>1, <1>2, <3>2
    <3> QED
      BY <1>2, <3>1, <3>2, <3>3, AnnouncedKept
  <2> QED
    BY <1>8, <2>1, <2>2, <2>3 DEF ReceiveStep
<1>9. CASE (BookStep /\ UNCHANGED receiveVars) \/ UNCHANGED vars
  <2>1. UNCHANGED <<posted, given, receiver, handed, own, saving>>
    BY <1>9 DEF BookStep, vars, addressVars, walletVars, requestVars, modelVars, receiveVars
  <2> QED
    BY <1>3, <2>1
<1>10. CASE Tick /\ UNCHANGED receiveVars
  BY <1>3, <1>10 DEF Tick, requestVars, modelVars, receiveVars
<1> QED
  BY <1>4, <1>5, <1>6, <1>7, <1>8, <1>9, <1>10, WalletSteps DEF Next

-----------------------------------------------------------------------------
LEMMA PagesInvStep == PagesInv /\ [Next]_vars => PagesInv'
BY TypesStep, ListStep, IdsStep, AnnouncedStep DEF PagesInv

LEMMA PagesInvHolds == Spec => []PagesInv
BY PagesInitial, PagesInvStep, PTL DEF Spec

\* With the address book open and everything answered, the ids and comments
\* that WalletModel keeps on the reactor thread are the wallet's own ones,
\* whatever lists and changes crossed on the way (wallet_model.cpp:143-162,
\* 398-411).
THEOREM OwnIdsAlwaysCatchUp == Spec => []OwnIdsCatchUp
<1>1. PagesInv => OwnIdsCatchUp
  <2> SUFFICES ASSUME IdsInv, bookOpen, asked = {}, posted = <<>>
               PROVE  ids = IdsOf(own) /\ labels = LabelsOf(own)
    BY DEF PagesInv, OwnIdsCatchUp, AtRest
  <2> QED
    BY DEF IdsInv
<1> QED
  BY <1>1, PagesInvHolds, PTL

\* The receive page shows only addresses that were never handed out, kept or
\* given to keep, although announcements reach whatever page is open
\* (receive_view.cpp:49-56, 104-111, 164-173).
THEOREM ShownAddressIsAlwaysNew == Spec => []ShownAddressIsNew
<1>1. PagesInv => ShownAddressIsNew
  BY DEF PagesInv, ShownAddressIsNew, AnnouncedAreNew, Used
<1> QED
  BY <1>1, PagesInvHolds, PTL

-----------------------------------------------------------------------------
(* What is on its way, for either list *)

\* The last complete list on its way is this one.
Latest(p, which, list) ==
    \A i \in 1..Len(p) :
        /\ p[i].type = which
        /\ \A j \in i + 1..Len(p) : p[j].type \notin {which, "changed"}
        => p[i].content = list

\* Nothing is on its way that will replace the list.
Quiet(p, which) == \A i \in 1..Len(p) : p[i].type \notin {which, "changed"}

\* What is on its way carries what its receivers take.
PostedTypes(p) ==
    \A i \in 1..Len(p) :
        /\ p[i].type = "own" => p[i].content \subseteq Items
        /\ p[i].type = "contacts" => p[i].content \subseteq Contacts
        /\ p[i].type = "generated" => p[i].content \subseteq Addresses

LEMMA LatestAfterEmit ==
    ASSUME posted \in Seq(SignalsPosted), NEW which, NEW list, NEW next, Latest(posted, which, list),
           NEW t \in Signals, NEW c \in Contents, Emit(t, c),
           t = "changed" \/ next = list,
           t = which => c = next
    PROVE  Latest(posted', which, next)
<1> SUFFICES ASSUME NEW i \in 1..Len(posted'), posted'[i].type = which,
                    \A j \in i + 1..Len(posted') : posted'[j].type \notin {which, "changed"}
             PROVE  posted'[i].content = next
  BY DEF Latest
<1>1. /\ Len(posted) \in Nat /\ Len(posted') = Len(posted) + 1
      /\ \A k \in 1..Len(posted) : posted'[k] = posted[k]
      /\ posted'[Len(posted) + 1].type = t /\ posted'[Len(posted) + 1].content = c
  BY EmitShifts
<1>2. CASE i = Len(posted) + 1
  BY <1>1, <1>2
<1>3. CASE i # Len(posted) + 1
  <2>1. i \in 1..Len(posted) /\ Len(posted) + 1 \in i + 1..Len(posted')
    BY <1>1, <1>3
  <2>2. t \notin {which, "changed"} /\ next = list
    BY <1>1, <2>1
  <2>3. \A j \in i + 1..Len(posted) : posted[j].type \notin {which, "changed"}
    BY <1>1, <2>1
  <2> QED
    BY <1>1, <2>1, <2>2, <2>3 DEF Latest
<1> QED
  BY <1>2, <1>3

LEMMA LatestAfterTake ==
    ASSUME posted \in Seq(SignalsPosted), TakeSignal,
           NEW which, NEW list, Latest(posted, which, list)
    PROVE  /\ Latest(posted', which, list)
           /\ Quiet(posted', which) /\ Head(posted).type = which => Head(posted).content = list
           /\ Quiet(posted', which) /\ Head(posted).type \notin {which, "changed"}
              => Quiet(posted, which)
<1>1. /\ Len(posted) \in Nat \ {0} /\ Len(posted') = Len(posted) - 1
      /\ \A i \in 1..Len(posted') : posted'[i] = posted[i + 1]
      /\ Head(posted) = posted[1]
  BY TakeShifts
<1>2. \A j \in 2..Len(posted) : j - 1 \in 1..Len(posted') /\ posted'[j - 1] = posted[j]
  <2> SUFFICES ASSUME NEW j \in 2..Len(posted)
               PROVE  j - 1 \in 1..Len(posted') /\ posted'[j - 1] = posted[j]
    OBVIOUS
  <2>1. j - 1 \in 1..Len(posted') /\ (j - 1) + 1 = j
    BY <1>1
  <2> QED
    BY <1>1, <2>1
<1>3. Latest(posted', which, list)
  <2> SUFFICES ASSUME NEW i \in 1..Len(posted'), posted'[i].type = which,
                      \A j \in i + 1..Len(posted') : posted'[j].type \notin {which, "changed"}
               PROVE  posted'[i].content = list
    BY DEF Latest
  <2>1. i + 1 \in 1..Len(posted) /\ posted'[i] = posted[i + 1]
    BY <1>1
  <2>2. ASSUME NEW j \in (i + 1) + 1..Len(posted)
        PROVE  posted[j].type \notin {which, "changed"}
    <3>1. j \in 2..Len(posted) /\ j - 1 \in i + 1..Len(posted')
      BY <1>1
    <3> QED
      BY <1>2, <3>1
  <2> QED
    BY <2>1, <2>2 DEF Latest
<1>4. ASSUME Quiet(posted', which)
      PROVE  /\ Head(posted).type = which => Head(posted).content = list
             /\ Head(posted).type \notin {which, "changed"} => Quiet(posted, which)
  <2>1. \A j \in 2..Len(posted) : posted[j].type \notin {which, "changed"}
    BY <1>2, <1>4 DEF Quiet
  <2>2. 1 \in 1..Len(posted) /\ 1 + 1 = 2 /\ \A j \in 1..Len(posted) : j = 1 \/ j \in 2..Len(posted)
    BY <1>1
  <2>3. posted[1].type = which => posted[1].content = list
    BY <2>1, <2>2 DEF Latest
  <2>4. posted[1].type \notin {which, "changed"} => Quiet(posted, which)
    BY <2>1, <2>2 DEF Quiet
  <2> QED
    BY <1>1, <2>3, <2>4
<1> QED
  BY <1>3, <1>4

LEMMA QuietBeforeEmit ==
    ASSUME posted \in Seq(SignalsPosted), NEW which, NEW t \in Signals, NEW c \in Contents,
           Emit(t, c), Quiet(posted', which)
    PROVE  t \notin {which, "changed"} /\ Quiet(posted, which)
<1>1. /\ Len(posted) \in Nat /\ Len(posted') = Len(posted) + 1
      /\ \A i \in 1..Len(posted) : posted'[i] = posted[i]
      /\ posted'[Len(posted) + 1].type = t
  BY EmitShifts
<1>2. Len(posted) + 1 \in 1..Len(posted') /\ \A i \in 1..Len(posted) : i \in 1..Len(posted')
  BY <1>1
<1> QED
  BY <1>1, <1>2 DEF Quiet

\* What a step does to the lists and to what is on its way.
LEMMA PagesSteps ==
    ASSUME PageTypes, [Next]_vars
    PROVE  \/ UNCHANGED <<posted, own, contacts>>
           \/ \E t \in Signals, c \in Contents :
                 /\ Emit(t, c)
                 /\ t = "changed" \/ (own' = own /\ contacts' = contacts)
                 /\ t = "own" => c = own
                 /\ t = "contacts" => c = contacts
                 /\ t = "generated" => c \subseteq Addresses
           \/ OnSignal
<1>1. CASE ChangeStep
  <2>1. "changed" \notin {"own", "contacts", "generated"}
    OBVIOUS
  <2> QED
    BY <1>1, <2>1, ChangePosts
<1>2. CASE \E which \in {"own", "contacts"} : AnswerGetAddresses(which)
  <2>1. PICK which \in {"own", "contacts"} : AnswerGetAddresses(which)
    BY <1>2
  <2>2. own' = own /\ contacts' = contacts
    BY <2>1 DEF AnswerGetAddresses, walletVars
  <2>3. own \in Contents /\ contacts \in Contents /\ which \in Signals
    BY DEF PageTypes, Contents, Signals
  <2>4. CASE which = "own"
    <3>1. Emit("own", own)
      BY <2>1, <2>4 DEF AnswerGetAddresses
    <3> QED
      BY <2>2, <2>3, <2>4, <3>1
  <2>5. CASE which = "contacts"
    <3>1. Emit("contacts", contacts)
      BY <2>1, <2>5 DEF AnswerGetAddresses
    <3> QED
      BY <2>2, <2>3, <2>5, <3>1
  <2> QED
    BY <2>4, <2>5
<1>3. CASE AnswerGenerate
  <2>1. own' = own /\ contacts' = contacts
    BY <1>3 DEF AnswerGenerate
  <2>2. CASE \E id \in Addresses \ given :
                 /\ given' = given \cup {id}
                 /\ Emit("generated", {id}) /\ "generated" \in Signals /\ {id} \in Contents
    <3>1. PICK id \in Addresses :
                 Emit("generated", {id}) /\ "generated" \in Signals /\ {id} \in Contents
      BY <2>2
    <3>2. {id} \subseteq Addresses
      OBVIOUS
    <3> QED
      BY <2>1, <3>1, <3>2
  <2> QED
    BY <1>3, <2>1, <2>2, GeneratePosts
<1>4. CASE BookStep \/ ReceiveStep \/ Tick \/ UNCHANGED vars
  BY <1>4 DEF BookStep, ReceiveStep, Tick, vars, addressVars, walletVars, modelVars
<1> QED
  BY <1>1, <1>2, <1>3, <1>4, WalletSteps DEF Next

LEMMA PostedTypesStep ==
    ASSUME PageTypes, PostedTypes(posted), [Next]_vars PROVE PostedTypes(posted')
<1>1. CASE UNCHANGED <<posted, own, contacts>>
  BY <1>1 DEF PostedTypes
<1>2. ASSUME NEW t \in Signals, NEW c \in Contents, Emit(t, c),
             t = "own" => c = own, t = "contacts" => c = contacts,
             t = "generated" => c \subseteq Addresses
      PROVE  PostedTypes(posted')
  <2>1. /\ Len(posted) \in Nat /\ Len(posted') = Len(posted) + 1
        /\ \A k \in 1..Len(posted) : posted'[k] = posted[k]
        /\ posted'[Len(posted) + 1].type = t /\ posted'[Len(posted) + 1].content = c
    BY <1>2, EmitShifts DEF PageTypes
  <2>2. own \subseteq Items /\ contacts \subseteq Contacts
    BY DEF PageTypes
  <2>3. \A i \in 1..Len(posted') : i \in 1..Len(posted) \/ i = Len(posted) + 1
    BY <2>1
  <2> QED
    BY <1>2, <2>1, <2>2, <2>3 DEF PostedTypes
<1>3. CASE OnSignal
  <2>1. /\ Len(posted) \in Nat \ {0} /\ Len(posted') = Len(posted) - 1
        /\ \A i \in 1..Len(posted') : posted'[i] = posted[i + 1]
    BY <1>3, TakeShifts DEF OnSignal, PageTypes
  <2>2. \A i \in 1..Len(posted') : i + 1 \in 1..Len(posted)
    BY <2>1
  <2> QED
    BY <2>1, <2>2 DEF PostedTypes
<1> QED
  BY <1>1, <1>2, <1>3, PagesSteps

LEMMA ContactsListStep ==
    ASSUME PageTypes, Latest(posted, "contacts", contacts), [Next]_vars
    PROVE  Latest(posted', "contacts", contacts')
<1>1. posted \in Seq(SignalsPosted)
  BY DEF PageTypes
<1>2. CASE UNCHANGED <<posted, own, contacts>>
  BY <1>2 DEF Latest
<1>3. ASSUME NEW t \in Signals, NEW c \in Contents, Emit(t, c),
             t = "changed" \/ (own' = own /\ contacts' = contacts), t = "contacts" => c = contacts
      PROVE  Latest(posted', "contacts", contacts')
  BY <1>1, <1>3, LatestAfterEmit
<1>4. CASE OnSignal
  <2>1. contacts' = contacts /\ TakeSignal
    BY <1>4 DEF OnSignal, TakeSignal, walletVars
  <2> QED
    BY <1>1, <2>1, LatestAfterTake
<1> QED
  BY <1>2, <1>3, <1>4, PagesSteps

-----------------------------------------------------------------------------
(* The tables of the address book *)

LEMMA ItemsAreFinite == IsFiniteSet(Items)
<1> DEFINE F == (Addresses \X (Labels \cup {None})) \X Times
           f == [x \in F |-> [id |-> x[1][1], label |-> x[1][2], ends |-> x[2]]]
<1>1. IsFiniteSet(Times)
  BY OwnBoundsAssumption, FS_Interval DEF Times
<1>2. IsFiniteSet(Labels \cup {None})
  BY OwnFiniteAssumption, FS_AddElement
<1>3. IsFiniteSet(Addresses \X (Labels \cup {None}))
  BY <1>2, OwnFiniteAssumption, FS_Product
<1>4. IsFiniteSet(F)
  BY <1>1, <1>3, FS_Product
<1>5. Items = {f[x] : x \in F}
  <2>1. ASSUME NEW item \in Items PROVE \E x \in F : item = f[x]
    <3>1. item.id \in Addresses /\ item.label \in Labels \cup {None} /\ item.ends \in Times
          /\ item = [id |-> item.id, label |-> item.label, ends |-> item.ends]
      BY DEF Items
    <3> DEFINE x == <<<<item.id, item.label>>, item.ends>>
    <3>2. x \in F /\ x[1][1] = item.id /\ x[1][2] = item.label /\ x[2] = item.ends
      BY <3>1
    <3> HIDE DEF x
    <3> QED
      BY <3>1, <3>2
  <2>2. ASSUME NEW x \in F PROVE f[x] \in Items
    BY DEF Items
  <2> QED
    BY <2>1, <2>2
<1> HIDE DEF F, f
<1> QED
  BY <1>4, <1>5, FiniteImage

\* A sorted table has every row once.
LEMMA Arranged ==
    ASSUME NEW rows, IsFiniteSet(rows), NEW table \in Arrangements(rows)
    PROVE  table \in Seq(rows) /\ RowsOf(table) = rows /\ NoRowTwice(table)
<1> DEFINE n == Cardinality(rows)
<1>1. n \in Nat
  BY FS_CardinalityType
<1>2. table \in [1..n -> rows] /\ RowsOf(table) = rows
  BY DEF Arrangements
<1> HIDE DEF n
<1>3. table \in Seq(rows) /\ Len(table) = n
  BY <1>1, <1>2
<1>4. table \in Surjection(1..n, rows)
  BY <1>2, <1>3 DEF Surjection, RowsOf
<1>5. IsFiniteSet(1..n) /\ Cardinality(1..n) = n
  BY <1>1, FS_Interval
<1>6. table \in Injection(1..n, rows)
  BY <1>4, <1>5, FS_Surjection DEF n
<1> QED
  BY <1>2, <1>3, <1>6 DEF Injection, IsInjective, NoRowTwice

\* The rows in another order are the same rows.
LEMMA SortedRows ==
    ASSUME NEW S, NEW list \in Seq(S), NEW order \in Arrangements(1..Len(list)), NEW r,
           r = [i \in 1..Len(list) |-> list[order[i]]]
    PROVE  r \in Seq(S) /\ RowsOf(r) = RowsOf(list) /\ (NoRowTwice(list) => NoRowTwice(r))
<1>n. PICK n : n = Len(list)
  OBVIOUS
<1>0. n \in Nat /\ n >= 0 /\ list \in [1..n -> S] /\ order \in Arrangements(1..n)
  BY <1>n
<1>1. IsFiniteSet(1..n) /\ Cardinality(1..n) = n
  BY <1>0, FS_Interval
<1>2. order \in Seq(1..n) /\ RowsOf(order) = 1..n /\ NoRowTwice(order)
  BY <1>0, <1>1, Arranged
<1>3. order \in [1..n -> 1..n]
  BY <1>0, <1>1 DEF Arrangements
<1>4. Len(order) = n
  BY <1>0, <1>2, <1>3
<1>r. r = [i \in 1..n |-> list[order[i]]]
  BY <1>n
<1>5. \A i \in 1..n : r[i] = list[order[i]] /\ order[i] \in 1..n
  BY <1>3, <1>r
<1>6. r \in [1..n -> S]
  <2>1. \A i \in 1..n : list[order[i]] \in S
    BY <1>0, <1>5
  <2> QED
    BY <1>r, <2>1
<1>7. r \in Seq(S) /\ Len(r) = n
  BY <1>0, <1>6
<1>8. \A j \in 1..n : \E i \in 1..n : order[i] = j
  BY <1>2, <1>4 DEF RowsOf
<1>9. RowsOf(r) = RowsOf(list)
  <2>1. RowsOf(r) = {r[i] : i \in 1..n} /\ RowsOf(list) = {list[i] : i \in 1..n}
    BY <1>7, <1>n DEF RowsOf
  <2>2. {r[i] : i \in 1..n} \subseteq {list[i] : i \in 1..n}
    BY <1>5
  <2>3. {list[i] : i \in 1..n} \subseteq {r[i] : i \in 1..n}
    <3> SUFFICES ASSUME NEW j \in 1..n PROVE list[j] \in {r[i] : i \in 1..n}
      OBVIOUS
    <3>1. PICK i \in 1..n : order[i] = j
      BY <1>8
    <3>2. r[i] = list[j]
      BY <1>5, <3>1
    <3> QED
      BY <3>2
  <2> QED
    BY <2>1, <2>2, <2>3
<1>10. ASSUME NoRowTwice(list) PROVE NoRowTwice(r)
  <2> SUFFICES ASSUME NEW i \in 1..n, NEW j \in 1..n, r[i] = r[j] PROVE i = j
    BY <1>7 DEF NoRowTwice
  <2>1. list[order[i]] = list[order[j]] /\ order[i] \in 1..n /\ order[j] \in 1..n
    BY <1>5
  <2>2. order[i] = order[j]
    BY <1>10, <1>n, <2>1 DEF NoRowTwice
  <2> QED
    BY <1>2, <1>4, <2>2 DEF NoRowTwice
<1> QED
  BY <1>7, <1>9, <1>10

\* The timer leaves the rows that have not expired.
LEMMA TimerLeaves ==
    ASSUME active \in Seq(Items), expired \subseteq Items, TimerEvent
    PROVE  /\ active' \in Seq(Items) /\ expired' \subseteq Items
           /\ RowsOf(active') = {item \in RowsOf(active) : ~IsExpired(item)}
           /\ NoRowTwice(active) => NoRowTwice(active')
<1> DEFINE stay == {item \in RowsOf(active) : ~IsExpired(item)}
           kept == Kept(active, stay)
<1>1. /\ active' = kept
      /\ expired' = expired \cup {active[i] : i \in Len(kept) + 1..Len(active)}
  BY DEF TimerEvent
<1>2. /\ kept \in Seq(Items) /\ RowsIn(kept) = RowsIn(active) \cap stay
      /\ NoRowTwice(active) => NoRowTwice(kept)
  BY KeptRows
<1>3. RowsOf(active) = RowsIn(active) /\ RowsOf(kept) = RowsIn(kept)
  BY DEF RowsOf, RowsIn
<1>4. RowsOf(active) \cap stay = stay
  OBVIOUS
<1>5. RowsOf(kept) = stay
  BY <1>2, <1>3, <1>4
<1> HIDE DEF kept, stay
<1>6. \A i \in Len(kept) + 1..Len(active) : active[i] \in Items
  BY <1>2
<1> QED
  BY <1>1, <1>2, <1>5, <1>6 DEF stay

\* What the address book rests on.
BookRows ==
    /\ bookOpen \in BOOLEAN
    /\ asked \subseteq {"own", "contacts"}
    /\ active \in Seq(Items) /\ NoRowTwice(active)
    /\ expired \subseteq Items
    /\ contactRows \subseteq Contacts

LEMMA BookRowsSignal == PageTypes /\ PostedTypes(posted) /\ BookRows /\ OnSignal => BookRows'
<1> SUFFICES ASSUME PageTypes, PostedTypes(posted), BookRows, OnSignal PROVE BookRows'
  OBVIOUS
<1> DEFINE e == Head(posted)
<1>1. /\ e.type = "own" => e.content \subseteq Items
      /\ e.type = "contacts" => e.content \subseteq Contacts
  <2>1. Head(posted) = posted[1] /\ 1 \in 1..Len(posted)
    BY TakeShifts DEF OnSignal, PageTypes
  <2> QED
    BY <2>1 DEF PostedTypes
<1>2. BookOnSignal(e)
  BY DEF OnSignal
<1> HIDE DEF e
<1>3. CASE UNCHANGED <<bookVars, asked>>
  BY <1>3 DEF BookRows, bookVars
<1>4. CASE GetAddressesFromModel /\ UNCHANGED bookVars
  BY <1>4 DEF BookRows, bookVars, GetAddressesFromModel
<1>5. CASE OnAddresses(e.type, e.content) /\ UNCHANGED asked /\ e.type = "own"
  <2> DEFINE valid == {item \in e.content : ~IsExpired(item)}
  <2>1. /\ active' \in Arrangements(valid)
        /\ expired' = {item \in e.content : IsExpired(item)}
        /\ UNCHANGED <<bookOpen, contactRows, asked>>
    BY <1>5 DEF OnAddresses
  <2>2. valid \subseteq Items /\ expired' \subseteq Items
    BY <1>1, <1>5, <2>1
  <2>3. IsFiniteSet(valid)
    BY <2>2, ItemsAreFinite, FS_Subset
  <2> HIDE DEF valid
  <2>4. active' \in Seq(valid) /\ NoRowTwice(active')
    BY <2>1, <2>3, Arranged
  <2>5. active' \in Seq(Items)
    BY <2>2, <2>4
  <2> QED
    BY <2>1, <2>2, <2>4, <2>5 DEF BookRows
<1>6. CASE OnAddresses(e.type, e.content) /\ UNCHANGED asked /\ e.type = "contacts"
  BY <1>1, <1>6 DEF OnAddresses, BookRows
<1> QED
  BY <1>2, <1>3, <1>4, <1>5, <1>6 DEF BookOnSignal, BookRows

LEMMA BookRowsStep == PageTypes /\ PostedTypes(posted) /\ BookRows /\ [Next]_vars => BookRows'
<1> SUFFICES ASSUME PageTypes, PostedTypes(posted), BookRows, [Next]_vars PROVE BookRows'
  OBVIOUS
<1>1. CASE OnSignal
  BY <1>1, BookRowsSignal
<1>2. ASSUME UNCHANGED bookVars, asked' \subseteq {"own", "contacts"} PROVE BookRows'
  BY <1>2 DEF BookRows, bookVars
<1>3. CASE WalletStep /\ UNCHANGED <<bookVars, receiveVars>>
  <2>1. asked' \subseteq {"own", "contacts"}
    BY <1>3 DEF BookRows, WalletStep, AddAddress, SaveAddress, DeleteAddress, UpdateAddress,
          ChangeContact, AnswerGetAddresses, AnswerGenerate, Tick, requestVars
  <2> QED
    BY <1>2, <1>3, <2>1
<1>4. CASE BookStep /\ UNCHANGED receiveVars
  <2>1. CASE OpenBook
    BY <2>1 DEF OpenBook, GetAddressesFromModel, BookRows
  <2>2. CASE CloseBook /\ UNCHANGED addressVars
    <3>1. <<>> \in Seq(Items) /\ NoRowTwice(<<>>)
      BY DEF NoRowTwice
    <3> QED
      BY <2>2, <3>1 DEF CloseBook, BookRows, addressVars, requestVars
  <2>3. CASE SortActiveAddresses /\ UNCHANGED addressVars
    <3>1. PICK order \in Arrangements(1..Len(active)) :
             active' = [i \in 1..Len(active) |-> active[order[i]]]
      BY <2>3 DEF SortActiveAddresses
    <3>2. active' \in Seq(Items) /\ NoRowTwice(active')
      BY <3>1, SortedRows DEF BookRows
    <3> QED
      BY <2>3, <3>2 DEF SortActiveAddresses, BookRows, addressVars, requestVars
  <2>4. CASE TimerEvent /\ UNCHANGED addressVars
    <3>1. UNCHANGED <<bookOpen, contactRows, asked>>
      BY <2>4 DEF TimerEvent, addressVars, requestVars
    <3> QED
      BY <2>4, <3>1, TimerLeaves DEF BookRows
  <2> QED
    BY <1>4, <2>1, <2>2, <2>3, <2>4 DEF BookStep
<1>5. CASE ReceiveStep /\ UNCHANGED bookVars
  <2>1. asked' = asked
    BY <1>5 DEF ReceiveStep, addressVars, requestVars
  <2> QED
    BY <1>2, <1>5, <2>1 DEF BookRows
<1>6. CASE UNCHANGED vars
  BY <1>6 DEF BookRows, vars, bookVars, addressVars, requestVars
<1> QED
  BY <1>1, <1>3, <1>4, <1>5, <1>6 DEF Next

-----------------------------------------------------------------------------
(* The tables follow the wallet *)

\* The tables are as right as they were if nothing they are compared with
\* changes, less is asked for only with a signal on its way, and time goes on.
LEMMA TablesStay ==
    ASSUME now \in Nat, now' \in Nat, now <= now',
           UNCHANGED <<own, contacts, bookOpen, active, contactRows>>,
           own \subseteq Items,
           "own" \in asked => "own" \in asked' \/ ~Quiet(posted', "own"),
           "contacts" \in asked => "contacts" \in asked' \/ ~Quiet(posted', "contacts"),
           Quiet(posted', "own") => Quiet(posted, "own"),
           Quiet(posted', "contacts") => Quiet(posted, "contacts")
    PROVE  /\ ActiveIsCurrent => ActiveIsCurrent'
           /\ ContactsAreCurrent => ContactsAreCurrent'
<1>1. \A item \in own : IsExpired(item) => IsExpired(item)'
  <2>1. \A item \in Items : item.ends \in Nat
    BY OwnBoundsAssumption DEF Items, Times
  <2> QED
    BY <2>1 DEF IsExpired
<1>2. RowsOf(active)' = RowsOf(active)
  BY DEF RowsOf
<1>3. ASSUME ActiveIsCurrent, bookOpen', "own" \notin asked', Quiet(posted', "own")
      PROVE  {item \in own' : ~IsExpired(item)'} \subseteq RowsOf(active)' /\ RowsOf(active)' \subseteq own'
  <2>1. {item \in own : ~IsExpired(item)} \subseteq RowsOf(active) /\ RowsOf(active) \subseteq own
    BY <1>3 DEF ActiveIsCurrent, Quiet
  <2> QED
    BY <1>1, <1>2, <2>1
<1>4. ActiveIsCurrent => ActiveIsCurrent'
  BY <1>3 DEF ActiveIsCurrent, Quiet
<1>5. ContactsAreCurrent => ContactsAreCurrent'
  BY DEF ContactsAreCurrent, Quiet
<1> QED
  BY <1>4, <1>5

\* A signal brings the tables up to date, or has them asked for again.
LEMMA TablesOnSignal ==
    ASSUME PageTypes, PostedTypes(posted), BookRows, now \in Nat, OnSignal, LastListIsCurrent,
           Latest(posted, "contacts", contacts), ActiveIsCurrent, ContactsAreCurrent
    PROVE  ActiveIsCurrent' /\ ContactsAreCurrent'
<1> DEFINE e == Head(posted)
<1>1. /\ Head(posted) = posted[1] /\ 1 \in 1..Len(posted)
      /\ e.type = "own" => e.content \subseteq Items
  <2>1. Head(posted) = posted[1] /\ 1 \in 1..Len(posted)
    BY TakeShifts DEF OnSignal, PageTypes
  <2> QED
    BY <2>1 DEF PostedTypes
<1>2. Latest(posted, "own", own)
  BY DEF Latest, LastListIsCurrent
<1>3. /\ Quiet(posted', "own") /\ e.type = "own" => e.content = own
      /\ Quiet(posted', "own") /\ e.type \notin {"own", "changed"} => Quiet(posted, "own")
      /\ Quiet(posted', "contacts") /\ e.type = "contacts" => e.content = contacts
      /\ Quiet(posted', "contacts") /\ e.type \notin {"contacts", "changed"}
         => Quiet(posted, "contacts")
  BY <1>2, LatestAfterTake DEF OnSignal, PageTypes
<1>4. BookOnSignal(e) /\ UNCHANGED <<own, contacts, now>>
  BY DEF OnSignal, TakeSignal, walletVars
<1> HIDE DEF e
<1>5. CASE ~bookOpen
  <2>1. ~bookOpen'
    BY <1>4, <1>5 DEF BookOnSignal, bookVars
  <2> QED
    BY <2>1 DEF ActiveIsCurrent, ContactsAreCurrent
<1>6. CASE bookOpen /\ e.type = "changed"
  <2>1. asked' = asked \cup {"own", "contacts"}
    BY <1>4, <1>6 DEF BookOnSignal, GetAddressesFromModel
  <2> QED
    BY <2>1 DEF ActiveIsCurrent, ContactsAreCurrent
<1>7. CASE bookOpen /\ e.type = "own"
  <2> DEFINE valid == {item \in e.content : ~IsExpired(item)}
  <2>1. active' \in Arrangements(valid) /\ UNCHANGED <<bookOpen, contactRows, asked>>
    BY <1>4, <1>7 DEF BookOnSignal, OnAddresses
  <2>2. valid \subseteq Items
    BY <1>1, <1>7
  <2>3. IsFiniteSet(valid)
    BY <2>2, ItemsAreFinite, FS_Subset
  <2>4. RowsOf(active') = valid
    <3> HIDE DEF valid
    <3> QED
      BY <2>1, <2>3, Arranged
  <2>5. ActiveIsCurrent'
    <3> SUFFICES ASSUME Quiet(posted', "own")
                 PROVE  {item \in own' : ~IsExpired(item)'} \subseteq RowsOf(active)'
                        /\ RowsOf(active)' \subseteq own'
      BY DEF ActiveIsCurrent, Quiet
    <3>1. e.content = own
      BY <1>3, <1>7
    <3>2. \A item : IsExpired(item)' <=> IsExpired(item)
      BY <1>4 DEF IsExpired
    <3>3. RowsOf(active)' = RowsOf(active')
      BY DEF RowsOf
    <3> QED
      BY <1>4, <2>4, <3>1, <3>2, <3>3
  <2>6. ContactsAreCurrent'
    <3>1. e.type \notin {"contacts", "changed"}
      BY <1>7
    <3>2. Quiet(posted', "contacts") => Quiet(posted, "contacts")
      BY <1>3, <3>1
    <3> QED
      BY <1>4, <2>1, <3>2 DEF ContactsAreCurrent, Quiet
  <2> QED
    BY <2>5, <2>6
<1>8. CASE bookOpen /\ e.type = "contacts"
  <2>1. contactRows' = e.content /\ UNCHANGED <<bookOpen, active, expired, asked>>
    BY <1>4, <1>8 DEF BookOnSignal, OnAddresses
  <2>2. ContactsAreCurrent'
    BY <1>3, <1>4, <1>8, <2>1 DEF ContactsAreCurrent, Quiet
  <2>3. ActiveIsCurrent'
    <3>1. Quiet(posted', "own") => Quiet(posted, "own")
      BY <1>3, <1>8
    <3>2. UNCHANGED <<own, active, bookOpen, asked, now>>
      BY <1>4, <2>1
    <3> QED
      BY <3>1, <3>2 DEF ActiveIsCurrent, Quiet, RowsOf, IsExpired
  <2> QED
    BY <2>2, <2>3
<1>9. CASE bookOpen /\ e.type \notin {"own", "contacts", "changed"}
  <2>1. UNCHANGED <<bookVars, asked>>
    BY <1>4, <1>9 DEF BookOnSignal
  <2>2. /\ Quiet(posted', "own") => Quiet(posted, "own")
        /\ Quiet(posted', "contacts") => Quiet(posted, "contacts")
    BY <1>3, <1>9
  <2>3. UNCHANGED <<own, contacts, active, contactRows, bookOpen, asked, now>>
    BY <1>4, <2>1 DEF bookVars
  <2> QED
    BY <2>2, <2>3 DEF ActiveIsCurrent, ContactsAreCurrent, Quiet, RowsOf, IsExpired
<1> QED
  BY <1>5, <1>6, <1>7, <1>8, <1>9 DEF BookRows

LEMMA TablesStep ==
    ASSUME PageTypes, PostedTypes(posted), BookRows, now \in Nat, now' \in Nat, LastListIsCurrent,
           Latest(posted, "contacts", contacts), ActiveIsCurrent, ContactsAreCurrent, [Next]_vars
    PROVE  ActiveIsCurrent' /\ ContactsAreCurrent'
<1>t. posted \in Seq(SignalsPosted) /\ own \subseteq Items
  BY DEF PageTypes
<1>1. CASE OnSignal
  BY <1>1, TablesOnSignal
<1>2. CASE ChangeStep
  <2>1. ~Quiet(posted', "own") /\ ~Quiet(posted', "contacts")
    BY <1>2, <1>t, ChangePosts, QuietBeforeEmit
  <2> QED
    BY <2>1 DEF ActiveIsCurrent, ContactsAreCurrent, Quiet
<1>3. CASE (\E which \in {"own", "contacts"} : AnswerGetAddresses(which)) /\ UNCHANGED bookVars
  <2>1. PICK which \in {"own", "contacts"} : AnswerGetAddresses(which)
    BY <1>3
  <2>2. PICK c \in Contents : Emit(which, c) /\ which \in Signals
    BY <2>1, AnswerPosts
  <2>3. /\ ~Quiet(posted', which)
        /\ \A w \in {"own", "contacts"} : Quiet(posted', w) => Quiet(posted, w)
    BY <1>t, <2>2, QuietBeforeEmit
  <2>4. /\ UNCHANGED <<own, contacts, now, bookOpen, active, contactRows>>
        /\ \A w \in {"own", "contacts"} : w # which /\ w \in asked => w \in asked'
    BY <1>3, <2>1 DEF AnswerGetAddresses, walletVars, bookVars
  <2>5. /\ "own" \in asked => "own" \in asked' \/ ~Quiet(posted', "own")
        /\ "contacts" \in asked => "contacts" \in asked' \/ ~Quiet(posted', "contacts")
    BY <2>3, <2>4
  <2>6. now <= now'
    BY <2>4
  <2> QED
    BY <1>t, <2>3, <2>4, <2>5, <2>6, TablesStay
<1>4. CASE AnswerGenerate /\ UNCHANGED bookVars
  <2>1. \A w \in {"own", "contacts"} : Quiet(posted', w) => Quiet(posted, w)
    BY <1>4, <1>t, GeneratePosts, QuietBeforeEmit
  <2>2. UNCHANGED <<own, contacts, now, bookOpen, active, contactRows, asked>> /\ now <= now'
    BY <1>4 DEF AnswerGenerate, bookVars
  <2> QED
    BY <1>t, <2>1, <2>2, TablesStay
<1>5. ASSUME UNCHANGED <<own, contacts, bookOpen, active, contactRows, asked, posted>>, now <= now'
      PROVE  ActiveIsCurrent' /\ ContactsAreCurrent'
  BY <1>5, <1>t, TablesStay
<1>6. CASE Tick /\ UNCHANGED bookVars
  <2>1. UNCHANGED <<own, contacts, bookOpen, active, contactRows, asked, posted>> /\ now <= now'
    BY <1>6 DEF Tick, requestVars, modelVars, bookVars
  <2> QED
    BY <1>5, <2>1
<1>7. CASE BookStep
  <2>1. CASE OpenBook
    BY <2>1 DEF OpenBook, GetAddressesFromModel, ActiveIsCurrent, ContactsAreCurrent
  <2>2. CASE CloseBook
    BY <2>2 DEF CloseBook, ActiveIsCurrent, ContactsAreCurrent
  <2>3. CASE SortActiveAddresses /\ UNCHANGED addressVars
    <3>1. PICK order \in Arrangements(1..Len(active)) :
             active' = [i \in 1..Len(active) |-> active[order[i]]]
      BY <2>3 DEF SortActiveAddresses
    <3>2. RowsOf(active)' = RowsOf(active)
      <4>1. RowsOf(active') = RowsOf(active)
        BY <3>1, SortedRows DEF BookRows
      <4> QED
        BY <4>1 DEF RowsOf
    <3>3. UNCHANGED <<own, contacts, now, bookOpen, contactRows, asked, posted>>
      BY <2>3 DEF SortActiveAddresses, addressVars, walletVars, requestVars, modelVars
    <3> QED
      BY <3>2, <3>3 DEF ActiveIsCurrent, ContactsAreCurrent, IsExpired
  <2>4. CASE TimerEvent /\ UNCHANGED addressVars
    <3>1. RowsOf(active)' = {item \in RowsOf(active) : ~IsExpired(item)}
      <4>1. RowsOf(active') = {item \in RowsOf(active) : ~IsExpired(item)}
        BY <2>4, TimerLeaves DEF BookRows
      <4> QED
        BY <4>1 DEF RowsOf
    <3>2. UNCHANGED <<own, contacts, now, bookOpen, contactRows, asked, posted>>
      BY <2>4 DEF TimerEvent, addressVars, walletVars, requestVars, modelVars
    <3> QED
      BY <3>1, <3>2 DEF ActiveIsCurrent, ContactsAreCurrent, IsExpired
  <2> QED
    BY <1>7, <2>1, <2>2, <2>3, <2>4 DEF BookStep
<1>8. CASE (ReceiveStep /\ UNCHANGED bookVars) \/ UNCHANGED vars
  <2>1. UNCHANGED <<own, contacts, now, bookOpen, active, contactRows, asked, posted>> /\ now <= now'
    BY <1>8 DEF ReceiveStep, vars, addressVars, walletVars, requestVars, modelVars, bookVars
  <2> QED
    BY <1>5, <2>1
<1> QED
  BY <1>1, <1>2, <1>3, <1>4, <1>6, <1>7, <1>8, WalletSteps DEF Next

-----------------------------------------------------------------------------
(* Types of the rest *)

RestTypes ==
    /\ now \in 0..MaxTime
    /\ changes \in 0..MaxChanges
    /\ requests \in 0..MaxRequests
    /\ ids \subseteq Addresses
    /\ labels \subseteq Labels
    /\ rcvOpen \in BOOLEAN
    /\ copyEnabled \in BOOLEAN
    /\ handed \subseteq Addresses

LEMMA RestStep == PageTypes /\ PostedTypes(posted) /\ RestTypes /\ [Next]_vars => RestTypes'
<1> SUFFICES ASSUME PageTypes, PostedTypes(posted), RestTypes, [Next]_vars PROVE RestTypes'
  OBVIOUS
<1> USE OwnBoundsAssumption, OwnChangesAssumption
<1>1. ASSUME NEW item \in Items, NEW removed \in BOOLEAN, OnAddressesChanged(removed, item)
      PROVE  /\ ids' \subseteq Addresses /\ labels' \subseteq Labels
             /\ changes' \in 0..MaxChanges
  <2>1. item.id \in Addresses /\ item.label \in Labels \cup {None}
    BY DEF Items
  <2>2. changes' \in 0..MaxChanges
    BY <1>1 DEF OnAddressesChanged, EmitChanged, RestTypes
  <2> QED
    BY <1>1, <2>1, <2>2 DEF OnAddressesChanged, RestTypes
<1>2. ASSUME UNCHANGED <<now, requests, receiveVars>>,
             ids' \subseteq Addresses /\ labels' \subseteq Labels, changes' \in 0..MaxChanges
      PROVE  RestTypes'
  BY <1>2 DEF RestTypes, receiveVars
<1>3. CASE WalletStep /\ UNCHANGED <<bookVars, receiveVars>>
  <2>0. own \subseteq Items /\ TRUE \in BOOLEAN /\ FALSE \in BOOLEAN
    BY DEF PageTypes
  <2>1. ASSUME NEW item \in Items, AddAddress(item) PROVE RestTypes'
    BY <1>1, <1>2, <1>3, <2>0, <2>1 DEF AddAddress, requestVars
  <2>2. ASSUME NEW item \in saving, SaveAddress(item) PROVE RestTypes'
    <3>1. CASE item.id = ZeroId
      <4>1. changes' \in 0..MaxChanges /\ UNCHANGED <<ids, labels, now, requests>>
        BY <2>2, <3>1 DEF SaveAddress, EmitChanged, RestTypes
      <4> QED
        BY <1>2, <1>3, <4>1 DEF RestTypes
    <3>2. CASE item.id # ZeroId
      <4>1. item \in Items
        BY <2>2, <3>2 DEF PageTypes, Unsaved, Items
      <4> QED
        BY <1>1, <1>2, <1>3, <2>0, <2>2, <3>2, <4>1 DEF SaveAddress
    <3> QED
      BY <3>1, <3>2
  <2>3. ASSUME NEW item \in own, DeleteAddress(item) PROVE RestTypes'
    <3>1. item \in Items
      BY <2>0
    <3> QED
      BY <1>1, <1>2, <1>3, <2>0, <2>3, <3>1 DEF DeleteAddress, requestVars
  <2>4. ASSUME NEW item \in own, NEW label \in Labels \cup {None}, NEW ends \in Times,
               UpdateAddress(item, label, ends)
        PROVE  RestTypes'
    <3> DEFINE u == [id |-> item.id, label |-> label, ends |-> ends]
    <3>1. u \in Items
      BY <2>0 DEF Items
    <3>2. OnAddressesChanged(FALSE, u) /\ UNCHANGED <<now, requests>>
      BY <2>4 DEF UpdateAddress, requestVars
    <3> HIDE DEF u
    <3> QED
      BY <1>1, <1>2, <1>3, <2>0, <3>1, <3>2
  <2>5. ASSUME NEW id \in Contacts, ChangeContact(id) PROVE RestTypes'
    <3>1. changes' \in 0..MaxChanges /\ UNCHANGED <<ids, labels, now, requests>>
      BY <2>5 DEF ChangeContact, EmitChanged, RestTypes, requestVars
    <3> QED
      BY <1>2, <1>3, <3>1 DEF RestTypes
  <2>6. CASE \E which \in {"own", "contacts"} : AnswerGetAddresses(which)
    BY <1>3, <2>6 DEF AnswerGetAddresses, RestTypes, walletVars, receiveVars
  <2>7. CASE AnswerGenerate
    <3>1. requests' \in 0..MaxRequests
      BY <2>7 DEF AnswerGenerate, RestTypes
    <3> QED
      BY <1>3, <2>7, <3>1 DEF AnswerGenerate, RestTypes, receiveVars
  <2>8. CASE Tick
    <3>1. now' \in 0..MaxTime
      BY <2>8 DEF Tick, RestTypes
    <3> QED
      BY <1>3, <2>8, <3>1 DEF Tick, RestTypes, receiveVars, requestVars, modelVars
  <2> QED
    BY <1>3, <2>1, <2>2, <2>3, <2>4, <2>5, <2>6, <2>7, <2>8 DEF WalletStep
<1>4. CASE BookStep /\ UNCHANGED receiveVars
  BY <1>4 DEF BookStep, RestTypes, receiveVars, addressVars, walletVars, requestVars, modelVars
<1>5. CASE ReceiveStep /\ UNCHANGED bookVars
  <2>1. CASE OpenReceive /\ UNCHANGED <<walletVars, asked, saving, modelVars>>
    <3>1. requests' \in 0..MaxRequests
      BY <2>1 DEF OpenReceive, RestTypes
    <3> QED
      BY <2>1, <3>1 DEF OpenReceive, RestTypes, walletVars, modelVars
  <2>2. CASE \E text \in Labels \cup {None} : SetAddressComment(text) /\ UNCHANGED addressVars
    <3>1. PICK text \in Labels \cup {None} : SetAddressComment(text) /\ UNCHANGED addressVars
      BY <2>2
    <3>2. copyEnabled' \in BOOLEAN
      BY <3>1 DEF SetAddressComment, IsAddressWithCommentExist
    <3> QED
      BY <3>1, <3>2 DEF SetAddressComment, RestTypes, addressVars, walletVars, requestVars, modelVars
  <2>3. CASE (CloseReceive \/ CopyAddress \/ AbandonReceive)
             /\ UNCHANGED <<walletVars, asked, requests, modelVars>>
    <3>1. rcvOpen' \in BOOLEAN /\ copyEnabled' \in BOOLEAN
      BY <2>3 DEF CloseReceive, CopyAddress, AbandonReceive, LeaveReceive
    <3>2. handed' \subseteq Addresses
      BY <2>3 DEF CloseReceive, CopyAddress, AbandonReceive, RestTypes, PageTypes
    <3> QED
      BY <2>3, <3>1, <3>2 DEF RestTypes, walletVars, modelVars
  <2> QED
    BY <1>5, <2>1, <2>2, <2>3 DEF ReceiveStep
<1>6. CASE OnSignal
  <2>1. Head(posted).type = "own" => Head(posted).content \subseteq Items
    <3>1. Head(posted) = posted[1] /\ 1 \in 1..Len(posted)
      BY <1>6, TakeShifts DEF OnSignal, PageTypes
    <3> QED
      BY <3>1 DEF PostedTypes
  <2>2. ids' \subseteq Addresses /\ labels' \subseteq Labels
    BY <1>6, <2>1 DEF OnSignal, SetAddresses, RestTypes, IdsOf, LabelsOf, Items
  <2> QED
    BY <1>6, <2>2 DEF OnSignal, TakeSignal, OnGeneratedNewAddress, RestTypes, walletVars
<1>7. CASE UNCHANGED vars
  BY <1>7 DEF RestTypes, vars, receiveVars, addressVars, walletVars, requestVars, modelVars
<1> QED
  BY <1>3, <1>4, <1>5, <1>6, <1>7 DEF Next

-----------------------------------------------------------------------------
TablesInv ==
    /\ PagesInv
    /\ PostedTypes(posted)
    /\ RestTypes
    /\ BookRows
    /\ Latest(posted, "contacts", contacts)
    /\ ActiveIsCurrent
    /\ ContactsAreCurrent

LEMMA TablesInitial == Init => TablesInv
<1> SUFFICES ASSUME Init PROVE TablesInv
  OBVIOUS
<1>1. PagesInv
  BY PagesInitial
<1>2. Len(posted) = 0 /\ posted = <<>>
  BY DEF Init, AddressesInit
<1>3. PostedTypes(posted) /\ Latest(posted, "contacts", contacts)
  BY <1>2 DEF PostedTypes, Latest
<1>4. RestTypes
  <2> USE OwnBoundsAssumption, OwnChangesAssumption DEF Init, AddressesInit, ReceiveClosed
  <2>1. now \in 0..MaxTime /\ changes \in 0..MaxChanges /\ requests \in 0..MaxRequests
    OBVIOUS
  <2>2. ids \subseteq Addresses /\ labels \subseteq Labels /\ handed \subseteq Addresses
    OBVIOUS
  <2> QED
    BY <2>1, <2>2 DEF RestTypes
<1>5. BookRows
  <2>1. <<>> \in Seq(Items) /\ NoRowTwice(<<>>)
    BY DEF NoRowTwice
  <2> QED
    BY <2>1 DEF Init, AddressesInit, BookClosed, NoRows, BookRows
<1>6. ActiveIsCurrent /\ ContactsAreCurrent
  BY DEF Init, BookClosed, ActiveIsCurrent, ContactsAreCurrent
<1> QED
  BY <1>1, <1>3, <1>4, <1>5, <1>6 DEF TablesInv

LEMMA TablesInvStep == TablesInv /\ [Next]_vars => TablesInv'
<1> SUFFICES ASSUME TablesInv, [Next]_vars PROVE TablesInv'
  OBVIOUS
<1>1. PagesInv'
  BY PagesInvStep DEF TablesInv
<1>2. PageTypes /\ LastListIsCurrent
  BY DEF TablesInv, PagesInv
<1>3. PostedTypes(posted') /\ RestTypes' /\ BookRows' /\ Latest(posted', "contacts", contacts')
  BY <1>2, PostedTypesStep, RestStep, BookRowsStep, ContactsListStep DEF TablesInv
<1>4. now \in Nat /\ now' \in Nat
  BY <1>3, OwnBoundsAssumption DEF TablesInv, RestTypes
<1>5. ActiveIsCurrent' /\ ContactsAreCurrent'
  BY <1>2, <1>4, TablesStep DEF TablesInv
<1>6. PostedTypes(posted)' /\ Latest(posted, "contacts", contacts)'
  BY <1>3 DEF PostedTypes, Latest
<1> QED
  BY <1>1, <1>3, <1>5, <1>6 DEF TablesInv

LEMMA TablesInvHolds == Spec => []TablesInv
BY TablesInitial, TablesInvStep, PTL DEF Spec

\* Every variable of the two pages keeps its type, whatever the wallet posts.
THEOREM AddressPagesTypeCorrect == Spec => []TypeOK
<1>1. TablesInv => TypeOK
  <2> SUFFICES ASSUME TablesInv PROVE TypeOK
    OBVIOUS
  <2>1. PageTypes /\ PostedTypes(posted) /\ RestTypes /\ BookRows
    BY DEF TablesInv, PagesInv
  <2>2. AddressesTypeOK
    BY <2>1 DEF AddressesTypeOK, PageTypes, PostedTypes, RestTypes, BookRows, SignalsPosted
  <2>3. BookTypeOK /\ ReceiveTypeOK
    BY <2>1 DEF BookTypeOK, ReceiveTypeOK, PageTypes, RestTypes, BookRows
  <2> QED
    BY <2>2, <2>3 DEF TypeOK
<1> QED
  BY <1>1, TablesInvHolds, PTL

\* Once everything has arrived the address book shows every contact and every
\* valid own address, each once, and no active row the wallet does not have,
\* whatever lists and changes crossed on the way and whatever the timer moved
\* (address_book_view.cpp:296-335, 391-409).
THEOREM BookAlwaysFollows == Spec => []BookFollows
<1>1. TablesInv => BookFollows
  <2> SUFFICES ASSUME TablesInv, bookOpen, asked = {}, posted = <<>>
               PROVE  /\ contactRows = contacts
                      /\ {item \in own : ~IsExpired(item)} \subseteq RowsOf(active)
                      /\ RowsOf(active) \subseteq own
                      /\ Cardinality(RowsOf(active)) = Len(active)
    BY DEF BookFollows, AtRest
  <2>1. /\ contactRows = contacts
        /\ {item \in own : ~IsExpired(item)} \subseteq RowsOf(active)
        /\ RowsOf(active) \subseteq own
    BY DEF TablesInv, ActiveIsCurrent, ContactsAreCurrent
  <2>2. PICK n : n = Len(active)
    OBVIOUS
  <2>3. n \in Nat /\ active \in [1..n -> Items] /\ NoRowTwice(active)
    BY <2>2 DEF TablesInv, BookRows
  <2>4. active \in Bijection(1..n, RowsOf(active))
    BY <2>2, <2>3 DEF Bijection, Injection, Surjection, IsInjective, NoRowTwice, RowsOf
  <2>5. IsFiniteSet(1..n) /\ Cardinality(1..n) = n
    BY <2>3, FS_Interval
  <2>6. Cardinality(RowsOf(active)) = n
    <3>1. ExistsBijection(1..n, RowsOf(active))
      BY <2>4 DEF ExistsBijection
    <3> QED
      BY <2>5, <3>1, FS_Bijection
  <2> QED
    BY <2>1, <2>2, <2>6
<1> QED
  BY <1>1, TablesInvHolds, PTL
=============================================================================
