---------------------------- MODULE OwnAddresses ----------------------------
(***************************************************************************)
(* The addresses of the wallet and what WalletModel keeps of them.  The    *)
(* wallet (WalletClient, external) changes its addresses on the reactor    *)
(* thread, tells WalletModel of every change, and answers getAddresses()   *)
(* and generateNewAddress().  WalletModel passes all of it on as signals   *)
(* that Qt posts to the UI thread, in order; but the ids and the labels of *)
(* the own addresses, which the UI thread reads, onAddressesChanged        *)
(* changes at once, on the reactor thread.                                 *)
(*                                                                         *)
(* m_myWalletIds and m_myAddrLabels are sets that two threads change       *)
(* without a lock.  The model takes each change as one step; a set that is *)
(* damaged by a change in the middle of another is not modelled.           *)
(***************************************************************************)
EXTENDS Naturals, Sequences, FiniteSets

CONSTANTS
    Addresses,      \* ids of own addresses, those to be generated included
    Contacts,       \* ids of other people's addresses
    ZeroId,         \* the id of a WalletAddress that was never generated
    Labels,         \* comments of addresses
    None,           \* no comment, no address
    MaxTime,        \* bound: the clock stops there
    MaxPosted,      \* bound: signals waiting for the UI thread
    MaxRequests,    \* bound: generateNewAddress() calls not answered yet
    MaxSaving,      \* bound: saveAddress() calls that did not reach the wallet
    MaxChanges      \* bound: changes of the wallet's addresses

ASSUME OwnFiniteAssumption == IsFiniteSet(Addresses) /\ IsFiniteSet(Labels)
ASSUME OwnNoneAssumption == None \notin Addresses \cup Contacts \cup Labels
\* Its m_OwnID is 0: it is not own.
ASSUME ZeroIdAssumption == ZeroId \in Contacts \ Addresses
ASSUME OwnBoundsAssumption ==
    MaxTime \in Nat /\ MaxPosted \in Nat \ {0} /\ MaxRequests \in Nat \ {0}
ASSUME OwnChangesAssumption == MaxSaving \in Nat \ {0} /\ MaxChanges \in Nat

VARIABLES
    \* the wallet
    own,        \* its own addresses
    contacts,   \* the ids of its contacts
    now,        \* the time
    given,      \* ids it has generated: it never generates an id again
    changes,    \* how often its addresses have changed
    \* requests the reactor thread has not handled yet
    asked,      \* the lists asked for with getAddresses(), "own" and "contacts"
    requests,   \* generateNewAddress() calls
    saving,     \* addresses given to saveAddress()
    \* WalletModel
    posted,     \* signals on their way to the UI thread
    ids,        \* m_myWalletIds
    labels      \* m_myAddrLabels

walletVars == <<own, contacts, now, given, changes>>
requestVars == <<asked, requests, saving>>
modelVars == <<posted, ids, labels>>
addressVars == <<walletVars, requestVars, modelVars>>

\* An address is valid until a time; one later than MaxTime is never reached.
Times == 1..MaxTime + 1
Items == [id : Addresses, label : Labels \cup {None}, ends : Times]
Unsaved == [id : Addresses \cup {ZeroId}, label : Labels \cup {None}, ends : Times]
IdsOf(items) == {item.id : item \in items}
LabelsOf(items) == {item.label : item \in items} \ {None}

\* WalletAddress::isExpired()
IsExpired(item) == item.ends <= now

Signals == {"changed", "own", "contacts", "generated"}
Signal(type, content) == [type |-> type, content |-> content]
Emit(type, content) ==
    /\ Len(posted) < MaxPosted
    /\ posted' = Append(posted, Signal(type, content))

\* The signal that the addresses have changed carries nothing a slot reads.
EmitChanged ==
    /\ changes < MaxChanges
    /\ changes' = changes + 1
    /\ Emit("changed", {})

AddressesInit ==
    /\ own \in SUBSET Items
    /\ \A item, other \in own : item.id = other.id => item = other
    /\ contacts \in SUBSET Contacts
    /\ now = 0
    /\ given = IdsOf(own)
    /\ changes = 0
    /\ asked = {"own"}
    /\ requests = 0
    /\ saving = {}
    /\ posted = <<>>
    /\ ids = {}
    /\ labels = {}

-----------------------------------------------------------------------------
(* The reactor thread *)

\* Slots of WalletModel called by the wallet: addressesChanged is posted, then
\* the sets are changed here and now.  The sets keep one copy of a label, and
\* an update keeps the former label.
OnAddressesChanged(removed, item) ==
    /\ EmitChanged
    /\ IF removed
       THEN /\ ids' = ids \ {item.id}
            /\ labels' = labels \ {item.label}
       ELSE /\ ids' = ids \cup {item.id}
            /\ labels' = labels \cup ({item.label} \ {None})

\* An address the wallet made for a transaction.
AddAddress(item) ==
    /\ item.id \notin given
    /\ own' = own \cup {item}
    /\ given' = given \cup {item.id}
    /\ OnAddressesChanged(FALSE, item)
    /\ UNCHANGED <<contacts, now, requestVars>>

\* saveAddress() reaches the wallet, which keeps what it is given.
SaveAddress(item) ==
    /\ item \in saving
    /\ saving' = saving \ {item}
    /\ IF item.id = ZeroId
       THEN /\ contacts' = contacts \cup {ZeroId}
            /\ EmitChanged
            /\ UNCHANGED <<own, ids, labels>>
       ELSE /\ own' = own \cup {item}
            /\ OnAddressesChanged(FALSE, item)
            /\ UNCHANGED contacts
    /\ UNCHANGED <<now, given, asked, requests>>

\* updateAddress(), asked for in the address book, reaches the wallet; or the
\* wallet prolongs an address.
UpdateAddress(item, label, ends) ==
    LET updated == [id |-> item.id, label |-> label, ends |-> ends]
    IN  /\ item \in own
        /\ own' = (own \ {item}) \cup {updated}
        /\ OnAddressesChanged(FALSE, updated)
        /\ UNCHANGED <<contacts, now, given, requestVars>>

\* deleteAddress(), asked for in the address book, reaches the wallet.
DeleteAddress(item) ==
    /\ item \in own
    /\ own' = own \ {item}
    /\ OnAddressesChanged(TRUE, item)
    /\ UNCHANGED <<contacts, now, given, requestVars>>

\* A contact comes or goes: onAddressesChanged skips what is not own.
ChangeContact(id) ==
    /\ contacts' = (contacts \ {id}) \cup ({id} \ contacts)
    /\ EmitChanged
    /\ UNCHANGED <<own, now, given, requestVars, ids, labels>>

\* One of the getAddresses() calls is answered with the list as it is; there
\* may be more of them.
AnswerGetAddresses(which) ==
    /\ which \in asked
    /\ asked' \in {asked, asked \ {which}}
    /\ Emit(which, IF which = "own" THEN own ELSE contacts)
    /\ UNCHANGED <<walletVars, requests, saving, ids, labels>>

\* generateNewAddress() is answered with an id that was never used; or it fails
\* for want of a master key, and the pages show a message and no address.
AnswerGenerate ==
    /\ requests > 0
    /\ requests' = requests - 1
    /\ \/ \E id \in Addresses \ given :
             given' = given \cup {id} /\ Emit("generated", {id})
       \/ UNCHANGED <<given, posted>>
    /\ UNCHANGED <<own, contacts, now, changes, asked, saving, ids, labels>>

\* Time passes and tells nobody.
Tick ==
    /\ now < MaxTime
    /\ now' = now + 1
    /\ UNCHANGED <<own, contacts, given, changes, requestVars, modelVars>>

WalletStep ==
    \/ \E item \in Items : AddAddress(item)
    \/ \E item \in saving : SaveAddress(item)
    \/ \E item \in own :
          \/ DeleteAddress(item)
          \/ \E label \in Labels \cup {None}, ends \in Times : UpdateAddress(item, label, ends)
    \/ \E id \in Contacts : ChangeContact(id)
    \/ \E which \in {"own", "contacts"} : AnswerGetAddresses(which)
    \/ AnswerGenerate
    \/ Tick

-----------------------------------------------------------------------------
(* The UI thread *)

TakeSignal ==
    /\ posted # <<>>
    /\ posted' = Tail(posted)
    /\ UNCHANGED walletVars

\* Mutant: clear() is not called.
SetAddresses_NoClear(signal) ==
    /\ ids' = IF signal.type = "own" THEN ids \cup IdsOf(signal.content) ELSE ids
    /\ labels' = IF signal.type = "own" THEN labels \cup LabelsOf(signal.content) ELSE labels

\* The answer to getAddresses(true) replaces both sets.
SetAddresses(signal) ==
    /\ ids' = IF signal.type = "own" THEN IdsOf(signal.content) ELSE ids
    /\ labels' = IF signal.type = "own" THEN LabelsOf(signal.content) ELSE labels

IsAddressWithCommentExist(comment) == comment # None /\ comment \in labels

-----------------------------------------------------------------------------
Contents == (SUBSET Items) \cup (SUBSET Contacts) \cup (SUBSET Addresses)

AddressesTypeOK ==
    /\ own \subseteq Items
    /\ contacts \subseteq Contacts
    /\ now \in 0..MaxTime
    /\ given \subseteq Addresses
    /\ changes \in 0..MaxChanges
    /\ asked \subseteq {"own", "contacts"}
    /\ requests \in 0..MaxRequests
    /\ saving \subseteq Unsaved
    /\ posted \in Seq([type : Signals, content : Contents])
    /\ \A i \in 1..Len(posted) :
          /\ posted[i].type = "own" => posted[i].content \subseteq Items
          /\ posted[i].type = "generated" => posted[i].content \subseteq Addresses
    /\ ids \subseteq Addresses
    /\ labels \subseteq Labels
=============================================================================
