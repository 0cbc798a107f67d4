---------------------------- MODULE AddressPages ----------------------------
(***************************************************************************)
(* The address book and the receive page over one wallet.  One of them is  *)
(* open at a time; answers to a page that was left reach the next one.     *)
(***************************************************************************)
EXTENDS AddressBook, ReceivePage

vars == <<addressVars, bookVars, receiveVars>>

Init == AddressesInit /\ BookClosed /\ ReceiveClosed

BookStep ==
    \/ /\ ~rcvOpen
       /\ OpenBook
       /\ UNCHANGED <<walletVars, requests, saving, modelVars>>
    \/ /\ CloseBook \/ SortActiveAddresses \/ TimerEvent
       /\ UNCHANGED addressVars

ReceiveStep ==
    \/ /\ ~bookOpen
       /\ OpenReceive
       /\ UNCHANGED <<walletVars, asked, saving, modelVars>>
    \/ \E text \in Labels \cup {None} : SetAddressComment(text) /\ UNCHANGED addressVars
    \/ /\ CloseReceive \/ CopyAddress \/ AbandonReceive
       /\ UNCHANGED <<walletVars, asked, requests, modelVars>>

\* One signal runs the slots of WalletModel and of the open page.
OnSignal ==
    /\ TakeSignal
    /\ SetAddresses(Head(posted))
    /\ BookOnSignal(Head(posted))
    /\ OnGeneratedNewAddress(Head(posted))
    /\ UNCHANGED <<requests, saving>>

Next ==
    \/ WalletStep /\ UNCHANGED <<bookVars, receiveVars>>
    \/ BookStep /\ UNCHANGED receiveVars
    \/ ReceiveStep /\ UNCHANGED bookVars
    \/ OnSignal

Spec == Init /\ [][Next]_vars

-----------------------------------------------------------------------------
TypeOK == AddressesTypeOK /\ BookTypeOK /\ ReceiveTypeOK

\* Nothing that was asked for and no signal is on its way.
AtRest == asked = {} /\ posted = <<>>

\* While the address book is open, and once everything it asked for has
\* arrived, WalletModel knows exactly the wallet's own addresses and comments:
\* sets that the reactor thread changes at once while older complete lists are
\* still on their way, and that forget a comment when one of two addresses
\* that have it goes, end up right (wallet_model.cpp:143-162, 398-411).
OwnIdsCatchUp ==
    bookOpen /\ AtRest => ids = IdsOf(own) /\ labels = LabelsOf(own)

\* Once everything has arrived the address book has a row for every contact
\* and one row for every valid own address, and no row in the table of active
\* addresses that the wallet does not have, whatever the timer moved before
\* (address_book_view.cpp:296-335, 391-409).
BookFollows ==
    bookOpen /\ AtRest =>
        /\ contactRows = contacts
        /\ {item \in own : ~IsExpired(item)} \subseteq RowsOf(active)
        /\ RowsOf(active) \subseteq own
        /\ Cardinality(RowsOf(active)) = Len(active)

\* "My expired addresses" (view/addresses.qml:201) lists expired addresses.
ExpiredRowsExpired == \A item \in expired : IsExpired(item)

\* Announcements of new addresses name no page and reach whatever page is
\* open; still the page never shows an address that an earlier page handed
\* out, or one that the wallet has or was given to keep (receive_view.cpp:
\* 49-56, 104-111, 164-173).
ShownAddressIsNew ==
    rcvOpen /\ receiver # None =>
        receiver \notin handed \cup IdsOf(own) \cup IdsOf(saving)

-----------------------------------------------------------------------------
(* What makes them inductive *)

\* A complete list on its way is the wallet's list, unless a signal of a
\* change or another complete list comes after it.
LastListIsCurrent ==
    \A i \in 1..Len(posted) :
        /\ posted[i].type = "own"
        /\ \A j \in i + 1..Len(posted) : posted[j].type \notin {"own", "changed"}
        => posted[i].content = own

\* With nothing on its way that will replace them, the tables are right.
ActiveIsCurrent ==
    /\ bookOpen /\ "own" \notin asked
    /\ \A i \in 1..Len(posted) : posted[i].type \notin {"own", "changed"}
    => {item \in own : ~IsExpired(item)} \subseteq RowsOf(active) /\ RowsOf(active) \subseteq own

ContactsAreCurrent ==
    /\ bookOpen /\ "contacts" \notin asked
    /\ \A i \in 1..Len(posted) : posted[i].type \notin {"contacts", "changed"}
    => contactRows = contacts

\* With nothing on its way that will replace them, the sets are right.
IdsInv ==
    /\ bookOpen /\ "own" \notin asked
    /\ \A i \in 1..Len(posted) : posted[i].type \notin {"own", "changed"}
    => ids = IdsOf(own) /\ labels = LabelsOf(own)

\* Ids that have left the wallet's generator for good.
Used == handed \cup IdsOf(own) \cup IdsOf(saving)

\* An announced id is nowhere else; none is announced twice.
AnnouncedAreNew ==
    /\ (Used \ {ZeroId}) \cup ({receiver} \ {None}) \subseteq given
    /\ receiver \notin Used
    /\ \A i \in 1..Len(posted) : posted[i].type = "generated" =>
          /\ posted[i].content \subseteq given \ (Used \cup {receiver})
          /\ \A j \in 1..Len(posted) \ {i} :
                posted[j].type = "generated" => posted[i].content \cap posted[j].content = {}
=============================================================================
