---------------------------- MODULE BusyAddresses ----------------------------
(***************************************************************************)
(* AddressBookViewModel's list of busy addresses: the own addresses that   *)
(* transactions under way use.  The user is kept from deleting or expiring *)
(* such an address (isAddressBusy).  The list has one entry for each       *)
(* transaction, equal entries are not told apart: a bag.                   *)
(***************************************************************************)
EXTENDS TxFeed

CONSTANTS
    Addresses,  \* the user's own addresses
    MyIdOf      \* the own address of each transaction (m_myId)

AddressConstants ==
    /\ MyIdOf \in [TxIDs -> Addresses]
    /\ IsFiniteSet(TxIDs)

VARIABLE busy       \* m_busyAddresses: how often each address is in the list

BusyInit == FeedInit /\ busy = [a \in Addresses |-> 0]

CanDelete(s) == s = "ended"

\* How many of these transactions use the address.
Users(ids, a) == Cardinality({id \in ids : MyIdOf[id] = a})

Push(list, ids) == [a \in Addresses |-> list[a] + Users(ids, a)]

\* find and erase: one entry for each transaction, if there is one.
Erase(list, ids) ==
    [a \in Addresses |-> IF Users(ids, a) > list[a] THEN 0 ELSE list[a] - Users(ids, a)]

\* Mutant: a Reset does not clear the list.
OnTransactions_NoClear(e) ==
    LET ended == {id \in e.ids : CanDelete(e.txs[id])}
    IN \/ e.action \in {"Reset", "Added"} /\ busy' = Push(busy, e.ids \ ended)
       \/ e.action = "Updated" /\ busy' = Erase(busy, ended)
       \/ e.action = "Removed" /\ busy' = Erase(busy, e.ids)

\* Mutant: an Updated erases whatever the status.
OnTransactions_AnyUpdate(e) ==
    LET ended == {id \in e.ids : CanDelete(e.txs[id])}
        empty == [a \in Addresses |-> 0]
    IN \/ e.action = "Reset" /\ busy' = Push(empty, e.ids \ ended)
       \/ e.action = "Added" /\ busy' = Push(busy, e.ids \ ended)
       \/ e.action \in {"Updated", "Removed"} /\ busy' = Erase(busy, e.ids)

\* onTransactions.  Only transactions under way are pushed; an Updated erases
\* for transactions that ended, a Removed for all.
OnTransactions(e) ==
    LET ended == {id \in e.ids : CanDelete(e.txs[id])}
        empty == [a \in Addresses |-> 0]
    IN \/ e.action = "Reset"   /\ busy' = Push(empty, e.ids \ ended)
       \/ e.action = "Added"   /\ busy' = Push(busy, e.ids \ ended)
       \/ e.action = "Updated" /\ busy' = Erase(busy, ended)
       \/ e.action = "Removed" /\ busy' = Erase(busy, e.ids)

BusyDeliver ==
    /\ TakeNotification
    /\ OnTransactions(Head(queue))
    /\ UNCHANGED asked

BusyNext ==
    \/ WalletStep /\ UNCHANGED busy
    \/ BusyDeliver

BusySpec == BusyInit /\ [][BusyNext]_<<feedVars, busy>>

IsAddressBusy(a) == busy[a] > 0

\* The transactions under way that use the address, as far as reported.
ActiveUsers(a) == {id \in TxIDs : seen[id] \in {"pending", "active"} /\ MyIdOf[id] = a}

-----------------------------------------------------------------------------
BusyTypeOK == busy \in [Addresses -> Nat]

\* An address is never busy without cause: the list has no more entries of it
\* than transactions under way use it, so the user can delete it in the end.
BusyHasCause == \A a \in Addresses : busy[a] <= Cardinality(ActiveUsers(a))

\* An address that only one transaction uses is busy while that one is under
\* way, in spite of repeated updates and of events before the first Reset.
SoleUserIsBusy ==
    ready => \A id \in TxIDs :
        (\A other \in TxIDs \ {id} : MyIdOf[other] # MyIdOf[id]) =>
            (id \in ActiveUsers(MyIdOf[id]) => IsAddressBusy(MyIdOf[id]))

\* EditAddress.qml of isAddressBusy: "there are active transactions for this
\* address"; it is asked to keep the user from deleting the address then.
UsedIsBusy == ready => \A a \in Addresses : ActiveUsers(a) # {} => IsAddressBusy(a)
=============================================================================
