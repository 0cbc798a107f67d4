---------------------------- MODULE AddressBook ----------------------------
(***************************************************************************)
(* The tables of the address book: AddressBookViewModel asks for both      *)
(* lists when it is made and again whenever the wallet tells of a change,  *)
(* splits the own addresses by expiration when they arrive and moves rows  *)
(* from one table to the other when a timer fires.  Only the order of the  *)
(* active rows matters to the code; the other tables are sets of rows.     *)
(***************************************************************************)
EXTENDS OwnAddresses, ListModel

VARIABLES
    bookOpen,       \* the page exists
    active,         \* m_activeAddresses
    expired,        \* m_expiredAddresses
    contactRows     \* m_contacts

bookVars == <<bookOpen, active, expired, contactRows>>

RowsOf(table) == {table[i] : i \in 1..Len(table)}

\* std::sort by a role in either direction: the user can bring about any order.
Arrangements(rows) ==
    {table \in [1..Cardinality(rows) -> rows] : RowsOf(table) = rows}

NoRows == active = <<>> /\ expired = {} /\ contactRows = {}
BookClosed == bookOpen = FALSE /\ NoRows

\* Mutant: the contacts are not asked for.
GetAddressesFromModel_OwnOnly == asked' = asked \cup {"own"}

GetAddressesFromModel == asked' = asked \cup {"own", "contacts"}

OpenBook ==
    /\ ~bookOpen
    /\ bookOpen' = TRUE
    /\ GetAddressesFromModel
    /\ UNCHANGED <<active, expired, contactRows>>

CloseBook ==
    /\ bookOpen
    /\ bookOpen' = FALSE
    /\ active' = <<>> /\ expired' = {} /\ contactRows' = {}

\* The user clicks the head of a column.
SortActiveAddresses ==
    /\ bookOpen
    /\ active' \in {[i \in 1..Len(active) |-> active[order[i]]] :
                        order \in Arrangements(1..Len(active))}
    /\ UNCHANGED <<bookOpen, expired, contactRows>>

OnAddresses(which, content) ==
    IF which = "own"
    THEN /\ active' \in Arrangements({item \in content : ~IsExpired(item)})
         /\ expired' = {item \in content : IsExpired(item)}
         /\ UNCHANGED <<bookOpen, contactRows>>
    ELSE /\ contactRows' = content
         /\ UNCHANGED <<bookOpen, active, expired>>

BookOnSignal(signal) ==
    CASE ~bookOpen -> UNCHANGED <<bookVars, asked>>
      [] bookOpen /\ signal.type = "changed" ->
            GetAddressesFromModel /\ UNCHANGED bookVars
      [] bookOpen /\ signal.type \in {"own", "contacts"} ->
            OnAddresses(signal.type, signal.content) /\ UNCHANGED asked
      [] OTHER -> UNCHANGED <<bookVars, asked>>

\* std::remove_if moves the rows that stay to the front and leaves what was in
\* the last places before: these rows go to the other table, not the expired.
TimerEvent ==
    LET kept == Kept(active, {item \in RowsOf(active) : ~IsExpired(item)})
        tail == {active[i] : i \in Len(kept) + 1..Len(active)}
    IN  /\ bookOpen
        /\ tail # {}
        /\ active' = kept
        /\ expired' = expired \cup tail
        /\ UNCHANGED <<bookOpen, contactRows>>

BookTypeOK ==
    /\ bookOpen \in BOOLEAN
    /\ active \in Seq(Items)
    /\ expired \subseteq Items
    /\ contactRows \subseteq Contacts
=============================================================================
