---------------------------- MODULE ReceivePage ----------------------------
(***************************************************************************)
(* The receive page: ReceiveViewModel asks for a new address when it is    *)
(* made and shows whatever address is announced next; the user may type a  *)
(* comment, and copies the address or closes the page, both of which save  *)
(* the address as it is then.                                              *)
(***************************************************************************)
EXTENDS OwnAddresses

VARIABLES
    rcvOpen,        \* the page exists
    receiver,       \* _receiverAddress, None before it is generated
    comment,        \* _addressComment
    copyEnabled,    \* the button, bound to commentValid when that was announced
    handed          \* history: addresses the user copied

receiveVars == <<rcvOpen, receiver, comment, copyEnabled, handed>>

ReceiveClosed ==
    /\ rcvOpen = FALSE /\ receiver = None /\ comment = None /\ copyEnabled = TRUE
    /\ handed = {}

GetCommentValid == ~IsAddressWithCommentExist(comment)

\* The constructor calls generateNewAddress().
OpenReceive ==
    /\ ~rcvOpen
    /\ requests < MaxRequests /\ Cardinality(saving) < MaxSaving
    /\ rcvOpen' = TRUE /\ receiver' = None /\ comment' = None /\ copyEnabled' = TRUE
    /\ requests' = requests + 1
    /\ UNCHANGED handed

\* Mutant: the slot takes whatever arrives.
OnGeneratedNewAddress_AnySignal(signal) ==
    /\ IF rcvOpen THEN receiver' \in signal.content ELSE UNCHANGED receiver
    /\ UNCHANGED <<rcvOpen, comment, copyEnabled, handed>>

\* generatedNewAddress goes to every page, whoever asked.
OnGeneratedNewAddress(signal) ==
    /\ IF rcvOpen /\ signal.type = "generated"
       THEN receiver' \in signal.content
       ELSE UNCHANGED receiver
    /\ UNCHANGED <<rcvOpen, comment, copyEnabled, handed>>

SetAddressComment(text) ==
    /\ rcvOpen /\ text # comment
    /\ comment' = text
    /\ copyEnabled' = ~IsAddressWithCommentExist(text)
    /\ UNCHANGED <<rcvOpen, receiver, handed>>

\* With an address that was not generated yet the id is the zero id.
ReceiveSave ==
    IF GetCommentValid
    THEN \E ends \in Times : saving' = saving \cup
            {[id |-> IF receiver = None THEN ZeroId ELSE receiver, label |-> comment, ends |-> ends]}
    ELSE UNCHANGED saving

LeaveReceive == rcvOpen' = FALSE /\ receiver' = None /\ comment' = None /\ copyEnabled' = TRUE

CloseReceive ==
    /\ rcvOpen
    /\ ReceiveSave /\ LeaveReceive
    /\ UNCHANGED handed

\* Mutant: onClosed() is not called.
CopyAddress_StaysOpen ==
    /\ rcvOpen /\ copyEnabled
    /\ handed' = handed \cup ({receiver} \ {None})
    /\ ReceiveSave
    /\ UNCHANGED <<rcvOpen, receiver, comment, copyEnabled>>

CopyAddress ==
    /\ rcvOpen /\ copyEnabled
    /\ handed' = handed \cup ({receiver} \ {None})
    /\ ReceiveSave /\ LeaveReceive

\* The user goes to another page of the program.
AbandonReceive ==
    /\ rcvOpen
    /\ LeaveReceive
    /\ UNCHANGED <<handed, saving>>

ReceiveTypeOK ==
    /\ rcvOpen \in BOOLEAN
    /\ receiver \in Addresses \cup {None}
    /\ comment \in Labels \cup {None}
    /\ copyEnabled \in BOOLEAN
    /\ handed \subseteq Addresses
=============================================================================
