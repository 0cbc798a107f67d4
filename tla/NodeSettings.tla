---------------------------- MODULE NodeSettings ----------------------------
(***************************************************************************)
(* The node part of the settings page (SettingsViewModel, settings.qml).   *)
(* A remote node's address is checked a while after it was changed: a      *)
(* timer asks the wallet, on whose thread the name is resolved, and the    *)
(* answer names the address.  The user may go on typing, press Apply or    *)
(* Cancel, or leave the page and come back before the answer arrives.      *)
(*                                                                         *)
(* Ports and peers are kept as one flag, whether they differ from what is  *)
(* saved.  The settings themselves (WalletSettings) outlive the page; what *)
(* AppModel does when they are applied is in AppLifecycle.                 *)
(***************************************************************************)
EXTENDS Naturals, Sequences

CONSTANTS
    NodeAddresses,  \* what can be typed as the address of a node
    NoAddress,      \* nothing typed
    MaxChecks       \* bound: checks that are not answered yet

ASSUME NoAddressAssumption == NoAddress \in NodeAddresses
ASSUME MaxChecksAssumption == MaxChecks \in Nat \ {0}

VARIABLES
    savedAddress,   \* WalletSettings: node address
    savedLocal,     \* WalletSettings: run the integrated node
    nodeAddress,    \* m_nodeAddress
    localNodeRun,   \* m_localNodeRun
    otherChanged,   \* ports or peers differ from the saved ones
    needCheck,      \* m_isNeedToCheckAddress: a timer runs
    needApply,      \* m_isNeedToApplyChanges
    valid,          \* m_isValidNodeAddress
    checks,         \* addresses given to checkAddress(), answered in order
    answer          \* history: the last answer, of what address and which

nodeVars == <<savedAddress, savedLocal, nodeAddress, localNodeRun, otherChanged,
              needCheck, needApply, valid, checks, answer>>

\* An address that was saved with no port is not formatted as it was saved.
OtherAfterUndo == IF savedAddress = NoAddress THEN BOOLEAN ELSE {FALSE}

\* The constructor starts from an empty address and calls undoChanges().
\* m_localNodeRun is not initialized: whatever is there may count as a change.
OpenSettings ==
    /\ nodeAddress' = savedAddress
    /\ localNodeRun' = savedLocal
    /\ otherChanged' \in OtherAfterUndo
    /\ \E garbage \in BOOLEAN :
          needCheck' = (savedAddress # NoAddress \/ (garbage /\ ~savedLocal))
    /\ needApply' = FALSE
    /\ valid' = TRUE
    /\ UNCHANGED <<savedAddress, savedLocal, checks, answer>>

NodeInit ==
    /\ savedAddress \in NodeAddresses
    /\ savedLocal \in BOOLEAN
    /\ nodeAddress = savedAddress
    /\ localNodeRun = savedLocal
    /\ otherChanged \in OtherAfterUndo
    /\ \E garbage \in BOOLEAN :
          needCheck = (savedAddress # NoAddress \/ (garbage /\ ~savedLocal))
    /\ needApply = FALSE
    /\ valid = TRUE
    /\ checks = <<>>
    /\ answer = [address |-> NoAddress, valid |-> TRUE]

-----------------------------------------------------------------------------
(* What the user does *)

\* Mutant: no new check while one is under way.
SetNodeAddress_OneCheck(value) ==
    /\ ~localNodeRun /\ value # nodeAddress
    /\ nodeAddress' = value
    /\ needCheck' = (needCheck \/ checks = <<>>)
    /\ UNCHANGED <<savedAddress, savedLocal, localNodeRun, otherChanged, needApply, valid,
                   checks, answer>>

\* The field is shown for a remote node.
SetNodeAddress(value) ==
    /\ ~localNodeRun /\ value # nodeAddress
    /\ nodeAddress' = value
    /\ needCheck' = TRUE
    /\ UNCHANGED <<savedAddress, savedLocal, localNodeRun, otherChanged, needApply, valid,
                   checks, answer>>

SetLocalNodeRun ==
    /\ localNodeRun' = ~localNodeRun
    /\ needCheck' = (needCheck \/ ~localNodeRun')
    /\ UNCHANGED <<savedAddress, savedLocal, nodeAddress, otherChanged, needApply, valid,
                   checks, answer>>

SetOther ==
    /\ otherChanged' = ~otherChanged
    /\ UNCHANGED <<savedAddress, savedLocal, nodeAddress, localNodeRun, needCheck, needApply,
                   valid, checks, answer>>

IsChanged == nodeAddress # savedAddress \/ localNodeRun # savedLocal \/ otherChanged

\* applyChanges(): waits when the address is still to be checked.
ApplyChanges ==
    IF ~localNodeRun /\ needCheck
    THEN needApply' = TRUE /\ UNCHANGED <<savedAddress, savedLocal, otherChanged>>
    ELSE /\ savedAddress' = nodeAddress /\ savedLocal' = localNodeRun /\ otherChanged' = FALSE
         /\ UNCHANGED needApply

\* The Apply button.
PressApply ==
    /\ IsChanged /\ (localNodeRun \/ (valid /\ nodeAddress # NoAddress))
    /\ ApplyChanges
    /\ UNCHANGED <<nodeAddress, localNodeRun, needCheck, valid, checks, answer>>

\* The Cancel button: undoChanges(), which is the setters once more and leaves
\* an Apply that waits.
UndoChanges ==
    /\ IsChanged
    /\ nodeAddress' = savedAddress
    /\ localNodeRun' = savedLocal
    /\ otherChanged' \in OtherAfterUndo
    /\ needCheck' = \/ needCheck
                    \/ nodeAddress # savedAddress
                    \/ localNodeRun # savedLocal /\ ~savedLocal
    /\ UNCHANGED <<savedAddress, savedLocal, needApply, valid, checks, answer>>

-----------------------------------------------------------------------------
(* Timer and answer *)

TimerEvent ==
    /\ needCheck /\ ~localNodeRun
    /\ Len(checks) < MaxChecks
    /\ needCheck' = FALSE
    /\ checks' = Append(checks, nodeAddress)
    /\ UNCHANGED <<savedAddress, savedLocal, nodeAddress, localNodeRun, otherChanged, needApply,
                   valid, answer>>

\* The slot: a new verdict on the shown address runs the waiting Apply if it is
\* good, which may find the address changed again, and ends the wait anyhow.
OnAddressChecked(isValid) ==
    IF nodeAddress = Head(checks) /\ valid # isValid
    THEN /\ valid' = isValid
         /\ needApply' = FALSE
         /\ IF needApply /\ isValid /\ (localNodeRun \/ ~needCheck)
            THEN savedAddress' = nodeAddress /\ savedLocal' = localNodeRun /\ otherChanged' = FALSE
            ELSE UNCHANGED <<savedAddress, savedLocal, otherChanged>>
    ELSE UNCHANGED <<valid, savedAddress, savedLocal, otherChanged, needApply>>

\* The wallet resolves the name, or does not.
AddressChecked ==
    /\ checks # <<>>
    /\ \E isValid \in BOOLEAN :
          /\ answer' = [address |-> Head(checks), valid |-> isValid]
          /\ OnAddressChecked(isValid)
    /\ checks' = Tail(checks)
    /\ UNCHANGED <<nodeAddress, localNodeRun, needCheck>>

NodeNext ==
    \/ OpenSettings
    \/ \E value \in NodeAddresses : SetNodeAddress(value)
    \/ SetLocalNodeRun
    \/ SetOther
    \/ PressApply
    \/ UndoChanges
    \/ TimerEvent
    \/ AddressChecked

NodeSpec == NodeInit /\ [][NodeNext]_nodeVars

-----------------------------------------------------------------------------
\* When no check of the shown address is due or under way, the verdict that
\* colours the field and enables Apply is the answer to the last check, and
\* that check was of the shown address: however often the address was changed
\* and changed back, or the page left, while answers were on their way
\* (settings_view.cpp:822-837, 854-869, 1129-1139).
VerdictIsOfShown ==
    ~needCheck /\ checks = <<>> /\ nodeAddress # NoAddress =>
        answer = [address |-> nodeAddress, valid |-> valid]

\* An Apply that waits for the check of the address (settings_view.cpp:1074-1078)
\* runs when the answer is good: the slot has a branch for it (829-832).  Asked
\* only of an answer about the address that is shown while no newer check is due.
WaitingApplyRuns ==
    [][/\ AddressChecked
       /\ needApply /\ ~localNodeRun /\ ~needCheck
       /\ answer' = [address |-> nodeAddress, valid |-> TRUE]
       => savedAddress' = nodeAddress]_nodeVars

-----------------------------------------------------------------------------
(* What makes the verdict inductive *)

LastCheckIsOfShown ==
    ~needCheck /\ nodeAddress # NoAddress =>
        IF checks = <<>>
        THEN answer = [address |-> nodeAddress, valid |-> valid]
        ELSE checks[Len(checks)] = nodeAddress
=============================================================================
