---------------------------- MODULE AppLifecycle ----------------------------
(***************************************************************************)
(* The life of one wallet inside the program: AppModel creates, opens,     *)
(* starts and resets it, while NodeClient runs the integrated node on a    *)
(* thread of its own and reports back through events posted to the UI      *)
(* thread.  The module keeps what survives the process (the wallet         *)
(* database and the copies moved aside), what AppModel holds in memory,    *)
(* the node thread, the posted events and the page the user is looking at, *)
(* which decides what the user can ask for next.                           *)
(*                                                                         *)
(* One UI handler is one action: handlers do not interleave with each      *)
(* other, the node thread interleaves with all of them.  A wallet is       *)
(* identified with its database.  Assertions stop the program (fault).     *)
(***************************************************************************)
EXTENDS Naturals, Sequences, FiniteSets

CONSTANTS
    Wallets,    \* wallet databases the user can have or create
    None,       \* no wallet, no path, no failed assertion
    Races,      \* the user behaviours of AllRaces that are allowed to happen
    MaxEvents,  \* bound: posted events that may be waiting at once
    MaxConns    \* bound: calls whose connections accumulate (nsc, resetConns,
                \* destroyHooks)

\* Behaviours the UI or the file system permits and AppModel was not written
\* for.
\*   cancelAgain      a second resetWallet() from one loading page: the error
\*                    dialog and the Cancel button each call it
\*   cancelDuringInit Cancel while the node thread is still building the node
\*   createWhenLocked "Restore wallet or create a new one" on the lock screen,
\*                    with the locked wallet still open
\*   restoreFails     the rename that brings the earlier database back fails
\*   syncDuringReset  the loading page completes between Cancel and the reset
AllRaces == {"cancelAgain", "cancelDuringInit", "createWhenLocked", "restoreFails",
             "syncDuringReset"}

ASSUME NoneAssumption == None \notin Wallets
ASSUME RacesAssumption == Races \subseteq AllRaces
ASSUME BoundsAssumption == MaxEvents \in Nat \ {0} /\ MaxConns \in Nat \ {0}

VARIABLES
    \* files
    mainFile,       \* the database at getWalletStorage()
    backups,        \* databases renamed to <path>_<timestamp>
    \* AppModel
    db,             \* m_db
    wallet,         \* the database m_wallet was made for
    walletRunning,  \* m_wallet->isRunning()
    backupPath,     \* m_walletDBBackupPath
    nsc,            \* startNode() connections held in m_nsc
    resetConns,     \* walletReset -> onResetWallet connections
    runLocal,       \* WalletSettings: run the integrated node
    \* NodeClient, external
    node,           \* what the node thread is doing
    startRequested, \* startNode() was called and not taken up yet
    kdf,            \* the wallet whose keys setKdf/setOwnerKey passed last
    nodeKey,        \* the wallet whose keys the current node was built with
    destroyHooks,   \* resetWallet() lambdas waiting for destroyedNode
    \* the UI thread
    events,         \* events the node thread posted to AppModel
    errorPosted,    \* a walletError posted to the loading page
    page,           \* the page shown
    home,           \* the start page a creating page returns to
    dialog,         \* the modal error dialog of the loading page is open
    cancelEnabled,  \* the Cancel button of the loading page
    resets,         \* resetWallet() calls of the current loading page
    reported,       \* a start failure was shown since the wallet was opened
    fault,          \* the handler whose assertion failed
    \* history
    kept,           \* wallets the user had, opened or finished creating
    undo            \* mainFile when the current creation began

disk == <<mainFile, backups>>
app == <<db, wallet, walletRunning, backupPath, nsc, resetConns>>
nodeVars == <<node, startRequested, kdf, nodeKey, destroyHooks>>
view == <<page, home, dialog, cancelEnabled, resets, errorPosted>>
history == <<kept, undo>>
vars == <<disk, app, runLocal, nodeVars, events, view, reported, fault, history>>

NodeEvents == {"startedNode", "addrInUse", "failedToStart"}
UIEvents == NodeEvents \cup {"walletReset"}
Handlers == {"onStartedNode", "onResetWallet", "openWallet", "applySettingsChanges"}
LoadingPages == {"creating", "loading"}
Pages == LoadingPages \cup {"start", "locked", "badPort", "main"}

OnDisk == backups \cup ({mainFile} \ {None})

\* NodeClient::isNodeRunning(): from onStartedNode to onStoppedNode.
IsNodeRunning == node \in {"running", "stopping"}

\* n connections each get their own posted copy of a signal.
Post(e, n) == events \o [i \in 1..n |-> e]

-----------------------------------------------------------------------------
\* A process that has just started: files from earlier sessions, no wallet.
MemoryInit ==
    /\ db = None /\ wallet = None /\ walletRunning = FALSE /\ backupPath = None
    /\ nsc = 0 /\ resetConns = 0
    /\ node = "idle" /\ startRequested = FALSE /\ kdf = None /\ nodeKey = None
    /\ destroyHooks = 0
    /\ events = <<>> /\ errorPosted = FALSE
    /\ page = "start" /\ home = "start" /\ dialog = FALSE
    /\ cancelEnabled = FALSE /\ resets = 0 /\ reported = FALSE
    /\ fault = None /\ undo = None

Init ==
    /\ mainFile \in Wallets \cup {None}
    /\ backups = {}
    /\ kept = {mainFile} \ {None}
    /\ runLocal \in BOOLEAN
    /\ MemoryInit

\* A failed assertion stops the program where it is.
Fault(h) ==
    /\ fault' = h
    /\ UNCHANGED <<disk, app, runLocal, nodeVars, view, reported, history>>

\* Leave the loading page: its posted events and its dialog go with it.
ShowPage(p) ==
    /\ page' = p
    /\ dialog' = FALSE
    /\ errorPosted' = FALSE

OpenLoading(p) ==
    /\ ShowPage(p)
    /\ cancelEnabled' = (p = "creating")
    /\ resets' = 0

-----------------------------------------------------------------------------
\* Mutant: the keys are not passed to the node.
Start_WithoutKeys(w, local) ==
    /\ resetConns' = resetConns + 1
    /\ kdf' = kdf
    /\ wallet' = w
    /\ reported' = FALSE
    /\ walletRunning' = ~local
    /\ nsc' = IF local THEN nsc + 1 ELSE nsc
    /\ startRequested' = (local \/ startRequested)

\* AppModel::start for the database w.
Start(w, local) ==
    /\ resetConns' = resetConns + 1
    /\ kdf' = w
    /\ wallet' = w
    /\ reported' = FALSE
    /\ walletRunning' = ~local
    /\ nsc' = IF local THEN nsc + 1 ELSE nsc
    /\ startRequested' = (local \/ startRequested)

MayCreate(w) ==
    /\ fault = None /\ nsc < MaxConns /\ resetConns < MaxConns
    /\ page = "start" \/ (page = "locked" /\ "createWhenLocked" \in Races)
    /\ w \in Wallets \ (OnDisk \cup kept)

\* Mutant: a database that is not there is renamed as well.
BackupDB_Unchecked ==
    /\ backups' = backups \cup {mainFile}
    /\ backupPath' = mainFile

\* Mutant: the old database is removed, not renamed.
BackupDB_Removes ==
    /\ UNCHANGED backups
    /\ backupPath' = IF mainFile = None THEN backupPath ELSE mainFile

\* backupDB: the rename went through, or there was nothing to rename.
BackupDB ==
    /\ backups' = backups \cup ({mainFile} \ {None})
    /\ backupPath' = IF mainFile = None THEN backupPath ELSE mainFile

\* createWallet: the old database is moved aside, a new one made and opened.
CreateWallet(w, local) ==
    /\ MayCreate(w)
    /\ BackupDB
    /\ mainFile' = w
    /\ db' = w
    /\ runLocal' = local
    /\ Start(w, local)
    /\ OpenLoading("creating")
    /\ home' = page
    /\ undo' = mainFile
    /\ UNCHANGED <<node, nodeKey, destroyHooks, events, fault, kept>>

\* Mutant: m_db is only assigned when the new database opens.
CreateWalletFails_KeepsDb(w, local) ==
    /\ MayCreate(w)
    /\ runLocal' = local
    /\ \/ mainFile # None /\ UNCHANGED <<mainFile, backups, backupPath>>
       \/ BackupDB /\ mainFile' = w
    /\ UNCHANGED <<db, wallet, walletRunning, nsc, resetConns, nodeVars, events, view,
                   reported, fault, history>>

\* createWallet returns false: the rename failed, so init found a database in
\* its way, or the new database was made and could not be opened.
CreateWalletFails(w, local) ==
    /\ MayCreate(w)
    /\ runLocal' = local
    /\ db' = None
    /\ \/ mainFile # None /\ UNCHANGED <<mainFile, backups, backupPath>>
       \/ BackupDB /\ mainFile' = w
    /\ UNCHANGED <<wallet, walletRunning, nsc, resetConns, nodeVars, events, view,
                   reported, fault, history>>

\* openWallet with the right password.
OpenWallet ==
    /\ fault = None /\ page = "start" /\ mainFile # None
    /\ nsc < MaxConns /\ resetConns < MaxConns
    /\ IF db # None
       THEN Fault("openWallet") /\ UNCHANGED events
       ELSE /\ db' = mainFile
            /\ Start(mainFile, runLocal)
            /\ OpenLoading("loading")
            /\ kept' = kept \cup {mainFile}
            /\ UNCHANGED <<disk, backupPath, runLocal, node, nodeKey, destroyHooks,
                           events, home, fault, undo>>

-----------------------------------------------------------------------------
\* Mutant: the copy stays where backupDB put it.
RestoreDBFromBackup_Forgotten ==
    /\ mainFile' = None
    /\ UNCHANGED <<backups, backupPath>>

\* Mutant: the other copies are taken for left-overs and removed.
RestoreDBFromBackup_Cleans ==
    /\ mainFile' = IF backupPath \in backups THEN backupPath ELSE None
    /\ backups' = {}
    /\ backupPath' = None

\* onResetWallet removed the main file; the copy made by backupDB comes back.
\* Whether the rename went through is not looked at: its path is forgotten.
RestoreDBFromBackup ==
    LET found == backupPath \in backups
    IN /\ backupPath' = IF found THEN None ELSE backupPath
       /\ \/ /\ mainFile' = IF found THEN backupPath ELSE None
             /\ backups' = backups \ {backupPath}
          \/ /\ found /\ "restoreFails" \in Races
             /\ mainFile' = None /\ UNCHANGED backups

\* Mutant: walletReset stays connected for the next wallet.
OnResetWallet_StaysConnected(completed) ==
    /\ UNCHANGED resetConns
    /\ wallet' = None /\ walletRunning' = FALSE /\ db' = None
    /\ RestoreDBFromBackup
    /\ IF completed /\ page = "creating"
       THEN ShowPage(home)
       ELSE UNCHANGED <<page, dialog, errorPosted>>

\* onResetWallet: drop the wallet and its files, bring the earlier one back.
\* completed: the loading page hears walletResetCompleted.
OnResetWallet(completed) ==
    /\ resetConns' = 0
    /\ wallet' = None /\ walletRunning' = FALSE /\ db' = None
    /\ RestoreDBFromBackup
    /\ IF completed /\ page = "creating"
       THEN ShowPage(home)
       ELSE UNCHANGED <<page, dialog, errorPosted>>

HasWallet == wallet # None /\ db # None

MayReset ==
    /\ fault = None /\ page = "creating"
    /\ resets = 0 \/ (resets = 1 /\ "cancelAgain" \in Races)
    /\ node = "init" \/ startRequested => "cancelDuringInit" \in Races
    /\ \/ cancelEnabled /\ ~dialog        \* the Cancel button
       \/ dialog                          \* the dialog was rejected

\* Mutant: nothing is connected to destroyedNode.
ResetAfterNode_NoHook ==
    /\ MayReset /\ IsNodeRunning
    /\ nsc' = 0
    /\ node' = "stopping"
    /\ startRequested' = FALSE
    /\ resets' = resets + 1
    /\ cancelEnabled' = (cancelEnabled /\ dialog)
    /\ dialog' = FALSE
    /\ UNCHANGED <<disk, db, wallet, walletRunning, backupPath, resetConns, runLocal,
                   kdf, nodeKey, destroyHooks, events, errorPosted, page, home,
                   reported, fault, history>>

\* LoadingViewModel::resetWallet and AppModel::resetWallet, node running: the
\* reset waits for the node thread to destroy the node.
ResetAfterNode ==
    /\ MayReset /\ IsNodeRunning /\ destroyHooks < MaxConns
    /\ nsc' = 0
    /\ destroyHooks' = destroyHooks + 1
    /\ node' = "stopping"
    /\ startRequested' = FALSE
    /\ resets' = resets + 1
    /\ cancelEnabled' = (cancelEnabled /\ dialog)
    /\ dialog' = FALSE
    /\ UNCHANGED <<disk, db, wallet, walletRunning, backupPath, resetConns, runLocal,
                   kdf, nodeKey, events, errorPosted, page, home, reported, fault,
                   history>>

\* The same with no node running: reset at once.
ResetNow ==
    /\ MayReset /\ ~IsNodeRunning
    /\ IF HasWallet
       THEN /\ OnResetWallet(TRUE)
            /\ resets' = resets + 1
            /\ cancelEnabled' = FALSE
            /\ UNCHANGED <<nsc, runLocal, nodeVars, home, reported, fault, history>>
       ELSE Fault("onResetWallet")
    /\ UNCHANGED events

\* nodeSettingsChanged and applySettingsChanges share this part.
ApplySettingsChanges(local) ==
    /\ runLocal' = local
    /\ nsc' = (IF IsNodeRunning THEN 0 ELSE nsc) + (IF local THEN 1 ELSE 0)
    /\ node' = IF IsNodeRunning THEN "stopping" ELSE node
    /\ startRequested' = (local \/ (startRequested /\ ~IsNodeRunning))

\* SettingsViewModel::applyChanges on the settings page.
ChangeSettings(local) ==
    /\ fault = None /\ page = "main" /\ nsc < MaxConns
    /\ IF wallet = None
       THEN Fault("applySettingsChanges")
       ELSE /\ ApplySettingsChanges(local)
            /\ UNCHANGED <<disk, db, wallet, walletRunning, backupPath, resetConns, kdf,
                           nodeKey, destroyHooks, view, reported, fault, history>>
    /\ UNCHANGED events

\* The node setup page shown after a port error: nodeSettingsChanged.
ChangeBadPort(local) ==
    /\ fault = None /\ page = "badPort" /\ nsc < MaxConns
    /\ IF wallet = None
       THEN Fault("applySettingsChanges")
       ELSE /\ ApplySettingsChanges(local)
            /\ walletRunning' = (walletRunning \/ ~local)
            /\ OpenLoading("loading")
            /\ reported' = FALSE
            /\ UNCHANGED <<disk, db, wallet, backupPath, resetConns, kdf, nodeKey,
                           destroyHooks, home, fault, history>>
    /\ UNCHANGED events

-----------------------------------------------------------------------------
\* The UI thread takes the next posted event.
Take(e) ==
    /\ fault = None /\ events # <<>>
    /\ Head(events) = e
    /\ events' = Tail(events)

\* Mutant: the handler leaves the wallet stopped.
OnStartedNode_NoStart ==
    /\ Take("startedNode")
    /\ IF wallet = None
       THEN Fault("onStartedNode")
       ELSE /\ nsc' = 0
            /\ UNCHANGED <<disk, db, wallet, walletRunning, backupPath, resetConns,
                           runLocal, nodeVars, view, reported, fault, history>>

\* onStartedNode starts the wallet that waited for the node.
OnStartedNode ==
    /\ Take("startedNode")
    /\ IF wallet = None
       THEN Fault("onStartedNode")
       ELSE /\ nsc' = 0
            /\ walletRunning' = TRUE
            /\ UNCHANGED <<disk, db, wallet, backupPath, resetConns, runLocal, nodeVars,
                           view, reported, fault, history>>

\* A busy port reaches the loading page through walletError unless it has
\* disconnected for a reset; any other failure is a message.
OnFailedToStartNode(e) ==
    /\ Take(e)
    /\ nsc' = 0
    /\ reported' = TRUE
    /\ dialog' = (dialog \/ (e = "addrInUse" /\ wallet # None
                             /\ page \in LoadingPages /\ resets = 0))
    /\ UNCHANGED <<disk, db, wallet, walletRunning, backupPath, resetConns, runLocal,
                   nodeVars, errorPosted, page, home, cancelEnabled, resets, fault,
                   history>>

OnWalletReset ==
    /\ Take("walletReset")
    /\ IF HasWallet
       THEN /\ OnResetWallet(resets > 0)
            /\ UNCHANGED <<nsc, runLocal, nodeVars, home, cancelEnabled, resets,
                           reported, fault, history>>
       ELSE Fault("onResetWallet")

\* Mutant: every error of the wallet leads to the main screen.
OnGetWalletError_AlwaysMain ==
    /\ fault = None /\ errorPosted
    /\ ShowPage("main")
    /\ UNCHANGED <<disk, app, runLocal, nodeVars, events, home, cancelEnabled, resets,
                   reported, fault, history>>

\* LoadingViewModel::onGetWalletError for an error of the wallet's own thread.
OnGetWalletError ==
    /\ fault = None /\ errorPosted
    /\ IF page = "creating"
       THEN /\ dialog' = TRUE
            /\ errorPosted' = FALSE
            /\ UNCHANGED page
       ELSE ShowPage("main")
    /\ UNCHANGED <<disk, app, runLocal, nodeVars, events, home, cancelEnabled, resets,
                   reported, fault, history>>

\* LoadingViewModel::updateProgress: m_done has reached m_total.  Progress seen
\* before Cancel still completes the page after it.
SyncCompleted ==
    /\ fault = None /\ page \in LoadingPages
    /\ \/ resets = 0 /\ (IF runLocal THEN node = "running" ELSE walletRunning)
       \/ resets > 0 /\ "syncDuringReset" \in Races
    /\ ShowPage("main")
    /\ kept' = IF resets = 0 /\ wallet # None THEN kept \cup {wallet} ELSE kept
    /\ UNCHANGED <<disk, app, runLocal, nodeVars, events, home, cancelEnabled, resets,
                   reported, fault, undo>>

\* The error dialog of a wallet that is not being created: change settings.
ChangeNodeSettings ==
    /\ fault = None /\ page = "loading" /\ dialog
    /\ ShowPage("badPort")
    /\ UNCHANGED <<disk, app, runLocal, nodeVars, events, home, cancelEnabled, resets,
                   reported, fault, history>>

Lock ==
    /\ fault = None /\ page = "main"
    /\ ShowPage("locked")
    /\ UNCHANGED <<disk, app, runLocal, nodeVars, events, home, cancelEnabled, resets,
                   reported, fault, history>>

\* The lock screen compares the password only (checkWalletPassword).
Unlock ==
    /\ fault = None /\ page = "locked"
    /\ ShowPage("main")
    /\ UNCHANGED <<disk, app, runLocal, nodeVars, events, home, cancelEnabled, resets,
                   reported, fault, history>>

-----------------------------------------------------------------------------
\* NodeClient's thread.
NodeInit ==
    /\ fault = None /\ node = "idle" /\ startRequested
    /\ node' = "init"
    /\ startRequested' = FALSE
    /\ nodeKey' = kdf
    /\ UNCHANGED <<disk, app, runLocal, kdf, destroyHooks, events, view, reported,
                   fault, history>>

NodeStarted ==
    /\ fault = None /\ node = "init" /\ Len(events) < MaxEvents
    /\ node' = "running"
    /\ events' = Post("startedNode", nsc)
    /\ UNCHANGED <<disk, app, runLocal, startRequested, kdf, nodeKey, destroyHooks, view,
                   reported, fault, history>>

NodeFails(e) ==
    /\ fault = None /\ node = "init" /\ Len(events) < MaxEvents
    /\ node' = "idle"
    /\ events' = Post(e, nsc)
    /\ UNCHANGED <<disk, app, runLocal, startRequested, kdf, nodeKey, destroyHooks, view,
                   reported, fault, history>>

\* NodeModel::onSyncError of a node that runs.
NodeSyncError ==
    /\ fault = None /\ node = "running" /\ nsc > 0 /\ Len(events) < MaxEvents
    /\ events' = Post("failedToStart", nsc)
    /\ UNCHANGED <<disk, app, runLocal, nodeVars, view, reported, fault, history>>

NodeStopped ==
    /\ fault = None /\ node = "stopping"
    /\ node' = "stopped"
    /\ UNCHANGED <<disk, app, runLocal, startRequested, kdf, nodeKey, destroyHooks,
                   events, view, reported, fault, history>>

\* Mutant: a lambda does not disconnect itself from destroyedNode.
NodeDestroyed_HookStays ==
    /\ fault = None /\ node = "stopped"
    /\ node' = "idle"
    /\ events' = Post("walletReset", destroyHooks * resetConns)
    /\ UNCHANGED <<disk, app, runLocal, startRequested, kdf, nodeKey, destroyHooks, view,
                   reported, fault, history>>

\* destroyedNode runs the lambdas of resetWallet() on the node thread; each
\* emits walletReset, which is posted once for every connection.
NodeDestroyed ==
    /\ fault = None /\ node = "stopped"
    /\ node' = "idle"
    /\ destroyHooks' = 0
    /\ events' = Post("walletReset", destroyHooks * resetConns)
    /\ UNCHANGED <<disk, app, runLocal, startRequested, kdf, nodeKey, view, reported,
                   fault, history>>

\* The wallet thread posts an error to the loading page.
WalletError ==
    /\ fault = None /\ walletRunning /\ page \in LoadingPages /\ resets = 0
    /\ ~errorPosted
    /\ errorPosted' = TRUE
    /\ UNCHANGED <<disk, app, runLocal, nodeVars, events, page, home, dialog,
                   cancelEnabled, resets, reported, fault, history>>

-----------------------------------------------------------------------------
\* The process ends, by the user or by a crash, and is started again: memory is
\* gone, the files and the settings are not.
FreshMemory ==
    /\ db' = None /\ wallet' = None /\ walletRunning' = FALSE /\ backupPath' = None
    /\ nsc' = 0 /\ resetConns' = 0
    /\ node' = "idle" /\ startRequested' = FALSE /\ kdf' = None /\ nodeKey' = None
    /\ destroyHooks' = 0
    /\ events' = <<>> /\ errorPosted' = FALSE
    /\ page' = "start" /\ home' = "start" /\ dialog' = FALSE
    /\ cancelEnabled' = FALSE /\ resets' = 0 /\ reported' = FALSE
    /\ fault' = None /\ undo' = None

Restart ==
    /\ FreshMemory
    /\ UNCHANGED <<disk, runLocal, kept>>

\* The process dies inside createWallet, between the rename and the open.
CrashInCreate(w) ==
    /\ MayCreate(w)
    /\ backups' = backups \cup ({mainFile} \ {None})
    /\ mainFile' \in {None, w}
    /\ FreshMemory
    /\ UNCHANGED <<runLocal, kept>>

\* The process dies inside onResetWallet, between the remove and the rename.
CrashInReset ==
    /\ HasWallet
    /\ \/ MayReset /\ ~IsNodeRunning
       \/ fault = None /\ events # <<>> /\ Head(events) = "walletReset"
    /\ mainFile' = None
    /\ UNCHANGED backups
    /\ FreshMemory
    /\ UNCHANGED <<runLocal, kept>>

-----------------------------------------------------------------------------
UserSteps ==
    \/ \E w \in Wallets, local \in BOOLEAN :
          CreateWallet(w, local) \/ CreateWalletFails(w, local)
    \/ OpenWallet
    \/ ResetAfterNode \/ ResetNow
    \/ \E local \in BOOLEAN : ChangeSettings(local) \/ ChangeBadPort(local)
    \/ ChangeNodeSettings \/ Lock \/ Unlock

EventSteps ==
    \/ OnStartedNode
    \/ \E e \in {"addrInUse", "failedToStart"} : OnFailedToStartNode(e)
    \/ OnWalletReset \/ OnGetWalletError \/ SyncCompleted

NodeSteps ==
    \/ NodeInit \/ NodeStarted
    \/ \E e \in {"addrInUse", "failedToStart"} : NodeFails(e)
    \/ NodeSyncError \/ NodeStopped \/ NodeDestroyed

Crashes ==
    \/ Restart \/ CrashInReset
    \/ \E w \in Wallets : CrashInCreate(w)

Next == UserSteps \/ EventSteps \/ NodeSteps \/ WalletError \/ Crashes

Spec == Init /\ [][Next]_vars

\* What the code's scheduling gives: the node thread keeps running and the UI
\* event loop keeps delivering.  Nothing is assumed of the user, of the sync
\* progress or of errors.
Fairness ==
    /\ WF_vars(NodeInit)
    /\ WF_vars(NodeStarted \/ \E e \in {"addrInUse", "failedToStart"} : NodeFails(e))
    /\ WF_vars(NodeStopped) /\ WF_vars(NodeDestroyed)
    /\ WF_vars(OnStartedNode) /\ WF_vars(OnWalletReset)
    /\ WF_vars(\E e \in {"addrInUse", "failedToStart"} : OnFailedToStartNode(e))

FairSpec == Spec /\ Fairness

-----------------------------------------------------------------------------
FlagsOK ==
    /\ walletRunning \in BOOLEAN /\ runLocal \in BOOLEAN
    /\ startRequested \in BOOLEAN /\ errorPosted \in BOOLEAN
    /\ dialog \in BOOLEAN /\ cancelEnabled \in BOOLEAN /\ reported \in BOOLEAN

ValuesOK ==
    /\ mainFile \in Wallets \cup {None} /\ backups \subseteq Wallets
    /\ db \in Wallets \cup {None} /\ wallet \in Wallets \cup {None}
    /\ backupPath \in Wallets \cup {None}
    /\ nsc \in Nat /\ resetConns \in Nat /\ destroyHooks \in Nat
    /\ node \in {"idle", "init", "running", "stopping", "stopped"}
    /\ kdf \in Wallets \cup {None} /\ nodeKey \in Wallets \cup {None}
    /\ events \in Seq(UIEvents)
    /\ page \in Pages /\ home \in Pages /\ resets \in 0..2
    /\ fault \in Handlers \cup {None}
    /\ kept \subseteq Wallets /\ undo \in Wallets \cup {None}

\* Type invariant.
TypeOK == FlagsOK /\ ValuesOK

\* No wallet the user had, opened or finished creating is ever removed: not by
\* a cancelled creation, a failed rename or a crash between two file operations
\* (backupDB, restoreDBFromBackup, the removes of onResetWallet).
KeptWalletsOnDisk == kept \subseteq OnDisk

\* The assertions of onResetWallet, onStartedNode and openWallet hold: no event
\* posted by the node thread arrives after the wallet it is for is gone.
AssertionsHold == fault = None

\* The database AppModel holds open is the file at the storage path and the
\* one the wallet runs on, so that onResetWallet removes what it closes.
OpenDbIsMainFile == db # None => db = mainFile /\ db = wallet

\* The integrated node scans with the keys of the wallet that is open: setKdf
\* and setOwnerKey of start() reach the node before it is built.
NodeServesOpenWallet ==
    wallet # None /\ node \in {"init", "running"} => nodeKey = wallet

\* The main and lock screens are only shown over an open wallet: their view
\* models dereference getWallet().
MainScreenHasWallet == page \in {"main", "locked"} => wallet # None

\* Cancelling a creation gives back the wallet that was there before it began,
\* whatever earlier creations left in m_walletDBBackupPath.
CancelRestores ==
    [][page = "creating" /\ page' = home /\ kdf' # None => mainFile' = undo]_vars

\* Whatever the user does, a wallet file that disappears from the disk is the
\* one AppModel had open (crashes excepted).
OnlyOpenWalletRemoved ==
    [][\A w \in OnDisk : w \notin OnDisk' => w = wallet /\ (db = w \/ kdf' = None)]_vars

\* assert(m_wallet) of onStartedNode: startedNode never arrives without a wallet.
StartedNodeFindsWallet == fault # "onStartedNode"

\* A wallet that was opened starts, or the user is told why not.
OpenedWalletStarts ==
    wallet # None /\ ~walletRunning ~> walletRunning \/ reported \/ wallet = None

\* A cancelled creation ends: the loading page is left.
CancelCompletes == page = "creating" /\ resets > 0 ~> page # "creating"

-----------------------------------------------------------------------------
\* The inductive invariant behind KeptWalletsOnDisk when none of the races is
\* allowed, in named parts.

\* AppModel and its wallet agree on the database, which is the main file.
OneDatabase == wallet = db /\ (db # None => db = mainFile)

\* There is one walletReset connection for as long as there is a wallet.
OneConnection == resetConns = (IF wallet = None THEN 0 ELSE 1)

StartPageHasNoWallet == page = "start" => wallet = None

\* What a reset would remove is the wallet being created, never a kept one.
CreatingIsNotKept ==
    page = "creating" => wallet # None /\ wallet \notin kept /\ home = "start"

ResetPosted == \E i \in DOMAIN events : events[i] = "walletReset"

\* A reset is on its way only for the creating page that asked for it, ...
ResetBelongsToPage ==
    destroyHooks > 0 \/ ResetPosted => page = "creating" /\ resets = 1

\* ... and there is only one.
ResetsUnique ==
    \A i, j \in DOMAIN events :
        events[i] = "walletReset" /\ events[j] = "walletReset" => i = j

OneReset ==
    /\ destroyHooks \in 0..1
    /\ destroyHooks > 0 => ~ResetPosted
    /\ ResetsUnique

\* Only the parts that a reset can disturb, together with the goal.
ResetInv ==
    /\ OneDatabase
    /\ OneConnection
    /\ StartPageHasNoWallet
    /\ CreatingIsNotKept
    /\ ResetBelongsToPage
    /\ OneReset
    /\ KeptWalletsOnDisk

-----------------------------------------------------------------------------
\* The inductive invariant behind the assertions, the keys of the node and what
\* a cancelled creation gives back, again when none of the races is allowed.

OnlyStartPageHasNoWallet == page # "start" => wallet # None

\* Errors of the wallet are for the loading page.
ErrorIsForLoading == errorPosted => page \in LoadingPages

StartedPosted == \E i \in DOMAIN events : events[i] = "startedNode"

\* What waits behind a reset was not posted by a node.
StartedBeforeReset ==
    \A i, j \in DOMAIN events :
        events[i] = "walletReset" /\ events[j] = "startedNode" => j < i

\* Where there is no wallet there is no node and none is announced.
StartPageHasNoNode ==
    page = "start" => node = "idle" /\ ~startRequested /\ ~StartedPosted

\* The node of a wallet being created goes through its phases once: a reset at
\* once finds it not started, a reset that waits sees it off.
NodeOfCreating ==
    page = "creating" =>
        IF resets = 0
        THEN node \in {"idle", "init", "running"} /\ (node # "running" => ~StartedPosted)
        ELSE ~startRequested /\ node \in (IF destroyHooks = 0 THEN {"idle"} ELSE {"stopping", "stopped"})

KeysOfWallet == wallet # None => kdf = wallet

\* The copy that comes back is the database moved aside for this creation.
UndoIsBackup ==
    /\ page = "creating" =>
          IF undo = None THEN backupPath \notin backups ELSE backupPath = undo /\ undo \in backups
    /\ page = "start" /\ mainFile = None => backupPath \notin backups

LifeInv ==
    /\ AssertionsHold
    /\ OnlyStartPageHasNoWallet
    /\ ErrorIsForLoading
    /\ StartedBeforeReset
    /\ StartPageHasNoNode
    /\ NodeOfCreating
    /\ KeysOfWallet
    /\ NodeServesOpenWallet
    /\ UndoIsBackup
=============================================================================
