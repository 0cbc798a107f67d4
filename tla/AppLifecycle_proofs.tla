------------------------- MODULE AppLifecycle_proofs -------------------------
(***************************************************************************)
(* Proofs about AppLifecycle, for every set of wallets and every bound:    *)
(* type correctness and the agreement of AppModel with the storage path    *)
(* whatever races happen, and, when none of them does, that no wallet the  *)
(* user kept is ever removed from the disk.                                *)
(***************************************************************************)
EXTENDS AppLifecycle, TLAPS

LEMMA NoEvents == <<>> \in Seq(UIEvents)
OBVIOUS

\* n copies of a value in a row.
LEMMA CopiesType ==
    ASSUME NEW e \in UIEvents, NEW n \in Nat, NEW s, s = [i \in 1..n |-> e]
    PROVE  s \in Seq(UIEvents) /\ Len(s) = n /\ \A i \in 1..n : s[i] = e
<1>1. s \in Seq(UIEvents)
  OBVIOUS
<1>2. Len(s) = n
  OBVIOUS
<1> QED
  BY <1>1, <1>2

\* Posting n copies of an event keeps the queue a queue: the old events stay in
\* front and every new one is e.
LEMMA PostType ==
    ASSUME NEW e \in UIEvents, NEW n \in Nat, events \in Seq(UIEvents)
    PROVE  /\ Post(e, n) \in Seq(UIEvents)
           /\ Len(Post(e, n)) = Len(events) + n
           /\ \A i \in 1..Len(events) : Post(e, n)[i] = events[i]
           /\ \A i \in (Len(events) + 1)..(Len(events) + n) : Post(e, n)[i] = e
<1>1. PICK new \in Seq(UIEvents) :
         new = [i \in 1..n |-> e] /\ Len(new) = n /\ \A i \in 1..n : new[i] = e
  BY CopiesType
<1>2. Post(e, n) = events \o new
  BY <1>1 DEF Post
<1> QED
  BY <1>1, <1>2

-----------------------------------------------------------------------------
\* Every flag stays a flag.
LEMMA FlagsStep == TypeOK /\ [Next]_vars => FlagsOK'
<1> SUFFICES ASSUME FlagsOK, [Next]_vars PROVE FlagsOK'
  BY DEF TypeOK
<1> USE DEF FlagsOK, ShowPage, OpenLoading, Fault, disk, app, nodeVars, view, history
<1>1. CASE UserSteps
  <2>1. ASSUME NEW w \in Wallets, NEW local \in BOOLEAN,
               CreateWallet(w, local) \/ CreateWalletFails(w, local)
        PROVE  FlagsOK'
    BY <2>1 DEF CreateWallet, Start, CreateWalletFails
  <2>2. ASSUME OpenWallet PROVE FlagsOK'
    BY <2>2 DEF OpenWallet, Start
  <2>3. ASSUME ResetAfterNode PROVE FlagsOK'
    BY <2>3 DEF ResetAfterNode
  <2>4. ASSUME ResetNow PROVE FlagsOK'
    BY <2>4 DEF ResetNow, OnResetWallet, RestoreDBFromBackup
  <2>5. ASSUME NEW local \in BOOLEAN, ChangeSettings(local) PROVE FlagsOK'
    BY <2>5 DEF ChangeSettings, ApplySettingsChanges
  <2>6. ASSUME NEW local \in BOOLEAN, ChangeBadPort(local) PROVE FlagsOK'
    BY <2>6 DEF ChangeBadPort, ApplySettingsChanges
  <2>7. ASSUME ChangeNodeSettings \/ Lock \/ Unlock PROVE FlagsOK'
    BY <2>7 DEF ChangeNodeSettings, Lock, Unlock
  <2> QED
    BY <1>1, <2>1, <2>2, <2>3, <2>4, <2>5, <2>6, <2>7 DEF UserSteps
<1>2. CASE EventSteps
  BY <1>2 DEF EventSteps, OnStartedNode, OnFailedToStartNode, OnWalletReset,
              OnResetWallet, RestoreDBFromBackup, OnGetWalletError, SyncCompleted
<1>3. CASE NodeSteps
  BY <1>3 DEF NodeSteps, NodeInit, NodeStarted, NodeFails, NodeSyncError, NodeStopped,
              NodeDestroyed
<1>4. CASE WalletError
  BY <1>4 DEF WalletError
<1>5. CASE Crashes
  BY <1>5 DEF Crashes, Restart, CrashInReset, CrashInCreate, FreshMemory
<1>6. CASE UNCHANGED vars
  BY <1>6 DEF vars
<1> QED
  BY <1>1, <1>2, <1>3, <1>4, <1>5, <1>6 DEF Next

-----------------------------------------------------------------------------
\* Every other variable stays in its range.
LEMMA ValuesStep == TypeOK /\ [Next]_vars => ValuesOK'
<1> SUFFICES ASSUME ValuesOK, [Next]_vars PROVE ValuesOK'
  BY DEF TypeOK
<1> USE DEF ValuesOK, ShowPage, OpenLoading, Fault, Pages, LoadingPages, Handlers,
            disk, app, nodeVars, view, history
<1>1. CASE UserSteps
  <2>1. ASSUME NEW w \in Wallets, NEW local \in BOOLEAN, CreateWallet(w, local)
        PROVE  ValuesOK'
    BY <2>1 DEF CreateWallet, MayCreate, BackupDB, Start
  <2>2. ASSUME NEW w \in Wallets, NEW local \in BOOLEAN, CreateWalletFails(w, local)
        PROVE  ValuesOK'
    BY <2>2 DEF CreateWalletFails, MayCreate, BackupDB
  <2>3. ASSUME OpenWallet PROVE ValuesOK'
    BY <2>3 DEF OpenWallet, Start
  <2>4. ASSUME ResetAfterNode PROVE ValuesOK'
    BY <2>4 DEF ResetAfterNode, MayReset
  <2>5. ASSUME ResetNow PROVE ValuesOK'
    BY <2>5 DEF ResetNow, MayReset, OnResetWallet, RestoreDBFromBackup
  <2>6. ASSUME NEW local \in BOOLEAN, ChangeSettings(local) PROVE ValuesOK'
    BY <2>6 DEF ChangeSettings, ApplySettingsChanges
  <2>7. ASSUME NEW local \in BOOLEAN, ChangeBadPort(local) PROVE ValuesOK'
    BY <2>7 DEF ChangeBadPort, ApplySettingsChanges
  <2>8. ASSUME ChangeNodeSettings \/ Lock \/ Unlock PROVE ValuesOK'
    BY <2>8 DEF ChangeNodeSettings, Lock, Unlock
  <2> QED
    BY <1>1, <2>1, <2>2, <2>3, <2>4, <2>5, <2>6, <2>7, <2>8 DEF UserSteps
<1>2. CASE EventSteps
  <2>1. ASSUME NEW e \in UIEvents, Take(e) PROVE events' \in Seq(UIEvents)
    BY <2>1 DEF Take
  <2>2. ASSUME OnStartedNode PROVE ValuesOK'
    <3>1. events' \in Seq(UIEvents)
      BY <2>1, <2>2 DEF OnStartedNode, UIEvents, NodeEvents
    <3> QED
      BY <2>2, <3>1 DEF OnStartedNode
  <2>3. ASSUME NEW e \in {"addrInUse", "failedToStart"}, OnFailedToStartNode(e)
        PROVE  ValuesOK'
    <3>1. events' \in Seq(UIEvents)
      BY <2>1, <2>3 DEF OnFailedToStartNode, UIEvents, NodeEvents
    <3> QED
      BY <2>3, <3>1 DEF OnFailedToStartNode
  <2>4. ASSUME OnWalletReset PROVE ValuesOK'
    <3>1. events' \in Seq(UIEvents)
      BY <2>1, <2>4 DEF OnWalletReset, UIEvents
    <3> QED
      BY <2>4, <3>1 DEF OnWalletReset, OnResetWallet, RestoreDBFromBackup
  <2>5. ASSUME OnGetWalletError PROVE ValuesOK'
    BY <2>5 DEF OnGetWalletError
  <2>6. ASSUME SyncCompleted PROVE ValuesOK'
    BY <2>6 DEF SyncCompleted
  <2> QED
    BY <1>2, <2>2, <2>3, <2>4, <2>5, <2>6 DEF EventSteps
<1>3. CASE NodeSteps
  <2>1. \A e \in UIEvents, n \in Nat : Post(e, n) \in Seq(UIEvents)
    BY PostType
  <2>2. ASSUME NodeInit \/ NodeStopped PROVE ValuesOK'
    BY <2>2 DEF NodeInit, NodeStopped
  <2>3. ASSUME NodeStarted PROVE ValuesOK'
    <3>1. events' \in Seq(UIEvents)
      BY <2>1, <2>3 DEF NodeStarted, UIEvents, NodeEvents
    <3> QED
      BY <2>3, <3>1 DEF NodeStarted
  <2>4. ASSUME NEW e \in {"addrInUse", "failedToStart"}, NodeFails(e) PROVE ValuesOK'
    <3>1. events' \in Seq(UIEvents)
      BY <2>1, <2>4 DEF NodeFails, UIEvents, NodeEvents
    <3> QED
      BY <2>4, <3>1 DEF NodeFails
  <2>5. ASSUME NodeSyncError PROVE ValuesOK'
    <3>1. events' \in Seq(UIEvents)
      BY <2>1, <2>5 DEF NodeSyncError, UIEvents, NodeEvents
    <3> QED
      BY <2>5, <3>1 DEF NodeSyncError
  <2>6. ASSUME NodeDestroyed PROVE ValuesOK'
    <3>1. destroyHooks * resetConns \in Nat
      OBVIOUS
    <3>2. events' \in Seq(UIEvents)
      BY <2>1, <2>6, <3>1 DEF NodeDestroyed, UIEvents
    <3> QED
      BY <2>6, <3>2 DEF NodeDestroyed
  <2> QED
    BY <1>3, <2>2, <2>3, <2>4, <2>5, <2>6 DEF NodeSteps
<1>4. CASE WalletError
  BY <1>4 DEF WalletError
<1>5. CASE Crashes
  <2>1. FreshMemory /\ kept' = kept
    BY <1>5 DEF Crashes, Restart, CrashInReset, CrashInCreate
  <2>2. events' \in Seq(UIEvents)
    BY <2>1, NoEvents DEF FreshMemory
  <2>3. mainFile' \in Wallets \cup {None} /\ backups' \subseteq Wallets
    BY <1>5 DEF Crashes, Restart, CrashInReset, CrashInCreate, MayCreate
  <2> QED
    BY <2>1, <2>2, <2>3 DEF FreshMemory
<1>6. CASE UNCHANGED vars
  BY <1>6 DEF vars
<1> QED
  BY <1>1, <1>2, <1>3, <1>4, <1>5, <1>6 DEF Next

-----------------------------------------------------------------------------
\* The initial memory is well typed.
LEMMA TypeInit == Init => TypeOK
<1> SUFFICES ASSUME Init PROVE TypeOK
  OBVIOUS
<1>1. FlagsOK
  BY DEF Init, MemoryInit, FlagsOK
<1>2. ValuesOK
  BY NoEvents DEF Init, MemoryInit, ValuesOK, Pages, LoadingPages
<1> QED
  BY <1>1, <1>2 DEF TypeOK

LEMMA TypeStep == TypeOK /\ [Next]_vars => TypeOK'
BY FlagsStep, ValuesStep DEF TypeOK

\* Every variable keeps its type, for any set of wallets, any bounds and any of
\* the races: the queue of posted events included.
THEOREM TypeCorrect == Spec => []TypeOK
BY TypeInit, TypeStep, PTL DEF Spec

-----------------------------------------------------------------------------
\* AppModel closes the database before it renames, replaces or removes the file
\* at the storage path: whatever races happen, the open database is that file.
LEMMA OpenDbStep ==
    TypeOK /\ OpenDbIsMainFile /\ [Next]_vars => OpenDbIsMainFile'
<1> SUFFICES ASSUME TypeOK, OpenDbIsMainFile, [Next]_vars PROVE OpenDbIsMainFile'
  OBVIOUS
<1> USE NoneAssumption DEF OpenDbIsMainFile, Fault, disk, app
<1>1. CASE UserSteps
  BY <1>1 DEF UserSteps, CreateWallet, CreateWalletFails, MayCreate, Start, OpenWallet,
              ResetAfterNode, ResetNow, OnResetWallet, RestoreDBFromBackup, ChangeSettings, ChangeBadPort,
              ChangeNodeSettings, Lock, Unlock
<1>2. CASE EventSteps
  BY <1>2 DEF EventSteps, OnStartedNode, OnFailedToStartNode, OnWalletReset,
              OnResetWallet, RestoreDBFromBackup, OnGetWalletError, SyncCompleted
<1>3. CASE NodeSteps
  BY <1>3 DEF NodeSteps, NodeInit, NodeStarted, NodeFails, NodeSyncError, NodeStopped,
              NodeDestroyed
<1>4. CASE WalletError
  BY <1>4 DEF WalletError
<1>5. CASE Crashes
  BY <1>5 DEF Crashes, Restart, CrashInReset, CrashInCreate, FreshMemory
<1>6. CASE UNCHANGED vars
  BY <1>6 DEF vars
<1> QED
  BY <1>1, <1>2, <1>3, <1>4, <1>5, <1>6 DEF Next

\* The database AppModel holds is always the one it would remove and the one its
\* wallet runs on, under every race.
THEOREM OpenDatabaseIsMainFile == Spec => []OpenDbIsMainFile
<1>1. Init => OpenDbIsMainFile
  BY DEF Init, MemoryInit, OpenDbIsMainFile
<1> QED
  BY <1>1, OpenDbStep, TypeCorrect, PTL DEF Spec

-----------------------------------------------------------------------------
\* Whatever the user does and whatever races happen, a wallet file that goes is
\* the one AppModel had open: onResetWallet removes what it closes, and the
\* copy of another wallet only moves (app_model.cpp, backupDB, onResetWallet and
\* restoreDBFromBackup).
THEOREM OnlyOpenWalletIsRemoved == Spec => OnlyOpenWalletRemoved
<1>1. ASSUME TypeOK, OpenDbIsMainFile, Next, NEW w \in OnDisk, w \notin OnDisk'
      PROVE  w = wallet /\ (db = w \/ kdf' = None)
  <2> USE NoneAssumption DEF OnDisk, Fault, disk
  <2>0. None \notin backups /\ w # None
    BY <1>1 DEF TypeOK, ValuesOK
  <2>1. ASSUME HasWallet, mainFile' = None \/ mainFile' = backupPath,
               backups' = backups \/ (backupPath = mainFile' /\ backups' = backups \ {backupPath})
        PROVE  w = wallet /\ db = w
    BY <1>1, <2>0, <2>1 DEF HasWallet, OpenDbIsMainFile
  <2>2. ASSUME HasWallet, RestoreDBFromBackup PROVE w = wallet /\ db = w
    BY <2>1, <2>2 DEF RestoreDBFromBackup
  <2>3. CASE UserSteps
    <3>1. ~UserSteps \/ ResetNow
      BY <1>1, <2>0
         DEF UserSteps, CreateWallet, CreateWalletFails, BackupDB, OpenWallet, ResetAfterNode,
             ChangeSettings, ChangeBadPort, ChangeNodeSettings, Lock, Unlock
    <3> QED
      BY <1>1, <2>2, <2>3, <3>1 DEF ResetNow, OnResetWallet
  <2>4. CASE EventSteps
    <3>1. ~EventSteps \/ OnWalletReset
      BY <1>1 DEF EventSteps, OnStartedNode, OnFailedToStartNode, OnGetWalletError, SyncCompleted
    <3> QED
      BY <1>1, <2>2, <2>4, <3>1 DEF OnWalletReset, OnResetWallet
  <2>5. ~NodeSteps /\ ~WalletError
    BY <1>1 DEF NodeSteps, NodeInit, NodeStarted, NodeFails, NodeSyncError, NodeStopped,
               NodeDestroyed, WalletError
  <2>6. CASE Crashes
    <3>1. ~Crashes \/ CrashInReset
      BY <1>1, <2>0 DEF Crashes, Restart, CrashInCreate
    <3> QED
      BY <2>1, <2>6, <3>1 DEF CrashInReset
  <2> QED
    BY <1>1, <2>3, <2>4, <2>5, <2>6 DEF Next
<1>2. TypeOK /\ OpenDbIsMainFile /\ [Next]_vars
      => [\A w \in OnDisk : w \notin OnDisk' => w = wallet /\ (db = w \/ kdf' = None)]_vars
  BY <1>1
<1> QED
  BY <1>2, TypeCorrect, OpenDatabaseIsMainFile, PTL DEF Spec, OnlyOpenWalletRemoved

-----------------------------------------------------------------------------
\* What the queue operations do to the posted resets.
LEMMA SameEvents ==
    UNCHANGED events => (ResetPosted' <=> ResetPosted) /\ (ResetsUnique' <=> ResetsUnique)
BY DEF ResetPosted, ResetsUnique

LEMMA NoEventsNoReset == events' = <<>> => ~ResetPosted' /\ ResetsUnique'
BY DEF ResetPosted, ResetsUnique

LEMMA TakeResets ==
    ASSUME events \in Seq(UIEvents), NEW e, Take(e), ResetsUnique
    PROVE  /\ ResetPosted' => ResetPosted
           /\ ResetsUnique'
           /\ e = "walletReset" => ResetPosted /\ ~ResetPosted'
<1>1. events # <<>> /\ events[1] = e /\ events' = Tail(events)
  BY DEF Take
<1>2. 1 \in DOMAIN events /\ DOMAIN events' = 1..(Len(events) - 1) /\ Len(events) \in Nat
  BY <1>1
<1>3. \A i \in DOMAIN events' : i + 1 \in DOMAIN events /\ events'[i] = events[i + 1]
  BY <1>1, <1>2
<1>4. ResetPosted' => ResetPosted
  BY <1>3 DEF ResetPosted
<1>5. ResetsUnique'
  <2> SUFFICES ASSUME NEW i \in DOMAIN events', NEW j \in DOMAIN events',
                      events'[i] = "walletReset", events'[j] = "walletReset"
               PROVE  i = j
    BY DEF ResetsUnique
  <2>1. i + 1 = j + 1
    BY <1>3 DEF ResetsUnique
  <2> QED
    BY <2>1, <1>2
<1>6. ASSUME e = "walletReset" PROVE ResetPosted /\ ~ResetPosted'
  <2>1. ResetPosted
    BY <1>1, <1>2, <1>6 DEF ResetPosted
  <2>2. ASSUME NEW i \in DOMAIN events', events'[i] = "walletReset" PROVE FALSE
    <3>1. i + 1 = 1
      BY <1>1, <1>2, <1>3, <1>6, <2>2 DEF ResetsUnique
    <3> QED
      BY <3>1, <1>2
  <2> QED
    BY <2>1, <2>2 DEF ResetPosted
<1> QED
  BY <1>4, <1>5, <1>6

LEMMA PostNodeEvent ==
    ASSUME events \in Seq(UIEvents), NEW e \in NodeEvents, NEW n \in Nat,
           events' = Post(e, n), ResetsUnique
    PROVE  (ResetPosted' => ResetPosted) /\ ResetsUnique'
<1>1. e \in UIEvents /\ e # "walletReset"
  BY DEF UIEvents, NodeEvents
<1>2. /\ DOMAIN events = 1..Len(events) /\ Len(events) \in Nat
      /\ DOMAIN events' = 1..(Len(events) + n)
      /\ \A i \in 1..Len(events) : events'[i] = events[i]
      /\ \A i \in (Len(events) + 1)..(Len(events) + n) : events'[i] = e
  <2>1. /\ Post(e, n) \in Seq(UIEvents)
        /\ Len(Post(e, n)) = Len(events) + n
        /\ \A i \in 1..Len(events) : Post(e, n)[i] = events[i]
        /\ \A i \in (Len(events) + 1)..(Len(events) + n) : Post(e, n)[i] = e
    BY <1>1, PostType
  <2> QED
    BY <2>1
<1>3. \A i \in DOMAIN events' :
         events'[i] = "walletReset" => i \in DOMAIN events /\ events[i] = "walletReset"
  BY <1>1, <1>2
<1> QED
  BY <1>3 DEF ResetPosted, ResetsUnique

LEMMA PostReset ==
    ASSUME events \in Seq(UIEvents), NEW n \in 0..1,
           events' = Post("walletReset", n), ~ResetPosted
    PROVE  ResetsUnique' /\ (ResetPosted' => n = 1)
<1>1. /\ DOMAIN events = 1..Len(events) /\ Len(events) \in Nat
      /\ DOMAIN events' = 1..(Len(events) + n)
      /\ \A i \in 1..Len(events) : events'[i] = events[i]
  <2>1. "walletReset" \in UIEvents /\ n \in Nat
    BY DEF UIEvents
  <2>2. /\ Post("walletReset", n) \in Seq(UIEvents)
        /\ Len(Post("walletReset", n)) = Len(events) + n
        /\ \A i \in 1..Len(events) : Post("walletReset", n)[i] = events[i]
    BY <2>1, PostType
  <2> QED
    BY <2>1, <2>2
<1>2. \A i \in DOMAIN events' : events'[i] = "walletReset" => i = Len(events) + 1 /\ n = 1
  BY <1>1 DEF ResetPosted
<1> QED
  BY <1>2 DEF ResetPosted, ResetsUnique

-----------------------------------------------------------------------------
\* Without races a reset that runs belongs to the creating page, so what it
\* removes is not a kept wallet.  One step per action; the queue is dealt with
\* by the lemmas above.
LEMMA ResetInit == Init => ResetInv
BY NoneAssumption
   DEF Init, MemoryInit, ResetInv, OneDatabase, OneConnection, StartPageHasNoWallet,
       CreatingIsNotKept, ResetBelongsToPage, OneReset, ResetPosted, ResetsUnique,
       KeptWalletsOnDisk, OnDisk

LEMMA ResetStep ==
    ASSUME Races = {}, TypeOK, ResetInv, [Next]_vars
    PROVE  ResetInv'
<1> USE NoneAssumption
    DEF ResetInv, OneDatabase, OneConnection, StartPageHasNoWallet, CreatingIsNotKept,
        ResetBelongsToPage, OneReset, KeptWalletsOnDisk, OnDisk, HasWallet, ShowPage,
        OpenLoading, Fault, LoadingPages, disk, app, nodeVars, view, history, ValuesOK
<1>t. ValuesOK
  BY DEF TypeOK
<1>s. UNCHANGED events
      => (ResetPosted' <=> ResetPosted) /\ (ResetsUnique' <=> ResetsUnique)
  BY SameEvents
<1>1. CASE UserSteps
  <2>1. ASSUME NEW w \in Wallets, NEW local \in BOOLEAN, CreateWallet(w, local)
        PROVE  ResetInv'
    BY <1>t, <1>s, <2>1 DEF CreateWallet, MayCreate, BackupDB, Start
  <2>2. ASSUME NEW w \in Wallets, NEW local \in BOOLEAN, CreateWalletFails(w, local)
        PROVE  ResetInv'
    BY <1>t, <1>s, <2>2 DEF CreateWalletFails, MayCreate, BackupDB
  <2>3. ASSUME OpenWallet PROVE ResetInv'
    BY <1>t, <1>s, <2>3 DEF OpenWallet, Start
  <2>4. ASSUME ResetAfterNode PROVE ResetInv'
    BY <1>t, <1>s, <2>4 DEF ResetAfterNode, MayReset
  <2>5. ASSUME ResetNow PROVE ResetInv'
    BY <1>t, <1>s, <2>5 DEF ResetNow, MayReset, OnResetWallet, RestoreDBFromBackup
  <2>6. ASSUME NEW local \in BOOLEAN, ChangeSettings(local) PROVE ResetInv'
    BY <1>t, <1>s, <2>6 DEF ChangeSettings, ApplySettingsChanges
  <2>7. ASSUME NEW local \in BOOLEAN, ChangeBadPort(local) PROVE ResetInv'
    BY <1>t, <1>s, <2>7 DEF ChangeBadPort, ApplySettingsChanges
  <2>8. ASSUME ChangeNodeSettings \/ Lock \/ Unlock PROVE ResetInv'
    BY <1>t, <1>s, <2>8 DEF ChangeNodeSettings, Lock, Unlock
  <2> QED
    BY <1>1, <2>1, <2>2, <2>3, <2>4, <2>5, <2>6, <2>7, <2>8 DEF UserSteps
<1>2. CASE EventSteps
  <2>1. ASSUME OnStartedNode PROVE ResetInv'
    <3>1. (ResetPosted' => ResetPosted) /\ ResetsUnique'
      BY <1>t, <2>1, TakeResets DEF OnStartedNode
    <3> QED
      BY <1>t, <2>1, <3>1 DEF OnStartedNode
  <2>2. ASSUME NEW e \in {"addrInUse", "failedToStart"}, OnFailedToStartNode(e)
        PROVE  ResetInv'
    <3>1. (ResetPosted' => ResetPosted) /\ ResetsUnique'
      BY <1>t, <2>2, TakeResets DEF OnFailedToStartNode
    <3> QED
      BY <1>t, <2>2, <3>1 DEF OnFailedToStartNode
  <2>3. ASSUME OnWalletReset PROVE ResetInv'
    <3>1. ResetPosted /\ ~ResetPosted' /\ ResetsUnique'
      BY <1>t, <2>3, TakeResets DEF OnWalletReset
    <3>2. page = "creating" /\ resets = 1 /\ destroyHooks = 0
      BY <1>t, <3>1
    <3> QED
      BY <1>t, <2>3, <3>1, <3>2 DEF OnWalletReset, OnResetWallet, RestoreDBFromBackup
  <2>4. ASSUME OnGetWalletError PROVE ResetInv'
    BY <1>t, <1>s, <2>4 DEF OnGetWalletError
  <2>5. ASSUME SyncCompleted PROVE ResetInv'
    BY <1>t, <1>s, <2>5 DEF SyncCompleted
  <2> QED
    BY <1>2, <2>1, <2>2, <2>3, <2>4, <2>5 DEF EventSteps
<1>3. CASE NodeSteps
  <2>1. ASSUME NodeInit \/ NodeStopped PROVE ResetInv'
    BY <1>t, <1>s, <2>1 DEF NodeInit, NodeStopped
  <2>2. ASSUME NodeStarted PROVE ResetInv'
    <3>1. (ResetPosted' => ResetPosted) /\ ResetsUnique'
      BY <1>t, <2>2, PostNodeEvent DEF NodeStarted, NodeEvents
    <3> QED
      BY <1>t, <2>2, <3>1 DEF NodeStarted
  <2>3. ASSUME NEW e \in {"addrInUse", "failedToStart"}, NodeFails(e) PROVE ResetInv'
    <3>1. (ResetPosted' => ResetPosted) /\ ResetsUnique'
      BY <1>t, <2>3, PostNodeEvent DEF NodeFails, NodeEvents
    <3> QED
      BY <1>t, <2>3, <3>1 DEF NodeFails
  <2>4. ASSUME NodeSyncError PROVE ResetInv'
    <3>1. (ResetPosted' => ResetPosted) /\ ResetsUnique'
      BY <1>t, <2>4, PostNodeEvent DEF NodeSyncError, NodeEvents
    <3> QED
      BY <1>t, <2>4, <3>1 DEF NodeSyncError
  <2>5. CASE NodeDestroyed /\ destroyHooks = 0
    <3>1. destroyHooks * resetConns = 0
      BY <1>t, <2>5
    <3>2. (ResetPosted' => ResetPosted) /\ ResetsUnique'
      <4>1. events' = Post("startedNode", 0)
        BY <2>5, <3>1 DEF NodeDestroyed, Post
      <4> QED
        BY <1>t, <4>1, PostNodeEvent DEF NodeEvents
    <3> QED
      BY <1>t, <2>5, <3>2 DEF NodeDestroyed
  <2>6. CASE NodeDestroyed /\ destroyHooks = 1
    <3>1. page = "creating" /\ resets = 1 /\ resetConns = 1 /\ ~ResetPosted
      BY <1>t, <2>6
    <3>2. destroyHooks * resetConns = 1
      BY <2>6, <3>1
    <3>3. ResetsUnique'
      BY <1>t, <2>6, <3>1, <3>2, PostReset DEF NodeDestroyed
    <3> QED
      BY <1>t, <2>6, <3>1, <3>3 DEF NodeDestroyed
  <2> QED
    BY <1>3, <1>t, <2>1, <2>2, <2>3, <2>4, <2>5, <2>6 DEF NodeSteps
<1>4. CASE WalletError
  BY <1>t, <1>s, <1>4 DEF WalletError
<1>5. CASE Crashes
  <2>1. FreshMemory /\ kept' = kept
    BY <1>5 DEF Crashes, Restart, CrashInReset, CrashInCreate
  <2>2. ~ResetPosted' /\ ResetsUnique'
    BY <2>1, NoEventsNoReset DEF FreshMemory
  <2>3. KeptWalletsOnDisk'
    <3>1. CASE Restart
      BY <3>1 DEF Restart
    <3>2. ASSUME NEW w \in Wallets, CrashInCreate(w) PROVE KeptWalletsOnDisk'
      BY <3>2 DEF CrashInCreate
    <3>3. CASE CrashInReset
      <4>1. page = "creating"
        BY <1>t, <3>3 DEF CrashInReset, MayReset, ResetPosted
      <4> QED
        BY <1>t, <3>3, <4>1 DEF CrashInReset
    <3> QED
      BY <1>5, <3>1, <3>2, <3>3 DEF Crashes
  <2> QED
    BY <2>1, <2>2, <2>3 DEF FreshMemory
<1>6. CASE UNCHANGED vars
  BY <1>s, <1>6 DEF vars
<1> QED
  BY <1>1, <1>2, <1>3, <1>4, <1>5, <1>6 DEF Next

\* No wallet the user had, opened or finished creating is removed from the disk
\* by a cancelled creation, a failed rename or a crash, as long as none of the
\* races happens: for every set of wallets and every bound.
THEOREM KeptWalletsSafe ==
    ASSUME Races = {}
    PROVE  Spec => []KeptWalletsOnDisk
<1>1. TypeOK /\ ResetInv /\ [Next]_vars => ResetInv'
  BY ResetStep
<1>2. ResetInv => KeptWalletsOnDisk
  BY DEF ResetInv
<1> QED
  BY <1>1, <1>2, ResetInit, TypeCorrect, PTL DEF Spec
-----------------------------------------------------------------------------
\* What the queue operations do to the posted startedNode.
LEMMA SameStarted ==
    UNCHANGED events
    => (StartedPosted' <=> StartedPosted) /\ (StartedBeforeReset' <=> StartedBeforeReset)
BY DEF StartedPosted, StartedBeforeReset

LEMMA NoEventsNoStarted == events' = <<>> => ~StartedPosted' /\ StartedBeforeReset'
BY DEF StartedPosted, StartedBeforeReset

LEMMA TakeStarted ==
    ASSUME events \in Seq(UIEvents), NEW e, Take(e), StartedBeforeReset
    PROVE  /\ StartedPosted' => StartedPosted
           /\ StartedBeforeReset'
           /\ e = "startedNode" => StartedPosted
           /\ e = "walletReset" => ResetPosted /\ ~StartedPosted'
<1>1. events # <<>> /\ events[1] = e /\ events' = Tail(events)
  BY DEF Take
<1>2. 1 \in DOMAIN events /\ DOMAIN events' = 1..(Len(events) - 1) /\ Len(events) \in Nat
  BY <1>1
<1>3. \A i \in DOMAIN events' : i + 1 \in DOMAIN events /\ events'[i] = events[i + 1]
  BY <1>1, <1>2
<1>4. StartedPosted' => StartedPosted
  BY <1>3 DEF StartedPosted
<1>5. StartedBeforeReset'
  <2> SUFFICES ASSUME NEW i \in DOMAIN events', NEW j \in DOMAIN events',
                      events'[i] = "walletReset", events'[j] = "startedNode"
               PROVE  j < i
    BY DEF StartedBeforeReset
  <2>1. j + 1 < i + 1
    BY <1>3 DEF StartedBeforeReset
  <2> QED
    BY <2>1, <1>2
<1>6. e = "startedNode" => StartedPosted
  BY <1>1, <1>2 DEF StartedPosted
<1>7. ASSUME e = "walletReset" PROVE ResetPosted /\ ~StartedPosted'
  <2>1. ResetPosted
    BY <1>1, <1>2, <1>7 DEF ResetPosted
  <2>2. ASSUME NEW j \in DOMAIN events', events'[j] = "startedNode" PROVE FALSE
    <3>1. j + 1 < 1
      BY <1>1, <1>2, <1>3, <1>7, <2>2 DEF StartedBeforeReset
    <3> QED
      BY <3>1, <1>2
  <2> QED
    BY <2>1, <2>2 DEF StartedPosted
<1> QED
  BY <1>4, <1>5, <1>6, <1>7

\* Posting keeps startedNode before the resets, if it is not startedNode that is
\* posted behind one.
LEMMA PostStarted ==
    ASSUME events \in Seq(UIEvents), NEW e \in UIEvents, NEW n \in Nat,
           events' = Post(e, n), StartedBeforeReset, e = "startedNode" => ~ResetPosted
    PROVE  /\ StartedBeforeReset'
           /\ e # "startedNode" => (StartedPosted' => StartedPosted)
<1>1. /\ DOMAIN events = 1..Len(events) /\ Len(events) \in Nat
      /\ DOMAIN events' = 1..(Len(events) + n)
      /\ \A i \in 1..Len(events) : events'[i] = events[i]
      /\ \A i \in (Len(events) + 1)..(Len(events) + n) : events'[i] = e
  <2>1. /\ Post(e, n) \in Seq(UIEvents)
        /\ Len(Post(e, n)) = Len(events) + n
        /\ \A i \in 1..Len(events) : Post(e, n)[i] = events[i]
        /\ \A i \in (Len(events) + 1)..(Len(events) + n) : Post(e, n)[i] = e
    BY PostType
  <2> QED
    BY <2>1
<1>2. \A i \in DOMAIN events' :
         \/ i \in DOMAIN events /\ events'[i] = events[i]
         \/ i > Len(events) /\ events'[i] = e
  BY <1>1
<1>3. e # "startedNode" => (StartedPosted' => StartedPosted)
  BY <1>2 DEF StartedPosted
<1>4. StartedBeforeReset'
  <2> SUFFICES ASSUME NEW i \in DOMAIN events', NEW j \in DOMAIN events',
                      events'[i] = "walletReset", events'[j] = "startedNode"
               PROVE  j < i
    BY DEF StartedBeforeReset
  <2>1. CASE e = "startedNode"
    <3>1. i \in DOMAIN events /\ events[i] = "walletReset"
      BY <1>2, <2>1
    <3> QED
      BY <2>1, <3>1 DEF ResetPosted
  <2>2. CASE e # "startedNode"
    <3>1. j \in DOMAIN events /\ events[j] = "startedNode"
      BY <1>2, <2>2
    <3>2. CASE i \in DOMAIN events /\ events'[i] = events[i]
      BY <3>1, <3>2 DEF StartedBeforeReset
    <3>3. CASE i > Len(events)
      BY <1>1, <3>1, <3>3
    <3> QED
      BY <1>2, <3>2, <3>3
  <2> QED
    BY <2>1, <2>2
<1> QED
  BY <1>3, <1>4

-----------------------------------------------------------------------------
\* Without races events of a node and of a reset find the wallet they are for.
LEMMA LifeInit == Init => LifeInv
BY NoneAssumption
   DEF Init, MemoryInit, LifeInv, AssertionsHold, OnlyStartPageHasNoWallet, ErrorIsForLoading,
       StartedPosted, StartedBeforeReset, StartPageHasNoNode, NodeOfCreating, KeysOfWallet,
       NodeServesOpenWallet, UndoIsBackup

LEMMA LifeStep ==
    ASSUME Races = {}, TypeOK, ResetInv, LifeInv, [Next]_vars
    PROVE  LifeInv'
<1> USE NoneAssumption
    DEF ResetInv, OneDatabase, StartPageHasNoWallet, CreatingIsNotKept, ResetBelongsToPage,
        OneReset, LifeInv, AssertionsHold, OnlyStartPageHasNoWallet, ErrorIsForLoading,
        StartPageHasNoNode, NodeOfCreating, KeysOfWallet, NodeServesOpenWallet, UndoIsBackup, HasWallet,
        ShowPage, OpenLoading, Fault, LoadingPages, disk, app, nodeVars, view, history,
        ValuesOK
<1>t. ValuesOK
  BY DEF TypeOK
<1>s. UNCHANGED events
      => (StartedPosted' <=> StartedPosted) /\ (StartedBeforeReset' <=> StartedBeforeReset)
  BY SameStarted
<1>1. CASE UserSteps
  <2>1. ASSUME NEW w \in Wallets, NEW local \in BOOLEAN, CreateWallet(w, local)
        PROVE  LifeInv'
    BY <1>t, <1>s, <2>1 DEF CreateWallet, MayCreate, BackupDB, Start
  <2>2. ASSUME NEW w \in Wallets, NEW local \in BOOLEAN, CreateWalletFails(w, local)
        PROVE  LifeInv'
    BY <1>t, <1>s, <2>2 DEF CreateWalletFails, MayCreate, BackupDB
  <2>3. ASSUME OpenWallet PROVE LifeInv'
    BY <1>t, <1>s, <2>3 DEF OpenWallet, Start
  <2>4. ASSUME ResetAfterNode PROVE LifeInv'
    BY <1>t, <1>s, <2>4 DEF ResetAfterNode, MayReset, IsNodeRunning
  <2>5. ASSUME ResetNow PROVE LifeInv'
    BY <1>t, <1>s, <2>5 DEF ResetNow, MayReset, IsNodeRunning, OnResetWallet, RestoreDBFromBackup
  <2>6. ASSUME NEW local \in BOOLEAN, ChangeSettings(local) PROVE LifeInv'
    BY <1>t, <1>s, <2>6 DEF ChangeSettings, ApplySettingsChanges, IsNodeRunning
  <2>7. ASSUME NEW local \in BOOLEAN, ChangeBadPort(local) PROVE LifeInv'
    BY <1>t, <1>s, <2>7 DEF ChangeBadPort, ApplySettingsChanges, IsNodeRunning
  <2>8. ASSUME ChangeNodeSettings \/ Lock \/ Unlock PROVE LifeInv'
    BY <1>t, <1>s, <2>8 DEF ChangeNodeSettings, Lock, Unlock
  <2> QED
    BY <1>1, <2>1, <2>2, <2>3, <2>4, <2>5, <2>6, <2>7, <2>8 DEF UserSteps
<1>2. CASE EventSteps
  <2>1. ASSUME OnStartedNode PROVE LifeInv'
    <3>1. StartedPosted /\ StartedBeforeReset' /\ (StartedPosted' => StartedPosted)
      BY <1>t, <2>1, TakeStarted DEF OnStartedNode
    <3> QED
      BY <1>t, <2>1, <3>1 DEF OnStartedNode
  <2>2. ASSUME NEW e \in {"addrInUse", "failedToStart"}, OnFailedToStartNode(e)
        PROVE  LifeInv'
    <3>1. StartedBeforeReset' /\ (StartedPosted' => StartedPosted)
      BY <1>t, <2>2, TakeStarted DEF OnFailedToStartNode
    <3> QED
      BY <1>t, <2>2, <3>1 DEF OnFailedToStartNode
  <2>3. ASSUME OnWalletReset PROVE LifeInv'
    <3>1. ResetPosted /\ StartedBeforeReset' /\ ~StartedPosted'
      BY <1>t, <2>3, TakeStarted DEF OnWalletReset
    <3>2. page = "creating" /\ resets = 1 /\ destroyHooks = 0 /\ node = "idle" /\ ~startRequested
      BY <1>t, <3>1
    <3> QED
      BY <1>t, <2>3, <3>1, <3>2 DEF OnWalletReset, OnResetWallet, RestoreDBFromBackup
  <2>4. ASSUME OnGetWalletError PROVE LifeInv'
    BY <1>t, <1>s, <2>4 DEF OnGetWalletError
  <2>5. ASSUME SyncCompleted PROVE LifeInv'
    BY <1>t, <1>s, <2>5 DEF SyncCompleted
  <2> QED
    BY <1>2, <2>1, <2>2, <2>3, <2>4, <2>5 DEF EventSteps
<1>3. CASE NodeSteps
  <2>1. ASSUME NodeInit \/ NodeStopped PROVE LifeInv'
    BY <1>t, <1>s, <2>1 DEF NodeInit, NodeStopped
  <2>2. ASSUME NodeStarted PROVE LifeInv'
    <3>1. ~ResetPosted
      BY <1>t, <2>2 DEF NodeStarted
    <3>2. StartedBeforeReset'
      BY <1>t, <2>2, <3>1, PostStarted DEF NodeStarted, UIEvents, NodeEvents
    <3> QED
      BY <1>t, <2>2, <3>2 DEF NodeStarted
  <2>3. ASSUME NEW e \in {"addrInUse", "failedToStart"}, NodeFails(e) PROVE LifeInv'
    <3>1. StartedBeforeReset' /\ (StartedPosted' => StartedPosted)
      BY <1>t, <2>3, PostStarted DEF NodeFails, UIEvents, NodeEvents
    <3> QED
      BY <1>t, <2>3, <3>1 DEF NodeFails
  <2>4. ASSUME NodeSyncError PROVE LifeInv'
    <3>1. StartedBeforeReset' /\ (StartedPosted' => StartedPosted)
      BY <1>t, <2>4, PostStarted DEF NodeSyncError, UIEvents, NodeEvents
    <3> QED
      BY <1>t, <2>4, <3>1 DEF NodeSyncError
  <2>5. ASSUME NodeDestroyed PROVE LifeInv'
    <3>1. destroyHooks * resetConns \in Nat /\ "walletReset" \in UIEvents
      BY <1>t DEF UIEvents
    <3>2. StartedBeforeReset' /\ (StartedPosted' => StartedPosted)
      BY <1>t, <2>5, <3>1, PostStarted DEF NodeDestroyed
    <3> QED
      BY <1>t, <2>5, <3>2 DEF NodeDestroyed
  <2> QED
    BY <1>3, <2>1, <2>2, <2>3, <2>4, <2>5 DEF NodeSteps
<1>4. CASE WalletError
  BY <1>t, <1>s, <1>4 DEF WalletError
<1>5. CASE Crashes
  <2>1. FreshMemory /\ backups' \subseteq Wallets
    BY <1>t, <1>5 DEF Crashes, Restart, CrashInReset, CrashInCreate
  <2>2. ~StartedPosted' /\ StartedBeforeReset'
    BY <2>1, NoEventsNoStarted DEF FreshMemory
  <2> QED
    BY <2>1, <2>2 DEF FreshMemory
<1>6. CASE UNCHANGED vars
  BY <1>s, <1>6 DEF vars
<1> QED
  BY <1>1, <1>2, <1>3, <1>4, <1>5, <1>6 DEF Next

LEMMA LifeAlways ==
    ASSUME Races = {}
    PROVE  Spec => [](TypeOK /\ ResetInv /\ LifeInv)
<1>1. TypeOK /\ ResetInv /\ [Next]_vars => ResetInv'
  BY ResetStep
<1>2. TypeOK /\ ResetInv /\ LifeInv /\ [Next]_vars => LifeInv'
  BY LifeStep
<1> QED
  BY <1>1, <1>2, ResetInit, LifeInit, TypeCorrect, PTL DEF Spec

\* Without races there is one reset at most, it belongs to the page that asked
\* for it, and what it would remove is the wallet being created.
THEOREM ResetsInOrder ==
    ASSUME Races = {}
    PROVE  Spec => []ResetInv
BY LifeAlways, PTL

\* No assertion of AppModel fails: whatever a node or a reset posted finds the
\* wallet it is about, as long as none of the races happens.
THEOREM AssertionsAlwaysHold ==
    ASSUME Races = {}
    PROVE  Spec => []AssertionsHold
<1>1. LifeInv => AssertionsHold
  BY DEF LifeInv
<1> QED
  BY <1>1, LifeAlways, PTL

\* A node that is built or runs has the keys of the wallet that is open, without
\* races.
THEOREM NodeAlwaysServesOpenWallet ==
    ASSUME Races = {}
    PROVE  Spec => []NodeServesOpenWallet
<1>1. LifeInv => NodeServesOpenWallet
  BY DEF LifeInv
<1> QED
  BY <1>1, LifeAlways, PTL

\* The main page and the lock screen are only shown over a wallet, without races.
THEOREM MainScreenAlwaysHasWallet ==
    ASSUME Races = {}
    PROVE  Spec => []MainScreenHasWallet
<1>1. LifeInv => MainScreenHasWallet
  BY DEF LifeInv, OnlyStartPageHasNoWallet, MainScreenHasWallet
<1> QED
  BY <1>1, LifeAlways, PTL

\* Cancelling a creation gives back the wallet that was there before it, without
\* races: however many creations failed or were cancelled before, and whether
\* the reset comes at once or after the node.
THEOREM CancelAlwaysRestores ==
    ASSUME Races = {}
    PROVE  Spec => CancelRestores
<1>1. ASSUME ValuesOK, ResetInv, UndoIsBackup, Next,
             page = "creating", page' = home, kdf' # None
      PROVE  mainFile' = undo
  <2> USE NoneAssumption
      DEF ValuesOK, ResetInv, CreatingIsNotKept, ShowPage, OpenLoading, Fault, disk, app,
          nodeVars, view, history
  <2>1. home = "start" /\ page' = "start"
    BY <1>1
  <2>2. ASSUME OnResetWallet(TRUE) \/ OnResetWallet(resets > 0) PROVE mainFile' = undo
    BY <1>1, <2>2 DEF OnResetWallet, RestoreDBFromBackup, UndoIsBackup
  <2>3. ~UserSteps \/ ResetNow
    BY <1>1, <2>1
       DEF UserSteps, CreateWallet, CreateWalletFails, MayCreate, OpenWallet, ResetAfterNode,
           ChangeSettings, ChangeBadPort, ChangeNodeSettings, Lock, Unlock
  <2>4. ~EventSteps \/ OnWalletReset
    BY <1>1, <2>1
       DEF EventSteps, OnStartedNode, OnFailedToStartNode, OnGetWalletError, SyncCompleted
  <2>5. ~NodeSteps /\ ~WalletError /\ ~Crashes
    BY <1>1, <2>1
       DEF NodeSteps, NodeInit, NodeStarted, NodeFails, NodeSyncError, NodeStopped,
           NodeDestroyed, WalletError, Crashes, Restart, CrashInReset, CrashInCreate,
           FreshMemory
  <2>6. CASE ResetNow
    BY <1>1, <2>1, <2>2, <2>6 DEF ResetNow
  <2>7. CASE OnWalletReset
    BY <1>1, <2>1, <2>2, <2>7 DEF OnWalletReset
  <2> QED
    BY <1>1, <2>3, <2>4, <2>5, <2>6, <2>7 DEF Next
<1>2. TypeOK /\ ResetInv /\ LifeInv /\ [Next]_vars
      => [page = "creating" /\ page' = home /\ kdf' # None => mainFile' = undo]_vars
  BY <1>1 DEF TypeOK, LifeInv
<1> QED
  BY <1>2, LifeAlways, PTL DEF Spec, CancelRestores
=============================================================================
