# TLA+ models of the wallet UI

The program under `src/ui` is the desktop wallet: a Qt application in C++ with a
QML front end. The wallet, the node and the swap clients are libraries
(`3rdparty` and the `hds` submodule); this directory models the application and
treats the libraries as the threads that call into it.

## The system

Three kinds of threads run in the process.

* The **UI thread** runs the Qt event loop. All view models and most of
  `AppModel` run there, one handler at a time.
* The **reactor thread** of `WalletClient` (base class of `WalletModel`) owns the
  wallet. View models call it through `getAsync()`, which posts a command, and it
  answers by emitting signals that Qt posts to the UI thread.
* The **node thread** of `NodeClient` builds, runs and destroys the integrated
  node and reports to `NodeModel`, whose signals are posted to the UI thread.
  One slot runs on the node thread itself: the lambda `AppModel::resetWallet`
  connects to `destroyedNode`.

So nearly everything is a request that is answered later by an event, on a list
of listeners, in posting order. What is hard in this code follows from that: an
answer finds a page or an `AppModel` that has moved on, an answer is taken by a
listener that did not ask, an event comes before the complete list it belongs to,
a connection is made twice, a crash falls between two file operations.

### Components

| Component | State | Operations | Hard because | Correct when |
|---|---|---|---|---|
| `AppModel` | open database, wallet, path of the database moved aside, connections | create, open, start, reset, apply settings, node events | reset waits for the node thread; files move in several steps | no wallet is lost, an event never finds its wallet gone |
| `NodeModel`, `NodeClient` | phase of the node, keys, pending start | start, stop, setKdf | own thread | the node scans with the keys of the open wallet |
| Loading page | progress, dialog, Cancel | update progress, error, reset | completes while a reset is on its way | main page only over a wallet |
| Start wizard, lock screen | page stack | create, open, unlock, change port | lock screen leads to the wizard with a wallet open | one wallet at a time |
| Main window | page, lock timer | lock, unlock | | |
| `ListModel` | sequence of rows | insert, reset, remove, update | update and insert assume what came before | one row for each item |
| Wallet page | table of transactions, CSV requests | `onTransactionsChanged`, export, delete | Reset among single events | table follows the wallet |
| Swap page | table of swaps, map, counters, offers | `onTransactionsDataModelChanged`, `onSwapOffersDataModelChanged` | same fact kept four times | all four agree and follow the wallet |
| Address book | own addresses, expired, contacts, busy addresses | `onAddresses`, `onTransactions`, delete, timer | entries of one address are not told apart | address in use is not deleted |
| Swap token check | known ids, tokens in progress | check, `onTransactionsChanged` | verdict at the next event whatever it is | verdict is right and comes |
| `WalletModel` | own ids, labels, status | setters, `onAddressesChanged` | written on the reactor thread, read on the UI thread | lookups match the wallet |
| Swap coin clients | balance, status, connection | timers, setters | results of another thread | the offers that fit are those for the balances shown |
| Settings page | node address, verdict on it | edit, apply, undo, check address | the verdict arrives for an address that was left | the verdict is that of the address shown |
| Send, swap acceptance | amount, fee, change | set, `onChangeCalculated`, send | answers carry no request | change belongs to amount and fee |
| Receive, swap creation | address, token | `onGeneratedNewAddress`, update | answers are broadcast | an address is used by one page |
| UTXO page | a `ListModel` | change handler | as wallet page | follows the wallet |
| Notifications | a `ListModel`; first list seen | change handlers, read, remove, clear | both listeners get lists one of them asked for | follow the wallet, tell of a version once |
| Exchange rates | rates, unit | set unit, rates changed | a manager for each page | |
| Status bar | connection, sync, errors | handlers | merges two sources | |
| Payment proofs, messages, helpers, themes, translation | | | | |

### How they interact

`StartViewModel` and `LoadingViewModel` call `AppModel`; `AppModel` owns
`WalletModel`, `NodeModel` and the swap coin clients. All view models of the main
page are connected to `WalletModel::transactionsChanged`, `addressesChanged`,
`availableChanged` and so on: one notification runs a handler in each, and an
answer to `getTransactions()` of one is a Reset for all. `SettingsViewModel` and
the loading page change node settings through `AppModel`, which restarts the node.

## The modules

| Module | Models | Kind |
|---|---|---|
| `AppLifecycle` | `AppModel`, loading page, wizard, lock screen, files; the node thread | component, with its environment |
| `AppLifecycle_proofs` | | theorems |
| `TxFeed` | the wallet's transactions and their notifications (external) | environment of the views |
| `TxFeed_proofs`, `TxViews_proofs`, `SendPages_proofs`, `AddressPages_proofs`, `SidePages_proofs`, `Mirror_proofs` | | theorems |
| `DataFacts` | | lemmas about sums, folds and the lists of `ListModel` |
| `Mirror` | what a view that follows the wallet promises | abstract specification |
| `ListModel` | `list_model.h` | operators on sequences |
| `TransactionList` | table of the wallet page | component on `TxFeed` |
| `ActiveSwaps` | swaps under way of the swap page | component on `TxFeed` |
| `BusyAddresses` | busy addresses of the address book | component on `TxFeed` |
| `TxViews` | the three views on one stream | composition |
| `TokenBootstrap` | `TokenBootstrapManager` | component on `TxFeed` |
| `WalletMoney` | the wallet's coins, `calcChange`, `startTransaction` (external); `setStatus` | environment of the send pages |
| `SendPage` | `SendViewModel`, `send_regular.qml` | component on `WalletMoney` |
| `SendSwapPage` | `SendSwapViewModel`, `send_swap.qml` | component on `WalletMoney` |
| `SendPages` | both pages, one open at a time | composition |
| `OwnAddresses` | the wallet's addresses (external); ids, labels and signals of `WalletModel` | environment of the address pages |
| `AddressBook` | the tables of `AddressBookViewModel` | component on `OwnAddresses` |
| `ReceivePage` | `ReceiveViewModel`, `receive_regular.qml` | component on `OwnAddresses` |
| `AddressPages` | both pages, one open at a time | composition |
| `SwapOffers` | the tables of offers of `SwapOffersViewModel`; balance and status of the coin clients | component, with its environment |
| `NodeSettings` | the node part of `SettingsViewModel`, `settings.qml` | component, with its environment |
| `Notifications` | `NotificationsViewModel`, `PushNotificationManager` | component, with its environment |
| `SidePages` | the last three and `TokenBootstrap`, one followed at a time | union, for TLC |
| `MC...` | small instances for TLC | |

Operators named `X_Something` are versions of `X` with a plausible bug; they are
used to see that the properties notice it, by no specification.

### AppLifecycle

A wallet is identified with its database, a member of `Wallets`. Files are
`mainFile` (the database at `getWalletStorage()`) and `backups` (databases renamed
to `<path>_<timestamp>`); both survive a crash. `db`, `wallet`, `backupPath`,
`nsc`, `resetConns` are `m_db`, `m_wallet`, `m_walletDBBackupPath`, the number of
connections in `m_nsc`, and the number of `walletReset` connections made by
`start()`. `node`, `kdf`, `nodeKey`, `startRequested`, `destroyHooks` describe
`NodeClient`; `events` holds what was posted to `AppModel`. `page`, `dialog`,
`cancelEnabled`, `resets` describe what the user can click next. `kept` is history:
the wallets the user had, opened or finished creating.

One UI handler with everything it calls is one action: `CreateWallet` is
`createWallet()` with `backupDB()`, `WalletDB::init` and `start()`; `ResetNow` and
`OnWalletReset` run `onResetWallet()` with `restoreDBFromBackup()`. Crashes between
the file operations of a handler have actions of their own (`CrashInCreate`,
`CrashInReset`). A failed `assert` stops the program: `fault` holds the handler and
only `Restart` remains.

What the UI lets the user do and `AppModel` was not written for is collected in
`AllRaces`, and `Races` says which of it can happen:

* `cancelAgain`: the loading page calls `resetWallet()` twice, from the error
  dialog and from the Cancel button;
* `cancelDuringInit`: Cancel while the node is being built, when
  `isNodeRunning()` is still false;
* `createWhenLocked`: "create a new wallet" on the lock screen, with the locked
  wallet still open;
* `syncDuringReset`: sync progress completes the loading page between Cancel and
  the reset;
* `restoreFails`: the rename in `restoreDBFromBackup()` fails, whose result nobody
  looks at.

Assumptions about what is outside: `isNodeRunning()` holds from `startedNode` to
`stoppedNode` (the settings page is written on that reading); `NodeClient` takes a
requested start once, and the keys when it builds the node; each connection gets
its own posted copy of a signal and disconnecting does not withdraw copies posted
before; removing a file succeeds (the rename back may fail, see `restoreFails`);
`WalletDB::init` fails on an existing file when the rename in `backupDB()` failed.
The order of a wallet error relative to other events is not kept (`errorPosted` is
a flag). Left out: swap clients, hardware wallets, changing the password, removal
of the node's storage.

### TxFeed and its views

`txs` is the status of every transaction in the wallet, `queue` the notifications
posted to the UI thread: action, ids, and the wallet's content when it was posted.
`seen` and `ready` are history: the content the last delivered notification carried,
and whether a Reset was delivered.
The wallet's side of `TxFeed` is external, modelled from what the handlers rely on:
single notifications for changes and a Reset with everything as the answer to
`getTransactions()`. Statuses are grouped as the views tell them apart: active is
InProgress or Registering, ended is Completed, Canceled or Failed. A notification
may repeat the status, since other parameters change too; `EndedRepeats` says
whether that goes on after the end. A rollback of the chain that revives an ended
transaction is not modelled. A Reset may come at any time, as other views ask too.

`TransactionList.OnTransactionsChanged`, `ActiveSwaps.OnTransactionsDataModelChanged`,
`BusyAddresses.OnTransactions` and `TokenBootstrap.OnTransactionsChanged` are the
four slots. The order of the items within one notification is free in
`TransactionList`. `ActiveSwaps` keeps its table as a function from swap to
status, because the order of its rows matters to nothing it decides;
`TransactionList` has the sequence. `BusyAddresses.busy` is a bag, because equal
entries of the vector are not told apart. `TxViews` runs the three slots in one
step, as Qt does for slots of one receiver thread. In `TokenBootstrap` whether the
peer of a token is an own address is a free choice: that map is written on the
reactor thread, with no lock.

`Mirror` is the promise behind all of them: until a Reset was delivered a view may
show anything, from then on each event brings it to what the wallet had when it
posted that event. The views implement it, with what they show (rows and status,
active swaps, known ids) as the refinement mapping.

### The send pages

`coins` are the wallet's coins, each with its value; `available` is the balance
of `m_status`. A page asks with `calcChange(amount + fee)` and takes every
`changeCalculated`, whoever asked: `requests` and `posted` are the two queues in
between, and they outlive the page. The change is that of the least coins that
cover the total, 0 when none do; the library is not part of the repository, and
the properties use that a total that is covered leaves a change that is covered too.

QML evaluates a binding on `canSend` when `canSendChanged` is emitted: `sendEnabled`
and `swapEnabled` are what it saw last, which is why every operation of a page ends in
`CanSendChanged` or does not. `confirm` is what the confirmation dialog shows; events
go on behind it. A late verdict on a swap token replaces whatever page is open
(`OpenSwap`), with its dialog.

`receiver` is the text in the field, `peer` the PeerID in `_txParameters` and
`shownPeer` the address the dialog shows. The three are apart because
`extractParameters` replaces the parameters whenever the text parses, and the address
only when they have a PeerID, which a token need not have. `ParamsOf` is what
`ParseParameters` makes of a text: nothing, or a peer, an amount and a fee, each of
which may be missing; the fee is cut to an unsigned int (`FeeRange`). `sendMoney`
reads the PeerID without a look whether there is one: `ReadPeer` is then any id.

`canSend` reads things of which no signal tells the page: on the send page the balance
and the least fee (`Fork1` raises it), on the swap page the least fee, the balance
in the other coin (`CoinMoves`) and the clock (`Expire`). They are variables that
change whenever they like. `evaluatedAt` and `swapSeen` are history, what these were
when the button was evaluated last; `calcCoins` is history too. `ButtonIsCurrent` and
`SwapButtonCatchesUp` say what the signals are good for: while nothing silent has
changed, the button is `canSend`, whatever was edited and answered.

Left out: comments, notices about newer versions, the password in the dialog, what a
transaction says besides peer, amount and fee (`OriginalToken`, the identity). The fee
of the receiving side is kept nowhere here, only that it re-evaluates the button.

### The address pages

`own` is what the wallet has; `ids` and `labels` are `m_myWalletIds` and
`m_myAddrLabels`. `OnAddressesChanged` is a step of the reactor thread: it posts the
signal and changes the sets at once, while `SetAddresses` replaces them when a
complete list, taken earlier, reaches the UI thread. A reader of the two sets may
see them wrong as long as a list is on its way; the address book asks for a new list
after every change, and so ends it, which is why `OwnIdsCatchUp` speaks of the time
the book is open. With the book closed nothing asks: then a label that two
addresses had stays forgotten, and an update leaves the former label behind.
The two threads change `std::set`s without a lock; the model takes each
change as one step and does not say what a data race does to a set.

`given` are the ids the wallet has generated; it never generates one twice.
`ReceivePage` keeps the address it shows (`receiver`), the comment and whether Copy is
enabled; `handed` is history, what the user copied. The page saves what it has when
it is closed, an address that was never generated included: that one has a zero id
and becomes a contact (`ZeroId`). `BookOnSignal`, `OnGeneratedNewAddress` and
`SetAddresses` run in one step, as slots of one signal. Left out: category and
identity, sorting of expired addresses and contacts (sets of rows here), the
token, amount, QR code and expiry on the receive page.

### The side pages

`SwapOffers`: `allOffers` and `fitOffers` are rows of ids; `terms` is what an offer
asks for, fixed at first. The balances are those the program has stored, and a signal
that changes one refills `fitOffers` in the same step, which `connect` between signals
of one thread does. Expiry is left out.

`NodeSettings`: `needCheck`, `needApply`, `valid` are `m_isNeedToCheckAddress`,
`m_isNeedToApplyChanges`, `m_isValidNodeAddress`. `checks` holds addresses whose check
is under way; it outlives the page, the rest is made anew by `OpenSettings`.
`m_localNodeRun` is not initialized when the constructor compares it: `garbage` is a
choice. The remote port is kept with the other fields as `otherChanged`, since the
check is of the name only.

`Notifications`: the page and the manager of the main window get the same events.
`first` is `m_firstNotification`. The wallet keeps deleted notifications and lists them.

`SidePages` puts these and `TokenBootstrap` into one specification. They share
nothing, and `part` picks the one that moves; it is there so that one instance of TLC
covers four components, and says nothing about interaction.

## The runs

| Run | Question | Bounds |
|---|---|---|
| `lifecycle` | are wallets safe, assertions true, keys right, pages over a wallet, does Cancel restore, does an opened wallet start or fail visibly and does a cancel end, without races | 3 wallets, no symmetry, 2 posted events, 2 connections |
| `lifecycle_races` | what holds even with every race | 2 wallets, 1 posted event before a post |
| `cancel_during_init` | finding: `startedNode` without a wallet | 2 wallets, one race |
| `second_reset` | finding: the second reset removes the restored wallet | 2 wallets, one race |
| `tx_views` | do the three views agree with the wallet and with themselves | 4 transactions (2 swaps of one coin, 2 simple; 3 share an address), 2 waiting notifications |
| `busy_shared` | finding: a shared address is freed | as `tx_views`, smaller |
| `send_pages` | do change, button and payment belong to what the page shows | 3 sets of coins (none, and two of the same value), 4 texts (two addresses, a token without a peer, one that does not parse; the addresses symmetric), 2 least fees, 2 offers, 2 balances in the other coin, 2 requests and 2 events waiting |
| `send_assert` | finding: sending while `canSend()` is false | as `send_pages` |
| `addresses` | do known ids, tables and new addresses follow the wallet | 2 addresses (symmetric), 1 label, 1 tick of the clock, 2 signals waiting, 1 change |
| `address_timer` | finding: the wrong row moves to the expired addresses | as `addresses` |
| `apply_lost` | finding: an Apply that waits for a check is forgotten | as `side_pages`, smaller |
| `side_pages` | are verdicts on tokens right and do they come; do the offers that fit, the verdict on the node and the notifications follow | 2 transactions; 2 offers of one coin, balances 0 and 1; 3 texts, 2 checks; 3 notifications, one of each kind; 2 events waiting |

Three wallets are the one the user had, the one being created, and another
created after that one was cancelled; more only repeat this. Two connections are
enough for the doubling that the findings are about, and no run without races
ever makes two `walletReset` connections (`OneConnection`). Two waiting
notifications are a Reset and an event before or behind it; every view is a
function of one event and its own state, so longer queues bring no new kind of
step. Two swaps of one coin are the least for a counter above one, an address with three
users and one with one user cover both kinds of entries.

Two sets of coins of the same value are the case in which coins change and nothing
is calculated again. Two requests are the one a page that was closed left behind and
one of the page that is open, or the two of a token. Two addresses and a token without a
peer are what can follow one another in the field with different things left behind; the
token's fee is above `FeeRange`, and coins of 3 pay for an amount of 2 with one least
fee and not with the other.

Two addresses are the one that was there and a new one, or two rows of which the
first expires; the theorems about them hold for any number and any bound. An offer
that costs 1 with a balance of 0 or 1 fits or does not; the two offers can differ in all
their terms. Three texts for a node are none, the saved one and another; two checks
are the two of an address that was changed and changed back.

Deadlock is checked in all runs: the process can always be restarted, and the
wallet can always change or answer.

### Fairness

`lifecycle` (`FairSpec`) assumes that the node thread goes on (a build ends in success or
failure, a stop ends) and that the event loop delivers what `AppModel` was posted.
Both are threads that wait for nothing of the user's. Nothing is assumed of the
user, of progress or of errors. `side_pages` (`SideFairness`) assumes for the
token check that the reactor answers a request that was made and that the event
loop delivers.

### Findings

* `cancel_during_init`: `resetWallet()` looks at `isNodeRunning()`, which is false
  while the node is being built. The wallet goes at once, `startedNode` stays
  connected and arrives at `assert(m_wallet)`.
* `second_reset`: of two `resetWallet()` calls from one loading page, the second
  `walletReset` may be delivered after the earlier wallet was restored and opened,
  and removes its file, which has no copy.
* `busy_shared`: deleting a finished transaction removes an entry of its address
  although its own went when it ended; another transaction under way on that
  address is no longer protected.
* `send_assert`: the send page passes `availableChanged` on without
  `canSendChanged`. A balance that falls leaves the button enabled and the dialog
  open, and `sendMoney` meets `assert(canSend())`; in a release build the dialog
  closes and nothing is sent.
* `apply_lost`: `onAddressChecked` runs an Apply that waits only inside the test that the
  verdict changed. Apply needs a good verdict to be enabled, so the good answer it
  waits for changes nothing: the settings are not applied and the wait stays.
* `address_timer`: `timerEvent` treats what `std::remove_if` leaves at the end as the
  removed rows. When an address expires that is not in the last row, the last row,
  still valid, is put into the expired table and the expired one is in none,
  until the next complete list. The active table keeps every valid address
  (`BookFollows`).

Observed while modelling, with no run of their own:

* `start()` connects `walletReset` and only `onResetWallet` disconnects it. Creating
  from the lock screen (`createWhenLocked`) connects it twice, one cancel posts two
  resets, and the second finds no wallet (`assert(m_wallet)`, `app_model.cpp:223`).
* `ListModel::update` puts an item without a row before the last row, where its
  comment (`list_model.h:106`) says the last position.
* Between the timer and the answer the Apply button of the node settings works, with an
  address nobody has checked yet.
* A token without a PeerID (`qml_globals.cpp:146-152` asks only for a type) typed over
  another receiver leaves the earlier address in the confirmation dialog
  (`send_view.cpp:236-243`), and `sendMoney` reads a PeerID that is not there
  (line 208). `SentAsConfirmed` says of this token only that amount and fee are those
  confirmed, and of receivers that name a peer everything.
* The button of the swap page stays enabled when the offer expires, when the balance in
  the other coin falls and when the least fee rises: no `canSendChanged` is emitted
  (`send_swap_view.cpp:354-373, 415`; the timer of `send_swap.qml` only colours a label),
  and unlike `SendViewModel::sendMoney` the one of this page checks nothing. On the
  send page the least fee is as silent; there `canSend()` is asked again.
* When the rename in `restoreDBFromBackup` fails (`app_model.cpp:112-113`), the wallet
  keeps only its timestamped name and `m_walletDBBackupPath` is cleared: it is on the
  disk, and nothing of the program leads to it. `KeptWalletsOnDisk` counts it as kept.
* The amount of HDS of an offer is compared with the available balance also when
  the user is to receive it (`swap_offers_view.cpp:430-433`).
* If an Added comes before the manager's first Reset, the Reset is ignored, and unread
  versions in it are not popped up (`push_notification_manager.cpp:71-94`).
  `m_hasNewerVersion` is also set by deleted messages.
* `setRateUnit` of `ExchangeRatesManager` reacts to a change of the unit, but the pages
  that own a manager are not loaded while the settings page changes it.

## The proofs

`AppLifecycle_proofs` proves, for every set of wallets and every bound:

* `TypeCorrect`: the type invariant, under all races. It is inductive; the proof
  has a lemma for the flags and one for the rest, a step for each action, and
  `PostType` for the queue.
* `OpenDatabaseIsMainFile`: the open database is the main file, under all races.
  Inductive as it stands: every handler closes `m_db` before it touches the file.
* `KeptWalletsSafe`: with `Races = {}` no kept wallet leaves the disk.
  `KeptWalletsOnDisk` is not inductive: a posted reset could remove anything. The
  invariant is `ResetInv`: there is one connection while there is a wallet, at
  most one reset is posted or hooked, it belongs to the creating page that asked
  for it, and what that page runs is not kept. The part about the queue needs
  positions (`ResetsUnique`) and lemmas on what taking and posting do to it.

* `ResetsInOrder`, `AssertionsAlwaysHold`, `NodeAlwaysServesOpenWallet`,
  `MainScreenAlwaysHasWallet` and `CancelAlwaysRestores`, with `Races = {}`: the other
  invariants of `lifecycle` and its action property. The invariant is `LifeInv`. A page
  may be replaced by a reset while the start of its node is still on its way, so the
  assertions need the order of the queue: a `startedNode` comes before any reset
  (`StartedBeforeReset`), and it was posted only for a wallet that is still there
  (`StartedPosted`). A page without a wallet has no node (`StartPageHasNoNode`), the node
  of a creating page is in a phase that page put it in (`NodeOfCreating`), and the copy a
  cancel puts back is the database moved aside for this creation (`UndoIsBackup`).

The findings show that `Races = {}` cannot be dropped.

`TxFeed_proofs` shows for the stream of notifications what the views rely on
(`FeedInOrder`): each notification was true of the wallet's content it carries, the
contents follow from one another in the order of the queue, and the last one is the
wallet's. So an Added never repeats an id that the view was told of. The proofs
about the views build on it:

* `TxViews_proofs`, for any finite set of swaps (`SwapConstants`):
  `CountersAlwaysMatch`, `IndicatorsAlwaysAgree`, `ActiveSwapsAsSeen` and
  `TableAlwaysAsSeen`. The invariant is `SwapInv`: order of the feed, types,
  the table agrees with the map (`RowsAgree`), the counters with the map, the map
  and the table with the last event. A Reset without swaps leaves everything as it is, which is
  right only because the map already is what the last event said and single
  events before told the view to erase. `SwapPageAmongViews`: the composition
  implements the swap page's own specification, so all of this holds among the
  other views. For any finite set of transactions (`AddressConstants`) also
  `BusyAlwaysHasCause` and `SoleUserIsAlwaysBusy`, of the busy addresses: what an event
  pushes was not under way before it, what it erases is at least what ended with it
  (`UnderWayAfter`). A repeated update of an ended transaction erases too much, so a
  lower bound holds only of an address with one user; `busy_shared` has the
  counterexample with two. Of the table of the wallet page: `RowsNeverDouble`,
  `TableMirrorsTransactions`, `RowsAlwaysKeepOrder` and, of all three views,
  `ViewsTypeCorrect`. The invariant is `ListInv`: the rows are typed, no two have one
  id, and they are those of the last event the table was told of.
* `SendPages_proofs`: `SendPagesTypeCorrect`, `ChangeAlwaysOfTotal`, `ButtonAlwaysCurrent`,
  `SwapButtonAlwaysCatchesUp`, `SwapEnoughAlwaysExact`, `SentAlwaysAsConfirmed`.
  The invariant is `PagesInv` with the facts of `WalletMoney` and of the two pages it
  joins. Answers carry no request, so what a page shows can only be described with the
  requests and answers on their way: the last question under way is about what the page
  shows, and each answer is right for its question. Nothing of this follows without
  the wallet's own facts: `calcChange` takes coins of at least the amount, and the
  coins it takes are there. That takes sums over sets of coins of any size
  (`DataFacts`). A page that was left has its first values (`ClosedIsReset`), which the
  proof showed to be needed: both pages are made anew. The buttons are `canSend` of what
  they were evaluated with (`ButtonOfEvaluation`, `SwapButtonOfEvaluation`), from which
  the two theorems about them follow as long as that is what there is now. A receiver
  that names a peer is the one in the parameters and the one shown
  (`PeerIsOfReceiver`), whatever was in the field before; of other receivers
  `SentAlwaysAsConfirmed` says only amount and fee.
* `SidePages_proofs`, swap tokens: `VerdictsAreRight`, `NoTokenIsStranded` and
  `ManagerMirrorsIds`, with `IdsKnown`: the known ids are among those reported, and
  all of them after a Reset. Node settings: `VerdictIsAlwaysOfShown`, with
  `LastCheckIsOfShown` (the last check under way is of the address shown, unless one is
  due). Notifications:
  `PageFollowsNews` and `VersionPopsUpOnce`. An event carries only what it is about, so the
  invariant `NewsInv` says that there is a history `h` of the wallet's notifications,
  one entry for each event on its way: `h[0]` is what the UI thread knows, the last
  entry what the wallet has, and each event turns one entry into the next (`Tells`).
  Offers: `OffersAlwaysFit`, with the same kind of history for the wallet's offers
  (`Recalls`); the rows of the second table are at all times those of the first that fit
  (`TablesAgree`), and a signal that adds an offer adds one the first table has not.
  `SidePagesCorrect` joins them for `SideSpec`, the specification of the run, which
  implements the specification of each of the four parts.
* `AddressPages_proofs`: `OwnIdsAlwaysCatchUp` and `ShownAddressIsAlwaysNew`. The
  invariant is `PagesInv`. For the first: while something is on its way the sets
  may be wrong, so it is stated of what they will become: the last complete list in
  `posted` is the wallet's unless a change comes after it (`LastListIsCurrent`), and
  with no list or change waiting and none asked for the sets are right already
  (`IdsInv`). For the second: each id announced and not shown yet is used nowhere and
  announced once (`AnnouncedAreNew`). `BookAlwaysFollows` and `AddressPagesTypeCorrect`,
  with `TablesInv`: the same for the list of contacts, no active row is there twice, and
  with nothing on its way the tables are right (`ActiveIsCurrent`,
  `ContactsAreCurrent`). Time only takes valid addresses away, and the timer only
  takes rows that are not valid. TLC was shown these invariants first.
* `Mirror_proofs`: `MirrorCatchesUp`, what the promise is good for: once a Reset was
  delivered and nothing is on its way, the view shows what the wallet has.

`OnlyOpenWalletIsRemoved`, the action property of `lifecycle_races`, follows from
`OpenDbIsMainFile`, under all races.

`DataFacts` has what the tables need, for lists of any length. Each operation of
`ListModel` is described by its rows (`RowsIn`), by whether ids stay different
(`OneEach`, `NoRowTwice`) and by the order of the rows that stay (`KeepsOrder`). Two
obstacles had to be gone around. The induction rules of the library take an operator;
here induction is over a set of numbers (`SetInduction`), from the least element that the
well-foundedness of `<` gives. And a fold of the community modules is a `CHOOSE` of a
recursive function: `FoldExists` shows that such a function exists for any step, and
`RemovesSteps`, `UpdatesSteps` and `KeptSteps` turn a fold over a list into a sequence of
steps, over which the induction runs.

Finiteness is assumed where the program has finite data and a table must have an
order: of the transactions, `News`, `Offers`, `Addresses` and `Labels`.

Every safety invariant and action property of the passing runs is proved. Only
model-checked: the liveness properties (`OpenedWalletStarts`, `CancelCompletes`,
`EveryTokenAnswered`), which are out of the prover's reach. The model avoids
`SelectSeq`, of which the prover knows nothing: rows that are kept are `Kept`, a fold.

## The order of the work

1. `AppLifecycle`, then the four views of the transactions on `TxFeed`: done.
2. The other lists: own addresses and labels with the address book, the offers of the
   swap page, notifications: done.
3. Request and answer without correlation: send and swap acceptance (change),
   receive (addresses), checked node address: done. Left: swap creation, which combines what
   the receive and the swap acceptance page do.
4. Theorems: every safety invariant and action property of the passing runs is
   proved. Left: what the two send pages promise together with the wallet as one abstract
   specification, and the life cycle's invariants with single races allowed.

## Not modelled

* Formatting, translation, themes, QR codes and other platform calls; the Qt proxy
  model; program start; cryptography and the libraries behind `getAsync()`. The files
  under `i18n` (`*.ts` of Qt Linguist) are tables of translated text without logic.
* The swap creation page (above) and the UTXO page, whose handler is that of the
  wallet page without the filter (`TransactionList` with `Simple = TxIDs`).
* Exchange rates: a manager holds a copy of what the wallet sends for the unit it was
  made with; see the observations.
* Status bar: copies connection, progress and errors one by one; the code states
  nothing about how they fit together.
* Payment proofs: one request and one answer, of an item made for one transaction.
* Messages: a list of texts with timers.
* In the parts modelled partly: hardware wallets, the password and its change, recovery
  phrases, migration of an old database, the lock timer apart from locking, the export
  to CSV, the times offers in the tables expire, the settings of the swap coins.
