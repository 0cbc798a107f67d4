---------------------------- MODULE Notifications ----------------------------
(***************************************************************************)
(* The notifications: the page that lists them (NotificationsViewModel)    *)
(* and the manager that pops up a message of a new version                 *)
(* (PushNotificationManager), which lives as long as the main window.      *)
(* Both get every notificationsChanged, and so the manager also gets the   *)
(* complete lists the page asks for.                                       *)
(*                                                                         *)
(* A notification is new of a version later than this program, old of one  *)
(* that is not, or any other.  The wallet (external) keeps the deleted     *)
(* ones too, and marks and deletes only what it has.                       *)
(***************************************************************************)
EXTENDS ListModel, Integers

CONSTANTS
    News,           \* notifications
    Newer,          \* those of a later version of the wallet
    Older,          \* those of this version or an earlier one
    MaxNewsPosts    \* bound: notificationsChanged on their way

ASSUME NewsAssumption ==
    /\ IsFiniteSet(News)
    /\ Newer \subseteq News /\ Older \subseteq News /\ Newer \cap Older = {}
ASSUME MaxNewsPostsAssumption == MaxNewsPosts \in Nat \ {0}

VARIABLES
    state,      \* the wallet: the state of every notification
    newsAsked,  \* getNotifications() calls not answered
    marks,      \* markNotificationAsRead() calls under way
    deletes,    \* deleteNotification() calls under way
    newsPosts,  \* notificationsChanged on their way to the UI thread
    pageOpen,   \* the page exists
    newsRows,   \* m_notificationsList
    listed,     \* history: the page got a complete list
    first,      \* m_firstNotification
    newer,      \* m_hasNewerVersion
    popups      \* history: how often each was popped up, 2 for more

newsVars == <<state, newsAsked, marks, deletes, newsPosts, pageOpen, newsRows, listed,
              first, newer, popups>>
pageVars == <<pageOpen, newsRows, listed>>
pushVars == <<first, newer, popups>>

NewsStates == {"absent", "unread", "read", "deleted"}
Existing == {n \in News : state[n] # "absent"}

\* The main window is there: its manager has asked.
NewsInit ==
    /\ state \in [News -> NewsStates]
    /\ newsAsked = 1
    /\ marks = {} /\ deletes = {}
    /\ newsPosts = <<>>
    /\ pageOpen = FALSE /\ newsRows = <<>> /\ listed = FALSE
    /\ first = TRUE /\ newer = FALSE
    /\ popups = [n \in Newer |-> 0]

-----------------------------------------------------------------------------
(* The wallet, on the reactor thread *)

PostNews(action, ids, after) ==
    /\ Len(newsPosts) < MaxNewsPosts
    /\ newsPosts' = Append(newsPosts,
          [action |-> action, items |-> {[id |-> n, state |-> after[n]] : n \in ids}])

ChangeNews(n, to, action) ==
    /\ state' = [state EXCEPT ![n] = to]
    /\ PostNews(action, {n}, state')

NewNotification(n) ==
    /\ state[n] = "absent"
    /\ ChangeNews(n, "unread", "Added")
    /\ UNCHANGED <<newsAsked, marks, deletes>>

MarkNotificationAsRead(n) ==
    /\ n \in marks
    /\ marks' = marks \ {n}
    /\ IF state[n] = "unread" THEN ChangeNews(n, "read", "Updated") ELSE UNCHANGED <<state, newsPosts>>
    /\ UNCHANGED <<newsAsked, deletes>>

DeleteNotification(n) ==
    /\ n \in deletes
    /\ deletes' = deletes \ {n}
    /\ IF state[n] \in {"unread", "read"}
       THEN ChangeNews(n, "deleted", "Removed")
       ELSE UNCHANGED <<state, newsPosts>>
    /\ UNCHANGED <<newsAsked, marks>>

AnswerGetNotifications ==
    /\ newsAsked > 0
    /\ newsAsked' = newsAsked - 1
    /\ PostNews("Reset", Existing, state)
    /\ UNCHANGED <<state, marks, deletes>>

NewsWalletStep ==
    /\ \/ \E n \in News : NewNotification(n) \/ MarkNotificationAsRead(n) \/ DeleteNotification(n)
       \/ AnswerGetNotifications
    /\ UNCHANGED <<pageVars, pushVars>>

-----------------------------------------------------------------------------
(* The page *)

OpenNews ==
    /\ ~pageOpen /\ newsAsked < 2
    /\ pageOpen' = TRUE /\ newsRows' = <<>> /\ listed' = FALSE
    /\ newsAsked' = newsAsked + 1
    /\ UNCHANGED <<state, marks, deletes, newsPosts, pushVars>>

CloseNews ==
    /\ pageOpen
    /\ pageOpen' = FALSE /\ newsRows' = <<>> /\ listed' = FALSE
    /\ UNCHANGED <<state, newsAsked, marks, deletes, newsPosts, pushVars>>

ShownIds == {newsRows[i].id : i \in 1..Len(newsRows)}

\* An unread row is marked when it was in sight for a while.
MarkItemAsRead(i) ==
    /\ newsRows[i].state = "unread"
    /\ marks' = marks \cup {newsRows[i].id}
    /\ UNCHANGED <<state, newsAsked, deletes, newsPosts, pageVars, pushVars>>

RemoveNewsItem(i) ==
    /\ deletes' = deletes \cup {newsRows[i].id}
    /\ UNCHANGED <<state, newsAsked, marks, newsPosts, pageVars, pushVars>>

ClearAll ==
    /\ newsRows # <<>>
    /\ deletes' = deletes \cup ShownIds
    /\ UNCHANGED <<state, newsAsked, marks, newsPosts, pageVars, pushVars>>

\* Mutant: what is deleted is left out of every event.
ShownItems_NoDeleted(event) ==
    {item \in event.items : item.state # "deleted" /\ item.id \notin Older}

\* What the handler makes rows of: deleted ones only to take their rows away,
\* messages of versions the user has never.
ShownItems(event) ==
    {item \in event.items :
        (event.action = "Removed" \/ item.state # "deleted") /\ item.id \notin Older}

OnNotificationsDataModelChanged(event) ==
    IF pageOpen
    THEN /\ \E items \in SetToSeqs(ShownItems(event)) :
               newsRows' = CASE event.action = "Reset" -> Reset(items)
                             [] event.action = "Added" -> Insert(newsRows, items)
                             [] event.action = "Removed" -> RemoveItems(newsRows, items)
                             [] event.action = "Updated" -> Update(newsRows, items)
         /\ listed' = (listed \/ event.action = "Reset")
         /\ UNCHANGED pageOpen
    ELSE UNCHANGED pageVars

-----------------------------------------------------------------------------
(* The manager *)

NewVersions(event) == {item \in event.items : item.id \in Newer}
Popups(event) == {item.id : item \in {i \in NewVersions(event) : i.state = "unread"}}

\* Mutant: m_firstNotification stays.
OnNotificationsChanged_FirstStays(event) ==
    IF (first /\ event.action = "Reset") \/ event.action = "Added"
    THEN /\ newer' = (newer \/ NewVersions(event) # {})
         /\ popups' = [n \in Newer |->
               IF n \in Popups(event) /\ popups[n] < 2 THEN popups[n] + 1 ELSE popups[n]]
         /\ UNCHANGED first
    ELSE UNCHANGED pushVars

\* Only the first complete list counts, and only when nothing was added before.
OnNotificationsChanged(event) ==
    IF (first /\ event.action = "Reset") \/ event.action = "Added"
    THEN /\ first' = FALSE
         /\ newer' = (newer \/ NewVersions(event) # {})
         /\ popups' = [n \in Newer |->
               IF n \in Popups(event) /\ popups[n] < 2 THEN popups[n] + 1 ELSE popups[n]]
    ELSE UNCHANGED pushVars

OnCancelPopup(n) ==
    /\ popups[n] > 0
    /\ marks' = marks \cup {n}
    /\ UNCHANGED <<state, newsAsked, deletes, newsPosts, pageVars, pushVars>>

TakeNews ==
    /\ newsPosts # <<>>
    /\ newsPosts' = Tail(newsPosts)
    /\ OnNotificationsDataModelChanged(Head(newsPosts))
    /\ OnNotificationsChanged(Head(newsPosts))
    /\ UNCHANGED <<state, newsAsked, marks, deletes>>

NewsNext ==
    \/ NewsWalletStep
    \/ OpenNews
    \/ CloseNews
    \/ \E i \in 1..Len(newsRows) : MarkItemAsRead(i) \/ RemoveNewsItem(i)
    \/ ClearAll
    \/ \E n \in Newer : OnCancelPopup(n)
    \/ TakeNews

NewsSpec == NewsInit /\ [][NewsNext]_newsVars

-----------------------------------------------------------------------------
\* Once the page got a complete list and everything was delivered it has one
\* row for every notification the wallet has and has not deleted, in the state
\* it has there, and none of a version the user has: also when rows are
\* deleted, marked and cleared while a complete list is on its way
\* (notifications_view.cpp:37-52, 80-151).
NewsFollow ==
    listed /\ newsPosts = <<>> =>
        /\ {newsRows[i] : i \in 1..Len(newsRows)} =
              {[id |-> n, state |-> state[n]] :
                  n \in {m \in News \ Older : state[m] \in {"unread", "read"}}}
        /\ Cardinality(ShownIds) = Len(newsRows)

\* The user is told of a version at most once while the main window is there,
\* although every opening of the page brings the manager another complete list
\* with the message still unread (push_notification_manager.cpp:69-96).
PopupOnce == \A n \in Newer : popups[n] < 2
=============================================================================
