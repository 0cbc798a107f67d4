------------------------------- MODULE Mirror -------------------------------
(***************************************************************************)
(* What a view model promises that follows a part of the wallet through    *)
(* its change notifications.  The wallet's part (source) changes on a      *)
(* thread of its own and every change, or an answer to a request for all   *)
(* of it, joins the pipeline of posted events.  Until the first complete   *)
(* answer arrives the view may show anything; from then on each delivered  *)
(* event brings it to exactly the content the wallet had when it posted    *)
(* that event.                                                             *)
(***************************************************************************)
EXTENDS Naturals, Sequences

CONSTANT Contents       \* what the part of the wallet can be

VARIABLES
    source,             \* the wallet's part now
    pipeline,           \* what it was when each undelivered event was posted
    shown,              \* what the view shows
    ready               \* a complete answer was delivered

mirrorVars == <<source, pipeline, shown, ready>>

Init ==
    /\ source \in Contents
    /\ pipeline = <<>>
    /\ shown \in Contents
    /\ ready = FALSE

\* The wallet changes, or posts again what it has.
Post ==
    /\ source' \in Contents
    /\ pipeline' = Append(pipeline, source')
    /\ UNCHANGED <<shown, ready>>

\* The view handles the next event.
Deliver ==
    /\ pipeline # <<>>
    /\ pipeline' = Tail(pipeline)
    /\ ready' \in BOOLEAN /\ (ready => ready')
    /\ IF ready' THEN shown' = Head(pipeline) ELSE shown' \in Contents
    /\ UNCHANGED source

Next == Post \/ Deliver

Spec == Init /\ [][Next]_mirrorVars

-----------------------------------------------------------------------------
\* A view that is ready and has nothing left to handle shows the wallet as it
\* is (what every on...Changed handler of the view models is for).
CaughtUp == ready /\ pipeline = <<>> => shown = source

\* The strengthening: the last posted content is the wallet's.
LastIsSource ==
    IF pipeline = <<>>
    THEN ready => shown = source
    ELSE pipeline[Len(pipeline)] = source
=============================================================================
