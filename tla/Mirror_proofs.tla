---------------------------- MODULE Mirror_proofs ----------------------------
(***************************************************************************)
(* What follows from Mirror for everything that implements it.             *)
(***************************************************************************)
EXTENDS Mirror, TLAPS

MirrorTypes ==
    /\ source \in Contents
    /\ pipeline \in Seq(Contents)
    /\ ready \in BOOLEAN

MirrorInv == MirrorTypes /\ LastIsSource

LEMMA MirrorInitial == Init => MirrorInv
<1>1. <<>> \in Seq(Contents)
  OBVIOUS
<1> QED
  BY <1>1 DEF Init, MirrorInv, MirrorTypes, LastIsSource

LEMMA MirrorStep == MirrorInv /\ [Next]_mirrorVars => MirrorInv'
<1> SUFFICES ASSUME MirrorInv, [Next]_mirrorVars PROVE MirrorInv'
  OBVIOUS
<1> USE DEF MirrorInv, MirrorTypes, LastIsSource
<1>1. CASE Post
  <2>1. /\ pipeline' \in Seq(Contents) /\ Len(pipeline') = Len(pipeline) + 1
        /\ Len(pipeline) \in Nat /\ pipeline'[Len(pipeline) + 1] = source'
    BY <1>1 DEF Post
  <2> QED
    BY <1>1, <2>1 DEF Post
<1>2. CASE Deliver
  <2>1. /\ pipeline' \in Seq(Contents) /\ Len(pipeline') = Len(pipeline) - 1
        /\ Len(pipeline) \in Nat \ {0} /\ Head(pipeline) = pipeline[1]
        /\ \A i \in 1..Len(pipeline') : pipeline'[i] = pipeline[i + 1]
        /\ pipeline[Len(pipeline)] = source /\ source' = source
    BY <1>2 DEF Deliver
  <2>2. CASE pipeline' = <<>>
    <3>1. Len(pipeline) = 1
      BY <2>1, <2>2
    <3> QED
      BY <1>2, <2>1, <2>2, <3>1 DEF Deliver
  <2>3. CASE pipeline' # <<>>
    <3>1. Len(pipeline') \in 1..Len(pipeline') /\ Len(pipeline') + 1 = Len(pipeline)
      BY <2>1, <2>3
    <3>2. pipeline'[Len(pipeline')] = source'
      BY <2>1, <3>1
    <3>3. LastIsSource'
      BY <2>3, <3>2
    <3>4. MirrorTypes'
      BY <1>2, <2>1 DEF Deliver
    <3> QED
      BY <3>3, <3>4
  <2> QED
    BY <2>2, <2>3
<1>3. CASE UNCHANGED mirrorVars
  BY <1>3 DEF mirrorVars
<1> QED
  BY <1>1, <1>2, <1>3 DEF Next

\* A view that has received a complete answer and handled all notifications shows
\* the wallet as it is: the transaction table, the swaps under way and the ids of
\* the token check inherit it.
THEOREM MirrorCatchesUp == Spec => []CaughtUp
<1>1. MirrorInv => CaughtUp
  BY DEF MirrorInv, LastIsSource, CaughtUp
<1> QED
  BY <1>1, MirrorInitial, MirrorStep, PTL DEF Spec
=============================================================================
