---------------------------- MODULE MCSendPages ----------------------------
(* Small instances of SendPages. *)
EXTENDS SendPages, TLC

CONSTANTS first, second, nameless, unparsed, p1, p2

\* Two addresses are their peers, one token names no peer but an amount and a fee
\* that does not fit, and one text is not parsed.
Parameters ==
    (first :> {[peer |-> p1, amount |-> 0, fee |-> {}]})
    @@ (second :> {[peer |-> p2, amount |-> 0, fee |-> {}]})
    @@ (nameless :> {[peer |-> Nobody, amount |-> 2, fee |-> {6}]})
    @@ (unparsed :> {})

\* The two addresses change places, with their peers: nothing tells them apart.
Symmetry == {(first :> second) @@ (second :> first) @@ (p1 :> p2) @@ (p2 :> p1)}

SomeOffers == [payHds : BOOLEAN, amount : {1}]
=============================================================================
