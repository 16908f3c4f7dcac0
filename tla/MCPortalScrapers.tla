-------------------------- MODULE MCPortalScrapers --------------------------
(* Three listings; a page shows a card that can be neither visited nor     *)
(* priced, or that and two others, one of which lamudi does not visit.     *)
EXTENDS PortalScrapers

CONSTANTS l1, l2, l3

MCListings == {l1, l2, l3}
Whole == [id |-> l1, link |-> "detalle", priced |-> TRUE]
Bare == [id |-> l3, link |-> "none", priced |-> FALSE]
Partly == [id |-> l2, link |-> "desarrollo", priced |-> TRUE]
MCPages == {<<Bare>>, <<Whole, Partly, Bare>>}
MCKnown == {l1}
MCRotateAfter == {1}

\* A page may fail twice, which with an empty one ends a search of properstar.
MCBound == [e \in EnvEvents |-> IF e = "raise" THEN 2 ELSE 1]
=============================================================================
