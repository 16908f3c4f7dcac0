----------------------------- MODULE MCWorkPlans -----------------------------
(* A small instance of WorkPlans: two plans over three states, up to two workers. *)
EXTENDS WorkPlans

CONSTANTS jalisco, yucatan, colima, a1

ThreeStates == <<jalisco, yucatan, colima>>
OneTier == <<4>>
OneRequest == {a1}

Page(count, bot, cards) == [answer |-> "ok", count |-> count, bot |-> bot, cards |-> cards]
Refused == [answer |-> "error", count |-> 0, bot |-> FALSE, cards |-> FALSE]
Broken == [answer |-> "raises", count |-> 3, bot |-> FALSE, cards |-> TRUE]

Visits(x, y, z) ==
  [s \in {jalisco, yucatan, colima} |-> CASE s = jalisco -> x [] s = yucatan -> y [] s = colima -> z]

\* An uneven portal; one that refuses the scout but for one state, whose volume asks for
\* more workers than there are states to visit; one without cards that defends itself.
SomeReports ==
  {Visits(Page(1, FALSE, TRUE), Page(2, FALSE, TRUE), Page(3, TRUE, TRUE)),
   Visits(Refused, Page(4, FALSE, TRUE), Broken),
   Visits(Page(3, TRUE, TRUE), Page(3, TRUE, FALSE), Page(2, FALSE, TRUE))}

Events == [e \in EnvEvents |-> IF e = "timeLimit" THEN 2 ELSE 1]
=============================================================================
