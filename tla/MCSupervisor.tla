----------------------------- MODULE MCSupervisor -----------------------------
(* A small instance of Supervisor: two diagnoses that may overlap, two fields. *)
EXTENDS Supervisor

CONSTANTS d1, d2, q1, price, bedrooms

TwoDiags == {d1, d2}
OneRequest == {q1}
TwoFields == {price, bedrooms}

\* Confidences 0 to 2; the thresholds may be moved so that what was queued is applied,
\* and the supervisor disabled.
Default == [enabled |-> TRUE, cap |-> 1, auto |-> 2, review |-> 1]
OtherConfigs == {[Default EXCEPT !.auto = 1], [Default EXCEPT !.enabled = FALSE]}

Suggest(field, confidence, selector) ==
  [field |-> field, confidence |-> confidence, selector |-> selector]

\* Nothing; one certain repair; two of different certainty; one without a selector.
SomeLists ==
  {<<>>,
   <<Suggest(price, 2, TRUE)>>,
   <<Suggest(bedrooms, 2, TRUE), Suggest(price, 1, TRUE)>>,
   <<Suggest(bedrooms, 2, FALSE), Suggest(price, 0, TRUE)>>}

Events == [e \in EnvEvents |-> IF e = "error" THEN 2 ELSE 1]
=============================================================================
