---------------------------- MODULE MCEtlPipeline ----------------------------
(* A small instance of EtlPipeline: three listings of two portals. *)
EXTENDS EtlPipeline

CONSTANTS lamudi, icasas, cycle, rebuild, s1, s2, flat, usd, dearer, wild

Portals == <<lamudi, icasas, lamudi>>
Runs == {cycle, rebuild}
ByHand == {rebuild}
TwoSyncs == {s1, s2}

Address(parts, long) == [parts |-> parts, long |-> long]
Part(text, name) == [text |-> text, name |-> name]
Delegacion == Address(<<Part(<<"reforma", "84">>, FALSE), Part(<<"benito", "jua'rez">>, TRUE)>>, TRUE)

\* A flat in Mexico City, in pesos.
Flat ==
  [state |-> <<"cdmx">>, municipality |-> Delegacion, neighborhood |-> <<"col", "centro">>,
   property_type |-> <<"departamentos">>, operation |-> <<"sale">>, price |-> 1000000,
   currency |-> "MXN", construction |-> 100, land |-> 0, bedrooms |-> 2, rest |-> 1,
   street |-> <<"jua'rez", "20">>]

\* The same one as another portal has it, in dollars, and dearer by less than a tenth.
FlatUsd == [Flat EXCEPT !.price = 61000, !.currency = "USD", !.street = <<"20", "juarez">>]

\* A third price, like the second's and not like the first's.
FlatDearer == [Flat EXCEPT !.price = 1170000, !.bedrooms = 0]

\* No price a sale can have, once in pesos.
Overpriced == [FlatUsd EXCEPT !.price = 30000000, !.property_type = Absent,
                               !.neighborhood = <<"colinas", "del", "sur">>]

SomeValues == {flat, usd, dearer, wild}
Sayings == <<{flat, wild}, {usd, dearer}, {dearer, usd}>>
Rows ==
  [v \in SomeValues |->
     CASE v = flat -> Flat [] v = usd -> FlatUsd [] v = dearer -> FlatDearer [] v = wild -> Overpriced]

Events == [e \in EnvEvents |-> IF e = "sync" THEN 2 ELSE 1]
=============================================================================
