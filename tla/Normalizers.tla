----------------------------- MODULE Normalizers -----------------------------
(***************************************************************************)
(* The pure part of the ETL: what _normalize_listing makes of a raw row.   *)
(*                                                                         *)
(* A text is a sequence of words, an absent one is empty; case and spaces  *)
(* are left out, accents are not.  Areas, prices and counts are integers,  *)
(* 0 when absent; money is in whole pesos or dollars and a score in        *)
(* hundredths.  The catalogues are excerpts: the entries that can be taken *)
(* for one another, in the order the source has them.                      *)
(***************************************************************************)
EXTENDS Integers, Sequences, FiniteSets, FiniteSetsExt, SequencesExt

Absent == <<>>

\* Accented words, and words that contain another one.
Unaccented == ("me'rida" :> "merida") @@ ("jua'rez" :> "juarez") @@ ("tla'huac" :> "tlahuac")
Within == {<<"depa", "departamentos">>, <<"local", "locales">>, <<"nave", "naves">>}

-----------------------------------------------------------------------------
(* text.py *)

NormalizeText(text) ==
  [i \in DOMAIN text |-> IF text[i] \in DOMAIN Unaccented THEN Unaccented[text[i]] ELSE text[i]]

\* part in text.
Occurs(part, text) ==
  \E i \in 0 .. (Len(text) - Len(part)) :
     \A j \in DOMAIN part : part[j] = text[i + j] \/ <<part[j], text[i + j]>> \in Within

\* The entry whose alias is the text, else the first one whose alias occurs in it.
Lookup(table, text, default) ==
  LET exact == {i \in DOMAIN table : table[i].alias = text}
      partial == {i \in DOMAIN table : Occurs(table[i].alias, text)}
  IN CASE exact # {} -> table[Min(exact)].is
       [] exact = {} /\ partial # {} -> table[Min(partial)].is
       [] OTHER -> default

-----------------------------------------------------------------------------
(* catalogs.py *)

Alias(words, key) == [alias |-> words, is |-> <<key>>]

StateAliases ==
  <<Alias(<<"baja", "california">>, "BCN"), Alias(<<"baja", "california", "sur">>, "BCS"),
    Alias(<<"ciudad", "de", "mexico">>, "CMX"), Alias(<<"mexico">>, "MEX"),
    Alias(<<"yucatan">>, "YUC"), Alias(<<"cdmx">>, "CMX"), Alias(<<"bcs">>, "BCS")>>

CdmxAlcaldias == <<<<"benito", "jua'rez">>, <<"miguel", "hidalgo">>, <<"tla'huac">>>>

PropertyTypes == {<<"departamento">>, <<"casa">>, <<"local_comercial">>}

PropertyTypeAliases ==
  <<Alias(<<"depa">>, "departamento"), Alias(<<"casa", "en", "condominio">>, "casa_condominio"),
    Alias(<<"local">>, "local_comercial"), Alias(<<"nave">>, "nave_industrial")>>

Operations ==
  <<Alias(<<"venta">>, "venta"), Alias(<<"renta">>, "renta"), Alias(<<"vacacional">>, "vacacional"),
    Alias(<<"sale">>, "venta"), Alias(<<"rent">>, "renta"), Alias(<<"compra">>, "venta")>>

-----------------------------------------------------------------------------
(* normalizers *)

NormalizeState(said) ==
  IF said = Absent THEN Absent ELSE Lookup(StateAliases, NormalizeText(said), Absent)

\* said: the parts of an address, separated by commas, each with whether it is fit to be a
\* name; long: it has more than 80 letters.
NormalizeMunicipality(said, state) ==
  LET text == FlattenSeq([i \in DOMAIN said.parts |-> said.parts[i].text])
      found == {i \in DOMAIN CdmxAlcaldias : state = <<"CMX">> /\
                  Occurs(NormalizeText(CdmxAlcaldias[i]), NormalizeText(text))}
      names == {i \in DOMAIN said.parts : said.parts[i].name}
  IN CASE found # {} -> CdmxAlcaldias[Min(found)]
       [] found = {} /\ ~said.long -> text
       [] OTHER -> IF names = {} THEN Absent ELSE said.parts[Max(names)].text

\* What the removal of "Col." leaves of a first word: the abbreviation goes, and so does the
\* head of a name that begins like it.
ColRemoved == ("col" :> <<>>) @@ ("colinas" :> <<"inas">>)

NormalizeNeighborhood(said) ==
  IF said # Absent /\ Head(said) \in DOMAIN ColRemoved THEN ColRemoved[Head(said)] \o Tail(said)
  ELSE said

\* A type or an operation that no entry knows stays as the portal wrote it.
NormalizePropertyType(said) ==
  LET key == NormalizeText(said)
  IN CASE said = Absent -> Absent
       [] key \in PropertyTypes -> key
       [] OTHER -> Lookup(PropertyTypeAliases, key, said)

NormalizeOperation(said) ==
  LET entry == {i \in DOMAIN Operations : Operations[i].alias = NormalizeText(said)}
  IN IF entry = {} THEN said ELSE Operations[Min(entry)].is

\* Only sales and rents have bounds, in pesos; the module's docstring has an older lower one.
Plausible(price, operation) ==
  /\ operation = <<"venta">> => price \in 50000 .. 500000000
  /\ operation = <<"renta">> => price \in 500 .. 5000000

\* 17.5 pesos to the dollar.
Converted(price, currency) ==
  IF currency = "USD" THEN [mxn |-> (price * 35) \div 2, usd |-> price]
  ELSE [mxn |-> price, usd |-> (price * 2) \div 35]

NoPrice == [mxn |-> 0, usd |-> 0]

\* Mutant: the bounds are tested on the amount as the portal wrote it.
NormalizePriceEarly(price, currency, operation) ==
  IF price =< 0 \/ ~Plausible(price, operation) THEN NoPrice ELSE Converted(price, currency)

NormalizePrice(price, currency, operation) ==
  LET both == Converted(price, currency)
  IN IF price =< 0 \/ ~Plausible(both.mxn, operation) THEN NoPrice ELSE both

\* What is built, else the land.
Area(r) == IF r.construction > 0 THEN r.construction ELSE r.land

PricePerM2(mxn, r) ==
  IF Area(r) =< 0 \/ (mxn \div Area(r)) \notin 1000 .. 500000 THEN 0 ELSE mxn \div Area(r)

-----------------------------------------------------------------------------
(* validators/quality.py *)

FieldWeights ==
  [price |-> 15, property_type |-> 10, operation |-> 5, state |-> 5, municipality |-> 8,
   neighborhood |-> 7, bedrooms |-> 8, construction |-> 10, land |-> 5, latitude |-> 4,
   rest |-> 23]

\* The prepared row calls its price price_mxn and its state state_code, and has no
\* latitude: these three weights are never earned.  rest: the fields kept as they are.
CalculateCompleteness(d) ==
  LET Weight(f, filled) == IF filled THEN FieldWeights[f] ELSE 0
      Text(f) == Weight(f, d[f] # Absent)
      Count(f) == Weight(f, d[f] # 0)
  IN Text("property_type") + Text("operation") + Text("municipality") + Text("neighborhood") +
     Count("bedrooms") + Count("construction") + Count("land") + Count("rest")

\* A title of less than ten letters, all capitals, costs 5 + 3; "state" is never there.
CalculateQuality(d) ==
  LET Penalty(p, applies) == IF applies THEN p ELSE 0
  IN 100 - Penalty(20, d.operation = <<"venta">> /\ d.price_mxn < 100000)
         - Penalty(10, d.operation = <<"renta">> /\ d.price_mxn > 1000000)
         - Penalty(15, d.land > 0 /\ d.construction > 5 * d.land)
         - Penalty(10, d.price_per_m2 # 0 /\ (d.price_per_m2 < 2000 \/ d.price_per_m2 > 300000))
         - Penalty(8, d.rest = 0) - Penalty(15, TRUE) - Penalty(15, d.price_mxn = 0)

-----------------------------------------------------------------------------
(* pipeline.py: _normalize_listing *)

\* The prepared row of a raw row r; priced: it is not skipped.
NormalizeListing(r) ==
  LET state == NormalizeState(r.state)
      operation == NormalizeOperation(r.operation)
      price == NormalizePrice(r.price, r.currency, operation)
      d == [state_code |-> state, municipality |-> NormalizeMunicipality(r.municipality, state),
            neighborhood |-> NormalizeNeighborhood(r.neighborhood),
            property_type |-> NormalizePropertyType(r.property_type), operation |-> operation,
            price_mxn |-> price.mxn, price_per_m2 |-> PricePerM2(price.mxn, r),
            construction |-> r.construction, land |-> r.land, bedrooms |-> r.bedrooms,
            rest |-> r.rest, street |-> r.street, priced |-> price # NoPrice,
            completeness |-> 0, quality |-> 0]
  IN [d EXCEPT !.completeness = CalculateCompleteness(d), !.quality = CalculateQuality(d)]
=============================================================================
