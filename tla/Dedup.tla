-------------------------------- MODULE Dedup --------------------------------
(***************************************************************************)
(* The deduplication engine.  Addresses are compared as sets of words: the *)
(* fuzzy ratio does not see their order nor a missing accent.              *)
(***************************************************************************)
EXTENDS Normalizers

\* Neither is absent and the smaller is at least 100 - tolerance per cent of the larger.
Ratio(a, b, tolerance) ==
  /\ a # 0 /\ b # 0
  /\ 100 * Min({a, b}) >= (100 - tolerance) * Max({a, b})

PriceSimilar(a, b) == Ratio(a, b, 10)

\* A missing area is no difference.
AreaSimilar(a, b) == a = 0 \/ b = 0 \/ Ratio(a, b, 15)

AddressSimilar(a, b) ==
  a # Absent /\ b # Absent /\ ToSet(NormalizeText(a)) = ToSet(NormalizeText(b))

\* The key of the groups within which listings are compared; accents count in it.
GroupKey(d) == <<d.state_code, d.municipality, d.property_type>>

\* a and b: [portal, data].
SameHome(a, b) ==
  LET x == a.data
      y == b.data
  IN /\ GroupKey(x) = GroupKey(y)
     /\ a.portal # b.portal
     /\ PriceSimilar(x.price_mxn, y.price_mxn)
     /\ AreaSimilar(Area(x), Area(y))
     /\ x.bedrooms # 0 /\ y.bedrooms # 0 => x.bedrooms = y.bedrooms
     /\ IF x.street # Absent /\ y.street # Absent THEN AddressSimilar(x.street, y.street)
        ELSE AddressSimilar(x.neighborhood, y.neighborhood)

\* Mutant: what is already in a cluster is not passed over.
FindDuplicatesAgain(batch, order) ==
  {{order[i]} \cup {order[j] : j \in {k \in DOMAIN order : k > i /\
      SameHome(batch[order[i]], batch[order[k]])}} : i \in DOMAIN order}

\* The clusters of a batch, each with the listing it was built around: in the order of
\* the batch a listing in no cluster yet takes every later one that is like it.
FindDuplicates(batch, order) ==
  LET Around(i, found) ==
        {order[i]} \cup {order[j] : j \in {k \in (i + 1) .. Len(order) :
           /\ order[k] \notin UNION found
           /\ SameHome(batch[order[i]], batch[order[k]])}}
      Take(i, found) == IF order[i] \in UNION found THEN found ELSE found \cup {Around(i, found)}
      after[i \in 0 .. Len(order)] == IF i = 0 THEN {} ELSE Take(i, after[i - 1])
  IN after[Len(order)]
==============================================================================
