----------------------------- MODULE PortalPages -----------------------------
(***************************************************************************)
(* What the scraper of each portal makes of one answer of its portal: is   *)
(* it blocked, is the page empty, which cards become items, which of them  *)
(* are visited; and whether its bytes count toward the budget.             *)
(*                                                                         *)
(* A card is its listing and what decides about it: the link to the detail *)
(* page and whether its price can be used.  The other fields are copied.   *)
(***************************************************************************)
EXTENDS Integers, Sequences, FiniteSets

CONSTANTS
  Listings,   \* the listings of the portals
  StopKnown,  \* threshold of should_stop: 10
  MinKnown    \* known listings the 80% rule asks for: 5

ASSUME StopAssumption == StopKnown \in Nat /\ MinKnown \in Nat

Link == {"detalle", "desarrollo", "none"}
Card == [id : Listings, link : Link, priced : BOOLEAN]

\* status 0: no response; captcha: a page that asks for one; cards: what it shows.
Answer == [status : {0, 200, 403, 404, 503}, captcha : BOOLEAN, cards : Seq(Card)]

Ids(cards) == [i \in DOMAIN cards |-> cards[i].id]

\* The elements of s at the positions of a set, in their order (SelectSeq, by positions).
Those(s, at) ==
  LET upto[n \in 0 .. Len(s)] ==
        IF n = 0 THEN <<>>
        ELSE IF n \in at THEN Append(upto[n - 1], s[n])
        ELSE upto[n - 1] IN
  upto[Len(s)]
Refused(a) == a.status = 0 \/ a.status >= 400

-----------------------------------------------------------------------------
(* SCRAPER_REGISTRY, and the HTTP scraper that replaces a browser *)

Portals == {"inmuebles24", "lamudi", "propiedades", "properstar", "vivanuncios",
            "mercadolibre", "icasas", "properstar_http"}
Scrolling == {"icasas"}
Browserless == {"mercadolibre", "properstar_http"}

\* PROXY_POLICY of the config modules; without one the base class requires a proxy.
ProxyPolicy(p) ==
  CASE p = "inmuebles24" -> "proxy_required"
    [] p = "vivanuncios" -> "proxy_preferred"
    [] OTHER -> "direct"

UsesProxy(p) == ProxyPolicy(p) # "direct"

-----------------------------------------------------------------------------
(* One search page *)

Empty == [blocked |-> FALSE, cards |-> <<>>]
Blocked == [blocked |-> TRUE, cards |-> <<>>]
Shown(cards) == [blocked |-> FALSE, cards |-> cards]

\* A passed challenge still has the status 503, and is given up as a bad response.
Inmuebles24Page(a) ==
  IF \/ a.status = 403
     \/ a.status = 503 /\ a.cards = <<>>
     \/ a.status = 200 /\ a.captcha
  THEN Blocked
  ELSE IF Refused(a) THEN Empty ELSE Shown(a.cards)

LamudiPage(a) == IF Refused(a) THEN Empty ELSE Shown(a.cards)

PropiedadesPage(a) == IF Refused(a) THEN Empty ELSE Shown(a.cards)

VivanunciosPage(a) == IF Refused(a) THEN Empty ELSE Shown(a.cards)

\* A card without an identifier in its address is no listing.
ParseRawListing(c) == c.link # "none"

\* Other errors than the two of the firewall are read like a page.
ProperstarPage(a) ==
  IF a.status \in {0, 403, 503} THEN Empty
  ELSE Shown(Those(a.cards, {i \in DOMAIN a.cards : ParseRawListing(a.cards[i])}))

\* Without a price of at least 1000 there is no item.
ParseLdListing(c) == c.priced
MercadoLibrePage(a) == IF a.status # 200 THEN <<>> ELSE a.cards

ParseListingText(c) == c.priced

\* Cards without an address or without an identifier in it are passed over.
ParseSearchHtml(a) ==
  IF Refused(a) THEN <<>>
  ELSE Those(a.cards, {i \in DOMAIN a.cards : a.cards[i].link # "none"})

SearchPage(p, a) ==
  CASE p = "inmuebles24" -> Inmuebles24Page(a)
    [] p = "lamudi" -> LamudiPage(a)
    [] p = "propiedades" -> PropiedadesPage(a)
    [] p = "vivanuncios" -> VivanunciosPage(a)
    [] p = "properstar" -> ProperstarPage(a)
    [] OTHER -> Shown(ParseSearchHtml(a))

-----------------------------------------------------------------------------
(* The items of a page *)

Linked(cards) == Those(cards, {i \in DOMAIN cards : cards[i].link # "none"})

\* The cards whose detail page is opened.
Visited(p, cards) ==
  CASE p = "lamudi" -> Those(cards, {i \in DOMAIN cards : cards[i].link = "detalle"})
    [] p \in {"inmuebles24", "propiedades", "vivanuncios"} -> Linked(cards)
    [] OTHER -> <<>>

\* Two portals drop a card they cannot visit, two fall back to what the card says.
Items(p, cards, detail) ==
  IF detail /\ p \in {"propiedades", "vivanuncios"} THEN Ids(Linked(cards))
  ELSE Ids(cards)

KnownIn(known, ids) == Cardinality({i \in DOMAIN ids : ids[i] \in known})

\* KnownListingsCache.should_stop
ShouldStop(known, ids) ==
  \/ ids = <<>>
  \/ KnownIn(known, ids) >= StopKnown
  \/ KnownIn(known, ids) * 10 >= Len(ids) * 8 /\ KnownIn(known, ids) >= MinKnown

LastItems(n, s) == SubSeq(s, IF n < Len(s) THEN Len(s) - n + 1 ELSE 1, Len(s))
=============================================================================
