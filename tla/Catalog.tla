------------------------------- MODULE Catalog -------------------------------
(***************************************************************************)
(* How what a page says becomes rows: the catalogue of products and        *)
(* variants (fpt/store/catalog.py), the listings, sellers and offers       *)
(* (fpt/store/listings.py) and the observations                            *)
(* (fpt/store/observations.py), in the order of ingest_parsed_listing      *)
(* (fpt/store/pipeline.py), and the reference prices that are then read    *)
(* off them (fpt/store/deals.py).  What is done with a reference is        *)
(* DealLifecycle's.                                                        *)
(*                                                                         *)
(* A page is the sequence of the listings parsed from one response: they   *)
(* share its time and its snapshot.  A listing of several offers is as     *)
(* many places of the sequence with one SKU.  The slug is slugify of name  *)
(* and model key.                                                          *)
(***************************************************************************)
EXTENDS References

CONSTANTS
    Pages,          \* the pages that may be fetched
    CrossMaxAge,    \* _CROSS_RETAILER_MAX_AGE_DAYS
    UsedMaxAge,     \* _CURRENT_NEW_MAX_AGE_HOURS, in days
    Window,         \* _OWN_HISTORY_WINDOW_DAYS
    MinDays, MinSpan,
    MaxFetches,     \* bound: pages fetched
    Horizon         \* bound: days

Listings == UNION {{page[n] : n \in DOMAIN page} : page \in Pages}

(* Barcodes that a listing shows together are of one thing: where one of    *)
(* them is seen, all are.  Most listings have one or none.  A listing with  *)
(* those of two variants would make both of them its variant's.             *)
ASSUME CatalogAssumption ==
    /\ Pages \subseteq Seq(Listings)
    /\ \A l, m \in Listings : l.gtin \cap m.gtin # {} => l.gtin = m.gtin
    /\ MaxFetches \in Nat /\ Horizon \in Nat

(* The schema's checks: an observation that is not rejected has a price,    *)
(* and no amount is negative.                                               *)
ASSUME AmountAssumption ==
    \A l \in Listings :
        (l.ok => l.price \in Nat \ {0}) /\ l.ship \in Nat \union {Null}

(* A shop does not change the pack count of a SKU.  The query for a         *)
(* reference compares the counts that the listings now have, not those of   *)
(* their observations: it relies on it.                                     *)
ASSUME PackAssumption ==
    \A l, m \in Listings :
        l.retailer = m.retailer /\ l.sku = m.sku /\ l.sku # "" => l.unit = m.unit

VARIABLES
    products,   \* a sequence of [model, slug]; the place is the id
    variants,   \* a sequence of [product, key, gtin, unit]
    listings,   \* by retailer and SKU
    sellers,    \* seller_type, by retailer and seller_key
    offers,     \* by retailer, SKU and offer_key
    log,        \* price_observations, in order of id
    clock,      \* days
    fetch,      \* the number of the response at hand
    todo        \* its listings still to be stored

catalogue == <<products, variants>>
shop == <<listings, sellers, offers, log>>
vars == <<catalogue, shop, clock, fetch, todo>>

Init ==
    /\ products = << >> /\ variants = << >> /\ log = << >>
    /\ listings = << >> /\ sellers = << >> /\ offers = << >>
    /\ clock = 0 /\ fetch = 0 /\ todo = << >>

(* Inserts or overwrites the row of a key.                                  *)
Upsert(table, key, row) ==
    [k \in DOMAIN table \union {key} |-> IF k = key THEN row ELSE table[k]]

-----------------------------------------------------------------------------
(* The catalogue.                                                           *)

(* find_variant_by_gtin: any one of these.                                  *)
FindVariantByGtin(gtin) == {v \in DOMAIN variants : variants[v].gtin \cap gtin # {}}

(* merge_gtins_into_variant.                                                *)
MergeGtins(table, v, gtin) == [table EXCEPT ![v].gtin = @ \union gtin]

SlugTaken(slug) == \E p \in DOMAIN products : products[p].slug = slug

(* Faulty: two products with one name have one page.                        *)
CandidateSlugOnce(slug) == <<slug, 0>>

(* The slug of a new product: its own, or its own with a random suffix that *)
(* no other has; here the number of products is the suffix.                 *)
CandidateSlug(slug) ==
    IF SlugTaken(<<slug, 0>>) THEN <<slug, Len(products)>> ELSE <<slug, 0>>

(* get_or_create_brand.                                                     *)
Brand(listing) == IF listing.brand = "none" THEN "Unknown" ELSE listing.brand

(* The conflict target of the insert into products.                         *)
Model(listing) == <<Brand(listing), listing.category, listing.model>>

Known(listing) == {p \in DOMAIN products : products[p].model = Model(listing)}

(* get_or_create_product: the id, and the table with it in.                 *)
ProductId(listing) ==
    IF Known(listing) = {} THEN Len(products) + 1 ELSE CHOOSE p \in Known(listing) : TRUE

WithProduct(listing) ==
    IF Known(listing) # {} THEN products
    ELSE Append(products, [model |-> Model(listing), slug |-> CandidateSlug(listing.slug)])

(* get_or_create_variant.                                                   *)
VariantsOf(product, key) ==
    {v \in DOMAIN variants : variants[v].product = product /\ variants[v].key = key}

VariantId(product, key) ==
    IF VariantsOf(product, key) = {} THEN Len(variants) + 1
    ELSE CHOOSE v \in VariantsOf(product, key) : TRUE

(* Faulty: a new variant does not keep the barcodes it came with.           *)
WithVariantBare(product, key, listing) ==
    IF VariantsOf(product, key) # {} THEN variants
    ELSE Append(variants, [product |-> product, key |-> key, gtin |-> {},
                           unit |-> listing.unit])

WithVariant(product, key, listing) ==
    IF VariantsOf(product, key) # {}
    THEN MergeGtins(variants, VariantId(product, key), listing.gtin)
    ELSE Append(variants, [product |-> product, key |-> key, gtin |-> listing.gtin,
                           unit |-> listing.unit])

(* variant_key: of the attributes, or a key of this retailer's SKU alone    *)
(* where one that the category requires is missing.                         *)
VariantKey(listing) ==
    IF listing.attributes # "none" THEN <<listing.attributes>>
    ELSE <<"raw", listing.retailer, listing.sku>>

-----------------------------------------------------------------------------
(* Listings, sellers, offers and observations.                              *)

ListingKey(listing) == <<listing.retailer, listing.sku>>
OfferKey(listing) == <<listing.retailer, listing.sku, listing.offer>>

(* A listing that is linked stays so, with the match it then had.           *)
Link(old, v, match) == [variant |-> old.variant, match |-> old.match]

(* upsert_listing.  first is not a column: the barcodes it came in with.    *)
UpsertListing(listing, v, match) ==
    LET k == ListingKey(listing)
        link == IF k \in DOMAIN listings THEN Link(listings[k], v, match)
                ELSE [variant |-> v, match |-> match]
    IN  listings' = Upsert(listings, k,
            [variant |-> link.variant, match |-> link.match,
             label |-> listing.label, gtin |-> listing.gtin, unit |-> listing.unit,
             key |-> VariantKey(listing),
             first |-> IF k \in DOMAIN listings THEN listings[k].first ELSE listing.gtin])

(* get_or_create_seller: the last offer seen says what the seller is.       *)
UpsertSeller(listing) ==
    sellers' = Upsert(sellers, <<listing.retailer, listing.seller>>, listing.type)

UpsertOffer(listing) ==
    offers' = Upsert(offers, OfferKey(listing),
                     [group |-> listing.group, seller |-> <<listing.retailer, listing.seller>>])

(* Faulty: every parse is taken for an observation.                         *)
FindNone(listing) == {}

(* find_existing_observation_by_snapshot.                                   *)
FindExisting(listing) ==
    {n \in DOMAIN log : log[n].offer = OfferKey(listing) /\ log[n].fetch = fetch}

(* record_observation.                                                      *)
RecordObservation(listing) ==
    log' = IF FindExisting(listing) # {} THEN log
           ELSE Append(log, [offer |-> OfferKey(listing), fetch |-> fetch, at |-> clock,
                             price |-> listing.price, ship |-> listing.ship,
                             stock |-> listing.stock, clearance |-> listing.clearance,
                             ok |-> listing.ok, unit |-> listing.unit])

Store(listing, v, match) ==
    /\ UpsertListing(listing, v, match)
    /\ UpsertSeller(listing)
    /\ UpsertOffer(listing)
    /\ RecordObservation(listing)

-----------------------------------------------------------------------------
(* The steps: a response, and ingest_parsed_listing for each of its         *)
(* listings in turn, by the three ways resolve_or_create_variant and the    *)
(* check of the URL may go.                                                 *)

Fetch(page) ==
    /\ todo = << >> /\ fetch < MaxFetches
    /\ fetch' = fetch + 1 /\ todo' = page
    /\ UNCHANGED <<catalogue, shop, clock>>

Ingest(listing) ==
    /\ todo # << >> /\ listing = Head(todo) /\ todo' = Tail(todo)
    /\ UNCHANGED <<clock, fetch>>

IngestUnsafe ==
    \E listing \in {todo[n] : n \in DOMAIN todo} :
        /\ Ingest(listing) /\ ~listing.safe
        /\ UNCHANGED <<catalogue, shop>>

IngestByGtin ==
    \E listing \in {todo[n] : n \in DOMAIN todo} :
        /\ Ingest(listing) /\ listing.safe
        /\ \E v \in FindVariantByGtin(listing.gtin) :
              /\ variants' = MergeGtins(variants, v, listing.gtin)
              /\ Store(listing, v, "auto_gtin")
        /\ UNCHANGED products

IngestByKey ==
    \E listing \in {todo[n] : n \in DOMAIN todo} :
        /\ Ingest(listing) /\ listing.safe
        /\ FindVariantByGtin(listing.gtin) = {}
        /\ LET p == ProductId(listing)
               key == VariantKey(listing)
           IN  /\ products' = WithProduct(listing)
               /\ variants' = WithVariant(p, key, listing)
               /\ Store(listing, VariantId(p, key), "auto_created")

NextDay ==
    /\ todo = << >> /\ clock < Horizon /\ clock' = clock + 1
    /\ UNCHANGED <<catalogue, shop, fetch, todo>>

Next ==
    \/ \E page \in Pages : Fetch(page)
    \/ IngestUnsafe \/ IngestByGtin \/ IngestByKey
    \/ NextDay

Spec == Init /\ [][Next]_vars

-----------------------------------------------------------------------------
(* What the deal engine reads.                                              *)

ListingOf(offer) == listings[<<offer[1], offer[2]>>]

(* Faulty: the days of a sale count as well.                                *)
CountsAlways(n, offer) == log[n].offer = offer /\ log[n].ok

Counts(n, offer) == log[n].offer = offer /\ log[n].ok /\ ~log[n].clearance

(* ns: one row of a day at most.                                            *)
PriceByDay(rows, ns) ==
    [d \in {rows[n].at : n \in ns} |-> rows[CHOOSE n \in ns : rows[n].at = d].price]

(* resolve_own_history: the last such price of each day of the window.      *)
OwnDays(offer) ==
    LET ns == {n \in DOMAIN log : Counts(n, offer) /\ log[n].at >= clock - Window}
        last == {n \in ns : \A m \in ns : log[m].at = log[n].at => m <= n}
    IN  PriceByDay(log, last)

OwnHistory(offer) == OwnHistoryMedian(OwnDays(offer), MinDays, MinSpan)

(* The last in-stock observation of an offer that is no older than age.     *)
LastInStock(offer, age) ==
    LET ns == {n \in DOMAIN log : /\ log[n].offer = offer /\ log[n].ok /\ log[n].stock
                                  /\ log[n].at >= clock - age}
    IN  {n \in ns : \A m \in ns : m <= n}

(* The other new offers of a variant, by their last in-stock observation.   *)
NewRows(offer, age) ==
    UNION {LastInStock(o, age) :
              o \in {q \in DOMAIN offers \ {offer} :
                        /\ offers[q].group = "NEW"
                        /\ ListingOf(q).variant = ListingOf(offer).variant}}

(* DISTINCT ON (retailer_id) ... ORDER BY observed_at DESC: of each         *)
(* retailer one of the rows of its latest response.                         *)
LatestPerRetailer(rows) ==
    LET retailers == {log[n].offer[1] : n \in rows}
        latest(r) == {n \in rows : /\ log[n].offer[1] = r
                                   /\ \A m \in rows : log[m].offer[1] = r
                                                        => log[m].fetch <= log[n].fetch}
    IN  {f \in [retailers -> rows] : \A r \in retailers : f[r] \in latest(r)}

(* Faulty: a reference may count its packs differently.                     *)
ComparableAnyCount(n, offer) == sellers[offers[log[n].offer].seller] = "FIRST_PARTY"

Comparable(n, offer) ==
    /\ sellers[offers[log[n].offer].seller] = "FIRST_PARTY"
    /\ ListingOf(offer).unit # Null
    /\ ListingOf(log[n].offer).unit = ListingOf(offer).unit

Candidate(n) ==
    [n |-> n, retailer |-> log[n].offer[1], price |-> log[n].price,
     match |-> ListingOf(log[n].offer).match]

(* resolve_cross_retailer: what it may return.                              *)
CrossRetailer(offer) ==
    IF offers[offer].group # "NEW" THEN {}
    ELSE UNION {CrossRetailerNew({Candidate(f[r]) : r \in DOMAIN f}) :
                   f \in LatestPerRetailer({n \in NewRows(offer, CrossMaxAge) :
                                               Comparable(n, offer)})}

(* resolve_current_new_for_variant, and its twin with_identity.             *)
Landed(n) == IF log[n].ship = Null THEN log[n].price ELSE log[n].price + log[n].ship

CurrentNew(offer) ==
    {UsedReference({Landed(f[r]) : r \in DOMAIN f}) :
        f \in LatestPerRetailer(NewRows(offer, UsedMaxAge))}

-----------------------------------------------------------------------------
(* Properties.                                                              *)

(* Nothing has two rows: products differ in model and in slug, variants in  *)
(* product or key, and no barcode is of two variants.  catalog.py finds     *)
(* each by another key than the one it inserts by.                          *)
OneRowEach ==
    /\ \A p, q \in DOMAIN products :
          p # q => /\ products[p].model # products[q].model
                   /\ products[p].slug # products[q].slug
    /\ \A v, w \in DOMAIN variants :
          v # w => /\ <<variants[v].product, variants[v].key>>
                        # <<variants[w].product, variants[w].key>>
                   /\ variants[v].gtin \cap variants[w].gtin = {}

(* Whichever came first, and whatever was seen since, two listings that     *)
(* came in with a common barcode are of the same variant, which still has   *)
(* it.                                                                      *)
SameBarcodeMeets ==
    \A k, l \in DOMAIN listings :
        listings[k].first \cap listings[l].first # {}
          => /\ listings[k].variant = listings[l].variant
             /\ listings[k].first \subseteq variants[listings[k].variant].gtin

(* One response is at most one observation of an offer, so a day's price    *)
(* and the two looks of a deal are never the same response twice.           *)
OneObservationPerFetch ==
    \A m, n \in DOMAIN log :
        log[m].offer = log[n].offer /\ log[m].fetch = log[n].fetch => m = n

(* A reference from another listing is the price of the same variant in the *)
(* same pack count, sold new by the retailer itself within the week, and is *)
(* never the offer's own; a used offer is measured against a new one of the *)
(* last two days.  The pack count is that of the observation; a listing     *)
(* without a SKU may be several variants and is left out.                   *)
ReferenceIsComparable ==
    \A o \in DOMAIN offers :
      /\ \A c \in CrossRetailer(o) :
            o[2] # "" /\ log[c.n].offer[2] # "" =>
              /\ log[c.n].offer # o /\ log[c.n].at >= clock - CrossMaxAge
              /\ log[c.n].unit = ListingOf(o).unit /\ log[c.n].unit # Null
              /\ offers[log[c.n].offer].group = "NEW" /\ offers[o].group = "NEW"
              /\ ListingOf(log[c.n].offer).variant = ListingOf(o).variant
      /\ \A cents \in CurrentNew(o) \ {Null} :
            \E n \in DOMAIN log :
              /\ Landed(n) = cents /\ log[n].at >= clock - UsedMaxAge
              /\ log[n].offer # o /\ offers[log[n].offer].group = "NEW"
              /\ ListingOf(log[n].offer).variant = ListingOf(o).variant

(* A sale never lowers the regular price it is measured against: storing an *)
(* offer on clearance leaves every regular price as it was.                 *)
SaleLeavesHistory ==
    [][todo # << >> /\ todo' = Tail(todo) /\ Head(todo).clearance
         => \A o \in DOMAIN offers : OwnHistory(o)' = OwnHistory(o)]_vars

=============================================================================
