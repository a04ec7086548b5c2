--------------------------- MODULE Catalog_proofs ---------------------------
(***************************************************************************)
(* Theorems about Catalog, for any pages, in any order, of any number of   *)
(* retailers.                                                              *)
(*                                                                         *)
(* The inductive invariant IInv adds to the properties what makes them     *)
(* inductive: a suffixed slug has the place of its product, so no other    *)
(* product has it; a variant has all barcodes of a listing or none; and a  *)
(* listing's first barcodes are those of its variant, so listings with a   *)
(* common one have the variant that has it, of which there is one.         *)
(***************************************************************************)
EXTENDS Intake, LeastNatural

Barcodes == UNION {l.gtin : l \in Listings}
Keys == {VariantKey(l) : l \in Listings}
ProductRow == [model : {Model(l) : l \in Listings}, slug : {l.slug : l \in Listings} \X Nat]
VariantRow == [product : Nat, key : Keys, gtin : SUBSET Barcodes,
               unit : {l.unit : l \in Listings}]

(* What a fetch and a day make of a listing.                                *)
Observe(l, f, d) ==
    [offer |-> OfferKey(l), fetch |-> f, at |-> d, price |-> l.price, ship |-> l.ship,
     stock |-> l.stock, clearance |-> l.clearance, ok |-> l.ok, unit |-> l.unit]

Observation == {Observe(l, f, d) : l \in Listings, f \in Nat, d \in Nat}

(* The tables and the page at hand keep their shape.                        *)
Shape ==
    /\ products \in Seq(ProductRow) /\ variants \in Seq(VariantRow)
    /\ log \in Seq(Observation) /\ todo \in Seq(Listings)
    /\ clock \in Nat /\ fetch \in Nat

(* No model has two products, and no slug: a suffix is the place where its  *)
(* product was appended.                                                    *)
ProductsOnce ==
    /\ \A p, q \in DOMAIN products :
          p # q => /\ products[p].model # products[q].model
                   /\ products[p].slug # products[q].slug
    /\ \A p \in DOMAIN products : products[p].slug[2] \in {0, p - 1}

(* Nothing is two variants, and no barcode is of two; a variant has all     *)
(* barcodes of a listing or none.                                           *)
VariantsOnce ==
    /\ \A v, w \in DOMAIN variants :
          v # w => /\ <<variants[v].product, variants[v].key>>
                        # <<variants[w].product, variants[w].key>>
                   /\ variants[v].gtin \cap variants[w].gtin = {}
    /\ \A v \in DOMAIN variants, l \in Listings :
          variants[v].gtin \cap l.gtin # {} => l.gtin \subseteq variants[v].gtin

(* A listing is linked to the variant that has its first barcodes.          *)
Linked ==
    \A k \in DOMAIN listings :
        /\ listings[k].variant \in DOMAIN variants
        /\ listings[k].first \subseteq variants[listings[k].variant].gtin

ListingIn(offer) == <<offer[1], offer[2]>>

(* No observation is without its listing, and a listing with a SKU has its  *)
(* pack count.                                                              *)
Packed ==
    /\ \A n \in DOMAIN log : ListingIn(log[n].offer) \in DOMAIN listings
    /\ \A l \in Listings :
          l.sku # "" /\ ListingKey(l) \in DOMAIN listings
            => listings[ListingKey(l)].unit = l.unit

IInv == Shape /\ ProductsOnce /\ VariantsOnce /\ Linked /\ Packed /\ OneObservationPerFetch

-----------------------------------------------------------------------------
(* Tables.                                                                  *)

(* The barcodes of a listing are known, and those of two listings are the   *)
(* same or have nothing in common.                                          *)
LEMMA Barcode ==
    ASSUME NEW listing \in Listings
    PROVE  /\ listing.gtin \in SUBSET Barcodes
           /\ \A l \in Listings : l.gtin \cap listing.gtin # {} => l.gtin = listing.gtin
  BY CatalogAssumption DEF Barcodes

(* One listing of the page is taken off its head.                           *)
LEMMA TakesOne ==
    ASSUME Shape, NEW listing, Ingest(listing)
    PROVE  /\ listing \in Listings /\ listing = Head(todo) /\ todo' = Tail(todo)
           /\ todo # << >> /\ todo' \in Seq(Listings)
           /\ clock' = clock /\ fetch' = fetch
  BY DEF Shape, Ingest

-----------------------------------------------------------------------------
(* Observations.                                                            *)

(* The keys of an offer and of its listing.                                 *)
LEMMA KeyOfOffer ==
    ASSUME NEW l
    PROVE  ListingIn(OfferKey(l)) = ListingKey(l) /\ OfferKey(l)[2] = l.sku
  BY DEF ListingIn, OfferKey, ListingKey

(* What is recorded of a listing.                                           *)
LEMMA Recorded ==
    ASSUME Shape, NEW listing \in Listings, RecordObservation(listing)
    PROVE  /\ Observe(listing, fetch, clock) \in Observation
           /\ IF FindExisting(listing) # {} THEN log' = log
              ELSE log' = Append(log, Observe(listing, fetch, clock))
  <1>1. Observe(listing, fetch, clock) \in Observation
    BY DEF Shape, Observation
  <1> QED BY <1>1 DEF RecordObservation, Observe

(* What is known of an observation: its keys, and its fields are those of a *)
(* listing.                                                                 *)
LEMMA Observed ==
    ASSUME NEW x \in Observation
    PROVE  \E l \in Listings :
              /\ x.offer = OfferKey(l) /\ x.unit = l.unit /\ x.ok = l.ok
              /\ x.price = l.price /\ x.ship = l.ship
              /\ x.at \in Nat /\ x.fetch \in Nat
  BY DEF Observation, Observe

(* A response is recorded for an offer once.                                *)
LEMMA RecordOnce ==
    ASSUME Shape, OneObservationPerFetch, NEW listing \in Listings, RecordObservation(listing)
    PROVE  log' \in Seq(Observation) /\ OneObservationPerFetch'
  <1> DEFINE o == Observe(listing, fetch, clock)
  <1>1. CASE FindExisting(listing) # {}
    BY <1>1 DEF RecordObservation, Shape, OneObservationPerFetch
  <1>2. CASE FindExisting(listing) = {}
    <2>1. o \in Observation
      BY Recorded
    <2>2. log' = Append(log, o) /\ log \in Seq(Observation)
      BY <1>2, Recorded DEF Shape
    <2> HIDE DEF o
    <2>3. /\ log' \in Seq(Observation) /\ Len(log) \in Nat
          /\ DOMAIN log = 1..Len(log) /\ DOMAIN log' = 1..Len(log) + 1
          /\ \A n \in DOMAIN log : log'[n] = log[n]
          /\ log'[Len(log) + 1] = o
      BY <2>1, <2>2
    <2>4. \A n \in DOMAIN log : ~(log[n].offer = o.offer /\ log[n].fetch = o.fetch)
      BY <1>2 DEF FindExisting, o, Observe
    <2>5. OneObservationPerFetch'
      <3> SUFFICES ASSUME NEW m \in DOMAIN log', NEW n \in DOMAIN log',
                          log'[m].offer = log'[n].offer, log'[m].fetch = log'[n].fetch
                   PROVE  m = n
        BY DEF OneObservationPerFetch
      <3>1. CASE m \in DOMAIN log /\ n \in DOMAIN log
        BY <2>3, <3>1 DEF OneObservationPerFetch
      <3>2. CASE m = Len(log) + 1 /\ n \in DOMAIN log
        BY <2>3, <2>4, <3>2
      <3>3. CASE n = Len(log) + 1 /\ m \in DOMAIN log
        BY <2>3, <2>4, <3>3
      <3>4. CASE m = Len(log) + 1 /\ n = Len(log) + 1
        BY <3>4
      <3> QED BY <2>3, <3>1, <3>2, <3>3, <3>4
    <2> QED BY <2>3, <2>5
  <1> QED BY <1>1, <1>2

-----------------------------------------------------------------------------
(* Listings.                                                                *)

(* Linking a listing keeps every link, if variants only gain barcodes.      *)
LEMMA LinkKept ==
    ASSUME Linked, NEW listing, NEW v, NEW match, UpsertListing(listing, v, match),
           DOMAIN variants \subseteq DOMAIN variants',
           \A w \in DOMAIN variants : variants[w].gtin \subseteq variants'[w].gtin,
           v \in DOMAIN variants', listing.gtin \subseteq variants'[v].gtin
    PROVE  Linked'
  <1> DEFINE k == ListingKey(listing)
  <1>1. PICK row : /\ listings' = Upsert(listings, k, row)
                   /\ k \in DOMAIN listings => /\ row.variant = listings[k].variant
                                               /\ row.first = listings[k].first
                   /\ k \notin DOMAIN listings => row.variant = v /\ row.first = listing.gtin
    BY DEF UpsertListing, Link
  <1> HIDE DEF k
  <1>2. /\ row.variant \in DOMAIN variants'
        /\ row.first \subseteq variants'[row.variant].gtin
    BY <1>1 DEF Linked
  <1>3. ASSUME NEW l \in DOMAIN listings'
        PROVE  /\ listings'[l].variant \in DOMAIN variants'
               /\ listings'[l].first \subseteq variants'[listings'[l].variant].gtin
    <2> listings' = [h \in DOMAIN listings \union {k} |-> IF h = k THEN row ELSE listings[h]]
      BY <1>1 DEF Upsert
    <2>1. CASE l = k
      BY <1>2, <2>1
    <2>2. CASE l # k
      <3>1. l \in DOMAIN listings /\ listings'[l] = listings[l]
        BY <1>3, <2>2
      <3> QED BY <3>1 DEF Linked
    <2> QED BY <2>1, <2>2
  <1> QED BY <1>3 DEF Linked

-----------------------------------------------------------------------------
(* Pack counts.                                                             *)

(* Storing a listing keeps the pack counts of the listings and of their     *)
(* observations, and logs nothing without a listing.                        *)
LEMMA PackKept ==
    ASSUME Shape, Packed, NEW listing \in Listings, NEW v, NEW match,
           UpsertListing(listing, v, match), RecordObservation(listing)
    PROVE  Packed'
  <1> DEFINE k == ListingKey(listing)
  <1>1. /\ DOMAIN listings' = DOMAIN listings \union {k}
        /\ \A h \in DOMAIN listings \ {k} : listings'[h] = listings[h]
        /\ listings'[k].unit = listing.unit
    <2>1. PICK row : listings' = Upsert(listings, k, row) /\ row.unit = listing.unit
      BY DEF UpsertListing
    <2> HIDE DEF k
    <2> QED BY <2>1 DEF Upsert
  <1>2. \A n \in DOMAIN log' :
            \/ n \in DOMAIN log /\ log'[n] = log[n]
            \/ ListingIn(log'[n].offer) = k
    <2>1. CASE FindExisting(listing) # {}
      BY <2>1 DEF RecordObservation
    <2>2. CASE FindExisting(listing) = {}
      <3> DEFINE o == Observe(listing, fetch, clock)
      <3>1. log' = Append(log, o)
        BY <2>2, Recorded
      <3>2. ListingIn(o.offer) = k
        BY KeyOfOffer DEF Observe
      <3>3. log \in Seq(Observation)
        BY DEF Shape
      <3> HIDE DEF k, o
      <3> QED BY <3>1, <3>2, <3>3
    <2> QED BY <2>1, <2>2
  <1>3. \A l \in Listings : l.sku # "" /\ ListingKey(l) = k => l.unit = listing.unit
    BY PackAssumption DEF ListingKey
  <1> HIDE DEF k
  <1>4. \A n \in DOMAIN log' : ListingIn(log'[n].offer) \in DOMAIN listings'
    BY <1>1, <1>2 DEF Packed
  <1>5. ASSUME NEW l \in Listings, l.sku # "", ListingKey(l) \in DOMAIN listings'
        PROVE  listings'[ListingKey(l)].unit = l.unit
    <2>1. CASE ListingKey(l) = k
      BY <1>1, <1>3, <1>5, <2>1
    <2>2. CASE ListingKey(l) # k
      BY <1>1, <1>5, <2>2 DEF Packed
    <2> QED BY <2>1, <2>2
  <1> QED BY <1>4, <1>5 DEF Packed

(* Steps that leave listings and observations alone leave the counts alone. *)
LEMMA PackStays ==
    ASSUME Packed, UNCHANGED shop
    PROVE  Packed'
  <1>1. listings' = listings /\ log' = log
    BY DEF shop
  <1> QED BY <1>1 DEF Packed

-----------------------------------------------------------------------------
(* Products.                                                                *)

(* A product is found by its model or appended, under a slug of its own.    *)
LEMMA ProductOnce ==
    ASSUME Shape, ProductsOnce, NEW listing \in Listings, products' = WithProduct(listing)
    PROVE  products' \in Seq(ProductRow) /\ ProductsOnce' /\ ProductId(listing) \in Nat
  <1> DEFINE row == [model |-> Model(listing), slug |-> CandidateSlug(listing.slug)]
  <1>0. products \in Seq(ProductRow) /\ Len(products) \in Nat
        /\ DOMAIN products = 1..Len(products)
    BY DEF Shape
  <1>1. CASE Known(listing) # {}
    <2>1. Known(listing) \subseteq DOMAIN products
      BY DEF Known
    <2>2. ProductId(listing) \in Known(listing)
      BY <1>1 DEF ProductId
    <2> QED BY <1>0, <1>1, <2>1, <2>2 DEF WithProduct, ProductsOnce
  <1>2. CASE Known(listing) = {}
    <2>1. /\ row \in ProductRow
          /\ row.slug[2] \in {0, Len(products)}
          /\ \A p \in DOMAIN products : products[p].model # row.model
      BY <1>0, <1>2 DEF ProductRow, CandidateSlug, Known
    <2>2. ASSUME NEW p \in DOMAIN products
          PROVE  products[p].slug # row.slug
      <3>1. CASE SlugTaken(<<listing.slug, 0>>)
        <4>1. row.slug = <<listing.slug, Len(products)>> /\ Len(products) # 0
          BY <1>0, <2>2, <3>1 DEF CandidateSlug
        <4>2. products[p].slug[2] \in {0, p - 1} /\ p \in 1..Len(products)
          BY <1>0, <2>2 DEF ProductsOnce
        <4> QED BY <1>0, <4>1, <4>2
      <3>2. CASE ~SlugTaken(<<listing.slug, 0>>)
        BY <2>2, <3>2 DEF CandidateSlug, SlugTaken
      <3> QED BY <3>1, <3>2
    <2>3. products' = Append(products, row) /\ ProductId(listing) = Len(products) + 1
      BY <1>2 DEF WithProduct, ProductId
    <2> HIDE DEF row
    <2>4. /\ products' \in Seq(ProductRow)
          /\ DOMAIN products' = 1..Len(products) + 1
          /\ \A p \in DOMAIN products : products'[p] = products[p]
          /\ products'[Len(products) + 1] = row
      BY <1>0, <2>1, <2>3
    <2>5. ProductsOnce'
      <3>1. ASSUME NEW p \in DOMAIN products', NEW q \in DOMAIN products', p # q
            PROVE  /\ products'[p].model # products'[q].model
                   /\ products'[p].slug # products'[q].slug
        <4>1. CASE p \in DOMAIN products /\ q \in DOMAIN products
          BY <2>4, <3>1, <4>1 DEF ProductsOnce
        <4>2. CASE p \in DOMAIN products /\ q = Len(products) + 1
          BY <2>1, <2>2, <2>4, <4>2
        <4>3. CASE q \in DOMAIN products /\ p = Len(products) + 1
          BY <2>1, <2>2, <2>4, <4>3
        <4> QED BY <1>0, <2>4, <3>1, <4>1, <4>2, <4>3
      <3>2. ASSUME NEW p \in DOMAIN products'
            PROVE  products'[p].slug[2] \in {0, p - 1}
        <4>1. CASE p \in DOMAIN products
          BY <2>4, <4>1 DEF ProductsOnce
        <4>2. CASE p = Len(products) + 1
          BY <1>0, <2>1, <2>4, <4>2
        <4> QED BY <1>0, <2>4, <3>2, <4>1, <4>2
      <3> QED BY <3>1, <3>2 DEF ProductsOnce
    <2> QED BY <1>0, <2>3, <2>4, <2>5
  <1> QED BY <1>1, <1>2

-----------------------------------------------------------------------------
(* Variants.                                                                *)

(* Merging barcodes into a variant changes nothing else.                    *)
LEMMA Merged ==
    ASSUME NEW table \in Seq(VariantRow), NEW v \in DOMAIN table, NEW gtin \in SUBSET Barcodes
    PROVE  LET merged == MergeGtins(table, v, gtin) IN
           /\ merged \in Seq(VariantRow) /\ DOMAIN merged = DOMAIN table
           /\ \A w \in DOMAIN table \ {v} : merged[w] = table[w]
           /\ merged[v].product = table[v].product /\ merged[v].key = table[v].key
           /\ merged[v].gtin = table[v].gtin \union gtin
  <1> DEFINE row == [table[v] EXCEPT !.gtin = @ \union gtin]
  <1>1. table[v] \in VariantRow
    OBVIOUS
  <1>2. /\ row \in VariantRow
        /\ row.product = table[v].product /\ row.key = table[v].key
        /\ row.gtin = table[v].gtin \union gtin
    BY <1>1 DEF VariantRow
  <1>3. MergeGtins(table, v, gtin) = [table EXCEPT ![v] = row]
    BY DEF MergeGtins
  <1> HIDE DEF row
  <1> QED BY <1>2, <1>3

(* The variant of a listing whose barcode one has: it gains nothing.        *)
LEMMA FoundByGtin ==
    ASSUME Shape, VariantsOnce, NEW listing \in Listings,
           NEW v \in FindVariantByGtin(listing.gtin),
           variants' = MergeGtins(variants, v, listing.gtin)
    PROVE  /\ variants' \in Seq(VariantRow) /\ VariantsOnce'
           /\ DOMAIN variants' = DOMAIN variants
           /\ \A w \in DOMAIN variants : variants[w].gtin = variants'[w].gtin
           /\ v \in DOMAIN variants' /\ listing.gtin \subseteq variants'[v].gtin
  <1>1. v \in DOMAIN variants /\ variants[v].gtin \intersect listing.gtin # {}
    BY DEF FindVariantByGtin
  <1>2. listing.gtin \subseteq variants[v].gtin /\ listing.gtin \in SUBSET Barcodes
    BY <1>1, Barcode DEF VariantsOnce
  <1>3. variants \in Seq(VariantRow)
    BY DEF Shape
  <1>4. /\ variants' \in Seq(VariantRow) /\ DOMAIN variants' = DOMAIN variants
        /\ \A w \in DOMAIN variants \ {v} : variants'[w] = variants[w]
        /\ variants'[v].product = variants[v].product /\ variants'[v].key = variants[v].key
        /\ variants'[v].gtin = variants[v].gtin \union listing.gtin
    BY <1>1, <1>2, <1>3, Merged
  <1>5. \A w \in DOMAIN variants : /\ variants'[w].product = variants[w].product
                                   /\ variants'[w].key = variants[w].key
                                   /\ variants'[w].gtin = variants[w].gtin
    BY <1>1, <1>2, <1>4
  <1>6. VariantsOnce'
    BY <1>4, <1>5 DEF VariantsOnce
  <1> QED BY <1>1, <1>2, <1>4, <1>5, <1>6

(* The variant of a listing whose barcode none has: found by its key, or    *)
(* appended, and with the barcode in either case.                           *)
LEMMA FoundByKey ==
    ASSUME Shape, VariantsOnce, NEW listing \in Listings, NEW p \in Nat,
           FindVariantByGtin(listing.gtin) = {},
           variants' = WithVariant(p, VariantKey(listing), listing)
    PROVE  LET v == VariantId(p, VariantKey(listing)) IN
           /\ variants' \in Seq(VariantRow) /\ VariantsOnce'
           /\ DOMAIN variants \subseteq DOMAIN variants'
           /\ \A w \in DOMAIN variants : variants[w].gtin \subseteq variants'[w].gtin
           /\ v \in DOMAIN variants' /\ listing.gtin \subseteq variants'[v].gtin
  <1> DEFINE key == VariantKey(listing)
             v == VariantId(p, key)
             row == [product |-> p, key |-> key, gtin |-> listing.gtin, unit |-> listing.unit]
  <1>0. /\ variants \in Seq(VariantRow) /\ Len(variants) \in Nat
        /\ DOMAIN variants = 1..Len(variants)
        /\ listing.gtin \in SUBSET Barcodes /\ key \in Keys
        /\ \A w \in DOMAIN variants : variants[w].gtin \intersect listing.gtin = {}
    BY Barcode DEF Shape, Keys, FindVariantByGtin
  <1>1. CASE VariantsOf(p, key) # {}
    <2>1. v \in DOMAIN variants
      BY <1>1 DEF VariantId, VariantsOf
    <2>2. variants' = MergeGtins(variants, v, listing.gtin)
      BY <1>1 DEF WithVariant
    <2> HIDE DEF v, key
    <2>3. /\ variants' \in Seq(VariantRow) /\ DOMAIN variants' = DOMAIN variants
          /\ \A w \in DOMAIN variants \ {v} : variants'[w] = variants[w]
          /\ variants'[v].product = variants[v].product /\ variants'[v].key = variants[v].key
          /\ variants'[v].gtin = variants[v].gtin \union listing.gtin
      BY <1>0, <2>1, <2>2, Merged
    <2>4. ASSUME NEW w \in DOMAIN variants', NEW x \in DOMAIN variants', w # x
          PROVE  /\ <<variants'[w].product, variants'[w].key>>
                       # <<variants'[x].product, variants'[x].key>>
                 /\ variants'[w].gtin \intersect variants'[x].gtin = {}
      <3>1. /\ <<variants[w].product, variants[w].key>>
                  # <<variants[x].product, variants[x].key>>
            /\ variants[w].gtin \intersect variants[x].gtin = {}
        BY <2>3, <2>4 DEF VariantsOnce
      <3>2. \A y \in {w, x} : variants'[y].product = variants[y].product
                             /\ variants'[y].key = variants[y].key
        BY <2>3
      <3>3. \A y \in {w, x} : variants'[y].gtin = IF y = v THEN variants[y].gtin \union listing.gtin
                                                  ELSE variants[y].gtin
        BY <2>3
      <3> QED BY <1>0, <2>3, <2>4, <3>1, <3>2, <3>3
    <2>5. ASSUME NEW w \in DOMAIN variants', NEW l \in Listings,
                 variants'[w].gtin \intersect l.gtin # {}
          PROVE  l.gtin \subseteq variants'[w].gtin
      <3>1. CASE variants[w].gtin \intersect l.gtin # {}
        <4>1. l.gtin \subseteq variants[w].gtin
          BY <2>3, <2>5, <3>1 DEF VariantsOnce
        <4> QED BY <2>3, <4>1
      <3>2. CASE w = v /\ listing.gtin \intersect l.gtin # {}
        BY <2>3, <3>2, Barcode
      <3> QED BY <2>3, <2>5, <3>1, <3>2
    <2>6. VariantsOnce'
      BY <2>4, <2>5 DEF VariantsOnce
    <2> QED BY <2>1, <2>3, <2>6 DEF key, v
  <1>2. CASE VariantsOf(p, key) = {}
    <2>1. row \in VariantRow
      BY <1>0 DEF VariantRow
    <2>2. variants' = Append(variants, row) /\ v = Len(variants) + 1
      BY <1>2 DEF WithVariant, VariantId
    <2>3. \A w \in DOMAIN variants :
             /\ <<variants[w].product, variants[w].key>> # <<row.product, row.key>>
             /\ variants[w].gtin \intersect row.gtin = {}
      BY <1>0, <1>2 DEF VariantsOf
    <2>4. row.gtin = listing.gtin
      OBVIOUS
    <2> HIDE DEF row, v, key
    <2>5. /\ variants' \in Seq(VariantRow)
          /\ DOMAIN variants' = 1..Len(variants) + 1
          /\ \A w \in DOMAIN variants : variants'[w] = variants[w]
          /\ variants'[Len(variants) + 1] = row
      BY <1>0, <2>1, <2>2
    <2>6. ASSUME NEW w \in DOMAIN variants', NEW x \in DOMAIN variants', w # x
          PROVE  /\ <<variants'[w].product, variants'[w].key>>
                       # <<variants'[x].product, variants'[x].key>>
                 /\ variants'[w].gtin \intersect variants'[x].gtin = {}
      <3>1. CASE w \in DOMAIN variants /\ x \in DOMAIN variants
        BY <2>5, <2>6, <3>1 DEF VariantsOnce
      <3>2. CASE w \in DOMAIN variants /\ x = Len(variants) + 1
        BY <2>3, <2>5, <3>2
      <3>3. CASE x \in DOMAIN variants /\ w = Len(variants) + 1
        BY <2>3, <2>5, <3>3
      <3> QED BY <1>0, <2>5, <2>6, <3>1, <3>2, <3>3
    <2>7. ASSUME NEW w \in DOMAIN variants', NEW l \in Listings,
                 variants'[w].gtin \intersect l.gtin # {}
          PROVE  l.gtin \subseteq variants'[w].gtin
      <3>1. CASE w \in DOMAIN variants
        BY <2>5, <2>7, <3>1 DEF VariantsOnce
      <3>2. CASE w = Len(variants) + 1
        BY <2>4, <2>5, <2>7, <3>2, Barcode
      <3> QED BY <1>0, <2>5, <2>7, <3>1, <3>2
    <2>8. VariantsOnce'
      BY <2>6, <2>7 DEF VariantsOnce
    <2> QED BY <1>0, <2>2, <2>4, <2>5, <2>8 DEF v, key
  <1> QED BY <1>1, <1>2

-----------------------------------------------------------------------------
(* The invariant.                                                           *)

LEMMA InitIInv == Init => IInv
  BY CatalogAssumption DEF Init, IInv, Shape, ProductsOnce, VariantsOnce, Linked, Packed,
     OneObservationPerFetch

LEMMA FetchStep ==
    ASSUME IInv, NEW page \in Pages, Fetch(page)
    PROVE  IInv'
  BY CatalogAssumption, PackStays DEF Fetch, IInv, Shape, ProductsOnce, VariantsOnce, Linked,
     OneObservationPerFetch, catalogue, shop

LEMMA UnsafeStep ==
    ASSUME IInv, IngestUnsafe
    PROVE  IInv'
  <1>1. PICK listing : Ingest(listing) /\ UNCHANGED <<catalogue, shop>>
    BY DEF IngestUnsafe
  <1>2. todo' \in Seq(Listings) /\ clock' = clock /\ fetch' = fetch
    BY <1>1, TakesOne DEF IInv
  <1> QED BY <1>1, <1>2, PackStays DEF IInv, Shape, ProductsOnce, VariantsOnce, Linked,
             OneObservationPerFetch, catalogue, shop

LEMMA ByGtinStep ==
    ASSUME IInv, IngestByGtin
    PROVE  IInv'
  <1>1. PICK listing : /\ Ingest(listing) /\ products' = products
                       /\ \E v \in FindVariantByGtin(listing.gtin) :
                            /\ variants' = MergeGtins(variants, v, listing.gtin)
                            /\ Store(listing, v, "auto_gtin")
    BY DEF IngestByGtin
  <1>2. PICK v \in FindVariantByGtin(listing.gtin) :
            /\ variants' = MergeGtins(variants, v, listing.gtin)
            /\ Store(listing, v, "auto_gtin")
    BY <1>1
  <1>3. listing \in Listings /\ todo' \in Seq(Listings) /\ clock' = clock /\ fetch' = fetch
    BY <1>1, TakesOne DEF IInv
  <1>4. /\ variants' \in Seq(VariantRow) /\ VariantsOnce'
        /\ DOMAIN variants' = DOMAIN variants
        /\ \A w \in DOMAIN variants : variants[w].gtin = variants'[w].gtin
        /\ v \in DOMAIN variants' /\ listing.gtin \subseteq variants'[v].gtin
    BY <1>2, <1>3, FoundByGtin DEF IInv
  <1>5. log' \in Seq(Observation) /\ OneObservationPerFetch'
    BY <1>2, <1>3, RecordOnce DEF IInv, Store
  <1>6. Linked'
    BY <1>2, <1>4, LinkKept DEF IInv, Store
  <1>8. Packed'
    BY <1>2, <1>3, PackKept DEF IInv, Store
  <1>7. ProductsOnce' /\ products' \in Seq(ProductRow)
    BY <1>1 DEF IInv, Shape, ProductsOnce
  <1> QED BY <1>3, <1>4, <1>5, <1>6, <1>7, <1>8 DEF IInv, Shape

LEMMA ByKeyStep ==
    ASSUME IInv, IngestByKey
    PROVE  IInv'
  <1>1. PICK listing : /\ Ingest(listing) /\ FindVariantByGtin(listing.gtin) = {}
                       /\ products' = WithProduct(listing)
                       /\ variants' = WithVariant(ProductId(listing), VariantKey(listing), listing)
                       /\ Store(listing, VariantId(ProductId(listing), VariantKey(listing)),
                                "auto_created")
    BY DEF IngestByKey
  <1>2. listing \in Listings /\ todo' \in Seq(Listings) /\ clock' = clock /\ fetch' = fetch
    BY <1>1, TakesOne DEF IInv
  <1>3. products' \in Seq(ProductRow) /\ ProductsOnce' /\ ProductId(listing) \in Nat
    BY <1>1, <1>2, ProductOnce DEF IInv
  <1>4. LET v == VariantId(ProductId(listing), VariantKey(listing)) IN
        /\ variants' \in Seq(VariantRow) /\ VariantsOnce'
        /\ DOMAIN variants \subseteq DOMAIN variants'
        /\ \A w \in DOMAIN variants : variants[w].gtin \subseteq variants'[w].gtin
        /\ v \in DOMAIN variants' /\ listing.gtin \subseteq variants'[v].gtin
    BY <1>1, <1>2, <1>3, FoundByKey DEF IInv
  <1>5. log' \in Seq(Observation) /\ OneObservationPerFetch'
    BY <1>1, <1>2, RecordOnce DEF IInv, Store
  <1>6. Linked'
    BY <1>1, <1>4, LinkKept DEF IInv, Store
  <1>7. Packed'
    BY <1>1, <1>2, PackKept DEF IInv, Store
  <1> QED BY <1>2, <1>3, <1>4, <1>5, <1>6, <1>7 DEF IInv, Shape

LEMMA NextDayStep ==
    ASSUME IInv, NextDay
    PROVE  IInv'
  BY PackStays DEF NextDay, IInv, Shape, ProductsOnce, VariantsOnce, Linked,
     OneObservationPerFetch, catalogue, shop

LEMMA Stutter ==
    ASSUME IInv, UNCHANGED vars
    PROVE  IInv'
  BY PackStays DEF vars, IInv, Shape, ProductsOnce, VariantsOnce, Linked,
     OneObservationPerFetch, catalogue, shop

(* The invariant holds always.                                              *)
THEOREM CatalogInvariant == Spec => []IInv
  <1>1. ASSUME IInv, [Next]_vars
        PROVE  IInv'
    BY <1>1, FetchStep, UnsafeStep, ByGtinStep, ByKeyStep, NextDayStep, Stutter DEF Next
  <1> QED BY <1>1, InitIInv, PTL DEF Spec

(* For any pages in any order: no product, slug, variant or barcode has two *)
(* rows, though each is looked up by another key than it is inserted by     *)
(* (catalog.py).                                                            *)
THEOREM RowsAreOne == Spec => []OneRowEach
  <1>1. IInv => OneRowEach
    BY DEF IInv, ProductsOnce, VariantsOnce, OneRowEach
  <1> QED BY <1>1, CatalogInvariant, PTL

(* For any pages in any order: listings that came in with one barcode are   *)
(* of one variant, whichever came first (resolve_or_create_variant).        *)
THEOREM BarcodesMeet == Spec => []SameBarcodeMeets
  <1>1. ASSUME IInv, NEW k \in DOMAIN listings, NEW l \in DOMAIN listings,
               listings[k].first \cap listings[l].first # {}
        PROVE  listings[k].variant = listings[l].variant
    <2>1. /\ listings[k].variant \in DOMAIN variants
          /\ listings[l].variant \in DOMAIN variants
          /\ listings[k].first \subseteq variants[listings[k].variant].gtin
          /\ listings[l].first \subseteq variants[listings[l].variant].gtin
      BY <1>1 DEF IInv, Linked
    <2>2. variants[listings[k].variant].gtin \cap variants[listings[l].variant].gtin # {}
      BY <1>1, <2>1
    <2> QED BY <1>1, <2>1, <2>2 DEF IInv, VariantsOnce
  <1>2. IInv => SameBarcodeMeets
    BY <1>1 DEF IInv, Linked, SameBarcodeMeets
  <1> QED BY <1>2, CatalogInvariant, PTL

(* For any pages: an offer has one observation of a response                *)
(* (record_observation).                                                    *)
THEOREM FetchesAreOnce == Spec => []OneObservationPerFetch
  <1>1. IInv => OneObservationPerFetch
    BY DEF IInv
  <1> QED BY <1>1, CatalogInvariant, PTL

-----------------------------------------------------------------------------
(* The regular price.                                                       *)

(* Storing a listing on clearance appends at most one observation, and one  *)
(* on clearance.                                                            *)
LEMMA SaleAppends ==
    ASSUME IInv, [Next]_vars, todo # << >>, todo' = Tail(todo), Head(todo).clearance
    PROVE  /\ clock' = clock
           /\ \/ log' = log
              \/ \E o \in Observation : o.clearance /\ log' = Append(log, o)
  <1>1. ASSUME NEW listing, NEW v, NEW match, Ingest(listing), Store(listing, v, match)
        PROVE  /\ clock' = clock
               /\ \/ log' = log
                  \/ \E o \in Observation : o.clearance /\ log' = Append(log, o)
    <2> DEFINE o == Observe(listing, fetch, clock)
    <2>1. listing \in Listings /\ listing = Head(todo) /\ clock' = clock
      BY <1>1, TakesOne DEF IInv
    <2>2. o \in Observation /\ o.clearance
      BY <1>1, <2>1, Recorded DEF IInv, Store, Observe
    <2>3. log' = log \/ log' = Append(log, o)
      BY <1>1, <2>1, Recorded DEF IInv, Store
    <2> QED BY <2>1, <2>2, <2>3
  <1>2. CASE IngestUnsafe
    BY <1>2 DEF IngestUnsafe, Ingest, shop
  <1>3. CASE IngestByGtin
    BY <1>1, <1>3 DEF IngestByGtin
  <1>4. CASE IngestByKey
    BY <1>1, <1>4 DEF IngestByKey
  <1>5. CASE UNCHANGED vars
    BY <1>5 DEF vars, shop
  <1>6. ~NextDay /\ \A page \in Pages : ~Fetch(page)
    BY DEF NextDay, Fetch
  <1> QED BY <1>2, <1>3, <1>4, <1>5, <1>6 DEF Next

(* The prices by day are those of the rows chosen, whatever else is logged. *)
LEMMA DaysAgree ==
    ASSUME NEW old, NEW new, NEW S, NEW T, T = S, \A n \in S : new[n] = old[n]
    PROVE  PriceByDay(new, T) = PriceByDay(old, S)
  <1> DEFINE D == {old[n].at : n \in S}
             E == {new[n].at : n \in T}
             place(d) == CHOOSE n \in S : old[n].at = d
             placed(d) == CHOOSE n \in T : new[n].at = d
             f == [d \in D |-> old[place(d)].price]
             g == [d \in E |-> new[placed(d)].price]
  <1>1. D = E
    OBVIOUS
  <1>2. ASSUME NEW d \in D
        PROVE  placed(d) = place(d) /\ place(d) \in S
    <2>1. \A n \in S : old[n].at = d <=> new[n].at = d
      OBVIOUS
    <2> QED BY <1>2, <2>1
  <1> HIDE DEF D, E, place, placed
  <1>3. \A d \in D : f[d] = g[d]
    BY <1>1, <1>2
  <1>4. f = g
    BY <1>1, <1>3
  <1> QED BY <1>4 DEF D, E, place, placed, PriceByDay

(* For any page and any history: an offer seen on sale leaves the regular   *)
(* price of every offer as it was (resolve_own_history).                    *)
THEOREM SalesLeaveHistory == Spec => SaleLeavesHistory
  <1>1. ASSUME IInv, [Next]_vars, todo # << >>, todo' = Tail(todo), Head(todo).clearance,
               NEW o
        PROVE  OwnDays(o)' = OwnDays(o)
    <2> DEFINE ns == {n \in DOMAIN log : Counts(n, o) /\ log[n].at >= clock - Window}
    <2>1. clock' = clock /\ log \in Seq(Observation)
      BY <1>1, SaleAppends DEF IInv, Shape
    <2>2. ns' = ns /\ \A n \in ns : log'[n] = log[n]
      <3>1. CASE log' = log
        BY <2>1, <3>1 DEF Counts
      <3>2. ASSUME NEW x \in Observation, x.clearance, log' = Append(log, x)
            PROVE  ns' = ns /\ \A n \in ns : log'[n] = log[n]
        <4>1. /\ Len(log) \in Nat /\ DOMAIN log = 1..Len(log)
              /\ DOMAIN log' = 1..Len(log) + 1
              /\ \A n \in DOMAIN log : log'[n] = log[n]
              /\ log'[Len(log) + 1] = x
          BY <2>1, <3>2
        <4>2. \A n \in DOMAIN log' : Counts(n, o)' => n \in DOMAIN log
          BY <3>2, <4>1 DEF Counts
        <4>3. \A n \in DOMAIN log : Counts(n, o)' <=> Counts(n, o)
          BY <4>1 DEF Counts
        <4> QED BY <2>1, <4>1, <4>2, <4>3
      <3> QED BY <1>1, <3>1, <3>2, SaleAppends
    <2> DEFINE last == {n \in ns : \A m \in ns : log[m].at = log[n].at => m <= n}
    <2>3. OwnDays(o) = PriceByDay(log, last)
      BY DEF OwnDays
    <2>4. OwnDays(o)' = PriceByDay(log', last')
      BY DEF OwnDays
    <2> HIDE DEF ns
    <2>5. last' = last /\ \A n \in last : log'[n] = log[n]
      BY <2>2
    <2> HIDE DEF last
    <2>6. PriceByDay(log', last') = PriceByDay(log, last)
      BY <2>5, DaysAgree
    <2> QED BY <2>3, <2>4, <2>6
  <1>2. ASSUME IInv, [Next]_vars
        PROVE  [todo # << >> /\ todo' = Tail(todo) /\ Head(todo).clearance
                  => \A o \in DOMAIN offers : OwnHistory(o)' = OwnHistory(o)]_vars
    BY <1>1, <1>2 DEF OwnHistory
  <1> QED BY <1>2, CatalogInvariant, PTL DEF Spec, SaleLeavesHistory

-----------------------------------------------------------------------------
(* References from other listings.                                          *)

(* One row of a retailer is one of the rows.                                *)
LEMMA LatestAreRows ==
    ASSUME NEW rows, NEW f \in LatestPerRetailer(rows), NEW r \in DOMAIN f
    PROVE  f[r] \in rows
  BY DEF LatestPerRetailer

(* A row that a reference may be taken from: in stock, recent, new, of      *)
(* another offer of the variant.                                            *)
LEMMA NewRow ==
    ASSUME Shape, NEW o, NEW age, NEW n \in NewRows(o, age)
    PROVE  /\ n \in DOMAIN log /\ log[n].ok /\ log[n].at >= clock - age
           /\ log[n].offer # o /\ log[n].offer \in DOMAIN offers
           /\ offers[log[n].offer].group = "NEW"
           /\ ListingOf(log[n].offer).variant = ListingOf(o).variant
  <1>1. PICK q \in DOMAIN offers \ {o} :
            /\ offers[q].group = "NEW"
            /\ ListingOf(q).variant = ListingOf(o).variant
            /\ n \in LastInStock(q, age)
    BY DEF NewRows
  <1>2. n \in DOMAIN log /\ log[n].offer = q /\ log[n].ok /\ log[n].at >= clock - age
    BY <1>1 DEF LastInStock
  <1> QED BY <1>1, <1>2

(* A row of the log is an observation.                                      *)
LEMMA LogRow ==
    ASSUME Shape, NEW n \in DOMAIN log
    PROVE  log[n] \in Observation
  BY DEF Shape

(* An observation of a listing with a SKU has the pack count of the         *)
(* listing.                                                                 *)
LEMMA ObservedPack ==
    ASSUME Shape, Packed, NEW n \in DOMAIN log, log[n].offer[2] # ""
    PROVE  log[n].unit = ListingOf(log[n].offer).unit
  <1>1. log[n] \in Observation
    BY LogRow
  <1>2. PICK l \in Listings : log[n].offer = OfferKey(l) /\ log[n].unit = l.unit
    BY <1>1, Observed
  <1>3. ListingIn(log[n].offer) = ListingKey(l) /\ l.sku # ""
    BY <1>2, KeyOfOffer
  <1> QED BY <1>2, <1>3 DEF Packed, ListingOf, ListingIn

(* What a used offer is measured against is what some row costs.            *)
LEMMA LandedRow ==
    ASSUME Shape, NEW o, NEW cents \in CurrentNew(o) \ {Null}
    PROVE  \E n \in NewRows(o, UsedMaxAge) : Landed(n) = cents
  <1>1. PICK f \in LatestPerRetailer(NewRows(o, UsedMaxAge)) :
            cents = UsedReference({Landed(f[r]) : r \in DOMAIN f})
    BY DEF CurrentNew
  <1> DEFINE S == {Landed(f[r]) : r \in DOMAIN f}
  <1>2. ASSUME NEW n \in NewRows(o, UsedMaxAge)
        PROVE  Landed(n) \in Nat
    <2>1. n \in DOMAIN log /\ log[n].ok /\ log[n] \in Observation
      BY <1>2, NewRow DEF Shape
    <2>2. log[n].price \in Nat /\ log[n].ship \in Nat \union {Null}
      BY <2>1, Observed, AmountAssumption
    <2> QED BY <2>2 DEF Landed
  <1>3. S \in SUBSET Nat
    BY <1>1, <1>2, LatestAreRows
  <1>4. S # {} /\ cents = CHOOSE p \in S : \A q \in S : p <= q
    BY <1>1 DEF UsedReference, Least
  <1>5. cents \in S
    <2> HIDE DEF S
    <2>1. \E p \in S : \A q \in S : p <= q
      BY <1>3, <1>4, LeastMember
    <2> QED BY <1>4, <2>1
  <1> QED BY <1>1, <1>5, LatestAreRows

(* For any pages in any order: a reference from another listing is recent,  *)
(* of the same variant in the same pack count and sold new, and never the   *)
(* offer's own; a used offer is measured against such a new one             *)
(* (resolve_cross_retailer, resolve_current_new_for_variant).               *)
THEOREM ReferencesCompare == Spec => []ReferenceIsComparable
  <1>1. ASSUME IInv, NEW o \in DOMAIN offers, NEW c \in CrossRetailer(o),
               o[2] # "", log[c.n].offer[2] # ""
        PROVE  /\ log[c.n].offer # o /\ log[c.n].at >= clock - CrossMaxAge
               /\ log[c.n].unit = ListingOf(o).unit /\ log[c.n].unit # Null
               /\ offers[log[c.n].offer].group = "NEW" /\ offers[o].group = "NEW"
               /\ ListingOf(log[c.n].offer).variant = ListingOf(o).variant
    <2> DEFINE rows == {n \in NewRows(o, CrossMaxAge) : Comparable(n, o)}
    <2>1. offers[o].group = "NEW"
      BY <1>1 DEF CrossRetailer
    <2>2. PICK f \in LatestPerRetailer(rows) :
              c \in CrossRetailerNew({Candidate(f[r]) : r \in DOMAIN f})
      BY <1>1, <2>1 DEF CrossRetailer
    <2>3. PICK r \in DOMAIN f : c = Candidate(f[r])
      BY <2>2 DEF CrossRetailerNew
    <2>4. c.n = f[r]
      BY <2>3 DEF Candidate
    <2>5. c.n \in rows
      <3> HIDE DEF rows
      <3> QED BY <2>2, <2>3, <2>4, LatestAreRows
    <2>6. log[c.n].unit = ListingOf(log[c.n].offer).unit
      BY <1>1, <2>5, NewRow, ObservedPack DEF IInv
    <2>7. ListingOf(log[c.n].offer).unit = ListingOf(o).unit /\ ListingOf(o).unit # Null
      BY <2>5 DEF Comparable
    <2>8. /\ log[c.n].offer # o /\ log[c.n].at >= clock - CrossMaxAge
          /\ offers[log[c.n].offer].group = "NEW"
          /\ ListingOf(log[c.n].offer).variant = ListingOf(o).variant
      BY <1>1, <2>5, NewRow DEF IInv
    <2> HIDE DEF rows
    <2> QED BY <2>1, <2>6, <2>7, <2>8
  <1>2. ASSUME IInv, NEW o \in DOMAIN offers, NEW cents \in CurrentNew(o) \ {Null}
        PROVE  \E n \in DOMAIN log :
                  /\ Landed(n) = cents /\ log[n].at >= clock - UsedMaxAge
                  /\ log[n].offer # o /\ offers[log[n].offer].group = "NEW"
                  /\ ListingOf(log[n].offer).variant = ListingOf(o).variant
    BY <1>2, LandedRow, NewRow DEF IInv
  <1>3. IInv => ReferenceIsComparable
    BY <1>1, <1>2 DEF ReferenceIsComparable
  <1> QED BY <1>3, CatalogInvariant, PTL

-----------------------------------------------------------------------------
(* Robots.                                                                  *)

(* The group of a line is one that opens no later, and no other opens in    *)
(* between.                                                                 *)
LEMMA GroupIsLast ==
    ASSUME NEW text, NEW i \in Nat \ {0}
    PROVE  LET g == Sites!GroupOf(text, i)
           IN  /\ g = 0 \/ (g \in 1..i /\ Sites!Opens(text, g))
               /\ \A j \in g + 1..i : ~Sites!Opens(text, j)
  <1> DEFINE S == {0} \cup {j \in 1..i : Sites!Opens(text, j)}
             g == Sites!GroupOf(text, i)
  <1>1. g = CHOOSE x \in S : \A y \in S : x >= y
    BY DEF Sites!GroupOf, Sites!Max
  <1>2. S \in SUBSET Nat /\ S # {} /\ \A x \in S : x <= i
    OBVIOUS
  <1>3. \E x \in S : \A y \in S : x >= y
    <2> HIDE DEF S
    <2>1. \E x \in S : \A y \in S : y <= x
      BY <1>2, GreatestMember
    <2> QED BY <1>2, <2>1
  <1>4. g \in S /\ \A y \in S : g >= y
    <2> HIDE DEF S, g
    <2> QED BY <1>1, <1>3
  <1> HIDE DEF g
  <1>5. \A j \in g + 1..i : ~Sites!Opens(text, j)
    BY <1>4
  <1> QED BY <1>4, <1>5 DEF g

(* A line is of the group after which no other has opened.                  *)
LEMMA GroupIsKept ==
    ASSUME NEW text, NEW g \in Nat \ {0}, Sites!Opens(text, g), NEW i \in Nat \ {0}, g <= i,
           \A j \in g + 1..i : ~Sites!Opens(text, j)
    PROVE  Sites!GroupOf(text, i) = g
  <1> DEFINE k == Sites!GroupOf(text, i)
  <1>1. /\ k = 0 \/ (k \in 1..i /\ Sites!Opens(text, k))
        /\ \A j \in k + 1..i : ~Sites!Opens(text, j)
    BY GroupIsLast
  <1> HIDE DEF k
  <1>2. ~(k < g)
    BY <1>1
  <1>3. ~(k > g)
    BY <1>1
  <1> QED BY <1>1, <1>2, <1>3 DEF k

(* The agent named last in a group is that of a line of the group, and no   *)
(* later user-agent line is of it.                                          *)
LEMMA LastAgentLine ==
    ASSUME NEW text \in RobotsTexts, NEW g \in DOMAIN text, Sites!Opens(text, g)
    PROVE  \E j \in DOMAIN text :
              /\ text[j].key = "user-agent" /\ text[j].value = Sites!LastAgent(text, g)
              /\ Sites!GroupOf(text, j) = g
              /\ \A k \in DOMAIN text :
                    text[k].key = "user-agent" /\ Sites!GroupOf(text, k) = g => k <= j
  <1> DEFINE S == {j \in DOMAIN text : /\ text[j].key = "user-agent"
                                       /\ Sites!GroupOf(text, j) = g}
  <1>1. Len(text) \in Nat /\ DOMAIN text = 1..Len(text)
    BY IntakeAssumption
  <1>2. g \in S
    <2>1. Sites!GroupOf(text, g) = g
      BY <1>1, GroupIsKept
    <2> QED BY <2>1 DEF Sites!Opens
  <1>3. S \in SUBSET Nat /\ \A j \in S : j <= Len(text)
    BY <1>1
  <1>4. Sites!LastAgent(text, g) = text[CHOOSE x \in S : \A y \in S : x >= y].value
    BY DEF Sites!LastAgent, Sites!Max
  <1>5. PICK j \in S : j = (CHOOSE x \in S : \A y \in S : x >= y) /\ \A y \in S : j >= y
    <2> HIDE DEF S
    <2>1. \E x \in S : \A y \in S : y <= x
      BY <1>1, <1>2, <1>3, GreatestMember
    <2>2. \E x \in S : \A y \in S : x >= y
      BY <1>3, <2>1
    <2> QED BY <2>2
  <1>6. \A k \in DOMAIN text :
            text[k].key = "user-agent" /\ Sites!GroupOf(text, k) = g => k <= j
    <2>1. \A k \in S : k <= j
      <3> HIDE DEF S
      <3> QED BY <1>3, <1>5
    <2> QED BY <2>1
  <1> QED BY <1>4, <1>5, <1>6

(* In a group, no user-agent line follows a line of another kind.           *)
LEMMA AgentsComeFirst ==
    ASSUME NEW text \in RobotsTexts, NEW i \in DOMAIN text, NEW j \in DOMAIN text,
           Sites!GroupOf(text, i) = Sites!GroupOf(text, j), Sites!GroupOf(text, i) # 0,
           text[i].key # "user-agent", text[j].key = "user-agent"
    PROVE  j < i
  <1> DEFINE g == Sites!GroupOf(text, i)
             U == {m \in i + 1..j : text[m].key = "user-agent"}
  <1>1. Len(text) \in Nat /\ DOMAIN text = 1..Len(text) /\ i \in Nat \ {0} /\ j \in Nat \ {0}
    BY IntakeAssumption
  <1>2. g \in 1..i
    BY <1>1, GroupIsLast
  <1>3. \A m \in g + 1..j : ~Sites!Opens(text, m)
    BY <1>1, GroupIsLast
  <1> HIDE DEF g
  <1>4. ASSUME i < j PROVE FALSE
    <2>1. U \in SUBSET Nat /\ j \in U
      BY <1>1, <1>4
    <2>2. PICK m \in U : \A n \in U : m <= n
      <3> HIDE DEF U
      <3> QED BY <2>1, LeastMember
    <2>3. m \in i + 1..j /\ text[m].key = "user-agent"
      OBVIOUS
    <2>4. text[m - 1].key # "user-agent"
      <3>1. CASE m - 1 = i
        BY <3>1
      <3>2. CASE m - 1 # i
        <4>1. m - 1 \in i + 1..j /\ m - 1 \notin U
          <5>1. m - 1 \in i + 1..j /\ ~(m <= m - 1)
            BY <1>1, <2>3, <3>2
          <5> HIDE DEF U
          <5> QED BY <2>2, <5>1
        <4> QED BY <4>1
      <3> QED BY <3>1, <3>2
    <2>5. Sites!Opens(text, m) /\ m \in g + 1..j
      BY <1>1, <1>2, <2>3, <2>4 DEF Sites!Opens
    <2> QED BY <1>3, <2>5
  <1> QED BY <1>1, <1>4

(* A site is not crawled if a group of its robots.txt whose last agent is a *)
(* named one shuts every page out, if a page is shut out for all, or if the *)
(* text cannot be had, for texts of any length and groups of any size       *)
(* (check_admission).                                                       *)
THEOREM ClosedSitesAreNotCrawled == Spec => []ClosedSitesAreLeftAlone
  <1>1. ASSUME NEW text \in RobotsTexts, NEW g \in DOMAIN text, Sites!Opens(text, g),
               Sites!LastAgent(text, g) \in NamedAgents, NEW i \in DOMAIN text,
               Sites!GroupOf(text, i) = g, text[i].key = "disallow",
               text[i].value \in Sites!Whole
        PROVE  \E agent \in NamedAgents : Sites!GroupDisallowsEverything(text, agent)
    <2>1. PICK j \in DOMAIN text :
              /\ text[j].key = "user-agent" /\ text[j].value = Sites!LastAgent(text, g)
              /\ Sites!GroupOf(text, j) = g
              /\ \A k \in DOMAIN text :
                    text[k].key = "user-agent" /\ Sites!GroupOf(text, k) = g => k <= j
      BY <1>1, LastAgentLine
    <2>2. /\ Len(text) \in Nat /\ DOMAIN text = 1..Len(text) /\ g \in Nat \ {0}
          /\ i \in Nat \ {0} /\ j \in Nat \ {0}
      BY IntakeAssumption
    <2>3. j < i
      BY <1>1, <2>1, <2>2, AgentsComeFirst
    <2>4. \A m \in g + 1..i : ~Sites!Opens(text, m)
      BY <1>1, <2>2, GroupIsLast
    <2>5. g <= j
      BY <2>1, <2>2, GroupIsLast
    <2>6. ASSUME NEW m \in j + 1..i - 1, text[m].key = "user-agent" PROVE FALSE
      <3>1. m \in DOMAIN text /\ m \in Nat \ {0} /\ g <= m /\ m <= i /\ ~(m <= j)
        BY <2>2, <2>5
      <3>2. \A k \in g + 1..m : ~Sites!Opens(text, k)
        BY <2>2, <2>4, <3>1
      <3>3. Sites!GroupOf(text, m) = g
        BY <1>1, <2>2, <3>1, <3>2, GroupIsKept
      <3> QED BY <2>1, <2>6, <3>1, <3>3
    <2>7. Sites!ShutsOutLine(text[i])
      BY <1>1 DEF Sites!ShutsOutLine
    <2>8. Sites!GroupDisallowsEverything(text, Sites!LastAgent(text, g))
      BY <2>1, <2>3, <2>6, <2>7 DEF Sites!GroupDisallowsEverything
    <2> QED BY <1>1, <2>8
  <1>2. ASSUME NEW text, NEW prefixes, NEW g \in {Sites!GroupFor(text, "*")} \ {0},
               ~Sites!Allows(text, g, prefixes)
        PROVE  ~Sites!CanFetch(text, "*", prefixes)
    BY <1>2 DEF Sites!CanFetch
  <1>3. Sites!ClosedSitesAreLeftAlone(RobotsTexts, SitePaths)
    BY <1>1, <1>2 DEF Sites!ClosedSitesAreLeftAlone, Sites!Admits, Sites!RobotsText
  <1>4. ClosedSitesAreLeftAlone
    BY <1>3 DEF ClosedSitesAreLeftAlone
  <1> QED BY <1>4, PTL

-----------------------------------------------------------------------------
(* Adapters.                                                                *)

(* A product whose variants with a price do not differ in it.               *)
LEMMA OnePrice ==
    ASSUME NEW p, ~Parsers!IsRange(p),
           NEW i \in Parsers!Priced(p), NEW j \in Parsers!Priced(p)
    PROVE  p.variants[i].price = p.variants[j].price
  BY DEF Parsers!IsRange, Parsers!Prices

(* The row of a product without a range is that of a variant with a price.  *)
LEMMA RowOfPriced ==
    ASSUME NEW p \in Parsers!Product, ~Parsers!IsRange(p), Parsers!Priced(p) # {}
    PROVE  \E r \in Parsers!Priced(p) : Parsers!Representative(p) = p.variants[r]
  <1> DEFINE price(i) == p.variants[i].price
             S == Parsers!Offered(p)
             least(i) == \A j \in S : price(i) < price(j) \/ (price(i) = price(j) /\ i <= j)
  <1>1. S # {} /\ S \subseteq Parsers!Priced(p)
    BY DEF Parsers!Offered
  <1>2. S \in SUBSET Nat
    <2>1. p.variants \in Seq(Parsers!Variant)
      BY DEF Parsers!Product
    <2>2. DOMAIN p.variants \subseteq Nat
      BY <2>1
    <2> QED BY <1>1, <2>2 DEF Parsers!Priced
  <1>3. PICK i \in S : \A j \in S : i <= j
    <2> HIDE DEF S
    <2> QED BY <1>1, <1>2, LeastMember
  <1>4. least(i)
    BY <1>1, <1>3, OnePrice
  <1>5. Parsers!Representative(p) = p.variants[CHOOSE k \in S : least(k)]
    BY DEF Parsers!Representative
  <1>6. (CHOOSE k \in S : least(k)) \in S
    <2> HIDE DEF least, S
    <2> QED BY <1>4
  <1> HIDE DEF least, S
  <1> QED BY <1>1, <1>5, <1>6

(* A grid row that counts as an observation has the price and the claim     *)
(* that the product page has, for products of any number of variants and    *)
(* any amounts (parse_collection_products_json, parse_product_js).          *)
THEOREM GridsAgreeWithPages == Spec => []FirmRowsAgree
  <1>1. ASSUME NEW p \in SiteProducts, Parsers!Listed("shopify", p),
               Parsers!Eligible(Parsers!CollectionRow(p))
        PROVE  LET row == Parsers!CollectionRow(p)
                   priced == {l \in Parsers!Listings("shopify", p, TRUE) :
                                  l.price # Parsers!Null}
               IN  /\ \A l \in priced : l.price = row.price
                   /\ \E l \in priced : l.claimed = row.claimed
    <2> DEFINE row == Parsers!CollectionRow(p)
               page(i) == Parsers!ProductJs(p.variants[i])
    <2>1. /\ ~Parsers!IsRange(p) /\ row.price # Parsers!Null /\ row.claimed # Parsers!Null
          /\ Parsers!Priced(p) # {}
      BY <1>1 DEF Parsers!Listed, Parsers!Eligible, Parsers!CollectionRow
    <2>2. PICK r \in Parsers!Priced(p) : Parsers!Representative(p) = p.variants[r]
      BY <2>1, RowOfPriced, IntakeAssumption
    <2>3. /\ row.price = p.variants[r].price
          /\ row.claimed = Parsers!Above(p.variants[r].was, p.variants[r].price)
      BY <2>2 DEF Parsers!CollectionRow
    <2>4. Parsers!Listings("shopify", p, TRUE) = {page(i) : i \in DOMAIN p.variants}
      BY DEF Parsers!Listings, Parsers!ListingOf
    <2>5. \A i \in DOMAIN p.variants :
             page(i).price # Parsers!Null
               => i \in Parsers!Priced(p) /\ page(i).price = p.variants[i].price
      BY DEF Parsers!ProductJs, Parsers!Listing, Parsers!Priced, Parsers!Positive
    <2>6. /\ r \in DOMAIN p.variants /\ page(r).price # Parsers!Null
          /\ page(r).claimed = row.claimed
      BY <2>2, <2>3 DEF Parsers!ProductJs, Parsers!Listing, Parsers!Priced, Parsers!Positive
    <2>7. \A i \in DOMAIN p.variants :
             page(i).price # Parsers!Null => page(i).price = row.price
      BY <2>1, <2>3, <2>5, OnePrice
    <2> HIDE DEF row, page
    <2>8. LET priced == {l \in Parsers!Listings("shopify", p, TRUE) :
                             l.price # Parsers!Null}
          IN  /\ \A l \in priced : l.price = row.price
              /\ \E l \in priced : l.claimed = row.claimed
      BY <2>4, <2>6, <2>7
    <2> QED BY <2>8 DEF row
  <1>2. FirmRowsAgree
    BY <1>1 DEF FirmRowsAgree, Parsers!FirmRowsAgree
  <1> QED BY <1>2, PTL

(* The variants of a product: there is a first one, and amounts are         *)
(* naturals or none.                                                        *)
LEMMA VariantShape ==
    ASSUME NEW p \in PageProducts
    PROVE  /\ p \in Parsers!Product /\ 1 \in DOMAIN p.variants
           /\ DOMAIN p.variants \subseteq Nat \ {0}
           /\ \A i \in DOMAIN p.variants : /\ p.variants[i].price \in Nat \union {Parsers!Null}
                                           /\ p.variants[i].was \in Nat \union {Parsers!Null}
  <1>1. p \in Parsers!Product
    BY IntakeAssumption
  <1>2. p.variants \in Seq(Parsers!Variant) /\ p.variants # << >>
    BY <1>1 DEF Parsers!Product
  <1>3. Len(p.variants) \in Nat \ {0} /\ DOMAIN p.variants = 1..Len(p.variants)
    BY <1>2
  <1>4. \A i \in DOMAIN p.variants : p.variants[i] \in Parsers!Variant
    BY <1>2, <1>3
  <1>5. \A v \in Parsers!Variant : /\ v.price \in Nat \union {Parsers!Null}
                                   /\ v.was \in Nat \union {Parsers!Null}
    BY IntakeAssumption DEF Parsers!Variant, Parsers!Null, Null
  <1> QED BY <1>1, <1>3, <1>4, <1>5

(* A price and a claim of one variant.                                      *)
OfOneVariant(p, item) ==
    \E i \in DOMAIN p.variants :
        p.variants[i].price = item.price /\ p.variants[i].was = item.claimed

(* The lower ends of a cell that shows one price: those of a variant that   *)
(* has it.                                                                  *)
LEMMA CellsArePaired ==
    ASSUME NEW p \in PageProducts, p.extremes, Parsers!Eligible(Parsers!ItemCellRow(p))
    PROVE  OfOneVariant(p, Parsers!ItemCellRow(p))
  <1> DEFINE row == Parsers!ItemCellRow(p)
             W == {p.variants[i].was : i \in Parsers!Priced(p)}
             A == W \ {Parsers!Null}
  <1>1. /\ ~Parsers!IsRange(p)
        /\ row.price = Parsers!Positive(p.variants[1].price) /\ row.price # Parsers!Null
        /\ row.claimed = Parsers!Positive(Parsers!Least(W)) /\ row.claimed # Parsers!Null
    BY DEF Parsers!Eligible, Parsers!ItemCellRow, Parsers!CellPrice, Parsers!CellWas,
           Parsers!Shown
  <1>2. 1 \in Parsers!Priced(p) /\ row.price = p.variants[1].price
    BY <1>1, VariantShape DEF Parsers!Priced, Parsers!Positive
  <1>3. row.claimed = Parsers!Least(W) /\ Parsers!Least(W) # Parsers!Null
    BY <1>1 DEF Parsers!Positive
  <1>4. A \in SUBSET Nat /\ A # {} /\ row.claimed = CHOOSE x \in A : \A y \in A : x <= y
    <2>1. A \in SUBSET Nat
      BY VariantShape DEF Parsers!Priced
    <2> HIDE DEF W, row
    <2>2. A # {} /\ row.claimed = CHOOSE x \in A : \A y \in A : x <= y
      BY <1>3 DEF Parsers!Least, Parsers!Min
    <2> QED BY <2>1, <2>2
  <1>5. row.claimed \in A
    <2> HIDE DEF A, row
    <2>1. \E x \in A : \A y \in A : x <= y
      BY <1>4, LeastMember
    <2> QED BY <1>4, <2>1
  <1>6. PICK i \in Parsers!Priced(p) : row.claimed = p.variants[i].was
    BY <1>5
  <1>7. p.variants[i].price = row.price
    BY <1>1, <1>2, <1>6, OnePrice
  <1>8. i \in DOMAIN p.variants
    BY <1>6 DEF Parsers!Priced
  <1> QED BY <1>6, <1>7, <1>8 DEF OfOneVariant

(* Rows that are read off the variant that is shown.                        *)
LEMMA ShownIsOne ==
    ASSUME NEW p \in PageProducts, NEW item,
           item.price = Parsers!Positive(p.variants[1].price)
              \/ item.price = p.variants[1].price,
           item.claimed = Parsers!Positive(p.variants[1].was)
              \/ item.claimed = Parsers!Above(p.variants[1].was, p.variants[1].price),
           item.price # Parsers!Null, item.claimed # Parsers!Null
    PROVE  OfOneVariant(p, item)
  <1>1. item.price = p.variants[1].price /\ item.claimed = p.variants[1].was
    BY DEF Parsers!Positive, Parsers!Above
  <1> QED BY <1>1, VariantShape DEF OfOneVariant

(* A grid row that is an observation.                                       *)
LEMMA RowsArePaired ==
    ASSUME NEW p \in PageProducts, NEW retailer \in Parsers!Retailers \ Parsers!ProductsOnly,
           Parsers!Listed(retailer, p), Parsers!Eligible(Parsers!RowOf(retailer, p))
    PROVE  OfOneVariant(p, Parsers!RowOf(retailer, p))
  <1> DEFINE row == Parsers!RowOf(retailer, p)
  <1>1. ~row.range /\ row.price # Parsers!Null /\ row.claimed # Parsers!Null
    BY DEF Parsers!Eligible
  <1>2. CASE retailer = "shopify"
    <2>1. row = Parsers!CollectionRow(p) /\ Parsers!Priced(p) # {}
      BY <1>2 DEF Parsers!RowOf, Parsers!Listed
    <2>2. ~Parsers!IsRange(p)
      BY <1>1, <2>1 DEF Parsers!CollectionRow
    <2>3. PICK i \in Parsers!Priced(p) : Parsers!Representative(p) = p.variants[i]
      BY <2>1, <2>2, RowOfPriced, VariantShape
    <2>4. /\ row.price = p.variants[i].price
          /\ row.claimed = Parsers!Above(p.variants[i].was, p.variants[i].price)
      BY <2>1, <2>3 DEF Parsers!CollectionRow
    <2>5. row.claimed = p.variants[i].was /\ i \in DOMAIN p.variants
      BY <1>1, <2>4 DEF Parsers!Above, Parsers!Positive, Parsers!Priced
    <2> QED BY <2>4, <2>5 DEF OfOneVariant
  <1>3. CASE retailer \in {"coveo", "dicks"}
    <2>1. /\ row.price = p.variants[1].price
          /\ row.claimed = Parsers!Above(p.variants[1].was, p.variants[1].price)
      BY <1>3 DEF Parsers!RowOf, Parsers!CoveoRow, Parsers!CatalogRow, Parsers!Shown
    <2> QED BY <1>1, <2>1, ShownIsOne
  <1>4. CASE retailer = "tackle"
    <2>1. /\ row.price = Parsers!Positive(p.variants[1].price)
          /\ row.claimed = Parsers!Positive(p.variants[1].was)
      BY <1>4 DEF Parsers!RowOf, Parsers!CellRow, Parsers!Shown
    <2> QED BY <1>1, <2>1, ShownIsOne
  <1>5. CASE retailer = "guide"
    <2>1. /\ row.price = Parsers!Positive(p.variants[1].price)
          /\ row.claimed = Parsers!Above(p.variants[1].was, p.variants[1].price)
      BY <1>5 DEF Parsers!RowOf, Parsers!TileRow, Parsers!Shown
    <2> QED BY <1>1, <2>1, ShownIsOne
  <1>6. CASE retailer = "warehouse"
    <2>1. row = Parsers!ItemCellRow(p)
      BY <1>6 DEF Parsers!RowOf
    <2>2. CASE p.extremes
      BY <2>1, <2>2, CellsArePaired
    <2>3. CASE ~p.extremes
      <3>1. /\ row.price = Parsers!Positive(p.variants[1].price)
            /\ row.claimed = Parsers!Positive(p.variants[1].was)
        BY <2>1, <2>3 DEF Parsers!ItemCellRow, Parsers!Shown
      <3> QED BY <1>1, <3>1, ShownIsOne
    <2> QED BY <2>2, <2>3
  <1>7. CASE retailer \in {"jandh", "academy"}
    BY <1>1, <1>7 DEF Parsers!RowOf, Parsers!CardRow, Parsers!ItemRow
  <1> QED BY <1>2, <1>3, <1>4, <1>5, <1>6, <1>7 DEF Parsers!Retailers, Parsers!ProductsOnly

(* A listing of a product page.                                             *)
LEMMA ListingsArePaired ==
    ASSUME NEW p \in PageProducts, NEW retailer, NEW shaped,
           NEW l \in Parsers!Listings(retailer, p, shaped),
           l.price # Parsers!Null, l.claimed # Parsers!Null
    PROVE  OfOneVariant(p, l)
  <1>1. CASE retailer = "stencil"
    <2>1. l = Parsers!StencilListing(p)
      BY <1>1 DEF Parsers!Listings
    <2>2. /\ l.price = Parsers!Positive(p.variants[1].price)
          /\ l.claimed = Parsers!Positive(p.variants[1].was)
      BY <2>1 DEF Parsers!StencilListing, Parsers!Listing, Parsers!Shown
    <2> QED BY <2>2, ShownIsOne
  <1>2. CASE retailer # "stencil"
    <2>1. PICK i \in DOMAIN p.variants :
              l = Parsers!ListingOf(retailer, p, p.variants[i], shaped)
      BY <1>2 DEF Parsers!Listings
    <2> DEFINE v == p.variants[i]
    <2>2. CASE l = Parsers!ProductJs(v)
      <3>1. l.price = v.price /\ l.claimed = v.was
        BY <2>2 DEF Parsers!ProductJs, Parsers!Listing, Parsers!Positive, Parsers!Above
      <3> QED BY <3>1 DEF OfOneVariant
    <2>3. CASE l = Parsers!Subproduct(p, v)
      <3>1. l.price = v.price /\ l.claimed = v.was
        BY <2>3 DEF Parsers!Subproduct, Parsers!Listing, Parsers!Positive
      <3> QED BY <3>1 DEF OfOneVariant
    <2>4. CASE l \in {Parsers!LowPriced(p), Parsers!PlainListing(retailer, p, v)}
      BY <2>4 DEF Parsers!LowPriced, Parsers!PlainListing, Parsers!Listing
    <2> QED BY <2>1, <2>2, <2>3, <2>4 DEF Parsers!ListingOf
  <1> QED BY <1>1, <1>2

(* For products of any number of variants and any amounts, and whatever the *)
(* response: a price and a claim that are ingested together are of one      *)
(* variant, the two lower ends of Sportsman's Warehouse's ranges too        *)
(* (is_eligible_for_listing_ingest, the parsers of fpt/adapters).           *)
THEOREM DiscountsAreOffered == Spec => []DiscountsAreOfOneVariant
  <1>1. ASSUME NEW retailer \in Parsers!Retailers, NEW r, NEW p \in PageProducts,
               NEW item \in Parsers!Taken(retailer, r, {p}),
               IF r.kind = "grid" \/ retailer \in Parsers!GridsOnly
               THEN Parsers!Eligible(item)
               ELSE item.price # Parsers!Null /\ item.claimed # Parsers!Null
        PROVE  OfOneVariant(p, item)
    <2>1. item \in Parsers!Parse(retailer, r, {p}).found
      BY <1>1 DEF Parsers!Taken
    <2>2. CASE r.kind = "grid" \/ retailer \in Parsers!GridsOnly
      <3>1. item \in Parsers!Rows(retailer, {p}) /\ Parsers!Gate(retailer, r) = "OK"
        BY <2>1, <2>2 DEF Parsers!Parse
      <3>2. retailer \notin Parsers!ProductsOnly
        BY <2>2, <3>1 DEF Parsers!Gate, Parsers!ProductsOnly, Parsers!GridsOnly
      <3>3. Parsers!Listed(retailer, p) /\ item = Parsers!RowOf(retailer, p)
        BY <3>1 DEF Parsers!Rows
      <3> QED BY <1>1, <2>2, <3>2, <3>3, RowsArePaired
    <2>3. CASE ~(r.kind = "grid" \/ retailer \in Parsers!GridsOnly)
      <3>1. item \in Parsers!Listings(retailer, p, r.shaped)
        BY <2>1, <2>3 DEF Parsers!Parse
      <3> QED BY <1>1, <2>3, <3>1, ListingsArePaired
    <2> QED BY <2>2, <2>3
  <1>2. DiscountsAreOfOneVariant
    BY <1>1 DEF DiscountsAreOfOneVariant, Parsers!DiscountsAreOfOneVariant, OfOneVariant
  <1> QED BY <1>2, PTL
=============================================================================
