------------------------------ MODULE Adapters ------------------------------
(***************************************************************************)
(* From a response to what is taken from it: the checks around a fetch     *)
(* (fpt/fetch/url_safety.py, fpt/fetch/blocks.py), the retailers' parsers  *)
(* (fpt/adapters) and the choice of the grid rows that count as            *)
(* observations (fpt/scheduler/listing_ingest.py).                         *)
(*                                                                         *)
(* A site knows its products by their variants.  A grid page shows each    *)
(* product once, a product page shows one product with every variant.  The *)
(* parsers differ in what they read of it and in what they do with a page  *)
(* they cannot read.                                                       *)
(***************************************************************************)
EXTENDS Integers, Sequences, FiniteSetsExt

Null == -1

(* One name per parser: shopify is that of all Shopify shops, coveo that of *)
(* Bass Pro and Cabela's, stencil that of AllTackle and TackleDirect, guide *)
(* and warehouse those of Sportsman's Guide and Sportsman's Warehouse.      *)
Retailers == {"shopify", "coveo", "dicks", "jandh", "academy", "tackle",
              "stencil", "fishusa", "guide", "warehouse"}

(* Amounts as the site writes them; Null is none at all.                    *)
CONSTANT Amounts

Variant == [price : Amounts, was : Amounts, available : BOOLEAN]

(* link: where its link leads.  decoy: the price is shown in the cart only. *)
(* extremes: the grid gives the least and the greatest of the amounts.      *)
Product == [variants : Seq(Variant) \ {<< >>},
            link : {"none", "elsewhere", "shop"},
            decoy : BOOLEAN, extremes : BOOLEAN, used : BOOLEAN, closeout : BOOLEAN]

(* safe: the URL asked for, home: the URL it ended at, is one of the shop.  *)
(* sentinel: the markup a parser looks for.  shaped: the data in it can be  *)
(* decoded.  signature: a challenge that both lists of signatures know, or  *)
(* that only the one of blocks.py knows.                                    *)
Response ==
    {r \in [kind : {"grid", "product"}, safe : BOOLEAN, home : BOOLEAN,
            status : {200, 403, 404, 429, 503},
            signature : {"none", "captcha", "press and hold"},
            sentinel : BOOLEAN, blank : BOOLEAN, shaped : BOOLEAN] :
        r.blank => ~r.sentinel /\ ~r.shaped /\ r.signature = "none"}

-----------------------------------------------------------------------------
(* Amounts in cents.                                                        *)

(* parse_price_cents, _cents_field_to_int, dollars_to_cents: no price is    *)
(* zero.                                                                    *)
Positive(raw) == IF raw > 0 THEN raw ELSE Null

(* Academy and J&H take the number as it is.                                *)
Cents(retailer, raw) == IF retailer \in {"jandh", "academy"} THEN raw ELSE Positive(raw)

(* The "was" price, where it is a claim of more than the price.             *)
Above(was, price) == IF Positive(was) > price THEN Positive(was) ELSE Null

-----------------------------------------------------------------------------
(* Rows of a grid.                                                          *)

Row == [price : Amounts, range : BOOLEAN, claimed : Amounts, used : BOOLEAN]

(* The variants that have a price, and those to choose from, by place.      *)
Priced(product) ==
    {i \in DOMAIN product.variants : Positive(product.variants[i].price) # Null}

Offered(product) ==
    LET there == {i \in Priced(product) : product.variants[i].available}
    IN  IF there = {} THEN Priced(product) ELSE there

(* min() keeps the first of those that cost the same.                       *)
Representative(product) ==
    LET price(i) == product.variants[i].price
    IN  product.variants[CHOOSE i \in Offered(product) : \A j \in Offered(product) :
                             price(i) < price(j) \/ (price(i) = price(j) /\ i <= j)]

Prices(product, places) == {product.variants[i].price : i \in places}

(* Faulty: variants that are sold out do not count.                         *)
IsRangeOfOffered(product) == \E a, b \in Prices(product, Offered(product)) : a # b

IsRange(product) == \E a, b \in Prices(product, Priced(product)) : a # b

(* parse_collection_products_json.                                          *)
CollectionRow(product) ==
    LET v == Representative(product)
    IN  [price |-> v.price, range |-> IsRange(product),
         claimed |-> Above(v.was, v.price), used |-> FALSE]

(* The variant a search result or a grid cell shows.                        *)
Shown(product) == product.variants[1]

(* parse_coveo_search_json.                                                 *)
CoveoRow(product) ==
    LET v == Shown(product)
    IN  [price |-> v.price, range |-> product.extremes /\ IsRange(product),
         claimed |-> Above(v.was, v.price), used |-> FALSE]

(* parse_product_catalog_search_json of dicks.py.                           *)
CatalogRow(product) ==
    LET v == Shown(product)
    IN  [price |-> v.price, range |-> FALSE,
         claimed |-> Above(v.was, v.price), used |-> FALSE]

(* The least amount the site gives.                                         *)
Least(amounts) == IF amounts \ {Null} = {} THEN Null ELSE Min(amounts \ {Null})

Lowest(product) == Least(Prices(product, DOMAIN product.variants))

(* J&H's cards: "from" the least price, and never a claim.                  *)
CardRow(product) ==
    [price |-> Lowest(product), range |-> IsRange(product),
     claimed |-> Null, used |-> FALSE]

(* Academy's ItemList: one price, of which variant is not known.            *)
ItemRow(product) ==
    [price |-> Shown(product).price, range |-> TRUE, claimed |-> Null, used |-> FALSE]

(* Tackle Warehouse's cells: any crossed-out price is a claim.              *)
CellRow(product) ==
    LET v == Shown(product)
    IN  [price |-> Positive(v.price), range |-> FALSE, claimed |-> Positive(v.was),
         used |-> product.used]

(* Sportsman's Guide's tiles: only a claim of more than the price is shown. *)
TileRow(product) ==
    LET v == Shown(product)
    IN  [price |-> Positive(v.price), range |-> FALSE,
         claimed |-> Above(v.was, v.price), used |-> FALSE]

(* Sportsman's Warehouse's cells: where the site shows ranges, the lower    *)
(* end of each is read; that the crossed-out price was one is forgotten.    *)
CellPrice(product) == IF IsRange(product) THEN Lowest(product) ELSE Shown(product).price

CellWas(product) == Least({product.variants[i].was : i \in Priced(product)})

(* Faulty: that the price is the end of a range is forgotten as well.       *)
ItemCellRowFirm(product) ==
    [price |-> Positive(IF product.extremes THEN CellPrice(product) ELSE Shown(product).price),
     range |-> FALSE,
     claimed |-> Positive(IF product.extremes THEN CellWas(product) ELSE Shown(product).was),
     used |-> FALSE]

ItemCellRow(product) ==
    [price |-> Positive(IF product.extremes THEN CellPrice(product) ELSE Shown(product).price),
     range |-> product.extremes /\ IsRange(product),
     claimed |-> Positive(IF product.extremes THEN CellWas(product) ELSE Shown(product).was),
     used |-> FALSE]

RowOf(retailer, product) ==
    CASE retailer = "shopify" -> CollectionRow(product)
      [] retailer = "coveo" -> CoveoRow(product)
      [] retailer = "dicks" -> CatalogRow(product)
      [] retailer = "jandh" -> CardRow(product)
      [] retailer = "academy" -> ItemRow(product)
      [] retailer = "tackle" -> CellRow(product)
      [] retailer = "guide" -> TileRow(product)
      [] retailer = "warehouse" -> ItemCellRow(product)

(* The products that are not left out of a grid.  J&H replaces a link that  *)
(* leads elsewhere by the grid's own URL, and Academy, Sportsman's Guide    *)
(* and Sportsman's Warehouse also a missing one.                            *)
Listed(retailer, product) ==
    CASE retailer = "shopify" -> Priced(product) # {} /\ product.link = "shop"
      [] retailer = "coveo" -> Positive(Shown(product).price) # Null /\ product.link = "shop"
      [] retailer = "dicks" -> ~product.decoy /\ product.link = "shop"
                               /\ Positive(Shown(product).price) # Null
      [] retailer \in {"jandh", "tackle"} -> product.link # "none"
      [] retailer = "guide" -> product.closeout /\ TileRow(product).price # Null
                               /\ TileRow(product).claimed # Null
      [] retailer \in {"academy", "warehouse"} -> TRUE

Rows(retailer, products) ==
    {RowOf(retailer, p) : p \in {q \in products : Listed(retailer, q)}}

(* is_eligible_for_listing_ingest: the rows that are observations.          *)
Eligible(row) == row.price # Null /\ ~row.range /\ row.claimed # Null

-----------------------------------------------------------------------------
(* Listings of a product page: one per variant, where the page shows them.  *)

Listing(price, claimed, available, clearance, used) ==
    [price |-> price, claimed |-> claimed, available |-> available,
     clearance |-> clearance, used |-> used]

(* parse_product_js.                                                        *)
ProductJs(v) ==
    LET price == Positive(v.price)
        claimed == IF price = Null THEN Null ELSE Above(v.was, price)
    IN  Listing(price, claimed, v.available, claimed # Null, FALSE)

(* _parse_product of tackle_warehouse.py, with the MSRP of a used item in   *)
(* its text.                                                                *)
Subproduct(product, v) ==
    LET claimed == IF product.used \/ product.closeout THEN Positive(v.was) ELSE Null
    IN  Listing(Positive(v.price), claimed, v.available,
                product.used \/ product.closeout, product.used)

(* The one listing of a Stencil page.  Where there are variants, the price  *)
(* is filled in by a script: the page itself has none.                      *)
StencilListing(product) ==
    LET v == Shown(product)
        claimed == Positive(v.was)
    IN  Listing(IF Len(product.variants) = 1 THEN Positive(v.price) ELSE Null,
                claimed, v.available, claimed # Null, FALSE)

(* J&H, Academy and FishUSA make no claims.                                 *)
PlainListing(retailer, product, v) ==
    Listing(Cents(retailer, v.price), Null, v.available, FALSE,
            retailer = "academy" /\ product.used)

(* J&H's fallback when the page has no ProductJson: everything costs the    *)
(* least, and may or may not be there.                                      *)
LowPriced(product) == Listing(Lowest(product), Null, FALSE, FALSE, FALSE)

ListingOf(retailer, product, v, shaped) ==
    CASE retailer = "shopify" -> ProductJs(v)
      [] retailer = "tackle" -> Subproduct(product, v)
      [] retailer = "jandh" /\ ~shaped -> LowPriced(product)
      [] OTHER -> PlainListing(retailer, product, v)

Listings(retailer, product, shaped) ==
    IF retailer = "stencil"
    THEN {l \in {StencilListing(product)} : l.price # Null}
    ELSE {ListingOf(retailer, product, product.variants[i], shaped) :
            i \in DOMAIN product.variants}

-----------------------------------------------------------------------------
(* The page as a whole.                                                     *)

Signed(r) == r.signature # "none"

(* detect_block_or_empty.                                                   *)
DetectBlockOrEmpty(r) ==
    IF Signed(r) \/ r.status \in {403, 429} THEN "BLOCKED"
    ELSE IF r.status = 404 THEN "NOT_FOUND"
    ELSE IF ~r.sentinel \/ r.blank THEN "EMPTY" ELSE "OK"

(* is_blocked of the adapters, whose list of signatures is shorter.         *)
IsBlocked(r) == r.signature = "captcha"

(* The adapters that read product pages only, and the grids only.           *)
ProductsOnly == {"stencil", "fishusa"}
GridsOnly == {"coveo", "dicks", "guide", "warehouse"}

(* What an adapter makes of a page before it looks for products.  Tackle    *)
(* Warehouse's looks at once; FishUSA's, Sportsman's Guide's and            *)
(* Sportsman's Warehouse's ask for the sentinels when they found nothing.   *)
(* Stencil pages count as blank when they have no title.                    *)
Gate(retailer, r) ==
    IF retailer = "tackle" THEN "OK"
    ELSE IF IsBlocked(r) THEN "BLOCKED"
    ELSE IF r.status = 404 THEN "NOT_FOUND"
    ELSE IF retailer \in ProductsOnly /\ r.kind = "grid" THEN "STRUCTURE_CHANGED"
    ELSE IF retailer \in {"fishusa", "guide", "warehouse"} THEN "OK"
    ELSE IF r.sentinel \/ (retailer = "academy" /\ r.shaped) THEN "OK"
    ELSE IF r.blank THEN "EMPTY" ELSE "STRUCTURE_CHANGED"

(* An empty collection is a page like any other at a Shopify shop alone.    *)
NothingFound(retailer, r) ==
    IF retailer = "shopify" /\ r.kind = "grid" /\ r.shaped THEN "OK"
    ELSE IF \/ retailer \in GridsOnly /\ r.shaped
            \/ retailer = "tackle"
            \/ retailer \in {"fishusa", "guide", "warehouse"} /\ ~r.sentinel
    THEN "EMPTY" ELSE "STRUCTURE_CHANGED"

(* The parse of each adapter, of a page that shows the given products.      *)
Parse(retailer, r, products) ==
    LET readable == \/ r.shaped
                    \/ retailer = "jandh" /\ r.kind = "product"
        found == IF Gate(retailer, r) # "OK" \/ ~readable THEN {}
                 ELSE IF r.kind = "grid" \/ retailer \in GridsOnly
                 THEN Rows(retailer, products)
                 ELSE UNION {Listings(retailer, p, r.shaped) : p \in products}
    IN  [outcome |-> IF Gate(retailer, r) # "OK" THEN Gate(retailer, r)
                     ELSE IF found = {} THEN NothingFound(retailer, r) ELSE "OK",
         found |-> found]

(* fetch_safely raises, or lets the response through.                       *)
FetchedSafely(r) == r.safe /\ r.home

(* The loop of fpt/cli.py over discovery pages and the drain of             *)
(* fpt/scheduler/queue.py: what they go on with.                            *)
Taken(retailer, r, products) ==
    IF FetchedSafely(r) /\ DetectBlockOrEmpty(r) = "OK"
    THEN Parse(retailer, r, products).found ELSE {}

-----------------------------------------------------------------------------

(* A grid row that is taken for an observation says what the product page   *)
(* says: its one price is the price of every variant that has one, whether  *)
(* it is sold out or not, and its claim is made there of that price.  The   *)
(* grid and the product endpoint of a Shopify shop are read by two parsers  *)
(* (parse_collection_products_json, parse_product_js); an observation of    *)
(* the grid confirms a deal that the product page would otherwise have to.  *)
FirmRowsAgree(products) ==
    \A p \in products :
        Listed("shopify", p) /\ Eligible(CollectionRow(p)) =>
            LET row == CollectionRow(p)
                priced == {l \in Listings("shopify", p, TRUE) : l.price # Null}
            IN  /\ \A l \in priced : l.price = row.price
                /\ \E l \in priced : l.claimed = row.claimed

(* A price and a claim that are ingested together are of one variant,       *)
(* whichever parser reads whatever response.  The parsers take the amounts  *)
(* of a row apart (the cheapest variant, the first one, the lower ends of   *)
(* two ranges): a discount between the price of one variant and the claim   *)
(* of another would be one that nobody is offered.                          *)
DiscountsAreOfOneVariant(products) ==
    \A retailer \in Retailers, r \in Response, p \in products :
        \A item \in Taken(retailer, r, {p}) :
            LET grid == r.kind = "grid" \/ retailer \in GridsOnly
                discount == IF grid THEN Eligible(item)
                            ELSE item.price # Null /\ item.claimed # Null
            IN  discount => \E i \in DOMAIN p.variants :
                               /\ p.variants[i].price = item.price
                               /\ p.variants[i].was = item.claimed
=============================================================================
