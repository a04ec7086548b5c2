------------------------------- MODULE Intake -------------------------------
(***************************************************************************)
(* What comes before a page is ingested, beside the shop that Catalog      *)
(* keeps: the admission of a site by its robots.txt (Robots), and what     *)
(* the parsers take from a response (Adapters).  Neither keeps state: the  *)
(* properties are of the texts, the responses and the products alone.      *)
(***************************************************************************)
EXTENDS Catalog

CONSTANTS
    NamedAgents,    \* NAMED_AGENT_GROUPS_TO_RESPECT
    Identified,     \* IDENTIFIED_USER_AGENT
    RobotsTexts,    \* the texts a robots.txt may have
    SitePaths,      \* the prefixes of each path that may be asked for
    Amounts,        \* the amounts that a site writes
    SiteProducts,   \* the products a grid may show
    PageProducts    \* the products a page may show

Sites == INSTANCE Robots
Parsers == INSTANCE Adapters

ASSUME IntakeAssumption ==
    /\ RobotsTexts \subseteq Seq([key : STRING, value : STRING])
    /\ Amounts \subseteq Nat \union {Null}
    /\ SiteProducts \subseteq Parsers!Product /\ PageProducts \subseteq Parsers!Product

(* The properties are of the constants alone: they are stated of the first  *)
(* states, so that they are evaluated once.                                 *)
Beginning == fetch = 0 /\ clock = 0

(* No site is crawled whose robots.txt shuts out a named agent that stands  *)
(* last in its group, whatever else the text says (fpt/fetch/robots.py).    *)
ClosedSitesAreLeftAlone == Beginning => Sites!ClosedSitesAreLeftAlone(RobotsTexts, SitePaths)

(* The grid rows that count as observations agree with the product pages    *)
(* (fpt/adapters/_shopify_collection.py).                                   *)
FirmRowsAgree == Beginning => Parsers!FirmRowsAgree(SiteProducts)

(* No discount is made up of two variants' amounts, whichever adapter reads *)
(* a page (fpt/adapters/sportsmans_warehouse.py, whose cells show ranges).  *)
DiscountsAreOfOneVariant == Beginning => Parsers!DiscountsAreOfOneVariant(PageProducts)
=============================================================================
