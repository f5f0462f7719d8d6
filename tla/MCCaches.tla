------------------------------- MODULE MCCaches -------------------------------
(***************************************************************************)
(* How old a copy in an isolate's memory can be: the model registry and    *)
(* the price table.  They are loaded, cached and invalidated apart, so     *)
(* they are checked apart: the initial state picks the one that moves.     *)
(***************************************************************************)
EXTENDS ModelConfig, TLC

CONSTANTS PricingIsolates, Mimo, Rates, DefaultRate, NoRate

VARIABLES
    part,
    known, rates, priceCache, priceAge, partial,
    pricePc, priceHome, todo, price, priceGot, priceHeld, priceQuiet

pricingVars ==
    <<known, rates, priceCache, priceAge, partial,
      pricePc, priceHome, todo, price, priceGot, priceHeld, priceQuiet>>

Prices == INSTANCE Pricing WITH
    Isolates <- PricingIsolates, cache <- priceCache, age <- priceAge,
    pc <- pricePc, home <- priceHome, got <- priceGot, held <- priceHeld,
    quiet <- priceQuiet

ASSUME CachesAssumption == Prices!PricingAssumption

\* The one that stands still starts in one of its initial states.
CachesInit ==
    /\ Init /\ Prices!Init
    /\ part \in {"registry", "prices"}
    /\ part = "registry" => \A m \in Models : rates[m] = NoRate
    /\ part = "prices" => \A t, u \in Tasks : home[t] = home[u]

CachesNext ==
    /\ UNCHANGED part
    /\ \/ part = "registry" /\ Next /\ UNCHANGED pricingVars
       \/ part = "prices" /\ Prices!Next /\ UNCHANGED vars

CachesSpec == CachesInit /\ [][CachesNext]_<<part, vars, pricingVars>>

\* Every part of both machines keeps its type.
CachesTypeOK == TypeOK /\ Prices!TypeOK

\* A full copy of the registry or of the price table is as fresh as its age
\* and one load allow (listModelRows in ai/model-config.js, getPricingTable
\* in billing/store.js).
CopiesFresh == CacheFresh /\ Prices!PriceFresh

\* A partial copy still bills the models of the code at their saved rates.
BuiltInPriced == Prices!BuiltInPriced

Symmetry ==
    Permutations(Isolates) \cup Permutations(Tasks) \cup Permutations(Configs)
=============================================================================
