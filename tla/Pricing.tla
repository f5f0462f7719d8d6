-------------------------------- MODULE Pricing --------------------------------
(***************************************************************************)
(* The price table: table pricing_rates merged with the models of          *)
(* ai_models, its copy in the memory of every isolate and the saves that   *)
(* change it (src/src/billing/store.js, points.js).                        *)
(*                                                                         *)
(* The table is put together from two queries, each of which may fail      *)
(* alone, and is cached like the model registry.  Rates are opaque: what   *)
(* matters is which rate a model is billed at, and when.                   *)
(***************************************************************************)
EXTENDS Integers

CONSTANTS
    Isolates,
    Tasks,          \* requests that charge and saves, in flight
    Models,
    BuiltIn,        \* models priced by the code
    Mimo,           \* the one whose rate stands in for a missing one
    Rates,          \* what an administrator may save
    DefaultRate,    \* the rate of the code for a model
    NoRate,
    TTL,            \* CACHE_MS in ticks
    Latency         \* bound: ticks between the first query and the copy

PricingAssumption ==
    /\ BuiltIn \subseteq Models /\ Mimo \in BuiltIn
    /\ DefaultRate \notin Rates /\ NoRate \notin Rates \cup {DefaultRate}
    /\ TTL \in Nat \ {0}
    /\ Latency \in Nat

VARIABLES
    known,      \* ids in ai_models
    rates,      \* table pricing_rates
    cache,      \* cache.table of each isolate
    age,        \* ticks since cache.at, TTL when nothing is cached
    partial,    \* history: the copy was made although the first query failed
    pc,
    home,       \* the isolate a task runs in
    todo,       \* the models a save still has to price
    price,      \* the rate it saves
    got,        \* what a load read
    held,       \* history: ticks since its first query
    quiet       \* history: ticks since the last write about a model

copyVars == <<cache, age, partial>>
taskVars == <<pc, home, todo, price, got, held>>
vars == <<known, rates, copyVars, taskVars, quiet>>

Saved == Rates \cup {DefaultRate}

Tables == [Models -> Saved \cup {NoRate}]

NoTable == [m \in Models |-> NoRate]

NoGot == [dynamic |-> {}, failed |-> FALSE, table |-> NoTable]

Settled == TTL + Latency + 1

\* mergePricingTable, and the default for models without a row.
Merge(dynamic, saved) ==
    [m \in Models |->
        IF m \notin BuiltIn \cup dynamic THEN NoRate
        ELSE IF saved[m] # NoRate THEN saved[m] ELSE DefaultRate]

\* calculatePoints: a model that the table lacks is billed like Mimo.
RateFor(tab, m) == IF tab[m] # NoRate THEN tab[m] ELSE tab[Mimo]

\* The rate that was saved for a model, or the default it has until then.
Due(m) == IF rates[m] # NoRate THEN rates[m] ELSE DefaultRate

Init ==
    /\ known = BuiltIn
    /\ rates \in {r \in Tables : \A m \in Models \ BuiltIn : r[m] = NoRate}
    /\ cache = [i \in Isolates |-> NoTable]
    /\ age = [i \in Isolates |-> TTL]
    /\ partial = [i \in Isolates |-> FALSE]
    /\ pc = [t \in Tasks |-> "idle"]
    /\ home \in [Tasks -> Isolates]
    /\ todo = [t \in Tasks |-> {}]
    /\ price = [t \in Tasks |-> NoRate]
    /\ got = [t \in Tasks |-> NoGot]
    /\ held = [t \in Tasks |-> 0]
    /\ quiet = [m \in Models |-> Settled]

Live(i) == age[i] < TTL

Goto(t, stage) == pc' = [pc EXCEPT ![t] = stage]

Done(t) ==
    /\ Goto(t, "idle")
    /\ todo' = [todo EXCEPT ![t] = {}]
    /\ price' = [price EXCEPT ![t] = NoRate]
    /\ got' = [got EXCEPT ![t] = NoGot]
    /\ held' = [held EXCEPT ![t] = 0]
    /\ UNCHANGED home

-----------------------------------------------------------------------------
\* A request that charges and finds no live copy: getPricingTable.

Load(t) ==
    /\ pc[t] = "idle" /\ ~Live(home[t])
    /\ Goto(t, "list")
    /\ UNCHANGED <<known, rates, copyVars, home, todo, price, got, held, quiet>>

\* listDynamicModels: a failure counts as no dynamic models.
List(t) ==
    /\ pc[t] = "list"
    /\ got' \in {[got EXCEPT ![t].dynamic = known \ BuiltIn],
                 [got EXCEPT ![t].failed = TRUE]}
    /\ held' = [held EXCEPT ![t] = 0]
    /\ Goto(t, "rates")
    /\ UNCHANGED <<known, rates, copyVars, home, todo, price, quiet>>

\* Mutant of ReadRates: after a failed list the defaults stand for the table.
ReadRatesDefault(t) ==
    /\ pc[t] = "rates"
    /\ got' = [got EXCEPT ![t].table =
                  Merge(got[t].dynamic, IF got[t].failed THEN NoTable ELSE rates)]
    /\ Goto(t, "fill")
    /\ UNCHANGED <<known, rates, copyVars, home, todo, price, held, quiet>>

\* The SELECT of the rates.
ReadRates(t) ==
    /\ pc[t] = "rates"
    /\ got' = [got EXCEPT ![t].table = Merge(got[t].dynamic, rates)]
    /\ Goto(t, "fill")
    /\ UNCHANGED <<known, rates, copyVars, home, todo, price, held, quiet>>

\* It fails: this one request is billed at the defaults, and nothing is cached.
RatesFail(t) ==
    /\ pc[t] = "rates"
    /\ Done(t)
    /\ UNCHANGED <<known, rates, copyVars, quiet>>

Fill(t) ==
    /\ pc[t] = "fill"
    /\ cache' = [cache EXCEPT ![home[t]] = got[t].table]
    /\ age' = [age EXCEPT ![home[t]] = 0]
    /\ partial' = [partial EXCEPT ![home[t]] = got[t].failed]
    /\ Done(t)
    /\ UNCHANGED <<known, rates, quiet>>

-----------------------------------------------------------------------------
\* Saves.

\* createAdminModel inserts the model and then saves the rate that came with it.
AddModel(t) ==
    /\ pc[t] = "idle"
    /\ \E m \in Models \ known, r \in Rates :
        /\ known' = known \cup {m}
        /\ todo' = [todo EXCEPT ![t] = {m}]
        /\ price' = [price EXCEPT ![t] = r]
        /\ quiet' = [quiet EXCEPT ![m] = 0]
    /\ Goto(t, "upsert")
    /\ UNCHANGED <<rates, copyVars, home, got, held>>

\* The administrator's page, or an update of a model, saves a rate.
SetRate(t) ==
    /\ pc[t] = "idle"
    /\ \E m \in known, r \in Rates :
        /\ todo' = [todo EXCEPT ![t] = {m}]
        /\ price' = [price EXCEPT ![t] = r]
    /\ Goto(t, "upsert")
    /\ UNCHANGED <<known, rates, copyVars, home, got, held, quiet>>

\* restoreDefaultPricing
Restore(t) ==
    /\ pc[t] = "idle"
    /\ todo' = [todo EXCEPT ![t] = BuiltIn]
    /\ price' = [price EXCEPT ![t] = DefaultRate]
    /\ Goto(t, "upsert")
    /\ UNCHANGED <<known, rates, copyVars, home, got, held, quiet>>

\* upsertPricingRates, the statement.
Upsert(t) ==
    /\ pc[t] = "upsert"
    /\ \E m \in todo[t] :
        /\ rates' = [rates EXCEPT ![m] = price[t]]
        /\ todo' = [todo EXCEPT ![t] = @ \ {m}]
        /\ quiet' = [quiet EXCEPT ![m] = 0]
    /\ Goto(t, "drop")
    /\ UNCHANGED <<known, copyVars, home, price, got, held>>

\* upsertPricingRates, then invalidatePricingCache in this isolate.
Drop(t) ==
    /\ pc[t] = "drop"
    /\ cache' = [cache EXCEPT ![home[t]] = NoTable]
    /\ age' = [age EXCEPT ![home[t]] = TTL]
    /\ partial' = [partial EXCEPT ![home[t]] = FALSE]
    /\ IF todo[t] = {}
       THEN Done(t)
       ELSE Goto(t, "upsert") /\ UNCHANGED <<home, todo, price, got, held>>
    /\ UNCHANGED <<known, rates, quiet>>

\* A statement of a save fails, and the rest of it is not done.
Fail(t) ==
    /\ pc[t] \in {"upsert", "drop"}
    /\ Done(t)
    /\ UNCHANGED <<known, rates, copyVars, quiet>>

\* The clock.  A load ends within Latency ticks of its first query.
Tick ==
    /\ \A t \in Tasks : pc[t] \in {"rates", "fill"} => held[t] < Latency
    /\ age' = [i \in Isolates |-> IF age[i] < TTL THEN age[i] + 1 ELSE TTL]
    /\ held' = [t \in Tasks |->
                   IF pc[t] \in {"rates", "fill"} THEN held[t] + 1 ELSE held[t]]
    /\ quiet' = [m \in Models |-> IF quiet[m] < Settled THEN quiet[m] + 1 ELSE Settled]
    /\ UNCHANGED <<known, rates, cache, partial, pc, home, todo, price, got>>

Next ==
    \/ \E t \in Tasks :
        \/ Load(t) \/ List(t) \/ ReadRates(t) \/ RatesFail(t) \/ Fill(t)
        \/ AddModel(t) \/ SetRate(t) \/ Restore(t)
        \/ Upsert(t) \/ Drop(t) \/ Fail(t)
    \/ Tick

Spec == Init /\ [][Next]_vars

-----------------------------------------------------------------------------
\* Properties.

Stage == {"idle", "list", "rates", "fill", "upsert", "drop"}

TypeOK ==
    /\ known \in SUBSET Models
    /\ rates \in Tables
    /\ cache \in [Isolates -> Tables]
    /\ age \in [Isolates -> 0..TTL]
    /\ partial \in [Isolates -> BOOLEAN]
    /\ pc \in [Tasks -> Stage]
    /\ home \in [Tasks -> Isolates]
    /\ todo \in [Tasks -> SUBSET Models]
    /\ price \in [Tasks -> Saved \cup {NoRate}]
    /\ got \in [Tasks -> [dynamic : SUBSET Models, failed : BOOLEAN, table : Tables]]
    /\ held \in [Tasks -> 0..Latency]
    /\ quiet \in [Models -> 0..Settled]

\* A copy in use that both queries went into bills every model at the rate
\* that was saved for it, once the save is older than the copy and one load:
\* no mixture of the two queries, of an old copy and a new one or of a failed
\* read outlives that.
PriceFresh ==
    \A i \in Isolates, m \in known :
        (Live(i) /\ ~partial[i] /\ quiet[m] > age[i] + Latency) =>
            RateFor(cache[i], m) = Due(m)

\* A model of the code is billed at its saved rate even by a partial copy.
BuiltInPriced ==
    \A i \in Isolates, m \in BuiltIn :
        (Live(i) /\ quiet[m] > age[i] + Latency) => cache[i][m] = Due(m)
=============================================================================
