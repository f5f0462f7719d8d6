----------------------------- MODULE Caches_proofs -----------------------------
(***************************************************************************)
(* How old a copy can be, for any number of isolates and tasks, any        *)
(* lifetime of a copy and any duration of a load: once a write is older    *)
(* than the copy and one load, every copy in use shows it.  The argument   *)
(* is the same for the registry and the prices.  What a load holds is      *)
(* right about every model that was not written since it was read; the     *)
(* load takes at most Latency ticks; so a copy is right about every model  *)
(* that was not written for its age and Latency, which counts the ticks of *)
(* the load as well.                                                       *)
(***************************************************************************)
EXTENDS MCCaches, TLAPS

-----------------------------------------------------------------------------
(* The registry.                                                           *)

\* A save that is about to write has a model and a row to write.
EditReady ==
    \A t \in Tasks : pc[t] \in {"update", "insert"} =>
        edit[t] \in [model : Models, row : Configs]

\* What a load has read is the table, for the models that were not written since.
GotFresh ==
    \A t \in Tasks, m \in Models :
        (pc[t] = "fill" /\ got[t] # Empty /\ quiet[m] > held[t]) => got[t][m] = table[m]

RegistryInv == TypeOK /\ EditReady /\ GotFresh /\ CacheFresh

\* Nothing but a row, nothing or a row table stands for the empty one.
LEMMA RegistryConstants ==
    /\ TTL \in Nat /\ TTL >= 1 /\ Latency \in Nat /\ Settled = TTL + Latency + 1
    /\ Empty \in Rows /\ Configs \subseteq Configs \cup {Absent}
BY ModelConfigAssumption DEF Settled, Empty, Rows

\* A step that changes neither the table nor a copy, and reads nothing.
LEMMA RegistryQuiet ==
    ASSUME RegistryInv, UNCHANGED <<table, cache, age, quiet>>, NEW t \in Tasks,
           \A u \in Tasks \ {t} : pc'[u] = pc[u] /\ got'[u] = got[u] /\ held'[u] = held[u],
           pc'[t] # "fill"
    PROVE  GotFresh' /\ CacheFresh'
<1>1. \A u \in Tasks, m \in Models :
          (pc'[u] = "fill" /\ got'[u] # Empty /\ quiet[m] > held'[u]) => got'[u][m] = table[m]
    BY DEF RegistryInv, GotFresh
<1> QED BY <1>1 DEF RegistryInv, GotFresh, CacheFresh, Live

\* The end of a task keeps the types and leaves the other tasks alone.
LEMMA RegistryDone ==
    ASSUME RegistryInv, NEW t \in Tasks, Done(t)
    PROVE  /\ pc' \in [Tasks -> Stage] /\ home' \in [Tasks -> Isolates]
           /\ edit' \in [Tasks -> [model : Models, row : Configs] \cup {NoEdit}]
           /\ got' \in [Tasks -> Rows] /\ held' \in [Tasks -> 0..Latency]
           /\ pc'[t] = "idle"
           /\ \A u \in Tasks \ {t} : /\ pc'[u] = pc[u] /\ got'[u] = got[u]
                                     /\ held'[u] = held[u] /\ edit'[u] = edit[u]
           /\ EditReady'
<1>1. /\ pc' = [pc EXCEPT ![t] = "idle"] /\ edit' = [edit EXCEPT ![t] = NoEdit]
      /\ got' = [got EXCEPT ![t] = Empty] /\ held' = [held EXCEPT ![t] = 0] /\ home' = home
    BY DEF Done, Goto
<1>2. /\ pc \in [Tasks -> Stage] /\ home \in [Tasks -> Isolates]
      /\ edit \in [Tasks -> [model : Models, row : Configs] \cup {NoEdit}]
      /\ got \in [Tasks -> Rows] /\ held \in [Tasks -> 0..Latency]
    BY DEF RegistryInv, TypeOK
<1>3. pc' \in [Tasks -> Stage] /\ home' \in [Tasks -> Isolates]
    BY <1>1, <1>2 DEF Stage
<1>4. edit' \in [Tasks -> [model : Models, row : Configs] \cup {NoEdit}]
    BY <1>1, <1>2
<1>5. got' \in [Tasks -> Rows]
    BY <1>1, <1>2, RegistryConstants
<1>6. held' \in [Tasks -> 0..Latency]
    BY <1>1, <1>2, RegistryConstants
<1>7. /\ pc'[t] = "idle"
      /\ \A u \in Tasks \ {t} : /\ pc'[u] = pc[u] /\ got'[u] = got[u]
                                /\ held'[u] = held[u] /\ edit'[u] = edit[u]
    BY <1>1, <1>2
<1>8. EditReady'
    BY <1>7 DEF RegistryInv, EditReady
<1> QED BY <1>3, <1>4, <1>5, <1>6, <1>7, <1>8

\* listModelRows and its query: what is read is the table of this moment, or empty.
LEMMA QueryStep ==
    ASSUME RegistryInv, NEW t \in Tasks, Query(t)
    PROVE  RegistryInv'
<1>1. /\ pc' = [pc EXCEPT ![t] = "fill"] /\ held' = [held EXCEPT ![t] = 0]
      /\ got' = [got EXCEPT ![t] = table] \/ got' = [got EXCEPT ![t] = Empty]
      /\ UNCHANGED <<table, cache, age, home, edit, quiet>>
    BY DEF Query, Goto
<1>2. /\ pc \in [Tasks -> Stage] /\ got \in [Tasks -> Rows]
      /\ held \in [Tasks -> 0..Latency] /\ table \in Rows
    BY DEF RegistryInv, TypeOK
<1>3. pc' \in [Tasks -> Stage] /\ got' \in [Tasks -> Rows] /\ held' \in [Tasks -> 0..Latency]
    BY <1>1, <1>2, RegistryConstants DEF Stage
<1>4. TypeOK'
    BY <1>1, <1>3 DEF RegistryInv, TypeOK
<1>5. /\ pc'[t] = "fill" /\ (got'[t] = table \/ got'[t] = Empty)
      /\ \A u \in Tasks \ {t} : pc'[u] = pc[u] /\ got'[u] = got[u] /\ held'[u] = held[u]
    BY <1>1, <1>2
<1>6. EditReady'
    BY <1>1, <1>5 DEF RegistryInv, EditReady
<1>7. GotFresh'
    BY <1>1, <1>5 DEF RegistryInv, GotFresh
<1>8. CacheFresh'
    BY <1>1 DEF RegistryInv, CacheFresh, Live
<1> QED BY <1>4, <1>6, <1>7, <1>8 DEF RegistryInv

\* The copy that a load puts down is as fresh as what it holds.
LEMMA FillStep ==
    ASSUME RegistryInv, NEW t \in Tasks, Fill(t)
    PROVE  RegistryInv'
<1>1. /\ pc[t] = "fill" /\ Done(t) /\ UNCHANGED <<table, quiet>>
      /\ cache' = [cache EXCEPT ![home[t]] = got[t]]
      /\ age' = [age EXCEPT ![home[t]] = 0]
    BY DEF Fill
<1>2. /\ cache \in [Isolates -> Rows] /\ age \in [Isolates -> 0..TTL] /\ home[t] \in Isolates
      /\ got[t] \in Rows /\ held[t] \in 0..Latency /\ quiet \in [Models -> 0..Settled]
    BY DEF RegistryInv, TypeOK
<1>3. cache' \in [Isolates -> Rows] /\ age' \in [Isolates -> 0..TTL]
    BY <1>1, <1>2, RegistryConstants
<1>4. TypeOK' /\ EditReady'
    BY <1>1, <1>3, RegistryDone DEF RegistryInv, TypeOK
<1>5. GotFresh'
  <2>1. /\ pc'[t] = "idle"
        /\ \A u \in Tasks \ {t} : pc'[u] = pc[u] /\ got'[u] = got[u] /\ held'[u] = held[u]
      BY <1>1, RegistryDone
  <2> QED BY <1>1, <2>1 DEF RegistryInv, GotFresh
<1>6. ASSUME NEW i \in Isolates, NEW m \in Models, age'[i] < TTL, cache'[i] # Empty,
             quiet[m] > age'[i] + Latency
      PROVE  cache'[i][m] = table[m]
  <2>1. CASE i = home[t]
    <3>1. cache'[i] = got[t] /\ age'[i] = 0
        BY <1>1, <1>2, <2>1
    <3>2. quiet[m] > held[t]
        BY <1>2, <1>6, <3>1, RegistryConstants
    <3> QED BY <1>1, <1>6, <3>1, <3>2 DEF RegistryInv, GotFresh
  <2>2. CASE i # home[t]
    <3>1. cache'[i] = cache[i] /\ age'[i] = age[i]
        BY <1>1, <1>2, <2>2
    <3> QED BY <1>6, <3>1 DEF RegistryInv, CacheFresh, Live
  <2> QED BY <2>1, <2>2
<1>7. CacheFresh'
    BY <1>1, <1>6 DEF CacheFresh, Live
<1> QED BY <1>4, <1>5, <1>7 DEF RegistryInv

\* The beginning of a save reads the table and writes nothing yet.
LEMMA BeginSave ==
    ASSUME RegistryInv, NEW t \in Tasks, NEW m \in Models, NEW c \in Configs,
           edit' = [edit EXCEPT ![t] = [model |-> m, row |-> c]],
           NEW stage \in {"update", "insert"}, Goto(t, stage),
           UNCHANGED <<table, cache, age, home, got, held, quiet>>
    PROVE  RegistryInv'
<1>1. /\ pc \in [Tasks -> Stage]
      /\ edit \in [Tasks -> [model : Models, row : Configs] \cup {NoEdit}]
    BY DEF RegistryInv, TypeOK
<1>2. pc' \in [Tasks -> Stage] /\ pc'[t] = stage /\ \A u \in Tasks \ {t} : pc'[u] = pc[u]
    BY <1>1 DEF Goto, Stage
<1> DEFINE new == [model |-> m, row |-> c]
<1>4. new \in [model : Models, row : Configs]
    OBVIOUS
<1> HIDE DEF new
<1>5. /\ edit' \in [Tasks -> [model : Models, row : Configs] \cup {NoEdit}]
      /\ edit'[t] = new /\ \A u \in Tasks \ {t} : edit'[u] = edit[u]
    BY <1>1, <1>4 DEF new
<1>6. TypeOK'
    BY <1>2, <1>5 DEF RegistryInv, TypeOK
<1>7. EditReady'
    BY <1>2, <1>4, <1>5 DEF RegistryInv, EditReady
<1>8. GotFresh' /\ CacheFresh'
    BY <1>2, RegistryQuiet
<1> QED BY <1>6, <1>7, <1>8 DEF RegistryInv

\* A write makes its own model unsettled, and no other.
LEMMA WriteStep ==
    ASSUME RegistryInv, NEW t \in Tasks, pc[t] \in {"update", "insert"}, Write(t)
    PROVE  RegistryInv'
<1> DEFINE x == edit[t].model
<1>1. /\ table' = [table EXCEPT ![x] = edit[t].row] /\ quiet' = [quiet EXCEPT ![x] = 0]
      /\ pc' = [pc EXCEPT ![t] = "invalidate"]
      /\ UNCHANGED <<cache, age, home, edit, got, held>>
    BY DEF Write, Goto
<1>2. /\ pc \in [Tasks -> Stage] /\ table \in Rows /\ quiet \in [Models -> 0..Settled]
      /\ age \in [Isolates -> 0..TTL] /\ held \in [Tasks -> 0..Latency]
    BY DEF RegistryInv, TypeOK
<1>3. x \in Models /\ edit[t].row \in Configs
    BY DEF RegistryInv, EditReady
<1> HIDE DEF x
<1>4. /\ pc' \in [Tasks -> Stage] /\ pc'[t] = "invalidate"
      /\ \A u \in Tasks \ {t} : pc'[u] = pc[u]
    BY <1>1, <1>2 DEF Stage
<1>5. table' \in Rows /\ \A m \in Models \ {x} : table'[m] = table[m]
    BY <1>1, <1>2, <1>3 DEF Rows
<1>6. /\ quiet' \in [Models -> 0..Settled] /\ quiet'[x] = 0
      /\ \A m \in Models \ {x} : quiet'[m] = quiet[m]
    BY <1>1, <1>2, <1>3, RegistryConstants
<1>7. TypeOK'
    BY <1>1, <1>4, <1>5, <1>6 DEF RegistryInv, TypeOK
<1>8. EditReady'
    BY <1>1, <1>4 DEF RegistryInv, EditReady
<1>9. GotFresh'
  <2> SUFFICES ASSUME NEW u \in Tasks, NEW m \in Models, pc'[u] = "fill", got[u] # Empty,
                      quiet'[m] > held[u]
               PROVE  got[u][m] = table'[m]
      BY <1>1 DEF GotFresh
  <2>1. m # x
      BY <1>2, <1>6
  <2>2. u # t
      BY <1>4
  <2> QED BY <1>4, <1>5, <1>6, <2>1, <2>2 DEF RegistryInv, GotFresh
<1>10. CacheFresh'
  <2> SUFFICES ASSUME NEW i \in Isolates, NEW m \in Models, age[i] < TTL, cache[i] # Empty,
                      quiet'[m] > age[i] + Latency
               PROVE  cache[i][m] = table'[m]
      BY <1>1 DEF CacheFresh, Live
  <2>1. m # x
      BY <1>2, <1>6, RegistryConstants
  <2> QED BY <1>5, <1>6, <2>1 DEF RegistryInv, CacheFresh, Live
<1> QED BY <1>7, <1>8, <1>9, <1>10 DEF RegistryInv

\* A dropped copy is not in use.
LEMMA InvalidateStep ==
    ASSUME RegistryInv, NEW t \in Tasks, Invalidate(t)
    PROVE  RegistryInv'
<1>1. /\ cache' = [cache EXCEPT ![home[t]] = Empty] /\ age' = [age EXCEPT ![home[t]] = TTL]
      /\ edit' = [edit EXCEPT ![t] = NoEdit] /\ pc' = [pc EXCEPT ![t] = "query"]
      /\ UNCHANGED <<table, home, got, held, quiet>>
    BY DEF Invalidate, Goto
<1>2. /\ cache \in [Isolates -> Rows] /\ age \in [Isolates -> 0..TTL] /\ home[t] \in Isolates
      /\ edit \in [Tasks -> [model : Models, row : Configs] \cup {NoEdit}]
      /\ pc \in [Tasks -> Stage]
    BY DEF RegistryInv, TypeOK
<1>3. cache' \in [Isolates -> Rows] /\ age' \in [Isolates -> 0..TTL]
    BY <1>1, <1>2, RegistryConstants
<1>4. /\ edit' \in [Tasks -> [model : Models, row : Configs] \cup {NoEdit}]
      /\ pc' \in [Tasks -> Stage] /\ pc'[t] = "query"
      /\ \A u \in Tasks \ {t} : pc'[u] = pc[u] /\ edit'[u] = edit[u]
    BY <1>1, <1>2 DEF Stage
<1>5. TypeOK'
    BY <1>1, <1>3, <1>4 DEF RegistryInv, TypeOK
<1>6. EditReady'
    BY <1>4 DEF RegistryInv, EditReady
<1>7. GotFresh'
    BY <1>1, <1>4 DEF RegistryInv, GotFresh
<1>8. CacheFresh'
  <2> SUFFICES ASSUME NEW i \in Isolates, age'[i] < TTL
               PROVE  cache'[i] = cache[i] /\ age'[i] = age[i]
      BY <1>1 DEF RegistryInv, CacheFresh, Live
  <2>1. i # home[t]
      BY <1>1, <1>2, RegistryConstants
  <2> QED BY <1>1, <1>2, <2>1
<1> QED BY <1>5, <1>6, <1>7, <1>8 DEF RegistryInv

\* A tick ages copies, loads and writes alike.
LEMMA TickStep ==
    ASSUME RegistryInv, Tick
    PROVE  RegistryInv'
<1>1. /\ \A t \in Tasks : pc[t] = "fill" => held[t] < Latency
      /\ age' = [i \in Isolates |-> IF age[i] < TTL THEN age[i] + 1 ELSE TTL]
      /\ held' = [t \in Tasks |-> IF pc[t] = "fill" THEN held[t] + 1 ELSE held[t]]
      /\ quiet' = [m \in Models |-> IF quiet[m] < Settled THEN quiet[m] + 1 ELSE Settled]
      /\ UNCHANGED <<table, cache, pc, home, edit, got>>
    BY DEF Tick
<1>2. /\ age \in [Isolates -> 0..TTL] /\ held \in [Tasks -> 0..Latency]
      /\ quiet \in [Models -> 0..Settled]
    BY DEF RegistryInv, TypeOK
<1>3. age' \in [Isolates -> 0..TTL]
    BY <1>1, <1>2, RegistryConstants
<1>4. held' \in [Tasks -> 0..Latency]
    BY <1>1, <1>2, RegistryConstants
<1>5. quiet' \in [Models -> 0..Settled]
    BY <1>1, <1>2, RegistryConstants
<1>6. TypeOK' /\ EditReady'
    BY <1>1, <1>3, <1>4, <1>5 DEF RegistryInv, TypeOK, EditReady
<1>7. GotFresh'
  <2> SUFFICES ASSUME NEW t \in Tasks, NEW m \in Models, pc[t] = "fill", got[t] # Empty,
                      quiet'[m] > held'[t]
               PROVE  quiet[m] > held[t]
      BY <1>1 DEF RegistryInv, GotFresh
  <2> QED BY <1>1, <1>2, RegistryConstants
<1>8. CacheFresh'
  <2> SUFFICES ASSUME NEW i \in Isolates, NEW m \in Models, age'[i] < TTL,
                      quiet'[m] > age'[i] + Latency
               PROVE  age[i] < TTL /\ quiet[m] > age[i] + Latency
      BY <1>1 DEF RegistryInv, CacheFresh, Live
  <2> QED BY <1>1, <1>2, RegistryConstants
<1> QED BY <1>6, <1>7, <1>8 DEF RegistryInv

\* Every step of the registry keeps its copies fresh.
LEMMA RegistryStep ==
    ASSUME RegistryInv, [Next]_vars PROVE RegistryInv'
<1>1. ASSUME NEW t \in Tasks, Load(t) PROVE RegistryInv'
  <2>1. /\ pc' = [pc EXCEPT ![t] = "query"]
        /\ UNCHANGED <<table, cache, age, home, edit, got, held, quiet>>
      BY <1>1 DEF Load, Goto
  <2>2. /\ pc' \in [Tasks -> Stage] /\ pc'[t] = "query"
        /\ \A u \in Tasks \ {t} : pc'[u] = pc[u]
      BY <2>1 DEF RegistryInv, TypeOK, Stage
  <2>3. TypeOK' /\ EditReady'
      BY <2>1, <2>2 DEF RegistryInv, TypeOK, EditReady
  <2> QED BY <2>1, <2>2, <2>3, RegistryQuiet DEF RegistryInv
<1>2. ASSUME NEW t \in Tasks, Query(t) PROVE RegistryInv'
    BY <1>2, QueryStep
<1>3. ASSUME NEW t \in Tasks, Fill(t) PROVE RegistryInv'
    BY <1>3, FillStep
<1>4. ASSUME NEW t \in Tasks, Edit(t) PROVE RegistryInv'
    BY <1>4, BeginSave DEF Edit
<1>5. ASSUME NEW t \in Tasks, Create(t) PROVE RegistryInv'
    BY <1>5, BeginSave DEF Create
<1>6. ASSUME NEW t \in Tasks, CreateNamed(t) PROVE RegistryInv'
    BY <1>6, BeginSave DEF CreateNamed
<1>7. ASSUME NEW t \in Tasks, Update(t) PROVE RegistryInv'
    BY <1>7, WriteStep DEF Update
<1>8. ASSUME NEW t \in Tasks, Insert(t) PROVE RegistryInv'
    BY <1>8, WriteStep DEF Insert
<1>9. ASSUME NEW t \in Tasks, Fail(t) PROVE RegistryInv'
  <2>1. Done(t) /\ UNCHANGED <<table, cache, age, quiet>>
      BY <1>9 DEF Fail
  <2>2. TypeOK' /\ EditReady'
      BY <2>1, RegistryDone DEF RegistryInv, TypeOK
  <2>3. GotFresh' /\ CacheFresh'
      BY <2>1, RegistryDone, RegistryQuiet
  <2> QED BY <2>2, <2>3 DEF RegistryInv
<1>10. ASSUME NEW t \in Tasks, Invalidate(t) PROVE RegistryInv'
    BY <1>10, InvalidateStep
<1>11. CASE Tick
    BY <1>11, TickStep
<1>12. CASE UNCHANGED vars
    BY <1>12 DEF vars, taskVars, RegistryInv, TypeOK, EditReady, GotFresh, CacheFresh, Live
<1> QED BY <1>1, <1>2, <1>3, <1>4, <1>5, <1>6, <1>7, <1>8, <1>9, <1>10, <1>11, <1>12
        DEF Next, Step

-----------------------------------------------------------------------------
(* The price table.  A load reads twice: the list of the models, and then  *)
(* the rates.  A list that was read misses only models written since, and  *)
(* the table that was put together has the rate of every model it lists.   *)

Priced(t) == BuiltIn \cup priceGot[t].dynamic

ListFresh ==
    \A t \in Tasks, m \in known :
        (pricePc[t] \in {"rates", "fill"} /\ ~priceGot[t].failed /\ priceQuiet[m] > priceHeld[t])
            => m \in Priced(t)

TableFresh ==
    \A t \in Tasks, m \in Models :
        (pricePc[t] = "fill" /\ m \in Priced(t) /\ priceQuiet[m] > priceHeld[t])
            => priceGot[t].table[m] = Prices!Due(m)

\* Every copy in use has the saved rate of the models of the code, and a full
\* one that of every model there is.
CopyFresh ==
    \A i \in PricingIsolates, m \in Models :
        (/\ priceAge[i] < TTL /\ priceQuiet[m] > priceAge[i] + Latency
         /\ m \in BuiltIn \/ (~partial[i] /\ m \in known))
            => priceCache[i][m] = Prices!Due(m)

PricesInv == Prices!TypeOK /\ ListFresh /\ TableFresh /\ CopyFresh

\* The constants of the prices, and that a rate is always due.
LEMMA PricesConstants ==
    /\ TTL \in Nat /\ TTL >= 1 /\ Latency \in Nat /\ Prices!Settled = TTL + Latency + 1
    /\ BuiltIn \subseteq Models /\ Prices!NoTable \in Prices!Tables
    /\ Prices!NoGot \in [dynamic : SUBSET Models, failed : BOOLEAN, table : Prices!Tables]
    /\ NoRate \notin Prices!Saved /\ DefaultRate \in Prices!Saved
<1>1. Prices!NoTable \in Prices!Tables
    BY DEF Prices!NoTable, Prices!Tables
<1>2. Prices!NoGot \in [dynamic : SUBSET Models, failed : BOOLEAN, table : Prices!Tables]
    BY <1>1 DEF Prices!NoGot
<1> QED BY <1>1, <1>2, ModelConfigAssumption, CachesAssumption
        DEF Prices!PricingAssumption, Prices!Settled, Prices!Saved

\* The end of a task keeps the types and leaves the other tasks alone.
LEMMA PricesDone ==
    ASSUME PricesInv, NEW t \in Tasks, Prices!Done(t)
    PROVE  /\ pricePc' \in [Tasks -> Prices!Stage] /\ priceHome' \in [Tasks -> PricingIsolates]
           /\ todo' \in [Tasks -> SUBSET Models]
           /\ price' \in [Tasks -> Prices!Saved \cup {NoRate}]
           /\ priceGot' \in [Tasks -> [dynamic : SUBSET Models, failed : BOOLEAN,
                                       table : Prices!Tables]]
           /\ priceHeld' \in [Tasks -> 0..Latency]
           /\ pricePc'[t] = "idle"
           /\ \A u \in Tasks \ {t} : /\ pricePc'[u] = pricePc[u] /\ priceGot'[u] = priceGot[u]
                                     /\ priceHeld'[u] = priceHeld[u]
<1>1. /\ pricePc' = [pricePc EXCEPT ![t] = "idle"] /\ todo' = [todo EXCEPT ![t] = {}]
      /\ price' = [price EXCEPT ![t] = NoRate]
      /\ priceGot' = [priceGot EXCEPT ![t] = Prices!NoGot]
      /\ priceHeld' = [priceHeld EXCEPT ![t] = 0] /\ priceHome' = priceHome
    BY DEF Prices!Done, Prices!Goto
<1>2. /\ pricePc \in [Tasks -> Prices!Stage] /\ priceHome \in [Tasks -> PricingIsolates]
      /\ todo \in [Tasks -> SUBSET Models] /\ price \in [Tasks -> Prices!Saved \cup {NoRate}]
      /\ priceGot \in [Tasks -> [dynamic : SUBSET Models, failed : BOOLEAN,
                                 table : Prices!Tables]]
      /\ priceHeld \in [Tasks -> 0..Latency]
    BY DEF PricesInv, Prices!TypeOK
<1>3. pricePc' \in [Tasks -> Prices!Stage] /\ priceHome' \in [Tasks -> PricingIsolates]
    BY <1>1, <1>2 DEF Prices!Stage
<1>4. todo' \in [Tasks -> SUBSET Models] /\ price' \in [Tasks -> Prices!Saved \cup {NoRate}]
    BY <1>1, <1>2
<1>5. priceGot' \in [Tasks -> [dynamic : SUBSET Models, failed : BOOLEAN,
                               table : Prices!Tables]]
    BY <1>1, <1>2, PricesConstants
<1>6. priceHeld' \in [Tasks -> 0..Latency]
    BY <1>1, <1>2, PricesConstants
<1>7. /\ pricePc'[t] = "idle"
      /\ \A u \in Tasks \ {t} : /\ pricePc'[u] = pricePc[u] /\ priceGot'[u] = priceGot[u]
                                /\ priceHeld'[u] = priceHeld[u]
    BY <1>1, <1>2
<1> QED BY <1>3, <1>4, <1>5, <1>6, <1>7

\* A step that writes nothing and leaves the copies alone, and after which one
\* task at most holds nothing of a load any more.
LEMMA PricesQuiet ==
    ASSUME PricesInv,
           UNCHANGED <<known, rates, priceCache, priceAge, partial, priceQuiet>>,
           NEW t \in Tasks, pricePc'[t] \notin {"rates", "fill"},
           \A u \in Tasks \ {t} : /\ pricePc'[u] = pricePc[u] /\ priceGot'[u] = priceGot[u]
                                  /\ priceHeld'[u] = priceHeld[u]
    PROVE  ListFresh' /\ TableFresh' /\ CopyFresh'
<1>1. \A m : Prices!Due(m)' = Prices!Due(m)
    BY DEF Prices!Due
<1>2. ListFresh'
    BY DEF PricesInv, ListFresh, Priced
<1>3. TableFresh'
    BY <1>1 DEF PricesInv, TableFresh, Priced
<1>4. CopyFresh'
    BY <1>1 DEF PricesInv, CopyFresh
<1> QED BY <1>2, <1>3, <1>4

\* The list is read: it has every model there is, or counts as failed.
LEMMA ListStep ==
    ASSUME PricesInv, NEW t \in Tasks, Prices!List(t)
    PROVE  PricesInv'
<1>1. /\ pricePc' = [pricePc EXCEPT ![t] = "rates"] /\ priceHeld' = [priceHeld EXCEPT ![t] = 0]
      /\ \/ priceGot' = [priceGot EXCEPT ![t].dynamic = known \ BuiltIn]
         \/ priceGot' = [priceGot EXCEPT ![t].failed = TRUE]
      /\ UNCHANGED <<known, rates, priceCache, priceAge, partial, priceHome, todo, price,
                     priceQuiet>>
    BY DEF Prices!List, Prices!Goto, Prices!copyVars
<1>2. /\ pricePc \in [Tasks -> Prices!Stage] /\ priceHeld \in [Tasks -> 0..Latency]
      /\ priceGot \in [Tasks -> [dynamic : SUBSET Models, failed : BOOLEAN,
                                 table : Prices!Tables]]
      /\ known \in SUBSET Models
    BY DEF PricesInv, Prices!TypeOK
<1>3. /\ pricePc' \in [Tasks -> Prices!Stage] /\ priceHeld' \in [Tasks -> 0..Latency]
    BY <1>1, <1>2, PricesConstants DEF Prices!Stage
<1>4. /\ priceGot' \in [Tasks -> [dynamic : SUBSET Models, failed : BOOLEAN,
                                  table : Prices!Tables]]
      /\ priceGot'[t].failed \/ priceGot'[t].dynamic = known \ BuiltIn
  <2> DEFINE got1 == [priceGot[t] EXCEPT !.dynamic = known \ BuiltIn]
             got2 == [priceGot[t] EXCEPT !.failed = TRUE]
             Got == [dynamic : SUBSET Models, failed : BOOLEAN, table : Prices!Tables]
  <2>1. priceGot[t] \in Got
      BY <1>2
  <2>2. got1 \in Got /\ got1.dynamic = known \ BuiltIn
      BY <1>2, <2>1
  <2>3. got2 \in Got /\ got2.failed
      BY <2>1
  <2>4. priceGot' = [priceGot EXCEPT ![t] = got1] \/ priceGot' = [priceGot EXCEPT ![t] = got2]
      BY <1>1
  <2>5. priceGot \in [Tasks -> Got]
      BY <1>2
  <2> HIDE DEF got1, got2, Got
  <2>6. priceGot' \in [Tasks -> Got] /\ (priceGot'[t] = got1 \/ priceGot'[t] = got2)
      BY <2>2, <2>3, <2>4, <2>5
  <2>7. priceGot'[t].failed \/ priceGot'[t].dynamic = known \ BuiltIn
      BY <2>2, <2>3, <2>6
  <2> QED BY <2>6, <2>7 DEF Got
<1>5. /\ pricePc'[t] = "rates"
      /\ \A u \in Tasks \ {t} : /\ pricePc'[u] = pricePc[u] /\ priceGot'[u] = priceGot[u]
                                /\ priceHeld'[u] = priceHeld[u]
    BY <1>1, <1>2
<1>6. Prices!TypeOK'
    BY <1>1, <1>3, <1>4 DEF PricesInv, Prices!TypeOK
<1>7. \A m : Prices!Due(m)' = Prices!Due(m)
    BY <1>1 DEF Prices!Due
<1>8. ListFresh'
    BY <1>1, <1>4, <1>5 DEF PricesInv, ListFresh, Priced
<1>9. TableFresh'
    BY <1>1, <1>5, <1>7 DEF PricesInv, TableFresh, Priced
<1>10. CopyFresh'
    BY <1>1, <1>7 DEF PricesInv, CopyFresh
<1> QED BY <1>6, <1>8, <1>9, <1>10 DEF PricesInv

\* The rates are read: every listed model has the rate that is due.
LEMMA ReadRatesStep ==
    ASSUME PricesInv, NEW t \in Tasks, Prices!ReadRates(t)
    PROVE  PricesInv'
<1> DEFINE merged == Prices!Merge(priceGot[t].dynamic, rates)
<1>1. /\ pricePc[t] = "rates" /\ pricePc' = [pricePc EXCEPT ![t] = "fill"]
      /\ priceGot' = [priceGot EXCEPT ![t].table = merged]
      /\ UNCHANGED <<known, rates, priceCache, priceAge, partial, priceHome, todo, price,
                     priceHeld, priceQuiet>>
    BY DEF Prices!ReadRates, Prices!Goto, Prices!copyVars
<1>2. /\ pricePc \in [Tasks -> Prices!Stage] /\ rates \in Prices!Tables
      /\ priceGot \in [Tasks -> [dynamic : SUBSET Models, failed : BOOLEAN,
                                 table : Prices!Tables]]
    BY DEF PricesInv, Prices!TypeOK
<1>3. /\ merged \in Prices!Tables
      /\ \A m \in Models : m \in Priced(t) => merged[m] = Prices!Due(m)
    BY <1>2, PricesConstants DEF Prices!Merge, Prices!Tables, Prices!Due, Priced
<1> HIDE DEF merged
<1>4. /\ priceGot' \in [Tasks -> [dynamic : SUBSET Models, failed : BOOLEAN,
                                  table : Prices!Tables]]
      /\ priceGot'[t].table = merged /\ priceGot'[t].dynamic = priceGot[t].dynamic
      /\ priceGot'[t].failed = priceGot[t].failed
    BY <1>1, <1>2, <1>3
<1>5. /\ pricePc' \in [Tasks -> Prices!Stage] /\ pricePc'[t] = "fill"
      /\ \A u \in Tasks \ {t} : pricePc'[u] = pricePc[u] /\ priceGot'[u] = priceGot[u]
    BY <1>1, <1>2 DEF Prices!Stage
<1>6. Prices!TypeOK'
    BY <1>1, <1>4, <1>5 DEF PricesInv, Prices!TypeOK
<1>7. \A m : Prices!Due(m)' = Prices!Due(m)
    BY <1>1 DEF Prices!Due
<1>8. \A u \in Tasks : Priced(u)' = Priced(u)
    BY <1>4, <1>5 DEF Priced
<1>9. ListFresh'
  <2> SUFFICES ASSUME NEW u \in Tasks, NEW m \in known, pricePc'[u] \in {"rates", "fill"},
                      ~priceGot'[u].failed, priceQuiet[m] > priceHeld[u]
               PROVE  m \in Priced(u)
      BY <1>1, <1>8 DEF ListFresh
  <2>1. pricePc[u] \in {"rates", "fill"}
      BY <1>1, <1>5
  <2>2. ~priceGot[u].failed
      BY <1>4, <1>5
  <2> QED BY <2>1, <2>2 DEF PricesInv, ListFresh
<1>10. TableFresh'
  <2> SUFFICES ASSUME NEW u \in Tasks, NEW m \in Models, pricePc'[u] = "fill",
                      m \in Priced(u), priceQuiet[m] > priceHeld[u]
               PROVE  priceGot'[u].table[m] = Prices!Due(m)
      BY <1>1, <1>7, <1>8 DEF TableFresh
  <2>1. CASE u = t
      BY <1>3, <1>4, <2>1
  <2>2. CASE u # t
      BY <1>5, <2>2 DEF PricesInv, TableFresh
  <2> QED BY <2>1, <2>2
<1>11. CopyFresh'
    BY <1>1, <1>7 DEF PricesInv, CopyFresh
<1> QED BY <1>6, <1>9, <1>10, <1>11 DEF PricesInv

\* The copy that a load puts down is as fresh as its two reads.
LEMMA PriceFillStep ==
    ASSUME PricesInv, NEW t \in Tasks, Prices!Fill(t)
    PROVE  PricesInv'
<1>1. /\ pricePc[t] = "fill" /\ Prices!Done(t) /\ UNCHANGED <<known, rates, priceQuiet>>
      /\ priceCache' = [priceCache EXCEPT ![priceHome[t]] = priceGot[t].table]
      /\ priceAge' = [priceAge EXCEPT ![priceHome[t]] = 0]
      /\ partial' = [partial EXCEPT ![priceHome[t]] = priceGot[t].failed]
    BY DEF Prices!Fill
<1>2. /\ priceCache \in [PricingIsolates -> Prices!Tables]
      /\ priceAge \in [PricingIsolates -> 0..TTL] /\ partial \in [PricingIsolates -> BOOLEAN]
      /\ priceHome[t] \in PricingIsolates /\ priceHeld[t] \in 0..Latency
      /\ priceGot[t].table \in Prices!Tables /\ priceGot[t].failed \in BOOLEAN
      /\ priceQuiet \in [Models -> 0..Prices!Settled] /\ known \in SUBSET Models
    BY DEF PricesInv, Prices!TypeOK
<1>3. priceAge' \in [PricingIsolates -> 0..TTL]
    BY <1>1, <1>2, PricesConstants
<1>4. priceCache' \in [PricingIsolates -> Prices!Tables] /\ partial' \in [PricingIsolates -> BOOLEAN]
    BY <1>1, <1>2
<1>5. Prices!TypeOK'
    BY <1>1, <1>3, <1>4, PricesDone DEF PricesInv, Prices!TypeOK
<1>6. /\ pricePc'[t] = "idle"
      /\ \A u \in Tasks \ {t} : /\ pricePc'[u] = pricePc[u] /\ priceGot'[u] = priceGot[u]
                                /\ priceHeld'[u] = priceHeld[u]
    BY <1>1, PricesDone
<1>7. \A m : Prices!Due(m)' = Prices!Due(m)
    BY <1>1 DEF Prices!Due
<1>8. ListFresh'
    BY <1>1, <1>6 DEF PricesInv, ListFresh, Priced
<1>9. TableFresh'
    BY <1>1, <1>6, <1>7 DEF PricesInv, TableFresh, Priced
<1>10. CopyFresh'
  <2> SUFFICES ASSUME NEW i \in PricingIsolates, NEW m \in Models, priceAge'[i] < TTL,
                      priceQuiet[m] > priceAge'[i] + Latency,
                      m \in BuiltIn \/ (~partial'[i] /\ m \in known)
               PROVE  priceCache'[i][m] = Prices!Due(m)
      BY <1>1, <1>7 DEF CopyFresh
  <2>1. CASE i = priceHome[t]
    <3>1. priceCache'[i] = priceGot[t].table /\ priceAge'[i] = 0
          /\ partial'[i] = priceGot[t].failed
        BY <1>1, <1>2, <2>1
    <3>2. priceQuiet[m] > priceHeld[t]
        BY <1>2, <3>1, PricesConstants
    <3>3. m \in Priced(t)
        BY <1>1, <3>1, <3>2 DEF PricesInv, ListFresh, Priced
    <3> QED BY <1>1, <3>1, <3>2, <3>3 DEF PricesInv, TableFresh
  <2>2. CASE i # priceHome[t]
    <3>1. priceCache'[i] = priceCache[i] /\ priceAge'[i] = priceAge[i] /\ partial'[i] = partial[i]
        BY <1>1, <1>2, <2>2
    <3> QED BY <3>1 DEF PricesInv, CopyFresh
  <2> QED BY <2>1, <2>2
<1> QED BY <1>5, <1>8, <1>9, <1>10 DEF PricesInv

\* A save that begins holds nothing of a load; the model it adds is unsettled.
LEMMA SaveBegins ==
    ASSUME PricesInv, NEW t \in Tasks, NEW ms \in SUBSET Models,
           NEW r \in Prices!Saved, pricePc[t] = "idle",
           todo' = [todo EXCEPT ![t] = ms], price' = [price EXCEPT ![t] = r],
           Prices!Goto(t, "upsert"),
           \/ UNCHANGED <<known, priceQuiet>>
           \/ \E m \in Models \ known : /\ known' = known \cup {m}
                                        /\ priceQuiet' = [priceQuiet EXCEPT ![m] = 0],
           UNCHANGED <<rates, priceCache, priceAge, partial, priceHome, priceGot, priceHeld>>
    PROVE  PricesInv'
<1>1. /\ pricePc \in [Tasks -> Prices!Stage] /\ priceQuiet \in [Models -> 0..Prices!Settled]
      /\ todo \in [Tasks -> SUBSET Models] /\ price \in [Tasks -> Prices!Saved \cup {NoRate}]
      /\ known \in SUBSET Models /\ priceHeld \in [Tasks -> 0..Latency]
      /\ priceAge \in [PricingIsolates -> 0..TTL]
    BY DEF PricesInv, Prices!TypeOK
<1>2. /\ pricePc' \in [Tasks -> Prices!Stage] /\ pricePc'[t] = "upsert"
      /\ \A u \in Tasks \ {t} : pricePc'[u] = pricePc[u]
    BY <1>1 DEF Prices!Goto, Prices!Stage
<1>3. todo' \in [Tasks -> SUBSET Models] /\ price' \in [Tasks -> Prices!Saved \cup {NoRate}]
    BY <1>1
<1>4. known' \in SUBSET Models /\ priceQuiet' \in [Models -> 0..Prices!Settled]
    BY <1>1, PricesConstants
<1>5. \A m \in Models : priceQuiet'[m] = priceQuiet[m] \/ priceQuiet'[m] = 0
    BY <1>1
<1>6. \A m \in known' : m \in known \/ priceQuiet'[m] = 0
    BY <1>1
<1>7. Prices!TypeOK'
    BY <1>2, <1>3, <1>4 DEF PricesInv, Prices!TypeOK
<1>8. \A m : Prices!Due(m)' = Prices!Due(m)
    BY DEF Prices!Due
<1>9. ListFresh'
  <2> SUFFICES ASSUME NEW u \in Tasks, NEW m \in known', pricePc'[u] \in {"rates", "fill"},
                      ~priceGot[u].failed, priceQuiet'[m] > priceHeld[u]
               PROVE  m \in Priced(u)
      BY DEF ListFresh, Priced
  <2>1. m \in Models /\ priceHeld[u] \in Nat /\ pricePc[u] = pricePc'[u]
      BY <1>1, <1>2, <1>4
  <2>2. m \in known /\ priceQuiet'[m] = priceQuiet[m]
      BY <1>5, <1>6, <2>1
  <2> QED BY <2>1, <2>2 DEF PricesInv, ListFresh
<1>10. TableFresh'
  <2> SUFFICES ASSUME NEW u \in Tasks, NEW m \in Models, pricePc'[u] = "fill",
                      m \in Priced(u), priceQuiet'[m] > priceHeld[u]
               PROVE  priceGot[u].table[m] = Prices!Due(m)
      BY <1>8 DEF TableFresh, Priced
  <2>1. priceHeld[u] \in Nat /\ pricePc[u] = pricePc'[u]
      BY <1>1, <1>2
  <2>2. priceQuiet'[m] = priceQuiet[m]
      BY <1>5, <2>1
  <2> QED BY <2>1, <2>2 DEF PricesInv, TableFresh
<1>11. CopyFresh'
  <2> SUFFICES ASSUME NEW i \in PricingIsolates, NEW m \in Models, priceAge[i] < TTL,
                      priceQuiet'[m] > priceAge[i] + Latency,
                      m \in BuiltIn \/ (~partial[i] /\ m \in known')
               PROVE  priceCache[i][m] = Prices!Due(m)
      BY <1>8 DEF CopyFresh
  <2>1. priceQuiet'[m] # 0
      BY <1>1, PricesConstants
  <2> QED BY <1>5, <1>6, <2>1 DEF PricesInv, CopyFresh
<1> QED BY <1>7, <1>9, <1>10, <1>11 DEF PricesInv

\* upsertPricingRates makes its own model unsettled, and no other.
LEMMA UpsertStep ==
    ASSUME PricesInv, NEW t \in Tasks, Prices!Upsert(t)
    PROVE  PricesInv'
<1>1. PICK x \in todo[t] : /\ rates' = [rates EXCEPT ![x] = price[t]]
                           /\ todo' = [todo EXCEPT ![t] = @ \ {x}]
                           /\ priceQuiet' = [priceQuiet EXCEPT ![x] = 0]
    BY DEF Prices!Upsert
<1>2. /\ pricePc[t] = "upsert" /\ pricePc' = [pricePc EXCEPT ![t] = "drop"]
      /\ UNCHANGED <<known, priceCache, priceAge, partial, priceHome, price, priceGot,
                     priceHeld>>
    BY DEF Prices!Upsert, Prices!Goto, Prices!copyVars
<1>3. /\ pricePc \in [Tasks -> Prices!Stage] /\ priceQuiet \in [Models -> 0..Prices!Settled]
      /\ todo \in [Tasks -> SUBSET Models] /\ price \in [Tasks -> Prices!Saved \cup {NoRate}]
      /\ rates \in Prices!Tables /\ priceHeld \in [Tasks -> 0..Latency]
      /\ priceAge \in [PricingIsolates -> 0..TTL] /\ known \in SUBSET Models
    BY DEF PricesInv, Prices!TypeOK
<1>4. x \in Models
    BY <1>3
<1>5. /\ pricePc' \in [Tasks -> Prices!Stage] /\ pricePc'[t] = "drop"
      /\ \A u \in Tasks \ {t} : pricePc'[u] = pricePc[u]
    BY <1>2, <1>3 DEF Prices!Stage
<1>6. rates' \in Prices!Tables /\ \A m \in Models \ {x} : rates'[m] = rates[m]
    BY <1>1, <1>3, <1>4 DEF Prices!Tables
<1>7. /\ priceQuiet' \in [Models -> 0..Prices!Settled] /\ priceQuiet'[x] = 0
      /\ \A m \in Models \ {x} : priceQuiet'[m] = priceQuiet[m]
    BY <1>1, <1>3, <1>4, PricesConstants
<1>8. todo' \in [Tasks -> SUBSET Models]
    BY <1>1, <1>3
<1>9. Prices!TypeOK'
    BY <1>2, <1>5, <1>6, <1>7, <1>8 DEF PricesInv, Prices!TypeOK
<1>10. \A m \in Models \ {x} : Prices!Due(m)' = Prices!Due(m)
    BY <1>6 DEF Prices!Due
<1>11. ListFresh'
  <2> SUFFICES ASSUME NEW u \in Tasks, NEW m \in known, pricePc'[u] \in {"rates", "fill"},
                      ~priceGot[u].failed, priceQuiet'[m] > priceHeld[u]
               PROVE  m \in Priced(u)
      BY <1>2 DEF ListFresh, Priced
  <2>1. m \in Models /\ priceHeld[u] \in Nat /\ pricePc[u] = pricePc'[u]
      BY <1>3, <1>5
  <2>2. priceQuiet'[m] = priceQuiet[m]
      BY <1>7, <2>1
  <2> QED BY <2>1, <2>2 DEF PricesInv, ListFresh
<1>12. TableFresh'
  <2> SUFFICES ASSUME NEW u \in Tasks, NEW m \in Models, pricePc'[u] = "fill",
                      m \in Priced(u), priceQuiet'[m] > priceHeld[u]
               PROVE  priceGot[u].table[m] = Prices!Due(m)'
      BY <1>2 DEF TableFresh, Priced
  <2>1. priceHeld[u] \in Nat /\ pricePc[u] = pricePc'[u]
      BY <1>3, <1>5
  <2>2. m # x
      BY <1>7, <2>1
  <2> QED BY <1>7, <1>10, <2>1, <2>2 DEF PricesInv, TableFresh
<1>13. CopyFresh'
  <2> SUFFICES ASSUME NEW i \in PricingIsolates, NEW m \in Models, priceAge[i] < TTL,
                      priceQuiet'[m] > priceAge[i] + Latency,
                      m \in BuiltIn \/ (~partial[i] /\ m \in known)
               PROVE  priceCache[i][m] = Prices!Due(m)'
      BY <1>2 DEF CopyFresh
  <2>1. m # x
      BY <1>3, <1>7, PricesConstants
  <2> QED BY <1>7, <1>10, <2>1 DEF PricesInv, CopyFresh
<1> QED BY <1>9, <1>11, <1>12, <1>13 DEF PricesInv

\* invalidatePricingCache: a dropped copy is not in use.
LEMMA DropStep ==
    ASSUME PricesInv, NEW t \in Tasks, Prices!Drop(t)
    PROVE  PricesInv'
<1>1. /\ pricePc[t] = "drop" /\ UNCHANGED <<known, rates, priceQuiet>>
      /\ priceCache' = [priceCache EXCEPT ![priceHome[t]] = Prices!NoTable]
      /\ priceAge' = [priceAge EXCEPT ![priceHome[t]] = TTL]
      /\ partial' = [partial EXCEPT ![priceHome[t]] = FALSE]
      /\ Prices!Done(t) \/ /\ Prices!Goto(t, "upsert")
                           /\ UNCHANGED <<priceHome, todo, price, priceGot, priceHeld>>
    BY DEF Prices!Drop
<1>2. /\ priceCache \in [PricingIsolates -> Prices!Tables]
      /\ priceAge \in [PricingIsolates -> 0..TTL] /\ partial \in [PricingIsolates -> BOOLEAN]
      /\ priceHome[t] \in PricingIsolates /\ pricePc \in [Tasks -> Prices!Stage]
    BY DEF PricesInv, Prices!TypeOK
<1>3. /\ priceCache' \in [PricingIsolates -> Prices!Tables]
      /\ partial' \in [PricingIsolates -> BOOLEAN]
    BY <1>1, <1>2, PricesConstants
<1>4. priceAge' \in [PricingIsolates -> 0..TTL]
    BY <1>1, <1>2, PricesConstants
<1>5. /\ pricePc'[t] \in {"idle", "upsert"}
      /\ \A u \in Tasks \ {t} : /\ pricePc'[u] = pricePc[u] /\ priceGot'[u] = priceGot[u]
                                /\ priceHeld'[u] = priceHeld[u]
    BY <1>1, <1>2, PricesDone DEF Prices!Goto
<1>6. Prices!TypeOK'
  <2>1. CASE Prices!Done(t)
      BY <1>1, <1>3, <1>4, <2>1, PricesDone DEF PricesInv, Prices!TypeOK
  <2>2. CASE Prices!Goto(t, "upsert") /\ UNCHANGED <<priceHome, todo, price, priceGot, priceHeld>>
    <3>1. pricePc' \in [Tasks -> Prices!Stage]
        BY <1>2, <2>2 DEF Prices!Goto, Prices!Stage
    <3> QED BY <1>1, <1>3, <1>4, <2>2, <3>1 DEF PricesInv, Prices!TypeOK
  <2> QED BY <1>1, <2>1, <2>2
<1>7. \A m : Prices!Due(m)' = Prices!Due(m)
    BY <1>1 DEF Prices!Due
<1>8. ListFresh'
    BY <1>1, <1>5 DEF PricesInv, ListFresh, Priced
<1>9. TableFresh'
    BY <1>1, <1>5, <1>7 DEF PricesInv, TableFresh, Priced
<1>10. CopyFresh'
  <2> SUFFICES ASSUME NEW i \in PricingIsolates, priceAge'[i] < TTL
               PROVE  /\ priceCache'[i] = priceCache[i] /\ priceAge'[i] = priceAge[i]
                      /\ partial'[i] = partial[i]
      BY <1>1, <1>7 DEF PricesInv, CopyFresh
  <2>1. i # priceHome[t]
      BY <1>1, <1>2, PricesConstants
  <2> QED BY <1>1, <1>2, <2>1
<1> QED BY <1>6, <1>8, <1>9, <1>10 DEF PricesInv

\* A tick ages copies, loads and writes alike.
LEMMA PriceTickStep ==
    ASSUME PricesInv, Prices!Tick
    PROVE  PricesInv'
<1>1. /\ \A t \in Tasks : pricePc[t] \in {"rates", "fill"} => priceHeld[t] < Latency
      /\ priceAge' = [i \in PricingIsolates |-> IF priceAge[i] < TTL THEN priceAge[i] + 1 ELSE TTL]
      /\ priceHeld' = [t \in Tasks |-> IF pricePc[t] \in {"rates", "fill"}
                                       THEN priceHeld[t] + 1 ELSE priceHeld[t]]
      /\ priceQuiet' = [m \in Models |-> IF priceQuiet[m] < Prices!Settled
                                         THEN priceQuiet[m] + 1 ELSE Prices!Settled]
      /\ UNCHANGED <<known, rates, priceCache, partial, pricePc, priceHome, todo, price,
                     priceGot>>
    BY DEF Prices!Tick
<1>2. /\ priceAge \in [PricingIsolates -> 0..TTL] /\ priceHeld \in [Tasks -> 0..Latency]
      /\ priceQuiet \in [Models -> 0..Prices!Settled] /\ known \in SUBSET Models
    BY DEF PricesInv, Prices!TypeOK
<1>3. priceAge' \in [PricingIsolates -> 0..TTL]
    BY <1>1, <1>2, PricesConstants
<1>4. priceHeld' \in [Tasks -> 0..Latency]
    BY <1>1, <1>2, PricesConstants
<1>5. priceQuiet' \in [Models -> 0..Prices!Settled]
    BY <1>1, <1>2, PricesConstants
<1>6. Prices!TypeOK'
    BY <1>1, <1>3, <1>4, <1>5 DEF PricesInv, Prices!TypeOK
<1>7. \A m : Prices!Due(m)' = Prices!Due(m)
    BY <1>1 DEF Prices!Due
<1>8. ASSUME NEW u \in Tasks, NEW m \in Models, pricePc[u] \in {"rates", "fill"},
             priceQuiet'[m] > priceHeld'[u]
      PROVE  priceQuiet[m] > priceHeld[u]
    BY <1>1, <1>2, <1>8, PricesConstants
<1>9. ListFresh'
    BY <1>1, <1>2, <1>8 DEF PricesInv, ListFresh, Priced
<1>10. TableFresh'
    BY <1>1, <1>7, <1>8 DEF PricesInv, TableFresh, Priced
<1>11. CopyFresh'
  <2> SUFFICES ASSUME NEW i \in PricingIsolates, NEW m \in Models, priceAge'[i] < TTL,
                      priceQuiet'[m] > priceAge'[i] + Latency
               PROVE  priceAge[i] < TTL /\ priceQuiet[m] > priceAge[i] + Latency
      BY <1>1, <1>7 DEF PricesInv, CopyFresh
  <2> QED BY <1>1, <1>2, PricesConstants
<1> QED BY <1>6, <1>9, <1>10, <1>11 DEF PricesInv

\* Every step of the prices keeps their copies fresh.
LEMMA PricesStep ==
    ASSUME PricesInv, [Prices!Next]_pricingVars PROVE PricesInv'
<1> USE DEF Prices!copyVars
<1>1. ASSUME NEW t \in Tasks, Prices!Load(t) PROVE PricesInv'
  <2>1. /\ pricePc' = [pricePc EXCEPT ![t] = "list"]
        /\ UNCHANGED <<known, rates, priceCache, priceAge, partial, priceHome, todo, price,
                       priceGot, priceHeld, priceQuiet>>
      BY <1>1 DEF Prices!Load, Prices!Goto
  <2>2. /\ pricePc' \in [Tasks -> Prices!Stage] /\ pricePc'[t] = "list"
        /\ \A u \in Tasks \ {t} : pricePc'[u] = pricePc[u]
      BY <2>1 DEF PricesInv, Prices!TypeOK, Prices!Stage
  <2>3. Prices!TypeOK'
      BY <2>1, <2>2 DEF PricesInv, Prices!TypeOK
  <2> QED BY <2>1, <2>2, <2>3, PricesQuiet DEF PricesInv
<1>2. ASSUME NEW t \in Tasks, Prices!List(t) PROVE PricesInv'
    BY <1>2, ListStep
<1>3. ASSUME NEW t \in Tasks, Prices!ReadRates(t) PROVE PricesInv'
    BY <1>3, ReadRatesStep
<1>4. ASSUME NEW t \in Tasks, Prices!RatesFail(t) \/ Prices!Fail(t) PROVE PricesInv'
  <2>1. Prices!Done(t) /\ UNCHANGED <<known, rates, priceCache, priceAge, partial, priceQuiet>>
      BY <1>4 DEF Prices!RatesFail, Prices!Fail
  <2>2. Prices!TypeOK'
      BY <2>1, PricesDone DEF PricesInv, Prices!TypeOK
  <2>3. ListFresh' /\ TableFresh' /\ CopyFresh'
      BY <2>1, PricesDone, PricesQuiet
  <2> QED BY <2>2, <2>3 DEF PricesInv
<1>5. ASSUME NEW t \in Tasks, Prices!Fill(t) PROVE PricesInv'
    BY <1>5, PriceFillStep
<1>6. ASSUME NEW t \in Tasks, Prices!AddModel(t) PROVE PricesInv'
  <2>1. PICK m \in Models \ known, r \in Rates :
            /\ known' = known \cup {m} /\ priceQuiet' = [priceQuiet EXCEPT ![m] = 0]
            /\ todo' = [todo EXCEPT ![t] = {m}] /\ price' = [price EXCEPT ![t] = r]
      BY <1>6 DEF Prices!AddModel
  <2>2. {m} \in SUBSET Models /\ r \in Prices!Saved
      BY DEF Prices!Saved
  <2>3. /\ pricePc[t] = "idle" /\ Prices!Goto(t, "upsert")
        /\ UNCHANGED <<rates, priceCache, priceAge, partial, priceHome, priceGot, priceHeld>>
      BY <1>6 DEF Prices!AddModel
  <2> QED BY <2>1, <2>2, <2>3, SaveBegins
<1>7. ASSUME NEW t \in Tasks, Prices!SetRate(t) PROVE PricesInv'
  <2>1. PICK m \in known, r \in Rates :
            todo' = [todo EXCEPT ![t] = {m}] /\ price' = [price EXCEPT ![t] = r]
      BY <1>7 DEF Prices!SetRate
  <2>2. {m} \in SUBSET Models /\ r \in Prices!Saved
      BY DEF Prices!Saved, PricesInv, Prices!TypeOK
  <2>3. /\ pricePc[t] = "idle" /\ Prices!Goto(t, "upsert") /\ UNCHANGED <<known, priceQuiet>>
        /\ UNCHANGED <<rates, priceCache, priceAge, partial, priceHome, priceGot, priceHeld>>
      BY <1>7 DEF Prices!SetRate
  <2> QED BY <2>1, <2>2, <2>3, SaveBegins
<1>8. ASSUME NEW t \in Tasks, Prices!Restore(t) PROVE PricesInv'
  <2>1. /\ todo' = [todo EXCEPT ![t] = BuiltIn] /\ price' = [price EXCEPT ![t] = DefaultRate]
        /\ pricePc[t] = "idle" /\ Prices!Goto(t, "upsert") /\ UNCHANGED <<known, priceQuiet>>
        /\ UNCHANGED <<rates, priceCache, priceAge, partial, priceHome, priceGot, priceHeld>>
      BY <1>8 DEF Prices!Restore
  <2>2. BuiltIn \in SUBSET Models /\ DefaultRate \in Prices!Saved
      BY PricesConstants
  <2> QED BY <2>1, <2>2, SaveBegins
<1>9. ASSUME NEW t \in Tasks, Prices!Upsert(t) PROVE PricesInv'
    BY <1>9, UpsertStep
<1>10. ASSUME NEW t \in Tasks, Prices!Drop(t) PROVE PricesInv'
    BY <1>10, DropStep
<1>11. CASE Prices!Tick
    BY <1>11, PriceTickStep
<1>12. CASE UNCHANGED pricingVars
    BY <1>12 DEF pricingVars, PricesInv, Prices!TypeOK, ListFresh, TableFresh, CopyFresh,
       Priced, Prices!Due
<1> QED BY <1>1, <1>2, <1>3, <1>4, <1>5, <1>6, <1>7, <1>8, <1>9, <1>10, <1>11, <1>12
        DEF Prices!Next

-----------------------------------------------------------------------------
(* Both together.                                                          *)

\* Nothing is cached and nothing is read at first.
LEMMA CachesStart == CachesInit => RegistryInv /\ PricesInv
<1> SUFFICES ASSUME CachesInit PROVE RegistryInv /\ PricesInv
    OBVIOUS
<1>1. TypeOK
  <2>1. /\ table \in Rows /\ cache = [i \in Isolates |-> Empty]
        /\ age = [i \in Isolates |-> TTL] /\ pc = [t \in Tasks |-> "idle"]
        /\ home \in [Tasks -> Isolates] /\ edit = [t \in Tasks |-> NoEdit]
        /\ got = [t \in Tasks |-> Empty] /\ held = [t \in Tasks |-> 0]
        /\ quiet = [m \in Models |-> Settled]
      BY DEF CachesInit, Init
  <2>2. TTL \in 0..TTL /\ 0 \in 0..Latency /\ Settled \in 0..Settled
      BY RegistryConstants
  <2> QED BY <2>1, <2>2, RegistryConstants DEF TypeOK, Stage
<1>2. EditReady /\ GotFresh /\ CacheFresh
    BY RegistryConstants DEF CachesInit, Init, EditReady, GotFresh, CacheFresh, Live
<1>3. Prices!TypeOK
  <2>1. /\ known = BuiltIn /\ rates \in Prices!Tables
        /\ priceCache = [i \in PricingIsolates |-> Prices!NoTable]
        /\ priceAge = [i \in PricingIsolates |-> TTL]
        /\ partial = [i \in PricingIsolates |-> FALSE]
        /\ pricePc = [t \in Tasks |-> "idle"] /\ priceHome \in [Tasks -> PricingIsolates]
        /\ todo = [t \in Tasks |-> {}] /\ price = [t \in Tasks |-> NoRate]
        /\ priceGot = [t \in Tasks |-> Prices!NoGot] /\ priceHeld = [t \in Tasks |-> 0]
        /\ priceQuiet = [m \in Models |-> Prices!Settled]
      BY DEF CachesInit, Prices!Init
  <2>2. TTL \in 0..TTL /\ 0 \in 0..Latency /\ Prices!Settled \in 0..Prices!Settled
      BY PricesConstants
  <2> QED BY <2>1, <2>2, PricesConstants DEF Prices!TypeOK, Prices!Stage
<1>4. ListFresh /\ TableFresh /\ CopyFresh
    BY PricesConstants DEF CachesInit, Prices!Init, ListFresh, TableFresh, CopyFresh
<1> QED BY <1>1, <1>2, <1>3, <1>4 DEF RegistryInv, PricesInv

\* Both invariants hold in every reachable state.
THEOREM CachesInvariant == CachesSpec => [](RegistryInv /\ PricesInv)
<1>1. CachesInit => RegistryInv /\ PricesInv
    BY CachesStart
<1>2. RegistryInv /\ PricesInv /\ [CachesNext]_<<part, vars, pricingVars>>
        => (RegistryInv /\ PricesInv)'
  <2>1. [CachesNext]_<<part, vars, pricingVars>> => [Next]_vars /\ [Prices!Next]_pricingVars
      BY DEF CachesNext
  <2> QED BY <2>1, RegistryStep, PricesStep
<1> QED BY <1>1, <1>2, PTL DEF CachesSpec

\* The tables, the copies and what the tasks hold keep their types, however many
\* isolates and tasks there are.
THEOREM CachesTypeCorrect == CachesSpec => []CachesTypeOK
<1>1. RegistryInv /\ PricesInv => CachesTypeOK
    BY DEF RegistryInv, PricesInv, CachesTypeOK
<1> QED BY <1>1, CachesInvariant, PTL

\* A full copy in use is no older than its age and one load, for the registry
\* (listModelRows) and for the prices (getPricingTable).
THEOREM CopiesAreFresh == CachesSpec => []CopiesFresh
<1>1. RegistryInv /\ PricesInv => CopiesFresh
  <2> SUFFICES ASSUME RegistryInv, PricesInv PROVE Prices!PriceFresh
      BY DEF CopiesFresh, RegistryInv
  <2> SUFFICES ASSUME NEW i \in PricingIsolates, NEW m \in known, priceAge[i] < TTL,
                      ~partial[i], priceQuiet[m] > priceAge[i] + Latency
               PROVE  Prices!RateFor(priceCache[i], m) = Prices!Due(m)
      BY DEF Prices!PriceFresh, Prices!Live
  <2>1. m \in Models /\ rates \in Prices!Tables
      BY DEF PricesInv, Prices!TypeOK
  <2>2. priceCache[i][m] = Prices!Due(m)
      BY <2>1 DEF PricesInv, CopyFresh
  <2>3. Prices!Due(m) # NoRate
      BY <2>1, PricesConstants DEF Prices!Due
  <2> QED BY <2>2, <2>3 DEF Prices!RateFor
<1> QED BY <1>1, CachesInvariant, PTL

\* Even the copy of a load whose list of models failed bills the models of the
\* code at their saved rates (getPricingTable in billing/store.js).
THEOREM BuiltInsArePriced == CachesSpec => []BuiltInPriced
<1>1. RegistryInv /\ PricesInv => BuiltInPriced
  <2>1. \A m \in BuiltIn : m \in Models
      BY PricesConstants
  <2> QED BY <2>1 DEF PricesInv, CopyFresh, BuiltInPriced, Prices!BuiltInPriced, Prices!Live
<1> QED BY <1>1, CachesInvariant, PTL
=============================================================================
