------------------------------ MODULE ModelConfig ------------------------------
(***************************************************************************)
(* The model registry: table ai_models, its copy in the memory of every    *)
(* isolate (src/src/ai/model-config.js) and the administrator's saves      *)
(* (src/src/admin/models.js).                                              *)
(*                                                                         *)
(* A load takes its snapshot of the table in one step and puts it into the *)
(* cache in a later one, and an invalidation can pass between the two.     *)
(* Time is counted in ticks; a cached copy lives for TTL of them.          *)
(***************************************************************************)
EXTENDS Integers

CONSTANTS
    Isolates,
    Tasks,      \* loads and saves in flight
    Models,
    BuiltIn,    \* the models known to the code
    Configs,    \* what a row may say, enabled or not
    Absent,     \* no row
    TTL,        \* CACHE_MS in ticks
    Latency     \* bound: ticks between a snapshot and the end of its query

ASSUME ModelConfigAssumption ==
    /\ BuiltIn \subseteq Models
    /\ Absent \notin Configs
    /\ TTL \in Nat \ {0}
    /\ Latency \in Nat

VARIABLES
    table,      \* table ai_models
    cache,      \* cache.rows of each isolate
    age,        \* ticks since cache.at, TTL when nothing is cached
    pc,
    home,       \* the isolate a task runs in
    edit,       \* the model and row a save is about
    got,        \* the rows a load read
    held,       \* history: ticks since they were read
    quiet       \* history: ticks since the last write to a model's row

taskVars == <<pc, home, edit, got, held>>
vars == <<table, cache, age, taskVars, quiet>>

Rows == [Models -> Configs \cup {Absent}]

Empty == [m \in Models |-> Absent]

NoEdit == [model |-> Absent, row |-> Absent]

\* The longest time a write can go unseen, and one more.
Settled == TTL + Latency + 1

Init ==
    /\ table \in {t \in Rows : \A m \in Models : t[m] # Absent <=> m \in BuiltIn}
    /\ cache = [i \in Isolates |-> Empty]
    /\ age = [i \in Isolates |-> TTL]
    /\ pc = [t \in Tasks |-> "idle"]
    /\ home \in [Tasks -> Isolates]
    /\ edit = [t \in Tasks |-> NoEdit]
    /\ got = [t \in Tasks |-> Empty]
    /\ held = [t \in Tasks |-> 0]
    /\ quiet = [m \in Models |-> Settled]

\* The cached copy may be used.
Live(i) == age[i] < TTL

Goto(t, stage) == pc' = [pc EXCEPT ![t] = stage]

Done(t) ==
    /\ Goto(t, "idle")
    /\ edit' = [edit EXCEPT ![t] = NoEdit]
    /\ got' = [got EXCEPT ![t] = Empty]
    /\ held' = [held EXCEPT ![t] = 0]
    /\ UNCHANGED home

-----------------------------------------------------------------------------
\* Loads.

\* listModelRows finds nothing live in the cache of its isolate.
Load(t) ==
    /\ pc[t] = "idle" /\ ~Live(home[t])
    /\ Goto(t, "query")
    /\ UNCHANGED <<table, cache, age, home, edit, got, held, quiet>>

\* The SELECT, or its failure, which counts as an empty table.
Query(t) ==
    /\ pc[t] = "query"
    /\ got' \in {[got EXCEPT ![t] = table], [got EXCEPT ![t] = Empty]}
    /\ held' = [held EXCEPT ![t] = 0]
    /\ Goto(t, "fill")
    /\ UNCHANGED <<table, cache, age, home, edit, quiet>>

\* Mutant of Fill: a failed read leaves the old copy and renews it.
FillKeepsOld(t) ==
    /\ pc[t] = "fill"
    /\ cache' = [cache EXCEPT ![home[t]] = IF got[t] = Empty THEN @ ELSE got[t]]
    /\ age' = [age EXCEPT ![home[t]] = 0]
    /\ Done(t)
    /\ UNCHANGED <<table, quiet>>

\* The continuation stores what it read, whatever happened meanwhile.
Fill(t) ==
    /\ pc[t] = "fill"
    /\ cache' = [cache EXCEPT ![home[t]] = got[t]]
    /\ age' = [age EXCEPT ![home[t]] = 0]
    /\ Done(t)
    /\ UNCHANGED <<table, quiet>>

-----------------------------------------------------------------------------
\* Saves.

\* updateAdminModel finds the row.
Edit(t) ==
    /\ pc[t] = "idle"
    /\ \E m \in Models, c \in Configs :
        /\ table[m] # Absent
        /\ edit' = [edit EXCEPT ![t] = [model |-> m, row |-> c]]
    /\ Goto(t, "update")
    /\ UNCHANGED <<table, cache, age, home, got, held, quiet>>

\* createAdminModel with an id of its own finds no row.
Create(t) ==
    /\ pc[t] = "idle"
    /\ \E m \in Models, c \in Configs :
        /\ table[m] = Absent
        /\ edit' = [edit EXCEPT ![t] = [model |-> m, row |-> c]]
    /\ Goto(t, "insert")
    /\ UNCHANGED <<table, cache, age, home, got, held, quiet>>

\* What getActiveModelConfigs lists.
Listed(rows) ==
    IF rows = Empty THEN BuiltIn ELSE {m \in Models : rows[m] # Absent}

\* createAdminModel makes an id up that the cached configurations do not have.
CreateNamed(t) ==
    /\ pc[t] = "idle" /\ Live(home[t])
    /\ \E m \in Models \ Listed(cache[home[t]]), c \in Configs :
        edit' = [edit EXCEPT ![t] = [model |-> m, row |-> c]]
    /\ Goto(t, "insert")
    /\ UNCHANGED <<table, cache, age, home, got, held, quiet>>

\* The statement that writes the row.
Write(t) ==
    /\ table' = [table EXCEPT ![edit[t].model] = edit[t].row]
    /\ quiet' = [quiet EXCEPT ![edit[t].model] = 0]
    /\ Goto(t, "invalidate")
    /\ UNCHANGED <<cache, age, home, edit, got, held>>

Update(t) == pc[t] = "update" /\ Write(t)

Insert(t) == pc[t] = "insert" /\ table[edit[t].model] = Absent /\ Write(t)

\* The primary key is taken, or a statement fails: the save ends without an
\* invalidation.
Fail(t) ==
    /\ pc[t] \in {"update", "insert", "invalidate"}
    /\ Done(t)
    /\ UNCHANGED <<table, cache, age, quiet>>

\* invalidateModelConfigCache in this isolate; the answer lists the models.
Invalidate(t) ==
    /\ pc[t] = "invalidate"
    /\ cache' = [cache EXCEPT ![home[t]] = Empty]
    /\ age' = [age EXCEPT ![home[t]] = TTL]
    /\ edit' = [edit EXCEPT ![t] = NoEdit]
    /\ Goto(t, "query")
    /\ UNCHANGED <<table, home, got, held, quiet>>

-----------------------------------------------------------------------------
\* The clock.  A query that has read the table ends within Latency ticks.
Tick ==
    /\ \A t \in Tasks : pc[t] = "fill" => held[t] < Latency
    /\ age' = [i \in Isolates |-> IF age[i] < TTL THEN age[i] + 1 ELSE TTL]
    /\ held' = [t \in Tasks |-> IF pc[t] = "fill" THEN held[t] + 1 ELSE held[t]]
    /\ quiet' = [m \in Models |-> IF quiet[m] < Settled THEN quiet[m] + 1 ELSE Settled]
    /\ UNCHANGED <<table, cache, pc, home, edit, got>>

Step(t) ==
    \/ Load(t) \/ Query(t) \/ Fill(t)
    \/ Edit(t) \/ Create(t) \/ CreateNamed(t)
    \/ Update(t) \/ Insert(t) \/ Fail(t) \/ Invalidate(t)

Next == (\E t \in Tasks : Step(t)) \/ Tick

Spec == Init /\ [][Next]_vars

-----------------------------------------------------------------------------
\* Properties.

Stage == {"idle", "query", "fill", "update", "insert", "invalidate"}

TypeOK ==
    /\ table \in Rows
    /\ cache \in [Isolates -> Rows]
    /\ age \in [Isolates -> 0..TTL]
    /\ pc \in [Tasks -> Stage]
    /\ home \in [Tasks -> Isolates]
    /\ edit \in [Tasks -> [model : Models, row : Configs] \cup {NoEdit}]
    /\ got \in [Tasks -> Rows]
    /\ held \in [Tasks -> 0..Latency]
    /\ quiet \in [Models -> 0..Settled]

\* A copy in use is at most its own age and one query's latency behind the
\* table, in every isolate and whatever was invalidated or filled meanwhile;
\* the exception is the empty copy that stands for a table that could not be
\* read, for which the code uses its built-in models.
CacheFresh ==
    \A i \in Isolates, m \in Models :
        (Live(i) /\ cache[i] # Empty /\ quiet[m] > age[i] + Latency) =>
            cache[i][m] = table[m]
=============================================================================
