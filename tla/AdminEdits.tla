----------------------------- MODULE AdminEdits -----------------------------
(***************************************************************************)
(* Administrators edit one row, an API key or a model, in several tabs of  *)
(* assets/pages/admin/app.js.  A tab fills its form from the list it read  *)
(* last and saves the whole form; the server (updateApiKey and             *)
(* updateAdminModel) writes every field it is given.  Nothing says that    *)
(* the row has changed since, and the list of models comes from a cache    *)
(* and from a table of prices that may not have been read.                 *)
(***************************************************************************)
EXTENDS Integers

CONSTANTS
    Tabs,
    Limits,    \* values of the limit of a key, of the rates of a model
    Default,   \* the rates a model is shown with when prices cannot be read
    Hours,     \* instants at which a key can expire
    MaxHour,   \* bound: hours an expiry can be moved to
    Offsets,   \* hours a browser's clock is ahead of UTC
    NoRow      \* a list that is being read, a form that is closed

EditsAssumption ==
    /\ Default \in Limits /\ Offsets \subseteq Int
    /\ MaxHour \in Nat /\ Hours \subseteq -MaxHour .. MaxHour

VARIABLES
    kind,      \* "key" or "model"
    row,       \* the row of api_keys, or of ai_models with its pricing_rates
    cached,    \* the copy of it another isolate keeps, when it is a model
    list,      \* _keyData or _modelData of a tab
    form,      \* the open form of a tab
    sent,      \* the request that saves it is under way
    touched,   \* fields the administrator changed in the form
    offset,    \* the clock of the tab's browser
    stale      \* history: fields of the row that are not what the tab read

vars == <<kind, row, cached, list, form, sent, touched, offset, stale>>

Fields == {"enabled", "limit", "expiry"}

\* The text of an expiry: there is none, or it names a minute, a second or no
\* more than a day.  The hour of a key that never expires means nothing.
Texts == {"never", "minute", "second", "day"}
Expiry == [text : Texts, hour : -MaxHour .. MaxHour]
Row == [enabled : BOOLEAN, limit : Limits, expiry : Expiry]

Differing(r, q) == {f \in Fields : r[f] # q[f]}

Init ==
    /\ kind \in {"key", "model"}
    /\ \E l \in Limits, h \in Hours, x \in IF kind = "key" THEN Texts ELSE {"never"} :
          row = [enabled |-> TRUE, limit |-> l, expiry |-> [text |-> x, hour |-> h]]
    /\ cached = row
    /\ list = [a \in Tabs |-> NoRow]
    /\ form = [a \in Tabs |-> NoRow]
    /\ sent = [a \in Tabs |-> FALSE]
    /\ touched = [a \in Tabs |-> {}]
    /\ offset \in [Tabs -> Offsets]
    /\ stale = [a \in Tabs |-> {}]

\* What a request for the list can be answered: listApiKeys reads the table,
\* listAdminModels a cache of it and the prices, or the defaults instead.
Lists ==
    IF kind = "key" THEN {row}
    ELSE {[r EXCEPT !.limit = l] : r \in {row, cached}, l \in {row.limit, Default}}

\* loadKeys, loadModels.
Read(a) ==
    /\ form[a] = NoRow
    /\ \E r \in Lists :
          /\ list' = [list EXCEPT ![a] = r]
          /\ stale' = [stale EXCEPT ![a] = Differing(r, row)]
    /\ UNCHANGED <<kind, row, cached, form, sent, touched, offset>>

\* The copy of the other isolate is read again, at the latest when it expires.
Refresh ==
    /\ kind = "model"
    /\ cached' = row
    /\ UNCHANGED <<kind, row, list, form, sent, touched, offset, stale>>

\* The input of an expiry takes the first 16 characters of its text: the seconds
\* are cut off, and a day without a minute leaves it empty.
Shown(r) == [r EXCEPT !.expiry.text = IF @ \in {"never", "day"} THEN "never" ELSE "minute"]

\* Mutant of Open: a field that is off is taken for one that is not there.
OpenByTruth(a) ==
    /\ list[a] # NoRow /\ form[a] = NoRow
    /\ form' = [form EXCEPT ![a] = [Shown(list[a]) EXCEPT !.enabled = TRUE]]
    /\ touched' = [touched EXCEPT ![a] = {}]
    /\ UNCHANGED <<kind, row, cached, list, sent, offset, stale>>

\* showEditModal, showModelModal.
Open(a) ==
    /\ list[a] # NoRow /\ form[a] = NoRow
    /\ form' = [form EXCEPT ![a] = Shown(list[a])]
    /\ touched' = [touched EXCEPT ![a] = {}]
    /\ UNCHANGED <<kind, row, cached, list, sent, offset, stale>>

Type(a) ==
    /\ form[a] # NoRow /\ ~sent[a]
    /\ \E f \in Fields \ {"expiry"} :
          /\ \E v \in IF f = "enabled" THEN BOOLEAN ELSE Limits :
                form' = [form EXCEPT ![a][f] = v]
          /\ touched' = [touched EXCEPT ![a] = @ \cup {f}]
    /\ UNCHANGED <<kind, row, cached, list, sent, offset, stale>>

\* A click beside the form.
Close(a) ==
    /\ form[a] # NoRow /\ ~sent[a]
    /\ form' = [form EXCEPT ![a] = NoRow] /\ touched' = [touched EXCEPT ![a] = {}]
    /\ UNCHANGED <<kind, row, cached, list, sent, offset, stale>>

Submit(a) ==
    /\ form[a] # NoRow /\ ~sent[a]
    /\ sent' = [sent EXCEPT ![a] = TRUE]
    /\ UNCHANGED <<kind, row, cached, list, form, touched, offset, stale>>

Write(a, new) ==
    /\ row' = new
    /\ list' = [list EXCEPT ![a] = NoRow]
    /\ stale' = [b \in Tabs |-> IF list'[b] = NoRow THEN {} ELSE stale[b] \cup Differing(new, row)]

\* The text of a UTC time is read back as one of the browser's clock, and an
\* empty input as a key that never expires.
Encoded(a) ==
    IF form[a].expiry.text = "never" THEN form[a]
    ELSE [form[a] EXCEPT !.expiry.hour = @ - offset[a]]

\* handleEdit and updateApiKey, handleModelSubmit; the list is read again after.
Save(a) ==
    /\ sent[a]
    /\ Encoded(a) \in Row
    /\ Write(a, Encoded(a))
    /\ form' = [form EXCEPT ![a] = NoRow] /\ touched' = [touched EXCEPT ![a] = {}]
    /\ sent' = [sent EXCEPT ![a] = FALSE]
    /\ UNCHANGED <<kind, cached, offset>>

\* The request fails, or is refused: the form stays open.
SaveFails(a) ==
    /\ sent[a]
    /\ sent' = [sent EXCEPT ![a] = FALSE]
    /\ UNCHANGED <<kind, row, cached, list, form, touched, offset, stale>>

\* updateAdminModel fails between its two tables: the prices are not written.
SaveHalf(a) ==
    /\ sent[a] /\ kind = "model"
    /\ row' = [form[a] EXCEPT !.limit = row.limit]
    /\ stale' = [b \in Tabs |-> stale[b] \cup Differing(row', row)]
    /\ sent' = [sent EXCEPT ![a] = FALSE]
    /\ UNCHANGED <<kind, cached, list, form, touched, offset>>

\* disableKey, which sends 0 whatever its button says.
Disable(a) ==
    /\ kind = "key" /\ form[a] = NoRow
    /\ Write(a, [row EXCEPT !.enabled = FALSE])
    /\ UNCHANGED <<kind, cached, form, sent, touched, offset>>

\* toggleModelEnabled.
Toggle(a) ==
    /\ kind = "model" /\ list[a] # NoRow /\ form[a] = NoRow
    /\ Write(a, [row EXCEPT !.enabled = ~list[a].enabled])
    /\ UNCHANGED <<kind, cached, form, sent, touched, offset>>

Next ==
    \/ Refresh
    \/ \E a \in Tabs :
        \/ Read(a) \/ Open(a) \/ Type(a) \/ Close(a) \/ Submit(a)
        \/ Save(a) \/ SaveFails(a) \/ SaveHalf(a) \/ Disable(a) \/ Toggle(a)

Spec == Init /\ [][Next]_vars

-----------------------------------------------------------------------------
(* Properties.                                                             *)

\* The row, the lists and the forms keep their type.
TypeOK ==
    /\ kind \in {"key", "model"} /\ row \in Row /\ cached \in Row
    /\ list \in [Tabs -> Row \cup {NoRow}] /\ form \in [Tabs -> Row \cup {NoRow}]
    /\ sent \in [Tabs -> BOOLEAN]
    /\ touched \in [Tabs -> SUBSET Fields] /\ stale \in [Tabs -> SUBSET Fields]
    /\ offset \in [Tabs -> Offsets]

\* A form that is saved, wholly or in part, changes no field its administrator
\* did not touch, unless the row held something else there when, or since, his tab
\* read it: that field was written meanwhile, or the list came from an old copy
\* or without the prices (then what was read is written over the row).  Or it is
\* an expiry, and his clock is not UTC or its text is not exact to the minute
\* (then it moves by the offset, loses its seconds, or is dropped); a key that
\* never expires stays one (showEditModal and handleEdit in
\* assets/pages/admin/app.js, listAdminModels in admin/models.js).
UntouchedKept ==
    [][\A a \in Tabs : sent[a] /\ ~sent'[a] =>
          \A f \in Fields \ (touched[a] \cup stale[a]) :
              \/ row'[f] = row[f]
              \/ /\ f = "expiry" /\ row.expiry.text # "never"
                 /\ offset[a] # 0 \/ row.expiry.text # "minute"]_vars
=============================================================================
