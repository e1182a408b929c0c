----------------------------- MODULE ModelKeys -----------------------------
(***************************************************************************)
(* The LLM credentials of one company (ADR 0020): provider keys, the       *)
(* models registered against them, the routing of the four slots to        *)
(* models, the probes behind the "verified" badges, and the bundle a turn  *)
(* loads from these rows when it starts.                                   *)
(*                                                                         *)
(* Sources: cmd/api/routes/byok.py, internal/llm/probes.py,                *)
(* internal/llm/resolve.py, internal/memory/repos.py and models.py (byok). *)
(*                                                                         *)
(* A request reads rows in its own database session and commits later: the *)
(* two are separate steps, and SQLAlchemy writes only the columns whose    *)
(* value differs from the one read.  A key is its version number: a new    *)
(* secret or base URL is the next number, 0 is no key.  A row is not yet   *)
(* created ("new"), stored ("here") or deleted ("gone").                   *)
(***************************************************************************)
EXTENDS Naturals, FiniteSets

CONSTANTS
    Providers,  \* ids of key rows
    Models,     \* ids of registered models
    Slots,      \* the routing slots, a subset of the four columns
    Reqs,       \* editors' requests and background probes under way at once
    None,       \* an empty slot
    MaxKeys,    \* bound: versions of a provider's key
    MaxEdits    \* bound: requests that are started

ASSUMPTION ModelKeysAssumption ==
    /\ Slots \subseteq {"cheap", "medium", "strong", "image"}
    /\ None \notin Models
    /\ MaxKeys \in Nat \ {0}
    /\ MaxEdits \in Nat

VARIABLES
    providers,  \* byok_providers
    models,     \* byok_models
    routing,    \* byok_routing: slot -> model or None
    due,        \* rows whose background probe has been queued and not begun
    req,        \* the requests
    edits,      \* how many requests have started (bounded by MaxEdits)
    turn        \* the turn that loads the bundle (company_llm_scope)

keyVars == <<providers, models, routing, due, req, edits, turn>>

Rows == Providers \cup Models
Capabilities == {"chat", "image"}
Keys == 0..MaxKeys
Badge == [stamp : Keys, error : BOOLEAN]
Unverified == [stamp |-> 0, error |-> FALSE]

Provider == [row : {"new", "here", "gone"}, key : Keys, sealed : BOOLEAN, badge : Badge]
Model == [row : {"new", "here", "gone"}, provider : Providers, cap : Capabilities, badge : Badge]

(* What a slot of a turn's bundle resolves to: "none" falls back to the
   platform's environment key, "failed" raises, "org" uses the provider's key. *)
OrgSlot == [source : {"none", "failed", "org"}, provider : Providers \cup {None}, key : Keys]
EnvSlot == [source |-> "none", provider |-> None, key |-> 0]

NeededBy(s) == IF s = "image" THEN "image" ELSE "chat"
Here(m) == models[m].row = "here"
ModelsOf(p) == {m \in Models : Here(m) /\ models[m].provider = p}
SlotsOf(ms) == {s \in Slots : routing[s] \in ms}
BadgeOf(r) == IF r \in Providers THEN providers[r].badge ELSE models[r].badge
KeyOf(r) == IF r \in Providers THEN providers[r] ELSE providers[models[r].provider]
Stored(r) == IF r \in Providers THEN providers[r].row = "here" ELSE Here(r)

Idle == [pc |-> "idle"]
NoTurn == [pc |-> "off"]

----------------------------------------------------------------------------
(* A company that already has some rows: any of the providers, with the
   first key, readable or sealed by an earlier BYOK_ENCRYPTION_KEY; models
   on them; slots routed to models of their capability. *)
KeysInit ==
    /\ providers \in [Providers ->
            {[row |-> "new", key |-> 0, sealed |-> FALSE, badge |-> Unverified]}
            \cup [row : {"here"}, key : {1}, sealed : BOOLEAN, badge : {Unverified}]]
    /\ models \in [Models ->
            [row : {"new", "here"}, provider : Providers, cap : Capabilities,
             badge : {Unverified}]]
    /\ \A m \in Models : Here(m) => providers[models[m].provider].row = "here"
    /\ routing \in [Slots -> Models \cup {None}]
    /\ \A s \in Slots : routing[s] # None =>
            Here(routing[s]) /\ models[routing[s]].cap = NeededBy(s)
    /\ due = {}
    /\ req = [r \in Reqs |-> Idle]
    /\ edits = 0
    /\ turn = NoTurn

Begin(r, q) ==
    /\ req[r].pc = "idle"
    /\ edits < MaxEdits
    /\ edits' = edits + 1
    /\ req' = [req EXCEPT ![r] = q]
    /\ UNCHANGED <<providers, models, routing, due, turn>>

End(r) == req' = [req EXCEPT ![r] = Idle] /\ UNCHANGED edits

(* The rows a commit removes or reclassifies while a turn loads its bundle. *)
Loading == turn.pc \in {"models", "providers"}
Losing(ms) ==
    turn' = IF Loading THEN [turn EXCEPT !.lost = @ \cup ms] ELSE turn

----------------------------------------------------------------------------
(* POST /providers inserts the row and queues an authentication probe. *)
CreateProvider(r, p) ==
    /\ req[r].pc = "idle"
    /\ edits < MaxEdits
    /\ providers[p].row = "new"
    /\ providers' = [providers EXCEPT ![p].row = "here", ![p].key = 1]
    /\ due' = due \cup {p}
    /\ edits' = edits + 1
    /\ UNCHANGED <<models, routing, req, turn>>

(* PATCH /providers/{id} with a new key or base URL.  The badge columns are
   reset to null: an UPDATE leaves out the ones that were null when read. *)
PatchReads(r, p) ==
    /\ Stored(p)
    /\ providers[p].key < MaxKeys
    /\ Begin(r, [pc |-> "patch", row |-> p, read |-> providers[p].badge])

Written(read, new, now) ==
    [stamp |-> IF new.stamp = read.stamp THEN now.stamp ELSE new.stamp,
     error |-> IF new.error = read.error THEN now.error ELSE new.error]

(* The badge fields a key change leaves in the row. *)
ResetBadge(read, now) == Written(read, Unverified, now)

PatchCommits(r) ==
    /\ req[r].pc = "patch"
    /\ LET p == req[r].row IN
       IF Stored(p) /\ providers[p].key < MaxKeys
       THEN /\ providers' = [providers EXCEPT
                    ![p].key = @ + 1,
                    ![p].sealed = FALSE,
                    ![p].badge = ResetBadge(req[r].read, @)]
            /\ due' = due \cup {p}
       ELSE UNCHANGED <<providers, due>>
    /\ End(r)
    /\ UNCHANGED <<models, routing, turn>>

(* DELETE /providers/{id}: refused while models hang on it, unless forced.
   The foreign keys cascade to the models and clear their slots. *)
DropReads(r, p, force) ==
    /\ Stored(p)
    /\ ModelsOf(p) = {} \/ force
    /\ Begin(r, [pc |-> "drop", row |-> p, force |-> force])

(* Mutant: deleting a model leaves the routing alone. *)
ClearedNever(ms) == routing

Cleared(ms) == [s \in Slots |-> IF routing[s] \in ms THEN None ELSE routing[s]]

Cascade(ms) ==
    /\ models' = [m \in Models |-> IF m \in ms THEN [models[m] EXCEPT !.row = "gone"] ELSE models[m]]
    /\ routing' = Cleared(ms)
    /\ Losing(ms)

DropCommits(r) ==
    /\ req[r].pc = "drop"
    /\ LET p == req[r].row IN
       /\ providers' = [providers EXCEPT ![p].row = "gone"]
       /\ Cascade(ModelsOf(p))
    /\ End(r)
    /\ UNCHANGED due

(* DELETE /models/{id}: refused while a slot is routed to it, unless forced. *)
RemoveReads(r, m, force) ==
    /\ Here(m)
    /\ SlotsOf({m}) = {} \/ force
    /\ Begin(r, [pc |-> "remove", row |-> m, force |-> force])

RemoveCommits(r) ==
    /\ req[r].pc = "remove"
    /\ Cascade({req[r].row})
    /\ End(r)
    /\ UNCHANGED <<providers, due>>

(* POST /models: an id already registered for the provider is reclassified
   (the row is "here" when it is read), a new one is inserted. *)
AttachReads(r, m, p, cap) ==
    /\ Stored(p)
    /\ models[m].row = "new" \/ (Here(m) /\ models[m].provider = p)
    /\ Begin(r, [pc |-> "attach", row |-> m, provider |-> p, cap |-> cap,
                 old |-> Here(m), oldCap |-> models[m].cap, read |-> models[m].badge])

(* The update of a row deleted since, the insert of one another request has
   inserted, and the insert on a deleted provider all fail. *)
Reclassified(r, m) ==
    [models[m] EXCEPT !.cap = IF req[r].cap = req[r].oldCap THEN @ ELSE req[r].cap,
                      !.badge = ResetBadge(req[r].read, @)]
Registered(r) ==
    [row |-> "here", provider |-> req[r].provider, cap |-> req[r].cap, badge |-> Unverified]

AttachCommits(r) ==
    /\ req[r].pc = "attach"
    /\ LET m == req[r].row IN
       \/ /\ req[r].old /\ Here(m)
          /\ models' = [models EXCEPT ![m] = Reclassified(r, m)]
          /\ due' = due \cup {m}
          /\ Losing({m})
       \/ /\ ~req[r].old /\ models[m].row = "new" /\ Stored(req[r].provider)
          /\ models' = [models EXCEPT ![m] = Registered(r)]
          /\ due' = due \cup {m}
          /\ UNCHANGED turn
       \/ /\ IF req[r].old THEN ~Here(m) ELSE models[m].row # "new" \/ ~Stored(req[r].provider)
          /\ UNCHANGED <<models, due, turn>>
    /\ End(r)
    /\ UNCHANGED <<providers, routing>>

(* PUT /routing names all four slots; each model must exist and have the
   slot's capability when it is read, and exist (the foreign key) at commit. *)
Assignable(s, m) == Here(m) /\ models[m].cap = NeededBy(s)

RouteReads(r, wanted) ==
    /\ \A s \in Slots : wanted[s] # None => Assignable(s, wanted[s])
    /\ Begin(r, [pc |-> "route", wanted |-> wanted])

RouteCommits(r) ==
    /\ req[r].pc = "route"
    /\ routing' = IF \A s \in Slots : req[r].wanted[s] # None => Here(req[r].wanted[s])
                  THEN req[r].wanted
                  ELSE routing
    /\ End(r)
    /\ UNCHANGED <<providers, models, due, turn>>

(* A probe, from a Test button or from the background queue, reads its row
   and the key, calls the provider, and stamps the row with the answer. *)
ProbeOf(x) == [pc |-> "probe", row |-> x, key |-> KeyOf(x).key, sealed |-> KeyOf(x).sealed,
               read |-> BadgeOf(x)]

TestReads(r, x) == Stored(x) /\ Begin(r, ProbeOf(x))

BackgroundReads(r, x) ==
    /\ x \in due
    /\ req[r].pc = "idle"
    /\ due' = due \ {x}
    /\ req' = IF Stored(x) THEN [req EXCEPT ![r] = ProbeOf(x)] ELSE req
    /\ UNCHANGED <<providers, models, routing, edits, turn>>

(* apply_probe_result: a success stamps the time and clears the error, a
   failure only records its kind (the same kind again is not written). *)
Answered(q, ok, now) ==
    IF ok THEN Written(q.read, [stamp |-> q.key, error |-> FALSE], [now EXCEPT !.stamp = q.key])
    ELSE [now EXCEPT !.error = IF q.read.error THEN @ ELSE TRUE]

Stamp(x, b) ==
    IF x \in Providers
    THEN providers' = [providers EXCEPT ![x].badge = b] /\ UNCHANGED models
    ELSE models' = [models EXCEPT ![x].badge = b] /\ UNCHANGED providers

ProbeEnds(r, ok) ==
    /\ req[r].pc = "probe"
    /\ req[r].sealed => ~ok
    /\ LET x == req[r].row IN
       IF Stored(x) THEN Stamp(x, Answered(req[r], ok, BadgeOf(x)))
       ELSE UNCHANGED <<providers, models>>
    /\ End(r)
    /\ UNCHANGED <<routing, due, turn>>

----------------------------------------------------------------------------
(* load_company_llm_bundle: three reads, of the routing, of the models it
   names and of their providers.  "lost" is history: the models removed or
   reclassified while it loads. *)
LoadRouting(kind) ==
    /\ turn.pc = "off"
    /\ turn' = [pc |-> "models", kind |-> kind, routed |-> routing, lost |-> {}]
    /\ UNCHANGED <<providers, models, routing, due, req, edits>>

Found == {m \in Models : Here(m) /\ \E s \in Slots : turn.routed[s] = m}

LoadModels ==
    /\ turn.pc = "models"
    /\ turn' = [pc |-> "providers", kind |-> turn.kind, routed |-> turn.routed,
                lost |-> turn.lost,
                found |-> [m \in Found |-> [provider |-> models[m].provider, cap |-> models[m].cap]]]
    /\ UNCHANGED <<providers, models, routing, due, req, edits>>

(* Mutant: a key that cannot be decrypted is treated as no key. *)
SlotFromFailingOpen(found, s, m) ==
    IF m \notin DOMAIN found THEN EnvSlot
    ELSE LET p == found[m].provider IN
         IF found[m].cap # NeededBy(s) \/ ~Stored(p) \/ providers[p].sealed THEN EnvSlot
         ELSE [source |-> "org", provider |-> p, key |-> providers[p].key]

(* _slot_from_model: a missing model, another capability or a missing
   provider fall back to the environment; a key that cannot be decrypted
   does not. *)
SlotFrom(found, s, m) ==
    IF m \notin DOMAIN found THEN EnvSlot
    ELSE LET p == found[m].provider IN
         IF found[m].cap # NeededBy(s) \/ ~Stored(p) THEN EnvSlot
         ELSE [source |-> IF providers[p].sealed THEN "failed" ELSE "org",
               provider |-> p, key |-> providers[p].key]

Bundle == [s \in Slots |-> SlotFrom(turn.found, s, turn.routed[s])]

LoadProviders ==
    /\ turn.pc = "providers"
    /\ turn' = [pc |-> "ready", kind |-> turn.kind, routed |-> turn.routed, lost |-> turn.lost,
                bundle |-> Bundle,
                misfit |-> {s \in Slots : turn.routed[s] # None
                                /\ turn.routed[s] \in DOMAIN turn.found
                                /\ turn.found[turn.routed[s]].cap # NeededBy(s)}]
    /\ UNCHANGED <<providers, models, routing, due, req, edits>>

----------------------------------------------------------------------------
KeysNext ==
    \/ \E r \in Reqs, p \in Providers :
            \/ CreateProvider(r, p)
            \/ PatchReads(r, p)
            \/ \E force \in BOOLEAN : DropReads(r, p, force)
    \/ \E r \in Reqs, m \in Models :
            \/ \E force \in BOOLEAN : RemoveReads(r, m, force)
            \/ \E p \in Providers, cap \in Capabilities : AttachReads(r, m, p, cap)
    \/ \E r \in Reqs, wanted \in [Slots -> Models \cup {None}] : RouteReads(r, wanted)
    \/ \E r \in Reqs, x \in Rows : TestReads(r, x) \/ BackgroundReads(r, x)
    \/ \E r \in Reqs :
            \/ PatchCommits(r)
            \/ DropCommits(r)
            \/ RemoveCommits(r)
            \/ AttachCommits(r)
            \/ RouteCommits(r)
            \/ \E ok \in BOOLEAN : ProbeEnds(r, ok)
    \/ LoadModels
    \/ LoadProviders

----------------------------------------------------------------------------
KeysTypeOK ==
    /\ providers \in [Providers -> Provider]
    /\ models \in [Models -> Model]
    /\ routing \in [Slots -> Models \cup {None}]
    /\ due \subseteq Rows
    /\ DOMAIN req = Reqs
    /\ edits \in 0..MaxEdits

(* The foreign keys of byok_models and byok_routing hold through every
   cascade: no slot points at a deleted model, no model at a deleted key. *)
NothingDangles ==
    /\ \A m \in Models : Here(m) => Stored(models[m].provider)
    /\ \A s \in Slots : routing[s] # None => Here(routing[s])

(* byok.py resets the badge when the key changes and ADR 0020 section 10 has
   a probe update it: a provider shown verified was verified with the key it
   now has. *)
VerifiedIsOfTheKey ==
    \A p \in Providers : LET b == providers[p].badge IN
        Stored(p) /\ b.stamp # 0 /\ ~b.error => b.stamp = providers[p].key

(* ADR 0020 section 6: a delete without force answers 409 instead of taking
   anything that depends on the row with it. *)
UnforcedTakesNothing ==
    [][\A r \in Reqs :
        /\ req[r].pc \in {"drop", "remove"} /\ req'[r].pc = "idle" /\ ~req[r].force
        => routing' = routing]_keyVars
=============================================================================
