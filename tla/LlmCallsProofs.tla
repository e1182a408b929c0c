--------------------------- MODULE LlmCallsProofs ---------------------------
(***************************************************************************)
(* Proofs about ModelKeys and LlmCalls, for any providers, models, slots,  *)
(* requests, turns and calls: their types, NothingDangles,                 *)
(* PlatformPaysUnrouted and RecordedOnce.                                  *)
(*                                                                         *)
(* A slot points at a stored model and a model at a stored key because     *)
(* every commit looks again at what it depends on, or takes it along.  A   *)
(* bundle is loaded in three reads; what is routed at the first is still   *)
(* there at the next, with the same provider, unless a commit in between   *)
(* has removed it, which "lost" records.                                   *)
(***************************************************************************)
EXTENDS LlmCalls, SequenceTheorems, FiniteSetTheorems, TLAPS

(* What each kind of request carries from its read to its commit.          *)
ReqShape(q) ==
    /\ q.pc \in {"idle", "patch", "drop", "remove", "attach", "route", "probe"}
    /\ q.pc = "patch" => q.row \in Providers /\ q.read \in Badge
    /\ q.pc = "drop" => q.row \in Providers
    /\ q.pc = "remove" => q.row \in Models
    /\ q.pc = "attach" => /\ q.row \in Models /\ q.provider \in Providers
                          /\ q.cap \in Capabilities /\ q.read \in Badge
    /\ q.pc = "route" => q.wanted \in [Slots -> Models \cup {None}]
    /\ q.pc = "probe" => q.row \in Rows /\ q.key \in Keys /\ q.read \in Badge

ReqsShaped == \A r \in Reqs : ReqShape(req[r])

(* What is routed has not changed since it was read, or has been lost.     *)
RoutedKept ==
    turn.pc = "models" =>
        /\ turn = [pc |-> "models", kind |-> turn.kind, routed |-> turn.routed,
                   lost |-> turn.lost]
        /\ turn.routed \in [Slots -> Models \cup {None}]
        /\ \A s \in Slots : turn.routed[s] \in {None} \cup turn.lost \/ Here(turn.routed[s])

FoundKept ==
    turn.pc = "providers" =>
        /\ turn = [pc |-> "providers", kind |-> turn.kind, routed |-> turn.routed,
                   lost |-> turn.lost, found |-> turn.found]
        /\ turn.routed \in [Slots -> Models \cup {None}]
        /\ \A s \in Slots :
              \/ turn.routed[s] \in {None} \cup turn.lost
              \/ /\ turn.routed[s] \in DOMAIN turn.found
                 /\ Here(turn.routed[s])
                 /\ turn.found[turn.routed[s]].provider = models[turn.routed[s]].provider

TurnInv == RoutedKept /\ FoundKept /\ PlatformPaysUnrouted

KeysInv == KeysTypeOK /\ ReqsShaped /\ NothingDangles /\ TurnInv

(* Where a call's record is: in the buffer of the open node, with the       *)
(* writer, or stored; nowhere while the call is under way.                 *)
InBuffer(id) == \E i \in 1..Len(node.buffer) : node.buffer[i] = id

InOnePlace(id) ==
    \/ InBuffer(id) /\ id \notin tasks /\ rows[id] = 0
    \/ ~InBuffer(id) /\ id \in tasks /\ rows[id] = 0
    \/ ~InBuffer(id) /\ id \notin tasks /\ rows[id] = 1

Nowhere(id) == ~InBuffer(id) /\ id \notin tasks /\ rows[id] = 0

CallsTypeOK ==
    /\ env \in BOOLEAN
    /\ calls \in Seq(Call) /\ Len(calls) <= MaxCalls
    /\ node \in [open : BOOLEAN, buffer : Seq(1..Len(calls))]
    /\ tasks \subseteq 1..Len(calls)
    /\ rows \in [1..MaxCalls -> Nat]

OneAtATime == \A id \in 1..Len(calls) : calls[id].verdict = "open" => id = Len(calls)

BufferedOnce ==
    /\ \A i, j \in 1..Len(node.buffer) : node.buffer[i] = node.buffer[j] => i = j
    /\ ~node.open => node.buffer = <<>>

RecordsPlaced ==
    /\ \A id \in 1..Len(calls) : IF calls[id].verdict = "open" THEN Nowhere(id) ELSE InOnePlace(id)
    /\ \A id \in (Len(calls)+1)..MaxCalls : rows[id] = 0

RecordsInv == CallsTypeOK /\ OneAtATime /\ BufferedOnce /\ RecordsPlaced

USE ModelKeysAssumption, LlmCallsAssumption

----------------------------------------------------------------------------
(* Values.                                                                 *)

LEMMA BadgeTypes ==
    /\ Unverified \in Badge
    /\ \A read, new, now \in Badge : Written(read, new, now) \in Badge
    /\ \A read, now \in Badge : ResetBadge(read, now) \in Badge
    /\ \A k \in Keys : [stamp |-> k, error |-> FALSE] \in Badge
<1>1. 0 \in Keys
  BY DEF Keys
<1>2. Unverified \in Badge
  BY <1>1 DEF Unverified, Badge
<1>3. \A read, new, now \in Badge : Written(read, new, now) \in Badge
  BY DEF Written, Badge
<1>4. \A k \in Keys : [stamp |-> k, error |-> FALSE] \in Badge
  BY DEF Badge
<1>5. QED
  BY <1>2, <1>3, <1>4 DEF ResetBadge

LEMMA AnsweredTypes ==
    ASSUME NEW q, q.read \in Badge, q.key \in Keys, NEW now \in Badge
    PROVE  /\ Written(q.read, [stamp |-> q.key, error |-> FALSE], [now EXCEPT !.stamp = q.key]) \in Badge
           /\ [now EXCEPT !.error = IF q.read.error THEN @ ELSE TRUE] \in Badge
<1>1. [now EXCEPT !.stamp = q.key] \in Badge
  BY DEF Badge
<1>2. [now EXCEPT !.error = IF q.read.error THEN @ ELSE TRUE] \in Badge
  BY DEF Badge
<1>3. QED
  BY <1>1, <1>2, BadgeTypes

LEMMA BadgeOfTypes ==
    ASSUME KeysTypeOK, NEW x \in Rows
    PROVE  BadgeOf(x) \in Badge /\ KeyOf(x).key \in Keys
<1>1. providers \in [Providers -> Provider] /\ models \in [Models -> Model]
  BY DEF KeysTypeOK
<1>2. CASE x \in Providers
  BY <1>1, <1>2 DEF BadgeOf, KeyOf, Provider
<1>3. CASE x \in Models /\ x \notin Providers
  BY <1>1, <1>3 DEF BadgeOf, KeyOf, Provider, Model
<1>4. QED
  BY <1>2, <1>3 DEF Rows

(* A turn that loads is not misled by a commit that loses ms at most.      *)
LEMMA KeepsTurn ==
    ASSUME TurnInv, models \in [Models -> Model], None \notin Models, NEW ms \in SUBSET Models,
           \A m \in Models \ ms : Here(m) =>
               Here(m)' /\ models'[m].provider = models[m].provider,
           Losing(ms) \/ (ms = {} /\ UNCHANGED turn)
    PROVE  TurnInv'
<1>1. CASE turn.pc = "models"
  <2> DEFINE l == turn.lost \cup ms
  <2>1. /\ turn = [pc |-> "models", kind |-> turn.kind, routed |-> turn.routed,
                   lost |-> turn.lost]
        /\ turn.routed \in [Slots -> Models \cup {None}]
        /\ \A s \in Slots : turn.routed[s] \in {None} \cup turn.lost \/ Here(turn.routed[s])
    BY <1>1 DEF TurnInv, RoutedKept
  <2>2. turn' = [pc |-> "models", kind |-> turn.kind, routed |-> turn.routed, lost |-> l]
    BY <1>1, <2>1 DEF Losing, Loading
  <2>3. turn'.pc = "models" /\ turn'.routed = turn.routed /\ turn'.lost = l
        /\ turn'.kind = turn.kind
    BY <2>2
  <2>4. \A s \in Slots : turn'.routed[s] \in {None} \cup turn'.lost \/ models'[turn'.routed[s]].row = "here"
    BY <2>1, <2>3 DEF Here
  <2>5. RoutedKept'
    BY <2>1, <2>2, <2>3, <2>4 DEF RoutedKept
  <2>6. QED
    BY <2>3, <2>5 DEF TurnInv, FoundKept, PlatformPaysUnrouted
<1>2. CASE turn.pc = "providers"
  <2> DEFINE l == turn.lost \cup ms
  <2>1. /\ turn = [pc |-> "providers", kind |-> turn.kind, routed |-> turn.routed,
                   lost |-> turn.lost, found |-> turn.found]
        /\ turn.routed \in [Slots -> Models \cup {None}]
        /\ \A s \in Slots :
              \/ turn.routed[s] \in {None} \cup turn.lost
              \/ /\ turn.routed[s] \in DOMAIN turn.found
                 /\ Here(turn.routed[s])
                 /\ turn.found[turn.routed[s]].provider = models[turn.routed[s]].provider
    BY <1>2 DEF TurnInv, FoundKept
  <2>2. turn' = [pc |-> "providers", kind |-> turn.kind, routed |-> turn.routed, lost |-> l,
                 found |-> turn.found]
    BY <1>2, <2>1 DEF Losing, Loading
  <2>3. turn'.pc = "providers" /\ turn'.routed = turn.routed /\ turn'.lost = l
        /\ turn'.kind = turn.kind /\ turn'.found = turn.found
    BY <2>2
  <2>4. \A s \in Slots :
              \/ turn'.routed[s] \in {None} \cup turn'.lost
              \/ /\ turn'.routed[s] \in DOMAIN turn'.found
                 /\ models'[turn'.routed[s]].row = "here"
                 /\ turn'.found[turn'.routed[s]].provider = models'[turn'.routed[s]].provider
    BY <2>1, <2>3 DEF Here
  <2>5. FoundKept'
    BY <2>1, <2>2, <2>3, <2>4 DEF FoundKept
  <2>6. QED
    BY <2>3, <2>5 DEF TurnInv, RoutedKept, PlatformPaysUnrouted
<1>3. CASE ~Loading
  <2>1. UNCHANGED turn
    BY <1>3 DEF Losing
  <2>2. QED
    BY <1>3, <2>1 DEF Loading, TurnInv, RoutedKept, FoundKept, PlatformPaysUnrouted
<1>4. QED
  BY <1>1, <1>2, <1>3 DEF Loading

----------------------------------------------------------------------------
(* What the steps have in common.                                          *)

LEMMA BeginKeeps ==
    ASSUME KeysInv, NEW r \in Reqs, NEW q, ReqShape(q), Begin(r, q)
    PROVE  KeysInv'
<1>1. req' = [req EXCEPT ![r] = q] /\ edits' = edits + 1 /\ edits < MaxEdits
      /\ UNCHANGED <<providers, models, routing, due, turn>>
  BY DEF Begin
<1>2. KeysTypeOK'
  BY <1>1 DEF KeysInv, KeysTypeOK
<1>3. ReqsShaped'
  <2>1. \A x \in Reqs : req'[x] = IF x = r THEN q ELSE req[x]
    BY <1>1 DEF KeysInv, KeysTypeOK
  <2>2. \A x \in Reqs : ReqShape(req[x])
    BY DEF KeysInv, ReqsShaped
  <2>3. \A x \in Reqs : ReqShape(req'[x])
    BY <2>1, <2>2
  <2>4. QED
    BY <2>3 DEF ReqsShaped
<1>4. NothingDangles'
  BY <1>1 DEF KeysInv, NothingDangles, Here, Stored
<1>5. TurnInv'
  BY <1>1 DEF KeysInv, TurnInv, RoutedKept, FoundKept, PlatformPaysUnrouted, Here
<1>6. QED
  BY <1>2, <1>3, <1>4, <1>5 DEF KeysInv

LEMMA RequestsKept ==
    ASSUME KeysInv,
           \/ \E r \in Reqs : End(r)
           \/ UNCHANGED <<req, edits>>
    PROVE  ReqsShaped' /\ DOMAIN req' = Reqs /\ edits' \in 0..MaxEdits
<1>1. CASE UNCHANGED <<req, edits>>
  BY <1>1 DEF KeysInv, KeysTypeOK, ReqsShaped
<1>2. CASE \E r \in Reqs : End(r)
  <2>1. PICK r \in Reqs : End(r)
    BY <1>2
  <2>2. req' = [req EXCEPT ![r] = Idle] /\ edits' = edits
    BY <2>1 DEF End
  <2>3. ReqShape(Idle)
    BY DEF ReqShape, Idle
  <2>4. \A x \in Reqs : req'[x] = IF x = r THEN Idle ELSE req[x]
    BY <2>2 DEF KeysInv, KeysTypeOK
  <2>5. \A x \in Reqs : ReqShape(req'[x])
    BY <2>3, <2>4 DEF KeysInv, ReqsShaped
  <2>6. QED
    BY <2>2, <2>5 DEF KeysInv, KeysTypeOK, ReqsShaped
<1>3. QED
  BY <1>1, <1>2

(* Keys are only added or given new values.                                *)
LEMMA ProvidersStay ==
    ASSUME KeysInv, providers' \in [Providers -> Provider],
           \A p \in Providers : providers[p].row = "here" => providers'[p].row = "here",
           UNCHANGED <<models, routing, turn>>
    PROVE  NothingDangles' /\ TurnInv'
<1>1. NothingDangles'
  <2>1. \A m \in Models : models[m].provider \in Providers
    BY DEF KeysInv, KeysTypeOK, Model
  <2>2. QED
    BY <2>1 DEF KeysInv, NothingDangles, Here, Stored
<1>2. TurnInv'
  BY DEF KeysInv, TurnInv, RoutedKept, FoundKept, PlatformPaysUnrouted, Here
<1>3. QED
  BY <1>1, <1>2

(* One model is added, reclassified or stamped.                            *)
LEMMA ModelStays ==
    ASSUME KeysInv, NEW m \in Models, NEW x \in Model,
           models' = [models EXCEPT ![m] = x],
           x.row = "here" => providers[x.provider].row = "here",
           Here(m) => x.row = "here" /\ x.provider = models[m].provider,
           UNCHANGED <<providers, routing>>,
           Losing({m}) \/ UNCHANGED turn
    PROVE  models' \in [Models -> Model] /\ NothingDangles' /\ TurnInv'
<1>1. models \in [Models -> Model] /\ routing \in [Slots -> Models \cup {None}]
  BY DEF KeysInv, KeysTypeOK
<1>2. models' \in [Models -> Model]
  BY <1>1
<1>3. \A k \in Models : models'[k] = IF k = m THEN x ELSE models[k]
  BY <1>1
<1>4. \A k \in Models : Here(k) => models'[k].row = "here" /\ models'[k].provider = models[k].provider
  BY <1>3 DEF Here
<1>5. \A k \in Models : models'[k].provider \in Providers /\ models[k].provider \in Providers
  BY <1>1, <1>2 DEF Model
<1>6. NothingDangles'
  <2>1. \A k \in Models : models'[k].row = "here" => providers[models'[k].provider].row = "here"
    BY <1>3, <1>5 DEF KeysInv, NothingDangles, Here, Stored
  <2>2. \A s \in Slots : routing[s] # None => models'[routing[s]].row = "here"
    BY <1>1, <1>4 DEF KeysInv, NothingDangles
  <2>3. QED
    BY <1>5, <2>1, <2>2 DEF NothingDangles, Here, Stored
<1>7. \A k \in Models : Here(k) => Here(k)' /\ models'[k].provider = models[k].provider
  BY <1>4 DEF Here
<1>8. TurnInv'
  <2>1. CASE Losing({m})
    BY <1>1, <1>7, <2>1, KeepsTurn DEF KeysInv
  <2>2. CASE UNCHANGED turn
    <3> DEFINE ms == {}
    <3>1. ms \in SUBSET Models /\ ms = {}
      OBVIOUS
    <3>2. \A k \in Models \ ms : Here(k) => Here(k)' /\ models'[k].provider = models[k].provider
      BY <1>7
    <3> HIDE DEF ms
    <3>3. QED
      BY <1>1, <2>2, <3>1, <3>2, KeepsTurn DEF KeysInv
  <2>3. QED
    BY <2>1, <2>2
<1>9. QED
  BY <1>2, <1>6, <1>8

(* A delete takes the models that depend on it, and their slots, with it.  *)
LEMMA CascadeStep ==
    ASSUME KeysInv, NEW ms \in SUBSET Models, Cascade(ms),
           \A m \in Models \ ms : Here(m) => providers'[models[m].provider].row = "here"
    PROVE  /\ models' \in [Models -> Model]
           /\ routing' \in [Slots -> Models \cup {None}]
           /\ NothingDangles' /\ TurnInv'
<1>1. models \in [Models -> Model] /\ routing \in [Slots -> Models \cup {None}]
  BY DEF KeysInv, KeysTypeOK
<1>2. models' = [m \in Models |-> IF m \in ms THEN [models[m] EXCEPT !.row = "gone"] ELSE models[m]]
      /\ routing' = [s \in Slots |-> IF routing[s] \in ms THEN None ELSE routing[s]]
      /\ Losing(ms)
  BY DEF Cascade, Cleared
<1>3. \A m \in Models : /\ m \in ms => (models'[m] \in Model /\ models'[m].row = "gone")
                        /\ m \notin ms => (models'[m] = models[m])
  BY <1>1, <1>2 DEF Model
<1>4. models' \in [Models -> Model]
  BY <1>1, <1>2, <1>3
<1>5. routing' \in [Slots -> Models \cup {None}]
  BY <1>1, <1>2
<1>6. \A m \in Models : models'[m].provider \in Providers
  BY <1>4 DEF Model
<1>7. NothingDangles'
  <2>1. \A m \in Models : models'[m].row = "here" => providers'[models'[m].provider].row = "here"
    BY <1>3 DEF Here
  <2>2. \A s \in Slots : routing'[s] # None => models'[routing'[s]].row = "here"
    <3>1. SUFFICES ASSUME NEW s \in Slots, routing'[s] # None
                   PROVE  models'[routing'[s]].row = "here"
      OBVIOUS
    <3>2. routing'[s] = routing[s] /\ routing[s] \in Models \ ms
      BY <1>1, <1>2, <3>1
    <3>3. models[routing[s]].row = "here"
      BY <3>1, <3>2 DEF KeysInv, NothingDangles, Here
    <3>4. QED
      BY <1>3, <3>2, <3>3
  <2>3. QED
    BY <1>6, <2>1, <2>2 DEF NothingDangles, Here, Stored
<1>8. \A m \in Models \ ms : Here(m) => Here(m)' /\ models'[m].provider = models[m].provider
  BY <1>3 DEF Here
<1>9. TurnInv'
  BY <1>1, <1>2, <1>8, KeepsTurn DEF KeysInv
<1>10. QED
  BY <1>4, <1>5, <1>7, <1>9

(* A call, a node or a turn that has loaded its bundle or ends.            *)
LEMMA TurnMovesOn ==
    ASSUME KeysInv, UNCHANGED <<providers, models, routing, due, req, edits>>,
           turn' = turn \/ turn'.pc \notin {"models", "providers", "ready"}
    PROVE  KeysInv'
<1>1. KeysTypeOK' /\ ReqsShaped'
  BY DEF KeysInv, KeysTypeOK, ReqsShaped
<1>2. NothingDangles'
  BY DEF KeysInv, NothingDangles, Here, Stored
<1>3. TurnInv'
  BY DEF KeysInv, TurnInv, RoutedKept, FoundKept, PlatformPaysUnrouted, Here
<1>4. QED
  BY <1>1, <1>2, <1>3 DEF KeysInv

----------------------------------------------------------------------------
(* The requests, from read to commit.                                      *)

LEMMA CreateStep ==
    ASSUME KeysInv, NEW r \in Reqs, NEW p \in Providers, CreateProvider(r, p)
    PROVE  KeysInv'
<1>1. /\ edits < MaxEdits /\ edits' = edits + 1
      /\ providers' = [providers EXCEPT ![p].row = "here", ![p].key = 1]
      /\ due' = due \cup {p}
      /\ UNCHANGED <<models, routing, req, turn>>
  BY DEF CreateProvider
<1>2. providers \in [Providers -> Provider] /\ 1 \in Keys
  BY DEF KeysInv, KeysTypeOK, Keys
<1>3. providers' = [providers EXCEPT ![p] = [providers[p] EXCEPT !.row = "here", !.key = 1]]
  BY <1>1, <1>2
<1>4. [providers[p] EXCEPT !.row = "here", !.key = 1] \in Provider
      /\ [providers[p] EXCEPT !.row = "here", !.key = 1].row = "here"
  BY <1>2 DEF Provider
<1>5. providers' \in [Providers -> Provider]
      /\ \A x \in Providers : providers[x].row = "here" => providers'[x].row = "here"
  BY <1>2, <1>3, <1>4
<1>6. KeysTypeOK'
  BY <1>1, <1>5 DEF KeysInv, KeysTypeOK, Rows
<1>7. ReqsShaped'
  BY <1>1 DEF KeysInv, ReqsShaped
<1>8. QED
  BY <1>1, <1>5, <1>6, <1>7, ProvidersStay DEF KeysInv

LEMMA PatchStep ==
    ASSUME KeysInv, NEW r \in Reqs, PatchCommits(r)
    PROVE  KeysInv'
<1> DEFINE p == req[r].row
<1>1. p \in Providers /\ req[r].read \in Badge
  BY DEF PatchCommits, KeysInv, ReqsShaped, ReqShape
<1>2. End(r) /\ UNCHANGED <<models, routing, turn>>
  BY DEF PatchCommits
<1>3. providers \in [Providers -> Provider]
  BY DEF KeysInv, KeysTypeOK
<1>4. /\ providers' \in [Providers -> Provider]
      /\ \A x \in Providers : providers[x].row = "here" => providers'[x].row = "here"
      /\ due' \in SUBSET (due \cup {p})
  <2>1. CASE ~(Stored(p) /\ providers[p].key < MaxKeys)
    BY <1>3, <2>1 DEF PatchCommits
  <2>2. CASE Stored(p) /\ providers[p].key < MaxKeys
    <3> DEFINE b == ResetBadge(req[r].read, providers[p].badge)
               x == [providers[p] EXCEPT !.key = providers[p].key + 1, !.sealed = FALSE, !.badge = b]
    <3>1. providers' = [providers EXCEPT ![p].key = @ + 1, ![p].sealed = FALSE,
                                         ![p].badge = ResetBadge(req[r].read, @)]
          /\ due' = due \cup {p}
      BY <2>2 DEF PatchCommits
    <3>2. providers' = [providers EXCEPT ![p] = x]
      BY <1>1, <1>3, <3>1 DEF Provider
    <3>3. b \in Badge
      BY <1>1, <1>3, BadgeTypes DEF Provider
    <3>4. providers[p].key + 1 \in Keys
      BY <1>1, <1>3, <2>2 DEF Provider, Keys
    <3> HIDE DEF b
    <3>a. providers[p] \in Provider
      BY <1>1, <1>3
    <3>b. \A k \in Keys : [providers[p] EXCEPT !.key = k, !.sealed = FALSE, !.badge = b] \in Provider
      BY <3>3, <3>a DEF Provider
    <3>5. x \in Provider /\ x.row = providers[p].row
      BY <3>4, <3>a, <3>b DEF Provider
    <3> HIDE DEF x
    <3>6. QED
      BY <1>1, <1>3, <3>1, <3>2, <3>5
  <2>3. QED
    BY <2>1, <2>2
<1>5. ReqsShaped' /\ DOMAIN req' = Reqs /\ edits' \in 0..MaxEdits
  BY <1>2, RequestsKept
<1>6. KeysTypeOK'
  BY <1>1, <1>2, <1>4, <1>5 DEF KeysInv, KeysTypeOK, Rows
<1>7. QED
  BY <1>2, <1>4, <1>5, <1>6, ProvidersStay DEF KeysInv

LEMMA DropStep ==
    ASSUME KeysInv, NEW r \in Reqs, DropCommits(r)
    PROVE  KeysInv'
<1> DEFINE p == req[r].row
<1>1. p \in Providers
  BY DEF DropCommits, KeysInv, ReqsShaped, ReqShape
<1>2. /\ providers' = [providers EXCEPT ![p].row = "gone"]
      /\ Cascade(ModelsOf(p)) /\ End(r) /\ due' = due
  BY DEF DropCommits
<1>3. providers \in [Providers -> Provider] /\ models \in [Models -> Model]
  BY DEF KeysInv, KeysTypeOK
<1>4. \A x \in Providers : providers'[x] = IF x = p THEN [providers[p] EXCEPT !.row = "gone"]
                                           ELSE providers[x]
  BY <1>1, <1>2, <1>3
<1>5. providers' \in [Providers -> Provider]
  <2>1. [providers[p] EXCEPT !.row = "gone"] \in Provider
    BY <1>1, <1>3 DEF Provider
  <2>2. providers' = [providers EXCEPT ![p] = [providers[p] EXCEPT !.row = "gone"]]
    BY <1>1, <1>2, <1>3
  <2>3. QED
    BY <1>1, <1>3, <2>1, <2>2
<1>6. \A m \in Models \ ModelsOf(p) : Here(m) => providers'[models[m].provider].row = "here"
  <2>1. SUFFICES ASSUME NEW m \in Models \ ModelsOf(p), Here(m)
                 PROVE  providers'[models[m].provider].row = "here"
    OBVIOUS
  <2>2. models[m].provider # p /\ models[m].provider \in Providers
    BY <1>3, <2>1 DEF ModelsOf, Model
  <2>3. providers[models[m].provider].row = "here"
    BY <2>1, <2>2 DEF KeysInv, NothingDangles, Stored
  <2>4. QED
    BY <1>4, <2>2, <2>3
<1>7. ModelsOf(p) \in SUBSET Models
  BY DEF ModelsOf
<1>8. /\ models' \in [Models -> Model]
      /\ routing' \in [Slots -> Models \cup {None}]
      /\ NothingDangles' /\ TurnInv'
  BY <1>2, <1>6, <1>7, CascadeStep
<1>9. ReqsShaped' /\ DOMAIN req' = Reqs /\ edits' \in 0..MaxEdits
  BY <1>2, RequestsKept
<1>10. QED
  BY <1>2, <1>5, <1>8, <1>9 DEF KeysInv, KeysTypeOK

LEMMA RemoveStep ==
    ASSUME KeysInv, NEW r \in Reqs, RemoveCommits(r)
    PROVE  KeysInv'
<1>1. req[r].row \in Models
  BY DEF RemoveCommits, KeysInv, ReqsShaped, ReqShape
<1>2. Cascade({req[r].row}) /\ End(r) /\ UNCHANGED <<providers, due>>
  BY DEF RemoveCommits
<1>3. \A m \in Models : Here(m) => providers'[models[m].provider].row = "here"
  <2>1. \A m \in Models : models[m].provider \in Providers
    BY DEF KeysInv, KeysTypeOK, Model
  <2>2. QED
    BY <1>2, <2>1 DEF KeysInv, NothingDangles, Stored
<1>4. /\ models' \in [Models -> Model]
      /\ routing' \in [Slots -> Models \cup {None}]
      /\ NothingDangles' /\ TurnInv'
  BY <1>1, <1>2, <1>3, CascadeStep
<1>5. ReqsShaped' /\ DOMAIN req' = Reqs /\ edits' \in 0..MaxEdits
  BY <1>2, RequestsKept
<1>6. QED
  BY <1>2, <1>4, <1>5 DEF KeysInv, KeysTypeOK

LEMMA AttachStep ==
    ASSUME KeysInv, NEW r \in Reqs, AttachCommits(r)
    PROVE  KeysInv'
<1> DEFINE m == req[r].row
<1>1. /\ m \in Models /\ req[r].provider \in Providers
      /\ req[r].cap \in Capabilities /\ req[r].read \in Badge
  BY DEF AttachCommits, KeysInv, ReqsShaped, ReqShape
<1>2. End(r) /\ UNCHANGED <<providers, routing>>
  BY DEF AttachCommits
<1>3. models \in [Models -> Model] /\ routing \in [Slots -> Models \cup {None}]
      /\ providers \in [Providers -> Provider] /\ due \subseteq Rows
  BY DEF KeysInv, KeysTypeOK
<1>4. \/ Here(m) /\ models' = [models EXCEPT ![m] = Reclassified(r, m)]
         /\ due' = due \cup {m} /\ Losing({m})
      \/ models[m].row = "new" /\ Stored(req[r].provider)
         /\ models' = [models EXCEPT ![m] = Registered(r)]
         /\ due' = due \cup {m} /\ UNCHANGED turn
      \/ UNCHANGED <<models, due, turn>>
  BY DEF AttachCommits
<1>5. models' \in [Models -> Model] /\ NothingDangles' /\ TurnInv' /\ due' \subseteq Rows
  <2>1. CASE Here(m) /\ models' = [models EXCEPT ![m] = Reclassified(r, m)]
             /\ due' = due \cup {m} /\ Losing({m})
    <3> DEFINE c == IF req[r].cap = req[r].oldCap THEN models[m].cap ELSE req[r].cap
               b == ResetBadge(req[r].read, models[m].badge)
               x == [models[m] EXCEPT !.cap = c, !.badge = b]
    <3>1. Reclassified(r, m) = x
      BY <1>1, <1>3 DEF Reclassified, Model
    <3>2. b \in Badge
      BY <1>1, <1>3, BadgeTypes DEF Model
    <3>3. c \in Capabilities
      BY <1>1, <1>3 DEF Model
    <3> HIDE DEF b, c
    <3>4. x \in Model /\ x.row = models[m].row /\ x.provider = models[m].provider
      BY <1>1, <1>3, <3>2, <3>3 DEF Model
    <3> HIDE DEF x
    <3>5. models[m].row = "here" /\ providers[x.provider].row = "here"
      BY <1>1, <2>1, <3>4 DEF KeysInv, NothingDangles, Stored, Here, Model
    <3>6. models' = [models EXCEPT ![m] = x]
      BY <2>1, <3>1
    <3>7. models' \in [Models -> Model] /\ NothingDangles' /\ TurnInv'
      BY <1>1, <1>2, <2>1, <3>4, <3>5, <3>6, ModelStays
    <3>8. QED
      BY <1>1, <1>3, <2>1, <3>7 DEF Rows
  <2>2. CASE models[m].row = "new" /\ Stored(req[r].provider)
             /\ models' = [models EXCEPT ![m] = Registered(r)]
             /\ due' = due \cup {m} /\ UNCHANGED turn
    <3> DEFINE x == Registered(r)
    <3>1. x \in Model /\ x.provider = req[r].provider
      BY <1>1, BadgeTypes DEF Registered, Model
    <3>2. providers[x.provider].row = "here"
      BY <1>1, <2>2, <3>1 DEF Stored
    <3>3. ~Here(m)
      BY <2>2 DEF Here
    <3>4. models' = [models EXCEPT ![m] = x]
      BY <2>2
    <3> HIDE DEF x
    <3>5. models' \in [Models -> Model] /\ NothingDangles' /\ TurnInv'
      BY <1>1, <1>2, <2>2, <3>1, <3>2, <3>3, <3>4, ModelStays
    <3>6. QED
      BY <1>1, <1>3, <2>2, <3>5 DEF Rows
  <2>3. CASE UNCHANGED <<models, due, turn>>
    BY <1>2, <1>3, <2>3, ProvidersStay
  <2>4. QED
    BY <1>4, <2>1, <2>2, <2>3
<1>6. ReqsShaped' /\ DOMAIN req' = Reqs /\ edits' \in 0..MaxEdits
  BY <1>2, RequestsKept
<1>7. QED
  BY <1>2, <1>3, <1>5, <1>6 DEF KeysInv, KeysTypeOK

LEMMA RouteStep ==
    ASSUME KeysInv, NEW r \in Reqs, RouteCommits(r)
    PROVE  KeysInv'
<1>1. req[r].wanted \in [Slots -> Models \cup {None}]
  BY DEF RouteCommits, KeysInv, ReqsShaped, ReqShape
<1>2. End(r) /\ UNCHANGED <<providers, models, due, turn>>
  BY DEF RouteCommits
<1>3. \/ routing' = routing
      \/ /\ routing' = req[r].wanted
         /\ \A s \in Slots : req[r].wanted[s] # None => Here(req[r].wanted[s])
  BY DEF RouteCommits
<1>4. routing' \in [Slots -> Models \cup {None}]
  BY <1>1, <1>3 DEF KeysInv, KeysTypeOK
<1>5. NothingDangles'
  BY <1>2, <1>3 DEF KeysInv, NothingDangles, Here, Stored
<1>6. TurnInv'
  BY <1>2 DEF KeysInv, TurnInv, RoutedKept, FoundKept, PlatformPaysUnrouted, Here
<1>7. ReqsShaped' /\ DOMAIN req' = Reqs /\ edits' \in 0..MaxEdits
  BY <1>2, RequestsKept
<1>8. QED
  BY <1>2, <1>4, <1>5, <1>6, <1>7 DEF KeysInv, KeysTypeOK

LEMMA ProbeStep ==
    ASSUME KeysInv, NEW r \in Reqs, NEW ok \in BOOLEAN, ProbeEnds(r, ok)
    PROVE  KeysInv'
<1> DEFINE x == req[r].row
           b == Answered(req[r], ok, BadgeOf(x))
<1>1. x \in Rows /\ req[r].key \in Keys /\ req[r].read \in Badge
  BY DEF ProbeEnds, KeysInv, ReqsShaped, ReqShape
<1>2. End(r) /\ UNCHANGED <<routing, due, turn>>
  BY DEF ProbeEnds
<1>3. models \in [Models -> Model] /\ providers \in [Providers -> Provider]
  BY DEF KeysInv, KeysTypeOK
<1>4. b \in Badge
  <2>1. BadgeOf(x) \in Badge
    BY <1>1, BadgeOfTypes DEF KeysInv
  <2> DEFINE now == BadgeOf(x)
             u == Written(req[r].read, [stamp |-> req[r].key, error |-> FALSE],
                          [now EXCEPT !.stamp = req[r].key])
             v == [now EXCEPT !.error = IF req[r].read.error THEN @ ELSE TRUE]
  <2>2. b = IF ok THEN u ELSE v
    BY DEF Answered
  <2>3. u \in Badge /\ v \in Badge
    BY <1>1, <2>1, AnsweredTypes
  <2> HIDE DEF u, v
  <2>4. QED
    BY <2>2, <2>3
<1>5. UNCHANGED <<providers, models>> \/ (Stored(x) /\ Stamp(x, b))
  BY DEF ProbeEnds
<1> HIDE DEF b
<1>6. models' \in [Models -> Model] /\ providers' \in [Providers -> Provider]
      /\ NothingDangles' /\ TurnInv'
  <2>1. CASE UNCHANGED <<providers, models>>
    BY <1>2, <1>3, <2>1, ProvidersStay
  <2>2. CASE x \in Providers /\ Stamp(x, b)
    <3> DEFINE y == [providers[x] EXCEPT !.badge = b]
    <3>1. providers' = [providers EXCEPT ![x] = y] /\ models' = models
      BY <1>3, <2>2 DEF Stamp
    <3>2. y \in Provider /\ y.row = providers[x].row
      BY <1>3, <1>4, <2>2 DEF Provider
    <3> HIDE DEF y
    <3>3. providers' \in [Providers -> Provider]
          /\ \A p \in Providers : providers[p].row = "here" => providers'[p].row = "here"
      BY <1>3, <2>2, <3>1, <3>2
    <3>4. QED
      BY <1>2, <1>3, <3>1, <3>3, ProvidersStay
  <2>3. CASE x \notin Providers /\ Stored(x) /\ Stamp(x, b)
    <3> DEFINE y == [models[x] EXCEPT !.badge = b]
    <3>1. x \in Models /\ Here(x)
      BY <1>1, <2>3 DEF Rows, Stored
    <3>2. models' = [models EXCEPT ![x] = y] /\ providers' = providers
      BY <1>3, <2>3, <3>1 DEF Stamp
    <3>3. y \in Model /\ y.row = models[x].row /\ y.provider = models[x].provider
      BY <1>3, <1>4, <3>1 DEF Model
    <3> HIDE DEF y
    <3>4. models[x].row = "here" /\ providers[y.provider].row = "here"
      BY <1>3, <3>1, <3>3 DEF KeysInv, NothingDangles, Stored, Here, Model
    <3>5. QED
      BY <1>2, <1>3, <3>1, <3>2, <3>3, <3>4, ModelStays
  <2>4. QED
    BY <1>5, <2>1, <2>2, <2>3
<1>7. ReqsShaped' /\ DOMAIN req' = Reqs /\ edits' \in 0..MaxEdits
  BY <1>2, RequestsKept
<1>8. QED
  BY <1>2, <1>6, <1>7 DEF KeysInv, KeysTypeOK

(* The background probe begins without counting as a request.              *)
LEMMA BackgroundStep ==
    ASSUME KeysInv, NEW r \in Reqs, NEW x \in Rows, BackgroundReads(r, x)
    PROVE  KeysInv'
<1>1. /\ due' = due \ {x} /\ UNCHANGED <<providers, models, routing, edits, turn>>
      /\ req' = req \/ req' = [req EXCEPT ![r] = ProbeOf(x)]
  BY DEF BackgroundReads
<1>2. ReqShape(ProbeOf(x))
  BY BadgeOfTypes DEF KeysInv, ReqShape, ProbeOf
<1>3. ReqsShaped' /\ DOMAIN req' = Reqs
  <2>1. CASE req' = req
    BY <2>1 DEF KeysInv, KeysTypeOK, ReqsShaped
  <2>2. CASE req' = [req EXCEPT ![r] = ProbeOf(x)]
    <3>1. \A k \in Reqs : req'[k] = IF k = r THEN ProbeOf(x) ELSE req[k]
      BY <2>2 DEF KeysInv, KeysTypeOK
    <3>2. \A k \in Reqs : ReqShape(req'[k])
      BY <1>2, <3>1 DEF KeysInv, ReqsShaped
    <3>3. QED
      BY <2>2, <3>2 DEF KeysInv, KeysTypeOK, ReqsShaped
  <2>3. QED
    BY <1>1, <2>1, <2>2
<1>4. KeysTypeOK'
  BY <1>1, <1>3 DEF KeysInv, KeysTypeOK
<1>5. NothingDangles' /\ TurnInv'
  BY <1>1, <1>4, ProvidersStay DEF KeysTypeOK
<1>6. QED
  BY <1>3, <1>4, <1>5 DEF KeysInv

(* The requests that only read.                                            *)
LEMMA ReadStep ==
    ASSUME KeysInv, NEW r \in Reqs,
           \/ \E p \in Providers : PatchReads(r, p)
           \/ \E p \in Providers, force \in BOOLEAN : DropReads(r, p, force)
           \/ \E m \in Models, force \in BOOLEAN : RemoveReads(r, m, force)
           \/ \E m \in Models, p \in Providers, cap \in Capabilities : AttachReads(r, m, p, cap)
           \/ \E wanted \in [Slots -> Models \cup {None}] : RouteReads(r, wanted)
           \/ \E x \in Rows : TestReads(r, x)
    PROVE  KeysInv'
<1>1. providers \in [Providers -> Provider] /\ models \in [Models -> Model]
  BY DEF KeysInv, KeysTypeOK
<1>2. CASE \E p \in Providers : PatchReads(r, p)
  <2>1. PICK p \in Providers : PatchReads(r, p)
    BY <1>2
  <2>2. ReqShape([pc |-> "patch", row |-> p, read |-> providers[p].badge])
    BY <1>1 DEF ReqShape, Provider
  <2>3. QED
    BY <2>1, <2>2, BeginKeeps DEF PatchReads
<1>3. CASE \E p \in Providers, force \in BOOLEAN : DropReads(r, p, force)
  <2>1. PICK p \in Providers, force \in BOOLEAN : DropReads(r, p, force)
    BY <1>3
  <2>2. ReqShape([pc |-> "drop", row |-> p, force |-> force])
    BY DEF ReqShape
  <2>3. QED
    BY <2>1, <2>2, BeginKeeps DEF DropReads
<1>4. CASE \E m \in Models, force \in BOOLEAN : RemoveReads(r, m, force)
  <2>1. PICK m \in Models, force \in BOOLEAN : RemoveReads(r, m, force)
    BY <1>4
  <2>2. ReqShape([pc |-> "remove", row |-> m, force |-> force])
    BY DEF ReqShape
  <2>3. QED
    BY <2>1, <2>2, BeginKeeps DEF RemoveReads
<1>5. CASE \E m \in Models, p \in Providers, cap \in Capabilities : AttachReads(r, m, p, cap)
  <2>1. PICK m \in Models, p \in Providers, cap \in Capabilities : AttachReads(r, m, p, cap)
    BY <1>5
  <2>2. ReqShape([pc |-> "attach", row |-> m, provider |-> p, cap |-> cap,
                  old |-> Here(m), oldCap |-> models[m].cap, read |-> models[m].badge])
    BY <1>1 DEF ReqShape, Model
  <2>3. QED
    BY <2>1, <2>2, BeginKeeps DEF AttachReads
<1>6. CASE \E wanted \in [Slots -> Models \cup {None}] : RouteReads(r, wanted)
  <2>1. PICK wanted \in [Slots -> Models \cup {None}] : RouteReads(r, wanted)
    BY <1>6
  <2>2. ReqShape([pc |-> "route", wanted |-> wanted])
    BY DEF ReqShape
  <2>3. QED
    BY <2>1, <2>2, BeginKeeps DEF RouteReads
<1>7. CASE \E x \in Rows : TestReads(r, x)
  <2>1. PICK x \in Rows : TestReads(r, x)
    BY <1>7
  <2>2. ReqShape(ProbeOf(x))
    BY BadgeOfTypes DEF KeysInv, ReqShape, ProbeOf
  <2>3. QED
    BY <2>1, <2>2, BeginKeeps DEF TestReads
<1>8. QED
  BY <1>2, <1>3, <1>4, <1>5, <1>6, <1>7

----------------------------------------------------------------------------
(* The three reads of a turn that loads its bundle.                        *)

LEMMA LoadKeeps ==
    ASSUME KeysInv, UNCHANGED <<providers, models, routing, due, req, edits>>, TurnInv'
    PROVE  KeysInv'
BY DEF KeysInv, KeysTypeOK, ReqsShaped, NothingDangles, Here, Stored

LEMMA LoadRoutingStep ==
    ASSUME KeysInv, NEW kind, LoadRouting(kind)
    PROVE  KeysInv'
<1>1. turn' = [pc |-> "models", kind |-> kind, routed |-> routing, lost |-> {}]
      /\ UNCHANGED <<providers, models, routing, due, req, edits>>
  BY DEF LoadRouting
<1>2. routing \in [Slots -> Models \cup {None}]
      /\ \A s \in Slots : routing[s] # None => models[routing[s]].row = "here"
  BY DEF KeysInv, KeysTypeOK, NothingDangles, Here
<1>3. RoutedKept'
  BY <1>1, <1>2 DEF RoutedKept, Here
<1>4. TurnInv'
  BY <1>1, <1>3 DEF TurnInv, FoundKept, PlatformPaysUnrouted
<1>5. QED
  BY <1>1, <1>4, LoadKeeps

LEMMA LoadModelsStep ==
    ASSUME KeysInv, LoadModels
    PROVE  KeysInv'
<1> DEFINE f == [m \in Found |-> [provider |-> models[m].provider, cap |-> models[m].cap]]
<1>1. /\ turn.pc = "models"
      /\ turn' = [pc |-> "providers", kind |-> turn.kind, routed |-> turn.routed,
                  lost |-> turn.lost, found |-> f]
      /\ UNCHANGED <<providers, models, routing, due, req, edits>>
  BY DEF LoadModels
<1>2. turn.routed \in [Slots -> Models \cup {None}]
      /\ \A s \in Slots : turn.routed[s] \in {None} \cup turn.lost \/ Here(turn.routed[s])
  BY <1>1 DEF KeysInv, TurnInv, RoutedKept
<1>3. \A s \in Slots :
         \/ turn.routed[s] \in {None} \cup turn.lost
         \/ /\ turn.routed[s] \in DOMAIN f
            /\ Here(turn.routed[s])
            /\ f[turn.routed[s]].provider = models[turn.routed[s]].provider
  BY <1>2 DEF Found
<1> HIDE DEF f
<1>4. FoundKept'
  BY <1>1, <1>2, <1>3 DEF FoundKept, Here
<1>5. TurnInv'
  BY <1>1, <1>4 DEF TurnInv, RoutedKept, PlatformPaysUnrouted
<1>6. QED
  BY <1>1, <1>5, LoadKeeps

LEMMA LoadProvidersStep ==
    ASSUME KeysInv, LoadProviders
    PROVE  KeysInv'
<1> DEFINE misfit == {s \in Slots : turn.routed[s] # None
                           /\ turn.routed[s] \in DOMAIN turn.found
                           /\ turn.found[turn.routed[s]].cap # NeededBy(s)}
<1>1. /\ turn.pc = "providers"
      /\ turn' = [pc |-> "ready", kind |-> turn.kind, routed |-> turn.routed, lost |-> turn.lost,
                  bundle |-> Bundle, misfit |-> misfit]
      /\ UNCHANGED <<providers, models, routing, due, req, edits>>
  BY DEF LoadProviders
<1>2. turn.routed \in [Slots -> Models \cup {None}]
      /\ \A s \in Slots :
            \/ turn.routed[s] \in {None} \cup turn.lost
            \/ /\ turn.routed[s] \in DOMAIN turn.found
               /\ Here(turn.routed[s])
               /\ turn.found[turn.routed[s]].provider = models[turn.routed[s]].provider
  BY <1>1 DEF KeysInv, TurnInv, FoundKept
<1>3. ASSUME NEW s \in Slots, Bundle[s].source = "none"
      PROVE  turn.routed[s] \in {None} \cup turn.lost \/ s \in misfit
  <2>1. SUFFICES ASSUME turn.routed[s] \notin {None} \cup turn.lost, s \notin misfit
                 PROVE  FALSE
    OBVIOUS
  <2> DEFINE m == turn.routed[s]
             p == turn.found[m].provider
  <2>2. m \in Models /\ m \in DOMAIN turn.found /\ Here(m) /\ p = models[m].provider
    BY <1>2, <2>1
  <2>3. turn.found[m].cap = NeededBy(s)
    BY <2>1, <2>2
  <2>4. Stored(p)
    BY <2>2 DEF KeysInv, NothingDangles
  <2>5. Bundle[s] = [source |-> IF providers[p].sealed THEN "failed" ELSE "org",
                     provider |-> p, key |-> providers[p].key]
    BY <2>2, <2>3, <2>4 DEF Bundle, SlotFrom
  <2>6. QED
    BY <1>3, <2>5
<1> HIDE DEF misfit
<1>4. PlatformPaysUnrouted'
  <2>1. turn'.bundle = Bundle /\ turn'.routed = turn.routed /\ turn'.lost = turn.lost
        /\ turn'.misfit = misfit
    BY <1>1
  <2>2. QED
    BY <1>3, <2>1 DEF PlatformPaysUnrouted
<1>5. TurnInv'
  BY <1>1, <1>4 DEF TurnInv, RoutedKept, FoundKept
<1>6. QED
  BY <1>1, <1>5, LoadKeeps

----------------------------------------------------------------------------
(* The invariant.                                                          *)

LEMMA KeysNextKeeps ==
    ASSUME KeysInv, KeysNext
    PROVE  KeysInv'
<1>1. CASE \E r \in Reqs, p \in Providers : CreateProvider(r, p)
  BY <1>1, CreateStep
<1>2. CASE \E r \in Reqs :
             \/ \E p \in Providers : PatchReads(r, p)
             \/ \E p \in Providers, force \in BOOLEAN : DropReads(r, p, force)
             \/ \E m \in Models, force \in BOOLEAN : RemoveReads(r, m, force)
             \/ \E m \in Models, p \in Providers, cap \in Capabilities : AttachReads(r, m, p, cap)
             \/ \E wanted \in [Slots -> Models \cup {None}] : RouteReads(r, wanted)
             \/ \E x \in Rows : TestReads(r, x)
  BY <1>2, ReadStep
<1>3. CASE \E r \in Reqs, x \in Rows : BackgroundReads(r, x)
  BY <1>3, BackgroundStep
<1>4. CASE \E r \in Reqs : PatchCommits(r)
  BY <1>4, PatchStep
<1>5. CASE \E r \in Reqs : DropCommits(r)
  BY <1>5, DropStep
<1>6. CASE \E r \in Reqs : RemoveCommits(r)
  BY <1>6, RemoveStep
<1>7. CASE \E r \in Reqs : AttachCommits(r)
  BY <1>7, AttachStep
<1>8. CASE \E r \in Reqs : RouteCommits(r)
  BY <1>8, RouteStep
<1>9. CASE \E r \in Reqs, ok \in BOOLEAN : ProbeEnds(r, ok)
  BY <1>9, ProbeStep
<1>10. CASE LoadModels
  BY <1>10, LoadModelsStep
<1>11. CASE LoadProviders
  BY <1>11, LoadProvidersStep
<1>12. QED
  BY <1>1, <1>2, <1>3, <1>4, <1>5, <1>6, <1>7, <1>8, <1>9, <1>10, <1>11 DEF KeysNext

(* The calls of a turn read its bundle and change no row of the keys.      *)
LEMMA CallStep ==
    ASSUME KeysInv, Next
    PROVE  KeysInv'
<1>1. CASE KeysNext
  BY <1>1, KeysNextKeeps
<1>2. CASE BeginGraph \/ BeginDirection
  <2>1. CASE \E kind \in Works : LoadRouting(kind)
    BY <2>1, LoadRoutingStep
  <2>2. CASE turn' = [pc |-> "offline", bundle |-> Current]
             /\ UNCHANGED <<providers, models, routing, due, req, edits>>
    BY <2>2, TurnMovesOn
  <2>3. QED
    BY <1>2, <2>1, <2>2 DEF BeginGraph, BeginDirection
<1>3. CASE EnterNode \/ LeaveNode \/ EndTurn \/ EndOffline \/ FallsBack \/ CallRaises
  <2>1. UNCHANGED <<providers, models, routing, due, req, edits>>
        /\ turn' \in {turn, NoTurn, [pc |-> "offline", bundle |-> turn.bundle]}
    BY <1>3 DEF EnterNode, LeaveNode, EndTurn, EndOffline, FallsBack, CallRaises, keyVars
  <2>2. QED
    BY <2>1, TurnMovesOn DEF NoTurn
<1>4. CASE \E s \in Slots : \/ \E way \in Ways \cup {"harness"} : StartCall(s, way)
                            \/ Fails(s)
  <2>1. UNCHANGED <<providers, models, routing, due, req, edits>> /\ turn' \in {turn, NoTurn}
    BY <1>4 DEF StartCall, Fails, keyVars
  <2>2. QED
    BY <2>1, TurnMovesOn DEF NoTurn
<1>5. CASE \E verdict \in Verdicts : EndCall(verdict)
  <2>1. UNCHANGED <<providers, models, routing, due, req, edits>> /\ turn' \in {turn, NoTurn}
    BY <1>5 DEF EndCall
  <2>2. QED
    BY <2>1, TurnMovesOn DEF NoTurn
<1>6. CASE \E id \in tasks : Persist(id)
  <2>1. UNCHANGED <<providers, models, routing, due, req, edits, turn>>
    BY <1>6 DEF Persist, keyVars
  <2>2. QED
    BY <2>1, TurnMovesOn
<1>7. QED
  BY <1>1, <1>2, <1>3, <1>4, <1>5, <1>6 DEF Next

LEMMA KeysInitInv == Init => KeysInv
<1>1. SUFFICES ASSUME KeysInit PROVE KeysInv
  BY DEF Init
<1>2. providers \in [Providers -> Provider]
  <2>1. 0 \in Keys /\ 1 \in Keys /\ Unverified \in Badge
    BY BadgeTypes DEF Keys
  <2>2. [row |-> "new", key |-> 0, sealed |-> FALSE, badge |-> Unverified] \in Provider
    BY <2>1 DEF Provider
  <2>3. [row : {"here"}, key : {1}, sealed : BOOLEAN, badge : {Unverified}] \subseteq Provider
    BY <2>1 DEF Provider
  <2>4. QED
    BY <1>1, <2>2, <2>3 DEF KeysInit
<1>3. models \in [Models -> Model]
  <2>1. [row : {"new", "here"}, provider : Providers, cap : Capabilities, badge : {Unverified}]
            \subseteq Model
    BY BadgeTypes DEF Model
  <2>2. QED
    BY <1>1, <2>1 DEF KeysInit
<1>4. KeysTypeOK
  BY <1>1, <1>2, <1>3 DEF KeysInit, KeysTypeOK
<1>5. ReqsShaped
  BY <1>1 DEF KeysInit, ReqsShaped, ReqShape, Idle
<1>6. NothingDangles
  <2>1. \A m \in Models : models[m].provider \in Providers
    BY <1>3 DEF Model
  <2>2. QED
    BY <1>1, <2>1 DEF KeysInit, NothingDangles, Stored
<1>7. TurnInv
  BY <1>1 DEF KeysInit, NoTurn, TurnInv, RoutedKept, FoundKept, PlatformPaysUnrouted
<1>8. QED
  BY <1>4, <1>5, <1>6, <1>7 DEF KeysInv

(* Types, the requests' snapshots and what a loading turn has read stay    *)
(* consistent with the stored rows.                                        *)
THEOREM KeysInvariant == Spec => []KeysInv
<1>1. KeysInv /\ [Next]_vars => KeysInv'
  <2>1. SUFFICES ASSUME KeysInv, [Next]_vars PROVE KeysInv'
    OBVIOUS
  <2>2. CASE Next
    BY <2>1, <2>2, CallStep
  <2>3. CASE UNCHANGED vars
    BY <2>1, <2>3, TurnMovesOn DEF vars, keyVars
  <2>4. QED
    BY <2>1, <2>2, <2>3
<1>2. QED
  BY <1>1, KeysInitInv, PTL DEF Spec

(* No slot points at a deleted model and no model at a deleted key, however *)
(* the requests' reads and commits are interleaved (byok.py, models.py).   *)
THEOREM NoDangling == Spec => []NothingDangles
<1>1. KeysInv => NothingDangles
  BY DEF KeysInv
<1>2. QED
  BY <1>1, KeysInvariant, PTL

(* A routed slot falls back to the platform's key only when its model was  *)
(* lost while the turn loaded the bundle, or has another capability.       *)
THEOREM PlatformPays == Spec => []PlatformPaysUnrouted
<1>1. KeysInv => PlatformPaysUnrouted
  BY DEF KeysInv, TurnInv
<1>2. QED
  BY <1>1, KeysInvariant, PTL

----------------------------------------------------------------------------
(* The records of the calls.                                               *)

LEMMA RecordsFrame ==
    ASSUME RecordsInv, UNCHANGED callVars
    PROVE  RecordsInv'
BY DEF RecordsInv, callVars, CallsTypeOK, OneAtATime, BufferedOnce, RecordsPlaced, InOnePlace,
       Nowhere, InBuffer

LEMMA EnterRecords ==
    ASSUME RecordsInv, EnterNode
    PROVE  RecordsInv'
<1>1. /\ ~node.open /\ node' = [open |-> TRUE, buffer |-> <<>>]
      /\ UNCHANGED <<env, calls, tasks, rows>>
  BY DEF EnterNode
<1>2. node.buffer = <<>> /\ node'.buffer = <<>>
  BY <1>1 DEF RecordsInv, BufferedOnce
<1>3. CallsTypeOK'
  <2>1. node' \in [open : BOOLEAN, buffer : Seq(1..Len(calls))]
    BY <1>1
  <2>2. QED
    BY <1>1, <2>1 DEF RecordsInv, CallsTypeOK
<1>4. OneAtATime' /\ BufferedOnce'
  BY <1>1, <1>2 DEF RecordsInv, OneAtATime, BufferedOnce
<1>5. RecordsPlaced'
  BY <1>1, <1>2 DEF RecordsInv, RecordsPlaced, InOnePlace, Nowhere, InBuffer
<1>6. QED
  BY <1>3, <1>4, <1>5 DEF RecordsInv

(* Leaving a context hands its records to the writer.                      *)
LEMMA FlushRecords ==
    ASSUME RecordsInv, Flush, UNCHANGED <<env, calls, rows>>
    PROVE  RecordsInv'
<1>1. /\ tasks' = tasks \cup {node.buffer[i] : i \in 1..Len(node.buffer)}
      /\ node' = [open |-> FALSE, buffer |-> <<>>]
  BY DEF Flush, Closed
<1>2. node'.buffer = <<>> /\ node'.open = FALSE
  BY <1>1
<1>3. node.buffer \in Seq(1..Len(calls))
  BY DEF RecordsInv, CallsTypeOK
<1>4. \A id : id \in tasks' <=> id \in tasks \/ InBuffer(id)
  BY <1>1 DEF InBuffer
<1>5. \A id : ~InBuffer(id)'
  BY <1>2 DEF InBuffer
<1>6. CallsTypeOK'
  <2>a. \A i \in 1..Len(node.buffer) : node.buffer[i] \in 1..Len(calls)
    BY <1>3, ElementOfSeq
  <2>1. tasks' \subseteq 1..Len(calls)
    <3>1. SUFFICES ASSUME NEW id \in tasks' PROVE id \in 1..Len(calls)
      OBVIOUS
    <3>2. CASE InBuffer(id)
      BY <2>a, <3>2 DEF InBuffer
    <3>3. CASE id \in tasks
      BY <3>3 DEF RecordsInv, CallsTypeOK
    <3>4. QED
      BY <1>4, <3>1, <3>2, <3>3
  <2>2. node' \in [open : BOOLEAN, buffer : Seq(1..Len(calls))]
    BY <1>1
  <2>3. QED
    BY <2>1, <2>2 DEF RecordsInv, CallsTypeOK
<1>7. OneAtATime' /\ BufferedOnce'
  BY <1>2 DEF RecordsInv, OneAtATime, BufferedOnce
<1>8. RecordsPlaced'
  <2>1. \A id \in 1..Len(calls) : Nowhere(id) => Nowhere(id)'
    BY <1>4, <1>5 DEF Nowhere
  <2>2. \A id \in 1..Len(calls) : InOnePlace(id) => InOnePlace(id)'
    BY <1>4, <1>5 DEF InOnePlace
  <2>3. QED
    BY <2>1, <2>2 DEF RecordsInv, RecordsPlaced
<1>9. QED
  BY <1>6, <1>7, <1>8 DEF RecordsInv

LEMMA StartRecords ==
    ASSUME RecordsInv, NEW s, NEW way \in Ways \cup {"harness"}, StartCall(s, way)
    PROVE  RecordsInv'
<1> DEFINE c == [way |-> way, verdict |-> "open", mark |-> "none"]
<1>1. /\ ~Underway /\ Len(calls) < MaxCalls /\ calls' = Append(calls, c)
      /\ UNCHANGED <<env, node, tasks, rows>>
  BY DEF StartCall, Calling
<1>2. calls \in Seq(Call) /\ Len(calls) \in Nat
  BY DEF RecordsInv, CallsTypeOK
<1>3. c \in Call
  BY DEF Call
<1>4. /\ calls' \in Seq(Call) /\ Len(calls') = Len(calls) + 1
      /\ \A id \in 1..Len(calls) : calls'[id] = calls[id]
      /\ calls'[Len(calls) + 1].verdict = "open"
  BY <1>1, <1>2, <1>3
<1>5. \A id \in 1..Len(calls) : calls[id].verdict # "open"
  BY <1>1, <1>2 DEF RecordsInv, OneAtATime, Underway, Last
<1>6. CallsTypeOK'
  <2>1. node.buffer \in Seq(1..Len(calls')) /\ tasks \subseteq 1..Len(calls')
    <3>1. node.buffer \in Seq(1..Len(calls)) /\ tasks \subseteq 1..Len(calls)
      BY DEF RecordsInv, CallsTypeOK
    <3>2. 1..Len(calls) \subseteq 1..Len(calls')
      BY <1>2, <1>4
    <3>3. QED
      BY <3>1, <3>2, SeqMonotonic
  <2>2. QED
    BY <1>1, <1>2, <1>4, <2>1 DEF RecordsInv, CallsTypeOK
<1>7. OneAtATime' /\ BufferedOnce'
  <2>1. OneAtATime'
    BY <1>2, <1>4, <1>5 DEF OneAtATime
  <2>2. QED
    BY <1>1, <2>1 DEF RecordsInv, BufferedOnce
<1>8. RecordsPlaced'
  <2>1. \A id : /\ InBuffer(id)' <=> InBuffer(id)
                /\ Nowhere(id)' <=> Nowhere(id)
                /\ InOnePlace(id)' <=> InOnePlace(id)
    BY <1>1 DEF InBuffer, Nowhere, InOnePlace
  <2>2. Nowhere(Len(calls) + 1)
    <3>1. \A i \in 1..Len(node.buffer) : node.buffer[i] \in 1..Len(calls)
      BY DEF RecordsInv, CallsTypeOK
    <3>2. ~InBuffer(Len(calls) + 1)
      BY <1>2, <3>1 DEF InBuffer
    <3>3. rows[Len(calls) + 1] = 0
      BY <1>1, <1>2 DEF RecordsInv, RecordsPlaced
    <3>4. QED
      BY <1>2, <3>2, <3>3 DEF Nowhere, RecordsInv, CallsTypeOK
  <2>3. \A id \in 1..Len(calls) : InOnePlace(id)
    BY <1>5 DEF RecordsInv, RecordsPlaced
  <2>4. \A id \in 1..Len(calls') : id \in 1..Len(calls) \/ id = Len(calls) + 1
    BY <1>2, <1>4
  <2>5. \A id \in 1..Len(calls') : IF calls'[id].verdict = "open" THEN Nowhere(id)' ELSE InOnePlace(id)'
    BY <1>4, <1>5, <2>1, <2>2, <2>3, <2>4
  <2>6. \A id \in (Len(calls')+1)..MaxCalls : rows'[id] = 0
    BY <1>1, <1>2, <1>4 DEF RecordsInv, RecordsPlaced
  <2>7. QED
    BY <2>5, <2>6 DEF RecordsPlaced
<1>9. QED
  BY <1>6, <1>7, <1>8 DEF RecordsInv

(* The mark changes no verdict.                                            *)
LEMMA MarkedKeeps ==
    ASSUME NEW cs \in Seq(Call), NEW b \in Seq(1..Len(cs)), NEW mark \in Verdicts
    PROVE  /\ Marked(cs, b, mark) \in Seq(Call)
           /\ Len(Marked(cs, b, mark)) = Len(cs)
           /\ \A j \in 1..Len(cs) : Marked(cs, b, mark)[j].verdict = cs[j].verdict
<1>1. CASE b = <<>>
  BY <1>1 DEF Marked
<1>2. CASE b # <<>>
  <2> DEFINE k == b[Len(b)]
             c == [cs[k] EXCEPT !.mark = mark]
  <2>1. k \in 1..Len(cs)
    BY <1>2, EmptySeq
  <2>2. cs[k] \in Call
    BY <2>1
  <2>3. c \in Call /\ c.verdict = cs[k].verdict
    BY <2>2 DEF Call
  <2>4. Marked(cs, b, mark) = [cs EXCEPT ![k] = c]
    BY <1>2 DEF Marked, Last
  <2> HIDE DEF c, k
  <2>5. QED
    BY <2>1, <2>3, <2>4, ExceptSeq
<1>3. QED
  BY <1>1, <1>2

(* The end of the call under way, whatever its verdict and its marks.      *)
LEMMA CallEnds ==
    ASSUME RecordsInv, Underway, NEW v \in {"none"} \cup Verdicts
    PROVE  LET ended == [calls EXCEPT ![Len(calls)].verdict = v] IN
           /\ Len(calls) \in 1..MaxCalls
           /\ ended \in Seq(Call) /\ Len(ended) = Len(calls)
           /\ \A j \in 1..Len(calls) : ended[j].verdict # "open"
           /\ Nowhere(Len(calls))
           /\ \A j \in 1..Len(calls) : j # Len(calls) => InOnePlace(j)
<1> DEFINE n == Len(calls)
           c == [calls[n] EXCEPT !.verdict = v]
<1>1. calls \in Seq(Call) /\ n \in 1..MaxCalls /\ calls[n].verdict = "open"
  BY DEF RecordsInv, CallsTypeOK, Underway, Last
<1>2. calls[n] \in Call
  BY <1>1
<1>3. c \in Call /\ c.verdict = v /\ v # "open"
  BY <1>2 DEF Call, Verdicts
<1>4. [calls EXCEPT ![n].verdict = v] = [calls EXCEPT ![n] = c]
  BY <1>1
<1>5. \A j \in 1..n : j # n => calls[j].verdict # "open"
  BY DEF RecordsInv, OneAtATime
<1>6. Nowhere(n) /\ \A j \in 1..n : j # n => InOnePlace(j)
  BY <1>1, <1>5 DEF RecordsInv, RecordsPlaced
<1> HIDE DEF c
<1>7. /\ [calls EXCEPT ![n] = c] \in Seq(Call)
      /\ Len([calls EXCEPT ![n] = c]) = n
      /\ \A j \in 1..n : [calls EXCEPT ![n] = c][j] = IF j = n THEN c ELSE calls[j]
  BY <1>1, <1>3, ExceptSeq
<1>8. \A j \in 1..n : [calls EXCEPT ![n] = c][j].verdict # "open"
  BY <1>3, <1>5, <1>7
<1>9. QED
  BY <1>1, <1>4, <1>6, <1>7, <1>8

LEMMA EndRecords ==
    ASSUME RecordsInv, NEW verdict \in Verdicts, EndCall(verdict)
    PROVE  RecordsInv'
<1> DEFINE n == Len(calls)
           way == calls[n].way
           v == IF way = "image" THEN "none" ELSE verdict
           ended == [calls EXCEPT ![n].verdict = v]
<1>1. /\ Underway /\ Tracked(n) /\ UNCHANGED <<env, rows>>
      /\ calls' = IF way = "image" THEN ended ELSE Marked(ended, BufferAtMark(way, n), verdict)
  BY DEF EndCall
<1>2. v \in {"none"} \cup Verdicts
  OBVIOUS
<1> HIDE DEF v
<1>3. /\ n \in 1..MaxCalls
      /\ ended \in Seq(Call) /\ Len(ended) = n
      /\ \A j \in 1..n : ended[j].verdict # "open"
      /\ Nowhere(n)
      /\ \A j \in 1..n : j # n => InOnePlace(j)
  BY <1>1, <1>2, CallEnds
<1>4. node \in [open : BOOLEAN, buffer : Seq(1..n)] /\ tasks \subseteq 1..n
      /\ rows \in [1..MaxCalls -> Nat]
  BY DEF RecordsInv, CallsTypeOK
<1>5. BufferAtMark(way, n) \in Seq(1..n)
  <2>1. node.buffer \in Seq(1..n) /\ <<>> \in Seq(1..n)
    BY <1>4
  <2>2. Append(node.buffer, n) \in Seq(1..n)
    BY <1>3, <2>1, AppendProperties
  <2>3. QED
    BY <2>1, <2>2 DEF BufferAtMark
<1> HIDE DEF ended
<1>6. calls' \in Seq(Call) /\ Len(calls') = n /\ \A j \in 1..n : calls'[j].verdict # "open"
  <2>1. CASE way = "image"
    BY <1>1, <1>3, <2>1
  <2>2. CASE way # "image"
    <3> DEFINE b == BufferAtMark(way, n)
    <3>1. b \in Seq(1..Len(ended)) /\ calls' = Marked(ended, b, verdict)
      BY <1>1, <1>3, <1>5, <2>2
    <3> HIDE DEF b
    <3>2. /\ Marked(ended, b, verdict) \in Seq(Call)
          /\ Len(Marked(ended, b, verdict)) = Len(ended)
          /\ \A j \in 1..Len(ended) : Marked(ended, b, verdict)[j].verdict = ended[j].verdict
      BY <1>3, <3>1, MarkedKeeps
    <3>3. Len(ended) = n
      BY <1>3
    <3>4. \A j \in 1..n : calls'[j].verdict = ended[j].verdict /\ ended[j].verdict # "open"
      BY <1>3, <3>1, <3>2, <3>3
    <3>5. QED
      BY <3>1, <3>2, <3>3, <3>4
  <2>3. QED
    BY <2>1, <2>2
<1>7. /\ node' \in [open : BOOLEAN, buffer : Seq(1..n)] /\ tasks' \subseteq 1..n
      /\ BufferedOnce'
      /\ \A j \in 1..n : j # n => (InBuffer(j)' <=> InBuffer(j))
      /\ \A j \in 1..n : j # n => (j \in tasks' <=> j \in tasks)
      /\ \/ InBuffer(n)' /\ n \notin tasks'
         \/ ~InBuffer(n)' /\ n \in tasks'
  <2>1. CASE node.open
    <3> DEFINE b == Append(node.buffer, n)
    <3>1. node' = [node EXCEPT !.buffer = b] /\ tasks' = tasks
      BY <1>1, <2>1 DEF Tracked
    <3>2. node.buffer \in Seq(1..n)
      BY <1>4
    <3>3. /\ b \in Seq(1..n) /\ Len(b) = Len(node.buffer) + 1
          /\ b[Len(node.buffer) + 1] = n
          /\ \A i \in 1..Len(node.buffer) : b[i] = node.buffer[i]
      BY <1>3, <3>2
    <3> HIDE DEF b
    <3>4. node' \in [open : BOOLEAN, buffer : Seq(1..n)] /\ node'.buffer = b /\ node'.open
      BY <1>4, <2>1, <3>1, <3>3
    <3>5. \A i \in 1..Len(node.buffer) : node.buffer[i] # n
      BY <1>3 DEF Nowhere, InBuffer
    <3>6. Len(node.buffer) \in Nat
      BY <3>2
    <3>a. \A i \in 1..Len(b) : i \in 1..Len(node.buffer) \/ i = Len(node.buffer) + 1
      BY <3>3, <3>6
    <3>c. 1..Len(node.buffer) \subseteq 1..Len(b) /\ Len(node.buffer) + 1 \in 1..Len(b)
      BY <3>3, <3>6
    <3>d. \A i, j \in 1..Len(node.buffer) : node.buffer[i] = node.buffer[j] => i = j
      BY DEF RecordsInv, BufferedOnce
    <3>e. \A i, j \in 1..Len(b) : b[i] = b[j] => i = j
      <4>1. SUFFICES ASSUME NEW i \in 1..Len(b), NEW j \in 1..Len(b), b[i] = b[j] PROVE i = j
        OBVIOUS
      <4>2. CASE i \in 1..Len(node.buffer) /\ j \in 1..Len(node.buffer)
        BY <3>3, <3>d, <4>1, <4>2
      <4>3. CASE i = Len(node.buffer) + 1 \/ j = Len(node.buffer) + 1
        BY <3>3, <3>5, <3>a, <4>1, <4>3
      <4>4. QED
        BY <3>a, <4>2, <4>3
    <3>7. BufferedOnce'
      BY <3>4, <3>e DEF BufferedOnce
    <3>8. \A j : InBuffer(j)' <=> InBuffer(j) \/ j = n
      <4>1. ASSUME NEW j, \E i \in 1..Len(b) : b[i] = j
            PROVE  (\E i \in 1..Len(node.buffer) : node.buffer[i] = j) \/ j = n
        <5>1. PICK i \in 1..Len(b) : b[i] = j
          BY <4>1
        <5>2. QED
          BY <3>3, <3>a, <5>1
      <4>2. ASSUME NEW j, (\E i \in 1..Len(node.buffer) : node.buffer[i] = j) \/ j = n
            PROVE  \E i \in 1..Len(b) : b[i] = j
        <5>1. CASE j = n
          BY <3>3, <3>c, <5>1
        <5>2. CASE \E i \in 1..Len(node.buffer) : node.buffer[i] = j
          BY <3>3, <3>c, <5>2
        <5>3. QED
          BY <4>2, <5>1, <5>2
      <4>3. QED
        BY <3>4, <4>1, <4>2 DEF InBuffer
    <3>9. QED
      BY <1>3, <1>4, <1>6, <3>1, <3>4, <3>7, <3>8 DEF Nowhere
  <2>2. CASE ~node.open
    <3>1. tasks' = tasks \cup {n} /\ node' = node
      BY <1>1, <2>2 DEF Tracked
    <3>2. BufferedOnce' /\ \A j : InBuffer(j)' <=> InBuffer(j)
      BY <3>1 DEF InBuffer, RecordsInv, BufferedOnce
    <3>3. node' \in [open : BOOLEAN, buffer : Seq(1..n)] /\ tasks' \subseteq 1..n
      <4>1. n \in 1..n
        BY <1>3
      <4>2. tasks' \subseteq 1..n
        BY <1>4, <3>1, <4>1
      <4>3. QED
        BY <1>4, <3>1, <4>2
    <3>4. ~InBuffer(n)' /\ n \in tasks'
      BY <1>3, <1>6, <3>1, <3>2 DEF Nowhere
    <3>5. QED
      BY <3>1, <3>2, <3>3, <3>4
  <2>3. QED
    BY <2>1, <2>2
<1>8. CallsTypeOK'
  BY <1>1, <1>3, <1>6, <1>7 DEF RecordsInv, CallsTypeOK
<1>9. OneAtATime'
  BY <1>6 DEF OneAtATime
<1>10. RecordsPlaced'
  <2>1. \A j \in 1..n : j # n => InOnePlace(j)'
    BY <1>1, <1>3, <1>7 DEF InOnePlace
  <2>2. InOnePlace(n)'
    BY <1>1, <1>3, <1>6, <1>7 DEF InOnePlace, Nowhere
  <2>3. QED
    BY <1>1, <1>6, <2>1, <2>2 DEF RecordsInv, RecordsPlaced
<1>11. QED
  BY <1>7, <1>8, <1>9, <1>10 DEF RecordsInv

LEMMA RaiseRecords ==
    ASSUME RecordsInv, CallRaises
    PROVE  RecordsInv'
<1> DEFINE n == Len(calls)
           ended == [calls EXCEPT ![n].verdict = "none"]
<1>1. /\ Underway /\ calls' = ended /\ UNCHANGED <<env, rows>>
      /\ tasks' = tasks \cup {n} \cup {node.buffer[i] : i \in 1..Len(node.buffer)}
      /\ node' = [open |-> FALSE, buffer |-> <<>>]
  BY DEF CallRaises, Closed
<1>2. /\ n \in 1..MaxCalls
      /\ ended \in Seq(Call) /\ Len(ended) = n
      /\ \A j \in 1..n : ended[j].verdict # "open"
      /\ Nowhere(n)
      /\ \A j \in 1..n : j # n => InOnePlace(j)
  BY <1>1, CallEnds
<1> HIDE DEF ended
<1>3. node'.buffer = <<>> /\ node'.open = FALSE
  BY <1>1
<1>4. \A id : id \in tasks' <=> id \in tasks \/ id = n \/ InBuffer(id)
  BY <1>1 DEF InBuffer
<1>5. \A id : ~InBuffer(id)'
  BY <1>3 DEF InBuffer
<1>6. CallsTypeOK'
  <2>a. \A i \in 1..Len(node.buffer) : node.buffer[i] \in 1..n
    BY ElementOfSeq DEF RecordsInv, CallsTypeOK
  <2>1. tasks' \subseteq 1..n
    <3>1. SUFFICES ASSUME NEW id \in tasks' PROVE id \in 1..n
      OBVIOUS
    <3>2. CASE InBuffer(id)
      BY <2>a, <3>2 DEF InBuffer
    <3>3. CASE id \in tasks
      BY <3>3 DEF RecordsInv, CallsTypeOK
    <3>4. CASE id = n
      BY <1>2, <3>4
    <3>5. QED
      BY <1>4, <3>1, <3>2, <3>3, <3>4
  <2>2. node' \in [open : BOOLEAN, buffer : Seq(1..n)]
    BY <1>1
  <2>3. QED
    BY <1>1, <1>2, <2>1, <2>2 DEF RecordsInv, CallsTypeOK
<1>7. OneAtATime' /\ BufferedOnce'
  BY <1>1, <1>2, <1>3 DEF OneAtATime, BufferedOnce
<1>8. RecordsPlaced'
  <2>1. \A j \in 1..n : InOnePlace(j)'
    BY <1>1, <1>2, <1>4, <1>5 DEF InOnePlace, Nowhere
  <2>2. QED
    BY <1>1, <1>2, <2>1 DEF RecordsInv, RecordsPlaced
<1>9. QED
  BY <1>6, <1>7, <1>8 DEF RecordsInv

LEMMA PersistRecords ==
    ASSUME RecordsInv, NEW id \in tasks, Persist(id)
    PROVE  RecordsInv'
<1>1. /\ tasks' = tasks \ {id} /\ rows' = [rows EXCEPT ![id] = rows[id] + 1]
      /\ UNCHANGED <<env, node, calls>>
  BY DEF Persist
<1>2. id \in 1..Len(calls) /\ Len(calls) \in Nat /\ Len(calls) <= MaxCalls
      /\ rows \in [1..MaxCalls -> Nat]
  BY DEF RecordsInv, CallsTypeOK
<1>3. rows' \in [1..MaxCalls -> Nat]
      /\ \A j \in 1..MaxCalls : rows'[j] = IF j = id THEN rows[id] + 1 ELSE rows[j]
  BY <1>1, <1>2
<1>4. CallsTypeOK'
  BY <1>1, <1>3 DEF RecordsInv, CallsTypeOK
<1>5. OneAtATime' /\ BufferedOnce'
  BY <1>1 DEF RecordsInv, OneAtATime, BufferedOnce
<1>6. ~InBuffer(id) /\ rows[id] = 0 /\ calls[id].verdict # "open"
  BY <1>2 DEF RecordsInv, RecordsPlaced, Nowhere, InOnePlace
<1>7. \A j : InBuffer(j)' <=> InBuffer(j)
  BY <1>1 DEF InBuffer
<1>8. RecordsPlaced'
  <2>1. InOnePlace(id)'
    BY <1>1, <1>2, <1>3, <1>6, <1>7 DEF InOnePlace
  <2>2. \A j \in 1..Len(calls) : j # id => /\ (Nowhere(j) => Nowhere(j)')
                                           /\ (InOnePlace(j) => InOnePlace(j)')
    BY <1>1, <1>2, <1>3, <1>7 DEF InOnePlace, Nowhere
  <2>3. \A j \in (Len(calls)+1)..MaxCalls : rows'[j] = 0
    BY <1>2, <1>3 DEF RecordsInv, RecordsPlaced
  <2>4. QED
    BY <1>1, <1>6, <2>1, <2>2, <2>3 DEF RecordsInv, RecordsPlaced
<1>9. QED
  BY <1>4, <1>5, <1>8 DEF RecordsInv

LEMMA RecordsStep ==
    ASSUME RecordsInv, [Next]_vars
    PROVE  RecordsInv'
<1>1. CASE UNCHANGED callVars
  BY <1>1, RecordsFrame
<1>2. CASE EnterNode
  BY <1>2, EnterRecords
<1>3. CASE (\E s \in Slots : Fails(s)) \/ LeaveNode \/ EndOffline
  <2>1. Flush /\ UNCHANGED <<env, calls, rows>>
    BY <1>3 DEF Fails, LeaveNode, EndOffline, Flush
  <2>2. QED
    BY <2>1, FlushRecords
<1>4. CASE \E s \in Slots, way \in Ways \cup {"harness"} : StartCall(s, way)
  BY <1>4, StartRecords
<1>5. CASE \E verdict \in Verdicts : EndCall(verdict)
  BY <1>5, EndRecords
<1>6. CASE CallRaises
  BY <1>6, RaiseRecords
<1>7. CASE \E id \in tasks : Persist(id)
  BY <1>7, PersistRecords
<1>8. CASE BeginGraph \/ BeginDirection \/ FallsBack \/ EndTurn \/ UNCHANGED vars
  <2>1. UNCHANGED callVars
    BY <1>8 DEF BeginGraph, BeginDirection, FallsBack, EndTurn, vars, callVars
  <2>2. QED
    BY <2>1, RecordsFrame
<1>9. QED
  BY <1>1, <1>2, <1>3, <1>4, <1>5, <1>6, <1>7, <1>8 DEF Next

LEMMA RecordsInit == Init => RecordsInv
<1>1. SUFFICES ASSUME Init PROVE RecordsInv
  OBVIOUS
<1>2. /\ env \in BOOLEAN /\ node = [open |-> FALSE, buffer |-> <<>>] /\ calls = <<>>
      /\ tasks = {} /\ rows = [id \in 1..MaxCalls |-> 0]
  BY <1>1 DEF Init, Closed
<1>3. CallsTypeOK
  BY <1>2 DEF CallsTypeOK
<1>4. OneAtATime /\ BufferedOnce /\ RecordsPlaced
  BY <1>2 DEF OneAtATime, BufferedOnce, RecordsPlaced
<1>5. QED
  BY <1>3, <1>4 DEF RecordsInv

(* The records are placed as RecordsInv says, through the calls, errors    *)
(* and background writes of any number of nodes (recorder.py).             *)
THEOREM RecordsInvariant == Spec => []RecordsInv
<1>1. QED
  BY RecordsInit, RecordsStep, PTL DEF Spec

(* Every variable keeps its kind.                                          *)
THEOREM TypeCorrect == Spec => []TypeOK
<1>1. KeysInv /\ RecordsInv => TypeOK
  BY DEF KeysInv, RecordsInv, CallsTypeOK, TypeOK
<1>2. QED
  BY <1>1, KeysInvariant, RecordsInvariant, PTL

(* A finished call has its record in one place, however calls end and      *)
(* wherever they are made: never lost by a context that is left on an      *)
(* error, never written twice (recorder.py, ADR 0005).                     *)
THEOREM OneRecord == Spec => []RecordedOnce
<1>1. RecordsInv => RecordedOnce
  <2>1. SUFFICES ASSUME RecordsInv, NEW id \in 1..Len(calls)
                 PROVE  Buffered(id) + (IF id \in tasks THEN 1 ELSE 0) + rows[id]
                            = IF calls[id].verdict = "open" THEN 0 ELSE 1
    BY DEF RecordedOnce
  <2> DEFINE at == {i \in 1..Len(node.buffer) : node.buffer[i] = id}
  <2>2. Buffered(id) = IF InBuffer(id) THEN 1 ELSE 0
    <3>1. CASE InBuffer(id)
      <4>1. PICK i \in 1..Len(node.buffer) : node.buffer[i] = id
        BY <3>1 DEF InBuffer
      <4>2. at = {i}
        BY <2>1, <4>1 DEF RecordsInv, BufferedOnce
      <4>3. QED
        BY <3>1, <4>2, FS_Singleton DEF Buffered
    <3>2. CASE ~InBuffer(id)
      <4>1. at = {}
        BY <3>2 DEF InBuffer
      <4>2. QED
        BY <3>2, <4>1, FS_EmptySet DEF Buffered
    <3>3. QED
      BY <3>1, <3>2
  <2>3. QED
    BY <2>1, <2>2 DEF RecordsInv, RecordsPlaced, Nowhere, InOnePlace
<1>2. QED
  BY <1>1, RecordsInvariant, PTL
=============================================================================
