------------------------------ MODULE LlmCalls ------------------------------
(***************************************************************************)
(* The calls a turn makes with the bundle it loaded (ModelKeys), and their *)
(* records (ADR 0005): which key pays, when the offline fallback is taken, *)
(* how a record travels from the call context of a graph node through the  *)
(* background writer into llm_call_records, and which record gets the      *)
(* "parse_ok / fallback_used" mark.                                        *)
(*                                                                         *)
(* Sources: internal/llm/router.py and recorder.py, the wrapper of the     *)
(* graph's LLM nodes (session/graph.py), the agents of                     *)
(* session/execute_harness.py and research_harness.py, and                 *)
(* _rewrite_copy_for_direction of session/service.py.                      *)
(*                                                                         *)
(* A call goes through the router (complete_json; generate_image, "image") *)
(* or through a Pydantic AI agent ("harness").  Calls are numbered in the  *)
(* order they start; a record is known by its call's number.  What pays is *)
(* the slot of the bundle, which does not change while the turn lasts.     *)
(***************************************************************************)
EXTENDS ModelKeys, Sequences

CONSTANTS
    EnvKeys,   \* whether the platform may have environment credentials, a set of BOOLEANs
    Ways,      \* how graph nodes call, a subset of {"router", "harness", "image"}
    Works,     \* what turns do, a subset of {"graph", "direction"}
    MaxCalls   \* bound: calls of the behaviour

ASSUMPTION LlmCallsAssumption ==
    /\ EnvKeys \subseteq BOOLEAN
    /\ Ways \subseteq {"router", "harness", "image"}
    /\ Works \subseteq {"graph", "direction"}
    /\ MaxCalls \in Nat

VARIABLES
    env,     \* this deployment has environment credentials
    node,    \* the call context of the running graph node: open or not, its buffered records
    calls,   \* the calls made so far
    tasks,   \* records whose background write has been started
    rows     \* llm_call_records: how many rows each call has

vars == <<keyVars, env, node, calls, tasks, rows>>
callVars == <<env, node, calls, tasks, rows>>

Verdicts == {"ok", "fallback"}

(* A call: how it is made, whether its answer validated ("open" while it
   runs, "none" when nothing is to be validated or it raised), and the mark
   on its record. *)
Call == [way : {"router", "harness", "image"},
         verdict : {"open", "none"} \cup Verdicts,
         mark : {"none"} \cup Verdicts]

Closed == [open |-> FALSE, buffer |-> <<>>]
Last(s) == s[Len(s)]
Underway == Len(calls) > 0 /\ Last(calls).verdict = "open"

Init ==
    /\ KeysInit
    /\ env \in EnvKeys
    /\ node = Closed
    /\ calls = <<>>
    /\ tasks = {}
    /\ rows = [id \in 1..MaxCalls |-> 0]

----------------------------------------------------------------------------
(* has_provider counts resolved slots only, not those whose key failed. *)
HasProvider(bundle) == \E s \in Slots : bundle[s].source = "org"
HasCredentials(bundle) == env \/ HasProvider(bundle)

(* What a load of the stored rows would give now. *)
Current ==
    LET found == [m \in {x \in Models : Here(x)} |->
                    [provider |-> models[m].provider, cap |-> models[m].cap]]
    IN  [s \in Slots |-> SlotFrom(found, s, routing[s])]

(* A graph turn enters the scope before anything asks for credentials. *)
BeginGraph == "graph" \in Works /\ LoadRouting("graph") /\ UNCHANGED callVars

(* _rewrite_copy_for_direction asks before it enters the scope, when no
   bundle is bound: only the environment counts. *)
BeginDirection ==
    /\ "direction" \in Works
    /\ turn.pc = "off"
    /\ IF env
       THEN LoadRouting("direction")
       ELSE /\ turn' = [pc |-> "offline", bundle |-> Current]
            /\ UNCHANGED <<providers, models, routing, due, req, edits>>
    /\ UNCHANGED callVars

(* A graph node opens its call context. *)
EnterNode ==
    /\ turn.pc = "ready" /\ turn.kind = "graph"
    /\ ~node.open
    /\ node' = [open |-> TRUE, buffer |-> <<>>]
    /\ UNCHANGED <<keyVars, env, calls, tasks, rows>>

Calling == turn.pc = "ready" /\ (node.open \/ turn.kind = "direction") /\ ~Underway

(* Without credentials the node takes its offline path: no call is made. *)
FallsBack ==
    /\ Calling /\ node.open
    /\ ~HasCredentials(turn.bundle)
    /\ turn' = [pc |-> "offline", bundle |-> turn.bundle]
    /\ UNCHANGED <<providers, models, routing, due, req, edits, callVars>>

(* The image slot is called by generate_image, the others are not. *)
WaysFor(s) ==
    {w \in (IF turn.kind = "direction" THEN {"harness"} ELSE Ways) :
        (w = "image") <=> (s = "image")}

(* resolve_llm_model / resolve_image: the slot of the bundle, or the
   environment's model when it is "none"; a failed slot raises. *)
Resolves(s) == turn.bundle[s].source # "failed"

StartCall(s, way) ==
    /\ Calling
    /\ HasCredentials(turn.bundle)
    /\ way \in WaysFor(s)
    /\ Resolves(s)
    /\ Len(calls) < MaxCalls
    /\ calls' = Append(calls, [way |-> way, verdict |-> "open", mark |-> "none"])
    /\ UNCHANGED <<keyVars, env, node, tasks, rows>>

(* A slot whose key cannot be decrypted raises before the call is tracked;
   the exception leaves the node and its call context is flushed. *)
Flush == /\ tasks' = tasks \cup {node.buffer[i] : i \in 1..Len(node.buffer)}
         /\ node' = Closed

Fails(s) ==
    /\ Calling
    /\ HasCredentials(turn.bundle)
    /\ ~Resolves(s)
    /\ Flush
    /\ turn' = NoTurn
    /\ UNCHANGED <<providers, models, routing, due, req, edits, env, calls, rows>>

(* Mutant: the record is buffered and its write started as well. *)
TrackedTwice(id) ==
    IF node.open
    THEN node' = [node EXCEPT !.buffer = Append(@, id)] /\ tasks' = tasks \cup {id}
    ELSE tasks' = tasks \cup {id} /\ UNCHANGED node

(* track appends the record to the open context, else starts its write. *)
Tracked(id) ==
    IF node.open
    THEN node' = [node EXCEPT !.buffer = Append(@, id)] /\ UNCHANGED tasks
    ELSE tasks' = tasks \cup {id} /\ UNCHANGED node

(* mark_last_call marks the last record of the open context. *)
Marked(cs, buffer, mark) ==
    IF buffer = <<>> THEN cs ELSE [cs EXCEPT ![Last(buffer)].mark = mark]

(* The router's caller validates after the call has been tracked; an agent's
   runner marks inside the tracked block, before its record is appended. *)
BufferAtMark(way, id) ==
    IF ~node.open THEN <<>>
    ELSE IF way = "harness" THEN node.buffer ELSE Append(node.buffer, id)

EndCall(verdict) ==
    /\ Underway
    /\ LET id == Len(calls)
           way == calls[id].way
           ended == [calls EXCEPT ![id].verdict = IF way = "image" THEN "none" ELSE verdict]
       IN  /\ Tracked(id)
           /\ calls' = IF way = "image" THEN ended
                       ELSE Marked(ended, BufferAtMark(way, id), verdict)
    /\ turn' = IF turn.kind = "direction" THEN NoTurn ELSE turn
    /\ UNCHANGED <<providers, models, routing, due, req, edits, env, rows>>

(* A provider error or a Stop: the record keeps its status, the exception
   leaves the node, and the context's records are flushed all the same. *)
CallRaises ==
    /\ Underway
    /\ LET id == Len(calls) IN
       /\ calls' = [calls EXCEPT ![id].verdict = "none"]
       /\ tasks' = tasks \cup {id} \cup {node.buffer[i] : i \in 1..Len(node.buffer)}
    /\ node' = Closed
    /\ turn' = NoTurn
    /\ UNCHANGED <<providers, models, routing, due, req, edits, env, rows>>

LeaveNode ==
    /\ node.open /\ ~Underway
    /\ Flush
    /\ UNCHANGED <<keyVars, env, calls, rows>>

EndTurn ==
    /\ turn.pc = "ready" /\ ~node.open /\ ~Underway
    /\ turn' = NoTurn
    /\ UNCHANGED <<providers, models, routing, due, req, edits, callVars>>

EndOffline ==
    /\ turn.pc = "offline"
    /\ turn' = NoTurn
    /\ node' = Closed
    /\ tasks' = tasks \cup {node.buffer[i] : i \in 1..Len(node.buffer)}
    /\ UNCHANGED <<providers, models, routing, due, req, edits, env, calls, rows>>

(* The background write, in a session of its own. *)
Persist(id) ==
    /\ id \in tasks
    /\ tasks' = tasks \ {id}
    /\ rows' = [rows EXCEPT ![id] = @ + 1]
    /\ UNCHANGED <<keyVars, env, node, calls>>

Next ==
    \/ KeysNext /\ UNCHANGED callVars
    \/ BeginGraph
    \/ BeginDirection
    \/ EnterNode
    \/ FallsBack
    \/ \E s \in Slots : \/ \E way \in Ways \cup {"harness"} : StartCall(s, way)
                        \/ Fails(s)
    \/ \E verdict \in Verdicts : EndCall(verdict)
    \/ CallRaises
    \/ LeaveNode
    \/ EndTurn
    \/ EndOffline
    \/ \E id \in tasks : Persist(id)

Spec == Init /\ [][Next]_vars

----------------------------------------------------------------------------
TypeOK ==
    /\ KeysTypeOK
    /\ env \in BOOLEAN
    /\ calls \in Seq(Call) /\ Len(calls) <= MaxCalls
    /\ node \in [open : BOOLEAN, buffer : Seq(1..Len(calls))]
    /\ tasks \subseteq 1..Len(calls)
    /\ rows \in [1..MaxCalls -> Nat]

(* resolve.py: a NULL slot falls back to the platform's key, a routed slot
   must not silently bill it.  The platform pays for a call only if its slot
   was empty when the turn read the routing, or the model it named had
   another capability, or was deleted or reclassified during the load. *)
PlatformPaysUnrouted ==
    turn.pc = "ready" => \A s \in Slots :
        turn.bundle[s].source = "none" =>
            turn.routed[s] \in {None} \cup turn.lost \/ s \in turn.misfit

Buffered(id) == Cardinality({i \in 1..Len(node.buffer) : node.buffer[i] = id})

(* ADR 0005: one row per provider call.  A finished call's record is in
   exactly one place: the node's buffer, the writer's tasks or the table. *)
RecordedOnce ==
    \A id \in 1..Len(calls) :
        Buffered(id) + (IF id \in tasks THEN 1 ELSE 0) + rows[id]
            = IF calls[id].verdict = "open" THEN 0 ELSE 1

(* ADR 0005 section 4: the mark is the "which step went wrong" signal, so a
   record carries the verdict on its own call and on no other. *)
MarkIsOwn ==
    \A id \in 1..Len(calls) :
        calls[id].mark # "none" => calls[id].mark = calls[id].verdict

(* The recorder's docstring: callers mark the last call after validating its
   output.  A graph's validated call is marked. *)
ValidatedIsMarked ==
    \A id \in 1..Len(calls) :
        rows[id] > 0 /\ calls[id].verdict \in Verdicts => calls[id].mark = calls[id].verdict

(* resolve.py: a slot that points at a row whose key cannot be decrypted
   raises; the offline path is for companies with no key at all. *)
UndecryptableRaises ==
    turn.pc = "offline" => \A s \in Slots : turn.bundle[s].source # "failed"

(* ADR 0020: a company's own keys are enough; work is not done offline while
   one of its slots resolves. *)
OrgKeysAreEnough ==
    turn.pc = "offline" => ~HasProvider(turn.bundle)
=============================================================================
