------------------------------ MODULE HumanOK ------------------------------
(***************************************************************************)
(* What the session graph promises its user, seen from outside (ROADMAP    *)
(* "Interrupts", ADR 0004, 0028, 0036): a caption is drafted only from an  *)
(* angle the user has picked, unless the brief offers none, and an image   *)
(* is rendered only on the user's Execute, once for each of them.          *)
(***************************************************************************)
VARIABLES
    phase,    \* "rest", "running", or the park "angle" or "image"
    ok,       \* the answer the running turn holds
    options,  \* whether the brief of the turn offers angles
    drafted   \* whether the running turn has drafted a caption

vars == <<phase, ok, options, drafted>>

Phases == {"rest", "running", "angle", "image"}
Answers == {"none", "angle", "image", "used"}

TypeOK ==
    /\ phase \in Phases
    /\ ok \in Answers
    /\ options \in BOOLEAN
    /\ drafted \in BOOLEAN

Init == phase = "rest" /\ ok = "none" /\ options = FALSE /\ drafted = FALSE

(* A message starts a turn: from rest, or instead of the pending image.    *)
Start ==
    /\ phase \in {"rest", "image"}
    /\ phase' = "running" /\ ok' = "none" /\ drafted' = FALSE
    /\ options' \in BOOLEAN

(* The user answers the question the session is parked at; a text may be   *)
(* none of the offered angles.                                             *)
Answer ==
    /\ phase \in {"angle", "image"}
    /\ phase' = "running" /\ drafted' = FALSE
    /\ ok' = phase \/ (phase = "angle" /\ ok' = "none")
    /\ options' \in BOOLEAN

(* A new brief.                                                            *)
Offer ==
    /\ phase = "running" /\ options' \in BOOLEAN
    /\ UNCHANGED <<phase, ok, drafted>>

(* One draft in a turn; it uses the answer up.                             *)
Draft ==
    /\ phase = "running" /\ ~drafted /\ (options => ok = "angle")
    /\ drafted' = TRUE /\ ok' \in {ok, "none"}
    /\ UNCHANGED <<phase, options>>

Render ==
    /\ phase = "running" /\ ok = "image" /\ ok' = "used"
    /\ UNCHANGED <<phase, options, drafted>>

(* A turn ends, is stopped or crashes; Discard ends a park.                *)
Settle ==
    /\ phase # "rest"
    /\ phase' \in Phases \ {"running"} /\ ~options'
    /\ ok' = "none" /\ drafted' = FALSE

Next == Start \/ Answer \/ Offer \/ Draft \/ Render \/ Settle

Spec == Init /\ [][Next]_vars
=============================================================================
