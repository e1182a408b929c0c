--------------------------- MODULE Organisation ---------------------------
(* Companies, their members and their invites: the first-run setup,        *)
(* registration, invite, revoke, accept, leave and remove, the settings of *)
(* a company and the catalogue rows that move with their owner             *)
(* (cmd/api/routes/{setup,auth,companies,invites}.py and                   *)
(* internal/memory/repos.py).                                              *)
(*                                                                         *)
(* Every handler is two steps in READ COMMITTED: it reads what it decides  *)
(* by, other requests commit, and it writes by primary key what it has     *)
(* decided.  What the unique constraints, the foreign keys and the ORM     *)
(* refuse at the write rolls the request back.                             *)
EXTENDS Naturals, FiniteSets

CONSTANTS
    Users,      \* people; the company one of them registers is named after them
    Invites,    \* rows of org_invites that may be created
    Products,   \* catalogue rows that may be created
    Reqs,       \* requests in flight at once
    Nobody,      \* no user, no invite
    Starts,     \* deployments: "open" (on-prem, the boot has inserted the row of
                \* instance_settings), "absent" (it has not), "cloud"
    InviteRoles, \* roles that invites give
    Settings,   \* keys of a profile that are edited
    MaxEdits    \* settings and catalogue rows that are written

ASSUME OrganisationAssumption ==
    /\ Nobody \notin Users \cup Invites \cup Products
    /\ Starts \subseteq {"open", "absent", "cloud"}
    /\ InviteRoles \subseteq {"admin", "member"} /\ MaxEdits \in Nat
    /\ IsFiniteSet(Reqs)

VARIABLES
    users,      \* registered users
    super,      \* users with platform_level 9
    instance,   \* the row of instance_settings
    seeded,     \* whether the boot has inserted that row
    orgs,       \* companies that exist
    members,    \* rows of organization_members
    invites,    \* rows of org_invites
    profile,    \* entities.profile of each company: its voice, its policy
    products,   \* the company of each catalogue row
    req         \* what each request in flight has read

people == <<users, super, instance, seeded, orgs>>
assets == <<profile, products>>
organisationVars ==
    <<users, super, instance, seeded, orgs, members, invites, profile, products, req>>

Companies == Users
Roles == {"owner", "admin", "member"}
Editors == {"owner", "admin"}
Member == [user : Users, org : Companies, role : Roles, id : Nat]

Invite == [there : BOOLEAN, org : Companies \cup {Nobody}, to : Users \cup {Nobody},
           role : {"admin", "member"}, accepted : BOOLEAN, revoked : BOOLEAN, expired : BOOLEAN]
NoInvite == [there |-> FALSE, org |-> Nobody, to |-> Nobody, role |-> "member",
             accepted |-> FALSE, revoked |-> FALSE, expired |-> FALSE]
Profile == [Settings -> {0, 1}]

(* A setting is 0 until somebody changes it.                               *)
Edited == {e \in Companies \X Settings : profile[e[1]][e[2]] # 0}
Added == {p \in Products : products[p] # Nobody}
MayEdit == Cardinality(Edited) + Cardinality(Added) < MaxEdits

Of(o) == {m \in members : m.org = o}
Rows(u) == {m \in members : m.user = u}
RowOf(u, o) == {m \in members : m.user = u /\ m.org = o}
Edits(u, o) == \E m \in RowOf(u, o) : m.role \in Editors

----------------------------------------------------------------------------
(* A request: idle, or what it has read on its way to its write.           *)

NoRequest == [kind |-> "idle"]
Is(r, kind) == req[r].kind = kind

(* The primary key of a membership, and one that no request has read yet.  *)
Key(m) == [user |-> m.user, org |-> m.org, id |-> m.id]
Held == UNION {req[r].rows : r \in {x \in Reqs : req[x].kind \in {"accept", "remove", "role"}}}
NewRow(u, o, role) ==
    [user |-> u, org |-> o, role |-> role,
     id |-> CHOOSE n \in 0..Cardinality(Held) :
              [user |-> u, org |-> o, id |-> n] \notin Held]

Begin(r, data) == Is(r, "idle") /\ req' = [req EXCEPT ![r] = data]
End(r) == req' = [req EXCEPT ![r] = NoRequest]
Refused(r) == End(r) /\ UNCHANGED <<people, members, invites, assets>>

(* register_user: the account, the company and the owner's row.            *)
Registered(u) ==
    /\ users' = users \cup {u}
    /\ orgs' = orgs \cup {u}
    /\ members' = members \cup {NewRow(u, u, "owner")}

----------------------------------------------------------------------------
(* POST /setup: FOR UPDATE on the row when there is one; get, insert or    *)
(* update; the account, all in one transaction.                            *)

Holder == {r \in Reqs : req[r].kind = "claimed"}

SetupSees(r, u, free) ==
    /\ instance \in {"open", "absent"} /\ free
    /\ Begin(r, [kind |-> IF instance = "open" THEN "claimed" ELSE "missing", user |-> u])
    /\ UNCHANGED <<people, members, invites, assets>>

SetupLooksUnlocked(r, u) == SetupSees(r, u, TRUE)
SetupLooks(r, u) == SetupSees(r, u, Holder = {} \/ instance = "absent")

(* There was no row: upsert_instance_settings looks for it again, and      *)
(* inserts it or updates the one it finds.                                 *)
SetupUpserts(r) ==
    /\ Is(r, "missing") /\ Holder = {}
    /\ req' = [req EXCEPT ![r].kind = "claimed"]
    /\ UNCHANGED <<people, members, invites, assets>>

(* It had inserted behind an insert that has committed: IntegrityError.    *)
SetupConflicts(r) ==
    /\ Is(r, "missing") /\ instance = "sealed"
    /\ Refused(r)

SetupCommits(r) ==
    /\ Is(r, "claimed")
    /\ IF req[r].user \notin users
       THEN /\ Registered(req[r].user)
            /\ super' = super \cup {req[r].user}
            /\ instance' = "sealed"
            /\ End(r)
            /\ UNCHANGED <<seeded, invites, assets>>
       ELSE Refused(r)

----------------------------------------------------------------------------
(* POST /auth/register.                                                    *)

Pending(i) == invites[i].there /\ ~invites[i].accepted /\ ~invites[i].revoked
Acceptable(i) == Pending(i) /\ ~invites[i].expired

RegisterReads(r, u) ==
    /\ u \notin users
    /\ \/ instance = "cloud"
       \/ instance = "sealed" /\ \E i \in Invites : Acceptable(i) /\ invites[i].to = u
    /\ Begin(r, [kind |-> "register", user |-> u])
    /\ UNCHANGED <<people, members, invites, assets>>

RegisterCommits(r) ==
    /\ Is(r, "register")
    /\ IF req[r].user \notin users
       THEN /\ Registered(req[r].user) /\ End(r)
            /\ UNCHANGED <<super, instance, seeded, invites, assets>>
       ELSE Refused(r)

----------------------------------------------------------------------------
(* Invites of a company, by an owner or an admin.                          *)

InviteReads(r, by, u, i, role) ==
    /\ \E o \in orgs :
         /\ Edits(by, o) /\ RowOf(u, o) = {}
         /\ Begin(r, [kind |-> "invite", org |-> o, user |-> u, inv |-> i, role |-> role])
    /\ ~invites[i].there
    /\ UNCHANGED <<people, members, invites, assets>>

(* uq_org_invites_pending_email knows no expiry.                           *)
Duplicate(o, u) == \E i \in Invites : Pending(i) /\ invites[i].org = o /\ invites[i].to = u

InviteCommits(r) ==
    /\ Is(r, "invite")
    /\ IF req[r].org \in orgs /\ ~Duplicate(req[r].org, req[r].user) /\ ~invites[req[r].inv].there
       THEN /\ invites' = [invites EXCEPT ![req[r].inv] =
                 [NoInvite EXCEPT !.there = TRUE, !.org = req[r].org, !.to = req[r].user,
                                  !.role = req[r].role]]
            /\ End(r)
            /\ UNCHANGED <<people, members, assets>>
       ELSE Refused(r)

RevokeReads(r, by, i) ==
    /\ Pending(i) /\ Edits(by, invites[i].org)
    /\ Begin(r, [kind |-> "revoke", inv |-> i])
    /\ UNCHANGED <<people, members, invites, assets>>

RevokeCommits(r) ==
    /\ Is(r, "revoke")
    /\ IF invites[req[r].inv].there
       THEN /\ invites' = [invites EXCEPT ![req[r].inv].revoked = TRUE]
            /\ End(r)
            /\ UNCHANGED <<people, members, assets>>
       ELSE Refused(r)

Expires(i) ==
    /\ Acceptable(i)
    /\ invites' = [invites EXCEPT ![i].expired = TRUE]
    /\ UNCHANGED <<people, members, assets, req>>

----------------------------------------------------------------------------
(* accept_company_invite with clear_bootstrap_solo_org.                    *)

(* No company yet, or the owner and only member of one.                    *)
Solo(u) == \E m \in Rows(u) : m.role = "owner" /\ Of(m.org) = Rows(u)
MayMove(u) == Rows(u) = {} \/ Solo(u)

AcceptReads(r, i) ==
    LET u == invites[i].to
    IN  /\ Acceptable(i) /\ u \in users /\ MayMove(u)
        /\ Begin(r, [kind |-> "accept", user |-> u, inv |-> i, org |-> invites[i].org,
                     role |-> invites[i].role, rows |-> {Key(m) : m \in Rows(u)},
                     moves |-> {p \in Products : \E m \in Rows(u) : products[p] = m.org}])
        /\ UNCHANGED <<people, members, invites, assets>>

(* session.delete(company) first clears organization_id of the members and *)
(* invites it finds; the column is NOT NULL, so there must be none.        *)
ChildlessWhenRead(o, but) == TRUE
Childless(o, but) ==
    Of(o) \subseteq but /\ \A i \in Invites : invites[i].there => invites[i].org # o

Left(r) == {k.org : k \in req[r].rows} \cap orgs
Leaving(r) == {m \in members : Key(m) \in req[r].rows}

(* The row is inserted or the whole request is rolled back.                *)
MayJoin(r) ==
    /\ req[r].org \in orgs
    /\ invites[req[r].inv].there
    /\ RowOf(req[r].user, req[r].org) = {}
    /\ \A o \in Left(r) : Childless(o, Leaving(r))

(* _rehome_solo_products_to_mine for the rows that were read; the others   *)
(* go with the company (ON DELETE CASCADE).                                *)
Rehomed(r) ==
    [p \in Products |-> IF p \in req[r].moves THEN req[r].org
                        ELSE IF products[p] \in Left(r) THEN Nobody ELSE products[p]]

AcceptCommits(r) ==
    /\ Is(r, "accept")
    /\ IF MayJoin(r)
       THEN /\ orgs' = orgs \ Left(r)
            /\ members' = (members \ Leaving(r)) \cup
                    {NewRow(req[r].user, req[r].org, req[r].role)}
            /\ invites' = [invites EXCEPT ![req[r].inv].accepted = TRUE]
            /\ products' = Rehomed(r)
            /\ End(r)
            /\ UNCHANGED <<users, super, instance, seeded, profile>>
       ELSE Refused(r)

----------------------------------------------------------------------------
(* Members: leave, remove, change of role.                                 *)

(* The owner may neither leave nor be removed nor change.                  *)
RemovableWhenSelf(by, m) == by = m.user \/ (m.role # "owner" /\ Edits(by, m.org))
Removable(by, m) == m.role # "owner" /\ (by = m.user \/ Edits(by, m.org))

RemoveReads(r, by, m) ==
    /\ Removable(by, m)
    /\ Begin(r, [kind |-> "remove", rows |-> {Key(m)}])
    /\ UNCHANGED <<people, members, invites, assets>>

RemoveCommits(r) ==
    /\ Is(r, "remove")
    /\ members' = {m \in members : Key(m) \notin req[r].rows}
    /\ End(r)
    /\ UNCHANGED <<people, invites, assets>>

RoleReads(r, by, m, role) ==
    /\ m.role # "owner" /\ Edits(by, m.org) /\ m.role # role
    /\ Begin(r, [kind |-> "role", rows |-> {Key(m)}, role |-> role])
    /\ UNCHANGED <<people, members, invites, assets>>

RoleCommits(r) ==
    /\ Is(r, "role")
    /\ members' = {IF Key(m) \in req[r].rows THEN [m EXCEPT !.role = req[r].role] ELSE m :
                      m \in members}
    /\ End(r)
    /\ UNCHANGED <<people, invites, assets>>

----------------------------------------------------------------------------
(* Settings: update_company_profile merges into the profile it has read    *)
(* and writes all of it.  PATCH voice, POST exemplars; PATCH governance.   *)

ProfileReads(r, by, o, key) ==
    /\ o \in orgs /\ Edits(by, o) /\ MayEdit
    /\ Begin(r, [kind |-> "profile", org |-> o, key |-> key, seen |-> profile[o]])
    /\ UNCHANGED <<people, members, invites, assets>>

Merged(seen, key) == [seen EXCEPT ![key] = 1]

ProfileCommits(r) ==
    /\ Is(r, "profile")
    /\ IF req[r].org \in orgs
       THEN /\ profile' = [profile EXCEPT ![req[r].org] = Merged(req[r].seen, req[r].key)]
            /\ End(r)
            /\ UNCHANGED <<people, members, invites, products>>
       ELSE Refused(r)

----------------------------------------------------------------------------
(* The catalogue: a manual product, of the company or of the member.       *)

ProductReads(r, by, o, p) ==
    /\ o \in orgs /\ RowOf(by, o) # {}
    /\ products[p] = Nobody /\ MayEdit
    /\ Begin(r, [kind |-> "product", org |-> o, prod |-> p])
    /\ UNCHANGED <<people, members, invites, assets>>

ProductCommits(r) ==
    /\ Is(r, "product")
    /\ IF req[r].org \in orgs /\ products[req[r].prod] = Nobody
       THEN /\ products' = [products EXCEPT ![req[r].prod] = req[r].org]
            /\ End(r)
            /\ UNCHANGED <<people, members, invites, profile>>
       ELSE Refused(r)

----------------------------------------------------------------------------
OrganisationInit ==
    /\ users = {} /\ super = {} /\ orgs = {} /\ members = {}
    /\ instance \in Starts /\ seeded = (instance # "absent")
    /\ invites = [i \in Invites |-> NoInvite]
    /\ profile = [o \in Companies |-> [key \in Settings |-> 0]]
    /\ products = [p \in Products |-> Nobody]
    /\ req = [r \in Reqs |-> NoRequest]

Reads(r) ==
    \/ \E u \in Users : SetupLooks(r, u) \/ RegisterReads(r, u)
    \/ \E by, u \in Users, i \in Invites, role \in InviteRoles :
         InviteReads(r, by, u, i, role)
    \/ \E by \in Users, i \in Invites : RevokeReads(r, by, i)
    \/ \E i \in Invites : AcceptReads(r, i)
    \/ \E by \in Users, m \in members : RemoveReads(r, by, m)
    \/ \E by \in Users, m \in members, role \in {"admin", "member"} : RoleReads(r, by, m, role)
    \/ \E by \in Users, o \in Companies, key \in Settings : ProfileReads(r, by, o, key)
    \/ \E by \in Users, o \in Companies, p \in Products : ProductReads(r, by, o, p)

Writes(r) ==
    \/ SetupUpserts(r) \/ SetupConflicts(r) \/ SetupCommits(r) \/ RegisterCommits(r)
    \/ InviteCommits(r) \/ RevokeCommits(r) \/ AcceptCommits(r) \/ RemoveCommits(r)
    \/ RoleCommits(r) \/ ProfileCommits(r) \/ ProductCommits(r)

OrganisationNext == (\E r \in Reqs : Reads(r) \/ Writes(r)) \/ \E i \in Invites : Expires(i)

OrganisationSpec == OrganisationInit /\ [][OrganisationNext]_organisationVars

----------------------------------------------------------------------------
OrganisationTypeOK ==
    /\ users \subseteq Users /\ super \subseteq users /\ orgs \subseteq Companies
    /\ instance \in {"absent", "open", "sealed", "cloud"} /\ seeded \in BOOLEAN
    /\ members \subseteq Member
    /\ invites \in [Invites -> Invite]
    /\ profile \in [Companies -> Profile]
    /\ products \in [Products -> Companies \cup {Nobody}]

(* ADR 0010: exactly one owner per company, through removals, departures,  *)
(* changes of role and accepted invites in any order.                      *)
OneOwner ==
    \A o \in orgs : Cardinality({m \in Of(o) : m.role = "owner"}) = 1

(* ADR 0026: however many claims race for the row that the boot has seeded, *)
(* the deployment is sealed by exactly one of them, and only its account   *)
(* is SUPERADMIN.                                                          *)
SetupOnce == seeded => Cardinality(super) = (IF instance = "sealed" THEN 1 ELSE 0)

(* ADR 0013: the company that an accepted invite deletes had one member,   *)
(* and that member belongs to another company in the same commit, whoever  *)
(* has joined since the accept counted them.                               *)
TeamSurvives ==
    [][\A o \in orgs \ orgs' : \E u \in Users :
          /\ Of(o) \subseteq RowOf(u, o)
          /\ \E m \in members' : m.user = u /\ m.org \in orgs']_organisationVars

(* ADR 0010, section 4: a user belongs to at most one company.  Two        *)
(* invites accepted at once leave a user in two.                           *)
OneOrg == \A u \in users : Cardinality(Rows(u)) <= 1

(* setup.py: a missing row is claimed by insert.  Whoever finds none, and   *)
(* then the row that another claim has just committed, updates it.         *)
ClaimedByInsert == Cardinality(super) <= 1

(* update_company_profile preserves unrelated keys.  A voice edit read     *)
(* before a governance edit writes the old policy back.                    *)
SettingsStand == [][\A o \in Companies : \A key \in Settings :
                                   profile'[o][key] >= profile[o][key]]_organisationVars

(* ADR 0015: every catalogue row of a replaced company moves with its      *)
(* owner.  One added after the accept has read them is deleted.            *)
ProductsKept ==
    [][\A p \in Products : products[p] # Nobody => products'[p] # Nobody]_organisationVars

(* ADR 0010: re-invite after expiry.  The unique index still counts the    *)
(* expired row as pending.                                                 *)
ReinvitedAfterExpiry ==
    [][\A r \in Reqs :
          (/\ Is(r, "invite") /\ req'[r] = NoRequest
           /\ req[r].org \in orgs /\ ~invites[req[r].inv].there /\ invites' = invites)
          => \E i \in Invites : /\ Acceptable(i) /\ invites[i].org = req[r].org
                               /\ invites[i].to = req[r].user]_organisationVars

(* ADR 0013: whoever the handler lets pass as a sole owner can move.  An   *)
(* invite their company ever sent makes the delete fail.                   *)
SoloMayMove ==
    \A u \in users : Solo(u) => \A m \in Rows(u) : Childless(m.org, Rows(u))

============================================================================
