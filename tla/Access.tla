------------------------------ MODULE Access ------------------------------
(***************************************************************************)
(* Who may do what (apps/server/src/auth.rs, the setup and key handlers of *)
(* apps/server/src/project_setup.rs, the upload tokens of                  *)
(* apps/server/src/symbol_upload.rs): sign-in by email and GitHub,         *)
(* sessions, the memberships of one organization, invitations, and the     *)
(* ingest keys and upload tokens of its project.                           *)
(*                                                                         *)
(* Every request authorizes its caller first and writes later; only the    *)
(* membership handlers read the caller's role again, under the             *)
(* organization's advisory lock.  accept_invitation does not take that     *)
(* lock.  A statement evaluates its conditions on a snapshot and a unique  *)
(* index when it inserts: the two are steps of their own.                  *)
(*                                                                         *)
(* A user is an email address: users.email is unique, and sign-in takes an *)
(* advisory lock on the address.  The audit log is left out.               *)
(***************************************************************************)
EXTENDS Naturals, FiniteSets

CONSTANTS
    Users,             \* email addresses
    Subjects,          \* GitHub accounts
    Logins,            \* auth_login_attempts
    Sessions,          \* auth_sessions
    Invitations,       \* organization_invitations
    IngestKeys,        \* project_ingest_keys
    UploadTokens,      \* artifact_upload_tokens
    Handlers,          \* requests served at the same time
    MaxEmailAttempts,  \* MAX_EMAIL_ATTEMPTS
    Budgets,           \* bounds: how many requests of which kind are made
    None

Roles == {"owner", "admin", "developer", "viewer"}
MemberRequests == {"invite", "revoke_invitation", "update_member", "remove_member"}
KeyRequests == {"create_key", "revoke_key"}
TokenRequests == {"create_token", "revoke_token"}
Operations == MemberRequests \cup KeyRequests \cup TokenRequests

ASSUME AccessAssumption ==
    /\ MaxEmailAttempts \in Nat \ {0}
    /\ Budgets \subseteq [operations : SUBSET Operations, roles : SUBSET Roles,
                          requests : Nat, logins : SUBSET Logins]
    /\ None \notin Users \cup Handlers
    /\ IngestKeys \cap UploadTokens = {}

VARIABLES
    bootstrap,   \* the user of the bootstrap secret, or None before setup
    account,     \* users with a row in users
    identity,    \* [Subjects -> Users \cup {None}]: user_identities of GitHub
    role,        \* [Users -> Roles \cup {"none"}]: organization_memberships
    login,       \* [Logins -> Login]
    session,     \* [Sessions -> Session]
    invitation,  \* [Invitations -> Invitation]
    credential,  \* [IngestKeys \cup UploadTokens -> {"absent", "live", "revoked"}]
    call,        \* [Handlers -> Call]
    lock,        \* the handler that holds the organization's advisory lock
    budget       \* requests that may still come

members == <<role, lock>>
signin == <<account, identity, session, login>>
vars == <<bootstrap, signin, members, invitation, credential, call, budget>>

Login == [state : {"absent", "open", "consumed", "deleted"}, kind : {"email", "github"},
          user : Users \cup {None}, sending : BOOLEAN, old : BOOLEAN, used : Nat]
Session == [state : {"absent", "live", "revoked", "expired"}, user : Users \cup {None}]
Invitation == [user : Users \cup {None}, role : Roles, accepted : BOOLEAN,
               revoked : BOOLEAN, old : BOOLEAN]
Call == [op : Operations \cup {"none", "login"},
         pc : {"idle", "authorized", "insert", "deliver", "write", "session"},
         caller : Users \cup {None}, user : Users \cup {None}, role : Roles,
         item : Invitations \cup IngestKeys \cup UploadTokens \cup Logins \cup {None}]

Idle == [op |-> "none", pc |-> "idle", caller |-> None, user |-> None, role |-> "viewer",
         item |-> None]

Init ==
    /\ bootstrap = None
    /\ account = {}
    /\ identity = [g \in Subjects |-> None]
    /\ role = [u \in Users |-> "none"]
    /\ login = [l \in Logins |-> [state |-> "absent", kind |-> "email", user |-> None,
                                  sending |-> FALSE, old |-> FALSE, used |-> 0]]
    /\ session = [s \in Sessions |-> [state |-> "absent", user |-> None]]
    /\ invitation = [i \in Invitations |-> [user |-> None, role |-> "viewer", accepted |-> FALSE,
                                            revoked |-> FALSE, old |-> FALSE]]
    /\ credential = [c \in IngestKeys \cup UploadTokens |-> "absent"]
    /\ call = [h \in Handlers |-> Idle]
    /\ lock = None
    /\ budget \in Budgets

Answer(h) == call' = [call EXCEPT ![h] = Idle]

(* One transaction; the unique bootstrap_subject lets it succeed once. *)
Bootstrap(u) ==
    /\ bootstrap = None
    /\ u \notin account
    /\ bootstrap' = u
    /\ account' = account \cup {u}
    /\ role' = [role EXCEPT ![u] = "owner"]
    /\ \E k \in IngestKeys : credential' = [credential EXCEPT ![k] = "live"]
    /\ UNCHANGED <<identity, session, login, lock, invitation, call, budget>>

-----------------------------------------------------------------------------
(* Sign-in.                                                                 *)

Pruned == [l \in Logins |->
             IF login[l].state \in {"open", "consumed"} /\ login[l].old
             THEN [login[l] EXCEPT !.state = "deleted"] ELSE login[l]]

Recent(u) ==
    {l \in Logins : /\ login[l].state \in {"open", "consumed"} /\ ~login[l].old
                    /\ login[l].kind = "email" /\ login[l].user = u}

StartEmail(l, u) ==
    /\ l \in budget.logins
    /\ login[l].state = "absent"
    /\ Cardinality(Recent(u)) < MaxEmailAttempts
    /\ login' = [Pruned EXCEPT ![l] = [@ EXCEPT !.state = "open", !.user = u, !.sending = TRUE]]
    /\ UNCHANGED <<bootstrap, account, identity, session, members, invitation, credential, call, budget>>

(* The attempt of a mail that could not be sent is deleted. *)
Sent(l) ==
    /\ login[l].sending
    /\ \E delivered \in BOOLEAN :
          login' = [login EXCEPT ![l].sending = FALSE,
                                 ![l].state = IF delivered THEN @ ELSE "deleted"]
    /\ UNCHANGED <<bootstrap, account, identity, session, members, invitation, credential, call, budget>>

StartGithub(l) ==
    /\ l \in budget.logins
    /\ login[l].state = "absent"
    /\ login' = [Pruned EXCEPT ![l] = [@ EXCEPT !.state = "open", !.kind = "github"]]
    /\ UNCHANGED <<bootstrap, account, identity, session, members, invitation, credential, call, budget>>

Age(l) ==
    /\ login[l].state \in {"open", "consumed"}
    /\ ~login[l].old
    /\ login' = [login EXCEPT ![l].old = TRUE]
    /\ UNCHANGED <<bootstrap, account, identity, session, members, invitation, credential, call, budget>>

ConsumableIfFresh(l) == login[l].state \in {"open", "consumed"} /\ ~login[l].old

Consumable(l) == login[l].state = "open" /\ ~login[l].old

(* verify_email and complete_github begin with consume_login. *)
Consume(h, l) ==
    /\ call[h].pc = "idle"
    /\ Consumable(l)
    /\ login' = [login EXCEPT ![l].state = "consumed"]
    /\ call' = [call EXCEPT ![h] = [Idle EXCEPT !.op = "login", !.pc = "session", !.item = l,
                                                !.user = login[l].user]]
    /\ UNCHANGED <<bootstrap, account, identity, session, members, invitation, credential, budget>>

(* insert_identity_session: the user of the identity, or of the address. *)
SignedIn(u) ==
    \E s \in Sessions :
        /\ session[s].state = "absent"
        /\ session' = [session EXCEPT ![s] = [state |-> "live", user |-> u]]

VerifyEmail(h) ==
    /\ call[h].pc = "session"
    /\ login[call[h].item].kind = "email"
    /\ SignedIn(call[h].user)
    /\ account' = account \cup {call[h].user}
    /\ login' = [login EXCEPT ![call[h].item].used = @ + 1]
    /\ Answer(h)
    /\ UNCHANGED <<bootstrap, identity, members, invitation, credential, budget>>

(* GitHub names the account g and its verified address u.  A user has one   *)
(* GitHub identity.                                                         *)
CompleteGithub(h) ==
    /\ call[h].pc = "session"
    /\ login[call[h].item].kind = "github"
    /\ \E g \in Subjects, u \in Users :
          /\ identity[g] = None => \A other \in Subjects : identity[other] # u
          /\ identity' = [identity EXCEPT ![g] = IF @ = None THEN u ELSE @]
          /\ account' = account \cup {identity'[g]}
          /\ SignedIn(identity'[g])
    /\ login' = [login EXCEPT ![call[h].item].used = @ + 1]
    /\ Answer(h)
    /\ UNCHANGED <<bootstrap, members, invitation, credential, budget>>

RevokeSession(u, s) ==
    /\ session[s] = [state |-> "live", user |-> u]
    /\ budget.logins # {}
    /\ \E state \in {"revoked", "expired"} : session' = [session EXCEPT ![s].state = state]
    /\ UNCHANGED <<bootstrap, account, identity, login, members, invitation, credential, call, budget>>

-----------------------------------------------------------------------------
(* Requests to the control API.                                             *)

Allows(r, op) ==
    IF op \in Operations THEN r \in {"owner", "admin"} ELSE r # "none"

Authenticated(u) ==
    u = bootstrap \/ \E s \in Sessions : session[s] = [state |-> "live", user |-> u]

(* An admin neither grants nor touches the two upper roles. *)
Above(actor, r) == actor = "admin" /\ r \in {"owner", "admin"}

Items(op) ==
    CASE op = "revoke_invitation" -> {i \in Invitations : invitation[i].user # None}
      [] op = "create_key" -> {k \in IngestKeys : credential[k] = "absent"}
      [] op = "create_token" -> {t \in UploadTokens : credential[t] = "absent"}
      [] op = "revoke_key" -> {k \in IngestKeys : credential[k] # "absent"}
      [] op = "revoke_token" -> {t \in UploadTokens : credential[t] # "absent"}
      [] OTHER -> {None}

(* authorize_organization, authorize_project *)
Request(h, op, c, u, r) ==
    /\ budget.requests > 0
    /\ op \in budget.operations
    /\ call[h].pc = "idle"
    /\ Authenticated(c)
    /\ Allows(role[c], op)
    /\ op = "invite" => ~Above(role[c], r)
    /\ \E item \in Items(op) :
          call' = [call EXCEPT ![h] = [op |-> op, pc |-> "authorized", caller |-> c,
                                       user |-> u, role |-> r, item |-> item]]
    /\ budget' = [budget EXCEPT !.requests = @ - 1]
    /\ UNCHANGED <<bootstrap, signin, members, invitation, credential>>

(* WHERE NOT EXISTS (membership), on the statement's snapshot. *)
InviteRead(h) ==
    /\ call[h].op = "invite" /\ call[h].pc = "authorized"
    /\ IF role[call[h].user] = "none"
       THEN call' = [call EXCEPT ![h].pc = "insert"]
       ELSE Answer(h)
    /\ UNCHANGED <<bootstrap, signin, members, invitation, credential, budget>>

Pending(i) == invitation[i].user # None /\ ~invitation[i].accepted /\ ~invitation[i].revoked

(* The partial unique index on pending invitations, expired ones included. *)
InviteInsert(h) ==
    /\ call[h].op = "invite" /\ call[h].pc = "insert"
    /\ IF \E i \in Invitations : Pending(i) /\ invitation[i].user = call[h].user
       THEN Answer(h) /\ UNCHANGED invitation
       ELSE \E i \in Invitations :
               /\ invitation[i].user = None
               /\ invitation' = [invitation EXCEPT ![i].user = call[h].user,
                                                   ![i].role = call[h].role]
               /\ call' = [call EXCEPT ![h].pc = "deliver", ![h].item = i]
    /\ UNCHANGED <<bootstrap, signin, members, credential, budget>>

(* A mail that was not accepted revokes the invitation, whatever it became. *)
InviteDeliver(h) ==
    /\ call[h].op = "invite" /\ call[h].pc = "deliver"
    /\ \E delivered \in BOOLEAN :
          invitation' = [invitation EXCEPT ![call[h].item].revoked = @ \/ ~delivered]
    /\ Answer(h)
    /\ UNCHANGED <<bootstrap, signin, members, credential, budget>>

RevokeInvitation(h) ==
    /\ call[h].op = "revoke_invitation" /\ call[h].pc = "authorized"
    /\ invitation' = [invitation EXCEPT ![call[h].item].revoked = @ \/ Pending(call[h].item)]
    /\ Answer(h)
    /\ UNCHANGED <<bootstrap, signin, members, credential, budget>>

ExpireInvitation(i) ==
    /\ Pending(i)
    /\ ~invitation[i].old
    /\ invitation' = [invitation EXCEPT ![i].old = TRUE]
    /\ UNCHANGED <<bootstrap, signin, members, credential, call, budget>>

Valid(i) == Pending(i) /\ ~invitation[i].old

(* The holder of the mail accepts: one transaction, which locks the         *)
(* invitation, signs the user in and upserts the membership.                *)
AcceptInvitation(i) ==
    LET u == invitation[i].user
    IN  /\ Valid(i)
        /\ SignedIn(u)
        /\ account' = account \cup {u}
        /\ role' = [role EXCEPT ![u] = invitation[i].role]
        /\ invitation' = [invitation EXCEPT ![i].accepted = TRUE]
        /\ UNCHANGED <<bootstrap, identity, login, lock, credential, call, budget>>

OtherMember(u) == \E v \in Users \ {u} : role[v] # "none"

OtherOwner(u) == \E v \in Users \ {u} : role[v] = "owner"

CallerRole(h) == role[call[h].caller]

(* What the caller was authorized for is not checked again. *)
MayChangeOnce(h) ==
    /\ role[call[h].user] # "none"
    /\ role[call[h].user] = "owner" /\ (call[h].op = "remove_member" \/ call[h].role # "owner")
          => OtherOwner(call[h].user)

(* What update_member and remove_member check under the lock. *)
MayChange(h) ==
    LET u == call[h].user
        removes == call[h].op = "remove_member"
    IN  /\ Allows(CallerRole(h), call[h].op)
        /\ role[u] # "none"
        /\ ~Above(CallerRole(h), role[u])
        /\ removes \/ ~Above(CallerRole(h), call[h].role)
        /\ role[u] = "owner" /\ (removes \/ call[h].role # "owner") => OtherOwner(u)

MemberCheck(h) ==
    /\ call[h].op \in {"update_member", "remove_member"} /\ call[h].pc = "authorized"
    /\ lock = None
    /\ IF MayChange(h)
       THEN call' = [call EXCEPT ![h].pc = "write"] /\ lock' = h
       ELSE Answer(h) /\ UNCHANGED lock
    /\ UNCHANGED <<bootstrap, signin, role, invitation, credential, budget>>

MemberWrite(h) ==
    LET u == call[h].user
    IN  /\ call[h].op \in {"update_member", "remove_member"} /\ call[h].pc = "write"
        /\ role' = [role EXCEPT ![u] = CASE @ = "none" -> "none"
                                         [] call[h].op = "remove_member" -> "none"
                                         [] OTHER -> call[h].role]
        /\ lock' = None
        /\ Answer(h)
        /\ UNCHANGED <<bootstrap, signin, invitation, credential, budget>>

(* rotate_ingest_key reads the membership again, then inserts;              *)
(* create_upload_token inserts.                                             *)
CreateRead(h) ==
    /\ call[h].op = "create_key" /\ call[h].pc = "authorized"
    /\ IF CallerRole(h) = "none" THEN Answer(h) ELSE call' = [call EXCEPT ![h].pc = "insert"]
    /\ UNCHANGED <<bootstrap, signin, members, invitation, credential, budget>>

CreateCredential(h) ==
    /\ \/ call[h].op = "create_key" /\ call[h].pc = "insert"
       \/ call[h].op = "create_token" /\ call[h].pc = "authorized"
    /\ credential[call[h].item] = "absent"
    /\ credential' = [credential EXCEPT ![call[h].item] = "live"]
    /\ Answer(h)
    /\ UNCHANGED <<bootstrap, signin, members, invitation, budget>>

(* The statement on ingest keys (also the one that sets a key's policy)     *)
(* joins the caller's membership; the one on upload tokens does not.        *)
RevokeCredential(h) ==
    /\ call[h].op \in {"revoke_key", "revoke_token"} /\ call[h].pc = "authorized"
    /\ credential' = IF call[h].op = "revoke_key" /\ CallerRole(h) = "none" THEN credential
                     ELSE [credential EXCEPT ![call[h].item] = "revoked"]
    /\ Answer(h)
    /\ UNCHANGED <<bootstrap, signin, members, invitation, budget>>

(* The client goes away, a statement fails or the process stops: what was   *)
(* committed stays and the advisory lock is released.                       *)
Drop(h) ==
    /\ call[h].pc # "idle"
    /\ lock' = IF lock = h THEN None ELSE lock
    /\ Answer(h)
    /\ UNCHANGED <<bootstrap, signin, role, invitation, credential, budget>>

-----------------------------------------------------------------------------

SignInStep ==
    \/ \E l \in Logins : \/ \E u \in Users : StartEmail(l, u)
                         \/ StartGithub(l)
                         \/ Sent(l)
                         \/ Age(l)
    \/ \E u \in Users, s \in Sessions : RevokeSession(u, s)
    \/ \E i \in Invitations : ExpireInvitation(i) \/ AcceptInvitation(i)

HandlerStep(h) ==
    \/ \E l \in Logins : Consume(h, l)
    \/ VerifyEmail(h)
    \/ CompleteGithub(h)
    \/ \E op \in Operations, c, u \in Users, r \in budget.roles : Request(h, op, c, u, r)
    \/ InviteRead(h)
    \/ InviteInsert(h)
    \/ InviteDeliver(h)
    \/ RevokeInvitation(h)
    \/ MemberCheck(h)
    \/ MemberWrite(h)
    \/ CreateRead(h)
    \/ CreateCredential(h)
    \/ RevokeCredential(h)
    \/ Drop(h)

Next ==
    \/ \E u \in Users : Bootstrap(u)
    \/ SignInStep
    \/ \E h \in Handlers : HandlerStep(h)

Spec == Init /\ [][Next]_vars

-----------------------------------------------------------------------------
(* Properties.                                                              *)

(* Every variable has its type. *)
TypeOK ==
    /\ bootstrap \in Users \cup {None}
    /\ account \subseteq Users
    /\ identity \in [Subjects -> Users \cup {None}]
    /\ role \in [Users -> Roles \cup {"none"}]
    /\ login \in [Logins -> Login]
    /\ session \in [Sessions -> Session]
    /\ invitation \in [Invitations -> Invitation]
    /\ credential \in [IngestKeys \cup UploadTokens -> {"absent", "live", "revoked"}]
    /\ call \in [Handlers -> Call]
    /\ lock \in Handlers \cup {None}
    /\ budget \in [operations : SUBSET Operations, roles : SUBSET Roles,
                   requests : Nat, logins : SUBSET Logins]

(* A sign-in token opens one session, however many requests carry it at     *)
(* once, and no address has more than MAX_EMAIL_ATTEMPTS live tokens        *)
(* (consume_login, start_email).                                            *)
TokenSpentOnce ==
    /\ \A l \in Logins : login[l].used <= 1
    /\ \A u \in Users : Cardinality(Recent(u)) <= MaxEmailAttempts

(* An invitation accepted by somebody who was a member already. *)
Overwrote(i) ==
    /\ invitation[i].accepted
    /\ \/ invitation[i].user = bootstrap
       \/ \E j \in Invitations \ {i} :
             invitation[j].accepted /\ invitation[j].user = invitation[i].user

(* Nobody acts on a membership or an ingest key after losing the right to:  *)
(* at the moment a role is changed or removed, or a key revoked, some       *)
(* request's caller has it, and an admin reaches neither owners nor admins  *)
(* (member_role under lock_organization, the joins of postgres_revoke_key). *)
(* The exception is a caller or a member whose role an invitation wrote     *)
(* over: accept_invitation takes no lock.                                   *)
ChangesAuthorized ==
    [][/\ \A u \in Users :
            role'[u] # role[u] =>
                \/ bootstrap' # bootstrap
                \/ invitation' # invitation
                \/ \E h \in Handlers :
                      /\ call[h].pc = "write" /\ call[h].user = u
                      /\ \/ /\ Allows(role[call[h].caller], call[h].op)
                            /\ ~Above(role[call[h].caller], role[u])
                            /\ ~Above(role[call[h].caller], role'[u])
                         \/ \E i \in Invitations : /\ Overwrote(i)
                                                   /\ invitation[i].user \in {call[h].caller, u}
       /\ \A k \in IngestKeys :
            credential[k] = "live" /\ credential'[k] = "revoked" =>
                \E h \in Handlers : call[h].item = k /\ role[call[h].caller] # "none"]_vars

(* Owners who remove or demote each other at the same time never leave the  *)
(* organization without one (require_another_owner).  The one way to lose   *)
(* the last owner is an invitation made for somebody who was a member by    *)
(* the time it was stored: accepting it writes its role over theirs.        *)
LastOwnerKept ==
    bootstrap # None => \/ \E u \in Users : role[u] = "owner"
                        \/ \E i \in Invitations : Overwrote(i) /\ invitation[i].role # "owner"
=============================================================================
