--------------------------- MODULE AccessProofs ---------------------------
(* Proofs about Access: a sign-in token is spent once, a membership is      *)
(* changed only by somebody who may, and the organization keeps an owner,   *)
(* for any number of users, requests and invitations.                       *)
EXTENDS Access, FiniteSetTheorems, TLAPS

(* What a request in flight carries, and that the one about to write holds  *)
(* the organization's lock.                                                 *)
Carries(c) ==
    /\ c.op \in Operations => c.caller \in Users /\ c.user \in Users
    /\ c.op = "revoke_invitation" => c.item \in Invitations
    /\ c.op \in KeyRequests => c.item \in IngestKeys
    /\ c.op \in TokenRequests => c.item \in UploadTokens
    /\ c.pc = "deliver" => c.item \in Invitations
    /\ c.pc = "session" => c.op = "login"
    /\ c.pc = "write" => c.op \in {"update_member", "remove_member"}

CallsHold == \A h \in Handlers : Carries(call[h]) /\ (call[h].pc = "write" => lock = h)

(* A token is spent by the one request that consumed it. *)
Unspoilt(l) ==
    /\ login[l].used <= 1
    /\ login[l].state \in {"absent", "open"} => login[l].used = 0
    /\ login[l].state # "absent" /\ login[l].kind = "email" => login[l].user \in Users

LoginsHold ==
    /\ \A l \in Logins : Unspoilt(l)
    /\ \A h \in Handlers :
        call[h].pc = "session" =>
            /\ call[h].item \in Logins
            /\ login[call[h].item].state \in {"consumed", "deleted"}
            /\ login[call[h].item].used = 0
            /\ call[h].user = login[call[h].item].user
    /\ \A g, h \in Handlers :
        call[g].pc = "session" /\ call[h].pc = "session" /\ call[g].item = call[h].item => g = h

(* The live tokens of an address are finitely many, and no more than        *)
(* MAX_EMAIL_ATTEMPTS.                                                      *)
AttemptsHold ==
    \A u \in Users : IsFiniteSet(Recent(u)) /\ Cardinality(Recent(u)) <= MaxEmailAttempts

(* Nobody is a member, invited or served before the setup, and a member is  *)
(* the user of the setup or has accepted an invitation.                     *)
MembersHold ==
    /\ bootstrap = None => /\ \A u \in Users : role[u] = "none"
                           /\ \A h \in Handlers : call[h].op \notin Operations
                           /\ \A i \in Invitations : invitation[i].user = None
    /\ \A i \in Invitations : invitation[i].accepted => invitation[i].user # None
    /\ \A u \in Users : role[u] # "none" =>
          u = bootstrap \/ \E i \in Invitations : invitation[i].accepted /\ invitation[i].user = u

OwnerOverwritten == \E i \in Invitations : Overwrote(i) /\ invitation[i].role # "owner"

(* What was checked under the lock still holds when the request writes, but *)
(* for an invitation accepted in between.                                   *)
MayWrite(h) ==
    /\ Allows(CallerRole(h), call[h].op)
    /\ role[call[h].user] # "none"
    /\ ~Above(CallerRole(h), role[call[h].user])
    /\ call[h].op = "remove_member" \/ ~Above(CallerRole(h), call[h].role)

TouchedByInvitation(h) ==
    \E i \in Invitations : Overwrote(i) /\ invitation[i].user \in {call[h].caller, call[h].user}

TakesOwner(h) == call[h].op = "remove_member" \/ call[h].role # "owner"

WritersHold ==
    \A h \in Handlers : call[h].pc = "write" =>
        /\ MayWrite(h) \/ TouchedByInvitation(h)
        /\ TakesOwner(h) => OtherOwner(call[h].user) \/ OwnerOverwritten

IInv == TypeOK /\ CallsHold /\ LoginsHold /\ AttemptsHold /\ MembersHold /\ WritersHold
            /\ LastOwnerKept

-----------------------------------------------------------------------------
(* Types.                                                                   *)

LEMMA InitIInv == Init => IInv
<1> SUFFICES ASSUME Init PROVE IInv
    OBVIOUS
<1> USE AccessAssumption DEF Init
<1>1. TypeOK
    BY DEF TypeOK, Login, Session, Invitation, Call, Idle, Roles
<1>2. CallsHold /\ LoginsHold
    BY DEF CallsHold, Carries, LoginsHold, Unspoilt, Idle, Operations, MemberRequests, KeyRequests, TokenRequests
<1>3. AttemptsHold
  <2>1. \A u \in Users : Recent(u) = {}
      BY DEF Recent
  <2>2. IsFiniteSet({}) /\ Cardinality({}) <= MaxEmailAttempts
      BY FS_EmptySet
  <2> QED BY <2>1, <2>2 DEF AttemptsHold
<1>4. MembersHold /\ LastOwnerKept
    BY DEF MembersHold, LastOwnerKept, Idle, Operations, MemberRequests, KeyRequests,
           TokenRequests
<1>5. WritersHold
    BY DEF WritersHold, Idle
<1> QED BY <1>1, <1>2, <1>3, <1>4, <1>5 DEF IInv

LEMMA IdleType == Idle \in Call
    BY DEF Idle, Call, Roles

LEMMA PrunedType ==
    ASSUME TypeOK
    PROVE  Pruned \in [Logins -> Login]
    BY DEF TypeOK, Pruned, Login

LEMMA SignedInType ==
    ASSUME TypeOK, NEW u \in Users, SignedIn(u)
    PROVE  session' \in [Sessions -> Session]
    BY DEF TypeOK, SignedIn, Session

LEMMA BootstrapType ==
    ASSUME TypeOK, NEW u \in Users, Bootstrap(u)
    PROVE  TypeOK'
    BY DEF TypeOK, Bootstrap, Roles

LEMMA SignInType ==
    ASSUME TypeOK, SignInStep
    PROVE  TypeOK'
<1>1. CASE \E l \in Logins, u \in Users : StartEmail(l, u)
  <2>1. login' \in [Logins -> Login]
      BY <1>1, PrunedType DEF StartEmail, Login
  <2> QED BY <1>1, <2>1 DEF TypeOK, StartEmail, members
<1>2. CASE \E l \in Logins : StartGithub(l)
  <2>1. login' \in [Logins -> Login]
      BY <1>2, PrunedType DEF StartGithub, Login
  <2> QED BY <1>2, <2>1 DEF TypeOK, StartGithub, members
<1>3. CASE \E l \in Logins : Sent(l) \/ Age(l)
  <2>1. PICK l \in Logins : Sent(l) \/ Age(l)
      BY <1>3
  <2>2. login[l] \in Login
      BY DEF TypeOK
  <2>3. PICK new \in Login : login' = [login EXCEPT ![l] = new]
    <3>1. CASE Age(l)
        BY <2>2, <3>1 DEF Age, Login
    <3>2. CASE Sent(l)
        BY <2>2, <3>2 DEF Sent, Login
    <3> QED BY <2>1, <3>1, <3>2
  <2> QED BY <2>1, <2>3 DEF TypeOK, Sent, Age, members
<1>4. CASE \E u \in Users, s \in Sessions : RevokeSession(u, s)
    BY <1>4 DEF TypeOK, RevokeSession, Session, members
<1>5. CASE \E i \in Invitations : ExpireInvitation(i)
  <2>1. PICK i \in Invitations : ExpireInvitation(i)
      BY <1>5
  <2>2. invitation[i] \in Invitation
      BY DEF TypeOK
  <2>3. invitation' \in [Invitations -> Invitation]
      BY <2>1, <2>2 DEF TypeOK, ExpireInvitation, Invitation
  <2> QED BY <2>1, <2>3 DEF TypeOK, ExpireInvitation, members, signin
<1>6. CASE \E i \in Invitations : AcceptInvitation(i)
  <2>1. PICK i \in Invitations : AcceptInvitation(i)
      BY <1>6
  <2>2. invitation[i] \in Invitation
      BY DEF TypeOK
  <2>3. invitation[i].user \in Users /\ invitation[i].role \in Roles
      BY <2>1, <2>2 DEF AcceptInvitation, Valid, Pending, Invitation
  <2>4. session' \in [Sessions -> Session]
      BY <2>1, <2>3, SignedInType DEF AcceptInvitation
  <2>5. invitation' \in [Invitations -> Invitation]
      BY <2>1 DEF TypeOK, AcceptInvitation, Invitation
  <2> QED BY <2>1, <2>3, <2>4, <2>5 DEF TypeOK, AcceptInvitation
<1> QED BY <1>1, <1>2, <1>3, <1>4, <1>5, <1>6 DEF SignInStep

LEMMA HandlerType ==
    ASSUME TypeOK, CallsHold, LoginsHold, NEW h \in Handlers, HandlerStep(h)
    PROVE  TypeOK'
<1> USE IdleType
<1>1. CASE \E l \in Logins : Consume(h, l)
  <2>1. PICK l \in Logins : Consume(h, l)
      BY <1>1
  <2>2. login' \in [Logins -> Login]
    <3>1. login[l] \in Login
        BY DEF TypeOK
    <3> QED BY <2>1, <3>1 DEF TypeOK, Consume, Login
  <2>3. login[l].user \in Users \cup {None}
      BY DEF TypeOK, Login
  <2>4. call' \in [Handlers -> Call]
      BY <2>1, <2>3 DEF TypeOK, Consume, Call, Idle, Roles
  <2> QED BY <2>1, <2>2, <2>4 DEF TypeOK, Consume, members
<1>2. CASE VerifyEmail(h)
  <2>1. call[h].user \in Users
      BY <1>2 DEF VerifyEmail, LoginsHold, Unspoilt
  <2>2. session' \in [Sessions -> Session]
      BY <1>2, <2>1, SignedInType DEF VerifyEmail
  <2>3. login' \in [Logins -> Login]
    <3>1. call[h].item \in Logins /\ login[call[h].item] \in Login
        BY <1>2 DEF TypeOK, VerifyEmail, LoginsHold
    <3> QED BY <1>2, <3>1 DEF TypeOK, VerifyEmail, Login
  <2> QED BY <1>2, <2>1, <2>2, <2>3 DEF TypeOK, VerifyEmail, Answer, members
<1>3. CASE CompleteGithub(h)
  <2>1. PICK g \in Subjects, u \in Users :
           /\ identity' = [identity EXCEPT ![g] = IF @ = None THEN u ELSE @]
           /\ account' = account \cup {identity'[g]}
           /\ SignedIn(identity'[g])
      BY <1>3 DEF CompleteGithub
  <2>2. identity' \in [Subjects -> Users \cup {None}] /\ identity'[g] \in Users
      BY <2>1 DEF TypeOK
  <2>3. session' \in [Sessions -> Session]
      BY <2>1, <2>2, SignedInType
  <2>4. login' \in [Logins -> Login]
      BY <1>3 DEF TypeOK, CompleteGithub, Login, LoginsHold
  <2> QED BY <1>3, <2>1, <2>2, <2>3, <2>4 DEF TypeOK, CompleteGithub, Answer, members
<1>4. CASE \E op \in Operations, c, u \in Users, r \in budget.roles : Request(h, op, c, u, r)
  <2>1. PICK op \in Operations, c \in Users, u \in Users, r \in budget.roles :
           Request(h, op, c, u, r)
      BY <1>4
  <2>2. PICK item \in Items(op) :
           call' = [call EXCEPT ![h] = [op |-> op, pc |-> "authorized", caller |-> c,
                                        user |-> u, role |-> r, item |-> item]]
      BY <2>1 DEF Request
  <2>3. item \in Invitations \cup IngestKeys \cup UploadTokens \cup {None}
      BY DEF Items
  <2>4. r \in Roles
      BY DEF TypeOK
  <2>5. call' \in [Handlers -> Call]
      BY <2>2, <2>3, <2>4 DEF TypeOK, Call
  <2>6. budget' \in [operations : SUBSET Operations, roles : SUBSET Roles,
                     requests : Nat, logins : SUBSET Logins]
      BY <2>1 DEF Request, TypeOK
  <2> QED BY <2>1, <2>5, <2>6 DEF Request, TypeOK, members, signin
<1>5. CASE InviteRead(h) \/ CreateRead(h)
    BY <1>5 DEF TypeOK, InviteRead, CreateRead, Answer, Call, members, signin
<1>6. CASE InviteInsert(h)
  <2>1. call[h].user \in Users /\ call[h].role \in Roles
      BY <1>6 DEF TypeOK, InviteInsert, CallsHold, Carries, Operations, MemberRequests, Call
  <2>2. CASE UNCHANGED invitation /\ Answer(h)
      BY <1>6, <2>2 DEF TypeOK, InviteInsert, Answer, members, signin
  <2>3. ASSUME NEW i \in Invitations,
               invitation' = [invitation EXCEPT ![i].user = call[h].user,
                                                ![i].role = call[h].role],
               call' = [call EXCEPT ![h].pc = "deliver", ![h].item = i]
        PROVE  TypeOK'
    <3>1. invitation[i] \in Invitation /\ call[h] \in Call
        BY DEF TypeOK
    <3>2. invitation' \in [Invitations -> Invitation]
        BY <2>1, <2>3, <3>1 DEF TypeOK, Invitation
    <3>3. call' \in [Handlers -> Call]
      <4>1. [call[h] EXCEPT !.pc = "deliver", !.item = i] \in Call
          BY <3>1 DEF Call
      <4>2. call' = [call EXCEPT ![h] = [call[h] EXCEPT !.pc = "deliver", !.item = i]]
          BY <2>3, <3>1 DEF TypeOK
      <4> QED BY <4>1, <4>2 DEF TypeOK
    <3> QED BY <1>6, <3>2, <3>3 DEF TypeOK, InviteInsert, members, signin
  <2> QED BY <1>6, <2>2, <2>3 DEF InviteInsert
<1>7. CASE InviteDeliver(h) \/ RevokeInvitation(h)
  <2>1. call[h].item \in Invitations
      BY <1>7 DEF InviteDeliver, RevokeInvitation, CallsHold, Carries
  <2>2. \A b \in BOOLEAN : (invitation[call[h].item].revoked \/ b) \in BOOLEAN
      OBVIOUS
  <2>3. Pending(call[h].item) \in BOOLEAN
      BY DEF Pending
  <2>4. PICK b \in BOOLEAN :
           invitation' = [invitation EXCEPT ![call[h].item].revoked = @ \/ b]
      BY <1>7, <2>3, Zenon DEF InviteDeliver, RevokeInvitation
  <2>5. invitation' \in [Invitations -> Invitation]
      BY <2>1, <2>2, <2>4 DEF TypeOK, Invitation
  <2> QED BY <1>7, <2>5 DEF TypeOK, InviteDeliver, RevokeInvitation, Answer, members, signin
<1>8. CASE MemberCheck(h)
    BY <1>8 DEF TypeOK, MemberCheck, Answer, Call, signin
<1>9. CASE MemberWrite(h)
  <2>1. call[h].role \in Roles
      BY DEF TypeOK, Call
  <2> QED BY <1>9, <2>1 DEF TypeOK, MemberWrite, Answer, signin
<1>10. CASE CreateCredential(h) \/ RevokeCredential(h)
    BY <1>10 DEF TypeOK, CreateCredential, RevokeCredential, Answer, members, signin
<1>11. CASE Drop(h)
    BY <1>11 DEF TypeOK, Drop, Answer, signin
<1> QED BY <1>1, <1>2, <1>3, <1>4, <1>5, <1>6, <1>7, <1>8, <1>9, <1>10, <1>11 DEF HandlerStep

-----------------------------------------------------------------------------
(* Requests and sign-in.                                                    *)

(* A step that changes one request keeps what the others carry. *)
LEMMA OneCall ==
    ASSUME TypeOK, CallsHold, NEW h \in Handlers, NEW new, call' = [call EXCEPT ![h] = new],
           Carries(new), new.pc = "write" => lock' = h,
           lock' = lock \/ lock \in {h, None}
    PROVE  CallsHold'
<1> SUFFICES ASSUME NEW g \in Handlers
             PROVE  Carries(call'[g]) /\ (call'[g].pc = "write" => lock' = g)
    BY DEF CallsHold, Carries
<1>1. CASE g = h
    BY <1>1 DEF TypeOK
<1>2. CASE g # h
    BY <1>2, AccessAssumption DEF TypeOK, CallsHold
<1> QED BY <1>1, <1>2

LEMMA IdleCarries == Carries(Idle) /\ Idle.pc = "idle" /\ Idle.op = "none"
    BY DEF Carries, Idle, Operations, MemberRequests, KeyRequests, TokenRequests

LEMMA HandlerCalls ==
    ASSUME TypeOK, CallsHold, NEW h \in Handlers, HandlerStep(h)
    PROVE  CallsHold'
<1> USE DEF Operations, MemberRequests, KeyRequests, TokenRequests
<1>0. Carries(call[h])
    BY DEF CallsHold
<1>1. CASE \E l \in Logins : Consume(h, l)
  <2>1. PICK l \in Logins : Consume(h, l)
      BY <1>1
  <2> DEFINE new == [Idle EXCEPT !.op = "login", !.pc = "session", !.item = l,
                                 !.user = login[l].user]
  <2>2. Carries(new) /\ new.pc # "write"
      BY DEF Carries, Idle
  <2>3. call' = [call EXCEPT ![h] = new] /\ lock' = lock
      BY <2>1 DEF Consume, members
  <2> QED BY <2>2, <2>3, OneCall
<1>2. CASE Answer(h) /\ (lock' = lock \/ lock \in {h, None})
    BY <1>2, IdleCarries, OneCall DEF Answer
<1>3. CASE \E op \in Operations, c, u \in Users, r \in budget.roles : Request(h, op, c, u, r)
  <2>1. PICK op \in Operations, c \in Users, u \in Users, r \in budget.roles :
           Request(h, op, c, u, r)
      BY <1>3
  <2>2. PICK item \in Items(op) :
           call' = [call EXCEPT ![h] = [op |-> op, pc |-> "authorized", caller |-> c,
                                        user |-> u, role |-> r, item |-> item]]
      BY <2>1 DEF Request
  <2>3. /\ op = "revoke_invitation" => item \in Invitations
        /\ op \in KeyRequests => item \in IngestKeys
        /\ op \in TokenRequests => item \in UploadTokens
      BY DEF Items
  <2>4. lock' = lock
      BY <2>1 DEF Request, members
  <2> QED BY <2>2, <2>3, <2>4, OneCall DEF Carries
<1>4. CASE /\ InviteRead(h) \/ CreateRead(h)
           /\ ~Answer(h)
  <2>1. call' = [call EXCEPT ![h] = [call[h] EXCEPT !.pc = "insert"]] /\ lock' = lock
      BY <1>4 DEF InviteRead, CreateRead, members
  <2>2. /\ Carries([call[h] EXCEPT !.pc = "insert"])
        /\ [call[h] EXCEPT !.pc = "insert"].pc # "write"
      BY <1>0 DEF Carries, TypeOK, Call
  <2> QED BY <2>1, <2>2, OneCall
<1>5. CASE InviteInsert(h) /\ ~Answer(h)
  <2>1. PICK i \in Invitations :
           /\ call' = [call EXCEPT ![h] = [call[h] EXCEPT !.pc = "deliver", !.item = i]]
           /\ lock' = lock
      BY <1>5 DEF InviteInsert, TypeOK, members
  <2> DEFINE new == [call[h] EXCEPT !.pc = "deliver", !.item = i]
  <2>2. call[h] \in Call /\ call[h].op = "invite"
      BY <1>5 DEF TypeOK, InviteInsert
  <2>3. Carries(new) /\ new.pc # "write"
      BY <1>0, <2>2 DEF Carries, Call
  <2> HIDE DEF new
  <2> QED BY <2>1, <2>3, OneCall DEF new
<1>6. CASE MemberCheck(h) /\ ~Answer(h)
  <2>1. call' = [call EXCEPT ![h] = [call[h] EXCEPT !.pc = "write"]] /\ lock' = h /\ lock = None
      BY <1>6 DEF MemberCheck
  <2>2. call[h] \in Call /\ call[h].op \in {"update_member", "remove_member"}
      BY <1>6 DEF TypeOK, MemberCheck
  <2>3. Carries([call[h] EXCEPT !.pc = "write"])
      BY <1>0, <2>2 DEF Carries, Call
  <2> QED BY <2>1, <2>3, OneCall
<1>7. CASE MemberWrite(h) \/ Drop(h)
    BY <1>2, <1>7 DEF MemberWrite, Drop, CallsHold
<1>8. CASE VerifyEmail(h) \/ CompleteGithub(h) \/ InviteDeliver(h) \/ RevokeInvitation(h)
              \/ CreateCredential(h) \/ RevokeCredential(h)
    BY <1>2, <1>8 DEF VerifyEmail, CompleteGithub, InviteDeliver, RevokeInvitation, CreateCredential,
                      RevokeCredential, members
<1>9. InviteRead(h) \/ CreateRead(h) \/ InviteInsert(h) => lock' = lock
    BY DEF InviteRead, CreateRead, InviteInsert, members
<1>10. MemberCheck(h) => lock = None
    BY DEF MemberCheck
<1> QED BY <1>1, <1>2, <1>3, <1>4, <1>5, <1>6, <1>7, <1>8, <1>9, <1>10 DEF HandlerStep

LEMMA NextCalls ==
    ASSUME TypeOK, CallsHold, Next
    PROVE  CallsHold'
<1>1. ASSUME UNCHANGED <<call, lock>> PROVE CallsHold'
    BY <1>1 DEF CallsHold
<1>2. CASE \E u \in Users : Bootstrap(u)
    BY <1>1, <1>2 DEF Bootstrap
<1>3. CASE SignInStep
    BY <1>1, <1>3 DEF SignInStep, StartEmail, StartGithub, Sent, Age, RevokeSession,
                      ExpireInvitation, AcceptInvitation, members
<1> QED BY <1>2, <1>3, HandlerCalls DEF Next

(* A token that is not spent by the step, and stays consumed once it is. *)
Kept(l) ==
    /\ login'[l].used = login[l].used
    /\ login'[l].state \in {"absent", "open"} => login[l].state \in {"absent", "open"}
    /\ login[l].state \in {"consumed", "deleted"} => /\ login'[l].user = login[l].user
                                                    /\ login'[l].kind = login[l].kind
    /\ login[l].state # "absent" => /\ login'[l].state # "absent"
                                    /\ login'[l].user = login[l].user
                                    /\ login'[l].kind = login[l].kind
    /\ login[l].state = "absent" /\ login'[l].state # "absent" /\ login'[l].kind = "email" =>
          login'[l].user \in Users

LEMMA KeptLogins ==
    ASSUME TypeOK, TypeOK', LoginsHold, \A l \in Logins : Kept(l), NEW h \in Handlers, NEW new,
           call' = [call EXCEPT ![h] = new], new.pc # "session" \/ new = call[h]
    PROVE  LoginsHold'
<1>1. ASSUME NEW l \in Logins PROVE Unspoilt(l)'
  <2>1. login[l] \in Login /\ login'[l] \in Login /\ Kept(l) /\ Unspoilt(l)
      BY DEF TypeOK, LoginsHold
  <2> QED BY <2>1 DEF Unspoilt, Kept, Login
<1>2. \A g \in Handlers : call'[g].pc = "session" => call'[g] = call[g]
    BY DEF TypeOK
<1>3. \A l \in Logins : login'[l] \in Login /\ login[l] \in Login
    BY DEF TypeOK
<1>4. ASSUME NEW g \in Handlers, call'[g].pc = "session"
      PROVE  /\ call'[g].item \in Logins
             /\ login'[call'[g].item].state \in {"consumed", "deleted"}
             /\ login'[call'[g].item].used = 0
             /\ call'[g].user = login'[call'[g].item].user
    BY <1>2, <1>3, <1>4 DEF LoginsHold, Kept, Login
<1> QED BY <1>1, <1>2, <1>4 DEF LoginsHold

LEMMA SignInLogins ==
    ASSUME TypeOK, TypeOK', LoginsHold, SignInStep
    PROVE  LoginsHold'
<1>0. ASSUME \A l \in Logins : Kept(l), UNCHANGED call PROVE LoginsHold'
  <2>1. CASE Handlers = {}
      BY <1>0, <2>1, \A l \in Logins : login[l] \in Login /\ login'[l] \in Login
         DEF LoginsHold, Unspoilt, Kept, Login, TypeOK
  <2>2. CASE Handlers # {}
    <3>1. PICK h \in Handlers : TRUE
        BY <2>2
    <3>2. call' = [call EXCEPT ![h] = call[h]]
        BY <1>0 DEF TypeOK
    <3> QED BY <1>0, <3>2, KeptLogins
  <2> QED BY <2>1, <2>2
<1>1. ASSUME NEW l \in Logins, NEW u \in Users, StartEmail(l, u), NEW k \in Logins
      PROVE  Kept(k)
  <2>1. login[k] \in Login /\ login[l] \in Login
      BY DEF TypeOK
  <2>2. CASE k = l
      BY <1>1, <2>1, <2>2 DEF StartEmail, Pruned, Kept, Login
  <2>3. CASE k # l
    <3>1. login'[k] = Pruned[k]
        BY <1>1, <2>3, PrunedType DEF StartEmail
    <3> QED BY <2>1, <3>1 DEF Pruned, Kept, Login
  <2> QED BY <2>2, <2>3
<1>2. ASSUME NEW l \in Logins, StartGithub(l), NEW k \in Logins
      PROVE  Kept(k)
  <2>1. login[k] \in Login /\ login[l] \in Login
      BY DEF TypeOK
  <2>2. CASE k = l
      BY <1>2, <2>1, <2>2 DEF StartGithub, Pruned, Kept, Login
  <2>3. CASE k # l
    <3>1. login'[k] = Pruned[k]
        BY <1>2, <2>3, PrunedType DEF StartGithub
    <3> QED BY <2>1, <3>1 DEF Pruned, Kept, Login
  <2> QED BY <2>2, <2>3
<1>3. ASSUME NEW l \in Logins, Sent(l) \/ Age(l), NEW k \in Logins
      PROVE  Kept(k)
  <2>1. login[k] \in Login /\ login[l] \in Login
      BY DEF TypeOK
  <2> QED BY <1>3, <2>1 DEF TypeOK, Sent, Age, Kept, Login
<1>4. ASSUME UNCHANGED login, NEW k \in Logins PROVE Kept(k)
    BY <1>4 DEF Kept
<1> QED BY <1>0, <1>1, <1>2, <1>3, <1>4
        DEF SignInStep, StartEmail, StartGithub, Sent, Age, RevokeSession, ExpireInvitation,
            AcceptInvitation, signin

LEMMA HandlerLogins ==
    ASSUME TypeOK, TypeOK', CallsHold, LoginsHold, NEW h \in Handlers, HandlerStep(h)
    PROVE  LoginsHold'
<1>0. ASSUME NEW new, call' = [call EXCEPT ![h] = new], new.pc # "session", UNCHANGED login
      PROVE  LoginsHold'
  <2>1. \A l \in Logins : Kept(l)
      BY <1>0 DEF Kept
  <2> QED BY <1>0, <2>1, KeptLogins
<1>1. CASE \E l \in Logins : Consume(h, l)
  <2>1. PICK l \in Logins : Consume(h, l)
      BY <1>1
  <2>2. login[l] \in Login /\ login[l].state = "open" /\ login[l].used = 0
      BY <2>1 DEF TypeOK, Consume, Consumable, LoginsHold, Unspoilt
  <2>3. /\ login'[l] = [login[l] EXCEPT !.state = "consumed"]
        /\ \A k \in Logins \ {l} : login'[k] = login[k]
      BY <2>1 DEF TypeOK, Consume
  <2>4. /\ call'[h].pc = "session" /\ call'[h].item = l /\ call'[h].user = login[l].user
        /\ \A g \in Handlers \ {h} : call'[g] = call[g]
      BY <2>1 DEF TypeOK, Consume, Idle
  <2>5. \A g \in Handlers \ {h} : call[g].pc = "session" => call[g].item # l
      BY <2>2 DEF LoginsHold
  <2>6. \A k \in Logins : Unspoilt(k)'
      BY <2>2, <2>3 DEF LoginsHold, Unspoilt, Login
  <2> QED BY <2>2, <2>3, <2>4, <2>5, <2>6 DEF LoginsHold, Login
<1>2. CASE VerifyEmail(h) \/ CompleteGithub(h)
  <2> DEFINE l == call[h].item
  <2>1. call[h].pc = "session"
      BY <1>2 DEF VerifyEmail, CompleteGithub
  <2>2. l \in Logins /\ login[l] \in Login /\ login[l].used = 0
           /\ login[l].state \in {"consumed", "deleted"}
      BY <2>1 DEF LoginsHold, TypeOK
  <2>3. /\ login'[l] = [login[l] EXCEPT !.used = 1]
        /\ \A k \in Logins \ {l} : login'[k] = login[k]
      BY <1>2, <2>2 DEF TypeOK, VerifyEmail, CompleteGithub
  <2>4. /\ call'[h].pc # "session"
        /\ \A g \in Handlers \ {h} : call'[g] = call[g]
      BY <1>2 DEF TypeOK, VerifyEmail, CompleteGithub, Answer, Idle
  <2>5. \A g \in Handlers \ {h} : call[g].pc = "session" => call[g].item # l
      BY <2>1 DEF LoginsHold
  <2>6. \A k \in Logins : Unspoilt(k)'
      BY <2>2, <2>3 DEF LoginsHold, Unspoilt, Login
  <2> QED BY <2>2, <2>3, <2>4, <2>5, <2>6 DEF LoginsHold, Login
<1>3. CASE Answer(h) /\ UNCHANGED login
    BY <1>0, <1>3, IdleCarries DEF Answer
<1>4. CASE \E op \in Operations, c, u \in Users, r \in budget.roles : Request(h, op, c, u, r)
    BY <1>0, <1>4 DEF Request, signin
<1>5. CASE ~Answer(h) /\ (InviteRead(h) \/ CreateRead(h) \/ InviteInsert(h) \/ MemberCheck(h))
  <2>1. call[h] \in Call
      BY DEF TypeOK
  <2>2. CASE InviteRead(h) \/ CreateRead(h)
      BY <1>0, <1>5, <2>1, <2>2 DEF InviteRead, CreateRead, signin, Call
  <2>3. CASE MemberCheck(h)
      BY <1>0, <1>5, <2>1, <2>3 DEF MemberCheck, signin, Call
  <2>4. CASE InviteInsert(h)
    <3>1. PICK i \in Invitations : call' = [call EXCEPT ![h].pc = "deliver", ![h].item = i]
        BY <1>5, <2>4 DEF InviteInsert
    <3>2. call' = [call EXCEPT ![h] = [call[h] EXCEPT !.pc = "deliver", !.item = i]]
        BY <3>1 DEF TypeOK
    <3>3. [call[h] EXCEPT !.pc = "deliver", !.item = i].pc # "session"
        BY <2>1 DEF Call
    <3> QED BY <1>0, <2>4, <3>2, <3>3 DEF InviteInsert, signin
  <2> QED BY <1>5, <2>2, <2>3, <2>4
<1> QED BY <1>1, <1>2, <1>3, <1>4, <1>5
        DEF HandlerStep, InviteRead, CreateRead, InviteInsert, MemberCheck, InviteDeliver,
            RevokeInvitation, MemberWrite, CreateCredential, RevokeCredential, Drop, signin

LEMMA NextLogins ==
    ASSUME TypeOK, TypeOK', CallsHold, LoginsHold, Next
    PROVE  LoginsHold'
<1>1. CASE \E u \in Users : Bootstrap(u)
    BY <1>1 DEF Bootstrap, LoginsHold, Unspoilt
<1> QED BY <1>1, SignInLogins, HandlerLogins DEF Next

(* Only start_email makes a token of an address live, and it counts first. *)
LEMMA NextAttempts ==
    ASSUME TypeOK, LoginsHold, AttemptsHold, Next
    PROVE  AttemptsHold'
<1> SUFFICES ASSUME NEW u \in Users
             PROVE  IsFiniteSet(Recent(u)') /\ Cardinality(Recent(u)') <= MaxEmailAttempts
    BY DEF AttemptsHold
<1>1. IsFiniteSet(Recent(u)) /\ Cardinality(Recent(u)) <= MaxEmailAttempts
    BY DEF AttemptsHold
<1>2. Cardinality(Recent(u)) \in Nat
    BY <1>1, FS_CardinalityType
<1>3. ASSUME Recent(u)' \subseteq Recent(u)
      PROVE  IsFiniteSet(Recent(u)') /\ Cardinality(Recent(u)') <= MaxEmailAttempts
  <2>1. IsFiniteSet(Recent(u)') /\ Cardinality(Recent(u)') <= Cardinality(Recent(u))
      BY <1>1, <1>3, FS_Subset
  <2>2. Cardinality(Recent(u)') \in Nat
      BY <2>1, FS_CardinalityType
  <2> QED BY <1>1, <1>2, <2>1, <2>2, AccessAssumption
<1>4. CASE \E l \in Logins, v \in Users : StartEmail(l, v)
  <2>1. PICK l \in Logins, v \in Users : StartEmail(l, v)
      BY <1>4
  <2>2. CASE v # u
    <3>1. Recent(u)' \subseteq Recent(u)
        BY <2>1, <2>2 DEF TypeOK, StartEmail, Pruned, Recent, Login
    <3> QED BY <1>3, <3>1
  <2>3. CASE v = u
    <3>1. Recent(u)' \subseteq Recent(u) \cup {l}
        BY <2>1, <2>3 DEF TypeOK, StartEmail, Pruned, Recent, Login
    <3>2. /\ IsFiniteSet(Recent(u) \cup {l})
          /\ Cardinality(Recent(u) \cup {l}) <= Cardinality(Recent(u)) + 1
          /\ Cardinality(Recent(u) \cup {l}) \in Nat
      <4>1. /\ IsFiniteSet(Recent(u) \cup {l})
            /\ Cardinality(Recent(u) \cup {l}) =
                  IF l \in Recent(u) THEN Cardinality(Recent(u)) ELSE Cardinality(Recent(u)) + 1
          BY <1>1, FS_AddElement
      <4> QED BY <1>2, <4>1
    <3>3. /\ IsFiniteSet(Recent(u)')
          /\ Cardinality(Recent(u)') <= Cardinality(Recent(u) \cup {l})
          /\ Cardinality(Recent(u)') \in Nat
        BY <3>1, <3>2, FS_Subset, FS_CardinalityType
    <3>4. Cardinality(Recent(u)) < MaxEmailAttempts
        BY <2>1, <2>3 DEF StartEmail
    <3> QED BY <1>2, <3>2, <3>3, <3>4, AccessAssumption
  <2> QED BY <2>2, <2>3
<1>5. CASE \E l \in Logins : StartGithub(l) \/ Sent(l) \/ Age(l)
  <2>1. Recent(u)' \subseteq Recent(u)
    <3>1. PICK l \in Logins : StartGithub(l) \/ Sent(l) \/ Age(l)
        BY <1>5
    <3>2. SUFFICES ASSUME NEW k \in Recent(u)' PROVE k \in Recent(u)
        OBVIOUS
    <3>3. k \in Logins /\ login[k] \in Login /\ login[l] \in Login
        BY DEF TypeOK, Recent
    <3>4. CASE StartGithub(l)
        BY <3>2, <3>3, <3>4 DEF StartGithub, Pruned, Recent, Login
    <3>5. CASE Sent(l)
        BY <3>2, <3>3, <3>5 DEF TypeOK, Sent, Recent, Login
    <3>6. CASE Age(l)
        BY <3>2, <3>3, <3>6 DEF TypeOK, Age, Recent, Login
    <3> QED BY <3>1, <3>4, <3>5, <3>6
  <2> QED BY <1>3, <2>1
<1>6. CASE \E h \in Handlers : \/ \E l \in Logins : Consume(h, l)
                              \/ VerifyEmail(h)
                              \/ CompleteGithub(h)
  <2>1. Recent(u)' \subseteq Recent(u)
    <3>1. SUFFICES ASSUME NEW k \in Recent(u)' PROVE k \in Recent(u)
        OBVIOUS
    <3>2. k \in Logins /\ login[k] \in Login
        BY DEF TypeOK, Recent
    <3>3. PICK h \in Handlers : (\E l \in Logins : Consume(h, l)) \/ VerifyEmail(h) \/ CompleteGithub(h)
        BY <1>6
    <3>4. CASE \E l \in Logins : Consume(h, l)
        BY <3>1, <3>2, <3>4 DEF TypeOK, Consume, Consumable, Recent, Login
    <3>5. CASE VerifyEmail(h) \/ CompleteGithub(h)
      <4>1. login' = [login EXCEPT ![call[h].item].used = @ + 1] /\ call[h].item \in Logins
          BY <3>5 DEF VerifyEmail, CompleteGithub, LoginsHold
      <4> QED BY <3>1, <3>2, <4>1 DEF TypeOK, Recent, Login
    <3> QED BY <3>3, <3>4, <3>5
  <2> QED BY <1>3, <2>1
<1>7. CASE UNCHANGED login
  <2>1. Recent(u)' \subseteq Recent(u)
      BY <1>7 DEF Recent
  <2> QED BY <1>3, <2>1
<1> QED BY <1>4, <1>5, <1>6, <1>7
        DEF Next, SignInStep, HandlerStep, Bootstrap, RevokeSession, ExpireInvitation,
            AcceptInvitation, Request, InviteRead, InviteInsert, InviteDeliver, RevokeInvitation,
            MemberCheck, MemberWrite, CreateRead, CreateCredential, RevokeCredential, Drop, signin

-----------------------------------------------------------------------------
(* Members.                                                                 *)

(* What a step does to an invitation: nothing that matters here, storing it *)
(* or accepting it.                                                         *)
LEMMA InvitationSteps ==
    ASSUME TypeOK, CallsHold, Next, NEW i \in Invitations
    PROVE  \/ /\ invitation'[i].user = invitation[i].user
              /\ invitation'[i].role = invitation[i].role
              /\ invitation'[i].accepted = invitation[i].accepted
           \/ /\ invitation[i].user = None
              /\ invitation'[i].user # None
              /\ invitation'[i].accepted = invitation[i].accepted
              /\ \E h \in Handlers : call[h].op \in Operations
           \/ AcceptInvitation(i)
<1>0. invitation[i] \in Invitation
    BY DEF TypeOK
<1>1. CASE \E j \in Invitations : ExpireInvitation(j) \/ AcceptInvitation(j)
    BY <1>0, <1>1 DEF TypeOK, ExpireInvitation, AcceptInvitation, Invitation
<1>2. ASSUME NEW h \in Handlers, InviteInsert(h), invitation' # invitation
      PROVE  \/ /\ invitation'[i].user = invitation[i].user
                /\ invitation'[i].role = invitation[i].role
                /\ invitation'[i].accepted = invitation[i].accepted
             \/ /\ invitation[i].user = None
                /\ invitation'[i].user # None
                /\ invitation'[i].accepted = invitation[i].accepted
                /\ call[h].op \in Operations
  <2>1. call[h].op \in Operations /\ call[h].user \in Users
      BY <1>2 DEF InviteInsert, CallsHold, Carries, Operations, MemberRequests
  <2>2. PICK j \in Invitations :
           /\ invitation[j].user = None
           /\ invitation' = [invitation EXCEPT ![j].user = call[h].user, ![j].role = call[h].role]
      BY <1>2 DEF InviteInsert
  <2>3. CASE j = i
      BY <1>0, <2>1, <2>2, <2>3, AccessAssumption DEF TypeOK, Invitation
  <2>4. CASE j # i
      BY <2>2, <2>4 DEF TypeOK
  <2> QED BY <2>3, <2>4
<1>3. CASE \E h \in Handlers : InviteDeliver(h) \/ RevokeInvitation(h)
  <2>1. PICK h \in Handlers : \E b \in BOOLEAN : invitation' = [invitation EXCEPT ![call[h].item].revoked = b]
      BY <1>3 DEF InviteDeliver, RevokeInvitation
  <2> QED BY <1>0, <2>1 DEF TypeOK, Invitation
<1>4. CASE UNCHANGED invitation
    BY <1>4
<1>5. CASE SignInStep
    BY <1>1, <1>4, <1>5 DEF SignInStep, StartEmail, StartGithub, Sent, Age, RevokeSession
<1>6. CASE \E u \in Users : Bootstrap(u)
    BY <1>4, <1>6 DEF Bootstrap
<1>7. ASSUME NEW h \in Handlers, HandlerStep(h)
      PROVE  UNCHANGED invitation \/ InviteInsert(h) \/ InviteDeliver(h) \/ RevokeInvitation(h)
    BY <1>7 DEF HandlerStep, Consume, VerifyEmail, CompleteGithub, Request, InviteRead, MemberCheck,
                MemberWrite, CreateRead, CreateCredential, RevokeCredential, Drop
<1> QED BY <1>2, <1>3, <1>4, <1>5, <1>6, <1>7 DEF Next

(* An accepted invitation stays what it is ... *)
LEMMA AcceptedKept ==
    ASSUME TypeOK, CallsHold, MembersHold, Next, NEW i \in Invitations, invitation[i].accepted
    PROVE  /\ invitation'[i].accepted
           /\ invitation'[i].user = invitation[i].user
           /\ invitation'[i].role = invitation[i].role
    BY InvitationSteps DEF MembersHold, AcceptInvitation, Valid, Pending

LEMMA SetupSteps ==
    ASSUME Next
    PROVE  UNCHANGED bootstrap \/ \E u \in Users : Bootstrap(u)
<1>1. CASE SignInStep
    BY <1>1 DEF SignInStep, StartEmail, StartGithub, Sent, Age, RevokeSession, ExpireInvitation,
                AcceptInvitation
<1>2. ASSUME NEW h \in Handlers, HandlerStep(h) PROVE UNCHANGED bootstrap
    BY <1>2 DEF HandlerStep, Consume, VerifyEmail, CompleteGithub, Request, InviteRead, InviteInsert,
                InviteDeliver, RevokeInvitation, MemberCheck, MemberWrite, CreateRead,
                CreateCredential, RevokeCredential, Drop
<1> QED BY <1>1, <1>2 DEF Next

(* ... and the setup happens once, before anybody is invited. *)
LEMMA OverwroteKept ==
    ASSUME TypeOK, CallsHold, MembersHold, Next, NEW i \in Invitations, Overwrote(i)
    PROVE  /\ Overwrote(i)'
           /\ invitation'[i].user = invitation[i].user
           /\ invitation'[i].role = invitation[i].role
<1>1. invitation[i].accepted /\ bootstrap # None
    BY DEF Overwrote, MembersHold
<1>2. bootstrap' = bootstrap
    BY <1>1, SetupSteps DEF Bootstrap
<1> QED BY <1>1, <1>2, AcceptedKept DEF Overwrote

(* A member who accepts an invitation has it written over the role. *)
LEMMA AcceptOverwrites ==
    ASSUME TypeOK, MembersHold, NEW i \in Invitations, AcceptInvitation(i),
           role[invitation[i].user] # "none"
    PROVE  /\ Overwrote(i)'
           /\ invitation'[i].user = invitation[i].user
           /\ invitation'[i].role = invitation[i].role
<1>1. /\ invitation[i] \in Invitation
      /\ invitation[i].user \in Users /\ ~invitation[i].accepted
    BY DEF TypeOK, AcceptInvitation, Valid, Pending, Invitation
<1>2. /\ invitation'[i] = [invitation[i] EXCEPT !.accepted = TRUE]
      /\ \A j \in Invitations \ {i} : invitation'[j] = invitation[j]
      /\ bootstrap' = bootstrap
    BY DEF TypeOK, AcceptInvitation
<1>3. \/ invitation[i].user = bootstrap
      \/ \E j \in Invitations \ {i} :
            invitation[j].accepted /\ invitation[j].user = invitation[i].user
    BY <1>1 DEF MembersHold
<1>4. /\ invitation'[i].accepted
      /\ invitation'[i].user = invitation[i].user
      /\ invitation'[i].role = invitation[i].role
    BY <1>1, <1>2 DEF Invitation
<1> QED BY <1>2, <1>3, <1>4 DEF Overwrote

(* Which steps change a role, and how. *)
LEMMA RoleSteps ==
    ASSUME Next
    PROVE  \/ UNCHANGED role
           \/ \E u \in Users : Bootstrap(u)
           \/ \E i \in Invitations : AcceptInvitation(i)
           \/ \E h \in Handlers : MemberWrite(h)
<1>1. CASE SignInStep
    BY <1>1 DEF SignInStep, StartEmail, StartGithub, Sent, Age, RevokeSession, ExpireInvitation,
                members
<1>2. ASSUME NEW h \in Handlers, HandlerStep(h) PROVE UNCHANGED role \/ MemberWrite(h)
    BY <1>2 DEF HandlerStep, Consume, VerifyEmail, CompleteGithub, Request, InviteRead, InviteInsert,
                InviteDeliver, RevokeInvitation, MemberCheck, CreateRead, CreateCredential,
                RevokeCredential, Drop, members
<1> QED BY <1>1, <1>2 DEF Next

LEMMA NextMembers ==
    ASSUME TypeOK, CallsHold, MembersHold, Next
    PROVE  MembersHold'
<1>1. ASSUME bootstrap' = None
      PROVE  /\ \A u \in Users : role'[u] = "none"
             /\ \A h \in Handlers : call'[h].op \notin Operations
             /\ \A i \in Invitations : invitation'[i].user = None
  <2>1. bootstrap = None
      BY <1>1, SetupSteps, AccessAssumption DEF Bootstrap
  <2>2. /\ \A u \in Users : role[u] = "none"
        /\ \A h \in Handlers : call[h].op \notin Operations
        /\ \A i \in Invitations : invitation[i].user = None
      BY <2>1 DEF MembersHold
  <2>3. \A i \in Invitations : ~AcceptInvitation(i)
      BY <2>2 DEF AcceptInvitation, Valid, Pending
  <2>4. \A h \in Handlers : ~MemberWrite(h)
      BY <2>2 DEF MemberWrite, Operations, MemberRequests
  <2>5. \A u \in Users : role'[u] = "none"
      BY <1>1, <2>2, <2>3, <2>4, RoleSteps, AccessAssumption DEF Bootstrap
  <2>6. \A i \in Invitations : invitation'[i].user = None
      BY <2>2, <2>3, InvitationSteps
  <2>7. ASSUME NEW h \in Handlers PROVE call'[h].op \notin Operations
    <3>1. CASE UNCHANGED call
        BY <2>2, <3>1
    <3>2. ASSUME NEW g \in Handlers, HandlerStep(g)
          PROVE  call'[h].op \notin Operations
      <4>1. call[g].op \notin Operations
          BY <2>2
      <4>2. CASE \E l \in Logins : Consume(g, l)
          BY <2>2, <4>2 DEF TypeOK, Consume, Idle, Operations, MemberRequests, KeyRequests,
                            TokenRequests
      <4>3. CASE VerifyEmail(g) \/ CompleteGithub(g) \/ Drop(g)
          BY <2>2, <4>3, IdleCarries DEF TypeOK, VerifyEmail, CompleteGithub, Drop, Answer,
                            Operations, MemberRequests, KeyRequests, TokenRequests
      <4> QED BY <2>2, <3>2, <4>1, <4>2, <4>3
              DEF HandlerStep, Request, Allows, InviteRead, InviteInsert, InviteDeliver,
                  RevokeInvitation, MemberCheck, MemberWrite, CreateRead, CreateCredential,
                  RevokeCredential, Operations, MemberRequests, KeyRequests, TokenRequests
    <3>3. CASE SignInStep
        BY <3>1, <3>3 DEF SignInStep, StartEmail, StartGithub, Sent, Age, RevokeSession,
                          ExpireInvitation, AcceptInvitation
    <3>4. CASE \E u \in Users : Bootstrap(u)
        BY <3>1, <3>4 DEF Bootstrap
    <3> QED BY <3>2, <3>3, <3>4 DEF Next
  <2> QED BY <2>5, <2>6, <2>7
<1>2. ASSUME NEW i \in Invitations, invitation'[i].accepted PROVE invitation'[i].user # None
  <2>1. CASE AcceptInvitation(i)
      BY <2>1 DEF TypeOK, AcceptInvitation, Valid, Pending, Invitation
  <2> QED BY <1>2, <2>1, InvitationSteps DEF MembersHold
<1>3. ASSUME NEW u \in Users, role'[u] # "none"
      PROVE  \/ u = bootstrap'
             \/ \E i \in Invitations : invitation'[i].accepted /\ invitation'[i].user = u
  <2>1. ASSUME role[u] # "none"
        PROVE  \/ u = bootstrap'
               \/ \E i \in Invitations : invitation'[i].accepted /\ invitation'[i].user = u
    <3>1. bootstrap # None
        BY <2>1 DEF MembersHold
    <3>2. bootstrap' = bootstrap
        BY <3>1, SetupSteps DEF Bootstrap
    <3> QED BY <2>1, <3>2, AcceptedKept DEF MembersHold
  <2>2. ASSUME NEW v \in Users, Bootstrap(v), role[u] = "none" PROVE u = bootstrap'
      BY <1>3, <2>2 DEF Bootstrap, TypeOK
  <2>3. ASSUME NEW i \in Invitations, AcceptInvitation(i), role[u] = "none"
        PROVE  invitation'[i].accepted /\ invitation'[i].user = u
    <3>1. u = invitation[i].user
        BY <1>3, <2>3 DEF AcceptInvitation, TypeOK
    <3>2. invitation[i] \in Invitation
        BY DEF TypeOK
    <3> QED BY <2>3, <3>1, <3>2 DEF AcceptInvitation, TypeOK, Invitation
  <2>4. ASSUME NEW h \in Handlers, MemberWrite(h), role[u] = "none" PROVE FALSE
      BY <1>3, <2>4 DEF MemberWrite, TypeOK
  <2> QED BY <1>3, <2>1, <2>2, <2>3, <2>4, RoleSteps
<1> QED BY <1>1, <1>2, <1>3 DEF MembersHold

(* The overwritten stay overwritten. *)
LEMMA OverwrittenKept ==
    ASSUME TypeOK, CallsHold, MembersHold, Next
    PROVE  /\ OwnerOverwritten => OwnerOverwritten'
           /\ \A h \in Handlers : call'[h] = call[h] /\ TouchedByInvitation(h) =>
                                    TouchedByInvitation(h)'
<1>1. ASSUME OwnerOverwritten PROVE OwnerOverwritten'
    BY <1>1, OverwroteKept DEF OwnerOverwritten
<1>2. ASSUME NEW h \in Handlers, call'[h] = call[h], TouchedByInvitation(h)
      PROVE  TouchedByInvitation(h)'
    BY <1>2, OverwroteKept DEF TouchedByInvitation
<1> QED BY <1>1, <1>2

(* An owner stays one through an accepted invitation, or is overwritten. *)
LEMMA AcceptKeepsOwner ==
    ASSUME TypeOK, MembersHold, NEW i \in Invitations, AcceptInvitation(i),
           NEW v \in Users, role[v] = "owner"
    PROVE  role'[v] = "owner" \/ OwnerOverwritten'
<1>1. CASE v # invitation[i].user
    BY <1>1 DEF AcceptInvitation, TypeOK
<1>2. CASE v = invitation[i].user /\ invitation[i].role # "owner"
  <2>1. Overwrote(i)' /\ invitation'[i].role = invitation[i].role
      BY <1>2, AcceptOverwrites
  <2> QED BY <1>2, <2>1 DEF OwnerOverwritten
<1>3. CASE v = invitation[i].user /\ invitation[i].role = "owner"
    BY <1>3 DEF AcceptInvitation, TypeOK
<1> QED BY <1>1, <1>2, <1>3

(* A request reaches its write by the check, and stays there. *)
LEMMA WriterSteps ==
    ASSUME TypeOK, Next, NEW g \in Handlers, call'[g].pc = "write"
    PROVE  call'[g] = call[g] \/ (MemberCheck(g) /\ MayChange(g))
<1>1. CASE UNCHANGED call
    BY <1>1
<1>2. CASE SignInStep
    BY <1>1, <1>2 DEF SignInStep, StartEmail, StartGithub, Sent, Age, RevokeSession,
                      ExpireInvitation, AcceptInvitation
<1>3. CASE \E u \in Users : Bootstrap(u)
    BY <1>1, <1>3 DEF Bootstrap
<1>4. ASSUME NEW h \in Handlers, HandlerStep(h)
      PROVE  call'[g] = call[g] \/ (MemberCheck(g) /\ MayChange(g))
  <2>1. call[g] \in Call
      BY DEF TypeOK
  <2>2. CASE g # h
    <3>1. \E new : call' = [call EXCEPT ![h] = new]
        BY <1>4 DEF HandlerStep, Consume, VerifyEmail, CompleteGithub, Request, InviteRead,
                    InviteInsert, InviteDeliver, RevokeInvitation, MemberCheck, MemberWrite,
                    CreateRead, CreateCredential, RevokeCredential, Drop, Answer, TypeOK
    <3> QED BY <2>2, <3>1 DEF TypeOK
  <2>3. CASE g = h
    <3>1. Answer(h) => call'[g].pc = "idle"
        BY <2>3, IdleCarries DEF Answer, TypeOK
    <3>2. CASE \E l \in Logins : Consume(h, l)
        BY <2>3, <3>2 DEF Consume, TypeOK, Idle
    <3>3. CASE \E op \in Operations, c, u \in Users, r \in budget.roles : Request(h, op, c, u, r)
        BY <2>3, <3>3 DEF Request, TypeOK
    <3>4. CASE (InviteRead(h) \/ CreateRead(h) \/ InviteInsert(h)) /\ ~Answer(h)
      <4>1. CASE InviteRead(h) \/ CreateRead(h)
          BY <2>1, <2>3, <3>4, <4>1 DEF InviteRead, CreateRead, TypeOK, Call
      <4>2. CASE InviteInsert(h)
        <5>1. PICK i \in Invitations : call' = [call EXCEPT ![h].pc = "deliver", ![h].item = i]
            BY <3>4, <4>2 DEF InviteInsert
        <5> QED BY <2>1, <2>3, <5>1 DEF TypeOK, Call
      <4> QED BY <3>4, <4>1, <4>2
    <3>5. CASE MemberCheck(h)
        BY <2>3, <3>1, <3>5 DEF MemberCheck
    <3> QED BY <1>4, <3>1, <3>2, <3>3, <3>4, <3>5
            DEF HandlerStep, VerifyEmail, CompleteGithub, InviteDeliver, RevokeInvitation,
                MemberWrite, CreateCredential, RevokeCredential, Drop
  <2> QED BY <2>2, <2>3
<1> QED BY <1>2, <1>3, <1>4 DEF Next

LEMMA NextWriters ==
    ASSUME TypeOK, CallsHold, MembersHold, WritersHold, LastOwnerKept, Next
    PROVE  WritersHold'
<1> SUFFICES ASSUME NEW g \in Handlers, call'[g].pc = "write"
             PROVE  /\ MayWrite(g)' \/ TouchedByInvitation(g)'
                    /\ TakesOwner(g)' => OtherOwner(call[g].user)' \/ OwnerOverwritten'
    BY DEF WritersHold
<1>1. CASE MemberCheck(g) /\ MayChange(g)
  <2>1. /\ UNCHANGED <<role, invitation, bootstrap>>
        /\ call' = [call EXCEPT ![g] = [call[g] EXCEPT !.pc = "write"]]
      BY <1>1, IdleCarries DEF MemberCheck
  <2>2. call[g] \in Call /\ call[g].op \in Operations
      BY <1>1 DEF TypeOK, MemberCheck, Operations, MemberRequests
  <2>3. call'[g] = [call[g] EXCEPT !.pc = "write"]
      BY <2>1 DEF TypeOK
  <2>4. /\ call'[g].op = call[g].op /\ call'[g].caller = call[g].caller
        /\ call'[g].user = call[g].user /\ call'[g].role = call[g].role
      BY <2>2, <2>3 DEF Call
  <2>5. MayWrite(g)'
    <3>1. MayWrite(g)
        BY <1>1 DEF MayChange, MayWrite, CallerRole
    <3> QED BY <2>1, <2>4, <3>1 DEF MayWrite, CallerRole
  <2>6. ASSUME TakesOwner(g) PROVE OtherOwner(call[g].user) \/ OwnerOverwritten
    <3>1. call[g].user \in Users
        BY <2>2 DEF CallsHold, Carries
    <3>2. CASE role[call[g].user] = "owner"
        BY <1>1, <2>6, <3>2 DEF MayChange, TakesOwner
    <3>3. CASE role[call[g].user] # "owner"
      <4>1. bootstrap # None
          BY <1>1, <3>1 DEF MayChange, MembersHold
      <4> QED BY <3>3, <4>1 DEF LastOwnerKept, OtherOwner, OwnerOverwritten
    <3> QED BY <3>2, <3>3
  <2> QED BY <2>1, <2>4, <2>5, <2>6
          DEF TakesOwner, OtherOwner, OwnerOverwritten, Overwrote
<1>2. CASE call'[g] = call[g]
  <2>1. /\ MayWrite(g) \/ TouchedByInvitation(g)
        /\ TakesOwner(g) => OtherOwner(call[g].user) \/ OwnerOverwritten
        /\ lock = g /\ call[g].op \in Operations
        /\ call[g].user \in Users /\ call[g].caller \in Users
      BY <1>2 DEF WritersHold, CallsHold, Carries, Operations, MemberRequests
  <2>2. CASE UNCHANGED role
    <3>1. MayWrite(g) => MayWrite(g)'
        BY <1>2, <2>2 DEF MayWrite, CallerRole
    <3>2. OtherOwner(call[g].user) => OtherOwner(call[g].user)'
        BY <1>2, <2>2 DEF OtherOwner
    <3>3. TakesOwner(g)' = TakesOwner(g)
        BY <1>2 DEF TakesOwner
    <3> QED BY <1>2, <2>1, <3>1, <3>2, <3>3, OverwrittenKept
  <2>3. CASE \E u \in Users : Bootstrap(u)
      BY <2>1, <2>3 DEF Bootstrap, MembersHold
  <2>4. CASE \E h \in Handlers : MemberWrite(h)
    <3>1. PICK h \in Handlers : MemberWrite(h)
        BY <2>4
    <3>2. h = g
        BY <2>1, <3>1 DEF MemberWrite, CallsHold
    <3>3. call'[g].pc = "idle"
        BY <3>1, <3>2, IdleCarries DEF MemberWrite, Answer, TypeOK
    <3> QED BY <3>3
  <2>5. ASSUME NEW i \in Invitations, AcceptInvitation(i)
        PROVE  /\ MayWrite(g)' \/ TouchedByInvitation(g)'
               /\ TakesOwner(g)' => OtherOwner(call[g].user)' \/ OwnerOverwritten'
    <3>1. ASSUME MayWrite(g), invitation[i].user \in {call[g].caller, call[g].user}
          PROVE  TouchedByInvitation(g)'
      <4>1. role[invitation[i].user] # "none"
          BY <2>1, <3>1 DEF MayWrite, Allows, CallerRole
      <4>2. Overwrote(i)' /\ invitation'[i].user = invitation[i].user
          BY <2>5, <4>1, AcceptOverwrites
      <4> QED BY <1>2, <3>1, <4>2 DEF TouchedByInvitation
    <3>2. ASSUME MayWrite(g), invitation[i].user \notin {call[g].caller, call[g].user}
          PROVE  MayWrite(g)'
      <4>1. role'[call[g].caller] = role[call[g].caller] /\ role'[call[g].user] = role[call[g].user]
          BY <2>1, <2>5, <3>2 DEF AcceptInvitation, TypeOK
      <4> QED BY <1>2, <3>2, <4>1 DEF MayWrite, CallerRole
    <3>3. MayWrite(g)' \/ TouchedByInvitation(g)'
        BY <1>2, <2>1, <3>1, <3>2, OverwrittenKept
    <3>4. ASSUME TakesOwner(g)', OtherOwner(call[g].user)
          PROVE  OtherOwner(call[g].user)' \/ OwnerOverwritten'
        BY <1>2, <2>5, <3>4, AcceptKeepsOwner DEF OtherOwner
    <3>5. TakesOwner(g)' = TakesOwner(g)
        BY <1>2 DEF TakesOwner
    <3> QED BY <2>1, <3>3, <3>4, <3>5, OverwrittenKept
  <2> QED BY <2>2, <2>3, <2>4, <2>5, RoleSteps
<1> QED BY <1>1, <1>2, WriterSteps

LEMMA NextOwner ==
    ASSUME TypeOK, CallsHold, MembersHold, WritersHold, LastOwnerKept, Next
    PROVE  LastOwnerKept'
<1> SUFFICES (\E u \in Users : role'[u] = "owner") \/ OwnerOverwritten' \/ bootstrap' = None
    BY DEF LastOwnerKept, OwnerOverwritten
<1>1. CASE \E u \in Users : Bootstrap(u)
    BY <1>1 DEF Bootstrap, TypeOK
<1>2. ASSUME UNCHANGED bootstrap, bootstrap # None, ~OwnerOverwritten
      PROVE  \E u \in Users : role[u] = "owner"
    BY <1>2 DEF LastOwnerKept, OwnerOverwritten
<1>3. CASE UNCHANGED role
    BY <1>1, <1>2, <1>3, SetupSteps, OverwrittenKept
<1>4. CASE \E i \in Invitations : AcceptInvitation(i)
  <2>1. UNCHANGED bootstrap
      BY <1>4 DEF AcceptInvitation
  <2> QED BY <1>2, <1>4, <2>1, AcceptKeepsOwner, OverwrittenKept
<1>5. CASE \E h \in Handlers : MemberWrite(h)
  <2>1. PICK h \in Handlers : MemberWrite(h)
      BY <1>5
  <2>2. call[h].user \in Users /\ call[h].pc = "write" /\ bootstrap' = bootstrap
      BY <2>1 DEF MemberWrite, CallsHold, Carries, Operations, MemberRequests
  <2>3. \A v \in Users \ {call[h].user} : role'[v] = role[v]
      BY <2>1 DEF MemberWrite, TypeOK
  <2>4. CASE TakesOwner(h)
      BY <2>2, <2>3, <2>4, OverwrittenKept DEF WritersHold, OtherOwner
  <2>5. CASE ~TakesOwner(h) /\ role[call[h].user] # "none"
    <3>1. role'[call[h].user] = "owner"
        BY <2>1, <2>2, <2>5 DEF MemberWrite, TypeOK, TakesOwner
    <3> QED BY <2>2, <3>1
  <2>6. CASE role[call[h].user] = "none"
      BY <1>2, <2>2, <2>3, <2>6, OverwrittenKept
  <2> QED BY <2>4, <2>5, <2>6
<1> QED BY <1>1, <1>3, <1>4, <1>5, RoleSteps

-----------------------------------------------------------------------------
(* The theorems.                                                            *)

LEMMA NextType ==
    ASSUME TypeOK, CallsHold, LoginsHold, Next
    PROVE  TypeOK'
    BY BootstrapType, SignInType, HandlerType DEF Next

LEMMA NextIInv == IInv /\ [Next]_vars => IInv'
<1> SUFFICES ASSUME IInv, [Next]_vars PROVE IInv'
    OBVIOUS
<1>1. CASE Next
    BY <1>1, NextType, NextCalls, NextLogins, NextAttempts, NextMembers, NextWriters, NextOwner
       DEF IInv
<1>2. CASE UNCHANGED vars
  <2>1. TypeOK' /\ CallsHold' /\ LoginsHold'
      BY <1>2 DEF IInv, vars, members, signin, TypeOK, CallsHold, LoginsHold, Unspoilt
  <2>2. AttemptsHold'
      BY <1>2 DEF IInv, vars, signin, AttemptsHold, Recent
  <2>3. MembersHold' /\ LastOwnerKept'
      BY <1>2 DEF IInv, vars, members, MembersHold, LastOwnerKept, Overwrote
  <2>4. WritersHold'
      BY <1>2 DEF IInv, vars, members, WritersHold, MayWrite, TouchedByInvitation, TakesOwner,
                  OtherOwner, OwnerOverwritten, Overwrote, CallerRole
  <2> QED BY <2>1, <2>2, <2>3, <2>4 DEF IInv
<1> QED BY <1>1, <1>2

(* The strengthening is inductive: sign-in, membership and credentials.     *)
THEOREM InductiveInvariant == Spec => []IInv
    BY InitIInv, NextIInv, PTL DEF Spec

(* Every variable keeps its type, whatever requests arrive. *)
THEOREM TypeCorrect == Spec => []TypeOK
<1>1. IInv => TypeOK
    BY DEF IInv
<1> QED BY <1>1, InductiveInvariant, PTL

(* A sign-in token opens one session, and an address has at most            *)
(* MAX_EMAIL_ATTEMPTS live ones (consume_login, start_email).               *)
THEOREM TokenSpentOnceHolds == Spec => []TokenSpentOnce
<1>1. IInv => TokenSpentOnce
    BY DEF IInv, TokenSpentOnce, LoginsHold, Unspoilt, AttemptsHold
<1> QED BY <1>1, InductiveInvariant, PTL

(* The organization keeps an owner, but for an invitation that writes over  *)
(* an owner's role (require_another_owner, accept_invitation).              *)
THEOREM LastOwnerKeptHolds == Spec => []LastOwnerKept
<1>1. IInv => LastOwnerKept
    BY DEF IInv
<1> QED BY <1>1, InductiveInvariant, PTL

(* A role or a key is changed by a caller who may at that moment, but for   *)
(* an invitation accepted since the check (update_member, remove_member,    *)
(* postgres_revoke_key).                                                    *)
THEOREM ChangesAuthorizedHolds == Spec => ChangesAuthorized
<1> DEFINE Roles1(u) ==
        role'[u] # role[u] =>
            \/ bootstrap' # bootstrap
            \/ invitation' # invitation
            \/ \E h \in Handlers :
                  /\ call[h].pc = "write" /\ call[h].user = u
                  /\ \/ /\ Allows(role[call[h].caller], call[h].op)
                        /\ ~Above(role[call[h].caller], role[u])
                        /\ ~Above(role[call[h].caller], role'[u])
                     \/ \E i \in Invitations : /\ Overwrote(i)
                                               /\ invitation[i].user \in {call[h].caller, u}
    Keys(k) ==
        credential[k] = "live" /\ credential'[k] = "revoked" =>
            \E h \in Handlers : call[h].item = k /\ role[call[h].caller] # "none"
<1>1. ASSUME IInv, Next, NEW u \in Users PROVE Roles1(u)
  <2> USE <1>1 DEF IInv
  <2>1. CASE \E v \in Users : Bootstrap(v)
      BY <2>1, AccessAssumption DEF Bootstrap
  <2>2. CASE \E i \in Invitations : AcceptInvitation(i)
    <3>1. PICK i \in Invitations : AcceptInvitation(i)
        BY <2>2
    <3>2. invitation'[i].accepted /\ ~invitation[i].accepted
        BY <3>1 DEF AcceptInvitation, Valid, Pending, TypeOK, Invitation
    <3> QED BY <3>2
  <2>3. CASE \E h \in Handlers : MemberWrite(h)
    <3>1. PICK h \in Handlers : MemberWrite(h)
        BY <2>3
    <3>2. call[h].pc = "write" /\ call[h].user \in Users
        BY <3>1 DEF MemberWrite, CallsHold, Carries, Operations, MemberRequests
    <3>3. SUFFICES ASSUME role'[u] # role[u] PROVE Roles1(u)
        OBVIOUS
    <3>4. call[h].user = u
        BY <3>1, <3>3 DEF MemberWrite, TypeOK
    <3>5. CASE MayWrite(h)
      <4>1. ~Above(role[call[h].caller], role'[u])
        <5>1. CASE role'[u] = "none"
            BY <5>1 DEF Above
        <5>2. CASE role'[u] # "none"
          <6>1. role'[u] = call[h].role /\ call[h].op # "remove_member"
              BY <3>1, <3>3, <3>4, <5>2 DEF MemberWrite, TypeOK
          <6> QED BY <3>5, <6>1 DEF MayWrite, CallerRole
        <5> QED BY <5>1, <5>2
      <4> QED BY <3>2, <3>4, <3>5, <4>1 DEF MayWrite, CallerRole
    <3>6. CASE TouchedByInvitation(h)
        BY <3>2, <3>4, <3>6 DEF TouchedByInvitation
    <3> QED BY <3>2, <3>5, <3>6 DEF WritersHold
  <2> QED BY <2>1, <2>2, <2>3, RoleSteps
<1>2. ASSUME IInv, Next, NEW k \in IngestKeys PROVE Keys(k)
  <2> SUFFICES ASSUME credential[k] = "live", credential'[k] = "revoked"
               PROVE  \E h \in Handlers : call[h].item = k /\ role[call[h].caller] # "none"
      OBVIOUS
  <2>1. ~UNCHANGED credential
      OBVIOUS
  <2>2. ~SignInStep
      BY <2>1 DEF SignInStep, StartEmail, StartGithub, Sent, Age, RevokeSession,
                  ExpireInvitation, AcceptInvitation
  <2>3. \A u \in Users : ~Bootstrap(u)
      BY <1>2 DEF Bootstrap, IInv, TypeOK
  <2>4. PICK h \in Handlers : HandlerStep(h)
      BY <1>2, <2>2, <2>3 DEF Next
  <2>5. CreateCredential(h) \/ RevokeCredential(h)
      BY <2>1, <2>4 DEF HandlerStep, Consume, VerifyEmail, CompleteGithub, Request, InviteRead,
                        InviteInsert, InviteDeliver, RevokeInvitation, MemberCheck, MemberWrite,
                        CreateRead, Drop
  <2>6. RevokeCredential(h)
      BY <1>2, <2>5 DEF CreateCredential, IInv, TypeOK
  <2>7. call[h].item = k
      BY <1>2, <2>6 DEF RevokeCredential, IInv, TypeOK
  <2>8. call[h].op = "revoke_key"
      BY <1>2, <2>6, <2>7, AccessAssumption
         DEF RevokeCredential, IInv, CallsHold, Carries, TokenRequests
  <2> QED BY <2>1, <2>6, <2>7, <2>8 DEF RevokeCredential, CallerRole
<1>3. IInv /\ [Next]_vars =>
        [(\A u \in Users : Roles1(u)) /\ (\A k \in IngestKeys : Keys(k))]_vars
    BY <1>1, <1>2
<1> QED BY <1>3, InductiveInvariant, PTL DEF Spec, ChangesAuthorized
=============================================================================
