------------------------------ MODULE Accounts ------------------------------
(***************************************************************************)
(* The users of the manager, what they may do with ONE server, and ONE     *)
(* invitation to it: the first setup, logins with the lockout after failed *)
(* ones (src/gsm/app/routers/auth.py), the administration of users         *)
(* (routers/users.py), and invitations (routers/invites.py, services/      *)
(* invite_service.py), with the checks of services/auth.py.  Every request *)
(* reads its rows, awaits, and commits the columns it has changed.  The    *)
(* database is PostgreSQL, the default: it refuses duplicates of a unique  *)
(* key and rows whose user is gone.  Second factors, passkeys and API keys *)
(* are left out.                                                           *)
(***************************************************************************)
EXTENDS Integers, FiniteSets

CONSTANTS
  NumReqs,     \* bound: requests in a behaviour
  Kinds,       \* Kinds[r]: the kinds of request that the r-th may be
  Roles,       \* the roles that are given to users
  MaxUses,     \* the values of an invitation's max_uses considered; NoMax: none
  LockAfter,   \* failed logins that lock an account (5 in the code)
  MaxFailed    \* bound: failed logins that are counted

Reqs     == 1 .. NumReqs
AllKinds == {"setup", "login", "logout", "create", "update", "delete", "access", "invite", "redeem", "revoke"}
NoMax    == 0

ASSUME BoundAssumption ==
  /\ NumReqs \in Nat \ {0} /\ LockAfter \in Nat \ {0} /\ MaxFailed \in Nat
  /\ MaxUses \subseteq Nat /\ MaxUses # {}
ASSUME ChoiceAssumption ==
  Kinds \in [Reqs -> SUBSET AllKinds] /\ Roles \subseteq {"viewer", "operator", "admin"} /\ Roles # {}

\* A user has the number of the request that made it; the founders are there at the start.
Founders == {NumReqs + 1, NumReqs + 2}
Users    == Reqs \cup Founders
Nobody   == 0

NoGrant  == [perm |-> "none", by |-> Nobody]
NoInvite == [by |-> Nobody, perm |-> "none", max |-> NoMax, uses |-> 0, active |-> FALSE]

VARIABLES
  users,     \* the users that have a row
  role,      \* role[u]
  failed,    \* failed[u]: failed_login_count
  until,     \* until[u]: locked_until is "none", "past" or in the "future"
  grant,     \* grant[u]: the permission of u on the server, and the request that gave it
  invite,    \* the invitation
  expired,   \* its expires_at has passed
  session,   \* the users that are logged in
  audited,   \* users that entries of the audit log refer to
  pc,        \* pc[r]: what request r awaits
  work,      \* work[r]: who makes request r, the user it is about, and what it has read
  founded,   \* history: there has been a user
  crossed,   \* history: deletions of two users by each other overlapped
  revoked,   \* history: the invitation was revoked
  redeemed,  \* history: its redemptions that succeeded
  shared,    \* history: two redemptions overlapped
  since,     \* history: since[u]: failed logins of u since the last that succeeded
  muddled    \* history: users of whom two logins overlapped

userVars == <<users, role, failed, until, grant>>
reqVars  == <<pc, work>>
histVars == <<founded, crossed, revoked, redeemed, shared, since, muddled>>
vars     == <<userVars, invite, expired, session, audited, reqVars, histVars>>

NoWork == [kind |-> "none", by |-> Nobody, target |-> Nobody, role |-> "viewer", right |-> FALSE,
           was |-> "viewer", failed |-> 0, until |-> "none", grant |-> NoGrant, uses |-> 0]

InFlight(r) == pc[r] = "commit" \/ pc[r] = "granting"
Goto(r, next) == pc' = [pc EXCEPT ![r] = next]
Refused(r) == Goto(r, "ended") /\ work' = [work EXCEPT ![r] = NoWork]

\* Request r, in turn, is of kind k.
Turn(r, k) == pc[r] = "idle" /\ k \in Kinds[r] /\ \A q \in 1 .. (r - 1) : pc[q] # "idle"

\* Request r has read what it needs, and awaits its commit.
Reads(r, w) == work' = [work EXCEPT ![r] = w] /\ Goto(r, "commit")

Others(r, k) == {q \in Reqs \ {r} : InFlight(q) /\ work[q].kind = k}

\* get_current_user: a session whose user is gone is cleared.
LoggedIn == session \cap users
\* require_role(request, "admin"), require_server_access(request, server_id, "manage")
Admins   == {u \in LoggedIn : role[u] = "admin"}
Managers == Admins \cup {u \in LoggedIn : grant[u].perm = "manage"}

Init ==
  /\ \/ users = {} /\ role = [u \in Users |-> "viewer"]
     \/ users = Founders /\ \E a \in Roles : role = [u \in Users |->
          IF u = NumReqs + 1 THEN "admin" ELSE IF u = NumReqs + 2 THEN a ELSE "viewer"]
  /\ failed = [u \in Users |-> 0] /\ until = [u \in Users |-> "none"]
  /\ grant = [u \in Users |-> NoGrant]
  /\ session = users /\ audited \in {{}, users} /\ expired = FALSE
  /\ \/ invite = NoInvite
     \/ users # {} /\ \E m \in MaxUses : invite = [NoInvite EXCEPT !.by = NumReqs + 1, !.perm = "manage",
                                                     !.max = m, !.active = TRUE]
  /\ pc = [r \in Reqs |-> "idle"] /\ work = [r \in Reqs |-> NoWork]
  /\ founded = (users # {}) /\ crossed = FALSE /\ revoked = FALSE /\ redeemed = 0 /\ shared = FALSE
  /\ since = [u \in Users |-> 0] /\ muddled = {}

-----------------------------------------------------------------------------
(* Setup and login                                                         *)

\* The users are counted; the first becomes an administrator.
Setup(r) ==
  /\ Turn(r, "setup") /\ users = {}
  /\ Reads(r, [NoWork EXCEPT !.kind = "setup"])
  /\ UNCHANGED <<userVars, invite, expired, session, audited, histVars>>

\* User r is inserted; the name may have been taken since it was compared.
Inserted(r, ro) ==
  \/ /\ users' = users \cup {r} /\ role' = [role EXCEPT ![r] = ro] /\ founded' = TRUE
  \/ users # {} /\ UNCHANGED <<users, role, founded>>

SetupCommit(r) ==
  /\ pc[r] = "commit" /\ work[r].kind = "setup"
  /\ Inserted(r, "admin") /\ session' = session \cup (users' \ users)
  /\ Refused(r)
  /\ UNCHANGED <<failed, until, grant, invite, expired, audited, crossed, revoked, redeemed, shared, since, muddled>>

\* The row is read and the password compared; a locked account is refused.
Login(r) ==
  /\ Turn(r, "login")
  /\ \E u \in users, right \in BOOLEAN :
       /\ right \/ failed[u] < MaxFailed
       /\ until[u] # "future"
       /\ Reads(r, [NoWork EXCEPT !.kind = "login", !.target = u, !.right = right,
                                  !.failed = failed[u], !.until = until[u]])
       /\ muddled' = IF \E q \in Others(r, "login") : work[q].target = u THEN muddled \cup {u} ELSE muddled
  /\ UNCHANGED <<userVars, invite, expired, session, audited, founded, crossed, revoked, redeemed, shared, since>>

\* A failed login writes the count it has read, plus one, and locks the account.
LoginFails(r) ==
  LET u == work[r].target
      n == work[r].failed + 1
  IN /\ pc[r] = "commit" /\ work[r].kind = "login" /\ ~work[r].right
     /\ IF u \in users
          THEN /\ failed' = [failed EXCEPT ![u] = n] /\ since' = [since EXCEPT ![u] = @ + 1]
               /\ until' = IF n >= LockAfter THEN [until EXCEPT ![u] = "future"] ELSE until
          ELSE UNCHANGED <<failed, until, since>>
     /\ Refused(r)
     /\ UNCHANGED <<users, role, grant, invite, expired, session, audited, founded, crossed, revoked, redeemed,
                    shared, muddled>>

\* Mutant: only the lock is cleared.
LoginKeepsCount(r) ==
  LET u == work[r].target IN
  /\ pc[r] = "commit" /\ work[r].kind = "login" /\ work[r].right
  /\ u \in users
  /\ until' = IF work[r].until = "none" THEN until ELSE [until EXCEPT ![u] = "none"]
  /\ since' = [since EXCEPT ![u] = 0]
  /\ session' = session \cup {u} /\ audited' = audited \cup {u}
  /\ Refused(r)
  /\ UNCHANGED <<users, role, failed, grant, invite, expired, founded, crossed, revoked, redeemed, shared, muddled>>

\* A login that succeeds clears what it has read of the count and the lock.
\* When the row is gone there is nobody to log in.
LoginSucceeds(r) ==
  LET u == work[r].target IN
  /\ pc[r] = "commit" /\ work[r].kind = "login" /\ work[r].right
  /\ IF u \in users
       THEN /\ failed' = IF work[r].failed = 0 THEN failed ELSE [failed EXCEPT ![u] = 0]
            /\ until'  = IF work[r].until = "none" THEN until ELSE [until EXCEPT ![u] = "none"]
            /\ since'  = [since EXCEPT ![u] = 0]
            /\ session' = session \cup {u} /\ audited' = audited \cup {u}
       ELSE UNCHANGED <<failed, until, since, session, audited>>
  /\ Refused(r)
  /\ UNCHANGED <<users, role, grant, invite, expired, founded, crossed, revoked, redeemed, shared, muddled>>

\* The time of a lock is over; the count stays.
Unlock(u) ==
  /\ until[u] = "future" /\ until' = [until EXCEPT ![u] = "past"]
  /\ UNCHANGED <<users, role, failed, grant, invite, expired, session, audited, reqVars, histVars>>

Logout(r) ==
  /\ Turn(r, "logout")
  /\ \E u \in session : session' = session \ {u} /\ audited' = audited \cup ({u} \cap users)
  /\ Refused(r)
  /\ UNCHANGED <<userVars, invite, expired, histVars>>

-----------------------------------------------------------------------------
(* Administration of users                                                 *)

\* create_user: the name is compared with those of the rows.
CreateUser(r) ==
  /\ Turn(r, "create")
  /\ \E a \in Admins, ro \in Roles : Reads(r, [NoWork EXCEPT !.kind = "create", !.by = a, !.role = ro])
  /\ UNCHANGED <<userVars, invite, expired, session, audited, histVars>>

\* A request that was carried out is entered in the audit log, which names who
\* made it, unless that row is gone.
Audit(r, done) == audited' = audited \cup (IF done THEN {work[r].by} \cap users' ELSE {})

CreateCommit(r) ==
  /\ pc[r] = "commit" /\ work[r].kind = "create"
  /\ Inserted(r, work[r].role) /\ Audit(r, r \in users')
  /\ Refused(r)
  /\ UNCHANGED <<failed, until, grant, invite, expired, session, crossed, revoked, redeemed, shared, since, muddled>>

\* update_user gives any user, also the last administrator, any role.
UpdateUser(r) ==
  /\ Turn(r, "update")
  /\ \E a \in Admins, u \in users, ro \in Roles :
       Reads(r, [NoWork EXCEPT !.kind = "update", !.by = a, !.target = u, !.role = ro, !.was = role[u]])
  /\ UNCHANGED <<userVars, invite, expired, session, audited, histVars>>

\* A role is written when it is not the one that was read.
UpdateCommit(r) ==
  LET u       == work[r].target
      changes == work[r].role # work[r].was
  IN
  /\ pc[r] = "commit" /\ work[r].kind = "update"
  /\ role' = IF changes /\ u \in users THEN [role EXCEPT ![u] = work[r].role] ELSE role
  /\ UNCHANGED users /\ Audit(r, changes => u \in users)
  /\ Refused(r)
  /\ UNCHANGED <<failed, until, grant, invite, expired, session, histVars>>

\* Mutant: an administrator may delete itself.
MayDeleteAnyone(a, u) == u \in users

\* "Cannot delete yourself"
MayDelete(a, u) == u \in users /\ a # u

DeleteUser(r) ==
  /\ Turn(r, "delete")
  /\ \E a \in Admins, u \in Users :
       /\ MayDelete(a, u)
       /\ Reads(r, [NoWork EXCEPT !.kind = "delete", !.by = a, !.target = u, !.grant = grant[u]])
       /\ crossed' = (crossed \/ \E q \in Others(r, "delete") : work[q].target = a)
  /\ UNCHANGED <<userVars, invite, expired, session, audited, founded, revoked, redeemed, shared, since, muddled>>

\* The database refuses to remove a user that the audit log or an invitation
\* refers to, or that was granted access since.
DeleteCommit(r) ==
  LET u == work[r].target IN
  /\ pc[r] = "commit" /\ work[r].kind = "delete"
  /\ IF u \in audited \/ invite.by = u \/ grant[u] \notin {NoGrant, work[r].grant}
       THEN UNCHANGED <<userVars, audited>>
       ELSE /\ users' = users \ {u} /\ grant' = [grant EXCEPT ![u] = NoGrant] /\ Audit(r, TRUE)
            /\ failed' = [failed EXCEPT ![u] = 0] /\ until' = [until EXCEPT ![u] = "none"]
            /\ UNCHANGED role
  /\ since' = IF u \in users' THEN since ELSE [since EXCEPT ![u] = 0]
  /\ Refused(r)
  /\ UNCHANGED <<invite, expired, session, founded, crossed, revoked, redeemed, shared, muddled>>

\* update_user_access replaces what the user has by what the form says.
Access(r) ==
  /\ Turn(r, "access")
  /\ \E a \in Admins, u \in users, p \in {"none", "manage"} :
       Reads(r, [NoWork EXCEPT !.kind = "access", !.by = a, !.target = u, !.grant = grant[u],
                               !.role = IF p = "none" THEN "viewer" ELSE "admin"])
  /\ UNCHANGED <<userVars, invite, expired, session, audited, histVars>>

\* The rows that were read are deleted and others inserted: the database
\* refuses a second one, and one of a user that is gone.
AccessCommit(r) ==
  LET u    == work[r].target
      free == grant[u] \in {NoGrant, work[r].grant}
      new  == IF work[r].role = "admin" THEN [perm |-> "manage", by |-> r] ELSE NoGrant
  IN /\ pc[r] = "commit" /\ work[r].kind = "access"
     /\ grant' = IF u \in users /\ free THEN [grant EXCEPT ![u] = new] ELSE grant
     /\ UNCHANGED users /\ Audit(r, new = NoGrant \/ (u \in users /\ free))
     /\ Refused(r)
     /\ UNCHANGED <<role, failed, until, invite, expired, session, histVars>>

-----------------------------------------------------------------------------
(* Invitations                                                             *)

Invite(r) ==
  /\ Turn(r, "invite") /\ invite = NoInvite
  /\ \E a \in Managers, m \in MaxUses : Reads(r, [NoWork EXCEPT !.kind = "invite", !.by = a, !.uses = m])
  /\ UNCHANGED <<userVars, invite, expired, session, audited, histVars>>

InviteCommit(r) ==
  /\ pc[r] = "commit" /\ work[r].kind = "invite"
  /\ invite' = IF invite = NoInvite /\ work[r].by \in users
                 THEN [NoInvite EXCEPT !.by = work[r].by, !.perm = "manage", !.max = work[r].uses, !.active = TRUE]
                 ELSE invite
  /\ Refused(r)
  /\ UNCHANGED <<userVars, expired, session, audited, histVars>>

\* redeem_invite: the invitation is read and checked.
Redeem(r) ==
  /\ Turn(r, "redeem")
  /\ invite.active /\ ~expired /\ (invite.max # NoMax => invite.uses < invite.max)
  /\ \E u \in LoggedIn :
       work' = [work EXCEPT ![r] = [NoWork EXCEPT !.kind = "redeem", !.target = u, !.uses = invite.uses]]
  /\ Goto(r, "granting")
  /\ shared' = (shared \/ Others(r, "redeem") # {})
  /\ UNCHANGED <<userVars, invite, expired, session, audited, founded, crossed, revoked, redeemed, since, muddled>>

\* The access that the user has is looked for.
LookForAccess(r) ==
  /\ pc[r] = "granting"
  /\ Reads(r, [work[r] EXCEPT !.grant = grant[work[r].target]])
  /\ UNCHANGED <<userVars, invite, expired, session, audited, histVars>>

\* Mutant: the whole row is written back.
RedeemWritesAll(r) ==
  LET u == work[r].target
      n == work[r].uses + 1
  IN /\ pc[r] = "commit" /\ work[r].kind = "redeem"
     /\ u \in users
     /\ grant' = IF grant[u] = NoGrant THEN [grant EXCEPT ![u] = [perm |-> invite.perm, by |-> r]] ELSE grant
     /\ invite' = [invite EXCEPT !.uses = n, !.active = (invite.max = NoMax \/ n < invite.max)]
     /\ redeemed' = redeemed + 1
     /\ Refused(r)
     /\ UNCHANGED <<users, role, failed, until, expired, session, audited, founded, crossed, revoked, shared,
                    since, muddled>>

\* The user gets its access unless it had one, the use is counted, and the last
\* use ends the invitation: the count and the end are all that is written of
\* it.  The database refuses everything when the user is gone or has got an
\* access meanwhile.
RedeemCommit(r) ==
  LET u   == work[r].target
      n   == work[r].uses + 1
      new == work[r].grant = NoGrant
  IN /\ pc[r] = "commit" /\ work[r].kind = "redeem"
     /\ IF new => (u \in users /\ grant[u] = NoGrant)
          THEN /\ grant' = IF new THEN [grant EXCEPT ![u] = [perm |-> invite.perm, by |-> r]] ELSE grant
               /\ invite' = [invite EXCEPT !.uses = n,
                               !.active = IF invite.max # NoMax /\ n >= invite.max THEN FALSE ELSE @]
               /\ redeemed' = redeemed + 1
          ELSE UNCHANGED <<grant, invite, redeemed>>
     /\ Refused(r)
     /\ UNCHANGED <<users, role, failed, until, expired, session, audited, founded, crossed, revoked, shared,
                    since, muddled>>

Revoke(r) ==
  /\ Turn(r, "revoke") /\ invite # NoInvite
  /\ \E a \in Managers : Reads(r, [NoWork EXCEPT !.kind = "revoke", !.by = a])
  /\ UNCHANGED <<userVars, invite, expired, session, audited, histVars>>

RevokeCommit(r) ==
  /\ pc[r] = "commit" /\ work[r].kind = "revoke"
  /\ invite' = [invite EXCEPT !.active = FALSE] /\ revoked' = TRUE
  /\ Refused(r)
  /\ UNCHANGED <<userVars, expired, session, audited, founded, crossed, redeemed, shared, since, muddled>>

\* The time of the invitation is over.
Expire ==
  /\ invite # NoInvite /\ ~expired /\ expired' = TRUE
  /\ UNCHANGED <<userVars, invite, session, audited, reqVars, histVars>>

\* Entries of the audit log are removed after 90 days.
Cleanup ==
  /\ audited # {} /\ audited' = {}
  /\ UNCHANGED <<userVars, invite, expired, session, reqVars, histVars>>

-----------------------------------------------------------------------------
Request(r) ==
  \/ Setup(r) \/ SetupCommit(r) \/ Login(r) \/ LoginFails(r) \/ LoginSucceeds(r) \/ Logout(r)
  \/ CreateUser(r) \/ CreateCommit(r) \/ UpdateUser(r) \/ UpdateCommit(r)
  \/ DeleteUser(r) \/ DeleteCommit(r) \/ Access(r) \/ AccessCommit(r)
  \/ Invite(r) \/ InviteCommit(r) \/ Redeem(r) \/ LookForAccess(r) \/ RedeemCommit(r)
  \/ Revoke(r) \/ RevokeCommit(r)

Next ==
  \/ \E r \in Reqs : Request(r)
  \/ \E u \in Users : Unlock(u)
  \/ Expire \/ Cleanup

Spec == Init /\ [][Next]_vars

-----------------------------------------------------------------------------
(* Properties                                                              *)

\* The ledger of the invitation is right: once revoked it stays revoked,
\* whatever redemptions were in flight; and unless two redemptions overlapped
\* every one is counted, there are no more than it allows, and the last of
\* them has ended it.
InviteLedger ==
  /\ revoked => ~invite.active
  /\ ~shared => /\ redeemed = invite.uses
                /\ invite.max # NoMax => redeemed <= invite.max /\ (redeemed = invite.max => ~invite.active)

\* Once it is set up the manager never runs out of users, which would open the
\* setup again, unless users deleted each other at the same time.
SomebodyRemains == founded /\ ~crossed => users # {}

\* The count of an account is that of its failed logins since the last that
\* succeeded, and it is locked only for enough of them, unless two logins of
\* the account overlapped.
LockIsEarned ==
  \A u \in users \ muddled :
    /\ failed[u] = since[u]
    /\ until[u] = "future" => since[u] >= LockAfter

=============================================================================
