--------------------------- MODULE AccountsProofs ---------------------------
(***************************************************************************)
(* The users of the manager, for any number of requests, roles and limits. *)
(***************************************************************************)
EXTENDS Accounts, TLAPS

RoleNames == {"viewer", "operator", "admin"}
Grants    == [perm : {"none", "manage"}, by : Reqs \cup {Nobody}]
Invites   == [by : Users \cup {Nobody}, perm : {"none", "manage"}, max : Nat, uses : Nat, active : BOOLEAN]
Locks     == {"none", "past", "future"}
Work      == [kind : AllKinds \cup {"none"}, by : Users \cup {Nobody}, target : Users \cup {Nobody},
              role : RoleNames, right : BOOLEAN, was : RoleNames, failed : Nat, until : Locks,
              grant : Grants, uses : Nat]

\* What the rows hold, and what a request has read of them.
RowTypes ==
  /\ users \subseteq Users /\ session \subseteq Users /\ muddled \subseteq Users
  /\ role \in [Users -> RoleNames] /\ grant \in [Users -> Grants]
  /\ failed \in [Users -> Nat] /\ since \in [Users -> Nat] /\ until \in [Users -> Locks]
  /\ invite \in Invites /\ redeemed \in Nat
  /\ founded \in BOOLEAN /\ crossed \in BOOLEAN /\ revoked \in BOOLEAN /\ shared \in BOOLEAN
RequestTypes ==
  /\ pc \in [Reqs -> {"idle", "granting", "commit", "ended"}] /\ work \in [Reqs -> Work]
  /\ \A r \in Reqs : pc[r] = "granting" => work[r].kind = "redeem" /\ work[r].target \in Users
AccountTypes == RowTypes /\ RequestTypes

-----------------------------------------------------------------------------
(* Types                                                                   *)

LEMMA Values == NoWork \in Work /\ NoGrant \in Grants /\ NoInvite \in Invites
BY DEF NoWork, NoGrant, NoInvite, NoMax, Nobody, Work, Grants, Invites, RoleNames, Locks, AllKinds

LEMMA TypesInit == Init => AccountTypes
<1> SUFFICES ASSUME Init PROVE AccountTypes
  OBVIOUS
<1>1. RequestTypes
  BY Values DEF Init, RequestTypes
<1>2. Founders \subseteq Users
  BY DEF Users
<1>3. users \subseteq Users /\ session \subseteq Users /\ muddled \subseteq Users
  BY <1>2 DEF Init
<1>4. role \in [Users -> RoleNames]
  BY ChoiceAssumption DEF Init, RoleNames
<1>5. invite \in Invites
  <2>1. CASE invite = NoInvite
    BY <2>1, Values
  <2>2. CASE \E m \in MaxUses : invite = [NoInvite EXCEPT !.by = NumReqs + 1, !.perm = "manage",
                                                      !.max = m, !.active = TRUE]
    <3>1. NumReqs + 1 \in Users
      BY DEF Users, Founders
    <3>2. PICK m \in MaxUses : invite = [NoInvite EXCEPT !.by = NumReqs + 1, !.perm = "manage",
                                                      !.max = m, !.active = TRUE]
      BY <2>2
    <3>3. m \in Nat
      BY BoundAssumption
    <3>4. QED
      BY <3>1, <3>2, <3>3, Values DEF Invites
  <2>3. QED
    BY <2>1, <2>2 DEF Init
<1>6. QED
  BY <1>1, <1>3, <1>4, <1>5, Values DEF Init, AccountTypes, RowTypes, Locks

LEMMA ReadsTypes ==
  ASSUME RequestTypes, NEW r \in Reqs, NEW w \in Work, Reads(r, w)
  PROVE  RequestTypes'
BY DEF RequestTypes, Reads, Goto

LEMMA RefusedTypes ==
  ASSUME RequestTypes, NEW r \in Reqs, Refused(r)
  PROVE  RequestTypes'
BY Values DEF RequestTypes, Refused, Goto

LEMMA RequestTypesNext ==
  ASSUME AccountTypes, NEW r \in Reqs, Request(r)
  PROVE  AccountTypes'
<1> USE Values, BoundAssumption, ChoiceAssumption
<1> USE DEF AccountTypes, RowTypes, userVars, histVars
<1>1. CASE Setup(r)
  <2> DEFINE w == [NoWork EXCEPT !.kind = "setup"]
  <2>1. w \in Work
    BY DEF Work, AllKinds
  <2>2. Reads(r, w)
    BY <1>1 DEF Setup
  <2>3. RowTypes'
    BY <1>1 DEF Setup, histVars
  <2> HIDE DEF w
  <2>4. RequestTypes'
    BY <2>1, <2>2, ReadsTypes
  <2>5. QED
    BY <2>3, <2>4
<1>2. CASE SetupCommit(r)
  <2>1. RequestTypes'
    BY <1>2, RefusedTypes DEF SetupCommit
  <2>2. work[r] \in Work /\ r \in Users
    BY DEF RequestTypes, Users
  <2>3. RowTypes'
    BY <1>2, <2>2 DEF SetupCommit, Work, Inserted, RoleNames
  <2>4. QED
    BY <2>1, <2>3
<1>3. CASE Login(r)
  <2>1. PICK u \in users, right \in BOOLEAN : Reads(r, [NoWork EXCEPT !.kind = "login", !.target = u,
                                     !.right = right, !.failed = failed[u], !.until = until[u]])
    BY <1>3 DEF Login
  <2>2. RequestTypes'
    <3> DEFINE w == [NoWork EXCEPT !.kind = "login", !.target = u,
                                     !.right = right, !.failed = failed[u], !.until = until[u]]
    <3>1. u \in Users /\ failed[u] \in Nat /\ until[u] \in Locks
      OBVIOUS
    <3>2. w \in Work
      BY <3>1 DEF Work, AllKinds
    <3>3. Reads(r, w)
      BY <2>1
    <3> HIDE DEF w
    <3>4. QED
      BY <3>2, <3>3, ReadsTypes
  <2>3. RowTypes'
    BY <1>3 DEF Login
  <2>4. QED
    BY <2>2, <2>3
<1>4. CASE LoginFails(r)
  <2>1. RequestTypes'
    BY <1>4, RefusedTypes DEF LoginFails
  <2>2. work[r] \in Work /\ r \in Users
    BY DEF RequestTypes, Users
  <2>3. RowTypes'
    BY <1>4, <2>2 DEF LoginFails, Work, Locks
  <2>4. QED
    BY <2>1, <2>3
<1>5. CASE LoginSucceeds(r)
  <2>1. RequestTypes'
    BY <1>5, RefusedTypes DEF LoginSucceeds
  <2>2. work[r] \in Work /\ r \in Users
    BY DEF RequestTypes, Users
  <2>3. RowTypes'
    BY <1>5, <2>2 DEF LoginSucceeds, Work, Locks
  <2>4. QED
    BY <2>1, <2>3
<1>6. CASE Logout(r)
  BY <1>6, RefusedTypes DEF Logout, RequestTypes, Work, Inserted, Audit, Users, Grants, Invites, Locks, RoleNames
<1>7. CASE CreateUser(r)
  <2>1. PICK a \in Admins, ro \in Roles : Reads(r, [NoWork EXCEPT !.kind = "create", !.by = a, !.role = ro])
    BY <1>7 DEF CreateUser
  <2> DEFINE w == [NoWork EXCEPT !.kind = "create", !.by = a, !.role = ro]
  <2>2. a \in Users /\ ro \in RoleNames
    BY DEF Admins, LoggedIn, RoleNames
  <2>3. w \in Work
    BY <2>2 DEF Work, AllKinds
  <2>4. Reads(r, w)
    BY <2>1
  <2>5. RowTypes'
    BY <1>7 DEF CreateUser, histVars
  <2> HIDE DEF w
  <2>6. RequestTypes'
    BY <2>3, <2>4, ReadsTypes
  <2>7. QED
    BY <2>5, <2>6
<1>8. CASE CreateCommit(r)
  <2>1. RequestTypes'
    BY <1>8, RefusedTypes DEF CreateCommit
  <2>2. work[r] \in Work /\ r \in Users
    BY DEF RequestTypes, Users
  <2>3. RowTypes'
    BY <1>8, <2>2 DEF CreateCommit, Work, Inserted, RoleNames
  <2>4. QED
    BY <2>1, <2>3
<1>9. CASE UpdateUser(r)
  <2>1. PICK a \in Admins, u \in users, ro \in Roles :
          Reads(r, [NoWork EXCEPT !.kind = "update", !.by = a, !.target = u, !.role = ro, !.was = role[u]])
    BY <1>9 DEF UpdateUser
  <2> DEFINE w == [NoWork EXCEPT !.kind = "update", !.by = a, !.target = u, !.role = ro, !.was = role[u]]
  <2>2. a \in Users /\ u \in Users /\ ro \in RoleNames /\ role[u] \in RoleNames
    BY DEF Admins, LoggedIn, RoleNames
  <2>3. w \in Work
    BY <2>2 DEF Work, AllKinds, RoleNames
  <2>4. Reads(r, w)
    BY <2>1
  <2> HIDE DEF w
  <2>5. RequestTypes'
    BY <2>3, <2>4, ReadsTypes
  <2>6. RowTypes'
    BY <1>9 DEF UpdateUser
  <2>7. QED
    BY <2>5, <2>6
<1>10. CASE UpdateCommit(r)
  <2>1. RequestTypes'
    BY <1>10, RefusedTypes DEF UpdateCommit
  <2>2. work[r].role \in RoleNames
    BY DEF RequestTypes, Work
  <2>3. RowTypes'
    BY <1>10, <2>2 DEF UpdateCommit, histVars
  <2>4. QED
    BY <2>1, <2>3
<1>11. CASE DeleteUser(r)
  <2>1. PICK a \in Admins, u \in Users :
          /\ Reads(r, [NoWork EXCEPT !.kind = "delete", !.by = a, !.target = u, !.grant = grant[u]])
          /\ crossed' = (crossed \/ \E q \in Others(r, "delete") : work[q].target = a)
    BY <1>11 DEF DeleteUser
  <2> DEFINE w == [NoWork EXCEPT !.kind = "delete", !.by = a, !.target = u, !.grant = grant[u]]
  <2>2. a \in Users /\ grant[u] \in Grants
    BY DEF Admins, LoggedIn
  <2>3. w \in Work
    BY <2>2 DEF Work, AllKinds, RoleNames
  <2>4. Reads(r, w)
    BY <2>1
  <2> HIDE DEF w
  <2>5. RequestTypes'
    BY <2>3, <2>4, ReadsTypes
  <2>6. RowTypes'
    BY <1>11, <2>1 DEF DeleteUser
  <2>7. QED
    BY <2>5, <2>6
<1>12. CASE DeleteCommit(r)
  <2>1. RequestTypes'
    BY <1>12, RefusedTypes DEF DeleteCommit
  <2> DEFINE u == work[r].target
  <2>2. \/ UNCHANGED userVars
        \/ /\ users' = users \ {u} /\ grant' = [grant EXCEPT ![u] = NoGrant] /\ UNCHANGED role
           /\ failed' = [failed EXCEPT ![u] = 0] /\ until' = [until EXCEPT ![u] = "none"]
    BY <1>12, Zenon DEF DeleteCommit
  <2>3. since' = since \/ since' = [since EXCEPT ![u] = 0]
    BY <1>12, Zenon DEF DeleteCommit
  <2>4. UNCHANGED <<invite, session, founded, crossed, revoked, redeemed, shared, muddled>>
    BY <1>12 DEF DeleteCommit
  <2>5. QED
    BY <2>1, <2>2, <2>3, <2>4 DEF Locks
<1>13. CASE Access(r)
  <2>1. PICK a \in Admins, u \in users, p \in {"none", "manage"} :
          Reads(r, [NoWork EXCEPT !.kind = "access", !.by = a, !.target = u, !.grant = grant[u],
                               !.role = IF p = "none" THEN "viewer" ELSE "admin"])
    BY <1>13 DEF Access
  <2> DEFINE ro == IF p = "none" THEN "viewer" ELSE "admin"
             w  == [NoWork EXCEPT !.kind = "access", !.by = a, !.target = u, !.grant = grant[u], !.role = ro]
  <2>2. a \in Users /\ u \in Users /\ grant[u] \in Grants /\ ro \in RoleNames
    BY DEF Admins, LoggedIn, RoleNames
  <2> HIDE DEF ro
  <2>3. w \in Work
    BY <2>2 DEF Work, AllKinds, RoleNames
  <2>4. Reads(r, w)
    BY <2>1 DEF ro
  <2> HIDE DEF w
  <2>5. RequestTypes'
    BY <2>3, <2>4, ReadsTypes
  <2>6. RowTypes'
    BY <1>13 DEF Access
  <2>7. QED
    BY <2>5, <2>6
<1>14. CASE AccessCommit(r)
  <2>1. RequestTypes'
    BY <1>14, RefusedTypes DEF AccessCommit
  <2>2. [perm |-> "manage", by |-> r] \in Grants
    BY DEF Grants
  <2>3. RowTypes'
    BY <1>14, <2>2 DEF AccessCommit, histVars
  <2>4. QED
    BY <2>1, <2>3
<1>15. CASE Invite(r)
  <2>1. PICK a \in Managers, m \in MaxUses : Reads(r, [NoWork EXCEPT !.kind = "invite", !.by = a, !.uses = m])
    BY <1>15 DEF Invite
  <2> DEFINE w == [NoWork EXCEPT !.kind = "invite", !.by = a, !.uses = m]
  <2>2. a \in Users /\ m \in Nat
    BY DEF Managers, Admins, LoggedIn
  <2>3. w \in Work
    BY <2>2 DEF Work, AllKinds
  <2>4. Reads(r, w)
    BY <2>1
  <2>5. RowTypes'
    BY <1>15 DEF Invite, histVars
  <2> HIDE DEF w
  <2>6. RequestTypes'
    BY <2>3, <2>4, ReadsTypes
  <2>7. QED
    BY <2>5, <2>6
<1>16. CASE InviteCommit(r)
  <2>1. RequestTypes'
    BY <1>16, RefusedTypes DEF InviteCommit
  <2>2. /\ work[r].by \in Users \cup {Nobody} /\ work[r].uses \in Nat
        /\ [NoInvite EXCEPT !.by = work[r].by, !.perm = "manage", !.max = work[r].uses, !.active = TRUE] \in Invites
    BY DEF RequestTypes, Work, NoInvite, Invites
  <2>3. RowTypes'
    BY <1>16, <2>2 DEF InviteCommit, histVars
  <2>4. QED
    BY <2>1, <2>3
<1>17. CASE Redeem(r)
  <2>1. PICK u \in LoggedIn :
          work' = [work EXCEPT ![r] = [NoWork EXCEPT !.kind = "redeem", !.target = u, !.uses = invite.uses]]
    BY <1>17 DEF Redeem
  <2>2. [NoWork EXCEPT !.kind = "redeem", !.target = u, !.uses = invite.uses] \in Work
    BY DEF LoggedIn, Work, AllKinds, Invites
  <2>3. RequestTypes'
    BY <1>17, <2>1, <2>2 DEF Redeem, RequestTypes, Goto, LoggedIn
  <2>4. RowTypes'
    BY <1>17 DEF Redeem
  <2>5. QED
    BY <2>3, <2>4
<1>18. CASE LookForAccess(r)
  <2>1. work[r] \in Work
    BY DEF RequestTypes
  <2>2. grant[work[r].target] \in Grants
    BY <1>18 DEF LookForAccess, RequestTypes
  <2>3. RequestTypes'
    BY <1>18, <2>1, <2>2, ReadsTypes DEF LookForAccess, Work
  <2>4. RowTypes'
    BY <1>18 DEF LookForAccess
  <2>5. QED
    BY <2>3, <2>4
<1>19. CASE RedeemCommit(r)
  <2>1. RequestTypes'
    BY <1>19, RefusedTypes DEF RedeemCommit
  <2>2. work[r].uses + 1 \in Nat
    BY DEF RequestTypes, Work
  <2>3. [perm |-> invite.perm, by |-> r] \in Grants
    BY DEF Grants, Invites
  <2>4. grant' \in [Users -> Grants]
    BY <1>19, <2>3 DEF RedeemCommit
  <2>5. invite' \in Invites /\ redeemed' \in Nat
    <3>1. \/ UNCHANGED <<invite, redeemed>>
          \/ redeemed' = redeemed + 1 /\ \E b \in BOOLEAN :
                invite' = [invite EXCEPT !.uses = work[r].uses + 1, !.active = b]
      BY <1>19 DEF RedeemCommit, Invites
    <3>2. ASSUME NEW n \in Nat, NEW b \in BOOLEAN PROVE [invite EXCEPT !.uses = n, !.active = b] \in Invites
      BY DEF Invites
    <3>3. invite' \in Invites
      BY <2>2, <3>1, <3>2, Zenon
    <3>4. redeemed' = redeemed \/ redeemed' = redeemed + 1
      BY <3>1, Zenon
    <3>5. QED
      BY <3>3, <3>4
  <2>6. QED
    BY <1>19, <2>1, <2>4, <2>5 DEF RedeemCommit
<1>20. CASE Revoke(r)
  <2>1. PICK a \in Managers : Reads(r, [NoWork EXCEPT !.kind = "revoke", !.by = a])
    BY <1>20 DEF Revoke
  <2> DEFINE w == [NoWork EXCEPT !.kind = "revoke", !.by = a]
  <2>2. a \in Users
    BY DEF Managers, Admins, LoggedIn
  <2>3. w \in Work
    BY <2>2 DEF Work, AllKinds
  <2>4. Reads(r, w)
    BY <2>1
  <2>5. RowTypes'
    BY <1>20 DEF Revoke, histVars
  <2> HIDE DEF w
  <2>6. RequestTypes'
    BY <2>3, <2>4, ReadsTypes
  <2>7. QED
    BY <2>5, <2>6
<1>21. CASE RevokeCommit(r)
  <2>1. RequestTypes'
    BY <1>21, RefusedTypes DEF RevokeCommit
  <2>2. [invite EXCEPT !.active = FALSE] \in Invites
    BY DEF Invites
  <2>3. RowTypes'
    BY <1>21, <2>2 DEF RevokeCommit
  <2>4. QED
    BY <2>1, <2>3
<1>22. QED
  BY <1>1, <1>2, <1>3, <1>4, <1>5, <1>6, <1>7, <1>8, <1>9, <1>10, <1>11, <1>12, <1>13, <1>14, <1>15, <1>16, <1>17, <1>18, <1>19, <1>20, <1>21 DEF Request

LEMMA TypesNext == AccountTypes /\ [Next]_vars => AccountTypes'
<1> SUFFICES ASSUME AccountTypes, [Next]_vars PROVE AccountTypes'
  OBVIOUS
<1> USE DEF AccountTypes, RowTypes, RequestTypes
<1>1. ASSUME NEW r \in Reqs, Request(r) PROVE AccountTypes'
  BY <1>1, RequestTypesNext
<1>2. ASSUME NEW u \in Users, Unlock(u) PROVE AccountTypes'
  BY <1>2 DEF Unlock, Locks, reqVars, histVars
<1>3. CASE Expire
  BY <1>3 DEF Expire, userVars, reqVars, histVars
<1>4. CASE Cleanup
  BY <1>4 DEF Cleanup, userVars, reqVars, histVars
<1>5. CASE UNCHANGED vars
  BY <1>5 DEF vars, userVars, reqVars, histVars
<1>6. QED
  BY <1>1, <1>2, <1>3, <1>4, <1>5 DEF Next

-----------------------------------------------------------------------------
(* Requests in flight                                                      *)

\* The other requests are where they were.
OthersStay(r) == \A q \in Reqs \ {r} : work'[q] = work[q] /\ pc'[q] = pc[q]

LEMMA ReadsWork ==
  ASSUME RequestTypes, NEW r \in Reqs, NEW w, Reads(r, w)
  PROVE  work'[r] = w /\ pc'[r] = "commit" /\ OthersStay(r)
BY DEF RequestTypes, Reads, Goto, OthersStay

\* Which request reads.
LEMMA KindRead ==
  ASSUME RequestTypes, NEW r \in Reqs
  PROVE  /\ Setup(r) => work'[r].kind = "setup" /\ pc'[r] = "commit" /\ OthersStay(r)
         /\ Login(r) => work'[r].kind = "login" /\ pc'[r] = "commit" /\ OthersStay(r)
         /\ CreateUser(r) => work'[r].kind = "create" /\ pc'[r] = "commit" /\ OthersStay(r)
         /\ UpdateUser(r) => work'[r].kind = "update" /\ pc'[r] = "commit" /\ OthersStay(r)
         /\ DeleteUser(r) => work'[r].kind = "delete" /\ pc'[r] = "commit" /\ OthersStay(r)
         /\ Access(r) => work'[r].kind = "access" /\ pc'[r] = "commit" /\ OthersStay(r)
         /\ Invite(r) => work'[r].kind = "invite" /\ pc'[r] = "commit" /\ OthersStay(r)
         /\ Revoke(r) => work'[r].kind = "revoke" /\ pc'[r] = "commit" /\ OthersStay(r)
<1> USE Values DEF Work
<1>1. ASSUME Setup(r) PROVE work'[r].kind = "setup" /\ pc'[r] = "commit" /\ OthersStay(r)
  BY <1>1, ReadsWork DEF Setup
<1>2. ASSUME Login(r) PROVE work'[r].kind = "login" /\ pc'[r] = "commit" /\ OthersStay(r)
  <2>1. PICK u \in users, right \in BOOLEAN :
          Reads(r, [NoWork EXCEPT !.kind = "login", !.target = u, !.right = right,
                                  !.failed = failed[u], !.until = until[u]])
    BY <1>2 DEF Login
  <2> DEFINE w == [NoWork EXCEPT !.kind = "login", !.target = u, !.right = right,
                                  !.failed = failed[u], !.until = until[u]]
  <2>2. w.kind = "login"
    OBVIOUS
  <2>3. Reads(r, w)
    BY <2>1
  <2> HIDE DEF w
  <2>4. QED
    BY <2>2, <2>3, ReadsWork
<1>3. ASSUME CreateUser(r) PROVE work'[r].kind = "create" /\ pc'[r] = "commit" /\ OthersStay(r)
  <2>1. PICK a \in Admins, ro \in Roles :
          Reads(r, [NoWork EXCEPT !.kind = "create", !.by = a, !.role = ro])
    BY <1>3 DEF CreateUser
  <2> DEFINE w == [NoWork EXCEPT !.kind = "create", !.by = a, !.role = ro]
  <2>2. w.kind = "create"
    OBVIOUS
  <2>3. Reads(r, w)
    BY <2>1
  <2> HIDE DEF w
  <2>4. QED
    BY <2>2, <2>3, ReadsWork
<1>4. ASSUME UpdateUser(r) PROVE work'[r].kind = "update" /\ pc'[r] = "commit" /\ OthersStay(r)
  <2>1. PICK a \in Admins, u \in users, ro \in Roles :
          Reads(r, [NoWork EXCEPT !.kind = "update", !.by = a, !.target = u, !.role = ro, !.was = role[u]])
    BY <1>4 DEF UpdateUser
  <2> DEFINE w == [NoWork EXCEPT !.kind = "update", !.by = a, !.target = u, !.role = ro, !.was = role[u]]
  <2>2. w.kind = "update"
    OBVIOUS
  <2>3. Reads(r, w)
    BY <2>1
  <2> HIDE DEF w
  <2>4. QED
    BY <2>2, <2>3, ReadsWork
<1>5. ASSUME DeleteUser(r) PROVE work'[r].kind = "delete" /\ pc'[r] = "commit" /\ OthersStay(r)
  <2>1. PICK a \in Admins, u \in Users :
          Reads(r, [NoWork EXCEPT !.kind = "delete", !.by = a, !.target = u, !.grant = grant[u]])
    BY <1>5 DEF DeleteUser
  <2> DEFINE w == [NoWork EXCEPT !.kind = "delete", !.by = a, !.target = u, !.grant = grant[u]]
  <2>2. w.kind = "delete"
    OBVIOUS
  <2>3. Reads(r, w)
    BY <2>1
  <2> HIDE DEF w
  <2>4. QED
    BY <2>2, <2>3, ReadsWork
<1>6. ASSUME Access(r) PROVE work'[r].kind = "access" /\ pc'[r] = "commit" /\ OthersStay(r)
  <2>1. PICK a \in Admins, u \in users, p \in {"none", "manage"} :
          Reads(r, [NoWork EXCEPT !.kind = "access", !.by = a, !.target = u, !.grant = grant[u],
                               !.role = IF p = "none" THEN "viewer" ELSE "admin"])
    BY <1>6 DEF Access
  <2> DEFINE w == [NoWork EXCEPT !.kind = "access", !.by = a, !.target = u, !.grant = grant[u],
                               !.role = IF p = "none" THEN "viewer" ELSE "admin"]
  <2>2. w.kind = "access"
    OBVIOUS
  <2>3. Reads(r, w)
    BY <2>1
  <2> HIDE DEF w
  <2>4. QED
    BY <2>2, <2>3, ReadsWork
<1>7. ASSUME Invite(r) PROVE work'[r].kind = "invite" /\ pc'[r] = "commit" /\ OthersStay(r)
  <2>1. PICK a \in Managers, m \in MaxUses :
          Reads(r, [NoWork EXCEPT !.kind = "invite", !.by = a, !.uses = m])
    BY <1>7 DEF Invite
  <2> DEFINE w == [NoWork EXCEPT !.kind = "invite", !.by = a, !.uses = m]
  <2>2. w.kind = "invite"
    OBVIOUS
  <2>3. Reads(r, w)
    BY <2>1
  <2> HIDE DEF w
  <2>4. QED
    BY <2>2, <2>3, ReadsWork
<1>8. ASSUME Revoke(r) PROVE work'[r].kind = "revoke" /\ pc'[r] = "commit" /\ OthersStay(r)
  <2>1. PICK a \in Managers :
          Reads(r, [NoWork EXCEPT !.kind = "revoke", !.by = a])
    BY <1>8 DEF Revoke
  <2> DEFINE w == [NoWork EXCEPT !.kind = "revoke", !.by = a]
  <2>2. w.kind = "revoke"
    OBVIOUS
  <2>3. Reads(r, w)
    BY <2>1
  <2> HIDE DEF w
  <2>4. QED
    BY <2>2, <2>3, ReadsWork
<1>9. QED
  BY <1>1, <1>2, <1>3, <1>4, <1>5, <1>6, <1>7, <1>8

LEMMA RefusedWork ==
  ASSUME RequestTypes, NEW r \in Reqs, Refused(r)
  PROVE  pc'[r] = "ended" /\ OthersStay(r)
BY DEF RequestTypes, Refused, Goto, OthersStay

LEMMA RedeemWork ==
  ASSUME RequestTypes, NEW r \in Reqs, Redeem(r)
  PROVE  /\ pc'[r] = "granting" /\ OthersStay(r)
         /\ work'[r].kind = "redeem" /\ work'[r].uses = invite.uses
<1>1. PICK u \in LoggedIn :
        work' = [work EXCEPT ![r] = [NoWork EXCEPT !.kind = "redeem", !.target = u, !.uses = invite.uses]]
  BY DEF Redeem
<1> DEFINE w == [NoWork EXCEPT !.kind = "redeem", !.target = u, !.uses = invite.uses]
<1>2. w.kind = "redeem" /\ w.uses = invite.uses
  BY Values DEF Work
<1>3. work'[r] = w
  BY <1>1 DEF RequestTypes
<1>4. QED
  BY <1>1, <1>2, <1>3 DEF Redeem, RequestTypes, Goto, OthersStay

LEMMA LookWork ==
  ASSUME RequestTypes, NEW r \in Reqs, LookForAccess(r)
  PROVE  /\ pc[r] = "granting" /\ pc'[r] = "commit" /\ OthersStay(r)
         /\ work[r].kind = "redeem" /\ work'[r].kind = "redeem" /\ work'[r].uses = work[r].uses
<1> DEFINE w == [work[r] EXCEPT !.grant = grant[work[r].target]]
<1>1. w.kind = work[r].kind /\ w.uses = work[r].uses
  BY DEF RequestTypes, Work
<1>2. pc[r] = "granting" /\ Reads(r, w)
  BY DEF LookForAccess
<1>3. QED
  BY <1>1, <1>2, ReadsWork DEF RequestTypes

-----------------------------------------------------------------------------
(* Somebody remains                                                        *)

Deletes(r) == InFlight(r) /\ work[r].kind = "delete"

\* There is a user whom no deletion in flight is about: the one that asked for
\* the latest of them.
SafeUser ==
  /\ users # {} => founded
  /\ \A r \in Reqs : Deletes(r) => founded
  /\ founded /\ ~crossed => \E u \in users : \A r \in Reqs : Deletes(r) => work[r].target # u

LEMMA SafeUserInit == Init => SafeUser
BY DEF Init, SafeUser, Deletes, InFlight, Founders

\* A step that neither asks for a deletion nor changes the users.
LEMMA NobodyGoes ==
  ASSUME SafeUser, NEW r \in Reqs, OthersStay(r), ~Deletes(r)', UNCHANGED <<users, founded, crossed>>
  PROVE  SafeUser'
BY DEF SafeUser, Deletes, InFlight, OthersStay

LEMMA SomebodyComes ==
  ASSUME SafeUser, NEW r \in Reqs, OthersStay(r), ~Deletes(r)', NEW ro, Inserted(r, ro), UNCHANGED crossed
  PROVE  SafeUser'
<1>1. CASE UNCHANGED <<users, founded>>
  BY <1>1, NobodyGoes
<1>2. CASE users' = users \cup {r} /\ founded' /\ founded
  BY <1>2 DEF SafeUser, Deletes, InFlight, OthersStay
<1>3. CASE users' = users \cup {r} /\ founded' /\ ~founded
  BY <1>3 DEF SafeUser, Deletes, InFlight, OthersStay
<1>4. QED
  BY <1>1, <1>2, <1>3 DEF Inserted

LEMMA SafeUserRequest ==
  ASSUME AccountTypes, SafeUser, NEW r \in Reqs, Request(r)
  PROVE  SafeUser'
<1> USE DEF userVars, histVars, Deletes, InFlight
<1>0. RequestTypes /\ NoWork.kind = "none" /\ users \subseteq Users
  BY DEF AccountTypes, RowTypes, NoWork
<1>1. CASE Setup(r)
  BY <1>0, <1>1, KindRead, NobodyGoes DEF Setup
<1>2. CASE SetupCommit(r)
  BY <1>0, <1>2, RefusedWork, SomebodyComes DEF SetupCommit
<1>3. CASE Login(r)
  BY <1>0, <1>3, KindRead, NobodyGoes DEF Login
<1>4. CASE LoginFails(r)
  BY <1>0, <1>4, RefusedWork, NobodyGoes DEF LoginFails
<1>5. CASE LoginSucceeds(r)
  BY <1>0, <1>5, RefusedWork, NobodyGoes DEF LoginSucceeds
<1>6. CASE Logout(r)
  BY <1>0, <1>6, RefusedWork, NobodyGoes DEF Logout
<1>7. CASE CreateUser(r)
  BY <1>0, <1>7, KindRead, NobodyGoes DEF CreateUser
<1>8. CASE CreateCommit(r)
  BY <1>0, <1>8, RefusedWork, SomebodyComes DEF CreateCommit
<1>9. CASE UpdateUser(r)
  BY <1>0, <1>9, KindRead, NobodyGoes DEF UpdateUser
<1>10. CASE UpdateCommit(r)
  BY <1>0, <1>10, RefusedWork, NobodyGoes DEF UpdateCommit
<1>11. CASE DeleteUser(r)
  <2>1. PICK a \in Admins, u \in Users :
          /\ MayDelete(a, u)
          /\ Reads(r, [NoWork EXCEPT !.kind = "delete", !.by = a, !.target = u, !.grant = grant[u]])
          /\ crossed' = (crossed \/ \E q \in Others(r, "delete") : work[q].target = a)
    BY <1>11 DEF DeleteUser
  <2>2. UNCHANGED <<users, founded>>
    BY <1>11 DEF DeleteUser
  <2> DEFINE w == [NoWork EXCEPT !.kind = "delete", !.by = a, !.target = u, !.grant = grant[u]]
  <2>3. w.kind = "delete" /\ w.target = u
    BY DEF NoWork
  <2>4. work'[r] = w /\ pc'[r] = "commit" /\ OthersStay(r)
    BY <1>0, <2>1, ReadsWork
  <2>5. founded
    BY <2>1 DEF MayDelete, SafeUser
  <2>6. ~crossed' => \A q \in Reqs : Deletes(q)' => work'[q].target # a
    BY <2>1, <2>3, <2>4 DEF OthersStay, Others, MayDelete
  <2>7. a \in users'
    BY <2>1, <2>2 DEF Admins, LoggedIn
  <2>8. QED
    BY <2>2, <2>5, <2>6, <2>7 DEF SafeUser
<1>12. CASE DeleteCommit(r)
  <2>1. users' = users \/ users' = users \ {work[r].target}
    BY <1>12, Zenon DEF DeleteCommit
  <2>2. UNCHANGED <<founded, crossed>> /\ Deletes(r) /\ pc'[r] = "ended" /\ OthersStay(r)
    BY <1>0, <1>12, RefusedWork DEF DeleteCommit
  <2>3. QED
    BY <2>1, <2>2 DEF SafeUser, OthersStay
<1>13. CASE Access(r)
  BY <1>0, <1>13, KindRead, NobodyGoes DEF Access
<1>14. CASE AccessCommit(r)
  BY <1>0, <1>14, RefusedWork, NobodyGoes DEF AccessCommit
<1>15. CASE Invite(r)
  BY <1>0, <1>15, KindRead, NobodyGoes DEF Invite
<1>16. CASE InviteCommit(r)
  BY <1>0, <1>16, RefusedWork, NobodyGoes DEF InviteCommit
<1>17. CASE Redeem(r)
  BY <1>0, <1>17, RedeemWork, NobodyGoes DEF Redeem
<1>18. CASE LookForAccess(r)
  BY <1>0, <1>18, LookWork, NobodyGoes DEF LookForAccess
<1>19. CASE RedeemCommit(r)
  BY <1>0, <1>19, RefusedWork, NobodyGoes DEF RedeemCommit
<1>20. CASE Revoke(r)
  BY <1>0, <1>20, KindRead, NobodyGoes DEF Revoke
<1>21. CASE RevokeCommit(r)
  BY <1>0, <1>21, RefusedWork, NobodyGoes DEF RevokeCommit
<1>22. QED
  BY <1>1, <1>2, <1>3, <1>4, <1>5, <1>6, <1>7, <1>8, <1>9, <1>10, <1>11, <1>12, <1>13, <1>14, <1>15, <1>16, <1>17, <1>18, <1>19, <1>20, <1>21 DEF Request

LEMMA SafeUserNext == AccountTypes /\ SafeUser /\ [Next]_vars => SafeUser'
<1> SUFFICES ASSUME AccountTypes, SafeUser, [Next]_vars PROVE SafeUser'
  OBVIOUS
<1>1. ASSUME NEW r \in Reqs, Request(r) PROVE SafeUser'
  BY <1>1, SafeUserRequest
<1>2. ASSUME UNCHANGED <<users, founded, crossed, pc, work>> PROVE SafeUser'
  BY <1>2 DEF SafeUser, Deletes, InFlight
<1>3. QED
  BY <1>1, <1>2 DEF Next, Unlock, Expire, Cleanup, vars, userVars, reqVars, histVars

\* Administrators who may not delete themselves (users.py, delete_user) leave
\* somebody behind, whom setup then keeps out, unless deletions of two users by
\* each other overlap: in a chain of deletions the latest who asked remains.
THEOREM UsersRemain == Spec => []SomebodyRemains
<1>1. SafeUser => SomebodyRemains
  BY DEF SafeUser, SomebodyRemains
<1>2. QED
  BY <1>1, TypesInit, TypesNext, SafeUserInit, SafeUserNext, PTL DEF Spec

-----------------------------------------------------------------------------
(* The ledger of the invitation                                            *)

Redeems(r) == InFlight(r) /\ work[r].kind = "redeem"
Revokes(r) == InFlight(r) /\ work[r].kind = "revoke"
Issued     == invite.perm = "manage"

\* There is something to redeem and to revoke.
IssuedFirst ==
  /\ ~Issued => invite = NoInvite
  /\ \A r \in Reqs : Redeems(r) \/ Revokes(r) => Issued
  /\ revoked => Issued /\ ~invite.active

\* As long as redemptions come one by one, each is counted, and the one in
\* flight has read the count as it is.
OneByOne ==
  ~shared =>
    /\ redeemed = invite.uses
    /\ invite.max # NoMax => redeemed <= invite.max /\ (redeemed = invite.max => ~invite.active)
    /\ \A r \in Reqs : Redeems(r) =>
         /\ work[r].uses = invite.uses
         /\ invite.max # NoMax => invite.uses < invite.max
         /\ \A q \in Reqs \ {r} : ~Redeems(q)

Ledger == IssuedFirst /\ OneByOne

LEMMA LedgerInit == Init => Ledger
<1> SUFFICES ASSUME Init PROVE Ledger
  OBVIOUS
<1>1. \A r \in Reqs : ~InFlight(r)
  BY DEF Init, InFlight
<1>2. CASE invite = NoInvite
  BY <1>1, <1>2 DEF Init, Ledger, IssuedFirst, OneByOne, Redeems, Revokes, Issued, NoInvite, NoMax
<1>3. CASE \E m \in MaxUses : invite = [NoInvite EXCEPT !.by = NumReqs + 1, !.perm = "manage", !.max = m, !.active = TRUE]
  <2>1. PICK m \in MaxUses : invite = [NoInvite EXCEPT !.by = NumReqs + 1, !.perm = "manage", !.max = m, !.active = TRUE]
    BY <1>3
  <2>2. invite.perm = "manage" /\ invite.max = m /\ invite.uses = 0 /\ m \in Nat
    BY <2>1, BoundAssumption DEF NoInvite
  <2>3. ~revoked /\ redeemed = 0
    BY DEF Init
  <2>4. QED
    BY <1>1, <2>2, <2>3 DEF Ledger, IssuedFirst, OneByOne, Redeems, Revokes, Issued, NoMax
<1>4. QED
  BY <1>2, <1>3, Zenon DEF Init

\* A step that asks for neither, and leaves the ledger alone.
LEMMA LedgerAside ==
  ASSUME Ledger, NEW r \in Reqs, OthersStay(r), ~Redeems(r)', Revokes(r)' => Issued,
         UNCHANGED <<invite, revoked, redeemed, shared>>
  PROVE  Ledger'
BY DEF Ledger, IssuedFirst, OneByOne, Redeems, Revokes, Issued, InFlight, OthersStay

LEMMA LedgerRequest ==
  ASSUME AccountTypes, Ledger, NEW r \in Reqs, Request(r)
  PROVE  Ledger'
<1> USE DEF histVars, Redeems, Revokes, InFlight
<1>0. RequestTypes /\ RowTypes
  BY DEF AccountTypes
<1>1. CASE Setup(r)
  BY <1>0, <1>1, KindRead, LedgerAside DEF Setup
<1>2. CASE SetupCommit(r)
  BY <1>0, <1>2, RefusedWork, LedgerAside DEF SetupCommit
<1>3. CASE Login(r)
  BY <1>0, <1>3, KindRead, LedgerAside DEF Login
<1>4. CASE LoginFails(r)
  BY <1>0, <1>4, RefusedWork, LedgerAside DEF LoginFails
<1>5. CASE LoginSucceeds(r)
  BY <1>0, <1>5, RefusedWork, LedgerAside DEF LoginSucceeds
<1>6. CASE Logout(r)
  BY <1>0, <1>6, RefusedWork, LedgerAside DEF Logout
<1>7. CASE CreateUser(r)
  BY <1>0, <1>7, KindRead, LedgerAside DEF CreateUser
<1>8. CASE CreateCommit(r)
  BY <1>0, <1>8, RefusedWork, LedgerAside DEF CreateCommit
<1>9. CASE UpdateUser(r)
  BY <1>0, <1>9, KindRead, LedgerAside DEF UpdateUser
<1>10. CASE UpdateCommit(r)
  BY <1>0, <1>10, RefusedWork, LedgerAside DEF UpdateCommit
<1>11. CASE DeleteUser(r)
  BY <1>0, <1>11, KindRead, LedgerAside DEF DeleteUser
<1>12. CASE DeleteCommit(r)
  BY <1>0, <1>12, RefusedWork, LedgerAside DEF DeleteCommit
<1>13. CASE Access(r)
  BY <1>0, <1>13, KindRead, LedgerAside DEF Access
<1>14. CASE AccessCommit(r)
  BY <1>0, <1>14, RefusedWork, LedgerAside DEF AccessCommit
<1>15. CASE Invite(r)
  BY <1>0, <1>15, KindRead, LedgerAside DEF Invite
<1>16. CASE InviteCommit(r)
  <2>1. pc'[r] = "ended" /\ OthersStay(r) /\ UNCHANGED <<revoked, redeemed, shared>>
    BY <1>0, <1>16, RefusedWork DEF InviteCommit
  <2>2. CASE UNCHANGED invite
    BY <2>1, <2>2, LedgerAside
  <2>3. CASE ~UNCHANGED invite
    <3> DEFINE new == [NoInvite EXCEPT !.by = work[r].by, !.perm = "manage", !.max = work[r].uses, !.active = TRUE]
    <3>1. new.perm = "manage" /\ new.uses = 0 /\ new.max = work[r].uses
      BY DEF NoInvite
    <3>2. invite = NoInvite /\ invite' = new
      BY <1>16, <2>3 DEF InviteCommit
    <3>3. ~Issued /\ invite.uses = 0 /\ work[r].uses \in Nat
      BY <1>0, <3>2 DEF Issued, NoInvite, RequestTypes, Work
    <3>4. ~revoked /\ \A q \in Reqs : ~Redeems(q)
      BY <3>3 DEF Ledger, IssuedFirst
    <3>5. ~shared => redeemed = 0
      BY <3>3 DEF Ledger, OneByOne
    <3>6. Issued' /\ invite'.uses = 0 /\ invite'.max \in Nat
      BY <3>1, <3>2, <3>3 DEF Issued
    <3>7. QED
      BY <2>1, <3>4, <3>5, <3>6 DEF Ledger, IssuedFirst, OneByOne, OthersStay, NoMax
  <2>4. QED
    BY <2>2, <2>3
<1>17. CASE Redeem(r)
  <2>1. /\ pc'[r] = "granting" /\ OthersStay(r) /\ work'[r].kind = "redeem" /\ work'[r].uses = invite.uses
        /\ UNCHANGED <<invite, revoked, redeemed>>
    BY <1>0, <1>17, RedeemWork DEF Redeem
  <2>2. invite.active /\ (invite.max # NoMax => invite.uses < invite.max)
    BY <1>17 DEF Redeem
  <2>3. Issued
    BY <2>2 DEF Ledger, IssuedFirst, NoInvite
  <2>4. ~shared' => ~shared /\ \A q \in Reqs \ {r} : ~Redeems(q)
    BY <1>17 DEF Redeem, Others
  <2>5. QED
    BY <2>1, <2>2, <2>3, <2>4 DEF Ledger, IssuedFirst, OneByOne, OthersStay, Issued
<1>18. CASE LookForAccess(r)
  <2>1. UNCHANGED <<invite, revoked, redeemed, shared>>
    BY <1>18 DEF LookForAccess
  <2>2. QED
    BY <1>0, <1>18, <2>1, LookWork DEF Ledger, IssuedFirst, OneByOne, OthersStay, Issued
<1>19. CASE RedeemCommit(r)
  <2>1. pc'[r] = "ended" /\ OthersStay(r) /\ Redeems(r) /\ UNCHANGED <<revoked, shared>>
    BY <1>0, <1>19, RefusedWork DEF RedeemCommit
  <2>2. CASE UNCHANGED <<invite, redeemed>>
    BY <2>1, <2>2, LedgerAside
  <2>3. CASE ~UNCHANGED <<invite, redeemed>>
    <3> DEFINE n == work[r].uses + 1
    <3>1. /\ redeemed' = redeemed + 1
          /\ invite' = [invite EXCEPT !.uses = n, !.active = IF invite.max # NoMax /\ n >= invite.max THEN FALSE ELSE @]
      BY <1>19, <2>3 DEF RedeemCommit
    <3>2. /\ invite'.uses = n /\ invite'.perm = invite.perm /\ invite'.max = invite.max
          /\ invite'.active => invite.active /\ ~(invite.max # NoMax /\ n >= invite.max)
      BY <1>0, <3>1 DEF RowTypes, Invites
    <3>3. Issued /\ work[r].uses \in Nat /\ invite.uses \in Nat /\ invite.max \in Nat /\ redeemed \in Nat
      BY <1>0, <2>1 DEF Ledger, IssuedFirst, RequestTypes, RowTypes, Work, Invites
    <3>4. IssuedFirst'
      BY <2>1, <3>2, <3>3 DEF Ledger, IssuedFirst, OthersStay, Issued
    <3>5. OneByOne'
      BY <2>1, <3>1, <3>2, <3>3 DEF Ledger, OneByOne, OthersStay
    <3>6. QED
      BY <3>4, <3>5 DEF Ledger
  <2>4. QED
    BY <2>2, <2>3
<1>20. CASE Revoke(r)
  <2>1. Issued
    BY <1>20 DEF Revoke, Ledger, IssuedFirst
  <2>2. QED
    BY <1>0, <1>20, <2>1, KindRead, LedgerAside DEF Revoke
<1>21. CASE RevokeCommit(r)
  <2>1. pc'[r] = "ended" /\ OthersStay(r) /\ Revokes(r) /\ UNCHANGED <<redeemed, shared>>
    BY <1>0, <1>21, RefusedWork DEF RevokeCommit
  <2>2. invite' = [invite EXCEPT !.active = FALSE]
    BY <1>21 DEF RevokeCommit
  <2>3. /\ invite'.uses = invite.uses /\ invite'.perm = invite.perm /\ invite'.max = invite.max
        /\ ~invite'.active
    BY <1>0, <2>2 DEF RowTypes, Invites
  <2>4. QED
    BY <2>1, <2>3 DEF Ledger, IssuedFirst, OneByOne, OthersStay, Issued
<1>22. QED
  BY <1>1, <1>2, <1>3, <1>4, <1>5, <1>6, <1>7, <1>8, <1>9, <1>10, <1>11, <1>12, <1>13, <1>14, <1>15, <1>16, <1>17, <1>18, <1>19, <1>20, <1>21 DEF Request

LEMMA LedgerNext == AccountTypes /\ Ledger /\ [Next]_vars => Ledger'
<1> SUFFICES ASSUME AccountTypes, Ledger, [Next]_vars PROVE Ledger'
  OBVIOUS
<1>1. ASSUME NEW r \in Reqs, Request(r) PROVE Ledger'
  BY <1>1, LedgerRequest
<1>2. ASSUME UNCHANGED <<invite, revoked, redeemed, shared, pc, work>> PROVE Ledger'
  BY <1>2 DEF Ledger, IssuedFirst, OneByOne, Issued, Redeems, Revokes, InFlight
<1>3. QED
  BY <1>1, <1>2 DEF Next, Unlock, Expire, Cleanup, vars, userVars, reqVars, histVars

\* A revoked invitation is never brought back by a redemption that had read it
\* before (invite_service.py, redeem_invite), and redemptions that come one by
\* one keep to its limit: for any limit, and any number of requests.
THEOREM LedgerIsRight == Spec => []InviteLedger
<1>1. Ledger => InviteLedger
  BY DEF Ledger, IssuedFirst, OneByOne, InviteLedger
<1>2. QED
  BY <1>1, TypesInit, TypesNext, LedgerInit, LedgerNext, PTL DEF Spec

-----------------------------------------------------------------------------
(* The lockout                                                             *)

LogsIn(r) == InFlight(r) /\ work[r].kind = "login"

\* A user was made by a request that has ended, and one that logs in has been
\* made: nobody is made anew.  Who is gone has no count.
MadeOnce ==
  /\ \A u \in users \cap Reqs : pc[u] = "ended"
  /\ \A r \in Reqs : LogsIn(r) => /\ work[r].target \in Users
                                  /\ work[r].target \in Reqs => pc[work[r].target] = "ended"
  /\ \A u \in Users \ users : failed[u] = 0 /\ since[u] = 0 /\ until[u] = "none"

\* While logins to an account come one by one, its count is right and the one
\* in flight has read the count and the lock as they are.
CountIsRight ==
  \A u \in Users \ muddled :
    /\ failed[u] = since[u]
    /\ until[u] = "future" => since[u] >= LockAfter
    /\ \A r \in Reqs : LogsIn(r) /\ work[r].target = u =>
         /\ u \in users => work[r].failed = failed[u] /\ work[r].until = until[u] /\ until[u] # "future"
         /\ \A q \in Reqs \ {r} : ~(LogsIn(q) /\ work[q].target = u)

Lockout == MadeOnce /\ CountIsRight

LEMMA LockoutInit == Init => Lockout
<1> SUFFICES ASSUME Init PROVE Lockout
  OBVIOUS
<1>1. \A r \in Reqs : ~InFlight(r)
  BY DEF Init, InFlight
<1>2. \A u \in users : u \notin Reqs
  <2>1. users \subseteq {NumReqs + 1, NumReqs + 2}
    BY DEF Init, Founders
  <2>2. NumReqs \in Nat
    BY BoundAssumption
  <2>3. QED
    BY <2>1, <2>2 DEF Reqs
<1>3. \A u \in Users : failed[u] = 0 /\ since[u] = 0 /\ until[u] = "none"
  BY DEF Init
<1>4. QED
  BY <1>1, <1>2, <1>3 DEF Lockout, MadeOnce, CountIsRight, LogsIn

\* A step of a request that is no login, and leaves users and counts alone.
LEMMA LockoutAside ==
  ASSUME Lockout, NEW r \in Reqs, OthersStay(r), pc[r] # "ended", ~LogsIn(r)',
         UNCHANGED <<users, failed, until, since, muddled>>
  PROVE  Lockout'
<1>1. \A q \in Reqs : LogsIn(q)' => q # r /\ LogsIn(q) /\ work'[q] = work[q]
  BY DEF LogsIn, InFlight, OthersStay
<1>2. \A q \in Reqs : pc[q] = "ended" => pc'[q] = "ended"
  BY DEF OthersStay
<1>3. MadeOnce'
  BY <1>1, <1>2 DEF Lockout, MadeOnce
<1>4. CountIsRight'
  BY <1>1 DEF Lockout, CountIsRight
<1>5. QED
  BY <1>3, <1>4 DEF Lockout

LEMMA LockoutInserted ==
  ASSUME Lockout, NEW r \in Reqs, OthersStay(r), pc[r] = "commit", pc'[r] = "ended", ~LogsIn(r),
         NEW ro, Inserted(r, ro), UNCHANGED <<failed, until, since, muddled>>
  PROVE  Lockout'
<1>1. \A q \in Reqs : LogsIn(q)' => q # r /\ LogsIn(q) /\ work'[q] = work[q] /\ work[q].target # r
  BY DEF LogsIn, InFlight, OthersStay, Lockout, MadeOnce
<1>2. \A q \in Reqs : pc[q] = "ended" => pc'[q] = "ended"
  BY DEF OthersStay
<1>3. users' = users \/ users' = users \cup {r}
  BY DEF Inserted
<1>4. MadeOnce'
  BY <1>1, <1>2, <1>3 DEF Lockout, MadeOnce
<1>5. CountIsRight'
  BY <1>1, <1>3 DEF Lockout, CountIsRight
<1>6. QED
  BY <1>4, <1>5 DEF Lockout

LEMMA LockoutRequest ==
  ASSUME AccountTypes, Lockout, NEW r \in Reqs, Request(r)
  PROVE  Lockout'
<1> USE DEF userVars, histVars
<1>0. RequestTypes /\ RowTypes
  BY DEF AccountTypes
<1>1. CASE Setup(r)
  BY <1>0, <1>1, KindRead, LockoutAside DEF Setup, Turn, LogsIn
<1>2. CASE SetupCommit(r)
  BY <1>0, <1>2, RefusedWork, LockoutInserted DEF SetupCommit, LogsIn
<1>3. CASE Login(r)
  <2>1. PICK u \in users, right \in BOOLEAN :
          /\ until[u] # "future"
          /\ Reads(r, [NoWork EXCEPT !.kind = "login", !.target = u, !.right = right,
                                     !.failed = failed[u], !.until = until[u]])
          /\ muddled' = IF \E q \in Others(r, "login") : work[q].target = u THEN muddled \cup {u} ELSE muddled
    BY <1>3 DEF Login
  <2> DEFINE w == [NoWork EXCEPT !.kind = "login", !.target = u, !.right = right,
                                 !.failed = failed[u], !.until = until[u]]
  <2>2. w.kind = "login" /\ w.target = u /\ w.failed = failed[u] /\ w.until = until[u]
    BY Values DEF Work
  <2>3. /\ work'[r] = w /\ pc[r] = "idle" /\ pc'[r] = "commit" /\ OthersStay(r)
        /\ UNCHANGED <<users, failed, until, since>> /\ u \in Users
    BY <1>0, <1>3, <2>1, ReadsWork DEF Login, Turn, RowTypes
  <2>4. /\ work'[r].target = u /\ work'[r].failed = failed[u] /\ work'[r].until = until[u]
        /\ \A q \in Reqs \ {r} : LogsIn(q)' => LogsIn(q) /\ work'[q] = work[q]
        /\ \A q \in Reqs : pc[q] = "ended" => pc'[q] = "ended"
    BY <2>2, <2>3 DEF LogsIn, InFlight, OthersStay
  <2>5. /\ muddled \subseteq muddled' /\ until[u] # "future" /\ UNCHANGED <<users, failed, until, since>>
        /\ u \in users /\ u \in Users
    BY <2>1, <2>3
  <2>6. u \in muddled' \/ \A q \in Reqs \ {r} : ~(LogsIn(q) /\ work[q].target = u)
    BY <2>1 DEF Others, LogsIn
  <2>7. MadeOnce'
    BY <2>4, <2>5 DEF Lockout, MadeOnce
  <2>8. CountIsRight'
    BY <2>4, <2>5, <2>6 DEF Lockout, CountIsRight
  <2>9. QED
    BY <2>7, <2>8 DEF Lockout
<1>4. CASE LoginFails(r)
  <2>1. /\ pc[r] = "commit" /\ pc'[r] = "ended" /\ OthersStay(r) /\ LogsIn(r) /\ UNCHANGED <<users, muddled>>
    BY <1>0, <1>4, RefusedWork DEF LoginFails, LogsIn, InFlight
  <2> DEFINE u == work[r].target
  <2>2. /\ u \in Users /\ \A v \in Users : failed[v] \in Nat /\ since[v] \in Nat
        /\ work[r].failed \in Nat /\ LockAfter \in Nat
    BY <1>0, <2>1, BoundAssumption DEF RequestTypes, RowTypes, Work, Lockout, MadeOnce
  <2>3. \A q \in Reqs : LogsIn(q)' => q # r /\ LogsIn(q) /\ work'[q] = work[q]
    BY <2>1 DEF LogsIn, InFlight, OthersStay
  <2>4. \A q \in Reqs : pc[q] = "ended" => pc'[q] = "ended"
    BY <2>1 DEF OthersStay
  <2> DEFINE k == work[r].failed + 1
  <2>5. \/ UNCHANGED <<failed, until, since>> /\ u \notin users
        \/ /\ failed' = [failed EXCEPT ![u] = k] /\ since' = [since EXCEPT ![u] = @ + 1] /\ u \in users
           /\ until' = IF k >= LockAfter THEN [until EXCEPT ![u] = "future"] ELSE until
    BY <1>4 DEF LoginFails
  <2>6. MadeOnce'
    BY <1>0, <2>1, <2>3, <2>4, <2>5 DEF Lockout, MadeOnce, RowTypes
  <2>7. CountIsRight'
    BY <1>0, <2>1, <2>2, <2>3, <2>5 DEF Lockout, CountIsRight, RowTypes
  <2>8. QED
    BY <2>6, <2>7 DEF Lockout
<1>5. CASE LoginSucceeds(r)
  <2>1. /\ pc[r] = "commit" /\ pc'[r] = "ended" /\ OthersStay(r) /\ LogsIn(r) /\ UNCHANGED <<users, muddled>>
    BY <1>0, <1>5, RefusedWork DEF LoginSucceeds, LogsIn, InFlight
  <2> DEFINE u == work[r].target
  <2>2. /\ u \in Users /\ \A v \in Users : failed[v] \in Nat /\ since[v] \in Nat
        /\ work[r].failed \in Nat /\ LockAfter \in Nat
    BY <1>0, <2>1, BoundAssumption DEF RequestTypes, RowTypes, Work, Lockout, MadeOnce
  <2>3. \A q \in Reqs : LogsIn(q)' => q # r /\ LogsIn(q) /\ work'[q] = work[q]
    BY <2>1 DEF LogsIn, InFlight, OthersStay
  <2>4. \A q \in Reqs : pc[q] = "ended" => pc'[q] = "ended"
    BY <2>1 DEF OthersStay
  <2>5. \/ UNCHANGED <<failed, until, since>> /\ u \notin users
        \/ /\ failed' = (IF work[r].failed = 0 THEN failed ELSE [failed EXCEPT ![u] = 0])
           /\ until' = (IF work[r].until = "none" THEN until ELSE [until EXCEPT ![u] = "none"])
           /\ since' = [since EXCEPT ![u] = 0] /\ u \in users
    BY <1>5 DEF LoginSucceeds
  <2>6. MadeOnce'
    BY <1>0, <2>1, <2>3, <2>4, <2>5 DEF Lockout, MadeOnce, RowTypes
  <2>7. CountIsRight'
    BY <1>0, <2>1, <2>2, <2>3, <2>5 DEF Lockout, CountIsRight, RowTypes
  <2>8. QED
    BY <2>6, <2>7 DEF Lockout
<1>6. CASE Logout(r)
  BY <1>0, <1>6, RefusedWork, LockoutAside DEF Logout, Turn, LogsIn, InFlight
<1>7. CASE CreateUser(r)
  BY <1>0, <1>7, KindRead, LockoutAside DEF CreateUser, Turn, LogsIn
<1>8. CASE CreateCommit(r)
  BY <1>0, <1>8, RefusedWork, LockoutInserted DEF CreateCommit, LogsIn
<1>9. CASE UpdateUser(r)
  BY <1>0, <1>9, KindRead, LockoutAside DEF UpdateUser, Turn, LogsIn
<1>10. CASE UpdateCommit(r)
  BY <1>0, <1>10, RefusedWork, LockoutAside DEF UpdateCommit, Turn, LogsIn, InFlight
<1>11. CASE DeleteUser(r)
  BY <1>0, <1>11, KindRead, LockoutAside DEF DeleteUser, Turn, LogsIn
<1>12. CASE DeleteCommit(r)
  <2>1. pc[r] = "commit" /\ pc'[r] = "ended" /\ OthersStay(r) /\ ~LogsIn(r) /\ UNCHANGED muddled
    BY <1>0, <1>12, RefusedWork DEF DeleteCommit, LogsIn
  <2> DEFINE u == work[r].target
  <2>2. \/ UNCHANGED <<users, failed, until>>
        \/ users' = users \ {u} /\ failed' = [failed EXCEPT ![u] = 0] /\ until' = [until EXCEPT ![u] = "none"]
    BY <1>12, Zenon DEF DeleteCommit
  <2>3. since' = IF u \in users' THEN since ELSE [since EXCEPT ![u] = 0]
    BY <1>12 DEF DeleteCommit
  <2>4. \A q \in Reqs : LogsIn(q)' => q # r /\ LogsIn(q) /\ work'[q] = work[q]
    BY <2>1 DEF LogsIn, InFlight, OthersStay
  <2>5. \A q \in Reqs : pc[q] = "ended" => pc'[q] = "ended"
    BY <2>1 DEF OthersStay
  <2>6. \A v \in Users : IF users' # users /\ v = u
                          THEN failed'[v] = 0 /\ until'[v] = "none" /\ since'[v] = 0
                          ELSE failed'[v] = failed[v] /\ until'[v] = until[v] /\ since'[v] = since[v]
    <3>1. CASE u \in users'
      BY <1>0, <2>2, <2>3, <3>1 DEF RowTypes
    <3>2. CASE u \notin users' /\ users' = users
      <4>1. u \in Users => failed[u] = 0 /\ since[u] = 0 /\ until[u] = "none"
        BY <3>2 DEF Lockout, MadeOnce
      <4>2. QED
        BY <1>0, <2>2, <2>3, <3>2, <4>1 DEF RowTypes
    <3>3. CASE u \notin users' /\ users' # users
      BY <1>0, <2>2, <2>3, <3>3 DEF RowTypes
    <3>4. QED
      BY <3>1, <3>2, <3>3
  <2>7. users' = users \/ users' = users \ {u}
    BY <2>2
  <2>8. MadeOnce'
    BY <2>4, <2>5, <2>6, <2>7 DEF Lockout, MadeOnce
  <2>9. CountIsRight'
    BY <2>1, <2>4, <2>6, <2>7 DEF Lockout, CountIsRight
  <2>10. QED
    BY <2>8, <2>9 DEF Lockout
<1>13. CASE Access(r)
  BY <1>0, <1>13, KindRead, LockoutAside DEF Access, Turn, LogsIn
<1>14. CASE AccessCommit(r)
  BY <1>0, <1>14, RefusedWork, LockoutAside DEF AccessCommit, Turn, LogsIn, InFlight
<1>15. CASE Invite(r)
  BY <1>0, <1>15, KindRead, LockoutAside DEF Invite, Turn, LogsIn
<1>16. CASE InviteCommit(r)
  BY <1>0, <1>16, RefusedWork, LockoutAside DEF InviteCommit, Turn, LogsIn, InFlight
<1>17. CASE Redeem(r)
  BY <1>0, <1>17, RedeemWork, LockoutAside DEF Redeem, Turn, LogsIn
<1>18. CASE LookForAccess(r)
  BY <1>0, <1>18, LookWork, LockoutAside DEF LookForAccess, LogsIn
<1>19. CASE RedeemCommit(r)
  BY <1>0, <1>19, RefusedWork, LockoutAside DEF RedeemCommit, Turn, LogsIn, InFlight
<1>20. CASE Revoke(r)
  BY <1>0, <1>20, KindRead, LockoutAside DEF Revoke, Turn, LogsIn
<1>21. CASE RevokeCommit(r)
  BY <1>0, <1>21, RefusedWork, LockoutAside DEF RevokeCommit, Turn, LogsIn, InFlight
<1>22. QED
  BY <1>1, <1>2, <1>3, <1>4, <1>5, <1>6, <1>7, <1>8, <1>9, <1>10, <1>11, <1>12, <1>13, <1>14, <1>15, <1>16, <1>17, <1>18, <1>19, <1>20, <1>21 DEF Request

LEMMA LockoutNext == AccountTypes /\ Lockout /\ [Next]_vars => Lockout'
<1> SUFFICES ASSUME AccountTypes, Lockout, [Next]_vars PROVE Lockout'
  OBVIOUS
<1>1. ASSUME NEW r \in Reqs, Request(r) PROVE Lockout'
  BY <1>1, LockoutRequest
<1>2. ASSUME NEW u \in Users, Unlock(u) PROVE Lockout'
  BY <1>2 DEF Unlock, Lockout, MadeOnce, CountIsRight, LogsIn, InFlight, reqVars, histVars, AccountTypes, RowTypes
<1>3. ASSUME UNCHANGED <<users, failed, until, since, muddled, pc, work>> PROVE Lockout'
  BY <1>3 DEF Lockout, MadeOnce, CountIsRight, LogsIn, InFlight
<1>4. QED
  BY <1>1, <1>2, <1>3 DEF Next, Expire, Cleanup, vars, userVars, reqVars, histVars

\* An account is locked only for as many failed logins in a row as login
\* (routers/auth.py) asks for, whatever is deleted, made or unlocked between
\* the reading of the count and its commit, unless logins to it overlap.
THEOREM LocksAreEarned == Spec => []LockIsEarned
<1>1. AccountTypes /\ Lockout => LockIsEarned
  BY DEF Lockout, CountIsRight, LockIsEarned, AccountTypes, RowTypes
<1>2. QED
  BY <1>1, TypesInit, TypesNext, LockoutInit, LockoutNext, PTL DEF Spec
=============================================================================
