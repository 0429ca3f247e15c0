--------------------------------- MODULE Staff ---------------------------------
(***************************************************************************)
(* The people of a shop and what they may do (handlers/users.go, roles.go, *)
(* recovery.go; services/recovery.go, teamjoin.go, ownersignin.go).        *)
(*                                                                         *)
(* A handler loads its caller, reads what its guards ask, and then writes, *)
(* each in a statement of its own.  The model takes the reads together, in *)
(* a step before the write; a request that is in between when another one  *)
(* writes is marked as crossed.                                            *)
(***************************************************************************)
EXTENDS Naturals, Sequences, SequencesExt, FiniteSets

CONSTANTS Users,       \* usernames
          Roles,       \* role names
          Admin,       \* the seeded owner role
          KeySets,     \* permission sets a form or an invite may carry
          SeedRoles,   \* the roles table of an upgraded till
          SeedUsers,   \* its users table before the demo accounts are purged
          FirstUser,   \* the seeded username "admin"
          StaffReqs,   \* requests a till serves at once
          MaxChanges,  \* bound on requests made
          MaxCodes,    \* bound on recovery codes issued
          Absent

authorityKeys == {"users", "settings", "roles"}
UserRows == [role : {Absent} \cup Roles, active : BOOLEAN, rotate : BOOLEAN]
RoleRows == {Absent} \cup SUBSET authorityKeys

\* A seeded user's role is a row of the roles table (a foreign key).
ASSUME StaffAssumption ==
    /\ Admin \in Roles /\ FirstUser \in Users /\ KeySets \subseteq SUBSET authorityKeys
    /\ Absent \notin Roles /\ \A keys \in SUBSET authorityKeys : keys # Absent
    /\ SeedUsers \in [Users -> UserRows] /\ SeedRoles \in [Roles -> RoleRows]
    /\ SeedRoles[Admin] # Absent
    /\ \A u \in Users : SeedUsers[u].role # Absent => SeedRoles[SeedUsers[u].role] # Absent
    /\ MaxChanges \in Nat /\ MaxCodes \in Nat

VARIABLES user,     \* users: the row of each name
          role,     \* roles: the keys of each role, Absent where there is none
          code,     \* recovery_codes, in the order issued
          staffReq,
          changes,
          dead      \* history: codes used up or replaced
staffVars == <<user, role, code, staffReq, changes, dead>>

(***************************************************************************)
(* Rows.  Role Absent stands for a name without a row; rotate for            *)
(* must_rotate.  A code is known to its user or was never shown.           *)
(***************************************************************************)
UserRow(r, active, rotate) == [role |-> r, active |-> active, rotate |-> rotate]
NoUser == UserRow(Absent, FALSE, FALSE)
CodeRow(u, known) == [user |-> u, known |-> known, unused |-> TRUE]

Exists(u) == user[u].role # Absent
Keys(u) == role[user[u].role]
permsIncludeBoth(keys) == {"settings", "users"} \subseteq keys
ownerLevel(u) == Exists(u) /\ permsIncludeBoth(Keys(u))
userIsOwnerLevel(u) == user[u].active /\ ownerLevel(u)

IdleStaff == [step |-> "idle", who |-> Absent, role |-> Absent, active |-> FALSE,
              keys |-> {}, code |-> 0, crossed |-> FALSE]
Task(step, u) == [IdleStaff EXCEPT !.step = step, !.who = u]
At(q, step) == staffReq[q].step = step

\* Request q moves on to the task; whoever is between its reads and its write is crossed.
Wrote(q, task) ==
    staffReq' = [r \in StaffReqs |->
        IF r = q THEN task
        ELSE IF At(r, "idle") THEN staffReq[r] ELSE [staffReq[r] EXCEPT !.crossed = TRUE]]
Fails(q) == staffReq' = [staffReq EXCEPT ![q] = IdleStaff] /\ UNCHANGED <<user, role, code, dead, changes>>

(***************************************************************************)
(* The caller: active, not held up by a forced rotation, holding the key   *)
(* of the route.                                                           *)
(***************************************************************************)
LoadPrincipal(p) == Exists(p) /\ user[p].active
RequirePermission(p, key) == LoadPrincipal(p) /\ ~user[p].rotate /\ key \in Keys(p)

Begins(q, task) ==
    /\ At(q, "idle") /\ changes < MaxChanges /\ changes' = changes + 1
    /\ staffReq' = [staffReq EXCEPT ![q] = task]
    /\ UNCHANGED <<user, role, code, dead>>

\* Nobody hands out an authority key he does not hold.
guardGrantElevation(p, keys) == keys \subseteq Keys(p)

AnyOtherOwner(u) == \E o \in Users \ {u} : ownerLevel(o)  \* mutant: inactive owners count
OtherOwner(u) == \E o \in Users \ {u} : userIsOwnerLevel(o)

\* Who was no owner, or stays one, may change; the last active owner may not.
lastOwnerGuard(p, u, r, active) ==
    /\ active \/ u # p
    /\ \/ ~ownerLevel(u)
       \/ active /\ permsIncludeBoth(role[r])
       \/ OtherOwner(u)

guardLastOwnerStrip(r, keys) ==
    \/ ~permsIncludeBoth(role[r]) \/ permsIncludeBoth(keys)
    \/ \E o \in Users : userIsOwnerLevel(o) /\ user[o].role # r

(***************************************************************************)
(* Users.                                                                  *)
(***************************************************************************)
CreateUser(q, p, u, r, active) ==
    /\ RequirePermission(p, "users") /\ role[r] # Absent /\ guardGrantElevation(p, role[r])
    /\ Begins(q, [Task("insert user", u) EXCEPT !.role = r, !.active = active])

\* The name is UNIQUE and the role a foreign key.  An admin chose the password.
InsertUser(q) ==
    /\ At(q, "insert user")
    /\ LET t == staffReq[q]
       IN IF Exists(t.who) \/ role[t.role] = Absent
          THEN Fails(q)
          ELSE /\ user' = [user EXCEPT ![t.who] = UserRow(t.role, t.active, TRUE)]
               /\ Wrote(q, IdleStaff)
               /\ UNCHANGED <<role, code, dead, changes>>

UpdateUser(q, p, u, r, active) ==
    /\ RequirePermission(p, "users") /\ role[r] # Absent
    /\ lastOwnerGuard(p, u, r, active) /\ guardGrantElevation(p, role[r])
    /\ Begins(q, [Task("update user", u) EXCEPT !.role = r, !.active = active])

WriteUser(q) ==
    /\ At(q, "update user")
    /\ LET t == staffReq[q]
       IN IF ~Exists(t.who) \/ role[t.role] = Absent
          THEN Fails(q)
          ELSE /\ user' = [user EXCEPT ![t.who].role = t.role, ![t.who].active = t.active]
               /\ Wrote(q, IdleStaff)
               /\ UNCHANGED <<role, code, dead, changes>>

DeactivateUser(q, p, u) ==
    /\ RequirePermission(p, "users") /\ Exists(u)
    /\ lastOwnerGuard(p, u, user[u].role, FALSE)
    /\ Begins(q, Task("deactivate", u))

WriteInactive(q) ==
    /\ At(q, "deactivate")
    /\ user' = [user EXCEPT ![staffReq[q].who].active = FALSE]
    /\ Wrote(q, IdleStaff)
    /\ UNCHANGED <<role, code, dead, changes>>

\* One's own password also replaces the recovery code, without showing it.
SetPassword(q, p, u) ==
    /\ LoadPrincipal(p) /\ (u = p \/ "users" \in Keys(p))
    /\ Exists(u) /\ At(q, "idle") /\ changes < MaxChanges /\ changes' = changes + 1
    /\ user' = [user EXCEPT ![u].rotate = (u # p)]
    /\ Wrote(q, IF u = p THEN Task("void codes", u) ELSE IdleStaff)
    /\ UNCHANGED <<role, code, dead>>

SetPIN(q, p, u) ==
    /\ LoadPrincipal(p) /\ (u = p \/ "users" \in Keys(p))
    /\ Exists(u) /\ At(q, "idle") /\ changes < MaxChanges /\ changes' = changes + 1
    /\ user' = [user EXCEPT ![u].rotate = (u # p)]
    /\ Wrote(q, IdleStaff)
    /\ UNCHANGED <<role, code, dead>>

(***************************************************************************)
(* Roles.  The seeded role can be edited, not deleted.                     *)
(***************************************************************************)
CreateRole(q, p, r, keys) ==
    /\ RequirePermission(p, "roles") /\ guardGrantElevation(p, keys)
    /\ Begins(q, [IdleStaff EXCEPT !.step = "insert role", !.role = r, !.keys = keys])

InsertRole(q) ==
    /\ At(q, "insert role")
    /\ LET t == staffReq[q]
       IN IF role[t.role] # Absent
          THEN Fails(q)
          ELSE /\ role' = [role EXCEPT ![t.role] = t.keys] /\ Wrote(q, IdleStaff)
               /\ UNCHANGED <<user, code, dead, changes>>

UpdateRole(q, p, r, keys) ==
    /\ RequirePermission(p, "roles") /\ role[r] # Absent
    /\ guardGrantElevation(p, keys) /\ guardLastOwnerStrip(r, keys)
    /\ Begins(q, [IdleStaff EXCEPT !.step = "update role", !.role = r, !.keys = keys])

WriteRole(q) ==
    /\ At(q, "update role")
    /\ LET t == staffReq[q]
       IN IF role[t.role] = Absent
          THEN Fails(q)
          ELSE /\ role' = [role EXCEPT ![t.role] = t.keys] /\ Wrote(q, IdleStaff)
               /\ UNCHANGED <<user, code, dead, changes>>

DeleteRole(q, p, r) ==
    /\ RequirePermission(p, "roles") /\ role[r] # Absent /\ r # Admin
    /\ \A u \in Users : user[u].role # r
    /\ Begins(q, [IdleStaff EXCEPT !.step = "delete role", !.role = r])

RemoveRole(q) ==
    /\ At(q, "delete role")
    /\ LET r == staffReq[q].role
       IN IF \E u \in Users : user[u].role = r
          THEN Fails(q)
          ELSE /\ role' = [role EXCEPT ![r] = Absent] /\ Wrote(q, IdleStaff)
               /\ UNCHANGED <<user, code, dead, changes>>

(***************************************************************************)
(* People who arrive without a caller: the first owner of an empty till,   *)
(* an owner whom the cloud vouches for, and a worker with a join link.     *)
(***************************************************************************)
Bootstrap(q, u) ==
    /\ \A o \in Users : ~user[o].active
    /\ Begins(q, Task("insert owner", u))

InsertOwner(q) ==
    /\ At(q, "insert owner")
    /\ LET u == staffReq[q].who
       IN IF Exists(u)
          THEN Fails(q)
          ELSE /\ user' = [user EXCEPT ![u] = UserRow(Admin, TRUE, FALSE)]
               /\ Wrote(q, [Task("void codes", u) EXCEPT !.active = TRUE])
               /\ UNCHANGED <<role, code, dead, changes>>

OwnerCloudSignin(q, u) ==
    /\ At(q, "idle") /\ changes < MaxChanges /\ changes' = changes + 1
    /\ user' = [user EXCEPT ![u] = UserRow(Admin, TRUE, FALSE)]
    /\ Wrote(q, IdleStaff)
    /\ UNCHANGED <<role, code, dead>>

\* The invite names a role and carries its keys, for a till that lacks it.
TeamJoinWithLink(q, u, r, keys) ==
    /\ At(q, "idle") /\ changes < MaxChanges /\ changes' = changes + 1
    /\ ~Exists(u)
    /\ role' = IF role[r] = Absent THEN [role EXCEPT ![r] = keys] ELSE role
    /\ Wrote(q, [Task("insert worker", u) EXCEPT !.role = r])
    /\ UNCHANGED <<user, code, dead>>

InsertWorker(q) ==
    /\ At(q, "insert worker")
    /\ LET t == staffReq[q]
       IN IF Exists(t.who) \/ role[t.role] = Absent
          THEN Fails(q)
          ELSE /\ user' = [user EXCEPT ![t.who] = UserRow(t.role, TRUE, FALSE)]
               /\ Wrote(q, IdleStaff)
               /\ UNCHANGED <<role, code, dead, changes>>

(***************************************************************************)
(* Recovery codes.  The old codes go and the new one comes in statements   *)
(* of their own.  As history, a code is dead when it was used, and when an *)
(* issue that nobody crossed has replaced it.                              *)
(***************************************************************************)
CodesOf(u) == {k \in DOMAIN code : code[k].user = u}
Unused(u) == {k \in CodesOf(u) : code[k].unused}
BurnNone(u) == code  \* mutant: the codes stay as they are
Burn(u) == [k \in DOMAIN code |->
               IF code[k].user = u THEN [code[k] EXCEPT !.unused = FALSE] ELSE code[k]]

NewRecoveryCode(q, p) ==
    /\ LoadPrincipal(p) /\ ~user[p].rotate
    /\ Begins(q, [Task("void codes", p) EXCEPT !.active = TRUE])

VoidCodes(q) ==
    /\ At(q, "void codes") /\ Len(code) < MaxCodes
    /\ code' = Burn(staffReq[q].who)
    /\ Wrote(q, [staffReq[q] EXCEPT !.step = "mint"])
    /\ UNCHANGED <<user, role, dead, changes>>

IssueRecoveryCode(q) ==
    /\ At(q, "mint") /\ Len(code) < MaxCodes
    /\ LET t == staffReq[q]
       IN /\ code' = Append(code, CodeRow(t.who, t.active))
          /\ dead' = IF t.crossed THEN dead ELSE dead \cup CodesOf(t.who)
    /\ Wrote(q, IdleStaff)
    /\ UNCHANGED <<user, role, changes>>

RedeemRecoveryCode(q, u) ==
    /\ user[u].active
    /\ \E k \in Unused(u) :
          code[k].known /\ Begins(q, [Task("reset", u) EXCEPT !.code = k])

ResetPassword(q) ==
    /\ At(q, "reset")
    /\ LET u == staffReq[q].who
       IN /\ code' = Burn(u)
          /\ user' = IF user[u].active THEN [user EXCEPT ![u].rotate = FALSE] ELSE user
          /\ dead' = dead \cup CodesOf(u)
    /\ Wrote(q, IdleStaff)
    /\ UNCHANGED <<role, changes>>

StaffDies ==
    /\ \E q \in StaffReqs : ~At(q, "idle")
    /\ staffReq' = [q \in StaffReqs |-> IdleStaff]
    /\ UNCHANGED <<user, role, code, dead, changes>>

(***************************************************************************)
(* An upgraded till has lost its demo accounts, those that still have the  *)
(* seeded password and PIN; the first one comes back when nobody is left.  *)
(***************************************************************************)
purgeDemoUsersV13(users, demo) ==
    LET purged == [u \in Users |-> IF u \in demo THEN [users[u] EXCEPT !.active = FALSE]
                                                 ELSE users[u]]
    IN IF (\E u \in Users : purged[u].active) \/ users[FirstUser] = NoUser
       THEN purged
       ELSE [purged EXCEPT ![FirstUser].active = TRUE, ![FirstUser].rotate = TRUE]

StaffInit ==
    /\ \E demo \in SUBSET Users : user = purgeDemoUsersV13(SeedUsers, demo)
    /\ role = SeedRoles /\ code = <<>>
    /\ staffReq = [q \in StaffReqs |-> IdleStaff]
    /\ changes = 0 /\ dead = {}

UserRequests(q) ==
    \/ \E p, u \in Users :
          \/ \E r \in Roles, active \in BOOLEAN : \/ CreateUser(q, p, u, r, active)
                                                \/ UpdateUser(q, p, u, r, active)
          \/ DeactivateUser(q, p, u) \/ SetPIN(q, p, u)
    \/ InsertUser(q) \/ WriteUser(q) \/ WriteInactive(q)

RoleRequests(q) ==
    \/ \E p \in Users, r \in Roles :
          \/ DeleteRole(q, p, r)
          \/ \E keys \in KeySets : CreateRole(q, p, r, keys) \/ UpdateRole(q, p, r, keys)
    \/ InsertRole(q) \/ WriteRole(q) \/ RemoveRole(q)

Arrivals(q) ==
    \/ \E u \in Users :
          \/ Bootstrap(q, u) \/ OwnerCloudSignin(q, u)
          \/ \E r \in Roles, keys \in KeySets : TeamJoinWithLink(q, u, r, keys)
    \/ InsertOwner(q) \/ InsertWorker(q)

Recovery(q) ==
    \/ \E u \in Users : NewRecoveryCode(q, u) \/ RedeemRecoveryCode(q, u)
    \/ \E p, u \in Users : SetPassword(q, p, u)
    \/ VoidCodes(q) \/ IssueRecoveryCode(q) \/ ResetPassword(q)

StaffNext ==
    \/ \E q \in StaffReqs : UserRequests(q) \/ RoleRequests(q) \/ Arrivals(q) \/ Recovery(q)
    \/ StaffDies

StaffSpec == StaffInit /\ [][StaffNext]_staffVars

(***************************************************************************)
(* A request ends with this step after another one's write came between    *)
(* its reads and its own.                                                  *)
(***************************************************************************)
CrossedEnds == \E q \in StaffReqs : staffReq[q].crossed /\ staffReq'[q] = IdleStaff
HasOwner == \E u \in Users : userIsOwnerLevel(u)

\* No edit takes a shop its last active owner-level account: lastOwnerGuard (users.go),
\* guardLastOwnerStrip (roles.go) and the ways around the user screens keep one.  Two
\* edits that overlap can, for each counts the owner the other one removes; and so can
\* an owner's cloud sign-in, which moves him to an Admin role that may have been stripped.
OwnerStays ==
    [][HasOwner => HasOwner' \/ CrossedEnds \/ (\E q \in StaffReqs, u \in Users : OwnerCloudSignin(q, u))]_staffVars

\* A recovery code resets one password, and none once a later code has replaced it
\* (RedeemRecoveryCode, IssueRecoveryCode), unless the two requests overlap: the code is
\* looked up before the transaction that burns it.
RecoveryCodeOnce ==
    [][\A q \in StaffReqs :
         ResetPassword(q) => staffReq[q].code \notin dead \/ staffReq[q].crossed]_staffVars
=============================================================================
