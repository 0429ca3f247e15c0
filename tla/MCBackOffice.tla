----------------------------- MODULE MCBackOffice -----------------------------
(* The back office for TLC.  A behaviour is about one thing: about the       *)
(* accounts on two tills, one of whose clocks is ahead, and there about the  *)
(* customer book (with money limited to top-ups, which move stamps: at the   *)
(* till that is behind, with a death, or at the one ahead, without), charges *)
(* and payments, or gift cards, each with a death; or about the people of    *)
(* one till, their rights and their recovery codes; or about installing an   *)
(* update of a till, by the button and the timer, or about undoing one (with *)
(* one sale more).                                                           *)
EXTENDS Accounts, Staff, Updates, TLC
CONSTANTS a, b, n1, n2, ann, bob, cy, chief, clerk
VARIABLE focus
MCClock(t, n) == 2 * n + (IF t = a THEN 0 ELSE 3)
MCRank(v) == v
RequestSymmetry == Permutations(Requests) \cup Permutations(StaffReqs)
MCKeySets == {{"users"}, authorityKeys}
MCSeedRoles == [r \in Roles |-> IF r = Admin THEN authorityKeys
                                ELSE IF r = clerk THEN {"users", "roles"} ELSE Absent]
MCSeedUsers == [u \in Users |-> IF u = ann THEN UserRow(Admin, TRUE, FALSE)
                                ELSE IF u = bob THEN UserRow(clerk, TRUE, FALSE) ELSE NoUser]

AccountFoci == {"book", "stamps", "money", "cards"}
UpdateFoci == {"installing", "undoing"}
TopUps(t) == \E q \in Requests : EmitLedger(q) \/ TopUpStoreCredit(q, t, 1)

CustomerNext ==
    \/ focus = "book" /\ (Customers \/ TopUps(a))
    \/ focus = "stamps" /\ (Customers \/ TopUps(b))
    \/ focus = "money" /\ Money
    \/ focus = "cards" /\ (GiftCards \/ \E q \in Requests : EmitLedger(q))
    \/ focus \in AccountFoci /\ Syncing
    \/ focus \in AccountFoci \ {"stamps"} /\ \E t \in Tills : Crash(t)
PeopleNext ==
    \/ focus = "staff" /\ \E q \in StaffReqs : UserRequests(q) \/ RoleRequests(q) \/ Arrivals(q)
    \/ focus = "codes" /\ (StaffDies \/ \E q \in StaffReqs : Recovery(q))
TillUpdatesNext ==
    \/ focus \in UpdateFoci /\ \/ Trading \/ Archiving \/ Starting
                               \/ Download \/ UpdateInstall \/ InstallerRuns \/ TillDies
    \/ focus = "installing" /\ Quiet
    \/ focus = "undoing" /\ UndoUpdate
Fewer == focus = "installing" => sales' < MaxSales

FocusInit ==
    /\ AccountsInit /\ StaffInit /\ UpdatesInit
    /\ focus \in AccountFoci \cup UpdateFoci \cup {"staff", "codes"}
    /\ focus \notin {"staff", "codes"} => user = SeedUsers
FocusNext ==
    /\ \/ CustomerNext /\ UNCHANGED <<staffVars, updateVars>>
       \/ PeopleNext /\ UNCHANGED <<deskVars, accountVars, updateVars>>
       \/ TillUpdatesNext /\ Fewer /\ UNCHANGED <<deskVars, accountVars, staffVars>>
    /\ focus' = focus
FocusSpec == FocusInit /\ [][FocusNext]_<<deskVars, accountVars, staffVars, updateVars, focus>>
=============================================================================
