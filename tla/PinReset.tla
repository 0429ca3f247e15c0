------------------------------- MODULE PinReset -------------------------------
(***************************************************************************)
(* A forgotten PIN (services/pinreset.go, handlers/pinreset.go,            *)
(* landelivery).  The locked till files a request with the cloud; on       *)
(* another till the owner approves it, with a new PIN that the locked till *)
(* collects by itself, or with a code that is read aloud or pushed over    *)
(* the shop's network and typed at the pad.                                *)
(*                                                                         *)
(* The cloud's side is db/cloud_schema*.sql.  Each of its functions is one *)
(* step; its answer may be lost, and the till may die before using it.     *)
(***************************************************************************)
EXTENDS Naturals, Sequences, FiniteSets

CONSTANTS Workers,
          Pads,      \* PIN screens: each asks the till, and waits for the answer
          Tries,     \* wrong codes a request survives
          MaxAsked,  \* bound on requests filed
          MaxPins,   \* bound on PINs and codes chosen
          MaxLost,   \* bound on answers lost
          MaxDeaths, \* bound on process deaths
          MaxUnsaved,\* bound on settings that fail to be saved
          Kept,      \* how many grants the till remembers
          Nobody

ASSUME PinResetAssumption ==
    Tries \in Nat \ {0} /\ MaxAsked \in Nat /\ MaxPins \in Nat
    /\ MaxLost \in Nat /\ MaxDeaths \in Nat /\ MaxUnsaved \in Nat /\ Kept \in Nat \ {0, 1}

VARIABLES account,   \* users: the PIN of each worker
          asked,     \* sync_pin_resets: the cloud's requests, in order of id
          pending,   \* settings pinreset_*: the request this till waits for
          appliedIds,\* settings pinreset_applied_grants
          pad,
          push,      \* a code on its way over the network
          pins, lostAnswers, padDeaths, unsaved,
          given,     \* history: granted PINs that were applied
          cut        \* history: granted PINs applied whose request is not, or no longer, on
                     \* the list: the till died before saving it, saving it failed, another
                     \* pad saved the list as it was before, or it was pushed off the end
pinVars == <<account, asked, pending, appliedIds, pad, push, pins, lostAnswers, padDeaths,
             unsaved, given, cut>>

(***************************************************************************)
(* A request: pin is the granted PIN, code the code minted, 0 for none;    *)
(* expired says that the grant or code has run out, stale that a claim is  *)
(* 30 minutes old, and old that the request is past its 7 days.            *)
(***************************************************************************)
NewRequest(w) == [user |-> w, status |-> "pending", pin |-> 0, code |-> 0, attempts |-> 0,
                  expired |-> FALSE, stale |-> FALSE, old |-> FALSE]
NoPending == [id |-> 0, user |-> Nobody, code |-> 0]
IdlePad == [step |-> "idle", id |-> 0, user |-> Nobody, pin |-> 0, list |-> {}]
NoPush == [id |-> 0, code |-> 0]

Ids == DOMAIN asked
Step(p, s) == pad[p].step = s
Move(p, to) == pad' = [pad EXCEPT ![p] = to]
Fresh == pins < MaxPins /\ pins' = pins + 1

\* Set does not save, and its error is looked at by nobody.
SetFails == unsaved < MaxUnsaved /\ unsaved' = unsaved + 1

PinResetInit ==
    /\ account = [w \in Workers |-> [pin |-> 0, active |-> TRUE]]
    /\ asked = <<>> /\ pending = NoPending /\ appliedIds = {}
    /\ pad = [p \in Pads |-> IdlePad] /\ push = NoPush
    /\ pins = 0 /\ lostAnswers = 0 /\ padDeaths = 0 /\ unsaved = 0 /\ given = {} /\ cut = {}

(***************************************************************************)
(* Filing a request.  An open one is used again; one that is past its 7    *)
(* days is not, and by the unique index also keeps a new one from being    *)
(* filed.  The pushed code of an earlier request stays where it is.        *)
(***************************************************************************)
Open(w) == {i \in Ids : asked[i].user = w /\ asked[i].status = "pending"}
sync_request_pin_reset(w, id) ==
    IF Open(w) # {}
    THEN id \in Open(w) /\ ~asked[id].old /\ UNCHANGED asked
    ELSE id = Len(asked) + 1 /\ id <= MaxAsked /\ asked' = Append(asked, NewRequest(w))

RequestPinReset(w) ==
    /\ \E id \in 1..MaxAsked :
          /\ sync_request_pin_reset(w, id)
          /\ \/ pending' = [pending EXCEPT !.id = id, !.user = w] /\ UNCHANGED lostAnswers
             \/ lostAnswers < MaxLost /\ lostAnswers' = lostAnswers + 1 /\ UNCHANGED pending
    /\ UNCHANGED <<account, appliedIds, pad, push, pins, padDeaths, unsaved, given, cut>>

(***************************************************************************)
(* The owner's side.  Approving again replaces the PIN or the code.        *)
(***************************************************************************)
sync_approve_pin_reset(i, row) ==
    /\ asked[i].status \notin {"used", "cancelled"}
    /\ asked' = [asked EXCEPT ![i] =
          IF asked[i].old THEN [asked[i] EXCEPT !.status = "cancelled"]
          ELSE [row EXCEPT !.status = "approved", !.attempts = 0,
                           !.expired = FALSE, !.stale = FALSE]]

ApproveWithPin(i) ==
    /\ Fresh /\ sync_approve_pin_reset(i, [asked[i] EXCEPT !.pin = pins', !.code = 0])
    /\ UNCHANGED <<account, pending, appliedIds, pad, push, lostAnswers, padDeaths, unsaved, given, cut>>

\* The code also travels over the network, as long as the till can be found on it.
PushPinResetCode(i, c) == push' = [id |-> i, code |-> c] \/ UNCHANGED push

ApproveWithCode(i) ==
    /\ Fresh /\ sync_approve_pin_reset(i, [asked[i] EXCEPT !.pin = 0, !.code = pins'])
    /\ IF asked[i].old THEN UNCHANGED push ELSE PushPinResetCode(i, pins')
    /\ UNCHANGED <<account, pending, appliedIds, pad, lostAnswers, padDeaths, unsaved, given, cut>>

\* The push arrives, and is refused unless this very request is waiting.
StorePushedPinResetCode ==
    /\ push # NoPush /\ push' = NoPush
    /\ pending' = IF pending.id = push.id THEN [pending EXCEPT !.code = push.code] ELSE pending
    /\ UNCHANGED <<account, asked, appliedIds, pad, pins, lostAnswers, padDeaths, unsaved, given, cut>>

(***************************************************************************)
(* The pad.  It asks for a grant, collects it, applies it, and only then   *)
(* forgets the request and remembers the grant: the list is one settings   *)
(* row, read, and written again in a statement of its own.                 *)
(***************************************************************************)
Ready(i) == asked[i].status = "approved" \/ (asked[i].status = "claimed" /\ asked[i].stale)
ServedOnce(i) == asked[i].status = "approved"  \* mutant: a claim is never served again
Served(i) == Ready(i)
Grants == {i \in Ids : asked[i].pin # 0 /\ ~asked[i].expired /\ Served(i)}
NeverApplied(i) == FALSE  \* mutant: nothing is remembered
grantApplied(i) == i \in appliedIds

\* The newest grant alone is offered.
PollPinGrant(p) ==
    /\ Step(p, "idle") /\ Grants # {}
    /\ LET i == CHOOSE i \in Grants : \A j \in Grants : j <= i
       IN Move(p, [IdlePad EXCEPT !.step = "claim", !.id = i])
    /\ UNCHANGED <<account, asked, pending, appliedIds, push, pins, lostAnswers, padDeaths, unsaved, given, cut>>

sync_claim_pin_grant(i) == asked' = [asked EXCEPT ![i].status = "claimed", ![i].stale = FALSE]

ClaimPinGrant(p) ==
    /\ Step(p, "claim")
    /\ LET i == pad[p].id
       IN IF grantApplied(i) \/ i \notin Grants
          THEN Move(p, IdlePad) /\ UNCHANGED asked
          ELSE /\ sync_claim_pin_grant(i)
               /\ Move(p, [IdlePad EXCEPT !.step = "apply grant", !.id = i,
                                        !.user = asked[i].user, !.pin = asked[i].pin])
    /\ UNCHANGED <<account, pending, appliedIds, push, pins, lostAnswers, padDeaths, unsaved, given, cut>>

ClaimUnanswered(p) ==
    /\ Step(p, "claim") /\ ~grantApplied(pad[p].id) /\ pad[p].id \in Grants
    /\ lostAnswers < MaxLost /\ lostAnswers' = lostAnswers + 1
    /\ sync_claim_pin_grant(pad[p].id) /\ Move(p, IdlePad)
    /\ UNCHANGED <<account, pending, appliedIds, push, pins, padDeaths, unsaved, given, cut>>

\* A code typed at the pad, right or wrong, for a PIN the worker chooses.
sync_redeem_pin_reset(i, right) ==
    /\ asked[i].pin = 0 /\ asked[i].code # 0 /\ asked[i].status = "approved"
    /\ ~asked[i].expired /\ asked[i].attempts < Tries
    /\ asked' = IF right THEN [asked EXCEPT ![i].status = "used"]
                         ELSE [asked EXCEPT ![i].attempts = @ + 1]

RedeemPinReset(p) ==
    /\ Step(p, "idle") /\ pending.id # 0
    /\ \E typed \in {pending.code, asked[pending.id].code} \ {0} :
          LET right == typed = asked[pending.id].code
          IN /\ sync_redeem_pin_reset(pending.id, right)
             /\ \/ /\ right /\ Fresh /\ UNCHANGED lostAnswers
                   /\ Move(p, [IdlePad EXCEPT !.step = "apply code", !.id = pending.id,
                                  !.user = asked[pending.id].user, !.pin = pins'])
                \/ ~right /\ UNCHANGED <<pad, pins, lostAnswers>>
                \/ /\ right /\ lostAnswers < MaxLost /\ lostAnswers' = lostAnswers + 1
                   /\ UNCHANGED <<pad, pins>>
    /\ UNCHANGED <<account, pending, appliedIds, push, padDeaths, unsaved, given, cut>>

\* Forgetting the request: four settings, each of which may fail to be saved.
ForgetRequest == \/ pending' = NoPending /\ UNCHANGED unsaved
                 \/ SetFails /\ UNCHANGED pending

\* An account that is gone ends the till's request, not the cloud's.
applyPinHash(p) ==
    /\ pad[p].step \in {"apply grant", "apply code"}
    /\ LET t == pad[p]
       IN IF account[t.user].active
          THEN /\ account' = [account EXCEPT ![t.user].pin = t.pin]
               /\ given' = IF t.step = "apply grant" THEN given \cup {t.pin} ELSE given
               /\ Move(p, [t EXCEPT !.step = IF t.step = "apply grant" THEN "clear grant" ELSE "clear code"])
               /\ UNCHANGED <<pending, unsaved>>
          ELSE ForgetRequest /\ Move(p, IdlePad) /\ UNCHANGED <<account, given>>
    /\ UNCHANGED <<asked, appliedIds, push, pins, lostAnswers, padDeaths, cut>>

\* The list is read here too; it is written in the next step only.
clearPendingPinReset(p) ==
    /\ pad[p].step \in {"clear grant", "clear code"}
    /\ ForgetRequest
    /\ Move(p, IF Step(p, "clear code") THEN IdlePad
               ELSE [pad[p] EXCEPT !.step = "remember", !.list = appliedIds])
    /\ UNCHANGED <<account, asked, appliedIds, push, pins, lostAnswers, padDeaths, given, cut>>

\* The list with i in front, cut at the end; which one falls off is left open.
WithNewest(i, list) ==
    {kept \in SUBSET (list \cup {i}) :
        i \in kept /\ (IF Cardinality(list \cup {i}) <= Kept THEN kept = list \cup {i}
                                                          ELSE Cardinality(kept) = Kept)}

rememberGrantApplied(p) ==
    /\ Step(p, "remember") /\ Move(p, IdlePad)
    /\ \/ /\ appliedIds' \in WithNewest(pad[p].id, pad[p].list) /\ UNCHANGED unsaved
          /\ cut' = cut \cup ({asked[i].pin : i \in (appliedIds \ appliedIds') \cap Ids} \cap given)
       \/ SetFails /\ cut' = cut \cup {pad[p].pin} /\ UNCHANGED appliedIds
    /\ UNCHANGED <<account, asked, pending, push, pins, lostAnswers, padDeaths, given>>

(***************************************************************************)
(* What else happens: a PIN set at the till, an account switched off, time *)
(* and death.  Half an hour is far longer than any request lasts.          *)
(***************************************************************************)
PadsIdle == \A p \in Pads : Step(p, "idle")
NoneHeld == \A p \in Pads : Step(p, "idle") \/ Step(p, "claim")

SetOwnPIN(w) ==
    /\ Fresh /\ account' = [account EXCEPT ![w].pin = pins']
    /\ UNCHANGED <<asked, pending, appliedIds, pad, push, lostAnswers, padDeaths, unsaved, given, cut>>

SwitchOff(w) ==
    /\ account' = [account EXCEPT ![w].active = FALSE]
    /\ UNCHANGED <<asked, pending, appliedIds, pad, push, pins, lostAnswers, padDeaths, unsaved, given, cut>>

HalfHourPasses ==
    /\ NoneHeld /\ \E i \in Ids : asked[i].status = "claimed" /\ ~asked[i].stale
    /\ asked' = [i \in Ids |-> [asked[i] EXCEPT !.stale = (asked[i].status = "claimed")]]
    /\ UNCHANGED <<account, pending, appliedIds, pad, push, pins, lostAnswers, padDeaths, unsaved, given, cut>>

GrantExpires(i) ==
    /\ NoneHeld /\ asked[i].status \in {"approved", "claimed"}
    /\ asked' = [asked EXCEPT ![i].expired = TRUE]
    /\ UNCHANGED <<account, pending, appliedIds, pad, push, pins, lostAnswers, padDeaths, unsaved, given, cut>>

WeekPasses(i) ==
    /\ NoneHeld /\ ~asked[i].old
    /\ asked' = [asked EXCEPT ![i].old = TRUE, ![i].expired = TRUE]
    /\ UNCHANGED <<account, pending, appliedIds, pad, push, pins, lostAnswers, padDeaths, unsaved, given, cut>>

TillDies ==
    /\ ~PadsIdle /\ padDeaths < MaxDeaths /\ padDeaths' = padDeaths + 1
    /\ cut' = cut \cup {pad[p].pin : p \in {p \in Pads : Step(p, "clear grant") \/ Step(p, "remember")}}
    /\ pad' = [p \in Pads |-> IdlePad]
    /\ UNCHANGED <<account, asked, pending, appliedIds, push, pins, lostAnswers, unsaved, given>>

Pad(p) ==
    \/ PollPinGrant(p) \/ ClaimPinGrant(p) \/ applyPinHash(p) \/ clearPendingPinReset(p)
    \/ rememberGrantApplied(p)

PinResetNext ==
    \/ \E w \in Workers : RequestPinReset(w) \/ SetOwnPIN(w) \/ SwitchOff(w)
    \/ \E i \in Ids : ApproveWithPin(i) \/ ApproveWithCode(i) \/ GrantExpires(i) \/ WeekPasses(i)
    \/ \E p \in Pads : Pad(p) \/ ClaimUnanswered(p) \/ RedeemPinReset(p)
    \/ StorePushedPinResetCode \/ HalfHourPasses \/ TillDies

PinResetSpec == PinResetInit /\ [][PinResetNext]_pinVars

\* The pad asks every few seconds while somebody stands at it, and time passes.
PinResetFairness == (\A p \in Pads : WF_pinVars(Pad(p))) /\ SF_pinVars(HalfHourPasses)

\* A PIN the owner granted is set once: collected again it would take back a PIN the
\* worker has chosen since (ClaimAndApplyPinGrant; the cloud serves a claim again after
\* 30 minutes).  It may be set again only when the till lost its note of it: by dying
\* before the note was saved, by a save that failed, by another pad that saved the list it
\* had read before, or by newer grants that pushed it off the list (rememberGrantApplied).
GrantAppliedOnce ==
    [][\A p \in Pads :
         applyPinHash(p) /\ Step(p, "apply grant") /\ pad[p].pin \in given => pad[p].pin \in cut]_pinVars

\* The grant of request i waits for its till: nothing expired or withdrawn, nothing newer
\* in its way, and not a request whose grant the till has applied before.
Waits(i) ==
    /\ i \in Ids /\ asked[i].pin # 0 /\ asked[i].status \in {"approved", "claimed"}
    /\ ~asked[i].expired /\ ~grantApplied(i) /\ account[asked[i].user].active
    /\ \A j \in Ids : j > i => asked[j].pin = 0 \/ asked[j].expired

\* Such a grant is applied, or stops waiting for one of those reasons, whatever answers
\* are lost and wherever the till dies (sync_poll_pin_grant serves a stale claim again).
GrantArrives == \A i \in 1..MaxAsked : Waits(i) ~> ~Waits(i)
=============================================================================
