----------------------------- MODULE Office_proofs -----------------------------
(***************************************************************************)
(* What is proved about PIN reset, WhatsApp receipts and off-site backups, *)
(* for any number of workers, pads, sales, jobs and snapshots.             *)
(***************************************************************************)
EXTENDS PinReset, Receipts, Offsite, TLAPS, WellFoundedInduction

(***************************************************************************)
(* PIN reset.  A granted PIN belongs to one request for good, and one pad  *)
(* at a time holds it; while a pad does, its row is claimed and the claim  *)
(* is fresh.  A PIN that was applied has its request on the till's list,   *)
(* or a pad is about to put it there, or the till lost its note of it.     *)
(***************************************************************************)
Rows == [user : Workers, status : {"pending", "approved", "claimed", "used", "cancelled"},
         pin : Nat, code : Nat, attempts : Nat,
         expired : BOOLEAN, stale : BOOLEAN, old : BOOLEAN]

AfterSteps == {"clear grant", "remember"}
GrantSteps == {"apply grant"} \cup AfterSteps
Holds(p) == pad[p].step \in GrantSteps

PinTypeOK ==
    /\ asked \in Seq(Rows) /\ pins \in Nat /\ given \subseteq 1..pins
    /\ DOMAIN pad = Pads /\ \A p \in Pads : DOMAIN pad[p] = DOMAIN IdlePad
    /\ \A i \in Ids : asked[i].pin <= pins

OwnPin(i) == asked[i].pin # 0 => \A j \in Ids : asked[j].pin = asked[i].pin => i = j

Recalled(i) ==
    asked[i].pin \in given \ cut =>
        \/ i \in appliedIds
        \/ \E p \in Pads : /\ pad[p].step \in AfterSteps
                           /\ pad[p].id = i /\ pad[p].pin = asked[i].pin

PadOK(p) ==
    Holds(p) =>
        /\ pad[p].pin \in 1..pins
        /\ \A j \in Ids : asked[j].pin = pad[p].pin =>
              j = pad[p].id /\ asked[j].status \in {"claimed", "cancelled"} /\ ~asked[j].stale
        /\ \A q \in Pads \ {p} : Holds(q) => pad[q].pin # pad[p].pin
        /\ Step(p, "apply grant") /\ pad[p].pin \in given => pad[p].pin \in cut

PinIInv ==
    /\ PinTypeOK
    /\ \A i \in Ids : OwnPin(i) /\ Recalled(i)
    /\ \A p \in Pads : PadOK(p)

\* At first there are no requests, and no pad holds anything.
LEMMA PinInit == PinResetInit => PinIInv
<1> SUFFICES ASSUME PinResetInit PROVE PinIInv
  OBVIOUS
<1>1. /\ asked = <<>> /\ pins = 0 /\ given = {} /\ pad = [p \in Pads |-> IdlePad] /\ Ids = {}
  BY DEF PinResetInit, Ids
<1>2. \A p \in Pads : ~Holds(p)
  BY <1>1 DEF Holds, AfterSteps, GrantSteps, IdlePad
<1>3. PinTypeOK
  BY <1>1 DEF PinTypeOK
<1> QED BY <1>1, <1>2, <1>3 DEF PinIInv, PadOK

\* Rows whose PIN is kept, withdrawn or new, and pads that drop what they hold before it is
\* applied, keep the invariant.
LEMMA RowsMove ==
    ASSUME PinIInv, UNCHANGED <<appliedIds, given, cut>>,
           asked' \in Seq(Rows), Ids \subseteq DOMAIN asked', pins' \in Nat, pins <= pins',
           \A i \in DOMAIN asked' :
               /\ asked'[i].pin <= pins'
               /\ asked'[i].pin \in {0, pins + 1} \/ (i \in Ids /\ asked'[i].pin = asked[i].pin),
           \A i, j \in DOMAIN asked' :
               asked'[i].pin = pins + 1 /\ asked'[j].pin = pins + 1 => i = j,
           \A p \in Pads, i \in Ids :
               Holds(p) /\ asked'[i].pin = asked[i].pin /\ asked[i].pin = pad[p].pin =>
                   asked'[i].status \in {"claimed", "cancelled"} /\ ~asked'[i].stale,
           DOMAIN pad' = Pads,
           \A p \in Pads : \/ pad'[p] = pad[p]
                           \/ /\ pad[p].step \notin AfterSteps /\ pad'[p].step \notin GrantSteps
                              /\ DOMAIN pad'[p] = DOMAIN IdlePad
    PROVE  PinIInv'
<1>1. /\ asked \in Seq(Rows) /\ pins \in Nat /\ given \subseteq 1..pins
      /\ \A i \in Ids : asked[i].pin \in Nat /\ asked[i].pin <= pins
      /\ \A i \in DOMAIN asked' : asked'[i].pin \in Nat
  <2>1. asked \in Seq(Rows) /\ \A i \in Ids : asked[i].pin <= pins
    BY DEF PinIInv, PinTypeOK
  <2>2. (\A i \in Ids : asked[i] \in Rows) /\ \A i \in DOMAIN asked' : asked'[i] \in Rows
    BY <2>1 DEF Ids
  <2>3. (\A i \in Ids : asked[i].pin \in Nat) /\ \A i \in DOMAIN asked' : asked'[i].pin \in Nat
    BY <2>2 DEF Rows
  <2> QED BY <2>1, <2>3 DEF PinIInv, PinTypeOK
<1>2. PinTypeOK'
  BY <1>1 DEF PinIInv, PinTypeOK, Ids
<1>3. ASSUME NEW i \in Ids' PROVE OwnPin(i)'
  BY <1>1, <1>3 DEF PinIInv, OwnPin, Ids
<1>4. ASSUME NEW i \in Ids' PROVE Recalled(i)'
  <2> SUFFICES ASSUME asked'[i].pin \in given \ cut
               PROVE  \/ i \in appliedIds
                      \/ \E p \in Pads : /\ pad'[p].step \in AfterSteps /\ pad'[p].id = i
                                         /\ pad'[p].pin = asked'[i].pin
    BY DEF Recalled, Step
  <2>1. i \in Ids /\ asked'[i].pin = asked[i].pin
    BY <1>1, <1>4 DEF Ids
  <2>2. \/ i \in appliedIds
        \/ \E p \in Pads : /\ pad[p].step \in AfterSteps /\ pad[p].id = i
                           /\ pad[p].pin = asked[i].pin
    BY <2>1 DEF PinIInv, Recalled, Step
  <2> QED BY <2>1, <2>2
<1>5. ASSUME NEW p \in Pads PROVE PadOK(p)'
  <2> SUFFICES ASSUME Holds(p)' PROVE PadOK(p)'
    BY DEF PadOK
  <2>1. pad'[p] = pad[p] /\ Holds(p)
    BY DEF Holds
  <2>2. PadOK(p)
    BY DEF PinIInv
  <2>3. pad[p].pin \in 1..pins'
    <3>1. pad[p].pin \in 1..pins
      BY <2>1, <2>2 DEF PadOK
    <3>2. pins \in Nat /\ pins' \in Nat /\ pins <= pins'
      BY <1>1
    <3> QED BY <3>1, <3>2
  <2>4. ASSUME NEW j \in Ids', asked'[j].pin = pad[p].pin
        PROVE  j = pad[p].id /\ asked'[j].status \in {"claimed", "cancelled"} /\ ~asked'[j].stale
    <3>1. j \in Ids /\ asked'[j].pin = asked[j].pin
      <4>1. pad[p].pin \in 1..pins
        BY <2>1, <2>2 DEF PadOK
      <4>2. asked'[j].pin \in {0, pins + 1} \/ (j \in Ids /\ asked'[j].pin = asked[j].pin)
        BY DEF Ids
      <4>3. pad[p].pin # 0 /\ pad[p].pin # pins + 1
        BY <1>1, <4>1
      <4> QED BY <2>4, <4>2, <4>3
    <3> QED BY <2>1, <2>2, <2>4, <3>1 DEF PadOK
  <2>5. ASSUME NEW q \in Pads \ {p}, Holds(q)' PROVE pad'[q].pin # pad'[p].pin
    <3>1. pad'[q] = pad[q] /\ Holds(q)
      BY <2>5 DEF Holds
    <3> QED BY <2>1, <2>2, <3>1 DEF PadOK
  <2> QED BY <2>1, <2>2, <2>3, <2>4, <2>5 DEF PadOK, Step
<1> QED BY <1>2, <1>3, <1>4, <1>5 DEF PinIInv
\* The rows stay, and pads do no more than drop what was not applied.
LEMMA PadsMove ==
    ASSUME PinIInv, UNCHANGED <<asked, appliedIds, given, cut>>, pins' \in {pins, pins + 1},
           DOMAIN pad' = Pads,
           \A p \in Pads : \/ pad'[p] = pad[p]
                           \/ /\ pad[p].step \notin AfterSteps /\ pad'[p].step \notin GrantSteps
                              /\ DOMAIN pad'[p] = DOMAIN IdlePad
    PROVE  PinIInv'
<1>1. /\ asked \in Seq(Rows) /\ pins \in Nat /\ \A p \in Pads : PadOK(p)
      /\ \A i \in Ids : asked[i].pin <= pins /\ OwnPin(i)
  BY DEF PinIInv, PinTypeOK
<1>2. \A i \in Ids : asked[i].pin \in Nat
  <2>1. \A i \in Ids : asked[i] \in Rows
    BY <1>1 DEF Ids
  <2> QED BY <2>1 DEF Rows
<1>3. /\ asked' = asked /\ pins' \in Nat /\ pins <= pins'
      /\ \A i \in Ids : asked[i].pin <= pins' /\ asked[i].pin # pins + 1
  BY <1>1, <1>2
<1>4. \A p \in Pads, i \in Ids : Holds(p) /\ asked[i].pin = pad[p].pin =>
          asked[i].status \in {"claimed", "cancelled"} /\ ~asked[i].stale
  BY <1>1 DEF PadOK
<1> QED BY <1>1, <1>3, <1>4, RowsMove DEF Ids

\* The pads stay, and one row changes.
LEMMA RowPut ==
    ASSUME PinIInv, UNCHANGED <<appliedIds, given, cut>>, NEW i \in Ids, NEW row \in Rows,
           asked' = [asked EXCEPT ![i] = row],
           \/ pins' = pins /\ row.pin \in {0, asked[i].pin}
           \/ pins' = pins + 1 /\ row.pin \in {0, pins', asked[i].pin},
           \A p \in Pads : Holds(p) /\ row.pin = asked[i].pin /\ asked[i].pin = pad[p].pin =>
               row.status \in {"claimed", "cancelled"} /\ ~row.stale,
           DOMAIN pad' = Pads,
           \A p \in Pads : \/ pad'[p] = pad[p]
                           \/ /\ pad[p].step \notin AfterSteps /\ pad'[p].step \notin GrantSteps
                              /\ DOMAIN pad'[p] = DOMAIN IdlePad
    PROVE  PinIInv'
<1>1. /\ asked \in Seq(Rows) /\ pins \in Nat /\ \A p \in Pads : PadOK(p)
      /\ \A j \in Ids : asked[j].pin <= pins
  BY DEF PinIInv, PinTypeOK
<1>2. (\A j \in Ids : asked[j].pin \in Nat) /\ row.pin \in Nat
  <2>1. \A j \in Ids : asked[j] \in Rows
    BY <1>1 DEF Ids
  <2> QED BY <2>1 DEF Rows
<1>3. /\ asked' \in Seq(Rows) /\ DOMAIN asked' = Ids /\ asked'[i] = row
      /\ \A j \in Ids \ {i} : asked'[j] = asked[j]
  BY <1>1 DEF Ids
<1>4. pins' \in Nat /\ pins <= pins' /\ row.pin <= pins'
      /\ row.pin \in {0, pins + 1, asked[i].pin}
  BY <1>1, <1>2
<1>5. \A j \in Ids : asked[j].pin <= pins' /\ asked[j].pin # pins + 1
  BY <1>1, <1>2, <1>4
<1>6. \A j \in Ids : /\ asked'[j].pin <= pins'
                     /\ asked'[j].pin \in {0, pins + 1} \/ asked'[j].pin = asked[j].pin
  BY <1>3, <1>4, <1>5
<1>7. \A j, k \in Ids : asked'[j].pin = pins + 1 /\ asked'[k].pin = pins + 1 => j = k
  BY <1>3, <1>5
<1>8. \A p \in Pads, j \in Ids :
         Holds(p) /\ asked'[j].pin = asked[j].pin /\ asked[j].pin = pad[p].pin =>
             asked'[j].status \in {"claimed", "cancelled"} /\ ~asked'[j].stale
  <2> SUFFICES ASSUME NEW p \in Pads, NEW j \in Ids, Holds(p),
                      asked'[j].pin = asked[j].pin, asked[j].pin = pad[p].pin
               PROVE  asked'[j].status \in {"claimed", "cancelled"} /\ ~asked'[j].stale
    OBVIOUS
  <2>1. CASE j = i
    BY <1>3, <2>1
  <2>2. CASE j # i
    BY <1>1, <1>3, <2>2 DEF PadOK
  <2> QED BY <2>1, <2>2
<1> HIDE DEF Ids
<1> QED BY <1>3, <1>4, <1>6, <1>7, <1>8, RowsMove

\* The rows change in nothing but what time does to them, while no pad holds a PIN.
LEMMA TimePasses ==
    ASSUME PinIInv, UNCHANGED <<appliedIds, given, cut, pad, pins>>, NoneHeld,
           asked' \in Seq(Rows), DOMAIN asked' = Ids,
           \A i \in Ids : asked'[i].pin = asked[i].pin
    PROVE  PinIInv'
<1>1. /\ pins \in Nat /\ \A j \in Ids : asked[j].pin <= pins
      /\ asked \in Seq(Rows)
  BY DEF PinIInv, PinTypeOK
<1>2. \A p \in Pads : ~Holds(p)
  BY DEF NoneHeld, Holds, AfterSteps, GrantSteps, Step
<1>3. \A j \in Ids : asked[j].pin \in Nat
  <2>1. \A j \in Ids : asked[j] \in Rows
    BY <1>1 DEF Ids
  <2> QED BY <2>1 DEF Rows
<1>4. \A j \in Ids : asked'[j].pin <= pins' /\ asked'[j].pin # pins + 1
  BY <1>1, <1>3
<1>5. DOMAIN pad' = Pads
  BY DEF PinIInv, PinTypeOK
<1> QED BY <1>1, <1>2, <1>4, <1>5, RowsMove
-----------------------------------------------------------------------------
\* Each step keeps the invariant.  A request is filed:
LEMMA RequestOK == ASSUME PinIInv, NEW w \in Workers, RequestPinReset(w) PROVE PinIInv'
<1>1. /\ UNCHANGED <<pad, appliedIds, given, cut, pins>>
      /\ \E id \in 1..MaxAsked : sync_request_pin_reset(w, id)
  BY DEF RequestPinReset
<1>2. /\ asked \in Seq(Rows) /\ pins \in Nat /\ DOMAIN pad = Pads
      /\ \A p \in Pads : DOMAIN pad[p] = DOMAIN IdlePad /\ PadOK(p)
      /\ \A j \in Ids : asked[j].pin <= pins
  BY DEF PinIInv, PinTypeOK
<1>3. CASE UNCHANGED asked
  BY <1>1, <1>2, <1>3, PadsMove
<1>4. CASE asked' = Append(asked, NewRequest(w))
  <2>1. NewRequest(w) \in Rows /\ NewRequest(w).pin = 0
    BY DEF NewRequest, Rows
  <2>2. asked' \in Seq(Rows) /\ DOMAIN asked' = 1..Len(asked) + 1 /\ Ids = 1..Len(asked)
    BY <1>2, <1>4, <2>1 DEF Ids
  <2>3. /\ \A j \in Ids : asked'[j] = asked[j]
        /\ \A j \in DOMAIN asked' : j \in Ids \/ asked'[j].pin = 0
    BY <1>2, <1>4, <2>1, <2>2 DEF Ids
  <2>4. \A j \in Ids : asked[j].pin \in Nat
    <3>1. \A j \in Ids : asked[j] \in Rows
      BY <1>2 DEF Ids
    <3> QED BY <3>1 DEF Rows
  <2>5. \A j \in DOMAIN asked' : /\ asked'[j].pin <= pins /\ asked'[j].pin # pins + 1
                                 /\ asked'[j].pin = 0 \/ (j \in Ids /\ asked'[j].pin = asked[j].pin)
    BY <1>2, <2>2, <2>3, <2>4
  <2>6. \A p \in Pads, j \in Ids : Holds(p) /\ asked[j].pin = pad[p].pin =>
            asked'[j].status \in {"claimed", "cancelled"} /\ ~asked'[j].stale
    BY <1>2, <2>3 DEF PadOK
  <2> QED BY <1>1, <1>2, <2>2, <2>5, <2>6, RowsMove
<1> QED BY <1>1, <1>3, <1>4 DEF sync_request_pin_reset

\* The owner approves, with a PIN or with a code:
LEMMA ApproveOK ==
    ASSUME PinIInv, NEW i \in Ids, ApproveWithPin(i) \/ ApproveWithCode(i) PROVE PinIInv'
<1>1. /\ UNCHANGED <<pad, appliedIds, given, cut>> /\ pins' = pins + 1
      /\ \E pin \in {0, pins'}, code \in {0, pins'} :
             sync_approve_pin_reset(i, [asked[i] EXCEPT !.pin = pin, !.code = code])
  BY DEF ApproveWithPin, ApproveWithCode, Fresh
<1>2. PICK pin \in {0, pins'}, code \in {0, pins'} :
          sync_approve_pin_reset(i, [asked[i] EXCEPT !.pin = pin, !.code = code])
  BY <1>1
<1>3. /\ asked \in Seq(Rows) /\ pins \in Nat /\ DOMAIN pad = Pads
      /\ asked[i] \in Rows /\ asked[i].pin <= pins
      /\ \A p \in Pads : PadOK(p)
  BY DEF PinIInv, PinTypeOK, Ids
<1>4. CASE asked[i].old
  <2> DEFINE row == [asked[i] EXCEPT !.status = "cancelled"]
  <2>1. row \in Rows /\ row.pin = asked[i].pin /\ row.status = "cancelled"
        /\ row.stale = asked[i].stale
    BY <1>3 DEF Rows
  <2>2. asked' = [asked EXCEPT ![i] = row]
    BY <1>2, <1>4 DEF sync_approve_pin_reset
  <2>3. \A p \in Pads : Holds(p) /\ asked[i].pin = pad[p].pin => ~row.stale
    BY <1>3, <2>1 DEF PadOK
  <2> HIDE DEF row
  <2> QED BY <1>1, <1>3, <2>1, <2>2, <2>3, RowPut
<1>5. CASE ~asked[i].old
  <2> DEFINE row == [[asked[i] EXCEPT !.pin = pin, !.code = code]
                        EXCEPT !.status = "approved", !.attempts = 0,
                               !.expired = FALSE, !.stale = FALSE]
  <2>1. row \in Rows /\ row.pin = pin
    <3>1. pin \in Nat /\ code \in Nat
      BY <1>1, <1>3
    <3> QED BY <1>3, <3>1 DEF Rows
  <2>2. asked' = [asked EXCEPT ![i] = row]
    BY <1>2, <1>5 DEF sync_approve_pin_reset
  <2>3. \A p \in Pads : Holds(p) /\ asked[i].pin = pad[p].pin => pin # asked[i].pin
    <3> SUFFICES ASSUME NEW p \in Pads, Holds(p), asked[i].pin = pad[p].pin
                 PROVE  pin # asked[i].pin
      OBVIOUS
    <3>1. pad[p].pin \in 1..pins
      BY <1>3 DEF PadOK
    <3> QED BY <1>1, <1>3, <3>1
  <2> HIDE DEF row
  <2> QED BY <1>1, <1>3, <2>1, <2>2, <2>3, RowPut
<1> QED BY <1>4, <1>5

\* What leaves requests and pads alone:
LEMMA QuietOK ==
    ASSUME PinIInv,
           \/ StorePushedPinResetCode
           \/ \E w \in Workers : SetOwnPIN(w) \/ SwitchOff(w)
    PROVE  PinIInv'
<1>1. UNCHANGED <<asked, pad, appliedIds, given, cut>> /\ pins' \in {pins, pins + 1}
  BY DEF StorePushedPinResetCode, SetOwnPIN, SwitchOff, Fresh
<1>2. DOMAIN pad = Pads
  BY DEF PinIInv, PinTypeOK
<1> QED BY <1>1, <1>2, PadsMove

\* A pad asks for a grant:
LEMMA PollOK == ASSUME PinIInv, NEW p \in Pads, PollPinGrant(p) PROVE PinIInv'
<1>1. /\ UNCHANGED <<asked, appliedIds, given, cut, pins>> /\ Step(p, "idle")
      /\ \E i : pad' = [pad EXCEPT ![p] = [IdlePad EXCEPT !.step = "claim", !.id = i]]
  BY DEF PollPinGrant, Move
<1>2. DOMAIN pad = Pads
  BY DEF PinIInv, PinTypeOK
<1>3. pad[p].step \notin AfterSteps /\ pad'[p].step \notin GrantSteps
      /\ DOMAIN pad'[p] = DOMAIN IdlePad
  BY <1>1, <1>2 DEF Step, AfterSteps, GrantSteps, IdlePad
<1>4. DOMAIN pad' = Pads /\ \A q \in Pads \ {p} : pad'[q] = pad[q]
  BY <1>1, <1>2
<1> QED BY <1>1, <1>3, <1>4, PadsMove

\* A code that is typed, right or wrong: its request has no PIN.
LEMMA RedeemOK == ASSUME PinIInv, NEW p \in Pads, RedeemPinReset(p) PROVE PinIInv'
<1>1. PICK i : i = pending.id
  OBVIOUS
<1>2. /\ UNCHANGED <<appliedIds, given, cut>> /\ Step(p, "idle")
      /\ \/ asked' = [asked EXCEPT ![i].status = "used"]
         \/ asked' = [asked EXCEPT ![i].attempts = @ + 1]
      /\ asked[i].pin = 0
      /\ \/ Fresh /\ Move(p, [IdlePad EXCEPT !.step = "apply code", !.id = i,
                                 !.user = asked[i].user, !.pin = pins'])
         \/ UNCHANGED <<pad, pins>>
  BY <1>1 DEF RedeemPinReset, sync_redeem_pin_reset
<1>3. /\ asked \in Seq(Rows) /\ pins \in Nat /\ DOMAIN pad = Pads
      /\ \A q \in Pads : PadOK(q)
  BY DEF PinIInv, PinTypeOK
<1>4. /\ pins' \in {pins, pins + 1} /\ DOMAIN pad' = Pads
      /\ \A q \in Pads : pad'[q] = pad[q]
                         \/ (/\ pad[q].step \notin AfterSteps /\ pad'[q].step \notin GrantSteps
                             /\ DOMAIN pad'[q] = DOMAIN IdlePad)
  <2>1. CASE UNCHANGED <<pad, pins>>
    BY <1>3, <2>1
  <2>2. CASE Fresh /\ Move(p, [IdlePad EXCEPT !.step = "apply code", !.id = i,
                                 !.user = asked[i].user, !.pin = pins'])
    <3>1. pins' = pins + 1 /\ pad[p].step \notin AfterSteps
      BY <1>2, <2>2 DEF Fresh, Step, AfterSteps
    <3>2. /\ DOMAIN pad' = Pads /\ \A q \in Pads \ {p} : pad'[q] = pad[q]
          /\ pad'[p] = [IdlePad EXCEPT !.step = "apply code", !.id = i, !.user = asked[i].user, !.pin = pins']
      BY <1>3, <2>2 DEF Move
    <3>3. PICK to : to = [IdlePad EXCEPT !.step = "apply code", !.id = i, !.user = asked[i].user, !.pin = pins']
      OBVIOUS
    <3>4. to.step = "apply code" /\ DOMAIN to = DOMAIN IdlePad
      BY <3>3 DEF IdlePad
    <3>5. pad'[p] = to
      BY <3>2, <3>3
    <3> QED BY <3>1, <3>2, <3>4, <3>5 DEF AfterSteps, GrantSteps
  <2> QED BY <1>2, <2>1, <2>2
<1>5. CASE i \notin Ids
  <2>1. asked' = asked
    <3>1. PICK row : asked' = [asked EXCEPT ![i] = row]
      BY <1>2
    <3>2. asked = [j \in DOMAIN asked |-> asked[j]]
      BY <1>3
    <3>3. asked' = [j \in DOMAIN asked |-> asked[j]]
      BY <1>5, <3>1 DEF Ids
    <3> QED BY <3>2, <3>3
  <2> QED BY <1>2, <1>3, <1>4, <2>1, PadsMove
<1>6. CASE i \in Ids
  <2>1. asked[i] \in Rows
    BY <1>3, <1>6 DEF Ids
  <2>2. PICK row \in {[asked[i] EXCEPT !.status = "used"],
                      [asked[i] EXCEPT !.attempts = asked[i].attempts + 1]} :
            asked' = [asked EXCEPT ![i] = row]
    BY <1>2
  <2>3. row \in Rows /\ row.pin = 0
    <3>1. CASE row = [asked[i] EXCEPT !.status = "used"]
      BY <1>2, <2>1, <3>1 DEF Rows
    <3>2. CASE row = [asked[i] EXCEPT !.attempts = asked[i].attempts + 1]
      <4>1. asked[i].attempts + 1 \in Nat
        BY <2>1 DEF Rows
      <4> QED BY <1>2, <2>1, <3>2, <4>1 DEF Rows
    <3> QED BY <2>2, <3>1, <3>2
  <2>4. \A q \in Pads : Holds(q) => pad[q].pin # 0
    <3>1. \A q \in Pads : Holds(q) => pad[q].pin \in 1..pins
      BY <1>3 DEF PadOK
    <3> QED BY <1>3, <3>1
  <2>5. pins' = pins \/ pins' = pins + 1
    BY <1>4
  <2>6. row.pin = 0 /\ \A q \in Pads : ~(Holds(q) /\ row.pin = asked[i].pin
                                          /\ asked[i].pin = pad[q].pin)
    BY <2>3, <2>4
  <2> QED BY <1>2, <1>4, <1>6, <2>2, <2>3, <2>5, <2>6, RowPut
<1> QED BY <1>5, <1>6

\* Time:
LEMMA TimeOK ==
    ASSUME PinIInv, HalfHourPasses \/ \E i \in Ids : GrantExpires(i) \/ WeekPasses(i)
    PROVE  PinIInv'
<1>1. UNCHANGED <<appliedIds, given, cut, pad, pins>> /\ NoneHeld /\ asked \in Seq(Rows)
  BY DEF HalfHourPasses, GrantExpires, WeekPasses, PinIInv, PinTypeOK
<1>2. \A i \in Ids : asked[i] \in Rows
  BY <1>1 DEF Ids
<1>3. CASE HalfHourPasses
  <2>1. asked' = [i \in Ids |-> [asked[i] EXCEPT !.stale = (asked[i].status = "claimed")]]
    BY <1>3 DEF HalfHourPasses
  <2>2. \A i \in Ids : asked'[i] \in Rows /\ asked'[i].pin = asked[i].pin
    BY <1>2, <2>1 DEF Rows
  <2>3. asked' \in Seq(Rows) /\ DOMAIN asked' = Ids
    BY <1>1, <2>1, <2>2 DEF Ids
  <2> QED BY <1>1, <2>2, <2>3, TimePasses
<1>4. ASSUME NEW i \in Ids, GrantExpires(i) \/ WeekPasses(i) PROVE PinIInv'
  <2>1. PICK row \in {[asked[i] EXCEPT !.expired = TRUE],
                      [asked[i] EXCEPT !.old = TRUE, !.expired = TRUE]} :
            asked' = [asked EXCEPT ![i] = row]
    BY <1>4 DEF GrantExpires, WeekPasses
  <2>2. row \in Rows /\ row.pin = asked[i].pin
    BY <1>2, <2>1 DEF Rows
  <2>3. /\ asked' \in Seq(Rows) /\ DOMAIN asked' = Ids
        /\ \A j \in Ids : asked'[j].pin = asked[j].pin
    BY <1>1, <2>1, <2>2 DEF Ids
  <2> QED BY <1>1, <2>3, TimePasses
<1> QED BY <1>3, <1>4
\* What is true of a grant that is served: no pad holds it, and if it was applied and not
\* remembered the till died in between.
LEMMA GrantIsFree ==
    ASSUME PinIInv, NEW i \in Grants
    PROVE  /\ i \in Ids /\ asked[i] \in Rows /\ asked[i].pin \in 1..pins
           /\ \A p \in Pads : Holds(p) => pad[p].pin # asked[i].pin
           /\ ~grantApplied(i) => asked[i].pin \notin given \ cut
<1>1. /\ asked \in Seq(Rows) /\ pins \in Nat /\ i \in Ids /\ asked[i].pin # 0
      /\ asked[i].status = "approved" \/ (asked[i].status = "claimed" /\ asked[i].stale)
      /\ asked[i].pin <= pins /\ Recalled(i) /\ \A p \in Pads : PadOK(p)
  BY DEF Grants, Served, Ready, PinIInv, PinTypeOK
<1>2. asked[i] \in Rows
  BY <1>1 DEF Ids
<1>3. asked[i].pin \in 1..pins
  BY <1>1, <1>2 DEF Rows
<1>4. \A p \in Pads : Holds(p) => pad[p].pin # asked[i].pin
  BY <1>1 DEF PadOK
<1>5. ~grantApplied(i) => asked[i].pin \notin given \ cut
  BY <1>1, <1>4 DEF Recalled, grantApplied, Step, Holds, AfterSteps, GrantSteps
<1> QED BY <1>1, <1>2, <1>3, <1>4, <1>5

\* A grant is collected, or its answer is lost:
LEMMA ClaimOK ==
    ASSUME PinIInv, NEW p \in Pads, ClaimPinGrant(p) \/ ClaimUnanswered(p) PROVE PinIInv'
<1>1. PICK i : i = pad[p].id
  OBVIOUS
<1>2. /\ UNCHANGED <<appliedIds, given, cut, pins>> /\ pad[p].step = "claim"
      /\ asked \in Seq(Rows) /\ pins \in Nat /\ DOMAIN pad = Pads
      /\ \A q \in Pads : PadOK(q) /\ DOMAIN pad[q] = DOMAIN IdlePad
  BY DEF ClaimPinGrant, ClaimUnanswered, Step, PinIInv, PinTypeOK
<1>3. CASE Move(p, IdlePad) /\ UNCHANGED asked
  BY <1>2, <1>3, PadsMove DEF Move, IdlePad, AfterSteps, GrantSteps
<1>4. ASSUME i \in Grants, ~grantApplied(i), sync_claim_pin_grant(i),
             Move(p, IdlePad) \/ Move(p, [IdlePad EXCEPT !.step = "apply grant", !.id = i,
                      !.user = asked[i].user, !.pin = asked[i].pin])
      PROVE  PinIInv'
  <2> DEFINE row == [asked[i] EXCEPT !.status = "claimed", !.stale = FALSE]
  <2>1. /\ i \in Ids /\ asked[i] \in Rows /\ asked[i].pin \in 1..pins
        /\ \A q \in Pads : Holds(q) => pad[q].pin # asked[i].pin
        /\ asked[i].pin \notin given \ cut
    BY <1>4, GrantIsFree
  <2>2. /\ asked' = [asked EXCEPT ![i] = row]
        /\ row \in Rows /\ row.pin = asked[i].pin /\ row.status = "claimed" /\ ~row.stale
    BY <1>4, <2>1 DEF sync_claim_pin_grant, Rows
  <2> HIDE DEF row
  <2>3. CASE Move(p, IdlePad)
    <3>1. /\ DOMAIN pad' = Pads /\ pad'[p] = IdlePad /\ \A q \in Pads \ {p} : pad'[q] = pad[q]
      BY <1>2, <2>3 DEF Move
    <3>2. IdlePad.step \notin GrantSteps /\ pad[p].step \notin AfterSteps
      BY <1>2 DEF IdlePad, AfterSteps, GrantSteps
    <3> QED BY <1>2, <2>1, <2>2, <3>1, <3>2, RowPut
  <2>4. CASE Move(p, [IdlePad EXCEPT !.step = "apply grant", !.id = i,
                      !.user = asked[i].user, !.pin = asked[i].pin])
    <3>1. PICK to : to = [IdlePad EXCEPT !.step = "apply grant", !.id = i,
                      !.user = asked[i].user, !.pin = asked[i].pin]
      OBVIOUS
    <3>2. /\ to.step = "apply grant" /\ to.id = i /\ to.pin = asked[i].pin
          /\ DOMAIN to = DOMAIN IdlePad
      BY <3>1 DEF IdlePad
    <3>3. /\ DOMAIN pad' = Pads /\ pad'[p] = to /\ \A q \in Pads \ {p} : pad'[q] = pad[q]
      BY <1>2, <2>4, <3>1 DEF Move
    <3>4. /\ asked' \in Seq(Rows) /\ Ids' = Ids /\ asked'[i] = row
          /\ \A j \in Ids \ {i} : asked'[j] = asked[j]
          /\ \A j \in Ids : asked'[j].pin = asked[j].pin
      BY <1>2, <2>1, <2>2 DEF Ids
    <3>5. PinTypeOK'
      <4>1. \A j \in Ids : asked[j].pin <= pins
        BY DEF PinIInv, PinTypeOK
      <4>2. given \subseteq 1..pins /\ \A q \in Pads : DOMAIN pad'[q] = DOMAIN IdlePad
        BY <1>2, <3>2, <3>3 DEF PinIInv, PinTypeOK
      <4> QED BY <1>2, <3>3, <3>4, <4>1, <4>2 DEF PinTypeOK
    <3>6. ASSUME NEW j \in Ids PROVE OwnPin(j)' /\ Recalled(j)'
      <4>1. OwnPin(j) /\ Recalled(j)
        BY DEF PinIInv
      <4>2. OwnPin(j)'
        BY <3>4, <4>1 DEF OwnPin
      <4>3. Recalled(j)'
        BY <1>2, <3>3, <3>4, <4>1 DEF Recalled, AfterSteps
      <4> QED BY <4>2, <4>3
    <3>7. ASSUME NEW q \in Pads PROVE PadOK(q)'
      <4>1. CASE q = p
        <5>1. \A j \in Ids : asked'[j].pin = asked[i].pin => j = i
          BY <2>1, <3>4 DEF PinIInv, OwnPin
        <5>2. \A r \in Pads \ {p} : Holds(r)' => pad'[r].pin # asked[i].pin
          BY <2>1, <3>3 DEF Holds
        <5>3. pad'[q] = to /\ to.pin \in 1..pins' /\ (to.pin \in given' => to.pin \in cut')
          BY <1>2, <2>1, <3>2, <3>3, <4>1
        <5>4. \A j \in Ids' : asked'[j].pin = to.pin =>
                  j = to.id /\ asked'[j].status \in {"claimed", "cancelled"} /\ ~asked'[j].stale
          BY <2>2, <3>2, <3>4, <5>1
        <5> QED BY <3>2, <4>1, <5>2, <5>3, <5>4 DEF PadOK
      <4>2. CASE q # p
        <5> SUFFICES ASSUME Holds(q) PROVE PadOK(q)'
          BY <3>3, <4>2 DEF PadOK, Holds
        <5>1. pad'[q] = pad[q] /\ PadOK(q) /\ pad[q].pin # asked[i].pin
          BY <1>2, <2>1, <3>3, <4>2
        <5>2. \A j \in Ids : asked'[j].pin = pad[q].pin =>
                  j = pad[q].id /\ asked'[j].status \in {"claimed", "cancelled"} /\ ~asked'[j].stale
          BY <3>4, <5>1 DEF PadOK
        <5>3. \A r \in Pads \ {q} : Holds(r)' => pad'[r].pin # pad[q].pin
          BY <3>2, <3>3, <5>1 DEF PadOK, Holds
        <5>4. /\ pad[q].pin \in 1..pins'
              /\ pad[q].step = "apply grant" /\ pad[q].pin \in given' => pad[q].pin \in cut'
          BY <1>2, <5>1 DEF PadOK, Step
        <5> QED BY <3>4, <5>1, <5>2, <5>3, <5>4 DEF PadOK, Step
      <4> QED BY <4>1, <4>2
    <3> QED BY <3>4, <3>5, <3>6, <3>7 DEF PinIInv
  <2> QED BY <1>4, <2>3, <2>4
<1> QED BY <1>1, <1>3, <1>4 DEF ClaimPinGrant, ClaimUnanswered
\* A grant or the PIN of a code is applied, or its account is gone:
LEMMA ApplyOK == ASSUME PinIInv, NEW p \in Pads, applyPinHash(p) PROVE PinIInv'
<1>1. /\ UNCHANGED <<asked, appliedIds, cut, pins>>
      /\ pad[p].step \in {"apply grant", "apply code"}
      /\ asked \in Seq(Rows) /\ pins \in Nat /\ DOMAIN pad = Pads /\ given \subseteq 1..pins
      /\ \A q \in Pads : PadOK(q) /\ DOMAIN pad[q] = DOMAIN IdlePad
  BY DEF applyPinHash, PinIInv, PinTypeOK
<1>2. CASE Move(p, IdlePad) /\ UNCHANGED given
  BY <1>1, <1>2, PadsMove DEF Move, IdlePad, AfterSteps, GrantSteps
<1>3. CASE /\ pad[p].step = "apply code" /\ UNCHANGED given
           /\ Move(p, [pad[p] EXCEPT !.step = "clear code"])
  <2>1. PICK to : to = [pad[p] EXCEPT !.step = "clear code"]
    OBVIOUS
  <2>2. to.step = "clear code" /\ DOMAIN to = DOMAIN IdlePad
    BY <1>1, <2>1 DEF IdlePad
  <2>3. /\ DOMAIN pad' = Pads /\ pad'[p] = to /\ \A q \in Pads \ {p} : pad'[q] = pad[q]
    BY <1>1, <1>3, <2>1 DEF Move
  <2> QED BY <1>1, <1>3, <2>2, <2>3, PadsMove DEF AfterSteps, GrantSteps
<1>4. CASE /\ pad[p].step = "apply grant" /\ given' = given \cup {pad[p].pin}
           /\ Move(p, [pad[p] EXCEPT !.step = "clear grant"])
  <2>1. PICK to : to = [pad[p] EXCEPT !.step = "clear grant"]
    OBVIOUS
  <2>2. /\ to.step = "clear grant" /\ to.id = pad[p].id /\ to.pin = pad[p].pin
        /\ DOMAIN to = DOMAIN IdlePad
    BY <1>1, <2>1 DEF IdlePad
  <2>3. /\ DOMAIN pad' = Pads /\ pad'[p] = to /\ \A q \in Pads \ {p} : pad'[q] = pad[q]
    BY <1>1, <1>4, <2>1 DEF Move
  <2>4. /\ Holds(p) /\ Holds(p)' /\ PadOK(p) /\ pad[p].pin \in 1..pins
        /\ \A q \in Pads : pad'[q].pin = pad[q].pin /\ pad'[q].id = pad[q].id
                           /\ (Holds(q)' <=> Holds(q))
    BY <1>1, <1>4, <2>2, <2>3 DEF Holds, AfterSteps, GrantSteps, PadOK
  <2>5. PinTypeOK'
    <3>1. \A j \in Ids : asked[j].pin <= pins
      BY DEF PinIInv, PinTypeOK
    <3> QED BY <1>1, <1>4, <2>2, <2>3, <2>4, <3>1 DEF PinTypeOK, Ids
  <2>6. ASSUME NEW j \in Ids PROVE OwnPin(j)' /\ Recalled(j)'
    <3>1. OwnPin(j) /\ Recalled(j)
      BY DEF PinIInv
    <3>2. OwnPin(j)'
      BY <1>1, <3>1 DEF OwnPin, Ids
    <3>3. CASE asked[j].pin = pad[p].pin
      <4>1. j = pad[p].id
        BY <2>4, <3>3 DEF PadOK
      <4> QED BY <1>1, <2>2, <2>3, <3>2, <3>3, <4>1 DEF Recalled, AfterSteps
    <3>4. CASE asked[j].pin # pad[p].pin
      <4>1. asked[j].pin \in given' \ cut' => asked[j].pin \in given \ cut
        BY <1>1, <1>4, <3>4
      <4>2. \A q \in Pads : pad[q].step \in AfterSteps => pad'[q] = pad[q]
        BY <1>4, <2>3 DEF AfterSteps
      <4> QED BY <1>1, <3>1, <3>2, <4>1, <4>2 DEF Recalled
    <3> QED BY <3>3, <3>4
  <2>7. ASSUME NEW q \in Pads PROVE PadOK(q)'
    <3> SUFFICES ASSUME Holds(q) PROVE PadOK(q)'
      BY <2>4 DEF PadOK
    <3>1. /\ PadOK(q) /\ pad'[q].pin = pad[q].pin /\ pad'[q].id = pad[q].id /\ Ids' = Ids
          /\ pad[q].pin \in 1..pins'
      BY <1>1, <2>4 DEF PadOK, Ids
    <3>2. \A j \in Ids : asked'[j].pin = pad[q].pin =>
              j = pad[q].id /\ asked'[j].status \in {"claimed", "cancelled"} /\ ~asked'[j].stale
      BY <1>1, <3>1 DEF PadOK
    <3>3. \A r \in Pads \ {q} : Holds(r)' => pad'[r].pin # pad[q].pin
      BY <2>4, <3>1 DEF PadOK
    <3>4. pad'[q].step = "apply grant" /\ pad[q].pin \in given' => pad[q].pin \in cut'
      <4>1. CASE q = p
        BY <2>2, <2>3, <4>1
      <4>2. CASE q # p
        <5>1. pad'[q] = pad[q] /\ pad[q].pin # pad[p].pin
          BY <2>3, <2>4, <4>2 DEF PadOK
        <5> QED BY <1>1, <1>4, <3>1, <5>1 DEF PadOK, Step
      <4> QED BY <4>1, <4>2
    <3> QED BY <3>1, <3>2, <3>3, <3>4 DEF PadOK, Step
  <2>8. Ids' = Ids
    BY <1>1 DEF Ids
  <2> QED BY <2>5, <2>6, <2>7, <2>8 DEF PinIInv
<1> QED BY <1>1, <1>2, <1>3, <1>4 DEF applyPinHash, Step

\* Pads that go on after a PIN was applied, or go idle: the request of an applied PIN is on
\* the list, or on its way there, or the note is lost.
LEMMA PadsEnd ==
    ASSUME PinIInv, UNCHANGED <<asked, given, pins>>, cut \subseteq cut', DOMAIN pad' = Pads,
           \A i \in Ids : i \in appliedIds /\ asked[i].pin \in given =>
               i \in appliedIds' \/ asked[i].pin \in cut',
           \A p \in Pads :
               \/ pad'[p] = pad[p]
               \/ pad'[p] = IdlePad
               \/ /\ pad[p].step \in AfterSteps /\ pad'[p].step \in AfterSteps
                  /\ pad'[p].id = pad[p].id /\ pad'[p].pin = pad[p].pin
                  /\ DOMAIN pad'[p] = DOMAIN IdlePad,
           \A p \in Pads : pad[p].step \in AfterSteps =>
               \/ pad'[p].step \in AfterSteps /\ pad'[p].id = pad[p].id /\ pad'[p].pin = pad[p].pin
               \/ pad[p].id \in appliedIds' \/ pad[p].pin \in cut'
    PROVE  PinIInv'
<1>1. /\ Ids' = Ids
      /\ \A p \in Pads : Holds(p)' => /\ Holds(p) /\ pad'[p].pin = pad[p].pin
                                      /\ pad'[p].id = pad[p].id
                                      /\ pad'[p].step = "apply grant" => pad[p].step = "apply grant"
  <2>1. IdlePad.step \notin GrantSteps
    BY DEF IdlePad, AfterSteps, GrantSteps
  <2> QED BY <2>1 DEF Ids, Holds, AfterSteps, GrantSteps
<1>2. PinTypeOK'
  BY <1>1 DEF PinIInv, PinTypeOK
<1>3. ASSUME NEW j \in Ids PROVE OwnPin(j)' /\ Recalled(j)'
  <2>1. OwnPin(j) /\ Recalled(j)
    BY DEF PinIInv
  <2>2. OwnPin(j)'
    BY <1>1, <2>1 DEF OwnPin
  <2>3. Recalled(j)'
    <3> SUFFICES ASSUME asked[j].pin \in given \ cut', j \notin appliedIds'
                 PROVE  \E p \in Pads : /\ pad'[p].step \in AfterSteps
                                        /\ pad'[p].id = j /\ pad'[p].pin = asked[j].pin
      BY DEF Recalled
    <3>1. asked[j].pin \in given \ cut /\ j \notin appliedIds
      OBVIOUS
    <3>2. PICK p \in Pads : /\ pad[p].step \in AfterSteps
                           /\ pad[p].id = j /\ pad[p].pin = asked[j].pin
      BY <2>1, <3>1 DEF Recalled
    <3> QED BY <3>2
  <2> QED BY <2>2, <2>3
<1>4. ASSUME NEW p \in Pads PROVE PadOK(p)'
  <2> SUFFICES ASSUME Holds(p)' PROVE PadOK(p)'
    BY DEF PadOK
  <2>1. /\ PadOK(p) /\ Holds(p) /\ pad'[p].pin = pad[p].pin /\ pad'[p].id = pad[p].id
        /\ pad'[p].step = "apply grant" => pad[p].step = "apply grant"
    BY <1>1 DEF PinIInv
  <2>2. \A q \in Pads \ {p} : Holds(q)' => pad'[q].pin # pad'[p].pin
    BY <1>1, <2>1 DEF PadOK
  <2> QED BY <1>1, <2>1, <2>2 DEF PadOK, Step
<1> QED BY <1>1, <1>2, <1>3, <1>4 DEF PinIInv

\* The request is forgotten, its id put on the list, or the till dies:
LEMMA EndOK ==
    ASSUME PinIInv,
           TillDies \/ \E p \in Pads : clearPendingPinReset(p) \/ rememberGrantApplied(p)
    PROVE  PinIInv'
<1>1. DOMAIN pad = Pads /\ \A q \in Pads : DOMAIN pad[q] = DOMAIN IdlePad
  BY DEF PinIInv, PinTypeOK
<1>2. CASE TillDies
  BY <1>1, <1>2, PadsEnd DEF TillDies, Step, AfterSteps
<1>3. ASSUME NEW p \in Pads, clearPendingPinReset(p) PROVE PinIInv'
  <2>1. PICK to : to = IF Step(p, "clear code") THEN IdlePad
                       ELSE [pad[p] EXCEPT !.step = "remember", !.list = appliedIds]
    OBVIOUS
  <2>2. /\ DOMAIN pad' = Pads /\ pad'[p] = to /\ \A q \in Pads \ {p} : pad'[q] = pad[q]
        /\ UNCHANGED <<asked, appliedIds, given, cut, pins>>
        /\ pad[p].step \in {"clear grant", "clear code"}
    BY <1>1, <1>3, <2>1 DEF clearPendingPinReset, Move
  <2>3. CASE Step(p, "clear code")
    BY <2>1, <2>2, <2>3, PadsEnd DEF Step, AfterSteps
  <2>4. CASE ~Step(p, "clear code")
    <3>1. /\ to.step = "remember" /\ to.id = pad[p].id /\ to.pin = pad[p].pin
          /\ DOMAIN to = DOMAIN IdlePad
      BY <1>1, <2>1, <2>4 DEF IdlePad
    <3>2. pad[p].step \in AfterSteps
      BY <2>2, <2>4 DEF Step, AfterSteps
    <3> QED BY <2>2, <3>1, <3>2, PadsEnd DEF AfterSteps
  <2> QED BY <2>3, <2>4
<1>4. ASSUME NEW p \in Pads, rememberGrantApplied(p) PROVE PinIInv'
  <2>1. /\ DOMAIN pad' = Pads /\ pad'[p] = IdlePad /\ \A q \in Pads \ {p} : pad'[q] = pad[q]
        /\ UNCHANGED <<asked, given, pins>> /\ cut \subseteq cut'
    BY <1>1, <1>4 DEF rememberGrantApplied, Move
  <2>2. pad[p].id \in appliedIds' \/ pad[p].pin \in cut'
    BY <1>4 DEF rememberGrantApplied, WithNewest
  <2>3. \A i \in Ids : i \in appliedIds /\ asked[i].pin \in given =>
            i \in appliedIds' \/ asked[i].pin \in cut'
    BY <1>4 DEF rememberGrantApplied
  <2>4. \A q \in Pads : pad[q].step \in AfterSteps =>
            \/ pad'[q].step \in AfterSteps /\ pad'[q].id = pad[q].id /\ pad'[q].pin = pad[q].pin
            \/ pad[q].id \in appliedIds' \/ pad[q].pin \in cut'
    BY <2>1, <2>2
  <2> QED BY <2>1, <2>3, <2>4, PadsEnd
<1> QED BY <1>2, <1>3, <1>4

\* Every step of a PIN reset keeps the invariant.
LEMMA PinStep == PinIInv /\ [PinResetNext]_pinVars => PinIInv'
<1>1. ASSUME PinIInv, UNCHANGED pinVars PROVE PinIInv'
  <2>1. UNCHANGED <<asked, pad, appliedIds, given, cut, pins>> /\ DOMAIN pad = Pads
    BY <1>1 DEF pinVars, PinIInv, PinTypeOK
  <2> QED BY <1>1, <2>1, PadsMove
<1> QED BY <1>1, RequestOK, ApproveOK, QuietOK, PollOK, RedeemOK, TimeOK, ClaimOK, ApplyOK, EndOK
        DEF PinResetNext, Pad

\* What is known of granted PINs, of the pads that hold them and of those applied, holds at
\* all times.
THEOREM PinResetInvariant == PinResetSpec => []PinIInv
<1> QED BY PinInit, PinStep, PTL DEF PinResetSpec

\* A granted PIN is applied once (ClaimAndApplyPinGrant, though the cloud serves a claim
\* again after 30 minutes), by however many pads and over however many lost answers, unless
\* the till lost its note of it: by a death before the note was saved, a save that failed, a
\* list another pad saved from an older reading, or a list that was full.
THEOREM GrantOnce == PinResetSpec => GrantAppliedOnce
<1>1. PinIInv /\ [PinResetNext]_pinVars =>
        [\A p \in Pads : applyPinHash(p) /\ Step(p, "apply grant") /\ pad[p].pin \in given
             => pad[p].pin \in cut]_pinVars
  BY DEF PinIInv, PadOK, Holds, AfterSteps, GrantSteps, Step
<1> QED BY <1>1, PinResetInvariant, PTL DEF PinResetSpec, GrantAppliedOnce
-----------------------------------------------------------------------------
(***************************************************************************)
(* WhatsApp receipts.  The jobs of a batch are pending, each once; a job   *)
(* whose picture was accepted, as far as the till can know, is marked, or  *)
(* it is the one the worker is about to mark.                              *)
(***************************************************************************)
JobRows == [sale : Sales, status : {"PENDING", "SENT", "FAILED"}, attempts : Nat, due : BOOLEAN]
PickedJobs == [id : Nat, attempts : Nat]

SentOK(j) ==
    j \in got \ unsure =>
        job[j].status = "SENT" \/ (worker.step = "accepted" /\ First.id = j)

JobsOK == job \in Seq(JobRows) /\ got \subseteq Jobs /\ \A j \in Jobs : SentOK(j)

WorkerOK ==
    /\ DOMAIN worker = DOMAIN IdleWorker
    /\ worker.step \in {"idle", "next", "send", "accepted", "failed"}
    /\ worker.batch \in Seq(PickedJobs) /\ (worker.step # "idle" => worker.batch # <<>>)
    /\ \A i \in DOMAIN worker.batch :
           worker.batch[i].id \in Jobs /\ job[worker.batch[i].id].status = "PENDING"
    /\ \A i, k \in DOMAIN worker.batch : worker.batch[i].id = worker.batch[k].id => i = k

AskersOK ==
    /\ DOMAIN asker = Askers
    /\ \A a \in Askers : asker[a] # NoLook => asker[a].job \in Jobs /\ asker[a].saw = "FAILED"

ReceiptsIInv == JobsOK /\ WorkerOK /\ AskersOK

\* At first there is no job.
LEMMA ReceiptsInitIInv == ReceiptsInit => ReceiptsIInv
<1> SUFFICES ASSUME ReceiptsInit PROVE ReceiptsIInv
  OBVIOUS
<1>1. job = <<>> /\ got = {} /\ worker = IdleWorker /\ asker = [a \in Askers |-> NoLook]
  BY DEF ReceiptsInit
<1>2. JobsOK
  BY <1>1 DEF JobsOK, Jobs
<1>3. WorkerOK
  BY <1>1 DEF WorkerOK, IdleWorker
<1>4. AskersOK
  BY <1>1 DEF AskersOK
<1> QED BY <1>2, <1>3, <1>4 DEF ReceiptsIInv

\* The first of a batch, and the rest.
LEMMA FirstIs ==
    ASSUME WorkerOK, worker.step # "idle"
    PROVE  /\ First = worker.batch[1] /\ 1 \in DOMAIN worker.batch
           /\ First.id \in Jobs /\ First.id \in Nat /\ First.attempts \in Nat
           /\ job[First.id].status = "PENDING"
<1>1. worker.batch \in Seq(PickedJobs) /\ worker.batch # <<>>
  BY DEF WorkerOK
<1>2. First = worker.batch[1] /\ 1 \in DOMAIN worker.batch /\ worker.batch[1] \in PickedJobs
  BY <1>1 DEF First
<1> QED BY <1>2 DEF WorkerOK, PickedJobs

\* The worker goes to the next job, or is through.
LEMMA DoneIs ==
    ASSUME WorkerOK, worker.step # "idle", Done
    PROVE  /\ DOMAIN worker' = DOMAIN IdleWorker
           /\ worker'.step \in {"idle", "next"}
           /\ worker'.batch \in Seq(PickedJobs) /\ (worker'.step # "idle" => worker'.batch # <<>>)
           /\ \A i \in DOMAIN worker'.batch :
                  /\ i \in Nat /\ i + 1 \in DOMAIN worker.batch
                  /\ worker'.batch[i] = worker.batch[i + 1]
<1>1. PICK b : b = worker.batch
  OBVIOUS
<1>2. b \in Seq(PickedJobs) /\ b # <<>>
  BY <1>1 DEF WorkerOK
<1>3. PICK new : new = [step |-> IF Len(b) = 1 THEN "idle" ELSE "next", batch |-> Tail(b)]
  OBVIOUS
<1>4. worker' = new /\ DOMAIN new = DOMAIN IdleWorker
  BY <1>1, <1>3 DEF Done, IdleWorker
<1>5. /\ new.step \in {"idle", "next"} /\ new.batch = Tail(b)
      /\ new.step # "idle" => Len(b) # 1
  BY <1>3
<1>6. /\ Tail(b) \in Seq(PickedJobs) /\ Len(Tail(b)) = Len(b) - 1
      /\ \A i \in 1..Len(b) - 1 : Tail(b)[i] = b[i + 1]
      /\ DOMAIN Tail(b) = 1..Len(b) - 1 /\ DOMAIN b = 1..Len(b) /\ Len(b) \in Nat \ {0}
  BY <1>2
<1>7. Len(b) # 1 => Tail(b) # <<>>
  BY <1>6
<1>8. \A i \in DOMAIN Tail(b) : i + 1 \in DOMAIN b /\ i \in Nat
  BY <1>6
<1> QED BY <1>1, <1>4, <1>5, <1>6, <1>7, <1>8

\* Jobs that are added, wait no longer or are put back while the worker stands still.
LEMMA JobsMove ==
    ASSUME ReceiptsIInv, UNCHANGED <<worker, got>>, unsure \subseteq unsure',
           job' \in Seq(JobRows), Jobs \subseteq DOMAIN job',
           \A j \in Jobs : \/ job'[j].status = job[j].status
                           \/ job'[j].status = "PENDING" /\ j \notin got \ unsure'
    PROVE  JobsOK' /\ WorkerOK'
<1>1. Jobs \subseteq Jobs'
  BY DEF Jobs
<1>2. First' = First
  BY DEF First
<1>3. JobsOK'
  <2> SUFFICES ASSUME NEW j \in Jobs', j \in got \ unsure'
               PROVE  job'[j].status = "SENT" \/ (worker.step = "accepted" /\ First.id = j)
    BY <1>1, <1>2 DEF ReceiptsIInv, JobsOK, SentOK
  <2>1. j \in Jobs /\ SentOK(j)
    BY DEF ReceiptsIInv, JobsOK
  <2> QED BY <2>1 DEF SentOK
<1>4. WorkerOK'
  BY <1>1 DEF ReceiptsIInv, WorkerOK
<1> QED BY <1>3, <1>4

\* The worker has its say on the first job of its batch.
LEMMA WorkerMoves ==
    ASSUME ReceiptsIInv, UNCHANGED asker, worker.step # "idle", NEW f, f = First,
           NEW to \in {"send", "accepted", "failed"}, NEW row \in JobRows,
           \/ Done /\ (UNCHANGED job \/ job' = [job EXCEPT ![f.id] = row])
           \/ worker' = [worker EXCEPT !.step = to] /\ UNCHANGED job,
           got \subseteq got', got' \subseteq got \cup {f.id}, unsure \subseteq unsure',
           f.id \in got' \ unsure' => \/ job'[f.id].status = "SENT"
                                      \/ worker' = [worker EXCEPT !.step = to] /\ to = "accepted",
           worker.step = "accepted" => f.id \in unsure' \/ Done
    PROVE  ReceiptsIInv'
<1>1. /\ job \in Seq(JobRows) /\ got \subseteq Jobs /\ WorkerOK /\ AskersOK
      /\ \A j \in Jobs : SentOK(j)
  BY DEF ReceiptsIInv, JobsOK
<1>2. /\ f = worker.batch[1] /\ 1 \in DOMAIN worker.batch /\ f.id \in Jobs
      /\ job[f.id].status = "PENDING"
  BY <1>1, FirstIs
<1>3. /\ job' \in Seq(JobRows) /\ Jobs' = Jobs /\ \A j \in Jobs \ {f.id} : job'[j] = job[j]
  BY <1>1, <1>2 DEF Jobs
<1>4. WorkerOK'
  <2>1. CASE Done
    <3>1. \A i \in DOMAIN worker'.batch :
              /\ i \in Nat /\ i + 1 \in DOMAIN worker.batch
              /\ worker'.batch[i] = worker.batch[i + 1]
              /\ worker.batch[i + 1].id # f.id /\ worker.batch[i + 1].id \in Jobs
              /\ job[worker.batch[i + 1].id].status = "PENDING"
      <4>1. \A i \in DOMAIN worker'.batch :
                /\ worker'.batch[i] = worker.batch[i + 1] /\ i + 1 \in DOMAIN worker.batch
                /\ i \in Nat /\ i + 1 # 1
        <5>1. \A i \in DOMAIN worker'.batch : i \in Nat
          BY <1>1, <2>1, DoneIs
        <5>2. \A i \in DOMAIN worker'.batch : i # 0
          BY <1>1, <2>1, DoneIs
        <5> QED BY <1>1, <2>1, <5>1, <5>2, DoneIs
      <4> QED BY <1>1, <1>2, <4>1 DEF WorkerOK
    <3>2. \A i, k \in DOMAIN worker'.batch : worker'.batch[i].id = worker'.batch[k].id => i = k
      <4> SUFFICES ASSUME NEW i \in DOMAIN worker'.batch, NEW k \in DOMAIN worker'.batch,
                          worker'.batch[i].id = worker'.batch[k].id
                   PROVE  i = k
        OBVIOUS
      <4>1. i + 1 = k + 1 /\ i \in Nat /\ k \in Nat
        BY <1>1, <3>1 DEF WorkerOK
      <4> QED BY <4>1
    <3>3. /\ DOMAIN worker' = DOMAIN IdleWorker /\ worker'.step \in {"idle", "next"}
          /\ worker'.batch \in Seq(PickedJobs) /\ (worker'.step # "idle" => worker'.batch # <<>>)
      BY <1>1, <2>1, DoneIs
    <3>4. \A i \in DOMAIN worker'.batch :
              worker'.batch[i].id \in Jobs' /\ job'[worker'.batch[i].id].status = "PENDING"
      BY <1>3, <3>1
    <3> QED BY <3>2, <3>3, <3>4 DEF WorkerOK, IdleWorker
  <2>2. CASE worker' = [worker EXCEPT !.step = to] /\ UNCHANGED job
    <3>1. worker'.step = to /\ worker'.batch = worker.batch /\ DOMAIN worker' = DOMAIN worker
      BY <1>1, <2>2 DEF WorkerOK, IdleWorker
    <3> QED BY <1>1, <1>3, <2>2, <3>1 DEF WorkerOK, IdleWorker
  <2> QED BY <2>1, <2>2
<1>5. \A j \in Jobs : SentOK(j)'
  <2> SUFFICES ASSUME NEW j \in Jobs, j \in got' \ unsure'
               PROVE  job'[j].status = "SENT" \/ (worker'.step = "accepted" /\ First'.id = j)
    BY DEF SentOK
  <2>1. CASE j = f.id
    <3>1. CASE worker' = [worker EXCEPT !.step = to] /\ to = "accepted"
      <4>1. worker'.step = "accepted" /\ worker'.batch = worker.batch
        BY <1>1, <3>1 DEF WorkerOK, IdleWorker
      <4> QED BY <2>1, <4>1 DEF First
    <3> QED BY <2>1, <3>1
  <2>2. CASE j # f.id
    <3>1. j \in got \ unsure /\ SentOK(j)
      BY <1>1, <2>2
    <3> QED BY <1>3, <2>2, <3>1 DEF SentOK
  <2> QED BY <2>1, <2>2
<1>6. AskersOK'
  BY <1>1, <1>3 DEF AskersOK
<1>7. got' \subseteq Jobs
  BY <1>1, <1>2
<1> QED BY <1>3, <1>4, <1>5, <1>6, <1>7 DEF ReceiptsIInv, JobsOK
-----------------------------------------------------------------------------
\* Each step keeps the invariant.  Sales, shared receipts, voids, and time:
LEMMA SaleSideOK ==
    ASSUME ReceiptsIInv,
           \/ \E s \in Sales : QueueWhatsappReceipt(s) \/ ResendWhatsappReceipt(s) \/ VoidSale(s)
           \/ MinutesPass
    PROVE  ReceiptsIInv'
<1>1. /\ UNCHANGED <<worker, asker, got, unsure>>
      /\ \/ UNCHANGED job
         \/ \E s \in Sales : job' = Append(job, JobRow(s))
         \/ job' = [j \in Jobs |-> [job[j] EXCEPT !.due = TRUE]]
  BY DEF QueueWhatsappReceipt, ResendWhatsappReceipt, VoidSale, MinutesPass, queueWhatsappJob
<1>2. job \in Seq(JobRows) /\ \A j \in Jobs : job[j] \in JobRows
  BY DEF ReceiptsIInv, JobsOK, Jobs
<1>3. /\ job' \in Seq(JobRows) /\ Jobs \subseteq DOMAIN job'
      /\ \A j \in Jobs : job'[j].status = job[j].status
  <2>1. CASE UNCHANGED job
    BY <1>2, <2>1 DEF Jobs
  <2>2. ASSUME NEW s \in Sales, job' = Append(job, JobRow(s))
        PROVE  /\ job' \in Seq(JobRows) /\ Jobs \subseteq DOMAIN job'
               /\ \A j \in Jobs : job'[j] = job[j]
    <3>1. JobRow(s) \in JobRows
      BY DEF JobRow, JobRows
    <3> QED BY <1>2, <2>2, <3>1 DEF Jobs
  <2>3. CASE job' = [j \in Jobs |-> [job[j] EXCEPT !.due = TRUE]]
    <3>1. \A j \in Jobs : job'[j] \in JobRows /\ job'[j].status = job[j].status
      BY <1>2, <2>3 DEF JobRows
    <3> QED BY <1>2, <2>3, <3>1 DEF Jobs
  <2> QED BY <1>1, <2>1, <2>2, <2>3
<1>4. JobsOK' /\ WorkerOK'
  BY <1>1, <1>3, JobsMove
<1>5. AskersOK'
  BY <1>1, <1>3 DEF ReceiptsIInv, AskersOK, Jobs
<1> QED BY <1>4, <1>5 DEF ReceiptsIInv

\* The Retry button looks:
LEMMA LookOK ==
    ASSUME ReceiptsIInv, NEW a \in Askers, NEW j \in Jobs, RetryWhatsappJobLook(a, j)
    PROVE  ReceiptsIInv'
<1>1. /\ UNCHANGED <<worker, job, got, unsure>> /\ job[j].status = "FAILED"
      /\ asker' = [asker EXCEPT ![a] = [job |-> j, saw |-> "FAILED"]]
  BY DEF RetryWhatsappJobLook, MayRetry
<1>2. JobsOK' /\ WorkerOK'
  BY <1>1, JobsMove DEF ReceiptsIInv, JobsOK, Jobs
<1>3. AskersOK'
  BY <1>1 DEF ReceiptsIInv, AskersOK, Jobs
<1> QED BY <1>2, <1>3 DEF ReceiptsIInv

\* ... and puts the job back, as it then finds it:
LEMMA RetryOK == ASSUME ReceiptsIInv, NEW a \in Askers, RetryWhatsappJob(a) PROVE ReceiptsIInv'
<1>1. PICK j : j = asker[a].job
  OBVIOUS
<1>2. /\ UNCHANGED <<worker, got>> /\ j \in Jobs /\ asker[a].saw = "FAILED"
      /\ asker' = [asker EXCEPT ![a] = NoLook]
      /\ job' = [job EXCEPT ![j] = JobRow(@.sale)]
      /\ unsure' = IF job[j].status = "FAILED" THEN unsure ELSE unsure \cup {j}
  BY <1>1 DEF RetryWhatsappJob, ReceiptsIInv, AskersOK
<1>3. job \in Seq(JobRows) /\ job[j] \in JobRows /\ SentOK(j) /\ WorkerOK
  BY <1>2 DEF ReceiptsIInv, JobsOK, Jobs
<1>4. PICK row : row = JobRow(job[j].sale)
  OBVIOUS
<1>5. row \in JobRows /\ row.status = "PENDING" /\ job' = [job EXCEPT ![j] = row]
  BY <1>2, <1>3, <1>4 DEF JobRow, JobRows
<1>6. job' \in Seq(JobRows) /\ DOMAIN job' = Jobs /\ job'[j] = row
      /\ \A k \in Jobs \ {j} : job'[k] = job[k]
  BY <1>2, <1>3, <1>5 DEF Jobs
<1>7. j \notin got \ unsure'
  <2> SUFFICES ASSUME j \in got \ unsure' PROVE FALSE
    OBVIOUS
  <2>1. job[j].status = "FAILED" /\ j \in got \ unsure
    BY <1>2
  <2>2. worker.step = "accepted" /\ First.id = j
    BY <1>3, <2>1 DEF SentOK
  <2> QED BY <1>3, <2>1, <2>2, FirstIs
<1>8. JobsOK' /\ WorkerOK'
  BY <1>2, <1>5, <1>6, <1>7, JobsMove
<1>9. AskersOK'
  BY <1>2, <1>6 DEF ReceiptsIInv, AskersOK, Jobs
<1> QED BY <1>8, <1>9 DEF ReceiptsIInv

\* A tick picks its batch:
LEMMA PickOK == ASSUME ReceiptsIInv, PickBatch PROVE ReceiptsIInv'
<1>1. PICK n \in 1..Batch : \E picked \in [1..n -> Jobs] :
          /\ OldestFirst(picked)
          /\ worker' = [step |-> "next",
                        batch |-> [i \in 1..n |-> [id |-> picked[i],
                                                  attempts |-> job[picked[i]].attempts]]]
  BY DEF PickBatch
<1>2. PICK picked \in [1..n -> Jobs] :
          /\ OldestFirst(picked)
          /\ worker' = [step |-> "next",
                        batch |-> [i \in 1..n |-> [id |-> picked[i],
                                                  attempts |-> job[picked[i]].attempts]]]
  BY <1>1
<1>3. UNCHANGED <<job, asker, got, unsure>> /\ worker.step = "idle"
  BY DEF PickBatch
<1>4. /\ job \in Seq(JobRows) /\ got \subseteq Jobs /\ (\A j \in Jobs : SentOK(j)) /\ AskersOK
      /\ n \in Nat \ {0} /\ Jobs' = Jobs
  BY <1>3, ReceiptsAssumption DEF ReceiptsIInv, JobsOK, Jobs
<1>5. PICK b : b = [i \in 1..n |-> [id |-> picked[i], attempts |-> job[picked[i]].attempts]]
  OBVIOUS
<1>6. PICK new : new = [step |-> "next", batch |-> b]
  OBVIOUS
<1>7. worker' = new /\ DOMAIN new = DOMAIN IdleWorker /\ new.step = "next" /\ new.batch = b
  BY <1>2, <1>5, <1>6 DEF IdleWorker
<1>8. \A i \in 1..n : b[i] \in PickedJobs /\ b[i].id = picked[i]
  <2> SUFFICES ASSUME NEW i \in 1..n PROVE b[i] \in PickedJobs /\ b[i].id = picked[i]
    OBVIOUS
  <2>1. picked[i] \in Jobs /\ picked[i] \in Nat /\ job[picked[i]] \in JobRows
    BY <1>4 DEF Jobs
  <2>2. job[picked[i]].attempts \in Nat
    BY <2>1 DEF JobRows
  <2> QED BY <1>5, <2>1, <2>2 DEF PickedJobs
<1>9. b \in Seq(PickedJobs) /\ DOMAIN b = 1..n /\ b # <<>>
  <2>1. b \in [1..n -> PickedJobs] /\ DOMAIN b = 1..n
    BY <1>5, <1>8
  <2>2. b \in Seq(PickedJobs) /\ 1 \in DOMAIN b
    BY <1>4, <2>1
  <2> QED BY <2>1, <2>2
<1>10. /\ \A i \in 1..n : picked[i] \in Jobs /\ job[picked[i]].status = "PENDING"
       /\ \A i, k \in 1..n : picked[i] = picked[k] => i = k
  <2>1. /\ \A i \in 1..n : picked[i] \in Pending /\ picked[i] \in Nat
        /\ \A i, k \in 1..n : i < k => picked[i] < picked[k]
    <3>1. DOMAIN picked = 1..n /\ \A i \in 1..n : picked[i] \in Jobs
      BY <1>2
    <3>2. Jobs \subseteq Nat
      BY <1>4 DEF Jobs
    <3> QED BY <1>2, <3>1, <3>2 DEF OldestFirst
  <2>2. \A i, k \in 1..n : picked[i] = picked[k] => i = k
    <3> SUFFICES ASSUME NEW i \in 1..n, NEW k \in 1..n, picked[i] = picked[k] PROVE i = k
      OBVIOUS
    <3>1. ~(i < k) /\ ~(k < i)
      BY <2>1
    <3> QED BY <3>1, <1>4
  <2> QED BY <2>1, <2>2 DEF Pending
<1>11. WorkerOK'
  <2>1. \A i \in DOMAIN b : b[i].id \in Jobs' /\ job'[b[i].id].status = "PENDING"
    BY <1>3, <1>4, <1>8, <1>9, <1>10
  <2>2. \A i, k \in DOMAIN b : b[i].id = b[k].id => i = k
    BY <1>8, <1>9, <1>10
  <2> QED BY <1>7, <1>9, <2>1, <2>2 DEF WorkerOK
<1>12. JobsOK'
  BY <1>3, <1>4 DEF JobsOK, SentOK
<1>13. AskersOK'
  BY <1>3, <1>4 DEF AskersOK
<1> QED BY <1>11, <1>12, <1>13 DEF ReceiptsIInv
\* The job a worker is about to send, and every one it will come to, is not known to be
\* accepted: it would be marked.
LEMMA NotYetAccepted ==
    ASSUME ReceiptsIInv, worker.step \in {"next", "send", "failed"}
    PROVE  First.id \notin got \ unsure
<1>1. First.id \in Jobs /\ job[First.id].status = "PENDING"
  BY FirstIs DEF ReceiptsIInv
<1>2. SentOK(First.id)
  BY <1>1 DEF ReceiptsIInv, JobsOK
<1> QED BY <1>1, <1>2 DEF SentOK

\* The worker takes up a job:
LEMMA TakeUpOK ==
    ASSUME ReceiptsIInv, NotYetDue \/ CancelJob \/ StillPaid PROVE ReceiptsIInv'
<1>1. PICK f : f = First
  OBVIOUS
<1>2. worker.step = "next" /\ UNCHANGED <<asker, got, unsure>> /\ f.id \notin got \ unsure
  <2>1. worker.step = "next" /\ UNCHANGED <<asker, got, unsure>>
    BY DEF NotYetDue, CancelJob, StillPaid
  <2> QED BY <1>1, <2>1, NotYetAccepted
<1>3. f.id \in Jobs /\ f.attempts \in Nat /\ job[f.id] \in JobRows
  BY <1>1, <1>2, FirstIs DEF ReceiptsIInv, JobsOK, Jobs
<1>4. CASE NotYetDue
  <2>1. Done /\ UNCHANGED job
    BY <1>4 DEF NotYetDue
  <2> QED BY <1>1, <1>2, <1>3, <2>1, WorkerMoves
<1>5. CASE CancelJob
  <2> DEFINE row == [job[f.id] EXCEPT !.status = "FAILED", !.attempts = f.attempts + 1]
  <2>1. Done /\ job' = [job EXCEPT ![f.id] = row]
    BY <1>1, <1>5 DEF CancelJob, Cancelled
  <2>2. row \in JobRows
    <3>1. f.attempts + 1 \in Nat
      BY <1>3
    <3> QED BY <1>3, <3>1 DEF JobRows
  <2> HIDE DEF row
  <2> QED BY <1>1, <1>2, <2>1, <2>2, WorkerMoves
<1>6. CASE StillPaid
  <2>1. worker' = [worker EXCEPT !.step = "send"] /\ UNCHANGED job
    BY <1>6 DEF StillPaid
  <2> QED BY <1>1, <1>2, <1>3, <2>1, WorkerMoves
<1> QED BY <1>4, <1>5, <1>6

\* The picture goes out:
LEMMA SendOK == ASSUME ReceiptsIInv, sendWhatsappImage PROVE ReceiptsIInv'
<1>1. PICK f : f = First
  OBVIOUS
<1>2. worker.step = "send" /\ UNCHANGED <<asker, job>> /\ f.id \notin got \ unsure
  <2>1. worker.step = "send" /\ UNCHANGED <<asker, job>>
    BY DEF sendWhatsappImage
  <2> QED BY <1>1, <2>1, NotYetAccepted
<1>3. job[f.id] \in JobRows
  BY <1>1, <1>2, FirstIs DEF ReceiptsIInv, JobsOK, Jobs
<1>4. CASE worker' = [worker EXCEPT !.step = "accepted"]
           /\ got' = got \cup {f.id} /\ UNCHANGED unsure
  BY <1>1, <1>2, <1>3, <1>4, WorkerMoves
<1>5. CASE /\ worker' = [worker EXCEPT !.step = "failed"]
           /\ \/ UNCHANGED <<got, unsure>>
              \/ got' = got \cup {f.id} /\ unsure' = unsure \cup {f.id}
  BY <1>1, <1>2, <1>3, <1>5, WorkerMoves
<1> QED BY <1>1, <1>4, <1>5 DEF sendWhatsappImage

\* The job is marked, or the mark fails:
LEMMA MarkOK == ASSUME ReceiptsIInv, MarkJob \/ MarkFails PROVE ReceiptsIInv'
<1>1. PICK f : f = First
  OBVIOUS
<1>2. worker.step \in {"accepted", "failed"} /\ Done /\ UNCHANGED <<asker, got>>
      /\ unsure \subseteq unsure'
  BY DEF MarkJob, MarkFails
<1>3. /\ job \in Seq(JobRows) /\ f.id \in Jobs /\ f.attempts \in Nat /\ job[f.id] \in JobRows
  BY <1>1, <1>2, FirstIs DEF ReceiptsIInv, JobsOK, Jobs
<1>4. worker.step = "failed" => f.id \notin got \ unsure
  BY <1>1, NotYetAccepted
<1>5. CASE UNCHANGED job /\ (worker.step = "accepted" => unsure' = unsure \cup {f.id})
  BY <1>1, <1>2, <1>3, <1>4, <1>5, WorkerMoves
<1>6. CASE worker.step = "accepted" /\ job' = [job EXCEPT ![f.id].status = "SENT"]
  <2> DEFINE row == [job[f.id] EXCEPT !.status = "SENT"]
  <2>1. row \in JobRows /\ row.status = "SENT"
    BY <1>3 DEF JobRows
  <2>2. job' = [job EXCEPT ![f.id] = row]
    BY <1>6
  <2>3. job'[f.id].status = "SENT"
    BY <1>3, <2>1, <2>2 DEF Jobs
  <2> HIDE DEF row
  <2> QED BY <1>1, <1>2, <1>3, <2>1, <2>2, <2>3, WorkerMoves
<1>7. CASE worker.step = "failed" /\ job' = [job EXCEPT ![f.id] = AfterFailure(f)]
  <2>1. AfterFailure(f) \in JobRows
    <3>1. f.attempts + 1 \in Nat
      BY <1>3
    <3>2. AfterFailure(f) =
            [job[f.id] EXCEPT !.attempts = f.attempts + 1, !.due = FALSE,
                !.status = IF f.attempts + 1 >= MaxAttempts THEN "FAILED" ELSE job[f.id].status]
      BY DEF AfterFailure
    <3> QED BY <1>3, <3>1, <3>2 DEF JobRows
  <2>2. PICK row : row = AfterFailure(f)
    OBVIOUS
  <2> QED BY <1>1, <1>2, <1>3, <1>4, <1>7, <2>1, <2>2, WorkerMoves
<1> QED BY <1>1, <1>2, <1>5, <1>6, <1>7 DEF MarkJob, MarkFails

\* The process dies:
LEMMA DieOK == ASSUME ReceiptsIInv, ReceiptsDie PROVE ReceiptsIInv'
<1>1. /\ UNCHANGED <<job, got>> /\ worker' = IdleWorker /\ asker' = [a \in Askers |-> NoLook]
      /\ unsure' = IF worker.step = "accepted" THEN unsure \cup {First.id} ELSE unsure
  BY DEF ReceiptsDie
<1>2. WorkerOK'
  BY <1>1 DEF WorkerOK, IdleWorker
<1>3. AskersOK'
  BY <1>1 DEF AskersOK
<1>4. Jobs' = Jobs /\ \A j \in Jobs : SentOK(j)'
  <2> SUFFICES ASSUME NEW j \in Jobs, j \in got \ unsure' PROVE job[j].status = "SENT"
    BY <1>1 DEF SentOK, Jobs
  <2>1. SentOK(j)
    BY DEF ReceiptsIInv, JobsOK
  <2> QED BY <1>1, <2>1 DEF SentOK
<1> QED BY <1>1, <1>2, <1>3, <1>4 DEF ReceiptsIInv, JobsOK

\* Every step about receipts keeps the invariant.
LEMMA ReceiptsStep == ReceiptsIInv /\ [ReceiptsNext]_receiptVars => ReceiptsIInv'
<1>1. ASSUME ReceiptsIInv, UNCHANGED receiptVars PROVE ReceiptsIInv'
  BY <1>1 DEF receiptVars, ReceiptsIInv, JobsOK, SentOK, WorkerOK, AskersOK, Jobs, First
<1> QED BY <1>1, SaleSideOK, LookOK, RetryOK, PickOK, TakeUpOK, SendOK, MarkOK, DieOK
        DEF ReceiptsNext, drainWhatsappJobs

\* What is known of accepted pictures, of batches and of retries holds at all times.
THEOREM ReceiptsInvariant == ReceiptsSpec => []ReceiptsIInv
<1> QED BY ReceiptsInitIInv, ReceiptsStep, PTL DEF ReceiptsSpec

\* The gateway accepts the picture of a job again only when the till could not know of the
\* first time, or two Retry requests crossed (drainWhatsappJobs, RetryWhatsappJob), for any
\* number of jobs, requests and batches.
THEOREM ReceiptSentOnce == ReceiptsSpec => ReceiptOnce
<1>1. ReceiptsIInv /\ [ReceiptsNext]_receiptVars =>
        [worker.step = "send" /\ worker'.step = "accepted" /\ First.id \in got
             => First.id \in unsure]_receiptVars
  BY NotYetAccepted
<1> QED BY <1>1, ReceiptsInvariant, PTL DEF ReceiptsSpec, ReceiptOnce
-----------------------------------------------------------------------------
(***************************************************************************)
(* Off-site backups.  The greatest name in the bucket is the last that was *)
(* put there, and pruning keeps it.                                        *)
(***************************************************************************)
QueueJobs == [snap : Nat, due : BOOLEAN]

OffsiteIInv ==
    /\ taken \in Nat /\ taker \in [Takers -> Nat] /\ queue \in Seq(QueueJobs)
    /\ upload.snap \in Nat /\ DOMAIN upload = DOMAIN NoUpload
    /\ sent \in Seq(Nat) /\ bucket \in Seq(Nat)
    /\ RestoresLastSent

\* The worker pops a job that is there.
LEMMA FirstDueIs ==
    ASSUME OffsiteIInv, DueJobs # {}
    PROVE  (CHOOSE i \in DueJobs : \A j \in DueJobs : i <= j) \in DOMAIN queue
<1>1. DueJobs \subseteq DOMAIN queue /\ DueJobs \subseteq Nat
  BY DEF DueJobs, OffsiteIInv
<1> DEFINE R == OpToRel(<, Nat)
<1>2. PICK i \in DueJobs : ~ \E j \in DueJobs : <<j, i>> \in R
  BY <1>1, NatLessThanWellFounded, WFMin
<1> HIDE DEF R
<1>3. \A j \in DueJobs : i <= j
  BY <1>1, <1>2 DEF R, OpToRel
<1> QED BY <1>1, <1>3

\* What is popped leaves a queue of jobs.
LEMMA WithoutIs ==
    ASSUME OffsiteIInv, NEW i \in DOMAIN queue
    PROVE  Without(i) \in Seq(QueueJobs) /\ queue[i].snap \in Nat
<1>1. queue \in Seq(QueueJobs) /\ i \in 1..Len(queue) /\ queue[i] \in QueueJobs
  BY DEF OffsiteIInv
<1>2. /\ SubSeq(queue, 1, i - 1) \in Seq(QueueJobs)
      /\ SubSeq(queue, i + 1, Len(queue)) \in Seq(QueueJobs)
  BY <1>1
<1> QED BY <1>1, <1>2 DEF Without, QueueJobs

\* A job that joins the queue.
LEMMA JoinsQueue ==
    ASSUME OffsiteIInv, NEW s \in Nat, NEW due \in BOOLEAN
    PROVE  Append(queue, QueueJob(s, due)) \in Seq(QueueJobs)
BY DEF OffsiteIInv, QueueJob, QueueJobs

\* The newest of a sequence end where it does.
LEMMA NewestEnds ==
    ASSUME NEW seq \in Seq(Nat), NEW k \in Nat \ {0}, seq # <<>>
    PROVE  /\ Newest(seq, k) \in Seq(Nat) /\ Newest(seq, k) # <<>>
           /\ Newest(seq, k)[Len(Newest(seq, k))] = seq[Len(seq)]
<1> DEFINE from == IF Len(seq) > k THEN Len(seq) - k + 1 ELSE 1
           n == Len(seq)
<1>1. /\ n \in Nat \ {0} /\ from \in 1..n /\ Newest(seq, k) = SubSeq(seq, from, n)
  BY DEF Newest
<1> HIDE DEF from, n
<1>2. /\ SubSeq(seq, from, n) \in Seq(Nat) /\ Len(SubSeq(seq, from, n)) = n - from + 1
      /\ \A j \in 1..n - from + 1 : SubSeq(seq, from, n)[j] = seq[from + j - 1]
  BY <1>1 DEF n
<1>3. n - from + 1 \in 1..n /\ from + (n - from + 1) - 1 = n
  BY <1>1
<1>4. SubSeq(seq, from, n)[n - from + 1] = seq[n] /\ SubSeq(seq, from, n) # <<>>
  BY <1>1, <1>2, <1>3
<1> QED BY <1>1, <1>2, <1>4 DEF n

\* A snapshot that gets to the bucket is what a restore then finds.
LEMMA UploadObjectIs ==
    ASSUME OffsiteIInv, NEW s \in Nat, UploadObject(s)
    PROVE  sent' \in Seq(Nat) /\ bucket' \in Seq(Nat) /\ RestoresLastSent'
<1>1. sent \in Seq(Nat) /\ bucket \in Seq(Nat)
  BY DEF OffsiteIInv
<1>2. sent' = Append(sent, s) /\ sent' \in Seq(Nat) /\ sent'[Len(sent')] = s
  BY <1>1 DEF UploadObject
<1>3. bucket' \in Seq(Nat) /\ bucket' # <<>> /\ bucket'[Len(bucket')] = s
  <2>1. CASE bucket' = Append(bucket, s)
    BY <1>1, <2>1
  <2>2. CASE bucket # <<>> /\ bucket' = [bucket EXCEPT ![Len(bucket)] = s]
    <3>1. Len(bucket) \in DOMAIN bucket
      BY <1>1, <2>2
    <3>2. bucket' \in Seq(Nat) /\ Len(bucket') = Len(bucket) /\ bucket'[Len(bucket)] = s
      BY <1>1, <2>2, <3>1
    <3> QED BY <3>1, <3>2
  <2> QED BY <2>1, <2>2 DEF UploadObject
<1> QED BY <1>2, <1>3 DEF RestoresLastSent, best

\* Each step keeps the invariant.
LEMMA OffsiteStep == OffsiteIInv /\ [OffsiteNext]_offsiteVars => OffsiteIInv'
<1> SUFFICES ASSUME OffsiteIInv, [OffsiteNext]_offsiteVars PROVE OffsiteIInv'
  OBVIOUS
<1>0. /\ taken \in Nat /\ taker \in [Takers -> Nat] /\ queue \in Seq(QueueJobs)
      /\ upload.snap \in Nat /\ DOMAIN upload = DOMAIN NoUpload
      /\ sent \in Seq(Nat) /\ bucket \in Seq(Nat) /\ RestoresLastSent
      /\ DOMAIN NoUpload = {"step", "snap"} /\ NoUpload.snap = 0
  BY DEF OffsiteIInv, NoUpload
<1>1. UNCHANGED <<sent, bucket>> => RestoresLastSent'
  BY <1>0 DEF RestoresLastSent, best
<1>2. ASSUME NEW t \in Takers, maybeAutoBackup(t) \/ WriteSnapshot(t) PROVE OffsiteIInv'
  <2>1. /\ taken' = taken + 1 /\ taker' = [taker EXCEPT ![t] = taken']
        /\ UNCHANGED <<queue, upload, bucket, sent>>
    BY <1>2 DEF maybeAutoBackup, WriteSnapshot
  <2>2. taken' \in Nat /\ taker' \in [Takers -> Nat]
    BY <1>0, <2>1
  <2> QED BY <1>0, <1>1, <2>1, <2>2 DEF OffsiteIInv
<1>3. ASSUME NEW t \in Takers, BackupNow(t) PROVE OffsiteIInv'
  <2>1. queue' \in Seq(QueueJobs)
    BY <1>0, <1>3, JoinsQueue DEF BackupNow, Enqueue
  <2> QED BY <1>0, <1>1, <1>3, <2>1 DEF BackupNow, OffsiteIInv
<1>4. CASE NextDay \/ UNCHANGED offsiteVars
  BY <1>0, <1>1, <1>4 DEF NextDay, offsiteVars, OffsiteIInv
<1>5. CASE PopDue
  <2>1. PICK i \in DOMAIN queue :
            upload' = [step |-> "put", snap |-> queue[i].snap] /\ queue' = Without(i)
    BY <1>5, FirstDueIs DEF PopDue
  <2>2. upload'.snap \in Nat /\ queue' \in Seq(QueueJobs) /\ DOMAIN upload' = {"step", "snap"}
    BY <2>1, WithoutIs
  <2> QED BY <1>0, <1>1, <1>5, <2>2 DEF PopDue, OffsiteIInv, NoUpload
<1>6. CASE Uploaded
  <2>1. UploadObject(upload.snap) /\ upload' = [upload EXCEPT !.step = "prune"]
        /\ UNCHANGED <<taken, taker, queue>>
    BY <1>6 DEF Uploaded
  <2>2. upload'.snap = upload.snap /\ DOMAIN upload' = DOMAIN upload
    BY <1>0, <2>1
  <2> QED BY <1>0, <2>1, <2>2, UploadObjectIs DEF OffsiteIInv, NoUpload
<1>7. CASE UploadFails
  <2>1. /\ upload' = NoUpload /\ queue' = Requeue(upload.snap) /\ UNCHANGED <<taken, taker>>
        /\ UNCHANGED <<bucket, sent>> \/ UploadObject(upload.snap)
    BY <1>7 DEF UploadFails
  <2>2. queue' \in Seq(QueueJobs)
    BY <1>0, <2>1, JoinsQueue DEF Requeue
  <2>3. sent' \in Seq(Nat) /\ bucket' \in Seq(Nat) /\ RestoresLastSent'
    BY <1>0, <1>1, <2>1, UploadObjectIs
  <2> QED BY <1>0, <2>1, <2>2, <2>3 DEF OffsiteIInv
<1>8. CASE PruneRemote
  <2>1. /\ upload' = NoUpload /\ UNCHANGED <<taken, taker, queue, sent>>
        /\ UNCHANGED bucket \/ (bucket' = Newest(bucket, RemoteKeep) /\ Len(bucket) > RemoteKeep)
    BY <1>0, <1>8, OffsiteAssumption DEF PruneRemote, pruneRemote
  <2>2. CASE UNCHANGED bucket
    BY <1>0, <1>1, <2>1, <2>2 DEF OffsiteIInv
  <2>3. CASE bucket' = Newest(bucket, RemoteKeep) /\ Len(bucket) > RemoteKeep
    <3>1. bucket # <<>>
      BY <1>0, <2>3, OffsiteAssumption
    <3>2. bucket' \in Seq(Nat) /\ bucket' # <<>> /\ bucket'[Len(bucket')] = bucket[Len(bucket)]
      BY <1>0, <2>3, <3>1, NewestEnds, OffsiteAssumption
    <3>3. RestoresLastSent'
      BY <1>0, <2>1, <3>1, <3>2 DEF RestoresLastSent, best
    <3> QED BY <1>0, <2>1, <3>2, <3>3 DEF OffsiteIInv
  <2> QED BY <2>1, <2>2, <2>3
<1>9. CASE backoff
  <2>1. /\ queue' = [i \in DOMAIN queue |-> QueueJob(queue[i].snap, TRUE)]
        /\ UNCHANGED <<taken, taker, upload, bucket, sent>>
    BY <1>9 DEF backoff
  <2>2. \A i \in DOMAIN queue : QueueJob(queue[i].snap, TRUE) \in QueueJobs
    BY WithoutIs DEF QueueJob, QueueJobs
  <2>3. queue' \in Seq(QueueJobs)
    <3>1. DOMAIN queue = 1..Len(queue) /\ Len(queue) \in Nat
      BY <1>0
    <3>2. queue' \in [1..Len(queue) -> QueueJobs]
      BY <2>1, <2>2, <3>1
    <3> QED BY <3>1, <3>2
  <2> QED BY <1>0, <1>1, <2>1, <2>3 DEF OffsiteIInv
<1>10. CASE OffsiteDies
  <2>1. /\ queue' = <<>> /\ upload' = NoUpload /\ taker' = [t \in Takers |-> 0]
        /\ UNCHANGED <<taken, bucket, sent>>
    BY <1>10 DEF OffsiteDies
  <2> QED BY <1>0, <1>1, <2>1 DEF OffsiteIInv
<1> QED BY <1>2, <1>3, <1>4, <1>5, <1>6, <1>7, <1>8, <1>9, <1>10 DEF OffsiteNext, drain

\* What restore-backup brings back is the snapshot that reached the bucket last, for any
\* number of callers, snapshots, lost answers and deaths and any retention: neither a prune
\* (pruneRemote) nor an upload within the same second takes it away.
THEOREM RestoreIsLastSent == OffsiteSpec => []RestoresLastSent
<1>1. OffsiteInit => OffsiteIInv
  BY DEF OffsiteInit, OffsiteIInv, NoUpload, RestoresLastSent
<1>2. OffsiteIInv => RestoresLastSent
  BY DEF OffsiteIInv
<1> QED BY <1>1, <1>2, OffsiteStep, PTL DEF OffsiteSpec
=============================================================================
