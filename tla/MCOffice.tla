------------------------------- MODULE MCOffice -------------------------------
(* What a till does beside selling, for TLC: forgotten PINs, WhatsApp receipts *)
(* and off-site backups.  The three share no state, so a behaviour is about    *)
(* one of them and the others stay as they began: the sum of the graphs is     *)
(* checked, not their product.  Forgotten PINs are tried in four ways: two     *)
(* workers at one pad; one worker, with a death of the till or a lost answer;  *)
(* two pads at once, for PINs the owner grants; and more grants than the till  *)
(* remembers, or one that it fails to save.                                    *)
EXTENDS PinReset, Receipts, Offsite, TLC
CONSTANTS w1, p1
VARIABLE focus

OnlyOneAsks == \A i \in DOMAIN asked' : asked'[i].user = w1
OnlyOnePad == \A p \in Pads \ {p1} : pad'[p] = IdlePad
TwoAsked == Len(asked') <= 2 /\ pins' <= 2
NoTrouble == padDeaths' + lostAnswers' = 0
OneTrouble == padDeaths' + lostAnswers' <= 1
Saved == unsaved' = 0
OneLeaves == \A w \in Workers \ {w1} : account'[w].active
OnlyGrants == /\ NoTrouble
              /\ \A i \in DOMAIN asked' : asked'[i].code = 0 /\ ~asked'[i].old
              /\ \A w \in Workers : account'[w].active

PinFocus ==
    \/ focus = "pins" /\ OnlyOnePad /\ TwoAsked /\ NoTrouble /\ Saved /\ OneLeaves
    \/ focus = "pins and deaths" /\ OnlyOnePad /\ OnlyOneAsks /\ TwoAsked /\ OneTrouble /\ Saved
    \/ focus = "two pads" /\ TwoAsked /\ OnlyGrants /\ Saved
    \/ focus = "many pins" /\ OnlyOnePad /\ OnlyOneAsks /\ OnlyGrants
                            /\ (Saved \/ Len(asked') <= 2)

FocusInit ==
    /\ PinResetInit /\ ReceiptsInit /\ OffsiteInit
    /\ focus \in {"pins", "pins and deaths", "two pads", "many pins", "receipts", "backups"}
FocusNext ==
    /\ \/ PinResetNext /\ PinFocus /\ UNCHANGED <<receiptVars, offsiteVars>>
       \/ focus = "receipts" /\ ReceiptsNext /\ UNCHANGED <<pinVars, offsiteVars>>
       \/ focus = "backups" /\ OffsiteNext /\ UNCHANGED <<pinVars, receiptVars>>
    /\ focus' = focus
FocusSpec ==
    /\ FocusInit /\ [][FocusNext]_<<pinVars, receiptVars, offsiteVars, focus>>
    /\ PinResetFairness /\ ReceiptsFairness /\ OffsiteFairness
=============================================================================
