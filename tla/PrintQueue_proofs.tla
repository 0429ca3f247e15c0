-------------------------- MODULE PrintQueue_proofs --------------------------
(***************************************************************************)
(* Proofs about the receipt printer's queue, for every number of jobs,     *)
(* crashes and database faults.  One inductive invariant carries all of    *)
(* it: the row the worker holds is "printing", without a fault no other    *)
(* row is, and the receipts a row has cost so far are bounded by its       *)
(* attempts, the crashes and the faults.                                   *)
(***************************************************************************)
EXTENDS PrintQueue, TLAPS

\* Paper that came out for j and that no counter explains yet.
Due(j) ==
    IF prints[j] = "printed" \/ (pc \in {"written", "refused"} /\ held = j)
      THEN 1 ELSE 0

Held == pc \in Busy => held \in PrintJobs /\ prints[held] = "printing"

CopiesBounded == \A j \in PrintJobs : copies[j] <= attempts[j] + outages + faults + Due(j)

Written == pc = "written" => copies[held] >= 1

IInv ==
    /\ PrintTypeOK
    /\ Held
    /\ SingleConsumer
    /\ CopiesBounded
    /\ OutcomeIsTrue
    /\ Written

-----------------------------------------------------------------------------
\* An empty queue satisfies the inductive invariant.
LEMMA InitIInv == PrintInit => IInv
BY BoundsAssumption
   DEF PrintInit, IInv, PrintTypeOK, Held, SingleConsumer, With, CopiesBounded, OutcomeIsTrue,
       Written, Busy, Due, PrintAttempts

\* A step changes the count of at most one row, and pays for it.
LEMMA CopiesStep ==
    ASSUME PrintTypeOK, Held, CopiesBounded, [PrintNext]_printVars
    PROVE  CopiesBounded'
<1> SUFFICES ASSUME NEW j \in PrintJobs
             PROVE  (copies[j] <= attempts[j] + outages + faults + Due(j))'
  BY DEF CopiesBounded
<1>1. copies[j] <= attempts[j] + outages + faults + Due(j)
  BY DEF CopiesBounded
<1>2. /\ copies[j] \in Nat /\ attempts[j] \in Nat /\ outages \in Nat /\ faults \in Nat
      /\ copies \in [PrintJobs -> Nat] /\ attempts \in [PrintJobs -> Nat]
      /\ DOMAIN prints = PrintJobs
  BY BoundsAssumption DEF PrintTypeOK, PrintAttempts
<1>3. pc \in Busy => held \in PrintJobs /\ prints[held] = "printing"
  BY DEF Held
<1> USE <1>1, <1>2, <1>3 DEF Due, jobs, Busy
<1>4. CASE EnqueuePrint
  BY <1>4 DEF EnqueuePrint, With, Oldest
<1>5. CASE Claim
  BY <1>5 DEF Claim, With, Oldest
<1>6. CASE Write
  BY <1>6 DEF Write
<1>7. CASE WriteError
  BY <1>7 DEF WriteError
<1>8. CASE MarkPrinted
  BY <1>8 DEF MarkPrinted
<1>9. CASE MarkRefused
  BY <1>9 DEF MarkRefused
<1>10. CASE LoadFault \/ MarkFault
  BY <1>10 DEF LoadFault, MarkFault
<1>11. CASE Death
  BY <1>11 DEF Death
<1>12. CASE Restart
  BY <1>12 DEF Restart
<1>13. CASE UNCHANGED printVars
  BY <1>13 DEF printVars
<1> QED
  BY <1>4, <1>5, <1>6, <1>7, <1>8, <1>9, <1>10, <1>11, <1>12, <1>13 DEF PrintNext, Work

\* Every step of the worker, the shop and the operator keeps it.
LEMMA NextIInv == IInv /\ [PrintNext]_printVars => IInv'
<1> SUFFICES ASSUME IInv, [PrintNext]_printVars PROVE IInv'
  OBVIOUS
<1>1. PrintTypeOK /\ Held /\ SingleConsumer /\ OutcomeIsTrue /\ Written
  BY DEF IInv
<1>2. CopiesBounded'
  BY CopiesStep DEF IInv
<1> USE <1>1, BoundsAssumption
        DEF PrintTypeOK, Held, SingleConsumer, With, OutcomeIsTrue,
            Written, Busy, PrintAttempts, Oldest, jobs
<1>3. CASE EnqueuePrint
  BY <1>2, <1>3 DEF EnqueuePrint, IInv
<1>4. CASE Claim
  <2> USE <1>4 DEF Claim
  <2>1. PrintTypeOK'
    OBVIOUS
  <2>2. Held'
    OBVIOUS
  <2>3. SingleConsumer'
    <3> SUFFICES ASSUME faults = 0 PROVE With("printing")' = {held'}
      OBVIOUS
    <3>1. With("printing") = {}
      OBVIOUS
    <3>2. PICK j \in PrintJobs : prints' = [prints EXCEPT ![j] = "printing"] /\ held' = j
      BY <3>1
    <3> QED
      BY <3>1, <3>2
  <2>4. OutcomeIsTrue'
    OBVIOUS
  <2>5. Written'
    OBVIOUS
  <2> QED
    BY <1>2, <2>1, <2>2, <2>3, <2>4, <2>5 DEF IInv
<1>5. CASE Write
  BY <1>2, <1>5 DEF Write, IInv
<1>6. CASE WriteError
  BY <1>2, <1>6 DEF WriteError, IInv
<1>7. CASE MarkPrinted
  BY <1>2, <1>7 DEF MarkPrinted, IInv
<1>8. CASE MarkRefused
  <2> USE <1>8 DEF MarkRefused
  <2>0. held \in PrintJobs /\ attempts[held] \in 0..(PrintAttempts - 1)
    OBVIOUS
  <2>1. PrintTypeOK'
    BY <2>0
  <2>2. Held'
    OBVIOUS
  <2>3. SingleConsumer'
    OBVIOUS
  <2>4. OutcomeIsTrue'
    <3> SUFFICES ASSUME NEW j \in PrintJobs
                 PROVE  (/\ prints[j] = "printed" => copies[j] >= 1
                         /\ prints[j] = "failed" <=> attempts[j] = PrintAttempts)'
      BY Zenon DEF OutcomeIsTrue
    <3>1. CASE j = held
      BY <2>0, <3>1
    <3>2. CASE j # held
      BY <2>0, <3>2
    <3> QED
      BY <3>1, <3>2
  <2>5. Written'
    OBVIOUS
  <2> QED
    BY <1>2, <2>1, <2>2, <2>3, <2>4, <2>5 DEF IInv
<1>9. CASE LoadFault
  BY <1>2, <1>9 DEF LoadFault, IInv
<1>10. CASE MarkFault
  BY <1>2, <1>10 DEF MarkFault, IInv
<1>11. CASE Death
  BY <1>2, <1>11 DEF Death, IInv
<1>12. CASE Restart
  BY <1>2, <1>12 DEF Restart, IInv
<1>13. CASE UNCHANGED printVars
  <2>1. (PrintTypeOK /\ Held /\ SingleConsumer /\ OutcomeIsTrue /\ Written)'
    BY <1>13 DEF printVars
  <2> QED
    BY <1>2, <2>1 DEF IInv
<1> QED
  BY <1>3, <1>4, <1>5, <1>6, <1>7, <1>8, <1>9, <1>10, <1>11, <1>12, <1>13 DEF PrintNext, Work

\* In every state of tick, printJob, EnqueuePrint and Recover the inductive invariant holds.
THEOREM Invariance == PrintSpec => []IInv
BY InitIInv, NextIInv, PTL DEF PrintSpec

\* Statuses, attempts and the worker's claim stay within their types: no row
\* is ever counted past its fifth attempt (printJob).
THEOREM TypeCorrect == PrintSpec => []PrintTypeOK
<1>1. IInv => PrintTypeOK
  BY DEF IInv
<1> QED
  BY <1>1, Invariance, PTL

\* The claim of tick has one consumer: without a database fault the only row
\* that is "printing" is the one the worker holds.
THEOREM OneConsumer == PrintSpec => []SingleConsumer
<1>1. IInv => SingleConsumer
  BY DEF IInv
<1> QED
  BY <1>1, Invariance, PTL

\* A row says "printed" only of a receipt that came out, and "failed" exactly
\* after its fifth attempt, whatever crashes and faults intervene.
THEOREM OutcomesTrue == PrintSpec => []OutcomeIsTrue
<1>1. IInv => OutcomeIsTrue
  BY DEF IInv
<1> QED
  BY <1>1, Invariance, PTL

\* Duplicate paper is always explained: each receipt beyond the first is paid
\* for by a counted attempt, a crash or a lost UPDATE.
THEOREM PaperAccounted == PrintSpec => []CopiesAccountedFor
<1>1. IInv => CopiesAccountedFor
  <2> SUFFICES ASSUME IInv, NEW j \in PrintJobs
               PROVE  copies[j] <= 1 + attempts[j] + outages + faults
    BY DEF CopiesAccountedFor
  <2>1. /\ copies[j] \in Nat /\ attempts[j] \in Nat
        /\ outages \in Nat /\ faults \in Nat
    BY BoundsAssumption DEF IInv, PrintTypeOK, PrintAttempts
  <2>2. copies[j] <= attempts[j] + outages + faults + Due(j)
    BY DEF IInv, CopiesBounded
  <2> QED
    BY <2>1, <2>2 DEF Due
<1> QED
  BY <1>1, Invariance, PTL

\* Nothing moves a settled row or prints it again: Recover touches only what
\* is "printing", and the worker writes only to the row it holds.
THEOREM SettledFinal == PrintSpec => SettledIsFinal
<1>1. IInv /\ [PrintNext]_printVars => [KeepsSettled]_printVars
  <2> SUFFICES ASSUME IInv, PrintNext, NEW j \in PrintJobs, IsFinal(j)
               PROVE  prints'[j] = prints[j] /\ copies'[j] = copies[j]
    BY DEF KeepsSettled
  <2>1. PrintTypeOK /\ Held
    BY DEF IInv
  <2> USE <2>1 DEF PrintTypeOK, Held, Busy, IsFinal, jobs
  <2>2. CASE EnqueuePrint
    BY <2>2 DEF EnqueuePrint, With, Oldest
  <2>3. CASE Claim
    BY <2>3 DEF Claim, With, Oldest
  <2>4. CASE Write \/ WriteError
    BY <2>4 DEF Write, WriteError
  <2>5. CASE MarkPrinted \/ MarkRefused
    BY <2>5 DEF MarkPrinted, MarkRefused
  <2>6. CASE LoadFault \/ MarkFault \/ Death
    BY <2>6 DEF LoadFault, MarkFault, Death
  <2>7. CASE Restart
    BY <2>7 DEF Restart
  <2> QED
    BY <2>2, <2>3, <2>4, <2>5, <2>6, <2>7 DEF PrintNext, Work
<1> QED
  BY <1>1, Invariance, PTL DEF PrintSpec, SettledIsFinal
=============================================================================
