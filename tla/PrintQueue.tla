----------------------------- MODULE PrintQueue -----------------------------
(***************************************************************************)
(* The receipt printer's persistent queue, internal/printer/worker.go.     *)
(* A row of print_jobs is queued by Enqueue, claimed by the one worker     *)
(* goroutine (tick), sent to the device (printJob) and stamped with the    *)
(* outcome.  The process may die between any two of these steps; Recover   *)
(* runs once at boot.  The database may refuse a read or a write: the      *)
(* worker ignores both errors, so a fault leaves the row as it stands.     *)
(***************************************************************************)
EXTENDS Naturals

CONSTANTS MaxPrints,    \* bound on the rows ever enqueued
          MaxOutages,   \* bound on process deaths
          MaxFaults     \* bound on database errors met by the worker

ASSUME BoundsAssumption ==
    /\ MaxPrints \in Nat
    /\ MaxOutages \in Nat
    /\ MaxFaults \in Nat

VARIABLES prints,    \* print_jobs.status by row id, "none" before the INSERT
          attempts,  \* print_jobs.attempts
          pc,        \* where the worker goroutine is, "down" with the process
          held,      \* the row it is printing
          copies,    \* history: receipts that came out of the printer, per row
          outages, faults

jobs == <<prints, attempts>>
printVars == <<prints, attempts, pc, held, copies, outages, faults>>

\* "after 5 attempts" in printJob.
PrintAttempts == 5

PrintJobs == 1..MaxPrints
With(s) == {j \in PrintJobs : prints[j] = s}
Oldest(S) == {j \in S : \A k \in S : j <= k}
IsFinal(j) == prints[j] \in {"printed", "failed"}
Busy == {"claimed", "written", "refused"}

PrintInit ==
    /\ prints = [j \in PrintJobs |-> "none"]
    /\ attempts = [j \in PrintJobs |-> 0]
    /\ copies = [j \in PrintJobs |-> 0]
    /\ pc = "idle"
    /\ held = 0
    /\ outages = 0
    /\ faults = 0

(***************************************************************************)
(* A completed sale enqueues its receipt (auto-print on, target valid).    *)
(***************************************************************************)
EnqueuePrint ==
    /\ pc # "down"
    /\ \E j \in Oldest(With("none")) : prints' = [prints EXCEPT ![j] = "queued"]
    /\ UNCHANGED <<attempts, pc, held, copies, outages, faults>>

(***************************************************************************)
(* tick: in one immediate transaction the oldest queued row becomes        *)
(* "printing"; the row then printed is the oldest one that is "printing".  *)
(***************************************************************************)
Claim ==
    /\ pc = "idle"
    /\ \E j \in Oldest(With("queued")) :
          /\ prints' = [prints EXCEPT ![j] = "printing"]
          /\ held' \in Oldest(With("printing") \cup {j})
    /\ pc' = "claimed"
    /\ UNCHANGED <<attempts, copies, outages, faults>>

\* loadJob reports !ok: printJob returns and nothing is written back.
LoadFault ==
    /\ pc = "claimed"
    /\ faults < MaxFaults
    /\ faults' = faults + 1
    /\ pc' = "idle"
    /\ UNCHANGED <<jobs, held, copies, outages>>

\* Render, open, write and close all succeed.
Write ==
    /\ pc = "claimed"
    /\ pc' = "written"
    /\ copies' = [copies EXCEPT ![held] = @ + 1]
    /\ UNCHANGED <<jobs, held, outages, faults>>

\* An error is returned, before or after the paper came out.
WriteError ==
    /\ pc = "claimed"
    /\ pc' = "refused"
    /\ \E torn \in {0, 1} : copies' = [copies EXCEPT ![held] = @ + torn]
    /\ UNCHANGED <<jobs, held, outages, faults>>

\* The UPDATE after a good print, and the one after an error.
MarkPrinted ==
    /\ pc = "written"
    /\ prints' = [prints EXCEPT ![held] = "printed"]
    /\ pc' = "idle"
    /\ UNCHANGED <<attempts, held, copies, outages, faults>>

\* Mutant: the attempt is not counted.
MarkRefusedNoCount ==
    /\ pc = "refused"
    /\ prints' = [prints EXCEPT ![held] = "queued"]
    /\ pc' = "idle"
    /\ UNCHANGED <<attempts, held, copies, outages, faults>>

MarkRefused ==
    /\ pc = "refused"
    /\ attempts' = [attempts EXCEPT ![held] = @ + 1]
    /\ prints' = [prints EXCEPT ![held] =
                    IF attempts[held] + 1 >= PrintAttempts THEN "failed" ELSE "queued"]
    /\ pc' = "idle"
    /\ UNCHANGED <<held, copies, outages, faults>>

\* Either UPDATE is refused by the database; its error is discarded.
MarkFault ==
    /\ pc \in {"written", "refused"}
    /\ faults < MaxFaults
    /\ faults' = faults + 1
    /\ pc' = "idle"
    /\ UNCHANGED <<jobs, held, copies, outages>>

Death ==
    /\ pc # "down"
    /\ outages < MaxOutages
    /\ outages' = outages + 1
    /\ pc' = "down"
    /\ UNCHANGED <<jobs, held, copies, faults>>

\* Mutant: boot without Recover.
RestartNoRecover ==
    /\ pc = "down"
    /\ pc' = "idle"
    /\ UNCHANGED <<jobs, held, copies, outages, faults>>

\* Boot: Recover re-queues what was "printing", then the loop starts.
Restart ==
    /\ pc = "down"
    /\ pc' = "idle"
    /\ prints' = [j \in PrintJobs |-> IF prints[j] = "printing" THEN "queued" ELSE prints[j]]
    /\ UNCHANGED <<attempts, held, copies, outages, faults>>

Work == Claim \/ Write \/ WriteError \/ MarkPrinted \/ MarkRefused

PrintNext ==
    \/ EnqueuePrint
    \/ Work
    \/ LoadFault
    \/ MarkFault
    \/ Death
    \/ Restart

PrintSpec == PrintInit /\ [][PrintNext]_printVars

\* The ticker fires every 2 s for as long as the process lives, and an
\* operator restarts a till that went down.
PrintFairness == WF_printVars(Work) /\ WF_printVars(Restart)

-----------------------------------------------------------------------------
\* Type invariant: no row is ever counted past its last attempt.
PrintTypeOK ==
    /\ prints \in [PrintJobs -> {"none", "queued", "printing", "printed", "failed"}]
    /\ attempts \in [PrintJobs -> 0..PrintAttempts]
    /\ pc \in Busy \cup {"idle", "down"}
    /\ held \in PrintJobs \cup {0}
    /\ copies \in [PrintJobs -> Nat]
    /\ outages \in 0..MaxOutages /\ faults \in 0..MaxFaults

\* "guarded update = single consumer": at most one row is "printing", it is
\* the one the worker holds, and an idle worker has left none behind.  A
\* database fault may strand a row (see EveryJobSettles), so it is excluded.
SingleConsumer ==
    faults = 0 =>
        /\ \A j, k \in With("printing") : j = k
        /\ pc # "down" => With("printing") = IF pc = "idle" THEN {} ELSE {held}

\* Paper is never spent without a reason on record: every receipt beyond the
\* first is paid for by a counted attempt, a crash or a lost UPDATE.
CopiesAccountedFor ==
    \A j \in PrintJobs : copies[j] <= 1 + attempts[j] + outages + faults

\* "printed" is claimed only of a receipt that came out; a row is parked as
\* "failed" exactly when it has used all its attempts.
OutcomeIsTrue ==
    \A j \in PrintJobs : /\ prints[j] = "printed" => copies[j] >= 1
                         /\ prints[j] = "failed" <=> attempts[j] = PrintAttempts

\* A settled row is never printed again: no later tick, crash or boot moves
\* it or produces another copy.
KeepsSettled ==
    \A j \in PrintJobs : IsFinal(j) => prints'[j] = prints[j] /\ copies'[j] = copies[j]
SettledIsFinal == [][KeepsSettled]_printVars

\* As long as the database has not refused the worker, every row ends printed
\* or parked, across crashes and a printer that never works.
PrintsSettle ==
    \A j \in PrintJobs : (prints[j] # "none") ~> (IsFinal(j) \/ faults > 0)

\* Failed jobs retry up to 5 attempts "then park as failed for admin
\* inspection": every row ends printed or parked (worker.go, type Worker).
EveryJobSettles ==
    \A j \in PrintJobs : (prints[j] # "none") ~> IsFinal(j)
=============================================================================
