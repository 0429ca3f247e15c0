------------------------------- MODULE Receipts -------------------------------
(***************************************************************************)
(* Receipts sent on WhatsApp (services/whatsapp.go).  A completed sale     *)
(* leaves a job behind, and so does the Share button; a worker of the shop *)
(* hands the jobs to the gateway, with retries.  The gateway is outside:   *)
(* it accepts a picture or refuses it, and either answer may be lost.      *)
(***************************************************************************)
EXTENDS Naturals, Sequences

CONSTANTS Sales,
          Askers,      \* retry requests the till serves at once
          Batch,       \* jobs a tick picks
          MaxAttempts, \* failed attempts that end a job
          MaxJobs,     \* bound on jobs
          MaxRetries,  \* bound on retries asked
          MaxUnheard,  \* bound on answers and marks lost
          MaxKills     \* bound on process deaths

ASSUME ReceiptsAssumption ==
    /\ Batch \in Nat \ {0} /\ MaxAttempts \in Nat \ {0} /\ MaxJobs \in Nat
    /\ MaxRetries \in Nat /\ MaxUnheard \in Nat /\ MaxKills \in Nat

VARIABLES sale,    \* orders: the status of each sale
          job,     \* whatsapp_jobs, in the order of their ids
          worker,
          asker,   \* retries: the job each has looked at, and the status it saw
          retries, unheard, kills,
          got,     \* history: jobs whose picture the gateway has accepted
          unsure   \* history: jobs the till does not know, or no longer knows, to be accepted
receiptVars == <<sale, job, worker, asker, retries, unheard, kills, got, unsure>>

JobRow(s) == [sale |-> s, status |-> "PENDING", attempts |-> 0, due |-> TRUE]
\* The worker: the jobs it picked, with the attempts they then had, and how the first stands.
IdleWorker == [step |-> "idle", batch |-> <<>>]
NoLook == [job |-> 0, saw |-> "none"]
Jobs == DOMAIN job

ReceiptsInit ==
    /\ sale = [s \in Sales |-> "open"] /\ job = <<>> /\ worker = IdleWorker
    /\ asker = [a \in Askers |-> NoLook] /\ retries = 0 /\ unheard = 0 /\ kills = 0
    /\ got = {} /\ unsure = {}

(***************************************************************************)
(* The sale.  Queueing is best effort: no gateway, no phone, a failed      *)
(* insert or a death after the commit leave the sale without a job.        *)
(***************************************************************************)
queueWhatsappJob(s) == Len(job) < MaxJobs /\ job' = Append(job, JobRow(s))

QueueWhatsappReceipt(s) ==
    /\ sale[s] = "open" /\ sale' = [sale EXCEPT ![s] = "PAID"]
    /\ queueWhatsappJob(s) \/ UNCHANGED job
    /\ UNCHANGED <<worker, asker, retries, unheard, kills, got, unsure>>

ResendWhatsappReceipt(s) ==
    /\ sale[s] = "PAID" /\ queueWhatsappJob(s)
    /\ UNCHANGED <<sale, worker, asker, retries, unheard, kills, got, unsure>>

VoidSale(s) ==
    /\ sale[s] = "PAID" /\ sale' = [sale EXCEPT ![s] = "VOIDED"]
    /\ UNCHANGED <<job, worker, asker, retries, unheard, kills, got, unsure>>

(***************************************************************************)
(* The Retry button looks at the job and the sale, and then writes the job *)
(* as it stands: what another retry did in between is not seen.            *)
(***************************************************************************)
RetryAnything(j) == sale[job[j].sale] = "PAID"  \* mutant: a job that was sent is retried
MayRetry(j) == job[j].status = "FAILED" /\ sale[job[j].sale] = "PAID"

RetryWhatsappJobLook(a, j) ==
    /\ asker[a] = NoLook /\ retries < MaxRetries /\ retries' = retries + 1
    /\ MayRetry(j) /\ asker' = [asker EXCEPT ![a] = [job |-> j, saw |-> job[j].status]]
    /\ UNCHANGED <<sale, job, worker, unheard, kills, got, unsure>>

RetryWhatsappJob(a) ==
    /\ asker[a] # NoLook /\ asker' = [asker EXCEPT ![a] = NoLook]
    /\ LET j == asker[a].job
       IN /\ job' = [job EXCEPT ![j] = JobRow(@.sale)]
          /\ unsure' = IF job[j].status = asker[a].saw THEN unsure ELSE unsure \cup {j}
    /\ UNCHANGED <<sale, worker, retries, unheard, kills, got>>

(***************************************************************************)
(* The worker.  A tick picks the oldest jobs and takes them one by one.    *)
(***************************************************************************)
Pending == {j \in Jobs : job[j].status = "PENDING"}
\* The oldest of them, as many as a tick takes.
OldestFirst(picked) ==
    /\ \A i \in DOMAIN picked : picked[i] \in Pending
    /\ \A i, k \in DOMAIN picked : i < k => picked[i] < picked[k]
    /\ \A j \in Pending \ {picked[i] : i \in DOMAIN picked} :
           Len(picked) = Batch /\ picked[Batch] < j

First == Head(worker.batch)
Done == worker' = [step |-> IF Len(worker.batch) = 1 THEN "idle" ELSE "next",
                   batch |-> Tail(worker.batch)]

PickBatch ==
    /\ worker.step = "idle"
    /\ \E n \in 1..Batch : \E picked \in [1..n -> Jobs] :
          /\ OldestFirst(picked)
          /\ worker' = [step |-> "next",
                        batch |-> [i \in 1..n |-> [id |-> picked[i],
                                                  attempts |-> job[picked[i]].attempts]]]
    /\ UNCHANGED <<sale, job, asker, retries, unheard, kills, got, unsure>>

Due(f) == f.attempts = 0 \/ job[f.id].due

NotYetDue ==
    /\ worker.step = "next" /\ ~Due(First) /\ Done
    /\ UNCHANGED <<sale, job, asker, retries, unheard, kills, got, unsure>>

\* The sale cannot be read, or is no longer paid: the job ends.
LeftPending(f) == UNCHANGED job  \* mutant: it stays at the head of the queue
Cancelled(f) == job' = [job EXCEPT ![f.id].status = "FAILED", ![f.id].attempts = f.attempts + 1]

CancelJob ==
    /\ worker.step = "next" /\ Due(First) /\ Cancelled(First) /\ Done
    /\ sale[job[First.id].sale] # "PAID" \/ unheard < MaxUnheard
    /\ unheard' = IF sale[job[First.id].sale] # "PAID" THEN unheard ELSE unheard + 1
    /\ UNCHANGED <<sale, asker, retries, kills, got, unsure>>

StillPaid ==
    /\ worker.step = "next" /\ Due(First) /\ sale[job[First.id].sale] = "PAID"
    /\ worker' = [worker EXCEPT !.step = "send"]
    /\ UNCHANGED <<sale, job, asker, retries, unheard, kills, got, unsure>>

\* The picture goes out.  An answer that is lost counts as a refusal.
sendWhatsappImage ==
    /\ worker.step = "send"
    /\ \/ /\ got' = got \cup {First.id}
          /\ worker' = [worker EXCEPT !.step = "accepted"] /\ UNCHANGED <<unheard, unsure>>
       \/ worker' = [worker EXCEPT !.step = "failed"] /\ UNCHANGED <<got, unheard, unsure>>
       \/ /\ unheard < MaxUnheard /\ unheard' = unheard + 1
          /\ got' = got \cup {First.id} /\ unsure' = unsure \cup {First.id}
          /\ worker' = [worker EXCEPT !.step = "failed"]
    /\ UNCHANGED <<sale, job, asker, retries, kills>>

Uncounted(f) == [job[f.id] EXCEPT !.due = FALSE]  \* mutant: a failure is not counted
AfterFailure(f) ==
    [job[f.id] EXCEPT !.attempts = f.attempts + 1, !.due = FALSE,
                      !.status = IF f.attempts + 1 >= MaxAttempts THEN "FAILED" ELSE @]

MarkJob ==
    /\ worker.step \in {"accepted", "failed"} /\ Done
    /\ job' = IF worker.step = "accepted" THEN [job EXCEPT ![First.id].status = "SENT"]
              ELSE [job EXCEPT ![First.id] = AfterFailure(First)]
    /\ UNCHANGED <<sale, asker, retries, unheard, kills, got, unsure>>

\* The error of the statement that marks the job is ignored.
MarkFails ==
    /\ worker.step \in {"accepted", "failed"} /\ Done
    /\ unheard < MaxUnheard /\ unheard' = unheard + 1
    /\ unsure' = IF worker.step = "accepted" THEN unsure \cup {First.id} ELSE unsure
    /\ UNCHANGED <<sale, job, asker, retries, kills, got>>

\* Every failed attempt has waited its minutes.
MinutesPass ==
    /\ \E j \in Jobs : job[j].status = "PENDING" /\ ~job[j].due
    /\ job' = [j \in Jobs |-> [job[j] EXCEPT !.due = TRUE]]
    /\ UNCHANGED <<sale, worker, asker, retries, unheard, kills, got, unsure>>

ReceiptsDie ==
    /\ kills < MaxKills /\ kills' = kills + 1
    /\ worker.step # "idle" \/ \E a \in Askers : asker[a] # NoLook
    /\ unsure' = IF worker.step = "accepted" THEN unsure \cup {First.id} ELSE unsure
    /\ worker' = IdleWorker /\ asker' = [a \in Askers |-> NoLook]
    /\ UNCHANGED <<sale, job, retries, unheard, got>>

drainWhatsappJobs ==
    PickBatch \/ NotYetDue \/ CancelJob \/ StillPaid \/ sendWhatsappImage \/ MarkJob

ReceiptsNext ==
    \/ \E s \in Sales : QueueWhatsappReceipt(s) \/ ResendWhatsappReceipt(s) \/ VoidSale(s)
    \/ \E a \in Askers : RetryWhatsappJob(a) \/ \E j \in Jobs : RetryWhatsappJobLook(a, j)
    \/ drainWhatsappJobs \/ MarkFails \/ MinutesPass \/ ReceiptsDie

ReceiptsSpec == ReceiptsInit /\ [][ReceiptsNext]_receiptVars

\* The worker ticks every ten seconds, and time passes.
ReceiptsFairness == WF_receiptVars(drainWhatsappJobs) /\ WF_receiptVars(MinutesPass)

\* The customer gets a receipt once per job: the gateway accepts the same job's picture
\* again only when the till could not know of the first time (the answer or the mark was
\* lost, or the process died between them) or when two Retry requests crossed, for the
\* second one writes PENDING over whatever the first led to (RetryWhatsappJob).
ReceiptOnce ==
    [][worker.step = "send" /\ worker'.step = "accepted" /\ First.id \in got
         => First.id \in unsure]_receiptVars

Waiting(j) == j \in Jobs /\ job[j].status = "PENDING"

\* Every job is settled, whatever the gateway answers (drainWhatsappJobs: failures are
\* counted, and a job without its sale does not stay at the head of the batch).
JobsSettle ==
    \A j \in 1..MaxJobs : Waiting(j) ~> ~Waiting(j)
=============================================================================
