-------------------------------- MODULE Offsite --------------------------------
(***************************************************************************)
(* Backups (services/backup.go) and their way off the site                 *)
(* (offsite/worker.go).  A snapshot is a file whose name sorts by the time *)
(* it was taken; in the bucket it gets a name that sorts by the time it    *)
(* was uploaded.  The queue between the two lives in memory.               *)
(***************************************************************************)
EXTENDS Naturals, Sequences, FiniteSets

CONSTANTS Takers,       \* callers of BackupNow: the scheduler and the owner's button
          LocalKeep,    \* snapshots kept on disk
          RemoteKeep,   \* snapshots kept in the bucket
          MaxSnapshots, \* bound on snapshots taken
          MaxUnheardPuts, \* bound: only this early is the answer to an upload lost
          MaxOutages    \* bound on process deaths

ASSUME OffsiteAssumption ==
    /\ LocalKeep \in Nat \ {0} /\ RemoteKeep \in Nat \ {0}
    /\ MaxSnapshots \in Nat /\ MaxUnheardPuts \in Nat /\ MaxOutages \in Nat

VARIABLES taken,    \* snapshots so far: they are numbered, and their names sort by number
          shelf,    \* the backups directory
          today,    \* snapshots whose name carries today's date
          taker,    \* the snapshot each caller is about to queue, 0 for none
          queue,    \* Worker.queue
          upload,   \* the job the worker has popped
          bucket,   \* snapshots in the bucket, in the order of their names
          outages,
          sent,     \* history: snapshots that reached the bucket, in that order
          dropped   \* history: snapshots whose place in the queue was lost with the process
offsiteVars == <<taken, shelf, today, taker, queue, upload, bucket, outages, sent, dropped>>

QueueJob(s, due) == [snap |-> s, due |-> due]
NoUpload == [step |-> "idle", snap |-> 0]
Newest(seq, k) == SubSeq(seq, IF Len(seq) > k THEN Len(seq) - k + 1 ELSE 1, Len(seq))

OffsiteInit ==
    /\ taken = 0 /\ shelf = {} /\ today = {} /\ taker = [t \in Takers |-> 0]
    /\ queue = <<>> /\ upload = NoUpload /\ bucket = <<>> /\ outages = 0
    /\ sent = <<>> /\ dropped = {}

(***************************************************************************)
(* Taking a snapshot.  Its file is there before the older ones are pruned  *)
(* and before it is queued.                                                *)
(***************************************************************************)
WriteSnapshot(t) ==
    /\ taker[t] = 0 /\ taken < MaxSnapshots /\ taken' = taken + 1
    /\ shelf' = shelf \cup {taken'} /\ today' = today \cup {taken'}
    /\ taker' = [taker EXCEPT ![t] = taken']
    /\ UNCHANGED <<queue, upload, bucket, outages, sent, dropped>>

\* Every night, and when the till starts: unless today has one.
maybeAutoBackup(t) == today \cap shelf = {} /\ WriteSnapshot(t)

pruneBackups == {s \in shelf : Cardinality({n \in shelf : n > s}) < LocalKeep}
Enqueue(s) == IF \E i \in DOMAIN queue : queue[i].snap = s THEN queue
              ELSE Append(queue, QueueJob(s, TRUE))

\* With the off-site backup switched off, nothing is queued.
BackupNow(t) ==
    /\ taker[t] # 0 /\ taker' = [taker EXCEPT ![t] = 0]
    /\ shelf' = pruneBackups
    /\ queue' = Enqueue(taker[t]) \/ UNCHANGED queue
    /\ UNCHANGED <<taken, today, upload, bucket, outages, sent, dropped>>

NextDay ==
    /\ today # {} /\ today' = {}
    /\ UNCHANGED <<taken, shelf, taker, queue, upload, bucket, outages, sent, dropped>>

(***************************************************************************)
(* The worker.  It pops the first job that is due; a job that fails goes   *)
(* to the tail, and waits.                                                 *)
(***************************************************************************)
DueJobs == {i \in DOMAIN queue : queue[i].due}
Without(i) == SubSeq(queue, 1, i - 1) \o SubSeq(queue, i + 1, Len(queue))

PopDue ==
    /\ upload.step = "idle" /\ DueJobs # {}
    /\ LET i == CHOOSE i \in DueJobs : \A j \in DueJobs : i <= j
       IN upload' = [step |-> "put", snap |-> queue[i].snap] /\ queue' = Without(i)
    /\ UNCHANGED <<taken, shelf, today, taker, bucket, outages, sent, dropped>>

\* The name is the second of the upload: a second object within it replaces the first.
UploadObject(s) ==
    /\ sent' = Append(sent, s)
    /\ \/ bucket' = Append(bucket, s)
       \/ bucket # <<>> /\ bucket' = [bucket EXCEPT ![Len(bucket)] = s]

Uploaded ==
    /\ upload.step = "put" /\ upload.snap \in shelf /\ UploadObject(upload.snap)
    /\ upload' = [upload EXCEPT !.step = "prune"]
    /\ UNCHANGED <<taken, shelf, today, taker, queue, outages, dropped>>

pruneRemoteOldestKept(k) == SubSeq(bucket, 1, k)  \* mutant: sorted the other way
pruneRemote(k) == Newest(bucket, k)

\* A prune that fails is only logged.
PruneRemote ==
    /\ upload.step = "prune" /\ upload' = NoUpload
    /\ bucket' = (IF Len(bucket) <= RemoteKeep THEN bucket ELSE pruneRemote(RemoteKeep))
       \/ UNCHANGED bucket
    /\ UNCHANGED <<taken, shelf, today, taker, queue, outages, sent, dropped>>

\* Not configured, the file is gone, no network, or an answer that was lost.
ForgetJob(s) == queue  \* mutant: a failed job is not queued again
Requeue(s) == Append(queue, QueueJob(s, FALSE))

UploadFails ==
    /\ upload.step = "put" /\ upload' = NoUpload /\ queue' = Requeue(upload.snap)
    /\ \/ UNCHANGED <<bucket, sent>>
       \/ upload.snap \in shelf /\ Len(sent) < MaxUnheardPuts /\ UploadObject(upload.snap)
    /\ UNCHANGED <<taken, shelf, today, taker, outages, dropped>>

\* 15 minutes, an hour, four hours, a day: the longest of them is over.
backoff ==
    /\ \E i \in DOMAIN queue : ~queue[i].due
    /\ queue' = [i \in DOMAIN queue |-> QueueJob(queue[i].snap, TRUE)]
    /\ UNCHANGED <<taken, shelf, today, taker, upload, bucket, outages, sent, dropped>>

OffsiteDies ==
    /\ outages < MaxOutages /\ outages' = outages + 1
    /\ queue # <<>> \/ upload # NoUpload \/ \E t \in Takers : taker[t] # 0
    /\ dropped' = dropped \cup {queue[i].snap : i \in DOMAIN queue}
                          \cup ({upload.snap} \ {0})
    /\ queue' = <<>> /\ upload' = NoUpload /\ taker' = [t \in Takers |-> 0]
    /\ UNCHANGED <<taken, shelf, today, bucket, sent>>

drain == PopDue \/ Uploaded \/ UploadFails \/ PruneRemote

OffsiteNext ==
    \/ \E t \in Takers : maybeAutoBackup(t) \/ WriteSnapshot(t) \/ BackupNow(t)
    \/ NextDay \/ drain \/ backoff \/ OffsiteDies

OffsiteSpec == OffsiteInit /\ [][OffsiteNext]_offsiteVars

\* The worker looks every five minutes, time passes, and the bucket answers now and then.
OffsiteFairness ==
    WF_offsiteVars(drain) /\ WF_offsiteVars(backoff) /\ SF_offsiteVars(Uploaded)

InQueue(s) == upload.snap = s \/ \E i \in DOMAIN queue : queue[i].snap = s
WasSent(s) == \E i \in DOMAIN sent : sent[i] = s

\* "Jobs never drop" (worker.go): a queued snapshot reaches the bucket, however often the
\* upload fails, unless its file is pruned first (local retention goes on) or the
\* process dies, which takes the queue with it.
SnapshotArrives ==
    \A s \in 1..MaxSnapshots : InQueue(s) ~> WasSent(s) \/ s \notin shelf \/ s \in dropped

\* restore-backup takes the greatest name in the bucket.
best == bucket[Len(bucket)]

\* What restore-backup brings back is the snapshot that reached the bucket last: neither
\* retention (pruneRemote) nor an upload within the same second takes it away.
RestoresLastSent == sent # <<>> => bucket # <<>> /\ best = sent[Len(sent)]
=============================================================================
