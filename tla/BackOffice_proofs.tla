--------------------------- MODULE BackOffice_proofs ---------------------------
(***************************************************************************)
(* What is proved about the back office: updates and their undoing         *)
(* (Updates), for any number of shops, sales, archives and troubles; the   *)
(* people of a shop (Staff), for any users, roles and requests; and the    *)
(* customer book (Accounts), for any tills, clocks, requests and forms.    *)
(* An update is protected because the copies in an archive and the shops   *)
(* still to be copied hold, at every moment, what was owed when it was     *)
(* asked for (OwedOK).  No sale is lost because a file that a restore may  *)
(* overwrite holds nothing that is not in an archive or marked as exposed  *)
(* (UndoOK), from the moment the undo has copied it to the last start that *)
(* puts it back.                                                           *)
(* A shop keeps an owner because an edit that nobody crossed still heeds   *)
(* what its guards asked for when it writes (StaffRequestsOK).             *)
(* A balance is what its ledger says once the amount a till has written    *)
(* and not yet moved is counted (Due), and limits agree because details    *)
(* have stamps of their own and reach every till (DetailsOK,               *)
(* DetailsTravel).                                                         *)
(* Tills owe the same because what an account holds, what is coming and    *)
(* what is yet to be told come to the same on every till (OweOK).          *)
(***************************************************************************)
EXTENDS Accounts, Staff, Updates, TLAPS, WellFoundedInduction, FiniteSetTheorems

Updaters == {"button", "timer"}
Snaps == UNION {[D -> SUBSET Nat] : D \in SUBSET Shops}
Archive == [version : 1..Latest, undo : BOOLEAN, snaps : Snaps, indexed : BOOLEAN]
TaskRows == [step : {"idle", "look", "snap", "launch", "swap", "stage", "quit"}, into : Nat,
         todo : SUBSET Shops, bad : BOOLEAN, owed : SUBSET Nat, back : Nat]

\* A shop that is not in the registry has sold nothing.
FilesOK ==
    /\ shops \in SUBSET Shops /\ Main \in shops
    /\ live \in [Shops -> [main : SUBSET Nat, wal : SUBSET Nat]]
    /\ sales \in Nat /\ exposed \in SUBSET Nat
    /\ \A s \in Shops \ shops : Content(s) = {}

ArchivesOK ==
    /\ exe \in 1..Latest /\ archive \in Seq(Archive)
    /\ \A a \in DOMAIN archive : DOMAIN archive[a].snaps \subseteq shops

\* A task that copies has an archive of its own, and copies a shop once; only an undo goes
\* back to one; a till that is not up has forgotten them.
TaskOK(k) ==
    /\ IF task[k].step \in {"idle", "look"} THEN task[k].into = 0 /\ task[k].back = 0
       ELSE task[k].into \in DOMAIN archive
    /\ task[k].todo \subseteq shops
    /\ task[k].back # 0 => task[k].back \in DOMAIN archive
    /\ task[k].step \in {"swap", "stage"} => task[k].back # 0
    /\ task[k].step = "launch" => task[k].back = 0
    /\ task[k].step = "snap" => task[k].todo \cap DOMAIN archive[task[k].into].snaps = {}
    /\ ~Up => task[k] = Resting
TasksOK ==
    /\ task \in [Updaters -> TaskRows]
    /\ \A k \in Updaters : TaskOK(k)
    /\ task["timer"].back = 0
    /\ task["button"].into # 0 => task["button"].into # task["timer"].into

\* What an update owes is copied, or still in the shops to copy.
Owed(k) ==
    /\ task[k].back = 0 /\ task[k].step = "snap" /\ ~task[k].bad =>
           task[k].owed \subseteq Kept(task[k].into) \cup UNION {Content(s) : s \in task[k].todo}
    /\ task[k].back = 0 /\ task[k].step \in {"launch", "quit"} =>
           archive[task[k].into].indexed /\ task[k].owed \subseteq Kept(task[k].into)
OwedOK == \A k \in Updaters : Owed(k)

\* A restore is about files its archive has; what it has dealt with is back, unless it failed.
StagedRestore == pending \notin {NoRestore, Garbled}
IsBack(file, copy, beside) == file.main = copy /\ (file.wal # {} => beside)
RestoreOK ==
    /\ pending \in [from : Nat, files : SUBSET Shops]
    /\ proc \in [at : {"up", "down", "restore"}, todo : SUBSET Shops, bad : BOOLEAN,
                 beside : SUBSET Shops]
    /\ StagedRestore => /\ pending.from \in DOMAIN archive
                        /\ pending.files \subseteq DOMAIN archive[pending.from].snaps
    /\ proc.at = "restore" =>
           /\ StagedRestore /\ proc.todo \subseteq pending.files
           /\ ~proc.bad => \A s \in pending.files \ proc.todo :
                  IsBack(live[s], archive[pending.from].snaps[s], s \in proc.beside)

\* A file that an undo may overwrite holds nothing that would be lost.
AllKept == UNION {Kept(a) : a \in DOMAIN archive}
Safe(s) == Content(s) \subseteq exposed \cup AllKept
UndoOK == \A s \in Shops : Undoing(s) => Safe(s)

UpdatesIInv ==
    FilesOK /\ ArchivesOK /\ TasksOK /\ OwedOK /\ RestoreOK /\ UndoOK /\ UndoKeepsWork

-----------------------------------------------------------------------------
\* What the copies of an archive are.
LEMMA SnapsAre ==
    ASSUME NEW n
    PROVE  n \in Snaps <=> DOMAIN n \subseteq Shops /\ n \in [DOMAIN n -> SUBSET Nat]
<1>1. ASSUME n \in Snaps PROVE DOMAIN n \subseteq Shops /\ n \in [DOMAIN n -> SUBSET Nat]
  <2>1. PICK D \in SUBSET Shops : n \in [D -> SUBSET Nat]
    BY <1>1 DEF Snaps
  <2> QED BY <2>1
<1>2. ASSUME DOMAIN n \subseteq Shops, n \in [DOMAIN n -> SUBSET Nat] PROVE n \in Snaps
  BY <1>2 DEF Snaps
<1> QED BY <1>1, <1>2

\* A till with one shop and no update satisfies the inductive invariant.
LEMMA UpdatesInitIInv == UpdatesInit => UpdatesIInv
<1> SUFFICES ASSUME UpdatesInit PROVE UpdatesIInv OBVIOUS
<1> USE UpdatesAssumption DEF UpdatesInit
<1>0. task = [k \in Updaters |-> Resting] /\ Resting \in TaskRows
  BY DEF Updaters, Resting, TaskRows
<1>1. FilesOK
  BY DEF FilesOK, File, Content
<1>2. ArchivesOK
  BY DEF ArchivesOK
<1>3. TasksOK
  BY <1>0 DEF TasksOK, TaskOK, Updaters, Resting, Up, Running
<1>4. OwedOK
  BY <1>0 DEF OwedOK, Owed, Updaters, Resting
<1>5. RestoreOK
  BY DEF RestoreOK, StagedRestore, NoRestore, Running, Process
<1>6. UndoOK
  BY <1>0 DEF UndoOK, Safe, Undoing, Updaters, Resting, Content, File
<1>7. UndoKeepsWork
  BY DEF UndoKeepsWork
<1> QED BY <1>1, <1>2, <1>3, <1>4, <1>5, <1>6, <1>7 DEF UpdatesIInv

-----------------------------------------------------------------------------
\* What every step does to the archives: more of them, with more in them.
ArchivesGrow ==
    /\ DOMAIN archive \subseteq DOMAIN archive'
    /\ \A a \in DOMAIN archive : \A s \in DOMAIN archive[a].snaps :
           s \in DOMAIN archive'[a].snaps /\ archive'[a].snaps[s] = archive[a].snaps[s]

\* What has been copied stays copied.
LEMMA KeptGrows ==
    ASSUME ArchivesGrow
    PROVE  /\ \A a \in DOMAIN archive : Kept(a) \subseteq Kept(a)'
           /\ AllKept \subseteq AllKept'
<1>1. ASSUME NEW a \in DOMAIN archive PROVE Kept(a) \subseteq Kept(a)'
  BY DEF Kept, ArchivesGrow
<1> QED BY <1>1 DEF AllKept, ArchivesGrow

\* A new archive is empty, and the last one.
LEMMA StartsArchive ==
    ASSUME UpdatesIInv, NEW k \in Updaters, NEW back, StartArchive(k, back)
    PROVE  /\ ArchivesOK' /\ ArchivesGrow
           /\ DOMAIN archive' = DOMAIN archive \cup {Len(archive')}
           /\ Len(archive') = Len(archive) + 1
           /\ DOMAIN archive'[Len(archive')].snaps = {}
           /\ \A a \in DOMAIN archive : archive'[a] = archive[a]
<1> USE DEF UpdatesIInv, ArchivesOK
<1>1. archive' = Append(archive, NewArchive(back # 0)) /\ UNCHANGED <<exe, shops>>
  BY DEF StartArchive, outside
<1>2. NewArchive(back # 0) \in Archive /\ DOMAIN NewArchive(back # 0).snaps = {}
  <2>1. [s \in {} |-> {}] \in Snaps
    BY SnapsAre
  <2> QED BY <2>1 DEF NewArchive, Archive
<1> DEFINE new == NewArchive(back # 0)
<1>3. new \in Archive /\ DOMAIN new.snaps = {} /\ archive' = Append(archive, new)
  BY <1>1, <1>2
<1> HIDE DEF new
<1>4. /\ Len(archive') = Len(archive) + 1 /\ archive' \in Seq(Archive)
      /\ archive'[Len(archive) + 1] = new
      /\ \A a \in DOMAIN archive : archive'[a] = archive[a]
      /\ DOMAIN archive = 1..Len(archive) /\ DOMAIN archive' = 1..(Len(archive) + 1)
      /\ Len(archive) \in Nat
  BY <1>3
<1>5. \A a \in DOMAIN archive' : a \in DOMAIN archive \/ archive'[a] = new
  BY <1>4
<1>6. ArchivesOK'
  BY <1>1, <1>3, <1>4, <1>5
<1>7. ArchivesGrow
  BY <1>4 DEF ArchivesGrow
<1>8. DOMAIN archive' = DOMAIN archive \cup {Len(archive')}
  BY <1>4
<1> QED BY <1>3, <1>4, <1>6, <1>7, <1>8

\* The types of a task and of its archive.
LEMMA TaskTypes ==
    ASSUME UpdatesIInv, NEW k \in Updaters
    PROVE  /\ task[k] \in TaskRows /\ DOMAIN task = Updaters /\ TaskOK(k)
           /\ task[k].step \notin {"idle", "look"} =>
                  /\ task[k].into \in DOMAIN archive
                  /\ archive[task[k].into] \in Archive
                  /\ DOMAIN archive[task[k].into].snaps \subseteq shops
BY DEF UpdatesIInv, TasksOK, TaskOK, ArchivesOK

\* A copy adds a shop to its task's archive, and to no other.
LEMMA SnapshotFills ==
    ASSUME UpdatesIInv, NEW k \in Updaters, NEW s \in Shops, Snapshot(k, s),
           NEW i, i = task[k].into
    PROVE  /\ ArchivesOK' /\ ArchivesGrow /\ DOMAIN archive' = DOMAIN archive
           /\ \A a \in DOMAIN archive : /\ archive'[a].indexed = archive[a].indexed
                                        /\ a # i => archive'[a] = archive[a]
           /\ \/ Kept(i)' = Kept(i) \cup Content(s)
              \/ task'[k].bad /\ (task[k].back # 0 => exposed' = exposed \cup Content(s))
           /\ DOMAIN archive'[i].snaps \subseteq DOMAIN archive[i].snaps \cup {s}
<1> DEFINE filled == [archive[i] EXCEPT !.snaps = Filled(@, s)]
<1>1. /\ s \in task[k].todo /\ task[k].step = "snap" /\ UNCHANGED <<exe, shops>>
      /\ s \in shops
  BY TaskTypes DEF Snapshot, AtTask, outside, TaskOK
<1>2. /\ i \in DOMAIN archive /\ archive[i] \in Archive /\ archive \in Seq(Archive)
      /\ DOMAIN archive[i].snaps \subseteq shops /\ s \notin DOMAIN archive[i].snaps
  BY <1>1, TaskTypes DEF TaskOK, UpdatesIInv, ArchivesOK
<1>3. /\ Filled(archive[i].snaps, s) \in Snaps
      /\ DOMAIN Filled(archive[i].snaps, s) = DOMAIN archive[i].snaps \cup {s}
      /\ Filled(archive[i].snaps, s)[s] = Content(s)
      /\ \A x \in DOMAIN archive[i].snaps :
             Filled(archive[i].snaps, s)[x] = archive[i].snaps[x]
  <2>1. Content(s) \in SUBSET Nat /\ archive[i].snaps \in Snaps
    BY <1>2 DEF UpdatesIInv, FilesOK, Content, Archive
  <2>2. DOMAIN archive[i].snaps \subseteq Shops
        /\ archive[i].snaps \in [DOMAIN archive[i].snaps -> SUBSET Nat]
    BY <2>1, SnapsAre
  <2>3. Filled(archive[i].snaps, s)
          \in [DOMAIN archive[i].snaps \cup {s} -> SUBSET Nat]
    BY <2>1, <2>2 DEF Filled, CopyOf
  <2>4. DOMAIN Filled(archive[i].snaps, s) = DOMAIN archive[i].snaps \cup {s}
    BY DEF Filled
  <2>5. Filled(archive[i].snaps, s) \in Snaps
    BY <2>2, <2>3, <2>4, SnapsAre
  <2> QED BY <1>2, <2>4, <2>5 DEF Filled, CopyOf
<1>4. CASE /\ archive' = archive /\ task'[k].bad
           /\ task[k].back # 0 => exposed' = exposed \cup Content(s)
  BY <1>1, <1>2, <1>4 DEF ArchivesGrow, UpdatesIInv, ArchivesOK
<1>5. CASE archive' = [archive EXCEPT ![i].snaps = Filled(@, s)]
  <2>1. archive' = [archive EXCEPT ![i] = filled]
    BY <1>5
  <2>2. /\ filled \in Archive /\ filled.indexed = archive[i].indexed
        /\ filled.snaps = Filled(archive[i].snaps, s)
    BY <1>2, <1>3 DEF Archive
  <2> HIDE DEF filled
  <2>3. /\ archive' \in Seq(Archive) /\ DOMAIN archive' = DOMAIN archive
        /\ archive'[i] = filled
        /\ \A a \in DOMAIN archive : a # i => archive'[a] = archive[a]
    BY <1>2, <2>1, <2>2
  <2>4. ArchivesOK'
    BY <1>1, <1>2, <1>3, <2>2, <2>3 DEF UpdatesIInv, ArchivesOK
  <2>5. ArchivesGrow
    BY <1>3, <2>2, <2>3 DEF ArchivesGrow
  <2>6. Kept(i)' = Kept(i) \cup Content(s)
    BY <2>3, <2>2, <1>3 DEF Kept
  <2> QED BY <1>2, <1>3, <2>2, <2>3, <2>4, <2>5, <2>6
<1>6. \/ archive' = [archive EXCEPT ![i].snaps = Filled(@, s)]
      \/ /\ archive' = archive /\ task'[k].bad
         /\ task[k].back # 0 => exposed' = exposed \cup Content(s)
  BY TaskTypes DEF Snapshot, Goto, TaskRows
<1> QED BY <1>4, <1>5, <1>6
\* The index is about one archive, and copies nothing.
LEMMA IndexWrites ==
    ASSUME UpdatesIInv, NEW k \in Updaters, PreUpdateSnapshot(k), NEW i, i = task[k].into
    PROVE  /\ ArchivesOK' /\ ArchivesGrow /\ DOMAIN archive' = DOMAIN archive
           /\ \A a \in DOMAIN archive : /\ archive'[a].snaps = archive[a].snaps
                                        /\ a # i => archive'[a] = archive[a]
<1>1. task[k].step = "snap" /\ UNCHANGED <<exe, shops>>
  BY DEF PreUpdateSnapshot, AtTask, outside
<1>2. i \in DOMAIN archive /\ archive[i] \in Archive /\ archive \in Seq(Archive)
  BY <1>1, TaskTypes DEF UpdatesIInv, ArchivesOK
<1>3. CASE archive' = archive
  BY <1>1, <1>3 DEF ArchivesGrow, UpdatesIInv, ArchivesOK
<1>4. ASSUME NEW b \in BOOLEAN, archive' = [archive EXCEPT ![i].indexed = b]
      PROVE  /\ ArchivesOK' /\ ArchivesGrow /\ DOMAIN archive' = DOMAIN archive
             /\ \A a \in DOMAIN archive : /\ archive'[a].snaps = archive[a].snaps
                                          /\ a # i => archive'[a] = archive[a]
  <2> DEFINE new == [archive[i] EXCEPT !.indexed = b]
  <2>1. archive' = [archive EXCEPT ![i] = new]
    BY <1>4
  <2>2. new \in Archive /\ new.snaps = archive[i].snaps
    BY <1>2 DEF Archive
  <2> HIDE DEF new
  <2>3. /\ archive' \in Seq(Archive) /\ DOMAIN archive' = DOMAIN archive
        /\ archive'[i] = new
        /\ \A a \in DOMAIN archive : a # i => archive'[a] = archive[a]
    BY <1>2, <2>1, <2>2
  <2>4. \A a \in DOMAIN archive : archive'[a].snaps = archive[a].snaps
    BY <2>2, <2>3
  <2> QED BY <1>1, <1>2, <2>3, <2>4 DEF UpdatesIInv, ArchivesOK, ArchivesGrow
<1>5. \/ archive' = archive
      \/ \E b \in BOOLEAN : archive' = [archive EXCEPT ![i].indexed = b]
  BY DEF PreUpdateSnapshot
<1> QED BY <1>3, <1>4, <1>5

-----------------------------------------------------------------------------
\* A bounded set of numbers has a greatest one.
LEMMA Greatest ==
    ASSUME NEW n \in Nat, NEW S \in SUBSET (0..n), S # {}
    PROVE  \E x \in S : \A y \in S : y <= x
<1> DEFINE D == {n - x : x \in S}
<1>1. D # {} /\ D \in SUBSET Nat
  <2>1. \A x \in S : n - x \in Nat
    OBVIOUS
  <2>2. D # {}
    OBVIOUS
  <2> QED BY <2>1, <2>2
<1> DEFINE R == OpToRel(<, Nat)
<1>2. PICK d \in D : ~ \E e \in D : <<e, d>> \in R
  BY <1>1, NatLessThanWellFounded, WFMin
<1> HIDE DEF R
<1>3. \A e \in D : d <= e
  BY <1>1, <1>2 DEF R, OpToRel
<1>4. PICK x \in S : d = n - x
  BY <1>2
<1>5. ASSUME NEW y \in S PROVE y <= x
  <2>1. d <= n - y
    BY <1>3
  <2> QED BY <1>4, <2>1
<1> QED BY <1>5
\* "Undo update" finds an archive whenever there is one to find (newestPreUpdateArchive):
\* sort.Strings has a last element.
LEMMA NewestIsCandidate ==
    ASSUME UpdatesIInv, Candidates # {}
    PROVE  newestPreUpdateArchive \in Candidates
<1> DEFINE rank(a) == Rank(archive[a].version)
           Ranks == {rank(a) : a \in Candidates}
<1>1. /\ \A a \in Candidates : a \in 1..Len(archive) /\ rank(a) \in 0..Latest
      /\ Latest \in Nat /\ Len(archive) \in Nat
  <2>1. archive \in Seq(Archive)
    BY DEF UpdatesIInv, ArchivesOK
  <2>2. \A a \in Candidates : a \in 1..Len(archive) /\ archive[a] \in Archive
    BY <2>1 DEF Candidates
  <2>3. \A a \in Candidates : archive[a].version \in 1..Latest
    BY <2>2 DEF Archive
  <2> QED BY <2>1, <2>2, <2>3, UpdatesAssumption
<1>2. PICK r \in Ranks : \A q \in Ranks : q <= r
  <2>1. Ranks # {} /\ Ranks \in SUBSET (0..Latest)
    BY <1>1
  <2> HIDE DEF Ranks
  <2> QED BY <1>1, <2>1, Greatest
<1> DEFINE Top == {a \in Candidates : rank(a) = r}
<1>3. Top # {} /\ Top \in SUBSET (0..Len(archive))
  BY <1>1
<1>4. PICK a \in Top : \A b \in Top : b <= a
  BY <1>1, <1>3, Greatest
<1>5. \A b \in Candidates : SortsAfter(a, b)
  <2> SUFFICES ASSUME NEW b \in Candidates PROVE SortsAfter(a, b)
    OBVIOUS
  <2>1. rank(b) <= rank(a) /\ rank(a) = r /\ rank(a) \in Nat /\ rank(b) \in Nat
    BY <1>1, <1>2
  <2>2. CASE rank(b) = rank(a)
    BY <1>1, <1>4, <2>1, <2>2 DEF SortsAfter
  <2>3. CASE rank(b) # rank(a)
    BY <2>1, <2>3 DEF SortsAfter
  <2> QED BY <2>2, <2>3
<1> QED BY <1>5 DEF newestPreUpdateArchive

-----------------------------------------------------------------------------
\* The tasks, when one of them moves on while the till stays up.
LEMMA TaskMoves ==
    ASSUME UpdatesIInv, ArchivesOK', ArchivesGrow, NEW k \in Updaters, NEW r \in TaskRows, Up,
           Goto(k, r), UNCHANGED proc, shops \subseteq shops',
           TaskOK(k)', k = "timer" => r.back = 0,
           r.into \in {0, task[k].into} \/ r.into \notin DOMAIN archive,
           \A j \in Updaters \ {k} : task[j].step = "snap" =>
               archive'[task[j].into].snaps = archive[task[j].into].snaps
    PROVE  TasksOK'
<1>1. task' \in [Updaters -> TaskRows] /\ task'[k] = r /\ \A j \in Updaters \ {k} : task'[j] = task[j]
  BY DEF UpdatesIInv, TasksOK, Goto
<1>2. \A j \in Updaters : TaskOK(j)'
  <2> SUFFICES ASSUME NEW j \in Updaters, j # k PROVE TaskOK(j)'
    OBVIOUS
  <2>1. TaskOK(j) /\ task'[j] = task[j] /\ Up'
    BY <1>1, TaskTypes DEF Up
  <2> QED BY <2>1 DEF TaskOK, ArchivesGrow
<1>3. task'["timer"].back = 0
  BY <1>1 DEF UpdatesIInv, TasksOK, Updaters
<1>4. task'["button"].into # 0 => task'["button"].into # task'["timer"].into
  <2>1. \A j \in Updaters : task[j].into \in DOMAIN archive \/ task[j].into = 0
    BY TaskTypes DEF TaskOK
  <2>2. 0 \notin DOMAIN archive
    BY DEF UpdatesIInv, ArchivesOK
  <2> QED BY <1>1, <2>1, <2>2 DEF UpdatesIInv, TasksOK, Updaters
<1> QED BY <1>1, <1>2, <1>3, <1>4 DEF TasksOK

\* A till that is not up has nothing to go on with.
LEMMA DownForgets ==
    ASSUME UpdatesIInv
    PROVE  /\ ~Up => task = [k \in Updaters |-> Resting]
           /\ Forget => task' = [k \in Updaters |-> Resting]
<1>1. task \in [Updaters -> TaskRows] /\ \A k \in Updaters : ~Up => task[k] = Resting
  BY DEF UpdatesIInv, TasksOK, TaskOK
<1> QED BY <1>1 DEF Forget

\* Tasks that rest are in order, whatever the archives are.
LEMMA RestingOK == ASSUME task' = [k \in Updaters |-> Resting] PROVE TasksOK' /\ OwedOK'
<1>1. Resting \in TaskRows /\ \A k \in Updaters : task'[k] = Resting
  BY DEF Resting, TaskRows
<1> QED BY <1>1 DEF TasksOK, TaskOK, OwedOK, Owed, Updaters, Resting
\* The steps of UpdatesNext, sorted by what they do to archives, files and tasks.
Starts(k, back) ==
    /\ Up /\ task[k].step \in {"idle", "look"} /\ StartArchive(k, back)
    /\ back # 0 => k = "button" /\ back \in DOMAIN archive
LEMMA StepsAre ==
    ASSUME UpdatesIInv, UpdatesNext
    PROVE  \/ \E s \in Shops : \/ Sell(s) \/ Quieten(s) \/ Checkpoint(s) \/ CreateShop(s)
                               \/ LookAt(s) \/ RestoreFile(s)
           \/ \E k \in Updaters : \/ \E s \in Shops : Snapshot(k, s)
                              \/ \E back \in Nat : Starts(k, back)
                              \/ PreUpdateSnapshot(k) \/ ApplyStagedUpdate(k) \/ OnQuit(k)
                              \/ EmptyArchive(k) \/ SwapBinary(k) \/ StageRestore(k)
           \/ AutoApplyTick \/ Boot \/ OpenDatabases \/ Download \/ InstallerRuns \/ TillDies
<1>1. DOMAIN task = Updaters /\ "button" \in Updaters /\ "timer" \in Updaters
  BY DEF UpdatesIInv, TasksOK, Updaters
<1>2. UpdateInstall => Starts("button", 0)
  BY DEF UpdateInstall, Starts, AtTask
<1>3. AllQuiet => Starts("timer", 0)
  BY DEF AllQuiet, Starts, AtTask
<1>4. UndoUpdate => \E back \in Nat : Starts("button", back)
  <2> SUFFICES ASSUME UndoUpdate PROVE \E back \in Nat : Starts("button", back)
    OBVIOUS
  <2>1. newestPreUpdateArchive \in DOMAIN archive
    BY NewestIsCandidate DEF UndoUpdate, Candidates
  <2>2. newestPreUpdateArchive \in Nat
    BY <2>1 DEF UpdatesIInv, ArchivesOK
  <2> QED BY <2>1, <2>2 DEF UndoUpdate, Starts, AtTask
<1>5. 0 \in Nat
  OBVIOUS
<1> QED BY <1>1, <1>2, <1>3, <1>4, <1>5 DEF UpdatesNext, Trading, Archiving, Quiet, Starting

-----------------------------------------------------------------------------
\* Each step, and each part of the inductive invariant.  First the archives.
LEMMA ArchivesStep ==
    ASSUME UpdatesIInv, UpdatesNext
    PROVE  ArchivesOK' /\ ArchivesGrow
<1>1. ASSUME NEW k \in Updaters, NEW back \in Nat, Starts(k, back)
      PROVE  ArchivesOK' /\ ArchivesGrow
  BY <1>1, StartsArchive DEF Starts
<1>2. ASSUME NEW k \in Updaters, NEW s \in Shops, Snapshot(k, s) PROVE ArchivesOK' /\ ArchivesGrow
  BY <1>2, SnapshotFills
<1>3. ASSUME NEW k \in Updaters, PreUpdateSnapshot(k) PROVE ArchivesOK' /\ ArchivesGrow
  BY <1>3, IndexWrites
<1>4. ASSUME UNCHANGED archive, shops \subseteq shops', exe' \in 1..Latest
      PROVE  ArchivesOK' /\ ArchivesGrow
  BY <1>4 DEF UpdatesIInv, ArchivesOK, ArchivesGrow
<1>5. ASSUME NEW k \in Updaters, SwapBinary(k)
      PROVE  UNCHANGED archive /\ shops \subseteq shops' /\ exe' \in 1..Latest
  <2>1. task[k].back \in DOMAIN archive
    BY <1>5, TaskTypes DEF TaskOK, SwapBinary, AtTask
  <2>2. archive[task[k].back] \in Archive
    BY <2>1 DEF UpdatesIInv, ArchivesOK
  <2>3. archive[task[k].back].version \in 1..Latest
    BY <2>2 DEF Archive
  <2> QED BY <1>5, <2>3 DEF SwapBinary, outside, UpdatesIInv, ArchivesOK
<1>6. exe \in 1..Latest /\ Latest \in 1..Latest
  BY UpdatesAssumption DEF UpdatesIInv, ArchivesOK
<1>7. ASSUME NEW s \in Shops,
             \/ Sell(s) \/ Quieten(s) \/ Checkpoint(s) \/ CreateShop(s) \/ LookAt(s)
             \/ RestoreFile(s)
      PROVE  UNCHANGED archive /\ shops \subseteq shops' /\ exe' \in 1..Latest
  BY <1>6, <1>7
     DEF Sell, Quieten, Checkpoint, CreateShop, LookAt, RestoreFile, outside
<1>8. ASSUME NEW k \in Updaters,
             ApplyStagedUpdate(k) \/ OnQuit(k) \/ EmptyArchive(k) \/ StageRestore(k)
      PROVE  UNCHANGED archive /\ shops \subseteq shops' /\ exe' \in 1..Latest
  BY <1>6, <1>8 DEF ApplyStagedUpdate, OnQuit, EmptyArchive, StageRestore, outside
<1>9. ASSUME AutoApplyTick \/ Boot \/ OpenDatabases \/ Download \/ InstallerRuns \/ TillDies
      PROVE  UNCHANGED archive /\ shops \subseteq shops' /\ exe' \in 1..Latest
  BY <1>6, <1>9
     DEF AutoApplyTick, Boot, OpenDatabases, Download, InstallerRuns, TillDies, outside
<1> QED BY <1>1, <1>2, <1>3, <1>4, <1>5, <1>7, <1>8, <1>9, StepsAre

\* The files: what is in them is sold, checkpointed, or put back from a copy.
LEMMA FilesStep == ASSUME UpdatesIInv, UpdatesNext PROVE FilesOK'
<1> DEFINE Row == [main : SUBSET Nat, wal : SUBSET Nat]
<1>0. /\ shops \in SUBSET Shops /\ Main \in shops /\ live \in [Shops -> Row] /\ Main \in Shops
      /\ sales \in Nat /\ exposed \in SUBSET Nat
      /\ \A s \in Shops \ shops : Content(s) = {}
  BY UpdatesAssumption DEF UpdatesIInv, FilesOK
<1>1. ASSUME NEW s \in Shops, NEW row \in Row, live' = [live EXCEPT ![s] = row],
             s \notin shops => row.main \cup row.wal = {},
             UNCHANGED shops, sales' \in Nat, exposed' \in SUBSET Nat
      PROVE  FilesOK'
  BY <1>0, <1>1 DEF FilesOK, Content
<1>2. ASSUME UNCHANGED live, shops \subseteq shops', shops' \in SUBSET Shops,
             sales' \in Nat, exposed' \in SUBSET Nat
      PROVE  FilesOK'
  BY <1>0, <1>2 DEF FilesOK, Content
<1>3. ASSUME NEW s \in Shops, Sell(s) PROVE FilesOK'
  <2> DEFINE row == [live[s] EXCEPT !.wal = @ \cup {sales'}]
  <2>1. row \in Row /\ live' = [live EXCEPT ![s] = row] /\ s \in shops
    BY <1>0, <1>3 DEF Sell
  <2>2. exposed' \in SUBSET Nat /\ sales' \in Nat /\ UNCHANGED shops
    BY <1>0, <1>3 DEF Sell
  <2> HIDE DEF row
  <2> QED BY <1>1, <2>1, <2>2
<1>4. ASSUME NEW s \in Shops, live' = [live EXCEPT ![s] = File(Content(s))],
             UNCHANGED <<shops, sales, exposed>>
      PROVE  FilesOK'
  <2>1. /\ File(Content(s)) \in Row
        /\ s \notin shops => File(Content(s)).main \cup File(Content(s)).wal = {}
    BY <1>0 DEF File, Content
  <2> QED BY <1>0, <1>1, <1>4, <2>1
<1>5. ASSUME NEW k \in Updaters, NEW s \in Shops, Snapshot(k, s) PROVE FilesOK'
  <2>1. Content(s) \in SUBSET Nat
    BY <1>0 DEF Content
  <2> QED BY <1>0, <1>2, <1>5, <2>1 DEF Snapshot, outside
<1>6. ASSUME NEW s \in Shops, RestoreFile(s) PROVE FilesOK'
  <2>1. /\ pending.from \in DOMAIN archive /\ s \in DOMAIN archive[pending.from].snaps
        /\ archive[pending.from] \in Archive /\ s \in shops
    BY <1>6 DEF RestoreFile, UpdatesIInv, RestoreOK, ArchivesOK
  <2>2. archive[pending.from].snaps[s] \in SUBSET Nat
    BY <2>1, SnapsAre DEF Archive
  <2>3. PutBack(s) \in Row
    BY <2>2 DEF PutBack, File
  <2>4. PICK row \in Row : live' = [live EXCEPT ![s] = row]
    <3>1. CASE live' = [live EXCEPT ![s] = PutBack(s)]
      BY <2>3, <3>1
    <3>2. CASE \E log \in {{}, live[s].wal} : live' = [live EXCEPT ![s].wal = log]
      <4>1. \A log \in {{}, live[s].wal} : [live[s] EXCEPT !.wal = log] \in Row
        BY <1>0
      <4> QED BY <3>2, <4>1
    <3>3. CASE live' = [live EXCEPT ![s] = BesideLog(s)]
      <4>1. BesideLog(s) \in Row
        BY <1>0, <2>2 DEF BesideLog
      <4> QED BY <3>3, <4>1
    <3> QED BY <1>6, <3>1, <3>2, <3>3 DEF RestoreFile
  <2> QED BY <1>0, <1>1, <1>6, <2>1, <2>4 DEF RestoreFile, outside
<1>7. ASSUME NEW s \in Shops, Quieten(s) \/ CreateShop(s) \/ LookAt(s) PROVE FilesOK'
  BY <1>0, <1>2, <1>7 DEF Quieten, CreateShop, LookAt, outside
<1>8. ASSUME NEW k \in Updaters, NEW back \in Nat, Starts(k, back) PROVE FilesOK'
  BY <1>0, <1>2, <1>8 DEF Starts, StartArchive, outside
<1>9. ASSUME NEW k \in Updaters,
             \/ PreUpdateSnapshot(k) \/ ApplyStagedUpdate(k) \/ EmptyArchive(k)
             \/ SwapBinary(k) \/ StageRestore(k)
      PROVE  FilesOK'
  BY <1>0, <1>2, <1>9
     DEF PreUpdateSnapshot, ApplyStagedUpdate, EmptyArchive, SwapBinary, StageRestore, outside
<1>10. ASSUME AutoApplyTick \/ Boot \/ OpenDatabases \/ Download \/ InstallerRuns \/ TillDies
       PROVE  FilesOK'
  BY <1>0, <1>2, <1>10
     DEF AutoApplyTick, Boot, OpenDatabases, Download, InstallerRuns, TillDies, outside
<1>11. ASSUME NEW k \in Updaters, OnQuit(k) PROVE FilesOK'
  BY <1>0, <1>4, <1>11 DEF OnQuit, outside
<1>12. ASSUME NEW s \in Shops, Checkpoint(s) PROVE FilesOK'
  BY <1>4, <1>12 DEF Checkpoint, outside
<1> QED BY <1>3, <1>5, <1>6, <1>7, <1>8, <1>9, <1>10, <1>11, <1>12, StepsAre
\* The tasks.
LEMMA TasksStep == ASSUME UpdatesIInv, UpdatesNext PROVE TasksOK'
<1>0. /\ ArchivesOK' /\ ArchivesGrow /\ Resting \in TaskRows
      /\ task \in [Updaters -> TaskRows] /\ DOMAIN archive = 1..Len(archive) /\ Len(archive) \in Nat
      /\ 0 \notin DOMAIN archive
  BY ArchivesStep DEF UpdatesIInv, TasksOK, ArchivesOK, Resting, TaskRows
<1>1. ASSUME NEW k \in Updaters, NEW back \in Nat, Starts(k, back) PROVE TasksOK'
  <2> DEFINE r == [step |-> "snap", into |-> Len(archive'), todo |-> shops, bad |-> FALSE,
                   owed |-> AllWork, back |-> back]
  <2>1. AllWork \in SUBSET Nat /\ shops \in SUBSET Shops
    BY DEF AllWork, Content, UpdatesIInv, FilesOK
  <2>2. /\ DOMAIN archive' = DOMAIN archive \cup {Len(archive')} /\ Len(archive') = Len(archive) + 1
        /\ DOMAIN archive'[Len(archive')].snaps = {}
        /\ \A a \in DOMAIN archive : archive'[a] = archive[a]
    BY <1>1, StartsArchive DEF Starts
  <2>3. r \in TaskRows /\ r.into \notin DOMAIN archive
    BY <1>0, <2>1, <2>2 DEF TaskRows
  <2>4. Goto(k, r) /\ Up /\ UNCHANGED <<proc, shops>>
    BY <1>1 DEF Starts, StartArchive, outside
  <2>5. task'[k] = r
    BY <1>0, <2>4 DEF Goto
  <2>7. TaskOK(k)'
    <3>1. Up'
      BY <2>4 DEF Up
    <3>2. back # 0 => back \in DOMAIN archive'
      BY <1>0, <1>1 DEF Starts, ArchivesGrow
    <3> QED BY <2>2, <2>4, <2>5, <3>1, <3>2 DEF TaskOK
  <2>8. k = "timer" => r.back = 0
    BY <1>1 DEF Starts
  <2>9. \A j \in Updaters \ {k} : task[j].step = "snap" =>
            archive'[task[j].into].snaps = archive[task[j].into].snaps
    BY <2>2, TaskTypes
  <2> HIDE DEF r
  <2> QED BY <1>0, <2>3, <2>4, <2>7, <2>8, <2>9, TaskMoves
<1>2. ASSUME NEW k \in Updaters, NEW r \in TaskRows, Up, Goto(k, r), UNCHANGED <<proc, shops>>,
             r = Resting \/ (r.into = task[k].into /\ r.back = task[k].back),
             TaskOK(k)',
             \A j \in Updaters \ {k} : task[j].step = "snap" =>
                 archive'[task[j].into].snaps = archive[task[j].into].snaps
      PROVE  TasksOK'
  <2>1. r.into \in {0, task[k].into} /\ (k = "timer" => r.back = 0)
    BY <1>2 DEF Resting, UpdatesIInv, TasksOK
  <2> QED BY <1>0, <1>2, <2>1, TaskMoves
<1>3. ASSUME NEW k \in Updaters, NEW s \in Shops, Snapshot(k, s) PROVE TasksOK'
  <2>1. PICK bad \in BOOLEAN : Goto(k, [task[k] EXCEPT !.todo = @ \ {s}, !.bad = bad])
    <3>1. /\ [task[k] EXCEPT !.todo = @ \ {s}]
                 = [task[k] EXCEPT !.todo = @ \ {s}, !.bad = task[k].bad]
          /\ task[k].bad \in BOOLEAN
      BY <1>0 DEF TaskRows
    <3>2. \/ Goto(k, [task[k] EXCEPT !.todo = @ \ {s}])
          \/ Goto(k, [task[k] EXCEPT !.todo = @ \ {s}, !.bad = TRUE])
      BY <1>3 DEF Snapshot
    <3> QED BY <3>1, <3>2
  <2> DEFINE r == [task[k] EXCEPT !.todo = @ \ {s}, !.bad = bad]
             i == task[k].into
  <2>2. r \in TaskRows /\ r.into = i /\ r.back = task[k].back /\ r.step = "snap"
        /\ r.todo = task[k].todo \ {s} /\ task'[k] = r /\ task[k].step = "snap"
    BY <1>0, <1>3, <2>1 DEF TaskRows, Snapshot, AtTask, Goto
  <2>3. /\ DOMAIN archive' = DOMAIN archive
        /\ \A a \in DOMAIN archive : a # i => archive'[a] = archive[a]
        /\ DOMAIN archive'[i].snaps \subseteq DOMAIN archive[i].snaps \cup {s}
    BY <1>3, SnapshotFills
  <2>4. Up /\ UNCHANGED <<proc, shops>>
    BY <1>3 DEF Snapshot, AtTask, outside
  <2>5. TaskOK(k)'
    <3>1. TaskOK(k) /\ Up'
      BY <2>4, TaskTypes DEF Up
    <3> QED BY <2>2, <2>3, <2>4, <3>1 DEF TaskOK
  <2>6. \A j \in Updaters \ {k} : task[j].step = "snap" =>
            task[j].into # i /\ task[j].into \in DOMAIN archive
    <3>1. i \in DOMAIN archive
      BY <2>2, TaskTypes
    <3> QED BY <1>0, <3>1, TaskTypes DEF UpdatesIInv, TasksOK, Updaters
  <2> HIDE DEF r
  <2> QED BY <1>2, <2>1, <2>2, <2>3, <2>4, <2>5, <2>6 DEF r
<1>4. ASSUME NEW k \in Updaters, PreUpdateSnapshot(k) PROVE TasksOK'
  <2>1. /\ DOMAIN archive' = DOMAIN archive
        /\ \A a \in DOMAIN archive : archive'[a].snaps = archive[a].snaps
    BY <1>4, IndexWrites
  <2>2. Up /\ UNCHANGED <<proc, shops>> /\ task[k].step = "snap" /\ task[k].todo = {}
    BY <1>4 DEF PreUpdateSnapshot, AtTask, outside
  <2>3. PICK step \in {"swap", "launch", "idle"} :
            /\ (step = "swap") = (task[k].back # 0)
            /\ Goto(k, IF step = "idle" THEN Resting ELSE [task[k] EXCEPT !.step = step])
    BY <1>4 DEF PreUpdateSnapshot, Stop, Advance, AfterFailure, Failed
  <2> DEFINE r == IF step = "idle" THEN Resting ELSE [task[k] EXCEPT !.step = step]
  <2>4. r \in TaskRows /\ task'[k] = r
    BY <1>0, <2>3 DEF TaskRows, Goto
  <2>5. r = Resting \/ (r.into = task[k].into /\ r.back = task[k].back
                        /\ r.step = step /\ step # "idle" /\ r.todo = task[k].todo)
    BY <1>0 DEF TaskRows
  <2>6. TaskOK(k)'
    <3>1. TaskOK(k) /\ Up'
      BY <2>2, TaskTypes DEF Up
    <3>2. CASE r = Resting
      BY <2>2, <2>4, <3>1, <3>2 DEF TaskOK, Resting
    <3>3. CASE r # Resting
      BY <2>1, <2>2, <2>3, <2>4, <2>5, <3>1, <3>3 DEF TaskOK
    <3> QED BY <3>2, <3>3
  <2>7. \A j \in Updaters \ {k} : task[j].step = "snap" =>
            archive'[task[j].into].snaps = archive[task[j].into].snaps
    BY <2>1, TaskTypes
  <2> HIDE DEF r
  <2>8. Goto(k, r) BY <2>3 DEF r
  <2> QED BY <1>2, <2>2, <2>4, <2>5, <2>6, <2>7, <2>8
<1>5. ASSUME NEW k \in Updaters, NEW step \in {"look", "launch", "swap", "stage", "quit"},
             NEW todo \in SUBSET shops, Up, UNCHANGED <<proc, shops, archive>>,
             \/ Goto(k, Resting)
             \/ /\ Goto(k, [task[k] EXCEPT !.step = step, !.todo = todo])
                /\ step = "look" <=> task[k].step \in {"idle", "look"}
                /\ step = "stage" => task[k].step = "swap"
                /\ step \notin {"launch", "swap"}
      PROVE  TasksOK'
  <2> DEFINE r == [task[k] EXCEPT !.step = step, !.todo = todo]
  <2>1. r \in TaskRows /\ r.into = task[k].into /\ r.back = task[k].back /\ r.step = step
        /\ r.todo = todo
    BY <1>0 DEF TaskRows, UpdatesIInv, FilesOK
  <2>2. TaskOK(k) /\ Up'
    BY <1>5, TaskTypes DEF Up
  <2>3. CASE Goto(k, Resting)
    <3>1. TaskOK(k)'
      BY <1>0, <1>5, <2>2, <2>3 DEF TaskOK, Goto, Resting
    <3> QED BY <1>0, <1>2, <1>5, <2>3, <3>1
  <2>4. CASE Goto(k, r) /\ ~Goto(k, Resting)
    <3> HIDE DEF r
    <3>1. task'[k] = r
      BY <1>0, <2>4 DEF Goto
    <3>2. TaskOK(k)'
      BY <1>5, <2>1, <2>2, <2>4, <3>1 DEF TaskOK, r
    <3> QED BY <1>2, <1>5, <2>1, <2>4, <3>2
  <2> QED BY <1>5, <2>3, <2>4
<1>6. ASSUME NEW s \in Shops, LookAt(s) PROVE TasksOK'
  <2>1. task["timer"].todo \ {s} \in SUBSET shops
    BY TaskTypes DEF TaskOK, Updaters
  <2>2. [task["timer"] EXCEPT !.todo = @ \ {s}]
            = [task["timer"] EXCEPT !.step = "look", !.todo = task["timer"].todo \ {s}]
    BY <1>0, <1>6 DEF TaskRows, Updaters, LookAt, AtTask
  <2> QED BY <1>5, <1>6, <2>1, <2>2 DEF LookAt, AtTask, outside, Updaters
<1>7. ASSUME AutoApplyTick PROVE TasksOK'
  <2> DEFINE r == [Resting EXCEPT !.step = "look", !.todo = shops]
  <2>1. Goto("timer", r) /\ Up /\ UNCHANGED <<proc, shops, archive>>
    BY <1>7 DEF AutoApplyTick, AtTask, outside
  <2>2. r \in TaskRows /\ r.into = 0 /\ r.back = 0 /\ r.step = "look" /\ r.todo = shops
    BY DEF Resting, TaskRows, UpdatesIInv, FilesOK
  <2> HIDE DEF r
  <2>3. task'["timer"] = r /\ Up' /\ "timer" \in Updaters
    BY <1>0, <2>1 DEF Goto, Updaters, Up
  <2>4. TaskOK("timer")'
    BY <2>1, <2>2, <2>3 DEF TaskOK
  <2> QED BY <1>0, <2>1, <2>2, <2>3, <2>4, TaskMoves
<1>8. ASSUME NEW k \in Updaters,
             ApplyStagedUpdate(k) \/ EmptyArchive(k) \/ SwapBinary(k) \/ StageRestore(k)
      PROVE  TasksOK'
  <2>1. task[k].todo \in SUBSET shops /\ Up /\ UNCHANGED <<proc, shops, archive>>
    BY <1>8, TaskTypes
       DEF TaskOK, ApplyStagedUpdate, EmptyArchive, SwapBinary, StageRestore, AtTask, outside
  <2>2. \/ Goto(k, Resting)
        \/ task[k].step = "swap" /\ Advance(k, "stage")
        \/ task[k].step \notin {"idle", "look"} /\ Advance(k, "quit")
    BY <1>8 DEF ApplyStagedUpdate, EmptyArchive, SwapBinary, StageRestore, AtTask
  <2>3. \A step : [task[k] EXCEPT !.step = step]
                    = [task[k] EXCEPT !.step = step, !.todo = task[k].todo]
    BY <1>0 DEF TaskRows
  <2>4. CASE Goto(k, Resting)
    BY <1>5, <2>1, <2>4
  <2>5. CASE task[k].step = "swap" /\ Advance(k, "stage")
    BY <1>5, <2>1, <2>3, <2>5 DEF Advance
  <2>6. CASE task[k].step \notin {"idle", "look"} /\ Advance(k, "quit")
    BY <1>5, <2>1, <2>3, <2>6 DEF Advance
  <2> QED BY <2>2, <2>4, <2>5, <2>6
<1>9. ASSUME InstallerRuns \/ TillDies \/ \E k \in Updaters : OnQuit(k) PROVE TasksOK'
  BY <1>9, DownForgets, RestingOK DEF InstallerRuns, TillDies, OnQuit
<1>10. ASSUME Boot \/ OpenDatabases \/ \E s \in Shops : RestoreFile(s) PROVE TasksOK'
  <2>1. UNCHANGED task /\ (proc = Down \/ proc.at = "restore")
    BY <1>10 DEF Boot, OpenDatabases, RestoreFile
  <2>2. ~Up
    BY <2>1 DEF Up, Running, Down, Process
  <2> QED BY <2>1, <2>2, DownForgets, RestingOK
<1>11. ASSUME Download \/ \E s \in Shops : Sell(s) \/ Quieten(s) \/ Checkpoint(s) \/ CreateShop(s)
       PROVE  TasksOK'
  <2>1. UNCHANGED <<task, archive, proc>> /\ shops \subseteq shops'
    BY <1>11 DEF Download, Sell, Quieten, Checkpoint, CreateShop, outside
  <2> QED BY <2>1 DEF UpdatesIInv, TasksOK, TaskOK, Up
<1> QED BY <1>1, <1>3, <1>4, <1>6, <1>7, <1>8, <1>9, <1>10, <1>11, StepsAre
\* What a task owes is still copied, or still there, when others move.
LEMMA OwedStays ==
    ASSUME UpdatesIInv, ArchivesGrow, NEW k \in Updaters, task'[k] = task[k],
           task[k].step \in {"launch", "quit"} =>
               archive'[task[k].into].indexed = archive[task[k].into].indexed,
           \A s \in Shops : Content(s) \subseteq Content(s)'
    PROVE  Owed(k)'
<1>1. PICK i : i = task[k].into
  OBVIOUS
<1>2. CASE task[k].step \in {"snap", "launch", "quit"} /\ task[k].back = 0
  <2>1. i \in DOMAIN archive /\ task[k].todo \subseteq Shops /\ Owed(k)
    BY <1>1, <1>2, TaskTypes DEF UpdatesIInv, OwedOK, TaskRows
  <2>2. Kept(i) \subseteq Kept(i)'
    BY <2>1, KeptGrows
  <2>3. UNION {Content(s) : s \in task[k].todo} \subseteq UNION {Content(s)' : s \in task[k].todo}
    BY <2>1
  <2>4. /\ Kept(i) = Kept(task[k].into)
        /\ Kept(i)' = Kept(task[k].into)'
        /\ (UNION {Content(s) : s \in task[k].todo})' = UNION {Content(s)' : s \in task[k].todo}
    BY <1>1
  <2> QED BY <1>1, <1>2, <2>1, <2>2, <2>3, <2>4 DEF Owed
<1>3. CASE ~(task[k].step \in {"snap", "launch", "quit"} /\ task[k].back = 0)
  BY <1>3 DEF Owed
<1> QED BY <1>2, <1>3

\* What the tasks owe.
LEMMA OwedStep == ASSUME UpdatesIInv, UpdatesNext PROVE OwedOK'
<1>0. /\ ArchivesOK' /\ ArchivesGrow /\ task \in [Updaters -> TaskRows] /\ Resting \in TaskRows
      /\ DOMAIN archive = 1..Len(archive) /\ Len(archive) \in Nat
  BY ArchivesStep DEF UpdatesIInv, TasksOK, ArchivesOK, Resting, TaskRows
<1>1. ASSUME NEW k \in Updaters, NEW r, Goto(k, r), Owed(k)', UNCHANGED live,
             \A j \in Updaters \ {k} : task[j].step \in {"launch", "quit"} =>
                 archive'[task[j].into].indexed = archive[task[j].into].indexed
      PROVE  OwedOK'
  <2>1. \A s \in Shops : Content(s) \subseteq Content(s)'
    BY <1>1 DEF Content
  <2>2. \A j \in Updaters \ {k} : task'[j] = task[j]
    BY <1>0, <1>1 DEF Goto
  <2>3. \A j \in Updaters \ {k} : Owed(j)'
    BY <1>0, <1>1, <2>1, <2>2, OwedStays
  <2> QED BY <1>1, <2>3 DEF OwedOK
<1>2. ASSUME NEW k \in Updaters, NEW back \in Nat, Starts(k, back) PROVE OwedOK'
  <2> DEFINE r == [step |-> "snap", into |-> Len(archive'), todo |-> shops, bad |-> FALSE,
                   owed |-> AllWork, back |-> back]
  <2>1. \A a \in DOMAIN archive : archive'[a] = archive[a]
    BY <1>2, StartsArchive DEF Starts
  <2>2. Goto(k, r) /\ UNCHANGED <<live, shops>>
    BY <1>2 DEF Starts, StartArchive, outside
  <2>3. task'[k] = r
    BY <1>0, <2>2 DEF Goto
  <2>4. AllWork \subseteq UNION {Content(s)' : s \in shops}
    <3>1. \A s \in Shops : Content(s)' = Content(s) /\ (s \notin shops => Content(s) = {})
      BY <2>2 DEF Content, UpdatesIInv, FilesOK
    <3> QED BY <3>1 DEF AllWork
  <2>5. Owed(k)'
    BY <2>3, <2>4 DEF Owed
  <2>6. \A j \in Updaters \ {k} : task[j].step \in {"launch", "quit"} =>
            archive'[task[j].into].indexed = archive[task[j].into].indexed
    BY <2>1, TaskTypes
  <2> HIDE DEF r
  <2> QED BY <1>1, <2>2, <2>5, <2>6
<1>3. ASSUME NEW k \in Updaters, NEW s \in Shops, Snapshot(k, s) PROVE OwedOK'
  <2>1. PICK i : i = task[k].into
    OBVIOUS
  <2>2. PICK r : Goto(k, r) /\ r \in {[task[k] EXCEPT !.todo = @ \ {s}],
                                      [task[k] EXCEPT !.todo = @ \ {s}, !.bad = TRUE]}
    BY <1>3 DEF Snapshot
  <2>3. /\ task'[k] = r /\ r.into = i /\ r.step = task[k].step /\ r.owed = task[k].owed
        /\ r.back = task[k].back /\ r.todo = task[k].todo \ {s} /\ task[k].todo \in SUBSET Shops
        /\ ~r.bad => ~task[k].bad
    BY <1>0, <2>1, <2>2 DEF Goto, TaskRows
  <2>4. task[k].step = "snap" /\ s \in task[k].todo /\ i \in DOMAIN archive /\ UNCHANGED live
    BY <1>3, <2>1, TaskTypes DEF Snapshot, AtTask
  <2>5. r.bad \/ Kept(i)' = Kept(i) \cup Content(s)
    BY <1>3, <2>1, <2>3, SnapshotFills
  <2>6. Owed(k)'
    <3>1. CASE r.bad \/ r.back # 0
      BY <2>3, <2>4, <3>1 DEF Owed
    <3>2. CASE ~r.bad /\ r.back = 0
      <4>1. task[k].owed \subseteq Kept(i) \cup UNION {Content(x) : x \in task[k].todo}
        BY <2>1, <2>3, <2>4, <3>2 DEF UpdatesIInv, OwedOK, Owed
      <4>2. r.owed \subseteq Kept(i)' \cup UNION {Content(x)' : x \in r.todo}
        BY <2>3, <2>4, <2>5, <3>2, <4>1 DEF Content
      <4> QED BY <2>3, <2>4, <4>2 DEF Owed
    <3> QED BY <3>1, <3>2
  <2>7. \A j \in Updaters \ {k} : task[j].step \in {"launch", "quit"} =>
            archive'[task[j].into].indexed = archive[task[j].into].indexed
    BY <1>3, <2>1, SnapshotFills, TaskTypes
  <2> QED BY <1>1, <2>2, <2>4, <2>6, <2>7
<1>4. ASSUME NEW k \in Updaters, PreUpdateSnapshot(k) PROVE OwedOK'
  <2>1. PICK i : i = task[k].into
    OBVIOUS
  <2>2. /\ task[k].step = "snap" /\ task[k].todo = {} /\ UNCHANGED live /\ i \in DOMAIN archive
        /\ archive[i] \in Archive
    BY <1>4, <2>1, TaskTypes DEF PreUpdateSnapshot, AtTask
  <2>3. PICK r : Goto(k, r) /\ \/ r = Resting
                               \/ task[k].back # 0 /\ r = [task[k] EXCEPT !.step = "swap"]
                               \/ /\ task[k].back = 0 /\ r = [task[k] EXCEPT !.step = "launch"]
                                  /\ ~task[k].bad
                                  /\ archive' = [archive EXCEPT ![i].indexed = TRUE]
    BY <1>4, <2>1 DEF PreUpdateSnapshot, Stop, Advance, AfterFailure, Failed
  <2>4. task'[k] = r
    BY <1>0, <2>3 DEF Goto
  <2>5. Owed(k)'
    <3>1. CASE r = Resting
      BY <2>4, <3>1 DEF Owed, Resting
    <3>2. CASE task[k].back # 0 /\ r = [task[k] EXCEPT !.step = "swap"]
      <4>1. r.step = "swap"
        BY <1>0, <3>2 DEF TaskRows
      <4> QED BY <2>4, <4>1 DEF Owed
    <3>3. CASE /\ task[k].back = 0 /\ r = [task[k] EXCEPT !.step = "launch"] /\ ~task[k].bad
               /\ archive' = [archive EXCEPT ![i].indexed = TRUE]
      <4>1. r.step = "launch" /\ r.owed = task[k].owed /\ r.into = i
        BY <1>0, <2>1, <3>3 DEF TaskRows
      <4>2. task[k].owed \subseteq Kept(i)
        BY <2>1, <2>2, <3>3 DEF UpdatesIInv, OwedOK, Owed
      <4>3. archive'[i].indexed
        BY <2>2, <3>3 DEF Archive
      <4>4. Kept(i) \subseteq Kept(i)'
        BY <1>0, <2>2, KeptGrows
      <4> QED BY <2>4, <4>1, <4>2, <4>3, <4>4 DEF Owed
    <3> QED BY <2>3, <3>1, <3>2, <3>3
  <2>6. \A j \in Updaters \ {k} : task[j].step \in {"launch", "quit"} =>
            archive'[task[j].into].indexed = archive[task[j].into].indexed
    <3>1. i # 0 /\ \A j \in Updaters \ {k} : task[j].into # i
      BY <1>0, <2>1, <2>2 DEF UpdatesIInv, TasksOK, Updaters
    <3> QED BY <1>4, <2>1, <3>1, IndexWrites, TaskTypes
  <2> QED BY <1>1, <2>2, <2>3, <2>5, <2>6
<1>5. ASSUME NEW k \in Updaters, NEW r \in TaskRows, Goto(k, r), UNCHANGED <<archive, live>>,
             \/ r.step \notin {"snap", "launch", "quit"} \/ r.back # 0
             \/ /\ task[k].step = "launch" /\ r.step = "quit" /\ r.into = task[k].into
                /\ r.owed = task[k].owed /\ r.back = task[k].back
      PROVE  OwedOK'
  <2>1. task'[k] = r
    BY <1>0, <1>5 DEF Goto
  <2>2. Owed(k)'
    BY <1>5, <2>1 DEF Owed, Kept, UpdatesIInv, OwedOK
  <2> QED BY <1>1, <1>5, <2>2
<1>6. ASSUME NEW k \in Updaters,
             ApplyStagedUpdate(k) \/ EmptyArchive(k) \/ SwapBinary(k) \/ StageRestore(k)
      PROVE  OwedOK'
  <2>1. PICK r : /\ Goto(k, r)
                 /\ \/ r = Resting
                    \/ r = [task[k] EXCEPT !.step = "stage"] /\ task[k].step = "swap"
                    \/ r = [task[k] EXCEPT !.step = "quit"] /\ task[k].step \in {"launch", "stage"}
    BY <1>6 DEF ApplyStagedUpdate, EmptyArchive, SwapBinary, StageRestore, Advance, AtTask
  <2>2. UNCHANGED <<archive, live>>
    BY <1>6 DEF ApplyStagedUpdate, EmptyArchive, SwapBinary, StageRestore, outside
  <2>3. CASE r = Resting
    BY <1>0, <1>5, <2>1, <2>2, <2>3 DEF Resting
  <2>4. CASE r = [task[k] EXCEPT !.step = "stage"] /\ task[k].step = "swap"
    <3>1. r \in TaskRows /\ r.step = "stage"
      BY <1>0, <2>4 DEF TaskRows
    <3> QED BY <1>5, <2>1, <2>2, <3>1
  <2>5. CASE r = [task[k] EXCEPT !.step = "quit"] /\ task[k].step \in {"launch", "stage"}
    <3>1. /\ r \in TaskRows /\ r.step = "quit" /\ r.into = task[k].into /\ r.owed = task[k].owed
          /\ r.back = task[k].back
      BY <1>0, <2>5 DEF TaskRows
    <3>2. task[k].step = "stage" => task[k].back # 0
      BY TaskTypes DEF TaskOK
    <3> QED BY <1>5, <2>1, <2>2, <2>5, <3>1, <3>2
  <2> QED BY <2>1, <2>3, <2>4, <2>5
<1>7. ASSUME AutoApplyTick \/ \E s \in Shops : LookAt(s) PROVE OwedOK'
  <2>1. PICK r : /\ Goto("timer", r) /\ UNCHANGED <<archive, live>>
                 /\ \/ r = Resting \/ r = [Resting EXCEPT !.step = "look", !.todo = shops]
                    \/ \E s : r = [task["timer"] EXCEPT !.todo = @ \ {s}]
                              /\ task["timer"].step = "look"
    BY <1>7 DEF AutoApplyTick, LookAt, AtTask, outside
  <2>2. "timer" \in Updaters /\ shops \in SUBSET Shops
    BY DEF Updaters, UpdatesIInv, FilesOK
  <2>3. r \in TaskRows /\ r.step \in {"idle", "look"}
    <3>1. CASE r = Resting
      BY <1>0, <3>1 DEF Resting
    <3>2. CASE r = [Resting EXCEPT !.step = "look", !.todo = shops]
      BY <2>2, <3>2 DEF Resting, TaskRows
    <3>3. ASSUME NEW s, r = [task["timer"] EXCEPT !.todo = @ \ {s}], task["timer"].step = "look"
          PROVE  r \in TaskRows /\ r.step \in {"idle", "look"}
      <4>1. task["timer"] \in TaskRows
        BY <1>0, <2>2
      <4> QED BY <3>3, <4>1 DEF TaskRows
    <3> QED BY <2>1, <3>1, <3>2, <3>3
  <2> QED BY <1>5, <2>1, <2>2, <2>3
<1>8. ASSUME InstallerRuns \/ TillDies \/ \E k \in Updaters : OnQuit(k) PROVE OwedOK'
  BY <1>8, DownForgets, RestingOK DEF InstallerRuns, TillDies, OnQuit
<1>9. ASSUME Boot \/ OpenDatabases \/ \E s \in Shops : RestoreFile(s) PROVE OwedOK'
  <2>1. UNCHANGED task /\ (proc = Down \/ proc.at = "restore")
    BY <1>9 DEF Boot, OpenDatabases, RestoreFile
  <2>2. ~Up
    BY <2>1 DEF Up, Running, Down, Process
  <2> QED BY <2>1, <2>2, DownForgets, RestingOK
<1>10. ASSUME Download \/ \E s \in Shops : Sell(s) \/ Quieten(s) \/ Checkpoint(s) \/ CreateShop(s)
       PROVE  OwedOK'
  <2>1. UNCHANGED <<task, archive>>
    BY <1>10 DEF Download, Sell, Quieten, Checkpoint, CreateShop, outside
  <2>2. \A s \in Shops : Content(s) \subseteq Content(s)'
    <3>1. CASE UNCHANGED live
      BY <3>1 DEF Content
    <3>2. CASE \E x \in Shops : \E row : /\ live' = [live EXCEPT ![x] = row]
                                         /\ Content(x) \subseteq row.main \cup row.wal
      BY <3>2 DEF Content, UpdatesIInv, FilesOK
    <3>3. ASSUME NEW x \in Shops, Checkpoint(x)
          PROVE  \E row : /\ live' = [live EXCEPT ![x] = row]
                          /\ Content(x) \subseteq row.main \cup row.wal
      <4>1. /\ live' = [live EXCEPT ![x] = File(Content(x))]
            /\ Content(x) \subseteq File(Content(x)).main \cup File(Content(x)).wal
        BY <3>3 DEF Checkpoint, File
      <4> QED BY <4>1
    <3>4. ASSUME NEW x \in Shops, Sell(x)
          PROVE  \E row : /\ live' = [live EXCEPT ![x] = row]
                          /\ Content(x) \subseteq row.main \cup row.wal
      <4>1. live' = [live EXCEPT ![x] = [live[x] EXCEPT !.wal = @ \cup {sales'}]]
        BY <3>4 DEF Sell
      <4>2. Content(x) \subseteq [live[x] EXCEPT !.wal = @ \cup {sales'}].main
                                 \cup [live[x] EXCEPT !.wal = @ \cup {sales'}].wal
        BY DEF UpdatesIInv, FilesOK, Content
      <4> QED BY <4>1, <4>2
    <3> QED BY <1>10, <3>1, <3>2, <3>3, <3>4 DEF Download, Quieten, CreateShop, outside
  <2> QED BY <1>0, <2>1, <2>2, OwedStays DEF OwedOK
<1> QED BY <1>2, <1>3, <1>4, <1>6, <1>7, <1>8, <1>9, <1>10, StepsAre
\* The restore.
LEMMA RestoreStep == ASSUME UpdatesIInv, UpdatesNext PROVE RestoreOK'
<1> DEFINE Manifest == [from : Nat, files : SUBSET Shops]
           Process3 == [at : {"up", "down", "restore"}, todo : SUBSET Shops, bad : BOOLEAN,
                        beside : SUBSET Shops]
           Valid == StagedRestore => /\ pending.from \in DOMAIN archive
                                     /\ pending.files \subseteq DOMAIN archive[pending.from].snaps
<1>0. /\ ArchivesGrow /\ Valid /\ pending \in Manifest /\ proc \in Process3
      /\ Running \in Process3 /\ Down \in Process3
      /\ Running.at # "restore" /\ Down.at # "restore"
      /\ NoRestore \in Manifest /\ Garbled \in Manifest
  BY ArchivesStep, UpdatesAssumption
     DEF UpdatesIInv, RestoreOK, Running, Down, Process, NoRestore, Garbled
<1>1. ASSUME UNCHANGED pending PROVE Valid'
  BY <1>0, <1>1 DEF ArchivesGrow, StagedRestore
<1>2. ASSUME UNCHANGED <<pending, proc>>, Up \/ proc = Down PROVE RestoreOK'
  BY <1>0, <1>1, <1>2 DEF RestoreOK, Up
<1>3. ASSUME NEW k \in Updaters, StageRestore(k) PROVE RestoreOK'
  <2>1. Up /\ UNCHANGED <<proc, archive>> /\ task[k].step = "stage"
    BY <1>3 DEF StageRestore, AtTask
  <2>2. task[k].back \in DOMAIN archive /\ task[k].back \in Nat
    BY <2>1, TaskTypes DEF TaskOK, TaskRows
  <2>3. Files(task[k].back) \subseteq DOMAIN archive[task[k].back].snaps
        /\ Files(task[k].back) \subseteq Shops
    BY <2>2 DEF Files, UpdatesIInv, ArchivesOK, FilesOK
  <2>4. CASE UNCHANGED pending
    BY <1>2, <2>1, <2>4
  <2>5. CASE pending' = [from |-> task[k].back, files |-> Files(task[k].back)]
    <3>1. pending' \in Manifest /\ Valid'
      BY <2>1, <2>2, <2>3, <2>5
    <3>2. proc' \in Process3 /\ proc'.at # "restore"
      BY <1>0, <2>1 DEF Up
    <3> QED BY <3>1, <3>2 DEF RestoreOK
  <2> QED BY <1>3, <2>4, <2>5 DEF StageRestore
<1>4. ASSUME Boot PROVE RestoreOK'
  <2>1. CASE pending \in {NoRestore, Garbled}
    <3>1. pending' = NoRestore /\ proc' = Running
      BY <1>4, <2>1 DEF Boot
    <3> QED BY <1>0, <3>1 DEF RestoreOK, StagedRestore
  <2>2. CASE pending \notin {NoRestore, Garbled}
    <3>1. proc' = Process("restore", pending.files, FALSE) /\ UNCHANGED <<pending, archive, live>>
      BY <1>4, <2>2 DEF Boot
    <3>2. proc' \in Process3 /\ proc'.todo = pending.files /\ proc'.at = "restore"
      BY <1>0, <3>1 DEF Process
    <3> QED BY <1>0, <1>1, <2>2, <3>1, <3>2 DEF RestoreOK, StagedRestore
  <2> QED BY <2>1, <2>2
<1>5. ASSUME NEW s \in Shops, RestoreFile(s) PROVE RestoreOK'
  <2>1. /\ proc.at = "restore" /\ s \in proc.todo /\ UNCHANGED <<pending, archive>>
        /\ StagedRestore /\ proc.todo \subseteq pending.files
        /\ ~proc.bad => \A x \in pending.files \ proc.todo :
               IsBack(live[x], archive[pending.from].snaps[x], x \in proc.beside)
        /\ live \in [Shops -> [main : SUBSET Nat, wal : SUBSET Nat]]
    BY <1>5 DEF RestoreFile, UpdatesIInv, RestoreOK, FilesOK
  <2>2. ASSUME NEW file \in {PutBack(s), BesideLog(s)}, live' = [live EXCEPT ![s] = file],
               NEW more \in {{}, {s}}, file = PutBack(s) \/ s \in more,
               proc' = [proc EXCEPT !.todo = @ \ {s}, !.beside = @ \cup more]
        PROVE  RestoreOK'
    <3>1. /\ proc' \in Process3 /\ proc'.todo = proc.todo \ {s} /\ proc'.bad = proc.bad
          /\ proc'.at = "restore" /\ proc'.beside = proc.beside \cup more
      BY <1>0, <2>1, <2>2
    <3>2. /\ IsBack(live'[s], archive[pending.from].snaps[s], s \in proc'.beside)
          /\ \A x \in Shops : x # s => live'[x] = live[x]
      BY <2>1, <2>2, <3>1 DEF PutBack, BesideLog, File, IsBack
    <3>3. ~proc'.bad => \A x \in pending'.files \ proc'.todo :
               IsBack(live'[x], archive'[pending'.from].snaps[x], x \in proc'.beside)
      BY <1>0, <2>1, <3>1, <3>2 DEF IsBack
    <3> QED BY <1>0, <1>1, <2>1, <3>1, <3>3 DEF RestoreOK, StagedRestore, IsBack
  <2>3. CASE proc' = [proc EXCEPT !.todo = @ \ {s}, !.bad = TRUE]
    <3>1. /\ proc' \in Process3 /\ proc'.todo = proc.todo \ {s} /\ proc'.bad
          /\ proc'.at = "restore"
      BY <1>0, <2>1, <2>3
    <3> QED BY <1>0, <1>1, <2>1, <3>1 DEF RestoreOK, StagedRestore
  <2>4. CASE /\ live' = [live EXCEPT ![s] = PutBack(s)]
             /\ proc' = [proc EXCEPT !.todo = @ \ {s}]
    <3>1. proc' = [proc EXCEPT !.todo = @ \ {s}, !.beside = @ \cup {}]
      BY <1>0, <2>4
    <3> QED BY <2>2, <2>4, <3>1
  <2>5. CASE /\ live' = [live EXCEPT ![s] = BesideLog(s)]
             /\ proc' = [proc EXCEPT !.todo = @ \ {s}, !.beside = @ \cup {s}]
    BY <2>2, <2>5
  <2> QED BY <1>5, <2>3, <2>4, <2>5 DEF RestoreFile
<1>6. ASSUME OpenDatabases PROVE RestoreOK'
  <2>1. proc' = Running /\ pending' \in {NoRestore, pending} /\ UNCHANGED archive
    BY <1>6 DEF OpenDatabases, RestorePending
  <2>2. Valid'
    BY <1>0, <1>1, <2>1 DEF StagedRestore
  <2> QED BY <1>0, <2>1, <2>2 DEF RestoreOK
<1>7. ASSUME InstallerRuns \/ TillDies \/ \E k \in Updaters : OnQuit(k) PROVE RestoreOK'
  <2>1. proc' = Down /\ pending' \in {Garbled, pending} /\ UNCHANGED archive
    BY <1>7 DEF InstallerRuns, TillDies, OnQuit
  <2>2. Valid'
    BY <1>0, <1>1, <2>1 DEF StagedRestore
  <2> QED BY <1>0, <2>1, <2>2 DEF RestoreOK
<1>8. ASSUME NEW k \in Updaters,
             \/ \E s \in Shops : Snapshot(k, s)
             \/ \E back \in Nat : Starts(k, back)
             \/ PreUpdateSnapshot(k) \/ ApplyStagedUpdate(k) \/ EmptyArchive(k) \/ SwapBinary(k)
      PROVE  RestoreOK'
  BY <1>2, <1>8 DEF Snapshot, Starts, StartArchive, PreUpdateSnapshot, ApplyStagedUpdate,
                    EmptyArchive, SwapBinary, AtTask
<1>9. ASSUME \/ AutoApplyTick \/ Download
             \/ \E s \in Shops : \/ Sell(s) \/ Quieten(s) \/ Checkpoint(s) \/ CreateShop(s)
                                 \/ LookAt(s)
      PROVE  RestoreOK'
  BY <1>2, <1>9 DEF AutoApplyTick, Download, Sell, Quieten, Checkpoint, CreateShop, LookAt, AtTask
<1> QED BY <1>3, <1>4, <1>5, <1>6, <1>7, <1>8, <1>9, StepsAre
-----------------------------------------------------------------------------
\* What is in the files, from step to step: nothing leaves a file but into an archive or the
\* exposed sales, and nothing comes into a file under an undo but from there.
LEMMA ContentMoves ==
    ASSUME UpdatesIInv, UpdatesNext
    PROVE  /\ exposed \subseteq exposed' /\ sales' \in {sales, sales + 1}
           /\ \A s \in Shops : Undoing(s) => Content(s)' \subseteq Content(s) \cup exposed' \cup AllKept'
           /\ \A s \in Shops : Content(s) \subseteq Content(s)' \cup exposed' \cup AllKept'
           /\ sales' # sales => \E s \in Shops : sales' \in Content(s)'
<1> DEFINE Goal == /\ exposed \subseteq exposed' /\ sales' \in {sales, sales + 1}
                   /\ \A s \in Shops : Undoing(s) => Content(s)' \subseteq Content(s) \cup exposed' \cup AllKept'
                   /\ \A s \in Shops : Content(s) \subseteq Content(s)' \cup exposed' \cup AllKept'
                   /\ sales' # sales => \E s \in Shops : sales' \in Content(s)'
<1>0. /\ live \in [Shops -> [main : SUBSET Nat, wal : SUBSET Nat]] /\ Main \in Shops
      /\ AllKept \subseteq AllKept'
  BY ArchivesStep, KeptGrows, UpdatesAssumption DEF UpdatesIInv, FilesOK
<1>1. ASSUME UNCHANGED sales, exposed \subseteq exposed',
             \A s \in Shops : Content(s)' = Content(s)
      PROVE  Goal
  BY <1>1
<1>2. ASSUME NEW x \in Shops, live' = [live EXCEPT ![x] = File(Content(x))]
      PROVE  \A s \in Shops : Content(s)' = Content(s)
  BY <1>0, <1>2 DEF Content, File
<1>3. ASSUME UNCHANGED live PROVE \A s \in Shops : Content(s)' = Content(s)
  BY <1>3 DEF Content
<1>4. ASSUME NEW x \in Shops, Sell(x) PROVE Goal
  <2> DEFINE row == [live[x] EXCEPT !.wal = @ \cup {sales'}]
  <2>1. /\ live' = [live EXCEPT ![x] = row] /\ sales' = sales + 1
        /\ exposed' = IF Undoing(x) THEN exposed \cup {sales'} ELSE exposed
    BY <1>4 DEF Sell
  <2>2. row.main \cup row.wal = Content(x) \cup {sales'}
    BY <1>0 DEF Content
  <2> HIDE DEF row
  <2>3. Content(x)' = Content(x) \cup {sales'} /\ \A s \in Shops : s # x => Content(s)' = Content(s)
    BY <1>0, <2>1, <2>2 DEF Content
  <2> QED BY <2>1, <2>3
<1>5. ASSUME NEW x \in Shops, RestoreFile(x) PROVE Goal
  <2>1. /\ UNCHANGED <<sales, exposed>> /\ StagedRestore /\ x \in pending.files
        /\ pending.from \in DOMAIN archive /\ x \in DOMAIN archive[pending.from].snaps
        /\ Undoing(x) /\ Safe(x)
    BY <1>5 DEF RestoreFile, outside, UpdatesIInv, RestoreOK, UndoOK, Undoing, StagedRestore
  <2>2. archive[pending.from].snaps[x] \subseteq AllKept
    BY <2>1 DEF AllKept, Kept
  <2>3. /\ Content(x)' \subseteq Content(x) \cup AllKept
        /\ \A s \in Shops : s # x => Content(s)' = Content(s)
    <3>1. CASE live' = [live EXCEPT ![x] = PutBack(x)]
      BY <1>0, <2>2, <3>1 DEF Content, PutBack, File
    <3>2. ASSUME NEW log \in {{}, live[x].wal}, live' = [live EXCEPT ![x].wal = log]
          PROVE  /\ Content(x)' \subseteq Content(x) \cup AllKept
                 /\ \A s \in Shops : s # x => Content(s)' = Content(s)
      <4>1. live' = [live EXCEPT ![x] = [live[x] EXCEPT !.wal = log]]
        BY <3>2
      <4>2. [live[x] EXCEPT !.wal = log].main \cup [live[x] EXCEPT !.wal = log].wal \subseteq Content(x)
        BY <1>0 DEF Content
      <4> QED BY <1>0, <4>1, <4>2 DEF Content
    <3>3. CASE live' = [live EXCEPT ![x] = BesideLog(x)]
      <4>1. BesideLog(x).main \cup BesideLog(x).wal \subseteq Content(x) \cup AllKept
        BY <1>0, <2>2 DEF BesideLog, Content
      <4> QED BY <1>0, <3>3, <4>1 DEF Content
    <3> QED BY <1>5, <3>1, <3>2, <3>3 DEF RestoreFile
  <2> QED BY <1>0, <2>1, <2>3 DEF Safe
<1>6. ASSUME NEW x \in Shops,
             Quieten(x) \/ Checkpoint(x) \/ CreateShop(x) \/ LookAt(x)
      PROVE  Goal
  BY <1>1, <1>2, <1>3, <1>6 DEF Quieten, Checkpoint, CreateShop, LookAt, outside
<1>7. ASSUME NEW k \in Updaters,
             \/ \E s \in Shops : Snapshot(k, s)
             \/ \E back \in Nat : Starts(k, back)
             \/ PreUpdateSnapshot(k) \/ ApplyStagedUpdate(k) \/ EmptyArchive(k)
             \/ SwapBinary(k) \/ StageRestore(k)
      PROVE  Goal
  <2>1. UNCHANGED <<sales, live>> /\ exposed \subseteq exposed'
    BY <1>7 DEF Snapshot, Starts, StartArchive, PreUpdateSnapshot, ApplyStagedUpdate,
                EmptyArchive, SwapBinary, StageRestore, outside
  <2> QED BY <1>1, <1>3, <2>1
<1>8. ASSUME NEW k \in Updaters, OnQuit(k) PROVE Goal
  BY <1>0, <1>1, <1>2, <1>8 DEF OnQuit, outside
<1>9. ASSUME AutoApplyTick \/ Boot \/ OpenDatabases \/ Download \/ InstallerRuns \/ TillDies
      PROVE  Goal
  <2>1. UNCHANGED <<sales, live, exposed>>
    BY <1>9 DEF AutoApplyTick, Boot, OpenDatabases, Download, InstallerRuns, TillDies, outside
  <2> QED BY <1>1, <1>3, <2>1
<1> QED BY <1>4, <1>5, <1>6, <1>7, <1>8, <1>9, StepsAre

\* No sale is lost.
LEMMA WorkStep == ASSUME UpdatesIInv, UpdatesNext PROVE UndoKeepsWork'
<1>1. AllKept \subseteq AllKept' /\ sales \in Nat
  BY ArchivesStep, KeptGrows DEF UpdatesIInv, FilesOK
<1>2. 1..sales \subseteq AllWork \cup exposed \cup AllKept
  BY DEF UpdatesIInv, UndoKeepsWork, AllKept
<1>3. AllWork \subseteq AllWork' \cup exposed' \cup AllKept' /\ exposed \subseteq exposed'
  BY ContentMoves DEF AllWork
<1>4. 1..sales' \subseteq 1..sales \cup {sales'}
  BY <1>1, ContentMoves
<1>5. sales' # sales => sales' \in AllWork'
  BY ContentMoves DEF AllWork
<1>6. 1..sales' \subseteq AllWork' \cup exposed' \cup AllKept'
  BY <1>1, <1>2, <1>3, <1>4, <1>5
<1> QED BY <1>6 DEF UndoKeepsWork, AllKept

\* An undo gets hold of a shop when it starts, for a shop that has nothing, or when it has
\* copied the shop, or found that it cannot.
LEMMA UndoBegins ==
    ASSUME UpdatesIInv, UpdatesNext, NEW s \in Shops, Undoing(s)', ~Undoing(s)
    PROVE  \/ s \notin shops /\ UNCHANGED live
           \/ Snapshot("button", s) /\ task["button"].back # 0
<1> DEFINE b == task["button"]
<1>0. task \in [Updaters -> TaskRows] /\ "button" \in Updaters /\ "timer" \in Updaters /\ b \in TaskRows
  BY DEF UpdatesIInv, TasksOK, Updaters
<1>1. pending = NoRestore /\ (b.back = 0 \/ (b.step = "snap" /\ s \in b.todo))
  BY DEF Undoing
<1>2. ASSUME UNCHANGED <<pending, task>> PROVE FALSE
  BY <1>2 DEF Undoing
<1>3. ASSUME UNCHANGED pending, task'["button"].back = 0 PROVE FALSE
  BY <1>1, <1>3 DEF Undoing
<1>4. ASSUME NEW k \in Updaters, k # "button", NEW r, Goto(k, r), UNCHANGED pending PROVE FALSE
  BY <1>0, <1>4, <1>1 DEF Undoing, Goto
<1>5. ASSUME NEW x \in Shops,
             \/ Sell(x) \/ Quieten(x) \/ Checkpoint(x) \/ CreateShop(x) \/ LookAt(x)
             \/ RestoreFile(x)
      PROVE  FALSE
  <2>1. UNCHANGED pending /\ (UNCHANGED task \/ \E r : Goto("timer", r))
    BY <1>5 DEF Sell, Quieten, Checkpoint, CreateShop, LookAt, RestoreFile
  <2> QED BY <1>0, <1>2, <1>4, <2>1
<1>6. ASSUME NEW k \in Updaters, NEW back \in Nat, Starts(k, back)
      PROVE  s \notin shops /\ UNCHANGED live
  <2> DEFINE r == [step |-> "snap", into |-> Len(archive'), todo |-> shops, bad |-> FALSE,
                   owed |-> AllWork, back |-> back]
  <2>1. Goto(k, r) /\ UNCHANGED <<pending, live>>
    BY <1>6 DEF Starts, StartArchive
  <2>2. task'[k] = r
    BY <1>0, <2>1 DEF Goto
  <2>3. k = "button"
    <3> HIDE DEF r
    <3> QED BY <1>4, <2>1
  <2>4. s \notin shops
    BY <1>1, <2>1, <2>2, <2>3 DEF Undoing
  <2> QED BY <2>1, <2>4
<1>7. ASSUME NEW k \in Updaters, NEW x \in Shops, Snapshot(k, x)
      PROVE  Snapshot("button", s) /\ task["button"].back # 0
  <2>1. PICK r : UNCHANGED pending /\ Goto(k, r) /\ r \in {[task[k] EXCEPT !.todo = @ \ {x}],
                                      [task[k] EXCEPT !.todo = @ \ {x}, !.bad = TRUE]}
    BY <1>7 DEF Snapshot
  <2>2. /\ task'[k] = r /\ r.step = task[k].step /\ r.back = task[k].back
        /\ r.todo = task[k].todo \ {x} /\ task[k].step = "snap"
    BY <1>0, <1>7, <2>1 DEF Goto, TaskRows, Snapshot, AtTask
  <2>3. k = "button"
    BY <1>4, <2>1
  <2>4. b.back # 0 /\ s = x
    BY <1>1, <2>1, <2>2, <2>3 DEF Undoing
  <2> QED BY <1>7, <2>3, <2>4
<1>8. ASSUME NEW k \in Updaters, PreUpdateSnapshot(k) PROVE FALSE
  <2>1. PICK r : UNCHANGED pending /\ Goto(k, r)
    BY <1>8 DEF PreUpdateSnapshot, Stop, Advance
  <2>2. k = "button" /\ task[k].todo = {} /\ task[k].step = "snap"
    BY <1>4, <1>8, <2>1 DEF PreUpdateSnapshot, AtTask
  <2>3. b.back = 0
    BY <1>1, <2>2
  <2>4. \E step : Goto(k, Resting) \/ Goto(k, [b EXCEPT !.step = step])
    BY <1>8, <2>2 DEF PreUpdateSnapshot, Stop, Advance
  <2>5. task'["button"].back = 0
    BY <1>0, <2>2, <2>3, <2>4 DEF Goto, Resting, TaskRows
  <2> QED BY <1>3, <2>1, <2>5
<1>9. ASSUME NEW k \in Updaters,
             ApplyStagedUpdate(k) \/ EmptyArchive(k) \/ SwapBinary(k)
      PROVE  FALSE
  <2>1. UNCHANGED pending /\ \E r : Goto(k, r)
    BY <1>9 DEF ApplyStagedUpdate, EmptyArchive, SwapBinary, Advance
  <2>2. k = "button"
    BY <1>4, <2>1
  <2>3. b.step \in {"launch", "swap"} /\ b.back = 0
    BY <1>1, <1>9, <2>2 DEF ApplyStagedUpdate, EmptyArchive, SwapBinary, AtTask
  <2>4. \E step : Goto(k, Resting) \/ Goto(k, [b EXCEPT !.step = step])
    BY <1>9, <2>2 DEF ApplyStagedUpdate, EmptyArchive, SwapBinary, Advance
  <2>5. task'["button"].back = 0
    BY <1>0, <2>2, <2>3, <2>4 DEF Goto, Resting, TaskRows
  <2> QED BY <1>3, <2>1, <2>5
<1>10. ASSUME NEW k \in Updaters, StageRestore(k) PROVE FALSE
  <2>1. task[k].step = "stage"
    BY <1>10 DEF StageRestore, AtTask
  <2>2. task[k].back # 0 /\ task["timer"].back = 0
    BY <2>1, TaskTypes DEF TaskOK, UpdatesIInv, TasksOK
  <2> QED BY <1>1, <2>1, <2>2 DEF Updaters
<1>11. ASSUME InstallerRuns \/ TillDies \/ \E k \in Updaters : OnQuit(k) PROVE FALSE
  <2>1. task'["button"].back = 0
    BY <1>0, <1>11, DownForgets DEF InstallerRuns, TillDies, OnQuit, Resting
  <2>2. CASE UNCHANGED pending
    BY <1>3, <2>1, <2>2
  <2>3. CASE b.step = "stage"
    BY <1>0, <1>1, <2>3, TaskTypes DEF TaskOK
  <2> QED BY <1>11, <2>2, <2>3 DEF InstallerRuns, TillDies, OnQuit
<1>12. ASSUME AutoApplyTick PROVE FALSE
  BY <1>0, <1>4, <1>12 DEF AutoApplyTick
<1>13. ASSUME Boot \/ OpenDatabases \/ Download PROVE FALSE
  <2>1. UNCHANGED task /\ pending' \in {NoRestore, pending}
    BY <1>13 DEF Boot, OpenDatabases, Download, RestorePending
  <2> QED BY <1>1, <1>2, <2>1
<1> QED BY <1>5, <1>6, <1>7, <1>8, <1>9, <1>10, <1>11, <1>12, <1>13, StepsAre

\* Under an undo, a file holds nothing that would be lost.
LEMMA UndoStep == ASSUME UpdatesIInv, UpdatesNext PROVE UndoOK'
<1> SUFFICES ASSUME NEW s \in Shops, Undoing(s)' PROVE Safe(s)'
  BY DEF UndoOK
<1>0. AllKept \subseteq AllKept' /\ exposed \subseteq exposed'
  BY ArchivesStep, KeptGrows, ContentMoves
<1>1. CASE Undoing(s)
  <2>1. Safe(s) /\ Content(s)' \subseteq Content(s) \cup exposed' \cup AllKept'
    BY <1>1, ContentMoves DEF UpdatesIInv, UndoOK
  <2> QED BY <1>0, <2>1 DEF Safe
<1>2. CASE s \notin shops /\ UNCHANGED live
  <2>1. Content(s)' = {}
    BY <1>2 DEF Content, UpdatesIInv, FilesOK
  <2> QED BY <2>1 DEF Safe
<1>3. CASE Snapshot("button", s) /\ task["button"].back # 0
  <2>1. PICK i : i = task["button"].into
    OBVIOUS
  <2>2. "button" \in Updaters /\ i \in DOMAIN archive /\ Content(s)' = Content(s)
    BY <1>3, <2>1, TaskTypes DEF Updaters, Snapshot, AtTask, Content
  <2>3. /\ DOMAIN archive' = DOMAIN archive
        /\ Kept(i)' = Kept(i) \cup Content(s) \/ exposed' = exposed \cup Content(s)
    BY <1>3, <2>1, <2>2, SnapshotFills
  <2>4. CASE Kept(i)' = Kept(i) \cup Content(s)
    BY <2>2, <2>3, <2>4 DEF Safe, AllKept
  <2>5. CASE exposed' = exposed \cup Content(s)
    BY <2>2, <2>5 DEF Safe
  <2> QED BY <2>3, <2>4, <2>5
<1> QED BY <1>1, <1>2, <1>3, UndoBegins
-----------------------------------------------------------------------------
\* Every step keeps the inductive invariant.
LEMMA UpdatesStep == ASSUME UpdatesIInv, [UpdatesNext]_updateVars PROVE UpdatesIInv'
<1>1. CASE UpdatesNext
  BY <1>1, ArchivesStep, FilesStep, TasksStep, OwedStep, RestoreStep, UndoStep, WorkStep
     DEF UpdatesIInv
<1>2. CASE UNCHANGED updateVars
  <2>1. /\ \A s \in Shops : Content(s)' = Content(s)
        /\ \A a : Kept(a)' = Kept(a)
        /\ AllKept' = AllKept
    BY <1>2 DEF updateVars, Content, Kept, AllKept
  <2>2. FilesOK' /\ ArchivesOK'
    BY <1>2, <2>1 DEF updateVars, UpdatesIInv, FilesOK, ArchivesOK
  <2>3. TasksOK'
    BY <1>2 DEF updateVars, UpdatesIInv, TasksOK, TaskOK, Up
  <2>4. OwedOK'
    BY <1>2 DEF updateVars, UpdatesIInv, OwedOK, Owed, Kept, Content
  <2>5. RestoreOK'
    BY <1>2 DEF updateVars, UpdatesIInv, RestoreOK, StagedRestore
  <2>6. UndoOK'
    BY <1>2, <2>1 DEF updateVars, UpdatesIInv, UndoOK, Undoing, Safe
  <2>7. UndoKeepsWork'
    BY <1>2 DEF updateVars, UpdatesIInv, UndoKeepsWork, AllWork, Content, Kept
  <2> QED BY <2>2, <2>3, <2>4, <2>5, <2>6, <2>7 DEF UpdatesIInv
<1> QED BY <1>1, <1>2

\* The inductive invariant holds of every update and undo.
THEOREM UpdatesInvariant == UpdatesSpec => []UpdatesIInv
<1> QED BY UpdatesInitIInv, UpdatesStep, PTL DEF UpdatesSpec

\* When an installer runs, what was sold when the update was asked for is in an archive an
\* undo can use (update_rollback.go, system.go): for any number of shops and archives.
THEOREM UpdatesProtect == UpdatesSpec => []UpdateIsProtected
<1>1. UpdatesIInv => UpdateIsProtected
  BY DEF UpdatesIInv, OwedOK, Owed, UpdateIsProtected, TasksOK, Updaters
<1> QED BY <1>1, UpdatesInvariant, PTL

\* No sale is lost through updates, undoings, failed copies and deaths, but the exposed ones.
THEOREM UndoLosesNothing == UpdatesSpec => []UndoKeepsWork
<1>1. UpdatesIInv => UndoKeepsWork
  BY DEF UpdatesIInv
<1> QED BY <1>1, UpdatesInvariant, PTL

\* A restore that is called done put every file back (RestorePending), over however many
\* starts, failed copies and deaths it took, and beside no log but one it could not remove.
THEOREM RestoreIsWhole == UpdatesSpec => PutBackWhole
<1> DEFINE Whole == \A s \in pending.files :
               pending \notin {NoRestore, Garbled} /\ pending' = NoRestore =>
                   /\ live'[s].main = archive[pending.from].snaps[s]
                   /\ live'[s].wal # {} => s \in proc.beside
<1>1. ASSUME UpdatesIInv, [UpdatesNext]_updateVars PROVE [Whole]_updateVars
  <2>1. CASE UNCHANGED updateVars
    BY <2>1
  <2>2. ASSUME UpdatesNext, StagedRestore, pending' = NoRestore, ~OpenDatabases PROVE FALSE
    <3>1. NoRestore # Garbled /\ pending # NoRestore /\ pending # Garbled
      BY <2>2 DEF NoRestore, Garbled, StagedRestore
    <3>2. ASSUME NEW k \in Updaters, StageRestore(k) PROVE FALSE
      <4>1. task[k].back # 0
        BY <3>2, TaskTypes, <1>1 DEF TaskOK, StageRestore, AtTask
      <4> QED BY <2>2, <3>1, <3>2, <4>1 DEF StageRestore, NoRestore
    <3>3. ASSUME NEW s \in Shops,
                 \/ Sell(s) \/ Quieten(s) \/ Checkpoint(s) \/ CreateShop(s) \/ LookAt(s)
                 \/ RestoreFile(s)
          PROVE  FALSE
      BY <2>2, <3>1, <3>3 DEF Sell, Quieten, Checkpoint, CreateShop, LookAt, RestoreFile
    <3>4. ASSUME NEW k \in Updaters,
                 \/ \E s \in Shops : Snapshot(k, s)
                 \/ \E back \in Nat : Starts(k, back)
                 \/ PreUpdateSnapshot(k) \/ ApplyStagedUpdate(k) \/ OnQuit(k)
                 \/ EmptyArchive(k) \/ SwapBinary(k)
          PROVE  FALSE
      BY <2>2, <3>1, <3>4 DEF Snapshot, Starts, StartArchive, PreUpdateSnapshot,
                              ApplyStagedUpdate, OnQuit, EmptyArchive, SwapBinary
    <3>5. ASSUME AutoApplyTick \/ Boot \/ Download \/ InstallerRuns \/ TillDies PROVE FALSE
      BY <2>2, <3>1, <3>5 DEF AutoApplyTick, Boot, Download, InstallerRuns, TillDies
    <3> QED BY <1>1, <2>2, <3>2, <3>3, <3>4, <3>5, StepsAre
  <2>3. CASE OpenDatabases /\ StagedRestore /\ pending' = NoRestore
    <3>1. proc.at = "restore" /\ proc.todo = {} /\ ~proc.bad /\ UNCHANGED <<live, archive>>
      BY <2>3 DEF OpenDatabases, RestorePending, StagedRestore
    <3>2. \A s \in pending.files :
             live[s].main = archive[pending.from].snaps[s] /\ (live[s].wal # {} => s \in proc.beside)
      BY <1>1, <3>1 DEF UpdatesIInv, RestoreOK, IsBack
    <3> QED BY <3>1, <3>2
  <2> QED BY <1>1, <2>1, <2>2, <2>3 DEF StagedRestore
<1> QED BY <1>1, UpdatesInvariant, PTL DEF UpdatesSpec, PutBackWhole

(***************************************************************************)
(* The people of a shop.                                                   *)
(***************************************************************************)
StaffSteps == {"idle", "insert user", "update user", "deactivate", "void codes", "insert role",
               "update role", "delete role", "insert owner", "insert worker", "mint", "reset"}
StaffTasks == [step : StaffSteps, who : Users \cup {Absent}, role : Roles \cup {Absent},
               active : BOOLEAN, keys : SUBSET authorityKeys, code : Nat, crossed : BOOLEAN]
CodeRows == [user : Users, known : BOOLEAN, unused : BOOLEAN]

\* The role of every user is there, and so is the seeded one.
PeopleOK ==
    /\ user \in [Users -> UserRows] /\ role \in [Roles -> RoleRows]
    /\ role[Admin] # Absent
    /\ \A u \in Users : Exists(u) => role[user[u].role] # Absent

\* A code that was used or replaced does not work.
CodesOK ==
    /\ code \in Seq(CodeRows)
    /\ dead \subseteq {k \in DOMAIN code : ~code[k].unused}

\* A task names what it is about; a request that nobody crossed still has what its
\* guards asked for.
AboutUser == {"insert user", "update user", "deactivate", "void codes", "insert owner",
              "insert worker", "mint", "reset"}
AboutRole == {"insert user", "update user", "insert role", "update role", "delete role",
              "insert worker"}
Named(t) == /\ t.step \in AboutUser => t.who \in Users
            /\ t.step \in AboutRole => t.role \in Roles
            /\ t.step = "delete role" => t.role # Admin
Heeds(q) ==
    LET t == staffReq[q]
    IN  /\ t.step = "update user" =>
              \/ ~ownerLevel(t.who) \/ OtherOwner(t.who)
              \/ t.active /\ permsIncludeBoth(role[t.role])
        /\ t.step = "deactivate" => ~ownerLevel(t.who) \/ OtherOwner(t.who)
        /\ t.step = "update role" => guardLastOwnerStrip(t.role, t.keys)
        /\ t.step = "mint" => Unused(t.who) = {}
        /\ t.step = "reset" => t.code \in Unused(t.who)
StaffRequestsOK ==
    /\ staffReq \in [StaffReqs -> StaffTasks]
    /\ \A q \in StaffReqs : Named(staffReq[q]) /\ (staffReq[q].crossed \/ Heeds(q))

StaffIInv == PeopleOK /\ CodesOK /\ StaffRequestsOK

-----------------------------------------------------------------------------
LEMMA IdleNamed == IdleStaff \in StaffTasks /\ Named(IdleStaff)
BY DEF IdleStaff, StaffTasks, StaffSteps, Named, AboutUser, AboutRole

\* A request that is idle, or at a step without a guard, has nothing to heed.
LEMMA NothingToHeed ==
    ASSUME NEW q,
           staffReq[q].step \notin {"update user", "deactivate", "update role", "mint", "reset"}
    PROVE  Heeds(q)
BY DEF Heeds

LEMMA NothingToHeedNext ==
    ASSUME NEW q,
           staffReq'[q].step \notin {"update user", "deactivate", "update role", "mint", "reset"}
    PROVE  Heeds(q)'
BY DEF Heeds

LEMMA StaffInitIInv == StaffInit => StaffIInv
<1> SUFFICES ASSUME StaffInit PROVE StaffIInv
  OBVIOUS
<1>1. PICK demo \in SUBSET Users : user = purgeDemoUsersV13(SeedUsers, demo)
  BY DEF StaffInit
<1> DEFINE purged == [u \in Users |-> IF u \in demo THEN [SeedUsers[u] EXCEPT !.active = FALSE]
                                                     ELSE SeedUsers[u]]
<1>2. purged \in [Users -> UserRows] /\ \A u \in Users : purged[u].role = SeedUsers[u].role
  <2>1. ASSUME NEW u \in Users
        PROVE  purged[u] \in UserRows /\ purged[u].role = SeedUsers[u].role
    <3>1. SeedUsers[u] \in UserRows
      BY StaffAssumption
    <3> QED BY <3>1 DEF UserRows
  <2> QED BY <2>1
<1>3. user \in [Users -> UserRows] /\ \A u \in Users : user[u].role = SeedUsers[u].role
  <2>1. user \in {purged, [purged EXCEPT ![FirstUser].active = TRUE, ![FirstUser].rotate = TRUE]}
    BY <1>1 DEF purgeDemoUsersV13
  <2> HIDE DEF purged
  <2>2. CASE user = purged
    BY <1>2, <2>2
  <2>3. CASE user = [purged EXCEPT ![FirstUser].active = TRUE, ![FirstUser].rotate = TRUE]
    <3>1. purged[FirstUser] \in UserRows /\ FirstUser \in Users
      BY <1>2, StaffAssumption
    <3>2. user = [purged EXCEPT ![FirstUser] = [@ EXCEPT !.active = TRUE, !.rotate = TRUE]]
      BY <2>3, <1>2
    <3>3. [purged[FirstUser] EXCEPT !.active = TRUE, !.rotate = TRUE] \in UserRows
      BY <3>1 DEF UserRows
    <3> QED BY <1>2, <3>1, <3>2, <3>3
  <2> QED BY <2>1, <2>2, <2>3
<1>4. PeopleOK
  BY <1>3, StaffAssumption DEF StaffInit, PeopleOK, Exists
<1>5. CodesOK
  BY DEF StaffInit, CodesOK
<1>6. StaffRequestsOK
  BY IdleNamed DEF StaffInit, StaffRequestsOK, IdleStaff, Heeds
<1> QED BY <1>4, <1>5, <1>6 DEF StaffIInv

\* Rights do not change with the requests.
LEMMA SameRights ==
    ASSUME UNCHANGED <<user, role>>
    PROVE  /\ \A u : (ownerLevel(u)' <=> ownerLevel(u)) /\ (OtherOwner(u)' <=> OtherOwner(u))
           /\ \A r, keys : guardLastOwnerStrip(r, keys)' <=> guardLastOwnerStrip(r, keys)
BY DEF ownerLevel, Exists, Keys, permsIncludeBoth, OtherOwner, userIsOwnerLevel,
       guardLastOwnerStrip

\* What a request heeds is about its task.
LEMMA HeedsNext ==
    ASSUME NEW q, NEW t, staffReq'[q] = t,
           t.step = "update user" =>
              \/ ~ownerLevel(t.who)' \/ OtherOwner(t.who)'
              \/ t.active /\ permsIncludeBoth(role'[t.role]),
           t.step = "deactivate" => ~ownerLevel(t.who)' \/ OtherOwner(t.who)',
           t.step = "update role" => guardLastOwnerStrip(t.role, t.keys)',
           t.step = "mint" => Unused(t.who)' = {},
           t.step = "reset" => t.code \in Unused(t.who)'
    PROVE  Heeds(q)'
BY DEF Heeds, ownerLevel, Exists, Keys, OtherOwner, userIsOwnerLevel,
       guardLastOwnerStrip, Unused, CodesOf

\* A write crosses everybody else.
LEMMA WroteOK ==
    ASSUME StaffRequestsOK, NEW q \in StaffReqs, NEW t \in StaffTasks, Wrote(q, t),
           Named(t), t.crossed \/ Heeds(q)'
    PROVE  StaffRequestsOK'
<1>1. ASSUME NEW r \in StaffReqs
      PROVE  /\ staffReq'[r] \in StaffTasks /\ Named(staffReq'[r])
             /\ staffReq'[r].crossed \/ Heeds(r)'
  <2>0. staffReq[r] \in StaffTasks /\ Named(staffReq[r])
    BY DEF StaffRequestsOK
  <2>1. CASE r = q
    BY <2>1 DEF Wrote
  <2>2. CASE r # q /\ At(r, "idle")
    <3>1. staffReq'[r] = staffReq[r]
      BY <2>2 DEF Wrote
    <3> QED BY <2>0, <2>2, <3>1, NothingToHeedNext DEF At
  <2>3. CASE r # q /\ ~At(r, "idle")
    <3>1. staffReq'[r] = [staffReq[r] EXCEPT !.crossed = TRUE]
      BY <2>3 DEF Wrote
    <3> QED BY <2>0, <3>1 DEF StaffTasks, Named
  <2> QED BY <2>1, <2>2, <2>3
<1>2. staffReq' \in [StaffReqs -> StaffTasks]
  <2>1. staffReq' = [r \in StaffReqs |-> staffReq'[r]]
    BY DEF Wrote
  <2> QED BY <1>1, <2>1
<1> QED BY <1>1, <1>2 DEF StaffRequestsOK

\* While nobody writes, requests come and go.
LEMMA ReadsOK ==
    ASSUME StaffIInv, UNCHANGED <<user, role, code, dead>>, NEW q \in StaffReqs,
           NEW t \in StaffTasks, staffReq' = [staffReq EXCEPT ![q] = t], Named(t), Heeds(q)'
    PROVE  StaffIInv'
<1>1. ASSUME NEW r \in StaffReqs, r # q PROVE Heeds(r)' <=> Heeds(r)
  BY <1>1 DEF Heeds, ownerLevel, Exists, Keys, permsIncludeBoth, OtherOwner, userIsOwnerLevel,
         guardLastOwnerStrip, Unused, CodesOf, StaffIInv, StaffRequestsOK
<1>2. PeopleOK' /\ CodesOK'
  BY DEF StaffIInv, PeopleOK, CodesOK, Exists
<1>3. ASSUME NEW r \in StaffReqs
      PROVE  /\ staffReq'[r] \in StaffTasks /\ Named(staffReq'[r])
             /\ staffReq'[r].crossed \/ Heeds(r)'
  <2>1. CASE r = q
    BY <2>1 DEF StaffIInv, StaffRequestsOK
  <2>2. CASE r # q
    BY <1>1, <2>2 DEF StaffIInv, StaffRequestsOK
  <2> QED BY <2>1, <2>2
<1>4. staffReq' \in [StaffReqs -> StaffTasks]
  BY DEF StaffIInv, StaffRequestsOK
<1> QED BY <1>2, <1>3, <1>4 DEF StaffIInv, StaffRequestsOK

LEMMA BeginsOK ==
    ASSUME StaffIInv, NEW q \in StaffReqs, NEW t \in StaffTasks, Begins(q, t), Named(t), Heeds(q)'
    PROVE  StaffIInv'
BY ReadsOK DEF Begins

LEMMA FailsOK ==
    ASSUME StaffIInv, NEW q \in StaffReqs, Fails(q)
    PROVE  StaffIInv'
<1>1. staffReq'[q].step = "idle"
  BY DEF Fails, IdleStaff, StaffIInv, StaffRequestsOK
<1> QED BY <1>1, ReadsOK, IdleNamed, NothingToHeedNext DEF Fails

\* The tasks that requests begin with.
LEMMA TasksTyped ==
    ASSUME NEW s \in StaffSteps
    PROVE  /\ \A u \in Users :
                  /\ Task(s, u) \in StaffTasks
                  /\ \A r \in Roles : /\ [Task(s, u) EXCEPT !.role = r] \in StaffTasks
                                     /\ \A a \in BOOLEAN :
                                           [Task(s, u) EXCEPT !.role = r, !.active = a] \in StaffTasks
                  /\ \A a \in BOOLEAN : [Task(s, u) EXCEPT !.active = a] \in StaffTasks
                  /\ \A n \in Nat : [Task(s, u) EXCEPT !.code = n] \in StaffTasks
           /\ \A r \in Roles :
                  /\ [IdleStaff EXCEPT !.step = s, !.role = r] \in StaffTasks
                  /\ \A k \in SUBSET authorityKeys :
                        [IdleStaff EXCEPT !.step = s, !.role = r, !.keys = k] \in StaffTasks
BY DEF Task, IdleStaff, StaffTasks

\* The starts of the user and role screens.
LEMMA ScreenStarts ==
    ASSUME StaffIInv, NEW q \in StaffReqs, NEW p \in Users, NEW u \in Users, NEW r \in Roles,
           NEW active \in BOOLEAN, NEW keys \in SUBSET authorityKeys,
           \/ CreateUser(q, p, u, r, active) \/ UpdateUser(q, p, u, r, active)
           \/ DeactivateUser(q, p, u)
           \/ CreateRole(q, p, r, keys) \/ UpdateRole(q, p, r, keys) \/ DeleteRole(q, p, r)
    PROVE  StaffIInv'
<1> DEFINE named(s) == [Task(s, u) EXCEPT !.role = r, !.active = active]
           about(s) == [IdleStaff EXCEPT !.step = s, !.role = r, !.keys = keys]
           plain(s) == [IdleStaff EXCEPT !.step = s, !.role = r]
<1>a. ASSUME NEW s \in StaffSteps
      PROVE  /\ named(s) \in StaffTasks /\ about(s) \in StaffTasks /\ plain(s) \in StaffTasks
             /\ named(s).step = s /\ named(s).who = u /\ named(s).role = r /\ named(s).active = active
             /\ about(s).step = s /\ about(s).role = r /\ about(s).keys = keys
             /\ plain(s).step = s /\ plain(s).role = r
             /\ Task(s, u) \in StaffTasks /\ Task(s, u).step = s /\ Task(s, u).who = u
  BY TasksTyped DEF Task, IdleStaff
<1>b. ASSUME NEW t, Begins(q, t)
      PROVE  /\ staffReq'[q] = t /\ UNCHANGED <<user, role, code>>
  BY <1>b DEF Begins, StaffIInv, StaffRequestsOK
<1> HIDE DEF named, about, plain
<1>1. CASE CreateUser(q, p, u, r, active)
  <2>1. Begins(q, named("insert user")) /\ "insert user" \in StaffSteps
    BY <1>1 DEF CreateUser, named, StaffSteps
  <2> QED BY <1>a, <1>b, <2>1, BeginsOK, NothingToHeedNext DEF Named, AboutUser, AboutRole
<1>2. CASE UpdateUser(q, p, u, r, active)
  <2>1. Begins(q, named("update user")) /\ "update user" \in StaffSteps /\ lastOwnerGuard(p, u, r, active)
    BY <1>2 DEF UpdateUser, named, StaffSteps
  <2>2. Heeds(q)'
    BY <1>a, <1>b, <2>1, SameRights, HeedsNext DEF lastOwnerGuard
  <2> QED BY <1>a, <2>1, <2>2, BeginsOK DEF Named, AboutUser, AboutRole
<1>3. CASE DeactivateUser(q, p, u)
  <2>1. Begins(q, Task("deactivate", u)) /\ "deactivate" \in StaffSteps /\ lastOwnerGuard(p, u, user[u].role, FALSE)
    BY <1>3 DEF DeactivateUser, StaffSteps
  <2>2. Heeds(q)'
    BY <1>a, <1>b, <2>1, SameRights, HeedsNext DEF lastOwnerGuard
  <2> QED BY <1>a, <2>1, <2>2, BeginsOK DEF Named, AboutUser, AboutRole
<1>4. CASE CreateRole(q, p, r, keys)
  <2>1. Begins(q, about("insert role")) /\ "insert role" \in StaffSteps
    BY <1>4 DEF CreateRole, about, StaffSteps
  <2> QED BY <1>a, <1>b, <2>1, BeginsOK, NothingToHeedNext DEF Named, AboutUser, AboutRole
<1>5. CASE UpdateRole(q, p, r, keys)
  <2>1. Begins(q, about("update role")) /\ "update role" \in StaffSteps /\ guardLastOwnerStrip(r, keys)
    BY <1>5 DEF UpdateRole, about, StaffSteps
  <2>2. staffReq'[q] = about("update role") /\ guardLastOwnerStrip(r, keys)'
    BY <1>b, <2>1, SameRights
  <2>3. guardLastOwnerStrip(about("update role").role, about("update role").keys)'
    BY <1>a, <2>1, <2>2
  <2>4. Heeds(q)'
    BY <1>a, <2>1, <2>2, <2>3, HeedsNext
  <2> QED BY <1>a, <2>1, <2>4, BeginsOK DEF Named, AboutUser, AboutRole
<1>6. CASE DeleteRole(q, p, r)
  <2>1. Begins(q, plain("delete role")) /\ "delete role" \in StaffSteps /\ r # Admin
    BY <1>6 DEF DeleteRole, plain, StaffSteps
  <2> QED BY <1>a, <1>b, <2>1, BeginsOK, NothingToHeedNext DEF Named, AboutUser, AboutRole
<1> QED BY <1>1, <1>2, <1>3, <1>4, <1>5, <1>6

\* The writes of the user and role screens, and of those who arrive.
LEMMA ScreenWrites ==
    ASSUME StaffIInv, NEW q \in StaffReqs,
           \/ InsertUser(q) \/ WriteUser(q) \/ WriteInactive(q)
           \/ InsertRole(q) \/ WriteRole(q) \/ RemoveRole(q)
           \/ InsertWorker(q)
    PROVE  StaffIInv'
<1> DEFINE t == staffReq[q]
<1>0. t \in StaffTasks /\ Named(t)
  BY DEF StaffIInv, StaffRequestsOK
<1>1. CASE Fails(q)
  BY <1>1, FailsOK
<1>2. CASE ~Fails(q)
  <2>1. Wrote(q, IdleStaff) /\ UNCHANGED <<code, dead>>
    BY <1>2 DEF InsertUser, WriteUser, WriteInactive, InsertRole, WriteRole, RemoveRole, InsertWorker
  <2>2. StaffRequestsOK'
    <3>1. staffReq'[q].step = "idle"
      BY <2>1 DEF Wrote, IdleStaff
    <3> QED BY <2>1, <3>1, WroteOK, IdleNamed, NothingToHeedNext DEF StaffIInv
  <2>3. CodesOK'
    BY <2>1 DEF StaffIInv, CodesOK
  <2>4. PeopleOK'
    <3>1. CASE InsertUser(q) \/ InsertWorker(q)
      <4>1. \E row \in UserRows : /\ user' = [user EXCEPT ![t.who] = row] /\ row.role = t.role
                                  /\ t.who \in Users /\ role[t.role] # Absent /\ UNCHANGED role
        BY <1>0, <1>2, <3>1 DEF InsertUser, InsertWorker, At, UserRow, UserRows, StaffTasks,
           Named, AboutUser, AboutRole
      <4> QED BY <4>1 DEF StaffIInv, PeopleOK, Exists
    <3>2. CASE WriteUser(q)
      <4>1. /\ t.who \in Users /\ t.role \in Roles /\ t.active \in BOOLEAN
            /\ user' = [user EXCEPT ![t.who] = [@ EXCEPT !.role = t.role, !.active = t.active]]
            /\ role[t.role] # Absent /\ UNCHANGED role
        BY <1>0, <1>2, <3>2 DEF WriteUser, At, StaffTasks, Named, AboutUser, AboutRole,
           StaffIInv, PeopleOK
      <4> QED BY <4>1 DEF StaffIInv, PeopleOK, Exists, UserRows
    <3>3. CASE WriteInactive(q)
      BY <1>0, <3>3 DEF WriteInactive, At, Named, AboutUser, StaffIInv, PeopleOK, Exists, UserRows
    <3>4. CASE InsertRole(q) \/ WriteRole(q)
      <4>1. /\ t.role \in Roles /\ t.keys \in SUBSET authorityKeys
            /\ role' = [role EXCEPT ![t.role] = t.keys] /\ UNCHANGED user
        BY <1>0, <1>2, <3>4 DEF InsertRole, WriteRole, At, StaffTasks, Named, AboutRole
      <4>2. t.keys \in RoleRows /\ t.keys # Absent
        BY <4>1, StaffAssumption DEF RoleRows
      <4> QED BY <4>1, <4>2 DEF StaffIInv, PeopleOK, Exists
    <3>5. CASE RemoveRole(q)
      <4>1. /\ t.role \in Roles /\ t.role # Admin /\ \A u \in Users : user[u].role # t.role
            /\ role' = [role EXCEPT ![t.role] = Absent] /\ UNCHANGED user
        BY <1>0, <1>2, <3>5 DEF RemoveRole, At, Named, AboutRole
      <4> QED BY <4>1, StaffAssumption DEF StaffIInv, PeopleOK, Exists, RoleRows, UserRows
    <3> QED BY <3>1, <3>2, <3>3, <3>4, <3>5
  <2> QED BY <2>2, <2>3, <2>4 DEF StaffIInv
<1> QED BY <1>1, <1>2

\* People who arrive, and owners who set a password.
LEMMA ArrivalsOK ==
    ASSUME StaffIInv, NEW q \in StaffReqs, NEW p \in Users, NEW u \in Users,
           \/ SetPassword(q, p, u) \/ SetPIN(q, p, u) \/ Bootstrap(q, u) \/ InsertOwner(q)
           \/ OwnerCloudSignin(q, u) \/ \E r \in Roles, keys \in KeySets : TeamJoinWithLink(q, u, r, keys)
    PROVE  StaffIInv'
<1>0. staffReq[q] \in StaffTasks /\ Named(staffReq[q])
  BY DEF StaffIInv, StaffRequestsOK
<1>1. CASE Bootstrap(q, u)
  <2> DEFINE t == Task("insert owner", u)
  <2>a. t \in StaffTasks /\ t.step = "insert owner" /\ t.who = u
    BY DEF Task, IdleStaff, StaffTasks, StaffSteps
  <2> HIDE DEF t
  <2>1. t \in StaffTasks /\ Named(t) /\ t.step = "insert owner"
    BY <2>a DEF Named, AboutUser, AboutRole
  <2>2. Begins(q, t)
    BY <1>1 DEF Bootstrap, t
  <2>3. staffReq'[q] = t
    BY <2>2 DEF Begins, StaffIInv, StaffRequestsOK
  <2> QED BY <2>1, <2>2, <2>3, BeginsOK, NothingToHeedNext
<1>2. CASE Fails(q)
  BY <1>2, FailsOK
<1>3. CASE ~Bootstrap(q, u) /\ ~Fails(q)
  <2>1. ASSUME NEW x \in Users, NEW r \in Roles,
               NEW t \in {IdleStaff, Task("void codes", x), [Task("void codes", x) EXCEPT !.active = TRUE],
                         [Task("insert worker", x) EXCEPT !.role = r]}
        PROVE  t \in StaffTasks /\ Named(t) /\ t.step \in {"idle", "void codes", "insert worker"}
    <3>1. CASE t = IdleStaff
      BY <3>1, IdleNamed DEF IdleStaff
    <3>2. CASE t \in {Task("void codes", x), [Task("void codes", x) EXCEPT !.active = TRUE]}
      <4>0. t = Task("void codes", x) \/ t = [Task("void codes", x) EXCEPT !.active = TRUE]
        BY <3>2
      <4>1. t \in StaffTasks /\ t.step = "void codes" /\ t.who = x
        <5>1. CASE t = Task("void codes", x)
          BY <5>1 DEF Task, IdleStaff, StaffTasks, StaffSteps
        <5>2. CASE t = [Task("void codes", x) EXCEPT !.active = TRUE]
          BY <5>2 DEF Task, IdleStaff, StaffTasks, StaffSteps
        <5> QED BY <4>0, <5>1, <5>2
      <4> QED BY <4>1 DEF Named, AboutUser, AboutRole
    <3>3. CASE t = [Task("insert worker", x) EXCEPT !.role = r]
      <4>1. t \in StaffTasks /\ t.step = "insert worker" /\ t.who = x /\ t.role = r
        BY <3>3 DEF Task, IdleStaff, StaffTasks, StaffSteps
      <4> QED BY <4>1 DEF Named, AboutUser, AboutRole
    <3> QED BY <3>1, <3>2, <3>3
  <2>2. \E t \in StaffTasks : /\ Wrote(q, t) /\ UNCHANGED <<code, dead>>
                             /\ Named(t) /\ t.step \in {"idle", "void codes", "insert worker"}
    <3>1. CASE SetPassword(q, p, u)
      BY <2>1, <3>1, StaffAssumption DEF SetPassword
    <3>2. CASE SetPIN(q, p, u) \/ OwnerCloudSignin(q, u)
      BY <2>1, <3>2, StaffAssumption DEF SetPIN, OwnerCloudSignin
    <3>3. CASE InsertOwner(q)
      BY <1>0, <1>3, <2>1, <3>3, StaffAssumption DEF InsertOwner, At, Named, AboutUser
    <3>4. CASE \E r \in Roles, keys \in KeySets : TeamJoinWithLink(q, u, r, keys)
      BY <2>1, <3>4 DEF TeamJoinWithLink
    <3> QED BY <1>3, <3>1, <3>2, <3>3, <3>4
  <2>6. PICK t \in StaffTasks : /\ Wrote(q, t) /\ UNCHANGED <<code, dead>>
                               /\ Named(t) /\ t.step \in {"idle", "void codes", "insert worker"}
    BY <2>2
  <2>3. StaffRequestsOK'
    <3>1. staffReq'[q] = t
      BY <2>6 DEF Wrote
    <3> QED BY <2>6, <3>1, WroteOK, NothingToHeedNext DEF StaffIInv
  <2>4. CodesOK'
    BY <2>6 DEF StaffIInv, CodesOK
  <2>5. PeopleOK'
    <3>1. CASE SetPassword(q, p, u) \/ SetPIN(q, p, u)
      <4>1. UNCHANGED role /\ user' = [user EXCEPT ![u] = [@ EXCEPT !.rotate = (u # p)]]
        BY <3>1 DEF SetPassword, SetPIN
      <4> QED BY <4>1 DEF StaffIInv, PeopleOK, Exists, UserRows
    <3>2. CASE InsertOwner(q) \/ OwnerCloudSignin(q, u)
      <4>1. UNCHANGED role /\ \E x \in Users : user' = [user EXCEPT ![x] = UserRow(Admin, TRUE, FALSE)]
        BY <1>0, <1>3, <3>2 DEF InsertOwner, OwnerCloudSignin, At, Named, AboutUser
      <4>2. UserRow(Admin, TRUE, FALSE) \in UserRows /\ UserRow(Admin, TRUE, FALSE).role = Admin
        BY StaffAssumption DEF UserRow, UserRows
      <4> QED BY <4>1, <4>2 DEF StaffIInv, PeopleOK, Exists
    <3>3. CASE \E r \in Roles, keys \in KeySets : TeamJoinWithLink(q, u, r, keys)
      <4>1. PICK r \in Roles, keys \in KeySets :
               UNCHANGED user /\ role' = [role EXCEPT ![r] = IF role[r] = Absent THEN keys ELSE @]
        BY <3>3 DEF TeamJoinWithLink, StaffIInv, PeopleOK
      <4>2. keys \in RoleRows /\ keys # Absent
        BY StaffAssumption DEF RoleRows
      <4>3. role' \in [Roles -> RoleRows] /\ \A x \in Roles : role[x] # Absent => role'[x] # Absent
        BY <4>1, <4>2 DEF StaffIInv, PeopleOK
      <4> QED BY <4>1, <4>3, StaffAssumption DEF StaffIInv, PeopleOK, Exists, UserRows
    <3> QED BY <1>3, <3>1, <3>2, <3>3
  <2> QED BY <2>3, <2>4, <2>5 DEF StaffIInv
<1> QED BY <1>1, <1>2, <1>3

\* Burning a user's codes leaves him none.
LEMMA BurnIs ==
    ASSUME CodesOK, NEW u \in Users, code' = Burn(u)
    PROVE  /\ code' \in Seq(CodeRows) /\ DOMAIN code' = DOMAIN code
           /\ \A k \in DOMAIN code : /\ code'[k].user = code[k].user
                                     /\ code'[k].unused => code[k].unused /\ code[k].user # u
           /\ Unused(u)' = {} /\ CodesOf(u)' = CodesOf(u)
<1>1. code \in Seq(CodeRows) /\ DOMAIN code = 1..Len(code) /\ Len(code) \in Nat
  BY DEF CodesOK
<1>2. code' = [k \in 1..Len(code) |->
                 IF code[k].user = u THEN [code[k] EXCEPT !.unused = FALSE] ELSE code[k]]
  BY <1>1 DEF Burn
<1>3. ASSUME NEW k \in 1..Len(code)
      PROVE  /\ code'[k] \in CodeRows /\ code'[k].user = code[k].user
             /\ code'[k].unused => code[k].unused /\ code[k].user # u
  <2>1. code[k] \in CodeRows
    BY <1>1
  <2>2. CASE code[k].user = u
    <3>1. code'[k] = [code[k] EXCEPT !.unused = FALSE]
      BY <1>2, <2>2
    <3> QED BY <2>1, <3>1 DEF CodeRows
  <2>3. CASE code[k].user # u
    BY <1>2, <2>1, <2>3
  <2> QED BY <2>2, <2>3
<1>4. code' \in Seq(CodeRows) /\ DOMAIN code' = DOMAIN code
  <2> HIDE DEF CodesOK
  <2>1. code' \in [1..Len(code) -> CodeRows]
    BY <1>2, <1>3
  <2> QED BY <1>1, <2>1
<1> QED BY <1>1, <1>3, <1>4 DEF Unused, CodesOf

\* Recovery codes.
LEMMA RecoveryOK ==
    ASSUME StaffIInv, NEW q \in StaffReqs, NEW u \in Users,
           \/ NewRecoveryCode(q, u) \/ RedeemRecoveryCode(q, u)
           \/ VoidCodes(q) \/ IssueRecoveryCode(q) \/ ResetPassword(q)
    PROVE  StaffIInv'
<1> DEFINE w == staffReq[q].who
<1>0. staffReq[q] \in StaffTasks /\ Named(staffReq[q]) /\ (staffReq[q].crossed \/ Heeds(q))
  BY DEF StaffIInv, StaffRequestsOK
<1>1. CASE NewRecoveryCode(q, u)
  <2> DEFINE t == [Task("void codes", u) EXCEPT !.active = TRUE]
  <2>a. t \in StaffTasks /\ t.step = "void codes" /\ t.who = u
    BY DEF Task, IdleStaff, StaffTasks, StaffSteps
  <2> HIDE DEF t
  <2>1. t \in StaffTasks /\ Named(t) /\ t.step = "void codes"
    BY <2>a DEF Named, AboutUser, AboutRole
  <2>2. Begins(q, t)
    BY <1>1 DEF NewRecoveryCode, t
  <2>3. staffReq'[q] = t
    BY <2>2 DEF Begins, StaffIInv, StaffRequestsOK
  <2> QED BY <2>1, <2>2, <2>3, BeginsOK, NothingToHeedNext
<1>2. CASE RedeemRecoveryCode(q, u)
  <2>1. PICK k \in Unused(u) : Begins(q, [Task("reset", u) EXCEPT !.code = k])
    BY <1>2 DEF RedeemRecoveryCode
  <2> DEFINE t == [Task("reset", u) EXCEPT !.code = k]
  <2>2. k \in Nat /\ k \in Unused(u)'
    BY <2>1 DEF Begins, Unused, CodesOf, StaffIInv, CodesOK
  <2>a. t \in StaffTasks /\ t.step = "reset" /\ t.code = k /\ t.who = u
    BY <2>2 DEF Task, IdleStaff, StaffTasks, StaffSteps
  <2> HIDE DEF t
  <2>3. t \in StaffTasks /\ Named(t) /\ t.step = "reset" /\ t.code = k /\ t.who = u
    BY <2>a DEF Named, AboutUser, AboutRole
  <2>4. Begins(q, t)
    BY <2>1 DEF t
  <2>5. staffReq'[q] = t
    BY <2>4 DEF Begins, StaffIInv, StaffRequestsOK
  <2>6. Heeds(q)'
    BY <2>2, <2>3, <2>5, HeedsNext
  <2> QED BY <2>3, <2>4, <2>6, BeginsOK
<1>3. CASE VoidCodes(q)
  <2> DEFINE t == [staffReq[q] EXCEPT !.step = "mint"]
  <2>1. w \in Users
    BY <1>0, <1>3 DEF VoidCodes, At, Named, AboutUser
  <2>2. t \in StaffTasks /\ Named(t) /\ t.step = "mint" /\ t.who = w
    BY <1>0, <2>1 DEF StaffTasks, StaffSteps, Named, AboutUser, AboutRole
  <2>3. Wrote(q, t) /\ code' = Burn(w) /\ UNCHANGED <<user, role, dead>>
    BY <1>3 DEF VoidCodes
  <2> HIDE DEF t
  <2>4. (\A x \in Users : x = w => Unused(x)' = {}) /\ CodesOK'
    <3>1. /\ code' \in Seq(CodeRows) /\ DOMAIN code' = DOMAIN code /\ (\A x \in Users : x = w => Unused(x)' = {})
          /\ \A k \in DOMAIN code : code'[k].unused => code[k].unused
      <4>1. CodesOK
        BY DEF StaffIInv
      <4>2. PICK x \in Users : x = w
        BY <2>1
      <4>3. code' = Burn(x)
        BY <2>3, <4>2
      <4>4. Unused(x)' = {}
        BY <4>1, <4>3, BurnIs
      <4>5. code' \in Seq(CodeRows) /\ DOMAIN code' = DOMAIN code
        BY <4>1, <4>3, BurnIs
      <4>6. \A k \in DOMAIN code : code'[k].unused => code[k].unused
        BY <4>1, <4>3, BurnIs
      <4> QED BY <4>2, <4>4, <4>5, <4>6
    <3>2. CodesOK'
      BY <2>3, <3>1 DEF StaffIInv, CodesOK
    <3> QED BY <3>1, <3>2
  <2>5. staffReq'[q] = t
    BY <2>3 DEF Wrote
  <2>6. Heeds(q)'
    <3>1. PICK x \in Users : x = w
      BY <2>1
    <3>2. Unused(x)' = {} /\ t.who = x
      BY <2>2, <2>4, <3>1
    <3>3. PICK y \in StaffTasks : y = t
      BY <2>2
    <3>4. staffReq'[q] = y /\ y.step = "mint" /\ y.who = x
      BY <2>2, <2>5, <3>2, <3>3
    <3> QED BY <3>2, <3>4, HeedsNext
  <2>7. StaffRequestsOK'
    BY <2>2, <2>3, <2>6, WroteOK DEF StaffIInv
  <2> QED BY <2>3, <2>4, <2>7 DEF StaffIInv, PeopleOK, Exists
<1>4. CASE IssueRecoveryCode(q)
  <2>1. w \in Users /\ staffReq[q].active \in BOOLEAN /\ staffReq[q].crossed \in BOOLEAN
    BY <1>0, <1>4 DEF IssueRecoveryCode, At, Named, AboutUser, StaffTasks
  <2>2. /\ code' = Append(code, CodeRow(w, staffReq[q].active)) /\ Wrote(q, IdleStaff)
        /\ dead' = IF staffReq[q].crossed THEN dead ELSE dead \cup CodesOf(w)
        /\ UNCHANGED <<user, role>>
    BY <1>4 DEF IssueRecoveryCode
  <2>3. staffReq[q].crossed \/ Unused(w) = {}
    BY <1>0, <1>4 DEF IssueRecoveryCode, At, Heeds
  <2>4. code \in Seq(CodeRows) /\ CodeRow(w, staffReq[q].active) \in CodeRows
    BY <2>1 DEF StaffIInv, CodesOK, CodeRow, CodeRows
  <2>5. /\ code' \in Seq(CodeRows) /\ DOMAIN code \subseteq DOMAIN code'
        /\ \A k \in DOMAIN code : code'[k] = code[k]
    BY <2>2, <2>4
  <2>6. dead' \subseteq {k \in DOMAIN code : ~code[k].unused}
    BY <2>1, <2>2, <2>3 DEF StaffIInv, CodesOK, Unused, CodesOf
  <2>7. CodesOK'
    BY <2>5, <2>6 DEF CodesOK
  <2>8. StaffRequestsOK'
    <3>1. staffReq'[q].step = "idle"
      BY <2>2 DEF Wrote, IdleStaff
    <3> QED BY <2>2, <3>1, WroteOK, IdleNamed, NothingToHeedNext DEF StaffIInv
  <2> QED BY <2>2, <2>7, <2>8 DEF StaffIInv, PeopleOK, Exists
<1>5. CASE ResetPassword(q)
  <2>1. w \in Users
    BY <1>0, <1>5 DEF ResetPassword, At, Named, AboutUser
  <2>2. /\ code' = Burn(w) /\ Wrote(q, IdleStaff) /\ dead' = dead \cup CodesOf(w)
        /\ user' \in {user, [user EXCEPT ![w] = [@ EXCEPT !.rotate = FALSE]]} /\ UNCHANGED role
    BY <1>5 DEF ResetPassword
  <2>3. CodesOK'
    <3>1. \A k \in CodesOf(w) : ~code'[k].unused
      BY <2>1, <2>2, BurnIs DEF StaffIInv, CodesOf
    <3> QED BY <2>1, <2>2, <3>1, BurnIs DEF StaffIInv, CodesOK, CodesOf
  <2>4. StaffRequestsOK'
    <3>1. staffReq'[q].step = "idle"
      BY <2>2 DEF Wrote, IdleStaff
    <3> QED BY <2>2, <3>1, WroteOK, IdleNamed, NothingToHeedNext DEF StaffIInv
  <2>5. PeopleOK'
    BY <2>1, <2>2 DEF StaffIInv, PeopleOK, Exists, UserRows
  <2> QED BY <2>3, <2>4, <2>5 DEF StaffIInv
<1> QED BY <1>1, <1>2, <1>3, <1>4, <1>5

\* Every step keeps the inductive invariant.
LEMMA StaffStep == ASSUME StaffIInv, [StaffNext]_staffVars PROVE StaffIInv'
<1>1. CASE UNCHANGED staffVars
  <2>1. ASSUME NEW q \in StaffReqs PROVE Heeds(q)' <=> Heeds(q)
    BY <1>1 DEF staffVars, Heeds, ownerLevel, Exists, Keys, permsIncludeBoth, OtherOwner,
       userIsOwnerLevel, guardLastOwnerStrip, Unused, CodesOf
  <2> QED BY <1>1, <2>1 DEF staffVars, StaffIInv, PeopleOK, CodesOK, StaffRequestsOK, Exists
<1>2. CASE StaffDies
  <2>1. ASSUME NEW q \in StaffReqs PROVE staffReq'[q] = IdleStaff /\ Heeds(q)'
    BY <1>2, NothingToHeedNext DEF StaffDies, IdleStaff
  <2>2. StaffRequestsOK'
    BY <1>2, <2>1, IdleNamed DEF StaffDies, StaffRequestsOK
  <2> QED BY <1>2, <2>2 DEF StaffDies, StaffIInv, PeopleOK, CodesOK, Exists
<1>a. Admin \in Roles /\ {} \in SUBSET authorityKeys
  BY StaffAssumption
<1>3. ASSUME NEW q \in StaffReqs, UserRequests(q) PROVE StaffIInv'
  <2>1. CASE InsertUser(q) \/ WriteUser(q) \/ WriteInactive(q)
    BY <2>1, ScreenWrites
  <2>2. ASSUME NEW p \in Users, NEW u \in Users,
               \/ \E r \in Roles, active \in BOOLEAN : CreateUser(q, p, u, r, active) \/ UpdateUser(q, p, u, r, active)
               \/ DeactivateUser(q, p, u)
        PROVE  StaffIInv'
    BY <1>a, <2>2, ScreenStarts
  <2>3. ASSUME NEW p \in Users, NEW u \in Users, SetPIN(q, p, u) PROVE StaffIInv'
    BY <2>3, ArrivalsOK
  <2> QED BY <1>3, <2>1, <2>2, <2>3 DEF UserRequests
<1>4. ASSUME NEW q \in StaffReqs, RoleRequests(q) PROVE StaffIInv'
  BY <1>4, <1>a, ScreenStarts, ScreenWrites, StaffAssumption DEF RoleRequests
<1>5. ASSUME NEW q \in StaffReqs, Arrivals(q) PROVE StaffIInv'
  BY <1>5, ArrivalsOK, ScreenWrites, StaffAssumption DEF Arrivals
<1>6. ASSUME NEW q \in StaffReqs, Recovery(q) PROVE StaffIInv'
  BY <1>6, ArrivalsOK, RecoveryOK, StaffAssumption DEF Recovery
<1> QED BY <1>1, <1>2, <1>3, <1>4, <1>5, <1>6 DEF StaffNext

\* The inductive invariant holds of every shop's people.
THEOREM StaffInvariant == StaffSpec => []StaffIInv
<1> QED BY StaffInitIInv, StaffStep, PTL DEF StaffSpec

\* A recovery code resets one password (RedeemRecoveryCode, ResetPassword): one that was
\* used or replaced resets none, unless the request was crossed.
THEOREM CodeWorksOnce == StaffSpec => RecoveryCodeOnce
<1>1. ASSUME StaffIInv, NEW q \in StaffReqs, ResetPassword(q)
      PROVE  staffReq[q].code \notin dead \/ staffReq[q].crossed
  BY <1>1 DEF StaffIInv, StaffRequestsOK, Heeds, ResetPassword, At, Unused, CodesOK
<1>2. ASSUME StaffIInv
      PROVE  [\A q \in StaffReqs :
                 ResetPassword(q) => staffReq[q].code \notin dead \/ staffReq[q].crossed]_staffVars
  BY <1>1, <1>2
<1> QED BY <1>2, StaffInvariant, PTL DEF StaffSpec, RecoveryCodeOnce

\* What the next user rows say of the owners there will be.
LEMMA OwnerNext ==
    ASSUME NEW o \in Users, user'[o].active, user'[o].role # Absent,
           permsIncludeBoth(role'[user'[o].role])
    PROVE  HasOwner'
BY DEF HasOwner, userIsOwnerLevel, ownerLevel, Exists, Keys, permsIncludeBoth

\* Writes that leave the roles, and the role and the activity of every owner.
LEMMA OwnersUntouched ==
    ASSUME HasOwner, UNCHANGED role,
           \A o \in Users : userIsOwnerLevel(o) => user'[o].role = user[o].role /\ user'[o].active
    PROVE  HasOwner'
BY OwnerNext DEF HasOwner, userIsOwnerLevel, ownerLevel, Exists, Keys

\* The write of an edit that nobody crossed.
LEMMA EditKeepsOwner ==
    ASSUME StaffIInv, HasOwner, NEW q \in StaffReqs, Heeds(q), ~Fails(q),
           WriteUser(q) \/ WriteInactive(q) \/ WriteRole(q)
    PROVE  HasOwner'
<1> DEFINE t == staffReq[q]
<1>0. t \in StaffTasks /\ Named(t) /\ user \in [Users -> UserRows] /\ role \in [Roles -> RoleRows]
  BY DEF StaffIInv, StaffRequestsOK, PeopleOK
<1>o. PICK o \in Users : userIsOwnerLevel(o)
  BY DEF HasOwner
<1>1. CASE WriteUser(q) \/ WriteInactive(q)
  <2>1. /\ t.who \in Users /\ UNCHANGED role
        /\ \A u \in Users \ {t.who} : user'[u] = user[u]
    BY <1>0, <1>1 DEF WriteUser, WriteInactive, At, Named, AboutUser
  <2>2. CASE \E u \in Users \ {t.who} : userIsOwnerLevel(u)
    BY <2>1, <2>2, OwnerNext DEF userIsOwnerLevel, ownerLevel, Exists, Keys
  <2>3. CASE ~\E u \in Users \ {t.who} : userIsOwnerLevel(u)
    <3>1. o = t.who /\ ownerLevel(t.who) /\ ~OtherOwner(t.who)
      BY <1>o, <2>3 DEF userIsOwnerLevel, OtherOwner
    <3>2. t.step = "update user" /\ t.active /\ permsIncludeBoth(role[t.role])
      BY <1>1, <3>1 DEF Heeds, WriteUser, WriteInactive, At
    <3>3. t.role \in Roles /\ WriteUser(q)
      BY <1>0, <1>1, <3>2 DEF Named, AboutRole, WriteInactive, At
    <3>4. user'[o] = [user[o] EXCEPT !.role = t.role, !.active = t.active]
      BY <1>0, <3>1, <3>3 DEF WriteUser
    <3>5. user'[o].role = t.role /\ user'[o].active
      BY <1>0, <3>2, <3>4 DEF UserRows
    <3> QED BY <2>1, <3>2, <3>3, <3>5, OwnerNext, StaffAssumption
  <2> QED BY <2>2, <2>3
<1>2. CASE WriteRole(q)
  <2>1. /\ t.role \in Roles /\ UNCHANGED user
        /\ role' = [role EXCEPT ![t.role] = t.keys] /\ guardLastOwnerStrip(t.role, t.keys)
    BY <1>0, <1>2 DEF WriteRole, At, Named, AboutRole, Heeds
  <2>2. \A u \in Users : userIsOwnerLevel(u) /\ user[u].role # t.role => HasOwner'
    BY <2>1, <1>0, OwnerNext DEF userIsOwnerLevel, ownerLevel, Exists, Keys, UserRows
  <2>3. CASE user[o].role = t.role
    <3>1. user[o].active /\ user[o].role # Absent /\ permsIncludeBoth(role[t.role])
      BY <1>o, <2>3 DEF userIsOwnerLevel, ownerLevel, Exists, Keys
    <3>2. CASE permsIncludeBoth(t.keys)
      BY <1>0, <2>1, <2>3, <3>1, <3>2, OwnerNext
    <3>3. CASE ~permsIncludeBoth(t.keys)
      BY <2>1, <2>2, <3>1, <3>3 DEF guardLastOwnerStrip
    <3> QED BY <3>2, <3>3
  <2> QED BY <1>o, <2>2, <2>3
<1> QED BY <1>1, <1>2

\* Whoever comes takes nobody's place.
LEMMA NewcomersKeepOwner ==
    ASSUME StaffIInv, HasOwner, NEW q \in StaffReqs, ~Fails(q),
           \/ InsertUser(q) \/ InsertWorker(q) \/ InsertOwner(q)
           \/ InsertRole(q) \/ RemoveRole(q)
           \/ \E u \in Users, r \in Roles, keys \in KeySets : TeamJoinWithLink(q, u, r, keys)
    PROVE  HasOwner'
<1> DEFINE t == staffReq[q]
<1>0. t \in StaffTasks /\ Named(t) /\ user \in [Users -> UserRows] /\ role \in [Roles -> RoleRows]
  BY DEF StaffIInv, StaffRequestsOK, PeopleOK
<1>1. CASE InsertUser(q) \/ InsertWorker(q) \/ InsertOwner(q)
  <2>1. t.who \in Users /\ UNCHANGED role /\ ~Exists(t.who) /\ \A u \in Users \ {t.who} : user'[u] = user[u]
    BY <1>0, <1>1 DEF InsertUser, InsertWorker, InsertOwner, At, Named, AboutUser
  <2> QED BY <2>1, OwnersUntouched DEF userIsOwnerLevel, ownerLevel
<1>2. CASE InsertRole(q) \/ RemoveRole(q)
            \/ \E u \in Users, r \in Roles, keys \in KeySets : TeamJoinWithLink(q, u, r, keys)
  <2>o. PICK o \in Users : userIsOwnerLevel(o)
    BY DEF HasOwner
  <2>1. /\ UNCHANGED user
        /\ \A x \in Roles : role[x] # Absent /\ (\E u \in Users : user[u].role = x) => role'[x] = role[x]
    <3>1. CASE InsertRole(q) \/ RemoveRole(q)
      BY <1>0, <3>1 DEF InsertRole, RemoveRole, At, Named, AboutRole
    <3>2. CASE \E u \in Users, r \in Roles, keys \in KeySets : TeamJoinWithLink(q, u, r, keys)
      BY <1>0, <3>2, StaffAssumption DEF TeamJoinWithLink
    <3> QED BY <1>2, <3>1, <3>2
  <2>2. user[o].role \in Roles /\ role[user[o].role] # Absent
    BY <1>0, <2>o DEF userIsOwnerLevel, ownerLevel, Exists, UserRows, StaffIInv, PeopleOK
  <2>3. user'[o] = user[o] /\ role'[user[o].role] = role[user[o].role]
    BY <2>1, <2>2
  <2> QED BY <2>o, <2>3, OwnerNext DEF userIsOwnerLevel, ownerLevel, Exists, Keys
<1> QED BY <1>1, <1>2

\* The steps after which everybody's rights are the same.
LEMMA OthersKeepOwner ==
    ASSUME StaffIInv, HasOwner, NEW q \in StaffReqs, NEW p \in Users, NEW u \in Users,
           \/ Fails(q) \/ SetPassword(q, p, u) \/ SetPIN(q, p, u) \/ ResetPassword(q)
    PROVE  HasOwner'
<1>0. user \in [Users -> UserRows] /\ staffReq[q] \in StaffTasks /\ Named(staffReq[q])
  BY DEF StaffIInv, PeopleOK, StaffRequestsOK
<1>1. /\ UNCHANGED role
      /\ \/ UNCHANGED user
         \/ \E x \in Users, b \in BOOLEAN : user' = [user EXCEPT ![x] = [@ EXCEPT !.rotate = b]]
  BY <1>0 DEF Fails, SetPassword, SetPIN, ResetPassword, At, Named, AboutUser
<1>2. \A o \in Users : user'[o].role = user[o].role /\ user'[o].active = user[o].active
  BY <1>0, <1>1 DEF UserRows
<1>3. \A o \in Users : userIsOwnerLevel(o) => (user'[o].role = user[o].role /\ user'[o].active)
  BY <1>2 DEF userIsOwnerLevel
<1> QED BY <1>1, <1>3, OwnersUntouched

\* A shop keeps an owner-level account that is active (lastOwnerGuard, guardLastOwnerStrip)
\* unless two edits overlap or an owner's sign-in moves him to a stripped role.
THEOREM AnOwnerStays == StaffSpec => OwnerStays
<1>1. ASSUME StaffIInv, [StaffNext]_staffVars
      PROVE  HasOwner => HasOwner' \/ CrossedEnds \/ (\E q \in StaffReqs, u \in Users : OwnerCloudSignin(q, u))
  <2> SUFFICES ASSUME HasOwner, ~CrossedEnds,
                      ~\E q \in StaffReqs, u \in Users : OwnerCloudSignin(q, u)
               PROVE  HasOwner'
    OBVIOUS
  <2>1. CASE UNCHANGED <<user, role>>
    BY <2>1, OwnersUntouched DEF userIsOwnerLevel
  <2>2. ASSUME NEW q \in StaffReqs, WriteUser(q) \/ WriteInactive(q) \/ WriteRole(q)
        PROVE  HasOwner'
    <3>1. CASE Fails(q)
      BY <2>1, <3>1 DEF Fails
    <3>2. CASE ~Fails(q)
      <4>1. staffReq'[q] = IdleStaff
        BY <2>2, <3>2 DEF WriteUser, WriteInactive, WriteRole, Wrote
      <4>2. ~staffReq[q].crossed
        BY <4>1 DEF CrossedEnds
      <4>3. Heeds(q)
        BY <1>1, <4>2 DEF StaffIInv, StaffRequestsOK
      <4> QED BY <1>1, <2>2, <3>2, <4>3, EditKeepsOwner
    <3> QED BY <3>1, <3>2
  <2>3. ASSUME NEW q \in StaffReqs,
               \/ InsertUser(q) \/ InsertWorker(q) \/ InsertOwner(q)
               \/ InsertRole(q) \/ RemoveRole(q)
               \/ \E u \in Users, r \in Roles, keys \in KeySets : TeamJoinWithLink(q, u, r, keys)
        PROVE  HasOwner'
    BY <1>1, <2>1, <2>3, NewcomersKeepOwner DEF Fails
  <2>4. ASSUME NEW q \in StaffReqs,
               ResetPassword(q) \/ \E p, u \in Users : SetPassword(q, p, u) \/ SetPIN(q, p, u)
        PROVE  HasOwner'
    BY <1>1, <2>4, OthersKeepOwner DEF HasOwner
  <2>5. ASSUME NEW q \in StaffReqs, UserRequests(q) PROVE HasOwner'
    BY <2>1, <2>2, <2>3, <2>4, <2>5
       DEF UserRequests, CreateUser, UpdateUser, DeactivateUser, Begins
  <2>6. ASSUME NEW q \in StaffReqs, RoleRequests(q) PROVE HasOwner'
    BY <2>1, <2>2, <2>3, <2>6
       DEF RoleRequests, CreateRole, UpdateRole, DeleteRole, Begins
  <2>7. ASSUME NEW q \in StaffReqs, Arrivals(q) PROVE HasOwner'
    BY <2>1, <2>3, <2>7 DEF Arrivals, Bootstrap, Begins
  <2>8. ASSUME NEW q \in StaffReqs, Recovery(q) PROVE HasOwner'
    BY <2>1, <2>4, <2>8
       DEF Recovery, NewRecoveryCode, RedeemRecoveryCode, VoidCodes, IssueRecoveryCode, Begins
  <2> QED BY <1>1, <2>1, <2>5, <2>6, <2>7, <2>8 DEF StaffNext, StaffDies, staffVars
<1> QED BY <1>1, StaffInvariant, PTL DEF StaffSpec, OwnerStays

-----------------------------------------------------------------------------
(***************************************************************************)
(* The customer book and its money.                                        *)
(***************************************************************************)
Columns == {"balance", "credit"}
CustomerRow == [phone : Phones, limit : Limits \cup {0}, stamp : Nat, balance : Int,
                credit : Int, posted : Int, loaded : Int, doubled : Int, details : Nat,
                freely : BOOLEAN]
CustomerEvent == [kind : {"customer"}, phone : Phones, limit : Limits \cup {0}, stamp : Nat]
LedgerEvent == [kind : {"ledger"}, column : Columns, amount : Int, phone : Phones]
VoidEvent == [kind : {"void"}, card : Cards]
FeedEvent == CustomerEvent \cup LedgerEvent \cup VoidEvent

FeedOK ==
    /\ now \in 0..MaxMoments
    /\ DOMAIN inbox = Tills /\ \A t \in Tills : inbox[t] \in Seq(FeedEvent)
BookTypes == book \in [Tills -> Seq(CustomerRow)]

TellSteps == {"emitCustomer", "send"}

\* What a request is about is a row of its till; a till that applies has the event before it.
AccountSlotOK(slot) ==
    /\ slot.step \in {"idle", "create"} \cup TellSteps \cup Columns
    /\ slot.step # "idle" => slot.at \in Tills
    /\ slot.step = "create" => slot.doc \in Phones
    /\ slot.step \in TellSteps \cup Columns => slot.doc \in DOMAIN book[slot.at]
    /\ slot.step = "send" => slot.seen \in [phone : Phones, limit : Limits \cup {0}]
    /\ slot.step \in Columns => slot.seen \in Int
ApplyingOK(t) ==
    /\ req[t].step \in {"idle", "move", "mark"}
    /\ req[t].step # "idle" =>
          req[t].at = t /\ req[t].doc \in DOMAIN book[t] /\ Arrived(t, "ledger")
AccountSlotsOK ==
    /\ DOMAIN req = Requests \cup Tills
    /\ \A q \in Requests : AccountSlotOK(req[q])
    /\ \A t \in Tills : ApplyingOK(t)

\* What a ledger row of till t is still to move in column c of account i.
Due(t, i, c) ==
    IF AtStep(t, "move") /\ req[t].doc = i /\ Head(inbox[t]).column = c
    THEN Head(inbox[t]).amount ELSE 0
Balanced(t, i) ==
    LET row == book[t][i]
    IN /\ row.balance + Due(t, i, "balance") = row.posted
       /\ row.credit + Due(t, i, "credit") = row.loaded + row.doubled
       /\ row.freely \/ row.balance >= 0
BooksOK == \A t \in Tills : \A i \in DOMAIN book[t] : book[t][i].phone \in lost \/ Balanced(t, i)

\* The details of a phone number that are on their way, and those of the rows that nobody
\* is about to tell of, with their stamps.
Mail(o, n) == {e \in {inbox[o][k] : k \in DOMAIN inbox[o]} : e.kind = "customer" /\ e.phone = n}
Untold(t, i) == \E q \in Requests : Tells(q, t, i)
Told(t, n) == {i \in Rows(t, n) : ~Untold(t, i)}
Mailed(o, n) == {[stamp |-> e.stamp, limit |-> e.limit] : e \in Mail(o, n)}
Showing(o, n) == {[stamp |-> book[o][i].details, limit |-> book[o][i].limit] : i \in Told(o, n)}
Shown(n) == UNION {Mailed(o, n) \cup Showing(o, n) : o \in Tills}

\* Details are those a phone number begins with, or have a stamp of their own.
Base(n) == IF n = Regular THEN Min(Limits) ELSE 0
DetailsOK(n) ==
    /\ \A d \in Shown(n) : \/ d.stamp = 0 /\ d.limit = Base(n)
                           \/ \E t \in Tills, m \in 1..now : d.stamp = Clock(t, m)
    /\ \A d, e \in Shown(n) : d.stamp = e.stamp => d.limit = e.limit
\* Details get everywhere: a till has some as new, on its only row of the phone number.
Alone(t, i) == \A j \in DOMAIN book[t] : book[t][j].phone = book[t][i].phone => j = i
Got(o, n, stamp) ==
    \/ stamp = 0
    \/ \E e \in Mail(o, n) : e.stamp >= stamp
    \/ Rows(o, n) # {} /\ \A i \in Rows(o, n) : Alone(o, i) => book[o][i].details >= stamp
DetailsTravel(n) == \A d \in Shown(n) : \A o \in Tills : Got(o, n, d.stamp)

BookOK ==
    /\ Regular \notin lost => \A t \in Tills : Rows(t, Regular) # {}
    /\ \A n \in Phones \ (lost \cup misjudged) : DetailsOK(n) /\ DetailsTravel(n)

AccountsIInv == FeedOK /\ BookTypes /\ AccountSlotsOK /\ BooksOK /\ BookOK

-----------------------------------------------------------------------------
\* What is known of the slots, of numbers, and of the feed.
LEMMA SlotIs ==
    ASSUME NEW step, NEW t, NEW doc, NEW seen
    PROVE  /\ Work(step, t, doc, seen).step = step /\ Work(step, t, doc, seen).at = t
           /\ Work(step, t, doc, seen).doc = doc /\ Work(step, t, doc, seen).seen = seen
           /\ IdleSlot.step = "idle"
BY DEF Work, IdleSlot

LEMMA LeastOf ==
    ASSUME NEW S \in SUBSET Nat, S # {}
    PROVE  Min(S) \in S /\ \A x \in S : Min(S) <= x
<1> DEFINE R == OpToRel(<, Nat)
<1>1. PICK x \in S : ~ \E y \in S : <<y, x>> \in R
  BY NatLessThanWellFounded, WFMin
<1> HIDE DEF R
<1>2. \A y \in S : x <= y
  BY <1>1 DEF R, OpToRel
<1>3. QED
  BY <1>2 DEF Min

LEMMA LimitsAre == Min(Limits) \in Limits
BY AccountsAssumption, LeastOf

LEMMA RowsAre ==
    ASSUME BookTypes, NEW t \in Tills, NEW n
    PROVE  /\ Rows(t, n) \subseteq DOMAIN book[t] /\ DOMAIN book[t] \subseteq Nat
           /\ Rows(t, n) # {} => Min(Rows(t, n)) \in Rows(t, n)
<1>1. book[t] \in Seq(CustomerRow)
  BY DEF BookTypes
<1>2. Rows(t, n) \subseteq DOMAIN book[t] /\ DOMAIN book[t] \subseteq Nat
  BY <1>1 DEF Rows
<1>3. QED
  BY <1>2, LeastOf

LEMMA RowIs ==
    ASSUME BookTypes
    PROVE  \A t \in Tills : \A i \in DOMAIN book[t] : book[t][i] \in CustomerRow
BY DEF BookTypes

LEMMA StampNow ==
    ASSUME FeedOK, NEW t \in Tills, Moment
    PROVE  /\ now' \in 1..MaxMoments /\ now' = now + 1
           /\ nowStamp(t) \in Nat /\ nowStamp(t) = Clock(t, now') /\ nowStamp(t) > 0
           /\ \A o \in Tills, m \in 1..now : Clock(o, m) # nowStamp(t)
           /\ 1..now \subseteq 1..now'
<1>1. now' \in 1..MaxMoments /\ now' = now + 1 /\ now \in 0..MaxMoments /\ MaxMoments \in Nat
  BY DeskAssumption DEF FeedOK, Moment
<1>2. Clock(t, 0) \in Nat /\ Clock(t, now') \in Nat /\ Clock(t, 0) < Clock(t, now')
  BY <1>1, DeskAssumption, ClockAssumption
<1>3. ASSUME NEW o \in Tills, NEW m \in 1..now PROVE Clock(o, m) # Clock(t, now')
  <2>1. m \in 0..MaxMoments /\ m < now' /\ now' \in 0..MaxMoments
    BY <1>1
  <2>2. o = t => Clock(o, m) < Clock(t, now') /\ Clock(o, m) \in Nat
    BY <2>1, ClockAssumption, DeskAssumption
  <2>3. Clock(o, m) = Clock(t, now') => o = t
    BY <2>1, ClockAssumption
  <2>4. QED
    BY <1>2, <2>2, <2>3
<1>4. QED
  BY <1>1, <1>2, <1>3 DEF nowStamp

\* The mail of a till after an event went out and after one was taken.
LEMMA MailSent ==
    ASSUME FeedOK, NEW t \in Tills, NEW e \in FeedEvent, Emit(t, e), now' \in 0..MaxMoments
    PROVE  /\ FeedOK'
           /\ \A o \in Tills : inbox[o] # <<>> => inbox'[o] # <<>> /\ Head(inbox'[o]) = Head(inbox[o])
           /\ \A o \in Tills, n \in Phones :
                 Mail(o, n)' = Mail(o, n) \cup (IF o # t /\ e.kind = "customer" /\ e.phone = n
                                                THEN {e} ELSE {})
<1>1. DOMAIN inbox' = Tills
  BY DEF Emit
<1>2. ASSUME NEW o \in Tills
      PROVE  /\ inbox'[o] \in Seq(FeedEvent)
             /\ inbox[o] # <<>> => inbox'[o] # <<>> /\ Head(inbox'[o]) = Head(inbox[o])
             /\ {inbox'[o][k] : k \in DOMAIN inbox'[o]}
                = {inbox[o][k] : k \in DOMAIN inbox[o]} \cup (IF o = t THEN {} ELSE {e})
  <2>1. CASE o = t
    BY <2>1 DEF Emit, FeedOK
  <2>2. CASE o # t
    <3>1. inbox'[o] = Append(inbox[o], e) /\ inbox[o] \in Seq(FeedEvent)
      BY <2>2 DEF Emit, FeedOK
    <3>2. /\ inbox'[o] \in Seq(FeedEvent) /\ Len(inbox'[o]) = Len(inbox[o]) + 1
          /\ \A n \in 1..Len(inbox[o]) : inbox'[o][n] = inbox[o][n]
          /\ inbox'[o][Len(inbox[o]) + 1] = e
          /\ DOMAIN inbox'[o] = DOMAIN inbox[o] \cup {Len(inbox[o]) + 1}
          /\ DOMAIN inbox[o] = 1..Len(inbox[o])
      BY <3>1
    <3>3. {inbox'[o][k] : k \in DOMAIN inbox'[o]} = {inbox[o][k] : k \in DOMAIN inbox[o]} \cup {e}
      BY <3>2
    <3>4. inbox[o] # <<>> => inbox'[o] # <<>> /\ Head(inbox'[o]) = Head(inbox[o])
      BY <3>1
    <3>5. QED
      BY <2>2, <3>2, <3>3, <3>4
  <2>3. QED
    BY <2>1, <2>2
<1>3. FeedOK'
  BY <1>1, <1>2 DEF FeedOK
<1>4. \A o \in Tills, n \in Phones :
          Mail(o, n)' = Mail(o, n) \cup (IF o # t /\ e.kind = "customer" /\ e.phone = n
                                         THEN {e} ELSE {})
  BY <1>2 DEF Mail
<1>5. QED
  BY <1>2, <1>3, <1>4

LEMMA MailTaken ==
    ASSUME FeedOK, NEW t \in Tills, inbox[t] # <<>>, Received(t), now' \in 0..MaxMoments
    PROVE  /\ FeedOK'
           /\ Head(inbox[t]) \in FeedEvent
           /\ \A o \in Tills \ {t} : inbox'[o] = inbox[o]
           /\ \A o \in Tills, n \in Phones :
                 /\ Mail(o, n)' \subseteq Mail(o, n)
                 /\ Mail(o, n) \subseteq Mail(o, n)'
                    \/ /\ o = t /\ Head(inbox[t]).kind = "customer" /\ Head(inbox[t]).phone = n
                       /\ Mail(o, n) \subseteq Mail(o, n)' \cup {Head(inbox[t])}
           /\ Head(inbox[t]).kind = "customer" => Head(inbox[t]) \in Mail(t, Head(inbox[t]).phone)
<1> DEFINE first == Head(inbox[t])
<1>1. /\ DOMAIN inbox' = Tills /\ inbox'[t] = Tail(inbox[t])
      /\ \A o \in Tills \ {t} : inbox'[o] = inbox[o]
  BY DEF Received, FeedOK
<1>2. \A o \in Tills : inbox[o] \in Seq(FeedEvent)
  BY DEF FeedOK
<1>3. /\ inbox'[t] \in Seq(FeedEvent) /\ first = inbox[t][1] /\ 1 \in DOMAIN inbox[t]
      /\ DOMAIN inbox[t] = 1..Len(inbox[t]) /\ DOMAIN inbox'[t] = 1..(Len(inbox[t]) - 1)
      /\ \A n \in DOMAIN inbox'[t] : inbox'[t][n] = inbox[t][n + 1]
      /\ Len(inbox[t]) \in Nat
  BY <1>1, <1>2
<1>4. first \in FeedEvent
  BY <1>2, <1>3
<1> HIDE DEF first
<1>5. ASSUME NEW k \in DOMAIN inbox'[t] PROVE inbox'[t][k] \in {inbox[t][m] : m \in DOMAIN inbox[t]}
  <2>1. k + 1 \in DOMAIN inbox[t] /\ inbox'[t][k] = inbox[t][k + 1]
    BY <1>3
  <2>2. QED
    BY <2>1
<1>6. ASSUME NEW k \in DOMAIN inbox[t]
      PROVE  inbox[t][k] = first \/ inbox[t][k] \in {inbox'[t][m] : m \in DOMAIN inbox'[t]}
  <2>1. CASE k = 1
    BY <1>3, <2>1
  <2>2. CASE k # 1
    <3>1. k - 1 \in DOMAIN inbox'[t] /\ inbox'[t][k - 1] = inbox[t][k]
      BY <1>3, <2>2
    <3>2. QED
      BY <3>1
  <2>3. QED
    BY <2>1, <2>2
<1>7. ASSUME NEW n \in Phones
      PROVE  /\ Mail(t, n)' \subseteq Mail(t, n)
             /\ Mail(t, n) \subseteq Mail(t, n)'
                \/ /\ first.kind = "customer" /\ first.phone = n
                   /\ Mail(t, n) \subseteq Mail(t, n)' \cup {first}
  BY <1>5, <1>6 DEF Mail
<1>8. ASSUME NEW n \in Phones, NEW o \in Tills \ {t} PROVE Mail(o, n)' = Mail(o, n)
  BY <1>1 DEF Mail
<1>9. first.kind = "customer" => first \in Mail(t, first.phone)
  BY <1>3 DEF Mail
<1>10. FeedOK'
  BY <1>1, <1>2, <1>3 DEF FeedOK
<1>11. QED
  BY <1>1, <1>4, <1>7, <1>8, <1>9, <1>10 DEF first

-----------------------------------------------------------------------------
\* One row of one till changes or comes in; slots and heads of inboxes that stay.
OnlyRow(t, i) ==
    \A o \in Tills :
        /\ DOMAIN book'[o] = DOMAIN book[o] \cup (IF o = t THEN {i} ELSE {})
        /\ \A j \in DOMAIN book[o] : o # t \/ j # i => book'[o][j] = book[o][j]
HeadsStay ==
    \A o \in Tills : inbox[o] # <<>> => inbox'[o] # <<>> /\ Head(inbox'[o]) = Head(inbox[o])
SyncingStays == \A o \in Tills : req'[o] = req[o]

LEMMA RowWritten ==
    ASSUME BookTypes, NEW t \in Tills, NEW i \in DOMAIN book[t], NEW row \in CustomerRow,
           book' = [book EXCEPT ![t][i] = row]
    PROVE  BookTypes' /\ book'[t][i] = row /\ OnlyRow(t, i)
<1>1. /\ book \in [Tills -> Seq(CustomerRow)] /\ book[t] \in Seq(CustomerRow)
      /\ book'[t] = [book[t] EXCEPT ![i] = row] /\ \A o \in Tills \ {t} : book'[o] = book[o]
  BY DEF BookTypes
<1>2. book'[t] \in Seq(CustomerRow) /\ DOMAIN book'[t] = DOMAIN book[t] /\ book'[t][i] = row
  BY <1>1
<1>3. book' \in [Tills -> Seq(CustomerRow)]
  BY <1>1, <1>2
<1>4. OnlyRow(t, i)
  BY <1>1, <1>2 DEF OnlyRow
<1>5. QED
  BY <1>2, <1>3, <1>4 DEF BookTypes

LEMMA RowAppended ==
    ASSUME BookTypes, NEW t \in Tills, NEW row \in CustomerRow,
           book' = [book EXCEPT ![t] = Append(@, row)]
    PROVE  /\ BookTypes' /\ Len(book[t]) + 1 \notin DOMAIN book[t]
           /\ Len(book[t]) + 1 \in Nat
           /\ book'[t][Len(book[t]) + 1] = row /\ OnlyRow(t, Len(book[t]) + 1)
<1>1. /\ book \in [Tills -> Seq(CustomerRow)] /\ book[t] \in Seq(CustomerRow)
      /\ book'[t] = Append(book[t], row) /\ \A o \in Tills \ {t} : book'[o] = book[o]
  BY DEF BookTypes
<1>2. /\ book'[t] \in Seq(CustomerRow) /\ book'[t][Len(book[t]) + 1] = row
      /\ DOMAIN book'[t] = DOMAIN book[t] \cup {Len(book[t]) + 1}
      /\ \A j \in DOMAIN book[t] : book'[t][j] = book[t][j]
      /\ Len(book[t]) + 1 \notin DOMAIN book[t] /\ Len(book[t]) + 1 \in Nat
  BY <1>1
<1>3. book' \in [Tills -> Seq(CustomerRow)]
  BY <1>1, <1>2
<1>4. OnlyRow(t, Len(book[t]) + 1)
  BY <1>1, <1>2 DEF OnlyRow
<1>5. QED
  BY <1>2, <1>3, <1>4 DEF BookTypes

LEMMA Putting ==
    ASSUME AccountSlotsOK, NEW q \in Requests \cup Tills, NEW slot, Put(q, slot)
    PROVE  /\ DOMAIN req' = Requests \cup Tills /\ req'[q] = slot
           /\ \A r \in (Requests \cup Tills) \ {q} : req'[r] = req[r]
           /\ q \in Requests => SyncingStays
BY DeskAssumption DEF AccountSlotsOK, Put, SyncingStays

LEMMA ArrivedStays ==
    ASSUME HeadsStay, NEW o \in Tills, Arrived(o, "ledger")
    PROVE  Arrived(o, "ledger")'
BY DEF HeadsStay, Arrived

LEMMA RequestMoves ==
    ASSUME AccountSlotsOK, NEW q \in Requests, NEW slot, Put(q, slot), AccountSlotOK(slot)',
           \A o \in Tills : DOMAIN book[o] \subseteq DOMAIN book'[o], HeadsStay
    PROVE  AccountSlotsOK' /\ SyncingStays
<1>1. /\ DOMAIN req' = Requests \cup Tills /\ req'[q] = slot
      /\ \A r \in (Requests \cup Tills) \ {q} : req'[r] = req[r]
      /\ SyncingStays
  BY Putting
<1>2. ASSUME NEW r \in Requests PROVE AccountSlotOK(req[r])'
  <2>1. CASE r = q
    BY <1>1, <2>1 DEF AccountSlotOK, TellSteps
  <2>2. CASE r # q
    <3>1. req'[r] = req[r] /\ AccountSlotOK(req[r])
      BY <1>1, <2>2 DEF AccountSlotsOK
    <3>2. QED
      BY <3>1 DEF AccountSlotOK, Columns, TellSteps
  <2>3. QED
    BY <2>1, <2>2
<1>3. ASSUME NEW o \in Tills PROVE ApplyingOK(o)'
  <2>1. req'[o] = req[o] /\ ApplyingOK(o)
    BY <1>1 DEF AccountSlotsOK, SyncingStays
  <2>2. QED
    BY <2>1, ArrivedStays DEF ApplyingOK
<1>4. QED
  BY <1>1, <1>2, <1>3 DEF AccountSlotsOK

LEMMA SyncMoves ==
    ASSUME AccountSlotsOK, NEW t \in Tills, NEW slot, Put(t, slot), ApplyingOK(t)',
           \A o \in Tills : DOMAIN book[o] \subseteq DOMAIN book'[o],
           \A o \in Tills \ {t} : inbox'[o] = inbox[o]
    PROVE  AccountSlotsOK' /\ \A o \in Tills \ {t} : req'[o] = req[o]
<1>1. /\ DOMAIN req' = Requests \cup Tills
      /\ \A r \in (Requests \cup Tills) \ {t} : req'[r] = req[r]
  BY Putting
<1>2. ASSUME NEW r \in Requests PROVE AccountSlotOK(req[r])'
  <2>1. req'[r] = req[r] /\ AccountSlotOK(req[r])
    BY <1>1, DeskAssumption DEF AccountSlotsOK
  <2>2. QED
    BY <2>1 DEF AccountSlotOK, Columns, TellSteps
<1>3. ASSUME NEW o \in Tills PROVE ApplyingOK(o)'
  <2>1. CASE o = t
    BY <2>1
  <2>2. CASE o # t
    <3>1. req'[o] = req[o] /\ inbox'[o] = inbox[o] /\ ApplyingOK(o)
      BY <1>1, <2>2 DEF AccountSlotsOK
    <3>2. QED
      BY <3>1 DEF ApplyingOK, Arrived
  <2>3. QED
    BY <2>1, <2>2
<1>4. QED
  BY <1>1, <1>2, <1>3 DEF AccountSlotsOK

-----------------------------------------------------------------------------
(***************************************************************************)
(* Money.                                                                  *)
(***************************************************************************)
LEMMA DueStays ==
    ASSUME AccountSlotsOK, HeadsStay, SyncingStays
    PROVE  \A o \in Tills : \A j, c : Due(o, j, c)' = Due(o, j, c)
<1>1. SUFFICES ASSUME NEW o \in Tills, NEW j, NEW c PROVE Due(o, j, c)' = Due(o, j, c)
  OBVIOUS
<1>2. req'[o] = req[o]
  BY DEF SyncingStays
<1>3. CASE AtStep(o, "move")
  <2>1. Arrived(o, "ledger")
    BY <1>3 DEF AccountSlotsOK, ApplyingOK, AtStep
  <2>2. Head(inbox'[o]) = Head(inbox[o])
    BY <2>1 DEF HeadsStay, Arrived
  <2>3. QED
    BY <1>2, <2>2 DEF Due, AtStep
<1>4. CASE ~AtStep(o, "move")
  BY <1>2, <1>4 DEF Due, AtStep
<1>5. QED
  BY <1>3, <1>4

LEMMA BooksMove ==
    ASSUME BooksOK, NEW t \in Tills, NEW i, OnlyRow(t, i), lost \subseteq lost',
           \A o \in Tills : \A j \in DOMAIN book[o] : \A c \in Columns :
               o # t \/ j # i => Due(o, j, c)' = Due(o, j, c),
           book'[t][i].phone \in lost' \/ Balanced(t, i)'
    PROVE  BooksOK'
<1>1. SUFFICES ASSUME NEW o \in Tills, NEW j \in DOMAIN book'[o], o # t \/ j # i,
                      book'[o][j].phone \notin lost'
               PROVE  Balanced(o, j)'
  BY DEF BooksOK
<1>2. j \in DOMAIN book[o] /\ book'[o][j] = book[o][j]
  BY <1>1 DEF OnlyRow
<1>3. Balanced(o, j)
  BY <1>1, <1>2 DEF BooksOK
<1>4. Due(o, j, "balance")' = Due(o, j, "balance") /\ Due(o, j, "credit")' = Due(o, j, "credit")
  BY <1>1, <1>2 DEF Columns
<1>5. QED
  BY <1>2, <1>3, <1>4 DEF Balanced

LEMMA BooksStay ==
    ASSUME BooksOK, UNCHANGED book, lost \subseteq lost',
           \A o \in Tills : \A j, c : Due(o, j, c)' = Due(o, j, c)
    PROVE  BooksOK'
<1>1. SUFFICES ASSUME NEW o \in Tills, NEW j \in DOMAIN book[o], book[o][j].phone \notin lost'
               PROVE  Balanced(o, j)'
  BY DEF BooksOK
<1>2. Balanced(o, j)
  BY <1>1 DEF BooksOK
<1>3. Due(o, j, "balance")' = Due(o, j, "balance") /\ Due(o, j, "credit")' = Due(o, j, "credit")
  OBVIOUS
<1>4. QED
  BY <1>2, <1>3 DEF Balanced

LEMMA DueType ==
    ASSUME FeedOK, AccountSlotsOK, NEW t \in Tills, NEW i, NEW c
    PROVE  Due(t, i, c) \in Int
<1>1. CASE AtStep(t, "move")
  <2>1. inbox[t] # <<>> /\ Head(inbox[t]).kind = "ledger" /\ inbox[t] \in Seq(FeedEvent)
    BY <1>1 DEF AccountSlotsOK, ApplyingOK, AtStep, Arrived, FeedOK
  <2>2. Head(inbox[t]) \in LedgerEvent
    BY <2>1 DEF FeedEvent, CustomerEvent, LedgerEvent, VoidEvent
  <2>3. QED
    BY <2>2 DEF Due, LedgerEvent
<1>2. CASE ~AtStep(t, "move")
  BY <1>2 DEF Due
<1>3. QED
  BY <1>1, <1>2

-----------------------------------------------------------------------------
(***************************************************************************)
(* Details.                                                                *)
(***************************************************************************)
LEMMA ShownIs ==
    ASSUME NEW n
    PROVE  /\ \A d : d \in Shown(n) <=>
                 \/ \E o \in Tills : \E e \in Mail(o, n) : d = [stamp |-> e.stamp, limit |-> e.limit]
                 \/ \E o \in Tills : \E i \in Told(o, n) :
                       d = [stamp |-> book[o][i].details, limit |-> book[o][i].limit]
           /\ \A d : d \in Shown(n)' <=>
                 \/ \E o \in Tills : \E e \in Mail(o, n)' : d = [stamp |-> e.stamp, limit |-> e.limit]
                 \/ \E o \in Tills : \E i \in Told(o, n)' :
                       d = [stamp |-> book'[o][i].details, limit |-> book'[o][i].limit]
<1>1. /\ \A d : d \in Shown(n) <=> \E o \in Tills : d \in Mailed(o, n) \/ d \in Showing(o, n)
      /\ \A d : d \in Shown(n)' <=> \E o \in Tills : d \in Mailed(o, n)' \/ d \in Showing(o, n)'
  BY DEF Shown
<1>2. /\ \A o, d : d \in Mailed(o, n) <=> \E e \in Mail(o, n) : d = [stamp |-> e.stamp, limit |-> e.limit]
      /\ \A o, d : d \in Mailed(o, n)' <=>
             \E e \in Mail(o, n)' : d = [stamp |-> e.stamp, limit |-> e.limit]
  BY DEF Mailed
<1>3. \A o, d : d \in Showing(o, n) <=>
          \E i \in Told(o, n) : d = [stamp |-> book[o][i].details, limit |-> book[o][i].limit]
  BY DEF Showing
<1>4. \A o, d : d \in Showing(o, n)' <=>
          \E i \in Told(o, n)' : d = [stamp |-> book'[o][i].details, limit |-> book'[o][i].limit]
  BY DEF Showing
<1>5. QED
  BY <1>1, <1>2, <1>3, <1>4

LEMMA MailTypes ==
    ASSUME FeedOK, NEW o \in Tills, NEW n, NEW e \in Mail(o, n)
    PROVE  e \in CustomerEvent
<1>1. inbox[o] \in Seq(FeedEvent) /\ e.kind = "customer"
  BY DEF FeedOK, Mail
<1>2. e \in FeedEvent
  BY <1>1 DEF Mail
<1>3. QED
  BY <1>1, <1>2 DEF FeedEvent, CustomerEvent, LedgerEvent, VoidEvent

LEMMA ShownTypes ==
    ASSUME FeedOK, BookTypes, NEW n, NEW d \in Shown(n)
    PROVE  d \in [stamp : Nat, limit : Limits \cup {0}]
<1>1. CASE \E o \in Tills : \E e \in Mail(o, n) : d = [stamp |-> e.stamp, limit |-> e.limit]
  BY <1>1, MailTypes DEF CustomerEvent
<1>2. CASE \E o \in Tills : \E i \in Told(o, n) :
               d = [stamp |-> book[o][i].details, limit |-> book[o][i].limit]
  BY <1>2, RowIs DEF CustomerRow, Told, Rows
<1>3. QED
  BY <1>1, <1>2, ShownIs

\* An event that goes out and the row that changes are the only news in what is shown.
LEMMA ShownMoves ==
    ASSUME NEW t \in Tills, NEW i, OnlyRow(t, i), NEW n \in Phones, NEW e,
           \A o \in Tills : \A m \in Mail(o, n)' : m \in Mail(o, n) \/ m = e,
           \A o \in Tills : \A j \in DOMAIN book[o] :
               (o # t \/ j # i) /\ Untold(o, j) => Untold(o, j)'
    PROVE  \A d \in Shown(n)' :
               \/ d \in Shown(n)
               \/ e.phone = n /\ d = [stamp |-> e.stamp, limit |-> e.limit]
               \/ /\ book'[t][i].phone = n /\ ~Untold(t, i)'
                  /\ d = [stamp |-> book'[t][i].details, limit |-> book'[t][i].limit]
<1>1. SUFFICES ASSUME NEW d \in Shown(n)'
               PROVE  \/ d \in Shown(n)
                      \/ e.phone = n /\ d = [stamp |-> e.stamp, limit |-> e.limit]
                      \/ /\ book'[t][i].phone = n /\ ~Untold(t, i)'
                         /\ d = [stamp |-> book'[t][i].details, limit |-> book'[t][i].limit]
  OBVIOUS
<1>2. ASSUME NEW o \in Tills, NEW m \in Mail(o, n)', d = [stamp |-> m.stamp, limit |-> m.limit]
      PROVE  \/ d \in Shown(n)
             \/ e.phone = n /\ d = [stamp |-> e.stamp, limit |-> e.limit]
  <2>1. m.phone = n
    BY DEF Mail
  <2>2. CASE m \in Mail(o, n)
    BY <1>2, <2>2, ShownIs
  <2>3. CASE m = e
    BY <1>2, <2>1, <2>3
  <2>4. QED
    BY <2>2, <2>3
<1>3. ASSUME NEW o \in Tills, NEW j \in Told(o, n)',
             d = [stamp |-> book'[o][j].details, limit |-> book'[o][j].limit]
      PROVE  \/ d \in Shown(n)
             \/ /\ book'[t][i].phone = n /\ ~Untold(t, i)'
                /\ d = [stamp |-> book'[t][i].details, limit |-> book'[t][i].limit]
  <2>1. j \in DOMAIN book'[o] /\ book'[o][j].phone = n /\ ~Untold(o, j)'
    BY DEF Told, Rows
  <2>2. CASE o = t /\ j = i
    BY <1>3, <2>1, <2>2
  <2>3. CASE o # t \/ j # i
    <3>1. j \in DOMAIN book[o] /\ book'[o][j] = book[o][j]
      BY <2>1, <2>3 DEF OnlyRow
    <3>2. ~Untold(o, j)
      BY <2>1, <2>3, <3>1
    <3>3. j \in Told(o, n)
      BY <2>1, <3>1, <3>2 DEF Told, Rows
    <3>4. QED
      BY <1>3, <3>1, <3>3, ShownIs
  <2>4. QED
    BY <2>2, <2>3
<1>4. QED
  BY <1>2, <1>3, ShownIs

LEMMA ShownNext ==
    ASSUME NEW t \in Tills, NEW i, OnlyRow(t, i), NEW n \in Phones,
           \A o \in Tills : Mail(o, n)' \subseteq Mail(o, n),
           \A o, j : Untold(o, j) => Untold(o, j)'
    PROVE  \A d \in Shown(n)' :
               \/ d \in Shown(n)
               \/ /\ book'[t][i].phone = n /\ ~Untold(t, i)'
                  /\ d = [stamp |-> book'[t][i].details, limit |-> book'[t][i].limit]
<1>1. SUFFICES ASSUME NEW d \in Shown(n)'
               PROVE  \/ d \in Shown(n)
                      \/ /\ book'[t][i].phone = n /\ ~Untold(t, i)'
                         /\ d = [stamp |-> book'[t][i].details, limit |-> book'[t][i].limit]
  OBVIOUS
<1>2. CASE \E o \in Tills : \E e \in Mail(o, n)' : d = [stamp |-> e.stamp, limit |-> e.limit]
  BY <1>2, ShownIs
<1>3. ASSUME NEW o \in Tills, NEW j \in Told(o, n)',
             d = [stamp |-> book'[o][j].details, limit |-> book'[o][j].limit]
      PROVE  \/ d \in Shown(n)
             \/ /\ book'[t][i].phone = n /\ ~Untold(t, i)'
                /\ d = [stamp |-> book'[t][i].details, limit |-> book'[t][i].limit]
  <2>1. j \in DOMAIN book'[o] /\ book'[o][j].phone = n /\ ~Untold(o, j)'
    BY DEF Told, Rows
  <2>2. CASE o = t /\ j = i
    BY <1>3, <2>1, <2>2
  <2>3. CASE o # t \/ j # i
    <3>1. j \in DOMAIN book[o] /\ book'[o][j] = book[o][j]
      BY <2>1, <2>3 DEF OnlyRow
    <3>2. ~Untold(o, j)
      BY <2>1
    <3>3. j \in Told(o, n)
      BY <2>1, <3>1, <3>2 DEF Told, Rows
    <3>4. QED
      BY <1>3, <3>1, <3>3, ShownIs
  <2>4. QED
    BY <2>2, <2>3
<1>4. QED
  BY <1>2, <1>3, ShownIs

LEMMA GotStays ==
    ASSUME BookTypes, BookTypes', NEW t \in Tills, NEW i, OnlyRow(t, i), NEW n \in Phones,
           NEW o \in Tills, NEW stamp \in Nat, Got(o, n, stamp), Mail(o, n) \subseteq Mail(o, n)',
           i \in DOMAIN book[t] /\ book[t][i].phone = n =>
               book'[t][i].phone = n /\ book[t][i].details <= book'[t][i].details
    PROVE  Got(o, n, stamp)'
<1>1. CASE stamp = 0
  BY <1>1 DEF Got
<1>2. CASE \E e \in Mail(o, n) : e.stamp >= stamp
  BY <1>2 DEF Got
<1>3. CASE Rows(o, n) # {} /\ \A j \in Rows(o, n) : Alone(o, j) => book[o][j].details >= stamp
  <2>1. ASSUME NEW j \in Rows(o, n)
        PROVE  j \in Rows(o, n)' /\ book[o][j].details <= book'[o][j].details
    <3>1. j \in DOMAIN book[o] /\ book[o][j].phone = n /\ j \in DOMAIN book'[o]
      BY DEF Rows, OnlyRow
    <3>2. book[o][j] \in CustomerRow /\ book[o][j].details \in Nat
      BY <3>1, RowIs DEF CustomerRow
    <3>3. CASE o = t /\ j = i
      BY <3>1, <3>3 DEF Rows
    <3>4. CASE o # t \/ j # i
      <4>1. book'[o][j] = book[o][j]
        BY <3>1, <3>4 DEF OnlyRow
      <4>2. QED
        BY <3>1, <3>2, <4>1 DEF Rows
    <3>5. QED
      BY <3>3, <3>4
  <2>2. ASSUME NEW j \in Rows(o, n)', Alone(o, j)' PROVE book'[o][j].details >= stamp
    <3>1. \A k \in Rows(o, n) : k = j
      BY <2>1, <2>2 DEF Alone, Rows
    <3>2. j \in Rows(o, n)
      BY <1>3, <3>1
    <3>3. Alone(o, j)
      BY <3>1, <3>2 DEF Alone, Rows
    <3>4. /\ book[o][j].details >= stamp /\ book[o][j].details <= book'[o][j].details
          /\ book[o][j].details \in Nat /\ book'[o][j].details \in Nat
      <4>1. book[o][j] \in CustomerRow /\ book'[o][j] \in CustomerRow
        BY <2>2, <3>2 DEF Rows, BookTypes
      <4>2. QED
        BY <1>3, <2>1, <3>2, <3>3, <4>1 DEF CustomerRow
    <3>5. QED
      BY <3>4
  <2>3. Rows(o, n)' # {}
    BY <1>3, <2>1
  <2>4. QED
    BY <2>2, <2>3 DEF Got
<1>4. QED
  BY <1>1, <1>2, <1>3 DEF Got

\* What is new in the details of phone numbers gets everywhere and has a stamp of its own.
DetailsNew(d, n) ==
    /\ \/ d.stamp = 0 /\ d.limit = Base(n)
       \/ \E o \in Tills, m \in 1..now' : d.stamp = Clock(o, m)
    /\ \A e \in Shown(n)' : d.stamp = e.stamp => d.limit = e.limit
    /\ \A o \in Tills : Got(o, n, d.stamp)'

LEMMA BookMoves ==
    ASSUME FeedOK, BookTypes, BookOK, now <= now', now' \in Nat,
           lost \subseteq lost', misjudged \subseteq misjudged',
           Regular \notin lost' => \A o \in Tills : Rows(o, Regular)' # {},
           \A n \in Phones \ (lost' \cup misjudged') :
               /\ \A d \in Shown(n)' : d \in Shown(n) \/ DetailsNew(d, n)
               /\ \A o \in Tills, stamp \in Nat : Got(o, n, stamp) => Got(o, n, stamp)'
    PROVE  BookOK'
<1>1. SUFFICES ASSUME NEW n \in Phones \ (lost' \cup misjudged')
               PROVE  DetailsOK(n)' /\ DetailsTravel(n)'
  BY DEF BookOK
<1>2. DetailsOK(n) /\ DetailsTravel(n)
  BY DEF BookOK
<1>3. Base(n)' = Base(n) /\ 1..now \subseteq 1..now'
  BY DEF Base, FeedOK
<1>4. ASSUME NEW d \in Shown(n)'
      PROVE  \/ d.stamp = 0 /\ d.limit = Base(n)
             \/ \E o \in Tills, m \in 1..now' : d.stamp = Clock(o, m)
  BY <1>2, <1>3 DEF DetailsOK, DetailsNew
<1>5. ASSUME NEW d \in Shown(n)', NEW e \in Shown(n)', d.stamp = e.stamp PROVE d.limit = e.limit
  BY <1>2, <1>5 DEF DetailsOK, DetailsNew
<1>6. ASSUME NEW d \in Shown(n)', NEW o \in Tills PROVE Got(o, n, d.stamp)'
  <2>1. CASE d \in Shown(n)
    <3>1. d.stamp \in Nat
      BY <2>1, ShownTypes
    <3>2. Got(o, n, d.stamp)
      BY <1>2, <2>1 DEF DetailsTravel
    <3>3. QED
      BY <3>1, <3>2
  <2>2. CASE DetailsNew(d, n)
    BY <2>2 DEF DetailsNew
  <2>3. QED
    BY <2>1, <2>2
<1>7. QED
  BY <1>3, <1>4, <1>5, <1>6 DEF DetailsOK, DetailsTravel

\* Steps that move no details: of a row, the rest may change.
SameDetails ==
    \A o \in Tills :
        /\ DOMAIN book'[o] = DOMAIN book[o]
        /\ \A j \in DOMAIN book[o] :
              /\ book'[o][j].phone = book[o][j].phone /\ book'[o][j].limit = book[o][j].limit
              /\ book'[o][j].details = book[o][j].details
LEMMA BookStays ==
    ASSUME FeedOK, BookTypes, BookOK, now <= now', now' \in Nat,
           lost \subseteq lost', misjudged \subseteq misjudged', SameDetails,
           \A o \in Tills, n \in Phones : Mail(o, n)' = Mail(o, n),
           \A o \in Tills : \A j \in DOMAIN book[o] :
               Untold(o, j) => Untold(o, j)' \/ book[o][j].phone \in lost'
    PROVE  BookOK'
<1>1. \A o \in Tills, n \in Phones : Rows(o, n)' = Rows(o, n)
  BY DEF Rows, SameDetails
<1>2. Regular \notin lost' => \A o \in Tills : Rows(o, Regular)' # {}
  BY <1>1, AccountsAssumption DEF BookOK
<1>3. ASSUME NEW n \in Phones \ (lost' \cup misjudged'), NEW d \in Shown(n)' PROVE d \in Shown(n)
  <2>1. CASE \E o \in Tills : \E e \in Mail(o, n)' : d = [stamp |-> e.stamp, limit |-> e.limit]
    BY <2>1, ShownIs
  <2>2. ASSUME NEW o \in Tills, NEW j \in Told(o, n)',
               d = [stamp |-> book'[o][j].details, limit |-> book'[o][j].limit]
        PROVE  d \in Shown(n)
    <3>1. j \in DOMAIN book[o] /\ book[o][j].phone = n /\ ~Untold(o, j)'
      BY <1>1 DEF Told, Rows
    <3>2. ~Untold(o, j) /\ j \in Told(o, n)
      BY <3>1 DEF Told, Rows
    <3>3. d = [stamp |-> book[o][j].details, limit |-> book[o][j].limit]
      BY <2>2, <3>1 DEF SameDetails
    <3>4. QED
      BY <3>2, <3>3, ShownIs
  <2>3. QED
    BY <2>1, <2>2, ShownIs
<1>4. ASSUME NEW n \in Phones, NEW o \in Tills, NEW stamp \in Nat, Got(o, n, stamp)
      PROVE  Got(o, n, stamp)'
  <2>1. \A j \in Rows(o, n) : (Alone(o, j)' <=> Alone(o, j)) /\ book'[o][j].details = book[o][j].details
    BY DEF Alone, Rows, SameDetails
  <2>2. QED
    BY <1>1, <1>4, <2>1 DEF Got
<1>5. QED
  BY <1>2, <1>3, <1>4, BookMoves

-----------------------------------------------------------------------------
LEMMA UntoldStays ==
    ASSUME AccountSlotsOK, NEW q \in Requests \cup Tills, NEW slot, Put(q, slot),
           q \in Requests /\ req[q].step \in TellSteps =>
               slot.step \in TellSteps /\ slot.at = req[q].at /\ slot.doc = req[q].doc
    PROVE  \A o, j : Untold(o, j) => Untold(o, j)'
<1>1. SUFFICES ASSUME NEW o, NEW j, Untold(o, j) PROVE Untold(o, j)'
  OBVIOUS
<1>2. PICK r \in Requests : Tells(r, o, j)
  BY <1>1 DEF Untold
<1>3. CASE r # q
  <2>1. req'[r] = req[r]
    BY <1>3, Putting
  <2>2. QED
    BY <1>2, <2>1 DEF Untold, Tells
<1>4. CASE r = q
  <2>1. req'[q] = slot
    BY Putting
  <2>2. QED
    BY <1>2, <1>4, <2>1 DEF Untold, Tells, TellSteps
<1>5. QED
  BY <1>3, <1>4

\* A row that is written with other money.
OtherMoney(t, i, row) ==
    /\ row \in CustomerRow
    /\ row.phone = book[t][i].phone /\ row.limit = book[t][i].limit
    /\ row.details = book[t][i].details
    /\ row.balance - book[t][i].balance = row.posted - book[t][i].posted
    /\ row.credit - book[t][i].credit
       = (row.loaded - book[t][i].loaded) + (row.doubled - book[t][i].doubled)
    /\ row.phone \in lost \/ row.freely \/ row.balance >= 0

LEMMA StillBalanced ==
    ASSUME FeedOK, BookTypes, BooksOK, AccountSlotsOK, NEW t \in Tills, NEW i \in DOMAIN book[t],
           NEW row, OtherMoney(t, i, row), book'[t][i] = row, lost' = lost,
           HeadsStay, SyncingStays
    PROVE  book'[t][i].phone \in lost' \/ Balanced(t, i)'
<1>1. SUFFICES ASSUME row.phone \notin lost PROVE Balanced(t, i)'
  OBVIOUS
<1>2. book[t][i] \in CustomerRow /\ row \in CustomerRow
  BY RowIs DEF OtherMoney
<1>3. Balanced(t, i)
  BY <1>1 DEF BooksOK, OtherMoney
<1>4. /\ Due(t, i, "balance")' = Due(t, i, "balance") /\ Due(t, i, "credit")' = Due(t, i, "credit")
      /\ Due(t, i, "balance") \in Int /\ Due(t, i, "credit") \in Int
  BY DueStays, DueType
<1>5. /\ row.balance + Due(t, i, "balance") = row.posted
      /\ row.credit + Due(t, i, "credit") = row.loaded + row.doubled
  BY <1>2, <1>3, <1>4 DEF Balanced, OtherMoney, CustomerRow
<1>6. row.freely \/ row.balance >= 0
  BY <1>1 DEF OtherMoney
<1>7. QED
  BY <1>4, <1>5, <1>6 DEF Balanced

LEMMA Committed ==
    ASSUME AccountsIInv, NEW q \in Requests, NEW t \in Tills, NEW i \in DOMAIN book[t], NEW row,
           OtherMoney(t, i, row), NEW kind \in Columns, NEW amount \in Int,
           Commit(q, t, i, row, kind, amount)
    PROVE  AccountsIInv'
<1>1. PICK new, slot : /\ new = [row EXCEPT !.stamp = nowStamp(t)]
                       /\ slot = Work(kind, t, i, amount)
  OBVIOUS
<1>2. /\ book' = [book EXCEPT ![t][i] = new] /\ Put(q, slot) /\ Moment /\ req[q] = IdleSlot
      /\ UNCHANGED <<inbox, lost, misjudged>>
  BY <1>1 DEF Commit, Telling, Idle
<1>3. /\ now' \in 1..MaxMoments /\ now <= now' /\ nowStamp(t) \in Nat
  BY <1>2, StampNow DEF AccountsIInv, FeedOK
<1>4. OtherMoney(t, i, new) /\ new \in CustomerRow
  BY <1>1, <1>3 DEF OtherMoney, CustomerRow
<1>5. BookTypes' /\ book'[t][i] = new /\ OnlyRow(t, i)
  BY <1>2, <1>4, RowWritten DEF AccountsIInv
<1>6. /\ slot.step = kind /\ slot.at = t /\ slot.doc = i /\ slot.seen = amount
      /\ req[q].step = "idle"
  BY <1>1, <1>2, SlotIs
<1>7. FeedOK' /\ HeadsStay
  BY <1>2, <1>3 DEF AccountsIInv, FeedOK, HeadsStay
<1>8. \A o \in Tills : DOMAIN book'[o] = DOMAIN book[o]
  BY <1>5 DEF OnlyRow
<1>9. AccountSlotOK(slot)'
  BY <1>6, <1>8 DEF AccountSlotOK, Columns, TellSteps
<1>10. AccountSlotsOK' /\ SyncingStays
  BY <1>2, <1>7, <1>8, <1>9, RequestMoves DEF AccountsIInv
<1>11. book'[t][i].phone \in lost' \/ Balanced(t, i)'
  BY <1>2, <1>4, <1>5, <1>7, <1>10, StillBalanced DEF AccountsIInv
<1>12. \A o \in Tills : \A j, c : Due(o, j, c)' = Due(o, j, c)
  BY <1>7, <1>10, DueStays DEF AccountsIInv
<1>13. BooksOK'
  BY <1>2, <1>5, <1>11, <1>12, BooksMove DEF AccountsIInv
<1>14. SameDetails
  <2>1. ASSUME NEW o \in Tills, NEW j \in DOMAIN book[o]
        PROVE  /\ book'[o][j].phone = book[o][j].phone /\ book'[o][j].limit = book[o][j].limit
               /\ book'[o][j].details = book[o][j].details
    <3>1. CASE o = t /\ j = i
      BY <1>4, <1>5, <3>1 DEF OtherMoney
    <3>2. CASE o # t \/ j # i
      BY <1>5, <3>2 DEF OnlyRow
    <3>3. QED
      BY <3>1, <3>2
  <2>2. QED
    BY <1>8, <2>1 DEF SameDetails
<1>15. \A o, j : Untold(o, j) => Untold(o, j)'
  <2>1. req[q].step \notin TellSteps
    BY <1>6 DEF TellSteps
  <2>2. QED
    BY <1>2, <2>1, UntoldStays DEF AccountsIInv
<1>16. \A o \in Tills, n \in Phones : Mail(o, n)' = Mail(o, n)
  BY <1>2 DEF Mail
<1>17. BookOK'
  BY <1>2, <1>3, <1>14, <1>15, <1>16, BookStays DEF AccountsIInv
<1>18. QED
  BY <1>5, <1>7, <1>10, <1>13, <1>17 DEF AccountsIInv

-----------------------------------------------------------------------------
\* A step that leaves the book alone.
LEMMA BookAlone ==
    ASSUME AccountsIInv, UNCHANGED <<book, lost, misjudged>>, now <= now', FeedOK', AccountSlotsOK',
           \A o \in Tills : \A j, c : Due(o, j, c)' = Due(o, j, c),
           \A o \in Tills, n \in Phones : Mail(o, n)' = Mail(o, n),
           \A o, j : Untold(o, j) => Untold(o, j)'
    PROVE  AccountsIInv'
<1>1. BookTypes' /\ SameDetails /\ now' \in Nat
  BY DEF AccountsIInv, BookTypes, SameDetails, FeedOK
<1>2. BooksOK'
  BY BooksStay DEF AccountsIInv
<1>3. BookOK'
  BY <1>1, BookStays DEF AccountsIInv
<1>4. QED
  BY <1>1, <1>2, <1>3 DEF AccountsIInv

LEMMA SlotsStay ==
    ASSUME AccountSlotsOK, UNCHANGED <<req, book>>, HeadsStay
    PROVE  AccountSlotsOK' /\ SyncingStays /\ \A o, j : Untold(o, j) => Untold(o, j)'
<1>1. \A q \in Requests : AccountSlotOK(req[q])'
  BY DEF AccountSlotsOK, AccountSlotOK, TellSteps
<1>2. \A o \in Tills : ApplyingOK(o)'
  BY ArrivedStays DEF AccountSlotsOK, ApplyingOK
<1>3. QED
  BY <1>1, <1>2 DEF AccountSlotsOK, SyncingStays, Untold, Tells

\* An event about something else than details goes out.
LEMMA OtherSent ==
    ASSUME FeedOK, NEW t \in Tills, NEW e \in FeedEvent, e.kind # "customer", Emit(t, e),
           now' \in 0..MaxMoments
    PROVE  FeedOK' /\ HeadsStay /\ \A o \in Tills, n \in Phones : Mail(o, n)' = Mail(o, n)
<1>1. FeedOK' /\ HeadsStay
  BY MailSent DEF HeadsStay
<1>2. \A o \in Tills, n \in Phones :
          Mail(o, n)' = Mail(o, n) \cup (IF o # t /\ e.kind = "customer" /\ e.phone = n
                                         THEN {e} ELSE {})
  BY MailSent
<1>3. QED
  BY <1>1, <1>2

\* A request goes on without the book, and may send an event about something else.
LEMMA RequestGoesOn ==
    ASSUME AccountsIInv, NEW q \in Requests, NEW slot, Put(q, slot), AccountSlotOK(slot),
           req[q].step \notin TellSteps, UNCHANGED <<book, lost, misjudged>>,
           now <= now', now' \in 0..MaxMoments,
           UNCHANGED inbox \/ \E t \in Tills, e \in FeedEvent : e.kind # "customer" /\ Emit(t, e)
    PROVE  AccountsIInv'
<1>1. FeedOK' /\ HeadsStay /\ \A o \in Tills, n \in Phones : Mail(o, n)' = Mail(o, n)
  <2>1. CASE UNCHANGED inbox
    BY <2>1 DEF AccountsIInv, FeedOK, HeadsStay, Mail
  <2>2. ASSUME NEW t \in Tills, NEW e \in FeedEvent, e.kind # "customer", Emit(t, e)
        PROVE  FeedOK' /\ HeadsStay /\ \A o \in Tills, n \in Phones : Mail(o, n)' = Mail(o, n)
    BY <2>2, OtherSent DEF AccountsIInv
  <2>3. QED
    BY <2>1, <2>2
<1>2. AccountSlotOK(slot)'
  BY DEF AccountSlotOK, TellSteps
<1>3. AccountSlotsOK' /\ SyncingStays
  BY <1>1, <1>2, RequestMoves DEF AccountsIInv
<1>4. \A o \in Tills : \A j, c : Due(o, j, c)' = Due(o, j, c)
  BY <1>1, <1>3, DueStays DEF AccountsIInv
<1>5. \A o, j : Untold(o, j) => Untold(o, j)'
  BY UntoldStays DEF AccountsIInv
<1>6. QED
  BY <1>1, <1>3, <1>4, <1>5, BookAlone

\* Payments, corrections, charges, top-ups, and their events.
LEMMA MoneySteps ==
    ASSUME AccountsIInv, Money
    PROVE  AccountsIInv'
<1>1. ASSUME NEW q \in Requests, EmitLedger(q) PROVE AccountsIInv'
  <2>1. /\ req[q].step \in Columns /\ UNCHANGED <<now, book, lost, misjudged>> /\ Put(q, IdleSlot)
    BY <1>1 DEF EmitLedger, Columns, accountVars
  <2>2. /\ req[q].at \in Tills /\ req[q].doc \in DOMAIN book[req[q].at] /\ req[q].seen \in Int
    BY <2>1 DEF AccountsIInv, AccountSlotsOK, AccountSlotOK, Columns, TellSteps
  <2>3. PICK t \in Tills : t = req[q].at
    BY <2>2
  <2>4. PICK e : e = [kind |-> "ledger", column |-> req[q].step, amount |-> req[q].seen,
                      phone |-> book[t][req[q].doc].phone]
    OBVIOUS
  <2>5. Emit(t, e)
    BY <1>1, <2>3, <2>4 DEF EmitLedger
  <2>6. book[t][req[q].doc].phone \in Phones
    BY <2>2, <2>3, RowIs DEF AccountsIInv, CustomerRow
  <2>7. e \in LedgerEvent
    BY <2>1, <2>2, <2>4, <2>6 DEF LedgerEvent
  <2>8. e \in FeedEvent /\ e.kind # "customer"
    BY <2>7 DEF FeedEvent, LedgerEvent
  <2>9. PICK slot : slot = IdleSlot
    OBVIOUS
  <2>10. Put(q, slot) /\ AccountSlotOK(slot)
    BY <2>1, <2>9, SlotIs DEF AccountSlotOK, Columns, TellSteps
  <2>11. now' \in 0..MaxMoments /\ now <= now' /\ req[q].step \notin TellSteps
    BY <2>1 DEF AccountsIInv, FeedOK, Columns, TellSteps
  <2>12. QED
    BY <2>1, <2>5, <2>8, <2>10, <2>11, RequestGoesOn
<1>2. ASSUME NEW q \in Requests, NEW t \in Tills, NEW i \in DOMAIN book[t],
             \/ ChargeTab(q, t, i) \/ RecordCustomerPayment(q, t, i)
             \/ RecordCustomerAdjustment(q, t, i) \/ TopUpStoreCredit(q, t, i)
      PROVE  AccountsIInv'
  <2>1. PICK old \in CustomerRow : old = book[t][i]
    BY RowIs DEF AccountsIInv
  <2>2. old.phone \in lost \/ old.freely \/ old.balance >= 0
    BY <2>1 DEF AccountsIInv, BooksOK, Balanced
  <2>3. CASE ChargeTab(q, t, i)
    <3>1. PICK x \in Int, y \in Int : x = old.posted + 1 /\ y = old.balance + 1
      BY DEF CustomerRow
    <3>2. PICK row : row = [old EXCEPT !.posted = x, !.balance = y]
      OBVIOUS
    <3>3. Commit(q, t, i, row, "balance", 1)
      BY <2>1, <2>3, <3>1, <3>2 DEF ChargeTab, recordLedgerTx, MoveColumn, recordLedgerTxNoBalance
    <3>4. OtherMoney(t, i, row)
      <4>1. row \in CustomerRow
        BY <3>2 DEF CustomerRow
      <4>2. QED
        BY <2>1, <2>2, <3>1, <3>2, <4>1 DEF OtherMoney, CustomerRow
    <3>5. QED
      BY <3>3, <3>4, Committed DEF Columns
  <2>4. CASE RecordCustomerPayment(q, t, i)
    <3>1. PICK x \in Int, y \in Int : x = old.balance - 1 /\ y = old.posted - 1
      BY DEF CustomerRow
    <3>2. PICK row : row = [old EXCEPT !.balance = x, !.posted = y]
      OBVIOUS
    <3>3. Commit(q, t, i, row, "balance", -1) /\ old.balance >= 1
      BY <2>1, <2>4, <3>1, <3>2 DEF RecordCustomerPayment, MoveColumn, recordLedgerTxNoBalance, CustomerRow
    <3>4. OtherMoney(t, i, row)
      <4>1. row \in CustomerRow
        BY <3>2 DEF CustomerRow
      <4>2. QED
        BY <2>1, <3>1, <3>2, <3>3, <4>1 DEF OtherMoney, CustomerRow
    <3>5. QED
      BY <3>3, <3>4, Committed DEF Columns
  <2>5. CASE RecordCustomerAdjustment(q, t, i)
    <3>1. PICK x \in Int, y \in Int : x = old.posted - 1 /\ y = old.balance - 1
      BY DEF CustomerRow
    <3>2. PICK row : row = [old EXCEPT !.freely = TRUE, !.posted = x, !.balance = y]
      OBVIOUS
    <3>3. Commit(q, t, i, row, "balance", -1)
      BY <2>1, <2>5, <3>1, <3>2 DEF RecordCustomerAdjustment, recordLedgerTx, MoveColumn,
                              recordLedgerTxNoBalance, CustomerRow
    <3>4. OtherMoney(t, i, row)
      <4>1. row \in CustomerRow
        BY <3>2 DEF CustomerRow
      <4>2. QED
        BY <2>1, <3>1, <3>2, <4>1 DEF OtherMoney, CustomerRow
    <3>5. QED
      BY <3>3, <3>4, Committed DEF Columns
  <2>6. CASE TopUpStoreCredit(q, t, i)
    <3>1. PICK x \in Int, y \in Int : x = old.loaded + 1 /\ y = old.credit + 1
      BY DEF CustomerRow
    <3>2. PICK row : row = [old EXCEPT !.loaded = x, !.credit = y]
      OBVIOUS
    <3>3. Commit(q, t, i, row, "credit", 1)
      BY <2>1, <2>6, <3>1, <3>2 DEF TopUpStoreCredit, recordLedgerTx, MoveColumn, recordLedgerTxNoBalance
    <3>4. OtherMoney(t, i, row)
      <4>1. row \in CustomerRow
        BY <3>2 DEF CustomerRow
      <4>2. QED
        BY <2>1, <2>2, <3>1, <3>2, <4>1 DEF OtherMoney, CustomerRow
    <3>5. QED
      BY <3>3, <3>4, Committed DEF Columns
  <2>7. QED
    BY <1>2, <2>3, <2>4, <2>5, <2>6
<1>3. QED
  BY <1>1, <1>2 DEF Money

\* Gift cards; one that is redeemed counts twice towards the credit, once with its row.
LEMMA GiftSteps ==
    ASSUME AccountsIInv, GiftCards
    PROVE  AccountsIInv'
<1>1. ASSUME NEW t \in Tills, NEW g \in Cards, issueGiftCardsTx(t, g) PROVE AccountsIInv'
  <2>1. UNCHANGED <<now, inbox, req, book, lost, misjudged>>
    BY <1>1 DEF issueGiftCardsTx, deskVars
  <2>2. FeedOK' /\ HeadsStay /\ \A o \in Tills, n \in Phones : Mail(o, n)' = Mail(o, n)
    BY <2>1 DEF AccountsIInv, FeedOK, HeadsStay, Mail
  <2>3. AccountSlotsOK' /\ SyncingStays /\ \A o, j : Untold(o, j) => Untold(o, j)'
    BY <2>1, <2>2, SlotsStay DEF AccountsIInv
  <2>4. \A o \in Tills : \A j, c : Due(o, j, c)' = Due(o, j, c)
    BY <2>2, <2>3, DueStays DEF AccountsIInv
  <2>5. now <= now'
    BY <2>1 DEF AccountsIInv, FeedOK
  <2>6. QED
    BY <2>1, <2>2, <2>3, <2>4, <2>5, BookAlone
<1>2. ASSUME NEW t \in Tills, NEW g \in Cards, VoidCardSale(t, g) PROVE AccountsIInv'
  <2>1. UNCHANGED <<now, req, book, lost, misjudged>>
    BY <1>2 DEF VoidCardSale
  <2>2. PICK e : e = [kind |-> "void", card |-> g]
    OBVIOUS
  <2>3. e \in FeedEvent /\ e.kind = "void"
    BY <2>2 DEF FeedEvent, VoidEvent
  <2>4. UNCHANGED inbox \/ Emit(t, e)
    BY <1>2, <2>2 DEF VoidCardSale
  <2>5. now <= now' /\ now' \in 0..MaxMoments
    BY <2>1 DEF AccountsIInv, FeedOK
  <2>6. FeedOK' /\ HeadsStay /\ \A o \in Tills, n \in Phones : Mail(o, n)' = Mail(o, n)
    <3>1. CASE UNCHANGED inbox
      BY <2>1, <3>1 DEF AccountsIInv, FeedOK, HeadsStay, Mail
    <3>2. CASE Emit(t, e)
      BY <2>3, <2>5, <3>2, OtherSent DEF AccountsIInv
    <3>3. QED
      BY <2>4, <3>1, <3>2
  <2>7. AccountSlotsOK' /\ SyncingStays /\ \A o, j : Untold(o, j) => Untold(o, j)'
    BY <2>1, <2>6, SlotsStay DEF AccountsIInv
  <2>8. \A o \in Tills : \A j, c : Due(o, j, c)' = Due(o, j, c)
    BY <2>6, <2>7, DueStays DEF AccountsIInv
  <2>9. QED
    BY <2>1, <2>5, <2>6, <2>7, <2>8, BookAlone
<1>3. ASSUME NEW t \in Tills, NEW g \in Cards, NEW q \in Requests, NEW i \in DOMAIN book[t],
             RedeemGiftCard(q, t, i, g)
      PROVE  AccountsIInv'
  <2>1. PICK old \in CustomerRow : old = book[t][i]
    BY RowIs DEF AccountsIInv
  <2>2. old.phone \in lost \/ old.freely \/ old.balance >= 0
    BY <2>1 DEF AccountsIInv, BooksOK, Balanced
  <2>3. Worth \in Int
    BY AccountsAssumption
  <2>4. PICK x \in Int, y \in Int, z \in Int :
            /\ x = old.credit + Worth + Worth /\ y = old.doubled + Worth /\ z = old.loaded + Worth
    BY <2>3 DEF CustomerRow
  <2>5. PICK row : row = [old EXCEPT !.credit = x, !.doubled = y, !.loaded = z]
    OBVIOUS
  <2>6. Commit(q, t, i, row, "credit", Worth)
    <3>1. PICK half : half = [MoveColumn(old, "credit", Worth) EXCEPT !.doubled = @ + Worth]
      OBVIOUS
    <3>2. half = [old EXCEPT !.credit = old.credit + Worth, !.doubled = y]
      BY <2>4, <3>1 DEF MoveColumn, CustomerRow
    <3>3. recordLedgerTx(half, "credit", Worth) = row
      BY <2>4, <2>5, <3>2 DEF recordLedgerTx, MoveColumn, recordLedgerTxNoBalance, CustomerRow
    <3>4. QED
      BY <1>3, <2>1, <3>1, <3>3 DEF RedeemGiftCard
  <2>7. OtherMoney(t, i, row)
    <3>1. row \in CustomerRow
      BY <2>5 DEF CustomerRow
    <3>2. QED
      BY <2>1, <2>2, <2>3, <2>4, <2>5, <3>1 DEF OtherMoney, CustomerRow
  <2>8. QED
    BY <2>3, <2>6, <2>7, Committed DEF Columns
<1>4. QED
  BY <1>1, <1>2, <1>3 DEF GiftCards

-----------------------------------------------------------------------------
\* A till is done with an event.
LEMMA EventDone ==
    ASSUME AccountsIInv, NEW t \in Tills, req[t].step # "move", Received(t),
           \/ req[t] = IdleSlot /\ UNCHANGED req
           \/ Put(t, IdleSlot),
           \A o \in Tills : DOMAIN book[o] \subseteq DOMAIN book'[o]
    PROVE  /\ AccountSlotsOK'
           /\ \A o \in Tills : \A j, c : Due(o, j, c)' = Due(o, j, c)
           /\ \A o, j : Untold(o, j) => Untold(o, j)'
<1>1. IdleSlot.step = "idle"
  BY DEF IdleSlot
<1>2. /\ DOMAIN req' = Requests \cup Tills /\ req'[t] = IdleSlot
      /\ \A r \in (Requests \cup Tills) \ {t} : req'[r] = req[r]
  <2>1. CASE req[t] = IdleSlot /\ UNCHANGED req
    BY <2>1 DEF AccountsIInv, AccountSlotsOK
  <2>2. CASE Put(t, IdleSlot)
    BY <2>2 DEF AccountsIInv, AccountSlotsOK, Put
  <2>3. QED
    BY <2>1, <2>2
<1>3. \A o \in Tills \ {t} : inbox'[o] = inbox[o]
  BY DEF Received, AccountsIInv, FeedOK
<1>4. ASSUME NEW r \in Requests PROVE req'[r] = req[r]
  BY <1>2, DeskAssumption
<1>5. ASSUME NEW r \in Requests PROVE AccountSlotOK(req[r])'
  <2>1. req'[r] = req[r] /\ AccountSlotOK(req[r])
    BY <1>4 DEF AccountsIInv, AccountSlotsOK
  <2>2. QED
    BY <2>1 DEF AccountSlotOK, Columns, TellSteps
<1>6. ASSUME NEW o \in Tills PROVE ApplyingOK(o)'
  <2>1. CASE o = t
    BY <1>1, <1>2, <2>1 DEF ApplyingOK
  <2>2. CASE o # t
    <3>1. req'[o] = req[o] /\ inbox'[o] = inbox[o] /\ ApplyingOK(o)
      BY <1>2, <1>3, <2>2 DEF AccountsIInv, AccountSlotsOK
    <3>2. QED
      BY <3>1 DEF ApplyingOK, Arrived
  <2>3. QED
    BY <2>1, <2>2
<1>7. ASSUME NEW o \in Tills, NEW j, NEW c PROVE Due(o, j, c)' = Due(o, j, c)
  <2>1. CASE o = t
    BY <1>1, <1>2, <2>1 DEF Due, AtStep
  <2>2. CASE o # t
    <3>1. req'[o] = req[o] /\ inbox'[o] = inbox[o]
      BY <1>2, <1>3, <2>2
    <3>2. QED
      BY <3>1 DEF Due, AtStep
  <2>3. QED
    BY <2>1, <2>2
<1>8. ASSUME NEW o, NEW j, Untold(o, j) PROVE Untold(o, j)'
  BY <1>4, <1>8 DEF Untold, Tells
<1>9. QED
  BY <1>2, <1>5, <1>6, <1>7, <1>8 DEF AccountSlotsOK

\* A void arrives, or a ledger event is marked.
LEMMA OtherTaken ==
    ASSUME AccountsIInv, NEW t \in Tills, ApplyVoid(t) \/ markSyncApplied(t)
    PROVE  AccountsIInv'
<1>1. /\ Received(t) /\ UNCHANGED <<now, book, lost, misjudged>>
      /\ inbox[t] # <<>> /\ Head(inbox[t]).kind # "customer"
      /\ \/ req[t] = IdleSlot /\ UNCHANGED req
         \/ req[t].step = "mark" /\ Put(t, IdleSlot)
  <2>1. CASE ApplyVoid(t)
    BY <2>1 DEF ApplyVoid, Arrived, Idle
  <2>2. CASE markSyncApplied(t)
    <3>1. AtStep(t, "mark") /\ Received(t) /\ Put(t, IdleSlot) /\ UNCHANGED <<now, book, lost, misjudged>>
      BY <2>2 DEF markSyncApplied, accountVars
    <3>2. Arrived(t, "ledger")
      BY <3>1 DEF AccountsIInv, AccountSlotsOK, ApplyingOK, AtStep
    <3>3. QED
      BY <3>1, <3>2 DEF Arrived, AtStep
  <2>3. QED
    BY <2>1, <2>2
<1>2. now <= now' /\ now' \in 0..MaxMoments
  BY <1>1 DEF AccountsIInv, FeedOK
<1>3. FeedOK' /\ \A o \in Tills, n \in Phones : Mail(o, n)' = Mail(o, n)
  <2>1. /\ FeedOK'
        /\ \A o \in Tills, n \in Phones : Mail(o, n)' \subseteq Mail(o, n)
        /\ \A o \in Tills, n \in Phones : Mail(o, n) \subseteq Mail(o, n)'
    BY <1>1, <1>2, MailTaken DEF AccountsIInv
  <2>2. QED
    BY <2>1
<1>4. req[t].step # "move"
  BY <1>1 DEF IdleSlot
<1>5. /\ AccountSlotsOK'
      /\ \A o \in Tills : \A j, c : Due(o, j, c)' = Due(o, j, c)
      /\ \A o, j : Untold(o, j) => Untold(o, j)'
  BY <1>1, <1>4, EventDone
<1>6. QED
  BY <1>1, <1>2, <1>3, <1>5, BookAlone

-----------------------------------------------------------------------------
\* What the two halves of recordLedgerTx do to a row.
SameButMoney(new, row) ==
    /\ new \in CustomerRow /\ new.phone = row.phone /\ new.limit = row.limit
    /\ new.details = row.details /\ new.doubled = row.doubled
LEMMA RecordIs ==
    ASSUME NEW row \in CustomerRow, NEW kind \in Columns, NEW amount \in Int,
           NEW new, new = recordLedgerTxNoBalance(row, kind, amount)
    PROVE  /\ SameButMoney(new, row) /\ new.balance = row.balance /\ new.credit = row.credit
           /\ new.posted = row.posted + (IF kind = "balance" THEN amount ELSE 0)
           /\ new.loaded = row.loaded + (IF kind = "credit" THEN amount ELSE 0)
           /\ new.freely = row.freely
<1>1. PICK x \in Int, y \in Int : x = row.posted + amount /\ y = row.loaded + amount
  BY DEF CustomerRow
<1>2. CASE kind = "credit"
  <2>1. new = [row EXCEPT !.loaded = y]
    BY <1>1, <1>2 DEF recordLedgerTxNoBalance
  <2>2. new \in CustomerRow
    BY <2>1 DEF CustomerRow
  <2>3. QED
    BY <1>1, <1>2, <2>1, <2>2 DEF SameButMoney, CustomerRow
<1>3. CASE kind = "balance"
  <2>1. new = [row EXCEPT !.posted = x]
    BY <1>1, <1>3 DEF recordLedgerTxNoBalance
  <2>2. new \in CustomerRow
    BY <2>1 DEF CustomerRow
  <2>3. QED
    BY <1>1, <1>3, <2>1, <2>2 DEF SameButMoney, CustomerRow
<1>4. QED
  BY <1>2, <1>3 DEF Columns

LEMMA MoveIs ==
    ASSUME NEW row \in CustomerRow, NEW e \in LedgerEvent, NEW stamp \in Nat,
           NEW new, new = MoveMoney(row, e, stamp)
    PROVE  /\ SameButMoney(new, row) /\ new.posted = row.posted /\ new.loaded = row.loaded
           /\ new.balance = row.balance + (IF e.column = "balance" THEN e.amount ELSE 0)
           /\ new.credit = row.credit + (IF e.column = "credit" THEN e.amount ELSE 0)
           /\ row.freely \/ e.amount < 0 => new.freely
<1>1. PICK x \in Int, y \in Int : x = row.balance + e.amount /\ y = row.credit + e.amount
  BY DEF CustomerRow, LedgerEvent
<1>2. PICK half : half = MoveColumn(row, e.column, e.amount)
  OBVIOUS
<1>3. e.column \in {"balance", "credit"} /\ e.amount \in Int
  BY DEF LedgerEvent, Columns
<1>4. half = IF e.column = "credit" THEN [row EXCEPT !.credit = y] ELSE [row EXCEPT !.balance = x]
  BY <1>1, <1>2 DEF MoveColumn
<1>5. /\ half \in CustomerRow /\ half.phone = row.phone /\ half.limit = row.limit
      /\ half.details = row.details /\ half.doubled = row.doubled
      /\ half.posted = row.posted /\ half.loaded = row.loaded /\ half.freely = row.freely
      /\ half.balance = IF e.column = "credit" THEN row.balance ELSE x
      /\ half.credit = IF e.column = "credit" THEN y ELSE row.credit
  <2>1. CASE e.column = "credit"
    BY <1>4, <2>1 DEF CustomerRow
  <2>2. CASE e.column # "credit"
    BY <1>4, <2>2 DEF CustomerRow
  <2>3. QED
    BY <2>1, <2>2
<1>6. PICK f : f = (half.freely \/ e.amount < 0)
  OBVIOUS
<1>7. f \in BOOLEAN /\ (half.freely \/ e.amount < 0 => f)
  BY <1>6
<1>8. new = [half EXCEPT !.stamp = stamp, !.freely = f]
  BY <1>2, <1>5, <1>6 DEF MoveMoney, CustomerRow
<1>9. new \in CustomerRow
  BY <1>5, <1>7, <1>8 DEF CustomerRow
<1>10. /\ new.phone = half.phone /\ new.limit = half.limit /\ new.details = half.details
       /\ new.doubled = half.doubled /\ new.posted = half.posted /\ new.loaded = half.loaded
       /\ new.balance = half.balance /\ new.credit = half.credit
       /\ half.freely \/ e.amount < 0 => new.freely
  BY <1>5, <1>7, <1>8 DEF CustomerRow
<1>11. /\ new.balance = row.balance + (IF e.column = "balance" THEN e.amount ELSE 0)
       /\ new.credit = row.credit + (IF e.column = "credit" THEN e.amount ELSE 0)
  <2>1. row.balance \in Int /\ row.credit \in Int
    BY DEF CustomerRow
  <2>2. QED
    BY <1>1, <1>3, <1>5, <1>10, <2>1
<1>12. row.freely \/ e.amount < 0 => new.freely
  BY <1>5, <1>10
<1>13. QED
  BY <1>5, <1>9, <1>10, <1>11, <1>12 DEF SameButMoney

LEMMA LedgerHead ==
    ASSUME FeedOK, NEW t \in Tills, Arrived(t, "ledger")
    PROVE  Head(inbox[t]) \in LedgerEvent
<1>1. inbox[t] \in Seq(FeedEvent) /\ inbox[t] # <<>> /\ Head(inbox[t]).kind = "ledger"
  BY DEF FeedOK, Arrived
<1>2. QED
  BY <1>1 DEF FeedEvent, CustomerEvent, LedgerEvent, VoidEvent

LEMMA SameRow ==
    ASSUME BookTypes, NEW t \in Tills, NEW i \in DOMAIN book[t], NEW row, OnlyRow(t, i),
           book'[t][i] = row, SameButMoney(row, book[t][i])
    PROVE  SameDetails
<1>1. \A o \in Tills : DOMAIN book'[o] = DOMAIN book[o]
  BY DEF OnlyRow
<1>2. ASSUME NEW o \in Tills, NEW j \in DOMAIN book[o]
      PROVE  /\ book'[o][j].phone = book[o][j].phone /\ book'[o][j].limit = book[o][j].limit
             /\ book'[o][j].details = book[o][j].details
  <2>1. CASE o = t /\ j = i
    BY <2>1 DEF SameButMoney
  <2>2. CASE o # t \/ j # i
    BY <2>2 DEF OnlyRow
  <2>3. QED
    BY <2>1, <2>2
<1>3. QED
  BY <1>1, <1>2 DEF SameDetails

\* The money of a ledger event moves.
LEMMA MoneyMoves ==
    ASSUME AccountsIInv, NEW t \in Tills, applyLedger(t)
    PROVE  AccountsIInv'
<1>1. AtStep(t, "move") /\ UNCHANGED <<now, inbox, lost, misjudged>>
  BY DEF applyLedger
<1>2. req[t].doc \in DOMAIN book[t] /\ Arrived(t, "ledger")
  BY <1>1 DEF AccountsIInv, AccountSlotsOK, ApplyingOK, AtStep
<1>3. PICK i \in DOMAIN book[t], e \in LedgerEvent : i = req[t].doc /\ e = Head(inbox[t])
  BY <1>2, LedgerHead DEF AccountsIInv
<1>4. PICK old \in CustomerRow, stamp \in Nat : old = book[t][i] /\ stamp = Clock(t, now)
  BY RowIs, DeskAssumption DEF AccountsIInv, FeedOK
<1>5. PICK row : row = MoveMoney(old, e, stamp)
  OBVIOUS
<1>6. PICK slot : slot = Work("mark", t, i, None)
  OBVIOUS
<1>7. book' = [book EXCEPT ![t][i] = row] /\ Put(t, slot)
  BY <1>3, <1>4, <1>5, <1>6 DEF applyLedger
<1>8. e.column \in Columns /\ e.amount \in Int
  BY DEF LedgerEvent
<1>9. /\ SameButMoney(row, old) /\ row.posted = old.posted /\ row.loaded = old.loaded
      /\ row.balance = old.balance + (IF e.column = "balance" THEN e.amount ELSE 0)
      /\ row.credit = old.credit + (IF e.column = "credit" THEN e.amount ELSE 0)
      /\ old.freely \/ e.amount < 0 => row.freely
  BY <1>5, <1>8, MoveIs
<1>10. row \in CustomerRow
  BY <1>9 DEF SameButMoney
<1>11. BookTypes' /\ book'[t][i] = row /\ OnlyRow(t, i)
  BY <1>7, <1>10, RowWritten DEF AccountsIInv
<1>12. SameDetails
  BY <1>4, <1>9, <1>11, SameRow DEF AccountsIInv
<1>13. FeedOK' /\ now <= now' /\ now' \in Nat /\ \A o \in Tills, n \in Phones : Mail(o, n)' = Mail(o, n)
  BY <1>1 DEF AccountsIInv, FeedOK, Mail
<1>14. \A o \in Tills : DOMAIN book'[o] = DOMAIN book[o]
  BY <1>12 DEF SameDetails
<1>15. slot.step = "mark" /\ slot.at = t /\ slot.doc = i
  BY <1>6, SlotIs
<1>16. req'[t] = slot
  BY <1>7, Putting DEF AccountsIInv
<1>17. ApplyingOK(t)'
  BY <1>1, <1>2, <1>14, <1>15, <1>16 DEF ApplyingOK, Arrived
<1>18. AccountSlotsOK' /\ \A o \in Tills \ {t} : req'[o] = req[o]
  BY <1>1, <1>7, <1>14, <1>17, SyncMoves DEF AccountsIInv
<1>19. \A j, c : Due(t, j, c)' = 0
  BY <1>15, <1>16 DEF Due, AtStep
<1>20. \A o \in Tills \ {t} : \A j, c : Due(o, j, c)' = Due(o, j, c)
  BY <1>1, <1>18 DEF Due, AtStep
<1>21. \A j : j # i => \A c : Due(t, j, c) = 0
  BY <1>3 DEF Due
<1>22. /\ Due(t, i, "balance") = IF e.column = "balance" THEN e.amount ELSE 0
       /\ Due(t, i, "credit") = IF e.column = "credit" THEN e.amount ELSE 0
  BY <1>1, <1>3 DEF Due
<1>23. ASSUME row.phone \notin lost PROVE Balanced(t, i)'
  <2>1. Balanced(t, i)
    BY <1>4, <1>9, <1>23 DEF AccountsIInv, BooksOK, SameButMoney
  <2>2. /\ old.balance + (IF e.column = "balance" THEN e.amount ELSE 0) = old.posted
        /\ old.credit + (IF e.column = "credit" THEN e.amount ELSE 0) = old.loaded + old.doubled
        /\ old.freely \/ old.balance >= 0
    BY <1>4, <1>22, <2>1 DEF Balanced
  <2>3. /\ row.balance + 0 = row.posted /\ row.credit + 0 = row.loaded + row.doubled
    BY <1>8, <1>9, <1>10, <2>2 DEF CustomerRow, SameButMoney
  <2>4. row.freely \/ row.balance >= 0
    <3>1. old.balance \in Int
      BY DEF CustomerRow
    <3>2. CASE e.amount < 0 \/ old.freely
      BY <1>9, <3>2
    <3>3. CASE ~(e.amount < 0) /\ ~old.freely
      BY <1>8, <1>9, <2>2, <3>1, <3>3
    <3>4. QED
      BY <3>2, <3>3
  <2>5. QED
    BY <1>11, <1>19, <2>3, <2>4 DEF Balanced
<1>24. BooksOK'
  BY <1>1, <1>11, <1>19, <1>20, <1>21, <1>23, BooksMove DEF AccountsIInv
<1>25. \A o, j : Untold(o, j) => Untold(o, j)'
  BY <1>7, UntoldStays, DeskAssumption DEF AccountsIInv
<1>26. BookOK'
  BY <1>1, <1>12, <1>13, <1>25, BookStays DEF AccountsIInv
<1>27. QED
  BY <1>11, <1>13, <1>18, <1>24, <1>26 DEF AccountsIInv

\* A till writes the row of a ledger event and has its money still to move.
Owing(row, e) ==
    /\ row.balance + (IF e.column = "balance" THEN e.amount ELSE 0) = row.posted
    /\ row.credit + (IF e.column = "credit" THEN e.amount ELSE 0) = row.loaded + row.doubled
    /\ row.freely \/ row.balance >= 0
LEMMA RowComes ==
    ASSUME AccountsIInv, NEW t \in Tills, NEW e \in LedgerEvent, e = Head(inbox[t]),
           Arrived(t, "ledger"), req[t] = IdleSlot, NEW i, NEW row, BookTypes',
           book'[t][i] = row, OnlyRow(t, i), NEW slot, Put(t, slot), slot.step = "move",
           slot.at = t, slot.doc = i, now' \in 0..MaxMoments, UNCHANGED <<inbox, lost>>,
           row.phone \in lost \/ Owing(row, e)
    PROVE  /\ FeedOK' /\ AccountSlotsOK' /\ BooksOK'
           /\ \A o, j : Untold(o, j) => Untold(o, j)'
<1>1. FeedOK'
  BY DEF AccountsIInv, FeedOK
<1>2. /\ \A o \in Tills : DOMAIN book[o] \subseteq DOMAIN book'[o]
      /\ i \in DOMAIN book'[t]
  BY DEF OnlyRow
<1>3. req'[t] = slot
  BY Putting DEF AccountsIInv
<1>4. ApplyingOK(t)'
  BY <1>2, <1>3 DEF ApplyingOK, Arrived
<1>5. AccountSlotsOK' /\ \A o \in Tills \ {t} : req'[o] = req[o]
  BY <1>2, <1>4, SyncMoves DEF AccountsIInv
<1>6. \A j, c : Due(t, j, c) = 0
  BY DEF Due, AtStep, IdleSlot
<1>7. \A j : j # i => \A c : Due(t, j, c)' = 0
  BY <1>3 DEF Due
<1>8. \A o \in Tills \ {t} : \A j, c : Due(o, j, c)' = Due(o, j, c)
  BY <1>5 DEF Due, AtStep
<1>9. /\ Due(t, i, "balance")' = IF e.column = "balance" THEN e.amount ELSE 0
      /\ Due(t, i, "credit")' = IF e.column = "credit" THEN e.amount ELSE 0
  BY <1>3 DEF Due, AtStep
<1>10. row.phone \in lost \/ Balanced(t, i)'
  BY <1>9 DEF Balanced, Owing
<1>11. BooksOK'
  BY <1>6, <1>7, <1>8, <1>10, BooksMove DEF AccountsIInv
<1>12. \A o, j : Untold(o, j) => Untold(o, j)'
  BY UntoldStays, DeskAssumption DEF AccountsIInv
<1>13. QED
  BY <1>1, <1>5, <1>11, <1>12

LEMMA ClockRuns ==
    ASSUME FeedOK, NEW o \in Tills, NEW m \in 1..now
    PROVE  Clock(o, m) \in Nat /\ Clock(o, m) > 0
<1>1. m \in 0..MaxMoments /\ 0 \in 0..MaxMoments /\ 0 < m
  BY DeskAssumption DEF FeedOK
<1>2. Clock(o, m) \in Nat /\ Clock(o, 0) \in Nat /\ Clock(o, 0) < Clock(o, m)
  BY <1>1, DeskAssumption, ClockAssumption
<1>3. QED
  BY <1>2

LEMMA AppendThenWrite ==
    ASSUME NEW rows \in Seq(CustomerRow), NEW old \in CustomerRow, NEW row \in CustomerRow
    PROVE  [Append(rows, old) EXCEPT ![Len(rows) + 1] = row] = Append(rows, row)
<1>1. PICK n \in Nat : n = Len(rows)
  OBVIOUS
<1>2. PICK f, g : f = Append(rows, old) /\ g = Append(rows, row)
  OBVIOUS
<1>3. /\ f \in [1..(n + 1) -> CustomerRow] /\ g \in [1..(n + 1) -> CustomerRow]
      /\ \A k \in 1..n : f[k] = rows[k] /\ g[k] = rows[k]
      /\ g[n + 1] = row
  <2>1. f \in Seq(CustomerRow) /\ g \in Seq(CustomerRow) /\ Len(f) = n + 1 /\ Len(g) = n + 1
    BY <1>1, <1>2
  <2>2. f \in [1..(n + 1) -> CustomerRow] /\ g \in [1..(n + 1) -> CustomerRow]
    BY <2>1
  <2>3. ASSUME NEW k \in 1..n PROVE f[k] = rows[k] /\ g[k] = rows[k]
    <3>1. k \in 1..Len(rows)
      BY <1>1
    <3>2. QED
      BY <1>2, <3>1
  <2>4. g[n + 1] = row
    BY <1>1, <1>2
  <2>5. QED
    BY <2>2, <2>3, <2>4
<1>4. [f EXCEPT ![n + 1] = row] \in [1..(n + 1) -> CustomerRow]
  BY <1>3
<1>5. \A k \in 1..(n + 1) : [f EXCEPT ![n + 1] = row][k] = g[k]
  <2>1. SUFFICES ASSUME NEW k \in 1..(n + 1) PROVE [f EXCEPT ![n + 1] = row][k] = g[k]
    OBVIOUS
  <2>2. CASE k = n + 1
    BY <1>3, <2>2
  <2>3. CASE k # n + 1
    <3>1. k \in 1..n
      BY <2>3
    <3>2. QED
      BY <1>3, <2>3, <3>1
  <2>4. QED
    BY <2>2, <2>3
<1>6. QED
  BY <1>1, <1>2, <1>3, <1>4, <1>5

LEMMA LedgerRowComes ==
    ASSUME AccountsIInv, NEW t \in Tills, applyLedgerRow(t)
    PROVE  AccountsIInv'
<1>1. /\ req[t] = IdleSlot /\ Arrived(t, "ledger") /\ Moment /\ UNCHANGED <<inbox, lost, misjudged>>
  BY DEF applyLedgerRow, Idle
<1>2. PICK e \in LedgerEvent : e = Head(inbox[t])
  BY <1>1, LedgerHead DEF AccountsIInv
<1>3. e.column \in Columns /\ e.amount \in Int /\ e.phone \in Phones
  BY DEF LedgerEvent
<1>4. /\ now' \in 1..MaxMoments /\ now <= now' /\ nowStamp(t) \in Nat
  BY <1>1, StampNow DEF AccountsIInv, FeedOK
<1>5. \A o \in Tills, n \in Phones : Mail(o, n)' = Mail(o, n)
  BY <1>1 DEF Mail
<1>6. CASE Rows(t, e.phone) # {}
  <2>1. PICK i \in DOMAIN book[t] : i = Min(Rows(t, e.phone))
    BY <1>6, RowsAre DEF AccountsIInv
  <2>2. PICK old \in CustomerRow : old = book[t][i]
    BY RowIs DEF AccountsIInv
  <2>3. PICK row : row = recordLedgerTxNoBalance(old, e.column, e.amount)
    OBVIOUS
  <2>4. PICK slot : slot = Work("move", t, i, e.amount)
    OBVIOUS
  <2>5. book' = [book EXCEPT ![t] = [@ EXCEPT ![i] = row]] /\ Put(t, slot)
    <3>1. book' = [book EXCEPT ![t] = [book[t] EXCEPT ![i] = row]] /\ Put(t, slot)
      BY <1>2, <1>6, <2>1, <2>2, <2>3, <2>4 DEF applyLedgerRow
    <3>2. QED
      BY <3>1
  <2>6. book' = [book EXCEPT ![t][i] = row]
    BY <2>5
  <2>7. /\ SameButMoney(row, old) /\ row.balance = old.balance /\ row.credit = old.credit
        /\ row.posted = old.posted + (IF e.column = "balance" THEN e.amount ELSE 0)
        /\ row.loaded = old.loaded + (IF e.column = "credit" THEN e.amount ELSE 0)
        /\ row.freely = old.freely
    BY <1>3, <2>3, RecordIs
  <2>8. row \in CustomerRow
    BY <2>7 DEF SameButMoney
  <2>9. BookTypes' /\ book'[t][i] = row /\ OnlyRow(t, i)
    BY <2>6, <2>8, RowWritten DEF AccountsIInv
  <2>10. slot.step = "move" /\ slot.at = t /\ slot.doc = i
    BY <2>4, SlotIs
  <2>11. ASSUME row.phone \notin lost PROVE Owing(row, e)
    <3>1. Balanced(t, i)
      BY <2>2, <2>7, <2>11 DEF AccountsIInv, BooksOK, SameButMoney
    <3>2. Due(t, i, "balance") = 0 /\ Due(t, i, "credit") = 0
      BY <1>1 DEF Due, AtStep, IdleSlot
    <3>3. /\ old.balance + 0 = old.posted /\ old.credit + 0 = old.loaded + old.doubled
          /\ old.freely \/ old.balance >= 0
      BY <2>2, <3>1, <3>2 DEF Balanced
    <3>4. /\ row.balance + (IF e.column = "balance" THEN e.amount ELSE 0) = row.posted
          /\ row.credit + (IF e.column = "credit" THEN e.amount ELSE 0) = row.loaded + row.doubled
      BY <1>3, <2>7, <2>8, <3>3 DEF CustomerRow, SameButMoney
    <3>5. QED
      BY <2>7, <3>3, <3>4 DEF Owing
  <2>12. /\ FeedOK' /\ AccountSlotsOK' /\ BooksOK'
         /\ \A o, j : Untold(o, j) => Untold(o, j)'
    BY <1>1, <1>2, <1>4, <2>5, <2>9, <2>10, <2>11, RowComes
  <2>13. SameDetails
    BY <2>2, <2>7, <2>9, SameRow DEF AccountsIInv
  <2>14. BookOK'
    BY <1>1, <1>4, <1>5, <2>12, <2>13, BookStays DEF AccountsIInv
  <2>15. QED
    BY <2>9, <2>12, <2>14 DEF AccountsIInv
<1>7. CASE Rows(t, e.phone) = {}
  <2>1. PICK i : i = Len(book[t]) + 1
    OBVIOUS
  <2>2. PICK old : old = NewCustomer(e.phone, 0, nowStamp(t))
    OBVIOUS
  <2>3. /\ old \in CustomerRow /\ old.phone = e.phone /\ old.limit = 0 /\ old.details = 0
        /\ old.balance = 0 /\ old.credit = 0 /\ old.posted = 0 /\ old.loaded = 0 /\ old.doubled = 0
    BY <1>3, <1>4, <2>2 DEF NewCustomer, CustomerRow
  <2>4. PICK row : row = recordLedgerTxNoBalance(old, e.column, e.amount)
    OBVIOUS
  <2>5. /\ SameButMoney(row, old) /\ row.balance = old.balance /\ row.credit = old.credit
        /\ row.posted = old.posted + (IF e.column = "balance" THEN e.amount ELSE 0)
        /\ row.loaded = old.loaded + (IF e.column = "credit" THEN e.amount ELSE 0)
    BY <1>3, <2>3, <2>4, RecordIs
  <2>6. /\ row \in CustomerRow /\ row.phone = e.phone /\ row.limit = 0 /\ row.details = 0
        /\ row.balance = 0 /\ Owing(row, e)
    BY <1>3, <2>3, <2>5 DEF SameButMoney, Owing
  <2>7. PICK slot : slot = Work("move", t, i, e.amount)
    OBVIOUS
  <2>8. /\ book[t] \in Seq(CustomerRow)
        /\ [Append(book[t], old) EXCEPT ![i] = row] = Append(book[t], row)
    <3>1. book[t] \in Seq(CustomerRow)
      BY DEF AccountsIInv, BookTypes
    <3>2. QED
      BY <2>1, <2>3, <2>6, <3>1, AppendThenWrite
  <2>9. book' = [book EXCEPT ![t] = Append(@, row)] /\ Put(t, slot)
    <3>1. Append(book[t], old)[i] = old /\ Len(Append(book[t], old)) = i
      BY <2>1, <2>3, <2>8
    <3>2. book' = [book EXCEPT ![t] = [Append(book[t], old) EXCEPT ![i] = row]] /\ Put(t, slot)
      BY <1>2, <1>7, <2>2, <2>4, <2>7, <3>1 DEF applyLedgerRow
    <3>3. QED
      BY <2>8, <3>2
  <2>10. BookTypes' /\ book'[t][i] = row /\ OnlyRow(t, i) /\ i \notin DOMAIN book[t]
    BY <2>1, <2>6, <2>9, RowAppended DEF AccountsIInv
  <2>11. slot.step = "move" /\ slot.at = t /\ slot.doc = i
    BY <2>7, SlotIs
  <2>12. /\ FeedOK' /\ AccountSlotsOK' /\ BooksOK'
         /\ \A o, j : Untold(o, j) => Untold(o, j)'
    <3>1. now' \in 0..MaxMoments /\ Owing(row, e)
      BY <1>4, <2>6
    <3>2. QED
      BY <1>1, <1>2, <2>9, <2>10, <2>11, <3>1, RowComes
  <2>13. BookOK'
    <3>1. \A o \in Tills, n \in Phones : Rows(o, n) \subseteq Rows(o, n)'
      BY <2>10 DEF Rows, OnlyRow
    <3>2. Regular \notin lost' => \A o \in Tills : Rows(o, Regular)' # {}
      BY <1>1, <3>1, AccountsAssumption DEF AccountsIInv, BookOK
    <3>3. ASSUME NEW n \in Phones \ (lost' \cup misjudged'), NEW d \in Shown(n)'
          PROVE  d \in Shown(n) \/ DetailsNew(d, n)
      <4>1. \/ d \in Shown(n)
            \/ row.phone = n /\ d = [stamp |-> row.details, limit |-> row.limit]
        <5>1. \A o \in Tills : Mail(o, n)' \subseteq Mail(o, n)
          BY <1>5
        <5>2. QED
          BY <2>10, <2>12, <5>1, ShownNext
      <4>2. SUFFICES ASSUME row.phone = n, d.stamp = 0, d.limit = 0 PROVE DetailsNew(d, n)
        BY <2>6, <4>1
      <4>3. n # Regular
        BY <1>1, <1>7, <2>6, <4>2 DEF AccountsIInv, BookOK
      <4>4. Base(n) = 0
        BY <4>3 DEF Base
      <4>5. ASSUME NEW s \in Shown(n)', s.stamp = 0 PROVE s.limit = 0
        <5>1. \/ s \in Shown(n)
              \/ row.phone = n /\ s = [stamp |-> row.details, limit |-> row.limit]
          <6>1. \A o \in Tills : Mail(o, n)' \subseteq Mail(o, n)
            BY <1>5
          <6>2. QED
            BY <2>10, <2>12, <6>1, ShownNext
        <5>2. CASE s \in Shown(n)
          <6>1. DetailsOK(n)
            BY <1>1 DEF AccountsIInv, BookOK
          <6>2. QED
            BY <4>4, <4>5, <5>2, <6>1, ClockRuns DEF DetailsOK, AccountsIInv
        <5>3. QED
          BY <2>6, <5>1, <5>2
      <4>6. QED
        BY <4>2, <4>4, <4>5 DEF DetailsNew, Got
    <3>4. ASSUME NEW n \in Phones, NEW o \in Tills, NEW stamp \in Nat, Got(o, n, stamp)
          PROVE  Got(o, n, stamp)'
      BY <1>5, <2>10, <3>4, GotStays DEF AccountsIInv
    <3>5. QED
      BY <1>1, <1>4, <3>2, <3>3, <3>4, BookMoves DEF AccountsIInv
  <2>14. QED
    BY <2>10, <2>12, <2>13 DEF AccountsIInv
<1>8. QED
  BY <1>6, <1>7

-----------------------------------------------------------------------------
(***************************************************************************)
(* The customer book.                                                      *)
(***************************************************************************)
\* A row of the same money.
MoneySame(row, old) ==
    /\ row.balance = old.balance /\ row.posted = old.posted /\ row.credit = old.credit
    /\ row.loaded = old.loaded /\ row.doubled = old.doubled /\ row.freely = old.freely
LEMMA MoneyStays ==
    ASSUME BooksOK, NEW t \in Tills, NEW i \in DOMAIN book[t], OnlyRow(t, i),
           MoneySame(book'[t][i], book[t][i]), lost \subseteq lost',
           book'[t][i].phone = book[t][i].phone \/ book'[t][i].phone \in lost',
           \A o \in Tills : \A j, c : Due(o, j, c)' = Due(o, j, c)
    PROVE  BooksOK'
<1>1. ASSUME book'[t][i].phone \notin lost' PROVE Balanced(t, i)'
  <2>1. Balanced(t, i)
    BY <1>1 DEF BooksOK
  <2>2. /\ Due(t, i, "balance")' = Due(t, i, "balance")
        /\ Due(t, i, "credit")' = Due(t, i, "credit")
    OBVIOUS
  <2>3. QED
    BY <2>1, <2>2 DEF Balanced, MoneySame
<1>2. QED
  BY <1>1, BooksMove

\* A new row begins without money.
MoneyNone(row) ==
    /\ row.balance = 0 /\ row.posted = 0 /\ row.credit = 0
    /\ row.loaded = 0 /\ row.doubled = 0
LEMMA MoneyBegins ==
    ASSUME AccountsIInv, NEW t \in Tills, NEW i, i \notin DOMAIN book[t], OnlyRow(t, i),
           MoneyNone(book'[t][i]), lost \subseteq lost',
           \A o \in Tills : \A j, c : Due(o, j, c)' = Due(o, j, c)
    PROVE  BooksOK'
<1>1. \A c : Due(t, i, c) = 0
  BY DEF AccountsIInv, AccountSlotsOK, ApplyingOK, Due, AtStep
<1>2. Due(t, i, "balance")' = 0 /\ Due(t, i, "credit")' = 0
  BY <1>1
<1>3. Balanced(t, i)'
  BY <1>2 DEF Balanced, MoneyNone
<1>4. QED
  BY <1>3, BooksMove DEF AccountsIInv

LEMMA CreateLookStep ==
    ASSUME AccountsIInv, NEW q \in Requests, NEW t \in Tills, NEW n \in Phones,
           CreateCustomerLook(q, t, n)
    PROVE  AccountsIInv'
<1>1. PICK slot : slot = Work("create", t, n, None)
  OBVIOUS
<1>2. /\ Put(q, slot) /\ UNCHANGED <<now, inbox, book, lost, misjudged>>
      /\ req[q].step \notin TellSteps
  BY <1>1 DEF CreateCustomerLook, Idle, IdleSlot, TellSteps
<1>3. AccountSlotOK(slot)
  BY <1>1, SlotIs DEF AccountSlotOK, Columns, TellSteps
<1>4. now <= now' /\ now' \in 0..MaxMoments
  BY <1>2 DEF AccountsIInv, FeedOK
<1>5. QED
  BY <1>2, <1>3, <1>4, RequestGoesOn

\* A form is written, its details to be told of next.
LEMMA FormWritten ==
    ASSUME AccountsIInv, NEW q \in Requests, req[q].step \notin TellSteps, NEW t \in Tills, NEW i,
           OnlyRow(t, i), BookTypes', NEW slot, Put(q, slot), slot.step = "emitCustomer",
           slot.at = t, slot.doc = i, Moment, UNCHANGED <<inbox, misjudged>>, lost \subseteq lost'
    PROVE  /\ FeedOK' /\ AccountSlotsOK'
           /\ \A o \in Tills : \A j, c : Due(o, j, c)' = Due(o, j, c)
           /\ \A o, j : Untold(o, j) => Untold(o, j)'
           /\ Untold(t, i)'
<1>1. now' \in 1..MaxMoments
  BY StampNow DEF AccountsIInv
<1>2. FeedOK' /\ HeadsStay
  BY <1>1 DEF AccountsIInv, FeedOK, HeadsStay
<1>3. (\A o \in Tills : DOMAIN book[o] \subseteq DOMAIN book'[o]) /\ i \in DOMAIN book'[t]
  BY DEF OnlyRow
<1>4. AccountSlotOK(slot)'
  BY <1>3 DEF AccountSlotOK, Columns, TellSteps
<1>5. AccountSlotsOK' /\ SyncingStays
  BY <1>2, <1>3, <1>4, RequestMoves DEF AccountsIInv
<1>6. \A o \in Tills : \A j, c : Due(o, j, c)' = Due(o, j, c)
  BY <1>2, <1>5, DueStays DEF AccountsIInv
<1>7. \A o, j : Untold(o, j) => Untold(o, j)'
  BY UntoldStays DEF AccountsIInv
<1>8. req'[q] = slot
  BY Putting DEF AccountsIInv
<1>9. Untold(t, i)'
  BY <1>8 DEF Untold, Tells
<1>10. QED
  BY <1>2, <1>5, <1>6, <1>7, <1>9

LEMMA FormShown ==
    ASSUME AccountsIInv, NEW t \in Tills, NEW i, OnlyRow(t, i), BookTypes',
           now <= now', now' \in Nat, lost \subseteq lost', UNCHANGED <<inbox, misjudged>>,
           \A o, j : Untold(o, j) => Untold(o, j)', Untold(t, i)',
           i \in DOMAIN book[t] =>
               \/ /\ book'[t][i].phone = book[t][i].phone
                  /\ book[t][i].details <= book'[t][i].details
               \/ book[t][i].phone \in lost'
    PROVE  BookOK'
<1>1. \A o \in Tills, n \in Phones : Mail(o, n)' = Mail(o, n)
  BY DEF Mail
<1>2. ASSUME Regular \notin lost', NEW o \in Tills PROVE Rows(o, Regular)' # {}
  <2>1. PICK j : j \in Rows(o, Regular)
    BY <1>2 DEF AccountsIInv, BookOK
  <2>2. j \in DOMAIN book[o] /\ book[o][j].phone = Regular /\ j \in DOMAIN book'[o]
    BY <2>1 DEF Rows, OnlyRow
  <2>3. book'[o][j].phone = Regular
    <3>1. CASE o = t /\ j = i
      BY <1>2, <2>2, <3>1
    <3>2. CASE o # t \/ j # i
      BY <2>2, <3>2 DEF OnlyRow
    <3>3. QED
      BY <3>1, <3>2
  <2>4. QED
    BY <2>2, <2>3 DEF Rows
<1>3. ASSUME NEW n \in Phones \ (lost' \cup misjudged'), NEW d \in Shown(n)' PROVE d \in Shown(n)
  <2>1. \A o \in Tills : Mail(o, n)' \subseteq Mail(o, n)
    BY <1>1
  <2>2. QED
    BY <2>1, ShownNext
<1>4. ASSUME NEW n \in Phones \ (lost' \cup misjudged'), NEW o \in Tills, NEW stamp \in Nat,
             Got(o, n, stamp)
      PROVE  Got(o, n, stamp)'
  <2>1. Mail(o, n) \subseteq Mail(o, n)'
    BY <1>1
  <2>2. i \in DOMAIN book[t] /\ book[t][i].phone = n =>
            book'[t][i].phone = n /\ book[t][i].details <= book'[t][i].details
    OBVIOUS
  <2>3. QED
    BY <1>4, <2>1, <2>2, GotStays DEF AccountsIInv
<1>5. QED
  BY <1>2, <1>3, <1>4, BookMoves DEF AccountsIInv

LEMMA CreateStep ==
    ASSUME AccountsIInv, NEW q \in Requests, CreateCustomer(q)
    PROVE  AccountsIInv'
<1>1. req[q].step = "create" /\ Moment /\ UNCHANGED <<inbox, lost, misjudged>>
  BY DEF CreateCustomer, AtStep
<1>2. req[q].at \in Tills /\ req[q].doc \in Phones
  BY <1>1 DEF AccountsIInv, AccountSlotsOK, AccountSlotOK, TellSteps
<1>3. PICK t \in Tills : t = req[q].at
  BY <1>2
<1>4. PICK i : i = Len(book[t]) + 1
  OBVIOUS
<1>5. PICK row : row = NewCustomer(req[q].doc, Min(Limits), nowStamp(t))
  OBVIOUS
<1>6. PICK slot : slot = Work("emitCustomer", t, i, None)
  OBVIOUS
<1>7. book' = [book EXCEPT ![t] = Append(@, row)] /\ Put(q, slot)
  BY <1>3, <1>4, <1>5, <1>6 DEF CreateCustomer, Telling
<1>8. nowStamp(t) \in Nat /\ now' \in 1..MaxMoments /\ now' = now + 1 /\ now \in Nat
  BY <1>1, StampNow DEF AccountsIInv, FeedOK
<1>9. row \in CustomerRow /\ MoneyNone(row)
  BY <1>2, <1>5, <1>8, LimitsAre DEF NewCustomer, CustomerRow, MoneyNone
<1>10. BookTypes' /\ book'[t][i] = row /\ OnlyRow(t, i) /\ i \notin DOMAIN book[t]
  BY <1>4, <1>7, <1>9, RowAppended DEF AccountsIInv
<1>11. slot.step = "emitCustomer" /\ slot.at = t /\ slot.doc = i
  BY <1>6, SlotIs
<1>12. /\ FeedOK' /\ AccountSlotsOK'
       /\ \A o \in Tills : \A j, c : Due(o, j, c)' = Due(o, j, c)
       /\ \A o, j : Untold(o, j) => Untold(o, j)'
       /\ Untold(t, i)'
  <2>1. req[q].step \notin TellSteps /\ lost \subseteq lost'
    BY <1>1 DEF TellSteps
  <2>2. QED
    BY <1>1, <1>7, <1>10, <1>11, <2>1, FormWritten
<1>13. BooksOK'
  BY <1>1, <1>9, <1>10, <1>12, MoneyBegins
<1>14. now <= now' /\ now' \in Nat /\ lost \subseteq lost'
  BY <1>1, <1>8
<1>15. BookOK'
  BY <1>1, <1>10, <1>12, <1>14, FormShown
<1>16. QED
  BY <1>10, <1>12, <1>13, <1>15 DEF AccountsIInv

LEMMA UpdateStep ==
    ASSUME AccountsIInv, NEW q \in Requests, NEW t \in Tills, NEW i \in DOMAIN book[t],
           NEW n \in Phones, NEW limit \in Limits, UpdateCustomer(q, t, i, n, limit)
    PROVE  AccountsIInv'
<1>1. PICK old \in CustomerRow : old = book[t][i]
  BY RowIs DEF AccountsIInv
<1>2. PICK row : row = [old EXCEPT !.phone = n, !.limit = limit, !.stamp = nowStamp(t)]
  OBVIOUS
<1>3. PICK slot : slot = Work("emitCustomer", t, i, None)
  OBVIOUS
<1>4. /\ req[q] = IdleSlot /\ Moment /\ UNCHANGED <<inbox, misjudged>> /\ Put(q, slot)
      /\ book' = [book EXCEPT ![t][i] = row]
      /\ lost \subseteq lost' /\ (n = old.phone \/ (n \in lost' /\ old.phone \in lost'))
  <2>1. book' = [book EXCEPT ![t] = [book[t] EXCEPT ![i] = row]]
    BY <1>1, <1>2 DEF UpdateCustomer
  <2>2. book' = [book EXCEPT ![t][i] = row]
    BY <2>1
  <2>3. QED
    BY <1>1, <1>3, <2>2 DEF UpdateCustomer, Telling, Idle
<1>5. nowStamp(t) \in Nat /\ now' \in 1..MaxMoments /\ now' = now + 1 /\ now \in Nat
  BY <1>4, StampNow DEF AccountsIInv, FeedOK
<1>6. row \in CustomerRow /\ MoneySame(row, old) /\ row.details = old.details /\ row.phone = n
  BY <1>2, <1>5 DEF CustomerRow, MoneySame
<1>7. BookTypes' /\ book'[t][i] = row /\ OnlyRow(t, i)
  BY <1>4, <1>6, RowWritten DEF AccountsIInv
<1>8. slot.step = "emitCustomer" /\ slot.at = t /\ slot.doc = i
  BY <1>3, SlotIs
<1>9. /\ FeedOK' /\ AccountSlotsOK'
      /\ \A o \in Tills : \A j, c : Due(o, j, c)' = Due(o, j, c)
      /\ \A o, j : Untold(o, j) => Untold(o, j)'
      /\ Untold(t, i)'
  <2>1. req[q].step \notin TellSteps
    BY <1>4 DEF IdleSlot, TellSteps
  <2>2. QED
    BY <1>4, <1>7, <1>8, <2>1, FormWritten
<1>10. BooksOK'
  BY <1>1, <1>4, <1>6, <1>7, <1>9, MoneyStays DEF AccountsIInv
<1>11. BookOK'
  <2>1. now <= now' /\ now' \in Nat
    BY <1>5
  <2>2. old.details <= row.details
    BY <1>6 DEF CustomerRow
  <2>3. \/ book'[t][i].phone = book[t][i].phone /\ book[t][i].details <= book'[t][i].details
        \/ book[t][i].phone \in lost'
    BY <1>1, <1>4, <1>6, <1>7, <2>2
  <2>4. QED
    BY <1>4, <1>7, <1>9, <2>1, <2>3, FormShown
<1>12. QED
  BY <1>7, <1>9, <1>10, <1>11 DEF AccountsIInv

\* The row is read before it is told of.
LEMMA ReadStep ==
    ASSUME AccountsIInv, NEW q \in Requests, EmitCustomerRead(q)
    PROVE  AccountsIInv'
<1>1. req[q].step = "emitCustomer" /\ UNCHANGED <<now, inbox, book, lost, misjudged>>
  BY DEF EmitCustomerRead, AtStep, accountVars
<1>2. req[q].at \in Tills /\ req[q].doc \in DOMAIN book[req[q].at]
  BY <1>1 DEF AccountsIInv, AccountSlotsOK, AccountSlotOK, TellSteps
<1>3. PICK row \in CustomerRow : row = book[req[q].at][req[q].doc]
  BY <1>2, RowIs DEF AccountsIInv
<1>4. PICK read : read = [phone |-> row.phone, limit |-> row.limit]
  OBVIOUS
<1>5. read \in [phone : Phones, limit : Limits \cup {0}]
  BY <1>4 DEF CustomerRow
<1>6. PICK slot : slot = Work("send", req[q].at, req[q].doc, read)
  OBVIOUS
<1>7. Put(q, slot)
  BY <1>3, <1>4, <1>6 DEF EmitCustomerRead, Telling
<1>8. slot.step = "send" /\ slot.at = req[q].at /\ slot.doc = req[q].doc /\ slot.seen = read
  BY <1>6, SlotIs
<1>9. AccountSlotOK(slot)'
  BY <1>1, <1>2, <1>5, <1>8 DEF AccountSlotOK, Columns, TellSteps
<1>10. FeedOK' /\ HeadsStay /\ now <= now' /\ \A o \in Tills, n \in Phones : Mail(o, n)' = Mail(o, n)
  BY <1>1 DEF AccountsIInv, FeedOK, HeadsStay, Mail
<1>11. AccountSlotsOK' /\ SyncingStays
  BY <1>1, <1>7, <1>9, <1>10, RequestMoves DEF AccountsIInv
<1>12. \A o \in Tills : \A j, c : Due(o, j, c)' = Due(o, j, c)
  BY <1>10, <1>11, DueStays DEF AccountsIInv
<1>13. \A o, j : Untold(o, j) => Untold(o, j)'
  BY <1>7, <1>8, UntoldStays DEF AccountsIInv, TellSteps
<1>14. QED
  BY <1>1, <1>10, <1>11, <1>12, <1>13, BookAlone

\* Details that are sent have a stamp of their own, and everyone is to get them.  Of a row
\* nobody else is about to tell of, they are those of the row.
LEMMA EmitStep ==
    ASSUME AccountsIInv, NEW q \in Requests, EmitCustomer(q)
    PROVE  AccountsIInv'
<1>1. req[q].step = "send" /\ Moment /\ lost' = lost /\ Put(q, IdleSlot)
  BY DEF EmitCustomer, AtStep
<1>2. /\ req[q].at \in Tills /\ req[q].doc \in DOMAIN book[req[q].at]
      /\ req[q].seen \in [phone : Phones, limit : Limits \cup {0}]
  BY <1>1 DEF AccountsIInv, AccountSlotsOK, AccountSlotOK, TellSteps
<1>3. PICK t \in Tills : t = req[q].at
  BY <1>2
<1>4. PICK i, read : i = req[q].doc /\ read = req[q].seen
  OBVIOUS
<1>5. t = req[q].at /\ i = req[q].doc
  BY <1>3, <1>4
<1>6. i \in DOMAIN book[t] /\ read.phone \in Phones /\ read.limit \in Limits \cup {0}
  BY <1>2, <1>4, <1>5
<1>7. PICK old \in CustomerRow : old = book[t][i]
  BY <1>6, RowIs DEF AccountsIInv
<1>8. PICK s \in Nat : s = nowStamp(t)
  BY <1>1, StampNow DEF AccountsIInv
<1>9. PICK e : e = [kind |-> "customer", phone |-> read.phone, limit |-> read.limit, stamp |-> s]
  OBVIOUS
<1>10. PICK row : row = [old EXCEPT !.details = s]
  OBVIOUS
<1>11. /\ Emit(t, e) /\ book' = [book EXCEPT ![t][i] = row]
       /\ misjudged \subseteq misjudged'
       /\ \/ /\ old.details < s /\ read.phone = old.phone
             /\ read.limit = old.limit \/ \E r \in Requests \ {q} : Tells(r, t, i)
          \/ {read.phone, old.phone} \subseteq misjudged'
  <2>1. Emit(t, e)
    BY <1>4, <1>5, <1>8, <1>9 DEF EmitCustomer
  <2>2. book' = [book EXCEPT ![t] = [book[t] EXCEPT ![i] = row]]
    BY <1>5, <1>7, <1>8, <1>10 DEF EmitCustomer
  <2>3. book' = [book EXCEPT ![t][i] = row]
    BY <2>2
  <2>4. misjudged' = IF /\ old.details < s /\ read.phone = old.phone
                        /\ read.limit = old.limit \/ \E r \in Requests \ {q} : Tells(r, t, i)
                     THEN misjudged ELSE misjudged \cup {read.phone, old.phone}
    BY <1>4, <1>5, <1>7, <1>8 DEF EmitCustomer
  <2>5. QED
    BY <2>1, <2>3, <2>4
<1>12. /\ row \in CustomerRow /\ MoneySame(row, old) /\ row.phone = old.phone
       /\ row.limit = old.limit /\ row.details = s
  BY <1>10 DEF CustomerRow, MoneySame
<1>13. /\ e \in CustomerEvent /\ e \in FeedEvent /\ e.kind = "customer" /\ e.phone = read.phone
       /\ e.stamp = s /\ e.limit = read.limit
  BY <1>6, <1>9 DEF CustomerEvent, FeedEvent
<1>14. /\ now' \in 1..MaxMoments /\ now' = now + 1 /\ now \in Nat /\ now' \in 0..MaxMoments
       /\ s = Clock(t, now') /\ s > 0 /\ \A o \in Tills, m \in 1..now : Clock(o, m) # s
  BY <1>1, <1>8, StampNow DEF AccountsIInv, FeedOK
<1>15. BookTypes' /\ book'[t][i] = row /\ OnlyRow(t, i)
  BY <1>6, <1>11, <1>12, RowWritten DEF AccountsIInv
<1>16. /\ FeedOK' /\ HeadsStay
       /\ \A o \in Tills, n \in Phones :
             Mail(o, n)' = Mail(o, n) \cup (IF o # t /\ e.kind = "customer" /\ e.phone = n
                                            THEN {e} ELSE {})
  BY <1>11, <1>13, <1>14, MailSent DEF AccountsIInv, HeadsStay
<1>17. AccountSlotsOK' /\ SyncingStays
  <2>1. PICK slot : slot = IdleSlot
    OBVIOUS
  <2>2. Put(q, slot) /\ AccountSlotOK(slot)'
    BY <1>1, <2>1 DEF AccountSlotOK, IdleSlot, Columns, TellSteps
  <2>3. \A o \in Tills : DOMAIN book[o] \subseteq DOMAIN book'[o]
    BY <1>15 DEF OnlyRow
  <2>4. QED
    BY <1>16, <2>2, <2>3, RequestMoves DEF AccountsIInv
<1>18. \A o \in Tills : \A j, c : Due(o, j, c)' = Due(o, j, c)
  BY <1>16, <1>17, DueStays DEF AccountsIInv
<1>19. BooksOK'
  BY <1>1, <1>6, <1>7, <1>12, <1>15, <1>18, MoneyStays DEF AccountsIInv
<1>20. ASSUME NEW o \in Tills, NEW j \in DOMAIN book[o], o # t \/ j # i, Untold(o, j)
       PROVE  Untold(o, j)'
  <2>1. PICK r \in Requests : Tells(r, o, j)
    BY <1>20 DEF Untold
  <2>2. r # q
    BY <1>5, <1>20, <2>1 DEF Tells
  <2>3. req'[r] = req[r]
    BY <1>1, <2>2, Putting DEF AccountsIInv
  <2>4. QED
    BY <2>1, <2>3 DEF Untold, Tells
<1>21. Regular \notin lost' => \A o \in Tills : Rows(o, Regular)' # {}
  <2>1. ASSUME NEW o \in Tills, NEW j \in Rows(o, Regular) PROVE j \in Rows(o, Regular)'
    <3>1. j \in DOMAIN book[o] /\ book[o][j].phone = Regular /\ j \in DOMAIN book'[o]
      BY <1>15 DEF Rows, OnlyRow
    <3>2. CASE o = t /\ j = i
      BY <1>7, <1>12, <1>15, <3>1, <3>2 DEF Rows
    <3>3. CASE o # t \/ j # i
      BY <1>15, <3>1, <3>3 DEF Rows, OnlyRow
    <3>4. QED
      BY <3>2, <3>3
  <2>2. QED
    BY <1>1, <2>1 DEF AccountsIInv, BookOK
<1>22. ASSUME NEW n \in Phones \ (lost' \cup misjudged'), NEW d \in Shown(n)'
       PROVE  \/ d \in Shown(n)
              \/ old.phone = n /\ d.stamp = s /\ d.limit = read.limit
  <2>1. \A o \in Tills : \A m \in Mail(o, n)' : m \in Mail(o, n) \/ m = e
    BY <1>16
  <2>2. \/ d \in Shown(n)
        \/ e.phone = n /\ d = [stamp |-> e.stamp, limit |-> e.limit]
        \/ /\ book'[t][i].phone = n /\ ~Untold(t, i)'
           /\ d = [stamp |-> book'[t][i].details, limit |-> book'[t][i].limit]
    BY <1>15, <1>20, <2>1, ShownMoves
  <2>3. CASE e.phone = n /\ d = [stamp |-> e.stamp, limit |-> e.limit]
    BY <1>11, <1>13, <2>3
  <2>4. ASSUME book'[t][i].phone = n, ~Untold(t, i)',
               d = [stamp |-> book'[t][i].details, limit |-> book'[t][i].limit]
        PROVE  old.phone = n /\ d.stamp = s /\ d.limit = read.limit
    <3>1. old.phone = n /\ d.stamp = s /\ d.limit = old.limit
      BY <1>12, <1>15, <2>4
    <3>2. ASSUME NEW r \in Requests \ {q}, Tells(r, t, i) PROVE FALSE
      <4>1. req'[r] = req[r]
        BY <1>1, Putting DEF AccountsIInv
      <4>2. Untold(t, i)'
        BY <3>2, <4>1 DEF Untold, Tells
      <4>3. QED
        BY <2>4, <4>2
    <3>3. QED
      BY <1>11, <3>1, <3>2
  <2>5. QED
    BY <2>2, <2>3, <2>4
<1>23. ASSUME NEW n \in Phones \ (lost' \cup misjudged'), NEW d \in Shown(n)'
       PROVE  d \in Shown(n) \/ DetailsNew(d, n)
  <2>1. SUFFICES ASSUME old.phone = n, d.stamp = s, d.limit = read.limit PROVE DetailsNew(d, n)
    BY <1>22
  <2>2. \E o \in Tills, m \in 1..now' : d.stamp = Clock(o, m)
    BY <1>14, <2>1
  <2>3. ASSUME NEW x \in Shown(n)', d.stamp = x.stamp PROVE d.limit = x.limit
    <3>1. CASE x \in Shown(n)
      <4>1. DetailsOK(n)
        BY <1>1, <1>11 DEF AccountsIInv, BookOK
      <4>2. x.stamp = 0 \/ \E o \in Tills, m \in 1..now : x.stamp = Clock(o, m)
        BY <3>1, <4>1 DEF DetailsOK
      <4>3. QED
        BY <1>14, <2>1, <2>3, <4>2
    <3>2. QED
      BY <1>22, <2>1, <3>1
  <2>4. ASSUME NEW o \in Tills PROVE Got(o, n, d.stamp)'
    <3>1. CASE o # t
      <4>1. e \in Mail(o, n)'
        BY <1>11, <1>13, <1>16, <2>1, <3>1
      <4>2. e.stamp >= d.stamp
        BY <1>13, <2>1
      <4>3. QED
        BY <4>1, <4>2 DEF Got
    <3>2. CASE o = t
      <4>1. i \in DOMAIN book'[t] /\ book'[t][i].phone = n
        BY <1>12, <1>15, <2>1 DEF OnlyRow
      <4>2. i \in Rows(t, n)'
        BY <4>1 DEF Rows
      <4>3. \A j \in Rows(t, n)' : Alone(t, j)' => j = i
        BY <4>1 DEF Rows, Alone
      <4>4. book'[t][i].details >= d.stamp
        BY <1>12, <1>15, <2>1
      <4>5. QED
        BY <3>2, <4>2, <4>3, <4>4 DEF Got
    <3>3. QED
      BY <3>1, <3>2
  <2>5. QED
    BY <2>2, <2>3, <2>4 DEF DetailsNew
<1>24. ASSUME NEW n \in Phones \ (lost' \cup misjudged'), NEW o \in Tills, NEW stamp \in Nat,
              Got(o, n, stamp)
       PROVE  Got(o, n, stamp)'
  <2>1. Mail(o, n) \subseteq Mail(o, n)'
    BY <1>16
  <2>2. book[t][i].phone = n =>
            book'[t][i].phone = n /\ book[t][i].details <= book'[t][i].details
    BY <1>7, <1>11, <1>12, <1>15 DEF CustomerRow
  <2>3. QED
    BY <1>15, <1>24, <2>1, <2>2, GotStays DEF AccountsIInv
<1>25. BookOK'
  <2>1. now <= now' /\ now' \in Nat /\ lost \subseteq lost'
    BY <1>1, <1>14
  <2>2. QED
    BY <1>11, <1>21, <1>23, <1>24, <2>1, BookMoves DEF AccountsIInv
<1>26. QED
  BY <1>15, <1>16, <1>17, <1>19, <1>25 DEF AccountsIInv

\* Details that arrived are those of the row now, or the row has later ones.
LEMMA GotTaken ==
    ASSUME BookTypes, BookTypes', FeedOK, NEW t \in Tills, NEW i, OnlyRow(t, i), NEW n \in Phones,
           NEW e \in CustomerEvent, NEW o \in Tills, NEW stamp \in Nat, Got(o, n, stamp),
           \/ Mail(o, n) \subseteq Mail(o, n)'
           \/ o = t /\ e.phone = n /\ Mail(o, n) \subseteq Mail(o, n)' \cup {e},
           e.phone = n => book'[t][i].phone = n /\ book'[t][i].details >= e.stamp,
           i \in DOMAIN book[t] /\ book[t][i].phone = n =>
               book'[t][i].phone = n /\ book[t][i].details <= book'[t][i].details
    PROVE  Got(o, n, stamp)'
<1>1. CASE stamp = 0
  BY <1>1 DEF Got
<1>2. ASSUME NEW x \in Mail(o, n), x.stamp >= stamp PROVE Got(o, n, stamp)'
  <2>1. CASE x \in Mail(o, n)'
    BY <1>2, <2>1 DEF Got
  <2>2. CASE x \notin Mail(o, n)'
    <3>1. o = t /\ e.phone = n /\ x = e
      BY <2>2
    <3>2. i \in DOMAIN book'[t] /\ book'[t][i].phone = n /\ book'[t][i].details >= e.stamp
      BY <3>1 DEF OnlyRow
    <3>3. book'[t][i] \in CustomerRow
      BY <3>2 DEF BookTypes
    <3>4. book'[t][i].details >= stamp
      BY <1>2, <3>1, <3>2, <3>3 DEF CustomerRow, CustomerEvent
    <3>5. i \in Rows(t, n)' /\ \A j \in Rows(t, n)' : Alone(t, j)' => j = i
      BY <3>2 DEF Rows, Alone
    <3>6. QED
      BY <3>1, <3>4, <3>5 DEF Got
  <2>3. QED
    BY <2>1, <2>2
<1>3. CASE Rows(o, n) # {} /\ \A j \in Rows(o, n) : Alone(o, j) => book[o][j].details >= stamp
  <2>1. ASSUME NEW j \in Rows(o, n)
        PROVE  j \in Rows(o, n)' /\ book[o][j].details <= book'[o][j].details
    <3>1. j \in DOMAIN book[o] /\ book[o][j].phone = n /\ j \in DOMAIN book'[o]
      BY DEF Rows, OnlyRow
    <3>2. book[o][j] \in CustomerRow /\ book[o][j].details \in Nat
      BY <3>1, RowIs DEF CustomerRow
    <3>3. CASE o = t /\ j = i
      BY <3>1, <3>3 DEF Rows
    <3>4. CASE o # t \/ j # i
      <4>1. book'[o][j] = book[o][j]
        BY <3>1, <3>4 DEF OnlyRow
      <4>2. QED
        BY <3>1, <3>2, <4>1 DEF Rows
    <3>5. QED
      BY <3>3, <3>4
  <2>2. ASSUME NEW j \in Rows(o, n)', Alone(o, j)' PROVE book'[o][j].details >= stamp
    <3>1. \A k \in Rows(o, n) : k = j
      BY <2>1, <2>2 DEF Alone, Rows
    <3>2. j \in Rows(o, n)
      BY <1>3, <3>1
    <3>3. Alone(o, j)
      BY <3>1, <3>2 DEF Alone, Rows
    <3>4. /\ book[o][j].details >= stamp /\ book[o][j].details <= book'[o][j].details
          /\ book[o][j].details \in Nat /\ book'[o][j].details \in Nat
      <4>1. book[o][j] \in CustomerRow /\ book'[o][j] \in CustomerRow
        BY <2>2, <3>2 DEF Rows, BookTypes
      <4>2. QED
        BY <1>3, <2>1, <3>2, <3>3, <4>1 DEF CustomerRow
    <3>5. QED
      BY <3>4
  <2>3. Rows(o, n)' # {}
    BY <1>3, <2>1
  <2>4. QED
    BY <2>2, <2>3 DEF Got
<1>4. QED
  BY <1>1, <1>2, <1>3 DEF Got

\* A row after the details e: they are its details, or it stays as it was.
Took(t, i, e) ==
    /\ book'[t][i].phone = e.phone
    /\ i \in DOMAIN book[t] => book[t][i].phone = e.phone
    /\ \/ book'[t][i].details = e.stamp /\ book'[t][i].limit = e.limit
       \/ i \in DOMAIN book[t] /\ book'[t][i] = book[t][i]
    /\ e.phone \notin misjudged' =>
          /\ book'[t][i].details >= e.stamp
          /\ i \in DOMAIN book[t] => book[t][i].details <= book'[t][i].details
LEMMA DetailsTaken ==
    ASSUME AccountsIInv, NEW t \in Tills, NEW e \in CustomerEvent, e = Head(inbox[t]),
           inbox[t] # <<>>, Received(t), NEW i, OnlyRow(t, i), BookTypes', Took(t, i, e),
           UNCHANGED <<now, lost>>, misjudged \subseteq misjudged',
           \A o, j : Untold(o, j) => Untold(o, j)'
    PROVE  FeedOK' /\ BookOK'
<1>1. now <= now' /\ now' \in Nat /\ now' \in 0..MaxMoments /\ lost \subseteq lost'
  BY DEF AccountsIInv, FeedOK
<1>2. /\ FeedOK'
      /\ \A o \in Tills, n \in Phones :
            /\ Mail(o, n)' \subseteq Mail(o, n)
            /\ \/ Mail(o, n) \subseteq Mail(o, n)'
               \/ o = t /\ e.phone = n /\ Mail(o, n) \subseteq Mail(o, n)' \cup {e}
      /\ e \in Mail(t, e.phone)
  <2>1. /\ FeedOK'
        /\ \A o \in Tills, n \in Phones :
              /\ Mail(o, n)' \subseteq Mail(o, n)
              /\ Mail(o, n) \subseteq Mail(o, n)'
                 \/ /\ o = t /\ Head(inbox[t]).kind = "customer" /\ Head(inbox[t]).phone = n
                    /\ Mail(o, n) \subseteq Mail(o, n)' \cup {Head(inbox[t])}
        /\ Head(inbox[t]).kind = "customer" => Head(inbox[t]) \in Mail(t, Head(inbox[t]).phone)
    BY <1>1, MailTaken DEF AccountsIInv
  <2>2. QED
    BY <2>1 DEF CustomerEvent
<1>3. ASSUME Regular \notin lost', NEW o \in Tills PROVE Rows(o, Regular)' # {}
  <2>1. PICK j : j \in Rows(o, Regular)
    BY <1>1, <1>3 DEF AccountsIInv, BookOK
  <2>2. j \in DOMAIN book[o] /\ book[o][j].phone = Regular /\ j \in DOMAIN book'[o]
    BY <2>1 DEF Rows, OnlyRow
  <2>3. book'[o][j].phone = Regular
    <3>1. CASE o = t /\ j = i
      BY <2>2, <3>1 DEF Took
    <3>2. CASE o # t \/ j # i
      BY <2>2, <3>2 DEF OnlyRow
    <3>3. QED
      BY <3>1, <3>2
  <2>4. QED
    BY <2>2, <2>3 DEF Rows
<1>4. ASSUME NEW n \in Phones, NEW d \in Shown(n)' PROVE d \in Shown(n)
  <2>1. \A o \in Tills : Mail(o, n)' \subseteq Mail(o, n)
    BY <1>2
  <2>2. \/ d \in Shown(n)
        \/ /\ book'[t][i].phone = n /\ ~Untold(t, i)'
           /\ d = [stamp |-> book'[t][i].details, limit |-> book'[t][i].limit]
    BY <2>1, ShownNext
  <2>3. SUFFICES ASSUME book'[t][i].phone = n, ~Untold(t, i)',
                        d = [stamp |-> book'[t][i].details, limit |-> book'[t][i].limit]
                 PROVE  d \in Shown(n)
    BY <2>2
  <2>4. CASE book'[t][i].details = e.stamp /\ book'[t][i].limit = e.limit
    <3>1. e \in Mail(t, n)
      BY <1>2, <2>3 DEF Took
    <3>2. d = [stamp |-> e.stamp, limit |-> e.limit]
      BY <2>3, <2>4
    <3>3. QED
      BY <3>1, <3>2, ShownIs
  <2>5. CASE i \in DOMAIN book[t] /\ book'[t][i] = book[t][i]
    <3>1. ~Untold(t, i)
      BY <2>3
    <3>2. i \in Told(t, n)
      BY <2>3, <2>5, <3>1 DEF Told, Rows
    <3>3. QED
      BY <2>3, <2>5, <3>2, ShownIs
  <2>6. QED
    BY <2>4, <2>5 DEF Took
<1>5. ASSUME NEW n \in Phones \ (lost' \cup misjudged'), NEW o \in Tills, NEW stamp \in Nat,
             Got(o, n, stamp)
      PROVE  Got(o, n, stamp)'
  <2>1. e.phone = n => book'[t][i].phone = n /\ book'[t][i].details >= e.stamp
    BY DEF Took
  <2>2. i \in DOMAIN book[t] /\ book[t][i].phone = n =>
            book'[t][i].phone = n /\ book[t][i].details <= book'[t][i].details
    BY DEF Took
  <2>3. \/ Mail(o, n) \subseteq Mail(o, n)'
        \/ o = t /\ e.phone = n /\ Mail(o, n) \subseteq Mail(o, n)' \cup {e}
    BY <1>2
  <2>4. QED
    BY <1>5, <2>1, <2>2, <2>3, GotTaken DEF AccountsIInv
<1>6. BookOK'
  BY <1>1, <1>3, <1>4, <1>5, BookMoves DEF AccountsIInv
<1>7. QED
  BY <1>2, <1>6

LEMMA TakenStep ==
    ASSUME AccountsIInv, NEW t \in Tills, applyCustomer(t)
    PROVE  AccountsIInv'
<1>1. /\ req[t] = IdleSlot /\ Received(t) /\ UNCHANGED <<now, req, lost>>
      /\ inbox[t] # <<>> /\ Head(inbox[t]).kind = "customer"
  BY DEF applyCustomer, Idle, Arrived
<1>2. PICK e : e = Head(inbox[t])
  OBVIOUS
<1>3. e \in CustomerEvent
  <2>1. inbox[t] \in Seq(FeedEvent)
    BY DEF AccountsIInv, FeedOK
  <2>2. e \in FeedEvent /\ e.kind = "customer"
    BY <1>1, <1>2, <2>1
  <2>3. QED
    BY <2>2 DEF FeedEvent, CustomerEvent, LedgerEvent, VoidEvent
<1>4. e.phone \in Phones /\ e.limit \in Limits \cup {0} /\ e.stamp \in Nat
  BY <1>3 DEF CustomerEvent
<1>5. req[t].step # "move"
  BY <1>1 DEF IdleSlot
<1>6. CASE Rows(t, e.phone) = {}
  <2>1. PICK i : i = Len(book[t]) + 1
    OBVIOUS
  <2>2. PICK base : base = NewCustomer(e.phone, e.limit, e.stamp)
    OBVIOUS
  <2>3. /\ base \in CustomerRow /\ MoneyNone(base) /\ base.phone = e.phone
       /\ base.limit = e.limit
    BY <1>4, <2>2 DEF NewCustomer, CustomerRow, MoneyNone
  <2>4. PICK row : row = [base EXCEPT !.details = e.stamp]
    OBVIOUS
  <2>5. book' = [book EXCEPT ![t] = Append(@, row)] /\ misjudged' = misjudged
    BY <1>2, <1>6, <2>2, <2>4 DEF applyCustomer
  <2>6. /\ row \in CustomerRow /\ MoneyNone(row) /\ row.phone = e.phone
        /\ row.details = e.stamp /\ row.limit = e.limit
    BY <1>4, <2>3, <2>4 DEF CustomerRow, MoneyNone
  <2>7. BookTypes' /\ book'[t][i] = row /\ OnlyRow(t, i) /\ i \notin DOMAIN book[t]
    BY <2>1, <2>5, <2>6, RowAppended DEF AccountsIInv
  <2>8. \A o \in Tills : DOMAIN book[o] \subseteq DOMAIN book'[o]
    BY <2>7 DEF OnlyRow
  <2>9. /\ AccountSlotsOK'
        /\ \A o \in Tills : \A j, c : Due(o, j, c)' = Due(o, j, c)
        /\ \A o, j : Untold(o, j) => Untold(o, j)'
    BY <1>1, <1>5, <2>8, EventDone
  <2>10. BooksOK'
    BY <1>1, <2>6, <2>7, <2>9, MoneyBegins
  <2>11. Took(t, i, e)
    BY <1>4, <2>6, <2>7 DEF Took
  <2>12. FeedOK' /\ BookOK'
    BY <1>1, <1>2, <1>3, <2>5, <2>7, <2>9, <2>11, DetailsTaken
  <2>13. QED
    BY <2>7, <2>9, <2>10, <2>12 DEF AccountsIInv
<1>7. CASE Rows(t, e.phone) # {}
  <2>1. PICK i \in Rows(t, e.phone) : i = Min(Rows(t, e.phone))
    BY <1>7, RowsAre DEF AccountsIInv
  <2>2. i \in DOMAIN book[t] /\ book[t][i].phone = e.phone
    BY DEF Rows
  <2>3. PICK old \in CustomerRow : old = book[t][i]
    BY <2>2, RowIs DEF AccountsIInv
  <2>4. old.details \in Nat /\ old.phone = e.phone
    BY <2>2, <2>3 DEF CustomerRow
  <2>5. PICK row \in CustomerRow :
            /\ book' = [book EXCEPT ![t][i] = row] /\ MoneySame(row, old)
            /\ row.phone = e.phone
            /\ \/ row.details = e.stamp /\ row.limit = e.limit
               \/ row = old
            /\ misjudged \subseteq misjudged'
            /\ e.phone \notin misjudged' => row.details >= e.stamp /\ old.details <= row.details
    <3>1. misjudged' = IF Stale(e, old) <=> e.stamp < old.details
                       THEN misjudged ELSE misjudged \cup {e.phone}
      BY <1>2, <1>7, <2>1, <2>3 DEF applyCustomer
    <3>2. CASE Stale(e, old)
      <4>1. book' = book
        BY <1>2, <1>7, <2>1, <2>3, <3>2 DEF applyCustomer
      <4>2. book = [book EXCEPT ![t][i] = old]
        <5>1. book \in [Tills -> Seq(CustomerRow)]
          BY DEF AccountsIInv, BookTypes
        <5>2. book[t] = [book[t] EXCEPT ![i] = old]
          BY <2>2, <2>3, <5>1
        <5>3. QED
          BY <5>1, <5>2
      <4>3. e.phone \notin misjudged' => old.details >= e.stamp /\ old.details <= old.details
        BY <1>4, <2>4, <3>1, <3>2
      <4>4. QED
        BY <2>4, <3>1, <4>1, <4>2, <4>3 DEF MoneySame
    <3>3. CASE ~Stale(e, old)
      <4>1. PICK row : row = [old EXCEPT !.limit = e.limit, !.stamp = e.stamp, !.details = e.stamp]
        OBVIOUS
      <4>2. /\ row \in CustomerRow /\ MoneySame(row, old) /\ row.phone = old.phone
            /\ row.details = e.stamp /\ row.limit = e.limit
        BY <1>4, <4>1 DEF CustomerRow, MoneySame
      <4>3. book' = [book EXCEPT ![t] = [book[t] EXCEPT ![i] = row]]
        BY <1>2, <1>7, <2>1, <2>3, <3>3, <4>1 DEF applyCustomer
      <4>4. book' = [book EXCEPT ![t][i] = row]
        BY <4>3
      <4>5. e.phone \notin misjudged' => row.details >= e.stamp /\ old.details <= row.details
        BY <1>4, <2>4, <3>1, <3>3, <4>2
      <4>6. QED
        BY <2>4, <3>1, <4>2, <4>4, <4>5
    <3>4. QED
      BY <3>2, <3>3
  <2>6. BookTypes' /\ book'[t][i] = row /\ OnlyRow(t, i)
    BY <2>2, <2>5, RowWritten DEF AccountsIInv
  <2>7. \A o \in Tills : DOMAIN book[o] \subseteq DOMAIN book'[o]
    BY <2>6 DEF OnlyRow
  <2>8. /\ AccountSlotsOK'
        /\ \A o \in Tills : \A j, c : Due(o, j, c)' = Due(o, j, c)
        /\ \A o, j : Untold(o, j) => Untold(o, j)'
    BY <1>1, <1>5, <2>7, EventDone
  <2>9. BooksOK'
    <3>1. MoneySame(book'[t][i], book[t][i]) /\ book'[t][i].phone = book[t][i].phone
      BY <2>2, <2>3, <2>5, <2>6
    <3>2. lost \subseteq lost'
      BY <1>1
    <3>3. QED
      BY <2>2, <2>6, <2>8, <3>1, <3>2, MoneyStays DEF AccountsIInv
  <2>10. Took(t, i, e)
    BY <2>2, <2>3, <2>5, <2>6 DEF Took
  <2>11. FeedOK' /\ BookOK'
    BY <1>1, <1>2, <1>3, <2>5, <2>6, <2>8, <2>10, DetailsTaken
  <2>12. QED
    BY <2>6, <2>8, <2>9, <2>11 DEF AccountsIInv
<1>8. QED
  BY <1>6, <1>7

-----------------------------------------------------------------------------
\* A death gives up the phone numbers of what was in flight at the till.
LEMMA CrashStep ==
    ASSUME AccountsIInv, NEW t \in Tills, Crash(t)
    PROVE  AccountsIInv'
<1>1. /\ UNCHANGED <<now, inbox, book, misjudged>> /\ IdleSlot.step = "idle"
      /\ req' = [q \in DOMAIN req |-> IF req[q].at = t THEN IdleSlot ELSE req[q]]
  BY DEF Crash, ProcessDies, IdleSlot
<1>2. PICK cut : cut = {r \in DOMAIN req : req[r].at = t
                             /\ req[r].step \in {"emitCustomer", "send", "balance", "credit", "move", "mark"}}
  OBVIOUS
<1>3. /\ lost \subseteq lost'
      /\ \A q \in cut : book[t][req[q].doc].phone \in lost'
  <2>1. lost' = lost \cup {book[t][req[q].doc].phone : q \in cut}
    BY <1>2 DEF Crash
  <2>2. QED
    BY <2>1
<1>4. /\ DOMAIN req = Requests \cup Tills /\ DOMAIN req' = Requests \cup Tills
      /\ \A q \in Requests \cup Tills :
            req'[q] = IF req[q].at = t THEN IdleSlot ELSE req[q]
  BY <1>1 DEF AccountsIInv, AccountSlotsOK
<1>5. AccountSlotsOK'
  <2>1. ASSUME NEW q \in Requests PROVE AccountSlotOK(req[q])'
    <3>1. CASE req[q].at = t
      BY <1>1, <1>4, <3>1 DEF AccountSlotOK, Columns, TellSteps
    <3>2. CASE req[q].at # t
      <4>1. req'[q] = req[q] /\ AccountSlotOK(req[q])
        BY <1>4, <3>2 DEF AccountsIInv, AccountSlotsOK
      <4>2. QED
        BY <1>1, <4>1 DEF AccountSlotOK, Columns, TellSteps
    <3>3. QED
      BY <3>1, <3>2
  <2>2. ASSUME NEW o \in Tills PROVE ApplyingOK(o)'
    <3>1. CASE req[o].at = t
      BY <1>1, <1>4, <3>1 DEF ApplyingOK
    <3>2. CASE req[o].at # t
      <4>1. req'[o] = req[o] /\ ApplyingOK(o)
        BY <1>4, <3>2 DEF AccountsIInv, AccountSlotsOK
      <4>2. QED
        BY <1>1, <4>1 DEF ApplyingOK, Arrived
    <3>3. QED
      BY <3>1, <3>2
  <2>3. QED
    BY <1>4, <2>1, <2>2 DEF AccountSlotsOK
<1>6. ASSUME NEW o \in Tills, NEW j \in DOMAIN book[o], book[o][j].phone \notin lost', NEW c
      PROVE  Due(o, j, c)' = Due(o, j, c)
  <2>1. CASE req[o].at = t
    <3>1. Due(o, j, c)' = 0
      BY <1>1, <1>4, <2>1 DEF Due, AtStep
    <3>2. ~(AtStep(o, "move") /\ req[o].doc = j)
      <4>1. SUFFICES ASSUME req[o].step = "move", req[o].doc = j PROVE FALSE
        BY DEF AtStep
      <4>2. o = t
        BY <2>1, <4>1 DEF AccountsIInv, AccountSlotsOK, ApplyingOK
      <4>3. o \in cut
        BY <1>2, <1>4, <2>1, <4>1
      <4>4. QED
        BY <1>3, <1>6, <4>1, <4>2, <4>3
    <3>3. QED
      BY <3>1, <3>2 DEF Due
  <2>2. CASE req[o].at # t
    <3>1. req'[o] = req[o]
      BY <1>4, <2>2
    <3>2. QED
      BY <1>1, <3>1 DEF Due, AtStep
  <2>3. QED
    BY <2>1, <2>2
<1>7. BooksOK'
  <2>1. SUFFICES ASSUME NEW o \in Tills, NEW j \in DOMAIN book[o], book[o][j].phone \notin lost'
                 PROVE  Balanced(o, j)'
    BY <1>1 DEF BooksOK
  <2>2. Balanced(o, j)
    BY <1>3, <2>1 DEF AccountsIInv, BooksOK
  <2>3. /\ Due(o, j, "balance")' = Due(o, j, "balance")
        /\ Due(o, j, "credit")' = Due(o, j, "credit")
    BY <1>6, <2>1
  <2>4. QED
    BY <1>1, <2>2, <2>3 DEF Balanced
<1>8. ASSUME NEW o \in Tills, NEW j \in DOMAIN book[o], Untold(o, j)
      PROVE  Untold(o, j)' \/ book[o][j].phone \in lost'
  <2>1. PICK r \in Requests : Tells(r, o, j)
    BY <1>8 DEF Untold
  <2>2. CASE o = t
    <3>1. r \in cut
      BY <1>2, <1>4, <2>1, <2>2 DEF Tells
    <3>2. QED
      BY <1>3, <2>1, <2>2, <3>1 DEF Tells
  <2>3. CASE o # t
    <3>1. req'[r] = req[r]
      BY <1>4, <2>1, <2>3 DEF Tells
    <3>2. QED
      BY <2>1, <3>1 DEF Untold, Tells
  <2>4. QED
    BY <2>2, <2>3
<1>9. FeedOK' /\ BookTypes' /\ SameDetails /\ now <= now' /\ now' \in Nat
  BY <1>1 DEF AccountsIInv, FeedOK, BookTypes, SameDetails
<1>10. \A o \in Tills, n \in Phones : Mail(o, n)' = Mail(o, n)
  BY <1>1 DEF Mail
<1>11. BookOK'
  BY <1>1, <1>3, <1>8, <1>9, <1>10, BookStays DEF AccountsIInv
<1>12. QED
  BY <1>5, <1>7, <1>9, <1>11 DEF AccountsIInv

-----------------------------------------------------------------------------
LEMMA AccountsBegin ==
    ASSUME AccountsInit
    PROVE  AccountsIInv
<1>1. PICK first : first = NewCustomer(Regular, Min(Limits), 0)
  OBVIOUS
<1>2. /\ first \in CustomerRow /\ first.phone = Regular /\ first.limit = Min(Limits)
      /\ first.details = 0 /\ MoneyNone(first)
  BY <1>1, LimitsAre, AccountsAssumption DEF NewCustomer, CustomerRow, MoneyNone
<1>3. /\ now = 0 /\ inbox = [t \in Tills |-> <<>>] /\ lost = {} /\ misjudged = {}
      /\ req = [q \in Requests \cup Tills |-> IdleSlot]
      /\ book = [t \in Tills |-> <<first>>]
  BY <1>1 DEF AccountsInit, DeskInit
<1>4. \A t \in Tills : inbox[t] = <<>> /\ DOMAIN inbox[t] = {}
  BY <1>3
<1>5. \A t \in Tills : DOMAIN book[t] = {1} /\ book[t][1] = first
  BY <1>3
<1>6. IdleSlot.step = "idle" /\ \A q \in Requests \cup Tills : req[q] = IdleSlot
  BY <1>3 DEF IdleSlot
<1>7. FeedOK
  BY <1>3, <1>4, DeskAssumption DEF FeedOK
<1>8. BookTypes
  BY <1>2, <1>3 DEF BookTypes
<1>9. AccountSlotsOK
  BY <1>3, <1>6 DEF AccountSlotsOK, AccountSlotOK, ApplyingOK, Columns, TellSteps
<1>10. \A t \in Tills : \A j, c : Due(t, j, c) = 0
  BY <1>6 DEF Due, AtStep
<1>11. BooksOK
  BY <1>2, <1>5, <1>10 DEF BooksOK, Balanced, MoneyNone
<1>12. \A t \in Tills, n \in Phones : Mail(t, n) = {}
  BY <1>4 DEF Mail
<1>13. \A t \in Tills : \A n : Rows(t, n) = IF n = Regular THEN {1} ELSE {}
  BY <1>2, <1>5 DEF Rows
<1>14. ASSUME NEW n \in Phones, NEW d \in Shown(n) PROVE d.stamp = 0 /\ d.limit = Base(n)
  <2>1. PICK o \in Tills : \E k \in Told(o, n) :
          d = [stamp |-> book[o][k].details, limit |-> book[o][k].limit]
    BY <1>12, ShownIs
  <2>2. PICK i \in Told(o, n) : d = [stamp |-> book[o][i].details, limit |-> book[o][i].limit]
    BY <2>1
  <2>3. i \in Rows(o, n)
    BY DEF Told
  <2>4. n = Regular /\ i = 1
    BY <1>13, <2>3
  <2>5. QED
    BY <1>2, <1>5, <2>2, <2>4 DEF Base
<1>15. ASSUME NEW n \in Phones PROVE DetailsOK(n) /\ DetailsTravel(n)
  BY <1>14 DEF DetailsOK, DetailsTravel, Got
<1>16. BookOK
  BY <1>13, <1>15 DEF BookOK
<1>17. QED
  BY <1>7, <1>8, <1>9, <1>11, <1>16 DEF AccountsIInv

LEMMA AccountsStep ==
    ASSUME AccountsIInv, [Next]_<<deskVars, accountVars>>
    PROVE  AccountsIInv'
<1>1. CASE Customers
  BY <1>1, CreateStep, ReadStep, EmitStep, CreateLookStep, UpdateStep DEF Customers
<1>2. CASE Money
  BY <1>2, MoneySteps
<1>3. CASE GiftCards
  BY <1>3, GiftSteps
<1>4. CASE Syncing
  BY <1>4, TakenStep, LedgerRowComes, MoneyMoves, OtherTaken DEF Syncing
<1>5. ASSUME NEW t \in Tills, Crash(t) PROVE AccountsIInv'
  BY <1>5, CrashStep
<1>6. CASE UNCHANGED <<deskVars, accountVars>>
  <2>1. UNCHANGED <<now, inbox, req, book, lost, misjudged>>
    BY <1>6 DEF deskVars, accountVars
  <2>2. FeedOK' /\ HeadsStay /\ \A o \in Tills, n \in Phones : Mail(o, n)' = Mail(o, n)
    BY <2>1 DEF AccountsIInv, FeedOK, HeadsStay, Mail
  <2>3. AccountSlotsOK' /\ SyncingStays /\ \A o, j : Untold(o, j) => Untold(o, j)'
    BY <2>1, <2>2, SlotsStay DEF AccountsIInv
  <2>4. \A o \in Tills : \A j, c : Due(o, j, c)' = Due(o, j, c)
    BY <2>2, <2>3, DueStays DEF AccountsIInv
  <2>5. now <= now'
    BY <2>1 DEF AccountsIInv, FeedOK
  <2>6. QED
    BY <2>1, <2>2, <2>3, <2>4, <2>5, BookAlone
<1>7. QED
  BY <1>1, <1>2, <1>3, <1>4, <1>5, <1>6 DEF Next

THEOREM AccountsInvariant == Spec => []AccountsIInv
<1>1. AccountsInit => AccountsIInv
  BY AccountsBegin
<1>2. AccountsIInv /\ [Next]_<<deskVars, accountVars>> => AccountsIInv'
  BY AccountsStep
<1>3. QED
  BY <1>1, <1>2, PTL DEF Spec

(***************************************************************************)
(* What a till's customers owe and are owed is what its ledger says, for   *)
(* any number of tills, requests, customers and forms.                     *)
(***************************************************************************)
THEOREM BooksAreTheLedger == Spec => []BooksFollowLedger
<1>1. ASSUME AccountsIInv PROVE BooksFollowLedger
  <2>1. SUFFICES ASSUME NEW t \in Tills, NEW i \in DOMAIN book[t], book[t][i].phone \notin lost
                 PROVE  /\ (~AtStep(t, "move") \/ req[t].doc # i) =>
                              /\ book[t][i].balance = book[t][i].posted
                              /\ book[t][i].credit = book[t][i].loaded + book[t][i].doubled
                        /\ book[t][i].freely \/ book[t][i].balance >= 0
    BY DEF BooksFollowLedger
  <2>2. Balanced(t, i)
    BY <1>1, <2>1 DEF AccountsIInv, BooksOK
  <2>3. PICK row \in CustomerRow : row = book[t][i]
    BY <1>1, RowIs DEF AccountsIInv
  <2>4. ASSUME ~AtStep(t, "move") \/ req[t].doc # i
        PROVE  row.balance = row.posted /\ row.credit = row.loaded + row.doubled
    <3>1. Due(t, i, "balance") = 0 /\ Due(t, i, "credit") = 0
      BY <2>4 DEF Due
    <3>2. row.balance + 0 = row.posted /\ row.credit + 0 = row.loaded + row.doubled
      BY <2>2, <2>3, <3>1 DEF Balanced
    <3>3. QED
      BY <2>3, <3>2 DEF CustomerRow
  <2>5. QED
    BY <2>2, <2>3, <2>4 DEF Balanced
<1>2. QED
  BY <1>1, AccountsInvariant, PTL

(***************************************************************************)
(* Once everything has arrived, two tills with one account each under a    *)
(* phone number have the same credit limit on it: details with a stamp get *)
(* everywhere, each till has none later than the other's, and those with   *)
(* the same stamp are the same.                                            *)
(***************************************************************************)
THEOREM TillsAgreeOnLimits == Spec => []LimitsAgree
<1>1. ASSUME AccountsIInv, Settled, NEW n \in Phones \ (lost \cup misjudged),
             NEW t \in Tills, NEW o \in Tills,
             Cardinality(Rows(t, n)) = 1, Cardinality(Rows(o, n)) = 1
      PROVE  book[t][Min(Rows(t, n))].limit = book[o][Min(Rows(o, n))].limit
  <2>1. ASSUME NEW x \in Tills, Cardinality(Rows(x, n)) = 1
        PROVE  \E i \in Rows(x, n) : Rows(x, n) = {i} /\ i = Min(Rows(x, n))
    <3>1. IsFiniteSet(Rows(x, n))
      <4>1. book[x] \in Seq(CustomerRow) /\ Len(book[x]) \in Nat /\ DOMAIN book[x] = 1..Len(book[x])
        BY <1>1 DEF AccountsIInv, BookTypes
      <4>2. IsFiniteSet(1..Len(book[x]))
        BY <4>1, FS_Interval
      <4>3. Rows(x, n) \subseteq 1..Len(book[x])
        BY <4>1 DEF Rows
      <4>4. QED
        BY <4>2, <4>3, FS_Subset
    <3>2. PICK i : Rows(x, n) = {i}
      BY <2>1, <3>1, FS_Singleton
    <3>3. Min(Rows(x, n)) \in Rows(x, n)
      BY <1>1, <3>2, RowsAre DEF AccountsIInv
    <3>4. QED
      BY <3>2, <3>3
  <2>2. PICK i \in Rows(t, n) : Rows(t, n) = {i} /\ i = Min(Rows(t, n))
    BY <1>1, <2>1
  <2>3. PICK j \in Rows(o, n) : Rows(o, n) = {j} /\ j = Min(Rows(o, n))
    BY <1>1, <2>1
  <2>4. \A x \in Tills : Mail(x, n) = {}
    BY <1>1 DEF Settled, Mail
  <2>5. \A x, k : ~Untold(x, k)
    <3>1. \A q \in Requests : req[q] = IdleSlot
      BY <1>1 DEF AccountsIInv, AccountSlotsOK, Settled, Idle
    <3>2. QED
      BY <3>1 DEF Untold, Tells, IdleSlot
  <2>6. PICK a : a = [stamp |-> book[t][i].details, limit |-> book[t][i].limit]
    OBVIOUS
  <2>7. PICK b : b = [stamp |-> book[o][j].details, limit |-> book[o][j].limit]
    OBVIOUS
  <2>8. i \in Told(t, n) /\ j \in Told(o, n)
    BY <2>5 DEF Told
  <2>9. a \in Shown(n) /\ b \in Shown(n)
    BY <2>6, <2>7, <2>8, ShownIs
  <2>10. a.stamp \in Nat /\ b.stamp \in Nat
    BY <1>1, <2>9, ShownTypes DEF AccountsIInv
  <2>11. DetailsOK(n) /\ DetailsTravel(n)
    BY <1>1 DEF AccountsIInv, BookOK
  <2>12. Alone(t, i) /\ Alone(o, j)
    BY <2>2, <2>3 DEF Alone, Rows
  <2>13. a.stamp = 0 \/ b.stamp >= a.stamp
    BY <2>3, <2>4, <2>7, <2>9, <2>11, <2>12 DEF DetailsTravel, Got
  <2>14. b.stamp = 0 \/ a.stamp >= b.stamp
    BY <2>2, <2>4, <2>6, <2>9, <2>11, <2>12 DEF DetailsTravel, Got
  <2>15. a.stamp = b.stamp
    BY <2>10, <2>13, <2>14
  <2>16. a.limit = b.limit
    BY <2>9, <2>11, <2>15 DEF DetailsOK
  <2>17. QED
    BY <2>2, <2>3, <2>6, <2>7, <2>16
<1>2. AccountsIInv => LimitsAgree
  BY <1>1 DEF LimitsAgree
<1>3. QED
  BY <1>2, AccountsInvariant, PTL
-----------------------------------------------------------------------------
(***************************************************************************)
(* Sums.  Net is what the values of a function come to, as the number of   *)
(* units above zero less the number below; unlike a fold it can be         *)
(* followed from one step to the next by counting.  A fold agrees with it  *)
(* (SumOf): a smallest set on which it would not does not exist.           *)
(***************************************************************************)
AtLeastZero(n) == IF n >= 0 THEN n ELSE 0
Value(F, x) == IF x \in DOMAIN F THEN F[x] ELSE 0
Mass(F, sign) == UNION {{x} \X (1..(sign * F[x])) : x \in DOMAIN F}
Net(F) == Cardinality(Mass(F, 1)) - Cardinality(Mass(F, -1))
Rest(F, x, sign) == UNION {{y} \X (1..(sign * F[y])) : y \in DOMAIN F \ {x}}
Counted(F) == IsFiniteSet(Mass(F, 1)) /\ IsFiniteSet(Mass(F, -1))
\* One function comes from another by d more or less in all.
Moved(F, G, d) == Counted(F) => Counted(G) /\ Net(G) = Net(F) + d
SameBut(F, G, x) == /\ DOMAIN F \ {x} = DOMAIN G \ {x}
                    /\ \A y \in DOMAIN F \ {x} : F[y] = G[y]

\* A fold that adds up is any measure that grows by f[x] with each x.
LEMMA SumIs ==
    ASSUME NEW S, IsFiniteSet(S), NEW f \in [S -> Int], NEW N \in [SUBSET S -> Int],
           N[{}] = 0, \A s \in SUBSET S : \A x \in s : N[s] = f[x] + N[s \ {x}]
    PROVE  SumFunction(f) = N[S]
<1> DEFINE Pick(s) == CHOOSE x \in s : TRUE
           Fold(g) == [s \in SUBSET S |-> IF s = {} THEN 0 ELSE f[Pick(s)] + g[s \ {Pick(s)}]]
           it == CHOOSE g : g = Fold(g)
<1>1. SumFunction(f) = it[S]
  BY DEF SumFunction, SumFunctionOnSet, FoldFunctionOnSet, MapThenFoldSet
<1>2. \A s \in SUBSET S : s # {} => Pick(s) \in s
  OBVIOUS
<1> HIDE DEF Pick
<1>3. N = Fold(N)
  <2>1. \A s \in SUBSET S : N[s] = Fold(N)[s]
    BY <1>2
  <2> QED BY <2>1
<1>4. it = Fold(it)
  BY <1>3
<1> HIDE DEF it
<1>5. ASSUME NEW s \in SUBSET S PROVE it[s] = N[s]
  <2> DEFINE Bad == {Cardinality(b) : b \in {a \in SUBSET S : it[a] # N[a]}}
  <2>1. SUFFICES ASSUME it[s] # N[s] PROVE FALSE
    OBVIOUS
  <2>2. \A b \in SUBSET S : IsFiniteSet(b) /\ Cardinality(b) \in Nat
    BY FS_Subset, FS_CardinalityType
  <2>3. Bad \in SUBSET Nat /\ Bad # {}
    BY <2>1, <2>2
  <2>4. PICK b \in SUBSET S : it[b] # N[b] /\ \A a \in SUBSET S : it[a] # N[a] => Cardinality(b) <= Cardinality(a)
    <3>1. PICK m \in Bad : \A x \in Bad : m <= x
      BY <2>3, LeastOf
    <3> QED BY <3>1
  <2> HIDE DEF Bad
  <2>5. CASE b = {}
    BY <1>4, <2>4, <2>5
  <2>6. CASE b # {}
    <3>1. Pick(b) \in b
      BY <1>2, <2>6
    <3>2. Cardinality(b \ {Pick(b)}) = Cardinality(b) - 1
      BY <2>2, <3>1, FS_RemoveElement
    <3>3. it[b \ {Pick(b)}] = N[b \ {Pick(b)}]
      BY <2>2, <2>4, <3>2
    <3>4. it[b] = f[Pick(b)] + it[b \ {Pick(b)}]
      BY <1>4, <2>6
    <3> QED BY <2>4, <3>1, <3>3, <3>4
  <2> QED BY <2>5, <2>6
<1> QED BY <1>1, <1>5
LEMMA BlockIs ==
    ASSUME NEW q, NEW m \in Int
    PROVE  /\ IsFiniteSet({q} \X (1..m))
           /\ Cardinality({q} \X (1..m)) = AtLeastZero(m)
<1>1. IsFiniteSet({q}) /\ Cardinality({q}) = 1
  BY FS_Singleton
<1>2. IsFiniteSet(1..m) /\ Cardinality(1..m) = AtLeastZero(m)
  BY FS_Interval DEF AtLeastZero
<1>3. PICK Q, B : Q = {q} /\ B = 1..m
  OBVIOUS
<1>4. IsFiniteSet(Q \X B) /\ Cardinality(Q \X B) = Cardinality(Q) * Cardinality(B)
  BY <1>1, <1>2, <1>3, FS_Product
<1>5. 1 * AtLeastZero(m) = AtLeastZero(m)
  BY DEF AtLeastZero
<1> QED BY <1>1, <1>2, <1>3, <1>4, <1>5

LEMMA RestIs ==
    ASSUME NEW F, NEW x, NEW sign \in {-1, 1}, Value(F, x) \in Int
    PROVE  /\ Mass(F, sign) = Rest(F, x, sign) \cup ({x} \X (1..(sign * Value(F, x))))
           /\ Rest(F, x, sign) \cap ({x} \X (1..(sign * Value(F, x)))) = {}
<1> DEFINE Block == {x} \X (1..(sign * Value(F, x)))
<1>0. Rest(F, x, sign) \cap Block = {}
  BY DEF Rest
<1>1. CASE x \in DOMAIN F
  <2>1. {{y} \X (1..(sign * F[y])) : y \in DOMAIN F}
            = {{y} \X (1..(sign * F[y])) : y \in DOMAIN F \ {x}} \cup {Block}
    BY <1>1 DEF Value
  <2>2. Mass(F, sign) = Rest(F, x, sign) \cup Block
    <3> HIDE DEF Block
    <3> QED BY <2>1 DEF Mass, Rest
  <2> QED BY <1>0, <2>2
<1>2. CASE x \notin DOMAIN F
  <2>1. Block = {}
    <3>1. Value(F, x) = 0
      BY <1>2 DEF Value
    <3>2. 1..(sign * 0) = {}
      OBVIOUS
    <3> QED BY <3>1, <3>2
  <2>2. DOMAIN F \ {x} = DOMAIN F
    BY <1>2
  <2> QED BY <1>0, <2>1, <2>2 DEF Mass, Rest
<1> QED BY <1>1, <1>2

LEMMA MassTurns ==
    ASSUME NEW F, NEW G, NEW x, NEW sign \in {-1, 1}, SameBut(F, G, x),
           Value(F, x) \in Int, Value(G, x) \in Int, IsFiniteSet(Mass(F, sign))
    PROVE  /\ IsFiniteSet(Mass(G, sign)) /\ Cardinality(Mass(G, sign)) \in Nat
           /\ Cardinality(Mass(F, sign)) \in Nat
           /\ Cardinality(Mass(G, sign)) + AtLeastZero(sign * Value(F, x))
                  = Cardinality(Mass(F, sign)) + AtLeastZero(sign * Value(G, x))
<1> DEFINE R == Rest(F, x, sign)
           a == sign * Value(F, x)
           b == sign * Value(G, x)
<1>1. Mass(F, sign) = R \cup ({x} \X (1..a)) /\ R \cap ({x} \X (1..a)) = {}
  BY RestIs
<1>2. Mass(G, sign) = R \cup ({x} \X (1..b)) /\ R \cap ({x} \X (1..b)) = {}
  <2>1. Rest(G, x, sign) = Rest(F, x, sign)
    BY DEF SameBut, Rest
  <2> QED BY <2>1, RestIs
<1>3. IsFiniteSet(R) /\ Cardinality(R) \in Nat
  BY <1>1, FS_Subset, FS_CardinalityType
<1> HIDE DEF R
<1>4. a \in Int /\ b \in Int
  OBVIOUS
<1> HIDE DEF a, b
<1>5. ASSUME NEW m \in Int, R \cap ({x} \X (1..m)) = {}
      PROVE  /\ IsFiniteSet(R \cup ({x} \X (1..m)))
             /\ Cardinality(R \cup ({x} \X (1..m))) = Cardinality(R) + AtLeastZero(m)
  <2>1. PICK B : B = {x} \X (1..m)
    OBVIOUS
  <2>2. IsFiniteSet(B) /\ Cardinality(B) = AtLeastZero(m) /\ AtLeastZero(m) \in Nat
    <3>1. AtLeastZero(m) \in Nat
      BY DEF AtLeastZero
    <3> QED BY <2>1, <3>1, BlockIs
  <2>3. /\ IsFiniteSet(R \cup B)
        /\ Cardinality(R \cup B) = Cardinality(R) + Cardinality(B) - Cardinality(R \cap B)
    BY <1>3, <2>2, FS_Union
  <2>4. Cardinality(R \cap B) = 0
    BY <1>5, <2>1, FS_EmptySet
  <2> QED BY <1>3, <2>1, <2>2, <2>3, <2>4
<1>6. Cardinality(Mass(F, sign)) = Cardinality(R) + AtLeastZero(a)
  BY <1>1, <1>4, <1>5
<1>7. IsFiniteSet(Mass(G, sign)) /\ Cardinality(Mass(G, sign)) = Cardinality(R) + AtLeastZero(b)
  BY <1>2, <1>4, <1>5
<1>8. AtLeastZero(a) \in Nat /\ AtLeastZero(b) \in Nat
  BY <1>4 DEF AtLeastZero
<1>9. /\ Cardinality(Mass(G, sign)) \in Nat /\ Cardinality(Mass(F, sign)) \in Nat
      /\ Cardinality(Mass(G, sign)) + AtLeastZero(a) = Cardinality(Mass(F, sign)) + AtLeastZero(b)
  <2>1. PICK m, n, r, u, v : /\ m = Cardinality(Mass(F, sign)) /\ n = Cardinality(Mass(G, sign))
                             /\ r = Cardinality(R) /\ u = AtLeastZero(a) /\ v = AtLeastZero(b)
    OBVIOUS
  <2>2. r \in Nat /\ u \in Nat /\ v \in Nat /\ m = r + u /\ n = r + v
    BY <1>3, <1>6, <1>7, <1>8, <2>1
  <2>3. m \in Nat /\ n \in Nat /\ n + u = m + v
    BY <2>2
  <2> QED BY <2>1, <2>3
<1> QED BY <1>7, <1>9 DEF a, b

LEMMA NetTurns ==
    ASSUME NEW F, NEW G, NEW x, SameBut(F, G, x), Value(F, x) \in Int, Value(G, x) \in Int
    PROVE  Moved(F, G, Value(G, x) - Value(F, x))
<1> SUFFICES ASSUME Counted(F)
             PROVE  Counted(G) /\ Net(G) = Net(F) + (Value(G, x) - Value(F, x))
  BY DEF Moved
<1>1. ASSUME NEW sign \in {-1, 1}
      PROVE  /\ IsFiniteSet(Mass(G, sign)) /\ Cardinality(Mass(G, sign)) \in Nat
             /\ Cardinality(Mass(F, sign)) \in Nat
             /\ Cardinality(Mass(G, sign)) + AtLeastZero(sign * Value(F, x))
                    = Cardinality(Mass(F, sign)) + AtLeastZero(sign * Value(G, x))
  BY MassTurns DEF Counted
<1>2. PICK v, w : v = Value(F, x) /\ w = Value(G, x)
  OBVIOUS
<1>3. PICK a, b, c, d, i, j, k, l :
        /\ a = Cardinality(Mass(F, 1)) /\ b = Cardinality(Mass(F, -1))
        /\ c = Cardinality(Mass(G, 1)) /\ d = Cardinality(Mass(G, -1))
        /\ i = AtLeastZero(1 * v) /\ j = AtLeastZero((-1) * v)
        /\ k = AtLeastZero(1 * w) /\ l = AtLeastZero((-1) * w)
  OBVIOUS
<1>4. a \in Nat /\ c \in Nat /\ c + i = a + k
  BY <1>1, <1>2, <1>3
<1>5. b \in Nat /\ d \in Nat /\ d + j = b + l
  BY <1>1, <1>2, <1>3
<1>6. /\ v \in Int /\ w \in Int /\ i \in Nat /\ j \in Nat /\ k \in Nat /\ l \in Nat
      /\ i - j = v /\ k - l = w
  BY <1>2, <1>3 DEF AtLeastZero
<1>7. c - d = (a - b) + (w - v)
  BY <1>4, <1>5, <1>6
<1> QED BY <1>1, <1>2, <1>3, <1>7 DEF Net, Counted

LEMMA NetIs ==
    ASSUME NEW F, Counted(F)
    PROVE  Net(F) \in Int
<1>1. Cardinality(Mass(F, 1)) \in Nat /\ Cardinality(Mass(F, -1)) \in Nat
  BY FS_CardinalityType DEF Counted
<1> QED BY <1>1 DEF Net

LEMMA NothingNets ==
    ASSUME NEW F, \A x \in DOMAIN F : F[x] = 0
    PROVE  Counted(F) /\ Net(F) = 0
<1>1. ASSUME NEW sign \in {-1, 1} PROVE Mass(F, sign) = {}
  <2>1. \A x \in DOMAIN F : {x} \X (1..(sign * F[x])) = {}
    <3>1. 1..(sign * 0) = {}
      OBVIOUS
    <3> QED BY <3>1
  <2> QED BY <2>1 DEF Mass
<1>2. IsFiniteSet({}) /\ Cardinality({}) = 0
  BY FS_EmptySet
<1> QED BY <1>1, <1>2 DEF Counted, Net

\* Zeros count for nothing, wherever they are.
LEMMA ZerosAreNothing ==
    ASSUME NEW F, NEW G, \A x : Value(F, x) = Value(G, x)
    PROVE  Moved(F, G, 0)
<1>1. ASSUME NEW sign \in {-1, 1}, NEW H, NEW J, \A x : Value(H, x) = Value(J, x)
      PROVE  Mass(H, sign) \subseteq Mass(J, sign)
  <2>1. SUFFICES ASSUME NEW x \in DOMAIN H, NEW u \in {x} \X (1..(sign * H[x]))
                 PROVE  u \in Mass(J, sign)
    BY DEF Mass
  <2>2. H[x] = Value(J, x)
    BY <1>1 DEF Value
  <2>3. x \in DOMAIN J
    <3>1. 1..(sign * 0) = {}
      OBVIOUS
    <3> QED BY <2>1, <2>2, <3>1 DEF Value
  <2> QED BY <2>1, <2>2, <2>3 DEF Mass, Value
<1>2. Mass(F, 1) = Mass(G, 1) /\ Mass(F, -1) = Mass(G, -1)
  <2>1. ASSUME NEW sign \in {-1, 1} PROVE Mass(F, sign) = Mass(G, sign)
    <3>1. Mass(F, sign) \subseteq Mass(G, sign)
      BY <1>1
    <3>2. \A x : Value(G, x) = Value(F, x)
      OBVIOUS
    <3>3. Mass(G, sign) \subseteq Mass(F, sign)
      BY <1>1, <3>2
    <3> QED BY <3>1, <3>3
  <2>2. 1 \in {-1, 1} /\ -1 \in {-1, 1}
    OBVIOUS
  <2> QED BY <2>1, <2>2
<1>3. Counted(F) => Net(F) \in Int
  BY NetIs
<1>4. Counted(F) => Net(F) = Net(F) + 0
  BY <1>3
<1> QED BY <1>2, <1>4 DEF Moved, Counted, Net

\* What a queue amounts to when its first is taken: the others move up.
LEMMA TailMoves ==
    ASSUME NEW F, NEW G, NEW n \in Nat, n > 0, DOMAIN F = 1..n, DOMAIN G = 1..(n - 1),
           F[1] \in Int, \A k \in 1..(n - 1) : G[k] = F[k + 1]
    PROVE  Moved(F, G, 0 - F[1])
<1> DEFINE H == [k \in 1..n |-> IF k = 1 THEN 0 ELSE F[k]]
<1>1. Moved(F, H, 0 - F[1])
  <2>1. SameBut(F, H, 1) /\ Value(F, 1) = F[1] /\ Value(H, 1) = 0
    BY DEF SameBut, Value
  <2> HIDE DEF H
  <2>2. Moved(F, H, Value(H, 1) - Value(F, 1))
    BY <2>1, NetTurns
  <2> QED BY <2>1, <2>2
<1>2. ASSUME NEW sign \in {-1, 1}, IsFiniteSet(Mass(H, sign))
      PROVE  IsFiniteSet(Mass(G, sign)) /\ Cardinality(Mass(G, sign)) = Cardinality(Mass(H, sign))
  <2> DEFINE up == [u \in Mass(H, sign) |-> <<u[1] - 1, u[2]>>]
  <2>1. ASSUME NEW u
        PROVE  u \in Mass(H, sign) <=>
                  \E k \in 1..(n - 1) : \E i \in 1..(sign * G[k]) : u = <<k + 1, i>>
    <3>1. ASSUME u \in Mass(H, sign)
          PROVE  \E k \in 1..(n - 1) : \E i \in 1..(sign * G[k]) : u = <<k + 1, i>>
      <4>1. PICK k \in 1..n : u \in {k} \X (1..(sign * H[k]))
        BY <3>1 DEF Mass
      <4>2. k # 1
        <5>1. 1..(sign * 0) = {}
          OBVIOUS
        <5> QED BY <4>1, <5>1
      <4>3. k - 1 \in 1..(n - 1) /\ G[k - 1] = H[k] /\ (k - 1) + 1 = k
        BY <4>2
      <4>4. PICK i \in 1..(sign * H[k]) : u = <<k, i>>
        BY <4>1
      <4> QED BY <4>3, <4>4
    <3>2. ASSUME NEW k \in 1..(n - 1), NEW i \in 1..(sign * G[k]), u = <<k + 1, i>>
          PROVE  u \in Mass(H, sign)
      <4>1. k + 1 \in 1..n /\ H[k + 1] = G[k]
        OBVIOUS
      <4>2. u \in {k + 1} \X (1..(sign * H[k + 1]))
        BY <3>2, <4>1
      <4>3. DOMAIN H = 1..n
        OBVIOUS
      <4> HIDE DEF H
      <4> QED BY <4>1, <4>2, <4>3 DEF Mass
    <3> QED BY <3>1, <3>2
  <2>2. ASSUME NEW v
        PROVE  v \in Mass(G, sign) <=>
                  \E k \in 1..(n - 1) : \E i \in 1..(sign * G[k]) : v = <<k, i>>
    BY DEF Mass
  <2> HIDE DEF H
  <2>3. up \in [Mass(H, sign) -> Mass(G, sign)]
    <3>1. ASSUME NEW u \in Mass(H, sign) PROVE <<u[1] - 1, u[2]>> \in Mass(G, sign)
      <4>1. PICK k \in 1..(n - 1), i \in Int : i \in 1..(sign * G[k]) /\ u = <<k + 1, i>>
        BY <2>1
      <4>2. <<u[1] - 1, u[2]>> = <<k, i>>
        BY <4>1
      <4> DEFINE v == <<u[1] - 1, u[2]>>
      <4>3. \E m \in 1..(n - 1) : \E j \in 1..(sign * G[m]) : v = <<m, j>>
        BY <4>1, <4>2
      <4> HIDE DEF v
      <4>4. v \in Mass(G, sign)
        BY <2>2, <4>3
      <4> QED BY <4>4 DEF v
    <3> QED BY <3>1
  <2>4. ASSUME NEW u \in Mass(H, sign), NEW w \in Mass(H, sign), up[u] = up[w] PROVE u = w
    <3>1. PICK k \in 1..(n - 1), i \in Int : i \in 1..(sign * G[k]) /\ u = <<k + 1, i>>
      BY <2>1
    <3>2. PICK m \in 1..(n - 1), j \in Int : j \in 1..(sign * G[m]) /\ w = <<m + 1, j>>
      BY <2>1
    <3>3. up[u] = <<k, i>> /\ up[w] = <<m, j>>
      BY <3>1, <3>2
    <3> QED BY <2>4, <3>1, <3>2, <3>3
  <2>5. ASSUME NEW v \in Mass(G, sign) PROVE \E u \in Mass(H, sign) : up[u] = v
    <3>1. PICK k \in 1..(n - 1), i \in Int : i \in 1..(sign * G[k]) /\ v = <<k, i>>
      BY <2>2
    <3>2. <<k + 1, i>> \in Mass(H, sign)
      <4> DEFINE u == <<k + 1, i>>
      <4>1. \E m \in 1..(n - 1) : \E j \in 1..(sign * G[m]) : u = <<m + 1, j>>
        BY <3>1
      <4> HIDE DEF u
      <4>2. u \in Mass(H, sign)
        BY <2>1, <4>1
      <4> QED BY <4>2 DEF u
    <3>3. up[<<k + 1, i>>] = v
      BY <3>1, <3>2
    <3> QED BY <3>2, <3>3
  <2> HIDE DEF up
  <2>6. up \in Bijection(Mass(H, sign), Mass(G, sign))
    BY <2>3, <2>4, <2>5 DEF Bijection, Injection, Surjection, IsInjective
  <2>7. ExistsBijection(Mass(H, sign), Mass(G, sign))
    BY <2>6 DEF ExistsBijection
  <2> QED BY <1>2, <2>7, FS_Bijection
<1> HIDE DEF H
<1>3. Counted(H) => Counted(G) /\ Net(G) = Net(H)
  BY <1>2 DEF Counted, Net
<1> QED BY <1>1, <1>3 DEF Moved

\* The sum of a function is what it comes to.
LEMMA SumOf ==
    ASSUME NEW S, IsFiniteSet(S), NEW f \in [S -> Int]
    PROVE  Counted(f) /\ SumFunction(f) = Net(f)
<1> DEFINE Part(s) == [x \in s |-> f[x]]
           N == [s \in SUBSET S |-> Net(Part(s))]
<1>1. Counted(f)
  <2>1. ASSUME NEW sign \in {-1, 1} PROVE IsFiniteSet(Mass(f, sign))
    <3> DEFINE blocks == [x \in S |-> {x} \X (1..(sign * f[x]))]
               B == {{x} \X (1..(sign * f[x])) : x \in S}
    <3>1. blocks \in Surjection(S, B)
      BY DEF Surjection
    <3>2. IsFiniteSet(B)
      BY <3>1, FS_Surjection
    <3>3. ASSUME NEW b \in B PROVE IsFiniteSet(b)
      <4>1. PICK x \in S : b = {x} \X (1..(sign * f[x]))
        OBVIOUS
      <4>2. sign * f[x] \in Int
        OBVIOUS
      <4> QED BY <4>1, <4>2, BlockIs
    <3>4. Mass(f, sign) = UNION B
      BY DEF Mass
    <3> QED BY <3>2, <3>3, <3>4, FS_UNION
  <2> QED BY <2>1 DEF Counted
<1>2. ASSUME NEW s \in SUBSET S PROVE Counted(Part(s))
  <2>1. ASSUME NEW sign \in {-1, 1} PROVE Mass(Part(s), sign) \subseteq Mass(f, sign)
    BY DEF Mass
  <2> QED BY <1>1, <2>1, FS_Subset DEF Counted
<1>3. \A s \in SUBSET S : Net(Part(s)) \in Int
  BY <1>2, NetIs
<1>4. Net(Part({})) = 0
  BY NothingNets
<1>5. ASSUME NEW s \in SUBSET S, NEW x \in s
      PROVE  Net(Part(s)) = f[x] + Net(Part(s \ {x}))
  <2>1. /\ SameBut(Part(s \ {x}), Part(s), x)
        /\ Value(Part(s \ {x}), x) = 0 /\ Value(Part(s), x) = f[x] /\ f[x] \in Int
    BY DEF SameBut, Value
  <2>2. Moved(Part(s \ {x}), Part(s), f[x] - 0)
    BY <2>1, NetTurns
  <2>3. Counted(Part(s \ {x})) /\ Net(Part(s \ {x})) \in Int
    BY <1>2, <1>3
  <2> QED BY <2>1, <2>2, <2>3 DEF Moved
<1>6. Part(S) = f
  OBVIOUS
<1> HIDE DEF Part
<1>7. /\ N \in [SUBSET S -> Int] /\ N[{}] = 0 /\ N[S] = Net(f)
      /\ \A s \in SUBSET S : \A x \in s : N[s] = f[x] + N[s \ {x}]
  BY <1>3, <1>4, <1>5, <1>6
<1> HIDE DEF N
<1>8. SumFunction(f) = N[S]
  BY <1>7, SumIs
<1> QED BY <1>1, <1>7, <1>8
\* What the accounts of a phone number hold at till t, what the events on their way there
\* are to bring (one that is moved and not marked has done so), and what other tills have
\* yet to tell of.
Pays(e, n, c) == e.kind = "ledger" /\ e.column = c /\ e.phone = n
Booked(t, n, c) ==
    [i \in DOMAIN book[t] |-> IF book[t][i].phone = n THEN Held(book[t][i], c) ELSE 0]
Coming(t, n, c) ==
    [k \in DOMAIN inbox[t] |->
        IF Pays(inbox[t][k], n, c) /\ ~(k = 1 /\ AtStep(t, "mark")) THEN inbox[t][k].amount ELSE 0]
Unsent(t, n, c) ==
    [q \in Requests |->
        IF req[q].step = c /\ req[q].at # t /\ book[req[q].at][req[q].doc].phone = n
        THEN req[q].seen ELSE 0]
InAll(t, n, c) == Net(Booked(t, n, c)) + Net(Coming(t, n, c)) + Net(Unsent(t, n, c))

\* The row a till applies an event to has its phone number, unless both are given up.
RowOfEvent(t) ==
    req[t].step \in {"move", "mark"} =>
        LET p == book[t][req[t].doc].phone
            e == Head(inbox[t]).phone
        IN p = e \/ {p, e} \subseteq lost
OweOK ==
    /\ \A t \in Tills : RowOfEvent(t)
    /\ \A n \in Phones \ lost : \A c \in Columns, t \in Tills :
          /\ Counted(Booked(t, n, c)) /\ Counted(Coming(t, n, c)) /\ Counted(Unsent(t, n, c))
          /\ \A o \in Tills : InAll(t, n, c) = InAll(o, n, c)
\* In a step all tills come to d more, in what is booked, coming and unsent together.
Gains(t, n, c, d) ==
    \E x, y, z \in Int : /\ Moved(Booked(t, n, c), Booked(t, n, c)', x)
                         /\ Moved(Coming(t, n, c), Coming(t, n, c)', y)
                         /\ Moved(Unsent(t, n, c), Unsent(t, n, c)', z)
                         /\ x + y + z = d

LEMMA CountedNext ==
    ASSUME NEW t, NEW n, NEW c
    PROVE  /\ Counted(Booked(t, n, c))' <=> Counted(Booked(t, n, c)')
           /\ Counted(Coming(t, n, c))' <=> Counted(Coming(t, n, c)')
           /\ Counted(Unsent(t, n, c))' <=> Counted(Unsent(t, n, c)')
           /\ InAll(t, n, c)' = Net(Booked(t, n, c)') + Net(Coming(t, n, c)') + Net(Unsent(t, n, c)')
BY DEF InAll, Net, Counted, Mass

LEMMA GainIs ==
    ASSUME NEW t, NEW n, NEW c, NEW d \in Int, Gains(t, n, c, d),
           Counted(Booked(t, n, c)), Counted(Coming(t, n, c)), Counted(Unsent(t, n, c))
    PROVE  /\ Counted(Booked(t, n, c)') /\ Counted(Coming(t, n, c)') /\ Counted(Unsent(t, n, c)')
           /\ InAll(t, n, c)' = InAll(t, n, c) + d
<1>1. PICK x, y, z \in Int : /\ Moved(Booked(t, n, c), Booked(t, n, c)', x)
                             /\ Moved(Coming(t, n, c), Coming(t, n, c)', y)
                             /\ Moved(Unsent(t, n, c), Unsent(t, n, c)', z)
                             /\ x + y + z = d
  BY DEF Gains
<1>2. /\ Counted(Booked(t, n, c)') /\ Net(Booked(t, n, c)') = Net(Booked(t, n, c)) + x
      /\ Counted(Coming(t, n, c)') /\ Net(Coming(t, n, c)') = Net(Coming(t, n, c)) + y
      /\ Counted(Unsent(t, n, c)') /\ Net(Unsent(t, n, c)') = Net(Unsent(t, n, c)) + z
  BY <1>1 DEF Moved
<1>3. PICK i, j, k : i = Net(Booked(t, n, c)) /\ j = Net(Coming(t, n, c)) /\ k = Net(Unsent(t, n, c))
  OBVIOUS
<1>4. i \in Int /\ j \in Int /\ k \in Int
  BY <1>3, NetIs
<1>5. InAll(t, n, c)' = (i + x) + (j + y) + (k + z) /\ InAll(t, n, c) = i + j + k
  BY <1>2, <1>3, CountedNext DEF InAll
<1>6. (i + x) + (j + y) + (k + z) = (i + j + k) + d
  BY <1>1, <1>4
<1> QED BY <1>2, <1>5, <1>6

LEMMA OweNext ==
    ASSUME OweOK, lost \subseteq lost', \A t \in Tills : RowOfEvent(t)',
           \A n \in Phones \ lost' : \A c \in Columns :
               \E d \in Int : \A t \in Tills : Gains(t, n, c, d)
    PROVE  OweOK'
<1>1. ASSUME NEW n \in Phones \ lost', NEW c \in Columns, NEW t \in Tills
      PROVE  /\ Counted(Booked(t, n, c)') /\ Counted(Coming(t, n, c)') /\ Counted(Unsent(t, n, c)')
             /\ \A o \in Tills : InAll(t, n, c)' = InAll(o, n, c)'
  <2>1. PICK d \in Int : \A o \in Tills : Gains(o, n, c, d)
    OBVIOUS
  <2>2. ASSUME NEW o \in Tills
        PROVE  /\ Counted(Booked(o, n, c)) /\ Counted(Coming(o, n, c)) /\ Counted(Unsent(o, n, c))
               /\ InAll(t, n, c) = InAll(o, n, c)
    BY DEF OweOK
  <2>3. ASSUME NEW o \in Tills
        PROVE  /\ Counted(Booked(o, n, c)') /\ Counted(Coming(o, n, c)') /\ Counted(Unsent(o, n, c)')
               /\ InAll(o, n, c)' = InAll(o, n, c) + d
    BY <2>1, <2>2, GainIs
  <2> QED BY <2>2, <2>3
<1>2. ASSUME NEW n \in Phones \ lost', NEW c \in Columns, NEW t \in Tills
      PROVE  /\ Counted(Booked(t, n, c))' /\ Counted(Coming(t, n, c))' /\ Counted(Unsent(t, n, c))'
             /\ (\A o \in Tills : InAll(t, n, c) = InAll(o, n, c))'
  BY <1>1, CountedNext
<1> QED BY <1>2 DEF OweOK

-----------------------------------------------------------------------------
\* Rows of a phone number stay under it, and none comes in with money.
PhonesKeep(n) ==
    \A o \in Tills : \A j \in DOMAIN book[o] :
        j \in DOMAIN book'[o] /\ (book'[o][j].phone = n <=> book[o][j].phone = n)
MoneyKeeps(o, j, n) ==
    book'[o][j].phone = n => \A c \in Columns :
        Held(book'[o][j], c) = IF j \in DOMAIN book[o] THEN Held(book[o][j], c) ELSE 0

LEMMA BookedStays ==
    ASSUME NEW n, NEW c \in Columns, NEW o \in Tills, PhonesKeep(n),
           \A j \in DOMAIN book'[o] : MoneyKeeps(o, j, n)
    PROVE  Moved(Booked(o, n, c), Booked(o, n, c)', 0)
<1>1. PICK F, G : F = Booked(o, n, c) /\ G = Booked(o, n, c)'
  OBVIOUS
<1>2. ASSUME NEW j PROVE Value(F, j) = Value(G, j)
  <2>1. CASE j \in DOMAIN book[o]
    BY <1>1, <2>1 DEF Value, Booked, PhonesKeep, MoneyKeeps
  <2>2. CASE j \notin DOMAIN book[o]
    BY <1>1, <2>2 DEF Value, Booked, PhonesKeep, MoneyKeeps
  <2> QED BY <2>1, <2>2
<1> QED BY <1>1, <1>2, ZerosAreNothing

LEMMA HeldIs ==
    ASSUME NEW row \in CustomerRow, NEW c
    PROVE  Held(row, c) \in Int
BY DEF CustomerRow, Held

LEMMA BookedTurns ==
    ASSUME BookTypes, BookTypes', NEW t \in Tills, NEW i \in DOMAIN book[t], OnlyRow(t, i),
           NEW n, PhonesKeep(n), NEW c \in Columns, NEW d \in Int,
           book[t][i].phone = n => Held(book'[t][i], c) = Held(book[t][i], c) + d
    PROVE  /\ Moved(Booked(t, n, c), Booked(t, n, c)', IF book[t][i].phone = n THEN d ELSE 0)
           /\ \A o \in Tills \ {t} : Moved(Booked(o, n, c), Booked(o, n, c)', 0)
<1>1. PICK F, G : F = Booked(t, n, c) /\ G = Booked(t, n, c)'
  OBVIOUS
<1>2. SameBut(F, G, i)
  BY <1>1 DEF SameBut, Booked, OnlyRow
<1>3. Held(book[t][i], c) \in Int
  BY RowIs, HeldIs
<1>4. PICK v, w : /\ v = (IF book[t][i].phone = n THEN Held(book[t][i], c) ELSE 0)
                  /\ w = (IF book[t][i].phone = n THEN Held(book[t][i], c) + d ELSE 0)
  OBVIOUS
<1>5. Value(F, i) = v /\ Value(G, i) = w
  BY <1>1, <1>4 DEF Value, Booked, PhonesKeep
<1>6. v \in Int /\ w \in Int /\ w - v = IF book[t][i].phone = n THEN d ELSE 0
  BY <1>3, <1>4
<1>7. Moved(F, G, w - v)
  BY <1>2, <1>5, <1>6, NetTurns
<1>8. ASSUME NEW o \in Tills \ {t} PROVE Moved(Booked(o, n, c), Booked(o, n, c)', 0)
  <2>1. \A j \in DOMAIN book'[o] : MoneyKeeps(o, j, n)
    BY DEF MoneyKeeps, OnlyRow
  <2> QED BY <2>1, BookedStays
<1> QED BY <1>1, <1>6, <1>7, <1>8

\* Requests that have nothing to tell of money.
LEMMA UnsentStays ==
    ASSUME AccountSlotsOK, NEW n, PhonesKeep(n), NEW c \in Columns, NEW o \in Tills,
           \A r \in Requests : \/ req'[r] = req[r]
                               \/ req[r].step \notin Columns /\ req'[r].step \notin Columns
    PROVE  Moved(Unsent(o, n, c), Unsent(o, n, c)', 0)
<1>1. PICK F, G : F = Unsent(o, n, c) /\ G = Unsent(o, n, c)'
  OBVIOUS
<1>2. DOMAIN F = Requests /\ DOMAIN G = Requests
  BY <1>1 DEF Unsent
<1>3. ASSUME NEW r \in Requests PROVE F[r] = G[r]
  <2>1. CASE req'[r] = req[r]
    <3>1. req[r].step = c => req[r].at \in Tills /\ req[r].doc \in DOMAIN book[req[r].at]
      BY DEF AccountSlotsOK, AccountSlotOK, Columns, TellSteps
    <3> QED BY <1>1, <2>1, <3>1 DEF Unsent, PhonesKeep
  <2>2. CASE req[r].step \notin Columns /\ req'[r].step \notin Columns
    BY <1>1, <2>2 DEF Unsent
  <2> QED BY <2>1, <2>2
<1>4. \A r : Value(F, r) = Value(G, r)
  BY <1>2, <1>3 DEF Value
<1> QED BY <1>1, <1>4, ZerosAreNothing

\* What a slot has yet to tell till o.
HasToTell(slot, o, n, c) == slot.step = c /\ slot.at # o /\ book[slot.at][slot.doc].phone = n

LEMMA UnsentTurns ==
    ASSUME AccountSlotsOK, AccountSlotsOK', NEW n, PhonesKeep(n), NEW c \in Columns,
           NEW o \in Tills, NEW q \in Requests, \A r \in Requests \ {q} : req'[r] = req[r],
           NEW v \in Int, v = (IF HasToTell(req[q], o, n, c) THEN req[q].seen ELSE 0),
           NEW w \in Int, w = (IF HasToTell(req[q], o, n, c)' THEN req'[q].seen ELSE 0)
    PROVE  Moved(Unsent(o, n, c), Unsent(o, n, c)', w - v)
<1>1. PICK F, G : F = Unsent(o, n, c) /\ G = Unsent(o, n, c)'
  OBVIOUS
<1>2. DOMAIN F = Requests /\ DOMAIN G = Requests
  BY <1>1 DEF Unsent
<1>3. ASSUME NEW r \in Requests \ {q} PROVE F[r] = G[r]
  <2>1. req[r].step = c => req[r].at \in Tills /\ req[r].doc \in DOMAIN book[req[r].at]
    BY DEF AccountSlotsOK, AccountSlotOK, Columns, TellSteps
  <2> QED BY <1>1, <2>1 DEF Unsent, PhonesKeep
<1>4. SameBut(F, G, q)
  BY <1>2, <1>3 DEF SameBut
<1>5. Value(F, q) = v /\ Value(G, q) = w
  BY <1>1 DEF Value, Unsent, HasToTell
<1> QED BY <1>1, <1>4, <1>5, NetTurns

-----------------------------------------------------------------------------
\* What is coming, when the inboxes stay, when an event goes out, and when one is taken.
Marking(o) == AtStep(o, "mark")
LEMMA ComingStays ==
    ASSUME NEW o \in Tills, NEW n, NEW c, inbox'[o] = inbox[o], Marking(o)' <=> Marking(o)
    PROVE  Moved(Coming(o, n, c), Coming(o, n, c)', 0)
<1>1. PICK F, G : F = Coming(o, n, c) /\ G = Coming(o, n, c)'
  OBVIOUS
<1>2. F = G
  BY <1>1 DEF Coming, Marking
<1> QED BY <1>1, <1>2, ZerosAreNothing

LEMMA AmountIs ==
    ASSUME NEW e \in FeedEvent, NEW n, NEW c
    PROVE  (IF Pays(e, n, c) THEN e.amount ELSE 0) \in Int
BY DEF FeedEvent, CustomerEvent, LedgerEvent, VoidEvent, Pays

LEMMA ComingSent ==
    ASSUME FeedOK, AccountSlotsOK, NEW t \in Tills, NEW e \in FeedEvent, Emit(t, e),
           \A o \in Tills : Marking(o)' <=> Marking(o), NEW o \in Tills, NEW n, NEW c
    PROVE  Moved(Coming(o, n, c), Coming(o, n, c)',
                 IF o # t /\ Pays(e, n, c) THEN e.amount ELSE 0)
<1>1. CASE o = t
  <2>1. inbox'[o] = inbox[o]
    BY <1>1 DEF Emit
  <2> QED BY <1>1, <2>1, ComingStays
<1>2. CASE o # t
  <2> DEFINE k == Len(inbox[o]) + 1
  <2>1. PICK F, G : F = Coming(o, n, c) /\ G = Coming(o, n, c)'
    OBVIOUS
  <2>2. PICK s : s = inbox[o]
    OBVIOUS
  <2>3. s \in Seq(FeedEvent) /\ inbox'[o] = Append(s, e)
    BY <1>2, <2>2 DEF Emit, FeedOK
  <2>4. /\ DOMAIN s = 1..Len(s) /\ Len(s) \in Nat /\ k \notin DOMAIN s
        /\ DOMAIN inbox'[o] = DOMAIN s \cup {k} /\ inbox'[o][k] = e
        /\ \A j \in DOMAIN s : inbox'[o][j] = s[j]
    BY <2>2, <2>3
  <2>5. Marking(o) => s # <<>>
    BY <2>2 DEF AccountSlotsOK, ApplyingOK, Arrived, Marking, AtStep
  <2>6. Marking(o)' => k # 1
    BY <2>2, <2>4, <2>5
  <2> HIDE DEF k
  <2>7. SameBut(F, G, k)
    <3>1. DOMAIN F = DOMAIN s /\ DOMAIN G = DOMAIN s \cup {k}
      BY <2>1, <2>2, <2>4 DEF Coming
    <3>2. \A j \in DOMAIN s : F[j] = G[j]
      BY <2>1, <2>2, <2>4 DEF Coming, Marking
    <3> QED BY <2>4, <3>1, <3>2 DEF SameBut
  <2>8. PICK w : w = (IF Pays(e, n, c) THEN e.amount ELSE 0)
    OBVIOUS
  <2>9. Value(F, k) = 0 /\ Value(G, k) = w
    BY <2>1, <2>2, <2>4, <2>6, <2>8 DEF Value, Coming, Marking
  <2>10. w \in Int
    BY <2>8, AmountIs
  <2>11. Moved(F, G, w - 0) /\ w - 0 = w
    BY <2>7, <2>9, <2>10, NetTurns
  <2> QED BY <1>2, <2>1, <2>8, <2>11
<1> QED BY <1>1, <1>2

LEMMA ComingTaken ==
    ASSUME FeedOK, NEW t \in Tills, inbox[t] # <<>>, Received(t), ~Marking(t)',
           \A o \in Tills \ {t} : Marking(o)' <=> Marking(o), NEW n, NEW c
    PROVE  /\ Moved(Coming(t, n, c), Coming(t, n, c)',
                    0 - (IF ~Marking(t) /\ Pays(Head(inbox[t]), n, c)
                         THEN Head(inbox[t]).amount ELSE 0))
           /\ \A o \in Tills \ {t} : Moved(Coming(o, n, c), Coming(o, n, c)', 0)
<1>1. /\ inbox'[t] = Tail(inbox[t]) /\ \A o \in Tills \ {t} : inbox'[o] = inbox[o]
      /\ inbox[t] \in Seq(FeedEvent)
  BY DEF Received, FeedOK
<1>2. PICK F, G : F = Coming(t, n, c) /\ G = Coming(t, n, c)'
  OBVIOUS
<1>3. PICK s, e : s = inbox[t] /\ e = Head(s)
  OBVIOUS
<1>4. /\ Len(s) \in Nat /\ Len(s) > 0 /\ DOMAIN s = 1..Len(s) /\ e = s[1] /\ e \in FeedEvent
      /\ DOMAIN inbox'[t] = 1..(Len(s) - 1)
      /\ \A k \in 1..(Len(s) - 1) : inbox'[t][k] = s[k + 1]
  BY <1>1, <1>3
<1>5. DOMAIN F = 1..Len(s) /\ DOMAIN G = 1..(Len(s) - 1)
  BY <1>2, <1>3, <1>4 DEF Coming
<1>6. PICK v : v = (IF ~Marking(t) /\ Pays(e, n, c) THEN e.amount ELSE 0)
  OBVIOUS
<1>7. F[1] = v
  BY <1>2, <1>3, <1>4, <1>6 DEF Coming, Marking
<1>8. v \in Int
  BY <1>4, <1>6, AmountIs
<1>9. \A k \in 1..(Len(s) - 1) : G[k] = F[k + 1]
  <2>1. SUFFICES ASSUME NEW k \in 1..(Len(s) - 1) PROVE G[k] = F[k + 1]
    OBVIOUS
  <2>2. k + 1 \in 1..Len(s) /\ k + 1 # 1 /\ inbox'[t][k] = s[k + 1]
    BY <1>4
  <2> QED BY <1>2, <1>3, <1>4, <2>2 DEF Coming, Marking
<1>10. Moved(F, G, 0 - v)
  BY <1>4, <1>5, <1>7, <1>8, <1>9, TailMoves
<1>11. ASSUME NEW o \in Tills \ {t} PROVE Moved(Coming(o, n, c), Coming(o, n, c)', 0)
  BY <1>1, ComingStays
<1> QED BY <1>2, <1>3, <1>6, <1>10, <1>11

LEMMA ComingMoved ==
    ASSUME FeedOK, NEW t \in Tills, inbox[t] # <<>>, inbox' = inbox, ~Marking(t), Marking(t)',
           \A o \in Tills \ {t} : Marking(o)' <=> Marking(o), NEW n, NEW c
    PROVE  /\ Moved(Coming(t, n, c), Coming(t, n, c)',
                    0 - (IF Pays(Head(inbox[t]), n, c) THEN Head(inbox[t]).amount ELSE 0))
           /\ \A o \in Tills \ {t} : Moved(Coming(o, n, c), Coming(o, n, c)', 0)
<1>1. PICK F, G : F = Coming(t, n, c) /\ G = Coming(t, n, c)'
  OBVIOUS
<1>2. PICK s, e : s = inbox[t] /\ e = Head(s)
  OBVIOUS
<1>3. 1 \in DOMAIN s /\ e = s[1] /\ e \in FeedEvent /\ inbox'[t] = s
  BY <1>2 DEF FeedOK
<1>4. SameBut(F, G, 1)
  BY <1>1, <1>2 DEF SameBut, Coming, Marking
<1>5. PICK v : v = (IF Pays(e, n, c) THEN e.amount ELSE 0)
  OBVIOUS
<1>6. Value(F, 1) = v /\ Value(G, 1) = 0
  BY <1>1, <1>2, <1>3, <1>5 DEF Value, Coming, Marking
<1>7. v \in Int
  BY <1>3, <1>5, AmountIs
<1>8. Moved(F, G, 0 - v)
  BY <1>4, <1>6, <1>7, NetTurns
<1>9. ASSUME NEW o \in Tills \ {t} PROVE Moved(Coming(o, n, c), Coming(o, n, c)', 0)
  BY ComingStays
<1> QED BY <1>1, <1>2, <1>5, <1>8, <1>9

LEMMA RowOfEventStays ==
    ASSUME AccountSlotsOK, NEW o \in Tills, RowOfEvent(o), req'[o] = req[o], lost \subseteq lost',
           inbox[o] # <<>> => Head(inbox'[o]) = Head(inbox[o]),
           \A j \in DOMAIN book[o] : \/ book'[o][j].phone = book[o][j].phone
                                     \/ {book'[o][j].phone, book[o][j].phone} \subseteq lost'
    PROVE  RowOfEvent(o)'
<1>1. SUFFICES ASSUME req[o].step \in {"move", "mark"}
               PROVE  LET p == book'[o][req[o].doc].phone
                          e == Head(inbox'[o]).phone
                      IN p = e \/ {p, e} \subseteq lost'
  BY DEF RowOfEvent
<1>2. req[o].doc \in DOMAIN book[o] /\ inbox[o] # <<>>
  BY <1>1 DEF AccountSlotsOK, ApplyingOK, Arrived
<1> QED BY <1>1, <1>2 DEF RowOfEvent

\* Steps that change nothing of it.
LEMMA NoneGains ==
    ASSUME NEW t, NEW n, NEW c,
           Moved(Booked(t, n, c), Booked(t, n, c)', 0), Moved(Coming(t, n, c), Coming(t, n, c)', 0),
           Moved(Unsent(t, n, c), Unsent(t, n, c)', 0)
    PROVE  Gains(t, n, c, 0)
<1>1. 0 \in Int /\ 0 + 0 + 0 = 0
  OBVIOUS
<1> QED BY <1>1 DEF Gains

-----------------------------------------------------------------------------
\* A row that is written with its account moved by amount in one column.
Tally(t, i, row, kind, amount) ==
    /\ row \in CustomerRow /\ row.phone = book[t][i].phone
    /\ \A c \in Columns :
          Held(row, c) = Held(book[t][i], c) + (IF c = kind THEN amount ELSE 0)

LEMMA CommitOwes ==
    ASSUME AccountsIInv, AccountsIInv', OweOK, NEW q \in Requests, NEW t \in Tills,
           NEW i \in DOMAIN book[t], NEW row, NEW kind \in Columns, NEW amount \in Int,
           Tally(t, i, row, kind, amount), Commit(q, t, i, row, kind, amount)
    PROVE  OweOK'
<1>1. PICK new, slot : /\ new = [row EXCEPT !.stamp = nowStamp(t)]
                       /\ slot = Work(kind, t, i, amount)
  OBVIOUS
<1>2. /\ book' = [book EXCEPT ![t][i] = new] /\ Put(q, slot) /\ Moment /\ req[q] = IdleSlot
      /\ UNCHANGED <<inbox, lost>>
  BY <1>1 DEF Commit, Telling, Idle
<1>3. nowStamp(t) \in Nat
  BY <1>2, StampNow DEF AccountsIInv
<1>4. Tally(t, i, new, kind, amount)
  <2>1. /\ new \in CustomerRow /\ new.phone = row.phone /\ new.balance = row.balance
        /\ new.credit = row.credit /\ new.doubled = row.doubled
    BY <1>1, <1>3 DEF CustomerRow, Tally
  <2> QED BY <2>1 DEF Tally, Held
<1>5. BookTypes /\ BookTypes' /\ AccountSlotsOK /\ AccountSlotsOK'
  BY DEF AccountsIInv
<1>6. book'[t][i] = new /\ OnlyRow(t, i)
  BY <1>2, <1>4, <1>5, RowWritten DEF Tally
<1>7. /\ slot.step = kind /\ slot.at = t /\ slot.doc = i /\ slot.seen = amount
      /\ req[q].step = "idle"
  BY <1>1, <1>2, SlotIs
<1>8. /\ req'[q] = slot /\ \A r \in Requests \ {q} : req'[r] = req[r]
      /\ SyncingStays
  BY <1>2, <1>5, Putting
<1>9. \A o \in Tills : \A j \in DOMAIN book[o] :
          j \in DOMAIN book'[o] /\ book'[o][j].phone = book[o][j].phone
  BY <1>4, <1>6 DEF OnlyRow, Tally
<1>10. \A n : PhonesKeep(n)
  BY <1>9 DEF PhonesKeep
<1>11. \A o \in Tills : RowOfEvent(o)'
  BY <1>2, <1>5, <1>8, <1>9, RowOfEventStays DEF OweOK, SyncingStays
<1>12. ASSUME NEW n, NEW c \in Columns
       PROVE  \E d \in Int : \A o \in Tills : Gains(o, n, c, d)
  <2>1. PICK d \in Int : d = IF c = kind THEN amount ELSE 0
    OBVIOUS
  <2>2. PICK w \in Int : w = IF book[t][i].phone = n THEN d ELSE 0
    OBVIOUS
  <2>3. Held(book'[t][i], c) = Held(book[t][i], c) + d
    BY <1>4, <1>6, <2>1 DEF Tally
  <2>4. /\ Moved(Booked(t, n, c), Booked(t, n, c)', w)
        /\ \A o \in Tills \ {t} : Moved(Booked(o, n, c), Booked(o, n, c)', 0)
    BY <1>5, <1>6, <1>10, <2>2, <2>3, BookedTurns
  <2>5. ASSUME NEW o \in Tills PROVE Moved(Coming(o, n, c), Coming(o, n, c)', 0)
    BY <1>2, <1>8, ComingStays DEF SyncingStays, Marking, AtStep
  <2>6. ASSUME NEW o \in Tills
        PROVE  Moved(Unsent(o, n, c), Unsent(o, n, c)', (IF o = t THEN 0 ELSE w) - 0)
    <3>1. ~HasToTell(req[q], o, n, c)
      BY <1>7 DEF HasToTell, Columns
    <3>2. HasToTell(req[q], o, n, c)' <=> kind = c /\ t # o /\ book[t][i].phone = n
      BY <1>4, <1>6, <1>7, <1>8 DEF HasToTell, Tally
    <3>3. PICK x \in Int : x = IF o = t THEN 0 ELSE w
      OBVIOUS
    <3>4. x = IF HasToTell(req[q], o, n, c)' THEN req'[q].seen ELSE 0
      BY <1>7, <1>8, <2>1, <2>2, <3>2, <3>3
    <3>5. Moved(Unsent(o, n, c), Unsent(o, n, c)', x - 0)
      BY <1>5, <1>8, <1>10, <3>1, <3>4, 0 \in Int, UnsentTurns
    <3> QED BY <3>3, <3>5
  <2>7. ASSUME NEW o \in Tills PROVE Gains(o, n, c, w)
    <3>1. CASE o = t
      <4>1. w + 0 + 0 = w /\ 0 - 0 = 0 /\ 0 \in Int
        OBVIOUS
      <4> QED BY <2>4, <2>5, <2>6, <3>1, <4>1 DEF Gains
    <3>2. CASE o # t
      <4>1. 0 + 0 + w = w /\ w - 0 = w /\ 0 \in Int
        OBVIOUS
      <4> QED BY <2>4, <2>5, <2>6, <3>2, <4>1 DEF Gains
    <3> QED BY <3>1, <3>2
  <2> QED BY <2>7
<1> QED BY <1>2, <1>11, <1>12, OweNext

\* A request tells of money: what is no longer unsent is coming.
LEMMA TellingOwes ==
    ASSUME AccountsIInv, AccountsIInv', OweOK, NEW q \in Requests, EmitLedger(q)
    PROVE  OweOK'
<1>1. /\ req[q].step \in Columns /\ UNCHANGED <<book, lost>> /\ Put(q, IdleSlot)
  BY DEF EmitLedger, Columns, accountVars
<1>2. BookTypes /\ AccountSlotsOK /\ AccountSlotsOK' /\ FeedOK
  BY DEF AccountsIInv
<1>3. req[q].at \in Tills /\ req[q].doc \in DOMAIN book[req[q].at] /\ req[q].seen \in Int
  BY <1>1, <1>2 DEF AccountSlotsOK, AccountSlotOK, Columns, TellSteps
<1>4. PICK t \in Tills, x \in Int : t = req[q].at /\ x = req[q].seen
  BY <1>3
<1>5. PICK e : e = [kind |-> "ledger", column |-> req[q].step, amount |-> x,
                    phone |-> book[t][req[q].doc].phone]
  OBVIOUS
<1>6. Emit(t, e)
  BY <1>4, <1>5 DEF EmitLedger
<1>7. e \in FeedEvent
  <2>1. book[t][req[q].doc].phone \in Phones
    BY <1>2, <1>3, <1>4, RowIs DEF CustomerRow
  <2> QED BY <1>1, <1>4, <1>5, <2>1 DEF FeedEvent, LedgerEvent
<1>8. /\ req'[q] = IdleSlot /\ \A r \in Requests \ {q} : req'[r] = req[r]
      /\ SyncingStays
  BY <1>1, <1>2, Putting
<1>9. \A o \in Tills : inbox[o] # <<>> => Head(inbox'[o]) = Head(inbox[o])
  BY <1>2, <1>6 DEF Emit, FeedOK
<1>10. \A n : PhonesKeep(n)
  BY <1>1 DEF PhonesKeep
<1>11. \A o \in Tills : RowOfEvent(o)'
  BY <1>1, <1>2, <1>8, <1>9, RowOfEventStays DEF OweOK, SyncingStays
<1>12. ASSUME NEW n, NEW c \in Columns, NEW o \in Tills PROVE Gains(o, n, c, 0)
  <2>1. Moved(Booked(o, n, c), Booked(o, n, c)', 0)
    <3>1. \A j \in DOMAIN book'[o] : MoneyKeeps(o, j, n)
      BY <1>1 DEF MoneyKeeps
    <3> QED BY <1>10, <3>1, BookedStays
  <2>2. PICK w \in Int : w = IF o # t /\ Pays(e, n, c) THEN x ELSE 0
    OBVIOUS
  <2>3. Moved(Coming(o, n, c), Coming(o, n, c)', w)
    <3>1. \A s \in Tills : Marking(s)' <=> Marking(s)
      BY <1>8 DEF SyncingStays, Marking, AtStep
    <3>2. w = IF o # t /\ Pays(e, n, c) THEN e.amount ELSE 0
      BY <1>5, <2>2
    <3> QED BY <1>2, <1>6, <1>7, <3>1, <3>2, ComingSent
  <2>4. Moved(Unsent(o, n, c), Unsent(o, n, c)', 0 - w)
    <3>1. HasToTell(req[q], o, n, c) <=> o # t /\ Pays(e, n, c)
      BY <1>4, <1>5 DEF HasToTell, Pays
    <3>2. w = IF HasToTell(req[q], o, n, c) THEN req[q].seen ELSE 0
      BY <1>4, <2>2, <3>1
    <3>3. ~HasToTell(req[q], o, n, c)'
      BY <1>8, SlotIs DEF HasToTell, Columns
    <3> QED BY <1>2, <1>8, <1>10, <3>2, <3>3, 0 \in Int, UnsentTurns
  <2>5. 0 + w + (0 - w) = 0 /\ 0 - w \in Int /\ 0 \in Int
    OBVIOUS
  <2> QED BY <2>1, <2>3, <2>4, <2>5 DEF Gains
<1> QED BY <1>1, <1>11, <1>12, 0 \in Int, OweNext

-----------------------------------------------------------------------------
\* Rows that keep their number and their money, unless the number is given up.
RowsKept ==
    /\ \A n \in Phones \ lost' :
          PhonesKeep(n) /\ \A o \in Tills : \A j \in DOMAIN book'[o] : MoneyKeeps(o, j, n)
    /\ \A o \in Tills : \A j \in DOMAIN book[o] :
          \/ book'[o][j].phone = book[o][j].phone
          \/ {book'[o][j].phone, book[o][j].phone} \subseteq lost'

LEMMA BookKept ==
    ASSUME UNCHANGED book
    PROVE  RowsKept
BY DEF RowsKept, PhonesKeep, MoneyKeeps

LEMMA RowKept ==
    ASSUME NEW t \in Tills, NEW i, OnlyRow(t, i),
           \/ i \notin DOMAIN book[t] /\ \A c \in Columns : Held(book'[t][i], c) = 0
           \/ /\ i \in DOMAIN book[t]
              /\ \A c \in Columns : Held(book'[t][i], c) = Held(book[t][i], c)
              /\ \/ book'[t][i].phone = book[t][i].phone
                 \/ {book'[t][i].phone, book[t][i].phone} \subseteq lost'
    PROVE  RowsKept
<1>1. ASSUME NEW o \in Tills, NEW j \in DOMAIN book[o]
      PROVE  /\ j \in DOMAIN book'[o]
             /\ \A c \in Columns : Held(book'[o][j], c) = Held(book[o][j], c)
             /\ \/ book'[o][j].phone = book[o][j].phone
                \/ {book'[o][j].phone, book[o][j].phone} \subseteq lost'
  <2>1. CASE o = t /\ j = i
    BY <2>1 DEF OnlyRow
  <2>2. CASE o # t \/ j # i
    BY <2>2 DEF OnlyRow
  <2> QED BY <2>1, <2>2
<1>2. ASSUME NEW n \in Phones \ lost' PROVE PhonesKeep(n)
  BY <1>1 DEF PhonesKeep
<1>3. ASSUME NEW n, NEW o \in Tills, NEW j \in DOMAIN book'[o] PROVE MoneyKeeps(o, j, n)
  <2>1. CASE j \in DOMAIN book[o]
    BY <1>1, <2>1 DEF MoneyKeeps
  <2>2. CASE j \notin DOMAIN book[o]
    <3>1. o = t /\ j = i
      BY <2>2 DEF OnlyRow
    <3> QED BY <2>2, <3>1 DEF MoneyKeeps
  <2> QED BY <2>1, <2>2
<1> QED BY <1>1, <1>2, <1>3 DEF RowsKept

LEMMA SameHeld ==
    ASSUME NEW row, NEW old, NEW c,
           row.balance = old.balance /\ row.credit = old.credit /\ row.doubled = old.doubled
    PROVE  Held(row, c) = Held(old, c)
BY DEF Held

LEMMA NoneHeld ==
    ASSUME NEW row, NEW c, row.balance = 0 /\ row.credit = 0 /\ row.doubled = 0
    PROVE  Held(row, c) = 0
BY DEF Held

\* A step about something else than money; an event that is taken is about something else.
QuietInbox ==
    \/ UNCHANGED inbox
    \/ \E t \in Tills, e \in FeedEvent : e.kind # "ledger" /\ Emit(t, e)
    \/ \E t \in Tills : /\ Received(t) /\ inbox[t] # <<>> /\ Head(inbox[t]).kind # "ledger"
                        /\ req[t] = IdleSlot

LEMMA QuietComing ==
    ASSUME FeedOK, AccountSlotsOK, QuietInbox, SyncingStays, NEW o \in Tills, NEW n, NEW c
    PROVE  Moved(Coming(o, n, c), Coming(o, n, c)', 0)
<1>1. \A s \in Tills : Marking(s)' <=> Marking(s)
  BY DEF SyncingStays, Marking, AtStep
<1>2. CASE UNCHANGED inbox
  BY <1>1, <1>2, ComingStays
<1>3. ASSUME NEW t \in Tills, NEW e \in FeedEvent, e.kind # "ledger", Emit(t, e)
      PROVE  Moved(Coming(o, n, c), Coming(o, n, c)', 0)
  <2>1. ~Pays(e, n, c)
    BY <1>3 DEF Pays
  <2>2. Moved(Coming(o, n, c), Coming(o, n, c)',
              IF o # t /\ Pays(e, n, c) THEN e.amount ELSE 0)
    BY <1>1, <1>3, ComingSent
  <2> QED BY <2>1, <2>2
<1>4. ASSUME NEW t \in Tills, Received(t), inbox[t] # <<>>, Head(inbox[t]).kind # "ledger",
             req[t] = IdleSlot
      PROVE  Moved(Coming(o, n, c), Coming(o, n, c)', 0)
  <2>1. ~Marking(t) /\ ~Marking(t)' /\ ~Pays(Head(inbox[t]), n, c)
    BY <1>1, <1>4 DEF Marking, AtStep, IdleSlot, Pays
  <2>2. /\ Moved(Coming(t, n, c), Coming(t, n, c)',
                 0 - (IF ~Marking(t) /\ Pays(Head(inbox[t]), n, c)
                      THEN Head(inbox[t]).amount ELSE 0))
        /\ \A s \in Tills \ {t} : Moved(Coming(s, n, c), Coming(s, n, c)', 0)
    BY <1>1, <1>4, <2>1, ComingTaken
  <2>3. 0 - 0 = 0
    OBVIOUS
  <2> QED BY <2>1, <2>2, <2>3
<1> QED BY <1>2, <1>3, <1>4 DEF QuietInbox

LEMMA QuietOwes ==
    ASSUME AccountsIInv, OweOK, lost \subseteq lost', RowsKept, QuietInbox, SyncingStays,
           \A r \in Requests : \/ req'[r] = req[r]
                               \/ req[r].step \notin Columns /\ req'[r].step \notin Columns
    PROVE  OweOK'
<1>1. AccountSlotsOK /\ FeedOK
  BY DEF AccountsIInv
<1>2. ASSUME NEW n \in Phones \ lost', NEW c \in Columns, NEW o \in Tills
      PROVE  Gains(o, n, c, 0)
  <2>1. PhonesKeep(n) /\ \A j \in DOMAIN book'[o] : MoneyKeeps(o, j, n)
    BY DEF RowsKept
  <2>2. Moved(Booked(o, n, c), Booked(o, n, c)', 0)
    BY <2>1, BookedStays
  <2>3. Moved(Coming(o, n, c), Coming(o, n, c)', 0)
    BY <1>1, QuietComing
  <2>4. Moved(Unsent(o, n, c), Unsent(o, n, c)', 0)
    BY <1>1, <2>1, UnsentStays
  <2> QED BY <2>2, <2>3, <2>4, NoneGains
<1>3. ASSUME NEW o \in Tills PROVE RowOfEvent(o)'
  <2>1. \A j \in DOMAIN book[o] : \/ book'[o][j].phone = book[o][j].phone
                                  \/ {book'[o][j].phone, book[o][j].phone} \subseteq lost'
    BY DEF RowsKept
  <2>2. req'[o] = req[o] /\ RowOfEvent(o)
    BY DEF SyncingStays, OweOK
  <2>3. CASE req[o] = IdleSlot
    BY <2>2, <2>3 DEF RowOfEvent, IdleSlot
  <2>4. CASE req[o] # IdleSlot
    <3>1. inbox[o] # <<>> => Head(inbox'[o]) = Head(inbox[o])
      <4>1. ASSUME NEW t \in Tills, NEW e \in FeedEvent, Emit(t, e)
            PROVE  inbox[o] # <<>> => Head(inbox'[o]) = Head(inbox[o])
        BY <1>1, <4>1 DEF Emit, FeedOK
      <4>2. ASSUME NEW t \in Tills, Received(t), req[t] = IdleSlot
            PROVE  inbox'[o] = inbox[o]
        BY <1>1, <2>4, <4>2 DEF Received, FeedOK
      <4> QED BY <4>1, <4>2 DEF QuietInbox
    <3> QED BY <1>1, <2>1, <2>2, <3>1, RowOfEventStays
  <2> QED BY <2>3, <2>4
<1> QED BY <1>2, <1>3, 0 \in Int, OweNext

-----------------------------------------------------------------------------
LEMMA RequestGoes ==
    ASSUME AccountSlotsOK, NEW q \in Requests, NEW slot, Put(q, slot),
           req[q].step \notin Columns, slot.step \notin Columns
    PROVE  /\ SyncingStays
           /\ \A r \in Requests : \/ req'[r] = req[r]
                                  \/ req[r].step \notin Columns /\ req'[r].step \notin Columns
<1>1. /\ req'[q] = slot /\ SyncingStays
      /\ \A r \in (Requests \cup Tills) \ {q} : req'[r] = req[r]
  BY Putting
<1> QED BY <1>1

\* The customer book.
LEMMA CustomersOwe ==
    ASSUME AccountsIInv, OweOK, Customers
    PROVE  OweOK'
<1>0. BookTypes /\ AccountSlotsOK /\ FeedOK
  BY DEF AccountsIInv
<1>1. ASSUME NEW q \in Requests, NEW t \in Tills, NEW n \in Phones, CreateCustomerLook(q, t, n)
      PROVE  OweOK'
  <2>1. PICK slot : slot = Work("create", t, n, None)
    OBVIOUS
  <2>2. Put(q, slot) /\ UNCHANGED <<inbox, book, lost>> /\ req[q] = IdleSlot
    BY <1>1, <2>1 DEF CreateCustomerLook, Idle
  <2>3. slot.step \notin Columns /\ req[q].step \notin Columns
    BY <2>1, <2>2, SlotIs DEF Columns
  <2> QED BY <1>0, <2>2, <2>3, RequestGoes, BookKept, QuietOwes DEF QuietInbox
<1>2. ASSUME NEW q \in Requests, CreateCustomer(q) PROVE OweOK'
  <2>1. req[q].step = "create" /\ Moment /\ UNCHANGED <<inbox, lost>>
    BY <1>2 DEF CreateCustomer, AtStep
  <2>2. req[q].at \in Tills /\ req[q].doc \in Phones
    BY <1>0, <2>1 DEF AccountSlotsOK, AccountSlotOK, TellSteps
  <2>3. PICK t \in Tills : t = req[q].at
    BY <2>2
  <2>4. PICK i, row, slot : /\ i = Len(book[t]) + 1
                            /\ row = NewCustomer(req[q].doc, Min(Limits), nowStamp(t))
                            /\ slot = Work("emitCustomer", t, i, None)
    OBVIOUS
  <2>5. book' = [book EXCEPT ![t] = Append(@, row)] /\ Put(q, slot)
    BY <1>2, <2>3, <2>4 DEF CreateCustomer, Telling
  <2>6. row \in CustomerRow /\ \A c \in Columns : Held(row, c) = 0
    <3>1. nowStamp(t) \in Nat
      BY <1>0, <2>1, StampNow
    <3>2. row \in CustomerRow /\ row.balance = 0 /\ row.credit = 0 /\ row.doubled = 0
      BY <2>2, <2>4, <3>1, LimitsAre DEF NewCustomer, CustomerRow
    <3> QED BY <3>2, NoneHeld
  <2>7. book'[t][i] = row /\ OnlyRow(t, i) /\ i \notin DOMAIN book[t]
    BY <1>0, <2>4, <2>5, <2>6, RowAppended
  <2>8. slot.step \notin Columns /\ req[q].step \notin Columns
    BY <2>1, <2>4, SlotIs DEF Columns
  <2>9. RowsKept
    BY <2>6, <2>7, RowKept
  <2> QED BY <1>0, <2>1, <2>5, <2>8, <2>9, RequestGoes, QuietOwes DEF QuietInbox
<1>3. ASSUME NEW q \in Requests, NEW t \in Tills, NEW i \in DOMAIN book[t],
             NEW n \in Phones, NEW limit \in Limits, UpdateCustomer(q, t, i, n, limit)
      PROVE  OweOK'
  <2>1. PICK old \in CustomerRow : old = book[t][i]
    BY <1>0, RowIs
  <2>2. PICK row, slot : /\ row = [old EXCEPT !.phone = n, !.limit = limit, !.stamp = nowStamp(t)]
                         /\ slot = Work("emitCustomer", t, i, None)
    OBVIOUS
  <2>3. /\ req[q] = IdleSlot /\ Moment /\ UNCHANGED inbox /\ Put(q, slot)
        /\ lost \subseteq lost' /\ (n = old.phone \/ {n, old.phone} \subseteq lost')
    BY <1>3, <2>1, <2>2 DEF UpdateCustomer, Telling, Idle
  <2>4. book' = [book EXCEPT ![t][i] = row]
    <3>1. book' = [book EXCEPT ![t] = [book[t] EXCEPT ![i] = row]]
      BY <1>3, <2>1, <2>2 DEF UpdateCustomer
    <3> QED BY <3>1
  <2>5. /\ row \in CustomerRow /\ row.phone = n
        /\ row.balance = old.balance /\ row.credit = old.credit /\ row.doubled = old.doubled
    <3>1. nowStamp(t) \in Nat
      BY <1>0, <2>3, StampNow
    <3> QED BY <2>2, <3>1 DEF CustomerRow
  <2>6. book'[t][i] = row /\ OnlyRow(t, i)
    BY <1>0, <2>4, <2>5, RowWritten
  <2>7. RowsKept
    <3>1. \A c \in Columns : Held(book'[t][i], c) = Held(book[t][i], c)
      BY <2>1, <2>5, <2>6, SameHeld
    <3> QED BY <2>1, <2>3, <2>5, <2>6, <3>1, RowKept
  <2>8. slot.step \notin Columns /\ req[q].step \notin Columns
    BY <2>2, <2>3, SlotIs DEF Columns
  <2> QED BY <1>0, <2>3, <2>7, <2>8, RequestGoes, QuietOwes DEF QuietInbox
<1>4. ASSUME NEW q \in Requests, EmitCustomer(q) PROVE OweOK'
  <2>1. req[q].step = "send" /\ Moment /\ lost' = lost /\ Put(q, IdleSlot)
    BY <1>4 DEF EmitCustomer, AtStep
  <2>2. /\ req[q].at \in Tills /\ req[q].doc \in DOMAIN book[req[q].at]
        /\ req[q].seen \in [phone : Phones, limit : Limits \cup {0}]
    BY <1>0, <2>1 DEF AccountSlotsOK, AccountSlotOK, TellSteps
  <2>3. PICK t \in Tills, i \in DOMAIN book[req[q].at] : t = req[q].at /\ i = req[q].doc
    BY <2>2
  <2>4. PICK old \in CustomerRow : old = book[t][i]
    BY <1>0, <2>3, RowIs
  <2>5. PICK s \in Nat : s = nowStamp(t)
    BY <1>0, <2>1, StampNow
  <2>6. PICK e, row : /\ e = [kind |-> "customer", phone |-> req[q].seen.phone,
                              limit |-> req[q].seen.limit, stamp |-> s]
                      /\ row = [old EXCEPT !.details = s]
    OBVIOUS
  <2>7. Emit(t, e) /\ book' = [book EXCEPT ![t][i] = row]
    <3>1. book' = [book EXCEPT ![t] = [book[t] EXCEPT ![i] = row]]
      BY <1>4, <2>3, <2>4, <2>5, <2>6 DEF EmitCustomer
    <3>2. Emit(t, e)
      BY <1>4, <2>3, <2>4, <2>5, <2>6 DEF EmitCustomer
    <3> QED BY <3>1, <3>2
  <2>8. e \in FeedEvent /\ e.kind # "ledger"
    BY <2>2, <2>6 DEF FeedEvent, CustomerEvent
  <2>9. /\ row \in CustomerRow /\ row.phone = old.phone
        /\ row.balance = old.balance /\ row.credit = old.credit /\ row.doubled = old.doubled
    BY <2>6 DEF CustomerRow
  <2>10. book'[t][i] = row /\ OnlyRow(t, i)
    <3>1. i \in DOMAIN book[t]
      BY <2>3
    <3> QED BY <1>0, <2>7, <2>9, <3>1, RowWritten
  <2>11. RowsKept
    <3>1. \A c \in Columns : Held(book'[t][i], c) = Held(book[t][i], c)
      BY <2>4, <2>9, <2>10, SameHeld
    <3> QED BY <2>3, <2>4, <2>9, <2>10, <3>1, RowKept
  <2>12. IdleSlot.step \notin Columns /\ req[q].step \notin Columns
    BY <2>1, SlotIs DEF Columns
  <2>13. QuietInbox
    BY <2>7, <2>8 DEF QuietInbox
  <2>14. PICK slot : slot = IdleSlot
    OBVIOUS
  <2>15. /\ SyncingStays
         /\ \A r \in Requests : \/ req'[r] = req[r]
                                \/ req[r].step \notin Columns /\ req'[r].step \notin Columns
    BY <1>0, <2>1, <2>12, <2>14, RequestGoes
  <2> QED BY <2>1, <2>11, <2>13, <2>15, QuietOwes
<1>5. ASSUME NEW q \in Requests, EmitCustomerRead(q) PROVE OweOK'
  <2>1. PICK read : read = [phone |-> book[req[q].at][req[q].doc].phone,
                            limit |-> book[req[q].at][req[q].doc].limit]
    OBVIOUS
  <2>2. PICK slot : slot = Work("send", req[q].at, req[q].doc, read)
    OBVIOUS
  <2>3. Put(q, slot) /\ UNCHANGED <<inbox, book, lost>> /\ req[q].step = "emitCustomer"
    BY <1>5, <2>1, <2>2 DEF EmitCustomerRead, Telling, AtStep, accountVars
  <2>4. slot.step \notin Columns /\ req[q].step \notin Columns
    BY <2>2, <2>3, SlotIs DEF Columns
  <2> QED BY <1>0, <2>3, <2>4, RequestGoes, BookKept, QuietOwes DEF QuietInbox
<1> QED BY <1>1, <1>2, <1>3, <1>4, <1>5 DEF Customers

\* Money: what a commit puts into an account is unsent, for the others.
LEMMA MoneyOwes ==
    ASSUME AccountsIInv, AccountsIInv', OweOK, Money
    PROVE  OweOK'
<1>0. BookTypes
  BY DEF AccountsIInv
<1>1. ASSUME NEW q \in Requests, NEW t \in Tills, NEW i \in DOMAIN book[t],
             \/ ChargeTab(q, t, i) \/ RecordCustomerPayment(q, t, i)
             \/ RecordCustomerAdjustment(q, t, i) \/ TopUpStoreCredit(q, t, i)
      PROVE  OweOK'
  <2>1. PICK old \in CustomerRow : old = book[t][i]
    BY <1>0, RowIs
  <2>2. PICK kind \in Columns, amount \in {-1, 1}, row \in CustomerRow :
            /\ Commit(q, t, i, row, kind, amount) /\ row.phone = old.phone
            /\ row.doubled = old.doubled
            /\ kind = "balance" => row.balance = old.balance + amount /\ row.credit = old.credit
            /\ kind = "credit" => row.credit = old.credit + amount /\ row.balance = old.balance
    <3>1. CASE ChargeTab(q, t, i)
      <4>1. PICK x \in Int, y \in Int : x = old.posted + 1 /\ y = old.balance + 1
        BY DEF CustomerRow
      <4>2. PICK row : row = [old EXCEPT !.posted = x, !.balance = y]
        OBVIOUS
      <4>3. Commit(q, t, i, row, "balance", 1)
        BY <2>1, <3>1, <4>1, <4>2 DEF ChargeTab, recordLedgerTx, MoveColumn, recordLedgerTxNoBalance
      <4>4. /\ row \in CustomerRow /\ row.phone = old.phone /\ row.doubled = old.doubled
            /\ row.balance = y /\ row.credit = old.credit
        BY <4>2 DEF CustomerRow
      <4>5. "balance" \in Columns
        BY DEF Columns
      <4> QED BY <4>1, <4>3, <4>4, <4>5
    <3>2. CASE RecordCustomerPayment(q, t, i)
      <4>1. PICK x \in Int, y \in Int : x = old.balance - 1 /\ y = old.posted - 1
        BY DEF CustomerRow
      <4>2. PICK row : row = [old EXCEPT !.balance = x, !.posted = y]
        OBVIOUS
      <4>3. Commit(q, t, i, row, "balance", -1)
        BY <2>1, <3>2, <4>1, <4>2 DEF RecordCustomerPayment, MoveColumn, recordLedgerTxNoBalance, CustomerRow
      <4>4. /\ row \in CustomerRow /\ row.phone = old.phone /\ row.doubled = old.doubled
            /\ row.balance = x /\ row.credit = old.credit
        BY <4>2 DEF CustomerRow
      <4>5. x = old.balance + (-1)
        BY <4>1 DEF CustomerRow
      <4>6. "balance" \in Columns
        BY DEF Columns
      <4> QED BY <4>3, <4>4, <4>5, <4>6
    <3>3. CASE RecordCustomerAdjustment(q, t, i)
      <4>1. PICK x \in Int, y \in Int : x = old.posted - 1 /\ y = old.balance - 1
        BY DEF CustomerRow
      <4>2. PICK row : row = [old EXCEPT !.freely = TRUE, !.posted = x, !.balance = y]
        OBVIOUS
      <4>3. Commit(q, t, i, row, "balance", -1)
        BY <2>1, <3>3, <4>1, <4>2 DEF RecordCustomerAdjustment, recordLedgerTx, MoveColumn,
                                recordLedgerTxNoBalance, CustomerRow
      <4>4. /\ row \in CustomerRow /\ row.phone = old.phone /\ row.doubled = old.doubled
            /\ row.balance = y /\ row.credit = old.credit
        BY <4>2 DEF CustomerRow
      <4>5. y = old.balance + (-1)
        BY <4>1 DEF CustomerRow
      <4>6. "balance" \in Columns
        BY DEF Columns
      <4> QED BY <4>3, <4>4, <4>5, <4>6
    <3>4. CASE TopUpStoreCredit(q, t, i)
      <4>1. PICK x \in Int, y \in Int : x = old.loaded + 1 /\ y = old.credit + 1
        BY DEF CustomerRow
      <4>2. PICK row : row = [old EXCEPT !.loaded = x, !.credit = y]
        OBVIOUS
      <4>3. Commit(q, t, i, row, "credit", 1)
        BY <2>1, <3>4, <4>1, <4>2 DEF TopUpStoreCredit, recordLedgerTx, MoveColumn, recordLedgerTxNoBalance
      <4>4. /\ row \in CustomerRow /\ row.phone = old.phone /\ row.doubled = old.doubled
            /\ row.credit = y /\ row.balance = old.balance
        BY <4>2 DEF CustomerRow
      <4>5. "credit" \in Columns
        BY DEF Columns
      <4> QED BY <4>1, <4>3, <4>4, <4>5
    <3> QED BY <1>1, <3>1, <3>2, <3>3, <3>4
  <2>3. Tally(t, i, row, kind, amount)
    <3>1. ASSUME NEW c \in Columns
          PROVE  Held(row, c) = Held(old, c) + (IF c = kind THEN amount ELSE 0)
      <4>1. /\ old.balance \in Int /\ old.credit \in Int /\ old.doubled \in Int /\ amount \in Int
        BY <2>2 DEF CustomerRow
      <4> QED BY <2>2, <4>1 DEF Held, Columns
    <3> QED BY <2>1, <2>2, <3>1 DEF Tally
  <2> QED BY <2>2, <2>3, CommitOwes
<1> QED BY <1>1, TellingOwes DEF Money

LEMMA CardsOwe ==
    ASSUME AccountsIInv, AccountsIInv', OweOK, GiftCards
    PROVE  OweOK'
<1>0. BookTypes
  BY DEF AccountsIInv
<1>1. ASSUME NEW t \in Tills, NEW g \in Cards, issueGiftCardsTx(t, g) \/ VoidCardSale(t, g)
      PROVE  OweOK'
  <2>1. UNCHANGED <<req, book, lost>>
    BY <1>1 DEF issueGiftCardsTx, VoidCardSale, deskVars
  <2>2. PICK e : e = [kind |-> "void", card |-> g]
    OBVIOUS
  <2>3. e \in FeedEvent /\ e.kind # "ledger"
    BY <2>2 DEF FeedEvent, VoidEvent
  <2>4. UNCHANGED inbox \/ Emit(t, e)
    BY <1>1, <2>2 DEF issueGiftCardsTx, VoidCardSale, deskVars
  <2>5. QuietInbox
    BY <2>3, <2>4 DEF QuietInbox
  <2> QED BY <2>1, <2>5, BookKept, QuietOwes DEF SyncingStays
<1>2. ASSUME NEW t \in Tills, NEW g \in Cards, NEW q \in Requests, NEW i \in DOMAIN book[t],
             RedeemGiftCard(q, t, i, g)
      PROVE  OweOK'
  <2>1. PICK old \in CustomerRow : old = book[t][i]
    BY <1>0, RowIs
  <2>2. Worth \in Int
    BY AccountsAssumption
  <2>3. PICK x \in Int, y \in Int, z \in Int :
            /\ x = old.credit + Worth + Worth /\ y = old.doubled + Worth /\ z = old.loaded + Worth
    BY <2>2 DEF CustomerRow
  <2>4. PICK row : row = [old EXCEPT !.credit = x, !.doubled = y, !.loaded = z]
    OBVIOUS
  <2>5. Commit(q, t, i, row, "credit", Worth)
    <3>1. PICK half : half = [MoveColumn(old, "credit", Worth) EXCEPT !.doubled = @ + Worth]
      OBVIOUS
    <3>2. half = [old EXCEPT !.credit = old.credit + Worth, !.doubled = y]
      BY <2>3, <3>1 DEF MoveColumn, CustomerRow
    <3>3. recordLedgerTx(half, "credit", Worth) = row
      BY <2>3, <2>4, <3>2 DEF recordLedgerTx, MoveColumn, recordLedgerTxNoBalance, CustomerRow
    <3> QED BY <1>2, <2>1, <3>1, <3>3 DEF RedeemGiftCard
  <2>6. Tally(t, i, row, "credit", Worth)
    <3>1. /\ row \in CustomerRow /\ row.phone = old.phone /\ row.balance = old.balance
          /\ row.credit = x /\ row.doubled = y
      BY <2>4 DEF CustomerRow
    <3>2. x - y = (old.credit - old.doubled) + Worth /\ old.balance + 0 = old.balance
      BY <2>2, <2>3 DEF CustomerRow
    <3>3. \A c \in Columns :
              Held(row, c) = Held(old, c) + (IF c = "credit" THEN Worth ELSE 0)
      BY <3>1, <3>2 DEF Held, Columns
    <3> QED BY <2>1, <3>1, <3>3 DEF Tally
  <2> QED BY <2>2, <2>5, <2>6, CommitOwes DEF Columns
<1> QED BY <1>1, <1>2 DEF GiftCards

-----------------------------------------------------------------------------
\* What arrives at till t; its requests are left alone.
LEMMA SyncPuts ==
    ASSUME AccountSlotsOK, NEW t \in Tills, NEW slot, Put(t, slot)
    PROVE  /\ req'[t] = slot /\ \A o \in Tills \ {t} : req'[o] = req[o]
           /\ \A r \in Requests : req'[r] = req[r]
<1>1. /\ req'[t] = slot /\ \A r \in (Requests \cup Tills) \ {t} : req'[r] = req[r]
  BY Putting
<1> QED BY <1>1, DeskAssumption

\* Details and voids.
LEMMA OthersOwe ==
    ASSUME AccountsIInv, OweOK, NEW t \in Tills, applyCustomer(t) \/ ApplyVoid(t)
    PROVE  OweOK'
<1>0. BookTypes /\ FeedOK
  BY DEF AccountsIInv
<1>1. /\ req[t] = IdleSlot /\ UNCHANGED <<req, lost>> /\ Received(t) /\ inbox[t] # <<>>
      /\ Head(inbox[t]).kind # "ledger"
  BY DEF applyCustomer, ApplyVoid, Idle, Arrived
<1>2. RowsKept
  <2>1. CASE ApplyVoid(t)
    BY <2>1, BookKept DEF ApplyVoid
  <2>2. CASE applyCustomer(t)
    <3>1. PICK e : e = Head(inbox[t])
      OBVIOUS
    <3>2. e \in CustomerEvent
      <4>1. inbox[t] \in Seq(FeedEvent)
        BY <1>0 DEF FeedOK
      <4>2. e \in FeedEvent /\ e.kind = "customer"
        BY <1>1, <2>2, <3>1, <4>1 DEF applyCustomer, Arrived
      <4> QED BY <4>2 DEF FeedEvent, CustomerEvent, LedgerEvent, VoidEvent
    <3>3. e.phone \in Phones /\ e.limit \in Limits \cup {0} /\ e.stamp \in Nat
      BY <3>2 DEF CustomerEvent
    <3>4. CASE Rows(t, e.phone) = {}
      <4>1. PICK i, base, row : /\ i = Len(book[t]) + 1
                                /\ base = NewCustomer(e.phone, e.limit, e.stamp)
                                /\ row = [base EXCEPT !.details = e.stamp]
        OBVIOUS
      <4>2. base \in CustomerRow /\ base.balance = 0 /\ base.credit = 0 /\ base.doubled = 0
        BY <3>3, <4>1 DEF NewCustomer, CustomerRow
      <4>3. row \in CustomerRow /\ row.balance = 0 /\ row.credit = 0 /\ row.doubled = 0
        BY <3>3, <4>1, <4>2 DEF CustomerRow
      <4>4. book' = [book EXCEPT ![t] = Append(@, row)]
        BY <2>2, <3>1, <3>4, <4>1 DEF applyCustomer
      <4>5. book'[t][i] = row /\ OnlyRow(t, i) /\ i \notin DOMAIN book[t]
        BY <1>0, <4>1, <4>3, <4>4, RowAppended
      <4>6. \A c \in Columns : Held(book'[t][i], c) = 0
        BY <4>3, <4>5, NoneHeld
      <4> QED BY <4>5, <4>6, RowKept
    <3>5. CASE Rows(t, e.phone) # {}
      <4>1. PICK i \in DOMAIN book[t] : i = Min(Rows(t, e.phone))
        BY <1>0, <3>5, RowsAre
      <4>2. PICK old \in CustomerRow : old = book[t][i]
        BY <1>0, RowIs
      <4>3. CASE Stale(e, old)
        <5>1. book' = book
          BY <2>2, <3>1, <3>5, <4>1, <4>2, <4>3 DEF applyCustomer
        <5> QED BY <5>1, BookKept
      <4>4. CASE ~Stale(e, old)
        <5>1. PICK row : row = [old EXCEPT !.limit = e.limit, !.stamp = e.stamp,
                                           !.details = e.stamp]
          OBVIOUS
        <5>2. /\ row \in CustomerRow /\ row.phone = old.phone /\ row.balance = old.balance
              /\ row.credit = old.credit /\ row.doubled = old.doubled
          BY <3>3, <5>1 DEF CustomerRow
        <5>3. book' = [book EXCEPT ![t] = [book[t] EXCEPT ![i] = row]]
          BY <2>2, <3>1, <3>5, <4>1, <4>2, <4>4, <5>1 DEF applyCustomer
        <5>4. book' = [book EXCEPT ![t][i] = row]
          BY <5>3
        <5>5. book'[t][i] = row /\ OnlyRow(t, i)
          BY <1>0, <5>2, <5>4, RowWritten
        <5>6. \A c \in Columns : Held(book'[t][i], c) = Held(book[t][i], c)
          BY <4>2, <5>2, <5>5, SameHeld
        <5> QED BY <4>2, <5>2, <5>5, <5>6, RowKept
      <4> QED BY <4>3, <4>4
    <3> QED BY <3>4, <3>5
  <2> QED BY <2>1, <2>2
<1>3. QuietInbox /\ SyncingStays
  BY <1>1 DEF QuietInbox, SyncingStays
<1> QED BY <1>1, <1>2, <1>3, QuietOwes

\* A ledger row is written: nothing has moved yet.
LEMMA RowOwes ==
    ASSUME AccountsIInv, OweOK, NEW t \in Tills, applyLedgerRow(t)
    PROVE  OweOK'
<1>0. BookTypes /\ FeedOK /\ AccountSlotsOK
  BY DEF AccountsIInv
<1>1. req[t] = IdleSlot /\ Arrived(t, "ledger") /\ Moment /\ UNCHANGED <<inbox, lost>>
  BY DEF applyLedgerRow, Idle
<1>2. PICK e \in LedgerEvent : e = Head(inbox[t])
  BY <1>0, <1>1, LedgerHead
<1>3. e.column \in Columns /\ e.amount \in Int /\ e.phone \in Phones
  BY DEF LedgerEvent
<1>4. nowStamp(t) \in Nat
  BY <1>0, <1>1, StampNow
<1>5. PICK i, slot : /\ slot = Work("move", t, i, e.amount) /\ Put(t, slot) /\ RowsKept
                     /\ book'[t][i].phone = e.phone
  <2>1. CASE Rows(t, e.phone) # {}
    <3>1. PICK i \in DOMAIN book[t] : i = Min(Rows(t, e.phone)) /\ i \in Rows(t, e.phone)
      BY <1>0, <2>1, RowsAre
    <3>2. PICK old \in CustomerRow : old = book[t][i] /\ old.phone = e.phone
      BY <1>0, <3>1, RowIs DEF Rows
    <3>3. PICK row, slot : /\ row = recordLedgerTxNoBalance(old, e.column, e.amount)
                           /\ slot = Work("move", t, i, e.amount)
      OBVIOUS
    <3>4. book' = [book EXCEPT ![t] = [book[t] EXCEPT ![i] = row]] /\ Put(t, slot)
      BY <1>2, <2>1, <3>1, <3>2, <3>3 DEF applyLedgerRow
    <3>5. book' = [book EXCEPT ![t][i] = row]
      BY <3>4
    <3>6. /\ row \in CustomerRow /\ row.phone = old.phone /\ row.balance = old.balance
          /\ row.credit = old.credit /\ row.doubled = old.doubled
      BY <1>3, <3>3, RecordIs DEF SameButMoney
    <3>7. book'[t][i] = row /\ OnlyRow(t, i)
      BY <1>0, <3>5, <3>6, RowWritten
    <3>8. \A c \in Columns : Held(book'[t][i], c) = Held(book[t][i], c)
      BY <3>2, <3>6, <3>7, SameHeld
    <3>9. RowsKept
      BY <3>2, <3>6, <3>7, <3>8, RowKept
    <3> QED BY <3>2, <3>3, <3>4, <3>6, <3>7, <3>9
  <2>2. CASE Rows(t, e.phone) = {}
    <3>1. PICK i, old : i = Len(book[t]) + 1 /\ old = NewCustomer(e.phone, 0, nowStamp(t))
      OBVIOUS
    <3>2. /\ old \in CustomerRow /\ old.phone = e.phone
          /\ old.balance = 0 /\ old.credit = 0 /\ old.doubled = 0
      BY <1>3, <1>4, <3>1 DEF NewCustomer, CustomerRow
    <3>3. PICK row, slot : /\ row = recordLedgerTxNoBalance(old, e.column, e.amount)
                           /\ slot = Work("move", t, i, e.amount)
      OBVIOUS
    <3>4. /\ row \in CustomerRow /\ row.phone = e.phone
          /\ row.balance = 0 /\ row.credit = 0 /\ row.doubled = 0
      BY <1>3, <3>2, <3>3, RecordIs DEF SameButMoney
    <3>5. /\ book[t] \in Seq(CustomerRow)
          /\ [Append(book[t], old) EXCEPT ![i] = row] = Append(book[t], row)
      <4>1. book[t] \in Seq(CustomerRow)
        BY <1>0 DEF BookTypes
      <4> QED BY <3>1, <3>2, <3>4, <4>1, AppendThenWrite
    <3>6. book' = [book EXCEPT ![t] = Append(@, row)] /\ Put(t, slot)
      <4>1. Append(book[t], old)[i] = old /\ Len(Append(book[t], old)) = i
        BY <3>1, <3>2, <3>5
      <4>2. book' = [book EXCEPT ![t] = [Append(book[t], old) EXCEPT ![i] = row]] /\ Put(t, slot)
        BY <1>2, <2>2, <3>1, <3>3, <4>1 DEF applyLedgerRow
      <4> QED BY <3>5, <4>2
    <3>7. book'[t][i] = row /\ OnlyRow(t, i) /\ i \notin DOMAIN book[t]
      BY <1>0, <3>1, <3>4, <3>6, RowAppended
    <3>8. \A c \in Columns : Held(book'[t][i], c) = 0
      BY <3>4, <3>7, NoneHeld
    <3>9. RowsKept
      BY <3>7, <3>8, RowKept
    <3> QED BY <3>3, <3>4, <3>6, <3>7, <3>9
  <2> QED BY <2>1, <2>2
<1>6. /\ req'[t] = slot /\ slot.step = "move" /\ slot.doc = i
      /\ \A o \in Tills \ {t} : req'[o] = req[o]
      /\ \A r \in Requests : req'[r] = req[r]
  BY <1>0, <1>5, SyncPuts, SlotIs
<1>7. ASSUME NEW o \in Tills PROVE Marking(o)' <=> Marking(o)
  BY <1>1, <1>6 DEF Marking, AtStep, IdleSlot
<1>8. ASSUME NEW n \in Phones \ lost', NEW c \in Columns, NEW o \in Tills
      PROVE  Gains(o, n, c, 0)
  <2>1. PhonesKeep(n) /\ \A j \in DOMAIN book'[o] : MoneyKeeps(o, j, n)
    BY <1>5 DEF RowsKept
  <2>2. Moved(Booked(o, n, c), Booked(o, n, c)', 0)
    BY <2>1, BookedStays
  <2>3. Moved(Coming(o, n, c), Coming(o, n, c)', 0)
    BY <1>1, <1>7, ComingStays
  <2>4. Moved(Unsent(o, n, c), Unsent(o, n, c)', 0)
    BY <1>0, <1>6, <2>1, UnsentStays
  <2> QED BY <2>2, <2>3, <2>4, NoneGains
<1>9. ASSUME NEW o \in Tills PROVE RowOfEvent(o)'
  <2>1. CASE o = t
    BY <1>1, <1>2, <1>5, <1>6, <2>1 DEF RowOfEvent
  <2>2. CASE o # t
    <3>1. /\ req'[o] = req[o] /\ RowOfEvent(o)
          /\ \A j \in DOMAIN book[o] : \/ book'[o][j].phone = book[o][j].phone
                                       \/ {book'[o][j].phone, book[o][j].phone} \subseteq lost'
      BY <1>5, <1>6, <2>2 DEF RowsKept, OweOK
    <3> QED BY <1>0, <1>1, <3>1, RowOfEventStays
  <2> QED BY <2>1, <2>2
<1> QED BY <1>1, <1>8, <1>9, 0 \in Int, OweNext

\* The money moves: what was coming is booked.
LEMMA MoveOwes ==
    ASSUME AccountsIInv, AccountsIInv', OweOK, NEW t \in Tills, applyLedger(t)
    PROVE  OweOK'
<1>0. BookTypes /\ BookTypes' /\ FeedOK /\ AccountSlotsOK
  BY DEF AccountsIInv
<1>1. AtStep(t, "move") /\ UNCHANGED <<now, inbox, lost>>
  BY DEF applyLedger
<1>2. req[t].doc \in DOMAIN book[t] /\ Arrived(t, "ledger")
  BY <1>0, <1>1 DEF AccountSlotsOK, ApplyingOK, AtStep
<1>3. PICK i \in DOMAIN book[t], e \in LedgerEvent : i = req[t].doc /\ e = Head(inbox[t])
  BY <1>0, <1>2, LedgerHead
<1>4. PICK old \in CustomerRow, stamp \in Nat : old = book[t][i] /\ stamp = Clock(t, now)
  BY <1>0, RowIs, DeskAssumption DEF FeedOK
<1>5. PICK row, slot : row = MoveMoney(old, e, stamp) /\ slot = Work("mark", t, i, None)
  OBVIOUS
<1>6. book' = [book EXCEPT ![t][i] = row] /\ Put(t, slot)
  BY <1>3, <1>4, <1>5 DEF applyLedger
<1>7. e.column \in Columns /\ e.amount \in Int
  BY DEF LedgerEvent
<1>8. /\ row \in CustomerRow /\ row.phone = old.phone /\ row.doubled = old.doubled
      /\ row.balance = old.balance + (IF e.column = "balance" THEN e.amount ELSE 0)
      /\ row.credit = old.credit + (IF e.column = "credit" THEN e.amount ELSE 0)
  BY <1>5, MoveIs DEF SameButMoney
<1>9. ASSUME NEW c \in Columns
      PROVE  Held(row, c) = Held(old, c) + (IF e.column = c THEN e.amount ELSE 0)
  <2>1. old.balance \in Int /\ old.credit \in Int /\ old.doubled \in Int
    BY DEF CustomerRow
  <2> QED BY <1>7, <1>8, <2>1 DEF Held, Columns
<1>10. book'[t][i] = row /\ OnlyRow(t, i)
  BY <1>0, <1>6, <1>8, RowWritten
<1>11. /\ req'[t] = slot /\ slot.step = "mark" /\ slot.doc = i
       /\ \A o \in Tills \ {t} : req'[o] = req[o]
       /\ \A r \in Requests : req'[r] = req[r]
  BY <1>0, <1>5, <1>6, SyncPuts, SlotIs
<1>12. \A o \in Tills : \A j \in DOMAIN book[o] :
           j \in DOMAIN book'[o] /\ book'[o][j].phone = book[o][j].phone
  BY <1>4, <1>8, <1>10 DEF OnlyRow
<1>13. \A n : PhonesKeep(n)
  BY <1>12 DEF PhonesKeep
<1>14. old.phone = e.phone \/ {old.phone, e.phone} \subseteq lost
  BY <1>1, <1>3, <1>4 DEF OweOK, RowOfEvent, AtStep
<1>15. ASSUME NEW n \in Phones \ lost', NEW c \in Columns, NEW o \in Tills
       PROVE  Gains(o, n, c, 0)
  <2>1. PICK d \in Int : d = IF e.column = c THEN e.amount ELSE 0
    BY <1>7
  <2>2. PICK w \in Int : w = IF book[t][i].phone = n THEN d ELSE 0
    OBVIOUS
  <2>3. Held(book'[t][i], c) = Held(book[t][i], c) + d
    BY <1>4, <1>9, <1>10, <2>1
  <2>4. /\ Moved(Booked(t, n, c), Booked(t, n, c)', w)
        /\ \A s \in Tills \ {t} : Moved(Booked(s, n, c), Booked(s, n, c)', 0)
    BY <1>0, <1>10, <1>13, <2>2, <2>3, BookedTurns
  <2>5. /\ Moved(Coming(t, n, c), Coming(t, n, c)', 0 - w)
        /\ \A s \in Tills \ {t} : Moved(Coming(s, n, c), Coming(s, n, c)', 0)
    <3>1. w = IF Pays(e, n, c) THEN e.amount ELSE 0
      <4>1. Pays(e, n, c) <=> e.column = c /\ e.phone = n
        BY DEF Pays, LedgerEvent
      <4>2. e.phone = n <=> book[t][i].phone = n
        BY <1>1, <1>4, <1>14
      <4> QED BY <2>1, <2>2, <4>1, <4>2
    <3>2. ~Marking(t) /\ Marking(t)' /\ \A s \in Tills \ {t} : Marking(s)' <=> Marking(s)
      BY <1>1, <1>11 DEF Marking, AtStep
    <3>3. inbox[t] # <<>>
      BY <1>2 DEF Arrived
    <3> QED BY <1>0, <1>1, <1>3, <3>1, <3>2, <3>3, ComingMoved
  <2>6. Moved(Unsent(o, n, c), Unsent(o, n, c)', 0)
    BY <1>0, <1>11, <1>13, UnsentStays
  <2>7. CASE o = t
    <3>1. w + (0 - w) + 0 = 0 /\ 0 - w \in Int /\ 0 \in Int
      OBVIOUS
    <3> QED BY <2>4, <2>5, <2>6, <2>7, <3>1 DEF Gains
  <2>8. CASE o # t
    BY <2>4, <2>5, <2>6, <2>8, NoneGains
  <2> QED BY <2>7, <2>8
<1>16. ASSUME NEW o \in Tills PROVE RowOfEvent(o)'
  <2>1. CASE o = t
    BY <1>1, <1>3, <1>4, <1>8, <1>10, <1>11, <1>14, <2>1 DEF RowOfEvent
  <2>2. CASE o # t
    BY <1>0, <1>1, <1>11, <1>12, <2>2, RowOfEventStays DEF OweOK
  <2> QED BY <2>1, <2>2
<1> QED BY <1>1, <1>15, <1>16, 0 \in Int, OweNext

\* The event is marked: it was no longer coming.
LEMMA MarkOwes ==
    ASSUME AccountsIInv, OweOK, NEW t \in Tills, markSyncApplied(t)
    PROVE  OweOK'
<1>0. FeedOK /\ AccountSlotsOK
  BY DEF AccountsIInv
<1>1. AtStep(t, "mark") /\ Received(t) /\ Put(t, IdleSlot) /\ UNCHANGED <<book, lost>>
  BY DEF markSyncApplied, accountVars
<1>2. inbox[t] # <<>>
  BY <1>0, <1>1 DEF AccountSlotsOK, ApplyingOK, AtStep, Arrived
<1>3. PICK slot : slot = IdleSlot
  OBVIOUS
<1>4. /\ req'[t] = IdleSlot /\ IdleSlot.step = "idle"
      /\ \A o \in Tills \ {t} : req'[o] = req[o]
      /\ \A r \in Requests : req'[r] = req[r]
  BY <1>0, <1>1, <1>3, SyncPuts, SlotIs
<1>5. Marking(t) /\ ~Marking(t)' /\ \A o \in Tills \ {t} : Marking(o)' <=> Marking(o)
  BY <1>1, <1>4 DEF Marking, AtStep
<1>6. ASSUME NEW n \in Phones \ lost', NEW c \in Columns, NEW o \in Tills
      PROVE  Gains(o, n, c, 0)
  <2>1. PhonesKeep(n) /\ \A j \in DOMAIN book'[o] : MoneyKeeps(o, j, n)
    BY <1>1 DEF PhonesKeep, MoneyKeeps
  <2>2. Moved(Booked(o, n, c), Booked(o, n, c)', 0)
    BY <2>1, BookedStays
  <2>3. Moved(Coming(o, n, c), Coming(o, n, c)', 0)
    <3>1. /\ Moved(Coming(t, n, c), Coming(t, n, c)',
                   0 - (IF ~Marking(t) /\ Pays(Head(inbox[t]), n, c)
                        THEN Head(inbox[t]).amount ELSE 0))
          /\ \A s \in Tills \ {t} : Moved(Coming(s, n, c), Coming(s, n, c)', 0)
      BY <1>0, <1>1, <1>2, <1>5, ComingTaken
    <3>2. 0 - 0 = 0
      OBVIOUS
    <3> QED BY <1>5, <3>1, <3>2
  <2>4. Moved(Unsent(o, n, c), Unsent(o, n, c)', 0)
    BY <1>0, <1>4, <2>1, UnsentStays
  <2> QED BY <2>2, <2>3, <2>4, NoneGains
<1>7. ASSUME NEW o \in Tills PROVE RowOfEvent(o)'
  <2>1. CASE o = t
    BY <1>4, <2>1 DEF RowOfEvent
  <2>2. CASE o # t
    <3>1. inbox'[o] = inbox[o]
      BY <1>0, <1>1, <2>2 DEF Received, FeedOK
    <3> QED BY <1>0, <1>1, <1>4, <2>2, <3>1, RowOfEventStays DEF OweOK
  <2> QED BY <2>1, <2>2
<1> QED BY <1>1, <1>6, <1>7, 0 \in Int, OweNext

-----------------------------------------------------------------------------
\* What dies with a till was about numbers that are given up.
LEMMA CrashOwes ==
    ASSUME AccountsIInv, OweOK, NEW t \in Tills, Crash(t)
    PROVE  OweOK'
<1>0. AccountSlotsOK
  BY DEF AccountsIInv
<1>1. /\ UNCHANGED <<inbox, book>> /\ IdleSlot.step = "idle"
      /\ req' = [q \in DOMAIN req |-> IF req[q].at = t THEN IdleSlot ELSE req[q]]
  BY DEF Crash, ProcessDies, IdleSlot
<1>2. PICK cut : cut = {r \in DOMAIN req : req[r].at = t
                             /\ req[r].step \in {"emitCustomer", "send", "balance", "credit", "move", "mark"}}
  OBVIOUS
<1>3. lost \subseteq lost' /\ \A q \in cut : book[t][req[q].doc].phone \in lost'
  <2>1. lost' = lost \cup {book[t][req[q].doc].phone : q \in cut}
    BY <1>2 DEF Crash
  <2> QED BY <2>1
<1>4. /\ DOMAIN req = Requests \cup Tills
      /\ \A q \in Requests \cup Tills : req'[q] = IF req[q].at = t THEN IdleSlot ELSE req[q]
  BY <1>0, <1>1 DEF AccountSlotsOK
<1>5. ASSUME NEW o \in Tills
      PROVE  \/ req'[o] = req[o]
             \/ /\ ~Marking(o)'
                /\ Marking(o) => o = t /\ Head(inbox[o]).phone \in lost'
  <2>1. CASE req[o].at # t
    BY <1>4, <2>1
  <2>2. CASE req[o].at = t
    <3>1. ~Marking(o)'
      BY <1>1, <1>4, <2>2 DEF Marking, AtStep
    <3>2. ASSUME Marking(o) PROVE o = t /\ Head(inbox[o]).phone \in lost'
      <4>1. req[o].step = "mark"
        BY <3>2 DEF Marking, AtStep
      <4>2. o = t
        BY <1>0, <2>2, <4>1 DEF AccountSlotsOK, ApplyingOK
      <4>3. book[t][req[o].doc].phone \in lost'
        BY <1>2, <1>3, <1>4, <2>2, <4>1
      <4> QED BY <1>3, <4>1, <4>2, <4>3 DEF OweOK, RowOfEvent
    <3> QED BY <3>1, <3>2
  <2> QED BY <2>1, <2>2
<1>6. ASSUME NEW n \in Phones \ lost', NEW c \in Columns, NEW o \in Tills
      PROVE  Gains(o, n, c, 0)
  <2>1. Moved(Booked(o, n, c), Booked(o, n, c)', 0)
    <3>1. PhonesKeep(n) /\ \A j \in DOMAIN book'[o] : MoneyKeeps(o, j, n)
      BY <1>1 DEF PhonesKeep, MoneyKeeps
    <3> QED BY <3>1, BookedStays
  <2>2. Moved(Coming(o, n, c), Coming(o, n, c)', 0)
    <3>1. PICK F, G : F = Coming(o, n, c) /\ G = Coming(o, n, c)'
      OBVIOUS
    <3>2. DOMAIN F = DOMAIN inbox[o] /\ DOMAIN G = DOMAIN inbox[o]
      BY <1>1, <3>1 DEF Coming
    <3>3. ASSUME NEW k \in DOMAIN inbox[o] PROVE F[k] = G[k]
      <4>1. CASE k = 1 /\ (Marking(o)' # Marking(o))
        <5>1. Marking(o) /\ ~Marking(o)' /\ Head(inbox[o]).phone \in lost'
          BY <1>5, <4>1 DEF Marking, AtStep
        <5>2. Head(inbox[o]) = inbox[o][k]
          BY <4>1
        <5>3. ~Pays(inbox[o][k], n, c)
          BY <1>6, <5>1, <5>2 DEF Pays
        <5> QED BY <1>1, <3>1, <5>3 DEF Coming
      <4>2. CASE k # 1 \/ Marking(o)' = Marking(o)
        BY <1>1, <3>1, <4>2 DEF Coming, Marking
      <4> QED BY <4>1, <4>2
    <3>4. \A x : Value(F, x) = Value(G, x)
      BY <3>2, <3>3 DEF Value
    <3> QED BY <3>1, <3>4, ZerosAreNothing
  <2>3. Moved(Unsent(o, n, c), Unsent(o, n, c)', 0)
    <3>1. PICK F, G : F = Unsent(o, n, c) /\ G = Unsent(o, n, c)'
      OBVIOUS
    <3>2. DOMAIN F = Requests /\ DOMAIN G = Requests
      BY <3>1 DEF Unsent
    <3>3. ASSUME NEW r \in Requests PROVE F[r] = G[r]
      <4>1. CASE req[r].at # t
        <5>1. req'[r] = req[r]
          BY <1>4, <4>1
        <5> QED BY <1>1, <3>1, <5>1 DEF Unsent
      <4>2. CASE req[r].at = t
        <5>1. req'[r].step # c
          BY <1>1, <1>4, <4>2 DEF Columns
        <5>2. ~(req[r].step = c /\ book[req[r].at][req[r].doc].phone = n)
          <6>1. SUFFICES ASSUME req[r].step = c PROVE book[t][req[r].doc].phone # n
            BY <4>2
          <6>2. r \in cut
            BY <1>2, <1>4, <4>2, <6>1 DEF Columns
          <6> QED BY <1>3, <1>6, <6>2
        <5> QED BY <3>1, <5>1, <5>2 DEF Unsent
      <4> QED BY <4>1, <4>2
    <3>4. \A x : Value(F, x) = Value(G, x)
      BY <3>2, <3>3 DEF Value
    <3> QED BY <3>1, <3>4, ZerosAreNothing
  <2> QED BY <2>1, <2>2, <2>3, NoneGains
<1>7. ASSUME NEW o \in Tills PROVE RowOfEvent(o)'
  <2>1. CASE req[o].at = t
    BY <1>1, <1>4, <2>1 DEF RowOfEvent
  <2>2. CASE req[o].at # t
    <3>1. req'[o] = req[o]
      BY <1>4, <2>2
    <3> QED BY <1>0, <1>1, <1>3, <3>1, RowOfEventStays DEF OweOK
  <2> QED BY <2>1, <2>2
<1> QED BY <1>3, <1>6, <1>7, 0 \in Int, OweNext

-----------------------------------------------------------------------------
LEMMA OweBegins ==
    ASSUME AccountsInit
    PROVE  OweOK
<1>1. PICK first : first = NewCustomer(Regular, Min(Limits), 0)
  OBVIOUS
<1>2. \A c : Held(first, c) = 0
  BY <1>1 DEF NewCustomer, Held
<1>3. /\ inbox = [t \in Tills |-> <<>>] /\ req = [q \in Requests \cup Tills |-> IdleSlot]
      /\ book = [t \in Tills |-> <<first>>]
  BY <1>1 DEF AccountsInit, DeskInit
<1>4. \A t \in Tills : /\ DOMAIN inbox[t] = {} /\ DOMAIN book[t] = {1} /\ book[t][1] = first
  BY <1>3
<1>5. \A q \in Requests \cup Tills : req[q].step = "idle"
  BY <1>3 DEF IdleSlot
<1>6. ASSUME NEW t \in Tills PROVE RowOfEvent(t)
  BY <1>5 DEF RowOfEvent
<1>7. ASSUME NEW n, NEW c \in Columns, NEW t \in Tills
      PROVE  /\ Counted(Booked(t, n, c)) /\ Counted(Coming(t, n, c)) /\ Counted(Unsent(t, n, c))
             /\ InAll(t, n, c) = 0
  <2>1. \A x \in DOMAIN Booked(t, n, c) : Booked(t, n, c)[x] = 0
    BY <1>2, <1>4 DEF Booked
  <2>2. \A x \in DOMAIN Coming(t, n, c) : Coming(t, n, c)[x] = 0
    BY <1>4 DEF Coming
  <2>3. \A x \in DOMAIN Unsent(t, n, c) : Unsent(t, n, c)[x] = 0
    BY <1>5 DEF Unsent, Columns
  <2>4. Counted(Booked(t, n, c)) /\ Net(Booked(t, n, c)) = 0
    BY <2>1, NothingNets
  <2>5. Counted(Coming(t, n, c)) /\ Net(Coming(t, n, c)) = 0
    BY <2>2, NothingNets
  <2>6. Counted(Unsent(t, n, c)) /\ Net(Unsent(t, n, c)) = 0
    BY <2>3, NothingNets
  <2> QED BY <2>4, <2>5, <2>6 DEF InAll
<1> QED BY <1>6, <1>7 DEF OweOK

LEMMA OweStep ==
    ASSUME AccountsIInv, OweOK, [Next]_<<deskVars, accountVars>>
    PROVE  OweOK'
<1>0. AccountsIInv'
  BY AccountsStep
<1>1. CASE Customers
  BY <1>1, CustomersOwe
<1>2. CASE Money
  BY <1>0, <1>2, MoneyOwes
<1>3. CASE GiftCards
  BY <1>0, <1>3, CardsOwe
<1>4. CASE Syncing
  BY <1>0, <1>4, OthersOwe, RowOwes, MoveOwes, MarkOwes DEF Syncing
<1>5. ASSUME NEW t \in Tills, Crash(t) PROVE OweOK'
  BY <1>5, CrashOwes
<1>6. CASE UNCHANGED <<deskVars, accountVars>>
  <2>1. UNCHANGED <<inbox, req, book, lost>>
    BY <1>6 DEF deskVars, accountVars
  <2>2. RowsKept /\ QuietInbox /\ SyncingStays
    BY <2>1, BookKept DEF QuietInbox, SyncingStays
  <2> QED BY <2>1, <2>2, QuietOwes
<1> QED BY <1>1, <1>2, <1>3, <1>4, <1>5, <1>6 DEF Next

\* With nothing in flight and nothing on its way, what there is is booked.
LEMMA AllIsBooked ==
    ASSUME AccountsIInv, OweOK, Settled, NEW n \in Phones \ lost, NEW c \in Columns,
           NEW t \in Tills
    PROVE  Total(t, n, c) = InAll(t, n, c)
<1>1. book[t] \in Seq(CustomerRow) /\ Len(book[t]) \in Nat /\ DOMAIN book[t] = 1..Len(book[t])
  BY DEF AccountsIInv, BookTypes
<1>2. PICK f : f = [i \in Rows(t, n) |-> Held(book[t][i], c)]
  OBVIOUS
<1>3. IsFiniteSet(Rows(t, n)) /\ Rows(t, n) \subseteq DOMAIN book[t]
  <2>1. IsFiniteSet(1..Len(book[t]))
    BY <1>1, FS_Interval
  <2>2. Rows(t, n) \subseteq 1..Len(book[t])
    BY <1>1 DEF Rows
  <2> QED BY <1>1, <2>1, <2>2, FS_Subset
<1>4. f \in [Rows(t, n) -> Int]
  <2>1. \A i \in Rows(t, n) : Held(book[t][i], c) \in Int
    BY <1>3, RowIs, HeldIs DEF AccountsIInv
  <2> QED BY <1>2, <2>1
<1>5. SumFunction(f) = Net(f) /\ Counted(f) /\ Net(f) \in Int
  BY <1>3, <1>4, SumOf, NetIs
<1>6. Net(Booked(t, n, c)) = Net(f)
  <2>1. PICK G : G = Booked(t, n, c)
    OBVIOUS
  <2>2. ASSUME NEW i PROVE Value(f, i) = Value(G, i)
    BY <1>2, <2>1 DEF Value, Booked, Rows
  <2>3. Net(G) = Net(f) + 0
    BY <1>5, <2>2, ZerosAreNothing DEF Moved
  <2> QED BY <1>5, <2>1, <2>3
<1>7. Net(Coming(t, n, c)) = 0
  <2>1. \A k \in DOMAIN Coming(t, n, c) : Coming(t, n, c)[k] = 0
    BY DEF Settled, Coming
  <2> QED BY <2>1, NothingNets
<1>8. Net(Unsent(t, n, c)) = 0
  <2>1. \A q \in Requests : req[q].step = "idle"
    BY DEF AccountsIInv, AccountSlotsOK, Settled, Idle, IdleSlot
  <2>2. \A q \in DOMAIN Unsent(t, n, c) : Unsent(t, n, c)[q] = 0
    BY <2>1 DEF Unsent, Columns
  <2> QED BY <2>2, NothingNets
<1>9. InAll(t, n, c) = Net(f)
  BY <1>5, <1>6, <1>7, <1>8 DEF InAll
<1> QED BY <1>2, <1>5, <1>9 DEF Total

(***************************************************************************)
(* Once everything has arrived, all tills have the same money under a      *)
(* phone number, for any number of tills, requests, customers and gift     *)
(* cards: what an account holds, what events are to bring and what other   *)
(* tills have yet to tell of came to the same everywhere all along.        *)
(***************************************************************************)
THEOREM TillsOweAlike == Spec => []TillsOweTheSame
<1>1. AccountsInit => AccountsIInv /\ OweOK
  BY AccountsBegin, OweBegins
<1>2. AccountsIInv /\ OweOK /\ [Next]_<<deskVars, accountVars>> => (AccountsIInv /\ OweOK)'
  BY AccountsStep, OweStep
<1>3. AccountsIInv /\ OweOK => TillsOweTheSame
  <2>1. SUFFICES ASSUME AccountsIInv, OweOK, Settled, NEW n \in Phones \ lost,
                        NEW c \in Columns, NEW t \in Tills, NEW o \in Tills
                 PROVE  Total(t, n, c) = Total(o, n, c)
    BY DEF TillsOweTheSame, Columns
  <2>2. InAll(t, n, c) = InAll(o, n, c)
    BY <2>1 DEF OweOK
  <2> QED BY <2>1, <2>2, AllIsBooked
<1> QED BY <1>1, <1>2, <1>3, PTL DEF Spec
================================================================================
