-------------------------------- MODULE Updates --------------------------------
(***************************************************************************)
(* Updates of the till and their undoing (handlers/system.go,              *)
(* handlers/update_rollback.go, update/checker.go, and the first steps of  *)
(* startApp in main.go).  Before an installer runs every shop is copied    *)
(* into an archive; "Undo update" stages a restore from the newest one,    *)
(* puts the old binary back and quits, and the next start copies the files *)
(* back before it opens them.  Meanwhile the shops go on selling.          *)
(*                                                                         *)
(* A shop's database is a file and its write-ahead log; what it holds is   *)
(* the set of its sales, numbered over all shops.  The till runs Windows.  *)
(***************************************************************************)
EXTENDS Naturals, Sequences, FiniteSets

CONSTANTS Shops,
          Main,        \* the shop in pos.db, next to the registry
          Latest,      \* the release on offer
          Rank(_),     \* the place of a version's label among them all, as text
          MaxSales, MaxArchives,
          MaxTroubles  \* bound on disk errors and process deaths

ASSUME UpdatesAssumption ==
    /\ Main \in Shops /\ Latest \in Nat \ {0}
    /\ \A v \in 1..Latest : Rank(v) \in 0..Latest
    /\ MaxSales \in Nat /\ MaxArchives \in Nat /\ MaxTroubles \in Nat

VARIABLES shops,    \* the registry
          live,     \* the database files
          sales,    \* sales made so far
          busy,     \* shops with a payment in flight or a sale in the last 15 minutes
          exe,      \* version of the installed binary
          staged,   \* is the new installer downloaded, and remembered
          launched, \* external: the installer is running
          archive,  \* backups/pre-update-*, in order of their time stamps
          task,     \* the handler behind the buttons, and the OTA timer
          pending,  \* restore-pending.json
          proc,     \* the process
          troubles, \* disk errors and deaths so far
          exposed   \* history: sales no undo promises to keep, see Sell and Snapshot
updateVars == <<shops, live, sales, busy, exe, staged, launched, archive, task, pending,
                proc, troubles, exposed>>
outside == <<shops, sales, busy, launched>>

File(content) == [main |-> content, wal |-> {}]
Content(s) == live[s].main \cup live[s].wal
AllWork == UNION {Content(s) : s \in Shops}

NewArchive(undo) ==
    [version |-> exe, undo |-> undo, snaps |-> [s \in {} |-> {}], indexed |-> FALSE]
Kept(a) == UNION {archive[a].snaps[s] : s \in DOMAIN archive[a].snaps}

\* step; the archive it fills and the shops still to copy; did one fail; the work there
\* was when it was asked; the archive an undo goes back to.
Resting == [step |-> "idle", into |-> 0, todo |-> {}, bad |-> FALSE, owed |-> {}, back |-> 0]
NoRestore == [from |-> 0, files |-> {}]
Garbled == [from |-> 0, files |-> {Main}]
\* What a start still has to put back, did a copy fail, and which files have it beside
\* a log that was not removed.
Process(at, todo, bad) == [at |-> at, todo |-> todo, bad |-> bad, beside |-> {}]
Running == Process("up", {}, FALSE)
Down == Process("down", {}, FALSE)
Up == proc = Running
Trouble == troubles < MaxTroubles /\ troubles' = troubles + 1

UpdatesInit ==
    /\ shops = {Main} /\ live = [s \in Shops |-> File({})] /\ sales = 0 /\ busy = {}
    /\ exe = 1 /\ staged = FALSE /\ launched = FALSE /\ archive = <<>>
    /\ task = [k \in {"button", "timer"} |-> Resting] /\ pending = NoRestore
    /\ proc = Running /\ troubles = 0 /\ exposed = {}

(***************************************************************************)
(* The shops.                                                              *)
(***************************************************************************)
Undoing(s) ==
    \/ pending # NoRestore
    \/ task["button"].back # 0 /\ ~(task["button"].step = "snap" /\ s \in task["button"].todo)

Sell(s) ==
    /\ Up /\ s \in shops /\ sales < MaxSales /\ sales' = sales + 1
    /\ live' = [live EXCEPT ![s].wal = @ \cup {sales'}]
    /\ busy' = busy \cup {s}
    /\ exposed' = IF Undoing(s) THEN exposed \cup {sales'} ELSE exposed
    /\ UNCHANGED <<shops, exe, staged, launched, archive, task, pending, proc, troubles>>

Quieten(s) ==
    /\ Up /\ s \in busy /\ busy' = busy \ {s}
    /\ UNCHANGED <<shops, live, sales, exe, staged, launched, archive, task, pending, proc,
                   troubles, exposed>>

Checkpoint(s) ==
    /\ Up /\ live[s].wal # {} /\ live' = [live EXCEPT ![s] = File(Content(s))]
    /\ UNCHANGED <<outside, exe, staged, archive, task, pending, proc, troubles, exposed>>

CreateShop(s) ==
    /\ Up /\ s \notin shops /\ shops' = shops \cup {s}
    /\ UNCHANGED <<live, sales, busy, exe, staged, launched, archive, task, pending, proc,
                   troubles, exposed>>

(***************************************************************************)
(* An archive is filled shop by shop.                                      *)
(***************************************************************************)
Goto(k, record) == task' = [task EXCEPT ![k] = record]
AtTask(k, step) == Up /\ task[k].step = step
Advance(k, step) == Goto(k, [task[k] EXCEPT !.step = step])

StartArchive(k, back) ==
    /\ Len(archive) < MaxArchives /\ archive' = Append(archive, NewArchive(back # 0))
    /\ Goto(k, [step |-> "snap", into |-> Len(archive'), todo |-> shops, bad |-> FALSE,
                owed |-> AllWork, back |-> back])
    /\ UNCHANGED <<outside, live, exe, staged, pending, proc, troubles, exposed>>

CopyOfFile(s) == live[s].main  \* mutant: the file is copied without its log
CopyOf(s) == Content(s)
Filled(snaps, s) == [x \in DOMAIN snaps \cup {s} |-> IF x = s THEN CopyOf(s) ELSE snaps[x]]
Snapshot(k, s) ==
    /\ AtTask(k, "snap") /\ s \in task[k].todo
    /\ \/ /\ archive' = [archive EXCEPT ![task[k].into].snaps = Filled(@, s)]
          /\ Goto(k, [task[k] EXCEPT !.todo = @ \ {s}])
          /\ UNCHANGED <<troubles, exposed>>
       \/ /\ Trouble
          /\ Goto(k, [task[k] EXCEPT !.todo = @ \ {s}, !.bad = TRUE])
          /\ exposed' = IF task[k].back # 0 THEN exposed \cup Content(s) ELSE exposed
          /\ UNCHANGED archive
    /\ UNCHANGED <<outside, live, exe, staged, pending, proc>>

\* A failed copy ends an update, and not an undo.  The directory stays.
FailsOpen(k) == "launch"  \* mutant: the errors of the copies are not looked at
Failed(k) == "idle"
AfterFailure(k) == IF task[k].back # 0 THEN "swap" ELSE Failed(k)

Stop(k, step) == IF step = "idle" THEN Goto(k, Resting) ELSE Advance(k, step)

\* After the index come the registry, the key and the binary, which may fail as well.
PreUpdateSnapshot(k) ==
    /\ AtTask(k, "snap") /\ task[k].todo = {}
    /\ \/ task[k].bad /\ Stop(k, AfterFailure(k)) /\ UNCHANGED <<archive, troubles>>
       \/ /\ ~task[k].bad /\ Trouble /\ Stop(k, AfterFailure(k))
          /\ \E i \in BOOLEAN : archive' = [archive EXCEPT ![task[k].into].indexed = i]
       \/ /\ ~task[k].bad /\ archive' = [archive EXCEPT ![task[k].into].indexed = TRUE]
          /\ Advance(k, IF task[k].back # 0 THEN "swap" ELSE "launch") /\ UNCHANGED troubles
    /\ UNCHANGED <<outside, live, exe, staged, pending, proc, exposed>>

(***************************************************************************)
(* Installing: the button, and the timer that waits for a quiet moment.    *)
(***************************************************************************)
Download ==
    /\ Up /\ ~staged /\ staged' = TRUE
    /\ UNCHANGED <<outside, live, exe, archive, task, pending, proc, troubles, exposed>>

UpdateInstall == AtTask("button", "idle") /\ staged /\ StartArchive("button", 0)

AutoApplyTick ==
    /\ AtTask("timer", "idle") /\ staged
    /\ Goto("timer", [Resting EXCEPT !.step = "look", !.todo = shops])
    /\ UNCHANGED <<outside, live, exe, staged, archive, pending, proc, troubles, exposed>>

HasUnfinishedWork(s) == s \in busy

LookAt(s) ==
    /\ AtTask("timer", "look") /\ s \in task["timer"].todo
    /\ Goto("timer", IF HasUnfinishedWork(s) THEN Resting
                     ELSE [task["timer"] EXCEPT !.todo = @ \ {s}])
    /\ UNCHANGED <<outside, live, exe, staged, archive, pending, proc, troubles, exposed>>

AllQuiet == AtTask("timer", "look") /\ task["timer"].todo = {} /\ StartArchive("timer", 0)

ApplyStagedUpdate(k) ==
    /\ AtTask(k, "launch")
    /\ \/ launched' = TRUE /\ Advance(k, "quit") /\ UNCHANGED troubles
       \/ Trouble /\ Goto(k, Resting) /\ UNCHANGED launched
    /\ UNCHANGED <<shops, live, sales, busy, exe, staged, archive, pending, proc, exposed>>

\* What was in memory is gone with the process, the download too.
Forget == staged' = FALSE /\ task' = [k \in DOMAIN task |-> Resting]

\* A third of a second after the answer.  Only the main shop's database is closed.
OnQuit(k) ==
    /\ AtTask(k, "quit") /\ proc' = Down /\ Forget
    /\ live' = [live EXCEPT ![Main] = File(Content(Main))]
    /\ UNCHANGED <<outside, exe, archive, pending, troubles, exposed>>

\* The installer ends the running till and replaces the binary.
InstallerRuns ==
    /\ launched /\ launched' = FALSE /\ exe' = Latest /\ proc' = Down /\ Forget
    /\ UNCHANGED <<shops, live, sales, busy, archive, pending, troubles, exposed>>

(***************************************************************************)
(* Undoing.                                                                *)
(***************************************************************************)
Candidates == {a \in DOMAIN archive : ~archive[a].undo}
SortsAfter(a, b) ==
    \/ Rank(archive[a].version) > Rank(archive[b].version)
    \/ Rank(archive[a].version) = Rank(archive[b].version) /\ a >= b
newestPreUpdateArchive == CHOOSE a \in Candidates : \A b \in Candidates : SortsAfter(a, b)

UndoUpdate ==
    /\ AtTask("button", "idle") /\ Candidates # {}
    /\ StartArchive("button", newestPreUpdateArchive)

\* Without an index a copy goes back to its base name, which is right for pos.db only.
Files(a) ==
    IF archive[a].indexed THEN DOMAIN archive[a].snaps ELSE DOMAIN archive[a].snaps \cap {Main}

EmptyArchive(k) ==
    /\ AtTask(k, "swap") /\ DOMAIN archive[task[k].back].snaps = {} /\ Goto(k, Resting)
    /\ UNCHANGED <<outside, live, exe, staged, archive, pending, proc, troubles, exposed>>

\* The binary went into the archive after the index did.
SwapBinary(k) ==
    /\ AtTask(k, "swap") /\ DOMAIN archive[task[k].back].snaps # {} /\ Advance(k, "stage")
    /\ \/ /\ archive[task[k].back].indexed
          /\ exe' = archive[task[k].back].version /\ UNCHANGED troubles
       \/ /\ IF archive[task[k].back].indexed THEN Trouble ELSE UNCHANGED troubles
          /\ UNCHANGED exe
    /\ UNCHANGED <<outside, live, staged, archive, pending, proc, exposed>>

StageRestore(k) ==
    /\ AtTask(k, "stage")
    /\ \/ /\ pending' = [from |-> task[k].back, files |-> Files(task[k].back)]
          /\ Advance(k, "quit") /\ UNCHANGED troubles
       \/ Trouble /\ Goto(k, Resting) /\ UNCHANGED pending
    /\ UNCHANGED <<outside, live, exe, staged, archive, proc, exposed>>

(***************************************************************************)
(* Starting.  A manifest that cannot be parsed is thrown away.             *)
(***************************************************************************)
Boot ==
    /\ proc = Down
    /\ IF pending \in {NoRestore, Garbled}
       THEN pending' = NoRestore /\ proc' = Running
       ELSE proc' = Process("restore", pending.files, FALSE) /\ UNCHANGED pending
    /\ UNCHANGED <<outside, live, exe, staged, archive, task, troubles, exposed>>

\* The log goes first; then a copy beside the file, and a rename.  Something that holds
\* the log (the old process, a scanner) keeps it there, and the copy is made all the same.
BesideLog(s) == [live[s] EXCEPT !.main = archive[pending.from].snaps[s]]
    \* also a mutant of PutBack: the log is never removed
PutBack(s) == File(archive[pending.from].snaps[s])

RestoreFile(s) ==
    /\ proc.at = "restore" /\ s \in proc.todo
    /\ \/ /\ live' = [live EXCEPT ![s] = PutBack(s)]
          /\ proc' = [proc EXCEPT !.todo = @ \ {s}] /\ UNCHANGED troubles
       \/ /\ Trouble /\ live[s].wal # {} /\ live' = [live EXCEPT ![s] = BesideLog(s)]
          /\ proc' = [proc EXCEPT !.todo = @ \ {s}, !.beside = @ \cup {s}]
       \/ /\ Trouble /\ \E log \in {{}, live[s].wal} : live' = [live EXCEPT ![s].wal = log]
          /\ proc' = [proc EXCEPT !.todo = @ \ {s}, !.bad = TRUE]
    /\ UNCHANGED <<outside, exe, staged, archive, task, pending, exposed>>

\* A manifest that cannot be removed is done again at the next start.
RestorePending == IF proc.bad THEN pending ELSE NoRestore

OpenDatabases ==
    /\ proc.at = "restore" /\ proc.todo = {} /\ proc' = Running
    /\ \/ pending' = RestorePending /\ UNCHANGED troubles
       \/ Trouble /\ UNCHANGED pending
    /\ UNCHANGED <<outside, live, exe, staged, archive, task, exposed>>

\* The process dies; a manifest may be half written by then.
TillDies ==
    /\ proc # Down /\ Trouble /\ proc' = Down /\ Forget
    /\ \/ UNCHANGED pending
       \/ task["button"].step = "stage" /\ pending' = Garbled
    /\ UNCHANGED <<shops, live, sales, busy, exe, launched, archive, exposed>>

Trading ==
    \E s \in Shops : Sell(s) \/ Quieten(s) \/ Checkpoint(s) \/ CreateShop(s)
Archiving ==
    \E k \in DOMAIN task :
        \/ \E s \in Shops : Snapshot(k, s)
        \/ PreUpdateSnapshot(k) \/ ApplyStagedUpdate(k) \/ OnQuit(k)
        \/ EmptyArchive(k) \/ SwapBinary(k) \/ StageRestore(k)
Quiet == AutoApplyTick \/ AllQuiet \/ \E s \in Shops : LookAt(s)
Starting == Boot \/ OpenDatabases \/ \E s \in Shops : RestoreFile(s)

UpdatesNext ==
    \/ Trading \/ Archiving \/ Quiet \/ Starting
    \/ Download \/ UpdateInstall \/ UndoUpdate \/ InstallerRuns \/ TillDies
UpdatesSpec == UpdatesInit /\ [][UpdatesNext]_updateVars

(***************************************************************************)
(* What holds                                                              *)
(***************************************************************************)

\* "A failed/lost update never means lost work" (system.go): when the installer is let
\* loose, all that the shops had sold when the update was asked for is in its archive,
\* and the archive is one an undo can use, whatever was sold, opened or failed since.
UpdateIsProtected ==
    \A k \in DOMAIN task :
        task[k].step \in {"launch", "quit"} /\ task[k].back = 0 =>
            archive[task[k].into].indexed /\ task[k].owed \subseteq Kept(task[k].into)

\* A restore that counts as done put back every file it was about, over as many starts,
\* failed copies and deaths as it takes; and nothing that was sold since is left beside a
\* file, unless its log could not be removed in this very start.
PutBackWhole ==
    [][\A s \in pending.files :
        pending \notin {NoRestore, Garbled} /\ pending' = NoRestore =>
            /\ live'[s].main = archive[pending.from].snaps[s]
            /\ live'[s].wal # {} => s \in proc.beside]_updateVars

\* What was sold stays, in the shop's file or in an archive, through updates, undoings and
\* deaths, but for what a shop sells after an undo has copied it, or when that copy failed.
UndoKeepsWork ==
    1..sales \subseteq
        AllWork \cup exposed \cup UNION {Kept(a) : a \in DOMAIN archive}
=============================================================================
