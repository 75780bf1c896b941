----------------------------- MODULE Durability -----------------------------
(***************************************************************************)
(* What the disk keeps of a plan: atomic_write_bytes and append_audit      *)
(* (src/src/staging.rs), step by step, with failed steps, short writes,    *)
(* dying processes and power losses in between.                            *)
(*                                                                         *)
(* Staging takes a rename and an appended line to be atomic and durable.   *)
(* Here they are the system calls they are made of.  The commits of one    *)
(* environment follow one another (every caller holds the env lock), so    *)
(* there is one job at a time.  The page cache and the disk are external:  *)
(* a power loss leaves of everything that no fsync has confirmed any part. *)
(***************************************************************************)
EXTENDS Naturals, Sequences

CONSTANTS
    MaxCommits,     \* bound: begins and transitions
    MaxLosses,      \* bound: power losses
    Torn,           \* a file of which only a part has survived
    None

VARIABLES
    commits,        \* number of the last begin or transition
    job,            \* the one under way
    dir,            \* the plan directory's entry in the env directory
    seen,           \* each file, as a reader finds it
    maybe,          \* each file, as a power loss may leave it
    synced,         \* the contents whose bytes are on the disk
    logFile,        \* the entry of events.jsonl in the audit directory
    log,            \* events.jsonl, piece by piece
    logSynced,      \* how many of its pieces are on the disk
    reported,       \* commits whose caller was told Ok
    lostDir,        \* commits up to here went with the plan directory
    lostLog,        \* events up to here went with the log
    losses

disk == <<dir, seen, maybe, synced, logFile, log, logSynced>>
vars == <<commits, job, disk, reported, lostDir, lostLog, losses>>

File == {"plan.json", "plan.json.sig", "state.json"}
Commit == 1..MaxCommits
(* Contents: the commit that wrote them, and the begin they belong to. *)
Version == [by : Commit, born : Commit]

ASSUME DurabilityAssumption ==
    /\ MaxCommits \in Nat
    /\ MaxLosses \in Nat
    /\ Torn # None
    /\ None \notin Version

Entry == {"absent", "cached", "kept"}
Piece == [by : Commit, part : {"line", "newline", "torn"}]
Job ==
    [step : {"temp", "sync_all", "persist", "fsync_parent", "line",
             "newline", "sync_data"},
     by : Commit, born : Commit, left : Seq(File)]

Init ==
    /\ commits = 0
    /\ job = None
    /\ dir = "absent"
    /\ seen = [f \in File |-> None]
    /\ maybe = [f \in File |-> {None}]
    /\ synced = {}
    /\ logFile = "absent"
    /\ log = << >>
    /\ logSynced = 0
    /\ reported = {}
    /\ lostDir = 0
    /\ lostLog = 0
    /\ losses = 0

Cached(entry) == IF entry = "absent" THEN "cached" ELSE entry

----------------------------------------------------------------------------
(* write_new_plan and transition_locked. *)

(* A bug: the marker first, the documents it vouches for after it. *)
MarkerFirst == <<"state.json", "plan.json", "plan.json.sig">>

NewPlanFiles == <<"plan.json", "plan.json.sig", "state.json">>

(* write_new_plan, over whatever an earlier one left without a marker.     *)
Begin ==
    /\ job = None
    /\ commits < MaxCommits
    /\ seen["state.json"] = None
    /\ commits' = commits + 1
    /\ dir' = Cached(dir)
    /\ job' = [step |-> "temp", by |-> commits + 1, born |-> commits + 1,
               left |-> NewPlanFiles]
    /\ UNCHANGED <<seen, maybe, synced, logFile, log, logSynced, reported,
                   lostDir, lostLog, losses>>

(* transition_locked, of the plan whose marker it reads. *)
Transition ==
    /\ job = None
    /\ commits < MaxCommits
    /\ seen["state.json"] \notin {None, Torn}
    /\ commits' = commits + 1
    /\ job' = [step |-> "temp", by |-> commits + 1,
               born |-> seen["state.json"].born, left |-> <<"state.json">>]
    /\ UNCHANGED <<disk, reported, lostDir, lostLog, losses>>

At(step) == job # None /\ job.step = step

----------------------------------------------------------------------------
(* atomic_write_bytes of the first file that is left. *)

Target == Head(job.left)
Content == [by |-> job.by, born |-> job.born]

WriteTemp ==
    /\ At("temp")
    /\ job' = [job EXCEPT !.step = "sync_all"]
    /\ UNCHANGED <<commits, disk, reported, lostDir, lostLog, losses>>

(* A bug: the temporary file is renamed with its bytes in the page cache.  *)
FlushOnly ==
    /\ At("sync_all")
    /\ job' = [job EXCEPT !.step = "persist"]
    /\ UNCHANGED <<commits, disk, reported, lostDir, lostLog, losses>>

SyncTemp ==
    /\ At("sync_all")
    /\ synced' = synced \cup {<<Target, Content>>}
    /\ job' = [job EXCEPT !.step = "persist"]
    /\ UNCHANGED <<commits, dir, seen, maybe, logFile, log, logSynced,
                   reported, lostDir, lostLog, losses>>

Persist ==
    /\ At("persist")
    /\ seen' = [seen EXCEPT ![Target] = Content]
    /\ maybe' = [maybe EXCEPT ![Target] = @ \cup {Content}]
    /\ job' = [job EXCEPT !.step = "fsync_parent"]
    /\ UNCHANGED <<commits, dir, synced, logFile, log, logSynced, reported,
                   lostDir, lostLog, losses>>

(* A bug: the fsync of the directory is left out. *)
NoParentSync == maybe

(* After fsync_parent a power loss leaves every entry as it is. *)
ParentSync == [f \in File |-> {seen[f]}]

FsyncParent ==
    /\ At("fsync_parent")
    /\ maybe' = ParentSync
    /\ job' = [job EXCEPT
                   !.left = Tail(@),
                   !.step = IF Len(job.left) = 1 THEN "line" ELSE "temp"]
    /\ UNCHANGED <<commits, dir, seen, synced, logFile, log, logSynced,
                   reported, lostDir, lostLog, losses>>

----------------------------------------------------------------------------
(* append_audit. *)

LogPiece(part) == log' = Append(log, [by |-> job.by, part |-> part])

WriteLine ==
    /\ At("line")
    /\ logFile' = Cached(logFile)
    /\ LogPiece("line")
    /\ job' = [job EXCEPT !.step = "newline"]
    /\ UNCHANGED <<commits, dir, seen, maybe, synced, logSynced, reported,
                   lostDir, lostLog, losses>>

(* write_all stops half way, in an error or with its process. *)
WriteLineTorn ==
    /\ At("line")
    /\ logFile' = Cached(logFile)
    /\ LogPiece("torn")
    /\ job' = None
    /\ UNCHANGED <<commits, dir, seen, maybe, synced, logSynced, reported,
                   lostDir, lostLog, losses>>

WriteNewline ==
    /\ At("newline")
    /\ LogPiece("newline")
    /\ job' = [job EXCEPT !.step = "sync_data"]
    /\ UNCHANGED <<commits, dir, seen, maybe, synced, logFile, logSynced,
                   reported, lostDir, lostLog, losses>>

(* A bug: Ok without sync_data. *)
NothingSynced == logSynced

LogSynced == Len(log)

(* sync_data, unlock, and the Ok of begin or transition. *)
SyncData ==
    /\ At("sync_data")
    /\ logSynced' = LogSynced
    /\ reported' = reported \cup {job.by}
    /\ job' = None
    /\ UNCHANGED <<commits, dir, seen, maybe, synced, logFile, log, lostDir,
                   lostLog, losses>>

----------------------------------------------------------------------------
(* The next step of the job fails, or its process dies before it. *)
Fail ==
    /\ job # None
    /\ job' = None
    /\ UNCHANGED <<commits, disk, reported, lostDir, lostLog, losses>>

(* What a power loss may make of an entry: its bytes, if synced. *)
Left(f) ==
    maybe[f]
    \cup {Torn : v \in {w \in maybe[f] : w # None /\ <<f, w>> \notin synced}}

Survivors(kept) ==
    IF kept
    THEN {s \in [File -> UNION {Left(f) : f \in File}] :
             \A f \in File : s[f] \in Left(f)}
    ELSE {[f \in File |-> None]}

(* The log loses a tail that was not synced, the last piece maybe in part. *)
LogSurvivors(kept) ==
    IF kept
    THEN {SubSeq(log, 1, n) : n \in logSynced..Len(log)}
         \cup {Append(SubSeq(log, 1, n),
                      [by |-> log[n + 1].by, part |-> "torn"]) :
               n \in {m \in logSynced..(Len(log) - 1) :
                          log[m + 1].part = "line"}}
    ELSE {<< >>}

MayKeep(entry) ==
    CASE entry = "absent" -> {FALSE}
      [] entry = "cached" -> {TRUE, FALSE}
      [] entry = "kept" -> {TRUE}

EntryAfter(kept) == IF kept THEN "kept" ELSE "absent"

PowerLoss ==
    /\ losses < MaxLosses
    /\ losses' = losses + 1
    /\ job' = None
    /\ \E kept \in MayKeep(dir) :
          /\ dir' = EntryAfter(kept)
          /\ seen' \in Survivors(kept)
          /\ maybe' = [f \in File |-> {seen'[f]}]
          /\ lostDir' = IF kept THEN lostDir ELSE commits
    /\ \E kept \in MayKeep(logFile) :
          /\ logFile' = EntryAfter(kept)
          /\ log' \in LogSurvivors(kept)
          /\ logSynced' = Len(log')
          /\ lostLog' = IF kept THEN lostLog ELSE commits
    /\ UNCHANGED <<commits, synced, reported>>

Next ==
    \/ Begin
    \/ Transition
    \/ WriteTemp
    \/ SyncTemp
    \/ Persist
    \/ FsyncParent
    \/ WriteLine
    \/ WriteLineTorn
    \/ WriteNewline
    \/ SyncData
    \/ Fail
    \/ PowerLoss

Spec == Init /\ [][Next]_vars

----------------------------------------------------------------------------
(* Every variable has its type.  In particular no reader ever finds a torn *)
(* file: a plan's documents and its marker are whole or absent, whatever   *)
(* the power loss left of a temporary file.                                *)
TypeOK ==
    /\ commits \in 0..MaxCommits
    /\ job = None \/ job \in Job
    /\ dir \in Entry
    /\ seen \in [File -> Version \cup {None}]
    /\ maybe \in [File -> SUBSET (Version \cup {None})]
    /\ synced \subseteq File \X Version
    /\ logFile \in Entry
    /\ log \in Seq(Piece)
    /\ logSynced \in 0..Len(log)
    /\ reported \subseteq Commit
    /\ lostDir \in 0..commits
    /\ lostLog \in 0..commits
    /\ losses \in 0..MaxLosses

(* A marker has the documents of its own begin beside it, also after a     *)
(* power loss that undid some of the renames: a plan that shows a stage    *)
(* can be loaded and verified.                                             *)
DocumentsBesideMarker ==
    seen["state.json"] # None =>
        \A f \in File :
            /\ seen[f] # None
            /\ seen[f].born = seen["state.json"].born

(* The log never knows more than the marker: an event that is in it was a  *)
(* stage the plan had durably reached, unless the plan's directory as a    *)
(* whole, whose own entry nobody syncs, was lost.                          *)
LogNeverAhead ==
    \A i \in DOMAIN log :
        log[i].part = "line" /\ log[i].by > lostDir =>
            /\ seen["state.json"] # None
            /\ seen["state.json"].by >= log[i].by

(* A line of its own, or at most glued to the rest of one that an append   *)
(* which did not return Ok had begun.                                      *)
OnRecord(n) ==
    \E i \in DOMAIN log :
        /\ log[i] = [by |-> n, part |-> "line"]
        /\ i + 1 \in DOMAIN log
        /\ log[i + 1] = [by |-> n, part |-> "newline"]
        /\ i > 1 => \/ log[i - 1].part = "newline"
                    \/ log[i - 1].by \notin reported

(* What a caller was told is kept: its stage is not undone, and its event  *)
(* is in the log, where only an append that failed can spoil its line.     *)
(* The exceptions are a directory and a log whose own entries were lost.   *)
ReportedIsKept ==
    \A n \in reported :
        /\ n > lostDir => /\ seen["state.json"] # None
                          /\ seen["state.json"].by >= n
        /\ n > lostLog => OnRecord(n)
=============================================================================
