------------------------------- MODULE Staging -------------------------------
(***************************************************************************)
(* The staging area of one environment (src/src/staging.rs): the plan      *)
(* directories on disk, the env lock, and the threads and processes that   *)
(* call UpdatesRoot and StagedPlan.                                        *)
(*                                                                         *)
(* A call that takes the lock is a run of steps from LockFor to Return,    *)
(* one step per read or write that a crash, an I/O error or a lock-free    *)
(* reader could separate from the next.  Every file is replaced by an      *)
(* atomic rename, so one write is one step; an I/O error after the rename  *)
(* (the fsync of the parent directory) is the write, then ReturnError.     *)
(* A process may die between any two steps.                                *)
(*                                                                         *)
(* A member of Proc is one thread of one process, so re-entering the lock  *)
(* on the same thread is the same member asking for it twice.              *)
(***************************************************************************)
EXTENDS Naturals, FiniteSets, UpdateStage

CONSTANTS
    Proc,               \* callers
    PlanId,             \* plan ids, the directory names
    Blob,               \* artifact and binary blobs, named by digest
    Channel,            \* values a plan's env_id can have
    LocalEnv,           \* the channel named like this environment
    Broadcast,          \* the channel "_"
    Doc,                \* verified plans: [id, seq, channel, blobs, requires]
    LegacyDoc,          \* plans staged by a version that wrote no channel
    TransitionTargets,  \* stages callers pass to StagedPlan::transition
    KeepPolicies,       \* keep_terminal values callers pass to apply_retention
    Corruptible,        \* plan ids whose state.json may rot on disk
    None

DocType == [id : PlanId, seq : Nat, channel : Channel,
            blobs : SUBSET Blob, requires : SUBSET PlanId]

ASSUME DocAssumption ==
    /\ Doc \subseteq DocType
    /\ LegacyDoc \subseteq Doc
    /\ \A d, e \in LegacyDoc : d.id = e.id => d = e
ASSUME ParameterAssumption ==
    /\ {LocalEnv, Broadcast} \subseteq Channel
    /\ TransitionTargets \subseteq Stage
    /\ KeepPolicies \subseteq Nat
    /\ Corruptible \subseteq PlanId
ASSUME NoneAssumption ==
    /\ None \notin Proc
    /\ None \notin PlanId
    /\ None \notin Doc
    /\ None \notin Channel
    /\ None \notin Stage \cup {Absent}
    /\ None \notin Blob

VARIABLES
    marker,     \* <plan>/state.json: stage, document staged, recorded channel
    corrupt,    \* plan ids whose state.json does not parse
    newer,      \* <<a, b>>: a's updated_at is later than b's, both terminal
    planFile,   \* <plan>/plan.json
    sigFile,    \* <plan>/plan.json.sig
    blobs,      \* <plan>/artifacts and <plan>/binaries
    audited,    \* to_stage of the plan's last line in audit/events.jsonl
    lock,       \* who holds <env>/.lock
    pc,         \* the next step of each caller
    call,       \* the call each caller is in, and what it has read
    facts,      \* the AdmissionFacts each admission has scanned
    victims,    \* the plans each apply_retention has still to evict
    handle,     \* the StagedPlan each caller keeps between calls
    gap,        \* history: plans whose last change got no audit line
    everApplied \* history: documents that have reached Applied

disk == <<marker, corrupt, newer, planFile, sigFile, blobs, audited>>
thread == <<lock, pc, call, facts, victims, handle>>
history == <<gap, everApplied>>
vars == <<marker, corrupt, newer, planFile, sigFile, blobs, audited,
          lock, pc, call, facts, victims, handle, gap, everApplied>>

Marker == [stage : Stage \cup {Absent}, doc : Doc \cup {None},
           channel : Channel \cup {None}]
NoMarker == [stage |-> Absent, doc |-> None, channel |-> None]

Call == [kind : {"none", "begin", "begin_checked", "apply", "transition",
                 "put", "retain"},
         plan : PlanId \cup {None}, doc : Doc \cup {None},
         to : Stage \cup {None}, blob : Blob \cup {None}, seen : Marker]
NoCall == [kind |-> "none", plan |-> None, doc |-> None, to |-> None,
           blob |-> None, seen |-> NoMarker]

Facts == [applying : SUBSET PlanId, seqs : SUBSET Nat, ids : SUBSET PlanId]
NoFacts == [applying |-> {}, seqs |-> {}, ids |-> {}]

Handle == [plan : PlanId \cup {None}, doc : Doc \cup {None},
           verified : BOOLEAN]
NoHandle == [plan |-> None, doc |-> None, verified |-> FALSE]

PcValue == {"idle", "loading", "check_new", "check_staged", "scan", "admit",
            "build", "write_plan", "write_sig", "write_marker", "advance",
            "commit", "audit", "put", "put_blob", "retain", "evict",
            "blocked"}

(* The steps a thread takes while it holds the lock. *)
Critical == PcValue \ {"idle", "loading"}

----------------------------------------------------------------------------
(* Initial states: an empty area, or one that an older version left with a *)
(* plan staged or applied under a marker without a channel.                *)

LegacyAt(id) == \E d \in LegacyDoc : d.id = id

Init ==
    /\ \E s \in {"Staged", "Applied"} :
         marker = [id \in PlanId |->
                     IF LegacyAt(id)
                       THEN [stage |-> s, channel |-> None,
                             doc |-> CHOOSE d \in LegacyDoc : d.id = id]
                       ELSE NoMarker]
    /\ corrupt = {}
    /\ newer = {}
    /\ planFile = [id \in PlanId |-> marker[id].doc]
    /\ sigFile = planFile
    /\ blobs = [id \in PlanId |->
                  IF LegacyAt(id) THEN marker[id].doc.blobs ELSE {}]
    /\ audited = [id \in PlanId |-> marker[id].stage]
    /\ lock = None
    /\ pc = [p \in Proc |-> "idle"]
    /\ call = [p \in Proc |-> NoCall]
    /\ facts = [p \in Proc |-> NoFacts]
    /\ victims = [p \in Proc |-> {}]
    /\ handle = [p \in Proc |-> NoHandle]
    /\ gap = {}
    /\ everApplied = {marker[id].doc :
                        id \in {i \in PlanId : marker[i].stage = "Applied"}}

----------------------------------------------------------------------------
(* Reading the disk.                                                       *)

Exists(id) == marker[id].stage # Absent

(* read_state returns a marker: it is there and it parses. *)
Readable(id) == Exists(id) /\ id \notin corrupt

(* A bug to check the properties against: no backfill from plan.json. *)
RecordedChannel(id) ==
    IF marker[id].channel # None THEN marker[id].channel ELSE LocalEnv

(* backfill_channel: a marker without a channel takes its plan.json's, or  *)
(* this environment's when plan.json is gone.                              *)
EffectiveChannel(id) ==
    IF marker[id].channel # None THEN marker[id].channel
    ELSE IF planFile[id] # None THEN planFile[id].channel
    ELSE LocalEnv

(* What an admission reads of the markers of ids.  The lock-holder is the  *)
(* only writer of markers, so the scan is one step.                        *)
(* latest_applied_sequence is the maximum of seqs, none if it is empty.    *)
FactsOf(ids, channel) ==
    LET applied == {id \in ids : marker[id].stage = "Applied"} IN
    [applying |-> {id \in ids : marker[id].stage = "Applying"},
     seqs |-> {marker[id].doc.seq :
                 id \in {i \in applied : EffectiveChannel(i) = channel}},
     ids |-> applied]

ScannedFacts(channel) == FactsOf(PlanId, channel)

(* The plan would pass ensure_not_downgrade and check_compat's requires.   *)
GatesPass(d, f) ==
    /\ \A s \in f.seqs : s < d.seq
    /\ d.requires \subseteq f.ids

Unordered(id) == {pair \in newer : id \notin {pair[1], pair[2]}}

(* updated_at of id becomes the latest of all; only the order of terminal  *)
(* plans is ever read.                                                     *)
Stamped(id) ==
    Unordered(id) \cup
        {<<id, other>> : other \in {o \in PlanId \ {id} :
                                     marker[o].stage \in Terminal}}

----------------------------------------------------------------------------
(* Taking and releasing the env lock.                                      *)

Goto(p, step) == pc' = [pc EXCEPT ![p] = step]

(* A bug: the call does not wait for the lock. *)
LockForUnlocked(p, c, step) ==
    /\ pc[p] = "idle"
    /\ lock' = p
    /\ call' = [call EXCEPT ![p] = c]
    /\ Goto(p, step)
    /\ UNCHANGED <<disk, facts, victims, handle, history>>

(* acquire_lock by a thread that does not hold it. *)
LockFor(p, c, step) ==
    /\ pc[p] = "idle"
    /\ lock = None
    /\ lock' = p
    /\ call' = [call EXCEPT ![p] = c]
    /\ Goto(p, step)
    /\ UNCHANGED <<disk, facts, victims, handle, history>>

(* The call returns, with its result or its error, and drops the lock. *)
Return(p) ==
    /\ lock' = None
    /\ call' = [call EXCEPT ![p] = NoCall]
    /\ facts' = [facts EXCEPT ![p] = NoFacts]
    /\ victims' = [victims EXCEPT ![p] = {}]
    /\ Goto(p, "idle")

(* A step that reads and goes on: only the next step changes.  When the    *)
(* check fails instead, the call ends with ReturnError.                    *)
Proceed(p, from, step) ==
    /\ pc[p] = from
    /\ Goto(p, step)
    /\ UNCHANGED <<disk, lock, call, facts, victims, handle, history>>

----------------------------------------------------------------------------
(* Calls that take the lock.                                               *)

(* begin and begin_checked, for a plan addressed to this environment. *)
BeginCall(p, d, kind) ==
    /\ d.channel \in {LocalEnv, Broadcast}
    /\ LockFor(p, [NoCall EXCEPT !.kind = kind, !.plan = d.id, !.doc = d,
                                 !.to = "Downloading"], "check_new")

(* begin_apply_checked: the predicate gates the plan of the caller's handle. *)
ApplyCall(p) ==
    /\ handle[p].doc # None
    /\ LockFor(p, [NoCall EXCEPT !.kind = "apply", !.plan = handle[p].plan,
                                 !.doc = handle[p].doc, !.to = "Applying"],
               "check_staged")

(* transition: a caller promotes to Inbox once it has verified every blob. *)
TransitionCall(p, to) ==
    /\ handle[p].doc # None
    /\ to = "Inbox" => handle[p].verified
    /\ LockFor(p, [NoCall EXCEPT !.kind = "transition", !.to = to,
                                 !.plan = handle[p].plan], "advance")

(* put_artifact and put_binary_blob, of bytes that hash to b. *)
PutCall(p, b) ==
    /\ handle[p].doc # None
    /\ b \in handle[p].doc.blobs
    /\ LockFor(p, [NoCall EXCEPT !.kind = "put", !.plan = handle[p].plan,
                                 !.blob = b], "put")

RetentionCall(p) ==
    /\ KeepPolicies # {}
    /\ LockFor(p, [NoCall EXCEPT !.kind = "retain"], "retain")

----------------------------------------------------------------------------
(* Admission: is the plan there, what has been applied, may it go on.      *)

CheckNew(p) ==
    /\ Proceed(p, "check_new",
               IF call[p].kind = "begin" THEN "write_plan" ELSE "scan")
    /\ ~ Exists(call[p].plan)

CheckStaged(p) ==
    /\ Proceed(p, "check_staged", "scan")
    /\ Readable(call[p].plan)
    /\ marker[call[p].plan].stage = "Staged"

ScanChannel(p) ==
    IF call[p].kind = "apply" THEN EffectiveChannel(call[p].plan)
    ELSE call[p].doc.channel

(* A bug: admission scans leniently, as list() does. *)
ScanPlansLeniently(p) ==
    /\ pc[p] = "scan"
    /\ facts' = [facts EXCEPT ![p] =
                   FactsOf({id \in PlanId : Readable(id)}, ScanChannel(p))]
    /\ Goto(p, "admit")
    /\ UNCHANGED <<disk, lock, call, victims, handle, history>>

(* The strict scan fails on any marker it cannot read. *)
ScanPlans(p) ==
    /\ pc[p] = "scan"
    /\ corrupt = {}
    /\ facts' = [facts EXCEPT ![p] = ScannedFacts(ScanChannel(p))]
    /\ Goto(p, "admit")
    /\ UNCHANGED <<disk, lock, call, victims, handle, history>>

(* A bug: an apply only looks out for itself. *)
SingleFlightPerPlan(p) ==
    call[p].kind = "apply" => call[p].plan \notin facts[p].applying

(* begin_apply_checked goes on only if no plan is applying. *)
SingleFlight(p) == call[p].kind = "apply" => facts[p].applying = {}

Admit(p) ==
    /\ Proceed(p, "admit",
               IF call[p].kind = "apply" THEN "build" ELSE "write_plan")
    /\ SingleFlight(p)
    /\ GatesPass(call[p].doc, facts[p])

(* A bug: acquire_lock does not look for its own thread. *)
DetectsNothing(p) == FALSE

(* HELD_ENV_LOCKS has the environment of a thread that holds its lock. *)
DetectsReentry(p) == lock = p

(* The predicate calls a locking method on a lock its own thread holds:    *)
(* LockReentered, or the thread would wait for itself.                     *)
Reenter(p) ==
    /\ pc[p] = "admit"
    /\ IF DetectsReentry(p) THEN Return(p)
       ELSE Goto(p, "blocked") /\ UNCHANGED <<lock, call, facts, victims>>
    /\ UNCHANGED <<disk, handle, history>>

(* staged_handle parses plan.json before anything is committed. *)
BuildHandle(p) ==
    /\ pc[p] = "build"
    /\ planFile[call[p].plan] # None
    /\ call' = [call EXCEPT ![p].doc = planFile[call[p].plan]]
    /\ Goto(p, "advance")
    /\ UNCHANGED <<disk, lock, facts, victims, handle, history>>

----------------------------------------------------------------------------
(* write_new_plan: the bytes, the signature, and the marker last.          *)

WritePlan(p) ==
    /\ pc[p] = "write_plan"
    /\ planFile' = [planFile EXCEPT ![call[p].plan] = call[p].doc]
    /\ Goto(p, "write_sig")
    /\ UNCHANGED <<marker, corrupt, newer, sigFile, blobs, audited,
                   lock, call, facts, victims, handle, history>>

WriteSig(p) ==
    /\ pc[p] = "write_sig"
    /\ sigFile' = [sigFile EXCEPT ![call[p].plan] = call[p].doc]
    /\ Goto(p, "write_marker")
    /\ UNCHANGED <<marker, corrupt, newer, planFile, blobs, audited,
                   lock, call, facts, victims, handle, history>>

(* A bug: the plan's id is recorded as its channel. *)
NewMarkerMislabelled(d) ==
    [stage |-> "Downloading", doc |-> d, channel |-> d.id]

NewMarker(d) == [stage |-> "Downloading", doc |-> d, channel |-> d.channel]

(* write_state: a fresh, readable state.json with a new updated_at. *)
WriteState(id, m) ==
    /\ marker' = [marker EXCEPT ![id] = m]
    /\ corrupt' = corrupt \ {id}
    /\ newer' = IF m.stage \in Terminal THEN Stamped(id) ELSE newer

WriteMarker(p) ==
    /\ pc[p] = "write_marker"
    /\ WriteState(call[p].plan, NewMarker(call[p].doc))
    /\ Goto(p, "audit")
    /\ UNCHANGED <<planFile, sigFile, blobs, audited,
                   lock, call, facts, victims, handle, history>>

----------------------------------------------------------------------------
(* transition_locked: re-read, check the matrix, write, append the line.   *)

CheckMove(p) ==
    LET id == call[p].plan IN
    /\ pc[p] = "advance"
    /\ Readable(id)
    /\ IsValidTransition(marker[id].stage, call[p].to)
    /\ call' = [call EXCEPT ![p].seen = marker[id]]
    /\ Goto(p, "commit")
    /\ UNCHANGED <<disk, lock, facts, victims, handle, history>>

CommitMove(p) ==
    /\ pc[p] = "commit"
    /\ WriteState(call[p].plan, [call[p].seen EXCEPT !.stage = call[p].to])
    /\ Goto(p, "audit")
    /\ everApplied' = IF call[p].to = "Applied"
                        THEN everApplied \cup {call[p].seen.doc}
                        ELSE everApplied
    /\ UNCHANGED <<planFile, sigFile, blobs, audited,
                   lock, call, facts, victims, handle, gap>>

(* A bug: from_stage and to_stage are swapped. *)
FromStage(c) == c.seen.stage

(* The to_stage of the line that begin or a transition appends. *)
ToStage(c) == c.to

(* begin and begin_apply_checked return their handle. *)
AppendAudit(p) ==
    LET c == call[p] IN
    /\ pc[p] = "audit"
    /\ audited' = [audited EXCEPT ![c.plan] = ToStage(c)]
    /\ gap' = gap \ {c.plan}
    /\ handle' = IF c.kind = "transition" THEN handle
                 ELSE [handle EXCEPT ![p] = [plan |-> c.plan, doc |-> c.doc,
                                             verified |-> FALSE]]
    /\ Return(p)
    /\ UNCHANGED <<marker, corrupt, newer, planFile, sigFile, blobs,
                   everApplied>>

----------------------------------------------------------------------------
(* put_artifact and put_binary_blob.                                       *)

CheckPut(p) ==
    /\ Proceed(p, "put", "put_blob")
    /\ Readable(call[p].plan)
    /\ marker[call[p].plan].stage = "Downloading"

PutBlob(p) ==
    /\ pc[p] = "put_blob"
    /\ blobs' = [blobs EXCEPT ![call[p].plan] = @ \cup {call[p].blob}]
    /\ Return(p)
    /\ UNCHANGED <<marker, corrupt, newer, planFile, sigFile, audited,
                   handle, history>>

----------------------------------------------------------------------------
(* apply_retention.                                                        *)

(* A bug: active plans are evicted too. *)
EvictableAtAnyStage(id) == Readable(id)

Evictable(id) == Readable(id) /\ marker[id].stage \in Terminal

(* A bug: sorted oldest first. *)
BeyondBudgetReversed(keep) ==
    LET terminal == {id \in PlanId : Evictable(id)} IN
    {id \in terminal :
        Cardinality({other \in terminal : <<id, other>> \in newer}) >= keep}

(* Newest first, the plans beyond the first `keep`. *)
BeyondBudget(keep) ==
    LET terminal == {id \in PlanId : Evictable(id)} IN
    {id \in terminal :
        Cardinality({other \in terminal : <<other, id>> \in newer}) >= keep}

ScanForRetention(p) ==
    /\ pc[p] = "retain"
    /\ \E keep \in KeepPolicies :
         IF BeyondBudget(keep) = {} THEN Return(p)
         ELSE /\ victims' = [victims EXCEPT ![p] = BeyondBudget(keep)]
              /\ Goto(p, "evict")
              /\ UNCHANGED <<lock, call, facts>>
    /\ UNCHANGED <<disk, handle, history>>

(* The newest victim left goes first. *)
NextVictim(p, id) ==
    /\ id \in victims[p]
    /\ \A other \in victims[p] : <<other, id>> \notin newer

DirEmpty(id) ==
    /\ ~ Exists(id)
    /\ planFile[id] = None
    /\ sigFile[id] = None
    /\ blobs[id] = {}

(* remove_dir_all takes the entries in whatever order readdir gives. *)
RemoveState(p, id) ==
    /\ pc[p] = "evict"
    /\ NextVictim(p, id)
    /\ Exists(id)
    /\ marker' = [marker EXCEPT ![id] = NoMarker]
    /\ corrupt' = corrupt \ {id}
    /\ UNCHANGED <<newer, planFile, sigFile, blobs, audited, thread, history>>

RemovePlanFile(p, id) ==
    /\ pc[p] = "evict"
    /\ NextVictim(p, id)
    /\ planFile[id] # None
    /\ planFile' = [planFile EXCEPT ![id] = None]
    /\ UNCHANGED <<marker, corrupt, newer, sigFile, blobs, audited,
                   thread, history>>

RemoveSigFile(p, id) ==
    /\ pc[p] = "evict"
    /\ NextVictim(p, id)
    /\ sigFile[id] # None
    /\ sigFile' = [sigFile EXCEPT ![id] = None]
    /\ UNCHANGED <<marker, corrupt, newer, planFile, blobs, audited,
                   thread, history>>

RemoveBlobs(p, id) ==
    /\ pc[p] = "evict"
    /\ NextVictim(p, id)
    /\ blobs[id] # {}
    /\ blobs' = [blobs EXCEPT ![id] = {}]
    /\ UNCHANGED <<marker, corrupt, newer, planFile, sigFile, audited,
                   thread, history>>

AuditEviction(p, id) ==
    /\ pc[p] = "evict"
    /\ NextVictim(p, id)
    /\ DirEmpty(id)
    /\ audited' = [audited EXCEPT ![id] = Absent]
    /\ gap' = gap \ {id}
    /\ newer' = Unordered(id)
    /\ IF victims[p] = {id} THEN Return(p)
       ELSE /\ victims' = [victims EXCEPT ![p] = @ \ {id}]
            /\ UNCHANGED <<lock, pc, call, facts>>
    /\ UNCHANGED <<marker, corrupt, planFile, sigFile, blobs, handle,
                   everApplied>>

EvictStep(p) == \E id \in PlanId :
    \/ RemoveState(p, id)
    \/ RemovePlanFile(p, id)
    \/ RemoveSigFile(p, id)
    \/ RemoveBlobs(p, id)
    \/ AuditEviction(p, id)

----------------------------------------------------------------------------
(* Lock-free calls.                                                        *)

(* load reads state.json, then plan.json. *)
LoadState(p, id) ==
    /\ pc[p] = "idle"
    /\ Readable(id)
    /\ handle' = [handle EXCEPT ![p] = [NoHandle EXCEPT !.plan = id]]
    /\ Goto(p, "loading")
    /\ UNCHANGED <<disk, lock, call, facts, victims, history>>

LoadPlan(p) ==
    LET id == handle[p].plan IN
    /\ pc[p] = "loading"
    /\ handle' = [handle EXCEPT ![p] =
                    IF planFile[id] = None THEN NoHandle
                    ELSE [@ EXCEPT !.doc = planFile[id]]]
    /\ Goto(p, "idle")
    /\ UNCHANGED <<disk, lock, call, facts, victims, history>>

(* verify_artifact_on_disk and verify_binary_on_disk of every blob. *)
VerifyBlobs(p) ==
    /\ pc[p] = "idle"
    /\ handle[p].doc # None
    /\ ~ handle[p].verified
    /\ handle[p].doc.blobs \subseteq blobs[handle[p].plan]
    /\ handle' = [handle EXCEPT ![p].verified = TRUE]
    /\ UNCHANGED <<disk, lock, pc, call, facts, victims, history>>

----------------------------------------------------------------------------
(* Failures.                                                               *)

(* Plans that p has changed on disk without an audit line yet. *)
Unaudited(p) ==
    {id \in PlanId :
        \/ pc[p] = "audit" /\ id = call[p].plan
        \/ pc[p] = "evict" /\ id \in victims[p] /\ ~ Exists(id)}

(* The call returns an error and drops the lock: a check above fails, the  *)
(* caller's predicate refuses, or a read, a write or an append fails.      *)
ReturnError(p) ==
    /\ pc[p] \in Critical \ {"blocked"}
    /\ gap' = gap \cup Unaudited(p)
    /\ Return(p)
    /\ UNCHANGED <<disk, handle, everApplied>>

(* The process dies: the kernel drops its flock, its handles are gone. *)
Crash(p) ==
    /\ pc[p] # "idle" \/ handle[p] # NoHandle
    /\ gap' = gap \cup Unaudited(p)
    /\ lock' = IF lock = p THEN None ELSE lock
    /\ pc' = [pc EXCEPT ![p] = "idle"]
    /\ call' = [call EXCEPT ![p] = NoCall]
    /\ facts' = [facts EXCEPT ![p] = NoFacts]
    /\ victims' = [victims EXCEPT ![p] = {}]
    /\ handle' = [handle EXCEPT ![p] = NoHandle]
    /\ UNCHANGED <<disk, everApplied>>

(* A state.json on disk stops parsing. *)
Rot(id) ==
    /\ id \in Corruptible
    /\ Exists(id)
    /\ corrupt' = corrupt \cup {id}
    /\ UNCHANGED <<marker, newer, planFile, sigFile, blobs, audited,
                   thread, history>>

----------------------------------------------------------------------------

NewCall(p) ==
    \/ \E d \in Doc : BeginCall(p, d, "begin")
    \/ \E d \in Doc : BeginCall(p, d, "begin_checked")
    \/ ApplyCall(p)
    \/ \E to \in TransitionTargets : TransitionCall(p, to)
    \/ \E b \in Blob : PutCall(p, b)
    \/ RetentionCall(p)
    \/ \E id \in PlanId : LoadState(p, id)
    \/ VerifyBlobs(p)

(* The steps of a call that has begun. *)
Continue(p) ==
    \/ CheckNew(p) \/ CheckStaged(p) \/ ScanPlans(p)
    \/ Admit(p) \/ Reenter(p) \/ BuildHandle(p)
    \/ WritePlan(p) \/ WriteSig(p) \/ WriteMarker(p)
    \/ CheckMove(p) \/ CommitMove(p) \/ AppendAudit(p)
    \/ CheckPut(p) \/ PutBlob(p)
    \/ ScanForRetention(p) \/ EvictStep(p)
    \/ LoadPlan(p) \/ ReturnError(p)

Next ==
    \/ \E p \in Proc : NewCall(p) \/ Continue(p) \/ Crash(p)
    \/ \E id \in PlanId : Rot(id)

Spec == Init /\ [][Next]_vars

(* A thread inside a call keeps running: nothing it waits for is held by   *)
(* another thread once it has the lock.  New calls, deaths and rot are not *)
(* owed to anyone.                                                         *)
FairSpec == Spec /\ \A p \in Proc : WF_vars(Continue(p))

----------------------------------------------------------------------------
(* Properties.                                                             *)

(* Every variable has its type: what each file, lock and caller can hold. *)
TypeOK ==
    /\ marker \in [PlanId -> Marker]
    /\ corrupt \in SUBSET PlanId
    /\ newer \in SUBSET (PlanId \X PlanId)
    /\ planFile \in [PlanId -> Doc \cup {None}]
    /\ sigFile \in [PlanId -> Doc \cup {None}]
    /\ blobs \in [PlanId -> SUBSET Blob]
    /\ audited \in [PlanId -> Stage \cup {Absent}]
    /\ lock \in Proc \cup {None}
    /\ pc \in [Proc -> PcValue]
    /\ call \in [Proc -> Call]
    /\ facts \in [Proc -> Facts]
    /\ victims \in [Proc -> SUBSET PlanId]
    /\ handle \in [Proc -> Handle]
    /\ gap \in SUBSET PlanId
    /\ everApplied \in SUBSET Doc

(* At most one apply is in flight in the environment (the AlreadyApplying  *)
(* contract of begin_apply_checked), whatever crashes, rots or is evicted. *)
AtMostOneApplying ==
    \A a, b \in PlanId :
        marker[a].stage = "Applying" /\ marker[b].stage = "Applying" => a = b

(* A plan that can still be applied has the plan.json and plan.json.sig it *)
(* was begun with, so the two re-verify together at apply time: a crash    *)
(* inside write_new_plan, or inside an eviction, never leaves a live       *)
(* marker over another plan's bytes.                                       *)
ActivePlanVerifiable ==
    \A id \in PlanId :
        marker[id].stage \in Active
          => planFile[id] = marker[id].doc /\ sigFile[id] = marker[id].doc

(* From the scan to the commit, what an admission decided on is what it    *)
(* would still read: no apply, eviction or rot of another marker slips in  *)
(* between the check and the write (begin_checked, begin_apply_checked).   *)
AdmissionSnapshotFresh ==
    \A p \in Proc :
        /\ pc[p] \in {"admit", "build", "write_plan", "write_sig",
                      "write_marker", "advance", "commit"}
        /\ call[p].kind \in {"begin_checked", "apply"}
        => facts[p] = ScannedFacts(IF call[p].kind = "apply"
                                     THEN EffectiveChannel(call[p].plan)
                                     ELSE call[p].doc.channel)

(* A plan past Downloading has all its blobs on disk (the Inbox stage's    *)
(* "all artifacts landed"), for callers that promote what they verified.   *)
PromotedPlansComplete ==
    \A id \in PlanId :
        marker[id].stage \in {"Inbox", "Staged", "Applying", "Applied"}
          => marker[id].doc.blobs \subseteq blobs[id]

(* The audit log's last line for a plan names the stage it is in, except   *)
(* in the window between commit and append, and where a crash or a failed  *)
(* append fell into that window (transition_locked's accepted gap).        *)
AuditTrailMatches ==
    \A id \in PlanId \ gap :
        (\A p \in Proc : id \notin Unaudited(p))
          => audited[id] = marker[id].stage

(* A plan starts applying only if it is newer than every plan that was     *)
(* ever applied from its channel: ensure_not_downgrade's replay guard over *)
(* the whole history of the environment.                                   *)
NoReplay ==
    [][\A id \in PlanId :
          marker[id].stage # "Applying" /\ marker'[id].stage = "Applying"
            => \A d \in everApplied :
                 d.channel = marker[id].doc.channel
                   => d.seq < marker[id].doc.seq]_vars

(* A finished plan is evicted only if, for some policy in use, that many   *)
(* terminal plans that finished after it stay: apply_retention evicts the  *)
(* oldest, also when it fails half way and when ids have been used again.  *)
RetentionKeepsNewest ==
    [][\A id \in PlanId :
          Exists(id) /\ marker'[id].stage = Absent
            => \E keep \in KeepPolicies :
                 keep <= Cardinality({other \in PlanId :
                           /\ marker'[other].stage \in Terminal
                           /\ <<other, id>> \in newer})]_vars

(* The staging area implements its promise: each step of the files and     *)
(* locks is one step of the plan lifecycle or none.                        *)
Lifecycle == INSTANCE PlanLifecycle WITH
    stage <- [id \in PlanId |-> marker[id].stage],
    doc <- [id \in PlanId |-> marker[id].doc]

ImplementsLifecycle == Lifecycle!Spec

(* Whoever takes the env lock gives it back: no error path, no re-entry    *)
(* from an admission predicate and no eviction keeps the environment       *)
(* locked for ever.                                                        *)
LockReleased == \A p \in Proc : lock = p ~> lock # p
=============================================================================
