------------------------------- MODULE Rollout -------------------------------
(***************************************************************************)
(* One environment that follows its update channel, as the crate's docs    *)
(* tell callers to compose it: verify_update_plan, the gates, diff and the *)
(* downloads it asks for, then select_binary, unpack, verify, swap.        *)
(*                                                                         *)
(* Everything before the swap may be interrupted by the death of the       *)
(* process: the admitted plan, the catalogue and dest are on disk, the     *)
(* work list and the archive are not.  The swap itself is BinSwap.         *)
(***************************************************************************)
EXTENDS Catalogue, Unpack

CONSTANTS
    Docs,           \* plan documents
    Envelopes,      \* DSSE envelopes that exist, whoever signed them
    Catalogues,     \* what may be installed at first
    LocalEnv, HostAbi, HostName, HostTarget,
    FirstVersion,   \* version of the first runtime (None if not known)
    FirstContent,   \* and its content
    MaxAttempts     \* bound: plans admitted

ASSUME RolloutAssumption ==
    /\ Docs \subseteq UpdatePlan
    /\ Envelopes \subseteq Envelope
    /\ Catalogues \subseteq Seq(InstalledArtifact)
    /\ Archives \subseteq Archive
    /\ FirstVersion \in Version \cup {None}
    /\ FirstContent \in Hex
    /\ MaxAttempts \in Nat
    /\ None \notin Docs \cup Archives
    /\ Junk \notin Docs

VARIABLES
    root,           \* keys the environment trusts
    plan,           \* the plan that is applied now, how it was admitted
    applied,        \* the plans applied, with the runtime each left
    catalogue,      \* the installed artifacts
    todo,           \* places of the planned artifacts still to fetch
    phase,          \* what the caller does next
    runtime,        \* version and content of the running binary
    attempts        \* bound: plans admitted so far

env == <<root, plan, applied, catalogue, runtime, attempts>>
vars == <<env, todo, phase, unpack>>

Phases == {"idle", "diff", "fetch", "select", "binary"}
Runtime == [version : Version \cup {None}, content : Hex]

Init ==
    /\ root \in SUBSET Key \ {{}}
    /\ plan = None
    /\ applied = <<>>
    /\ catalogue \in Catalogues
    /\ todo = {}
    /\ phase = "idle"
    /\ runtime = [version |-> FirstVersion, content |-> FirstContent]
    /\ attempts = 0
    /\ UnpackInit

----------------------------------------------------------------------------
(* What the gates are asked about. *)

AppliedIds == {applied[i].doc.plan_id : i \in DOMAIN applied}

(* The highest sequence applied in a channel. *)
LastApplied(channel) ==
    LET past == {applied[i].doc.sequence : i \in
                    {j \in DOMAIN applied : applied[j].doc.env_id = channel}}
    IN  IF past = {} THEN None
        ELSE CHOOSE s \in past : \A t \in past : t <= s

RuntimeFacts ==
    [runtime_version |-> runtime.version, abi |-> HostAbi,
     applied_plan_ids |-> AppliedIds]

GatesPass(doc) ==
    /\ PlanTargetsEnv(doc.env_id, LocalEnv)
    /\ EnsureNotDowngrade(doc, LastApplied(doc.env_id))
    /\ CheckCompat(doc.compat, RuntimeFacts)

----------------------------------------------------------------------------
(* The caller's loop. *)

(* External: the environment's trust root is replaced. *)
RotateRoot ==
    /\ phase = "idle"
    /\ root' \in SUBSET Key \ {{}}
    /\ UNCHANGED <<plan, applied, catalogue, runtime, attempts, todo, phase,
                   unpack>>

(* The channel hands over any bytes with any envelope. *)
Admit(bytes, envelope) ==
    /\ phase = "idle"
    /\ attempts < MaxAttempts
    /\ VerifyUpdatePlan(bytes, envelope, root)
    /\ GatesPass(bytes)
    /\ plan' = [doc |-> bytes, envelope |-> envelope, root |-> root]
    /\ attempts' = attempts + 1
    /\ phase' = "diff"
    /\ UNCHANGED <<root, applied, catalogue, runtime, todo, unpack>>

WorkOut ==
    /\ phase = "diff"
    /\ LET work == Diff(catalogue, plan.doc.artifacts)
       IN  /\ todo' = ToDownload(work)
           /\ phase' = IF HasWork(work) THEN "fetch" ELSE "select"
    /\ UNCHANGED <<env, unpack>>

(* External: an artifact that was fetched takes the place of the one of    *)
(* its name, or is added.                                                  *)
Installed(artifacts, a) ==
    LET entry == [name |-> a.name, digest |-> a.digest]
    IN  IF a.name \in Names(artifacts)
        THEN [i \in DOMAIN artifacts |->
                 IF artifacts[i].name = a.name THEN entry ELSE artifacts[i]]
        ELSE Append(artifacts, entry)

Fetch ==
    /\ phase = "fetch"
    /\ \E i \in todo :
          /\ \A j \in todo : i <= j
          /\ catalogue' = Installed(catalogue, plan.doc.artifacts[i])
          /\ todo' = todo \ {i}
    /\ phase' = IF todo' = {} THEN "diff" ELSE "fetch"
    /\ UNCHANGED <<root, plan, applied, runtime, attempts, unpack>>

(* The plan is applied, and leaves the host with this runtime. *)
FinishWith(newRuntime) ==
    /\ runtime' = newRuntime
    /\ applied' = Append(applied, [doc |-> plan.doc,
                                   runtime |-> newRuntime.version])
    /\ plan' = None
    /\ phase' = "idle"
    /\ UNCHANGED <<root, catalogue, attempts, todo>>

SelectFor(doc) == SelectBinary(doc.binaries, HostName, HostTarget)

SelectionFails ==
    /\ phase = "select"
    /\ AmbiguousBinary(plan.doc.binaries, HostName, HostTarget)
    /\ plan' = None
    /\ phase' = "idle"
    /\ UNCHANGED <<root, applied, catalogue, runtime, attempts, todo, unpack>>

NoBinary ==
    /\ phase = "select"
    /\ ~AmbiguousBinary(plan.doc.binaries, HostName, HostTarget)
    /\ SelectFor(plan.doc) = None
    /\ FinishWith(runtime)
    /\ UNCHANGED unpack

BinarySelected ==
    /\ phase = "select"
    /\ ~AmbiguousBinary(plan.doc.binaries, HostName, HostTarget)
    /\ SelectFor(plan.doc) # None
    /\ phase' = "binary"
    /\ UNCHANGED <<env, todo, unpack>>

----------------------------------------------------------------------------
(* unpack -> verify -> swap. *)

StartUnpack(a) ==
    /\ phase = "binary"
    /\ UnpackCall(a)
    /\ UNCHANGED <<env, todo, phase>>

Unpacking ==
    /\ phase = "binary"
    /\ UnpackNext
    /\ UNCHANGED <<env, todo, phase>>

SwapVerified ==
    /\ phase = "binary"
    /\ step = "ok"
    /\ VerifyDigest(dest, SelectFor(plan.doc).digest)
    /\ FinishWith([version |-> SelectFor(plan.doc).version,
                   content |-> dest.content])
    /\ ForgetCall

(* An archive that is refused, or whose binary is not the one pinned. *)
DropArchive ==
    /\ phase = "binary"
    /\ step \in Ended \ {"idle"}
    /\ step = "ok" => ~VerifyDigest(dest, SelectFor(plan.doc).digest)
    /\ ForgetCall
    /\ UNCHANGED <<env, todo, phase>>

(* The caller gives the plan up. *)
GiveUp ==
    /\ phase \in {"fetch", "binary"}
    /\ step = "idle"
    /\ plan' = None
    /\ todo' = {}
    /\ phase' = "idle"
    /\ UNCHANGED <<root, applied, catalogue, runtime, attempts, unpack>>

(* The process dies; the next one takes the admitted plan up again. *)
Crash ==
    /\ phase # "idle"
    /\ todo' = {}
    /\ phase' = "diff"
    /\ ForgetCall
    /\ UNCHANGED env

Next ==
    \/ RotateRoot
    \/ \E bytes \in Docs \cup {Junk}, e \in Envelopes : Admit(bytes, e)
    \/ WorkOut
    \/ Fetch
    \/ SelectionFails
    \/ NoBinary
    \/ BinarySelected
    \/ \E a \in Archives : StartUnpack(a)
    \/ Unpacking
    \/ SwapVerified
    \/ DropArchive
    \/ GiveUp
    \/ Crash

Spec == Init /\ [][Next]_vars

(* A process that runs works its list off, and is not killed for ever just *)
(* before the next artifact is in place.                                   *)
FairSpec == Spec /\ WF_vars(WorkOut) /\ SF_vars(Fetch)
----------------------------------------------------------------------------
(* Every variable has its type. *)
TypeOK ==
    /\ root \in SUBSET Key
    /\ plan = None \/ (plan.doc \in Docs /\ plan.root \in SUBSET Key)
    /\ \A i \in DOMAIN applied :
          applied[i].doc \in Docs /\ applied[i].runtime \in Version \cup {None}
    /\ catalogue \in Seq(InstalledArtifact)
    /\ todo \in SUBSET Nat
    /\ phase \in Phases
    /\ runtime \in Runtime
    /\ attempts \in 0..MaxAttempts
    /\ UnpackTypeOK

(* What an environment admits is a plan that build_update_plan would have  *)
(* released to it as it is, by a key it trusted: not a document under a    *)
(* statement of another type, not one with another's identity, not one of  *)
(* a foreign schema, not one signed under a borrowed key id.               *)
AdmittedWasReleased ==
    plan # None =>
        \E key \in Key :
            /\ BuildUpdatePlan(plan.doc, key, key, plan.root)
            /\ plan.envelope = BuiltEnvelope(plan.doc, key, key)

(* The version of the runtime that the i-th applied plan found. *)
RuntimeBefore(i) == IF i = 1 THEN FirstVersion ELSE applied[i - 1].runtime

(* Over the whole history of an environment: a plan was applied only on a  *)
(* runtime that an earlier plan, or the installation, had brought to its   *)
(* floor, after all plans it requires, and after no plan of its channel    *)
(* with the same or a higher sequence (check_compat, ensure_not_downgrade).*)
HistoryCompatible ==
    \A i \in DOMAIN applied :
        LET doc == applied[i].doc
            min == doc.compat.min_runtime
        IN  /\ min # None => RuntimeBefore(i) \in Nat /\ RuntimeBefore(i) >= min
            /\ \A id \in doc.compat.requires :
                  \E j \in 1..(i - 1) : applied[j].doc.plan_id = id
            /\ \A j \in 1..(i - 1) :
                  applied[j].doc.env_id = doc.env_id =>
                      applied[j].doc.sequence < doc.sequence

(* A plan gets past its downloads only when every artifact it names is     *)
(* installed with the content it pins, whatever was installed before and   *)
(* however often the work was interrupted and worked out again.            *)
NothingLeftOut ==
    phase \in {"select", "binary"} =>
        \A i \in DOMAIN plan.doc.artifacts :
            \E j \in DOMAIN catalogue :
                /\ catalogue[j].name = plan.doc.artifacts[i].name
                /\ catalogue[j].digest.hex = plan.doc.artifacts[i].digest.hex

(* The running binary is the first one, or the only entry of an applied    *)
(* plan for this name and host, with the content that entry pins: never    *)
(* one of two candidates, and never what a mislabelled archive (another    *)
(* host's, another binary of that name) had in it.                         *)
RunningBinaryIsPlanned ==
    \/ runtime = [version |-> FirstVersion, content |-> FirstContent]
    \/ \E i \in DOMAIN applied :
          LET bins == applied[i].doc.binaries
              mine == {k \in DOMAIN bins : bins[k].name = HostName
                                           /\ bins[k].target = HostTarget}
          IN  \E k \in mine :
                 /\ mine = {k}
                 /\ runtime.content = bins[k].digest.hex
                 /\ runtime.version = bins[k].version

(* Documents that name no artifact twice. *)
NamesUnique(doc) ==
    \A i, j \in DOMAIN doc.artifacts :
        doc.artifacts[i].name = doc.artifacts[j].name => i = j

(* A plan that names no artifact twice is worked off in the end: the       *)
(* process may die again and again, and finds less to do each time.        *)
WorkConverges ==
    (phase = "diff" /\ NamesUnique(plan.doc)) ~> (phase \in {"select", "idle"})
=============================================================================
