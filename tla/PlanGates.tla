------------------------------ MODULE PlanGates ------------------------------
(***************************************************************************)
(* The signed update plan (src/src/plan.rs): what is in the document, how  *)
(* it is released and verified, and the gates a verified plan has to pass. *)
(* Operators only; Rollout has the state.                                  *)
(*                                                                         *)
(* The bytes of a document stand for their SHA-256, and a document for its *)
(* bytes; Junk stands for bytes that parse as no plan.                     *)
(***************************************************************************)
EXTENDS Naturals, Sequences, FiniteSets

CONSTANTS
    PlanId, EnvId, Nonce, Name, Target, Abi,
    Hex,            \* contents, by their SHA-256
    Key,            \* signing keys; the id of a key is derived from it
    Broadcast,      \* the environment id of the fleet channel
    Junk,           \* bytes that do not parse
    None

ASSUME PlanGatesAssumption ==
    /\ None \notin Key
    /\ None \notin Nat
    /\ Junk \notin Nat

(* SHA-256 of a content as documents spell it: sha256:<hex> in either      *)
(* case, or the bare hex.                                                  *)
Digest == [hex : Hex, form : {"lower", "upper", "bare"}]

Schemas == {"greentic.update-plan.v1", "other"}
PredicateTypes == {"greentic.update-plan-predicate.v1", "other"}

(* A semver, by its rank, or text that is none. *)
Version == Nat \cup {Junk}

PlanArtifact == [name : Name, digest : Digest]

BinaryArtifact ==
    [name : Name, target : Target, version : Version, digest : Digest]

CompatRequirements ==
    [min_runtime : Version \cup {None}, abi : Abi \cup {None},
     requires : SUBSET PlanId]

(* nonce stands for the nonce and created_at: both are only compared. *)
UpdatePlan ==
    [schema : Schemas, plan_id : PlanId, env_id : EnvId, sequence : Nat,
     nonce : Nonce, artifacts : Seq(PlanArtifact),
     binaries : Seq(BinaryArtifact), compat : CompatRequirements]

UpdatePlanPredicate ==
    [schema : PredicateTypes, plan_id : PlanId, env_id : EnvId,
     sequence : Nat, nonce : Nonce]

(* The identity of a document as its statement repeats it. *)
PredicateOf(doc) ==
    [schema |-> "greentic.update-plan-predicate.v1",
     plan_id |-> doc.plan_id, env_id |-> doc.env_id,
     sequence |-> doc.sequence, nonce |-> doc.nonce]

----------------------------------------------------------------------------
(* Release and verification. *)

(* A DSSE envelope: an in-toto statement, and who signed it as whom. *)
Signed(subject, type, predicate, key, keyid) ==
    [subject |-> subject, predicate_type |-> type, predicate |-> predicate,
     signer |-> key, keyid |-> keyid]

Envelope ==
    [subject : UpdatePlan \cup {Junk}, predicate_type : PredicateTypes,
     predicate : UpdatePlanPredicate \cup {Junk}, signer : Key, keyid : Key]

(* External: the signature is of a trusted key, over exactly these bytes. *)
VerifyArtifactDsse(envelope, bytes, root) ==
    /\ envelope.keyid \in root
    /\ envelope.signer = envelope.keyid
    /\ envelope.subject = bytes

(* The envelope build_update_plan makes of a document. *)
BuiltEnvelope(doc, key, keyid) ==
    Signed(doc, "greentic.update-plan-predicate.v1", PredicateOf(doc),
           key, keyid)

(* build_update_plan returns that envelope: the key id is trusted, the     *)
(* document is a plan, and the fresh envelope verifies.                    *)
BuildUpdatePlan(doc, key, keyid, root) ==
    /\ keyid # None
    /\ keyid \in root
    /\ doc.schema = "greentic.update-plan.v1"
    /\ VerifyArtifactDsse(BuiltEnvelope(doc, key, keyid), doc, root)

(* A bug: any trusted statement about these bytes makes them a plan. *)
VerifyAnyStatement(bytes, envelope, root) ==
    /\ VerifyArtifactDsse(envelope, bytes, root)
    /\ bytes # Junk
    /\ bytes.schema = "greentic.update-plan.v1"

(* verify_update_plan returns the document. *)
VerifyUpdatePlan(bytes, envelope, root) ==
    /\ VerifyArtifactDsse(envelope, bytes, root)
    /\ envelope.predicate_type = "greentic.update-plan-predicate.v1"
    /\ envelope.predicate # Junk
    /\ bytes # Junk
    /\ bytes.schema = "greentic.update-plan.v1"
    /\ envelope.predicate = PredicateOf(bytes)

----------------------------------------------------------------------------
(* The gates. *)

PlanTargetsEnv(plan_env, local_env) ==
    \/ plan_env = local_env
    \/ plan_env = Broadcast

EnsureNotDowngrade(doc, last_applied) ==
    last_applied # None => doc.sequence > last_applied

(* The floor holds: both versions parse, and the runtime's is known. *)
RuntimeNewEnough(min_runtime, actual) ==
    min_runtime # None =>
        /\ min_runtime # Junk
        /\ actual \notin {None, Junk}
        /\ actual >= min_runtime

(* A bug: the plans required are looked up among all known ones. *)
CheckCompatAnyOrder(compat, facts) ==
    /\ RuntimeNewEnough(compat.min_runtime, facts.runtime_version)
    /\ compat.abi # None => facts.abi = compat.abi
    /\ compat.requires \subseteq PlanId

(* facts: [runtime_version, abi, applied_plan_ids]. *)
CheckCompat(compat, facts) ==
    /\ RuntimeNewEnough(compat.min_runtime, facts.runtime_version)
    /\ compat.abi # None => facts.abi = compat.abi
    /\ compat.requires \subseteq facts.applied_plan_ids

----------------------------------------------------------------------------
(* The binary of a plan for this host. *)

Matching(binaries, name, target) ==
    {i \in DOMAIN binaries :
        binaries[i].name = name /\ binaries[i].target = target}

(* A bug: the first of several candidates is as good as any. *)
NeverAmbiguous(binaries, name, target) == FALSE

(* AmbiguousBinary is an error, nothing found is not. *)
AmbiguousBinary(binaries, name, target) ==
    Cardinality(Matching(binaries, name, target)) > 1

SelectBinary(binaries, name, target) ==
    IF Matching(binaries, name, target) = {} THEN None
    ELSE binaries[CHOOSE i \in Matching(binaries, name, target) :
                      \A j \in Matching(binaries, name, target) : i <= j]
=============================================================================
