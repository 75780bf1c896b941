------------------------------ MODULE Envelope ------------------------------
(***************************************************************************)
(* The air-gap envelope (src/src/envelope.rs): EnvelopeBuilder seals a     *)
(* plan and its blobs under a signed manifest, the archive travels on a    *)
(* medium that may damage it, and scan_envelope_to_dir reads it entry by   *)
(* entry into a quarantine directory.                                      *)
(*                                                                         *)
(* An entry is its path and whether its content is still what was sealed;  *)
(* the path of a blob is the blob.  A signature verifies if it and what it *)
(* signs are intact and its key is in the trust root.  A digest is a blob  *)
(* and a spelling: digest_dir_name takes upper and lower case hex alike.   *)
(***************************************************************************)
EXTENDS Naturals, Sequences, FiniteSets

CONSTANTS
    Blob,           \* contents, and the archive paths named by their digests
    MaxBlobs,       \* bound: blobs added to one envelope
    MaxDamage,      \* bound: faults of the medium
    MaxEntries      \* ScanLimits::max_entry_count

FixedOrder == <<"manifest", "manifest_sig", "plan", "plan_sig">>
Rotation == <<"rotation", "rotation_sig">>
Path == Blob \cup {FixedOrder[i] : i \in 1..4} \cup {Rotation[i] : i \in 1..2}
Entry == [path : Path, intact : BOOLEAN]
Digest == [blob : Blob, upper : BOOLEAN]

ASSUME EnvelopeAssumption ==
    /\ MaxBlobs \in Nat
    /\ MaxDamage \in Nat
    /\ MaxEntries \in Nat
    /\ Blob \cap {"manifest", "manifest_sig", "plan", "plan_sig",
                  "rotation", "rotation_sig"} = {}

VARIABLES
    phase,      \* "building", "carried", "scanning", and how the scan ended
    trust,      \* who signed: is the key of manifest and plan in the root
    planned,    \* has a plan been added
    plan,       \* the digests that the plan refers to
    added,      \* seen_digests
    blobs,      \* the digests that add_blob has spooled
    manifest,   \* the paths the manifest lists
    archive,    \* the entries on the medium
    damage,     \* faults of the medium so far
    at,         \* entries read
    seen,       \* seen_paths
    got         \* blob_paths

builder == <<trust, planned, plan, added, blobs, manifest>>
scan == <<at, seen, got>>
vars == <<phase, builder, archive, damage, scan>>

Init ==
    /\ phase = "building"
    /\ trust \in [manifest : BOOLEAN, plan : BOOLEAN]
    /\ planned = FALSE
    /\ plan = {}
    /\ added = {}
    /\ blobs = <<>>
    /\ manifest = {}
    /\ archive = <<>>
    /\ damage = 0
    /\ at = 0
    /\ seen = {}
    /\ got = {}

Elements(s) == {s[i] : i \in DOMAIN s}

----------------------------------------------------------------------------
(* EnvelopeBuilder. *)

(* A second add_plan replaces the first. *)
AddPlan(digests) ==
    /\ phase = "building"
    /\ planned' = TRUE
    /\ plan' = digests
    /\ UNCHANGED <<phase, trust, added, blobs, manifest, archive, damage,
                   scan>>

(* seen_digests compares digests as they are spelled, and keeps the digest *)
(* of a blob that could not be spooled.                                    *)
AddBlob(digest) ==
    /\ phase = "building"
    /\ Cardinality(added) < MaxBlobs
    /\ digest \notin added
    /\ added' = added \cup {digest}
    /\ blobs' \in {blobs, Append(blobs, digest)}
    /\ UNCHANGED <<phase, trust, planned, plan, manifest, archive, damage,
                   scan>>

(* The paths of the archive in their order.  This builder adds no trust    *)
(* rotation (n = 0); the format reserves a place for one, and the scanner  *)
(* takes it with its signature or without (n = 2, 1).                      *)
Layout(n) ==
    FixedOrder \o [i \in DOMAIN blobs |-> blobs[i].blob]
               \o SubSeq(Rotation, 1, n)

(* The manifest lists everything but itself and its signature.  What is    *)
(* left of an archive that could not be written to the end is a case of    *)
(* Truncate.                                                               *)
Finish(n) ==
    /\ phase = "building"
    /\ planned
    /\ phase' = "carried"
    /\ manifest' = Elements(Layout(n)) \ {"manifest", "manifest_sig"}
    /\ archive' = [i \in DOMAIN Layout(n) |->
                     [path |-> Layout(n)[i], intact |-> TRUE]]
    /\ UNCHANGED <<trust, planned, plan, added, blobs, damage, scan>>

----------------------------------------------------------------------------
(* External: the medium. *)

Damage(entries) ==
    /\ phase = "carried"
    /\ damage < MaxDamage
    /\ damage' = damage + 1
    /\ archive' = entries
    /\ UNCHANGED <<phase, builder, scan>>

Garble == \E i \in DOMAIN archive :
    Damage([archive EXCEPT ![i].intact = FALSE])

Truncate == \E n \in 0..Len(archive) : Damage(SubSeq(archive, 1, n))

(* An entry is lost, a copy or a stranger is added, two change places. *)
Misplace ==
    \/ \E i \in DOMAIN archive :
         Damage(SubSeq(archive, 1, i - 1)
                  \o SubSeq(archive, i + 1, Len(archive)))
    \/ \E entry \in Entry : Damage(Append(archive, entry))
    \/ \E i, j \in DOMAIN archive :
         i < j /\ Damage([archive EXCEPT ![i] = archive[j],
                                         ![j] = archive[i]])

----------------------------------------------------------------------------
(* scan_envelope_to_dir. *)

StartScan ==
    /\ phase = "carried"
    /\ phase' = "scanning"
    /\ UNCHANGED <<builder, archive, damage, scan>>

(* The first four entries have their places, then come the blobs, then the *)
(* trust rotation and its signature.                                       *)
InOrder(path) ==
    IF at < 4 THEN path = FixedOrder[at + 1]
    ELSE \/ path \in Blob /\ "rotation" \notin seen
         \/ path = "rotation"
         \/ path = "rotation_sig" /\ "rotation" \in seen

(* A bug: the limit is exclusive. *)
WithinExclusive == at >= 2 => at + 1 < MaxEntries

(* The entry count is not asked of the manifest and its signature. *)
Within == at >= 2 => at + 1 <= MaxEntries

FirstSeen(path) == at >= 4 => path \notin seen

(* Listed by the manifest, with its digest and size. *)
Listed(entry) == at >= 2 => entry.path \in manifest /\ entry.intact

(* A bug: the plan is not verified before its blobs are extracted. *)
VerifiedManifestOnly(entry) ==
    at = 1 => archive[1].intact /\ entry.intact /\ trust.manifest

(* The manifest is verified after its signature has been read, the plan    *)
(* after its own.                                                          *)
Verified(entry) ==
    /\ at = 1 => archive[1].intact /\ entry.intact /\ trust.manifest
    /\ at = 3 => trust.plan

(* plan_digests has the digests as the plan spells them, the path of an    *)
(* entry has lower case.                                                   *)
Referenced(path) ==
    path \in Blob => [blob |-> path, upper |-> FALSE] \in plan

Admissible(entry) ==
    /\ InOrder(entry.path)
    /\ Within
    /\ FirstSeen(entry.path)
    /\ Listed(entry)
    /\ Verified(entry)
    /\ Referenced(entry.path)

(* A bug: whatever has been read is handed on as a blob. *)
ExtractedAll(path) == {path}

(* What is added to blob_paths. *)
Extracted(path) == {path} \cap Blob

ScanEntry ==
    /\ phase = "scanning"
    /\ at < Len(archive)
    /\ Admissible(archive[at + 1])
    /\ at' = at + 1
    /\ seen' = seen \cup {archive[at + 1].path}
    /\ got' = got \cup Extracted(archive[at + 1].path)
    /\ UNCHANGED <<phase, builder, archive, damage>>

(* A bug: the end of the archive is taken for the end of the envelope. *)
CompleteAtEnd == at >= 4

Complete == at >= 4 /\ manifest \subseteq seen

EndScan(outcome) ==
    /\ phase = "scanning"
    /\ phase' = outcome
    /\ UNCHANGED <<builder, archive, damage, scan>>

Accept == at = Len(archive) /\ Complete /\ EndScan("accepted")

Reject ==
    /\ IF at = Len(archive) THEN ~ Complete ELSE ~ Admissible(archive[at + 1])
    /\ EndScan("rejected")

(* An I/O error, or a limit on bytes: entry, total, ratio, free space. *)
Fail == EndScan("failed")

Next ==
    \/ \E digests \in SUBSET Digest : AddPlan(digests)
    \/ \E digest \in Digest : AddBlob(digest)
    \/ \E n \in 0..2 : Finish(n)
    \/ Garble \/ Truncate \/ Misplace
    \/ StartScan \/ ScanEntry \/ Accept \/ Reject \/ Fail

Spec == Init /\ [][Next]_vars

----------------------------------------------------------------------------
(* Properties. *)

(* The type of every variable. *)
TypeOK ==
    /\ phase \in {"building", "carried", "scanning", "accepted", "rejected",
                  "failed"}
    /\ trust \in [manifest : BOOLEAN, plan : BOOLEAN]
    /\ planned \in BOOLEAN
    /\ plan \in SUBSET Digest
    /\ added \in SUBSET Digest
    /\ blobs \in Seq(Digest)
    /\ manifest \in SUBSET Path
    /\ archive \in Seq(Entry)
    /\ damage \in 0..MaxDamage
    /\ at \in Nat
    /\ seen \in SUBSET Path
    /\ got \in SUBSET Blob

(* An envelope that is accepted is the whole of what was sealed: what the  *)
(* archive holds and what the signed manifest lists agree both ways, each  *)
(* entry is there once and unaltered, and its blobs are the ones handed    *)
(* out, whatever the medium has lost, added, moved or garbled.             *)
AcceptedIsSealed ==
    phase = "accepted" =>
        /\ {e.path : e \in Elements(archive)}
             = manifest \cup {"manifest", "manifest_sig"}
        /\ \A i, j \in DOMAIN archive :
             archive[i].path = archive[j].path => i = j
        /\ \A e \in Elements(archive) : e.intact
        /\ got = manifest \cap Blob

(* At every moment of the scan, and not at its end only, a blob that is in *)
(* the quarantine and counted as good is unaltered, listed by a manifest   *)
(* and referenced by a plan whose signatures have both been verified.      *)
ExtractedIsTrusted ==
    got # {} =>
        /\ trust = [manifest |-> TRUE, plan |-> TRUE]
        /\ \A i \in 1..4 :
             archive[i] = [path |-> FixedOrder[i], intact |-> TRUE]
        /\ \A b \in got :
             /\ b \in manifest
             /\ [path |-> b, intact |-> TRUE] \in Elements(archive)
             /\ \E d \in plan : d.blob = b

(* The plan names every blob in lower case, and no blob was added twice. *)
Canonical ==
    /\ \A d \in Elements(blobs) : [d EXCEPT !.upper = FALSE] \in plan
    /\ \A i, j \in DOMAIN blobs : blobs[i].blob = blobs[j].blob => i = j

(* What the builder sealed the scanner takes: an envelope that is rejected *)
(* was damaged, signed by a stranger, too long, or carries a blob that its *)
(* plan does not name in lower case, or carries it twice.                  *)
RejectedForCause ==
    phase = "rejected" =>
        \/ damage > 0
        \/ trust # [manifest |-> TRUE, plan |-> TRUE]
        \/ Len(archive) > MaxEntries
        \/ ~ Canonical
=============================================================================
