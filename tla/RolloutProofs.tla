---------------------------- MODULE RolloutProofs ----------------------------
(***************************************************************************)
(* The safety of Rollout, and of the unpacking inside it, for all plan     *)
(* documents, envelopes, catalogues and archives.  IInv is inductive:      *)
(*                                                                         *)
(*   Typed     the types, with those of the histories                      *)
(*   Unpacked  what a call of unpack_release_binary has found so far       *)
(*   Admitted  the plan that is held was verified, passed the gates and    *)
(*             still would: nothing is applied before it                   *)
(*   Worked    from "select" on nothing of it is left to fetch, from       *)
(*             "binary" on it has one binary for this host                 *)
(*   Recorded  what the history says of every plan applied                 *)
(***************************************************************************)
EXTENDS Rollout, SequenceTheorems, FiniteSetTheorems, WellFoundedInduction,
        TLAPS

AppliedPlan == [doc : Docs, runtime : Version \cup {None}]

Typed == TypeOK /\ applied \in Seq(AppliedPlan)

(* The entries before place n were neither refused nor the binary. *)
PassedOver(n) ==
    \A j \in 1..(n - 1) : /\ j \in DOMAIN archive.entries
                          /\ ~ EntryRefused(archive, j)
                          /\ ~ IsTheBinary(archive, j)

Unpacked ==
    /\ step \in {"scan", "copy", "chmod", "ok"} =>
          archive \in Archives /\ at \in Nat \ {0} /\ PassedOver(at)
    /\ step \in {"copy", "chmod", "ok"} =>
          /\ at \in DOMAIN archive.entries
          /\ ~ EntryRefused(archive, at) /\ IsTheBinary(archive, at)
          /\ dest \in DestFile
          /\ dest.content = archive.entries[at].content
    /\ step = "copy" => dest.size = 0 /\ dest.missing = archive.entries[at].size
    /\ step \in {"chmod", "ok"} =>
          /\ dest.missing = 0 /\ dest.size = archive.entries[at].size
          /\ archive.entries[at].size <= Cap
    /\ step = "ok" => dest.exec

(* AdmittedWasReleased, of the plan that is held. *)
Released ==
    \E key \in Key : /\ BuildUpdatePlan(plan.doc, key, key, plan.root)
                     /\ plan.envelope = BuiltEnvelope(plan.doc, key, key)

Admitted ==
    /\ plan # None => phase # "idle"
    /\ phase # "idle" => /\ plan.doc \in Docs /\ plan.root \in SUBSET Key
                         /\ Released
                         /\ GatesPass(plan.doc)

Worked ==
    /\ NothingLeftOut
    /\ todo # {} => phase = "fetch"
    /\ phase = "fetch" => /\ todo # {}
                          /\ todo \subseteq DOMAIN plan.doc.artifacts
    /\ phase = "binary" =>
          /\ ~ AmbiguousBinary(plan.doc.binaries, HostName, HostTarget)
          /\ SelectFor(plan.doc) # None

(* The sequences applied in a channel have a highest one. *)
SequencesOf(channel) ==
    {applied[i].doc.sequence : i \in
        {j \in DOMAIN applied : applied[j].doc.env_id = channel}}

Bounded(channel) ==
    SequencesOf(channel) # {} =>
        \E s \in SequencesOf(channel) : \A t \in SequencesOf(channel) : t <= s

Recorded ==
    /\ HistoryCompatible
    /\ RunningBinaryIsPlanned
    /\ runtime.version = RuntimeBefore(Len(applied) + 1)
    /\ \A channel \in EnvId : Bounded(channel)

IInv == Typed /\ Unpacked /\ Admitted /\ Worked /\ Recorded

----------------------------------------------------------------------------
(* Operators.                                                              *)

(* A set of numbers has a least one. *)
LEMMA LeastOf ==
    ASSUME NEW S, S \subseteq Nat, S # {}
    PROVE  \E m \in S : \A n \in S : m <= n
<1>. DEFINE R == OpToRel(<, Nat)
<1>1. IsWellFoundedOn(R, Nat)
  BY NatLessThanWellFounded
<1>2. PICK m \in S : \A n \in S : <<n, m>> \notin R
  <2>. HIDE DEF R
  <2>. QED  BY <1>1, WFMin
<1>3. \A n \in S : ~ (n < m)
  BY <1>2 DEF OpToRel
<1>4. \A n \in S : m <= n
  <2>. HIDE DEF R
  <2>. QED  BY <1>3
<1>. HIDE DEF R
<1>. QED  BY <1>4

(* The catalogue's entry that a lookup finds. *)
LEMMA GetFinds ==
    ASSUME NEW catalogue_ \in Seq(InstalledArtifact), NEW name,
           Get(catalogue_, name) # None
    PROVE  \E j \in DOMAIN catalogue_ :
              catalogue_[j].name = name /\ catalogue_[j] = Get(catalogue_, name)
<1>. DEFINE hits == {i \in DOMAIN catalogue_ : catalogue_[i].name = name}
<1>1. hits # {} /\ hits \subseteq Nat
  BY LenProperties DEF Get
<1>2. \E i \in hits : \A j \in hits : i <= j
  BY <1>1, LeastOf
<1>3. Get(catalogue_, name)
        = catalogue_[CHOOSE i \in hits : \A j \in hits : i <= j]
  BY <1>1 DEF Get
<1>4. (CHOOSE i \in hits : \A j \in hits : i <= j) \in hits
  BY <1>2
<1>. QED  BY <1>3, <1>4

(* Nothing to do means that each planned artifact is there as pinned. *)
LEMMA NoWorkIsInstalled ==
    ASSUME NEW catalogue_ \in Seq(InstalledArtifact),
           NEW planned \in Seq(PlanArtifact),
           ~ HasWork(Diff(catalogue_, planned)), NEW i \in DOMAIN planned
    PROVE  \E j \in DOMAIN catalogue_ :
              /\ catalogue_[j].name = planned[i].name
              /\ catalogue_[j].digest.hex = planned[i].digest.hex
<1>. DEFINE installed == Get(catalogue_, planned[i].name)
<1>1. ~ NeedsFetch(Action(planned[i], installed))
  BY DEF HasWork, Diff
<1>2. installed # None /\ DigestsMatch(installed.digest, planned[i].digest)
  BY <1>1 DEF Action, NeedsFetch
<1>. HIDE DEF installed
<1>. QED  BY <1>2, GetFinds DEF installed, DigestsMatch

(* A plan whose binary is selected has exactly that one for this host.     *)
LEMMA SelectedIsOnly ==
    ASSUME NEW binaries \in Seq(BinaryArtifact), NEW name, NEW target,
           ~ AmbiguousBinary(binaries, name, target),
           SelectBinary(binaries, name, target) # None
    PROVE  \E k \in DOMAIN binaries :
              /\ Matching(binaries, name, target) = {k}
              /\ SelectBinary(binaries, name, target) = binaries[k]
<1>. DEFINE M == Matching(binaries, name, target)
<1>1. M # {} /\ M \subseteq 1..Len(binaries) /\ Len(binaries) \in Nat
  BY LenProperties DEF SelectBinary, Matching
<1>2. IsFiniteSet(M) /\ Cardinality(M) \in Nat /\ Cardinality(M) # 0
  <2>1. IsFiniteSet(1..Len(binaries))
    BY <1>1, FS_Interval
  <2>2. IsFiniteSet(M)
    BY <1>1, <2>1, FS_Subset
  <2>. QED  BY <1>1, <2>2, FS_EmptySet, FS_CardinalityType
<1>3. Cardinality(M) = 1
  BY <1>2 DEF AmbiguousBinary
<1>4. PICK k : M = {k}
  BY <1>2, <1>3, FS_Singleton
<1>5. k \in DOMAIN binaries /\ k \in Nat
  BY <1>1, <1>4, LenProperties
<1>6. SelectBinary(binaries, name, target)
        = binaries[CHOOSE i \in M : \A j \in M : i <= j]
  BY <1>1 DEF SelectBinary
<1>. HIDE DEF M
<1>7. (CHOOSE i \in M : \A j \in M : i <= j) = k
  BY <1>4, <1>5
<1>. QED  BY <1>4, <1>5, <1>6, <1>7 DEF M

(* The catalogue stays one whatever is installed. *)
LEMMA InstalledTyped ==
    ASSUME NEW artifacts \in Seq(InstalledArtifact), NEW a \in PlanArtifact
    PROVE  Installed(artifacts, a) \in Seq(InstalledArtifact)
<1>. DEFINE entry == [name |-> a.name, digest |-> a.digest]
            replaced == [i \in DOMAIN artifacts |->
                           IF artifacts[i].name = a.name THEN entry
                           ELSE artifacts[i]]
<1>1. entry \in InstalledArtifact
  BY DEF PlanArtifact, InstalledArtifact
<1>2. replaced \in Seq(InstalledArtifact)
  <2>1. /\ Len(artifacts) \in Nat /\ DOMAIN artifacts = 1..Len(artifacts)
        /\ \A i \in DOMAIN artifacts : artifacts[i] \in InstalledArtifact
    BY LenProperties, ElementOfSeq
  <2>2. replaced \in [1..Len(artifacts) -> InstalledArtifact]
    BY <1>1, <2>1
  <2>. QED  BY <2>1, <2>2, SeqDef
<1>3. Append(artifacts, entry) \in Seq(InstalledArtifact)
  BY <1>1
<1>. QED  BY <1>2, <1>3 DEF Installed

----------------------------------------------------------------------------
(* Unpacking.                                                              *)

(* The entries of an archive, and the fields of one of them. *)
LEMMA EntriesTyped ==
    ASSUME archive \in Archives
    PROVE  /\ Len(archive.entries) \in Nat
           /\ DOMAIN archive.entries = 1..Len(archive.entries)
           /\ \A i \in DOMAIN archive.entries : archive.entries[i] \in Entry
<1>1. archive.entries \in Seq(Entry)
  BY RolloutAssumption DEF Archive
<1>. QED  BY <1>1, LenProperties, ElementOfSeq

(* What is written so far and what is not is all there is to copy. *)
LEMMA CopiedTyped ==
    ASSUME dest \in DestFile, dest.size = 0, NEW n \in Nat,
           n <= dest.missing, n <= Cap + 1
    PROVE  /\ Copied(n) \in DestFile
           /\ Copied(n).size = n /\ Copied(n).missing = dest.missing - n
           /\ Copied(n).content = dest.content
<1>1. dest.missing \in Nat /\ dest.size + n = n
  BY DEF DestFile
<1>2. n \in 0..(Cap + 1) /\ dest.missing - n \in Nat
  BY <1>1, UnpackAssumption
<1>3. Copied(n) = [dest EXCEPT !.size = n, !.missing = dest.missing - n]
  BY <1>1 DEF Copied
<1>. QED  BY <1>2, <1>3 DEF DestFile

(* A step of a call keeps what the call knows, and its types. *)
LEMMA UnpackStep ==
    ASSUME UnpackTypeOK, Unpacked, UnpackNext
    PROVE  UnpackTypeOK' /\ Unpacked'
<1>1. CASE RefuseEntry \/ RefuseDeclaredSize \/ EndOfArchive
  BY <1>1
  DEF RefuseEntry, RefuseDeclaredSize, EndOfArchive, UnpackTypeOK,
      UnpackSteps, Ended, Unpacked
<1>2. CASE PassEntry
  <2>. DEFINE e == archive.entries[at]
  <2>1. /\ archive \in Archives /\ at \in Nat \ {0} /\ PassedOver(at)
        /\ at <= Len(archive.entries)
    BY <1>2 DEF PassEntry, Unpacked
  <2>2. at \in DOMAIN archive.entries /\ e \in Entry
    BY <2>1, EntriesTyped
  <2>3. total' \in Nat
    BY <1>2, <2>2 DEF PassEntry, UnpackTypeOK, Entry
  <2>4. archive' = archive /\ ~ EntryRefused(archive, at)
    BY <1>2 DEF PassEntry
  <2>5. ASSUME ~ IsTheBinary(archive, at), at' = at + 1,
               UNCHANGED <<step, dest>>
        PROVE  UnpackTypeOK' /\ Unpacked'
    <3>1. PassedOver(at)'
      <4>1. PassedOver(at + 1)
        <5>. SUFFICES ASSUME NEW j \in 1..((at + 1) - 1)
                      PROVE  /\ j \in DOMAIN archive.entries
                             /\ ~ EntryRefused(archive, j)
                             /\ ~ IsTheBinary(archive, j)
          BY DEF PassedOver
        <5>1. CASE j = at
          BY <2>2, <2>4, <2>5, <5>1
        <5>2. CASE j # at
          BY <2>1, <5>2 DEF PassedOver
        <5>. QED  BY <5>1, <5>2
      <4>. QED
        BY <2>4, <2>5, <4>1 DEF PassedOver, EntryRefused, IsTheBinary
    <3>. QED
      BY <1>2, <2>1, <2>3, <2>4, <2>5, <3>1
      DEF PassEntry, UnpackTypeOK, Unpacked
  <2>6. ASSUME IsTheBinary(archive, at), step' = "copy", at' = at,
               dest' = [content |-> e.content, size |-> 0,
                        missing |-> e.size,
                        exec |-> IF dest = None THEN FALSE ELSE dest.exec]
        PROVE  UnpackTypeOK' /\ Unpacked'
    <3>1. dest' \in DestFile
      <4>1. e.content \in Hex /\ e.size \in Nat
        BY <2>2 DEF Entry
      <4>2. (IF dest = None THEN FALSE ELSE dest.exec) \in BOOLEAN
        BY DEF UnpackTypeOK, DestFile
      <4>3. 0 \in 0..(Cap + 1)
        BY UnpackAssumption
      <4>. QED  BY <2>6, <4>1, <4>2, <4>3 DEF DestFile
    <3>2. PassedOver(at)'
      BY <2>1, <2>4, <2>6 DEF PassedOver, EntryRefused, IsTheBinary
    <3>3. ~ EntryRefused(archive, at)' /\ IsTheBinary(archive, at)'
      BY <2>4, <2>6 DEF EntryRefused, IsTheBinary
    <3>4. UnpackTypeOK'
      BY <2>1, <2>3, <2>4, <2>6, <3>1 DEF UnpackTypeOK, UnpackSteps
    <3>. QED
      BY <2>1, <2>2, <2>4, <2>6, <3>1, <3>2, <3>3, <3>4 DEF Unpacked
  <2>. QED  BY <1>2, <2>5, <2>6 DEF PassEntry
<1>3. ASSUME step = "copy", UNCHANGED <<archive, at, total>>,
             NEW n \in Nat, n <= dest.missing, n <= Cap + 1,
             dest' = Copied(n), step' \in {"chmod", "lied", "io"},
             step' = "chmod" => n = dest.missing /\ n <= Cap
      PROVE  UnpackTypeOK' /\ Unpacked'
  <2>1. /\ dest \in DestFile /\ dest.size = 0
        /\ dest.missing = archive.entries[at].size
        /\ dest.content = archive.entries[at].content
    BY <1>3 DEF Unpacked
  <2>2. /\ dest' \in DestFile /\ dest'.content = dest.content
        /\ dest'.size = n /\ dest'.missing = dest.missing - n
    BY <1>3, <2>1, CopiedTyped
  <2>3. UnpackTypeOK'
    BY <1>3, <2>2 DEF UnpackTypeOK, UnpackSteps, Ended
  <2>4. PassedOver(at)' = PassedOver(at)
    BY <1>3 DEF PassedOver, EntryRefused, IsTheBinary
  <2>. QED
    BY <1>3, <2>1, <2>2, <2>3, <2>4 DEF Unpacked, EntryRefused, IsTheBinary
<1>4. CASE CopyWithinCap
  <2>1. dest.missing \in Nat
    BY <1>4 DEF CopyWithinCap, Unpacked, DestFile
  <2>. QED  BY <1>3, <1>4, <2>1, UnpackAssumption DEF CopyWithinCap
<1>5. CASE CopyBeyondCap
  <2>1. CASE dest' = None
    BY <1>5, <2>1
    DEF CopyBeyondCap, UnpackTypeOK, UnpackSteps, Ended, Unpacked
  <2>2. CASE dest' = Copied(Cap + 1)
    <3>1. dest.missing \in Nat
      BY <1>5 DEF CopyBeyondCap, Unpacked, DestFile
    <3>. QED  BY <1>3, <1>5, <2>2, <3>1, UnpackAssumption DEF CopyBeyondCap
  <2>. QED  BY <1>5, <2>1, <2>2 DEF CopyBeyondCap
<1>6. CASE MakeExecutable
  <2>1. dest \in DestFile
    BY <1>6 DEF MakeExecutable, Unpacked
  <2>2. /\ dest' \in DestFile /\ dest'.exec /\ dest'.content = dest.content
        /\ dest'.size = dest.size /\ dest'.missing = dest.missing
    BY <1>6, <2>1 DEF MakeExecutable, DestFile
  <2>3. UnpackTypeOK'
    BY <1>6, <2>2 DEF MakeExecutable, UnpackTypeOK, UnpackSteps, Ended
  <2>4. PassedOver(at)' = PassedOver(at)
    BY <1>6 DEF MakeExecutable, PassedOver, EntryRefused, IsTheBinary
  <2>. QED
    BY <1>6, <2>2, <2>3, <2>4
    DEF MakeExecutable, Unpacked, EntryRefused, IsTheBinary
<1>7. CASE UnpackFails
  <2>1. CASE step = "copy"
    <3>1. dest.missing \in Nat
      BY <2>1 DEF Unpacked, DestFile
    <3>2. PICK n \in 0..Min2(dest.missing, Cap + 1) : dest' = Copied(n)
      BY <1>7, <2>1 DEF UnpackFails
    <3>3. n \in Nat /\ n <= dest.missing /\ n <= Cap + 1
      BY <3>1, <3>2, UnpackAssumption DEF Min2
    <3>. QED  BY <1>3, <1>7, <2>1, <3>2, <3>3 DEF UnpackFails
  <2>2. CASE step # "copy"
    BY <1>7, <2>2 DEF UnpackFails, UnpackTypeOK, UnpackSteps, Ended, Unpacked
  <2>. QED  BY <2>1, <2>2
<1>. QED  BY <1>1, <1>2, <1>4, <1>5, <1>6, <1>7 DEF UnpackNext

(* What a call starts with, and what is left after it. *)
LEMMA UnpackCallStep ==
    ASSUME UnpackTypeOK, NEW a \in Archives, UnpackCall(a)
    PROVE  UnpackTypeOK' /\ Unpacked'
<1>1. PassedOver(at)'
  BY DEF UnpackCall, PassedOver
<1>. QED
  BY <1>1 DEF UnpackCall, UnpackTypeOK, UnpackSteps, Ended, Unpacked

(* A call that has ended leaves the file it unpacked, and no entry under way. *)
LEMMA ForgetCallStep ==
    ASSUME UnpackTypeOK, ForgetCall
    PROVE  UnpackTypeOK' /\ Unpacked'
  BY DEF ForgetCall, UnpackTypeOK, UnpackSteps, Ended, Unpacked

(* The steps of the rest of the system leave the unpacking alone. *)
LEMMA UnpackStutter ==
    ASSUME UnpackTypeOK, Unpacked, UNCHANGED unpack
    PROVE  UnpackTypeOK' /\ Unpacked'
  BY DEF unpack, UnpackTypeOK, Unpacked, PassedOver, EntryRefused, IsTheBinary

(* Of the unpacking variables a step does one of these things. *)
LEMMA UnpackedStep ==
    ASSUME UnpackTypeOK, Unpacked, [Next]_vars
    PROVE  UnpackTypeOK' /\ Unpacked'
<1>1. \/ UNCHANGED unpack \/ ForgetCall \/ UnpackNext
      \/ \E a \in Archives : UnpackCall(a)
  BY DEF Next, vars, RotateRoot, Admit, WorkOut, Fetch, SelectionFails,
         NoBinary, BinarySelected, StartUnpack, Unpacking, SwapVerified,
         DropArchive, GiveUp, Crash
<1>. QED
  BY <1>1, UnpackStep, UnpackCallStep, ForgetCallStep, UnpackStutter

----------------------------------------------------------------------------
(* The caller's loop.                                                      *)

(* What is known of the fields of the plan that is held. *)
LEMMA PlanTyped ==
    ASSUME Admitted, phase # "idle"
    PROVE  /\ plan.doc \in Docs /\ plan.doc \in UpdatePlan
           /\ plan.doc.artifacts \in Seq(PlanArtifact)
           /\ DOMAIN plan.doc.artifacts \subseteq Nat
           /\ \A i \in DOMAIN plan.doc.artifacts :
                 plan.doc.artifacts[i] \in PlanArtifact
           /\ plan.doc.binaries \in Seq(BinaryArtifact)
           /\ plan.doc.sequence \in Nat
           /\ plan.doc.env_id \in EnvId
<1>1. plan.doc \in Docs /\ plan.doc \in UpdatePlan
  BY RolloutAssumption DEF Admitted
<1>2. /\ plan.doc.artifacts \in Seq(PlanArtifact)
      /\ plan.doc.binaries \in Seq(BinaryArtifact)
      /\ plan.doc.sequence \in Nat
      /\ plan.doc.env_id \in EnvId
  BY <1>1 DEF UpdatePlan
<1>3. DOMAIN plan.doc.artifacts = 1..Len(plan.doc.artifacts)
      /\ Len(plan.doc.artifacts) \in Nat
  BY <1>2, LenProperties
<1>. QED  BY <1>1, <1>2, <1>3, ElementOfSeq

(* The binary selected is one of the plan's. *)
LEMMA SelectedTyped ==
    ASSUME Admitted, phase # "idle",
           ~ AmbiguousBinary(plan.doc.binaries, HostName, HostTarget),
           SelectFor(plan.doc) # None
    PROVE  /\ SelectFor(plan.doc) \in BinaryArtifact
           /\ \E k \in DOMAIN plan.doc.binaries :
                 /\ Matching(plan.doc.binaries, HostName, HostTarget) = {k}
                 /\ SelectFor(plan.doc) = plan.doc.binaries[k]
<1>1. plan.doc.binaries \in Seq(BinaryArtifact)
  BY PlanTyped
<1>2. PICK k \in DOMAIN plan.doc.binaries :
         /\ Matching(plan.doc.binaries, HostName, HostTarget) = {k}
         /\ SelectFor(plan.doc) = plan.doc.binaries[k]
  BY <1>1, SelectedIsOnly DEF SelectFor
<1>3. plan.doc.binaries[k] \in BinaryArtifact
  BY <1>1, LenProperties, ElementOfSeq
<1>. QED  BY <1>2, <1>3

(* What work there is, by the places of the plan's artifacts. *)
LEMMA WorkPlaces ==
    ASSUME NEW catalogue_, NEW planned
    PROVE  /\ ToDownload(Diff(catalogue_, planned)) \subseteq DOMAIN planned
           /\ HasWork(Diff(catalogue_, planned))
                <=> ToDownload(Diff(catalogue_, planned)) # {}
<1>1. DOMAIN Diff(catalogue_, planned).items = DOMAIN planned
  BY DEF Diff
<1>. QED  BY <1>1 DEF ToDownload, HasWork

(* Of the plan, the history and the runtime a step does one of these. *)
LEMMA PlanSteps ==
    ASSUME [Next]_vars
    PROVE  \/ UNCHANGED <<plan, applied, runtime>>
           \/ \E bytes \in Docs \cup {Junk}, e \in Envelopes : Admit(bytes, e)
           \/ plan' = None /\ phase' = "idle" /\ UNCHANGED <<applied, runtime>>
           \/ NoBinary
           \/ SwapVerified
  BY DEF Next, vars, env, RotateRoot, WorkOut, Fetch, SelectionFails,
         BinarySelected, StartUnpack, Unpacking, DropArchive, GiveUp, Crash

(* The runtime that a plan leaves has its type. *)
LEMMA NewRuntimeTyped ==
    ASSUME Typed, Admitted, Worked, Unpacked, SwapVerified
    PROVE  [version |-> SelectFor(plan.doc).version,
            content |-> dest.content] \in Runtime
<1>1. phase = "binary"
  BY DEF SwapVerified
<1>2. SelectFor(plan.doc) \in BinaryArtifact
  BY <1>1, SelectedTyped DEF Worked
<1>3. dest.content \in Hex
  BY DEF SwapVerified, Unpacked, DestFile
<1>. QED  BY <1>2, <1>3 DEF BinaryArtifact, Runtime

(* The history gets the plan as its last entry. *)
LEMMA HistoryGrows ==
    ASSUME Typed, Admitted, phase # "idle", NEW newRuntime \in Runtime,
           FinishWith(newRuntime)
    PROVE  /\ applied' \in Seq(AppliedPlan)
           /\ Len(applied) \in Nat
           /\ DOMAIN applied = 1..Len(applied)
           /\ DOMAIN applied' = 1..(Len(applied) + 1)
           /\ Len(applied') = Len(applied) + 1
           /\ applied'[Len(applied) + 1]
                = [doc |-> plan.doc, runtime |-> newRuntime.version]
           /\ \A i \in DOMAIN applied : applied'[i] = applied[i]
<1>. DEFINE entry == [doc |-> plan.doc, runtime |-> newRuntime.version]
<1>1. entry \in AppliedPlan
  BY PlanTyped DEF Runtime, AppliedPlan
<1>2. applied \in Seq(AppliedPlan) /\ applied' = Append(applied, entry)
  BY DEF Typed, FinishWith
<1>. HIDE DEF entry
<1>3. /\ applied' \in Seq(AppliedPlan) /\ Len(applied') = Len(applied) + 1
      /\ applied'[Len(applied) + 1] = entry
      /\ \A i \in 1..Len(applied) : applied'[i] = applied[i]
  BY <1>1, <1>2, AppendProperties
<1>4. /\ Len(applied) \in Nat /\ DOMAIN applied = 1..Len(applied)
      /\ DOMAIN applied' = 1..Len(applied')
  BY <1>2, <1>3, LenProperties
<1>. QED  BY <1>3, <1>4 DEF entry

(* A step keeps the types. *)
LEMMA TypedStep ==
    ASSUME Typed, Admitted, Worked, Unpacked, [Next]_vars
    PROVE  Typed'
<1>1. UnpackTypeOK'
  BY UnpackedStep DEF Typed, TypeOK
<1>2. applied' \in Seq(AppliedPlan) /\ runtime' \in Runtime
  <2>1. CASE UNCHANGED <<plan, applied, runtime>>
             \/ (plan' = None /\ UNCHANGED <<applied, runtime>>)
    BY <2>1 DEF Typed, TypeOK
  <2>2. CASE \E bytes \in Docs \cup {Junk}, e \in Envelopes : Admit(bytes, e)
    BY <2>2 DEF Admit, Typed, TypeOK
  <2>3. CASE NoBinary
    <3>1. /\ FinishWith(runtime) /\ phase # "idle" /\ runtime \in Runtime
          /\ runtime' = runtime
      BY <2>3 DEF NoBinary, FinishWith, Typed, TypeOK
    <3>. QED  BY <3>1, HistoryGrows
  <2>4. CASE SwapVerified
    <3>. DEFINE new == [version |-> SelectFor(plan.doc).version,
                        content |-> dest.content]
    <3>1. FinishWith(new) /\ phase # "idle" /\ runtime' = new
      BY <2>4 DEF SwapVerified, FinishWith
    <3>2. new \in Runtime
      BY <2>4, NewRuntimeTyped
    <3>. HIDE DEF new
    <3>. QED  BY <3>1, <3>2, HistoryGrows
  <2>. QED  BY <2>1, <2>2, <2>3, <2>4, PlanSteps
<1>3. \A i \in DOMAIN applied' : /\ applied'[i].doc \in Docs
                                 /\ applied'[i].runtime \in Version \cup {None}
  <2>1. \A i \in DOMAIN applied' : applied'[i] \in AppliedPlan
    BY <1>2, LenProperties, ElementOfSeq
  <2>. QED  BY <2>1 DEF AppliedPlan
<1>4. plan' = None \/ (plan'.doc \in Docs /\ plan'.root \in SUBSET Key)
  <2>1. CASE \E bytes \in Docs \cup {Junk}, e \in Envelopes : Admit(bytes, e)
    <3>1. PICK bytes \in Docs \cup {Junk}, e \in Envelopes : Admit(bytes, e)
      BY <2>1
    <3>2. bytes \in Docs /\ root \in SUBSET Key
      BY <3>1 DEF Admit, VerifyUpdatePlan, Typed, TypeOK
    <3>. QED  BY <3>1, <3>2 DEF Admit
  <2>. QED
    BY <2>1, PlanSteps
    DEF Typed, TypeOK, NoBinary, SwapVerified, FinishWith
<1>5. root' \in SUBSET Key /\ attempts' \in 0..MaxAttempts
  BY RolloutAssumption
  DEF Next, vars, env, Typed, TypeOK, RotateRoot, Admit, WorkOut, Fetch,
      SelectionFails, NoBinary, BinarySelected, StartUnpack, Unpacking,
      SwapVerified, DropArchive, GiveUp, Crash, FinishWith
<1>6. phase' \in Phases
  BY DEF Next, vars, env, Typed, TypeOK, RotateRoot, Admit, WorkOut, Fetch,
      SelectionFails, NoBinary, BinarySelected, StartUnpack, Unpacking,
      SwapVerified, DropArchive, GiveUp, Crash, FinishWith, Phases
<1>7. catalogue' \in Seq(InstalledArtifact)
  <2>1. CASE Fetch
    <3>1. PICK i \in todo :
             catalogue' = Installed(catalogue, plan.doc.artifacts[i])
      BY <2>1 DEF Fetch
    <3>2. plan.doc.artifacts[i] \in PlanArtifact
      BY <2>1, PlanTyped DEF Fetch, Worked
    <3>. QED  BY <3>1, <3>2, InstalledTyped DEF Typed, TypeOK
  <2>2. CASE UNCHANGED catalogue
    BY <2>2 DEF Typed, TypeOK
  <2>. QED
    BY <2>1, <2>2
    DEF Next, vars, env, RotateRoot, Admit, WorkOut,
      SelectionFails, NoBinary, BinarySelected, StartUnpack, Unpacking,
      SwapVerified, DropArchive, GiveUp, Crash, FinishWith
<1>8. todo' \in SUBSET Nat
  <2>1. CASE WorkOut
    <3>1. todo' \subseteq DOMAIN plan.doc.artifacts
      BY <2>1, WorkPlaces DEF WorkOut
    <3>. QED  BY <2>1, <3>1, PlanTyped DEF WorkOut
  <2>2. CASE todo' \subseteq todo
    BY <2>2 DEF Typed, TypeOK
  <2>. QED
    BY <2>1, <2>2
    DEF Next, vars, env, RotateRoot, Admit, Fetch,
      SelectionFails, NoBinary, BinarySelected, StartUnpack, Unpacking,
      SwapVerified, DropArchive, GiveUp, Crash, FinishWith
<1>. QED
  BY <1>1, <1>2, <1>3, <1>4, <1>5, <1>6, <1>7, <1>8 DEF Typed, TypeOK

(* The gates look only at the history and at the runtime. *)
LEMMA GatesSame ==
    ASSUME NEW doc, UNCHANGED <<applied, runtime>>
    PROVE  GatesPass(doc)' <=> GatesPass(doc)
  BY DEF GatesPass, LastApplied, RuntimeFacts, AppliedIds

(* What verify_update_plan accepts is what build_update_plan releases. *)
LEMMA VerifiedWasBuilt ==
    ASSUME NEW bytes, NEW e \in Envelopes, NEW keys,
           VerifyUpdatePlan(bytes, e, keys)
    PROVE  \E key \in Key : /\ BuildUpdatePlan(bytes, key, key, keys)
                            /\ e = BuiltEnvelope(bytes, key, key)
<1>1. e \in Envelope
  BY RolloutAssumption
<1>2. /\ e.signer \in Key /\ e.keyid = e.signer /\ e.signer \in keys
      /\ e.subject = bytes /\ e.predicate = PredicateOf(bytes)
      /\ e.predicate_type = "greentic.update-plan-predicate.v1"
      /\ bytes.schema = "greentic.update-plan.v1"
  BY <1>1 DEF VerifyUpdatePlan, VerifyArtifactDsse, Envelope
<1>3. e = BuiltEnvelope(bytes, e.signer, e.signer)
  BY <1>1, <1>2 DEF BuiltEnvelope, Signed, Envelope
<1>4. BuildUpdatePlan(bytes, e.signer, e.signer, keys)
  BY <1>2, PlanGatesAssumption
  DEF BuildUpdatePlan, VerifyArtifactDsse, BuiltEnvelope, Signed
<1>. QED  BY <1>2, <1>3, <1>4

(* A step keeps what is known of the plan that is held. *)
LEMMA AdmittedStep ==
    ASSUME Typed, Admitted, [Next]_vars
    PROVE  Admitted'
<1>1. CASE \E bytes \in Docs \cup {Junk}, e \in Envelopes : Admit(bytes, e)
  <2>1. PICK bytes \in Docs \cup {Junk}, e \in Envelopes : Admit(bytes, e)
    BY <1>1
  <2>2. /\ VerifyUpdatePlan(bytes, e, root) /\ GatesPass(bytes)
        /\ plan' = [doc |-> bytes, envelope |-> e, root |-> root]
        /\ phase' = "diff" /\ UNCHANGED <<applied, runtime>>
    BY <2>1 DEF Admit
  <2>3. bytes \in Docs /\ root \in SUBSET Key
    BY <2>2 DEF VerifyUpdatePlan, Typed, TypeOK
  <2>4. Released'
    BY <2>2, VerifiedWasBuilt DEF Released
  <2>5. GatesPass(bytes)'
    BY <2>2, GatesSame
  <2>6. plan'.doc = bytes /\ plan'.root = root
    BY <2>2
  <2>. QED  BY <2>2, <2>3, <2>4, <2>5, <2>6 DEF Admitted
<1>2. CASE phase' = "idle" /\ plan' = None
  BY <1>2 DEF Admitted
<1>3. CASE /\ UNCHANGED <<plan, applied, runtime>>
           /\ phase' = "idle" <=> phase = "idle"
  <2>1. Released' <=> Released
    BY <1>3 DEF Released
  <2>2. GatesPass(plan.doc)' <=> GatesPass(plan.doc)
    BY <1>3 DEF GatesPass, LastApplied, RuntimeFacts, AppliedIds
  <2>. QED  BY <1>3, <2>1, <2>2 DEF Admitted
<1>. QED
  BY <1>1, <1>2, <1>3
  DEF Next, vars, env, RotateRoot, WorkOut, Fetch, SelectionFails, NoBinary,
      BinarySelected, StartUnpack, Unpacking, SwapVerified, DropArchive,
      GiveUp, Crash, FinishWith

(* A step keeps what is known of the work. *)
LEMMA WorkedStep ==
    ASSUME Typed, Admitted, Worked, [Next]_vars
    PROVE  Worked'
<1>1. CASE WorkOut
  <2>. DEFINE work == Diff(catalogue, plan.doc.artifacts)
  <2>1. /\ todo' = ToDownload(work)
        /\ phase' = IF HasWork(work) THEN "fetch" ELSE "select"
        /\ UNCHANGED <<plan, catalogue>> /\ phase # "idle"
    BY <1>1 DEF WorkOut, env
  <2>2. /\ todo' \subseteq DOMAIN plan.doc.artifacts
        /\ HasWork(work) <=> todo' # {}
    BY <2>1, WorkPlaces
  <2>3. /\ catalogue \in Seq(InstalledArtifact)
        /\ plan.doc.artifacts \in Seq(PlanArtifact)
    BY <2>1, PlanTyped DEF Typed, TypeOK
  <2>4. ~ HasWork(work) => NothingLeftOut'
    BY <2>1, <2>3, NoWorkIsInstalled DEF NothingLeftOut
  <2>. HIDE DEF work
  <2>. QED  BY <2>1, <2>2, <2>4 DEF Worked, NothingLeftOut
<1>2. CASE Fetch
  BY <1>2 DEF Fetch, Worked, NothingLeftOut
<1>3. CASE BinarySelected
  BY <1>3 DEF BinarySelected, env, Worked, NothingLeftOut
<1>4. CASE UNCHANGED <<plan, catalogue, todo, phase>>
  BY <1>4 DEF Worked, NothingLeftOut
<1>5. CASE phase' \in {"idle", "diff"} /\ todo' = {}
  BY <1>5 DEF Worked, NothingLeftOut
<1>. QED
  BY <1>1, <1>2, <1>3, <1>4, <1>5
  DEF Next, vars, env, RotateRoot, Admit, SelectionFails, NoBinary,
      StartUnpack, Unpacking, SwapVerified, DropArchive, GiveUp, Crash,
      FinishWith, Worked

(* What a plan that passes the gates was applied after. *)
LEMMA GatesMean ==
    ASSUME Typed, Recorded, NEW doc \in UpdatePlan, GatesPass(doc)
    PROVE  /\ doc.compat.min_runtime # None =>
                 /\ runtime.version \in Nat
                 /\ runtime.version >= doc.compat.min_runtime
           /\ \A id \in doc.compat.requires :
                 \E j \in DOMAIN applied : applied[j].doc.plan_id = id
           /\ \A s \in SequencesOf(doc.env_id) : s < doc.sequence
<1>1. /\ RuntimeNewEnough(doc.compat.min_runtime, runtime.version)
      /\ doc.compat.requires \subseteq AppliedIds
      /\ EnsureNotDowngrade(doc, LastApplied(doc.env_id))
  BY DEF GatesPass, CheckCompat, RuntimeFacts
<1>2. runtime.version \in Nat \cup {Junk, None}
  BY DEF Typed, TypeOK, Runtime, Version
<1>3. ASSUME NEW s \in SequencesOf(doc.env_id)
      PROVE  s < doc.sequence
  <2>. DEFINE past == SequencesOf(doc.env_id)
  <2>1. doc.env_id \in EnvId /\ doc.sequence \in Nat
    BY DEF UpdatePlan
  <2>2. \E m \in past : \A t \in past : t <= m
    BY <1>3, <2>1 DEF Recorded, Bounded
  <2>3. past \subseteq Nat
    <3>1. \A i \in DOMAIN applied : applied[i].doc \in UpdatePlan
      BY RolloutAssumption DEF Typed, TypeOK
    <3>. QED  BY <3>1 DEF SequencesOf, UpdatePlan
  <2>4. LastApplied(doc.env_id) = CHOOSE m \in past : \A t \in past : t <= m
    BY <1>3 DEF LastApplied, SequencesOf
  <2>. HIDE DEF past
  <2>5. LastApplied(doc.env_id) \in past
        /\ \A t \in past : t <= LastApplied(doc.env_id)
    BY <2>2, <2>4
  <2>6. LastApplied(doc.env_id) \in Nat /\ s \in Nat
    BY <1>3, <2>3, <2>5 DEF past
  <2>7. doc.sequence > LastApplied(doc.env_id)
    BY <1>1, <2>6, PlanGatesAssumption DEF EnsureNotDowngrade
  <2>8. s <= LastApplied(doc.env_id)
    BY <1>3, <2>5 DEF past
  <2>. QED  BY <2>1, <2>6, <2>7, <2>8
<1>4. doc.compat.min_runtime # None =>
         /\ runtime.version \in Nat
         /\ runtime.version >= doc.compat.min_runtime
  BY <1>1, <1>2 DEF RuntimeNewEnough
<1>. QED  BY <1>1, <1>3, <1>4 DEF AppliedIds

(* The history stays compatible when the plan that is held is added. *)
LEMMA RecordedGrows ==
    ASSUME Typed, Admitted, Recorded, phase # "idle",
           NEW newRuntime \in Runtime, FinishWith(newRuntime),
           RunningBinaryIsPlanned'
    PROVE  Recorded'
<1>. DEFINE n == Len(applied)
            doc == plan.doc
<1>1. /\ n \in Nat /\ DOMAIN applied = 1..n /\ DOMAIN applied' = 1..(n + 1)
      /\ Len(applied') = n + 1
      /\ applied'[n + 1] = [doc |-> doc, runtime |-> newRuntime.version]
      /\ \A i \in DOMAIN applied : applied'[i] = applied[i]
  BY HistoryGrows
<1>2. doc \in UpdatePlan /\ GatesPass(doc)
  BY PlanTyped DEF Admitted
<1>3. /\ doc.compat.min_runtime # None =>
            /\ runtime.version \in Nat
            /\ runtime.version >= doc.compat.min_runtime
      /\ \A id \in doc.compat.requires :
            \E j \in DOMAIN applied : applied[j].doc.plan_id = id
      /\ \A s \in SequencesOf(doc.env_id) : s < doc.sequence
  BY <1>2, GatesMean
<1>4. runtime' = newRuntime
  BY DEF FinishWith
<1>. HIDE DEF n, doc
<1>5. \A i \in 1..(n + 1) : RuntimeBefore(i)' = RuntimeBefore(i)
  BY <1>1 DEF RuntimeBefore
<1>6. RuntimeBefore(n + 1) = runtime.version
  BY DEF Recorded, n
<1>7. HistoryCompatible'
  <2>. SUFFICES ASSUME NEW i \in 1..(n + 1)
                PROVE  LET d == applied'[i].doc
                           min == d.compat.min_runtime
                       IN  /\ min # None => RuntimeBefore(i) \in Nat
                                            /\ RuntimeBefore(i) >= min
                           /\ \A id \in d.compat.requires :
                                 \E j \in 1..(i - 1) :
                                    applied'[j].doc.plan_id = id
                           /\ \A j \in 1..(i - 1) :
                                 applied'[j].doc.env_id = d.env_id =>
                                    applied'[j].doc.sequence < d.sequence
    BY <1>1, <1>5 DEF HistoryCompatible
  <2>1. CASE i \in 1..n
    <3>1. applied'[i] = applied[i]
          /\ \A j \in 1..(i - 1) : applied'[j] = applied[j]
      BY <1>1, <2>1
    <3>2. HistoryCompatible
      BY DEF Recorded
    <3>. QED  BY <1>1, <2>1, <3>1, <3>2 DEF HistoryCompatible
  <2>2. CASE i = n + 1
    <3>1. applied'[i].doc = doc /\ 1..(i - 1) = DOMAIN applied
      BY <1>1, <2>2
    <3>2. \A j \in DOMAIN applied : applied[j].doc.env_id = doc.env_id =>
             applied[j].doc.sequence \in SequencesOf(doc.env_id)
      BY DEF SequencesOf
    <3>. QED  BY <1>1, <1>3, <1>6, <2>2, <3>1, <3>2
  <2>. QED  BY <1>1, <2>1, <2>2
<1>8. (runtime.version = RuntimeBefore(Len(applied) + 1))'
  <2>1. RuntimeBefore(Len(applied) + 1)' = applied'[n + 1].runtime
    BY <1>1 DEF RuntimeBefore
  <2>. QED  BY <1>1, <1>4, <2>1
<1>9. ASSUME NEW channel \in EnvId
      PROVE  Bounded(channel)'
  <2>1. doc.sequence \in Nat
    BY <1>2 DEF UpdatePlan
  <2>2. SequencesOf(channel)' = SequencesOf(channel) \cup
            (IF doc.env_id = channel THEN {doc.sequence} ELSE {})
    <3>1. SequencesOf(channel)' \subseteq SequencesOf(channel) \cup
            (IF doc.env_id = channel THEN {doc.sequence} ELSE {})
      BY <1>1 DEF SequencesOf
    <3>2. SequencesOf(channel) \subseteq SequencesOf(channel)'
      BY <1>1 DEF SequencesOf
    <3>3. doc.env_id = channel => doc.sequence \in SequencesOf(channel)'
      BY <1>1 DEF SequencesOf
    <3>. QED  BY <3>1, <3>2, <3>3
  <2>3. CASE doc.env_id = channel
    <3>1. doc.sequence \in SequencesOf(channel)'
          /\ \A s \in SequencesOf(channel)' :
                s = doc.sequence \/ s < doc.sequence
      BY <1>3, <2>2, <2>3
    <3>2. \A s \in SequencesOf(channel)' : s <= doc.sequence
      <4>1. \A s \in SequencesOf(channel) : s \in Nat
        <5>1. \A i \in DOMAIN applied : applied[i].doc \in UpdatePlan
          BY RolloutAssumption DEF Typed, TypeOK
        <5>. QED  BY <5>1 DEF SequencesOf, UpdatePlan
      <4>. QED  BY <1>3, <2>1, <2>2, <2>3, <4>1
    <3>. QED  BY <3>1, <3>2 DEF Bounded
  <2>4. CASE doc.env_id # channel
    <3>1. SequencesOf(channel)' = SequencesOf(channel)
      BY <2>2, <2>4
    <3>. QED  BY <3>1 DEF Recorded, Bounded
  <2>. QED  BY <2>3, <2>4
<1>. QED  BY <1>4, <1>7, <1>8, <1>9 DEF Recorded

(* A step keeps what the history says. *)
LEMMA RecordedStep ==
    ASSUME Typed, Admitted, Worked, Unpacked, Recorded, [Next]_vars
    PROVE  Recorded'
<1>1. CASE UNCHANGED <<applied, runtime>>
  <2>1. HistoryCompatible' <=> HistoryCompatible
    BY <1>1 DEF HistoryCompatible, RuntimeBefore
  <2>2. RunningBinaryIsPlanned' <=> RunningBinaryIsPlanned
    BY <1>1 DEF RunningBinaryIsPlanned
  <2>3. RuntimeBefore(Len(applied) + 1)' = RuntimeBefore(Len(applied) + 1)
    BY <1>1 DEF RuntimeBefore
  <2>4. \A channel \in EnvId : Bounded(channel)' <=> Bounded(channel)
    BY <1>1 DEF Bounded, SequencesOf
  <2>. QED  BY <1>1, <2>1, <2>2, <2>3, <2>4 DEF Recorded
<1>2. CASE NoBinary
  <2>1. FinishWith(runtime) /\ phase # "idle" /\ runtime \in Runtime
        /\ runtime' = runtime
    BY <1>2 DEF NoBinary, FinishWith, Typed, TypeOK
  <2>2. /\ DOMAIN applied \subseteq DOMAIN applied'
        /\ \A i \in DOMAIN applied : applied'[i] = applied[i]
    <3>1. /\ Len(applied) \in Nat /\ DOMAIN applied = 1..Len(applied)
          /\ DOMAIN applied' = 1..(Len(applied) + 1)
          /\ \A i \in DOMAIN applied : applied'[i] = applied[i]
      BY <2>1, HistoryGrows
    <3>. QED  BY <3>1
  <2>3. RunningBinaryIsPlanned'
    BY <2>1, <2>2 DEF Recorded, RunningBinaryIsPlanned
  <2>. QED  BY <2>1, <2>3, RecordedGrows
<1>3. CASE SwapVerified
  <2>. DEFINE new == [version |-> SelectFor(plan.doc).version,
                      content |-> dest.content]
  <2>1. /\ FinishWith(new) /\ phase = "binary" /\ runtime' = new
        /\ dest.content = SelectFor(plan.doc).digest.hex
    BY <1>3 DEF SwapVerified, FinishWith, VerifyDigest
  <2>2. new \in Runtime
    BY <1>3, NewRuntimeTyped
  <2>3. PICK k \in DOMAIN plan.doc.binaries :
           /\ Matching(plan.doc.binaries, HostName, HostTarget) = {k}
           /\ SelectFor(plan.doc) = plan.doc.binaries[k]
    BY <2>1, SelectedTyped DEF Worked
  <2>4. /\ runtime'.content = plan.doc.binaries[k].digest.hex
        /\ runtime'.version = plan.doc.binaries[k].version
    BY <2>1, <2>3
  <2>5. /\ Len(applied) + 1 \in DOMAIN applied'
        /\ applied'[Len(applied) + 1].doc = plan.doc
    <3>. HIDE DEF new
    <3>1. /\ Len(applied) \in Nat /\ DOMAIN applied' = 1..(Len(applied) + 1)
          /\ applied'[Len(applied) + 1]
               = [doc |-> plan.doc, runtime |-> new.version]
      BY <2>1, <2>2, HistoryGrows
    <3>. QED  BY <3>1
  <2>6. RunningBinaryIsPlanned'
    BY <2>3, <2>4, <2>5 DEF RunningBinaryIsPlanned, Matching
  <2>. HIDE DEF new
  <2>. QED  BY <2>1, <2>2, <2>6, RecordedGrows
<1>. QED
  BY <1>1, <1>2, <1>3, PlanSteps DEF Admit

----------------------------------------------------------------------------
(* The invariant.                                                          *)

(* The first state. *)
LEMMA InitIInv == Init => IInv
<1>. SUFFICES ASSUME Init  PROVE IInv
  OBVIOUS
<1>1. applied = <<>> /\ applied \in Seq(AppliedPlan) /\ DOMAIN applied = {}
      /\ Len(applied) = 0
  BY DEF Init
<1>2. Typed
  BY <1>1, RolloutAssumption
  DEF Init, Typed, TypeOK, Phases, Runtime, UnpackInit, UnpackTypeOK,
      UnpackSteps, Ended
<1>3. Unpacked
  BY DEF Init, UnpackInit, Unpacked
<1>4. Admitted /\ Worked
  BY DEF Init, Admitted, Worked, NothingLeftOut
<1>5. HistoryCompatible /\ \A channel \in EnvId : Bounded(channel)
  BY <1>1 DEF HistoryCompatible, Bounded, SequencesOf
<1>6. RunningBinaryIsPlanned
  BY DEF Init, RunningBinaryIsPlanned
<1>7. runtime.version = RuntimeBefore(Len(applied) + 1)
  BY <1>1 DEF Init, RuntimeBefore
<1>. QED  BY <1>2, <1>3, <1>4, <1>5, <1>6, <1>7 DEF IInv, Recorded

(* IInv holds of every state of every behaviour. *)
LEMMA IInvInvariant == Spec => []IInv
<1>1. IInv /\ [Next]_vars => IInv'
  <2>1. ASSUME IInv, [Next]_vars  PROVE IInv'
    <3>1. Typed /\ Unpacked /\ Admitted /\ Worked /\ Recorded /\ UnpackTypeOK
      BY <2>1 DEF IInv, Typed, TypeOK
    <3>2. Unpacked'
      BY <2>1, <3>1, UnpackedStep
    <3>. QED
      BY <2>1, <3>1, <3>2, TypedStep, AdmittedStep, WorkedStep, RecordedStep
      DEF IInv
  <2>. QED  BY <2>1
<1>. QED  BY <1>1, InitIInv, PTL DEF Spec

----------------------------------------------------------------------------
(* The theorems.                                                           *)

(* Every variable has its type in every state. *)
THEOREM TypeCorrect == Spec => []TypeOK
<1>1. IInv => TypeOK
  BY DEF IInv, Typed
<1>. QED  BY <1>1, IInvInvariant, PTL

(* Whatever envelopes there are, the plan that an environment holds is one *)
(* that build_update_plan would have released to it, under the root it had *)
(* when it admitted the plan (verify_update_plan).                         *)
THEOREM AdmittedAlwaysReleased == Spec => []AdmittedWasReleased
<1>1. IInv => AdmittedWasReleased
  BY DEF IInv, Admitted, Released, AdmittedWasReleased
<1>. QED  BY <1>1, IInvInvariant, PTL

(* In every history each plan was applied on a runtime at its floor, after *)
(* the plans it requires and with a higher sequence than all of its        *)
(* channel before it (check_compat, ensure_not_downgrade): the gates are   *)
(* asked once, at the admission, and nothing is applied before the plan    *)
(* they passed.                                                            *)
THEOREM HistoryAlwaysCompatible == Spec => []HistoryCompatible
<1>1. IInv => HistoryCompatible
  BY DEF IInv, Recorded
<1>. QED  BY <1>1, IInvInvariant, PTL

(* No plan gets past its downloads while an artifact that it names is not  *)
(* installed with the content it pins (diff, has_work), for any catalogue, *)
(* with any duplicates in the plan or the catalogue.                       *)
THEOREM NothingEverLeftOut == Spec => []NothingLeftOut
<1>1. IInv => NothingLeftOut
  BY DEF IInv, Worked
<1>. QED  BY <1>1, IInvInvariant, PTL

(* The running binary is the installed one or the only entry for this host *)
(* of a plan that was applied, with the content pinned there               *)
(* (select_binary, unpack_release_binary, verify_digest_bytes).            *)
THEOREM RunningBinaryAlwaysPlanned == Spec => []RunningBinaryIsPlanned
<1>1. IInv => RunningBinaryIsPlanned
  BY DEF IInv, Recorded
<1>. QED  BY <1>1, IInvInvariant, PTL

(* What unpack_release_binary returns Ok for is the first regular entry of *)
(* the binary's name, whole, executable and within the cap, for archives   *)
(* of any length whose headers declare any sizes.                          *)
THEOREM UnpackedAlwaysFirstMatch == Spec => []UnpackedIsFirstMatch
<1>1. ASSUME Unpacked, step = "ok"
      PROVE  UnpackedIsFirstMatch
  <2>. DEFINE Found(i) ==
                /\ archive.entries[i].named /\ archive.entries[i].kind = "file"
                /\ \A j \in 1..(i - 1) : \/ ~ archive.entries[j].named
                                         \/ archive.entries[j].kind # "file"
  <2>1. /\ at \in DOMAIN archive.entries /\ at \in Nat \ {0}
        /\ ~ EntryRefused(archive, at) /\ PassedOver(at) /\ dest \in DestFile
        /\ dest.content = archive.entries[at].content /\ dest.missing = 0
        /\ dest.size = archive.entries[at].size /\ dest.exec
        /\ archive.entries[at].size <= Cap
    BY <1>1 DEF Unpacked
  <2>2. Found(at)
    BY <1>1, <2>1 DEF Unpacked, PassedOver, IsTheBinary
  <2>3. DOMAIN archive.entries \subseteq Nat
    BY <1>1, EntriesTyped DEF Unpacked
  <2>4. ASSUME NEW i \in DOMAIN archive.entries, Found(i)
        PROVE  i = at
    <3>1. i \in Nat
      BY <2>3
    <3>2. ~ (at < i)
      <4>. SUFFICES ASSUME at < i  PROVE FALSE
        OBVIOUS
      <4>1. at \in 1..(i - 1)
        BY <2>1, <3>1
      <4>. QED  BY <2>2, <2>4, <4>1
    <3>3. ~ (i < at)
      <4>. SUFFICES ASSUME i < at  PROVE FALSE
        OBVIOUS
      <4>1. i \in 1..(at - 1)
        <5>1. i \in 1..Len(archive.entries)
          BY <1>1, EntriesTyped DEF Unpacked
        <5>. QED  BY <2>1, <3>1, <5>1
      <4>. QED  BY <2>2, <2>4, <4>1
    <3>. QED  BY <2>1, <3>1, <3>2, <3>3
  <2>5. FirstBinary(archive) = CHOOSE i \in DOMAIN archive.entries : Found(i)
    BY DEF FirstBinary
  <2>. HIDE DEF Found
  <2>6. FirstBinary(archive) = at
    BY <2>1, <2>2, <2>4, <2>5
  <2>7. \A j \in 1..at : ~ EntryRefused(archive, j)
    <3>. SUFFICES ASSUME NEW j \in 1..at  PROVE ~ EntryRefused(archive, j)
      OBVIOUS
    <3>1. j = at \/ j \in 1..(at - 1)
      BY <2>1
    <3>. QED  BY <2>1, <3>1 DEF PassedOver
  <2>8. dest = [content |-> archive.entries[at].content,
                size |-> archive.entries[at].size,
                missing |-> 0, exec |-> TRUE]
    BY <2>1 DEF DestFile
  <2>. QED  BY <2>1, <2>6, <2>7, <2>8 DEF UnpackedIsFirstMatch, EntryRefused
<1>2. IInv => UnpackedIsFirstMatch
  BY <1>1 DEF IInv, UnpackedIsFirstMatch
<1>. QED  BY <1>2, IInvInvariant, PTL
=============================================================================
