--------------------------- MODULE EnvelopeProofs ---------------------------
(***************************************************************************)
(* Proofs about Envelope: what has been read (Prefix) is in order, listed, *)
(* unaltered and without repetition, and its signatures are verified; with *)
(* the completeness check at the end it is all that was sealed.  The other *)
(* way round, an archive that nothing has touched (Sealed) is taken entry  *)
(* by entry: the scanner's order is the builder's layout.                  *)
(***************************************************************************)
EXTENDS Envelope, SequenceTheorems, TLAPS

(* What the scan knows of the entries 1..at. *)
Prefix ==
    /\ at \in 0..Len(archive)
    /\ phase \in {"building", "carried"} => at = 0 /\ seen = {} /\ got = {}
    /\ manifest \cap {"manifest", "manifest_sig"} = {}
    /\ seen = {archive[i].path : i \in 1..at}
    /\ got = seen \cap Blob
    /\ \A i \in 1..at : i <= 4 => archive[i].path = FixedOrder[i]
    /\ \A i, j \in 1..at : archive[i].path = archive[j].path => i = j
    /\ at >= 2 => archive[1].intact /\ archive[2].intact /\ trust.manifest
    /\ \A i \in 3..at : archive[i].path \in manifest /\ archive[i].intact
    /\ \A i \in 5..at : trust.plan /\ Referenced(archive[i].path)
    /\ at >= 4 => trust.plan
    /\ phase = "accepted" => at = Len(archive) /\ Complete

(* The paths of FixedOrder by their places. *)
LEMMA FixedPaths ==
    /\ FixedOrder \in Seq(Path)
    /\ Len(FixedOrder) = 4
    /\ \A i \in 1..4 : FixedOrder[i] \in Path \ Blob
    /\ \A i, j \in 1..4 : FixedOrder[i] = FixedOrder[j] => i = j
    /\ FixedOrder[1] = "manifest" /\ FixedOrder[2] = "manifest_sig"
    /\ FixedOrder[3] = "plan" /\ FixedOrder[4] = "plan_sig"
  BY EnvelopeAssumption DEF FixedOrder, Path, Rotation

(* A layout is a sequence of paths. *)
LEMMA LayoutType ==
    ASSUME blobs \in Seq(Digest), NEW n \in 0..2
    PROVE  Layout(n) \in Seq(Path)
  <1> DEFINE names == [i \in DOMAIN blobs |-> blobs[i].blob]
  <1>1. names \in Seq(Path)
    <2>1. /\ Len(blobs) \in Nat
          /\ DOMAIN blobs = 1..Len(blobs)
          /\ \A i \in DOMAIN blobs : blobs[i] \in Digest
      BY LenProperties, ElementOfSeq
    <2>2. \A i \in DOMAIN blobs : blobs[i].blob \in Path
      BY <2>1 DEF Digest, Path
    <2>3. names \in [1..Len(blobs) -> Path]
      BY <2>1, <2>2
    <2>. QED  BY <2>1, <2>3, SeqDef
  <1>2. SubSeq(Rotation, 1, n) \in Seq(Path)
    <2>1. \A i \in 1..n : Rotation[i] \in Path
      BY DEF Path
    <2>. QED  BY <2>1, SubSeqProperties
  <1>3. FixedOrder \o names \in Seq(Path)
    BY <1>1, FixedPaths, ConcatProperties
  <1>. HIDE DEF names
  <1>4. (FixedOrder \o names) \o SubSeq(Rotation, 1, n) \in Seq(Path)
    BY <1>2, <1>3, ConcatProperties
  <1>. QED  BY <1>4 DEF Layout, names

(* Whatever the medium does to an archive, what is left is an archive. *)
LEMMA DamageType ==
    ASSUME TypeOK, Garble \/ Truncate \/ Misplace
    PROVE  archive' \in Seq(Entry)
  <1>1. /\ Len(archive) \in Nat
        /\ DOMAIN archive = 1..Len(archive)
        /\ \A i \in DOMAIN archive : archive[i] \in Entry
    BY LenProperties, ElementOfSeq DEF TypeOK
  <1>2. CASE Garble
    <2>1. PICK i \in DOMAIN archive :
              archive' = [archive EXCEPT ![i].intact = FALSE]
      BY <1>2 DEF Garble, Damage
    <2>2. [archive[i] EXCEPT !.intact = FALSE] \in Entry
      BY <1>1 DEF Entry
    <2>. QED  BY <1>1, <2>1, <2>2, ExceptSeq DEF TypeOK
  <1>3. CASE Truncate
    <2>1. PICK n \in 0..Len(archive) : archive' = SubSeq(archive, 1, n)
      BY <1>3 DEF Truncate, Damage
    <2>. QED  BY <1>1, <2>1, SubSeqProperties
  <1>4. CASE Misplace
    <2>1. ASSUME NEW i \in DOMAIN archive,
                 archive' = SubSeq(archive, 1, i - 1)
                              \o SubSeq(archive, i + 1, Len(archive))
          PROVE  archive' \in Seq(Entry)
      <3>1. /\ SubSeq(archive, 1, i - 1) \in Seq(Entry)
            /\ SubSeq(archive, i + 1, Len(archive)) \in Seq(Entry)
        BY <1>1, SubSeqProperties
      <3>. QED  BY <2>1, <3>1, ConcatProperties
    <2>2. ASSUME NEW entry \in Entry, archive' = Append(archive, entry)
          PROVE  archive' \in Seq(Entry)
      BY <2>2 DEF TypeOK
    <2>3. ASSUME NEW i \in DOMAIN archive, NEW j \in DOMAIN archive,
                 archive' = [archive EXCEPT ![i] = archive[j],
                                            ![j] = archive[i]]
          PROVE  archive' \in Seq(Entry)
      <3>1. /\ [archive EXCEPT ![i] = archive[j]] \in Seq(Entry)
            /\ Len([archive EXCEPT ![i] = archive[j]]) = Len(archive)
        BY <1>1, ExceptSeq DEF TypeOK
      <3>. QED  BY <1>1, <2>3, <3>1, ExceptSeq
    <2>. QED  BY <1>4, <2>1, <2>2, <2>3 DEF Misplace, Damage
  <1>. QED  BY <1>2, <1>3, <1>4

(* Every step keeps the types. *)
LEMMA Typing == TypeOK /\ [Next]_vars => TypeOK'
  <1>. SUFFICES ASSUME TypeOK, [Next]_vars PROVE TypeOK'
    OBVIOUS
  <1>. USE EnvelopeAssumption
  <1>1. ASSUME NEW digests \in SUBSET Digest, AddPlan(digests) PROVE TypeOK'
    BY <1>1 DEF TypeOK, AddPlan, scan
  <1>2. ASSUME NEW digest \in Digest, AddBlob(digest) PROVE TypeOK'
    BY <1>2 DEF TypeOK, AddBlob, scan
  <1>3. ASSUME NEW n \in 0..2, Finish(n) PROVE TypeOK'
    <2>. DEFINE layout == Layout(n)
    <2>1. layout \in Seq(Path)
      BY LayoutType DEF TypeOK
    <2>2. /\ Len(layout) \in Nat
          /\ DOMAIN layout = 1..Len(layout)
          /\ \A i \in DOMAIN layout : layout[i] \in Path
      BY <2>1, LenProperties, ElementOfSeq
    <2>. HIDE DEF layout
    <2>3. manifest' \in SUBSET Path
      BY <1>3, <2>2 DEF Finish, Elements, layout
    <2>4. archive' \in [1..Len(layout) -> Entry]
      BY <1>3, <2>2 DEF Finish, Entry, layout
    <2>5. archive' \in Seq(Entry)
      BY <2>2, <2>4, SeqDef
    <2>. QED  BY <1>3, <2>3, <2>5 DEF TypeOK, Finish, scan
  <1>4. CASE Garble \/ Truncate \/ Misplace
    <2>1. archive' \in Seq(Entry)
      BY <1>4, DamageType
    <2>2. /\ damage < MaxDamage /\ damage' = damage + 1
          /\ UNCHANGED <<phase, builder, scan>>
      BY <1>4 DEF Garble, Truncate, Misplace, Damage
    <2>. QED  BY <2>1, <2>2 DEF TypeOK, builder, scan
  <1>5. CASE StartScan
    BY <1>5 DEF TypeOK, StartScan, builder, scan
  <1>6. CASE ScanEntry
    <2>1. archive[at + 1] \in Entry
      BY <1>6, LenProperties, ElementOfSeq DEF TypeOK, ScanEntry
    <2>. QED  BY <1>6, <2>1 DEF TypeOK, ScanEntry, builder, Extracted, Entry
  <1>7. CASE Accept \/ Reject \/ Fail
    BY <1>7 DEF TypeOK, Accept, Reject, Fail, EndScan, builder, scan
  <1>8. CASE UNCHANGED vars
    BY <1>8 DEF TypeOK, vars, builder, scan
  <1>. QED
    BY <1>1, <1>2, <1>3, <1>4, <1>5, <1>6, <1>7, <1>8 DEF Next

(* Before the scan has read anything there is nothing to say of it. *)
LEMMA NothingRead ==
    ASSUME TypeOK', at' = 0, seen' = {}, got' = {}, phase' # "accepted",
           manifest' \cap {"manifest", "manifest_sig"} = {}
    PROVE  Prefix'
  <1>1. Len(archive') \in Nat
    BY LenProperties DEF TypeOK
  <1>. QED  BY <1>1 DEF Prefix

(* An entry that is admitted extends the prefix. *)
LEMMA ScanKeepsPrefix ==
    ASSUME TypeOK, Prefix, ScanEntry
    PROVE  Prefix'
  <1>. DEFINE entry == archive[at + 1]
  <1>1. /\ phase = "scanning" /\ phase' = phase
        /\ at < Len(archive) /\ at' = at + 1
        /\ seen' = seen \cup {entry.path}
        /\ got' = got \cup ({entry.path} \cap Blob)
        /\ UNCHANGED <<trust, plan, manifest, archive>>
    BY DEF ScanEntry, Extracted, builder
  <1>2. /\ InOrder(entry.path) /\ FirstSeen(entry.path) /\ Listed(entry)
        /\ Verified(entry) /\ Referenced(entry.path)
    BY DEF ScanEntry, Admissible
  <1>3. Len(archive) \in Nat /\ at \in Nat /\ 1..at' = 1..at \cup {at + 1}
    BY <1>1, LenProperties DEF TypeOK
  <1>4. at' \in 0..Len(archive')
    BY <1>1, <1>3
  <1>5. seen' = {archive'[i].path : i \in 1..at'}
    BY <1>1, <1>3 DEF Prefix
  <1>6. got' = seen' \cap Blob
    BY <1>1 DEF Prefix
  <1>7. \A i \in 1..at' : i <= 4 => archive'[i].path = FixedOrder[i]
    BY <1>1, <1>2, <1>3 DEF Prefix, InOrder
  <1>8. \A i \in 1..at : archive[i].path # entry.path
    <2>1. CASE at >= 4
      BY <1>2, <2>1 DEF Prefix, FirstSeen
    <2>2. CASE at < 4
      <3>1. entry.path = FixedOrder[at + 1]
        BY <1>2, <2>2 DEF InOrder
      <3>2. ASSUME NEW i \in 1..at
            PROVE  archive[i].path = FixedOrder[i] /\ i # at + 1
        BY <1>3, <2>2 DEF Prefix
      <3>. QED  BY <1>3, <2>2, <3>1, <3>2, FixedPaths
    <2>. QED  BY <1>3, <2>1, <2>2
  <1>9. \A i, j \in 1..at' : archive'[i].path = archive'[j].path => i = j
    BY <1>1, <1>3, <1>8 DEF Prefix
  <1>10. at' >= 2
           => archive'[1].intact /\ archive'[2].intact /\ trust'.manifest
    BY <1>1, <1>2, <1>3 DEF Prefix, Verified
  <1>11. \A i \in 3..at' : archive'[i].path \in manifest' /\ archive'[i].intact
    BY <1>1, <1>2, <1>3 DEF Prefix, Listed
  <1>12. \A i \in 5..at' : trust'.plan /\ Referenced(archive[i].path)
    BY <1>1, <1>2, <1>3 DEF Prefix
  <1>13. at' >= 4 => trust'.plan
    BY <1>1, <1>2, <1>3 DEF Prefix, Verified
  <1>. HIDE DEF entry
  <1>14. /\ phase' # "accepted"
         /\ manifest' \cap {"manifest", "manifest_sig"} = {}
         /\ ~ phase' \in {"building", "carried"}
    BY <1>1 DEF Prefix
  <1>15. \A i \in 5..at' : trust'.plan /\ Referenced(archive[i].path)'
    BY <1>1, <1>12 DEF Referenced
  <1>. QED
    BY <1>4, <1>5, <1>6, <1>7, <1>9, <1>10, <1>11, <1>13, <1>14, <1>15
       DEF Prefix

(* Every step keeps what the prefix says. *)
LEMMA PrefixStep == TypeOK /\ TypeOK' /\ Prefix /\ [Next]_vars => Prefix'
  <1>. SUFFICES ASSUME TypeOK, TypeOK', Prefix, [Next]_vars PROVE Prefix'
    OBVIOUS
  <1>1. ASSUME NEW digests \in SUBSET Digest, AddPlan(digests) PROVE Prefix'
    BY <1>1, NothingRead DEF Prefix, AddPlan, scan
  <1>2. ASSUME NEW digest \in Digest, AddBlob(digest) PROVE Prefix'
    BY <1>2, NothingRead DEF Prefix, AddBlob, scan
  <1>3. ASSUME NEW n \in 0..2, Finish(n) PROVE Prefix'
    BY <1>3, NothingRead DEF Prefix, Finish, scan
  <1>4. CASE Garble \/ Truncate \/ Misplace
    <2>1. phase = "carried" /\ UNCHANGED <<phase, builder, scan>>
      BY <1>4 DEF Garble, Truncate, Misplace, Damage
    <2>. QED  BY <2>1, NothingRead DEF Prefix, builder, scan
  <1>5. CASE StartScan
    BY <1>5, NothingRead DEF Prefix, StartScan, builder, scan
  <1>6. CASE ScanEntry
    BY <1>6, ScanKeepsPrefix
  <1>7. CASE Accept \/ Reject \/ Fail
    <2>1. /\ UNCHANGED <<builder, archive, damage, scan>>
          /\ ~ phase' \in {"building", "carried"}
          /\ phase' = "accepted" => at = Len(archive) /\ Complete
      BY <1>7 DEF Accept, Reject, Fail, EndScan
    <2>. QED  BY <2>1 DEF Prefix, Complete, Referenced, builder, scan
  <1>8. CASE UNCHANGED vars
    BY <1>8 DEF Prefix, Complete, Referenced, vars, builder, scan
  <1>. QED
    BY <1>1, <1>2, <1>3, <1>4, <1>5, <1>6, <1>7, <1>8 DEF Next

(* An entry that is intact has nothing but its path to tell. *)
LEMMA IntactEntry ==
    ASSUME NEW e \in Entry, e.intact
    PROVE  e = [path |-> e.path, intact |-> TRUE]
  <1>1. PICK p \in Path, b \in BOOLEAN : e = [path |-> p, intact |-> b]
    BY DEF Entry
  <1>2. e.path = p /\ e.intact = b
    BY <1>1
  <1>. QED  BY <1>1, <1>2

(* What is extracted is trusted, by the prefix alone. *)
LEMMA PrefixTrusted == TypeOK /\ Prefix => ExtractedIsTrusted
  <1>. SUFFICES ASSUME TypeOK, Prefix, NEW c \in got
                PROVE  /\ trust = [manifest |-> TRUE, plan |-> TRUE]
                       /\ \A i \in 1..4 : archive[i] = [path |-> FixedOrder[i],
                                                        intact |-> TRUE]
                       /\ \A b \in got :
                            /\ b \in manifest
                            /\ [path |-> b, intact |-> TRUE]
                                 \in Elements(archive)
                            /\ \E d \in plan : d.blob = b
    BY DEF ExtractedIsTrusted
  <1>1. /\ Len(archive) \in Nat /\ DOMAIN archive = 1..Len(archive)
        /\ \A i \in 1..Len(archive) : archive[i] \in Entry
        /\ at \in Nat /\ at <= Len(archive)
    BY LenProperties, ElementOfSeq DEF TypeOK, Prefix
  <1>2. ASSUME NEW b \in got
        PROVE  \E i \in 5..at : archive[i].path = b
    <2>1. PICK i \in 1..at : archive[i].path = b
      BY <1>2 DEF Prefix
    <2>2. b \in Blob
      BY <1>2 DEF Prefix
    <2>3. i > 4
      <3>1. i <= 4 => archive[i].path = FixedOrder[i]
        BY <2>1, Zenon DEF Prefix
      <3>2. i <= 4 => FixedOrder[i] \notin Blob
        BY FixedPaths
      <3>3. ~ (i <= 4)
        BY <2>1, <2>2, <3>1, <3>2, Zenon
      <3>. QED  BY <1>1, <3>3
    <2>. QED  BY <2>1, <2>3
  <1>3. at >= 5
    <2>1. PICK i \in 5..at : archive[i].path = c
      BY <1>2
    <2>. QED  BY <1>1, <2>1
  <1>4. trust = [manifest |-> TRUE, plan |-> TRUE]
    <2>1. trust.manifest /\ trust.plan
      BY <1>3 DEF Prefix
    <2>. QED  BY <2>1 DEF TypeOK
  <1>5. ASSUME NEW i \in 1..4
        PROVE  archive[i] = [path |-> FixedOrder[i], intact |-> TRUE]
    <2>1. archive[i].path = FixedOrder[i] /\ archive[i] \in Entry
      <3>1. i \in 1..at /\ i <= 4 /\ i \in 1..Len(archive)
        BY <1>1, <1>3
      <3>. QED  BY <1>1, <3>1, Zenon DEF Prefix
    <2>2. archive[i].intact
      <3>1. archive[1].intact /\ archive[2].intact
        <4>1. at >= 2
          BY <1>1, <1>3
        <4>. QED  BY <4>1, Zenon DEF Prefix
      <3>2. ASSUME NEW k \in 3..at PROVE archive[k].intact
        BY Zenon DEF Prefix
      <3>3. i = 1 \/ i = 2 \/ i \in 3..at
        BY <1>1, <1>3
      <3>. QED  BY <3>1, <3>2, <3>3, Zenon
    <2>. QED  BY <2>1, <2>2, IntactEntry
  <1>6. ASSUME NEW b \in got
        PROVE  /\ b \in manifest
               /\ [path |-> b, intact |-> TRUE] \in Elements(archive)
               /\ \E d \in plan : d.blob = b
    <2>1. PICK i \in 5..at : archive[i].path = b
      BY <1>2
    <2>2. /\ Referenced(archive[i].path) /\ archive[i] \in Entry
          /\ i \in 3..at /\ i \in DOMAIN archive
      <3>1. i \in 3..at /\ i \in 1..Len(archive) /\ i \in DOMAIN archive
        BY <1>1
      <3>. QED  BY <1>1, <3>1, Zenon DEF Prefix
    <2>3. archive[i].path \in manifest /\ archive[i].intact
      BY <2>2, Zenon DEF Prefix
    <2>4. archive[i] = [path |-> b, intact |-> TRUE]
      BY <2>1, <2>2, <2>3, IntactEntry
    <2>5. \E d \in plan : d.blob = b
      BY <1>6, <2>1, <2>2 DEF Referenced, Prefix
    <2>. QED  BY <2>1, <2>2, <2>3, <2>4, <2>5 DEF Elements
  <1>. QED  BY <1>4, <1>5, <1>6

(* At the end of the archive the prefix is all of it. *)
LEMMA PrefixSealed == TypeOK /\ Prefix => AcceptedIsSealed
  <1>. SUFFICES ASSUME TypeOK, Prefix, phase = "accepted"
                PROVE  /\ {e.path : e \in Elements(archive)}
                            = manifest \cup {"manifest", "manifest_sig"}
                       /\ \A i, j \in DOMAIN archive :
                            archive[i].path = archive[j].path => i = j
                       /\ \A e \in Elements(archive) : e.intact
                       /\ got = manifest \cap Blob
    BY DEF AcceptedIsSealed
  <1>1. /\ at = Len(archive) /\ at \in Nat /\ at >= 4
        /\ manifest \subseteq seen /\ DOMAIN archive = 1..at
    BY LenProperties DEF TypeOK, Prefix, Complete
  <1>2. {e.path : e \in Elements(archive)} = seen
    BY <1>1 DEF Elements, Prefix
  <1>3. archive[1].path = "manifest" /\ archive[2].path = "manifest_sig"
    BY <1>1, FixedPaths DEF Prefix
  <1>4. seen = manifest \cup {"manifest", "manifest_sig"}
    <2>1. seen \subseteq manifest \cup {archive[1].path, archive[2].path}
      BY <1>1 DEF Prefix
    <2>2. {archive[1].path, archive[2].path} \subseteq seen
      BY <1>1 DEF Prefix
    <2>. QED  BY <1>1, <1>3, <2>1, <2>2
  <1>5. \A i \in DOMAIN archive : archive[i].intact
    <2>1. ASSUME NEW i \in 1..at PROVE i \in {1, 2} \/ i \in 3..at
      BY <1>1
    <2>. QED  BY <1>1, <2>1 DEF Prefix
  <1>6. got = manifest \cap Blob
    BY <1>4, EnvelopeAssumption DEF Prefix
  <1>. QED  BY <1>1, <1>2, <1>4, <1>5, <1>6 DEF Prefix, Elements

(* The types and the prefix always hold. *)
LEMMA PrefixAlways == Spec => [](TypeOK /\ Prefix)
  <1>1. Init => TypeOK
    <2>1. << >> \in Seq(Digest) /\ << >> \in Seq(Entry)
      BY EmptySeq
    <2>2. 0 \in 0..MaxDamage /\ 0 \in Nat
      BY EnvelopeAssumption
    <2>. QED  BY <2>1, <2>2, Zenon DEF Init, TypeOK
  <1>2. Init => Prefix
    BY EmptySeq DEF Init, Prefix
  <1>3. TypeOK /\ Prefix /\ [Next]_vars => TypeOK' /\ Prefix'
    BY Typing, PrefixStep
  <1>. QED  BY <1>1, <1>2, <1>3, PTL DEF Spec

(* TypeOK of Envelope, for any blobs, limits and number of faults. *)
THEOREM TypeCorrect == Spec => []TypeOK
  BY PrefixAlways, PTL

(* What scan_envelope_to_dir accepts is the whole of what was sealed, each *)
(* entry once and unaltered, for any blobs, limits and number of faults.   *)
THEOREM AcceptedAlwaysSealed == Spec => []AcceptedIsSealed
  BY PrefixAlways, PrefixSealed, PTL

(* At every moment of the scan the blobs counted as good are unaltered and *)
(* vouched for by two verified signatures.                                 *)
THEOREM ExtractedAlwaysTrusted == Spec => []ExtractedIsTrusted
  BY PrefixAlways, PrefixTrusted, PTL

----------------------------------------------------------------------------
(* What the builder sealed the scanner takes. *)

(* Where the elements of two sequences are when they are joined. *)
LEMMA ConcatPlaces ==
    ASSUME NEW S, NEW s \in Seq(S), NEW t \in Seq(S)
    PROVE  /\ s \o t \in Seq(S)
           /\ Len(s \o t) = Len(s) + Len(t)
           /\ \A i \in 1..Len(s) : (s \o t)[i] = s[i]
           /\ \A k \in 1..Len(t) : (s \o t)[Len(s) + k] = t[k]
  <1>1. Len(s) \in Nat /\ Len(t) \in Nat
    BY LenProperties
  <1>2. /\ s \o t \in Seq(S) /\ Len(s \o t) = Len(s) + Len(t)
        /\ \A i \in 1..(Len(s) + Len(t)) :
              (s \o t)[i] = IF i <= Len(s) THEN s[i] ELSE t[i - Len(s)]
    BY ConcatProperties
  <1>3. ASSUME NEW i \in 1..Len(s) PROVE (s \o t)[i] = s[i]
    BY <1>1, <1>2
  <1>4. ASSUME NEW k \in 1..Len(t) PROVE (s \o t)[Len(s) + k] = t[k]
    <2>1. /\ Len(s) + k \in 1..(Len(s) + Len(t))
          /\ ~ (Len(s) + k <= Len(s)) /\ (Len(s) + k) - Len(s) = k
      BY <1>1
    <2>. QED  BY <1>2, <2>1
  <1>. QED  BY <1>2, <1>3, <1>4

(* The path at place i of a layout, by the part it is in. *)
LEMMA LayoutPlaces ==
    ASSUME blobs \in Seq(Digest), NEW n \in 0..2
    PROVE  /\ Len(blobs) \in Nat
           /\ DOMAIN Layout(n) = 1..(4 + Len(blobs) + n)
           /\ \A i \in 1..4 : Layout(n)[i] = FixedOrder[i]
           /\ \A k \in 1..Len(blobs) :
                 /\ Layout(n)[4 + k] = blobs[k].blob
                 /\ blobs[k] \in Digest
           /\ \A r \in 1..n : Layout(n)[4 + Len(blobs) + r] = Rotation[r]
  <1>. DEFINE names == [i \in DOMAIN blobs |-> blobs[i].blob]
              tail == SubSeq(Rotation, 1, n)
              K == Len(blobs)
  <1>1. /\ K \in Nat /\ DOMAIN blobs = 1..K
        /\ \A i \in DOMAIN blobs : blobs[i] \in Digest
    BY LenProperties, ElementOfSeq
  <1>2. \A i \in DOMAIN blobs : blobs[i].blob \in Path
    BY <1>1 DEF Digest, Path
  <1>3. names \in Seq(Path) /\ Len(names) = K
        /\ \A k \in 1..K : names[k] = blobs[k].blob
    <2>1. names \in [1..K -> Path]
      BY <1>1, <1>2
    <2>2. names \in Seq(Path)
      BY <1>1, <2>1, SeqDef
    <2>3. Len(names) = K
      BY <1>1, <2>2, LenProperties
    <2>. QED  BY <1>1, <2>2, <2>3
  <1>4. /\ Rotation \in Seq(Path) /\ Len(Rotation) = 2
        /\ tail \in Seq(Path) /\ Len(tail) = n
        /\ \A r \in 1..n : tail[r] = Rotation[r]
    <2>1. Rotation \in Seq(Path) /\ Len(Rotation) = 2
      BY DEF Rotation, Path
    <2>. QED  BY <2>1, SubSeqProperties
  <1>. HIDE DEF names, tail
  <1>. DEFINE head == FixedOrder \o names
              whole == head \o tail
  <1>5. /\ head \in Seq(Path) /\ Len(head) = 4 + K
        /\ \A i \in 1..4 : head[i] = FixedOrder[i]
        /\ \A k \in 1..K : head[4 + k] = names[k]
    <2>1. /\ head \in Seq(Path) /\ Len(head) = Len(FixedOrder) + Len(names)
          /\ \A i \in 1..Len(FixedOrder) : head[i] = FixedOrder[i]
          /\ \A k \in 1..Len(names) : head[Len(FixedOrder) + k] = names[k]
      <3>1. FixedOrder \in Seq(Path) /\ names \in Seq(Path)
        BY <1>3, FixedPaths
      <3>. QED  BY <3>1, ConcatPlaces
    <2>. HIDE DEF head
    <2>. QED  BY <1>3, <2>1, FixedPaths, Zenon
  <1>. HIDE DEF head
  <1>6. /\ whole \in Seq(Path) /\ Len(whole) = 4 + K + n
        /\ \A i \in 1..(4 + K) : whole[i] = head[i]
        /\ \A r \in 1..n : whole[4 + K + r] = tail[r]
    <2>1. /\ whole \in Seq(Path) /\ Len(whole) = Len(head) + Len(tail)
          /\ \A i \in 1..Len(head) : whole[i] = head[i]
          /\ \A r \in 1..Len(tail) : whole[Len(head) + r] = tail[r]
      <3>1. head \in Seq(Path) /\ tail \in Seq(Path)
        BY <1>4, <1>5
      <3>. QED  BY <3>1, ConcatPlaces
    <2>. HIDE DEF whole
    <2>. QED  BY <1>4, <1>5, <2>1, Zenon
  <1>7. Layout(n) = whole
    BY DEF Layout, names, tail, head
  <1>. HIDE DEF whole
  <1>8. DOMAIN Layout(n) = 1..(4 + K + n)
    BY <1>6, <1>7, LenProperties
  <1>9. \A i \in 1..4 : Layout(n)[i] = FixedOrder[i]
    BY <1>1, <1>5, <1>6, <1>7
  <1>10. \A k \in 1..K : Layout(n)[4 + k] = blobs[k].blob
    BY <1>1, <1>3, <1>5, <1>6, <1>7
  <1>11. \A r \in 1..n : Layout(n)[4 + K + r] = Rotation[r]
    BY <1>4, <1>6, <1>7
  <1>. QED  BY <1>1, <1>8, <1>9, <1>10, <1>11

(* Without a blob twice, no path is twice in a layout. *)
LEMMA LayoutInjective ==
    ASSUME blobs \in Seq(Digest), NEW n \in 0..2, Canonical,
           NEW i \in DOMAIN Layout(n), NEW j \in DOMAIN Layout(n), i < j
    PROVE  Layout(n)[i] # Layout(n)[j]
  <1>. DEFINE K == Len(blobs)
  <1>1. /\ K \in Nat /\ DOMAIN blobs = 1..K
        /\ i \in 1..(4 + K + n) /\ j \in 1..(4 + K + n)
    BY LayoutPlaces, LenProperties
  <1>2. /\ Rotation[1] = "rotation" /\ Rotation[2] = "rotation_sig"
        /\ \A r \in 1..2 : Rotation[r] \notin Blob
        /\ \A r \in 1..2, k \in 1..4 : Rotation[r] # FixedOrder[k]
    BY EnvelopeAssumption DEF Rotation, FixedOrder
  <1>3. \A m \in 1..K : Layout(n)[4 + m] \in Blob
    BY LayoutPlaces DEF Digest
  <1>4. CASE j <= 4
    <2>1. i \in 1..4 /\ j \in 1..4 /\ i # j
      BY <1>1, <1>4
    <2>2. Layout(n)[i] = FixedOrder[i] /\ Layout(n)[j] = FixedOrder[j]
      BY <2>1, LayoutPlaces
    <2>. QED  BY <2>1, <2>2, FixedPaths
  <1>5. CASE 4 < j /\ j <= 4 + K
    <2>1. PICK m \in 1..K : j = 4 + m
      <3>1. j - 4 \in 1..K /\ j = 4 + (j - 4)
        BY <1>1, <1>5
      <3>. QED  BY <3>1
    <2>2. CASE i <= 4
      <3>1. i \in 1..4
        BY <1>1, <2>2
      <3>2. Layout(n)[i] = FixedOrder[i] /\ FixedOrder[i] \notin Blob
        BY <3>1, LayoutPlaces, FixedPaths
      <3>. QED  BY <1>3, <2>1, <3>2
    <2>3. CASE i > 4
      <3>1. PICK k \in 1..K : i = 4 + k
        <4>1. i - 4 \in 1..K /\ i = 4 + (i - 4)
          BY <1>1, <1>5, <2>3
        <4>. QED  BY <4>1
      <3>2. k # m /\ blobs[k].blob # blobs[m].blob
        BY <1>1, <2>1, <3>1 DEF Canonical
      <3>. QED  BY <2>1, <3>1, <3>2, LayoutPlaces
    <2>. QED  BY <1>1, <2>2, <2>3
  <1>6. CASE j > 4 + K
    <2>1. PICK r \in 1..n : j = 4 + K + r
      <3>1. j - (4 + K) \in 1..n /\ j = 4 + K + (j - (4 + K))
        BY <1>1, <1>6
      <3>. QED  BY <3>1
    <2>2. Layout(n)[j] = Rotation[r] /\ r \in 1..2
      BY <2>1, LayoutPlaces
    <2>3. CASE i <= 4
      <3>1. i \in 1..4
        BY <1>1, <2>3
      <3>2. Layout(n)[i] = FixedOrder[i]
        BY <3>1, LayoutPlaces
      <3>. QED  BY <1>2, <2>2, <3>1, <3>2
    <2>4. CASE 4 < i /\ i <= 4 + K
      <3>1. i - 4 \in 1..K /\ i = 4 + (i - 4)
        BY <1>1, <2>4
      <3>2. Layout(n)[i] \in Blob
        BY <1>3, <3>1
      <3>. QED  BY <1>2, <2>2, <3>2
    <2>5. CASE i > 4 + K
      <3>1. r = 2 /\ i = 4 + K + 1 /\ 1 \in 1..n
        BY <1>1, <2>1, <2>5
      <3>2. Layout(n)[i] = Rotation[1]
        BY <3>1, LayoutPlaces
      <3>. QED  BY <1>2, <2>2, <3>1, <3>2
    <2>. QED  BY <1>1, <2>3, <2>4, <2>5
  <1>. QED  BY <1>1, <1>4, <1>5, <1>6

SealedAs(n) ==
    /\ archive = [i \in DOMAIN Layout(n) |->
                    [path |-> Layout(n)[i], intact |-> TRUE]]
    /\ manifest = Elements(Layout(n)) \ {"manifest", "manifest_sig"}

(* Until the medium damages it the archive is the one that was built. *)
Sealed == phase # "building" /\ damage = 0 => \E n \in 0..2 : SealedAs(n)

(* The builder seals one of the layouts, and only damage changes it after. *)
LEMMA SealedStep == TypeOK /\ Sealed /\ [Next]_vars => Sealed'
  <1>. SUFFICES ASSUME TypeOK, Sealed, [Next]_vars PROVE Sealed'
    OBVIOUS
  <1>1. ASSUME phase' = "building" \/ damage' # 0 PROVE Sealed'
    BY <1>1 DEF Sealed
  <1>2. ASSUME phase # "building", UNCHANGED <<builder, archive, damage>>
        PROVE  Sealed'
    BY <1>2 DEF Sealed, SealedAs, Layout, builder
  <1>3. ASSUME NEW n \in 0..2, Finish(n) PROVE Sealed'
    <2>1. /\ UNCHANGED blobs
          /\ manifest' = Elements(Layout(n)) \ {"manifest", "manifest_sig"}
          /\ archive' = [i \in DOMAIN Layout(n) |->
                           [path |-> Layout(n)[i], intact |-> TRUE]]
      BY <1>3 DEF Finish
    <2>2. SealedAs(n)'
      BY <2>1 DEF SealedAs, Layout
    <2>. QED  BY <2>2 DEF Sealed
  <1>4. CASE Garble \/ Truncate \/ Misplace
    <2>1. damage' = damage + 1 /\ damage \in Nat
      BY <1>4, EnvelopeAssumption
      DEF Garble, Truncate, Misplace, Damage, TypeOK
    <2>. QED  BY <1>1, <2>1
  <1>5. CASE UNCHANGED vars
    <2>1. UNCHANGED <<phase, builder, archive, damage>>
      BY <1>5 DEF vars
    <2>. QED  BY <1>1, <1>2, <2>1
  <1>. QED
    BY <1>1, <1>2, <1>3, <1>4, <1>5
    DEF Next, AddPlan, AddBlob, StartScan, ScanEntry, Accept, Reject, Fail,
        EndScan

(* What a digest in lower case is, field by field. *)
LEMMA LowerCase ==
    ASSUME NEW d \in Digest
    PROVE  [d EXCEPT !.upper = FALSE] = [blob |-> d.blob, upper |-> FALSE]
  <1>. DEFINE e == [d EXCEPT !.upper = FALSE]
  <1>1. e \in Digest
    BY DEF Digest
  <1>2. e.blob = d.blob /\ ~ e.upper
    BY DEF Digest
  <1>. HIDE DEF e
  <1>3. PICK b \in Blob, u \in BOOLEAN : e = [blob |-> b, upper |-> u]
    BY <1>1 DEF Digest
  <1>4. e.blob = b /\ e.upper = u
    BY <1>3
  <1>5. u = FALSE
    BY <1>2, <1>4
  <1>6. e = [blob |-> d.blob, upper |-> FALSE]
    BY <1>2, <1>3, <1>4, <1>5
  <1>. QED  BY <1>6 DEF e

(* Nothing that RejectedForCause would accept as a cause. *)
Impeccable ==
    /\ damage = 0
    /\ trust = [manifest |-> TRUE, plan |-> TRUE]
    /\ ~ (Len(archive) > MaxEntries)
    /\ Canonical

(* The next entry of an impeccable archive is admitted. *)
LEMMA NextAdmissible ==
    ASSUME TypeOK, Prefix, NEW n \in 0..2, SealedAs(n), Impeccable,
           at < Len(archive)
    PROVE  Admissible(archive[at + 1])
  <1>. DEFINE K == Len(blobs)
              layout == Layout(n)
              entry == archive[at + 1]
  <1>1. /\ K \in Nat /\ at \in Nat /\ Len(archive) \in Nat
        /\ DOMAIN layout = 1..(4 + K + n)
        /\ DOMAIN archive = DOMAIN layout /\ Len(archive) = 4 + K + n
        /\ blobs \in Seq(Digest)
    <2>1. K \in Nat /\ DOMAIN layout = 1..(4 + K + n)
      BY LayoutPlaces DEF TypeOK
    <2>2. DOMAIN archive = DOMAIN layout
      BY DEF SealedAs
    <2>. QED  BY <2>1, <2>2, LenProperties DEF TypeOK
  <1>. HIDE DEF layout
  <1>2. at + 1 \in 1..(4 + K + n) /\ 1..at \subseteq 1..(4 + K + n)
    BY <1>1
  <1>3. \A i \in 1..(4 + K + n) :
           archive[i].path = layout[i] /\ archive[i].intact
    BY <1>1 DEF SealedAs, layout
  <1>4. /\ \A i \in 1..4 : layout[i] = FixedOrder[i]
        /\ \A k \in 1..K : /\ layout[4 + k] = blobs[k].blob
                            /\ blobs[k] \in Digest
        /\ \A r \in 1..n : layout[4 + K + r] = Rotation[r]
    BY <1>1, LayoutPlaces DEF layout
  <1>5. \A i, j \in 1..(4 + K + n) : i < j => layout[i] # layout[j]
    BY <1>1, LayoutInjective DEF layout, Impeccable
  <1>6. seen = {layout[i] : i \in 1..at}
    <2>1. seen = {archive[i].path : i \in 1..at}
      BY DEF Prefix
    <2>. QED  BY <1>2, <1>3, <2>1
  <1>7. /\ entry.path = layout[at + 1] /\ entry.intact
        /\ archive[1].intact
    BY <1>1, <1>2, <1>3
  <1>8. layout[at + 1] \notin seen
    BY <1>1, <1>2, <1>5, <1>6
  <1>9. at >= 2 => layout[at + 1] \in manifest
    <2>1. ASSUME at >= 2 PROVE layout[at + 1] \in manifest
      <3>1. layout[at + 1] \in Elements(layout)
        BY <1>1, <1>2 DEF Elements
      <3>2. layout[1] = "manifest" /\ layout[2] = "manifest_sig"
        BY <1>4, FixedPaths
      <3>3. layout[at + 1] # layout[1] /\ layout[at + 1] # layout[2]
        BY <1>1, <1>2, <1>5, <2>1
      <3>. QED  BY <3>1, <3>2, <3>3 DEF SealedAs, layout
    <2>. QED  BY <2>1
  <1>10. /\ Rotation[1] = "rotation" /\ Rotation[2] = "rotation_sig"
         /\ \A r \in 1..2 : Rotation[r] \notin Blob
         /\ \A r \in 1..2, i \in 1..4 : Rotation[r] # FixedOrder[i]
    BY EnvelopeAssumption DEF Rotation, FixedOrder
  <1>11. InOrder(entry.path) /\ Referenced(entry.path)
    <2>1. CASE at < 4
      <3>1. at + 1 \in 1..4
        BY <1>1, <2>1
      <3>2. /\ layout[at + 1] = FixedOrder[at + 1]
            /\ layout[at + 1] \notin Blob
        BY <1>4, <3>1, FixedPaths
      <3>. QED  BY <1>7, <2>1, <3>2 DEF InOrder, Referenced
    <2>2. CASE at >= 4 /\ at < 4 + K
      <3>1. /\ at - 3 \in 1..K /\ at + 1 = 4 + (at - 3)
        BY <1>1, <2>2
      <3>2. PICK k \in 1..K : at + 1 = 4 + k
        BY <3>1
      <3>3. layout[at + 1] = blobs[k].blob /\ blobs[k] \in Digest
        BY <1>4, <3>2
      <3>4. layout[at + 1] \in Blob
        BY <3>3 DEF Digest
      <3>5. "rotation" \notin seen
        <4>1. ASSUME NEW i \in 1..at PROVE layout[i] # "rotation"
          <5>1. CASE i <= 4
            <6>1. i \in 1..4
              BY <5>1
            <6>. QED  BY <1>4, <1>10, <6>1
          <5>2. CASE i > 4
            <6>1. i - 4 \in 1..K /\ i = 4 + (i - 4)
              BY <1>1, <2>2, <5>2
            <6>2. layout[i] \in Blob
              BY <1>4, <6>1 DEF Digest
            <6>. QED  BY <1>10, <6>2
          <5>. QED  BY <1>1, <5>1, <5>2
        <4>. QED  BY <1>6, <4>1
      <3>6. InOrder(entry.path)
        BY <1>1, <1>7, <2>2, <3>4, <3>5 DEF InOrder
      <3>7. [blob |-> blobs[k].blob, upper |-> FALSE] \in plan
        <4>1. blobs[k] \in Elements(blobs)
          BY <1>1, LenProperties DEF Elements
        <4>2. [blobs[k] EXCEPT !.upper = FALSE] \in plan
          BY <4>1 DEF Impeccable, Canonical
        <4>. QED  BY <3>3, <4>2, LowerCase
      <3>8. Referenced(entry.path)
        BY <1>7, <3>3, <3>7 DEF Referenced
      <3>. QED  BY <3>6, <3>8
    <2>3. CASE at >= 4 + K
      <3>1. PICK r \in 1..n : at + 1 = 4 + K + r
        <4>1. at - (3 + K) \in 1..n /\ at + 1 = 4 + K + (at - (3 + K))
          BY <1>1, <2>3
        <4>. QED  BY <4>1
      <3>2. layout[at + 1] = Rotation[r] /\ r \in 1..2
        BY <1>4, <3>1
      <3>3. r = 2 => "rotation" \in seen
        <4>1. ASSUME r = 2 PROVE "rotation" \in seen
          <5>1. 4 + K + 1 \in 1..at /\ 1 \in 1..n
            BY <1>1, <3>1, <4>1
          <5>2. layout[4 + K + 1] = "rotation"
            BY <1>4, <1>10, <5>1
          <5>. QED  BY <1>6, <5>1, <5>2
        <4>. QED  BY <4>1
      <3>. QED
        BY <1>1, <1>7, <1>10, <2>3, <3>2, <3>3 DEF InOrder, Referenced
    <2>. QED  BY <1>1, <2>1, <2>2, <2>3
  <1>12. Within
    BY <1>1, EnvelopeAssumption DEF Within, Impeccable
  <1>13. FirstSeen(entry.path) /\ Listed(entry)
    BY <1>7, <1>8, <1>9, Zenon DEF FirstSeen, Listed
  <1>14. Verified(entry)
    <2>1. trust.manifest /\ trust.plan
      BY Zenon DEF Impeccable
    <2>. QED  BY <1>7, <2>1, Zenon DEF Verified
  <1>. QED  BY <1>11, <1>12, <1>13, <1>14, Zenon DEF Admissible

(* An impeccable archive is not rejected. *)
LEMMA NotRejected ==
    ASSUME TypeOK, Prefix, Sealed, Impeccable, Reject
    PROVE  FALSE
  <1>1. phase = "scanning"
    BY DEF Reject, EndScan
  <1>2. PICK n \in 0..2 : SealedAs(n)
    BY <1>1 DEF Sealed, Impeccable
  <1>3. at \in Nat /\ Len(archive) \in Nat /\ at <= Len(archive)
    BY LenProperties DEF Prefix, TypeOK
  <1>4. CASE at < Len(archive)
    <2>1. Admissible(archive[at + 1])
      BY <1>2, <1>4, NextAdmissible
    <2>. QED  BY <1>3, <1>4, <2>1 DEF Reject
  <1>5. CASE at = Len(archive)
    <2>1. /\ DOMAIN archive = 1..at /\ DOMAIN archive = DOMAIN Layout(n)
          /\ \A i \in DOMAIN Layout(n) : archive[i].path = Layout(n)[i]
      BY <1>2, <1>5, LenProperties DEF SealedAs, TypeOK
    <2>2. at >= 4
      BY <1>3, <2>1, LayoutPlaces DEF TypeOK
    <2>3. seen = {archive[i].path : i \in 1..at}
      BY DEF Prefix
    <2>4. Elements(Layout(n)) \subseteq seen
      BY <2>1, <2>3 DEF Elements
    <2>5. Complete
      BY <1>2, <2>2, <2>4 DEF Complete, SealedAs
    <2>. QED  BY <1>5, <2>5 DEF Reject
  <1>. QED  BY <1>3, <1>4, <1>5

(* A step that rejects has found one of the four causes. *)
LEMMA CauseStep ==
    /\ TypeOK /\ Prefix /\ Sealed /\ RejectedForCause /\ [Next]_vars
    => RejectedForCause'
  <1>. SUFFICES ASSUME TypeOK, Prefix, Sealed, RejectedForCause, [Next]_vars
                PROVE  RejectedForCause'
    OBVIOUS
  <1>1. CASE Reject
    <2>1. ~ Impeccable
      BY <1>1, NotRejected
    <2>2. damage \in Nat
      BY DEF TypeOK
    <2>3. UNCHANGED <<builder, archive, damage>>
      BY <1>1 DEF Reject, EndScan
    <2>. QED
      BY <2>1, <2>2, <2>3 DEF RejectedForCause, Impeccable, Canonical, builder
  <1>2. CASE UNCHANGED vars
    BY <1>2 DEF RejectedForCause, Canonical, vars, builder
  <1>3. ASSUME phase' # "rejected" PROVE RejectedForCause'
    BY <1>3 DEF RejectedForCause
  <1>. QED
    BY <1>1, <1>2, <1>3
    DEF Next, AddPlan, AddBlob, Finish, Garble, Truncate, Misplace, Damage,
        StartScan, ScanEntry, Accept, Fail, EndScan

(* What EnvelopeBuilder seals scan_envelope_to_dir takes: a rejected       *)
(* envelope was damaged, signed by a stranger, too long, or its plan does  *)
(* not name each of its blobs once and in lower case.                      *)
THEOREM AlwaysRejectedForCause == Spec => []RejectedForCause
  <1>1. Init => Sealed /\ RejectedForCause
    BY DEF Init, Sealed, RejectedForCause
  <1>. QED  BY <1>1, PrefixAlways, SealedStep, CauseStep, PTL DEF Spec
=============================================================================
