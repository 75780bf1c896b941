-------------------------- MODULE DurabilityProofs --------------------------
(***************************************************************************)
(* What Durability promises, for any number of commits and power losses.   *)
(*                                                                         *)
(* The inductive invariant has two layers.  FilesInv is about the plan's   *)
(* three files: whatever a power loss may leave in maybe has its bytes     *)
(* synced, and while a begin is on its way the marker is still absent, so  *)
(* no loss can leave a marker beside the documents of another begin.       *)
(* Over it, Told says that what the log or a caller was told is reached    *)
(* by every marker a loss may leave, and Lines that a reported event is    *)
(* two synced pieces of the log with nothing of a reported one before them *)
(* on their line.  The last needs the order of the pieces (Ordered): after *)
(* the newline of a commit there is no other piece of it.                  *)
(***************************************************************************)
EXTENDS Durability, SequenceTheorems, TLAPS

Marker == "state.json"
Document == {"plan.json", "plan.json.sig"}
SigAndMarker == <<"plan.json.sig", "state.json">>
MarkerOnly == <<"state.json">>
FileSteps == {"temp", "sync_all", "persist", "fsync_parent"}
LogSteps == {"line", "newline", "sync_data"}

(* Both documents are those of begin b, whatever a power loss undoes. *)
Backed(b) ==
    \A d \in Document : \A w \in maybe[d] : w # None /\ w.born = b

Files ==
    /\ \A f \in File : seen[f] \in maybe[f]
    /\ \A f \in File : seen[f] = None => maybe[f] = {None}
    /\ \A f \in File : \A v \in maybe[f] :
          v # None => <<f, v>> \in synced /\ v.by <= commits
    /\ \A v \in maybe[Marker] : v # None => Backed(v.born)

(* How far a begin or a transition has come, and what that has settled. *)
JobSound ==
    job # None =>
        /\ job.by = commits
        /\ \/ /\ job.step \in FileSteps
              /\ job.left \in {NewPlanFiles, SigAndMarker, MarkerOnly}
           \/ job.step \in LogSteps /\ job.left = << >>
        /\ job.step = "persist" => <<Target, Content>> \in synced
        /\ job.step = "fsync_parent" => seen[Target] = Content
        /\ job.left = NewPlanFiles => maybe[Marker] = {None}
        /\ job.left = SigAndMarker =>
              maybe[Marker] = {None} /\ maybe["plan.json"] = {Content}
        /\ job.left = MarkerOnly => Backed(job.born)
        /\ job.left = << >> => maybe[Marker] = {Content}

FilesInv == TypeOK /\ Files /\ JobSound

(* The lists of the files a call has left to write, one by one. *)
LEMMA FileLists ==
  /\ Head(NewPlanFiles) = "plan.json" /\ Len(NewPlanFiles) = 3
  /\ Tail(NewPlanFiles) = SigAndMarker
  /\ Head(SigAndMarker) = "plan.json.sig" /\ Len(SigAndMarker) = 2
  /\ Tail(SigAndMarker) = MarkerOnly
  /\ Head(MarkerOnly) = "state.json" /\ Len(MarkerOnly) = 1
  /\ Tail(MarkerOnly) = << >> /\ Len(<< >>) = 0
  /\ NewPlanFiles \in Seq(File) /\ SigAndMarker \in Seq(File)
  /\ MarkerOnly \in Seq(File) /\ << >> \in Seq(File)
  BY DEF NewPlanFiles, SigAndMarker, MarkerOnly, File

(* They differ, in their length. *)
LEMMA ListsDiffer ==
  /\ NewPlanFiles \notin {SigAndMarker, MarkerOnly, << >>}
  /\ SigAndMarker \notin {NewPlanFiles, MarkerOnly, << >>}
  /\ MarkerOnly \notin {NewPlanFiles, SigAndMarker, << >>}
<1>1. Len(NewPlanFiles) # Len(SigAndMarker)
  BY FileLists
<1>2. Len(NewPlanFiles) # Len(MarkerOnly)
  BY FileLists
<1>3. Len(SigAndMarker) # Len(MarkerOnly)
  BY FileLists
<1>4. /\ Len(NewPlanFiles) # Len(<< >>)
      /\ Len(SigAndMarker) # Len(<< >>)
      /\ Len(MarkerOnly) # Len(<< >>)
  BY FileLists
<1> QED BY <1>1, <1>2, <1>3, <1>4, Zenon

(* The files are sound at the start, and every action keeps them so. *)
LEMMA FilesInit == Init => FilesInv
<1>1. << >> \in Seq(Piece) /\ Len(<< >>) = 0
  BY EmptySeq
<1> QED
  BY <1>1, DurabilityAssumption
  DEF Init, FilesInv, TypeOK, Files, JobSound, Entry, File, Marker

(* A begin or a transition starts: nothing on the disk changes. *)
LEMMA StartKeepsFiles ==
  ASSUME FilesInv, Begin \/ Transition
  PROVE  FilesInv'
<1> USE DurabilityAssumption
<1>1. commits + 1 \in Commit /\ commits' = commits + 1
  BY DEF Begin, Transition, FilesInv, TypeOK, Commit
<1>2. /\ UNCHANGED <<seen, maybe, synced, logFile, log, logSynced, reported,
                     lostDir, lostLog, losses>>
      /\ dir' \in Entry
  BY DEF Begin, Transition, disk, Cached, Entry, FilesInv, TypeOK
<1>3. Files'
  <2>1. ASSUME NEW f \in File, NEW v \in maybe[f], v # None
        PROVE  <<f, v>> \in synced /\ v.by <= commits + 1
    <3>1. v \in Version /\ <<f, v>> \in synced /\ v.by <= commits
      BY <2>1 DEF FilesInv, TypeOK, Files
    <3>2. v.by \in Nat /\ commits \in Nat
      BY <3>1 DEF FilesInv, TypeOK, Version, Commit
    <3> QED BY <3>1, <3>2
  <2> QED BY <1>1, <1>2, <2>1 DEF FilesInv, Files, Backed
<1>4. CASE Begin
  <2>1. job' = [step |-> "temp", by |-> commits + 1, born |-> commits + 1,
                left |-> NewPlanFiles]
    BY <1>4 DEF Begin
  <2>2. maybe[Marker] = {None}
    BY <1>4 DEF Begin, FilesInv, Files, Marker, File
  <2>3. JobSound'
    <3>1. /\ job'.by = commits' /\ job'.step = "temp"
          /\ job'.left = NewPlanFiles
      BY <1>1, <2>1
    <3> QED BY <1>2, <2>2, <3>1, ListsDiffer DEF JobSound, FileSteps
  <2>4. job' \in Job
    BY <1>1, <2>1, FileLists DEF Job
  <2>5. TypeOK'
    BY <1>1, <1>2, <2>4 DEF FilesInv, TypeOK, Commit
  <2> QED BY <1>3, <2>3, <2>5 DEF FilesInv
<1>5. CASE Transition
  <2>1. job' = [step |-> "temp", by |-> commits + 1,
                born |-> seen["state.json"].born, left |-> MarkerOnly]
    BY <1>5 DEF Transition, MarkerOnly
  <2>2. /\ seen["state.json"] \in Version
        /\ Backed(seen["state.json"].born)
    BY <1>5 DEF Transition, FilesInv, TypeOK, Files, Marker, File
  <2>4. seen["state.json"].born \in Commit
    BY <2>2 DEF Version
  <2>5. JobSound'
    <3>1. /\ job'.by = commits' /\ job'.step = "temp"
          /\ job'.left = MarkerOnly
          /\ job'.born = seen["state.json"].born
      BY <1>1, <2>1
    <3>3. Backed(job.born)'
      BY <1>2, <2>2, <3>1 DEF Backed
    <3> QED BY <3>1, <3>3, ListsDiffer DEF JobSound, FileSteps
  <2>6. job' \in Job
    BY <1>1, <2>1, <2>4, FileLists DEF Job
  <2>7. TypeOK'
    BY <1>1, <1>2, <2>6 DEF FilesInv, TypeOK, Commit
  <2> QED BY <1>3, <2>5, <2>7 DEF FilesInv
<1> QED BY <1>4, <1>5

(* atomic_write_bytes, one system call after the other. *)
LEMMA WriteKeepsFiles ==
  ASSUME FilesInv, WriteTemp \/ SyncTemp
  PROVE  FilesInv'
<1>1. PICK step \in {"sync_all", "persist"} :
         /\ job' = [job EXCEPT !.step = step]
         /\ step = "persist" => <<Target, Content>> \in synced'
  BY DEF WriteTemp, SyncTemp
<1>2. /\ UNCHANGED <<commits, dir, seen, maybe, logFile, log, logSynced,
                     reported, lostDir, lostLog, losses>>
      /\ job \in Job /\ job # None /\ job.step \in FileSteps
      /\ synced \subseteq synced'
  BY DEF WriteTemp, SyncTemp, At, disk, FilesInv, TypeOK, FileSteps
<1>3. job.left \in {NewPlanFiles, SigAndMarker, MarkerOnly}
  BY <1>2 DEF FilesInv, JobSound, FileSteps, LogSteps
<1>4. /\ job' \in Job /\ job'.step = step /\ job'.by = job.by
      /\ job'.born = job.born /\ job'.left = job.left
  BY <1>1, <1>2 DEF Job
<1>5. Target \in File /\ Content \in Version
  BY <1>2, <1>3, FileLists DEF Target, Content, Version, Job, File
<1>6. synced' \subseteq File \X Version
  BY <1>5 DEF WriteTemp, SyncTemp, disk, FilesInv, TypeOK
<1>7. TypeOK'
  BY <1>2, <1>4, <1>6 DEF FilesInv, TypeOK
<1>8. Files'
  BY <1>2 DEF FilesInv, Files, Backed
<1>9. Content' = Content /\ Target' = Target
  BY <1>4 DEF Content, Target
<1>10. JobSound'
  BY <1>1, <1>2, <1>3, <1>4, <1>9
  DEF FilesInv, JobSound, FileSteps, Backed
<1> QED BY <1>7, <1>8, <1>10 DEF FilesInv

(* The rename: the disk may now hold the old content or the new. *)
LEMMA PersistKeepsFiles ==
  ASSUME FilesInv, Persist
  PROVE  FilesInv'
<1> USE DurabilityAssumption
<1>1. /\ seen' = [seen EXCEPT ![Target] = Content]
      /\ maybe' = [maybe EXCEPT ![Target] = @ \cup {Content}]
      /\ job' = [job EXCEPT !.step = "fsync_parent"]
      /\ UNCHANGED <<commits, dir, synced, logFile, log, logSynced, reported,
                     lostDir, lostLog, losses>>
      /\ job \in Job /\ job # None /\ job.step = "persist"
      /\ job.by = commits
  BY DEF Persist, At, FilesInv, TypeOK, JobSound
<1>2. job.left \in {NewPlanFiles, SigAndMarker, MarkerOnly}
  BY <1>1 DEF FilesInv, JobSound, LogSteps
<1>3. /\ job' \in Job /\ job'.step = "fsync_parent" /\ job'.by = job.by
      /\ job'.born = job.born /\ job'.left = job.left
  BY <1>1 DEF Job
<1>4. /\ Target \in File /\ Content \in Version /\ Content # None
      /\ <<Target, Content>> \in synced
      /\ Content.by = commits /\ Content.born = job.born
      /\ commits \in Nat
  BY <1>1, <1>2, FileLists
  DEF Target, Content, Version, Job, File, FilesInv, JobSound, TypeOK
<1>5. Content' = Content /\ Target' = Target
  BY <1>3 DEF Content, Target
<1>6. /\ seen'[Target] = Content
      /\ maybe'[Target] = maybe[Target] \cup {Content}
      /\ \A f \in File \ {Target} :
            seen'[f] = seen[f] /\ maybe'[f] = maybe[f]
      /\ seen' \in [File -> Version \cup {None}]
      /\ maybe' \in [File -> SUBSET (Version \cup {None})]
  <2>1. /\ seen \in [File -> Version \cup {None}]
        /\ maybe \in [File -> SUBSET (Version \cup {None})]
    BY DEF FilesInv, TypeOK
  <2> HIDE DEF Target, Content
  <2> QED BY <1>1, <1>4, <2>1
<1>7. TypeOK'
  BY <1>1, <1>3, <1>6 DEF FilesInv, TypeOK
<1>8. /\ \A f \in File : (seen[f] \in maybe[f])'
      /\ \A f \in File : (seen[f] = None => maybe[f] = {None})'
  BY <1>1, <1>4, <1>6 DEF FilesInv, Files
<1>9. \A f \in File : \A v \in maybe'[f] :
          v # None => <<f, v>> \in synced' /\ v.by <= commits'
  BY <1>1, <1>4, <1>6 DEF FilesInv, Files
<1>10. CASE job.left = NewPlanFiles
  <2>1. Target = "plan.json"
    BY <1>10, FileLists DEF Target
  <2>2. maybe'[Marker] = {None}
    BY <1>6, <1>10, <2>1, <1>1 DEF FilesInv, JobSound, Marker, File
  <2>3. Files'
    BY <1>8, <1>9, <2>2 DEF Files
  <2>4. JobSound'
    BY <1>1, <1>3, <1>5, <1>6, <1>10, <2>2, ListsDiffer
    DEF JobSound, FileSteps
  <2> QED BY <1>7, <2>3, <2>4 DEF FilesInv
<1>11. CASE job.left = SigAndMarker
  <2>1. Target = "plan.json.sig"
    BY <1>11, FileLists DEF Target
  <2>2. maybe'[Marker] = {None} /\ maybe'["plan.json"] = {Content}
    BY <1>6, <1>11, <2>1, <1>1 DEF FilesInv, JobSound, Marker, File
  <2>3. Files'
    BY <1>8, <1>9, <2>2 DEF Files
  <2>4. JobSound'
    BY <1>1, <1>3, <1>5, <1>6, <1>11, <2>2, ListsDiffer
    DEF JobSound, FileSteps
  <2> QED BY <1>7, <2>3, <2>4 DEF FilesInv
<1>12. CASE job.left = MarkerOnly
  <2>1. Target = Marker /\ Marker \notin Document /\ Document \subseteq File
    BY <1>12, FileLists DEF Target, Marker, Document, File
  <2>2. \A d \in Document : maybe'[d] = maybe[d]
    BY <1>6, <2>1
  <2>3. Backed(job.born)
    BY <1>1, <1>12 DEF FilesInv, JobSound
  <2>4. Backed(job.born)'
    BY <1>3, <2>2, <2>3 DEF Backed
  <2>5. \A v \in maybe'[Marker] : v # None => Backed(v.born)'
    BY <1>3, <1>4, <1>6, <2>1, <2>2, <2>4 DEF FilesInv, Files, Backed
  <2>6. Files'
    BY <1>8, <1>9, <2>5 DEF Files
  <2>7. JobSound'
    BY <1>1, <1>3, <1>5, <1>6, <1>12, <2>4, ListsDiffer
    DEF JobSound, FileSteps
  <2> QED BY <1>7, <2>6, <2>7 DEF FilesInv
<1> QED BY <1>2, <1>10, <1>11, <1>12

(* The sync of the directory: what is seen is all the disk may hold. *)
LEMMA FsyncParentKeepsFiles ==
  ASSUME FilesInv, FsyncParent
  PROVE  FilesInv'
<1> USE DurabilityAssumption
<1> DEFINE next == IF Len(job.left) = 1 THEN "line" ELSE "temp"
<1>1. /\ job \in Job /\ job # None /\ job.step = "fsync_parent"
      /\ job.by = commits /\ seen[Target] = Content
      /\ UNCHANGED <<commits, dir, seen, synced, logFile, log, logSynced,
                     reported, lostDir, lostLog, losses>>
  BY DEF FsyncParent, At, FilesInv, TypeOK, JobSound
<1>2. job.left \in {NewPlanFiles, SigAndMarker, MarkerOnly}
  BY <1>1 DEF FilesInv, JobSound, LogSteps
<1>3. Tail(job.left) \in Seq(File)
  BY <1>2, FileLists
<1>4. job' = [job EXCEPT !.left = Tail(job.left), !.step = next]
  BY DEF FsyncParent
<1>5. /\ job' \in Job /\ job'.step = next /\ job'.by = job.by
      /\ job'.born = job.born /\ job'.left = Tail(job.left)
  <2>1. next \in {"line", "temp"}
    OBVIOUS
  <2> HIDE DEF next
  <2> QED BY <1>1, <1>3, <1>4, <2>1 DEF Job
<1>6. \A f \in File : maybe'[f] = {seen[f]}
  BY DEF FsyncParent, ParentSync
<1>7. TypeOK'
  BY <1>1, <1>5 DEF FilesInv, TypeOK, FsyncParent, ParentSync
<1>8. /\ Marker \in File /\ Document \subseteq File
      /\ \A f \in File : maybe'[f] \subseteq maybe[f]
  BY <1>6 DEF FilesInv, Files, Marker, Document, File
<1>9. \A b : Backed(b) => Backed(b)'
  BY <1>8 DEF Backed
<1>10. Files'
  BY <1>1, <1>6, <1>8, <1>9 DEF FilesInv, Files
<1>11. Content' = Content
  BY <1>5 DEF Content
<1>12. JobSound'
  <2>1. CASE job.left = NewPlanFiles
    <3>1. /\ Target = "plan.json" /\ job'.left = SigAndMarker
          /\ job'.step = "temp"
      BY <1>5, <2>1, FileLists DEF Target
    <3>2. maybe'[Marker] = {None} /\ maybe'["plan.json"] = {Content}
      BY <1>1, <1>6, <1>8, <2>1, <3>1 DEF FilesInv, Files, JobSound, File
    <3> QED BY <1>1, <1>5, <1>11, <3>1, <3>2, ListsDiffer
            DEF JobSound, FileSteps
  <2>2. CASE job.left = SigAndMarker
    <3>1. /\ Target = "plan.json.sig" /\ job'.left = MarkerOnly
          /\ job'.step = "temp"
      BY <1>5, <2>2, FileLists DEF Target
    <3>2. /\ maybe'["plan.json.sig"] = {Content}
          /\ maybe'["plan.json"] = {Content}
      BY <1>1, <1>6, <1>8, <2>2, <3>1 DEF FilesInv, Files, JobSound, File
    <3>3. Content # None /\ Content.born = job.born
      BY <1>1 DEF Content, Version, Job
    <3>4. Backed(job.born)'
      BY <1>5, <3>2, <3>3 DEF Backed, Document
    <3> QED BY <1>1, <1>5, <3>1, <3>4, ListsDiffer DEF JobSound, FileSteps
  <2>3. CASE job.left = MarkerOnly
    <3>1. /\ Target = Marker /\ job'.left = << >> /\ job'.step = "line"
      BY <1>5, <2>3, FileLists DEF Target, Marker
    <3>2. maybe'[Marker] = {Content}
      BY <1>1, <1>6, <1>8, <3>1
    <3> QED BY <1>1, <1>5, <1>11, <3>1, <3>2, ListsDiffer
            DEF JobSound, LogSteps
  <2> QED BY <1>2, <2>1, <2>2, <2>3
<1> QED BY <1>7, <1>10, <1>12 DEF FilesInv

(* append_audit and a job's end leave the plan's files alone. *)
LEMMA AppendType ==
  ASSUME FilesInv, NEW part \in {"line", "newline", "torn"}, job \in Job,
         LogPiece(part)
  PROVE  /\ log' \in Seq(Piece)
         /\ Len(log') = Len(log) + 1
         /\ log'[Len(log) + 1] = [by |-> job.by, part |-> part]
         /\ \A i \in 1..Len(log) : log'[i] = log[i]
         /\ logSynced \in 0..Len(log')
<1> DEFINE piece == [by |-> job.by, part |-> part]
<1>1. piece \in Piece
  BY DEF Job, Piece
<1>2. log \in Seq(Piece) /\ logSynced \in 0..Len(log) /\ Len(log) \in Nat
  BY LenProperties DEF FilesInv, TypeOK
<1> HIDE DEF piece
<1>3. log' = Append(log, piece)
  BY DEF LogPiece, piece
<1>4. /\ log' \in Seq(Piece) /\ Len(log') = Len(log) + 1
      /\ log'[Len(log) + 1] = piece
      /\ \A i \in 1..Len(log) : log'[i] = log[i]
  BY <1>1, <1>2, <1>3, AppendProperties
<1> QED BY <1>2, <1>4 DEF piece

(* The steps of append_audit touch no file of the plan. *)
LEMMA LogKeepsFiles ==
  ASSUME FilesInv,
         WriteLine \/ WriteLineTorn \/ WriteNewline \/ SyncData \/ Fail
  PROVE  FilesInv'
<1>1. UNCHANGED <<commits, dir, seen, maybe, synced, lostDir, lostLog,
                  losses>>
  BY DEF WriteLine, WriteLineTorn, WriteNewline, SyncData, Fail, disk
<1>2. job \in Job /\ job # None
  BY DEF WriteLine, WriteLineTorn, WriteNewline, SyncData, Fail, At, FilesInv,
         TypeOK
<1>3. Files'
  BY <1>1 DEF FilesInv, Files, Backed
<1>4. logFile' \in Entry
  BY DEF WriteLine, WriteLineTorn, WriteNewline, SyncData, Fail, disk,
         FilesInv, TypeOK, Entry, Cached
<1>5. reported' \subseteq Commit
  BY <1>2 DEF WriteLine, WriteLineTorn, WriteNewline, SyncData, Fail,
              FilesInv, TypeOK, Job
<1>6. log' \in Seq(Piece) /\ logSynced' \in 0..Len(log')
  <2>1. CASE WriteLine
    BY <1>2, <2>1, AppendType DEF WriteLine
  <2>2. CASE WriteLineTorn
    BY <1>2, <2>2, AppendType DEF WriteLineTorn
  <2>3. CASE WriteNewline
    BY <1>2, <2>3, AppendType DEF WriteNewline
  <2>4. CASE SyncData
    BY <2>4, LenProperties DEF SyncData, LogSynced, FilesInv, TypeOK
  <2>5. CASE Fail
    BY <2>5 DEF Fail, disk, FilesInv, TypeOK
  <2> QED BY <2>1, <2>2, <2>3, <2>4, <2>5
<1>7. CASE job' = None
  <2>1. JobSound'
    BY <1>7 DEF JobSound
  <2>2. TypeOK'
    BY <1>1, <1>4, <1>5, <1>6, <1>7 DEF FilesInv, TypeOK
  <2> QED BY <1>3, <2>1, <2>2 DEF FilesInv
<1>8. CASE WriteLine \/ WriteNewline
  <2>1. PICK step \in {"newline", "sync_data"} :
           job' = [job EXCEPT !.step = step]
    BY <1>8 DEF WriteLine, WriteNewline
  <2>2. /\ job' \in Job /\ job'.step \in LogSteps /\ job'.by = job.by
        /\ job'.born = job.born /\ job'.left = job.left
        /\ job'.step \notin FileSteps
    BY <1>2, <2>1 DEF Job, LogSteps, FileSteps
  <2>3. /\ job.left = << >> /\ job.by = commits
        /\ maybe[Marker] = {Content}
    BY <1>2, <1>8
    DEF FilesInv, JobSound, WriteLine, WriteNewline, At, FileSteps
  <2>4. Content' = Content
    BY <2>2 DEF Content
  <2>5. JobSound'
    BY <1>1, <2>2, <2>3, <2>4, ListsDiffer DEF JobSound, FileSteps
  <2>6. TypeOK'
    BY <1>1, <1>4, <1>5, <1>6, <2>2 DEF FilesInv, TypeOK
  <2> QED BY <1>3, <2>5, <2>6 DEF FilesInv
<1> QED BY <1>7, <1>8 DEF WriteLineTorn, SyncData, Fail

(* What a power loss leaves of a kept log: at least its synced part, and the
   last piece perhaps torn. *)
LEMMA LogSurvives ==
  ASSUME log \in Seq(Piece), logSynced \in 0..Len(log),
         NEW s \in LogSurvivors(TRUE)
  PROVE  /\ s \in Seq(Piece)
         /\ Len(s) \in logSynced..Len(log)
         /\ \A i \in 1..Len(s) :
               \/ s[i] = log[i]
               \/ /\ i = Len(s)
                  /\ i > logSynced
                  /\ s[i] = [by |-> log[i].by, part |-> "torn"]
                  /\ log[i].part = "line"
<1>1. Len(log) \in Nat
  BY LenProperties
<1>2. CASE \E n \in logSynced..Len(log) : s = SubSeq(log, 1, n)
  <2>1. PICK n \in logSynced..Len(log) : s = SubSeq(log, 1, n)
    BY <1>2
  <2>2. s \in Seq(Piece) /\ Len(s) = n /\ \A i \in 1..n : s[i] = log[i]
    BY <1>1, <2>1, SubSeqProperties
  <2> QED BY <2>1, <2>2
<1>3. CASE \E n \in {m \in logSynced..(Len(log) - 1) :
                        log[m + 1].part = "line"} :
             s = Append(SubSeq(log, 1, n),
                        [by |-> log[n + 1].by, part |-> "torn"])
  <2>1. PICK n \in logSynced..(Len(log) - 1) :
           /\ log[n + 1].part = "line"
           /\ s = Append(SubSeq(log, 1, n),
                         [by |-> log[n + 1].by, part |-> "torn"])
    BY <1>3
  <2> DEFINE head == SubSeq(log, 1, n)
             last == [by |-> log[n + 1].by, part |-> "torn"]
  <2>2. n \in Nat /\ n \in 0..Len(log) /\ n + 1 \in 1..Len(log)
    BY <1>1, <2>1
  <2>3. /\ head \in Seq(Piece) /\ Len(head) = n
        /\ \A i \in 1..n : head[i] = log[i]
    BY <1>1, <2>2, SubSeqProperties
  <2>4. log[n + 1] \in Piece
    BY <2>2, ElementOfSeq
  <2>5. last \in Piece
    BY <2>4 DEF Piece
  <2> HIDE DEF head, last
  <2>6. /\ Append(head, last) \in Seq(Piece)
        /\ Len(Append(head, last)) = n + 1
        /\ \A i \in 1..n : Append(head, last)[i] = head[i]
        /\ Append(head, last)[n + 1] = last
    BY <2>3, <2>5, AppendProperties
  <2>7. s = Append(head, last)
    BY <2>1 DEF head, last
  <2>8. Len(s) = n + 1 /\ s \in Seq(Piece) /\ s[n + 1] = last
        /\ \A i \in 1..n : s[i] = log[i]
    BY <2>3, <2>6, <2>7
  <2> QED BY <1>1, <2>1, <2>2, <2>8 DEF last
<1> QED BY <1>2, <1>3 DEF LogSurvivors

(* Nothing torn comes back: whatever bears a name was synced before. *)
LEMMA SurvivorsWhole ==
  ASSUME FilesInv, NEW kept \in BOOLEAN, NEW s \in Survivors(kept)
  PROVE  /\ s \in [File -> Version \cup {None}]
         /\ IF kept THEN \A f \in File : s[f] \in maybe[f]
                    ELSE \A f \in File : s[f] = None
<1>1. \A f \in File : Left(f) = maybe[f]
  BY DEF FilesInv, Files, Left
<1>2. maybe \in [File -> SUBSET (Version \cup {None})]
  BY DEF FilesInv, TypeOK
<1>3. CASE kept
  <2>1. /\ s \in [File -> UNION {Left(f) : f \in File}]
        /\ \A f \in File : s[f] \in Left(f)
    BY <1>3 DEF Survivors
  <2> QED BY <1>1, <1>2, <1>3, <2>1
<1>4. CASE ~kept
  BY <1>4 DEF Survivors
<1> QED BY <1>3, <1>4

(* Kept or lost, it is a sequence of pieces. *)
LEMMA LogSurvivorsType ==
  ASSUME FilesInv, NEW kept \in BOOLEAN, NEW s \in LogSurvivors(kept)
  PROVE  s \in Seq(Piece) /\ Len(s) \in Nat
<1>1. CASE kept
  <2>1. s \in LogSurvivors(TRUE)
    BY <1>1
  <2>2. log \in Seq(Piece) /\ logSynced \in 0..Len(log)
    BY DEF FilesInv, TypeOK
  <2> QED BY <2>1, <2>2, LogSurvives, LenProperties
<1>2. CASE ~kept
  BY <1>2, EmptySeq DEF LogSurvivors
<1> QED BY <1>1, <1>2

(* A power loss ends the call, and the disk holds one content of each file. *)
LEMMA PowerLossKeepsFiles ==
  ASSUME FilesInv, PowerLoss
  PROVE  FilesInv'
<1>1. PICK kept \in MayKeep(dir) :
         /\ dir' = EntryAfter(kept)
         /\ seen' \in Survivors(kept)
         /\ maybe' = [f \in File |-> {seen'[f]}]
         /\ lostDir' = IF kept THEN lostDir ELSE commits
  BY DEF PowerLoss
<1>2. PICK keptLog \in MayKeep(logFile) :
         /\ logFile' = EntryAfter(keptLog)
         /\ log' \in LogSurvivors(keptLog)
         /\ logSynced' = Len(log')
         /\ lostLog' = IF keptLog THEN lostLog ELSE commits
  BY DEF PowerLoss
<1>3. /\ kept \in BOOLEAN /\ keptLog \in BOOLEAN
      /\ dir' \in Entry /\ logFile' \in Entry
  BY <1>1, <1>2 DEF FilesInv, TypeOK, Entry, MayKeep, EntryAfter
<1>4. /\ job' = None /\ losses' \in 0..MaxLosses
      /\ UNCHANGED <<commits, synced, reported>>
  BY DurabilityAssumption DEF PowerLoss, FilesInv, TypeOK
<1>5. /\ seen' \in [File -> Version \cup {None}]
      /\ IF kept THEN \A f \in File : seen'[f] \in maybe[f]
                 ELSE \A f \in File : seen'[f] = None
  BY <1>1, <1>3, SurvivorsWhole
<1>6. log' \in Seq(Piece) /\ Len(log') \in Nat
  BY <1>2, <1>3, LogSurvivorsType
<1>7. TypeOK'
  <2>1. maybe' \in [File -> SUBSET (Version \cup {None})]
    BY <1>1, <1>5
  <2>2. lostDir' \in 0..commits /\ lostLog' \in 0..commits
    BY <1>1, <1>2 DEF FilesInv, TypeOK
  <2>3. logSynced' \in 0..Len(log')
    BY <1>2, <1>6
  <2> QED BY <1>3, <1>4, <1>5, <1>6, <2>1, <2>2, <2>3 DEF FilesInv, TypeOK
<1>8. \A f \in File : maybe'[f] = {seen'[f]}
  BY <1>1
<1>9. Files'
  <2>1. CASE kept
    <3>1. \A f \in File : maybe'[f] \subseteq maybe[f]
      BY <1>5, <1>8, <2>1
    <3>2. \A b : Backed(b) => Backed(b)'
      BY <3>1 DEF Backed, Document, File
    <3>3. Marker \in File
      BY DEF Marker, File
    <3> QED BY <1>4, <1>8, <3>1, <3>2, <3>3 DEF FilesInv, Files
  <2>2. CASE ~kept
    BY <1>5, <1>8, <2>2 DEF Files, Marker, File
  <2> QED BY <1>3, <2>1, <2>2
<1>10. JobSound'
  BY <1>4 DEF JobSound
<1> QED BY <1>7, <1>9, <1>10 DEF FilesInv

(* Hence every step keeps the files sound, *)
LEMMA FilesStep == FilesInv /\ [Next]_vars => FilesInv'
<1> SUFFICES ASSUME FilesInv, [Next]_vars PROVE FilesInv'
  OBVIOUS
<1>1. CASE Next
  BY <1>1, StartKeepsFiles, WriteKeepsFiles, PersistKeepsFiles,
     FsyncParentKeepsFiles, LogKeepsFiles, PowerLossKeepsFiles DEF Next
<1>2. CASE UNCHANGED vars
  BY <1>2
  DEF vars, disk, FilesInv, TypeOK, Files, JobSound, Backed, Target, Content
<1> QED BY <1>1, <1>2

(* and they are so in every reachable state. *)
LEMMA FilesAlways == Spec => []FilesInv
  BY FilesInit, FilesStep, PTL DEF Spec

(* TypeOK of Durability: above all, no reader ever finds a torn file.      *)
THEOREM TypeCorrect == Spec => []TypeOK
<1>1. FilesInv => TypeOK
  BY DEF FilesInv
<1> QED BY FilesAlways, <1>1, PTL

(* write_new_plan over atomic_write_bytes: a state.json has the plan.json  *)
(* and the plan.json.sig of its own begin beside it, whatever failed,      *)
(* died or lost power.                                                     *)
THEOREM DocumentsAlwaysBeside == Spec => []DocumentsBesideMarker
<1>1. FilesInv => DocumentsBesideMarker
  <2> SUFFICES ASSUME FilesInv, seen[Marker] # None, NEW f \in File
               PROVE  seen[f] # None /\ seen[f].born = seen[Marker].born
    BY DEF DocumentsBesideMarker, Marker
  <2>1. seen[Marker] \in maybe[Marker] /\ seen[f] \in maybe[f]
    BY DEF FilesInv, Files, Marker, File
  <2>2. Backed(seen[Marker].born)
    BY <2>1 DEF FilesInv, Files
  <2>3. f = Marker \/ f \in Document
    BY DEF File, Marker, Document
  <2> QED BY <2>1, <2>2, <2>3 DEF Backed
<1> QED BY FilesAlways, <1>1, PTL

----------------------------------------------------------------------------
(* The log and what was reported, against the marker. *)

(* No power loss takes the marker back behind commit n. *)
Reached(n) == \A v \in maybe[Marker] : v # None /\ v.by >= n

Bounds ==
    /\ \A i \in 1..Len(log) : log[i].by <= commits /\ log[i].by > lostLog
    /\ \A n \in reported : n <= commits
    /\ job # None => lostLog < commits /\ commits \notin reported

Told ==
    /\ \A i \in 1..Len(log) :
          log[i].part = "line" /\ log[i].by > lostDir => Reached(log[i].by)
    /\ \A n \in reported : n > lostDir => Reached(n)

(* The marker only moves on, unless its directory is lost. *)
LEMMA ReachedKeeps ==
  ASSUME FilesInv, [Next]_vars, NEW n \in Nat, n <= commits, Reached(n),
         n > lostDir'
  PROVE  Reached(n)'
<1>1. CASE Persist
  <2>1. /\ job.by = commits /\ job.step = "persist" /\ job \in Job
        /\ maybe' = [maybe EXCEPT ![Target] = @ \cup {Content}]
    BY <1>1 DEF Persist, At, FilesInv, JobSound, TypeOK
  <2>2. Content # None /\ Content.by = commits
    BY <2>1, DurabilityAssumption DEF Content, Version, Job
  <2>3. maybe'[Marker] \subseteq maybe[Marker] \cup {Content}
    BY <2>1 DEF FilesInv, TypeOK, Marker, File
  <2> QED BY <2>2, <2>3 DEF Reached
<1>2. CASE FsyncParent
  <2>1. maybe'[Marker] = {seen[Marker]} /\ seen[Marker] \in maybe[Marker]
    BY <1>2
    DEF FsyncParent, ParentSync, FilesInv, Files, Marker, File
  <2> QED BY <2>1 DEF Reached
<1>3. CASE PowerLoss
  <2>1. PICK kept \in MayKeep(dir) :
           /\ seen' \in Survivors(kept)
           /\ maybe' = [f \in File |-> {seen'[f]}]
           /\ lostDir' = IF kept THEN lostDir ELSE commits
    BY <1>3 DEF PowerLoss
  <2>2. kept \in BOOLEAN
    BY <2>1 DEF FilesInv, TypeOK, Entry, MayKeep
  <2>3. kept
    BY <2>1, <2>2 DEF FilesInv, TypeOK
  <2>4. \A f \in File : seen'[f] \in maybe[f]
    BY <2>1, <2>2, <2>3, SurvivorsWhole
  <2> QED BY <2>1, <2>4 DEF Reached, Marker, File
<1>4. CASE UNCHANGED maybe
  BY <1>4 DEF Reached
<1> QED
  BY <1>1, <1>2, <1>3, <1>4
  DEF Next, vars, disk, Begin, Transition, WriteTemp, SyncTemp, WriteLine,
      WriteLineTorn, WriteNewline, SyncData, Fail

(* While a line is written the marker has reached what it tells. *)
LEMMA WritingReached ==
  ASSUME FilesInv, WriteLine \/ WriteLineTorn \/ WriteNewline \/ SyncData
  PROVE  /\ job \in Job /\ job.by = commits /\ Reached(job.by)
         /\ job.by \in Nat
<1>1. job \in Job /\ job # None /\ job.step \in LogSteps
  BY DEF WriteLine, WriteLineTorn, WriteNewline, SyncData, At, LogSteps,
         FilesInv, TypeOK
<1>2. job.by = commits /\ maybe[Marker] = {Content}
  BY <1>1 DEF FilesInv, JobSound, LogSteps, FileSteps
<1>3. Content # None /\ Content.by = job.by
  BY <1>1, DurabilityAssumption DEF Content, Version, Job
<1> QED BY <1>1, <1>2, <1>3 DEF Reached, Job, Commit

(* What one step may make of the log: it grows by a piece of the job under *)
(* way, or loses a tail to a power loss, or is lost.                       *)
LEMMA LogSteppers ==
  ASSUME FilesInv, [Next]_vars
  PROVE  \/ UNCHANGED <<log, lostLog>>
         \/ \E part \in {"line", "newline", "torn"} :
               /\ WriteLine \/ WriteLineTorn \/ WriteNewline
               /\ LogPiece(part)
               /\ UNCHANGED <<commits, lostLog, reported>>
         \/ /\ PowerLoss
            /\ \/ log' \in LogSurvivors(TRUE) /\ lostLog' = lostLog
               \/ log' = << >>
<1>1. CASE PowerLoss
  <2>1. PICK kept \in MayKeep(logFile) :
           /\ log' \in LogSurvivors(kept)
           /\ lostLog' = IF kept THEN lostLog ELSE commits
    BY <1>1 DEF PowerLoss
  <2>2. kept \in BOOLEAN
    BY <2>1 DEF FilesInv, TypeOK, Entry, MayKeep
  <2>3. CASE kept = TRUE
    BY <1>1, <2>1, <2>3
  <2>4. CASE kept = FALSE
    BY <1>1, <2>1, <2>4 DEF LogSurvivors
  <2> QED BY <2>2, <2>3, <2>4
<1>2. CASE WriteLine \/ WriteLineTorn \/ WriteNewline
  BY <1>2 DEF WriteLine, WriteLineTorn, WriteNewline
<1> QED
  BY <1>1, <1>2
  DEF Next, vars, disk, Begin, Transition, WriteTemp, SyncTemp, Persist,
      FsyncParent, SyncData, Fail

(* The counters only grow, and only a synced record is reported. *)
LEMMA CommitsGrow ==
  ASSUME FilesInv, [Next]_vars
  PROVE  /\ commits \in Nat /\ commits' \in Nat /\ commits <= commits'
         /\ lostDir \in Nat /\ lostDir <= lostDir'
         /\ lostDir' \in Nat
         /\ \/ reported' = reported
            \/ SyncData /\ reported' = reported \cup {job.by}
<1> USE DurabilityAssumption
<1>1. commits \in Nat /\ lostDir \in Nat /\ lostDir <= commits
  BY DEF FilesInv, TypeOK
<1>2. CASE PowerLoss
  BY <1>1, <1>2 DEF PowerLoss
<1> QED
  BY <1>1, <1>2
  DEF Next, vars, disk, Begin, Transition, WriteTemp, SyncTemp, Persist,
      FsyncParent, WriteLine, WriteLineTorn, WriteNewline, SyncData, Fail

(* Every piece of the log after a step was there before, maybe whole, or   *)
(* is of the job under way.                                                *)
LEMMA PiecesAfter ==
  ASSUME FilesInv, FilesInv', [Next]_vars, NEW i \in 1..Len(log')
  PROVE  \/ /\ i \in 1..Len(log) /\ log'[i].by = log[i].by
            /\ log'[i] = log[i] \/ log'[i].part = "torn"
            /\ lostLog' = lostLog
         \/ /\ WriteLine \/ WriteLineTorn \/ WriteNewline
            /\ log'[i].by = job.by /\ lostLog' = lostLog
<1> Len(log) \in Nat /\ Len(log') \in Nat
  BY LenProperties DEF FilesInv, TypeOK
<1>1. CASE UNCHANGED <<log, lostLog>>
  BY <1>1
<1>2. ASSUME NEW part \in {"line", "newline", "torn"},
             WriteLine \/ WriteLineTorn \/ WriteNewline, LogPiece(part),
             UNCHANGED <<commits, lostLog, reported>>
      PROVE  \/ /\ i \in 1..Len(log) /\ log'[i] = log[i]
                /\ lostLog' = lostLog
             \/ log'[i].by = job.by /\ lostLog' = lostLog
  <2>1. job \in Job
    BY <1>2, WritingReached
  <2>2. /\ Len(log') = Len(log) + 1
        /\ log'[Len(log) + 1] = [by |-> job.by, part |-> part]
        /\ \A j \in 1..Len(log) : log'[j] = log[j]
    BY <1>2, <2>1, AppendType
  <2>3. CASE i = Len(log) + 1
    BY <1>2, <2>2, <2>3
  <2>4. CASE i # Len(log) + 1
    BY <1>2, <2>2, <2>4
  <2> QED BY <2>3, <2>4
<1>3. CASE log' \in LogSurvivors(TRUE) /\ lostLog' = lostLog
  <2>1. log \in Seq(Piece) /\ logSynced \in 0..Len(log)
    BY DEF FilesInv, TypeOK
  <2>2. /\ Len(log') \in logSynced..Len(log)
        /\ \/ log'[i] = log[i]
           \/ log'[i] = [by |-> log[i].by, part |-> "torn"]
    BY <1>3, <2>1, LogSurvives
  <2> QED BY <1>3, <2>1, <2>2
<1>4. CASE log' = << >>
  BY <1>4, EmptySeq
<1> QED BY <1>1, <1>2, <1>3, <1>4, LogSteppers

(* The numbers in the log and in reported stay within the commits so far. *)
LEMMA BoundsStep ==
  FilesInv /\ FilesInv' /\ Bounds /\ [Next]_vars => Bounds'
<1> SUFFICES ASSUME FilesInv, FilesInv', Bounds, [Next]_vars PROVE Bounds'
  OBVIOUS
<1>1. ASSUME NEW i \in 1..Len(log')
      PROVE  log'[i].by <= commits' /\ log'[i].by > lostLog'
  <2>1. CASE i \in 1..Len(log) /\ log'[i].by = log[i].by
             /\ lostLog' = lostLog
    <3>1. log[i] \in Piece
      BY <2>1, ElementOfSeq DEF FilesInv, TypeOK
    <3>2. log[i].by \in Nat /\ log[i].by <= commits /\ log[i].by > lostLog
      BY <2>1, <3>1 DEF Piece, Commit, Bounds
    <3> QED BY <2>1, <3>2, CommitsGrow
  <2>2. CASE /\ WriteLine \/ WriteLineTorn \/ WriteNewline
             /\ log'[i].by = job.by /\ lostLog' = lostLog
    <3>1. job.by = commits /\ job.by \in Nat
      BY <2>2, WritingReached
    <3>2. lostLog < commits
      BY <2>2 DEF WriteLine, WriteLineTorn, WriteNewline, At, Bounds
    <3> QED BY <2>2, <3>1, <3>2, CommitsGrow
  <2> QED BY <1>1, <2>1, <2>2, PiecesAfter
<1>2. ASSUME NEW n \in reported' PROVE n <= commits'
  <2>1. n \in Nat
    BY DEF FilesInv, TypeOK, Commit
  <2>2. CASE n \in reported
    BY <2>1, <2>2, CommitsGrow DEF Bounds
  <2>3. CASE SyncData /\ n = job.by
    BY <2>1, <2>3, CommitsGrow, WritingReached
  <2> QED BY <2>2, <2>3, CommitsGrow
<1>3. job' # None => lostLog' < commits' /\ commits' \notin reported'
  <2>1. CASE Begin \/ Transition
    <3>1. /\ commits' = commits + 1 /\ commits \in Nat
          /\ lostLog' = lostLog /\ reported' = reported
          /\ lostLog \in 0..commits /\ reported \subseteq Nat
      BY <2>1 DEF Begin, Transition, FilesInv, TypeOK, Commit
    <3> QED BY <3>1 DEF Bounds
  <2>2. CASE SyncData \/ WriteLineTorn \/ Fail \/ PowerLoss
    BY <2>2 DEF SyncData, WriteLineTorn, Fail, PowerLoss
  <2>3. CASE UNCHANGED <<commits, lostLog, reported>>
             /\ (job' # None => job # None)
    BY <2>3 DEF Bounds
  <2> QED
    BY <2>1, <2>2, <2>3
    DEF Next, vars, disk, WriteTemp, SyncTemp, Persist, FsyncParent,
        WriteLine, WriteNewline, At
<1> QED BY <1>1, <1>2, <1>3 DEF Bounds

(* No line in the log tells of a marker that a power loss could take back. *)
LEMMA ToldStep ==
  /\ FilesInv /\ FilesInv' /\ Bounds /\ Told /\ [Next]_vars
  => Told'
<1> SUFFICES ASSUME FilesInv, FilesInv', Bounds, Told, [Next]_vars
             PROVE  Told'
  OBVIOUS
<1>0. \A n \in Nat :
         n <= commits /\ Reached(n) /\ n > lostDir'
         => \A v \in maybe'[Marker] : v # None /\ v.by >= n
  <2> SUFFICES ASSUME NEW n \in Nat, n <= commits, Reached(n), n > lostDir'
               PROVE  Reached(n)'
    BY DEF Reached
  <2> QED BY ReachedKeeps
<1>1. ASSUME NEW i \in 1..Len(log'), log'[i].part = "line",
             log'[i].by > lostDir'
      PROVE  \A v \in maybe'[Marker] : v # None /\ v.by >= log'[i].by
  <2>1. CASE /\ i \in 1..Len(log) /\ log'[i].by = log[i].by
             /\ log'[i] = log[i] \/ log'[i].part = "torn"
    <3>1. log[i] \in Piece
      BY <2>1, ElementOfSeq DEF FilesInv, TypeOK
    <3>2. log[i].by \in Nat /\ log[i].by <= commits
      BY <2>1, <3>1 DEF Piece, Commit, Bounds
    <3>3. log'[i] = log[i]
      BY <1>1, <2>1
    <3>4. Reached(log[i].by)
      BY <1>1, <2>1, <3>2, <3>3, CommitsGrow DEF Told
    <3> QED BY <1>0, <1>1, <3>2, <3>3, <3>4
  <2>2. CASE /\ WriteLine \/ WriteLineTorn \/ WriteNewline
             /\ log'[i].by = job.by
    <3>1. Reached(job.by)
      BY <2>2, WritingReached
    <3>2. UNCHANGED maybe
      BY <2>2 DEF WriteLine, WriteLineTorn, WriteNewline
    <3> QED BY <2>2, <3>1, <3>2 DEF Reached
  <2> QED BY <1>1, <2>1, <2>2, PiecesAfter
<1>2. ASSUME NEW n \in reported', n > lostDir'
      PROVE  \A v \in maybe'[Marker] : v # None /\ v.by >= n
  <2>1. n \in Nat
    BY DEF FilesInv, TypeOK, Commit
  <2>2. CASE n \in reported
    <3>1. n <= commits /\ Reached(n)
      BY <1>2, <2>1, <2>2, CommitsGrow DEF Bounds, Told
    <3> QED BY <1>0, <1>2, <2>1, <3>1
  <2>3. CASE SyncData /\ n = job.by
    <3>1. Reached(job.by) /\ UNCHANGED maybe
      BY <2>3, WritingReached DEF SyncData
    <3> QED BY <2>3, <3>1 DEF Reached
  <2> QED BY <1>2, <2>2, <2>3, CommitsGrow
<1> QED BY <1>1, <1>2 DEF Told, Reached

----------------------------------------------------------------------------
(* The lines of the log. *)

Line(n) == [by |-> n, part |-> "line"]
Newline(n) == [by |-> n, part |-> "newline"]

(* Whatever comes before piece i on its line, no caller was told Ok for.   *)
Alone(i) ==
    i > 1 => log[i - 1].part = "newline" \/ log[i - 1].by \notin reported

Recorded(i, n) == log[i] = Line(n) /\ log[i + 1] = Newline(n) /\ Alone(i)

Ordered ==
    \A i, j \in 1..Len(log) :
        i < j => /\ log[i].by <= log[j].by
                 /\ log[j].part # "newline" => log[i].by < log[j].by

LastOpen ==
    Len(log) > 0 /\ log[Len(log)].part # "newline"
        => log[Len(log)].by \notin reported

SyncedRecords ==
    \A n \in reported :
        n > lostLog => \E i \in 1..(logSynced - 1) : Recorded(i, n)

JobLog ==
    job # None =>
        /\ job.step \notin {"newline", "sync_data"} =>
              \A i \in 1..Len(log) : log[i].by < job.by
        /\ job.step = "newline" =>
              /\ Len(log) > 0 /\ log[Len(log)] = Line(job.by)
              /\ Alone(Len(log))
        /\ job.step = "sync_data" =>
              Len(log) > 1 /\ Recorded(Len(log) - 1, job.by)

Lines == Ordered /\ LastOpen /\ SyncedRecords /\ JobLog

(* The parts of a piece of the log, for the leaves that need no more. *)
LEMMA LogTyped ==
  ASSUME FilesInv
  PROVE  /\ Len(log) \in Nat /\ logSynced \in 0..Len(log)
         /\ \A i \in 1..Len(log) : log[i] \in Piece /\ log[i].by \in Nat
<1>1. log \in Seq(Piece) /\ logSynced \in 0..Len(log) /\ Len(log) \in Nat
  BY LenProperties DEF FilesInv, TypeOK
<1>2. \A i \in 1..Len(log) : log[i] \in Piece
  BY <1>1, ElementOfSeq
<1> QED BY <1>1, <1>2 DEF Piece, Commit

(* The steps before the audit line, and a job that ends without one. *)
LEMMA QuietKeepsLines ==
  ASSUME FilesInv, Bounds, Lines,
         \/ Begin \/ Transition \/ WriteTemp \/ SyncTemp \/ Persist
         \/ FsyncParent \/ Fail
  PROVE  Lines'
<1>1. UNCHANGED <<log, logSynced, reported, lostLog>>
  BY DEF Begin, Transition, WriteTemp, SyncTemp, Persist, FsyncParent, Fail,
         disk
<1>2. Ordered' /\ LastOpen' /\ SyncedRecords'
  BY <1>1
  DEF Lines, Ordered, LastOpen, SyncedRecords, Recorded, Alone, Line, Newline
<1>3. JobLog'
  <2>1. CASE Begin \/ Transition
    <3>1. job'.by = commits + 1 /\ job'.step = "temp" /\ commits \in Nat
      BY <2>1 DEF Begin, Transition, FilesInv, TypeOK
    <3>2. \A i \in 1..Len(log) : log[i].by < commits + 1
      BY <3>1, LogTyped DEF Bounds
    <3> QED BY <1>1, <3>1, <3>2 DEF JobLog
  <2>2. CASE Fail
    BY <2>2 DEF Fail, JobLog
  <2>3. CASE WriteTemp \/ SyncTemp \/ Persist \/ FsyncParent
    <3>1. job \in Job /\ job # None /\ job.step \in FileSteps
      BY <2>3
      DEF WriteTemp, SyncTemp, Persist, FsyncParent, At, FilesInv, TypeOK,
          FileSteps
    <3>2. /\ job'.by = job.by
          /\ job'.step \notin {"newline", "sync_data"}
      BY <2>3, <3>1 DEF WriteTemp, SyncTemp, Persist, FsyncParent, Job
    <3>3. \A i \in 1..Len(log) : log[i].by < job.by
      BY <3>1 DEF Lines, JobLog, FileSteps
    <3> QED BY <1>1, <3>2, <3>3 DEF JobLog
  <2> QED BY <2>1, <2>2, <2>3
<1> QED BY <1>2, <1>3 DEF Lines

(* A piece that is appended disturbs no record that is synced. *)
LEMMA AppendKeepsRecords ==
  ASSUME FilesInv, Lines, NEW part \in {"line", "newline", "torn"},
         job \in Job, LogPiece(part),
         UNCHANGED <<logSynced, reported, lostLog>>
  PROVE  SyncedRecords'
<1>1. /\ Len(log') = Len(log) + 1
      /\ \A i \in 1..Len(log) : log'[i] = log[i]
  BY AppendType
<1> SUFFICES ASSUME NEW n \in reported, n > lostLog
             PROVE  \E i \in 1..(logSynced - 1) :
                       /\ log'[i] = Line(n) /\ log'[i + 1] = Newline(n)
                       /\ i > 1 => \/ log'[i - 1].part = "newline"
                                   \/ log'[i - 1].by \notin reported
  BY DEF SyncedRecords, Recorded, Alone, Line, Newline
<1>2. PICK i \in 1..(logSynced - 1) : Recorded(i, n)
  BY DEF Lines, SyncedRecords
<1>3. /\ i \in 1..Len(log) /\ i + 1 \in 1..Len(log)
      /\ i > 1 => i - 1 \in 1..Len(log)
  BY <1>2, LogTyped
<1>4. /\ log'[i] = log[i] /\ log'[i + 1] = log[i + 1]
      /\ i > 1 => log'[i - 1] = log[i - 1]
  BY <1>1, <1>3
<1> QED BY <1>2, <1>4 DEF Recorded, Alone

(* The line of a record, whole or torn, opens the last piece. *)
LEMMA WriteLineKeepsLines ==
  ASSUME FilesInv, Bounds, Lines, WriteLine \/ WriteLineTorn
  PROVE  Lines'
<1>1. PICK part \in {"line", "torn"} :
         /\ LogPiece(part)
         /\ WriteLine => part = "line"
  BY DEF WriteLine, WriteLineTorn
<1>2. /\ UNCHANGED <<logSynced, reported, lostLog>>
      /\ job \in Job /\ job # None /\ job.step = "line" /\ job.by = commits
      /\ job.by \in Nat
  BY WritingReached DEF WriteLine, WriteLineTorn, At
<1>3. /\ Len(log') = Len(log) + 1
      /\ log'[Len(log) + 1] = [by |-> job.by, part |-> part]
      /\ \A i \in 1..Len(log) : log'[i] = log[i]
  BY <1>1, <1>2, AppendType
<1>4. \A i \in 1..Len(log) : log[i].by < job.by
  BY <1>2 DEF Lines, JobLog
<1>5. Ordered'
  <2> SUFFICES ASSUME NEW i \in 1..(Len(log) + 1),
                      NEW j \in 1..(Len(log) + 1), i < j
               PROVE  /\ log'[i].by <= log'[j].by
                      /\ log'[j].part # "newline" => log'[i].by < log'[j].by
    BY <1>3 DEF Ordered
  <2>1. i \in 1..Len(log) /\ log'[i] = log[i] /\ log[i].by \in Nat
    BY <1>3, LogTyped
  <2>2. CASE j \in 1..Len(log)
    BY <1>3, <2>1, <2>2 DEF Lines, Ordered
  <2>3. CASE j = Len(log) + 1
    BY <1>2, <1>3, <1>4, <2>1, <2>3
  <2> QED BY <2>2, <2>3, LogTyped
<1>6. LastOpen'
  BY <1>2, <1>3 DEF LastOpen, Bounds
<1>7. SyncedRecords'
  BY <1>1, <1>2, AppendKeepsRecords
<1>8. JobLog'
  <2>1. CASE WriteLine
    <3>1. job'.by = job.by /\ job'.step = "newline"
      BY <1>2, <2>1 DEF WriteLine, Job
    <3>2. log'[Len(log')] = Line(job.by) /\ Len(log') > 0
      BY <1>1, <1>3, <2>1, LogTyped DEF Line
    <3>3. Len(log') > 1 => \/ log'[Len(log') - 1].part = "newline"
                           \/ log'[Len(log') - 1].by \notin reported'
      BY <1>2, <1>3, LogTyped DEF Lines, LastOpen
    <3> QED BY <3>1, <3>2, <3>3 DEF JobLog, Line, Alone
  <2>2. CASE WriteLineTorn
    BY <2>2 DEF WriteLineTorn, JobLog
  <2> QED BY <2>1, <2>2
<1> QED BY <1>5, <1>6, <1>7, <1>8 DEF Lines

(* The newline closes the line of its own record. *)
LEMMA NewlineKeepsLines ==
  ASSUME FilesInv, Bounds, Lines, WriteNewline
  PROVE  Lines'
<1>1. LogPiece("newline")
  BY DEF WriteNewline
<1>2. /\ UNCHANGED <<logSynced, reported, lostLog>>
      /\ job \in Job /\ job # None /\ job.step = "newline"
      /\ job.by \in Nat
  BY WritingReached DEF WriteNewline, At
<1>3. /\ Len(log') = Len(log) + 1
      /\ log'[Len(log) + 1] = Newline(job.by)
      /\ \A i \in 1..Len(log) : log'[i] = log[i]
  BY <1>1, <1>2, AppendType DEF Newline
<1>4. Len(log) > 0 /\ log[Len(log)] = Line(job.by) /\ Alone(Len(log))
  BY <1>2 DEF Lines, JobLog
<1>5. Ordered'
  <2> SUFFICES ASSUME NEW i \in 1..(Len(log) + 1),
                      NEW j \in 1..(Len(log) + 1), i < j
               PROVE  /\ log'[i].by <= log'[j].by
                      /\ log'[j].part # "newline" => log'[i].by < log'[j].by
    BY <1>3 DEF Ordered
  <2>1. i \in 1..Len(log) /\ log'[i] = log[i] /\ log[i].by \in Nat
    BY <1>3, LogTyped
  <2>2. CASE j \in 1..Len(log)
    BY <1>3, <2>1, <2>2 DEF Lines, Ordered
  <2>3. CASE j = Len(log) + 1
    <3>1. log[Len(log)].by = job.by
      BY <1>4 DEF Line
    <3>2. log[i].by <= job.by
      <4>1. CASE i = Len(log)
        BY <1>2, <3>1, <4>1
      <4>2. CASE i < Len(log)
        BY <1>4, <2>1, <3>1, <4>2, LogTyped DEF Lines, Ordered
      <4> QED BY <2>1, <4>1, <4>2, LogTyped
    <3> QED BY <1>3, <2>1, <2>3, <3>2 DEF Newline
  <2> QED BY <2>2, <2>3, LogTyped
<1>6. LastOpen'
  BY <1>3 DEF LastOpen, Newline
<1>7. SyncedRecords'
  BY <1>1, <1>2, AppendKeepsRecords
<1>8. JobLog'
  <2>1. job'.by = job.by /\ job'.step = "sync_data"
    BY <1>2 DEF WriteNewline, Job
  <2>2. /\ Len(log') > 1 /\ Len(log') - 1 = Len(log)
        /\ log'[Len(log)] = Line(job.by)
        /\ log'[Len(log) + 1] = Newline(job.by)
    BY <1>3, <1>4, LogTyped
  <2>3. Len(log) > 1 => \/ log'[Len(log) - 1].part = "newline"
                        \/ log'[Len(log) - 1].by \notin reported'
    BY <1>2, <1>3, <1>4, LogTyped DEF Alone
  <2> QED BY <2>1, <2>2, <2>3 DEF JobLog, Recorded, Alone, Line, Newline
<1> QED BY <1>5, <1>6, <1>7, <1>8 DEF Lines

(* Ok: one more record is synced, and its number joins the reported ones.  *)
LEMMA SyncDataKeepsLines ==
  ASSUME FilesInv, Bounds, Lines, SyncData
  PROVE  Lines'
<1>1. /\ UNCHANGED <<log, lostLog>> /\ logSynced' = Len(log)
      /\ reported' = reported \cup {job.by} /\ job' = None
      /\ job # None /\ job.step = "sync_data" /\ job.by = commits
      /\ job.by \in Nat
  BY WritingReached DEF SyncData, LogSynced, At
<1>2. Len(log) > 1 /\ Recorded(Len(log) - 1, job.by)
  BY <1>1 DEF Lines, JobLog
<1>3. Ordered'
  BY <1>1 DEF Lines, Ordered
<1>4. LastOpen'
  <2>1. log[Len(log)].part = "newline"
    BY <1>2, LogTyped DEF Recorded, Newline
  <2> QED BY <1>1, <2>1 DEF LastOpen
<1>5. ASSUME NEW i \in 1..(Len(log) - 1), NEW n \in Nat, n <= job.by,
             Recorded(i, n)
      PROVE  i > 1 => \/ log[i - 1].part = "newline"
                      \/ log[i - 1].by \notin reported'
  <2> SUFFICES ASSUME i > 1, log[i - 1].part # "newline"
               PROVE  log[i - 1].by \notin reported'
    OBVIOUS
  <2>1. log[i].by = n /\ log[i].part # "newline"
    BY <1>5 DEF Recorded, Line
  <2>2. i - 1 \in 1..Len(log) /\ i \in 1..Len(log) /\ i - 1 < i
    BY LogTyped
  <2>3. log[i - 1].by < n /\ log[i - 1].by \in Nat
    BY <2>1, <2>2, LogTyped DEF Lines, Ordered
  <2>4. log[i - 1].by \notin reported
    BY <1>5 DEF Recorded, Alone
  <2> QED BY <1>1, <1>5, <2>3, <2>4
<1>6. SyncedRecords'
  <2> SUFFICES ASSUME NEW n \in reported', n > lostLog
               PROVE  \E i \in 1..(Len(log) - 1) :
                         /\ log[i] = Line(n) /\ log[i + 1] = Newline(n)
                         /\ i > 1 => \/ log[i - 1].part = "newline"
                                     \/ log[i - 1].by \notin reported'
    BY <1>1 DEF SyncedRecords, Recorded, Alone, Line, Newline
  <2>1. CASE n = job.by
    <3>1. Len(log) - 1 \in 1..(Len(log) - 1)
      BY <1>2, LogTyped
    <3> QED BY <1>1, <1>2, <1>5, <2>1, <3>1 DEF Recorded
  <2>2. CASE n \in reported
    <3>1. PICK i \in 1..(logSynced - 1) : Recorded(i, n)
      BY <2>2 DEF Lines, SyncedRecords
    <3>2. i \in 1..(Len(log) - 1)
      BY <3>1, LogTyped
    <3>3. n \in Nat /\ n <= job.by
      BY <1>1, <2>2 DEF Bounds, FilesInv, TypeOK, Commit
    <3> QED BY <1>5, <3>1, <3>2, <3>3 DEF Recorded
  <2> QED BY <1>1, <2>1, <2>2
<1>7. JobLog'
  BY <1>1 DEF JobLog
<1> QED BY <1>3, <1>4, <1>6, <1>7 DEF Lines

(* A power loss takes a tail of the log, and never a synced record. *)
LEMMA TailLossKeepsLines ==
  ASSUME FilesInv, Bounds, Lines, log' \in LogSurvivors(TRUE),
         logSynced' = Len(log'), job' = None,
         UNCHANGED <<reported, lostLog>>
  PROVE  Lines'
<1>1. /\ Len(log) \in Nat /\ logSynced \in 0..Len(log)
      /\ \A i \in 1..Len(log) : log[i] \in Piece /\ log[i].by \in Nat
  BY LogTyped
<1>2. /\ Len(log') \in logSynced..Len(log)
      /\ \A i \in 1..Len(log') :
            \/ log'[i] = log[i]
            \/ /\ i > logSynced
               /\ log'[i] = [by |-> log[i].by, part |-> "torn"]
               /\ log[i].part = "line"
  BY LogSurvives DEF FilesInv, TypeOK
<1>3. \A i \in 1..Len(log') :
         /\ i \in 1..Len(log) /\ log'[i].by = log[i].by
         /\ log'[i].part # "newline" => log[i].part # "newline"
         /\ i <= logSynced => log'[i] = log[i]
  <2> SUFFICES ASSUME NEW i \in 1..Len(log')
               PROVE  /\ i \in 1..Len(log) /\ log'[i].by = log[i].by
                      /\ log'[i].part # "newline" => log[i].part # "newline"
                      /\ i <= logSynced => log'[i] = log[i]
    OBVIOUS
  <2>1. i \in 1..Len(log) /\ i \in Nat /\ logSynced \in Nat
    BY <1>1, <1>2
  <2>2. CASE log'[i] = log[i]
    BY <2>1, <2>2
  <2>3. CASE /\ i > logSynced
             /\ log'[i] = [by |-> log[i].by, part |-> "torn"]
             /\ log[i].part = "line"
    <3>1. log'[i].by = log[i].by /\ log[i].part # "newline"
      BY <2>3
    <3> QED BY <2>1, <2>3, <3>1
  <2> QED BY <1>2, <2>2, <2>3
<1>4. Ordered'
  BY <1>3 DEF Lines, Ordered
<1>5. LastOpen'
  <2> SUFFICES ASSUME Len(log') > 0, log'[Len(log')].part # "newline",
                      log'[Len(log')].by \in reported
               PROVE  FALSE
    BY DEF LastOpen
  <2> DEFINE last == Len(log')
             n == log[last].by
  <2>1. /\ last \in 1..Len(log) /\ last \in 1..Len(log')
        /\ log[last].part # "newline" /\ n \in reported
    BY <1>1, <1>2, <1>3
  <2>2. n > lostLog
    BY <2>1 DEF Bounds
  <2>3. PICK i \in 1..(logSynced - 1) : Recorded(i, n)
    BY <2>1, <2>2 DEF Lines, SyncedRecords
  <2>4. log[i + 1].by = n /\ log[i + 1].part = "newline"
    BY <2>3 DEF Recorded, Newline
  <2>5. i + 1 \in 1..Len(log) /\ i + 1 < last
    <3>1. i + 1 <= last /\ i + 1 \in 1..Len(log)
      BY <1>1, <1>2, <2>3
    <3>2. i + 1 # last
      BY <2>1, <2>4
    <3> QED BY <1>1, <2>1, <3>1, <3>2
  <2>6. log[i + 1].by < n
    BY <2>1, <2>5 DEF Lines, Ordered
  <2> QED BY <1>1, <2>1, <2>4, <2>6
<1>6. SyncedRecords'
  <2> SUFFICES ASSUME NEW n \in reported, n > lostLog
               PROVE  \E i \in 1..(Len(log') - 1) :
                         /\ log'[i] = Line(n) /\ log'[i + 1] = Newline(n)
                         /\ i > 1 => \/ log'[i - 1].part = "newline"
                                     \/ log'[i - 1].by \notin reported
    BY DEF SyncedRecords, Recorded, Alone, Line, Newline
  <2>1. PICK i \in 1..(logSynced - 1) : Recorded(i, n)
    BY DEF Lines, SyncedRecords
  <2>2. /\ i \in 1..(Len(log') - 1)
        /\ i \in 1..Len(log') /\ i + 1 \in 1..Len(log')
        /\ i <= logSynced /\ i + 1 <= logSynced
        /\ i > 1 => i - 1 \in 1..Len(log') /\ i - 1 <= logSynced
    BY <1>1, <1>2, <2>1
  <2>3. /\ log'[i] = log[i] /\ log'[i + 1] = log[i + 1]
        /\ i > 1 => log'[i - 1] = log[i - 1]
    BY <1>3, <2>2
  <2> QED BY <2>1, <2>2, <2>3 DEF Recorded, Alone
<1>7. JobLog'
  BY DEF JobLog
<1> QED BY <1>4, <1>5, <1>6, <1>7 DEF Lines

(* A power loss loses a tail of the log, or the log itself. *)
LEMMA PowerLossKeepsLines ==
  ASSUME FilesInv, Bounds, Lines, PowerLoss
  PROVE  Lines'
<1>1. PICK kept \in MayKeep(logFile) :
         /\ log' \in LogSurvivors(kept)
         /\ logSynced' = Len(log')
         /\ lostLog' = IF kept THEN lostLog ELSE commits
  BY DEF PowerLoss
<1>2. kept \in BOOLEAN /\ job' = None /\ reported' = reported
  BY <1>1 DEF PowerLoss, FilesInv, TypeOK, Entry, MayKeep
<1>3. CASE kept = TRUE
  BY <1>1, <1>2, <1>3, TailLossKeepsLines
<1>4. CASE kept = FALSE
  <2>1. log' = << >> /\ lostLog' = commits /\ Len(log') = 0
    BY <1>1, <1>4, EmptySeq DEF LogSurvivors
  <2>2. Ordered' /\ LastOpen' /\ JobLog'
    BY <1>2, <2>1 DEF Ordered, LastOpen, JobLog
  <2>3. \A n \in reported' : ~(n > lostLog')
    BY <1>2, <2>1 DEF Bounds, FilesInv, TypeOK, Commit
  <2>4. SyncedRecords'
    BY <2>3 DEF SyncedRecords
  <2> QED BY <2>2, <2>4 DEF Lines
<1> QED BY <1>2, <1>3, <1>4

(* Hence every step keeps the lines of the log, *)
LEMMA LinesStep ==
  FilesInv /\ Bounds /\ Lines /\ [Next]_vars => Lines'
<1> SUFFICES ASSUME FilesInv, Bounds, Lines, [Next]_vars PROVE Lines'
  OBVIOUS
<1>1. CASE Next
  BY <1>1, QuietKeepsLines, WriteLineKeepsLines, NewlineKeepsLines,
     SyncDataKeepsLines, PowerLossKeepsLines DEF Next
<1>2. CASE UNCHANGED vars
  BY <1>2
  DEF vars, disk, Lines, Ordered, LastOpen, SyncedRecords, JobLog, Recorded,
      Alone, Line, Newline
<1> QED BY <1>1, <1>2

IInv == FilesInv /\ Bounds /\ Told /\ Lines

(* The whole invariant holds at the start, *)
LEMMA InvInit == Init => IInv
<1>1. Init => Bounds /\ Told /\ Lines
  BY EmptySeq
  DEF Init, Bounds, Told, Lines, Ordered, LastOpen, SyncedRecords, JobLog
<1> QED BY <1>1, FilesInit DEF IInv

(* every step keeps it, *)
LEMMA InvStep == IInv /\ [Next]_vars => IInv'
  BY FilesStep, BoundsStep, ToldStep, LinesStep DEF IInv

(* and so it holds in every reachable state. *)
LEMMA InvAlways == Spec => []IInv
  BY InvInit, InvStep, PTL DEF Spec

(* append_audit after write_state: an event in the log is of a stage that  *)
(* the marker has durably reached, for every sequence of failures, deaths  *)
(* and power losses that leaves the plan directory itself.                 *)
THEOREM LogIsNeverAhead == Spec => []LogNeverAhead
<1>1. IInv => LogNeverAhead
  <2> SUFFICES ASSUME IInv, NEW i \in DOMAIN log, log[i].part = "line",
                      log[i].by > lostDir
               PROVE  /\ seen[Marker] # None
                      /\ seen[Marker].by >= log[i].by
    BY DEF LogNeverAhead, Marker
  <2>1. i \in 1..Len(log)
    BY LenProperties DEF IInv, FilesInv, TypeOK
  <2>2. seen[Marker] \in maybe[Marker]
    BY DEF IInv, FilesInv, Files, Marker, File
  <2> QED BY <2>1, <2>2 DEF IInv, Told, Reached
<1> QED BY InvAlways, <1>1, PTL

(* begin and transition: what returned Ok stays, in the marker and as a    *)
(* line of the log, unless the entry of the one or the other went.         *)
THEOREM ReportedAlwaysKept == Spec => []ReportedIsKept
<1>1. IInv => ReportedIsKept
  <2> SUFFICES ASSUME IInv, NEW n \in reported
               PROVE  /\ n > lostDir => /\ seen[Marker] # None
                                        /\ seen[Marker].by >= n
                      /\ n > lostLog => OnRecord(n)
    BY DEF ReportedIsKept, Marker
  <2>1. seen[Marker] \in maybe[Marker]
    BY DEF IInv, FilesInv, Files, Marker, File
  <2>2. n > lostDir => seen[Marker] # None /\ seen[Marker].by >= n
    BY <2>1 DEF IInv, Told, Reached
  <2>3. ASSUME n > lostLog PROVE OnRecord(n)
    <3>1. PICK i \in 1..(logSynced - 1) : Recorded(i, n)
      BY <2>3 DEF IInv, Lines, SyncedRecords
    <3>2. i \in DOMAIN log /\ i + 1 \in DOMAIN log
      BY <3>1, LenProperties DEF IInv, FilesInv, TypeOK
    <3> QED BY <3>1, <3>2 DEF OnRecord, Recorded, Alone, Line, Newline
  <2> QED BY <2>2, <2>3
<1> QED BY InvAlways, <1>1, PTL
=============================================================================
