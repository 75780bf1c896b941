---------------------------- MODULE StagingProofs ----------------------------
(***************************************************************************)
(* The safety of Staging, for every instance of its constants.  Each       *)
(* invariant is inductive relative to the ones before it:                  *)
(*                                                                         *)
(*   Typing         every variable has its type, and a call has what its   *)
(*                  step needs                                             *)
(*   Mutex          steps inside a call are the lock-holder's              *)
(*   Snapshot       what an admission scanned is what it would read now    *)
(*   SingleApply    past its check, an apply has found nothing applying    *)
(*   Verifiable     the files of a plan are written before its marker, and *)
(*                  removed only when it is over                           *)
(*   Named          documents are kept under their own id                  *)
(*   Kept           without retention, what a caller holds stays true      *)
(*   Decisions      an apply goes on with the plan that is staged, newer   *)
(*                  than all that its scan found                           *)
(*   AppliedStays   without retention, what was applied is still there     *)
(*   FinishedOrder  updated_at orders the terminal plans                   *)
(*   Budgeted       an eviction under way spares as many newer plans as    *)
(*                  its policy keeps                                       *)
(*                                                                         *)
(* AuditTrailMatches rests on Mutex and Verifiable, PromotedPlansComplete  *)
(* on Kept, NoReplay and the refinement of PlanLifecycle on SingleApply    *)
(* and Decisions, RetentionKeepsNewest on the last two.                    *)
(***************************************************************************)
EXTENDS Staging, FiniteSetTheorems, WellFoundedInduction, TLAPS

(* The steps of a call that may change a plan's stage. *)
Moving == {"check_new", "check_staged", "scan", "admit", "build", "write_plan",
           "write_sig", "write_marker", "advance", "commit", "audit"}

(* What a call is about, at each of its steps. *)
CallShape(p) ==
    LET c == call[p] IN
    /\ pc[p] \in Moving \cup {"put", "put_blob"} => c.plan \in PlanId
    /\ pc[p] \in Moving => c.to \in Stage
    /\ pc[p] \in {"check_new", "check_staged", "scan", "admit", "write_plan",
                  "write_sig", "write_marker"} => c.doc \in Doc
    /\ pc[p] = "commit" => c.seen.stage \in Stage /\ c.seen.doc \in Doc
    /\ pc[p] \in {"put", "put_blob"} => c.blob \in Blob

HandleShape(p) ==
    /\ pc[p] = "loading" => handle[p].plan \in PlanId
    /\ handle[p].doc # None => handle[p].plan \in PlanId

Shapes ==
    /\ \A id \in PlanId : Exists(id) => marker[id].doc \in Doc
    /\ \A p \in Proc : CallShape(p) /\ HandleShape(p)

Typing == TypeOK /\ Shapes

----------------------------------------------------------------------------
(* What the records of Staging are made of.                                *)

(* The values of a caller outside any call are of their types.             *)
LEMMA NullsTyped ==
    /\ NoCall \in Call /\ NoFacts \in Facts
    /\ NoHandle \in Handle /\ NoMarker \in Marker
  BY NoneAssumption DEF NoCall, Call, NoFacts, Facts, NoHandle, Handle,
                        NoMarker, Marker, Absent

(* Entering a call sets the caller's lock, call and step, nothing else. *)
LEMMA LockForTyped ==
    ASSUME TypeOK, NEW p \in Proc, NEW c \in Call, NEW step \in PcValue,
           LockFor(p, c, step)
    PROVE  TypeOK'
  BY DEF TypeOK, LockFor, Goto, disk, history

(* A step that only goes on changes nothing but the step.                  *)
LEMMA ProceedTyped ==
    ASSUME TypeOK, NEW p \in Proc, NEW from, NEW step \in PcValue,
           Proceed(p, from, step)
    PROVE  TypeOK'
  BY DEF TypeOK, Proceed, Goto, disk, history

(* Returning gives every field of the caller its idle value.               *)
LEMMA ReturnTyped ==
    ASSUME TypeOK, NEW p \in Proc, Return(p)
    PROVE  /\ lock' \in Proc \cup {None} /\ pc' \in [Proc -> PcValue]
           /\ call' \in [Proc -> Call] /\ facts' \in [Proc -> Facts]
           /\ victims' \in [Proc -> SUBSET PlanId]
  BY NullsTyped DEF TypeOK, Return, Goto, PcValue

(* Setting one field of a record keeps its type.                           *)
LEMMA FieldsTyped ==
    /\ \A c \in Call, d \in Doc : [c EXCEPT !.doc = d] \in Call
    /\ \A m \in Marker, to \in Stage : [m EXCEPT !.stage = to] \in Marker
    /\ \A c \in Call, m \in Marker : [c EXCEPT !.seen = m] \in Call
    /\ \A h \in Handle : [h EXCEPT !.verified = TRUE] \in Handle
  BY DEF Call, Marker, Handle

(* A scan gives an admission's facts, whatever the channel.                *)
LEMMA FactsTyped ==
    ASSUME Typing, NEW channel
    PROVE  ScannedFacts(channel) \in Facts
<1>. DEFINE applied == {id \in PlanId : marker[id].stage = "Applied"}
<1>1. \A id \in applied : marker[id].doc.seq \in Nat
  BY DocAssumption DEF Typing, Shapes, Exists, Absent, DocType
<1>. QED
  BY <1>1 DEF ScannedFacts, FactsOf, Facts

(* Every step keeps the types.                                             *)
LEMMA TypeStep ==
    ASSUME Typing, [Next]_vars PROVE TypeOK'
<1>. USE DEF Typing, Shapes
<1>1. ASSUME NEW p \in Proc, NEW d \in Doc,
             NEW kind \in {"begin", "begin_checked"}, BeginCall(p, d, kind)
      PROVE  TypeOK'
  <2>1. [NoCall EXCEPT !.kind = kind, !.plan = d.id, !.doc = d,
                    !.to = "Downloading"] \in Call
    BY <1>1, NullsTyped, DocAssumption, ParameterAssumption
    DEF NoCall, Call, DocType, Stage
  <2>. QED  BY <1>1, <2>1, LockForTyped DEF BeginCall, PcValue
<1>2. ASSUME NEW p \in Proc, ApplyCall(p)
      PROVE  TypeOK'
  <2>1. [NoCall EXCEPT !.kind = "apply", !.plan = handle[p].plan,
                    !.doc = handle[p].doc, !.to = "Applying"] \in Call
    BY <1>2, NullsTyped DEF ApplyCall, TypeOK, NoCall, Call, Handle, Stage
  <2>. QED  BY <1>2, <2>1, LockForTyped DEF ApplyCall, PcValue
<1>3. ASSUME NEW p \in Proc, NEW to \in TransitionTargets,
             TransitionCall(p, to)
      PROVE  TypeOK'
  <2>1. [NoCall EXCEPT !.kind = "transition", !.to = to,
                    !.plan = handle[p].plan] \in Call
    BY <1>3, NullsTyped, ParameterAssumption
    DEF TransitionCall, TypeOK, NoCall, Call, Handle
  <2>. QED  BY <1>3, <2>1, LockForTyped DEF TransitionCall, PcValue
<1>4. ASSUME NEW p \in Proc, NEW b \in Blob,
             PutCall(p, b)
      PROVE  TypeOK'
  <2>1. [NoCall EXCEPT !.kind = "put", !.plan = handle[p].plan,
                    !.blob = b] \in Call
    BY <1>4, NullsTyped DEF PutCall, TypeOK, NoCall, Call, Handle
  <2>. QED  BY <1>4, <2>1, LockForTyped DEF PutCall, PcValue
<1>5. ASSUME NEW p \in Proc, RetentionCall(p)
      PROVE  TypeOK'
  <2>1. [NoCall EXCEPT !.kind = "retain"] \in Call
    BY NullsTyped DEF NoCall, Call
  <2>. QED  BY <1>5, <2>1, LockForTyped DEF RetentionCall, PcValue
<1>6. ASSUME NEW p \in Proc, NEW id \in PlanId,
             LoadState(p, id)
      PROVE  TypeOK'
  BY <1>6, NullsTyped
  DEF LoadState, TypeOK, Goto, PcValue, HandleShape, Handle, NoHandle, disk,
      history
<1>7. ASSUME NEW p \in Proc, VerifyBlobs(p)
      PROVE  TypeOK'
  <2>1. [handle[p] EXCEPT !.verified = TRUE] \in Handle
    BY <1>7, FieldsTyped DEF TypeOK
  <2>. QED  BY <1>7, <2>1 DEF VerifyBlobs, TypeOK, disk, history
<1>8. ASSUME NEW p \in Proc, CheckNew(p)
      PROVE  TypeOK'
  BY <1>8, ProceedTyped DEF CheckNew, PcValue
<1>9. ASSUME NEW p \in Proc, CheckStaged(p)
      PROVE  TypeOK'
  BY <1>9, ProceedTyped DEF CheckStaged, PcValue
<1>10. ASSUME NEW p \in Proc, ScanPlans(p)
      PROVE  TypeOK'
  <2>1. ScannedFacts(ScanChannel(p)) \in Facts
    BY FactsTyped
  <2>. QED
    BY <1>10, <2>1 DEF ScanPlans, TypeOK, Goto, PcValue, disk, history
<1>11. ASSUME NEW p \in Proc, Admit(p)
      PROVE  TypeOK'
  BY <1>11, ProceedTyped DEF Admit, PcValue
<1>12. ASSUME NEW p \in Proc, Reenter(p)
      PROVE  TypeOK'
  BY <1>12, ReturnTyped DEF Reenter, TypeOK, Goto, PcValue, disk, history
<1>13. ASSUME NEW p \in Proc, BuildHandle(p)
      PROVE  TypeOK'
  <2>1. call[p] \in Call /\ planFile[call[p].plan] \in Doc
    BY <1>13 DEF BuildHandle, TypeOK, CallShape, Moving
  <2>2. [call[p] EXCEPT !.doc = planFile[call[p].plan]] \in Call
    BY <2>1, FieldsTyped
  <2>. QED
    BY <1>13, <2>2 DEF BuildHandle, TypeOK, Goto, PcValue, disk, history
<1>14. ASSUME NEW p \in Proc, WritePlan(p)
      PROVE  TypeOK'
  BY <1>14 DEF WritePlan, TypeOK, Goto, PcValue, CallShape, Moving, history
<1>15. ASSUME NEW p \in Proc, WriteSig(p)
      PROVE  TypeOK'
  BY <1>15 DEF WriteSig, TypeOK, Goto, PcValue, CallShape, Moving, history
<1>16. ASSUME NEW p \in Proc, WriteMarker(p)
      PROVE  TypeOK'
  <2>1. /\ call[p].plan \in PlanId
        /\ NewMarker(call[p].doc) \in Marker
        /\ NewMarker(call[p].doc).stage \notin Terminal
    BY <1>16, DocAssumption
    DEF WriteMarker, CallShape, Moving, NewMarker, Marker, DocType, Stage,
        Terminal
  <2>. QED
    BY <1>16, <2>1 DEF WriteMarker, TypeOK, WriteState, Goto, PcValue, history
<1>17. ASSUME NEW p \in Proc, CheckMove(p)
      PROVE  TypeOK'
  <2>1. [call[p] EXCEPT !.seen = marker[call[p].plan]] \in Call
    BY <1>17, FieldsTyped DEF CheckMove, TypeOK, CallShape, Moving
  <2>. QED
    BY <1>17, <2>1 DEF CheckMove, TypeOK, PcValue, Goto, disk, history
<1>18. ASSUME NEW p \in Proc, CommitMove(p)
      PROVE  TypeOK'
  <2>0. call[p].seen \in Marker /\ call[p].to \in Stage
    BY <1>18 DEF CommitMove, TypeOK, CallShape, Moving, Call
  <2>1. /\ call[p].seen.doc \in Doc
        /\ [call[p].seen EXCEPT !.stage = call[p].to] \in Marker
    BY <1>18, <2>0, FieldsTyped DEF CommitMove, CallShape
  <2>2. call[p].plan \in PlanId
    BY <1>18 DEF CommitMove, CallShape, Moving
  <2>3. Stamped(call[p].plan) \in SUBSET (PlanId \X PlanId)
    BY <2>2 DEF TypeOK, Stamped, Unordered
  <2>. QED
    BY <1>18, <2>1, <2>2, <2>3
    DEF CommitMove, TypeOK, WriteState, Goto, PcValue
<1>19. ASSUME NEW p \in Proc, AppendAudit(p)
      PROVE  TypeOK'
  <2>1. /\ call[p].plan \in PlanId /\ ToStage(call[p]) \in Stage
        /\ [plan |-> call[p].plan, doc |-> call[p].doc,
            verified |-> FALSE] \in Handle
    BY <1>19 DEF AppendAudit, TypeOK, CallShape, Moving, Call, Handle, ToStage
  <2>. QED  BY <1>19, <2>1, ReturnTyped DEF AppendAudit, TypeOK
<1>20. ASSUME NEW p \in Proc, CheckPut(p)
      PROVE  TypeOK'
  BY <1>20, ProceedTyped DEF CheckPut, PcValue
<1>21. ASSUME NEW p \in Proc, PutBlob(p)
      PROVE  TypeOK'
  BY <1>21, ReturnTyped
  DEF PutBlob, TypeOK, CallShape, Moving, Goto, PcValue, history
<1>22. ASSUME NEW p \in Proc, ScanForRetention(p)
      PROVE  TypeOK'
  <2>1. \A keep : BeyondBudget(keep) \subseteq PlanId
    BY DEF BeyondBudget
  <2>. QED
    BY <1>22, <2>1, ReturnTyped
    DEF ScanForRetention, TypeOK, PcValue, Goto, disk, history
<1>23. ASSUME NEW p \in Proc, NEW id \in PlanId,
             RemoveState(p, id)
      PROVE  TypeOK'
  BY <1>23, NullsTyped DEF RemoveState, TypeOK, PcValue, thread, history
<1>24. ASSUME NEW p \in Proc, NEW id \in PlanId,
             RemovePlanFile(p, id)
      PROVE  TypeOK'
  BY <1>24 DEF RemovePlanFile, TypeOK, PcValue, thread, history
<1>25. ASSUME NEW p \in Proc, NEW id \in PlanId,
             RemoveSigFile(p, id)
      PROVE  TypeOK'
  BY <1>25 DEF RemoveSigFile, TypeOK, PcValue, thread, history
<1>26. ASSUME NEW p \in Proc, NEW id \in PlanId,
             RemoveBlobs(p, id)
      PROVE  TypeOK'
  BY <1>26 DEF RemoveBlobs, TypeOK, PcValue, thread, history
<1>27. ASSUME NEW p \in Proc, NEW id \in PlanId,
             AuditEviction(p, id)
      PROVE  TypeOK'
  <2>1. Unordered(id) \subseteq newer
    BY DEF Unordered
  <2>. QED  BY <1>27, <2>1, ReturnTyped DEF AuditEviction, TypeOK, PcValue
<1>28. ASSUME NEW p \in Proc, LoadPlan(p)
      PROVE  TypeOK'
  BY <1>28, NullsTyped
  DEF LoadPlan, TypeOK, Goto, PcValue, HandleShape, Handle, NoHandle, disk,
      history
<1>29. ASSUME NEW p \in Proc, ReturnError(p)
      PROVE  TypeOK'
  BY <1>29, ReturnTyped DEF ReturnError, TypeOK, Unaudited, Goto, PcValue, disk
<1>30. ASSUME NEW p \in Proc, Crash(p)
      PROVE  TypeOK'
  BY <1>30, NullsTyped
  DEF Crash, TypeOK, PcValue, HandleShape, Handle, NoHandle, disk, Unaudited
<1>31. ASSUME NEW id \in PlanId, Rot(id)
      PROVE  TypeOK'
  BY <1>31 DEF Rot, TypeOK, thread, history
<1>32. CASE UNCHANGED vars
  BY <1>32 DEF vars, TypeOK
<1>. QED
  BY <1>1, <1>2, <1>3, <1>4, <1>5, <1>6, <1>7, <1>8, <1>9, <1>10, <1>11, <1>12,
      <1>13, <1>14, <1>15, <1>16, <1>17, <1>18, <1>19, <1>20, <1>21, <1>22,
      <1>23, <1>24, <1>25, <1>26, <1>27, <1>28, <1>29, <1>30,
     <1>31, <1>32 DEF Next, NewCall, Continue, EvictStep

(* Every step leaves in its call what the next step needs.                 *)
LEMMA ShapeStep ==
    ASSUME Typing, TypeOK', [Next]_vars PROVE Shapes'
<1>. USE DocAssumption, ParameterAssumption, NoneAssumption
     DEF Typing, TypeOK, Shapes, CallShape, HandleShape, Moving, Critical,
         PcValue, Exists, Readable, Goto, disk, thread, history, Absent,
         NoMarker, Stage, DocType
<1>1. ASSUME NEW p \in Proc, NEW d \in Doc,
             NEW kind \in {"begin", "begin_checked"}, BeginCall(p, d, kind)
      PROVE  Shapes'
  BY <1>1 DEF BeginCall, LockFor, NoCall
<1>2. ASSUME NEW p \in Proc, ApplyCall(p)
      PROVE  Shapes'
  <2>1. handle[p].doc \in Doc /\ handle[p].plan \in PlanId
    BY <1>2 DEF ApplyCall, Handle
  <2>. QED  BY <1>2, <2>1 DEF ApplyCall, LockFor, NoCall
<1>3. ASSUME NEW p \in Proc, NEW to \in TransitionTargets,
             TransitionCall(p, to)
      PROVE  Shapes'
  BY <1>3 DEF TransitionCall, LockFor, NoCall
<1>4. ASSUME NEW p \in Proc, NEW b \in Blob,
             PutCall(p, b)
      PROVE  Shapes'
  BY <1>4 DEF PutCall, LockFor, NoCall
<1>5. ASSUME NEW p \in Proc, RetentionCall(p)
      PROVE  Shapes'
  BY <1>5 DEF RetentionCall, LockFor, NoCall
<1>6. ASSUME NEW p \in Proc, NEW id \in PlanId,
             LoadState(p, id)
      PROVE  Shapes'
  BY <1>6 DEF LoadState, NoHandle
<1>7. ASSUME NEW p \in Proc, VerifyBlobs(p)
      PROVE  Shapes'
  BY <1>7 DEF VerifyBlobs
<1>8. ASSUME NEW p \in Proc, CheckNew(p)
      PROVE  Shapes'
  BY <1>8 DEF CheckNew, Proceed
<1>9. ASSUME NEW p \in Proc, CheckStaged(p)
      PROVE  Shapes'
  BY <1>9 DEF CheckStaged, Proceed
<1>10. ASSUME NEW p \in Proc, ScanPlans(p)
      PROVE  Shapes'
  BY <1>10 DEF ScanPlans
<1>11. ASSUME NEW p \in Proc, Admit(p)
      PROVE  Shapes'
  BY <1>11 DEF Admit, Proceed
<1>12. ASSUME NEW p \in Proc, Reenter(p)
      PROVE  Shapes'
  BY <1>12 DEF Reenter, Return
<1>13. ASSUME NEW p \in Proc, BuildHandle(p)
      PROVE  Shapes'
  BY <1>13 DEF BuildHandle
<1>14. ASSUME NEW p \in Proc, WritePlan(p)
      PROVE  Shapes'
  BY <1>14 DEF WritePlan
<1>15. ASSUME NEW p \in Proc, WriteSig(p)
      PROVE  Shapes'
  BY <1>15 DEF WriteSig
<1>16. ASSUME NEW p \in Proc, WriteMarker(p)
      PROVE  Shapes'
  BY <1>16 DEF WriteMarker, WriteState, NewMarker
<1>17. ASSUME NEW p \in Proc, CheckMove(p)
      PROVE  Shapes'
  <2>1. marker[call[p].plan] \in Marker
    BY <1>17 DEF CheckMove
  <2>. QED  BY <1>17, <2>1 DEF CheckMove, Marker
<1>18. ASSUME NEW p \in Proc, CommitMove(p)
      PROVE  Shapes'
  BY <1>18 DEF CommitMove, WriteState
<1>19. ASSUME NEW p \in Proc, AppendAudit(p)
      PROVE  Shapes'
  BY <1>19 DEF AppendAudit, Return
<1>20. ASSUME NEW p \in Proc, CheckPut(p)
      PROVE  Shapes'
  BY <1>20 DEF CheckPut, Proceed
<1>21. ASSUME NEW p \in Proc, PutBlob(p)
      PROVE  Shapes'
  BY <1>21 DEF PutBlob, Return
<1>22. ASSUME NEW p \in Proc, ScanForRetention(p)
      PROVE  Shapes'
  BY <1>22 DEF ScanForRetention, Return
<1>23. ASSUME NEW p \in Proc, NEW id \in PlanId,
             RemoveState(p, id)
      PROVE  Shapes'
  BY <1>23 DEF RemoveState
<1>24. ASSUME NEW p \in Proc, NEW id \in PlanId,
             RemovePlanFile(p, id)
      PROVE  Shapes'
  BY <1>24 DEF RemovePlanFile
<1>25. ASSUME NEW p \in Proc, NEW id \in PlanId,
             RemoveSigFile(p, id)
      PROVE  Shapes'
  BY <1>25 DEF RemoveSigFile
<1>26. ASSUME NEW p \in Proc, NEW id \in PlanId,
             RemoveBlobs(p, id)
      PROVE  Shapes'
  BY <1>26 DEF RemoveBlobs
<1>27. ASSUME NEW p \in Proc, NEW id \in PlanId,
             AuditEviction(p, id)
      PROVE  Shapes'
  BY <1>27 DEF AuditEviction, Return
<1>28. ASSUME NEW p \in Proc, LoadPlan(p)
      PROVE  Shapes'
  BY <1>28 DEF LoadPlan, NoHandle
<1>29. ASSUME NEW p \in Proc, ReturnError(p)
      PROVE  Shapes'
  BY <1>29 DEF ReturnError, Return
<1>30. ASSUME NEW p \in Proc, Crash(p)
      PROVE  Shapes'
  BY <1>30 DEF Crash, NoHandle
<1>31. ASSUME NEW id \in PlanId, Rot(id)
      PROVE  Shapes'
  BY <1>31 DEF Rot
<1>32. CASE UNCHANGED vars
  BY <1>32 DEF vars
<1>. HIDE DEF Typing, TypeOK, Shapes, CallShape, HandleShape, Moving,
              Critical, PcValue, Goto, disk, thread, history
<1>. QED
  BY <1>1, <1>2, <1>3, <1>4, <1>5, <1>6, <1>7, <1>8, <1>9, <1>10, <1>11, <1>12,
      <1>13, <1>14, <1>15, <1>16, <1>17, <1>18, <1>19, <1>20, <1>21, <1>22,
      <1>23, <1>24, <1>25, <1>26, <1>27, <1>28, <1>29, <1>30,
     <1>31, <1>32 DEF Next, NewCall, Continue, EvictStep

----------------------------------------------------------------------------

(* An empty area, and one left by an older version, are well-typed.        *)
LEMMA TypingInit == Init => Typing
<1>. SUFFICES ASSUME Init PROVE Typing
  OBVIOUS
<1>. USE DocAssumption, NoneAssumption
<1>1. PICK s \in {"Staged", "Applied"} :
        marker = [id \in PlanId |->
                    IF LegacyAt(id)
                      THEN [stage |-> s, channel |-> None,
                            doc |-> CHOOSE d \in LegacyDoc : d.id = id]
                      ELSE NoMarker]
  BY DEF Init
<1>2. \A id \in PlanId :
         IF LegacyAt(id)
           THEN marker[id].doc \in Doc /\ marker[id].stage = s
                /\ marker[id].channel = None
           ELSE marker[id] = NoMarker
  BY <1>1 DEF LegacyAt
<1>3. marker \in [PlanId -> Marker]
  BY <1>1, <1>2, NullsTyped DEF Marker, Stage, LegacyAt
<1>4. \A id \in PlanId : marker[id].stage \in Stage \cup {Absent}
  BY <1>3 DEF Marker
<1>5. planFile \in [PlanId -> Doc \cup {None}]
  BY <1>3 DEF Init, Marker
<1>6. blobs \in [PlanId -> SUBSET Blob]
  BY <1>2 DEF Init, DocType
<1>7. everApplied \in SUBSET Doc
  <2>1. \A id \in PlanId :
           marker[id].stage = "Applied" => marker[id].doc \in Doc
    BY <1>2 DEF NoMarker, Absent
  <2>. QED  BY <2>1 DEF Init
<1>8. TypeOK
  <2>1. /\ sigFile \in [PlanId -> Doc \cup {None}]
        /\ audited \in [PlanId -> Stage \cup {Absent}]
        /\ corrupt \in SUBSET PlanId /\ gap \in SUBSET PlanId
        /\ newer \in SUBSET (PlanId \X PlanId)
        /\ lock \in Proc \cup {None}
    BY <1>4, <1>5 DEF Init
  <2>2. /\ pc \in [Proc -> PcValue] /\ call \in [Proc -> Call]
        /\ facts \in [Proc -> Facts] /\ victims \in [Proc -> SUBSET PlanId]
        /\ handle \in [Proc -> Handle]
    BY NullsTyped DEF Init, PcValue
  <2>. QED  BY <1>3, <1>5, <1>6, <1>7, <2>1, <2>2 DEF TypeOK
<1>9. Shapes
  <2>1. \A id \in PlanId : Exists(id) => marker[id].doc \in Doc
    BY <1>2 DEF Exists, NoMarker
  <2>2. \A p \in Proc : CallShape(p) /\ HandleShape(p)
    BY DEF Init, CallShape, HandleShape, Moving, NoHandle
  <2>. QED  BY <2>1, <2>2 DEF Shapes
<1>. QED  BY <1>8, <1>9 DEF Typing

(* The two together are inductive.                                         *)
LEMMA TypingStep == Typing /\ [Next]_vars => Typing'
  BY TypeStep, ShapeStep DEF Typing

(* Every variable keeps its type in every reachable state.                 *)
THEOREM TypeCorrect == Spec => []TypeOK
<1>1. Typing /\ [Next]_vars => Typing'
  BY TypingStep
<1>2. Typing => TypeOK
  BY DEF Typing
<1>. QED  BY TypingInit, <1>1, <1>2, PTL DEF Spec

----------------------------------------------------------------------------
(* A thread is inside a call that takes the lock iff it holds the lock. *)
Mutex == \A p \in Proc : pc[p] \in Critical <=> lock = p

(* Every step either enters a free lock, stays inside it or leaves it.     *)
LEMMA MutexStep ==
    ASSUME Typing, Mutex, [Next]_vars PROVE Mutex'
<1>. USE NoneAssumption DEF Typing, TypeOK, Mutex, Critical, PcValue, Goto
<1>1. ASSUME NEW p \in Proc, NEW c, NEW step \in Critical, LockFor(p, c, step)
      PROVE  Mutex'
  BY <1>1 DEF LockFor
<1>2. ASSUME NEW p \in Proc, pc[p] \in Critical, Return(p)
      PROVE  Mutex'
  BY <1>2 DEF Return
<1>3. ASSUME NEW p \in Proc, pc[p] \in Critical, NEW step \in Critical,
             Goto(p, step), lock' = lock
      PROVE  Mutex'
  BY <1>3
<1>4. ASSUME NEW p \in Proc, pc[p] \notin Critical,
             NEW step \in {"idle", "loading"}, Goto(p, step), lock' = lock
      PROVE  Mutex'
  BY <1>4
<1>5. ASSUME NEW p \in Proc, Crash(p) PROVE Mutex'
  BY <1>5 DEF Crash
<1>6. ASSUME UNCHANGED <<lock, pc>> PROVE Mutex'
  BY <1>6
<1>7. ASSUME NEW p \in Proc, NewCall(p) PROVE Mutex'
  <2>1. CASE \E c, step : step \in Critical /\ LockFor(p, c, step)
    BY <1>1, <2>1
  <2>2. ASSUME NEW id \in PlanId, LoadState(p, id) PROVE Mutex'
    BY <1>4, <2>2 DEF LoadState, disk
  <2>3. CASE VerifyBlobs(p)
    BY <1>6, <2>3 DEF VerifyBlobs
  <2>. QED
    BY <1>7, <2>1, <2>2, <2>3
    DEF NewCall, BeginCall, ApplyCall, TransitionCall, PutCall, RetentionCall
<1>8. ASSUME NEW p \in Proc, Continue(p) PROVE Mutex'
  <2>1. CASE CheckNew(p) \/ CheckStaged(p) \/ Admit(p) \/ CheckPut(p)
    BY <1>3, <2>1 DEF CheckNew, CheckStaged, Admit, CheckPut, Proceed
  <2>2. CASE ScanPlans(p) \/ BuildHandle(p) \/ CheckMove(p)
    BY <1>3, <2>2 DEF ScanPlans, BuildHandle, CheckMove
  <2>3. CASE WritePlan(p) \/ WriteSig(p) \/ WriteMarker(p) \/ CommitMove(p)
    BY <1>3, <2>3 DEF WritePlan, WriteSig, WriteMarker, CommitMove
  <2>4. CASE AppendAudit(p) \/ PutBlob(p) \/ ReturnError(p)
    BY <1>2, <2>4 DEF AppendAudit, PutBlob, ReturnError
  <2>5. CASE Reenter(p)
    BY <1>2, <1>3, <2>5 DEF Reenter
  <2>6. CASE ScanForRetention(p)
    BY <1>2, <1>3, <2>6 DEF ScanForRetention
  <2>7. ASSUME NEW id \in PlanId, AuditEviction(p, id) PROVE Mutex'
    BY <1>2, <1>6, <2>7 DEF AuditEviction
  <2>8. ASSUME NEW id \in PlanId,
               \/ RemoveState(p, id) \/ RemovePlanFile(p, id)
               \/ RemoveSigFile(p, id) \/ RemoveBlobs(p, id)
        PROVE  Mutex'
    BY <1>6, <2>8
    DEF RemoveState, RemovePlanFile, RemoveSigFile, RemoveBlobs, thread
  <2>9. CASE LoadPlan(p)
    BY <1>4, <2>9 DEF LoadPlan
  <2>. QED
    BY <1>8, <2>1, <2>2, <2>3, <2>4, <2>5, <2>6, <2>7, <2>8, <2>9
    DEF Continue, EvictStep
<1>9. ASSUME NEW id \in PlanId, Rot(id) PROVE Mutex'
  BY <1>6, <1>9 DEF Rot, thread
<1>10. CASE UNCHANGED vars
  BY <1>6, <1>10 DEF vars
<1>. QED  BY <1>5, <1>7, <1>8, <1>9, <1>10 DEF Next

----------------------------------------------------------------------------

(* The steps from an admission's scan to its commit. *)
Deciding == {"admit", "build", "write_plan", "write_sig", "write_marker",
             "advance", "commit"}

Fresh(p) ==
    pc[p] \in Deciding /\ call[p].kind \in {"begin_checked", "apply"}
      => facts[p] = ScannedFacts(IF call[p].kind = "apply"
                                   THEN EffectiveChannel(call[p].plan)
                                   ELSE call[p].doc.channel)

(* Which calls reach which steps, what they move a plan to, and that a plan *)
(* being begun is not there yet.                                            *)
KindShape(p) ==
    LET c == call[p] IN
    /\ pc[p] \in {"check_new", "write_plan", "write_sig", "write_marker"}
         => c.kind \in {"begin", "begin_checked"}
    /\ pc[p] \in {"check_staged", "build"} => c.kind = "apply"
    /\ pc[p] \in {"scan", "admit"} => c.kind \in {"begin_checked", "apply"}
    /\ pc[p] \in {"advance", "commit"} => c.kind \in {"apply", "transition"}
    /\ pc[p] \in Moving =>
         /\ c.kind \in {"begin", "begin_checked"} => c.to = "Downloading"
         /\ c.kind = "transition" => c.to \in TransitionTargets
         /\ c.kind = "apply" => c.to = "Applying"
    /\ \/ pc[p] \in {"write_plan", "write_sig", "write_marker"}
       \/ pc[p] \in {"scan", "admit"} /\ c.kind = "begin_checked"
       => ~ Exists(c.plan)

Snapshot == \A p \in Proc : Fresh(p) /\ KindShape(p)

(* While p is inside the lock, nobody else is.                             *)
LEMMA OthersOutside ==
    ASSUME Mutex, NEW p \in Proc, pc[p] \in Critical
    PROVE  \A q \in Proc \ {p} : pc[q] \notin Critical
  BY DEF Mutex

(* Outside the lock there is no snapshot to keep.                          *)
LEMMA SnapshotOutside ==
    ASSUME NEW q \in Proc, pc[q]' \notin Critical
    PROVE  Fresh(q)' /\ KindShape(q)'
  BY DEF Fresh, KindShape, Critical, PcValue, Deciding, Moving

(* What a scan reads is in the markers and the plan.json files.            *)
LEMMA SameScan ==
    ASSUME marker' = marker, planFile' = planFile
    PROVE  /\ \A channel : ScannedFacts(channel)' = ScannedFacts(channel)
           /\ \A id : EffectiveChannel(id)' = EffectiveChannel(id)
           /\ \A id : Exists(id)' = Exists(id)
  BY DEF ScannedFacts, FactsOf, EffectiveChannel, Exists

(* A step of p that leaves the markers and plan.json alone. *)
LEMMA SnapshotKept ==
    ASSUME Typing, Snapshot, NEW q \in Proc,
           marker' = marker, planFile' = planFile,
           pc[q]' = pc[q], call[q]' = call[q], facts[q]' = facts[q]
    PROVE  Fresh(q)' /\ KindShape(q)'
<1>1. Fresh(q)'
  BY SameScan DEF Snapshot, Fresh, Deciding
<1>2. KindShape(q)'
  BY SameScan DEF Snapshot, KindShape
<1>. QED  BY <1>1, <1>2

(* Outside the lock, the only step of a call is load's second read. *)
LEMMA ContinueOutside ==
    ASSUME NEW p \in Proc, pc[p] \notin Critical, Continue(p)
    PROVE  LoadPlan(p)
  BY DEF Continue, CheckNew, CheckStaged, ScanPlans, Admit, Reenter,
      BuildHandle,
      WritePlan, WriteSig, WriteMarker, CheckMove, CommitMove, AppendAudit,
      CheckPut, PutBlob, ScanForRetention, EvictStep, RemoveState,
      RemovePlanFile, RemoveSigFile, RemoveBlobs, AuditEviction, ReturnError,
      Proceed, Critical, PcValue

(* No step makes the snapshot of an admission stale.                       *)
LEMMA SnapshotStep ==
    ASSUME Typing, Mutex, Snapshot, [Next]_vars PROVE Snapshot'
<1>. USE NoneAssumption DEF Typing, TypeOK
<1>. DEFINE Good(q) == Fresh(q) /\ KindShape(q)
<1>1. ASSUME NEW p \in Proc, NewCall(p) PROVE Snapshot'
  <2>1. \A q \in Proc \ {p} : Good(q)'
    <3>1. marker' = marker /\ planFile' = planFile
      BY <1>1 DEF NewCall, BeginCall, ApplyCall, TransitionCall, PutCall,
         RetentionCall, LoadState, VerifyBlobs, LockFor, disk
    <3>2. \A q \in Proc \ {p} :
            pc[q]' = pc[q] /\ call[q]' = call[q] /\ facts[q]' = facts[q]
      BY <1>1 DEF NewCall, BeginCall, ApplyCall, TransitionCall, PutCall,
         RetentionCall, LoadState, VerifyBlobs, LockFor, Goto
    <3>. QED  BY <3>1, <3>2, SnapshotKept
  <2>2. Good(p)'
    <3>. USE <1>1 DEF NewCall, Good, Fresh, KindShape, Deciding, Moving, Goto
    <3>1. ASSUME NEW d \in Doc, NEW kind \in {"begin", "begin_checked"},
                 BeginCall(p, d, kind)
          PROVE  Good(p)'
      BY <3>1 DEF BeginCall, LockFor, NoCall
    <3>2. CASE ApplyCall(p)
      BY <3>2 DEF ApplyCall, LockFor, NoCall
    <3>3. ASSUME NEW to \in TransitionTargets, TransitionCall(p, to)
          PROVE  Good(p)'
      BY <3>3 DEF TransitionCall, LockFor, NoCall
    <3>4. ASSUME NEW b \in Blob, PutCall(p, b) PROVE Good(p)'
      BY <3>4 DEF PutCall, LockFor, NoCall
    <3>5. CASE RetentionCall(p)
      BY <3>5 DEF RetentionCall, LockFor, NoCall
    <3>6. ASSUME NEW id \in PlanId, LoadState(p, id) PROVE Good(p)'
      BY <3>6 DEF LoadState
    <3>7. CASE VerifyBlobs(p)
      BY <3>7 DEF VerifyBlobs
    <3>. QED  BY <3>1, <3>2, <3>3, <3>4, <3>5, <3>6, <3>7
  <2>. QED  BY <2>1, <2>2 DEF Snapshot
<1>2. ASSUME NEW p \in Proc, pc[p] \in Critical, Continue(p)
      PROVE  Snapshot'
  <2>1. \A q \in Proc \ {p} : Good(q)'
    <3>1. \A q \in Proc \ {p} : pc[q]' = pc[q]
      BY <1>2 DEF Continue, CheckNew, CheckStaged, ScanPlans, Admit, Reenter,
         BuildHandle, WritePlan, WriteSig, WriteMarker, CheckMove, CommitMove,
         AppendAudit, CheckPut, PutBlob, ScanForRetention, EvictStep,
         RemoveState, RemovePlanFile, RemoveSigFile, RemoveBlobs,
         AuditEviction, LoadPlan, ReturnError, Proceed, Return, Goto, thread
    <3>. QED  BY <1>2, <3>1, OthersOutside, SnapshotOutside
  <2>2. Good(p)'
    <3>. USE DEF Goto, disk
    <3>1. ASSUME Return(p) PROVE Good(p)'
      BY <3>1, SnapshotOutside DEF Return, Critical
    <3>2. CASE CheckNew(p) \/ CheckStaged(p) \/ Admit(p) \/ CheckPut(p)
      BY <1>2, <3>2, SameScan
      DEF CheckNew, CheckStaged, Admit, CheckPut, Proceed, Snapshot,
          Good, Fresh, KindShape, Deciding, Moving, PcValue
    <3>3. CASE ScanPlans(p)
      BY <1>2, <3>3, SameScan
      DEF ScanPlans, ScanChannel, Snapshot, Good, Fresh, KindShape, Deciding,
          Moving
    <3>4. CASE Reenter(p)
      BY <1>2, <3>1, <3>4 DEF Reenter, Good, Fresh, KindShape, Deciding, Moving
    <3>5. CASE BuildHandle(p)
      BY <1>2, <3>5, SameScan
      DEF BuildHandle, Snapshot, Good, Fresh, KindShape, Deciding, Moving
    <3>6. CASE WritePlan(p)
      <4>1. ~ Exists(call[p].plan) /\ pc[p] = "write_plan"
        BY <3>6 DEF WritePlan, Snapshot, KindShape
      <4>2. \A id \in PlanId : Exists(id) =>
              EffectiveChannel(id)' = EffectiveChannel(id)
        BY <3>6, <4>1 DEF WritePlan, EffectiveChannel
      <4>3. ASSUME NEW channel
            PROVE  ScannedFacts(channel)' = ScannedFacts(channel)
        <5>. DEFINE applied == {id \in PlanId : marker[id].stage = "Applied"}
        <5>1. marker' = marker
          BY <3>6 DEF WritePlan
        <5>2. {id \in applied : EffectiveChannel(id)' = channel}
                = {id \in applied : EffectiveChannel(id) = channel}
          BY <4>2 DEF Exists, Absent
        <5>3. ScannedFacts(channel)' =
                [applying |-> {id \in PlanId : marker[id].stage = "Applying"},
                 seqs |-> {marker[id].doc.seq :
                   id \in {i \in applied : EffectiveChannel(i)' = channel}},
                 ids |-> applied]
          BY <5>1 DEF ScannedFacts, FactsOf
        <5>. QED  BY <5>2, <5>3 DEF ScannedFacts, FactsOf
      <4>. QED
        BY <3>6, <4>1, <4>3
        DEF WritePlan, Snapshot, Good, Fresh, KindShape, Deciding, Moving,
            Exists
    <3>7. CASE WriteSig(p)
      BY <1>2, <3>7, SameScan
      DEF WriteSig, Snapshot, Good, Fresh, KindShape, Deciding, Moving
    <3>8. CASE WriteMarker(p) \/ CommitMove(p)
      BY <1>2, <3>8
      DEF WriteMarker, CommitMove, Snapshot, Good, Fresh, KindShape, Deciding,
          Moving
    <3>9. CASE CheckMove(p)
      BY <1>2, <3>9, SameScan
      DEF CheckMove, Snapshot, Good, Fresh, KindShape, Deciding, Moving
    <3>10. CASE AppendAudit(p) \/ PutBlob(p) \/ ReturnError(p)
      BY <3>1, <3>10 DEF AppendAudit, PutBlob, ReturnError
    <3>11. CASE ScanForRetention(p)
      BY <3>1, <3>11
      DEF ScanForRetention, Good, Fresh, KindShape, Deciding, Moving
    <3>12. CASE EvictStep(p)
      BY <3>1, <3>12
      DEF EvictStep, RemoveState, RemovePlanFile, RemoveSigFile, RemoveBlobs,
          AuditEviction, thread, Good, Fresh, KindShape, Deciding, Moving
    <3>. QED
      BY <1>2, <3>2, <3>3, <3>4, <3>5, <3>6, <3>7, <3>8, <3>9, <3>10, <3>11,
         <3>12 DEF Continue, LoadPlan, Critical
  <2>. QED  BY <2>1, <2>2 DEF Snapshot
<1>3. ASSUME NEW p \in Proc, LoadPlan(p) PROVE Snapshot'
  <2>1. \A q \in Proc \ {p} : Good(q)'
    BY <1>3, SnapshotKept DEF LoadPlan, Goto, disk
  <2>2. Good(p)'
    BY <1>3, SnapshotOutside DEF LoadPlan, Goto, Critical
  <2>. QED  BY <2>1, <2>2 DEF Snapshot
<1>4. ASSUME NEW p \in Proc, Crash(p) PROVE Snapshot'
  <2>1. \A q \in Proc \ {p} : Good(q)'
    BY <1>4, SnapshotKept DEF Crash, disk
  <2>2. Good(p)'
    BY <1>4, SnapshotOutside DEF Crash, Critical
  <2>. QED  BY <2>1, <2>2 DEF Snapshot
<1>5. ASSUME NEW id \in PlanId, Rot(id) PROVE Snapshot'
  BY <1>5, SnapshotKept DEF Rot, thread, Snapshot
<1>6. CASE UNCHANGED vars
  BY <1>6, SnapshotKept DEF vars, Snapshot
<1>. QED
  BY <1>1, <1>2, <1>3, <1>4, <1>5, <1>6, ContinueOutside DEF Next

----------------------------------------------------------------------------

(* Three steps write or remove a marker.                                   *)
LEMMA MarkerWriters ==
    ASSUME [Next]_vars
    PROVE  \/ marker' = marker
           \/ \E p \in Proc : WriteMarker(p) \/ CommitMove(p)
           \/ \E p \in Proc, id \in PlanId : RemoveState(p, id)
<1>1. ASSUME NEW p \in Proc, NewCall(p) PROVE marker' = marker
  BY <1>1
  DEF NewCall, BeginCall, ApplyCall, TransitionCall, PutCall, RetentionCall,
      LoadState, VerifyBlobs, LockFor, disk
<1>2. ASSUME NEW p \in Proc, EvictStep(p)
      PROVE  marker' = marker \/ \E id \in PlanId : RemoveState(p, id)
  BY <1>2
  DEF EvictStep, RemovePlanFile, RemoveSigFile, RemoveBlobs, AuditEviction
<1>3. ASSUME NEW p \in Proc, Continue(p)
      PROVE  \/ marker' = marker
             \/ WriteMarker(p) \/ CommitMove(p) \/ EvictStep(p)
  BY <1>3
  DEF Continue, CheckNew, CheckStaged, ScanPlans, Admit, Reenter, BuildHandle,
      WritePlan, WriteSig, CheckMove, AppendAudit, CheckPut, PutBlob,
      ScanForRetention, LoadPlan, ReturnError, Proceed, disk
<1>. QED  BY <1>1, <1>2, <1>3 DEF Next, Crash, Rot, disk, vars

(* Past the single-flight check, the scan found nothing applying. *)
Alone(p) ==
    pc[p] \in {"build", "advance", "commit"} /\ call[p].kind = "apply"
      => facts[p].applying = {}

SingleApply == AtMostOneApplying /\ \A p \in Proc : Alone(p)

(* Only an admission with nothing applying gets past its check.            *)
LEMMA AloneStep ==
    ASSUME Typing, Snapshot, SingleApply, [Next]_vars, NEW q \in Proc
    PROVE  Alone(q)'
<1>. USE DEF Typing, TypeOK, Alone, Goto
<1>1. CASE pc[q]' = pc[q] /\ call[q]' = call[q] /\ facts[q]' = facts[q]
  BY <1>1 DEF SingleApply
<1>2. CASE pc[q]' \notin {"build", "advance", "commit"}
  BY <1>2
<1>3. CASE Admit(q)
  BY <1>3 DEF Admit, SingleFlight, Proceed
<1>4. CASE BuildHandle(q)
  BY <1>4 DEF BuildHandle, SingleApply
<1>5. CASE CheckMove(q)
  BY <1>5 DEF CheckMove, SingleApply
<1>6. ASSUME NEW to \in TransitionTargets, TransitionCall(q, to)
      PROVE  Alone(q)'
  BY <1>6 DEF TransitionCall, LockFor, NoCall
<1>7. ASSUME NEW p \in Proc \ {q}, NewCall(p) \/ Continue(p) \/ Crash(p)
      PROVE  Alone(q)'
  <2>1. CASE NewCall(p)
    BY <1>1, <2>1
    DEF NewCall, BeginCall, ApplyCall, TransitionCall, PutCall, RetentionCall,
        LoadState, VerifyBlobs, LockFor
  <2>2. CASE EvictStep(p)
    BY <1>1, <2>2
    DEF EvictStep, RemoveState, RemovePlanFile, RemoveSigFile, RemoveBlobs,
        AuditEviction, Return, thread
  <2>3. CASE Continue(p) /\ ~ EvictStep(p)
    BY <1>1, <2>3
    DEF Continue, CheckNew, CheckStaged, ScanPlans, Admit, Reenter,
        BuildHandle, WritePlan, WriteSig, WriteMarker, CheckMove, CommitMove,
        AppendAudit, CheckPut, PutBlob, ScanForRetention, LoadPlan,
        ReturnError, Proceed, Return
  <2>. QED  BY <1>1, <1>7, <2>1, <2>2, <2>3 DEF Crash
<1>8. ASSUME NewCall(q) PROVE Alone(q)'
  BY <1>1, <1>2, <1>6, <1>8
  DEF NewCall, BeginCall, ApplyCall, PutCall, RetentionCall, LoadState,
      VerifyBlobs, LockFor
<1>9. ASSUME Continue(q) PROVE Alone(q)'
  <2>1. CASE EvictStep(q)
    BY <1>2, <2>1
    DEF EvictStep, RemoveState, RemovePlanFile, RemoveSigFile, RemoveBlobs,
        AuditEviction, Return, thread
  <2>2. CASE CheckNew(q) \/ CheckStaged(q) \/ ScanPlans(q) \/ CheckPut(q)
    BY <1>2, <2>2 DEF CheckNew, CheckStaged, ScanPlans, CheckPut, Proceed
  <2>3. CASE WritePlan(q) \/ WriteSig(q) \/ WriteMarker(q) \/ LoadPlan(q)
    BY <1>2, <2>3 DEF WritePlan, WriteSig, WriteMarker, LoadPlan
  <2>4. CASE CommitMove(q) \/ ScanForRetention(q) \/ Reenter(q)
    BY <1>2, <2>4 DEF CommitMove, ScanForRetention, Reenter, Return
  <2>5. CASE AppendAudit(q) \/ PutBlob(q) \/ ReturnError(q)
    BY <1>2, <2>5 DEF AppendAudit, PutBlob, ReturnError, Return
  <2>. QED
    BY <1>3, <1>4, <1>5, <1>9, <2>1, <2>2, <2>3, <2>4, <2>5 DEF Continue
<1>10. ASSUME Crash(q) PROVE Alone(q)'
  BY <1>2, <1>10 DEF Crash
<1>. QED  BY <1>1, <1>7, <1>8, <1>9, <1>10 DEF Next, Rot, vars, thread

(* So the commit to Applying finds nothing applying.                       *)
LEMMA SingleApplyStep ==
    ASSUME "Applying" \notin TransitionTargets,
           Typing, Snapshot, SingleApply, [Next]_vars
    PROVE  SingleApply'
<1>. USE DEF Typing, TypeOK
<1>1. AtMostOneApplying'
  <2>1. CASE marker' = marker
    BY <2>1 DEF SingleApply, AtMostOneApplying
  <2>2. ASSUME NEW p \in Proc, WriteMarker(p) PROVE AtMostOneApplying'
    BY <2>2
    DEF SingleApply, AtMostOneApplying, WriteMarker, WriteState, NewMarker
  <2>3. ASSUME NEW p \in Proc, NEW id \in PlanId, RemoveState(p, id)
        PROVE  AtMostOneApplying'
    BY <2>3 DEF SingleApply, AtMostOneApplying, RemoveState, NoMarker, Absent
  <2>4. ASSUME NEW p \in Proc, CommitMove(p) PROVE AtMostOneApplying'
    <3>1. /\ marker' = [marker EXCEPT ![call[p].plan] =
                          [call[p].seen EXCEPT !.stage = call[p].to]]
          /\ pc[p] = "commit" /\ call[p].seen \in Marker
      BY <2>4 DEF CommitMove, WriteState, Call
    <3>2. [call[p].seen EXCEPT !.stage = call[p].to].stage = call[p].to
      BY <3>1 DEF Marker
    <3>3. CASE call[p].to # "Applying"
      BY <3>1, <3>2, <3>3 DEF SingleApply, AtMostOneApplying
    <3>4. CASE call[p].to = "Applying"
      <4>1. call[p].kind = "apply"
        BY <3>1, <3>4 DEF Snapshot, KindShape, Moving
      <4>2. facts[p].applying = {} /\ \E ch : facts[p] = ScannedFacts(ch)
        BY <3>1, <4>1 DEF SingleApply, Alone, Snapshot, Fresh, Deciding
      <4>3. \A id \in PlanId : marker[id].stage # "Applying"
        BY <4>2 DEF ScannedFacts, FactsOf
      <4>. QED  BY <3>1, <4>3 DEF AtMostOneApplying
    <3>. QED  BY <3>3, <3>4
  <2>. QED  BY <2>1, <2>2, <2>3, <2>4, MarkerWriters
<1>. QED  BY <1>1, AloneStep DEF SingleApply

----------------------------------------------------------------------------

(* The files a call has written so far, the marker it has read, and that    *)
(* what it evicts is over.                                                  *)
Ready(p) ==
    LET c == call[p] IN
    /\ pc[p] \in {"write_sig", "write_marker"} => planFile[c.plan] = c.doc
    /\ pc[p] = "write_marker" => sigFile[c.plan] = c.doc
    /\ pc[p] = "commit" => /\ c.seen = marker[c.plan]
                           /\ IsValidTransition(c.seen.stage, c.to)
    /\ pc[p] = "audit" => marker[c.plan].stage = c.to
    /\ pc[p] # "evict" => victims[p] = {}
    /\ \A id \in victims[p] : marker[id].stage \notin Active

Verifiable == ActivePlanVerifiable /\ \A p \in Proc : Ready(p)

(* Seven steps write or remove a marker, a plan or a signature.            *)
LEMMA FileWriters ==
    ASSUME [Next]_vars
    PROVE  \/ UNCHANGED <<marker, planFile, sigFile>>
           \/ \E p \in Proc : \/ WritePlan(p) \/ WriteSig(p)
                              \/ WriteMarker(p) \/ CommitMove(p)
           \/ \E p \in Proc, id \in PlanId :
                 \/ RemoveState(p, id) \/ RemovePlanFile(p, id)
                 \/ RemoveSigFile(p, id)
<1>1. ASSUME NEW p \in Proc, NewCall(p)
      PROVE  UNCHANGED <<marker, planFile, sigFile>>
  BY <1>1
  DEF NewCall, BeginCall, ApplyCall, TransitionCall, PutCall, RetentionCall,
      LoadState, VerifyBlobs, LockFor, disk
<1>2. ASSUME NEW p \in Proc, EvictStep(p)
      PROVE  \/ UNCHANGED <<marker, planFile, sigFile>>
             \/ \E id \in PlanId : \/ RemoveState(p, id)
                                   \/ RemovePlanFile(p, id)
                                   \/ RemoveSigFile(p, id)
  BY <1>2 DEF EvictStep, RemoveBlobs, AuditEviction
<1>3. ASSUME NEW p \in Proc, Continue(p)
      PROVE  \/ UNCHANGED <<marker, planFile, sigFile>>
             \/ WritePlan(p) \/ WriteSig(p) \/ WriteMarker(p) \/ CommitMove(p)
             \/ EvictStep(p)
  BY <1>3
  DEF Continue, CheckNew, CheckStaged, ScanPlans, Admit, Reenter, BuildHandle,
      CheckMove, AppendAudit, CheckPut, PutBlob,
      ScanForRetention, LoadPlan, ReturnError, Proceed, disk
<1>. QED  BY <1>1, <1>2, <1>3 DEF Next, Crash, Rot, disk, vars

(* Outside the lock nothing is half-written and nothing is to evict.       *)
LEMMA ReadyOutside ==
    ASSUME NEW q \in Proc, pc[q]' \notin Critical, victims[q]' = {}
    PROVE  Ready(q)'
  BY DEF Ready, Critical, PcValue

(* A step of another caller that leaves the files alone.                   *)
LEMMA ReadyKept ==
    ASSUME NEW q \in Proc, Ready(q), UNCHANGED <<marker, planFile, sigFile>>,
           pc[q]' = pc[q], call[q]' = call[q], victims[q]' = victims[q]
    PROVE  Ready(q)'
  BY DEF Ready

(* The files of a plan are written in order, and evicted once it is over.  *)
LEMMA ReadyStep ==
    ASSUME Typing, Mutex, Snapshot, Verifiable, [Next]_vars
    PROVE  \A q \in Proc : Ready(q)'
<1>. USE NoneAssumption DEF Typing, TypeOK, Goto
<1>1. ASSUME NEW p \in Proc, NewCall(p) PROVE \A q \in Proc : Ready(q)'
  <2>1. UNCHANGED <<marker, planFile, sigFile, victims>> /\ pc[p] = "idle"
    BY <1>1 DEF NewCall, BeginCall, ApplyCall, TransitionCall, PutCall,
       RetentionCall, LoadState, VerifyBlobs, LockFor, disk
  <2>2. \A q \in Proc \ {p} : pc[q]' = pc[q] /\ call[q]' = call[q]
    BY <1>1 DEF NewCall, BeginCall, ApplyCall, TransitionCall, PutCall,
       RetentionCall, LoadState, VerifyBlobs, LockFor
  <2>3. pc[p]' \in {"idle", "loading", "check_new", "check_staged", "advance",
                    "put", "retain"}
    BY <1>1 DEF NewCall, BeginCall, ApplyCall, TransitionCall, PutCall,
       RetentionCall, LoadState, VerifyBlobs, LockFor
  <2>4. Ready(p)'
    BY <2>1, <2>3 DEF Verifiable, Ready
  <2>. QED  BY <2>1, <2>2, <2>4, ReadyKept DEF Verifiable
<1>2. ASSUME NEW p \in Proc, pc[p] \in Critical, Continue(p)
      PROVE  \A q \in Proc : Ready(q)'
  <2>1. \A q \in Proc \ {p} : Ready(q)'
    <3>1. \A q \in Proc \ {p} : pc[q]' = pc[q] /\ victims[q]' = victims[q]
      BY <1>2 DEF Continue, CheckNew, CheckStaged, ScanPlans, Admit, Reenter,
         BuildHandle, WritePlan, WriteSig, WriteMarker, CheckMove, CommitMove,
         AppendAudit, CheckPut, PutBlob, ScanForRetention, EvictStep,
         RemoveState, RemovePlanFile, RemoveSigFile, RemoveBlobs,
         AuditEviction, LoadPlan, ReturnError, Proceed, Return, thread
    <3>. QED
      BY <1>2, <3>1, OthersOutside, ReadyOutside
      DEF Verifiable, Ready, Critical, PcValue
  <2>2. Ready(p)'
    <3>1. ASSUME Return(p) PROVE Ready(p)'
      BY <3>1, ReadyOutside DEF Return, Critical
    <3>2. CASE \/ CheckNew(p) \/ CheckStaged(p) \/ Admit(p) \/ CheckPut(p)
      BY <3>2
      DEF CheckNew, CheckStaged, Admit, CheckPut, Proceed, Verifiable, Ready
    <3>3. CASE ScanPlans(p) \/ BuildHandle(p)
      BY <3>3 DEF ScanPlans, BuildHandle, Verifiable, Ready
    <3>4. CASE Reenter(p)
      BY <3>1, <3>4 DEF Reenter, Verifiable, Ready
    <3>5. CASE WritePlan(p)
      BY <3>5 DEF WritePlan, CallShape, Shapes, Moving, Verifiable, Ready
    <3>6. CASE WriteSig(p)
      BY <3>6 DEF WriteSig, CallShape, Shapes, Moving, Verifiable, Ready
    <3>7. CASE WriteMarker(p)
      <4>1. call[p].plan \in PlanId /\ call[p].to = "Downloading"
        BY <3>7 DEF WriteMarker, CallShape, Shapes, Moving, Snapshot, KindShape
      <4>. QED
        BY <3>7, <4>1 DEF WriteMarker, WriteState, NewMarker, Verifiable, Ready
    <3>8. CASE CommitMove(p)
      <4>1. call[p].plan \in PlanId /\ call[p].seen \in Marker
        BY <3>8 DEF CommitMove, CallShape, Shapes, Moving, Call
      <4>. QED
        BY <3>8, <4>1 DEF CommitMove, WriteState, Marker, Verifiable, Ready
    <3>9. CASE CheckMove(p)
      <4>1. call[p].plan \in PlanId /\ call[p] \in Call
        BY <3>9 DEF CheckMove, CallShape, Shapes, Moving
      <4>. QED
        BY <3>9, <4>1 DEF CheckMove, Call, disk, Verifiable, Ready
    <3>10. CASE AppendAudit(p) \/ PutBlob(p) \/ ReturnError(p)
      BY <3>1, <3>10 DEF AppendAudit, PutBlob, ReturnError
    <3>11. CASE ScanForRetention(p)
      <4>1. \A keep, id : id \in BeyondBudget(keep) =>
              marker[id].stage \notin Active
        BY DEF BeyondBudget, Evictable, Active
      <4>. QED
        BY <3>1, <3>11, <4>1 DEF ScanForRetention, disk, Ready
    <3>12. ASSUME NEW id \in PlanId, RemoveState(p, id) PROVE Ready(p)'
      BY <3>12
      DEF RemoveState, thread, NoMarker, Absent, Active, Stage, Verifiable,
          Ready
    <3>13. ASSUME NEW id \in PlanId,
                  \/ RemovePlanFile(p, id) \/ RemoveSigFile(p, id)
                  \/ RemoveBlobs(p, id)
           PROVE  Ready(p)'
      BY <3>13
      DEF RemovePlanFile, RemoveSigFile, RemoveBlobs, thread, Verifiable, Ready
    <3>14. ASSUME NEW id \in PlanId, AuditEviction(p, id) PROVE Ready(p)'
      BY <3>1, <3>14 DEF AuditEviction, Verifiable, Ready
    <3>. QED
      BY <1>2, <3>2, <3>3, <3>4, <3>5, <3>6, <3>7, <3>8, <3>9, <3>10, <3>11,
         <3>12, <3>13, <3>14 DEF Continue, EvictStep, LoadPlan, Critical
  <2>. QED  BY <2>1, <2>2
<1>3. ASSUME NEW p \in Proc, LoadPlan(p) PROVE \A q \in Proc : Ready(q)'
  BY <1>3, ReadyKept, ReadyOutside
  DEF LoadPlan, disk, Critical, Verifiable, Ready
<1>4. ASSUME NEW p \in Proc, Crash(p) PROVE \A q \in Proc : Ready(q)'
  BY <1>4, ReadyKept, ReadyOutside DEF Crash, disk, Critical, Verifiable
<1>5. ASSUME NEW id \in PlanId, Rot(id) PROVE \A q \in Proc : Ready(q)'
  BY <1>5, ReadyKept DEF Rot, thread, Verifiable
<1>6. CASE UNCHANGED vars
  BY <1>6, ReadyKept DEF vars, Verifiable
<1>. QED
  BY <1>1, <1>2, <1>3, <1>4, <1>5, <1>6, ContinueOutside DEF Next

(* No step separates an active plan from its plan and signature.           *)
LEMMA VerifiableStep ==
    ASSUME Typing, Mutex, Snapshot, Verifiable, [Next]_vars
    PROVE  ActivePlanVerifiable'
<1>. USE DEF Typing, TypeOK, Verifiable, ActivePlanVerifiable
<1>1. CASE UNCHANGED <<marker, planFile, sigFile>>
  BY <1>1
<1>2. ASSUME NEW p \in Proc, WritePlan(p) \/ WriteSig(p)
      PROVE  ActivePlanVerifiable'
  BY <1>2
  DEF WritePlan, WriteSig, Snapshot, KindShape, Exists, Active, Stage, Absent
<1>3. ASSUME NEW p \in Proc, WriteMarker(p) PROVE ActivePlanVerifiable'
  BY <1>3 DEF WriteMarker, WriteState, NewMarker, Ready
<1>4. ASSUME NEW p \in Proc, CommitMove(p) PROVE ActivePlanVerifiable'
  <2>1. marker[call[p].plan].stage \in Active
    BY <1>4
    DEF CommitMove, Ready, IsValidTransition, Transitions, Active, Stage,
        Terminal
  <2>2. [call[p].seen EXCEPT !.stage = call[p].to].doc
          = marker[call[p].plan].doc
    BY <1>4 DEF CommitMove, Ready, Call, Marker
  <2>3. call[p].plan \in PlanId
    BY <1>4 DEF CommitMove, Shapes, CallShape, Moving
  <2>. QED  BY <1>4, <2>1, <2>2, <2>3 DEF CommitMove, WriteState
<1>5. ASSUME NEW p \in Proc, NEW id \in PlanId,
             \/ RemoveState(p, id) \/ RemovePlanFile(p, id)
             \/ RemoveSigFile(p, id)
      PROVE  ActivePlanVerifiable'
  BY <1>5
  DEF RemoveState, RemovePlanFile, RemoveSigFile, NextVictim, Ready, NoMarker,
      Absent, Active, Stage
<1>. QED  BY <1>1, <1>2, <1>3, <1>4, <1>5, FileWriters

----------------------------------------------------------------------------

(* A thread owes audit lines only inside its call. *)
LEMMA UnauditedOutside ==
    ASSUME NEW q \in Proc, pc[q] \notin Critical
    PROVE  Unaudited(q) = {}
  BY DEF Unaudited, Critical, PcValue

(* A step of p that changes no stage, no line and what nobody owes. *)
LEMMA AuditKept ==
    ASSUME AuditTrailMatches, UNCHANGED <<marker, audited, gap>>,
           \A q \in Proc : Unaudited(q)' = Unaudited(q)
    PROVE  AuditTrailMatches'
  BY DEF AuditTrailMatches

(* Each change of a stage is logged, owed, or in the gap.                  *)
LEMMA AuditStep ==
    ASSUME Typing, Mutex, Verifiable, AuditTrailMatches, [Next]_vars
    PROVE  AuditTrailMatches'
<1>. USE DEF Typing, TypeOK, Goto
<1>1. ASSUME NEW p \in Proc, NewCall(p) PROVE AuditTrailMatches'
  <2>1. UNCHANGED <<marker, audited, gap, victims>> /\ pc[p] = "idle"
    BY <1>1 DEF NewCall, BeginCall, ApplyCall, TransitionCall, PutCall,
       RetentionCall, LoadState, VerifyBlobs, LockFor, disk, history
  <2>2. \A q \in Proc \ {p} : pc[q]' = pc[q] /\ call[q]' = call[q]
    BY <1>1 DEF NewCall, BeginCall, ApplyCall, TransitionCall, PutCall,
       RetentionCall, LoadState, VerifyBlobs, LockFor
  <2>3. pc[p]' \notin {"audit", "evict"}
    BY <1>1 DEF NewCall, BeginCall, ApplyCall, TransitionCall, PutCall,
       RetentionCall, LoadState, VerifyBlobs, LockFor
  <2>4. \A q \in Proc : Unaudited(q)' = Unaudited(q)
    BY <2>1, <2>2, <2>3 DEF Unaudited, Exists
  <2>. QED  BY <2>1, <2>4, AuditKept
<1>2. ASSUME NEW p \in Proc, pc[p] \in Critical, Continue(p)
      PROVE  AuditTrailMatches'
  <2>1. \A q \in Proc \ {p} : Unaudited(q) = {} /\ Unaudited(q)' = {}
    <3>1. \A q \in Proc \ {p} : pc[q]' = pc[q]
      BY <1>2 DEF Continue, CheckNew, CheckStaged, ScanPlans, Admit, Reenter,
         BuildHandle, WritePlan, WriteSig, WriteMarker, CheckMove, CommitMove,
         AppendAudit, CheckPut, PutBlob, ScanForRetention, EvictStep,
         RemoveState, RemovePlanFile, RemoveSigFile, RemoveBlobs,
         AuditEviction, LoadPlan, ReturnError, Proceed, Return, thread
    <3>. QED
      BY <1>2, <3>1, OthersOutside DEF Unaudited, Critical, PcValue
  <2>2. ASSUME UNCHANGED <<marker, audited, gap>>, Unaudited(p)' = Unaudited(p)
        PROVE  AuditTrailMatches'
    BY <2>1, <2>2, AuditKept
  <2>3. ASSUME UNCHANGED <<marker, audited, gap>>,
               pc[p] \notin {"audit", "evict"},
               pc[p]' \notin {"audit", "evict"}
        PROVE  AuditTrailMatches'
    BY <2>2, <2>3 DEF Unaudited
  <2>4. CASE \/ CheckNew(p) \/ CheckStaged(p) \/ Admit(p) \/ CheckPut(p)
    BY <2>3, <2>4
    DEF CheckNew, CheckStaged, Admit, CheckPut, Proceed, disk, history
  <2>5. CASE ScanPlans(p) \/ BuildHandle(p) \/ CheckMove(p)
    BY <2>3, <2>5 DEF ScanPlans, BuildHandle, CheckMove, disk, history
  <2>6. CASE WritePlan(p) \/ WriteSig(p) \/ PutBlob(p) \/ Reenter(p)
    BY <2>3, <2>6
    DEF WritePlan, WriteSig, PutBlob, Reenter, Return, disk, history
  <2>7. CASE WriteMarker(p) \/ CommitMove(p)
    <3>1. Unaudited(p) = {} /\ Unaudited(p)' = {call[p].plan}
      BY <2>7
      DEF WriteMarker, CommitMove, Unaudited, Shapes, CallShape, Moving
    <3>2. \A id \in PlanId \ {call[p].plan} : marker'[id] = marker[id]
      BY <2>7 DEF WriteMarker, CommitMove, WriteState
    <3>3. UNCHANGED <<audited, gap>>
      BY <2>7 DEF WriteMarker, CommitMove, history
    <3>. QED  BY <2>1, <3>1, <3>2, <3>3 DEF AuditTrailMatches
  <2>8. CASE AppendAudit(p)
    <3>1. /\ Unaudited(p) = {call[p].plan} /\ Unaudited(p)' = {}
          /\ call[p].plan \in PlanId
      BY <2>8
      DEF AppendAudit, Return, Unaudited, Shapes, CallShape, Moving
    <3>2. /\ marker' = marker /\ gap' = gap \ {call[p].plan}
          /\ audited' = [audited EXCEPT ![call[p].plan] = call[p].to]
          /\ marker[call[p].plan].stage = call[p].to
      BY <2>8 DEF AppendAudit, ToStage, Verifiable, Ready
    <3>. QED  BY <2>1, <3>1, <3>2 DEF AuditTrailMatches
  <2>9. CASE ScanForRetention(p)
    <3>1. \A keep, id : id \in BeyondBudget(keep) => Exists(id)
      BY DEF BeyondBudget, Evictable, Readable
    <3>2. Unaudited(p) = {} /\ Unaudited(p)' = {}
      BY <2>9, <3>1
      DEF ScanForRetention, Return, Unaudited, disk, Exists
    <3>. QED  BY <2>2, <2>9, <3>2 DEF ScanForRetention, disk, history
  <2>10. ASSUME NEW id \in PlanId, RemoveState(p, id) PROVE AuditTrailMatches'
    <3>1. /\ Unaudited(p) \subseteq Unaudited(p)' /\ id \in Unaudited(p)'
          /\ \A other \in PlanId \ {id} :
                other \in Unaudited(p)' => other \in Unaudited(p)
      BY <2>10
      DEF RemoveState, NextVictim, thread, Unaudited, Exists, NoMarker
    <3>. QED
      BY <2>1, <2>10, <3>1 DEF RemoveState, history, AuditTrailMatches
  <2>11. ASSUME NEW id \in PlanId,
                \/ RemovePlanFile(p, id) \/ RemoveSigFile(p, id)
                \/ RemoveBlobs(p, id)
         PROVE  AuditTrailMatches'
    BY <2>2, <2>11
    DEF RemovePlanFile, RemoveSigFile, RemoveBlobs, thread, history,
        Unaudited, Exists
  <2>12. ASSUME NEW id \in PlanId, AuditEviction(p, id)
         PROVE  AuditTrailMatches'
    <3>1. \A other \in PlanId \ {id} :
            other \in Unaudited(p) => other \in Unaudited(p)'
      BY <2>12 DEF AuditEviction, Return, Unaudited, NextVictim, Exists
    <3>2. /\ marker' = marker /\ gap' = gap \ {id}
          /\ audited' = [audited EXCEPT ![id] = Absent]
          /\ marker[id].stage = Absent
      BY <2>12 DEF AuditEviction, DirEmpty, Exists
    <3>3. \A other \in PlanId \ {id} :
            other \in Unaudited(p)' => other \in Unaudited(p)
      BY <2>12, <3>2 DEF AuditEviction, Return, Unaudited, Exists
    <3>. QED  BY <2>1, <3>1, <3>2, <3>3 DEF AuditTrailMatches
  <2>13. CASE ReturnError(p)
    <3>1. /\ UNCHANGED <<marker, audited>> /\ gap' = gap \cup Unaudited(p)
          /\ Unaudited(p)' = {}
      BY <2>13 DEF ReturnError, Return, disk, Unaudited
    <3>. QED  BY <2>1, <3>1 DEF AuditTrailMatches
  <2>. QED
    BY <1>2, <2>4, <2>5, <2>6, <2>7, <2>8, <2>9, <2>10, <2>11, <2>12, <2>13
    DEF Continue, EvictStep, LoadPlan, Critical
<1>3. ASSUME NEW p \in Proc, LoadPlan(p) PROVE AuditTrailMatches'
  <2>1. \A q \in Proc : Unaudited(q)' = Unaudited(q)
    BY <1>3 DEF LoadPlan, disk, Unaudited, Exists
  <2>. QED  BY <1>3, <2>1, AuditKept DEF LoadPlan, disk, history
<1>4. ASSUME NEW p \in Proc, Crash(p) PROVE AuditTrailMatches'
  <2>1. /\ UNCHANGED <<marker, audited>> /\ gap' = gap \cup Unaudited(p)
        /\ Unaudited(p)' = {}
    BY <1>4 DEF Crash, disk, Unaudited
  <2>2. \A q \in Proc \ {p} : Unaudited(q)' = Unaudited(q)
    BY <1>4 DEF Crash, disk, Unaudited, Exists
  <2>. QED  BY <2>1, <2>2 DEF AuditTrailMatches
<1>5. ASSUME NEW id \in PlanId, Rot(id) PROVE AuditTrailMatches'
  <2>1. \A q \in Proc : Unaudited(q)' = Unaudited(q)
    BY <1>5 DEF Rot, thread, Unaudited, Exists
  <2>. QED  BY <1>5, <2>1, AuditKept DEF Rot, history
<1>6. CASE UNCHANGED vars
  <2>1. \A q \in Proc : Unaudited(q)' = Unaudited(q)
    BY <1>6 DEF vars, Unaudited, Exists
  <2>. QED  BY <1>6, <2>1, AuditKept DEF vars
<1>. QED
  BY <1>1, <1>2, <1>3, <1>4, <1>5, <1>6, ContinueOutside DEF Next

----------------------------------------------------------------------------
(* The theorems.                                                           *)

(* All of it holds of an empty area, and of an older version's.            *)
LEMMA SafetyInit ==
    Init => Mutex /\ Snapshot /\ SingleApply /\ Verifiable /\ AuditTrailMatches
<1>. SUFFICES ASSUME Init
              PROVE  Mutex /\ Snapshot /\ SingleApply /\ Verifiable
                     /\ AuditTrailMatches
  OBVIOUS
<1>1. \A p \in Proc : pc[p] = "idle" /\ victims[p] = {}
  BY DEF Init
<1>2. Mutex
  BY <1>1, NoneAssumption DEF Init, Mutex, Critical
<1>3. Snapshot
  BY <1>1 DEF Snapshot, Fresh, KindShape, Deciding, Moving
<1>4. \A id \in PlanId : marker[id].stage \in {"Staged", "Applied", Absent}
  BY DEF Init, NoMarker
<1>5. SingleApply
  BY <1>1, <1>4 DEF SingleApply, AtMostOneApplying, Alone, Absent
<1>6. Verifiable
  <2>1. ActivePlanVerifiable
    BY DEF Init, ActivePlanVerifiable
  <2>2. \A p \in Proc : Ready(p)
    BY <1>1 DEF Ready
  <2>. QED  BY <2>1, <2>2 DEF Verifiable
<1>7. AuditTrailMatches
  BY DEF Init, AuditTrailMatches
<1>. QED  BY <1>2, <1>3, <1>5, <1>6, <1>7

(* Whatever the callers do, the steps between LockFor and Return are taken *)
(* by the lock-holder, whose own types are intact.                         *)
THEOREM MutualExclusion == Spec => [](Typing /\ Mutex)
<1>1. Typing /\ Mutex /\ [Next]_vars => Typing' /\ Mutex'
  BY TypingStep, MutexStep
<1>. QED  BY TypingInit, SafetyInit, <1>1, PTL DEF Spec

(* Snapshot is an invariant.                                               *)
LEMMA SnapshotInvariant == Spec => []Snapshot
<1>1. Typing /\ Mutex /\ Snapshot /\ [Next]_vars => Snapshot'
  BY SnapshotStep
<1>. QED  BY SafetyInit, MutualExclusion, <1>1, PTL DEF Spec

(* begin_checked and begin_apply_checked have no check-then-act race: what *)
(* an admission has scanned stays true until it has committed.             *)
THEOREM AdmissionsFresh == Spec => []AdmissionSnapshotFresh
<1>1. Snapshot => AdmissionSnapshotFresh
  BY DEF Snapshot, Fresh, Deciding, AdmissionSnapshotFresh
<1>. QED  BY SnapshotInvariant, <1>1, PTL

(* At most one apply is in flight, as long as callers reach Applying only  *)
(* through begin_apply_checked: the lock and the scan are enough, through  *)
(* every crash, failed write, retention and rotten marker.                 *)
THEOREM SingleFlightHolds ==
    ASSUME "Applying" \notin TransitionTargets
    PROVE  Spec => []AtMostOneApplying
<1>1. Typing /\ Snapshot /\ SingleApply /\ [Next]_vars => SingleApply'
  BY SingleApplyStep
<1>2. SingleApply => AtMostOneApplying
  BY DEF SingleApply
<1>. QED
  BY SafetyInit, MutualExclusion, SnapshotInvariant, <1>1, <1>2, PTL DEF Spec

(* Verifiable is an invariant.                                             *)
LEMMA VerifiableInvariant == Spec => []Verifiable
<1>1. Typing /\ Mutex /\ Snapshot /\ Verifiable /\ [Next]_vars => Verifiable'
  BY ReadyStep, VerifiableStep DEF Verifiable
<1>. QED  BY SafetyInit, MutualExclusion, SnapshotInvariant, <1>1, PTL DEF Spec

(* A plan that may still be applied keeps the plan and the signature it    *)
(* was begun with, whatever else is begun, evicted or interrupted.         *)
THEOREM ActivePlansVerifiable == Spec => []ActivePlanVerifiable
<1>1. Verifiable => ActivePlanVerifiable
  BY DEF Verifiable
<1>. QED  BY VerifiableInvariant, <1>1, PTL

(* The audit log can only fall behind in the window between a commit and   *)
(* its line, when a crash or a failed append ends the call there.          *)
THEOREM AuditTrailHolds == Spec => []AuditTrailMatches
<1>1. Typing /\ Mutex /\ Verifiable /\ AuditTrailMatches /\ [Next]_vars
        => AuditTrailMatches'
  BY AuditStep
<1>. QED
  BY SafetyInit, MutualExclusion, VerifiableInvariant, <1>1, PTL DEF Spec

----------------------------------------------------------------------------
(* Names: what a plan id, a marker and a handle say of one document.       *)

(* The marker and plan.json under an id are of a plan with that id, and a  *)
(* marker has that plan's channel unless an older version wrote it.        *)
Recorded(id) ==
    /\ Exists(id) => /\ marker[id].doc.id = id
                     /\ \/ marker[id].channel = marker[id].doc.channel
                        \/ marker[id].channel = None
                           /\ marker[id].doc \in LegacyDoc
    /\ planFile[id] # None => planFile[id].id = id

(* So are the plans that callers hold and work on. *)
Named ==
    /\ \A id \in PlanId : Recorded(id)
    /\ \A p \in Proc :
          /\ handle[p].doc # None => handle[p].doc.id = handle[p].plan
          /\ call[p].doc # None => call[p].doc.id = call[p].plan

----------------------------------------------------------------------------
(* Without retention a plan directory only grows.                          *)

(* The document d is staged under id. *)
Knows(id, d) == Exists(id) /\ marker[id].doc = d

(* What p's handle says is so on disk. *)
HandleTrue(p) ==
    LET h == handle[p] IN
    /\ pc[p] = "loading" => Exists(h.plan)
    /\ h.doc # None => Knows(h.plan, h.doc)
    /\ h.verified => h.doc # None /\ h.doc.blobs \subseteq blobs[h.plan]

(* And what p's call goes by: the document to apply or just begun, and,    *)
(* for a promotion to Inbox, its blobs.                                    *)
CallTrue(p) ==
    LET c == call[p] IN
    /\ pc[p] \notin {"retain", "evict"}
    /\ \/ pc[p] \in Moving /\ c.kind = "apply"
       \/ pc[p] = "audit" /\ c.kind # "transition"
       => Knows(c.plan, c.doc)
    /\ pc[p] \in Moving /\ c.kind = "transition" /\ c.to = "Inbox"
       => Exists(c.plan) /\ marker[c.plan].doc.blobs \subseteq blobs[c.plan]

(* Every plan with a marker has its plan.json, every handle is true.       *)
Kept ==
    /\ \A id \in PlanId : Exists(id) => planFile[id] = marker[id].doc
    /\ \A p \in Proc : HandleTrue(p) /\ CallTrue(p)

----------------------------------------------------------------------------
(* Decisions: what an admission compares is the plan that it moves.        *)

(* One document per plan id, and no plan without a recorded channel. *)
Unambiguous == LegacyDoc = {} /\ \A d, e \in Doc : d.id = e.id => d = e

(* The channel a scan reads is the one the document names. *)
ChannelsKnown ==
    \A id \in PlanId :
        Exists(id) => EffectiveChannel(id) = marker[id].doc.channel

(* Past its check, an apply goes on with the plan that is staged, and past *)
(* the gates that plan is newer than what the scan found.                  *)
Decided(p) ==
    LET c == call[p] IN
    c.kind = "apply" =>
        /\ pc[p] \in {"scan", "admit", "build", "advance", "commit"}
             => marker[c.plan].stage = "Staged" /\ marker[c.plan].doc = c.doc
        /\ pc[p] \in {"build", "advance", "commit"}
             => \A s \in facts[p].seqs : s < c.doc.seq

(* All decisions under way are sound. *)
Decisions == ChannelsKnown /\ \A p \in Proc : Decided(p)

(* What has ever been applied is there as applied. *)
AppliedStays ==
    \A d \in everApplied : \E id \in PlanId :
        marker[id].stage = "Applied" /\ marker[id].doc = d

(* Handles never go stale: plans are not evicted, or ids are not reused.   *)
Faithful == KeepPolicies = {} \/ Unambiguous

(* What SameDoc needs of either kind of area. *)
Backed == Named /\ (KeepPolicies = {} => Kept)

----------------------------------------------------------------------------
(* Whose step it is.                                                       *)

(* A step of p leaves what the other callers are doing alone. *)
LEMMA OthersKept ==
    ASSUME Typing, NEW p \in Proc, NEW q \in Proc \ {p},
           NewCall(p) \/ Continue(p) \/ Crash(p)
    PROVE  /\ pc'[q] = pc[q] /\ call'[q] = call[q] /\ facts'[q] = facts[q]
           /\ victims'[q] = victims[q] /\ handle'[q] = handle[q]
<1>. USE DEF Typing, TypeOK, Goto
<1>1. CASE NewCall(p)
  BY <1>1
  DEF NewCall, BeginCall, ApplyCall, TransitionCall, PutCall, RetentionCall,
      LoadState, VerifyBlobs, LockFor
<1>2. CASE EvictStep(p)
  BY <1>2
  DEF EvictStep, RemoveState, RemovePlanFile, RemoveSigFile, RemoveBlobs,
      AuditEviction, Return, thread
<1>3. CASE Continue(p) /\ ~ EvictStep(p)
  BY <1>3
  DEF Continue, CheckNew, CheckStaged, ScanPlans, Admit, Reenter,
      BuildHandle, WritePlan, WriteSig, WriteMarker, CheckMove, CommitMove,
      AppendAudit, CheckPut, PutBlob, ScanForRetention, LoadPlan,
      ReturnError, Proceed, Return
<1>4. CASE Crash(p)
  BY <1>4 DEF Crash
<1>. QED  BY <1>1, <1>2, <1>3, <1>4

(* Markers, plan.json and blobs are written by these steps alone. *)
LEMMA PlanWriters ==
    ASSUME [Next]_vars
    PROVE  \/ UNCHANGED <<marker, planFile, blobs>>
           \/ \E p \in Proc : \/ WritePlan(p) \/ WriteMarker(p)
                              \/ CommitMove(p) \/ PutBlob(p)
           \/ \E p \in Proc, id \in PlanId :
                 \/ RemoveState(p, id) \/ RemovePlanFile(p, id)
                 \/ RemoveBlobs(p, id)
<1>1. ASSUME NEW p \in Proc, NewCall(p)
      PROVE  UNCHANGED <<marker, planFile, blobs>>
  BY <1>1
  DEF NewCall, BeginCall, ApplyCall, TransitionCall, PutCall, RetentionCall,
      LoadState, VerifyBlobs, LockFor, disk
<1>2. ASSUME NEW p \in Proc, EvictStep(p)
      PROVE  \/ UNCHANGED <<marker, planFile, blobs>>
             \/ \E id \in PlanId : \/ RemoveState(p, id)
                                   \/ RemovePlanFile(p, id)
                                   \/ RemoveBlobs(p, id)
  BY <1>2 DEF EvictStep, RemoveSigFile, AuditEviction
<1>3. ASSUME NEW p \in Proc, Continue(p)
      PROVE  \/ UNCHANGED <<marker, planFile, blobs>>
             \/ WritePlan(p) \/ WriteMarker(p) \/ CommitMove(p) \/ PutBlob(p)
             \/ EvictStep(p)
  BY <1>3
  DEF Continue, CheckNew, CheckStaged, ScanPlans, Admit, Reenter, BuildHandle,
      WriteSig, CheckMove, AppendAudit, CheckPut, ScanForRetention, LoadPlan,
      ReturnError, Proceed, disk
<1>. QED  BY <1>1, <1>2, <1>3 DEF Next, Crash, Rot, disk, vars

(* What a commit writes: the plan it has read, in the stage it is moved to. *)
LEMMA CommitWrites ==
    ASSUME Typing, Verifiable, NEW p \in Proc, CommitMove(p)
    PROVE  LET id == call[p].plan IN
           /\ id \in PlanId /\ call[p].to \in Stage
           /\ marker[id].stage \in Stage /\ marker[id].doc \in Doc
           /\ IsValidTransition(marker[id].stage, call[p].to)
           /\ marker'[id].stage = call[p].to
           /\ marker'[id].doc = marker[id].doc
           /\ marker'[id].channel = marker[id].channel
           /\ \A other \in PlanId \ {id} : marker'[other] = marker[other]
<1>1. /\ call[p].plan \in PlanId /\ call[p].to \in Stage
      /\ call[p].seen.stage \in Stage /\ call[p].seen.doc \in Doc
  BY DEF CommitMove, Typing, Shapes, CallShape, Moving
<1>2. /\ call[p].seen = marker[call[p].plan]
      /\ IsValidTransition(call[p].seen.stage, call[p].to)
  BY DEF CommitMove, Verifiable, Ready
<1>3. marker[call[p].plan] \in Marker
  BY <1>1 DEF Typing, TypeOK
<1>4. marker' = [marker EXCEPT ![call[p].plan] =
                   [marker[call[p].plan] EXCEPT !.stage = call[p].to]]
  BY <1>2 DEF CommitMove, WriteState
<1>5. marker \in [PlanId -> Marker]
  BY DEF Typing, TypeOK
<1>. QED  BY <1>1, <1>2, <1>3, <1>4, <1>5 DEF Marker

(* What a begin writes: a new marker where there was none. *)
LEMMA BeginWrites ==
    ASSUME Typing, Snapshot, Verifiable, NEW p \in Proc, WriteMarker(p)
    PROVE  LET id == call[p].plan IN
           /\ id \in PlanId /\ call[p].doc \in Doc /\ ~ Exists(id)
           /\ call[p].kind \in {"begin", "begin_checked"}
           /\ planFile[id] = call[p].doc
           /\ marker'[id] = [stage |-> "Downloading", doc |-> call[p].doc,
                             channel |-> call[p].doc.channel]
           /\ \A other \in PlanId \ {id} : marker'[other] = marker[other]
<1>1. /\ call[p].plan \in PlanId /\ call[p].doc \in Doc
  BY DEF WriteMarker, Typing, Shapes, CallShape, Moving
<1>2. ~ Exists(call[p].plan) /\ call[p].kind \in {"begin", "begin_checked"}
  BY DEF WriteMarker, Snapshot, KindShape
<1>3. planFile[call[p].plan] = call[p].doc
  BY DEF WriteMarker, Verifiable, Ready
<1>. QED
  BY <1>1, <1>2, <1>3
  DEF WriteMarker, WriteState, NewMarker, Typing, TypeOK

----------------------------------------------------------------------------

(* The documents that a step writes under an id have that id. *)
LEMMA RecordedStep ==
    ASSUME Typing, Snapshot, Verifiable, Named, [Next]_vars, NEW id \in PlanId
    PROVE  Recorded(id)'
<1>. USE NoneAssumption DEF Typing, TypeOK
<1>1. CASE UNCHANGED <<marker, planFile>>
  BY <1>1 DEF Named, Recorded, Exists
<1>2. ASSUME NEW p \in Proc, WritePlan(p) PROVE Recorded(id)'
  <2>1. call[p].plan \in PlanId /\ call[p].doc.id = call[p].plan
    BY <1>2 DEF WritePlan, Named, Shapes, CallShape, Moving
  <2>. QED  BY <1>2, <2>1 DEF WritePlan, Named, Recorded, Exists
<1>3. ASSUME NEW p \in Proc, WriteMarker(p) PROVE Recorded(id)'
  <2>1. call[p].doc.id = call[p].plan /\ planFile' = planFile
    BY <1>3, BeginWrites DEF WriteMarker, Named
  <2>2. CASE id = call[p].plan
    <3>1. marker'[id] = [stage |-> "Downloading", doc |-> call[p].doc,
                         channel |-> call[p].doc.channel]
      BY <1>3, <2>2, BeginWrites
    <3>. QED  BY <2>1, <2>2, <3>1 DEF Named, Recorded
  <2>3. CASE id # call[p].plan
    <3>1. marker'[id] = marker[id]
      BY <1>3, <2>3, BeginWrites
    <3>. QED  BY <2>1, <3>1 DEF Named, Recorded, Exists
  <2>. QED  BY <2>2, <2>3
<1>4. ASSUME NEW p \in Proc, CommitMove(p) PROVE Recorded(id)'
  <2>1. planFile' = planFile
    BY <1>4 DEF CommitMove
  <2>2. CASE id = call[p].plan
    <3>1. /\ marker'[id].doc = marker[id].doc
          /\ marker'[id].channel = marker[id].channel
          /\ Exists(id)
      BY <1>4, <2>2, CommitWrites DEF Exists, Stage, Absent
    <3>. QED  BY <2>1, <3>1 DEF Named, Recorded
  <2>3. CASE id # call[p].plan
    <3>1. marker'[id] = marker[id]
      BY <1>4, <2>3, CommitWrites
    <3>. QED  BY <2>1, <3>1 DEF Named, Recorded, Exists
  <2>. QED  BY <2>2, <2>3
<1>5. ASSUME NEW p \in Proc, NEW other \in PlanId,
             RemoveState(p, other) \/ RemovePlanFile(p, other)
      PROVE  Recorded(id)'
  BY <1>5
  DEF RemoveState, RemovePlanFile, NoMarker, Named, Recorded, Exists
<1>. QED
  BY <1>1, <1>2, <1>3, <1>4, <1>5, PlanWriters DEF PutBlob, RemoveBlobs

(* What the callers hold has the id they hold it under. *)
LEMMA NamedStep ==
    ASSUME Typing, Snapshot, Verifiable, Named, [Next]_vars
    PROVE  Named'
<1>. USE NoneAssumption DEF Typing, TypeOK, Goto
<1>. DEFINE Good(q) ==
        /\ handle[q].doc # None => handle[q].doc.id = handle[q].plan
        /\ call[q].doc # None => call[q].doc.id = call[q].plan
<1>1. ASSUME NEW q \in Proc, handle'[q] = handle[q], call'[q] = call[q]
      PROVE  Good(q)'
  BY <1>1 DEF Named
<1>2. ASSUME NEW p \in Proc, NewCall(p) PROVE Good(p)'
  <2>1. ASSUME NEW d \in Doc, NEW kind, BeginCall(p, d, kind) PROVE Good(p)'
    BY <2>1 DEF BeginCall, LockFor, NoCall, Named
  <2>2. CASE ApplyCall(p)
    BY <2>2 DEF ApplyCall, LockFor, NoCall, Named
  <2>3. ASSUME NEW to, TransitionCall(p, to) PROVE Good(p)'
    BY <2>3 DEF TransitionCall, LockFor, NoCall, Named
  <2>4. ASSUME NEW b, PutCall(p, b) PROVE Good(p)'
    BY <2>4 DEF PutCall, LockFor, NoCall, Named
  <2>5. CASE RetentionCall(p)
    BY <2>5 DEF RetentionCall, LockFor, NoCall, Named
  <2>6. ASSUME NEW id, LoadState(p, id) PROVE Good(p)'
    BY <2>6 DEF LoadState, NoHandle, Named
  <2>7. CASE VerifyBlobs(p)
    <3>1. handle'[p].doc = handle[p].doc /\ handle'[p].plan = handle[p].plan
      BY <2>7 DEF VerifyBlobs, Handle
    <3>. QED  BY <2>7, <3>1 DEF VerifyBlobs, Named
  <2>. QED
    BY <1>2, <2>1, <2>2, <2>3, <2>4, <2>5, <2>6, <2>7 DEF NewCall
<1>3. ASSUME NEW p \in Proc, Continue(p) PROVE Good(p)'
  <2>1. CASE \/ CheckNew(p) \/ CheckStaged(p) \/ Admit(p) \/ CheckPut(p)
             \/ ScanPlans(p) \/ WritePlan(p) \/ WriteSig(p)
             \/ WriteMarker(p) \/ CommitMove(p)
    BY <1>1, <2>1
    DEF CheckNew, CheckStaged, Admit, CheckPut, Proceed, ScanPlans, WritePlan,
        WriteSig, WriteMarker, CommitMove
  <2>2. ASSUME Return(p), handle'[p] = handle[p] PROVE Good(p)'
    BY <2>2 DEF Return, NoCall, Named
  <2>3. CASE PutBlob(p) \/ ReturnError(p)
    BY <2>2, <2>3 DEF PutBlob, ReturnError
  <2>4. CASE Reenter(p) \/ ScanForRetention(p)
    BY <1>1, <2>2, <2>4 DEF Reenter, ScanForRetention
  <2>5. CASE EvictStep(p)
    BY <1>1, <2>2, <2>5
    DEF EvictStep, RemoveState, RemovePlanFile, RemoveSigFile, RemoveBlobs,
        AuditEviction, thread
  <2>6. CASE BuildHandle(p)
    <3>1. /\ call[p].plan \in PlanId /\ call[p] \in Call
          /\ planFile[call[p].plan].id = call[p].plan
      BY <2>6
      DEF BuildHandle, Shapes, CallShape, Moving, Named, Recorded
    <3>. QED  BY <2>6, <3>1 DEF BuildHandle, Call, Named
  <2>7. CASE CheckMove(p)
    <3>1. call'[p].doc = call[p].doc /\ call'[p].plan = call[p].plan
      BY <2>7 DEF CheckMove, Call
    <3>. QED  BY <2>7, <3>1 DEF CheckMove, Named
  <2>8. CASE AppendAudit(p)
    BY <2>8 DEF AppendAudit, Return, NoCall, Named
  <2>9. CASE LoadPlan(p)
    <3>1. handle[p].plan \in PlanId /\ handle[p] \in Handle
      BY <2>9 DEF LoadPlan, Shapes, HandleShape
    <3>. QED
      BY <2>9, <3>1 DEF LoadPlan, Handle, NoHandle, Named, Recorded
  <2>. QED
    BY <1>3, <2>1, <2>3, <2>4, <2>5, <2>6, <2>7, <2>8, <2>9 DEF Continue
<1>4. ASSUME NEW p \in Proc, Crash(p) PROVE Good(p)'
  BY <1>4 DEF Crash, NoCall, NoHandle
<1>5. \A q \in Proc : Good(q)'
  <2>1. ASSUME NEW p \in Proc, NewCall(p) \/ Continue(p) \/ Crash(p),
               NEW q \in Proc
        PROVE  Good(q)'
    BY <1>1, <1>2, <1>3, <1>4, <2>1, OthersKept
  <2>2. CASE UNCHANGED <<handle, call>>
    BY <1>1, <2>2
  <2>. QED  BY <2>1, <2>2 DEF Next, Rot, thread, vars
<1>. HIDE DEF Good
<1>6. \A id \in PlanId : Recorded(id)'
  BY RecordedStep
<1>. QED  BY <1>5, <1>6 DEF Named, Good

----------------------------------------------------------------------------

(* Without retention what is in a plan's directory stays. *)
LEMMA DirectoriesGrow ==
    ASSUME Typing, Snapshot, Verifiable, Kept, [Next]_vars,
           NEW id \in PlanId, Exists(id)
    PROVE  /\ Exists(id)' /\ marker'[id].doc = marker[id].doc
           /\ planFile'[id] = planFile[id] /\ blobs[id] \subseteq blobs'[id]
<1>. USE DEF Typing, TypeOK
<1>1. CASE UNCHANGED <<marker, planFile, blobs>>
  BY <1>1 DEF Exists
<1>2. ASSUME NEW p \in Proc, WritePlan(p) PROVE planFile'[id] = planFile[id]
  BY <1>2 DEF WritePlan, Snapshot, KindShape
<1>3. ASSUME NEW p \in Proc, WriteMarker(p) PROVE marker'[id] = marker[id]
  BY <1>3, BeginWrites
<1>4. ASSUME NEW p \in Proc, CommitMove(p)
      PROVE  Exists(id)' /\ marker'[id].doc = marker[id].doc
  <2>1. CASE id = call[p].plan
    BY <1>4, <2>1, CommitWrites DEF Exists, Stage, Absent
  <2>2. CASE id # call[p].plan
    <3>1. marker'[id] = marker[id]
      BY <1>4, <2>2, CommitWrites
    <3>. QED  BY <3>1 DEF Exists
  <2>. QED  BY <2>1, <2>2
<1>5. ASSUME NEW p \in Proc, NEW other \in PlanId,
             \/ RemoveState(p, other) \/ RemovePlanFile(p, other)
             \/ RemoveBlobs(p, other)
      PROVE  FALSE
  BY <1>5 DEF RemoveState, RemovePlanFile, RemoveBlobs, Kept, CallTrue
<1>6. ASSUME NEW p \in Proc, PutBlob(p) PROVE blobs[id] \subseteq blobs'[id]
  BY <1>6 DEF PutBlob
<1>. QED
  BY <1>1, <1>2, <1>3, <1>4, <1>5, <1>6, PlanWriters
  DEF WritePlan, WriteMarker, CommitMove, PutBlob, Exists

(* What a caller knows stays true. *)
LEMMA KnowsKept ==
    ASSUME Typing, Snapshot, Verifiable, Kept, [Next]_vars,
           NEW id \in PlanId
    PROVE  /\ Exists(id) => Exists(id)'
           /\ \A d : Knows(id, d) => Knows(id, d)'
           /\ \A need : need \subseteq blobs[id] => need \subseteq blobs'[id]
                                                    \/ ~ Exists(id)
           /\ Exists(id) => marker'[id].doc = marker[id].doc
  BY DirectoriesGrow DEF Knows

(* A handle that a caller keeps stays true. *)
LEMMA HandleKept ==
    ASSUME Typing, Snapshot, Verifiable, Kept, [Next]_vars, NEW q \in Proc,
           handle'[q] = handle[q], pc'[q] = "loading" => pc[q] = "loading"
    PROVE  HandleTrue(q)'
<1>. DEFINE h == handle[q]
<1>1. HandleTrue(q)
  BY DEF Kept
<1>2. /\ h.doc # None => h.plan \in PlanId
      /\ pc[q] = "loading" => h.plan \in PlanId
  BY DEF Typing, Shapes, HandleShape
<1>3. h.doc # None => Knows(h.plan, h.doc)'
  BY <1>1, <1>2, KnowsKept DEF HandleTrue
<1>4. h.verified => h.doc # None /\ h.doc.blobs \subseteq blobs'[h.plan]
  BY <1>1, <1>2, KnowsKept DEF HandleTrue, Knows
<1>5. pc'[q] = "loading" => Exists(h.plan)'
  BY <1>1, <1>2, KnowsKept DEF HandleTrue
<1>. QED  BY <1>3, <1>4, <1>5 DEF HandleTrue

(* And so does what a call was based on, as long as it is under way. *)
LEMMA CallKept ==
    ASSUME Typing, Snapshot, Verifiable, Kept, [Next]_vars, NEW q \in Proc,
           call'[q].kind = call[q].kind, call'[q].plan = call[q].plan,
           call'[q].doc = call[q].doc, call'[q].to = call[q].to,
           pc'[q] \in Moving => pc[q] \in Moving,
           pc'[q] = "audit" =>
               pc[q] = "audit" \/ call[q].kind \in {"apply", "transition"},
           pc'[q] \notin {"retain", "evict"}
    PROVE  CallTrue(q)'
<1>. DEFINE c == call[q]
<1>1. CallTrue(q)
  BY DEF Kept
<1>2. pc[q] \in Moving => c.plan \in PlanId
  BY DEF Typing, Shapes, CallShape
<1>3. \/ pc'[q] \in Moving /\ c.kind = "apply"
      \/ pc'[q] = "audit" /\ c.kind # "transition"
      => Knows(c.plan, c.doc)'
  BY <1>1, <1>2, KnowsKept DEF CallTrue, Moving
<1>4. pc'[q] \in Moving /\ c.kind = "transition" /\ c.to = "Inbox"
      => Exists(c.plan)' /\ marker'[c.plan].doc.blobs \subseteq blobs'[c.plan]
  BY <1>1, <1>2, KnowsKept DEF CallTrue
<1>. QED  BY <1>3, <1>4 DEF CallTrue

(* Outside the lock there is no call to be true to. *)
LEMMA CallOutside ==
    ASSUME NEW q \in Proc, pc'[q] \notin Critical
    PROVE  CallTrue(q)'
  BY DEF CallTrue, Critical, PcValue, Moving

(* Without retention no step makes a handle or a call untrue. *)
LEMMA BelievesStep ==
    ASSUME KeepPolicies = {}, Typing, Mutex, Snapshot, Verifiable, Kept,
           [Next]_vars, NEW p \in Proc,
           NewCall(p) \/ Continue(p) \/ Crash(p)
    PROVE  HandleTrue(p)' /\ CallTrue(p)'
<1>. USE NoneAssumption DEF Typing, TypeOK, Goto
<1>1. CASE NewCall(p)
  <2>. USE <1>1
  <2>1. UNCHANGED <<marker, planFile, blobs>> /\ pc[p] = "idle"
    BY DEF NewCall, BeginCall, ApplyCall, TransitionCall, PutCall,
       RetentionCall, LoadState, VerifyBlobs, LockFor, disk
  <2>2. \A id : Exists(id)' = Exists(id) /\ \A d : Knows(id, d)' = Knows(id, d)
    BY <2>1 DEF Exists, Knows
  <2>3. HandleTrue(p) /\ CallTrue(p)
    BY DEF Kept
  <2>4. ASSUME NEW d \in Doc, NEW kind \in {"begin", "begin_checked"},
               BeginCall(p, d, kind)
        PROVE  HandleTrue(p)' /\ CallTrue(p)'
    <3>1. CallTrue(p)'
      BY <2>4 DEF BeginCall, LockFor, NoCall, CallTrue
    <3>2. handle'[p] = handle[p] /\ pc'[p] # "loading"
      BY <2>4 DEF BeginCall, LockFor
    <3>. QED  BY <3>1, <3>2, HandleKept
  <2>5. CASE ApplyCall(p)
    <3>1. CallTrue(p)'
      BY <2>2, <2>3, <2>5 DEF ApplyCall, LockFor, NoCall, CallTrue, HandleTrue
    <3>2. handle'[p] = handle[p] /\ pc'[p] # "loading"
      BY <2>5 DEF ApplyCall, LockFor
    <3>. QED  BY <3>1, <3>2, HandleKept
  <2>6. ASSUME NEW to \in TransitionTargets, TransitionCall(p, to)
        PROVE  HandleTrue(p)' /\ CallTrue(p)'
    <3>1. CallTrue(p)'
      BY <2>1, <2>2, <2>3, <2>6
      DEF TransitionCall, LockFor, NoCall, CallTrue, HandleTrue, Knows
    <3>2. handle'[p] = handle[p] /\ pc'[p] # "loading"
      BY <2>6 DEF TransitionCall, LockFor
    <3>. QED  BY <3>1, <3>2, HandleKept
  <2>7. ASSUME NEW b \in Blob, PutCall(p, b)
        PROVE  HandleTrue(p)' /\ CallTrue(p)'
    <3>1. CallTrue(p)'
      BY <2>7 DEF PutCall, LockFor, NoCall, CallTrue, Moving
    <3>2. handle'[p] = handle[p] /\ pc'[p] # "loading"
      BY <2>7 DEF PutCall, LockFor
    <3>. QED  BY <3>1, <3>2, HandleKept
  <2>8. CASE RetentionCall(p)
    BY <2>8 DEF RetentionCall
  <2>9. ASSUME NEW id \in PlanId, LoadState(p, id)
        PROVE  HandleTrue(p)' /\ CallTrue(p)'
    <3>1. handle'[p] = [NoHandle EXCEPT !.plan = id] /\ pc'[p] = "loading"
          /\ Exists(id)
      BY <2>9 DEF LoadState, Readable
    <3>. QED
      BY <2>2, <3>1, CallOutside DEF HandleTrue, NoHandle, Critical
  <2>10. CASE VerifyBlobs(p)
    <3>1. /\ handle'[p].doc = handle[p].doc /\ handle'[p].plan = handle[p].plan
          /\ handle[p].doc # None /\ pc'[p] = "idle"
          /\ handle[p].doc.blobs \subseteq blobs[handle[p].plan]
      BY <2>1, <2>10 DEF VerifyBlobs, Handle
    <3>. QED
      BY <2>1, <2>2, <2>3, <3>1, CallOutside DEF HandleTrue, Critical
  <2>. QED
    BY <2>4, <2>5, <2>6, <2>7, <2>8, <2>9, <2>10 DEF NewCall
<1>2. CASE Continue(p)
  <2>. USE <1>2
  <2>1. CASE \/ CheckNew(p) \/ CheckStaged(p) \/ Admit(p) \/ CheckPut(p)
             \/ ScanPlans(p) \/ WritePlan(p) \/ WriteSig(p) \/ CommitMove(p)
    <3>1. /\ handle'[p] = handle[p] /\ call'[p] = call[p]
          /\ pc'[p] \in Moving => pc[p] \in Moving
          /\ pc'[p] = "audit" => call[p].kind \in {"apply", "transition"}
          /\ pc'[p] \notin {"loading", "retain", "evict"}
      BY <2>1
      DEF CheckNew, CheckStaged, Admit, CheckPut, Proceed, ScanPlans,
          WritePlan, WriteSig, CommitMove, Snapshot, KindShape, Moving
    <3>. QED  BY <3>1, HandleKept, CallKept
  <2>2. ASSUME Return(p), handle'[p] = handle[p]
        PROVE  HandleTrue(p)' /\ CallTrue(p)'
    <3>1. pc'[p] = "idle"
      BY <2>2 DEF Return
    <3>. QED  BY <2>2, <3>1, HandleKept, CallOutside DEF Critical
  <2>3. CASE PutBlob(p) \/ ReturnError(p)
    BY <2>2, <2>3 DEF PutBlob, ReturnError
  <2>4. CASE Reenter(p)
    <3>1. lock = p
      BY <2>4 DEF Reenter, Mutex, Critical, PcValue
    <3>. QED  BY <2>2, <2>4, <3>1 DEF Reenter, DetectsReentry
  <2>5. CASE ScanForRetention(p) \/ EvictStep(p)
    BY <2>5
    DEF ScanForRetention, EvictStep, RemoveState, RemovePlanFile,
        RemoveSigFile, RemoveBlobs, AuditEviction, Kept, CallTrue
  <2>6. CASE BuildHandle(p)
    <3>1. /\ handle'[p] = handle[p] /\ pc'[p] = "advance"
          /\ call'[p] = [call[p] EXCEPT !.doc = planFile[call[p].plan]]
          /\ UNCHANGED <<marker, planFile>> /\ call[p] \in Call
          /\ pc[p] = "build" /\ call[p].kind = "apply"
      BY <2>6 DEF BuildHandle, disk, Snapshot, KindShape
    <3>2. /\ call[p].plan \in PlanId /\ Exists(call[p].plan)
          /\ planFile[call[p].plan] = marker[call[p].plan].doc
      BY <3>1 DEF Kept, CallTrue, Knows, Moving, Shapes, CallShape
    <3>3. CallTrue(p)'
      BY <3>1, <3>2 DEF CallTrue, Call, Knows, Exists
    <3>. QED  BY <3>1, <3>3, HandleKept
  <2>7. CASE CheckMove(p)
    <3>1. /\ call'[p].kind = call[p].kind /\ call'[p].plan = call[p].plan
          /\ call'[p].doc = call[p].doc /\ call'[p].to = call[p].to
          /\ handle'[p] = handle[p] /\ pc[p] = "advance"
          /\ pc'[p] = "commit"
      BY <2>7 DEF CheckMove, Call
    <3>. QED  BY <3>1, HandleKept, CallKept DEF Moving
  <2>8. CASE WriteMarker(p)
    <3>1. /\ handle'[p] = handle[p] /\ call'[p] = call[p]
          /\ pc'[p] = "audit"
      BY <2>8 DEF WriteMarker
    <3>2. /\ Knows(call[p].plan, call[p].doc)'
          /\ call[p].kind \in {"begin", "begin_checked"}
      <4>1. /\ marker'[call[p].plan]
                  = [stage |-> "Downloading", doc |-> call[p].doc,
                     channel |-> call[p].doc.channel]
            /\ call[p].kind \in {"begin", "begin_checked"}
        <5>. HIDE DEF Typing, TypeOK
        <5>. QED  BY <2>8, BeginWrites
      <4>. QED  BY <3>1, <4>1 DEF Knows, Exists, Absent
    <3>3. CallTrue(p)'
      BY <3>1, <3>2 DEF CallTrue
    <3>. QED  BY <3>1, <3>3, HandleKept
  <2>9. CASE AppendAudit(p)
    <3>1. pc'[p] = "idle" /\ UNCHANGED <<marker, blobs>> /\ pc[p] = "audit"
      BY <2>9 DEF AppendAudit, Return
    <3>2. CASE call[p].kind = "transition"
      BY <2>2, <2>9, <3>2 DEF AppendAudit
    <3>3. CASE call[p].kind # "transition"
      <4>1. handle'[p] = [plan |-> call[p].plan, doc |-> call[p].doc,
                          verified |-> FALSE]
        BY <2>9, <3>3 DEF AppendAudit
      <4>2. Knows(call[p].plan, call[p].doc)
        BY <3>1, <3>3 DEF Kept, CallTrue
      <4>. QED
        BY <3>1, <4>1, <4>2, CallOutside
        DEF HandleTrue, Critical, Knows, Exists
    <3>. QED  BY <3>2, <3>3
  <2>10. CASE LoadPlan(p)
    <3>1. /\ pc[p] = "loading" /\ pc'[p] = "idle"
          /\ UNCHANGED <<marker, planFile, blobs>>
          /\ handle[p] \in Handle /\ handle[p].plan \in PlanId
      BY <2>10 DEF LoadPlan, disk, Shapes, HandleShape
    <3>2. Knows(handle[p].plan, planFile[handle[p].plan]) /\ HandleTrue(p)
      BY <3>1 DEF Kept, HandleTrue, Knows
    <3>3. \/ handle'[p] = NoHandle
          \/ handle'[p] = [handle[p] EXCEPT !.doc = planFile[handle[p].plan]]
      BY <2>10 DEF LoadPlan
    <3>. QED
      BY <3>1, <3>2, <3>3, CallOutside
      DEF HandleTrue, Critical, Knows, Exists, Handle, NoHandle
  <2>. QED
    BY <2>1, <2>3, <2>4, <2>5, <2>6, <2>7, <2>8, <2>9, <2>10 DEF Continue
<1>3. CASE Crash(p)
  <2>1. handle'[p] = NoHandle /\ pc'[p] = "idle"
    BY <1>3 DEF Crash
  <2>. QED  BY <2>1, CallOutside DEF HandleTrue, NoHandle, Critical
<1>. QED  BY <1>1, <1>2, <1>3

(* Without retention every directory with a marker is whole. *)
LEMMA KeptStep ==
    ASSUME KeepPolicies = {}, Typing, Mutex, Snapshot, Verifiable, Kept,
           [Next]_vars
    PROVE  Kept'
<1>1. ASSUME NEW id \in PlanId, Exists(id)'
      PROVE  (planFile[id] = marker[id].doc)'
  <2>1. CASE Exists(id)
    BY <2>1, DirectoriesGrow DEF Kept
  <2>2. CASE ~ Exists(id)
    <3>1. \/ marker' = marker
          \/ \E p \in Proc : WriteMarker(p) \/ CommitMove(p)
          \/ \E p \in Proc, other \in PlanId : RemoveState(p, other)
      BY MarkerWriters
    <3>2. marker' # marker
      BY <1>1, <2>2 DEF Exists
    <3>3. ASSUME NEW p \in Proc, NEW other \in PlanId, RemoveState(p, other)
          PROVE  FALSE
      BY <3>3 DEF RemoveState, Kept, CallTrue
    <3>4. ASSUME NEW p \in Proc, CommitMove(p)  PROVE FALSE
      <4>1. id = call[p].plan \/ marker'[id] = marker[id]
        BY <3>4, CommitWrites
      <4>2. Exists(call[p].plan)
        BY <3>4, CommitWrites DEF Exists, Stage, Absent
      <4>. QED  BY <1>1, <2>2, <4>1, <4>2 DEF Exists
    <3>5. ASSUME NEW p \in Proc, WriteMarker(p)
          PROVE  (planFile[id] = marker[id].doc)'
      <4>1. id = call[p].plan \/ marker'[id] = marker[id]
        BY <3>5, BeginWrites
      <4>2. id = call[p].plan
        BY <1>1, <2>2, <4>1 DEF Exists
      <4>3. /\ planFile[id] = call[p].doc
            /\ marker'[id] = [stage |-> "Downloading", doc |-> call[p].doc,
                              channel |-> call[p].doc.channel]
        BY <3>5, <4>2, BeginWrites
      <4>4. planFile' = planFile
        BY <3>5 DEF WriteMarker
      <4>. QED  BY <4>3, <4>4
    <3>. QED  BY <3>1, <3>2, <3>3, <3>4, <3>5
  <2>. QED  BY <2>1, <2>2
<1>2. \A q \in Proc : HandleTrue(q)' /\ CallTrue(q)'
  <2>1. ASSUME NEW q \in Proc, pc'[q] = pc[q], call'[q] = call[q],
               handle'[q] = handle[q]
        PROVE  HandleTrue(q)' /\ CallTrue(q)'
    BY <2>1, HandleKept, CallKept DEF Kept, CallTrue
  <2>2. ASSUME NEW p \in Proc, NewCall(p) \/ Continue(p) \/ Crash(p),
               NEW q \in Proc
        PROVE  HandleTrue(q)' /\ CallTrue(q)'
    BY <2>1, <2>2, OthersKept, BelievesStep
  <2>3. CASE UNCHANGED <<pc, call, handle>>
    BY <2>1, <2>3
  <2>. QED  BY <2>2, <2>3 DEF Next, Rot, thread, vars
<1>. QED  BY <1>1, <1>2 DEF Kept

(* The stages past Downloading. *)
Landed == {"Inbox", "Staged", "Applying", "Applied"}

(* Without retention a plan is promoted only with all its blobs. *)
LEMMA PromotedStep ==
    ASSUME Typing, Snapshot, Verifiable, Kept, PromotedPlansComplete,
           [Next]_vars
    PROVE  PromotedPlansComplete'
<1>. SUFFICES ASSUME NEW id \in PlanId, marker'[id].stage \in Landed
              PROVE  marker'[id].doc.blobs \subseteq blobs'[id]
  BY DEF PromotedPlansComplete, Landed
<1>1. ASSUME marker[id].stage \in Landed
      PROVE  marker'[id].doc.blobs \subseteq blobs'[id]
  <2>1. Exists(id) /\ marker[id].doc.blobs \subseteq blobs[id]
    BY <1>1 DEF PromotedPlansComplete, Landed, Exists, Absent
  <2>. QED  BY <2>1, DirectoriesGrow
<1>2. ASSUME marker'[id] = marker[id]
      PROVE  marker'[id].doc.blobs \subseteq blobs'[id]
  BY <1>1, <1>2
<1>3. ASSUME NEW p \in Proc, WriteMarker(p)
      PROVE  marker'[id].doc.blobs \subseteq blobs'[id]
  <2>1. CASE id = call[p].plan
    <3>1. marker'[id] = [stage |-> "Downloading", doc |-> call[p].doc,
                         channel |-> call[p].doc.channel]
      BY <1>3, <2>1, BeginWrites
    <3>. QED  BY <3>1 DEF Landed
  <2>2. CASE id # call[p].plan
    BY <1>2, <1>3, <2>2, BeginWrites
  <2>. QED  BY <2>1, <2>2
<1>4. ASSUME NEW p \in Proc, CommitMove(p)
      PROVE  marker'[id].doc.blobs \subseteq blobs'[id]
  <2>1. CASE id = call[p].plan
    <3>1. /\ IsValidTransition(marker[id].stage, call[p].to)
          /\ marker'[id].stage = call[p].to /\ marker'[id].doc = marker[id].doc
      BY <1>4, <2>1, CommitWrites
    <3>2. marker[id].stage \in Landed \/ call[p].to = "Inbox"
      BY <3>1 DEF IsValidTransition, Transitions, Landed
    <3>3. CASE call[p].to = "Inbox"
      <4>1. pc[p] = "commit" /\ call[p].kind = "transition" /\ blobs' = blobs
        BY <1>4, <3>3 DEF CommitMove, Snapshot, KindShape, Moving
      <4>2. marker[id].doc.blobs \subseteq blobs[id]
        BY <2>1, <3>3, <4>1 DEF Kept, CallTrue, Moving
      <4>. QED  BY <3>1, <4>1, <4>2
    <3>. QED  BY <1>1, <3>2, <3>3
  <2>2. CASE id # call[p].plan
    BY <1>2, <1>4, <2>2, CommitWrites
  <2>. QED  BY <2>1, <2>2
<1>5. ASSUME NEW p \in Proc, NEW other \in PlanId, RemoveState(p, other)
      PROVE  FALSE
  BY <1>5 DEF RemoveState, Kept, CallTrue
<1>. QED  BY <1>2, <1>3, <1>4, <1>5, MarkerWriters

(* What an empty area, or an older version's, starts with. *)
LEMMA KeptInit ==
    ASSUME Init
    PROVE  Named /\ Kept /\ PromotedPlansComplete
<1>. USE DocAssumption, NoneAssumption
<1>1. PICK s \in {"Staged", "Applied"} :
        marker = [id \in PlanId |->
                    IF LegacyAt(id)
                      THEN [stage |-> s, channel |-> None,
                            doc |-> CHOOSE d \in LegacyDoc : d.id = id]
                      ELSE NoMarker]
  BY DEF Init
<1>2. \A id \in PlanId :
         IF LegacyAt(id)
           THEN /\ marker[id].doc \in LegacyDoc /\ marker[id].doc.id = id
                /\ marker[id].stage = s /\ marker[id].channel = None
           ELSE marker[id] = NoMarker
  BY <1>1 DEF LegacyAt
<1>3. \A id \in PlanId : planFile[id] = marker[id].doc
  BY DEF Init
<1>4. \A p \in Proc : pc[p] = "idle" /\ call[p] = NoCall /\ handle[p] = NoHandle
  BY DEF Init
<1>5. Named
  BY <1>2, <1>3, <1>4
  DEF Named, Recorded, Exists, NoMarker, NoCall, NoHandle
<1>6. Kept
  BY <1>3, <1>4
  DEF Kept, HandleTrue, CallTrue, NoCall, NoHandle, Moving
<1>7. PromotedPlansComplete
  <2>1. \A id \in PlanId :
           LegacyAt(id) => marker[id].doc.blobs \subseteq blobs[id]
    BY DEF Init
  <2>. QED
    BY <1>2, <2>1 DEF PromotedPlansComplete, NoMarker, Absent
<1>. QED  BY <1>5, <1>6, <1>7

(* Named is an invariant, whatever the callers do. *)
LEMMA NamedInvariant == Spec => []Named
<1>1. Init => Named
  BY KeptInit
<1>2. Typing /\ Snapshot /\ Verifiable /\ Named /\ [Next]_vars => Named'
  BY NamedStep
<1>. QED
  BY <1>1, <1>2, MutualExclusion, SnapshotInvariant, VerifiableInvariant, PTL
  DEF Spec

(* Kept is one of an area whose finished plans are not evicted. *)
LEMMA KeptInvariant ==
    ASSUME KeepPolicies = {}
    PROVE  Spec => []Kept
<1>1. Init => Kept
  BY KeptInit
<1>2. Typing /\ Mutex /\ Snapshot /\ Verifiable /\ Kept /\ [Next]_vars => Kept'
  BY KeptStep
<1>. QED
  BY <1>1, <1>2, MutualExclusion, SnapshotInvariant, VerifiableInvariant, PTL
  DEF Spec

(* Where no retention runs, a plan past Downloading has all its blobs, for *)
(* callers that promote what they have verified: a handle that was good    *)
(* once stays good.  With retention it does not: a caller may hold a       *)
(* verified handle of an evicted plan whose id has been begun again.       *)
THEOREM PromotedAlwaysComplete ==
    ASSUME KeepPolicies = {}
    PROVE  Spec => []PromotedPlansComplete
<1>1. Init => PromotedPlansComplete
  BY KeptInit
<1>2. Typing /\ Snapshot /\ Verifiable /\ Kept /\ PromotedPlansComplete
        /\ [Next]_vars => PromotedPlansComplete'
  BY PromotedStep
<1>. QED
  BY <1>1, <1>2, MutualExclusion, SnapshotInvariant, VerifiableInvariant,
     KeptInvariant, PTL DEF Spec

----------------------------------------------------------------------------

(* The plan a caller has asked to apply is the one staged under its id. *)
LEMMA SameDoc ==
    ASSUME Faithful, Typing, Backed, NEW p \in Proc,
           pc[p] = "check_staged", call[p].kind = "apply",
           Exists(call[p].plan)
    PROVE  marker[call[p].plan].doc = call[p].doc
<1>1. CASE KeepPolicies = {}
  BY <1>1 DEF Backed, Kept, CallTrue, Knows, Moving
<1>2. CASE Unambiguous
  <2>1. call[p].plan \in PlanId /\ call[p].doc \in Doc
    BY DEF Typing, Shapes, CallShape, Moving
  <2>2. /\ marker[call[p].plan].doc \in Doc
        /\ marker[call[p].plan].doc.id = call[p].plan
    BY <2>1 DEF Typing, Shapes, Backed, Named, Recorded
  <2>3. call[p].doc.id = call[p].plan
    BY <2>1, NoneAssumption DEF Backed, Named
  <2>. QED  BY <1>2, <2>1, <2>2, <2>3 DEF Unambiguous
<1>. QED  BY <1>1, <1>2 DEF Faithful

(* The channel a scan reads of a plan is the one its document names. *)
LEMMA ChannelsAreKnown ==
    ASSUME Faithful, Typing, Backed
    PROVE  ChannelsKnown
<1>. SUFFICES ASSUME NEW id \in PlanId, Exists(id)
              PROVE  EffectiveChannel(id) = marker[id].doc.channel
  BY DEF ChannelsKnown
<1>1. /\ marker[id].doc \in Doc /\ marker[id].doc.channel \in Channel
      /\ \/ marker[id].channel = marker[id].doc.channel
         \/ marker[id].channel = None /\ marker[id].doc \in LegacyDoc
  BY DocAssumption DEF Typing, Shapes, Backed, Named, Recorded, DocType
<1>2. CASE marker[id].channel = None /\ LegacyDoc # {}
  <2>1. planFile[id] = marker[id].doc
    BY <1>2 DEF Faithful, Unambiguous, Backed, Kept
  <2>. QED  BY <1>1, <1>2, <2>1, NoneAssumption DEF EffectiveChannel
<1>. QED  BY <1>1, <1>2, NoneAssumption DEF EffectiveChannel

(* No marker changes under a caller that stays where it is in a decision. *)
LEMMA MarkersStill ==
    ASSUME Typing, Mutex, [Next]_vars, NEW q \in Proc, pc'[q] = pc[q],
           pc[q] \in {"scan", "admit", "build", "advance", "commit"}
    PROVE  marker' = marker
<1>. USE DEF Typing, TypeOK, Goto
<1>1. lock = q
  BY DEF Mutex, Critical, PcValue
<1>2. ASSUME NEW r \in Proc, WriteMarker(r) \/ CommitMove(r) PROVE FALSE
  <2>1. pc[r] \in {"write_marker", "commit"} /\ pc'[r] = "audit"
    BY <1>2 DEF WriteMarker, CommitMove
  <2>2. r = q
    BY <1>1, <2>1 DEF Mutex, Critical, PcValue
  <2>. QED  BY <2>1, <2>2
<1>3. ASSUME NEW r \in Proc, NEW id \in PlanId, RemoveState(r, id) PROVE FALSE
  <2>1. pc[r] = "evict"
    BY <1>3 DEF RemoveState
  <2>2. r = q
    BY <1>1, <2>1 DEF Mutex, Critical, PcValue
  <2>. QED  BY <2>1, <2>2
<1>. QED  BY <1>2, <1>3, MarkerWriters

(* Nothing a caller does makes its own decision wrong. *)
LEMMA DecidedOwnStep ==
    ASSUME Faithful, Typing, Snapshot, Verifiable, Backed, NEW q \in Proc,
           Decided(q), NewCall(q) \/ Continue(q)
    PROVE  Decided(q)'
<1>. USE NoneAssumption DEF Typing, TypeOK, Goto
<1>. DEFINE Committed == {"scan", "admit", "build", "advance", "commit"}
<1>1. CASE pc'[q] \notin Committed
  BY <1>1 DEF Decided
<1>2. CASE call'[q].kind # "apply"
  BY <1>2 DEF Decided
<1>3. CASE NewCall(q)
  <2>1. ASSUME NEW to, TransitionCall(q, to) PROVE Decided(q)'
    BY <1>2, <2>1 DEF TransitionCall, LockFor, NoCall
  <2>2. CASE VerifyBlobs(q)
    BY <1>1, <2>2 DEF VerifyBlobs
  <2>. QED
    BY <1>1, <1>3, <2>1, <2>2
    DEF NewCall, BeginCall, ApplyCall, PutCall, RetentionCall, LoadState,
        LockFor
<1>4. CASE CheckStaged(q)
  <2>1. /\ pc[q] = "check_staged" /\ pc'[q] = "scan"
        /\ marker' = marker /\ call' = call
        /\ Exists(call[q].plan) /\ marker[call[q].plan].stage = "Staged"
    BY <1>4 DEF CheckStaged, Proceed, Readable, disk
  <2>2. call[q].kind = "apply" => marker[call[q].plan].doc = call[q].doc
    <3>. HIDE DEF Typing, TypeOK
    <3>. QED  BY <2>1, SameDoc
  <2>. QED  BY <2>1, <2>2 DEF Decided
<1>5. CASE ScanPlans(q)
  BY <1>5 DEF ScanPlans, disk, Decided
<1>6. CASE Admit(q)
  BY <1>6 DEF Admit, Proceed, GatesPass, disk, Decided
<1>7. CASE BuildHandle(q)
  <2>1. /\ pc[q] = "build" /\ pc'[q] = "advance"
        /\ marker' = marker /\ facts' = facts /\ call[q].kind = "apply"
        /\ call'[q] = [call[q] EXCEPT !.doc = planFile[call[q].plan]]
    BY <1>7 DEF BuildHandle, disk, Snapshot, KindShape
  <2>2. call[q].plan \in PlanId /\ call[q] \in Call
    BY <2>1 DEF Shapes, CallShape, Moving
  <2>3. planFile[call[q].plan] = call[q].doc
    BY <2>1, <2>2
    DEF Decided, Verifiable, ActivePlanVerifiable, Active, Stage, Terminal
  <2>4. /\ call'[q].doc = call[q].doc /\ call'[q].plan = call[q].plan
        /\ call'[q].kind = call[q].kind
    BY <2>1, <2>2, <2>3 DEF Call
  <2>. QED  BY <2>1, <2>4 DEF Decided
<1>8. CASE CheckMove(q)
  <2>1. /\ pc[q] = "advance" /\ pc'[q] = "commit"
        /\ marker' = marker /\ facts' = facts
        /\ call'[q].doc = call[q].doc /\ call'[q].plan = call[q].plan
        /\ call'[q].kind = call[q].kind
    BY <1>8 DEF CheckMove, disk, Call
  <2>. QED  BY <2>1 DEF Decided
<1>9. CASE CheckNew(q)
  <2>1. call'[q].kind # "apply"
    BY <1>9 DEF CheckNew, Proceed, Snapshot, KindShape
  <2>. QED  BY <1>2, <2>1
<1>10. CASE EvictStep(q)
  BY <1>1, <1>10
  DEF EvictStep, RemoveState, RemovePlanFile, RemoveSigFile, RemoveBlobs,
      AuditEviction, Return, thread
<1>11. CASE \/ WritePlan(q) \/ WriteSig(q) \/ WriteMarker(q) \/ CommitMove(q)
            \/ CheckPut(q) \/ LoadPlan(q)
  BY <1>1, <1>11
  DEF WritePlan, WriteSig, WriteMarker, CommitMove, CheckPut, LoadPlan, Proceed
<1>12. CASE \/ AppendAudit(q) \/ PutBlob(q) \/ ReturnError(q)
            \/ Reenter(q) \/ ScanForRetention(q)
  BY <1>1, <1>12
  DEF AppendAudit, PutBlob, ReturnError, Reenter, ScanForRetention, Return
<1>. QED
  BY <1>3, <1>4, <1>5, <1>6, <1>7, <1>8, <1>9, <1>10, <1>11, <1>12
  DEF Continue

(* No step makes a decision wrong while it is carried out. *)
LEMMA DecidedStep ==
    ASSUME Faithful, Typing, Mutex, Snapshot, Verifiable, Backed,
           [Next]_vars, \A p \in Proc : Decided(p), NEW q \in Proc
    PROVE  Decided(q)'
<1>1. ASSUME pc'[q] = pc[q], call'[q] = call[q], facts'[q] = facts[q]
      PROVE  Decided(q)'
  <2>1. CASE pc[q] \in {"scan", "admit", "build", "advance", "commit"}
    <3>1. marker' = marker
      BY <1>1, <2>1, MarkersStill
    <3>. QED  BY <1>1, <3>1 DEF Decided
  <2>2. CASE pc[q] \notin {"scan", "admit", "build", "advance", "commit"}
    BY <1>1, <2>2 DEF Decided
  <2>. QED  BY <2>1, <2>2
<1>2. ASSUME NEW p \in Proc, NewCall(p) \/ Continue(p) \/ Crash(p)
      PROVE  Decided(q)'
  <2>1. CASE p # q
    BY <1>1, <1>2, <2>1, OthersKept
  <2>2. CASE p = q /\ Crash(q)
    BY <2>2 DEF Crash, Decided, Typing, TypeOK
  <2>. QED  BY <1>2, <2>1, <2>2, DecidedOwnStep
<1>3. CASE UNCHANGED <<pc, call, facts>>
  BY <1>1, <1>3
<1>. QED  BY <1>2, <1>3 DEF Next, Rot, thread, vars

----------------------------------------------------------------------------
(* Backed is an invariant, and with it every decision in progress. *)
LEMMA BackedInvariant == Spec => []Backed
<1>1. CASE KeepPolicies = {}
  <2>1. Named /\ Kept => Backed
    BY DEF Backed
  <2>. QED  BY <1>1, <2>1, NamedInvariant, KeptInvariant, PTL
<1>2. CASE KeepPolicies # {}
  <2>1. Named => Backed
    BY <1>2 DEF Backed
  <2>. QED  BY <2>1, NamedInvariant, PTL
<1>. QED  BY <1>1, <1>2

(* With handles that never go stale, every decision under way is sound.    *)
LEMMA DecisionsInvariant ==
    ASSUME Faithful
    PROVE  Spec => []Decisions
<1>. DEFINE AllDecided == \A p \in Proc : Decided(p)
<1>1. Init => AllDecided
  BY DEF Init, Decided
<1>2. Typing /\ Mutex /\ Snapshot /\ Verifiable /\ Backed /\ AllDecided
        /\ [Next]_vars => AllDecided'
  BY DecidedStep
<1>3. Typing /\ Backed /\ AllDecided => Decisions
  BY ChannelsAreKnown DEF Decisions
<1>. HIDE DEF AllDecided
<1>. QED
  BY <1>1, <1>2, <1>3, MutualExclusion, SnapshotInvariant,
     VerifiableInvariant, BackedInvariant, PTL DEF Spec

(* SingleApply is one where callers leave Applying to begin_apply_checked. *)
LEMMA SingleApplyInvariant ==
    ASSUME "Applying" \notin TransitionTargets
    PROVE  Spec => []SingleApply
<1>1. Typing /\ Snapshot /\ SingleApply /\ [Next]_vars => SingleApply'
  BY SingleApplyStep
<1>. QED
  BY SafetyInit, MutualExclusion, SnapshotInvariant, <1>1, PTL DEF Spec

(* The plan that a commit moves to Applying was staged, alone, and is newer *)
(* than every plan that is applied in its channel.                          *)
LEMMA AppliesNewest ==
    ASSUME "Applying" \notin TransitionTargets, Typing, Snapshot, SingleApply,
           Verifiable, Decisions, NEW p \in Proc, CommitMove(p),
           call[p].to = "Applying"
    PROVE  LET m == marker[call[p].plan] IN
           /\ m.stage = "Staged"
           /\ \A other \in PlanId :
                 /\ marker[other].stage # "Applying"
                 /\ marker[other].stage = "Applied"
                    /\ marker[other].doc.channel = m.doc.channel
                      => marker[other].doc.seq < m.doc.seq
<1>. DEFINE id == call[p].plan
<1>1. /\ pc[p] = "commit" /\ call[p].kind = "apply" /\ id \in PlanId
  BY DEF CommitMove, Snapshot, KindShape, Moving, Typing, Shapes, CallShape
<1>2. /\ marker[id].stage = "Staged" /\ marker[id].doc = call[p].doc
      /\ \A s \in facts[p].seqs : s < call[p].doc.seq
  BY <1>1 DEF Decisions, Decided
<1>3. facts[p].applying = {} /\ facts[p] = ScannedFacts(EffectiveChannel(id))
  BY <1>1 DEF SingleApply, Alone, Snapshot, Fresh, Deciding
<1>4. EffectiveChannel(id) = marker[id].doc.channel
  BY <1>1, <1>2 DEF Decisions, ChannelsKnown, Exists, Absent
<1>5. ASSUME NEW other \in PlanId PROVE marker[other].stage # "Applying"
  BY <1>3 DEF ScannedFacts, FactsOf
<1>6. ASSUME NEW other \in PlanId, marker[other].stage = "Applied",
             marker[other].doc.channel = marker[id].doc.channel
      PROVE  marker[other].doc.seq < marker[id].doc.seq
  <2>1. EffectiveChannel(other) = marker[other].doc.channel
    BY <1>6 DEF Decisions, ChannelsKnown, Exists, Absent
  <2>2. facts[p].seqs = {marker[i].doc.seq :
            i \in {j \in {k \in PlanId : marker[k].stage = "Applied"} :
                     EffectiveChannel(j) = EffectiveChannel(id)}}
    BY <1>3 DEF ScannedFacts, FactsOf
  <2>3. marker[other].doc.seq \in facts[p].seqs
    BY <1>4, <1>6, <2>1, <2>2
  <2>. QED  BY <1>2, <2>3
<1>. QED  BY <1>2, <1>5, <1>6

----------------------------------------------------------------------------
(* What has been applied is on disk, until retention evicts it. *)
LEMMA AppliedStaysStep ==
    ASSUME KeepPolicies = {}, Typing, Snapshot, Verifiable, Kept, AppliedStays,
           [Next]_vars
    PROVE  AppliedStays'
<1>1. ASSUME NEW id \in PlanId, marker[id].stage = "Applied"
      PROVE  marker'[id] = marker[id]
  <2>1. ASSUME NEW p \in Proc, WriteMarker(p) PROVE marker'[id] = marker[id]
    BY <1>1, <2>1, BeginWrites DEF Exists, Absent
  <2>2. ASSUME NEW p \in Proc, CommitMove(p) PROVE marker'[id] = marker[id]
    BY <1>1, <2>2, CommitWrites DEF IsValidTransition, Transitions
  <2>3. ASSUME NEW p \in Proc, NEW other \in PlanId, RemoveState(p, other)
        PROVE  FALSE
    BY <2>3 DEF RemoveState, Kept, CallTrue
  <2>. QED  BY <2>1, <2>2, <2>3, MarkerWriters
<1>2. CASE everApplied' = everApplied
  BY <1>1, <1>2 DEF AppliedStays
<1>3. ASSUME NEW p \in Proc, CommitMove(p) PROVE AppliedStays'
  <2>1. /\ call[p].plan \in PlanId
        /\ marker'[call[p].plan].stage = call[p].to
        /\ marker'[call[p].plan].doc = marker[call[p].plan].doc
    BY <1>3, CommitWrites
  <2>2. call[p].seen.doc = marker[call[p].plan].doc
    BY <1>3 DEF CommitMove, Verifiable, Ready
  <2>3. \/ everApplied' = everApplied
        \/ /\ call[p].to = "Applied"
           /\ everApplied' = everApplied \cup {call[p].seen.doc}
    BY <1>3 DEF CommitMove
  <2>. QED  BY <1>1, <1>2, <2>1, <2>2, <2>3 DEF AppliedStays
<1>4. everApplied' = everApplied \/ \E p \in Proc : CommitMove(p)
  <2>1. ASSUME NEW p \in Proc, NewCall(p) PROVE everApplied' = everApplied
    BY <2>1
    DEF NewCall, BeginCall, ApplyCall, TransitionCall, PutCall, RetentionCall,
        LoadState, VerifyBlobs, LockFor, history
  <2>2. ASSUME NEW p \in Proc, EvictStep(p) PROVE everApplied' = everApplied
    BY <2>2
    DEF EvictStep, RemoveState, RemovePlanFile, RemoveSigFile, RemoveBlobs,
        AuditEviction, history
  <2>3. ASSUME NEW p \in Proc, Continue(p)
        PROVE  everApplied' = everApplied \/ CommitMove(p) \/ EvictStep(p)
    BY <2>3
    DEF Continue, CheckNew, CheckStaged, ScanPlans, Admit, Reenter,
        BuildHandle, WritePlan, WriteSig, WriteMarker, CheckMove, AppendAudit,
        CheckPut, PutBlob, ScanForRetention, LoadPlan, ReturnError, Proceed,
        history
  <2>. QED  BY <2>1, <2>2, <2>3 DEF Next, Crash, Rot, history, vars
<1>. QED  BY <1>2, <1>3, <1>4

(* Without retention, all that was ever applied is still there as applied. *)
LEMMA AppliedStaysInvariant ==
    ASSUME KeepPolicies = {}
    PROVE  Spec => []AppliedStays
<1>1. Init => AppliedStays
  BY DEF Init, AppliedStays
<1>2. Typing /\ Snapshot /\ Verifiable /\ Kept /\ AppliedStays /\ [Next]_vars
        => AppliedStays'
  BY AppliedStaysStep
<1>. QED
  BY <1>1, <1>2, MutualExclusion, SnapshotInvariant, VerifiableInvariant,
     KeptInvariant, PTL DEF Spec

(* While nothing is evicted, a plan starts applying only if it is newer    *)
(* than every plan that was ever applied from its channel, although an     *)
(* admission only scans what is in the area now.  With retention it is     *)
(* false: the run evicted_watermark shows the replay.                      *)
THEOREM NeverReplays ==
    ASSUME "Applying" \notin TransitionTargets, KeepPolicies = {}
    PROVE  Spec => NoReplay
<1>. DEFINE Newest ==
        \A id \in PlanId :
            marker[id].stage # "Applying" /\ marker'[id].stage = "Applying"
              => \A d \in everApplied :
                   d.channel = marker[id].doc.channel
                     => d.seq < marker[id].doc.seq
<1>1. Typing /\ Snapshot /\ SingleApply /\ Verifiable /\ Decisions
        /\ AppliedStays /\ [Next]_vars => Newest
  <2>. SUFFICES ASSUME Typing, Snapshot, SingleApply, Verifiable, Decisions,
                       AppliedStays, [Next]_vars,
                       NEW id \in PlanId, marker[id].stage # "Applying",
                       marker'[id].stage = "Applying",
                       NEW d \in everApplied,
                       d.channel = marker[id].doc.channel
                PROVE  d.seq < marker[id].doc.seq
    OBVIOUS
  <2>1. ASSUME NEW p \in Proc, WriteMarker(p) PROVE FALSE
    <3>1. id = call[p].plan
      BY <2>1, BeginWrites
    <3>2. marker'[id] = [stage |-> "Downloading", doc |-> call[p].doc,
                         channel |-> call[p].doc.channel]
      BY <2>1, <3>1, BeginWrites
    <3>. QED  BY <3>2
  <2>2. ASSUME NEW p \in Proc, NEW other \in PlanId, RemoveState(p, other)
        PROVE  FALSE
    BY <2>2 DEF RemoveState, NoMarker, Absent, Typing, TypeOK
  <2>3. PICK p \in Proc : CommitMove(p)
    BY <2>1, <2>2, MarkerWriters
  <2>4. id = call[p].plan /\ call[p].to = "Applying"
    <3>1. id = call[p].plan
      BY <2>3, CommitWrites
    <3>. QED  BY <2>3, <3>1, CommitWrites
  <2>5. PICK other \in PlanId :
          marker[other].stage = "Applied" /\ marker[other].doc = d
    BY DEF AppliedStays
  <2>. QED  BY <2>3, <2>4, <2>5, AppliesNewest
<1>2. Faithful
  BY DEF Faithful
<1>3. Spec => []Decisions
  BY <1>2, DecisionsInvariant
<1>4. Spec => []SingleApply
  BY SingleApplyInvariant
<1>5. Spec => []AppliedStays
  BY AppliedStaysInvariant
<1>. HIDE DEF Newest
<1>6. Spec => [][Newest]_vars
  BY <1>1, <1>3, <1>4, <1>5, MutualExclusion, SnapshotInvariant,
     VerifiableInvariant, PTL DEF Spec
<1>. QED  BY <1>6 DEF NoReplay, Newest

----------------------------------------------------------------------------
(* The staging area implements the plan lifecycle. *)

(* A step of one plan is a step of the lifecycle. *)
LEMMA OnePlanMoves ==
    ASSUME NEW id \in PlanId,
           \/ \E d \in Doc : Lifecycle!Admit(id, d)
           \/ Lifecycle!Promote(id) \/ Lifecycle!StartApply(id)
           \/ Lifecycle!LeavePath(id) \/ Lifecycle!Forget(id)
    PROVE  Lifecycle!Next
  BY DEF Lifecycle!Next

(* A commit is one step of the lifecycle: along the path, off it, or the   *)
(* start of an apply.                                                      *)
LEMMA CommitImplements ==
    ASSUME "Applying" \notin TransitionTargets, Typing, Snapshot, SingleApply,
           Verifiable, Decisions, NEW p \in Proc, CommitMove(p)
    PROVE  Lifecycle!Next
<1>. PICK id \in PlanId : id = call[p].plan
  BY CommitWrites
<1>. DEFINE to == call[p].to
            stage == [i \in PlanId |-> marker[i].stage]
            doc == [i \in PlanId |-> marker[i].doc]
            move == [stage EXCEPT ![id] = to]
<1>1. /\ id \in PlanId /\ IsValidTransition(marker[id].stage, to)
      /\ marker'[id].stage = to /\ marker'[id].doc = marker[id].doc
      /\ \A other \in PlanId \ {id} : marker'[other] = marker[other]
  BY CommitWrites
<1>2. [i \in PlanId |-> marker'[i].stage] = move
  BY <1>1
<1>3. [i \in PlanId |-> marker'[i].doc] = doc
  BY <1>1
<1>4. stage[id] = marker[id].stage
  BY <1>1
<1>5. \/ <<marker[id].stage, to>> \in
            {<<"Downloading", "Inbox">>, <<"Inbox", "Staged">>,
             <<"Applying", "Applied">>}
      \/ to = "Applying"
      \/ marker[id].stage \in {"Downloading", "Inbox", "Applying"}
         /\ to = "Failed"
      \/ marker[id].stage \in {"Downloading", "Inbox", "Staged"}
         /\ to = "Rejected"
  BY <1>1 DEF IsValidTransition, Transitions
<1>6. CASE <<marker[id].stage, to>> = <<"Downloading", "Inbox">>
  <2>1. Lifecycle!Promote(id)
    BY <1>2, <1>3, <1>4, <1>6 DEF Lifecycle!Promote, Lifecycle!HappyPath
  <2>. QED  BY <1>1, <2>1, OnePlanMoves
<1>7. CASE <<marker[id].stage, to>> = <<"Inbox", "Staged">>
  <2>1. Lifecycle!Promote(id)
    BY <1>2, <1>3, <1>4, <1>7 DEF Lifecycle!Promote, Lifecycle!HappyPath
  <2>. QED  BY <1>1, <2>1, OnePlanMoves
<1>8. CASE <<marker[id].stage, to>> = <<"Applying", "Applied">>
  <2>1. Lifecycle!Promote(id)
    BY <1>2, <1>3, <1>4, <1>8 DEF Lifecycle!Promote, Lifecycle!HappyPath
  <2>. QED  BY <1>1, <2>1, OnePlanMoves
<1>9. CASE to = "Applying"
  <2>1. /\ marker[id].stage = "Staged"
        /\ \A other \in PlanId :
              /\ marker[other].stage # "Applying"
              /\ marker[other].stage = "Applied"
                 /\ marker[other].doc.channel = marker[id].doc.channel
                   => marker[other].doc.seq < marker[id].doc.seq
    BY <1>9, AppliesNewest
  <2>2. Lifecycle!StartApply(id)
    BY <1>1, <1>2, <1>3, <1>9, <2>1 DEF Lifecycle!StartApply
  <2>. QED  BY <1>1, <2>2, OnePlanMoves
<1>10. CASE \/ /\ marker[id].stage \in {"Downloading", "Inbox", "Applying"}
               /\ to = "Failed"
            \/ /\ marker[id].stage \in {"Downloading", "Inbox", "Staged"}
               /\ to = "Rejected"
  <2>1. Lifecycle!LeavePath(id)
    BY <1>2, <1>3, <1>4, <1>10 DEF Lifecycle!LeavePath
  <2>. QED  BY <1>1, <2>1, OnePlanMoves
<1>. QED  BY <1>5, <1>6, <1>7, <1>8, <1>9, <1>10

(* The marker of a begin is the admission of its plan. *)
LEMMA BeginImplements ==
    ASSUME Typing, Snapshot, Verifiable, NEW p \in Proc, WriteMarker(p)
    PROVE  Lifecycle!Next
<1>. PICK id \in PlanId : id = call[p].plan
  BY BeginWrites
<1>. PICK d \in Doc : d = call[p].doc
  BY BeginWrites
<1>1. /\ marker[id].stage = Absent
      /\ marker'[id] = [stage |-> "Downloading", doc |-> d,
                        channel |-> d.channel]
      /\ \A other \in PlanId \ {id} : marker'[other] = marker[other]
  BY BeginWrites DEF Exists
<1>2. [i \in PlanId |-> marker'[i].stage]
        = [[i \in PlanId |-> marker[i].stage] EXCEPT ![id] = "Downloading"]
  <2>1. marker'[id].stage = "Downloading"
    BY <1>1
  <2>2. \A i \in PlanId \ {id} : marker'[i].stage = marker[i].stage
    BY <1>1
  <2>. QED  BY <2>1, <2>2
<1>3. [i \in PlanId |-> marker'[i].doc]
        = [[i \in PlanId |-> marker[i].doc] EXCEPT ![id] = d]
  <2>1. marker'[id].doc = d
    BY <1>1
  <2>2. \A i \in PlanId \ {id} : marker'[i].doc = marker[i].doc
    BY <1>1
  <2>. QED  BY <2>1, <2>2
<1>4. Lifecycle!Admit(id, d)
  BY <1>1, <1>2, <1>3 DEF Lifecycle!Admit, Absent
<1>. QED  BY <1>1, <1>4, OnePlanMoves

(* The removal of a marker forgets its plan, whatever is still on disk. *)
LEMMA EvictionImplements ==
    ASSUME Typing, Verifiable, NEW p \in Proc, NEW id \in PlanId,
           RemoveState(p, id)
    PROVE  Lifecycle!Next
<1>1. marker[id].stage \in Terminal
  BY DEF RemoveState, NextVictim, Verifiable, Ready, Exists, Active, Typing,
         TypeOK, Marker
<1>2. /\ marker'[id] = NoMarker
      /\ \A other \in PlanId \ {id} : marker'[other] = marker[other]
  BY DEF RemoveState, Typing, TypeOK
<1>3. [i \in PlanId |-> marker'[i].stage]
        = [[i \in PlanId |-> marker[i].stage] EXCEPT ![id] = "Absent"]
  <2>1. marker'[id].stage = "Absent"
    BY <1>2 DEF NoMarker, Absent
  <2>2. \A i \in PlanId \ {id} : marker'[i].stage = marker[i].stage
    BY <1>2
  <2>. QED  BY <2>1, <2>2
<1>4. [i \in PlanId |-> marker'[i].doc]
        = [[i \in PlanId |-> marker[i].doc] EXCEPT ![id] = None]
  <2>1. marker'[id].doc = None
    BY <1>2 DEF NoMarker
  <2>2. \A i \in PlanId \ {id} : marker'[i].doc = marker[i].doc
    BY <1>2
  <2>. QED  BY <2>1, <2>2
<1>5. Lifecycle!Forget(id)
  BY <1>1, <1>3, <1>4 DEF Lifecycle!Forget, Terminal
<1>. QED  BY <1>5, OnePlanMoves

(* The staging area implements the plan lifecycle: each step of its files, *)
(* locks and crashes is one atomic step of a plan or none.  Callers must   *)
(* leave Applying to begin_apply_checked and must not reuse the id of an   *)
(* evicted plan for another document, or the handle they kept would let a  *)
(* plan apply that was never compared with its channel's newest.           *)
THEOREM StagingImplementsLifecycle ==
    ASSUME "Applying" \notin TransitionTargets, Faithful
    PROVE  Spec => ImplementsLifecycle
<1>1. Init => Lifecycle!Init
  <2>. SUFFICES ASSUME Init PROVE Lifecycle!Init
    OBVIOUS
  <2>1. \A id \in PlanId : marker[id].stage \in {"Absent", "Staged", "Applied"}
    BY DEF Init, NoMarker, Absent
  <2>2. \A id \in PlanId : marker[id].doc \in Doc \cup {None}
    BY TypingInit DEF Typing, TypeOK, Marker
  <2>. QED  BY <2>1, <2>2 DEF Lifecycle!Init
<1>2. Typing /\ Snapshot /\ SingleApply /\ Verifiable /\ Decisions
        /\ [Next]_vars => [Lifecycle!Next]_(Lifecycle!vars)
  <2>. SUFFICES ASSUME Typing, Snapshot, SingleApply, Verifiable, Decisions,
                       [Next]_vars
                PROVE  Lifecycle!Next \/ UNCHANGED Lifecycle!vars
    OBVIOUS
  <2>1. CASE marker' = marker
    BY <2>1 DEF Lifecycle!vars
  <2>. QED
    BY <2>1, MarkerWriters, CommitImplements, BeginImplements,
       EvictionImplements
<1>3. Spec => []SingleApply
  BY SingleApplyInvariant
<1>4. Spec => []Decisions
  BY DecisionsInvariant
<1>. QED
  BY <1>1, <1>2, <1>3, <1>4, MutualExclusion, SnapshotInvariant,
     VerifiableInvariant, PTL DEF Spec, ImplementsLifecycle, Lifecycle!Spec

----------------------------------------------------------------------------
(* Retention evicts the oldest. *)

(* The order in which the terminal plans have finished. *)
FinishedOrder ==
    LET terminal == {id \in PlanId : marker[id].stage \in Terminal} IN
    /\ \A a \in PlanId : <<a, a>> \notin newer
    /\ \A a, b, c \in terminal :
          <<a, b>> \in newer /\ <<b, c>> \in newer => <<a, c>> \in newer

(* The plans newer than id that p leaves where they are. *)
Spared(p, id) ==
    {other \in PlanId \ victims[p] :
        marker[other].stage \in Terminal /\ <<other, id>> \in newer}

(* Some policy keeps no more than are newer than any plan p still evicts.  *)
Budgeted(p) ==
    pc[p] = "evict" =>
        \E keep \in KeepPolicies :
            \A id \in victims[p] : keep <= Cardinality(Spared(p, id))

(* What a relation puts before a member. *)
Preceding(T, R, v) == {o \in T : <<o, v>> \in R}

(* Of the members that have at least `keep` before them, some has only     *)
(* others before it: so each of them has `keep` others before it.          *)
LEMMA EnoughSpared ==
    ASSUME NEW T, IsFiniteSet(T), NEW R, NEW keep \in Nat,
           \A a \in T : <<a, a>> \notin R,
           \A a, b, c \in T :
              <<a, b>> \in R /\ <<b, c>> \in R => <<a, c>> \in R,
           NEW id \in T,
           keep <= Cardinality(Preceding(T, R, id))
    PROVE  keep <= Cardinality(
                     {o \in T : /\ <<o, id>> \in R
                                /\ ~ (keep <= Cardinality(Preceding(T, R, o)))})
<1>. USE DEF Preceding
<1>. DEFINE Before(v) == Preceding(T, R, v)
            Late(v) == keep <= Cardinality(Before(v))
            Chain == {v \in Before(id) \cup {id} : Late(v)}
            Family == {Before(v) : v \in Chain}
            Order == StrictSubsetOrdering(T)
<1>1. Chain \subseteq T /\ id \in Chain
  OBVIOUS
<1>2. Family \subseteq FiniteSubsetsOf(T) /\ Family # {}
  <2>1. Family \subseteq SUBSET T /\ Family # {}
    <3>1. \A v \in Chain : Before(v) \in SUBSET T
      OBVIOUS
    <3>2. Before(id) \in Family
      BY <1>1
    <3>. HIDE DEF Before, Chain
    <3>. QED  BY <3>1, <3>2
  <2>2. FiniteSubsetsOf(T) = SUBSET T
    BY FS_FiniteSubsetsOfFinite
  <2>. QED  BY <2>1, <2>2
<1>3. IsWellFoundedOn(Order, FiniteSubsetsOf(T))
  BY FS_StrictSubsetOrderingWellFounded
<1>4. PICK least \in Family :
        \A other \in Family : <<other, least>> \notin Order
  <2>. HIDE DEF Family, Order
  <2>. QED  BY <1>2, <1>3, WFMin
<1>5. PICK v \in Chain : least = Before(v)
  OBVIOUS
<1>6. ASSUME NEW o \in Before(v) PROVE <<o, id>> \in R /\ ~ Late(o)
  <2>1. o \in T /\ v \in T /\ <<o, v>> \in R
    BY <1>1
  <2>2. o \in Before(id)
    BY <1>1, <2>1
  <2>3. Before(o) \subseteq Before(v) /\ o \notin Before(o)
    BY <2>1
  <2>4. Before(o) # Before(v)
    BY <2>3
  <2>5. <<Before(o), Before(v)>> \in Order
    BY <2>3, <2>4 DEF StrictSubsetOrdering
  <2>6. Before(o) \notin Family
    BY <1>4, <1>5, <2>5
  <2>7. o \notin Chain
    BY <2>6
  <2>. QED  BY <2>2, <2>7
<1>7. DEFINE Rest == {o \in T : <<o, id>> \in R /\ ~ Late(o)}
<1>8. Before(v) \subseteq Rest /\ IsFiniteSet(Rest)
  <2>1. Rest \in SUBSET T
    OBVIOUS
  <2>2. IsFiniteSet(Rest)
    BY <2>1, FS_Subset
  <2>. QED  BY <1>6, <2>2
<1>9. Cardinality(Before(v)) <= Cardinality(Rest)
      /\ Cardinality(Before(v)) \in Nat /\ Cardinality(Rest) \in Nat
  <2>1. IsFiniteSet(Before(v))
    BY <1>8, FS_Subset
  <2>. HIDE DEF Before, Rest
  <2>. QED  BY <1>8, <2>1, FS_Subset, FS_CardinalityType
<1>10. keep <= Cardinality(Before(v))
  BY <1>1
<1>. HIDE DEF Before
<1>11. keep <= Cardinality(Rest)
  <2>. HIDE DEF Rest
  <2>. QED  BY <1>9, <1>10
<1>. QED  BY <1>11 DEF Before

(* The order of finishing is written by a commit and by an eviction. *)
LEMMA OrderWriters ==
    ASSUME [Next]_vars
    PROVE  \/ newer' = newer
           \/ \E p \in Proc : WriteMarker(p) \/ CommitMove(p)
           \/ \E p \in Proc, id \in PlanId : AuditEviction(p, id)
<1>1. ASSUME NEW p \in Proc, NewCall(p) PROVE newer' = newer
  BY <1>1
  DEF NewCall, BeginCall, ApplyCall, TransitionCall, PutCall, RetentionCall,
      LoadState, VerifyBlobs, LockFor, disk
<1>2. ASSUME NEW p \in Proc, EvictStep(p)
      PROVE  newer' = newer \/ \E id \in PlanId : AuditEviction(p, id)
  BY <1>2
  DEF EvictStep, RemoveState, RemovePlanFile, RemoveSigFile, RemoveBlobs
<1>3. ASSUME NEW p \in Proc, Continue(p)
      PROVE  \/ newer' = newer
             \/ WriteMarker(p) \/ CommitMove(p) \/ EvictStep(p)
  BY <1>3
  DEF Continue, CheckNew, CheckStaged, ScanPlans, Admit, Reenter, BuildHandle,
      WritePlan, WriteSig, CheckMove, AppendAudit, CheckPut, PutBlob,
      ScanForRetention, LoadPlan, ReturnError, Proceed, disk
<1>. QED  BY <1>1, <1>2, <1>3 DEF Next, Crash, Rot, disk, vars

(* Every plan that finishes is newer than those that have. *)
LEMMA FinishedStep ==
    ASSUME Typing, Snapshot, Verifiable, FinishedOrder, [Next]_vars
    PROVE  FinishedOrder'
<1>. USE DEF Typing, TypeOK, FinishedOrder
<1>1. ASSUME newer' \subseteq newer,
             \A pair \in newer \ newer' :
                ~ (marker'[pair[1]].stage \in Terminal
                   /\ marker'[pair[2]].stage \in Terminal),
             \A id \in PlanId : marker'[id].stage \in Terminal
                                  => marker[id].stage \in Terminal
      PROVE  FinishedOrder'
  BY <1>1
<1>2. CASE UNCHANGED <<marker, newer>>
  BY <1>1, <1>2
<1>3. ASSUME NEW p \in Proc, WriteMarker(p) PROVE FinishedOrder'
  <2>1. newer' = newer
    BY <1>3 DEF WriteMarker, WriteState, NewMarker, Terminal
  <2>2. ASSUME NEW id \in PlanId, marker'[id].stage \in Terminal
        PROVE  marker[id].stage \in Terminal
    <3>1. id # call[p].plan
      <4>1. id = call[p].plan => marker'[id].stage = "Downloading"
        BY <1>3 DEF WriteMarker, WriteState, NewMarker
      <4>. QED  BY <2>2, <4>1 DEF Terminal
    <3>. QED  BY <1>3, <2>2, <3>1 DEF WriteMarker, WriteState
  <2>. QED  BY <1>1, <2>1, <2>2
<1>4. ASSUME NEW p \in Proc, CommitMove(p) PROVE FinishedOrder'
  <2>. DEFINE id == call[p].plan
  <2>1. /\ id \in PlanId /\ marker'[id].stage = call[p].to
        /\ IsValidTransition(marker[id].stage, call[p].to)
        /\ \A other \in PlanId \ {id} : marker'[other] = marker[other]
    <3>. HIDE DEF Typing, TypeOK, FinishedOrder
    <3>. QED  BY <1>4, CommitWrites
  <2>2. CASE call[p].to \notin Terminal
    <3>1. newer' = newer
      <4>1. [call[p].seen EXCEPT !.stage = call[p].to].stage = call[p].to
        BY <1>4 DEF CommitMove, Shapes, CallShape, Moving, Call, Marker
      <4>. QED  BY <1>4, <2>2, <4>1 DEF CommitMove, WriteState
    <3>. QED  BY <1>1, <2>1, <2>2, <3>1
  <2>3. CASE call[p].to \in Terminal
    <3>1. newer' = Stamped(id)
      <4>1. [call[p].seen EXCEPT !.stage = call[p].to].stage = call[p].to
        BY <1>4 DEF CommitMove, Shapes, CallShape, Moving, Call, Marker
      <4>. QED  BY <1>4, <2>3, <4>1 DEF CommitMove, WriteState
    <3>2. \A a, b \in PlanId :
             <<a, b>> \in newer'
               <=> \/ <<a, b>> \in newer /\ a # id /\ b # id
                   \/ a = id /\ b # id /\ marker[b].stage \in Terminal
      BY <3>1 DEF Stamped, Unordered
    <3>3. \A a \in PlanId \ {id} : marker'[a].stage = marker[a].stage
      BY <2>1
    <3>. HIDE DEF id, Typing, TypeOK
    <3>4. ASSUME NEW a \in PlanId PROVE <<a, a>> \notin newer'
      BY <3>2
    <3>5. ASSUME NEW a \in PlanId, NEW b \in PlanId, NEW c \in PlanId,
                 marker'[a].stage \in Terminal, marker'[b].stage \in Terminal,
                 marker'[c].stage \in Terminal,
                 <<a, b>> \in newer', <<b, c>> \in newer'
          PROVE  <<a, c>> \in newer'
      <4>1. b # id /\ c # id /\ <<b, c>> \in newer
        BY <3>2, <3>5
      <4>2. marker[b].stage \in Terminal /\ marker[c].stage \in Terminal
        BY <3>3, <3>5, <4>1
      <4>3. CASE a = id
        BY <2>1, <3>2, <4>1, <4>2, <4>3
      <4>4. CASE a # id
        BY <3>2, <3>3, <3>5, <4>1, <4>2, <4>4
      <4>. QED  BY <4>3, <4>4
    <3>. QED  BY <3>4, <3>5
  <2>. QED  BY <2>2, <2>3
<1>5. ASSUME NEW p \in Proc, NEW id \in PlanId, AuditEviction(p, id)
      PROVE  FinishedOrder'
  BY <1>1, <1>5 DEF AuditEviction, Unordered, DirEmpty, Exists, Absent, Terminal
<1>6. ASSUME NEW p \in Proc, NEW id \in PlanId, RemoveState(p, id)
      PROVE  FinishedOrder'
  BY <1>1, <1>6 DEF RemoveState, NoMarker, Absent, Terminal
<1>. QED
  BY <1>2, <1>3, <1>4, <1>5, <1>6, MarkerWriters, OrderWriters
  DEF AuditEviction

(* No marker and no order changes under an eviction but by the eviction. *)
LEMMA EvictorAlone ==
    ASSUME Typing, Mutex, [Next]_vars, NEW q \in Proc, pc[q] = "evict",
           pc'[q] = "evict", NEW p \in Proc \ {q},
           NewCall(p) \/ Continue(p) \/ Crash(p)
    PROVE  marker' = marker /\ newer' = newer
<1>1. pc[p] \notin Critical
  BY DEF Mutex, Critical, PcValue
<1>2. CASE NewCall(p)
  BY <1>2
  DEF NewCall, BeginCall, ApplyCall, TransitionCall, PutCall, RetentionCall,
      LoadState, VerifyBlobs, LockFor, disk
<1>3. CASE Continue(p)
  BY <1>1, <1>3, ContinueOutside DEF LoadPlan, disk
<1>4. CASE Crash(p)
  BY <1>4 DEF Crash, disk
<1>. QED  BY <1>2, <1>3, <1>4

(* At its scan, retention chooses plans that enough newer ones outlive. *)
LEMMA BudgetChosen ==
    ASSUME IsFiniteSet(PlanId), Typing, FinishedOrder, NEW q \in Proc,
           NEW keep \in KeepPolicies, NEW id \in BeyondBudget(keep)
    PROVE  keep <= Cardinality(
                     {other \in PlanId \ BeyondBudget(keep) :
                        /\ marker[other].stage \in Terminal
                        /\ <<other, id>> \in newer})
<1>. DEFINE T == {x \in PlanId : Evictable(x)}
            Before(x) == Preceding(T, newer, x)
            Chosen == {o \in T : /\ <<o, id>> \in newer
                                 /\ ~ (keep <= Cardinality(Before(o)))}
            Left == {other \in PlanId \ BeyondBudget(keep) :
                        /\ marker[other].stage \in Terminal
                        /\ <<other, id>> \in newer}
<1>1. /\ IsFiniteSet(T) /\ keep \in Nat
      /\ \A x \in T : marker[x].stage \in Terminal
  <2>1. T \in SUBSET PlanId
    OBVIOUS
  <2>2. IsFiniteSet(T)
    <3>. HIDE DEF T
    <3>. QED  BY <2>1, FS_Subset
  <2>. QED  BY <2>2, ParameterAssumption DEF Evictable
<1>2. BeyondBudget(keep) = {x \in T : Cardinality(Before(x)) >= keep}
  BY DEF BeyondBudget, Preceding
<1>3. id \in T /\ keep <= Cardinality(Before(id))
  BY <1>2
<1>4. /\ \A a \in T : <<a, a>> \notin newer
      /\ \A a, b, c \in T :
            <<a, b>> \in newer /\ <<b, c>> \in newer => <<a, c>> \in newer
  BY <1>1 DEF FinishedOrder
<1>5. keep <= Cardinality(Chosen)
  <2>. HIDE DEF T
  <2>. QED  BY <1>1, <1>3, <1>4, EnoughSpared
<1>6. Chosen \subseteq Left
  BY <1>1, <1>2
<1>7. IsFiniteSet(Left)
  <2>1. Left \in SUBSET PlanId
    OBVIOUS
  <2>. HIDE DEF Left
  <2>. QED  BY <2>1, FS_Subset
<1>8. Cardinality(Chosen) <= Cardinality(Left)
      /\ Cardinality(Chosen) \in Nat /\ Cardinality(Left) \in Nat
  <2>1. IsFiniteSet(Chosen)
    BY <1>6, <1>7, FS_Subset
  <2>. HIDE DEF Chosen, Left
  <2>. QED  BY <1>6, <1>7, <2>1, FS_Subset, FS_CardinalityType
<1>9. keep <= Cardinality(Left)
  <2>. HIDE DEF Chosen, Left
  <2>. QED  BY <1>1, <1>5, <1>8
<1>. QED  BY <1>9

(* An eviction under way leaves the plans that it spares alone. *)
LEMMA BudgetedStep ==
    ASSUME IsFiniteSet(PlanId), Typing, Mutex, FinishedOrder,
           [Next]_vars, \A p \in Proc : Budgeted(p), NEW q \in Proc
    PROVE  Budgeted(q)'
<1>. USE DEF Typing, TypeOK, Goto
<1>1. ASSUME \A id \in victims'[q] : id \in victims[q]
                                     /\ Spared(q, id)' = Spared(q, id),
             pc[q] = "evict"
      PROVE  Budgeted(q)'
  BY <1>1 DEF Budgeted
<1>2. CASE pc'[q] # "evict"
  BY <1>2 DEF Budgeted
<1>3. ASSUME UNCHANGED <<marker, newer>>, pc'[q] = pc[q],
             victims'[q] = victims[q]
      PROVE  Budgeted(q)'
  BY <1>1, <1>2, <1>3 DEF Spared
<1>4. CASE ScanForRetention(q)
  <2>1. PICK keep \in KeepPolicies :
          \/ pc'[q] = "idle"
          \/ victims' = [victims EXCEPT ![q] = BeyondBudget(keep)]
    BY <1>4 DEF ScanForRetention, Return
  <2>2. CASE pc'[q] = "idle"
    BY <1>2, <2>2
  <2>3. CASE victims' = [victims EXCEPT ![q] = BeyondBudget(keep)]
    <3>1. victims'[q] = BeyondBudget(keep) /\ UNCHANGED <<marker, newer>>
      BY <1>4, <2>3 DEF ScanForRetention, disk
    <3>2. \A id \in BeyondBudget(keep) :
            Spared(q, id)' = {other \in PlanId \ BeyondBudget(keep) :
                                /\ marker[other].stage \in Terminal
                                /\ <<other, id>> \in newer}
      BY <3>1 DEF Spared
    <3>3. \A id \in victims'[q] : keep <= Cardinality(Spared(q, id)')
      <4>. HIDE DEF Typing, TypeOK
      <4>. QED  BY <3>1, <3>2, BudgetChosen
    <3>. QED  BY <3>3 DEF Budgeted
  <2>. QED  BY <2>1, <2>2, <2>3
<1>5. ASSUME NEW id \in PlanId, RemoveState(q, id) PROVE Budgeted(q)'
  <2>1. /\ pc[q] = "evict" /\ id \in victims[q] /\ victims' = victims
        /\ newer' = newer
        /\ \A other \in PlanId \ {id} : marker'[other] = marker[other]
    BY <1>5 DEF RemoveState, NextVictim, thread
  <2>. QED  BY <1>1, <2>1 DEF Spared
<1>6. ASSUME NEW id \in PlanId, AuditEviction(q, id) PROVE Budgeted(q)'
  <2>1. /\ pc[q] = "evict" /\ id \in victims[q] /\ marker' = marker
        /\ newer' = Unordered(id) /\ marker[id].stage \notin Terminal
    BY <1>6
    DEF AuditEviction, NextVictim, DirEmpty, Exists, Absent, Terminal
  <2>2. pc'[q] = "idle" \/ victims'[q] = victims[q] \ {id}
    BY <1>6 DEF AuditEviction, Return
  <2>3. CASE victims'[q] = victims[q] \ {id}
    BY <1>1, <2>1, <2>3 DEF Spared, Unordered
  <2>. QED  BY <1>2, <2>2, <2>3
<1>7. ASSUME NEW p \in Proc \ {q}, NewCall(p) \/ Continue(p) \/ Crash(p)
      PROVE  Budgeted(q)'
  <2>1. pc'[q] = pc[q] /\ victims'[q] = victims[q]
    <3>. HIDE DEF Typing, TypeOK
    <3>. QED  BY <1>7, OthersKept
  <2>2. pc'[q] = "evict" => UNCHANGED <<marker, newer>>
    <3>. HIDE DEF Typing, TypeOK
    <3>. QED  BY <1>7, <2>1, EvictorAlone
  <2>. QED  BY <1>2, <1>3, <2>1, <2>2
<1>8. CASE Continue(q)
  <2>1. CASE EvictStep(q)
    BY <1>3, <1>5, <1>6, <2>1
    DEF EvictStep, RemovePlanFile, RemoveSigFile, RemoveBlobs, thread
  <2>2. CASE Continue(q) /\ ~ EvictStep(q) /\ ~ ScanForRetention(q)
    <3>1. pc'[q] # "evict"
      BY <2>2
      DEF Continue, CheckNew, CheckStaged, ScanPlans, Admit, Reenter,
          BuildHandle, WritePlan, WriteSig, WriteMarker, CheckMove,
          CommitMove, AppendAudit, CheckPut, PutBlob, LoadPlan, ReturnError,
          Proceed, Return
    <3>. QED  BY <1>2, <3>1
  <2>. QED  BY <1>4, <1>8, <2>1, <2>2
<1>9. CASE NewCall(q)
  <2>1. CASE VerifyBlobs(q)
    BY <1>2, <2>1 DEF VerifyBlobs
  <2>2. CASE NewCall(q) /\ ~ VerifyBlobs(q)
    <3>1. pc'[q] # "evict"
      BY <2>2
      DEF NewCall, BeginCall, ApplyCall, TransitionCall, PutCall,
          RetentionCall, LoadState, LockFor
    <3>. QED  BY <1>2, <3>1
  <2>. QED  BY <1>9, <2>1, <2>2
<1>10. CASE Crash(q)
  BY <1>2, <1>10 DEF Crash
<1>11. CASE UNCHANGED <<marker, newer, pc, victims>>
  BY <1>3, <1>11
<1>. QED  BY <1>7, <1>8, <1>9, <1>10, <1>11 DEF Next, Rot, thread, vars

(* A finished plan is evicted only while as many plans that finished after *)
(* it stay as some policy keeps, however often ids are begun again and     *)
(* wherever an eviction fails half way.  The directory of an environment   *)
(* is finite, so PlanId is taken to be.                                    *)
THEOREM RetentionAlwaysKeepsNewest ==
    ASSUME IsFiniteSet(PlanId)
    PROVE  Spec => RetentionKeepsNewest
<1>. DEFINE AllBudgeted == \A p \in Proc : Budgeted(p)
            Keeping ==
              \A id \in PlanId :
                Exists(id) /\ marker'[id].stage = Absent
                  => \E keep \in KeepPolicies :
                       keep <= Cardinality({other \in PlanId :
                                 /\ marker'[other].stage \in Terminal
                                 /\ <<other, id>> \in newer})
<1>1. Init => FinishedOrder /\ AllBudgeted
  BY DEF Init, FinishedOrder, Budgeted
<1>2. Typing /\ Mutex /\ Snapshot /\ Verifiable /\ FinishedOrder /\ AllBudgeted
        /\ [Next]_vars => FinishedOrder' /\ AllBudgeted'
  BY FinishedStep, BudgetedStep
<1>3. Typing /\ Snapshot /\ Verifiable /\ AllBudgeted /\ [Next]_vars => Keeping
  <2>. SUFFICES ASSUME Typing, Snapshot, Verifiable, AllBudgeted, [Next]_vars,
                       NEW id \in PlanId, Exists(id),
                       marker'[id].stage = Absent
                PROVE  \E keep \in KeepPolicies :
                         keep <= Cardinality({other \in PlanId :
                                   /\ marker'[other].stage \in Terminal
                                   /\ <<other, id>> \in newer})
    OBVIOUS
  <2>1. PICK p \in Proc : RemoveState(p, id)
    <3>1. ASSUME NEW p \in Proc, WriteMarker(p) PROVE FALSE
      <4>1. id = call[p].plan \/ marker'[id] = marker[id]
        BY <3>1, BeginWrites
      <4>2. CASE id = call[p].plan
        BY <3>1, <4>2, BeginWrites
      <4>. QED  BY <4>1, <4>2 DEF Exists
    <3>2. ASSUME NEW p \in Proc, CommitMove(p) PROVE FALSE
      <4>1. \/ id = call[p].plan /\ marker'[id].stage \in Stage
            \/ marker'[id] = marker[id]
        BY <3>2, CommitWrites
      <4>. QED  BY <4>1 DEF Exists, Stage, Absent
    <3>3. marker' # marker
      BY DEF Exists
    <3>4. PICK p \in Proc, other \in PlanId : RemoveState(p, other)
      BY <3>1, <3>2, <3>3, MarkerWriters
    <3>5. other = id
      BY <3>4 DEF RemoveState, Exists, Typing, TypeOK
    <3>. QED  BY <3>4, <3>5
  <2>2. /\ pc[p] = "evict" /\ id \in victims[p]
        /\ \A other \in PlanId \ {id} : marker'[other] = marker[other]
    BY <2>1 DEF RemoveState, NextVictim, Typing, TypeOK
  <2>3. PICK keep \in KeepPolicies : keep <= Cardinality(Spared(p, id))
    BY <2>2 DEF Budgeted
  <2>. DEFINE Left == {other \in PlanId : /\ marker'[other].stage \in Terminal
                                          /\ <<other, id>> \in newer}
  <2>4. Spared(p, id) \subseteq Left
    BY <2>2 DEF Spared
  <2>5. IsFiniteSet(Left)
    <3>1. Left \in SUBSET PlanId
      OBVIOUS
    <3>. HIDE DEF Left
    <3>. QED  BY <3>1, FS_Subset
  <2>6. Cardinality(Spared(p, id)) <= Cardinality(Left)
        /\ Cardinality(Spared(p, id)) \in Nat /\ Cardinality(Left) \in Nat
    <3>. HIDE DEF Left
    <3>1. IsFiniteSet(Spared(p, id))
      BY <2>4, <2>5, FS_Subset
    <3>. QED  BY <2>4, <2>5, <3>1, FS_Subset, FS_CardinalityType
  <2>7. keep <= Cardinality(Left)
    <3>. HIDE DEF Left
    <3>. QED  BY <2>3, <2>6, ParameterAssumption
  <2>. QED  BY <2>7
<1>. HIDE DEF AllBudgeted, Keeping
<1>4. Spec => [][Keeping]_vars
  BY <1>1, <1>2, <1>3, MutualExclusion, SnapshotInvariant,
     VerifiableInvariant, PTL DEF Spec
<1>. QED  BY <1>4, PTL DEF RetentionKeepsNewest, Keeping
=============================================================================
