---------------------------- MODULE PlanLifecycle ----------------------------
(***************************************************************************)
(* What the staging area promises of the plans of one environment, with    *)
(* every operation atomic: no lock, no files, no crash.  A plan walks the  *)
(* happy path one stage at a time, leaves it only by an off-ramp, starts   *)
(* applying only when nothing else in the environment is applying and only *)
(* when it is newer than everything applied from its channel, and is       *)
(* forgotten only when it is terminal.  Staging is shown to implement it.  *)
(***************************************************************************)
EXTENDS Naturals

CONSTANTS PlanId,   \* ids a plan can have
          Doc,      \* plan documents, records with fields id, seq and channel
          None      \* no document

VARIABLES stage,    \* the stage of each plan id, "Absent" if there is none
          doc       \* the document staged under each plan id

vars == <<stage, doc>>

HappyPath == <<"Downloading", "Inbox", "Staged", "Applying", "Applied">>

Init ==
    /\ stage \in [PlanId -> {"Absent", "Staged", "Applied"}]
    /\ doc \in [PlanId -> Doc \cup {None}]

(* A plan is admitted under an id that is free. *)
Admit(id, d) ==
    /\ stage[id] = "Absent"
    /\ stage' = [stage EXCEPT ![id] = "Downloading"]
    /\ doc' = [doc EXCEPT ![id] = d]

(* One stage along the happy path, except into Applying. *)
Promote(id) ==
    /\ \E i \in 1..4 :
          /\ stage[id] = HappyPath[i]
          /\ HappyPath[i + 1] # "Applying"
          /\ stage' = [stage EXCEPT ![id] = HappyPath[i + 1]]
    /\ UNCHANGED doc

(* The single-flight, newest-only step into Applying. *)
StartApply(id) ==
    /\ stage[id] = "Staged"
    /\ \A other \in PlanId : stage[other] # "Applying"
    /\ \A other \in PlanId :
          stage[other] = "Applied" /\ doc[other].channel = doc[id].channel
             => doc[other].seq < doc[id].seq
    /\ stage' = [stage EXCEPT ![id] = "Applying"]
    /\ UNCHANGED doc

(* Once applying, a plan can fail but can no longer be rejected. *)
LeavePath(id) ==
    /\ \/ /\ stage[id] \in {"Downloading", "Inbox", "Applying"}
          /\ stage' = [stage EXCEPT ![id] = "Failed"]
       \/ /\ stage[id] \in {"Downloading", "Inbox", "Staged"}
          /\ stage' = [stage EXCEPT ![id] = "Rejected"]
    /\ UNCHANGED doc

Forget(id) ==
    /\ stage[id] \in {"Applied", "Failed", "Rejected"}
    /\ stage' = [stage EXCEPT ![id] = "Absent"]
    /\ doc' = [doc EXCEPT ![id] = None]

Next == \E id \in PlanId :
    \/ \E d \in Doc : Admit(id, d)
    \/ Promote(id)
    \/ StartApply(id)
    \/ LeavePath(id)
    \/ Forget(id)

Spec == Init /\ [][Next]_vars
=============================================================================
