------------------------------ MODULE MCStaging ------------------------------
(***************************************************************************)
(* Small instances of Staging: documents over the channels of one          *)
(* environment, and the constants the .cfg files choose from.              *)
(***************************************************************************)
EXTENDS Staging, TLC

CONSTANTS A, B, C, b1, env, bcast, foreign

Plan(id, seq, channel, need, requires) ==
    [id |-> id, seq |-> seq, channel |-> channel,
     blobs |-> need, requires |-> requires]

ThreeChannels == {env, bcast, foreign}

(* Two plans of the environment's own channel. *)
OldPlan == Plan(A, 1, env, {}, {})
NewPlan == Plan(B, 2, env, Blob, {})
TwoPlans == {OldPlan, NewPlan}

(* Two plans of the broadcast channel, the older one staged by a version   *)
(* that recorded no channel, the newer one requiring a plan of the         *)
(* environment's own channel; and a plan that is for someone else.         *)
FleetPlan == Plan(C, 2, bcast, {}, {})
LegacyFleet == {FleetPlan}
FleetPlans == {OldPlan, FleetPlan, Plan(B, 3, bcast, {}, {A}),
               Plan(A, 2, foreign, {}, {})}

UpgradeTargets == {"Inbox", "Staged", "Applied", "Failed"}
(* Applies that fail, so that an id is begun, ended and evicted repeatedly. *)
FailingTargets == {"Inbox", "Staged", "Failed"}
Workers == Permutations(Proc)
=============================================================================
