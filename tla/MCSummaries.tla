---------------------------- MODULE MCSummaries ----------------------------
(* Instances of Summaries: two leaf windows in one hour with a frame each, *)
(* of two devices; the first window leaves the lookback as the hour ends.  *)
EXTENDS Summaries, TLC

CONSTANTS f1, f2, a, b

TwoLeaves == f1 :> 0 @@ f2 :> 1
TwoDevices == f1 :> a @@ f2 :> b
OnceMore == f1 :> 2 @@ f2 :> 1
HourOfTwo == 0 :> 1 @@ 1 :> 2

(* Bounds: with the device pyramid, the loops start when both frames are   *)
(* there and nothing fails; late frames and failures are met without it.   *)
MCInit ==
    \/ SummariesInit /\ ~pyramid
    \/ /\ now = 1 /\ version = [f \in Frames |-> 1]
       /\ rows = [k \in Keys |-> [metrics |-> Nothing, hash |-> Nothing,
                                  told |-> Nothing, status |-> "absent"]]
       /\ builder = IdleBuilder /\ narrator = IdleNarrator
       /\ pyramid = TRUE /\ suspect = {} /\ faults = MaxFaults

MCSpec ==
    /\ MCInit /\ [][SummariesNext]_summariesVars
    /\ WF_summariesVars(RollupStep) /\ WF_summariesVars(NarrateStep)
=============================================================================
