-------------------------- MODULE CloudRunPromises --------------------------
(***************************************************************************)
(* What is promised of a run in the cloud to who reads its META item: what *)
(* it says of the task and of the mirrored rows is so.  How lambdas and    *)
(* adapter write it is CloudRun.                                           *)
(***************************************************************************)
VARIABLES
    seen,    \* lastSnapshot
    rows,    \* DynamoDB: the mirrored rows
    meta,    \* DynamoDB: the META item, if there is one
    task,    \* the Fargate task
    lost     \* history: rows that a failed write did not bring to DynamoDB

(* A run that says "cancelled" and names its task had that task stopped    *)
(* first, whatever the adapter and createRun() wrote in between            *)
(* (cancelRun.ts:43).                                                      *)
CancelledIsStopped == \A m \in meta : m.status = "cancelled" /\ m.arn => task \in {"stopping", "gone"}

(* A run is declared complete when the merged stories have reached         *)
(* DynamoDB, apart from those whose write failed and that nothing writes   *)
(* again (state-sync.ts:317): the page that is told so finds them there.   *)
CompletedWasMerged ==
    [][(\E m \in meta' : m.status = "completed")
         => \A s \in DOMAIN seen : seen[s] # "none" => rows[s] = "merged" \/ s \in lost]_meta
=============================================================================
