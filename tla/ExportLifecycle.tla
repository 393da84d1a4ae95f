-------------------------- MODULE ExportLifecycle --------------------------
(***************************************************************************)
(* What the export queue promises the user who requested a job: a job is   *)
(* submitted once, is settled once, as completed with an artifact or as    *)
(* failed, and a completed job can later expire.  Nothing else ever        *)
(* happens to it.  The claims, locks, retries and crashes of the workers   *)
(* are hidden in "pending".                                                *)
(***************************************************************************)

CONSTANT Jobs       \* the export jobs

VARIABLES stage,    \* what the user sees of each job
          artifact  \* the jobs whose row names a finished file

vars == <<stage, artifact>>

Stages == {"absent", "pending", "completed", "failed", "expired"}

Init == /\ stage = [j \in Jobs |-> "absent"]
        /\ artifact = {}

Submit(j) == /\ stage[j] = "absent"
             /\ stage' = [stage EXCEPT ![j] = "pending"]
             /\ UNCHANGED artifact

Complete(j) == /\ stage[j] = "pending"
               /\ stage' = [stage EXCEPT ![j] = "completed"]
               /\ artifact' = artifact \cup {j}

GiveUp(j) == /\ stage[j] = "pending"
             /\ stage' = [stage EXCEPT ![j] = "failed"]
             /\ UNCHANGED artifact

Expire(j) == /\ stage[j] = "completed"
             /\ stage' = [stage EXCEPT ![j] = "expired"]
             /\ UNCHANGED artifact

Next == \E j \in Jobs : Submit(j) \/ Complete(j) \/ GiveUp(j) \/ Expire(j)

Spec == Init /\ [][Next]_vars
=============================================================================
