---------------------------- MODULE ExclusiveJobs ----------------------------
(***************************************************************************)
(* What the job queue promises its users, with no leases, tokens, retries  *)
(* or clocks: a job is worked on by at most one process at a time, only    *)
(* that process can finish it or give it up, and a job that is done or     *)
(* dead never changes again.  AssetJobLease implements this module.        *)
(***************************************************************************)
CONSTANTS Job, Process, Nobody

VARIABLES
  status,   \* status[j]: absent, open, done or dead
  owner     \* owner[j]: the process that may finish j, or Nobody

avars == <<status, owner>>

ATypeOK ==
  /\ status \in [Job -> {"absent", "open", "done", "dead"}]
  /\ owner \in [Job -> Process \cup {Nobody}]

AInit ==
  /\ status = [j \in Job |-> "absent"]
  /\ owner = [j \in Job |-> Nobody]

\* Jobs appear open and unowned.
Create(js) ==
  /\ \A j \in js : status[j] = "absent"
  /\ status' = [j \in Job |-> IF j \in js THEN "open" ELSE status[j]]
  /\ UNCHANGED owner

\* A free job is taken; a job somebody owns is never taken from them.
Take(p, j) ==
  /\ status[j] = "open"
  /\ owner[j] = Nobody
  /\ owner' = [owner EXCEPT ![j] = p]
  /\ UNCHANGED status

\* The owner crashes, stalls past its lease, or hands the job back.
Release(p, j) ==
  /\ owner[j] = p
  /\ owner' = [owner EXCEPT ![j] = Nobody]
  /\ UNCHANGED status

Settle(p, j, outcome) ==
  /\ status[j] = "open"
  /\ owner[j] = p
  /\ status' = [status EXCEPT ![j] = outcome]
  /\ owner' = [owner EXCEPT ![j] = Nobody]

\* Cancellation kills whatever is open and takes it from its owner.
Withdraw ==
  /\ status' = [j \in Job |-> IF status[j] = "open" THEN "dead" ELSE status[j]]
  /\ owner' = [j \in Job |-> Nobody]

ANext ==
  \/ Withdraw
  \/ \E js \in SUBSET Job : Create(js)
  \/ \E j \in Job, p \in Process :
       \/ Take(p, j)
       \/ Release(p, j)
       \/ \E outcome \in {"done", "dead"} : Settle(p, j, outcome)

ASpec == AInit /\ [][ANext]_avars

=============================================================================
