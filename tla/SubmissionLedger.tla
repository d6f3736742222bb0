-------------------------- MODULE SubmissionLedger --------------------------
(***************************************************************************)
(* What the station promises the holder of a requestId, whatever queueing, *)
(* pruning, shutdown or crash happens underneath: the first accepted       *)
(* submission binds the key to a job for good, and the key is executed at  *)
(* most once, by then bound.                                               *)
(***************************************************************************)
EXTENDS Naturals

CONSTANTS Key, Job, None

VARIABLES
  bound,  \* the job a key is bound to, None before a submission is accepted
  execs   \* how often the key was executed

LInit == bound = [k \in Key |-> None] /\ execs = [k \in Key |-> 0]

\* A submission is accepted; its job serves no other key.
Accept(k, j) ==
  /\ bound[k] = None
  /\ \A l \in Key : bound[l] # j
  /\ bound' = [bound EXCEPT ![k] = j]
  /\ UNCHANGED execs

Execute(k) ==
  /\ bound[k] # None /\ execs[k] = 0
  /\ execs' = [execs EXCEPT ![k] = 1]
  /\ UNCHANGED bound

LNext == \E k \in Key : Execute(k) \/ \E j \in Job : Accept(k, j)

LSpec == LInit /\ [][LNext]_<<bound, execs>>
=============================================================================
