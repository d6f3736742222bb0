---------------------------- MODULE MCJobManager ----------------------------
(* Instances of JobManager for TLC. *)
EXTENDS JobManager, TLC

\* Clients, keys and artifacts are interchangeable.  Used by runs that check
\* no liveness.
Symmetry == Permutations(Client) \cup Permutations(Key) \cup Permutations(Artifact)
=============================================================================
