----------------------------- MODULE MCCluster -----------------------------
(***************************************************************************)
(* Instances of Cluster for TLC.  Workers, and calls, are interchangeable. *)
(***************************************************************************)
EXTENDS Cluster, TLC

CONSTANTS
  w1, w2, c1, c2,
  MaxRetries   \* bound: retries of the calls that are open at a time

Identical == Permutations(Workers) \cup Permutations(Clients)

FewRetries == attempt'[c1] + attempt'[c2] <= MaxRetries

\* Bound: polls fail only at workers that are down.
UpAnswerPolls ==
  \A w \in Workers :
    up[w] /\ healthy[w] /\ ~healthy'[w] => callVars' # callVars

BoundedNext == ClusterNext /\ FewRetries /\ UpAnswerPolls

BoundedSpec == ClusterInit /\ [][BoundedNext]_clusterVars
=============================================================================
