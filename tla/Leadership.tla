----------------------------- MODULE Leadership -----------------------------
(***************************************************************************)
(* External: etcd members as the clients of /v2/members and /v2/stats/self *)
(* see them.  Elections, joins, removals and failures go on between any    *)
(* two requests, and members learn of them one by one.                     *)
(***************************************************************************)
EXTENDS Integers

CONSTANTS
  Nodes,       \* the machines; a member's id and client URL are the machine
  NoLeader,    \* the empty leader id of a member that knows no leader
  MaxChanges   \* bound: elections, joins, leaves, failures, lost requests

ASSUME LeadershipAssumption == NoLeader \notin Nodes /\ MaxChanges \in Nat

VARIABLES
  cluster,   \* the cluster each machine is in; two in a split brain
  urls,      \* the members that have published a client URL
  up,        \* the members that answer requests
  view,      \* view[n]: the leader n reports in /v2/stats/self
  leader,    \* leader[c]: the member cluster c elected last
  changes    \* bound counter

clusterVars == <<cluster, urls, up, view, leader, changes>>

Clusters == {"a", "b"}
Leaders  == Nodes \cup {NoLeader}
Members  == {n \in Nodes : cluster[n] \in Clusters}

\* The members that member n lists: those of its cluster.
Listed(n) == {m \in Nodes : cluster[m] = cluster[n]}

ClusterTypeOK ==
  /\ cluster \in [Nodes -> Clusters \cup {"none"}]
  /\ urls \in SUBSET Members
  /\ up \in SUBSET Members
  /\ view \in [Nodes -> Leaders]
  /\ leader \in [Clusters -> Leaders]
  /\ changes \in 0 .. MaxChanges

\* Clients may be started at any time in the life of a cluster.
ClusterInit ==
  /\ leader \in {f \in [Clusters -> Leaders] :
                    \A c \in Clusters : f[c] = NoLeader \/ cluster[f[c]] = c}
  /\ view = [n \in Nodes |-> IF n \in Members THEN leader[cluster[n]] ELSE NoLeader]
  /\ up = Members
  /\ changes = 0

Change == changes < MaxChanges /\ changes' = changes + 1

Elect(n) ==
  /\ Change
  /\ n \in up
  /\ leader' = [leader EXCEPT ![cluster[n]] = n]
  /\ view' = [view EXCEPT ![n] = n]
  /\ UNCHANGED <<cluster, urls, up>>

Learn(n) ==
  /\ n \in up
  /\ view[n] # leader[cluster[n]]
  /\ view' = [view EXCEPT ![n] = leader[cluster[n]]]
  /\ UNCHANGED <<cluster, urls, up, leader, changes>>

\* A member that misses heartbeats reports no leader.
Forget(n) ==
  /\ Change
  /\ n \in up
  /\ view' = [view EXCEPT ![n] = NoLeader]
  /\ UNCHANGED <<cluster, urls, up, leader>>

\* A machine joins, and publishes its client URL later.
Join(n) ==
  /\ Change
  /\ n \notin Members
  /\ cluster' = [cluster EXCEPT ![n] = "a"]
  /\ up' = up \cup {n}
  /\ UNCHANGED <<urls, view, leader>>

PublishURL(n) ==
  /\ n \in Members \ urls
  /\ urls' = urls \cup {n}
  /\ UNCHANGED <<cluster, up, view, leader, changes>>

\* A member is removed and stops; if it led, nobody does.
Leave(n) ==
  /\ Change
  /\ n \in Members
  /\ cluster' = [cluster EXCEPT ![n] = "none"]
  /\ urls' = urls \ {n}
  /\ up' = up \ {n}
  /\ leader' = [c \in Clusters |-> IF leader[c] = n THEN NoLeader ELSE leader[c]]
  /\ view' = [view EXCEPT ![n] = NoLeader]

GoDown(n) ==
  /\ Change
  /\ n \in up
  /\ up' = up \ {n}
  /\ UNCHANGED <<cluster, urls, view, leader>>

ComeUp(n) ==
  /\ n \in Members \ up
  /\ up' = up \cup {n}
  /\ UNCHANGED <<cluster, urls, view, leader, changes>>

\* What members do without a cause of their own, and so in the end.
Recovers(n) == Learn(n) \/ PublishURL(n) \/ ComeUp(n)

Disturbed(n) == Elect(n) \/ Forget(n) \/ Join(n) \/ Leave(n) \/ GoDown(n)
=============================================================================
