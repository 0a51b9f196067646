----------------------------- MODULE Membership -----------------------------
(***************************************************************************)
(* What a deployment of etcdfab promises to the clients of etcd while BOSH *)
(* updates one node at a time and nothing fails: there is one group of     *)
(* nodes.  A node is admitted only when all others serve, serves before    *)
(* anything else changes the group, and leaves the member list and stops   *)
(* serving at the same moment.  Hence at most one member does not serve,   *)
(* and at every other moment the group can lose a minority.                *)
(***************************************************************************)
CONSTANT Nodes

VARIABLES
  group,     \* the member list of the cluster
  serving    \* the members whose etcd runs

Init == group = {} /\ serving = {}

Found(n) ==
  /\ group = {}
  /\ group' = {n}
  /\ serving' = {n}

Admit(n) ==
  /\ group # {} /\ n \notin group
  /\ serving = group
  /\ group' = group \cup {n}
  /\ UNCHANGED serving

Serve(n) ==
  /\ n \in group
  /\ serving' = serving \cup {n}
  /\ UNCHANGED group

Withdraw(n) ==
  /\ n \in group
  /\ serving = group
  /\ group' = group \ {n}
  /\ serving' = serving \ {n}

Next == \E n \in Nodes : Found(n) \/ Admit(n) \/ Serve(n) \/ Withdraw(n)

Spec == Init /\ [][Next]_<<group, serving>>
=============================================================================
