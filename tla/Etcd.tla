-------------------------------- MODULE Etcd --------------------------------
(***************************************************************************)
(* The etcd v2 server as etcdfab sees it: the membership of the clusters,  *)
(* the data directories, and the etcd processes on the hosts.  etcd itself *)
(* is a binary package of the release, not source in this repository, so   *)
(* everything here is external: it is what application.go, the cluster and *)
(* the sync controller rely on when they call the members and keys API and *)
(* build the --initial-cluster flags.                                      *)
(*                                                                         *)
(* A node has a fixed peer URL and a fixed name, both represented by the   *)
(* node.  An identity <<n, k>> is one handed out during the k-th run of    *)
(* "etcdfab start" on n: the pid of the process spawned by it is k, the id *)
(* of a member added by it is <<n, k>>, and the id of the cluster it       *)
(* bootstraps is <<n, k>> too.  Pids and ids are never reused.             *)
(***************************************************************************)
EXTENDS Integers, FiniteSets

CONSTANTS
  Nodes,      \* the machines of the instance group
  NoNode,     \* the empty member name of a member that never started
  NoId,       \* the empty member id
  NoIdent,    \* the contents of an empty data directory
  MaxStarts,  \* bound: runs of etcdfab start on each node
  Faults      \* the kinds of failure that may happen, a subset of FaultKinds

(***************************************************************************)
(*  list, add, remove   the members API call fails, or its answer is lost  *)
(*  blip                MemberList fails, but not in the last try of a     *)
(*                      start                                              *)
(*  keys                the keys API call fails                            *)
(*  slow                etcd needs longer than etcdfab waits               *)
(*  io                  exec of etcd, emptying the data directory or       *)
(*                      writing the pid file fails                         *)
(*  crash               an etcd process dies                               *)
(*  timeout             `timeout 55` kills etcd_ctl start (jobs/etcd/monit)*)
(***************************************************************************)
FaultKinds ==
  {"list", "blip", "add", "remove", "keys", "slow", "io", "crash", "timeout"}

ASSUME ConstantsAssumption ==
  /\ NoNode \notin Nodes
  /\ MaxStarts \in Nat \ {0}
  /\ Faults \subseteq FaultKinds

Starts == 1 .. MaxStarts
Id     == Nodes \X Starts
Ident  == [cluster : Id, id : Id]

ASSUME NullsAssumption == NoId \notin Id /\ NoIdent \notin Ident

VARIABLES
  members,  \* every member of every cluster, as committed by that cluster
  data,     \* data[n]: the identity recorded in n's data directory
  proc      \* proc[n][k]: the etcd process with pid k on n

etcdVars == <<members, data, proc>>

Member == [cluster : Id, id : Id, url : Nodes, name : Nodes \cup {NoNode}]

\* An entry "name=url" of the --initial-cluster flag.
Entry == [name : Nodes \cup {NoNode}, url : Nodes]

\* A booting process still has its flags, only a running one an identity.
Process ==
  [st : {"none", "boot", "dead"}, state : {"new", "existing"},
   init : SUBSET Entry, ident : {NoIdent}]
  \cup
  [st : {"run"}, state : {"new"}, init : {{}}, ident : Ident]

NoProcess == [st |-> "none", state |-> "new", init |-> {}, ident |-> NoIdent]

DeadProcess == [st |-> "dead", state |-> "new", init |-> {}, ident |-> NoIdent]

Booting(state, init) ==
  [st |-> "boot", state |-> state, init |-> init, ident |-> NoIdent]

RunningAs(ident) ==
  [st |-> "run", state |-> "new", init |-> {}, ident |-> ident]

EtcdTypeOK ==
  /\ members \in SUBSET Member
  /\ data \in [Nodes -> Ident \cup {NoIdent}]
  /\ proc \in [Nodes -> [Starts -> Process]]

EtcdInit ==
  /\ members = {}
  /\ data = [n \in Nodes |-> NoIdent]
  /\ proc = [n \in Nodes |-> [k \in Starts |-> NoProcess]]

-----------------------------------------------------------------------------
MembersOf(c) == {m \in members : m.cluster = c}

Alive(n, k)   == proc[n][k].st \in {"boot", "run"}
Running(n, k) == proc[n][k].st = "run"

\* The clusters of which some endpoint answers the client of etcdfab.
Responding ==
  {proc[i[1]][i[2]].ident.cluster : i \in {i \in Id : Running(i[1], i[2])}}

Serves(m) == \E k \in Starts : Running(m.url, k) /\ proc[m.url][k].ident.id = m.id

\* A membership change is a raft proposal: it needs a majority of the members.
HasQuorum(c) ==
  2 * Cardinality({m \in MembersOf(c) : Serves(m)}) > Cardinality(MembersOf(c))

\* The member that process k of n runs as has published its name.
Published(n, k) ==
  \E m \in members : m.id = proc[n][k].ident.id /\ m.name # NoNode

-----------------------------------------------------------------------------
(* Boot.  Only one process can listen on the ports of a node.              *)

PortTaken(n, k) == \E j \in Starts \ {k} : Running(n, j)

BootPortTaken(n, k) ==
  /\ proc[n][k].st = "boot"
  /\ PortTaken(n, k)
  /\ proc' = [proc EXCEPT ![n][k] = DeadProcess]
  /\ UNCHANGED <<members, data>>

\* With a write-ahead log on disk the --initial-cluster flags are ignored.
BootFromDisk(n, k) ==
  /\ proc[n][k].st = "boot"
  /\ ~PortTaken(n, k)
  /\ data[n] # NoIdent
  /\ proc' = [proc EXCEPT ![n][k] = RunningAs(data[n])]
  /\ UNCHANGED <<members, data>>

\* --initial-cluster-state new: a cluster of the members in the flags, which
\* GetInitialClusterState makes this node alone.
BootNew(n, k) ==
  /\ proc[n][k].st = "boot"
  /\ ~PortTaken(n, k)
  /\ data[n] = NoIdent
  /\ proc[n][k].state = "new"
  /\ LET ident == [cluster |-> <<n, k>>, id |-> <<n, k>>]
     IN  /\ members' = members \cup
                {[cluster |-> <<n, k>>, id |-> <<n, k>>, url |-> n, name |-> n]}
         /\ data' = [data EXCEPT ![n] = ident]
         /\ proc' = [proc EXCEPT ![n][k] = RunningAs(ident)]

\* --initial-cluster-state existing: --name must be in --initial-cluster, and
\* the URLs in it must be those of the cluster that one of its peers reports.
Joinable(n, k, c) ==
  LET init == proc[n][k].init
  IN  /\ [name |-> n, url |-> n] \in init
      /\ \E e \in init, j \in Starts :
            /\ e.url # n
            /\ Running(e.url, j)
            /\ proc[e.url][j].ident.cluster = c
      /\ {e.url : e \in init} = {m.url : m \in MembersOf(c)}

BootExisting(n, k) ==
  /\ proc[n][k].st = "boot"
  /\ ~PortTaken(n, k)
  /\ data[n] = NoIdent
  /\ proc[n][k].state = "existing"
  /\ \E m \in members :
        /\ m.url = n
        /\ Joinable(n, k, m.cluster)
        /\ LET ident == [cluster |-> m.cluster, id |-> m.id]
           IN  /\ data' = [data EXCEPT ![n] = ident]
               /\ proc' = [proc EXCEPT ![n][k] = RunningAs(ident)]
  /\ UNCHANGED members

BootRejected(n, k) ==
  /\ proc[n][k].st = "boot"
  /\ ~PortTaken(n, k)
  /\ data[n] = NoIdent
  /\ proc[n][k].state = "existing"
  /\ ~\E m \in members : m.url = n /\ Joinable(n, k, m.cluster)
  /\ proc' = [proc EXCEPT ![n][k] = DeadProcess]
  /\ UNCHANGED <<members, data>>

-----------------------------------------------------------------------------
\* A running member publishes its name through the log of its cluster.
Publish(n, k) ==
  /\ Running(n, k)
  /\ \E m \in members :
        /\ m.id = proc[n][k].ident.id
        /\ m.name = NoNode
        /\ HasQuorum(m.cluster)
        /\ members' = (members \ {m}) \cup {[m EXCEPT !.name = n]}
  /\ UNCHANGED <<data, proc>>

\* A member that learns of its own removal stops.
StopRemoved(n, k) ==
  /\ Running(n, k)
  /\ ~\E m \in members : m.id = proc[n][k].ident.id
  /\ proc' = [proc EXCEPT ![n][k] = DeadProcess]
  /\ UNCHANGED <<members, data>>

Crash(n, k) ==
  /\ "crash" \in Faults
  /\ Alive(n, k)
  /\ proc' = [proc EXCEPT ![n][k] = DeadProcess]
  /\ UNCHANGED <<members, data>>

EtcdStep(n, k) ==
  \/ BootPortTaken(n, k)
  \/ BootFromDisk(n, k)
  \/ BootNew(n, k)
  \/ BootExisting(n, k)
  \/ BootRejected(n, k)
  \/ Publish(n, k)
  \/ StopRemoved(n, k)
=============================================================================
