------------------------ MODULE EtcdFabSerialProofs ------------------------
(***************************************************************************)
(* Theorems about EtcdFab when BOSH updates one node at a time and nothing *)
(* fails but the calls of MemberAdd and MemberRemove, which may be refused *)
(* or lose their answers, and lists that a later try of the start gets:    *)
(* there is never a second cluster.                                        *)
(*                                                                         *)
(* The argument: at most one node is not settled, and only that node has   *)
(* steps.  The others either run, as named members of a cluster, or do not *)
(* run at all.  What a start has read in its member list therefore stays   *)
(* true until it has joined, and a start that found nobody is alone.  A    *)
(* node that has been added brings the quorum back by running, so that it  *)
(* publishes its name and its start does not fail with etcd left behind.   *)
(*                                                                         *)
(* The second half is about updates in which no call fails at all: then    *)
(* every start comes up, a stopped node has left its cluster, a settled    *)
(* cluster has its quorum, nothing is forgotten, and the nodes implement   *)
(* Membership.                                                             *)
(***************************************************************************)
EXTENDS EtcdFabProofs, FiniteSetTheorems

\* One node at a time; the member calls may fail, and a list before the last
\* try of a start.
LossySerial == Serial /\ Faults \subseteq {"blip", "add", "remove"}

-----------------------------------------------------------------------------
(* The inductive invariant                                                 *)

IdentOf(n) == proc[n][starts[n]].ident

\* The process of the last start runs.
Up(n) == starts[n] \in Starts /\ Running(n, starts[n])

\* m is the member that the process of n runs as.
RunsAs(n, m) == m.id = IdentOf(n).id /\ m.cluster = IdentOf(n).cluster

Named(n) == \E m \in members : RunsAs(n, m) /\ m.name # NoNode

\* The members of c on other nodes, a majority of which runs.
Others(n, c) == {m \in MembersOf(c) : m.url # n}

OthersHaveQuorum(n, c) ==
  2 * Cardinality({m \in Others(n, c) : Serves(m)}) > Cardinality(Others(n, c))

\* At most one node is not as BOSH wants it.
OneAtATime == \A n, m \in Nodes : n # m => Settled(n) \/ Settled(m)

\* A node has no process but that of its last start, which is in the pid file
\* or on its way into it: no start fails with etcd left behind.
OwnProcess(n) ==
  \A k \in Starts : Alive(n, k) =>
     /\ k = starts[n]
     /\ pc[n] \in {"sync", "write"} \/ pidfile[n] = k
     /\ proc[n][k].st = "boot" =>
           /\ pc[n] = "sync"
           /\ proc[n][k].state = InitialState(n)
           /\ proc[n][k].init = InitialMembers(n)

\* A process that monit is given runs as a named member; one that has no name
\* yet has the quorum to publish it.
OwnMember(n) ==
  /\ op[n] = "start" /\ (pc[n] = "write" \/ (pc[n] = "idle" /\ pidfile[n] # NoPid)) =>
        Up(n) /\ Named(n)
  /\ pc[n] = "sync" /\ Up(n) =>
        \/ Named(n)
        \/ HasQuorum(IdentOf(n).cluster) /\ \E m \in members : RunsAs(n, m)
  /\ op[n] = "stop" /\ pc[n] = "idle" => \A k \in Starts : ~Alive(n, k)

\* A start finds an empty data directory.
OwnData(n) ==
  data[n] # NoIdent =>
     pc[n] \in {"had", "rmList", "rm", "wipe"} \/ (Up(n) /\ pc[n] # "kill")

\* The member list of a start: if it is empty nobody else runs; otherwise what
\* it says of this node is still true and its cluster runs elsewhere.  A node
\* that was not in it has been added, by a majority of the others.
PriorList(n) ==
  /\ pc[n] \in {"idle", "list"} \/ op[n] = "stop" => prior[n] = {}
  /\ pc[n] = "add" => prior[n] # {} /\ ~IsPart(n, prior[n])
  /\ pc[n] \in {"spawn", "sync"} /\ prior[n] = {} =>
        \A j \in Nodes \ {n}, k \in Starts : ~Alive(j, k)
  /\ pc[n] \in {"add", "spawn", "sync"} /\ ~Up(n) =>
        \A x \in prior[n] :
           /\ x.url = n => x \in members
           /\ \E j \in Nodes \ {n} : Up(j) /\ IdentOf(j).cluster = x.cluster
  /\ pc[n] \in {"spawn", "sync"} /\ ~Up(n) /\ prior[n] # {} /\ ~IsPart(n, prior[n]) =>
        \A m \in members :
           m.url = n /\ m.cluster \in Responding => OthersHaveQuorum(n, m.cluster)

NodeInv(n) == OwnProcess(n) /\ OwnMember(n) /\ OwnData(n) /\ PriorList(n)

\* The start of n has not made its cluster, and not added its member.
NoClusterYet(n) == pc[n] \in {"list", "add", "spawn"} \/ (pc[n] = "sync" /\ ~Up(n))
NoMemberYet(n)  == pc[n] \in {"list", "add"} \/ (NoClusterYet(n) /\ prior[n] = {})

\* Ids are unique, a cluster has one member for each URL, and what the running
\* start will hand out is not taken.
UniqueMembers ==
  \A a, b \in members :
     /\ a.id = b.id => a = b
     /\ a.cluster = b.cluster /\ a.url = b.url => a = b

FreshIds ==
  /\ \A m \in members : m.id[2] <= starts[m.url] /\ m.cluster[2] <= starts[m.cluster[1]]
  /\ \A n \in Nodes, m \in members :
        /\ NoClusterYet(n) => m.cluster # <<n, starts[n]>>
        /\ NoMemberYet(n) => m.id # <<n, starts[n]>>

Roster == IsFiniteSet(members) /\ UniqueMembers /\ FreshIds

BaseInv == TypeOK /\ PidFileOfLastStart /\ Identities

SerialInv ==
  /\ BaseInv
  /\ OneAtATime
  /\ \A n \in Nodes : NodeInv(n)
  /\ Roster
  /\ OneCluster

-----------------------------------------------------------------------------
(* Frames: a step of n leaves the other nodes and their members alone.     *)

Frame(n) ==
  /\ \A j \in Nodes \ {n} :
        /\ proc'[j] = proc[j] /\ data'[j] = data[j]
        /\ pc'[j] = pc[j] /\ op'[j] = op[j] /\ starts'[j] = starts[j]
        /\ prior'[j] = prior[j] /\ pidfile'[j] = pidfile[j]
  /\ \A m \in members \cup members' : m.url # n => m \in members /\ m \in members'

NodeStep(n) ==
  \/ CtlStart(n) \/ MonitRestart(n) \/ CtlStop(n)
  \/ FabStep(n) \/ StartTimesOut(n)
  \/ NodeEtcdStep(n) \/ NodeCrash(n)

\* A step of etcd on one node touches no other node's process, data or state.
LEMMA EtcdFrame ==
  ASSUME TypeOK, Identities, NEW n \in Nodes, NEW k \in Starts,
         EtcdStep(n, k), UNCHANGED fabVars
  PROVE  Frame(n)
<1>0. UNCHANGED <<pc, op, starts, prior, pidfile>>
  BY DEF fabVars
<1>1. CASE BootPortTaken(n, k) \/ BootRejected(n, k) \/ StopRemoved(n, k)
  BY <1>0, <1>1 DEF Frame, BootPortTaken, BootRejected, StopRemoved, TypeOK, EtcdTypeOK
<1>2. CASE BootFromDisk(n, k)
  BY <1>0, <1>2 DEF Frame, BootFromDisk, TypeOK, EtcdTypeOK
<1>3. CASE BootNew(n, k)
  <2> DEFINE own == [cluster |-> <<n, k>>, id |-> <<n, k>>, url |-> n, name |-> n]
  <2>1. own.url = n
    OBVIOUS
  <2>2. members' = members \cup {own}
    BY <1>3 DEF BootNew
  <2> HIDE DEF own
  <2>3. \E p, i : proc' = [proc EXCEPT ![n][k] = p] /\ data' = [data EXCEPT ![n] = i]
    BY <1>3 DEF BootNew
  <2> QED
    BY <1>0, <2>1, <2>2, <2>3 DEF Frame, TypeOK, EtcdTypeOK
<1>4. CASE BootExisting(n, k)
  <2>1. PICK p, i : /\ proc' = [proc EXCEPT ![n][k] = p]
                    /\ data' = [data EXCEPT ![n] = i]
                    /\ members' = members
    BY <1>4 DEF BootExisting
  <2> QED
    BY <1>0, <2>1 DEF Frame, TypeOK, EtcdTypeOK
<1>5. CASE Publish(n, k)
  <2>1. PICK m \in members :
          /\ m.id = proc[n][k].ident.id
          /\ members' = (members \ {m}) \cup {[m EXCEPT !.name = n]}
    BY <1>5 DEF Publish
  <2> DEFINE named == [m EXCEPT !.name = n]
  <2>5. m.url = n
    BY <1>5, <2>1 DEF Publish, Identities
  <2>2. named.url = n
    BY <2>5 DEF Member, TypeOK, EtcdTypeOK
  <2>3. members' = (members \ {m}) \cup {named}
    BY <2>1
  <2> HIDE DEF named
  <2>4. UNCHANGED <<data, proc>>
    BY <1>5 DEF Publish
  <2> QED
    BY <1>0, <2>2, <2>3, <2>4, <2>5 DEF Frame
<1> QED
  BY <1>1, <1>2, <1>3, <1>4, <1>5 DEF EtcdStep

\* A step of etcdfab on one node, its calls to etcd included, leaves the
\* others alone.
LEMMA FabFrame ==
  ASSUME TypeOK, Identities, NEW n \in Nodes, FabStep(n)
  PROVE  Frame(n)
<1> USE DEF Goto, Exit
<1>1. ASSUME UNCHANGED etcdVars,
             \A j \in Nodes \ {n} :
                /\ pc'[j] = pc[j] /\ op'[j] = op[j] /\ starts'[j] = starts[j]
                /\ prior'[j] = prior[j] /\ pidfile'[j] = pidfile[j]
      PROVE  Frame(n)
  BY <1>1 DEF Frame, etcdVars
<1>2. CASE PriorMembers(n) \/ PriorMembersFail(n)
  BY <1>1, <1>2 DEF PriorMembers, PriorMembersFail, TypeOK
<1>3. ASSUME NEW c, AddsMember(n, c),
             \A j \in Nodes \ {n} :
                /\ pc'[j] = pc[j] /\ op'[j] = op[j] /\ starts'[j] = starts[j]
                /\ prior'[j] = prior[j] /\ pidfile'[j] = pidfile[j]
      PROVE  Frame(n)
  <2> DEFINE added ==
        [cluster |-> c, id |-> <<n, starts[n]>>, url |-> n, name |-> NoNode]
  <2>1. added.url = n
    OBVIOUS
  <2>2. members' = members \cup {added} /\ UNCHANGED <<data, proc>>
    BY <1>3 DEF AddsMember
  <2> HIDE DEF added
  <2> QED
    BY <1>3, <2>1, <2>2 DEF Frame
<1>4. CASE AddSelf(n) \/ AddSelfFails(n)
  <2>1. \A j \in Nodes \ {n} :
                /\ pc'[j] = pc[j] /\ op'[j] = op[j] /\ starts'[j] = starts[j]
                /\ prior'[j] = prior[j] /\ pidfile'[j] = pidfile[j]
    BY <1>4 DEF AddSelf, AddSelfFails, TypeOK
  <2> QED
    BY <1>1, <1>3, <1>4, <2>1 DEF AddSelf, AddSelfFails
<1>5. CASE Spawn(n)
  BY <1>5 DEF Spawn, Frame, TypeOK, EtcdTypeOK
<1>6. CASE SpawnFails(n) \/ WritePidFile(n) \/ WritePidFileFails(n)
  BY <1>1, <1>6 DEF SpawnFails, WritePidFile, WritePidFileFails, TypeOK
<1>7. CASE VerifySynced(n) \/ VerifySyncedFails(n)
  BY <1>1, <1>7 DEF VerifySynced, VerifySyncedFails, TypeOK
<1>8. CASE PriorClusterHadOtherNodes(n) \/ FindSelf(n)
  BY <1>1, <1>8 DEF PriorClusterHadOtherNodes, FindSelf, TypeOK
<1>9. CASE RemoveSelf(n)
  <2>1. CASE UNCHANGED etcdVars
    BY <1>1, <1>9, <2>1 DEF RemoveSelf, TypeOK
  <2>2. ASSUME NEW c \in Responding, RemovesMember(n, c)
        PROVE  Frame(n)
    <3>1. PICK m \in members : m.id = target[n] /\ members' = members \ {m}
      BY <2>2 DEF RemovesMember, MembersOf
    <3>2. m.id # NoId /\ m.id[1] = m.url
      BY NullsAssumption DEF Identities, TypeOK, EtcdTypeOK, Member
    <3>3. m.url = n
      BY <3>1, <3>2 DEF Identities
    <3> QED
      BY <1>9, <2>2, <3>1, <3>3 DEF RemoveSelf, RemovesMember, Frame, TypeOK
  <2> QED
    BY <1>9, <2>1, <2>2 DEF RemoveSelf
<1>10. CASE RemoveDataDir(n)
  BY <1>10 DEF RemoveDataDir, Frame, TypeOK, EtcdTypeOK
<1>11. CASE Kill(n)
  <2>1. CASE PidAlive(n)
    BY <1>11, <2>1 DEF Kill, Frame, TypeOK, EtcdTypeOK
  <2>2. CASE ~PidAlive(n)
    BY <1>11, <2>2 DEF Kill, Frame, TypeOK
  <2> QED
    BY <2>1, <2>2
<1> QED
  BY <1>2, <1>4, <1>5, <1>6, <1>7, <1>8, <1>9, <1>10, <1>11 DEF FabStep

\* Nothing but the member calls fails, so that every step is one of these.
LEMMA StepFrame ==
  ASSUME LossySerial, TypeOK, Identities, NEW n \in Nodes, NodeStep(n)
  PROVE  /\ Frame(n)
         /\ \/ CtlStart(n) \/ MonitRestart(n) \/ CtlStop(n) \/ FabStep(n)
            \/ NodeEtcdStep(n)
<1>1. ~StartTimesOut(n) /\ ~NodeCrash(n)
  BY DEF LossySerial, StartTimesOut, NodeCrash, Crash
<1>2. CASE CtlStart(n) \/ MonitRestart(n)
  BY <1>2 DEF CtlStart, MonitRestart, GuardedStart, Goto, Frame, etcdVars, TypeOK
<1>3. CASE CtlStop(n)
  BY <1>3 DEF CtlStop, Goto, Frame, etcdVars, TypeOK
<1>4. CASE FabStep(n)
  BY <1>4, FabFrame
<1>5. CASE NodeEtcdStep(n)
  BY <1>5, EtcdFrame DEF NodeEtcdStep
<1> QED
  BY <1>1, <1>2, <1>3, <1>4, <1>5 DEF NodeStep

-----------------------------------------------------------------------------
(* Only the node that is not settled has steps.                            *)

\* A settled node runs nothing, or one process, as a named member.
LEMMA SettledNode ==
  ASSUME SerialInv, NEW n \in Nodes, Settled(n)
  PROVE  /\ pc[n] = "idle"
         /\ prior[n] = {}
         /\ op[n] = "stop" => \A k \in Starts : ~Alive(n, k)
         /\ op[n] = "start" => Up(n) /\ Named(n) /\ pidfile[n] # NoPid
         /\ \A k \in Starts : Alive(n, k) => k = starts[n] /\ op[n] = "start"
         /\ \A k \in Starts : proc[n][k].st # "boot"
<1>1. NodeInv(n) /\ op[n] \in {"start", "stop"} /\ pc[n] = "idle"
  BY DEF SerialInv, BaseInv, TypeOK, Settled
<1>2. op[n] = "start" => pidfile[n] # NoPid
  BY DEF Settled, PidAlive
<1>3. \A k \in Starts : proc[n][k].st # "boot"
  BY <1>1 DEF NodeInv, OwnProcess, Alive
<1>4. \A k \in Starts : Alive(n, k) => k = starts[n] /\ op[n] = "start"
  BY <1>1 DEF NodeInv, OwnProcess, OwnMember
<1> QED
  BY <1>1, <1>2, <1>3, <1>4 DEF NodeInv, OwnMember, PriorList

\* The etcd process of a settled node has nothing to do.
LEMMA SettledEtcd ==
  ASSUME SerialInv, NEW n \in Nodes, Settled(n), NEW k \in Starts
  PROVE  ~EtcdStep(n, k)
<1>1. proc[n][k].st # "boot"
  BY SettledNode
<1>2. ASSUME Running(n, k) PROVE ~Publish(n, k) /\ ~StopRemoved(n, k)
  <2>1. k = starts[n] /\ Named(n)
    BY <1>2, SettledNode DEF Running, Alive
  <2>2. PICK m \in members : m.id = proc[n][k].ident.id /\ m.name # NoNode
    BY <2>1 DEF Named, RunsAs, IdentOf
  <2>3. \A x \in members : x.id = proc[n][k].ident.id => x = m
    BY <2>2 DEF SerialInv, Roster, UniqueMembers
  <2> QED
    BY <2>2, <2>3 DEF Publish, StopRemoved
<1> QED
  BY <1>1, <1>2 DEF EtcdStep, BootPortTaken, BootFromDisk, BootNew, BootExisting,
                    BootRejected, Publish, StopRemoved

\* Whoever has a step is the one node that is not settled.
LEMMA OthersSettled ==
  ASSUME LossySerial, SerialInv, NEW n \in Nodes, NodeStep(n)
  PROVE  \A j \in Nodes \ {n} : Settled(j)
<1>1. CASE ~Settled(n)
  BY <1>1 DEF SerialInv, OneAtATime
<1>2. CASE Settled(n)
  <2>1. ~FabStep(n)
    BY <1>2 DEF Settled, FabStep, PriorMembers, PriorMembersFail, AddSelf,
       AddSelfFails, Spawn, SpawnFails, VerifySynced, VerifySyncedFails,
       WritePidFile, WritePidFileFails, PriorClusterHadOtherNodes, FindSelf,
       RemoveSelf, RemoveDataDir, Kill
  <2>2. ~MonitRestart(n)
    BY <1>2 DEF Settled, MonitRestart, GuardedStart
  <2>3. ~NodeEtcdStep(n)
    BY <1>2, SettledEtcd DEF NodeEtcdStep
  <2>4. CtlStart(n) \/ CtlStop(n)
    BY <2>1, <2>2, <2>3, StepFrame DEF SerialInv, BaseInv
  <2> QED
    BY <2>4 DEF CtlStart, CtlStop, MyTurn, LossySerial
<1> QED
  BY <1>1, <1>2

-----------------------------------------------------------------------------
(* What the steps of n keep for the other nodes.                           *)

\* The processes of the other nodes are the same.
LEMMA OthersRun ==
  ASSUME NEW n \in Nodes, Frame(n), NEW j \in Nodes \ {n}
  PROVE  /\ \A k \in Starts : (Alive(j, k)' <=> Alive(j, k)) /\ (Running(j, k)' <=> Running(j, k))
         /\ Up(j)' <=> Up(j)
         /\ IdentOf(j)' = IdentOf(j)
         /\ PidAlive(j)' <=> PidAlive(j)
         /\ Settled(j)' <=> Settled(j)
BY DEF Frame, Alive, Running, Up, IdentOf, PidAlive, Settled

\* They run as the same members.
LEMMA OthersNamed ==
  ASSUME BaseInv, NEW n \in Nodes, Frame(n), NEW j \in Nodes \ {n}, Up(j), Named(j)
  PROVE  Named(j)'
<1>1. PICK m \in members : RunsAs(j, m) /\ m.name # NoNode
  BY DEF Named
<1>2. IdentOf(j).id[1] = j
  BY DEF BaseInv, Identities, Up, IdentOf
<1>3. m.url # n
  BY <1>1, <1>2 DEF BaseInv, Identities, RunsAs
<1>4. m \in members'
  BY <1>3 DEF Frame
<1>5. RunsAs(j, m)'
  BY <1>1, OthersRun DEF RunsAs
<1> QED
  BY <1>1, <1>4, <1>5 DEF Named

\* What the invariant says of the settled nodes survives another one's step.
LEMMA OthersKept ==
  ASSUME SerialInv, NEW n \in Nodes, Frame(n),
         \A j \in Nodes \ {n} : Settled(j)
  PROVE  OneAtATime' /\ \A j \in Nodes \ {n} : NodeInv(j)'
<1>1. OneAtATime'
  BY OthersRun DEF OneAtATime
<1>2. ASSUME NEW j \in Nodes \ {n}
      PROVE  NodeInv(j)'
  <2>1. /\ Settled(j) /\ NodeInv(j)
        /\ pc'[j] = "idle" /\ pc[j] = "idle" /\ op'[j] = op[j] /\ prior'[j] = {}
        /\ pidfile'[j] = pidfile[j] /\ data'[j] = data[j]
        /\ starts'[j] = starts[j] /\ proc'[j] = proc[j]
    BY <1>2, SettledNode DEF Frame, SerialInv
  <2>2. OwnProcess(j)'
    BY <2>1, OthersRun, SettledNode DEF NodeInv, OwnProcess
  <2>3. OwnMember(j)'
    BY <2>1, OthersRun, OthersNamed, SettledNode DEF NodeInv, OwnMember, SerialInv
  <2>4. OwnData(j)'
    BY <2>1, OthersRun DEF NodeInv, OwnData
  <2>5. PriorList(j)'
    BY <2>1 DEF PriorList
  <2> QED
    BY <2>2, <2>3, <2>4, <2>5 DEF NodeInv
<1> QED
  BY <1>1, <1>2

\* Another node's part in a quorum is the same.
LEMMA OthersQuorum ==
  ASSUME BaseInv, NEW n \in Nodes, Frame(n), NEW c
  PROVE  /\ Others(n, c)' = Others(n, c)
         /\ OthersHaveQuorum(n, c)' <=> OthersHaveQuorum(n, c)
<1>1. Others(n, c)' = Others(n, c)
  BY DEF Others, MembersOf, Frame
<1>2. \A m \in Others(n, c) : Serves(m)' <=> Serves(m)
  BY OthersRun DEF Others, MembersOf, Serves, Frame, BaseInv, TypeOK, EtcdTypeOK, Member
<1>3. {m \in Others(n, c) : Serves(m)}' = {m \in Others(n, c) : Serves(m)}
  BY <1>1, <1>2
<1> QED
  BY <1>1, <1>3 DEF OthersHaveQuorum

\* If no process begins to run there is no new cluster.
LEMMA OneClusterKept ==
  ASSUME OneCluster,
         \A j \in Nodes, k \in Starts :
            Running(j, k)' => Running(j, k) /\ proc'[j][k].ident = proc[j][k].ident
  PROVE  OneCluster' /\ Responding' \subseteq Responding
<1>1. Responding' \subseteq Responding
  BY DEF Responding, Id
<1> QED
  BY <1>1 DEF OneCluster

-----------------------------------------------------------------------------
(* The node that steps: steps that leave etcd alone                        *)

\* What is read of etcd is the same after a step that leaves it alone.
LEMMA QuietEtcd ==
  ASSUME UNCHANGED etcdVars, NEW n \in Nodes
  PROVE  /\ \A j \in Nodes, k \in Starts :
               (Alive(j, k)' <=> Alive(j, k)) /\ (Running(j, k)' <=> Running(j, k))
         /\ starts'[n] = starts[n] =>
               (Up(n)' <=> Up(n)) /\ (Named(n)' <=> Named(n)) /\ IdentOf(n)' = IdentOf(n)
         /\ Responding' = Responding
         /\ \A c : MembersOf(c)' = MembersOf(c)
         /\ \A c : HasQuorum(c)' <=> HasQuorum(c)
         /\ OneCluster' <=> OneCluster
<1>1. members' = members /\ proc' = proc /\ data' = data
  BY DEF etcdVars
<1>2. \A j \in Nodes, k \in Starts :
         (Alive(j, k)' <=> Alive(j, k)) /\ (Running(j, k)' <=> Running(j, k))
  BY <1>1 DEF Alive, Running
<1>3. starts'[n] = starts[n] =>
         (Up(n)' <=> Up(n)) /\ (Named(n)' <=> Named(n)) /\ IdentOf(n)' = IdentOf(n)
  BY <1>1 DEF Up, Running, Named, RunsAs, IdentOf
<1>4. Responding' = Responding
  BY <1>1 DEF Responding, Running
<1>5. \A c : MembersOf(c)' = MembersOf(c)
  BY <1>1 DEF MembersOf
<1>6. \A c : HasQuorum(c)' <=> HasQuorum(c)
  BY <1>1 DEF HasQuorum, MembersOf, Serves, Running
<1> QED
  BY <1>2, <1>3, <1>4, <1>5, <1>6 DEF OneCluster

\* Nothing is handed out by a step that leaves etcd alone.
LEMMA QuietRoster ==
  ASSUME SerialInv, NEW n \in Nodes, Frame(n), \A j \in Nodes \ {n} : Settled(j),
         members' = members, starts' = starts,
         NoClusterYet(n)' => NoClusterYet(n), NoMemberYet(n)' => NoMemberYet(n)
  PROVE  Roster'
<1>1. \A j \in Nodes \ {n} : ~NoClusterYet(j)' /\ ~NoMemberYet(j)'
  BY SettledNode DEF Frame, NoClusterYet, NoMemberYet
<1>2. IsFiniteSet(members)' /\ UniqueMembers'
  BY DEF SerialInv, Roster, UniqueMembers
<1>3. FreshIds'
  BY <1>1 DEF SerialInv, Roster, FreshIds
<1> QED
  BY <1>2, <1>3 DEF Roster

\* monit starts etcd only where no etcd process is left.
LEMMA StartNode ==
  ASSUME LossySerial, SerialInv, NEW n \in Nodes, CtlStart(n) \/ MonitRestart(n),
         Frame(n), \A j \in Nodes \ {n} : Settled(j)
  PROVE  NodeInv(n)' /\ Roster' /\ OneCluster'
<1>0. GuardedStart(n) /\ op'[n] = "start" /\ NodeInv(n) /\ TypeOK
  BY DEF CtlStart, MonitRestart, SerialInv, BaseInv, TypeOK
<1>1. /\ UNCHANGED etcdVars
      /\ pc[n] = "idle" /\ pc'[n] = "list" /\ prior' = prior
      /\ starts'[n] = starts[n] + 1 /\ starts[n] < MaxStarts
      /\ starts' = [starts EXCEPT ![n] = starts[n] + 1]
  BY <1>0 DEF GuardedStart, Goto, TypeOK
<1>2. \A k \in Starts : ~Alive(n, k)
  BY <1>0, <1>1, FabAssumption DEF NodeInv, OwnProcess, GuardedStart, PidAlive
<1>3. \A k \in Starts : ~Alive(n, k)'
  BY <1>1, <1>2, QuietEtcd
<1>4. ~Up(n) /\ ~Up(n)'
  BY <1>2, <1>3 DEF Up, Alive, Running
<1>5. data'[n] = NoIdent
  BY <1>0, <1>1, <1>4 DEF NodeInv, OwnData, etcdVars
<1>6. prior'[n] = {}
  BY <1>0, <1>1 DEF NodeInv, PriorList
<1>7. OwnProcess(n)' /\ OwnMember(n)' /\ OwnData(n)'
  BY <1>0, <1>1, <1>3, <1>4, <1>5 DEF OwnProcess, OwnMember, OwnData
<1>8. PriorList(n)'
  BY <1>0, <1>1, <1>6 DEF PriorList
<1>9. Roster'
  <2>1. members' = members
    BY <1>1 DEF etcdVars
  <2>2. IsFiniteSet(members)' /\ UniqueMembers'
    BY <2>1 DEF SerialInv, Roster, UniqueMembers
  <2>3. \A j \in Nodes \ {n} : ~NoClusterYet(j)' /\ ~NoMemberYet(j)'
    BY SettledNode DEF Frame, NoClusterYet, NoMemberYet
  <2>4. \A m \in members : m \in Member /\ m.id[1] = m.url
    BY DEF SerialInv, BaseInv, TypeOK, EtcdTypeOK, Identities
  <2>5. \A m \in members : m.id[2] <= starts[m.url] /\ m.cluster[2] <= starts[m.cluster[1]]
    BY DEF SerialInv, Roster, FreshIds
  <2>6. \A j \in Nodes : starts[j] \in Int /\ starts'[j] \in Int /\ starts[j] <= starts'[j]
    BY <1>0, <1>1, ConstantsAssumption DEF TypeOK
  <2>7. \A m \in members :
          /\ m.id \in Nodes \X Starts /\ m.cluster \in Nodes \X Starts
          /\ m.url \in Nodes
    BY <2>4 DEF Member, Id
  <2>8. \A m \in members : m.id[2] <= starts'[m.url] /\ m.cluster[2] <= starts'[m.cluster[1]]
    BY <2>5, <2>6, <2>7, ConstantsAssumption DEF Starts
  <2>9. \A m \in members : m.cluster # <<n, starts'[n]>> /\ m.id # <<n, starts'[n]>>
    BY <1>1, <2>4, <2>5, <2>6, <2>7, ConstantsAssumption DEF Starts
  <2> QED
    BY <2>1, <2>2, <2>3, <2>8, <2>9 DEF Roster, FreshIds
<1>10. OneCluster'
  BY <1>1, QuietEtcd DEF SerialInv
<1> QED
  BY <1>7, <1>8, <1>9, <1>10 DEF NodeInv

\* A cluster that answers is that of a last start, which runs.
LEMMA RespondingUp ==
  ASSUME SerialInv
  PROVE  /\ \A c \in Responding : \E j \in Nodes : Up(j) /\ IdentOf(j).cluster = c
         /\ \A j \in Nodes : Up(j) => IdentOf(j).cluster \in Responding
<1>1. ASSUME NEW c \in Responding
      PROVE  \E j \in Nodes : Up(j) /\ IdentOf(j).cluster = c
  <2>1. PICK i \in Id : Running(i[1], i[2]) /\ c = proc[i[1]][i[2]].ident.cluster
    BY DEF Responding
  <2>2. i[1] \in Nodes /\ i[2] \in Starts
    BY DEF Id
  <2>3. i[2] = starts[i[1]]
    BY <2>1, <2>2 DEF SerialInv, NodeInv, OwnProcess, Alive, Running
  <2> QED
    BY <2>1, <2>2, <2>3 DEF Up, IdentOf
<1>2. ASSUME NEW j \in Nodes, Up(j)
      PROVE  IdentOf(j).cluster \in Responding
  <2>1. <<j, starts[j]>> \in Id /\ Running(j, starts[j])
    BY <1>2 DEF Up, Id
  <2> QED
    BY <2>1 DEF Responding, IdentOf
<1> QED
  BY <1>1, <1>2

\* A settled node that runs is a named member of its cluster.
LEMMA SettledUp ==
  ASSUME SerialInv, NEW j \in Nodes, Settled(j), Up(j)
  PROVE  op[j] = "start" /\ \E m \in members : RunsAs(j, m) /\ m.name # NoNode
BY SettledNode DEF Up, Running, Alive, Named

\* Until etcd is spawned the node has no process and no data.
LEMMA NothingYet ==
  ASSUME SerialInv, NEW n \in Nodes, pc[n] \in {"list", "add", "spawn"}
  PROVE  /\ op[n] = "start" /\ starts[n] \in Starts /\ pidfile[n] = NoPid
         /\ \A k \in Starts : ~Alive(n, k)
         /\ ~Up(n)
         /\ data[n] = NoIdent
<1>1. op[n] = "start" /\ starts[n] \in Starts /\ pidfile[n] = NoPid
  BY DEF SerialInv, BaseInv, PidFileOfLastStart, StartPCs
<1>2. \A k \in Starts : ~Alive(n, k)
  BY <1>1, FabAssumption DEF SerialInv, NodeInv, OwnProcess
<1>3. ~Up(n)
  BY <1>2 DEF Up, Alive, Running
<1> QED
  BY <1>1, <1>2, <1>3 DEF SerialInv, NodeInv, OwnData

\* The member list that etcdfab gets is that of a cluster with named members.
LEMMA ListNode ==
  ASSUME LossySerial, SerialInv, NEW n \in Nodes, PriorMembers(n),
         Frame(n), \A j \in Nodes \ {n} : Settled(j)
  PROVE  NodeInv(n)' /\ Roster' /\ OneCluster'
<1>1. PICK c \in Responding :
         /\ prior' = [prior EXCEPT ![n] = MembersOf(c)]
         /\ Goto(n, IF MembersOf(c) = {} \/ IsPart(n, MembersOf(c))
                    THEN "spawn" ELSE "add")
  BY DEF PriorMembers
<1>2. /\ UNCHANGED etcdVars /\ pc[n] = "list"
      /\ op' = op /\ starts' = starts /\ pidfile' = pidfile
  BY DEF PriorMembers
<1>3. /\ op[n] = "start" /\ ~Up(n) /\ data[n] = NoIdent
      /\ \A k \in Starts : ~Alive(n, k)
  BY <1>2, NothingYet
<1>4. ~Up(n)' /\ data'[n] = NoIdent /\ \A k \in Starts : ~Alive(n, k)'
  BY <1>2, <1>3, QuietEtcd DEF etcdVars
<1>5. PICK j \in Nodes : Up(j) /\ IdentOf(j).cluster = c
  BY RespondingUp
<1>6. j # n
  BY <1>3, <1>5
<1>7. MembersOf(c) # {}
  BY <1>5, <1>6, SettledUp DEF MembersOf, RunsAs
<1>8. prior'[n] = MembersOf(c) /\ pc'[n] = IF IsPart(n, MembersOf(c)) THEN "spawn" ELSE "add"
  BY <1>1, <1>7 DEF Goto, SerialInv, BaseInv, TypeOK
<1>9. OwnProcess(n)' /\ OwnMember(n)' /\ OwnData(n)'
  BY <1>4, <1>8 DEF OwnProcess, OwnMember, OwnData
<1>10. PriorList(n)'
  <2>1. Up(j)' /\ IdentOf(j)'.cluster = c
    BY <1>5, <1>6, OthersRun
  <2>2. \A x \in prior'[n] : x \in members' /\ x.cluster = c
    BY <1>2, <1>8 DEF MembersOf, etcdVars
  <2>3. op'[n] = "start" /\ pc'[n] \in {"spawn", "add"}
    BY <1>2, <1>3, <1>8
  <2> QED
    BY <1>6, <1>7, <1>8, <2>1, <2>2, <2>3 DEF PriorList
<1>11. Roster'
  BY <1>2, QuietRoster DEF NoClusterYet, NoMemberYet, etcdVars
<1>12. OneCluster'
  BY <1>2, QuietEtcd DEF SerialInv
<1> QED
  BY <1>9, <1>10, <1>11, <1>12 DEF NodeInv

\* A start that gets no member list in its last try is alone: no other node
\* runs etcd.
LEMMA NoListNode ==
  ASSUME LossySerial, SerialInv, NEW n \in Nodes, PriorMembersFail(n),
         Frame(n), \A j \in Nodes \ {n} : Settled(j)
  PROVE  NodeInv(n)' /\ Roster' /\ OneCluster'
<1>1. /\ UNCHANGED etcdVars /\ pc[n] = "list" /\ pc'[n] \in {"list", "spawn"}
      /\ op' = op /\ starts' = starts /\ pidfile' = pidfile /\ prior' = prior
      /\ pc'[n] = "spawn" => ListFails(TRUE)
  BY DEF PriorMembersFail, ListFails, LastTry, Goto, SerialInv, BaseInv, TypeOK
<1>2. /\ op[n] = "start" /\ ~Up(n) /\ data[n] = NoIdent
      /\ \A k \in Starts : ~Alive(n, k)
  BY <1>1, NothingYet
<1>3. ~Up(n)' /\ data'[n] = NoIdent /\ \A k \in Starts : ~Alive(n, k)'
  BY <1>1, <1>2, QuietEtcd DEF etcdVars
<1>4. prior'[n] = {}
  BY <1>1 DEF SerialInv, NodeInv, PriorList
<1>5. pc'[n] = "spawn" => Responding = {}
  BY <1>1 DEF ListFails, LossySerial
<1>6. ASSUME pc'[n] = "spawn", NEW j \in Nodes \ {n}, NEW k \in Starts
      PROVE  ~Alive(j, k)'
  <2>1. ~Up(j)
    BY <1>5, <1>6, RespondingUp
  <2>2. ~Alive(j, k)
    BY <2>1, SettledNode
  <2> QED
    BY <2>2, OthersRun
<1>7. OwnProcess(n)' /\ OwnMember(n)' /\ OwnData(n)'
  BY <1>1, <1>3 DEF OwnProcess, OwnMember, OwnData
<1>8. PriorList(n)'
  BY <1>1, <1>4, <1>6 DEF PriorList
<1>9. Roster'
  BY <1>1, QuietRoster DEF NoClusterYet, NoMemberYet, etcdVars
<1>10. OneCluster'
  BY <1>1, QuietEtcd DEF SerialInv
<1> QED
  BY <1>7, <1>8, <1>9, <1>10 DEF NodeInv

\* etcdfab goes on only when its own etcd answers, as a named member.
LEMMA SyncedNode ==
  ASSUME LossySerial, SerialInv, NEW n \in Nodes, VerifySynced(n),
         Frame(n), \A j \in Nodes \ {n} : Settled(j)
  PROVE  NodeInv(n)' /\ Roster' /\ OneCluster'
<1>1. /\ UNCHANGED etcdVars /\ pc[n] = "sync" /\ pc'[n] = "write"
      /\ op' = op /\ starts' = starts /\ pidfile' = pidfile /\ prior' = prior
      /\ KeysAnswer(n) /\ op[n] = "start"
  BY DEF VerifySynced, Goto, SerialInv, BaseInv, TypeOK, PidFileOfLastStart, StartPCs
<1>2. PICK k \in Starts : Running(n, k) /\ Published(n, k)
  BY <1>1 DEF KeysAnswer, LossySerial
<1>3. k = starts[n] /\ Up(n)
  BY <1>2 DEF Up, SerialInv, NodeInv, OwnProcess, Alive, Running
<1>4. Named(n)
  <2>1. PICK m \in members : m.id = IdentOf(n).id /\ m.name # NoNode
    BY <1>2, <1>3 DEF Published, IdentOf
  <2>2. \E x \in members : RunsAs(n, x)
    BY <1>1, <1>3 DEF SerialInv, NodeInv, OwnMember, Named
  <2>3. RunsAs(n, m)
    BY <2>1, <2>2 DEF SerialInv, Roster, UniqueMembers, RunsAs
  <2> QED
    BY <2>1, <2>3 DEF Named
<1>5. Up(n)' /\ Named(n)'
  BY <1>1, <1>3, <1>4, QuietEtcd
<1>6. OwnProcess(n)'
  <2>1. \A i \in Starts : Alive(n, i)' => i = k /\ proc'[n][i].st # "boot"
    BY <1>1, <1>2, <1>3, QuietEtcd DEF SerialInv, NodeInv, OwnProcess, Running, etcdVars
  <2> QED
    BY <1>1, <1>3, <2>1 DEF OwnProcess
<1>7. OwnMember(n)' /\ OwnData(n)'
  BY <1>1, <1>5 DEF OwnMember, OwnData
<1>8. PriorList(n)'
  BY <1>1 DEF PriorList
<1>9. Roster'
  BY <1>1, QuietRoster DEF NoClusterYet, NoMemberYet, etcdVars
<1>10. OneCluster'
  BY <1>1, QuietEtcd DEF SerialInv
<1> QED
  BY <1>6, <1>7, <1>8, <1>9, <1>10 DEF NodeInv

\* The keys API does not answer only when etcd has died: a node that was added
\* has brought the quorum with it and publishes its name.
LEMMA KeysFailDead ==
  ASSUME LossySerial, SerialInv, NEW n \in Nodes, pc[n] = "sync", KeysFail(n)
  PROVE  \A k \in Starts : ~Alive(n, k)
<1>1. NodeInv(n)
  BY DEF SerialInv
<1>2. ASSUME NEW k \in Starts, Running(n, k),
             ~\E i \in Starts : Running(n, i) /\ Published(n, i),
             ~HasQuorum(proc[n][k].ident.cluster)
      PROVE  FALSE
  <2>1. k = starts[n] /\ Up(n)
    BY <1>1, <1>2 DEF Up, NodeInv, OwnProcess, Alive, Running
  <2>2. ~HasQuorum(IdentOf(n).cluster) /\ ~Published(n, k)
    BY <1>2, <2>1 DEF IdentOf
  <2>3. ~Named(n)
    BY <2>1, <2>2 DEF Named, RunsAs, IdentOf, Published
  <2> QED
    BY <1>1, <2>1, <2>2, <2>3 DEF NodeInv, OwnMember
<1> QED
  BY <1>2 DEF KeysFail, LossySerial

\* A start gives up only after its etcd has died.
LEMMA NotSyncedNode ==
  ASSUME LossySerial, SerialInv, NEW n \in Nodes, VerifySyncedFails(n),
         Frame(n), \A j \in Nodes \ {n} : Settled(j)
  PROVE  NodeInv(n)' /\ Roster' /\ OneCluster'
<1>1. /\ UNCHANGED etcdVars /\ pc[n] = "sync" /\ pc'[n] \in {"sync", "rmList", "wipe"}
      /\ op' = op /\ starts' = starts /\ pidfile' = pidfile /\ prior' = prior
      /\ KeysFail(n) /\ op[n] = "start" /\ NodeInv(n)
  BY DEF VerifySyncedFails, Goto, SerialInv, BaseInv, TypeOK, PidFileOfLastStart, StartPCs
<1>2. \A k \in Starts : ~Alive(n, k)
  BY <1>1, KeysFailDead
<1>3. ~Up(n) /\ ~Up(n)' /\ \A k \in Starts : ~Alive(n, k)'
  BY <1>1, <1>2, QuietEtcd DEF Up, Alive, Running
<1>4. data'[n] = NoIdent
  BY <1>1, <1>3 DEF NodeInv, OwnData, etcdVars
<1>5. OwnProcess(n)' /\ OwnMember(n)' /\ OwnData(n)'
  BY <1>1, <1>3, <1>4 DEF OwnProcess, OwnMember, OwnData
<1>6. PriorList(n)'
  <2>1. CASE pc'[n] = "sync"
    <3>1. \A j \in Nodes \ {n} : (Up(j)' <=> Up(j)) /\ IdentOf(j)' = IdentOf(j)
      BY OthersRun
    <3>2. \A c : OthersHaveQuorum(n, c)' <=> OthersHaveQuorum(n, c)
      BY OthersQuorum DEF SerialInv
    <3>3. Responding' = Responding /\ members' = members
      BY <1>1, QuietEtcd DEF etcdVars
    <3>4. \A j \in Nodes \ {n}, k \in Starts : Alive(j, k)' <=> Alive(j, k)
      BY OthersRun
    <3> QED
      BY <1>1, <1>3, <2>1, <3>1, <3>2, <3>3, <3>4 DEF NodeInv, PriorList
  <2>2. CASE pc'[n] # "sync"
    BY <1>1, <2>2 DEF PriorList
  <2> QED
    BY <2>1, <2>2
<1>7. Roster'
  BY <1>1, <1>3, QuietRoster DEF NoClusterYet, NoMemberYet, etcdVars
<1>8. OneCluster'
  BY <1>1, QuietEtcd DEF SerialInv
<1> QED
  BY <1>5, <1>6, <1>7, <1>8 DEF NodeInv

\* The pid file gets the pid of the one process of the node.
LEMMA WriteNode ==
  ASSUME LossySerial, SerialInv, NEW n \in Nodes, WritePidFile(n),
         Frame(n), \A j \in Nodes \ {n} : Settled(j)
  PROVE  NodeInv(n)' /\ Roster' /\ OneCluster'
<1>1. /\ UNCHANGED etcdVars /\ pc[n] = "write" /\ pc'[n] = "idle"
      /\ op' = op /\ starts' = starts /\ pidfile'[n] = starts[n] /\ prior'[n] = {}
      /\ op[n] = "start" /\ NodeInv(n)
  BY DEF WritePidFile, Exit, Goto, SerialInv, BaseInv, TypeOK, PidFileOfLastStart, StartPCs
<1>2. Up(n) /\ Named(n)
  BY <1>1 DEF NodeInv, OwnMember
<1>3. Up(n)' /\ Named(n)'
  BY <1>1, <1>2, QuietEtcd
<1>4. \A k \in Starts : Alive(n, k)' => k = starts[n] /\ proc'[n][k].st # "boot"
  BY <1>1, QuietEtcd DEF NodeInv, OwnProcess, etcdVars
<1>5. OwnProcess(n)' /\ OwnMember(n)' /\ OwnData(n)' /\ PriorList(n)'
  BY <1>1, <1>3, <1>4 DEF OwnProcess, OwnMember, OwnData, PriorList
<1>6. Roster'
  BY <1>1, QuietRoster DEF NoClusterYet, NoMemberYet, etcdVars
<1>7. OneCluster'
  BY <1>1, QuietEtcd DEF SerialInv
<1> QED
  BY <1>5, <1>6, <1>7 DEF NodeInv

\* A stop, and the failure branch of a start, on its way to the kill.
LEMMA LeavingNode ==
  ASSUME LossySerial, SerialInv, NEW n \in Nodes,
         CtlStop(n) \/ PriorClusterHadOtherNodes(n) \/ FindSelf(n) \/ RemoveSelf(n),
         Frame(n), \A j \in Nodes \ {n} : Settled(j)
  PROVE  NodeInv(n)' /\ Roster' /\ OneCluster'
<1>1. /\ pc[n] \in {"idle", "had", "rmList", "rm"}
      /\ pc'[n] \in {"had", "rmList", "rm", "wipe"}
      /\ starts' = starts /\ pidfile' = pidfile /\ prior' = prior
      /\ op'[n] = "stop" => pc[n] = "idle" \/ op[n] = "stop"
      /\ NodeInv(n)
  BY DEF CtlStop, PriorClusterHadOtherNodes, FindSelf, RemoveSelf, Goto, SerialInv,
         BaseInv, TypeOK
<1>2. proc' = proc
  BY DEF CtlStop, PriorClusterHadOtherNodes, FindSelf, RemoveSelf, RemovesMember, etcdVars
<1>3. OwnProcess(n)'
  BY <1>1, <1>2 DEF NodeInv, OwnProcess, Alive
<1>4. OwnMember(n)' /\ OwnData(n)'
  BY <1>1 DEF OwnMember, OwnData
<1>5. PriorList(n)'
  BY <1>1 DEF NodeInv, PriorList
<1>6. members' \subseteq members
  BY DEF CtlStop, PriorClusterHadOtherNodes, FindSelf, RemoveSelf, RemovesMember, etcdVars
<1>7. Roster'
  <2>1. IsFiniteSet(members') /\ UniqueMembers'
    BY <1>6, FS_Subset DEF SerialInv, Roster, UniqueMembers
  <2>2. \A j \in Nodes : ~NoClusterYet(j)' /\ ~NoMemberYet(j)'
    BY <1>1, SettledNode DEF Frame, NoClusterYet, NoMemberYet
  <2>3. FreshIds'
    BY <1>1, <1>6, <2>2 DEF SerialInv, Roster, FreshIds
  <2> QED
    BY <2>1, <2>3 DEF Roster
<1>8. OneCluster'
  BY <1>2, OneClusterKept DEF Running, SerialInv
<1> QED
  BY <1>3, <1>4, <1>5, <1>7, <1>8 DEF NodeInv

\* The data directory is emptied.
LEMMA WipedNode ==
  ASSUME LossySerial, SerialInv, NEW n \in Nodes, RemoveDataDir(n),
         Frame(n), \A j \in Nodes \ {n} : Settled(j)
  PROVE  NodeInv(n)' /\ Roster' /\ OneCluster'
<1>1. /\ pc[n] = "wipe" /\ pc'[n] = "kill" /\ data'[n] = NoIdent
      /\ op' = op /\ starts' = starts /\ pidfile' = pidfile /\ prior' = prior
      /\ members' = members /\ proc' = proc /\ NodeInv(n)
  BY DEF RemoveDataDir, LossySerial, Goto, SerialInv, BaseInv, TypeOK, EtcdTypeOK
<1>2. OwnProcess(n)'
  BY <1>1 DEF NodeInv, OwnProcess, Alive
<1>3. OwnMember(n)' /\ OwnData(n)'
  BY <1>1 DEF OwnMember, OwnData
<1>4. PriorList(n)'
  BY <1>1 DEF NodeInv, PriorList
<1>5. Roster'
  BY <1>1, QuietRoster DEF NoClusterYet, NoMemberYet
<1>6. OneCluster'
  BY <1>1, OneClusterKept DEF Running, SerialInv
<1> QED
  BY <1>2, <1>3, <1>4, <1>5, <1>6 DEF NodeInv

\* The kill reaches the one process of the node.
LEMMA KilledNode ==
  ASSUME LossySerial, SerialInv, NEW n \in Nodes, Kill(n),
         Frame(n), \A j \in Nodes \ {n} : Settled(j)
  PROVE  NodeInv(n)' /\ Roster' /\ OneCluster'
<1>1. /\ pc[n] = "kill" /\ pc'[n] = "idle" /\ prior'[n] = {}
      /\ op' = op /\ starts' = starts /\ members' = members /\ data' = data
      /\ NodeInv(n)
      /\ op[n] = "start" => pidfile[n] = NoPid
  BY DEF Kill, Exit, Goto, SerialInv, BaseInv, TypeOK, PidFileOfLastStart
<1>2. data[n] = NoIdent
  BY <1>1 DEF NodeInv, OwnData
<1>3. \A k \in Starts : Alive(n, k) => PidAlive(n) /\ k = pidfile[n]
  BY <1>1, FabAssumption DEF NodeInv, OwnProcess, PidAlive
<1>4. /\ \A k \in Starts : ~Alive(n, k)'
      /\ op'[n] = "start" => pidfile'[n] = NoPid
      /\ \A j \in Nodes, k \in Starts : Running(j, k)' =>
            Running(j, k) /\ proc'[j][k].ident = proc[j][k].ident
  <2>1. CASE PidAlive(n)
    <3>1. pidfile[n] \in Starts
      BY <2>1 DEF PidAlive, SerialInv, BaseInv, TypeOK
    <3>2. proc' = [proc EXCEPT ![n][pidfile[n]] = DeadProcess]
      BY <2>1 DEF Kill
    <3>3. proc \in [Nodes -> [Starts -> Process]]
      BY DEF SerialInv, BaseInv, TypeOK, EtcdTypeOK
    <3>4. proc'[n][pidfile[n]] = DeadProcess
      BY <3>1, <3>2, <3>3, ProcOthers
    <3>5. \A m \in Nodes, j \in Starts : <<m, j>> # <<n, pidfile[n]>> => proc'[m][j] = proc[m][j]
      BY <3>1, <3>2, <3>3, ProcOthers
    <3>6. \A k \in Starts : k # pidfile[n] => proc'[n][k] = proc[n][k] /\ ~Alive(n, k)
      BY <1>3, <3>5
    <3> QED
      BY <1>1, <2>1, <3>4, <3>5, <3>6, ProcessStates
         DEF Alive, Running, PidAlive
  <2>2. CASE ~PidAlive(n)
    BY <1>1, <1>3, <2>2 DEF Kill, Alive, Running
  <2> QED
    BY <2>1, <2>2
<1>5. OwnProcess(n)' /\ OwnMember(n)' /\ OwnData(n)' /\ PriorList(n)'
  BY <1>1, <1>2, <1>4 DEF OwnProcess, OwnMember, OwnData, PriorList
<1>6. Roster'
  BY <1>1, QuietRoster DEF NoClusterYet, NoMemberYet
<1>7. OneCluster'
  BY <1>4, OneClusterKept DEF SerialInv
<1> QED
  BY <1>5, <1>6, <1>7 DEF NodeInv

-----------------------------------------------------------------------------
(* The node that steps: joining                                            *)

\* A member that etcd accepts has a new id and a new URL, in a cluster of which
\* a majority runs on other nodes.
LEMMA AddedMember ==
  ASSUME SerialInv, NEW n \in Nodes, NEW c \in Responding, AddsMember(n, c),
         pc[n] = "add", starts' = starts,
         pc'[n] = "idle" \/ (pc'[n] = "spawn" /\ prior'[n] = prior[n]),
         Frame(n), \A j \in Nodes \ {n} : Settled(j)
  PROVE  Roster' /\ OneCluster' /\ Responding' \subseteq Responding /\ OthersHaveQuorum(n, c)'
<1> DEFINE added == [cluster |-> c, id |-> <<n, starts[n]>>, url |-> n, name |-> NoNode]
<1>1. added.cluster = c /\ added.id = <<n, starts[n]>> /\ added.url = n
  OBVIOUS
<1>2. members' = members \cup {added} /\ proc' = proc
  BY DEF AddsMember
<1> HIDE DEF added
<1>3. \A x \in members : x.cluster = c => x.url # n
  BY DEF AddsMember, IsPart, MembersOf
<1>4. PICK m \in members : m.cluster = c
  <2>1. PICK j \in Nodes : Up(j) /\ IdentOf(j).cluster = c
    BY RespondingUp
  <2>2. j # n
    BY <2>1, NothingYet
  <2> QED
    BY <2>1, <2>2, SettledUp DEF RunsAs
<1>5. Roster'
  <2>1. NoClusterYet(n) /\ NoMemberYet(n)
    BY DEF NoClusterYet, NoMemberYet
  <2>2. c # <<n, starts[n]>> /\ c[2] <= starts[c[1]]
    BY <1>4, <2>1 DEF SerialInv, Roster, FreshIds
  <2>3. \A x \in members : x.id # added.id
    BY <1>1, <2>1 DEF SerialInv, Roster, FreshIds
  <2>4. IsFiniteSet(members')
    BY <1>2, FS_AddElement DEF SerialInv, Roster
  <2>5. UniqueMembers'
    BY <1>1, <1>2, <1>3, <2>3 DEF SerialInv, Roster, UniqueMembers
  <2>6. added.id[2] <= starts[added.url] /\ added.cluster[2] <= starts[added.cluster[1]]
    BY <1>1, <2>2, ConstantsAssumption DEF SerialInv, BaseInv, TypeOK
  <2>7. \A j \in Nodes \ {n} : ~NoClusterYet(j)' /\ ~NoMemberYet(j)'
    BY SettledNode DEF Frame, NoClusterYet, NoMemberYet
  <2>8. prior[n] # {}
    BY DEF SerialInv, NodeInv, PriorList
  <2>9. ~NoMemberYet(n)'
    BY <2>8 DEF NoMemberYet, NoClusterYet
  <2>10. FreshIds'
    BY <1>1, <1>2, <2>1, <2>2, <2>6, <2>7, <2>9 DEF SerialInv, Roster, FreshIds
  <2> QED
    BY <2>4, <2>5, <2>10 DEF Roster
<1>6. OneCluster' /\ Responding' \subseteq Responding
  BY <1>2, OneClusterKept DEF Running, SerialInv
<1>7. OthersHaveQuorum(n, c)
  <2>1. Others(n, c) = MembersOf(c)
    BY <1>3 DEF Others, MembersOf
  <2> QED
    BY <2>1 DEF OthersHaveQuorum, AddsMember, HasQuorum
<1>8. OthersHaveQuorum(n, c)'
  BY <1>7, OthersQuorum DEF SerialInv
<1> QED
  BY <1>5, <1>6, <1>8

\* After MemberAdd the others still have their quorum.
LEMMA AddNode ==
  ASSUME LossySerial, SerialInv, NEW n \in Nodes, AddSelf(n),
         Frame(n), \A j \in Nodes \ {n} : Settled(j)
  PROVE  NodeInv(n)' /\ Roster' /\ OneCluster'
<1>1. PICK c \in Responding : AddsMember(n, c)
  BY DEF AddSelf
<1>2. /\ pc[n] = "add" /\ pc'[n] = "spawn"
      /\ op' = op /\ starts' = starts /\ pidfile' = pidfile /\ prior' = prior
      /\ data' = data /\ proc' = proc /\ NodeInv(n)
  BY <1>1 DEF AddSelf, AddsMember, Goto, SerialInv, BaseInv, TypeOK
<1>3. /\ op[n] = "start" /\ ~Up(n) /\ data[n] = NoIdent
      /\ \A k \in Starts : ~Alive(n, k)
  BY <1>2, NothingYet
<1>4. ~Up(n)' /\ data'[n] = NoIdent /\ \A k \in Starts : ~Alive(n, k)'
  BY <1>2, <1>3 DEF Up, Running, Alive
<1>5. Roster' /\ OneCluster' /\ Responding' \subseteq Responding /\ OthersHaveQuorum(n, c)'
  BY <1>1, <1>2, AddedMember
<1>6. OwnProcess(n)' /\ OwnMember(n)' /\ OwnData(n)'
  BY <1>2, <1>4 DEF OwnProcess, OwnMember, OwnData
<1>7. PriorList(n)'
  <2>1. prior[n] # {} /\ ~IsPart(n, prior[n])
    BY <1>2 DEF NodeInv, PriorList
  <2>2. \A x \in prior[n] :
           /\ x.url # n
           /\ \E j \in Nodes \ {n} : Up(j) /\ IdentOf(j).cluster = x.cluster
    BY <1>2, <1>3, <2>1 DEF NodeInv, PriorList, IsPart
  <2>3. \A x \in prior[n] : \E j \in Nodes \ {n} : Up(j)' /\ IdentOf(j)'.cluster = x.cluster
    BY <2>2, OthersRun
  <2>4. \A m \in members' :
           m.url = n /\ m.cluster \in Responding' => OthersHaveQuorum(n, m.cluster)'
    BY <1>5 DEF SerialInv, OneCluster
  <2> QED
    BY <1>2, <1>3, <2>1, <2>2, <2>3, <2>4 DEF PriorList
<1> QED
  BY <1>5, <1>6, <1>7 DEF NodeInv

\* A start that fails at MemberAdd, whether or not it was added, has nothing.
LEMMA NotAddedNode ==
  ASSUME LossySerial, SerialInv, NEW n \in Nodes, AddSelfFails(n),
         Frame(n), \A j \in Nodes \ {n} : Settled(j)
  PROVE  NodeInv(n)' /\ Roster' /\ OneCluster'
<1>1. /\ pc[n] = "add" /\ pc'[n] = "idle" /\ prior'[n] = {}
      /\ op' = op /\ starts' = starts /\ pidfile' = pidfile
      /\ data' = data /\ proc' = proc
  BY DEF AddSelfFails, AddsMember, Exit, Goto, SerialInv, BaseInv, TypeOK, etcdVars
<1>2. /\ op[n] = "start" /\ data[n] = NoIdent /\ pidfile[n] = NoPid
      /\ \A k \in Starts : ~Alive(n, k)
  BY <1>1, NothingYet
<1>3. \A k \in Starts : ~Alive(n, k)'
  BY <1>1, <1>2 DEF Alive
<1>4. OwnProcess(n)' /\ OwnMember(n)' /\ OwnData(n)' /\ PriorList(n)'
  BY <1>1, <1>2, <1>3 DEF OwnProcess, OwnMember, OwnData, PriorList
<1>5. CASE UNCHANGED etcdVars
  <2>1. Roster'
    BY <1>1, <1>5, QuietRoster DEF NoClusterYet, NoMemberYet, etcdVars
  <2> QED
    BY <1>4, <1>5, <2>1, QuietEtcd DEF NodeInv, SerialInv
<1>6. ASSUME NEW c \in Responding, AddsMember(n, c)
      PROVE  Roster' /\ OneCluster'
  BY <1>1, <1>6, AddedMember
<1> QED
  BY <1>4, <1>5, <1>6 DEF NodeInv, AddSelfFails

\* The first and only process of the node is spawned with its flags.
LEMMA SpawnNode ==
  ASSUME LossySerial, SerialInv, NEW n \in Nodes, Spawn(n),
         Frame(n), \A j \in Nodes \ {n} : Settled(j)
  PROVE  NodeInv(n)' /\ Roster' /\ OneCluster'
<1>1. /\ pc[n] = "spawn" /\ pc'[n] = "sync"
      /\ op' = op /\ starts' = starts /\ pidfile' = pidfile /\ prior' = prior
      /\ data' = data /\ members' = members /\ NodeInv(n)
      /\ proc' = [proc EXCEPT ![n][starts[n]] = Booting(InitialState(n), InitialMembers(n))]
      /\ proc \in [Nodes -> [Starts -> Process]]
  BY DEF Spawn, Goto, SerialInv, BaseInv, TypeOK, EtcdTypeOK
<1>2. /\ op[n] = "start" /\ ~Up(n) /\ data[n] = NoIdent /\ starts[n] \in Starts
      /\ \A k \in Starts : ~Alive(n, k)
  BY <1>1, NothingYet
<1> DEFINE boot == Booting(InitialState(n), InitialMembers(n))
<1>3. boot.st = "boot" /\ boot.state = InitialState(n) /\ boot.init = InitialMembers(n)
  BY DEF Booting
<1>4. /\ proc'[n][starts[n]] = boot
      /\ \A m \in Nodes, j \in Starts : <<m, j>> # <<n, starts[n]>> => proc'[m][j] = proc[m][j]
  BY <1>1, <1>2, ProcOthers
<1> HIDE DEF boot
<1>5. /\ ~Up(n)'
      /\ \A k \in Starts : Alive(n, k)' => k = starts[n]
      /\ \A j \in Nodes, k \in Starts : Running(j, k)' =>
            Running(j, k) /\ proc'[j][k].ident = proc[j][k].ident
  BY <1>1, <1>2, <1>3, <1>4 DEF Up, Alive, Running
<1>6. InitialState(n)' = InitialState(n) /\ InitialMembers(n)' = InitialMembers(n)
  BY <1>1 DEF InitialState, InitialMembers
<1>7. OwnProcess(n)'
  BY <1>1, <1>3, <1>4, <1>5, <1>6 DEF OwnProcess
<1>8. OwnMember(n)' /\ OwnData(n)'
  BY <1>1, <1>2, <1>5 DEF OwnMember, OwnData
<1>9. OneCluster' /\ Responding' \subseteq Responding
  BY <1>5, OneClusterKept DEF SerialInv
<1>10. PriorList(n)'
  <2>1. \A j \in Nodes \ {n} : (Up(j)' <=> Up(j)) /\ IdentOf(j)' = IdentOf(j)
    BY OthersRun
  <2>2. \A c : OthersHaveQuorum(n, c)' <=> OthersHaveQuorum(n, c)
    BY OthersQuorum DEF SerialInv
  <2>3. \A j \in Nodes \ {n}, k \in Starts : Alive(j, k)' <=> Alive(j, k)
    BY OthersRun
  <2> QED
    BY <1>1, <1>2, <1>9, <2>1, <2>2, <2>3 DEF NodeInv, PriorList
<1>11. Roster'
  BY <1>1, QuietRoster DEF NoClusterYet, NoMemberYet
<1> QED
  BY <1>7, <1>8, <1>9, <1>10, <1>11 DEF NodeInv

-----------------------------------------------------------------------------
(* The node that steps: its etcd process                                   *)

\* A process boots while its etcdfab waits for it, with nothing on its disk.
LEMMA BootingNode ==
  ASSUME SerialInv, NEW n \in Nodes, NEW k \in Starts, proc[n][k].st = "boot"
  PROVE  /\ k = starts[n] /\ pc[n] = "sync" /\ op[n] = "start"
         /\ ~Up(n) /\ data[n] = NoIdent
         /\ ~PortTaken(n, k)
         /\ proc[n][k].state = InitialState(n) /\ proc[n][k].init = InitialMembers(n)
<1>1. NodeInv(n) /\ Alive(n, k)
  BY DEF SerialInv, Alive
<1>2. k = starts[n] /\ pc[n] = "sync"
  BY <1>1 DEF NodeInv, OwnProcess
<1>3. ~Up(n)
  BY <1>2 DEF Up, Running
<1>4. ~PortTaken(n, k)
  BY <1>1, <1>2 DEF PortTaken, NodeInv, OwnProcess, Alive, Running
<1> QED
  BY <1>1, <1>2, <1>3, <1>4
     DEF NodeInv, OwnProcess, OwnData, SerialInv, BaseInv, PidFileOfLastStart, StartPCs

\* A process that begins to run is the only one of its node.
LEMMA BootedNode ==
  ASSUME SerialInv, NEW n \in Nodes, NEW k \in Starts, proc[n][k].st = "boot",
         NEW ident, proc' = [proc EXCEPT ![n][k] = RunningAs(ident)],
         UNCHANGED fabVars
  PROVE  /\ Up(n)' /\ IdentOf(n)' = ident
         /\ OwnProcess(n)'
         /\ OwnData(n)'
         /\ \A j \in Nodes, i \in Starts : <<j, i>> # <<n, k>> => proc'[j][i] = proc[j][i]
         /\ Responding' \subseteq Responding \cup {ident.cluster}
<1>1. k = starts[n] /\ starts' = starts /\ pc' = pc /\ pc[n] = "sync" /\ pidfile' = pidfile
  BY BootingNode DEF fabVars
<1>2. /\ proc'[n][k] = RunningAs(ident)
      /\ \A j \in Nodes, i \in Starts : <<j, i>> # <<n, k>> => proc'[j][i] = proc[j][i]
  BY ProcOthers DEF SerialInv, BaseInv, TypeOK, EtcdTypeOK
<1>3. Up(n)' /\ IdentOf(n)' = ident
  BY <1>1, <1>2, ProcessStates DEF Up, IdentOf, Running
<1>4. OwnProcess(n)'
  <2>1. \A i \in Starts : Alive(n, i)' => i = k /\ proc'[n][i].st # "boot"
    BY <1>1, <1>2, ProcessStates DEF SerialInv, NodeInv, OwnProcess, Alive
  <2> QED
    BY <1>1, <2>1 DEF OwnProcess
<1>5. OwnData(n)'
  BY <1>1, <1>3 DEF OwnData
<1>6. Responding' \subseteq Responding \cup {ident.cluster}
  <2>1. ASSUME NEW i \in Id, Running(i[1], i[2])'
        PROVE  proc'[i[1]][i[2]].ident.cluster \in Responding \cup {ident.cluster}
    <3>1. i[1] \in Nodes /\ i[2] \in Starts
      BY DEF Id
    <3>2. CASE i[1] = n /\ i[2] = k
      BY <1>2, <3>2, ProcessStates
    <3>3. CASE ~(i[1] = n /\ i[2] = k)
      <4>1. proc'[i[1]][i[2]] = proc[i[1]][i[2]]
        BY <1>2, <3>1, <3>3
      <4> QED
        BY <2>1, <4>1 DEF Responding, Running
    <3> QED
      BY <3>2, <3>3
  <2> QED
    BY <2>1 DEF Responding
<1> QED
  BY <1>2, <1>3, <1>4, <1>5, <1>6

\* A new cluster is made by a node that is alone.
LEMMA BootNewNode ==
  ASSUME LossySerial, SerialInv, NEW n \in Nodes, NEW k \in Starts, BootNew(n, k),
         UNCHANGED fabVars, Frame(n), \A j \in Nodes \ {n} : Settled(j)
  PROVE  NodeInv(n)' /\ Roster' /\ OneCluster'
<1> DEFINE own == [cluster |-> <<n, k>>, id |-> <<n, k>>, url |-> n, name |-> n]
           ident == [cluster |-> <<n, k>>, id |-> <<n, k>>]
<1>1. /\ own.cluster = <<n, k>> /\ own.id = <<n, k>> /\ own.url = n /\ own.name = n
      /\ ident.cluster = <<n, k>> /\ ident.id = <<n, k>>
  OBVIOUS
<1>2. /\ members' = members \cup {own}
      /\ proc' = [proc EXCEPT ![n][k] = RunningAs(ident)]
      /\ proc[n][k].st = "boot" /\ proc[n][k].state = "new"
  BY DEF BootNew
<1> HIDE DEF own, ident
<1>3. /\ k = starts[n] /\ pc[n] = "sync" /\ op[n] = "start" /\ ~Up(n)
      /\ InitialState(n) = "new"
  BY <1>2, BootingNode
<1>4. /\ pc' = pc /\ op' = op /\ starts' = starts /\ prior' = prior /\ pidfile' = pidfile
  BY DEF fabVars
<1>5. prior[n] = {}
  BY <1>3 DEF InitialState
<1>6. \A j \in Nodes \ {n}, i \in Starts : ~Alive(j, i)
  BY <1>3, <1>5 DEF SerialInv, NodeInv, PriorList
<1>7. /\ Up(n)' /\ IdentOf(n)' = ident /\ OwnProcess(n)' /\ OwnData(n)'
      /\ Responding' \subseteq Responding \cup {ident.cluster}
  BY <1>2, BootedNode
<1>8. Named(n)'
  <2>1. RunsAs(n, own)'
    BY <1>1, <1>7 DEF RunsAs
  <2> QED
    BY <1>1, <1>2, <2>1, ConstantsAssumption DEF Named
<1>9. OwnMember(n)'
  BY <1>3, <1>4, <1>7, <1>8 DEF OwnMember
<1>10. PriorList(n)'
  BY <1>3, <1>4, <1>5, <1>6, <1>7, OthersRun DEF PriorList
<1>11. OneCluster'
  <2>1. Responding = {}
    BY <1>3, <1>6, RespondingUp DEF Up, Alive, Running
  <2> QED
    BY <1>7, <2>1 DEF OneCluster
<1>12. Roster'
  <2>1. NoClusterYet(n) /\ NoMemberYet(n)
    BY <1>3, <1>5 DEF NoClusterYet, NoMemberYet
  <2>2. \A x \in members : x.id # own.id /\ x.cluster # own.cluster
    BY <1>1, <1>3, <2>1 DEF SerialInv, Roster, FreshIds
  <2>3. IsFiniteSet(members')
    BY <1>2, FS_AddElement DEF SerialInv, Roster
  <2>4. UniqueMembers'
    BY <1>2, <2>2 DEF SerialInv, Roster, UniqueMembers
  <2>5. \A j \in Nodes : ~NoClusterYet(j)' /\ ~NoMemberYet(j)'
    BY <1>3, <1>4, <1>7, SettledNode DEF NoClusterYet, NoMemberYet
  <2>6. own.id[2] <= starts[own.url] /\ own.cluster[2] <= starts[own.cluster[1]]
    BY <1>1, <1>3 DEF Starts
  <2>7. FreshIds'
    BY <1>2, <1>4, <2>5, <2>6 DEF SerialInv, Roster, FreshIds
  <2> QED
    BY <2>3, <2>4, <2>7 DEF Roster
<1> QED
  BY <1>7, <1>9, <1>10, <1>11, <1>12 DEF NodeInv

\* One more running member: a majority of the others and this one is a majority.
LEMMA QuorumJoined ==
  ASSUME SerialInv, NEW n \in Nodes, Frame(n), NEW m \in members', m.url = n,
         m \in members, Serves(m)', members' = members,
         OthersHaveQuorum(n, m.cluster)
  PROVE  HasQuorum(m.cluster)'
<1> DEFINE c == m.cluster
           O == Others(n, c)
           S == {x \in O : Serves(x)'}
<1>1. Others(n, c)' = O /\ OthersHaveQuorum(n, c)'
  BY OthersQuorum DEF SerialInv
<1>2. MembersOf(c)' = O \cup {m} /\ m \notin O
  BY DEF SerialInv, Roster, UniqueMembers, Others, MembersOf
<1>3. {x \in MembersOf(c)' : Serves(x)'} = S \cup {m} /\ m \notin S
  BY <1>2
<1>4. IsFiniteSet(O) /\ IsFiniteSet(S)
  <2>1. O \subseteq members /\ S \subseteq members
    BY DEF Others, MembersOf
  <2> QED
    BY <2>1, FS_Subset DEF SerialInv, Roster
<1>5. /\ Cardinality(O) \in Nat /\ Cardinality(S) \in Nat
      /\ Cardinality(O \cup {m}) = Cardinality(O) + 1
      /\ Cardinality(S \cup {m}) = Cardinality(S) + 1
  BY <1>2, <1>3, <1>4, FS_AddElement, FS_CardinalityType
<1>6. 2 * Cardinality(S) > Cardinality(O)
  BY <1>1 DEF OthersHaveQuorum
<1>7. 2 * Cardinality({x \in MembersOf(c)' : Serves(x)'}) > Cardinality(MembersOf(c)')
  BY <1>2, <1>3, <1>5, <1>6
<1> QED
  BY <1>7 DEF HasQuorum

\* A process that joins runs as a member of the cluster that answers: the one
\* it has been, or a new one that completes a majority.
LEMMA BootExistingNode ==
  ASSUME LossySerial, SerialInv, NEW n \in Nodes, NEW k \in Starts, BootExisting(n, k),
         UNCHANGED fabVars, Frame(n), \A j \in Nodes \ {n} : Settled(j)
  PROVE  NodeInv(n)' /\ Roster' /\ OneCluster'
<1>1. PICK m \in members :
        /\ m.url = n
        /\ Joinable(n, k, m.cluster)
        /\ proc' = [proc EXCEPT ![n][k] = RunningAs([cluster |-> m.cluster, id |-> m.id])]
  BY DEF BootExisting
<1> DEFINE ident == [cluster |-> m.cluster, id |-> m.id]
<1>2. ident.cluster = m.cluster /\ ident.id = m.id
  OBVIOUS
<1>3. /\ members' = members /\ proc[n][k].st = "boot" /\ proc[n][k].state = "existing"
      /\ proc' = [proc EXCEPT ![n][k] = RunningAs(ident)]
  BY <1>1 DEF BootExisting
<1> HIDE DEF ident
<1>4. /\ k = starts[n] /\ pc[n] = "sync" /\ op[n] = "start" /\ ~Up(n)
      /\ InitialState(n) = "existing" /\ proc[n][k].init = InitialMembers(n)
  BY <1>3, BootingNode
<1>5. pc' = pc /\ op' = op /\ starts' = starts /\ prior' = prior /\ pidfile' = pidfile
  BY DEF fabVars
<1>6. prior[n] # {}
  BY <1>4 DEF InitialState
<1>7. /\ Up(n)' /\ IdentOf(n)' = ident /\ OwnProcess(n)' /\ OwnData(n)'
      /\ Responding' \subseteq Responding \cup {ident.cluster}
  BY <1>3, BootedNode
<1>8. m.cluster \in Responding
  <2>1. PICK e \in proc[n][k].init, j \in Starts :
           Running(e.url, j) /\ proc[e.url][j].ident.cluster = m.cluster
    BY <1>1 DEF Joinable
  <2>2. e.url \in Nodes
    BY <1>4, <2>1, InitialMembersType DEF SerialInv, BaseInv, Entry
  <2>3. <<e.url, j>> \in Id
    BY <2>2 DEF Id
  <2> QED
    BY <2>1, <2>3 DEF Responding
<1>9. OneCluster'
  BY <1>2, <1>7, <1>8 DEF SerialInv, OneCluster
<1>10. RunsAs(n, m)'
  BY <1>2, <1>7 DEF RunsAs
<1>11. Named(n)' \/ HasQuorum(IdentOf(n).cluster)'
  <2>1. CASE IsPart(n, prior[n])
    <3>1. [name |-> n, url |-> n] \in {[name |-> x.name, url |-> x.url] : x \in prior[n]}
      BY <1>1, <1>4, <2>1 DEF Joinable, InitialMembers
    <3>2. PICK x \in prior[n] : x.name = n /\ x.url = n
      BY <3>1
    <3>3. x \in members /\ \E j \in Nodes \ {n} : Up(j) /\ IdentOf(j).cluster = x.cluster
      BY <1>4, <3>2 DEF SerialInv, NodeInv, PriorList
    <3>4. x.cluster = m.cluster
      BY <1>8, <3>3, RespondingUp DEF SerialInv, OneCluster
    <3>5. x = m
      BY <1>1, <3>2, <3>3, <3>4 DEF SerialInv, Roster, UniqueMembers
    <3> QED
      BY <1>3, <1>10, <3>2, <3>5, ConstantsAssumption DEF Named
  <2>2. CASE ~IsPart(n, prior[n])
    <3>1. OthersHaveQuorum(n, m.cluster)
      BY <1>1, <1>4, <1>6, <1>8, <2>2 DEF SerialInv, NodeInv, PriorList
    <3>2. Running(n, k)' /\ proc'[n][k].ident.id = m.id
      BY <1>2, <1>4, <1>5, <1>7 DEF Up, IdentOf
    <3>3. Serves(m)'
      BY <1>1, <3>2 DEF Serves
    <3>4. HasQuorum(m.cluster)'
      BY <1>1, <1>3, <3>1, <3>3, QuorumJoined
    <3> QED
      BY <1>2, <1>7, <3>4
  <2> QED
    BY <2>1, <2>2
<1>12. OwnMember(n)'
  BY <1>3, <1>4, <1>5, <1>10, <1>11 DEF OwnMember
<1>13. PriorList(n)'
  BY <1>4, <1>5, <1>6, <1>7 DEF PriorList
<1>14. Roster'
  BY <1>3, <1>4, <1>5, <1>7, QuietRoster DEF NoClusterYet, NoMemberYet
<1> QED
  BY <1>7, <1>9, <1>12, <1>13, <1>14 DEF NodeInv

\* A process that ends leaves its node with none.
LEMMA EndedNode ==
  ASSUME SerialInv, NEW n \in Nodes, NEW k \in Starts, Alive(n, k),
         proc' = [proc EXCEPT ![n][k] = DeadProcess], UNCHANGED <<members, data, fabVars>>,
         Frame(n), \A j \in Nodes \ {n} : Settled(j),
         proc[n][k].st = "boot" \/ pc[n] \in {"had", "rmList", "rm", "wipe", "kill"}
  PROVE  NodeInv(n)' /\ Roster' /\ OneCluster'
<1>1. pc' = pc /\ op' = op /\ starts' = starts /\ prior' = prior /\ pidfile' = pidfile
  BY DEF fabVars
<1>2. k = starts[n] /\ NodeInv(n)
  BY DEF SerialInv, NodeInv, OwnProcess
<1>3. /\ proc'[n][k] = DeadProcess
      /\ \A j \in Nodes, i \in Starts : <<j, i>> # <<n, k>> => proc'[j][i] = proc[j][i]
  BY ProcOthers DEF SerialInv, BaseInv, TypeOK, EtcdTypeOK
<1>4. /\ \A i \in Starts : ~Alive(n, i)'
      /\ \A j \in Nodes, i \in Starts : Running(j, i)' =>
            Running(j, i) /\ proc'[j][i].ident = proc[j][i].ident
  BY <1>2, <1>3, ProcessStates DEF NodeInv, OwnProcess, Alive, Running
<1>5. ~Up(n)'
  BY <1>4 DEF Up, Alive, Running
<1>6. OneCluster' /\ Responding' \subseteq Responding
  BY <1>4, OneClusterKept DEF SerialInv
<1>7. proc[n][k].st = "boot" => pc[n] = "sync" /\ ~Up(n) /\ data[n] = NoIdent /\ op[n] = "start"
  BY BootingNode
<1>8. OwnProcess(n)' /\ OwnMember(n)'
  BY <1>1, <1>4, <1>5, <1>7 DEF OwnProcess, OwnMember
<1>9. OwnData(n)'
  BY <1>1, <1>2, <1>7 DEF NodeInv, OwnData
<1>10. PriorList(n)'
  <2>1. \A j \in Nodes \ {n} : (Up(j)' <=> Up(j)) /\ IdentOf(j)' = IdentOf(j)
    BY OthersRun
  <2>2. \A c : OthersHaveQuorum(n, c)' <=> OthersHaveQuorum(n, c)
    BY OthersQuorum DEF SerialInv
  <2>3. \A j \in Nodes \ {n}, i \in Starts : Alive(j, i)' <=> Alive(j, i)
    BY OthersRun
  <2> QED
    BY <1>1, <1>2, <1>6, <1>7, <2>1, <2>2, <2>3 DEF NodeInv, PriorList
<1>11. Roster'
  BY <1>1, <1>7, QuietRoster DEF NoClusterYet, NoMemberYet
<1> QED
  BY <1>6, <1>8, <1>9, <1>10, <1>11 DEF NodeInv

\* Where the process of a node that is, or waits to be, a named member stands.
LEMMA RunningWhere ==
  ASSUME SerialInv, NEW n \in Nodes, NEW k \in Starts, Running(n, k)
  PROVE  /\ k = starts[n] /\ Up(n)
         /\ \/ pc[n] \in {"had", "rmList", "rm", "wipe", "kill"}
            \/ pc[n] = "sync" /\ \E m \in members : RunsAs(n, m)
            \/ pc[n] \in {"write", "idle"} /\ Named(n)
<1>1. NodeInv(n) /\ Alive(n, k) /\ TypeOK /\ PidFileOfLastStart
  BY DEF SerialInv, BaseInv, Alive, Running
<1>2. k = starts[n] /\ Up(n)
  BY <1>1 DEF NodeInv, OwnProcess, Up
<1>3. pc[n] \notin {"list", "add", "spawn"}
  BY <1>1, NothingYet
<1>4. ASSUME pc[n] = "idle" PROVE Named(n)
  <2>1. pidfile[n] # NoPid
    BY <1>1, <1>4, FabAssumption DEF NodeInv, OwnProcess
  <2>2. op[n] = "start"
    BY <1>1, <1>4 DEF NodeInv, OwnMember, TypeOK
  <2> QED
    BY <1>1, <1>4, <2>1, <2>2 DEF NodeInv, OwnMember
<1>5. pc[n] = "write" => Named(n)
  BY <1>1 DEF NodeInv, OwnMember, PidFileOfLastStart, StartPCs
<1>6. pc[n] = "sync" => \E m \in members : RunsAs(n, m)
  BY <1>1, <1>2 DEF NodeInv, OwnMember, Named
<1>7. pc[n] \in PCs
  BY <1>1 DEF TypeOK
<1> QED
  BY <1>2, <1>3, <1>4, <1>5, <1>6, <1>7 DEF PCs, StartPCs

\* A name that is published is that of the member the process runs as.
LEMMA PublishNode ==
  ASSUME LossySerial, SerialInv, NEW n \in Nodes, NEW k \in Starts, Publish(n, k),
         UNCHANGED fabVars, Frame(n), \A j \in Nodes \ {n} : Settled(j)
  PROVE  NodeInv(n)' /\ Roster' /\ OneCluster'
<1>1. PICK m \in members :
        /\ m.id = proc[n][k].ident.id /\ m.name = NoNode
        /\ members' = (members \ {m}) \cup {[m EXCEPT !.name = n]}
  BY DEF Publish
<1> DEFINE named == [m EXCEPT !.name = n]
<1>2. /\ named.id = m.id /\ named.cluster = m.cluster /\ named.url = m.url /\ named.name = n
      /\ members' = (members \ {m}) \cup {named}
  BY <1>1 DEF SerialInv, BaseInv, TypeOK, EtcdTypeOK, Member
<1> HIDE DEF named
<1>3. /\ pc' = pc /\ op' = op /\ starts' = starts /\ prior' = prior /\ pidfile' = pidfile
      /\ proc' = proc /\ data' = data /\ NodeInv(n)
  BY DEF Publish, fabVars, SerialInv
<1>4. k = starts[n] /\ Up(n) /\ m.id = IdentOf(n).id
  BY <1>1, RunningWhere DEF Publish, IdentOf
<1>5. ~Named(n)
  BY <1>1, <1>4 DEF Named, RunsAs, SerialInv, Roster, UniqueMembers
<1>6. \/ pc[n] \in {"had", "rmList", "rm", "wipe", "kill"}
      \/ pc[n] = "sync" /\ RunsAs(n, m)
  BY <1>4, <1>5, RunningWhere DEF Publish, RunsAs, SerialInv, Roster, UniqueMembers
<1>7. Up(n)' /\ IdentOf(n)' = IdentOf(n)
  BY <1>3, <1>4 DEF Up, Running, IdentOf
<1>8. OwnProcess(n)' /\ OwnData(n)'
  <2>1. InitialState(n)' = InitialState(n) /\ InitialMembers(n)' = InitialMembers(n)
    BY <1>3 DEF InitialState, InitialMembers
  <2> QED
    BY <1>3, <1>4, <1>7, <2>1 DEF NodeInv, OwnProcess, OwnData, Alive
<1>9. OwnMember(n)'
  <2>1. pc[n] = "sync" => Named(n)'
    BY <1>2, <1>6, <1>7, ConstantsAssumption DEF Named, RunsAs
  <2> QED
    BY <1>3, <1>6, <2>1 DEF OwnMember
<1>10. PriorList(n)'
  <2>1. \A j \in Nodes \ {n}, i \in Starts : Alive(j, i)' <=> Alive(j, i)
    BY OthersRun
  <2> QED
    BY <1>3, <1>6, <1>7, <2>1 DEF NodeInv, PriorList
<1>11. OneCluster'
  BY <1>3, OneClusterKept DEF Running, SerialInv
<1>12. Roster'
  <2>1. IsFiniteSet(members \ {m})
    BY FS_Subset DEF SerialInv, Roster
  <2>2. IsFiniteSet(members')
    BY <1>2, <2>1, FS_AddElement
  <2>3. UniqueMembers'
    BY <1>2 DEF SerialInv, Roster, UniqueMembers
  <2>4. \A j \in Nodes : ~NoClusterYet(j)' /\ ~NoMemberYet(j)'
    BY <1>3, <1>6, <1>7, SettledNode DEF NoClusterYet, NoMemberYet
  <2>5. FreshIds'
    BY <1>2, <1>3, <2>4 DEF SerialInv, Roster, FreshIds
  <2> QED
    BY <2>2, <2>3, <2>5 DEF Roster
<1> QED
  BY <1>8, <1>9, <1>10, <1>11, <1>12 DEF NodeInv

\* All that etcd does on the node.
LEMMA EtcdNode ==
  ASSUME LossySerial, SerialInv, NEW n \in Nodes, NEW k \in Starts, EtcdStep(n, k),
         UNCHANGED fabVars, Frame(n), \A j \in Nodes \ {n} : Settled(j)
  PROVE  NodeInv(n)' /\ Roster' /\ OneCluster'
<1>1. ~BootPortTaken(n, k) /\ ~BootFromDisk(n, k)
  BY BootingNode DEF BootPortTaken, BootFromDisk
<1>2. CASE BootRejected(n, k)
  BY <1>2, EndedNode DEF BootRejected, Alive
<1>3. CASE StopRemoved(n, k)
  <2>1. pc[n] \in {"had", "rmList", "rm", "wipe", "kill"}
    <3>1. ~\E m \in members : RunsAs(n, m)
      BY <1>3, RunningWhere DEF StopRemoved, RunsAs, IdentOf
    <3>2. ~Named(n)
      BY <3>1 DEF Named
    <3> QED
      BY <1>3, <3>1, <3>2, RunningWhere DEF StopRemoved
  <2>2. Alive(n, k)
    BY <1>3 DEF StopRemoved, Running, Alive
  <2> QED
    BY <1>3, <2>1, <2>2, EndedNode DEF StopRemoved
<1> QED
  BY <1>1, <1>2, <1>3, BootNewNode, BootExistingNode, PublishNode DEF EtcdStep

-----------------------------------------------------------------------------
\* The initial state satisfies the invariant.
LEMMA SerialInit ==
  ASSUME Init
  PROVE  SerialInv
<1>1. BaseInv
  BY InitInv DEF BaseInv
<1>2. /\ pc = [n \in Nodes |-> "idle"] /\ op = [n \in Nodes |-> "stop"]
      /\ prior = [n \in Nodes |-> {}] /\ pidfile = [n \in Nodes |-> NoPid]
      /\ members = {} /\ data = [n \in Nodes |-> NoIdent]
      /\ \A n \in Nodes, k \in Starts : ~Alive(n, k) /\ ~Running(n, k)
  BY ProcessStates DEF Init, EtcdInit, Alive, Running
<1>3. OneAtATime
  BY <1>2 DEF OneAtATime, Settled
<1>4. ASSUME NEW n \in Nodes PROVE NodeInv(n)
  BY <1>2 DEF NodeInv, OwnProcess, OwnMember, OwnData, PriorList
<1>5. Roster
  BY <1>2, FS_EmptySet DEF Roster, UniqueMembers, FreshIds
<1>6. OneCluster
  BY <1>2 DEF OneCluster, Responding, Id
<1> QED
  BY <1>1, <1>3, <1>4, <1>5, <1>6 DEF SerialInv

\* Every step keeps the invariant.
LEMMA SerialNext ==
  ASSUME LossySerial, SerialInv, [Next]_vars
  PROVE  SerialInv'
<1>1. BaseInv'
  BY TypeNext, PidFileNext, IdentitiesNext DEF SerialInv, BaseInv
<1>2. CASE UNCHANGED vars
  <2>1. UNCHANGED <<members, data, proc, pc, op, starts, tries, prior, target, pidfile>>
    BY <1>2 DEF vars, etcdVars, fabVars
  <2> USE <2>1
  <2>2. OneAtATime'
    BY DEF SerialInv, OneAtATime, Settled, PidAlive, Alive
  <2>3. ASSUME NEW n \in Nodes PROVE NodeInv(n)'
    <3>1. NodeInv(n)
      BY DEF SerialInv
    <3>2. OwnProcess(n)'
      BY <3>1 DEF NodeInv, OwnProcess, Alive, InitialState, InitialMembers
    <3>3. /\ Up(n)' <=> Up(n)
          /\ Named(n)' <=> Named(n)
          /\ IdentOf(n)' = IdentOf(n)
          /\ \A c : HasQuorum(c)' <=> HasQuorum(c)
          /\ \A c : OthersHaveQuorum(n, c)' <=> OthersHaveQuorum(n, c)
          /\ \A j \in Nodes, k \in Starts : Alive(j, k)' <=> Alive(j, k)
          /\ \A j \in Nodes : (Up(j)' <=> Up(j)) /\ IdentOf(j)' = IdentOf(j)
          /\ Responding' = Responding
          /\ \A m : RunsAs(n, m)' <=> RunsAs(n, m)
      BY DEF Up, Named, RunsAs, IdentOf, HasQuorum, OthersHaveQuorum, Others, Serves,
             MembersOf, Running, Alive, Responding
    <3>4. OwnMember(n)'
      BY <3>1, <3>3 DEF NodeInv, OwnMember
    <3>5. OwnData(n)'
      BY <3>1, <3>3 DEF NodeInv, OwnData
    <3>6. PriorList(n)'
      BY <3>1, <3>3 DEF NodeInv, PriorList
    <3> QED
      BY <3>2, <3>4, <3>5, <3>6 DEF NodeInv
  <2>4. Roster'
    BY DEF SerialInv, Roster, UniqueMembers, FreshIds, NoClusterYet, NoMemberYet, Up, Running
  <2>5. OneCluster'
    BY OneClusterKept DEF SerialInv, Running
  <2> QED
    BY <1>1, <2>2, <2>3, <2>4, <2>5 DEF SerialInv
<1>3. ASSUME NEW n \in Nodes, NodeStep(n)
      PROVE  SerialInv'
  <2>1. /\ Frame(n)
        /\ \/ CtlStart(n) \/ MonitRestart(n) \/ CtlStop(n) \/ FabStep(n)
           \/ NodeEtcdStep(n)
    BY <1>3, StepFrame DEF SerialInv, BaseInv
  <2>2. \A j \in Nodes \ {n} : Settled(j)
    BY <1>3, OthersSettled
  <2>3. ~SpawnFails(n) /\ ~WritePidFileFails(n)
    BY DEF LossySerial, SpawnFails, WritePidFileFails
  <2>4. NodeInv(n)' /\ Roster' /\ OneCluster'
    BY <2>1, <2>2, <2>3, StartNode, ListNode, NoListNode, AddNode, NotAddedNode, SpawnNode,
       SyncedNode, NotSyncedNode, WriteNode, LeavingNode, WipedNode, KilledNode, EtcdNode
       DEF FabStep, NodeEtcdStep
  <2>5. OneAtATime' /\ \A j \in Nodes \ {n} : NodeInv(j)'
    BY <2>1, <2>2, OthersKept
  <2> QED
    BY <1>1, <2>4, <2>5 DEF SerialInv
<1> QED
  BY <1>2, <1>3 DEF Next, NodeStep

\* No split brain for any number of nodes and starts and any bounds of the
\* retry loops: while BOSH updates one node at a time, all running etcd
\* processes belong to one cluster, even if the calls of MemberAdd and
\* MemberRemove fail or take effect and lose their answers.
THEOREM NoSplitBrain ==
  ASSUME LossySerial
  PROVE  Spec => []OneCluster
<1>1. Init => SerialInv
  BY SerialInit
<1>2. SerialInv /\ [Next]_vars => SerialInv'
  BY SerialNext
<1>3. SerialInv => OneCluster
  BY DEF SerialInv
<1> QED
  BY <1>1, <1>2, <1>3, PTL DEF Spec

-----------------------------------------------------------------------------
(* Nothing fails                                                           *)

\* One node at a time, and every call gets its answer.
CleanSerial == Serial /\ Faults = {}

\* The members of n in the cluster that runs.
Own(n) == {m \in Current : m.url = n}

\* The start of n has not brought up etcd.
Joining(n) == pc[n] = "spawn" \/ (pc[n] = "sync" /\ ~Up(n))

\* No start fails and no supervised process ends.
NeverFails(n) ==
  /\ pc[n] = "idle" => Settled(n)
  /\ op[n] = "start" => pc[n] \in StartPCs \cup {"idle"}
  /\ pc[n] = "sync" => Alive(n, starts[n])

\* A node begins as no member of the running cluster; the member it adds has no
\* name, and the list it was told names all the others.
JoinsOnce(n) ==
  /\ pc[n] \in {"list", "add"} => Own(n) = {}
  /\ pc[n] = "add" => prior[n] = Current
  /\ Joining(n) /\ prior[n] # {} =>
        /\ ~IsPart(n, prior[n])
        /\ prior[n] = Current \ Own(n)
        /\ Own(n) # {}
        /\ \A m \in Own(n) : m.name = NoNode

\* Later its member is the one that its process runs as, until it is removed,
\* which it is unless it is the last.
LeavesOnce(n) ==
  /\ pc[n] \notin {"list", "add"} /\ ~Joining(n) =>
        \A m \in Own(n) : Up(n) /\ RunsAs(n, m)
  /\ pc[n] \in {"had", "rmList"} => \A m \in Own(n) : m.name = n
  /\ pc[n] = "rm" => \A m \in Own(n) : target[n] = m.id
  /\ pc[n] \in {"wipe", "kill"} /\ Own(n) # {} => Current = Own(n)

CleanNode(n) == NeverFails(n) /\ JoinsOnce(n) /\ LeavesOnce(n)

CleanInv == SerialInv /\ \A n \in Nodes : CleanNode(n)

-----------------------------------------------------------------------------
\* There is one running cluster, and at most one member of n in it.
LEMMA OneCurrent ==
  ASSUME SerialInv
  PROVE  /\ \A c \in Responding : MembersOf(c) = Current
         /\ \A m \in Current : m \in members /\ m.cluster \in Responding
         /\ \A n \in Nodes : \A x, y \in Own(n) : x = y
         /\ Responding # {} <=> \E n \in Nodes : Up(n)
         /\ Responding = {} => Current = {}
<1>1. \A c \in Responding : MembersOf(c) = Current
  BY DEF SerialInv, OneCluster, MembersOf, Current
<1>2. \A m \in Current : m \in members /\ m.cluster \in Responding
  BY DEF Current
<1>3. ASSUME NEW n \in Nodes, NEW x \in Own(n), NEW y \in Own(n) PROVE x = y
  <2>1. x \in members /\ y \in members /\ x.url = n /\ y.url = n /\ x.cluster = y.cluster
    BY <1>2 DEF Own, SerialInv, OneCluster
  <2> QED
    BY <2>1 DEF SerialInv, Roster, UniqueMembers
<1> QED
  BY <1>1, <1>2, <1>3, RespondingUp

\* A node that runs as m serves it.
LEMMA UpServes ==
  ASSUME NEW m, m.url \in Nodes, Up(m.url), RunsAs(m.url, m)
  PROVE  Serves(m)
BY DEF Up, RunsAs, IdentOf, Serves

\* All members of the running cluster on settled nodes serve.
LEMMA OthersServe ==
  ASSUME CleanInv, NEW n \in Nodes, \A j \in Nodes \ {n} : Settled(j),
         NEW m \in Current, m.url # n
  PROVE  m.url \in Nodes /\ Up(m.url) /\ RunsAs(m.url, m) /\ Serves(m)
<1>1. m.url \in Nodes
  BY OneCurrent DEF CleanInv, SerialInv, BaseInv, TypeOK, EtcdTypeOK, Member
<1>2. m \in Own(m.url) /\ pc[m.url] = "idle"
  BY <1>1 DEF Own, Settled
<1>3. Up(m.url) /\ RunsAs(m.url, m)
  BY <1>1, <1>2 DEF CleanInv, CleanNode, LeavesOnce, Joining
<1> QED
  BY <1>1, <1>3, UpServes

\* When all members serve there is a quorum.
LEMMA AllServe ==
  ASSUME SerialInv, Current # {}, \A m \in Current : Serves(m), NEW c \in Responding
  PROVE  HasQuorum(c)
<1>1. MembersOf(c) = Current
  BY OneCurrent
<1>2. {m \in MembersOf(c) : Serves(m)} = Current
  BY <1>1
<1>3. IsFiniteSet(Current)
  BY OneCurrent, FS_Subset DEF SerialInv, Roster, Current
<1>4. Cardinality(Current) \in Nat /\ Cardinality(Current) # 0
  BY <1>3, FS_CardinalityType, FS_EmptySet
<1>5. 2 * Cardinality(Current) > Cardinality(Current)
  BY <1>4
<1> QED
  BY <1>1, <1>2, <1>5 DEF HasQuorum

\* A step that keeps the running processes and the members keeps the cluster.
LEMMA SameCurrent ==
  ASSUME NEW n \in Nodes, members' = members,
         \A j \in Nodes, k \in Starts :
            /\ Running(j, k)' <=> Running(j, k)
            /\ Running(j, k) => proc'[j][k].ident = proc[j][k].ident
  PROVE  Current' = Current /\ Own(n)' = Own(n) /\ Responding' = Responding
<1>1. Responding' = Responding
  BY DEF Responding, Id
<1>2. Current' = Current
  BY <1>1 DEF Current
<1> QED
  BY <1>1, <1>2 DEF Own

-----------------------------------------------------------------------------
(* What the node that steps does to the running cluster                    *)

InGroup(n)   == Own(n) # {}
InServing(n) == \E m \in Own(n) : Serves(m)

\* The steps of the abstract specification, seen from n.
View(n) ==
  \/ (InGroup(n)' <=> InGroup(n)) /\ (InServing(n)' <=> InServing(n))
  \/ Current = {} /\ InGroup(n)' /\ InServing(n)'
  \/ Current # {} /\ ~InGroup(n) /\ InGroup(n)' /\ ~InServing(n)'
  \/ InGroup(n) /\ InGroup(n)' /\ InServing(n)'
  \/ InServing(n) /\ ~InGroup(n)' /\ ~InServing(n)'

\* No member gets into the running cluster by a cluster that begins to run.
NoRevival == \A m \in members : m.cluster \in Responding' => m.cluster \in Responding

CleanStep(n) == CleanNode(n)' /\ View(n) /\ NoRevival

\* Steps that keep processes and members.
LEMMA QuietView ==
  ASSUME NEW n \in Nodes, proc' = proc, members' = members
  PROVE  /\ Current' = Current /\ Own(n)' = Own(n) /\ Responding' = Responding
         /\ View(n) /\ NoRevival
         /\ starts' = starts => (Up(n)' <=> Up(n)) /\ \A m : RunsAs(n, m)' <=> RunsAs(n, m)
         /\ \A k \in Starts : Alive(n, k)' <=> Alive(n, k)
<1>1. Current' = Current /\ Own(n)' = Own(n) /\ Responding' = Responding
  BY SameCurrent DEF Running
<1>2. \A m : Serves(m)' <=> Serves(m)
  BY DEF Serves, Running
<1>3. View(n)
  BY <1>1, <1>2 DEF View, InGroup, InServing
<1>4. NoRevival
  BY <1>1 DEF NoRevival
<1> QED
  BY <1>1, <1>3, <1>4 DEF Up, Running, RunsAs, IdentOf, Alive

\* A start begins on a node that BOSH had stopped, and that had left.
LEMMA StartClean ==
  ASSUME CleanSerial, CleanInv, NEW n \in Nodes, CtlStart(n) \/ MonitRestart(n),
         \A j \in Nodes \ {n} : Settled(j)
  PROVE  CleanStep(n)
<1>1. /\ GuardedStart(n) /\ op'[n] = "start" /\ CleanNode(n) /\ SerialInv
      /\ CtlStart(n) => op[n] = "stop"
      /\ MonitRestart(n) => op[n] = "start"
  BY DEF CtlStart, MonitRestart, CleanInv, SerialInv, BaseInv, TypeOK
<1>2. pc[n] = "idle" /\ pc'[n] = "list" /\ UNCHANGED etcdVars /\ ~PidAlive(n)
  BY <1>1 DEF GuardedStart, Goto, SerialInv, BaseInv, TypeOK
<1>3. Settled(n)
  BY <1>1, <1>2 DEF CleanNode, NeverFails
<1>4. op[n] = "stop"
  BY <1>1, <1>2, <1>3 DEF Settled
<1>5. ~Up(n)
  BY <1>1, <1>3, <1>4, SettledNode DEF Up, Running, Alive
<1>6. Own(n) = {}
  BY <1>1, <1>2, <1>5 DEF CleanNode, LeavesOnce, Joining
<1>7. Own(n)' = {} /\ View(n) /\ NoRevival
  BY <1>2, <1>6, QuietView DEF etcdVars
<1>8. CleanNode(n)'
  BY <1>1, <1>2, <1>7 DEF CleanNode, NeverFails, JoinsOnce, LeavesOnce, Joining, StartPCs
<1> QED
  BY <1>7, <1>8 DEF CleanStep

\* The member list is that of the running cluster, without this node.
LEMMA ListClean ==
  ASSUME CleanSerial, CleanInv, NEW n \in Nodes, PriorMembers(n) \/ PriorMembersFail(n),
         \A j \in Nodes \ {n} : Settled(j)
  PROVE  CleanStep(n)
<1>1. /\ pc[n] = "list" /\ UNCHANGED etcdVars /\ op' = op
      /\ CleanNode(n) /\ SerialInv
  BY DEF PriorMembers, PriorMembersFail, CleanInv
<1>2. op[n] = "start" /\ Own(n) = {}
  BY <1>1, NothingYet DEF CleanNode, JoinsOnce
<1>3. Current' = Current /\ Own(n)' = {} /\ View(n) /\ NoRevival
  BY <1>1, <1>2, QuietView DEF etcdVars
<1>4. \/ pc'[n] = "add" /\ prior'[n] = Current
      \/ pc'[n] \in {"list", "spawn"} /\ prior'[n] = {}
  <2>1. CASE PriorMembers(n)
    <3>1. PICK c \in Responding :
            /\ prior' = [prior EXCEPT ![n] = MembersOf(c)]
            /\ Goto(n, IF MembersOf(c) = {} \/ IsPart(n, MembersOf(c)) THEN "spawn" ELSE "add")
      BY <2>1 DEF PriorMembers
    <3>2. MembersOf(c) = Current
      BY <1>1, OneCurrent
    <3>3. ~IsPart(n, Current)
      BY <1>2 DEF IsPart, Own
    <3> QED
      BY <1>1, <3>1, <3>2, <3>3 DEF Goto, SerialInv, BaseInv, TypeOK
  <2>2. CASE PriorMembersFail(n)
    BY <1>1, <2>2 DEF PriorMembersFail, Goto, SerialInv, BaseInv, TypeOK, NodeInv, PriorList
  <2> QED
    BY <2>1, <2>2
<1>5. CleanNode(n)'
  BY <1>1, <1>2, <1>3, <1>4 DEF CleanNode, NeverFails, JoinsOnce, LeavesOnce, Joining, StartPCs
<1> QED
  BY <1>3, <1>5 DEF CleanStep

\* The node is added to the running cluster.
LEMMA AddClean ==
  ASSUME CleanSerial, CleanInv, NEW n \in Nodes, AddSelf(n),
         \A j \in Nodes \ {n} : Settled(j)
  PROVE  CleanStep(n)
<1>1. PICK c \in Responding : AddsMember(n, c)
  BY DEF AddSelf
<1>2. /\ pc[n] = "add" /\ pc'[n] = "spawn" /\ op' = op /\ prior' = prior
      /\ proc' = proc /\ CleanNode(n) /\ SerialInv
  BY <1>1 DEF AddSelf, AddsMember, Goto, CleanInv, SerialInv, BaseInv, TypeOK
<1>3. /\ op[n] = "start" /\ Own(n) = {} /\ prior[n] = Current /\ prior[n] # {}
      /\ \A k \in Starts : ~Alive(n, k)
  BY <1>2, NothingYet DEF CleanNode, JoinsOnce, SerialInv, NodeInv, PriorList
<1>4. PICK added : /\ added.cluster = c /\ added.url = n /\ added.name = NoNode
                   /\ members' = members \cup {added}
  BY <1>1 DEF AddsMember
<1>5. Responding' = Responding
  BY <1>2 DEF Responding, Running
<1>6. Current' = Current \cup {added}
  BY <1>4, <1>5 DEF Current
<1>7. Own(n)' = {added} /\ Current' \ Own(n)' = Current
  BY <1>3, <1>4, <1>6 DEF Own
<1>8. ~IsPart(n, Current)
  BY <1>3 DEF IsPart, Own
<1>9. ~Serves(added)'
  BY <1>2, <1>3, <1>4 DEF Serves, Running, Alive
<1>10. View(n) /\ NoRevival
  BY <1>3, <1>5, <1>7, <1>9 DEF View, InGroup, InServing, NoRevival
<1>11. CleanNode(n)'
  BY <1>2, <1>3, <1>4, <1>7, <1>8
     DEF CleanNode, NeverFails, JoinsOnce, LeavesOnce, Joining, StartPCs
<1> QED
  BY <1>10, <1>11 DEF CleanStep

\* MemberAdd never fails: the others have a quorum and do not know this URL.
LEMMA NeverNotAdded ==
  ASSUME CleanSerial, CleanInv, NEW n \in Nodes, \A j \in Nodes \ {n} : Settled(j)
  PROVE  ~AddSelfFails(n)
<1>1. SUFFICES ASSUME pc[n] = "add",
                      \/ ~\E c \in Responding : HasQuorum(c)
                      \/ \E c \in Responding : IsPart(n, MembersOf(c))
               PROVE  FALSE
  BY DEF AddSelfFails, CleanSerial
<1>2. SerialInv /\ Own(n) = {} /\ Current # {}
  BY <1>1 DEF CleanInv, CleanNode, JoinsOnce, SerialInv, NodeInv, PriorList
<1>3. \A m \in Current : m.url # n
  BY <1>2 DEF Own
<1>4. \A m \in Current : Serves(m)
  BY <1>3, OthersServe
<1>5. Responding # {} /\ \A c \in Responding : HasQuorum(c)
  BY <1>2, <1>4, AllServe, OneCurrent
<1> QED
  BY <1>1, <1>2, <1>3, <1>5, OneCurrent DEF IsPart

\* etcd is spawned, answers, and gets into the pid file.
LEMMA SpawnClean ==
  ASSUME CleanSerial, CleanInv, NEW n \in Nodes, Spawn(n),
         \A j \in Nodes \ {n} : Settled(j)
  PROVE  CleanStep(n)
<1>1. /\ pc[n] = "spawn" /\ pc'[n] = "sync" /\ members' = members
      /\ op' = op /\ starts' = starts /\ prior' = prior
      /\ proc' = [proc EXCEPT ![n][starts[n]] = Booting(InitialState(n), InitialMembers(n))]
      /\ proc \in [Nodes -> [Starts -> Process]] /\ CleanNode(n) /\ SerialInv
  BY DEF Spawn, Goto, CleanInv, SerialInv, BaseInv, TypeOK, EtcdTypeOK
<1>2. /\ op[n] = "start" /\ starts[n] \in Starts /\ \A k \in Starts : ~Alive(n, k)
  BY <1>1, NothingYet
<1>3. /\ proc'[n][starts[n]].st = "boot"
      /\ \A j \in Nodes, k \in Starts : <<j, k>> # <<n, starts[n]>> => proc'[j][k] = proc[j][k]
  BY <1>1, <1>2, ProcOthers, ProcessStates
<1>4. Alive(n, starts[n])' /\ ~Up(n)'
  BY <1>1, <1>3 DEF Alive, Up, Running
<1>5. \A j \in Nodes, k \in Starts :
         /\ Running(j, k)' <=> Running(j, k)
         /\ Running(j, k) => proc'[j][k].ident = proc[j][k].ident
  BY <1>2, <1>3 DEF Running, Alive
<1>6. Current' = Current /\ Own(n)' = Own(n) /\ Responding' = Responding
  BY <1>1, <1>5, SameCurrent
<1>7. \A m \in Own(n) : ~Serves(m) /\ ~Serves(m)'
  BY <1>2, <1>5 DEF Serves, Running, Alive, Own
<1>8. View(n) /\ NoRevival
  BY <1>6, <1>7 DEF View, InGroup, InServing, NoRevival
<1>9. CleanNode(n)'
  BY <1>1, <1>2, <1>4, <1>6
     DEF CleanNode, NeverFails, JoinsOnce, LeavesOnce, Joining, StartPCs
<1> QED
  BY <1>8, <1>9 DEF CleanStep

\* A start that has seen etcd answer records its process and is done.
LEMMA SyncedClean ==
  ASSUME CleanSerial, CleanInv, NEW n \in Nodes, VerifySynced(n) \/ WritePidFile(n),
         \A j \in Nodes \ {n} : Settled(j)
  PROVE  CleanStep(n)
<1>1. /\ UNCHANGED etcdVars /\ op' = op /\ starts' = starts /\ op[n] = "start"
      /\ \/ pc[n] = "sync" /\ pc'[n] = "write" /\ KeysAnswer(n)
         \/ pc[n] = "write" /\ pc'[n] = "idle" /\ pidfile'[n] = starts[n]
      /\ CleanNode(n) /\ SerialInv
  BY DEF VerifySynced, WritePidFile, Exit, Goto, CleanInv, SerialInv, BaseInv, TypeOK,
         PidFileOfLastStart, StartPCs
<1>2. Up(n)
  BY <1>1, RunningWhere DEF KeysAnswer, SerialInv, NodeInv, OwnMember
<1>3. \A m \in Own(n) : RunsAs(n, m)
  BY <1>1, <1>2 DEF CleanNode, LeavesOnce, Joining
<1>4. /\ Own(n)' = Own(n) /\ View(n) /\ NoRevival /\ Up(n)'
      /\ \A m \in Own(n) : RunsAs(n, m)'
  BY <1>1, <1>2, <1>3, QuietView DEF etcdVars
<1>5. pc'[n] = "idle" => Settled(n)'
  BY <1>1, <1>4, FabAssumption DEF Settled, PidAlive, Up, Running, Alive
<1>6. CleanNode(n)'
  BY <1>1, <1>4, <1>5 DEF CleanNode, NeverFails, JoinsOnce, LeavesOnce, Joining, StartPCs
<1> QED
  BY <1>4, <1>6 DEF CleanStep

\* No start gives up.
LEMMA NeverNotSynced ==
  ASSUME CleanSerial, CleanInv, NEW n \in Nodes
  PROVE  ~VerifySyncedFails(n)
<1>1. SUFFICES ASSUME pc[n] = "sync", KeysFail(n) PROVE FALSE
  BY DEF VerifySyncedFails
<1>2. LossySerial /\ SerialInv /\ starts[n] \in Starts /\ Alive(n, starts[n])
  BY <1>1 DEF CleanSerial, LossySerial, CleanInv, CleanNode, NeverFails, SerialInv,
              BaseInv, PidFileOfLastStart, StartPCs
<1> QED
  BY <1>1, <1>2, KeysFailDead

-----------------------------------------------------------------------------
\* A stop begins on a settled node, whose member has its name.
LEMMA StopClean ==
  ASSUME CleanSerial, CleanInv, NEW n \in Nodes, CtlStop(n),
         \A j \in Nodes \ {n} : Settled(j)
  PROVE  CleanStep(n)
<1>1. /\ UNCHANGED etcdVars /\ starts' = starts /\ pc[n] = "idle" /\ pc'[n] = "had"
      /\ op'[n] = "stop" /\ CleanNode(n) /\ SerialInv
  BY DEF CtlStop, Goto, CleanInv, SerialInv, BaseInv, TypeOK
<1>2. Settled(n)
  BY <1>1 DEF CleanNode, NeverFails
<1>3. ASSUME NEW m \in Own(n) PROVE Up(n) /\ RunsAs(n, m) /\ m.name = n
  <2>1. Up(n) /\ RunsAs(n, m)
    BY <1>1 DEF CleanNode, LeavesOnce, Joining
  <2>2. PICK x \in members : RunsAs(n, x) /\ x.name # NoNode
    BY <1>1, <1>2, <2>1, SettledUp
  <2>3. m \in members /\ m.url = n
    BY <1>1, OneCurrent DEF Own
  <2>4. x = m
    BY <1>1, <2>1, <2>2, <2>3 DEF RunsAs, SerialInv, Roster, UniqueMembers
  <2> QED
    BY <1>1, <2>1, <2>2, <2>3, <2>4 DEF SerialInv, BaseInv, Identities
<1>4. /\ Own(n)' = Own(n) /\ View(n) /\ NoRevival
      /\ \A m \in Own(n) : Up(n)' /\ RunsAs(n, m)'
  BY <1>1, <1>3, QuietView DEF etcdVars
<1>5. CleanNode(n)'
  BY <1>1, <1>3, <1>4 DEF CleanNode, NeverFails, JoinsOnce, LeavesOnce, Joining, StartPCs
<1> QED
  BY <1>4, <1>5 DEF CleanStep

\* The member lists of a stop are those of the running cluster.
LEMMA FindClean ==
  ASSUME CleanSerial, CleanInv, NEW n \in Nodes,
         PriorClusterHadOtherNodes(n) \/ FindSelf(n),
         \A j \in Nodes \ {n} : Settled(j)
  PROVE  CleanStep(n)
<1>1. /\ UNCHANGED etcdVars /\ starts' = starts /\ op' = op
      /\ \/ pc[n] = "had" /\ pc'[n] \in {"rmList", "wipe"}
         \/ pc[n] = "rmList" /\ pc'[n] = "rm"
      /\ CleanNode(n) /\ SerialInv
  BY DEF PriorClusterHadOtherNodes, FindSelf, Goto, CleanInv, SerialInv, BaseInv, TypeOK
<1>2. \A m \in Own(n) : Up(n) /\ RunsAs(n, m) /\ m.name = n
  BY <1>1 DEF CleanNode, LeavesOnce, Joining
<1>3. /\ Own(n)' = Own(n) /\ Current' = Current /\ View(n) /\ NoRevival
      /\ \A m \in Own(n) : Up(n)' /\ RunsAs(n, m)'
  BY <1>1, <1>2, QuietView DEF etcdVars
<1>4. op[n] = "stop"
  BY <1>1 DEF CleanNode, NeverFails, StartPCs, SerialInv, BaseInv, TypeOK
<1>5. \A m \in Current : m.name = n => m \in Own(n)
  BY <1>1, OneCurrent, ConstantsAssumption DEF Own, SerialInv, BaseInv, Identities
<1>6. /\ \A c \in Responding : MembersOf(c) = Current
      /\ ListFails(FALSE) => Current = {}
  BY <1>1, OneCurrent DEF ListFails, CleanSerial
<1>7. ASSUME pc'[n] = "wipe", Own(n) # {} PROVE Current = Own(n)
  <2>1. PriorClusterHadOtherNodes(n)
    BY <1>7 DEF FindSelf, Goto, SerialInv, BaseInv, TypeOK, CleanInv
  <2>2. Current # {}
    BY <1>7 DEF Own
  <2>3. PICK c \in Responding :
           pc' = [pc EXCEPT ![n] = IF HadOtherNodes(n, MembersOf(c)) THEN "rmList" ELSE "wipe"]
    BY <1>6, <2>1, <2>2 DEF PriorClusterHadOtherNodes, Goto
  <2>4. ~HadOtherNodes(n, Current)
    BY <1>1, <1>6, <1>7, <2>3 DEF SerialInv, BaseInv, TypeOK
  <2>5. PICK m \in Current : Current = {m} /\ m.name = n
    BY <2>2, <2>4 DEF HadOtherNodes
  <2> QED
    BY <1>5, <2>5 DEF Own
<1>8. ASSUME pc'[n] = "rm", NEW m \in Own(n) PROVE target'[n] = m.id
  <2>1. FindSelf(n) /\ m \in Current
    BY <1>8 DEF PriorClusterHadOtherNodes, Goto, SerialInv, BaseInv, TypeOK, CleanInv, Own
  <2>2. SelfByName(n, Current) # {}
    BY <1>2, <2>1 DEF SelfByName
  <2>3. PICK x \in SelfByName(n, Current) : target' = [target EXCEPT ![n] = x.id]
    BY <1>6, <2>1, <2>2 DEF FindSelf
  <2>4. x = m
    BY <1>1, <1>5, <2>3, OneCurrent DEF SelfByName
  <2> QED
    BY <1>1, <2>3, <2>4 DEF SerialInv, BaseInv, TypeOK
<1>9. CleanNode(n)'
  BY <1>1, <1>2, <1>3, <1>4, <1>7, <1>8
     DEF CleanNode, NeverFails, JoinsOnce, LeavesOnce, Joining, StartPCs
<1> QED
  BY <1>3, <1>9 DEF CleanStep

\* MemberRemove succeeds if there is a member to remove.
LEMMA RemoveClean ==
  ASSUME CleanSerial, CleanInv, NEW n \in Nodes, RemoveSelf(n),
         \A j \in Nodes \ {n} : Settled(j)
  PROVE  CleanStep(n)
<1>1. /\ pc[n] = "rm" /\ pc'[n] = "wipe" /\ op' = op /\ starts' = starts
      /\ proc' = proc /\ CleanNode(n) /\ SerialInv
  BY DEF RemoveSelf, RemovesMember, etcdVars, Goto, CleanInv, SerialInv, BaseInv, TypeOK
<1>2. \A m \in Own(n) : Up(n) /\ RunsAs(n, m) /\ target[n] = m.id
  BY <1>1 DEF CleanNode, LeavesOnce, Joining
<1>3. op[n] = "stop"
  BY <1>1 DEF CleanNode, NeverFails, StartPCs, SerialInv, BaseInv, TypeOK
<1>4. \A m \in Own(n) : Serves(m)
  BY <1>2, UpServes DEF Own
<1>5. \A m \in Current : Serves(m)
  BY <1>4, OthersServe DEF Own
<1>6. Responding' = Responding /\ \A c \in Responding : MembersOf(c) = Current
  BY <1>1, OneCurrent DEF Responding, Running
<1>7. Own(n)' = {} /\ View(n)
  <2>1. CASE Own(n) = {}
    <3>1. members' \subseteq members
      BY DEF RemoveSelf, RemovesMember, etcdVars
    <3>2. Own(n)' = {}
      BY <1>6, <2>1, <3>1 DEF Own, Current
    <3> QED
      BY <2>1, <3>2 DEF View, InGroup, InServing
  <2>2. CASE Own(n) # {}
    <3>1. PICK m \in Own(n) : m \in Current /\ target[n] = m.id
      BY <1>2, <2>2 DEF Own
    <3>2. \A c \in Responding : HasQuorum(c)
      BY <1>1, <1>5, <3>1, AllServe
    <3>3. Responding # {}
      BY <1>1, <3>1, OneCurrent
    <3>4. \A c \in Responding : target[n] \in {x.id : x \in MembersOf(c)}
      BY <1>6, <3>1
    <3>5. PICK c \in Responding : RemovesMember(n, c)
      BY <3>2, <3>3, <3>4 DEF RemoveSelf, CleanSerial
    <3>6. PICK x \in Current : x.id = m.id /\ members' = members \ {x}
      BY <1>6, <3>1, <3>5 DEF RemovesMember
    <3>7. x = m
      BY <1>1, <3>1, <3>6, OneCurrent DEF SerialInv, Roster, UniqueMembers
    <3>8. Current' = Current \ {m}
      BY <1>6, <3>6, <3>7 DEF Current
    <3>9. Own(n)' = {}
      BY <1>1, <3>1, <3>8, OneCurrent DEF Own
    <3> QED
      BY <1>4, <3>1, <3>9 DEF View, InGroup, InServing
  <2> QED
    BY <2>1, <2>2
<1>8. CleanNode(n)' /\ NoRevival
  BY <1>1, <1>3, <1>6, <1>7
     DEF CleanNode, NeverFails, JoinsOnce, LeavesOnce, Joining, StartPCs, NoRevival
<1> QED
  BY <1>7, <1>8 DEF CleanStep

\* The data directory is emptied.
LEMMA WipeClean ==
  ASSUME CleanSerial, CleanInv, NEW n \in Nodes, RemoveDataDir(n),
         \A j \in Nodes \ {n} : Settled(j)
  PROVE  CleanStep(n)
<1>1. /\ pc[n] = "wipe" /\ pc'[n] = "kill" /\ op' = op /\ starts' = starts
      /\ proc' = proc /\ members' = members /\ CleanNode(n)
      /\ op[n] = "stop"
  BY DEF RemoveDataDir, Goto, CleanInv, CleanNode, NeverFails, StartPCs, SerialInv,
         BaseInv, TypeOK
<1>2. \A m \in Own(n) : Up(n) /\ RunsAs(n, m)
  BY <1>1 DEF CleanNode, LeavesOnce, Joining
<1>3. /\ Own(n)' = Own(n) /\ Current' = Current /\ View(n) /\ NoRevival
      /\ \A m \in Own(n) : Up(n)' /\ RunsAs(n, m)'
  BY <1>1, <1>2, QuietView
<1>4. CleanNode(n)'
  BY <1>1, <1>3 DEF CleanNode, NeverFails, JoinsOnce, LeavesOnce, Joining, StartPCs
<1> QED
  BY <1>3, <1>4 DEF CleanStep

\* A node whose process has ended is no member of a cluster that still runs: it
\* was removed, or it was the last.
LEMMA LastRuns ==
  ASSUME CleanInv, NEW n \in Nodes, \A j \in Nodes \ {n} : Settled(j),
         members' = members,
         \A j \in Nodes, k \in Starts : Running(j, k)' =>
            j # n /\ Running(j, k) /\ proc'[j][k].ident = proc[j][k].ident,
         Own(n) # {} => Current = Own(n)
  PROVE  Own(n)' = {} /\ NoRevival
<1>1. \A c \in Responding' :
         \E j \in Nodes \ {n} : Up(j) /\ IdentOf(j).cluster = c
  <2>1. ASSUME NEW c \in Responding'
        PROVE  \E j \in Nodes \ {n} : Up(j) /\ IdentOf(j).cluster = c
    <3>1. PICK i \in Id : Running(i[1], i[2])' /\ c = proc'[i[1]][i[2]].ident.cluster
      BY DEF Responding
    <3>2. i[1] \in Nodes \ {n} /\ i[2] \in Starts /\ Running(i[1], i[2])
          /\ c = proc[i[1]][i[2]].ident.cluster
      BY <3>1 DEF Id
    <3>3. i[2] = starts[i[1]] /\ Up(i[1])
      BY <3>2, RunningWhere DEF CleanInv
    <3> QED
      BY <3>2, <3>3 DEF IdentOf
  <2> QED
    BY <2>1
<1>2. Responding' \subseteq Responding
  BY <1>1, RespondingUp DEF CleanInv
<1>3. ASSUME NEW m \in Own(n)' PROVE FALSE
  <2>1. m \in members /\ m.url = n /\ m.cluster \in Responding'
    BY <1>3 DEF Own, Current
  <2>2. Current = Own(n)
    BY <1>2, <2>1 DEF Own, Current
  <2>3. PICK j \in Nodes \ {n} : Up(j) /\ IdentOf(j).cluster = m.cluster
    BY <1>1, <2>1
  <2>4. PICK x \in members : RunsAs(j, x)
    BY <2>3, SettledUp DEF CleanInv
  <2>5. x \in Current
    BY <1>2, <2>1, <2>3, <2>4 DEF RunsAs, Current
  <2>6. x.url = j
    BY <2>3, <2>4 DEF RunsAs, Up, IdentOf, CleanInv, SerialInv, BaseInv, Identities
  <2> QED
    BY <2>2, <2>5, <2>6 DEF Own
<1> QED
  BY <1>2, <1>3 DEF NoRevival

\* The last member is gone with its process.
LEMMA KillClean ==
  ASSUME CleanSerial, CleanInv, NEW n \in Nodes, Kill(n),
         \A j \in Nodes \ {n} : Settled(j)
  PROVE  CleanStep(n)
<1>1. /\ pc[n] = "kill" /\ pc'[n] = "idle" /\ op' = op /\ members' = members
      /\ op[n] = "stop" /\ CleanNode(n) /\ SerialInv
  BY DEF Kill, Exit, Goto, CleanInv, CleanNode, NeverFails, StartPCs, SerialInv,
         BaseInv, TypeOK
<1>2. \A m \in Own(n) : Up(n) /\ RunsAs(n, m)
  BY <1>1 DEF CleanNode, LeavesOnce, Joining
<1>3. \A m \in Own(n) : Serves(m)
  BY <1>2, UpServes DEF Own
<1>4. Own(n) # {} => Current = Own(n)
  BY <1>1 DEF CleanNode, LeavesOnce
<1>5. \A j \in Nodes, k \in Starts : Running(j, k)' =>
            j # n /\ Running(j, k) /\ proc'[j][k].ident = proc[j][k].ident
  <2>1. \A k \in Starts : Running(n, k) => PidAlive(n) /\ k = pidfile[n]
    BY <1>1, FabAssumption DEF SerialInv, NodeInv, OwnProcess, PidAlive, Alive, Running
  <2>2. CASE PidAlive(n)
    <3>1. pidfile[n] \in Starts /\ proc \in [Nodes -> [Starts -> Process]]
      BY <1>1, <2>2 DEF PidAlive, SerialInv, BaseInv, TypeOK, EtcdTypeOK
    <3>2. /\ proc'[n][pidfile[n]] = DeadProcess
          /\ \A j \in Nodes, k \in Starts : <<j, k>> # <<n, pidfile[n]>> => proc'[j][k] = proc[j][k]
      BY <2>2, <3>1, ProcOthers DEF Kill
    <3> QED
      BY <2>1, <3>2, ProcessStates DEF Running
  <2>3. CASE ~PidAlive(n)
    BY <2>1, <2>3 DEF Kill, Running
  <2> QED
    BY <2>2, <2>3
<1>6. Own(n)' = {} /\ NoRevival
  BY <1>1, <1>4, <1>5, LastRuns
<1>7. View(n)
  BY <1>3, <1>6 DEF View, InGroup, InServing
<1>8. CleanNode(n)'
  BY <1>1, <1>6 DEF CleanNode, NeverFails, JoinsOnce, LeavesOnce, Joining, Settled
<1> QED
  BY <1>6, <1>7, <1>8 DEF CleanStep

-----------------------------------------------------------------------------
\* A new cluster is the only one, with one member.
LEMMA BootNewClean ==
  ASSUME CleanSerial, CleanInv, NEW n \in Nodes, NEW k \in Starts, BootNew(n, k),
         UNCHANGED fabVars, \A j \in Nodes \ {n} : Settled(j)
  PROVE  CleanStep(n)
<1> DEFINE own == [cluster |-> <<n, k>>, id |-> <<n, k>>, url |-> n, name |-> n]
           ident == [cluster |-> <<n, k>>, id |-> <<n, k>>]
<1>1. /\ own.cluster = <<n, k>> /\ own.id = <<n, k>> /\ own.url = n
      /\ ident.cluster = <<n, k>> /\ ident.id = <<n, k>>
  OBVIOUS
<1>2. /\ members' = members \cup {own}
      /\ proc' = [proc EXCEPT ![n][k] = RunningAs(ident)]
      /\ proc[n][k].st = "boot" /\ proc[n][k].state = "new" /\ SerialInv
  BY DEF BootNew, CleanInv
<1> HIDE DEF own, ident
<1>3. /\ k = starts[n] /\ pc[n] = "sync" /\ op[n] = "start" /\ ~Up(n)
      /\ InitialState(n) = "new"
  BY <1>2, BootingNode
<1>4. pc' = pc /\ op' = op /\ starts' = starts
  BY DEF fabVars
<1>5. prior[n] = {}
  BY <1>3 DEF InitialState
<1>6. Responding = {} /\ Current = {} /\ Own(n) = {}
  <2>1. \A j \in Nodes \ {n} : ~Up(j)
    BY <1>2, <1>3, <1>5 DEF SerialInv, NodeInv, PriorList, Up, Running, Alive
  <2> QED
    BY <1>2, <1>3, <2>1, OneCurrent DEF Own
<1>7. /\ Up(n)' /\ IdentOf(n)' = ident
      /\ Responding' \subseteq {<<n, k>>}
  <2>1. /\ Up(n)' /\ IdentOf(n)' = ident
        /\ Responding' \subseteq Responding \cup {ident.cluster}
    BY <1>2, BootedNode
  <2> QED
    BY <1>1, <1>6, <2>1
<1>8. \A m \in members : m.cluster # <<n, k>>
  BY <1>2, <1>3 DEF SerialInv, Roster, FreshIds, NoClusterYet
<1>9. <<n, k>> \in Responding'
  <2>1. <<n, k>> \in Id /\ Running(n, k)' /\ proc'[n][k].ident.cluster = <<n, k>>
    BY <1>1, <1>3, <1>4, <1>7 DEF Id, Up, IdentOf
  <2> QED
    BY <2>1 DEF Responding
<1>10. Own(n)' = {own}
  BY <1>1, <1>2, <1>7, <1>8, <1>9 DEF Own, Current
<1>11. RunsAs(n, own)' /\ Serves(own)'
  BY <1>1, <1>3, <1>4, <1>7 DEF RunsAs, Serves, Up, IdentOf
<1>12. View(n) /\ NoRevival
  BY <1>6, <1>7, <1>8, <1>10, <1>11 DEF View, InGroup, InServing, NoRevival
<1>13. CleanNode(n)'
  BY <1>3, <1>4, <1>7, <1>10, <1>11
     DEF CleanNode, NeverFails, JoinsOnce, LeavesOnce, Joining, StartPCs, Up, Running, Alive
<1> QED
  BY <1>12, <1>13 DEF CleanStep

\* What a process that joins finds: its flags name a list that is not empty.
LEMMA JoiningList ==
  ASSUME CleanInv, NEW n \in Nodes, NEW k \in Starts,
         proc[n][k].st = "boot", proc[n][k].state = "existing"
  PROVE  /\ SerialInv /\ k = starts[n] /\ pc[n] = "sync" /\ op[n] = "start" /\ ~Up(n)
         /\ data[n] = NoIdent /\ proc[n][k].init = InitialMembers(n)
         /\ prior[n] # {} /\ ~IsPart(n, prior[n]) /\ prior[n] = Current \ Own(n)
         /\ Own(n) # {} /\ \A m \in Own(n) : m.name = NoNode
<1>1. /\ SerialInv /\ k = starts[n] /\ pc[n] = "sync" /\ op[n] = "start" /\ ~Up(n)
      /\ data[n] = NoIdent /\ proc[n][k].init = InitialMembers(n)
      /\ InitialState(n) = "existing"
  BY BootingNode DEF CleanInv
<1>2. prior[n] # {}
  BY <1>1 DEF InitialState
<1> QED
  BY <1>1, <1>2 DEF CleanInv, CleanNode, JoinsOnce, Joining

\* etcd is never rejected: a peer in the list runs, and the list is complete.
LEMMA NeverRejected ==
  ASSUME CleanSerial, CleanInv, NEW n \in Nodes, NEW k \in Starts,
         \A j \in Nodes \ {n} : Settled(j)
  PROVE  ~BootRejected(n, k)
<1>1. SUFFICES ASSUME proc[n][k].st = "boot", proc[n][k].state = "existing"
               PROVE  \E m \in members : m.url = n /\ Joinable(n, k, m.cluster)
  BY DEF BootRejected
<1>2. /\ SerialInv /\ proc[n][k].init = InitialMembers(n)
      /\ prior[n] # {} /\ ~IsPart(n, prior[n]) /\ prior[n] = Current \ Own(n)
      /\ Own(n) # {}
  BY <1>1, JoiningList
<1>3. PICK m \in Own(n) : m \in members /\ m.url = n /\ m.cluster \in Responding
  BY <1>2, OneCurrent DEF Own
<1>4. MembersOf(m.cluster) = Current
  BY <1>2, <1>3, OneCurrent
<1> DEFINE init == proc[n][k].init
           Own0 == [name |-> n, url |-> n]
<1>5. /\ Own0.url = n /\ Own0 \in init
      /\ \A x \in prior[n] : \E e \in init : e.url = x.url
      /\ \A e \in init : e.url = n \/ \E x \in prior[n] : e.url = x.url
  <2>1. init = {[name |-> x.name, url |-> x.url] : x \in prior[n]} \cup {Own0}
    BY <1>2 DEF InitialMembers
  <2>2. ASSUME NEW x \in prior[n] PROVE \E e \in init : e.url = x.url
    <3>1. [name |-> x.name, url |-> x.url] \in init
      BY <2>1
    <3>2. [name |-> x.name, url |-> x.url].url = x.url
      OBVIOUS
    <3> QED
      BY <3>1, <3>2
  <2>3. ASSUME NEW e \in init PROVE e.url = n \/ \E x \in prior[n] : e.url = x.url
    <3>1. CASE e = Own0
      BY <3>1
    <3>2. ASSUME NEW x \in prior[n], e = [name |-> x.name, url |-> x.url]
          PROVE  e.url = x.url
      BY <3>2
    <3> QED
      BY <2>1, <3>1, <3>2
  <2> QED
    BY <2>1, <2>2, <2>3
<1> HIDE DEF init, Own0
<1>6. {e.url : e \in init} = {x.url : x \in MembersOf(m.cluster)}
  <2>1. {e.url : e \in init} = {x.url : x \in prior[n]} \cup {n}
    BY <1>5
  <2>2. {x.url : x \in Current} = {x.url : x \in prior[n]} \cup {n}
    BY <1>2, <1>3 DEF Own
  <2> QED
    BY <1>4, <2>1, <2>2
<1>7. PICK x \in prior[n] : x \in Current /\ x.url # n
  BY <1>2 DEF IsPart
<1>8. Up(x.url) /\ RunsAs(x.url, x)
  BY <1>7, OthersServe
<1>9. x.cluster = m.cluster
  BY <1>2, <1>3, <1>7, OneCurrent DEF SerialInv, OneCluster
<1>10. /\ starts[x.url] \in Starts /\ Running(x.url, starts[x.url])
       /\ proc[x.url][starts[x.url]].ident.cluster = m.cluster
  BY <1>8, <1>9 DEF Up, RunsAs, IdentOf
<1>11. \E e \in init : e.url = x.url
  BY <1>5, <1>7
<1>12. PICK e \in init : e.url # n /\ Running(e.url, starts[x.url])
                         /\ proc[e.url][starts[x.url]].ident.cluster = m.cluster
  BY <1>7, <1>10, <1>11
<1>13. Own0 \in init
  BY <1>5
<1>14. Joinable(n, k, m.cluster)
  BY <1>6, <1>10, <1>12, <1>13 DEF Joinable, init, Own0
<1> QED
  BY <1>3, <1>14

\* The process joins as the member that was added for it.
LEMMA BootExistingClean ==
  ASSUME CleanSerial, CleanInv, NEW n \in Nodes, NEW k \in Starts, BootExisting(n, k),
         UNCHANGED fabVars, \A j \in Nodes \ {n} : Settled(j)
  PROVE  CleanStep(n) /\ \E m \in Own(n) : m.name = NoNode /\ data'[n].id = m.id
<1>1. PICK m \in members :
        /\ m.url = n
        /\ Joinable(n, k, m.cluster)
        /\ data' = [data EXCEPT ![n] = [cluster |-> m.cluster, id |-> m.id]]
        /\ proc' = [proc EXCEPT ![n][k] = RunningAs([cluster |-> m.cluster, id |-> m.id])]
  BY DEF BootExisting
<1> DEFINE ident == [cluster |-> m.cluster, id |-> m.id]
<1>2. ident.cluster = m.cluster /\ ident.id = m.id /\ data'[n] = ident
  BY <1>1 DEF CleanInv, SerialInv, BaseInv, TypeOK, EtcdTypeOK
<1>3. /\ members' = members /\ proc[n][k].st = "boot" /\ proc[n][k].state = "existing"
      /\ proc' = [proc EXCEPT ![n][k] = RunningAs(ident)]
  BY <1>1 DEF BootExisting
<1> HIDE DEF ident
<1>4. /\ SerialInv /\ k = starts[n] /\ pc[n] = "sync" /\ op[n] = "start" /\ ~Up(n)
      /\ proc[n][k].init = InitialMembers(n) /\ \A x \in Own(n) : x.name = NoNode
  BY <1>3, JoiningList
<1>5. pc' = pc /\ op' = op /\ starts' = starts
  BY DEF fabVars
<1>6. m.cluster \in Responding
  <2>1. PICK e \in proc[n][k].init, j \in Starts :
           Running(e.url, j) /\ proc[e.url][j].ident.cluster = m.cluster
    BY <1>1 DEF Joinable
  <2>2. e.url \in Nodes
    BY <1>4, <2>1, InitialMembersType DEF SerialInv, BaseInv, Entry
  <2>3. <<e.url, j>> \in Id
    BY <2>2 DEF Id
  <2> QED
    BY <2>1, <2>3 DEF Responding
<1>7. /\ Up(n)' /\ IdentOf(n)' = ident /\ Responding' \subseteq Responding \cup {ident.cluster}
      /\ \A j \in Nodes, i \in Starts : <<j, i>> # <<n, k>> => proc'[j][i] = proc[j][i]
  BY <1>3, <1>4, BootedNode
<1>8. Responding' = Responding
  <2>1. m.cluster \in Responding'
    <3>1. <<n, k>> \in Id /\ Running(n, k)' /\ proc'[n][k].ident.cluster = m.cluster
      BY <1>2, <1>4, <1>5, <1>7 DEF Id, Up, IdentOf
    <3> QED
      BY <3>1 DEF Responding
  <2>2. \A c \in Responding : c = m.cluster
    BY <1>4, <1>6 DEF SerialInv, OneCluster
  <2> QED
    BY <1>2, <1>6, <1>7, <2>1, <2>2
<1>9. m \in Own(n) /\ Own(n)' = Own(n)
  BY <1>1, <1>3, <1>6, <1>8 DEF Own, Current
<1>10. \A x \in Own(n) : x = m
  BY <1>4, <1>9, OneCurrent
<1>11. RunsAs(n, m)' /\ Serves(m)'
  BY <1>1, <1>2, <1>4, <1>5, <1>7 DEF RunsAs, Serves, Up, IdentOf
<1>12. View(n) /\ NoRevival
  BY <1>8, <1>9, <1>11 DEF View, InGroup, InServing, NoRevival
<1>13. CleanNode(n)'
  BY <1>4, <1>5, <1>7, <1>9, <1>10, <1>11
     DEF CleanNode, NeverFails, JoinsOnce, LeavesOnce, Joining, StartPCs, Up, Running, Alive
<1> QED
  BY <1>2, <1>4, <1>9, <1>12, <1>13 DEF CleanStep

\* A name changes nothing else.
LEMMA PublishClean ==
  ASSUME CleanSerial, CleanInv, NEW n \in Nodes, NEW k \in Starts, Publish(n, k),
         UNCHANGED fabVars, \A j \in Nodes \ {n} : Settled(j)
  PROVE  CleanStep(n)
<1>1. PICK m \in members :
        /\ m.id = proc[n][k].ident.id /\ m.name = NoNode
        /\ members' = (members \ {m}) \cup {[m EXCEPT !.name = n]}
  BY DEF Publish
<1> DEFINE named == [m EXCEPT !.name = n]
<1>2. /\ named.id = m.id /\ named.cluster = m.cluster /\ named.url = m.url /\ named.name = n
      /\ members' = (members \ {m}) \cup {named}
  BY <1>1 DEF CleanInv, SerialInv, BaseInv, TypeOK, EtcdTypeOK, Member
<1> HIDE DEF named
<1>3. /\ pc' = pc /\ op' = op /\ starts' = starts /\ prior' = prior /\ pidfile' = pidfile
      /\ target' = target /\ proc' = proc /\ SerialInv /\ CleanNode(n)
  BY DEF Publish, fabVars, CleanInv
<1>4. Up(n) /\ k = starts[n]
  BY <1>3, RunningWhere DEF Publish
<1>5. Up(n)' /\ Responding' = Responding /\ \A x : RunsAs(n, x)' <=> RunsAs(n, x)
  BY <1>3, <1>4 DEF Up, Running, Responding, RunsAs, IdentOf
<1>6. \A x : Serves(x)' <=> Serves(x)
  BY <1>3 DEF Serves, Running
<1>7. \A x : x \in Current' <=> (x \in Current /\ x # m) \/ (x = named /\ m \in Current)
  BY <1>2, <1>5 DEF Current
<1>8. \A x : x \in Own(n)' <=> (x \in Own(n) /\ x # m) \/ (x = named /\ m \in Own(n))
  BY <1>2, <1>7 DEF Own
<1>9. Serves(named) <=> Serves(m)
  BY <1>2 DEF Serves
<1>10. (InGroup(n)' <=> InGroup(n)) /\ (InServing(n)' <=> InServing(n))
  BY <1>6, <1>8, <1>9 DEF InGroup, InServing
<1>11. View(n) /\ NoRevival
  BY <1>5, <1>10 DEF View, NoRevival
<1>12. pc[n] \notin {"list", "add", "spawn"} /\ ~Joining(n) /\ ~Joining(n)'
  BY <1>3, <1>4, <1>5, NothingYet DEF Joining
<1>13. \A x \in Own(n) : RunsAs(n, x)
  BY <1>3, <1>12 DEF CleanNode, LeavesOnce
<1>14. \A x \in Own(n)' : RunsAs(n, x)'
  BY <1>2, <1>5, <1>8, <1>13 DEF RunsAs
<1>15. LeavesOnce(n)'
  <2>1. pc[n] \in {"had", "rmList"} => \A x \in Own(n)' : x.name = n
    BY <1>2, <1>3, <1>8 DEF CleanNode, LeavesOnce
  <2>2. pc[n] = "rm" => \A x \in Own(n)' : target[n] = x.id
    BY <1>2, <1>3, <1>8 DEF CleanNode, LeavesOnce
  <2>3. pc[n] \in {"wipe", "kill"} /\ Own(n)' # {} => Current' = Own(n)'
    <3>1. SUFFICES ASSUME pc[n] \in {"wipe", "kill"}, Own(n)' # {} PROVE Current' = Own(n)'
      OBVIOUS
    <3>2. Own(n) # {}
      BY <1>8, <3>1
    <3>3. Current = Own(n)
      BY <1>3, <3>1, <3>2 DEF CleanNode, LeavesOnce
    <3>4. \A x : x \in Current' <=> x \in Own(n)'
      BY <1>7, <1>8, <3>3
    <3> QED
      BY <3>4 DEF Own
  <2> QED
    BY <1>3, <1>5, <1>14, <2>1, <2>2, <2>3 DEF LeavesOnce
<1>16. JoinsOnce(n)'
  BY <1>3, <1>12 DEF JoinsOnce
<1>17. NeverFails(n)'
  BY <1>3 DEF CleanNode, NeverFails, Settled, PidAlive, Alive
<1> QED
  BY <1>11, <1>15, <1>16, <1>17 DEF CleanStep, CleanNode

\* A process stops on its own only after its member was removed.
LEMMA StopRemovedClean ==
  ASSUME CleanSerial, CleanInv, NEW n \in Nodes, NEW k \in Starts, StopRemoved(n, k),
         UNCHANGED fabVars, \A j \in Nodes \ {n} : Settled(j)
  PROVE  CleanStep(n)
<1>1. /\ Running(n, k) /\ proc' = [proc EXCEPT ![n][k] = DeadProcess] /\ members' = members
      /\ pc' = pc /\ op' = op /\ SerialInv /\ CleanNode(n)
  BY DEF StopRemoved, fabVars, CleanInv
<1>2. k = starts[n] /\ Up(n)
  BY <1>1, RunningWhere
<1>3. ~\E m \in members : RunsAs(n, m)
  BY <1>2 DEF StopRemoved, RunsAs, IdentOf
<1>4. pc[n] \in {"had", "rmList", "rm", "wipe", "kill"}
  BY <1>1, <1>3, RunningWhere DEF Named
<1>5. Own(n) = {}
  BY <1>1, <1>3, <1>4, OneCurrent DEF CleanNode, LeavesOnce, Joining, Own
<1>6. /\ proc'[n][k] = DeadProcess
      /\ \A j \in Nodes, i \in Starts : <<j, i>> # <<n, k>> => proc'[j][i] = proc[j][i]
  BY <1>1, ProcOthers DEF SerialInv, BaseInv, TypeOK, EtcdTypeOK
<1>7. \A j \in Nodes, i \in Starts : Running(j, i)' =>
         j # n /\ Running(j, i) /\ proc'[j][i].ident = proc[j][i].ident
  BY <1>1, <1>2, <1>6, RunningWhere, ProcessStates DEF Running
<1>8. Own(n)' = {} /\ NoRevival
  BY <1>1, <1>5, <1>7, LastRuns
<1>9. View(n)
  BY <1>5, <1>8 DEF View, InGroup, InServing
<1>10. op[n] = "stop"
  BY <1>1, <1>4 DEF CleanNode, NeverFails, StartPCs, SerialInv, BaseInv, TypeOK
<1>11. CleanNode(n)'
  BY <1>1, <1>4, <1>8, <1>10 DEF CleanNode, NeverFails, JoinsOnce, LeavesOnce, Joining
<1> QED
  BY <1>8, <1>9, <1>11 DEF CleanStep

-----------------------------------------------------------------------------
(* The theorems                                                            *)

\* The steps of n leave the members of the other nodes in the running cluster.
LEMMA OthersCurrent ==
  ASSUME CleanInv, NEW n \in Nodes, Frame(n), \A j \in Nodes \ {n} : Settled(j), NoRevival
  PROVE  /\ \A m : m.url # n => (m \in Current' <=> m \in Current)
         /\ \A m \in Current : m.url # n => Serves(m) /\ Serves(m)'
         /\ \A j \in Nodes \ {n} : CleanNode(j)'
<1>1. ASSUME NEW m \in Current', m.url # n PROVE m \in Current
  BY <1>1 DEF Current, Frame, NoRevival
<1>2. ASSUME NEW m \in Current, m.url # n PROVE m \in Current' /\ Serves(m) /\ Serves(m)'
  <2>1. m.url \in Nodes /\ Up(m.url) /\ RunsAs(m.url, m) /\ Serves(m)
    BY <1>2, OthersServe
  <2>2. Up(m.url)' /\ IdentOf(m.url)' = IdentOf(m.url)
    BY <1>2, <2>1, OthersRun
  <2>3. /\ starts'[m.url] \in Starts /\ Running(m.url, starts[m.url])'
        /\ proc'[m.url][starts'[m.url]].ident.cluster = m.cluster
        /\ proc'[m.url][starts'[m.url]].ident.id = m.id
        /\ starts'[m.url] = starts[m.url]
    BY <1>2, <2>1, <2>2 DEF Up, RunsAs, IdentOf, Frame
  <2>4. m.cluster \in Responding'
    <3>1. <<m.url, starts[m.url]>> \in Id
      BY <2>1, <2>3 DEF Id
    <3> QED
      BY <2>3, <3>1 DEF Responding
  <2>5. m \in members'
    BY <1>2 DEF Current, Frame
  <2>6. Serves(m)'
    BY <2>3 DEF Serves
  <2> QED
    BY <2>1, <2>4, <2>5, <2>6 DEF Current
<1>3. ASSUME NEW j \in Nodes \ {n} PROVE CleanNode(j)'
  <2>1. Settled(j) /\ pc[j] = "idle" /\ pc'[j] = "idle" /\ op'[j] = op[j] /\ CleanNode(j)
    BY <1>3 DEF Settled, Frame, CleanInv
  <2>2. Settled(j)'
    BY <2>1, OthersRun
  <2>3. ASSUME NEW m \in Own(j)' PROVE Up(j)' /\ RunsAs(j, m)'
    <3>1. m \in Own(j)
      BY <1>1, <1>3, <2>3 DEF Own
    <3>2. Up(j) /\ RunsAs(j, m)
      BY <2>1, <3>1 DEF CleanNode, LeavesOnce, Joining
    <3> QED
      BY <3>2, OthersRun DEF RunsAs
  <2> QED
    BY <2>1, <2>2, <2>3 DEF CleanNode, NeverFails, JoinsOnce, LeavesOnce, Joining
<1> QED
  BY <1>1, <1>2, <1>3

\* Every step of n is one of those above.
LEMMA CleanSteps ==
  ASSUME CleanSerial, CleanInv, NEW n \in Nodes, NodeStep(n)
  PROVE  Frame(n) /\ (\A j \in Nodes \ {n} : Settled(j)) /\ CleanStep(n)
<1>1. LossySerial /\ SerialInv
  BY DEF CleanSerial, LossySerial, CleanInv
<1>2. /\ Frame(n)
      /\ \/ CtlStart(n) \/ MonitRestart(n) \/ CtlStop(n) \/ FabStep(n)
         \/ NodeEtcdStep(n)
  BY <1>1, StepFrame DEF SerialInv, BaseInv
<1>3. \A j \in Nodes \ {n} : Settled(j)
  BY <1>1, OthersSettled
<1>4. ~SpawnFails(n) /\ ~WritePidFileFails(n)
  BY DEF CleanSerial, SpawnFails, WritePidFileFails
<1>5. CASE CtlStart(n) \/ MonitRestart(n) \/ CtlStop(n)
  BY <1>2, <1>3, <1>5, StartClean, StopClean
<1>6. CASE FabStep(n)
  BY <1>2, <1>3, <1>4, <1>6, ListClean, AddClean, NeverNotAdded, SpawnClean, SyncedClean,
     NeverNotSynced, FindClean, RemoveClean, WipeClean, KillClean DEF FabStep
<1>7. ASSUME NEW k \in Starts, EtcdStep(n, k), UNCHANGED fabVars
      PROVE  CleanStep(n)
  <2>1. ~BootPortTaken(n, k) /\ ~BootFromDisk(n, k)
    BY <1>1, BootingNode DEF BootPortTaken, BootFromDisk
  <2> QED
    BY <1>3, <1>7, <2>1, BootNewClean, BootExistingClean, NeverRejected, PublishClean,
       StopRemovedClean DEF EtcdStep
<1> QED
  BY <1>2, <1>3, <1>5, <1>6, <1>7 DEF NodeEtcdStep

\* The invariant of the runs without failures.
LEMMA CleanInit ==
  ASSUME Init
  PROVE  CleanInv
<1>1. SerialInv
  BY SerialInit
<1>2. /\ pc = [n \in Nodes |-> "idle"] /\ op = [n \in Nodes |-> "stop"] /\ members = {}
  BY DEF Init, EtcdInit
<1>3. Current = {} /\ \A n \in Nodes : Own(n) = {}
  BY <1>2 DEF Current, Own
<1>4. ASSUME NEW n \in Nodes PROVE CleanNode(n)
  BY <1>2, <1>3 DEF CleanNode, NeverFails, JoinsOnce, LeavesOnce, Joining, Settled
<1> QED
  BY <1>1, <1>4 DEF CleanInv

\* CleanInv is inductive.
LEMMA CleanNext ==
  ASSUME CleanSerial, CleanInv, [Next]_vars
  PROVE  CleanInv'
<1>1. SerialInv'
  BY SerialNext DEF CleanSerial, LossySerial, CleanInv
<1>2. ASSUME NEW n \in Nodes, NodeStep(n) PROVE CleanInv'
  <2>1. /\ Frame(n) /\ (\A j \in Nodes \ {n} : Settled(j))
        /\ CleanNode(n)' /\ NoRevival
    BY <1>2, CleanSteps DEF CleanStep
  <2>2. \A j \in Nodes \ {n} : CleanNode(j)'
    BY <2>1, OthersCurrent
  <2> QED
    BY <1>1, <2>1, <2>2 DEF CleanInv
<1>3. CASE UNCHANGED vars
  <2>1. UNCHANGED <<members, data, proc, pc, op, starts, tries, prior, target, pidfile>>
    BY <1>3 DEF vars, etcdVars, fabVars
  <2>2. ASSUME NEW n \in Nodes PROVE CleanNode(n)'
    <3>1. CleanNode(n)
      BY DEF CleanInv
    <3>2. /\ Current' = Current /\ Own(n)' = Own(n)
          /\ Up(n)' <=> Up(n)
          /\ \A m : RunsAs(n, m)' <=> RunsAs(n, m)
          /\ \A k \in Starts : Alive(n, k)' <=> Alive(n, k)
      BY <2>1, QuietView
    <3>3. (Settled(n)' <=> Settled(n)) /\ (Joining(n)' <=> Joining(n))
          /\ (Alive(n, starts[n])' <=> Alive(n, starts[n]))
      BY <2>1, <3>2 DEF Settled, PidAlive, Alive, Joining
    <3> QED
      BY <2>1, <3>1, <3>2, <3>3 DEF CleanNode, NeverFails, JoinsOnce, LeavesOnce
  <2> QED
    BY <1>1, <2>2 DEF CleanInv
<1> QED
  BY <1>2, <1>3 DEF Next, NodeStep

\* While BOSH updates one node at a time and nothing fails, a node that it has
\* stopped is no member of a cluster that still runs, for any number of nodes:
\* removeSelfFromCluster always finds and removes the member of its node,
\* unless priorClusterHadOtherNodes rightly said that it was the last.
THEOREM StoppedLeaves ==
  ASSUME CleanSerial
  PROVE  Spec => []StoppedHasLeft
<1>1. Init => CleanInv
  BY CleanInit
<1>2. CleanInv /\ [Next]_vars => CleanInv'
  BY CleanNext
<1>3. CleanInv => StoppedHasLeft
  <2>1. SUFFICES ASSUME CleanInv, NEW n \in Nodes, op[n] = "stop", pc[n] = "idle",
                        NEW c \in Responding
                 PROVE  ~IsPart(n, MembersOf(c))
    BY DEF StoppedHasLeft
  <2>2. SerialInv /\ CleanNode(n) /\ Settled(n)
    BY <2>1 DEF CleanInv, Settled
  <2>3. ~Up(n)
    BY <2>1, <2>2, SettledNode DEF Up, Running, Alive
  <2>4. Own(n) = {}
    BY <2>1, <2>2, <2>3 DEF CleanNode, LeavesOnce, Joining
  <2> QED
    BY <2>2, <2>4, OneCurrent DEF IsPart, Own
<1> QED
  BY <1>1, <1>2, <1>3, PTL DEF Spec

\* While BOSH updates one node at a time and nothing fails, the running cluster
\* has a quorum whenever every node is as BOSH wants it.
THEOREM SettledQuorum ==
  ASSUME CleanSerial
  PROVE  Spec => []SettledHasQuorum
<1>1. Init => CleanInv
  BY CleanInit
<1>2. CleanInv /\ [Next]_vars => CleanInv'
  BY CleanNext
<1>3. CleanInv => SettledHasQuorum
  <2>1. SUFFICES ASSUME CleanInv, \A n \in Nodes : Settled(n), NEW c \in Responding
                 PROVE  HasQuorum(c)
    BY DEF SettledHasQuorum
  <2>2. PICK j \in Nodes : Up(j) /\ IdentOf(j).cluster = c
    BY <2>1, RespondingUp DEF CleanInv
  <2>3. Current # {}
    BY <2>1, <2>2, SettledUp DEF RunsAs, Current, CleanInv
  <2>4. ASSUME NEW m \in Current PROVE Serves(m)
    <3>1. m.url \in Nodes /\ m \in Own(m.url)
      BY <2>1, OneCurrent
         DEF CleanInv, SerialInv, BaseInv, TypeOK, EtcdTypeOK, Member, Own
    <3>2. Up(m.url) /\ RunsAs(m.url, m)
      BY <2>1, <3>1 DEF Settled, CleanInv, CleanNode, LeavesOnce, Joining
    <3> QED
      BY <3>1, <3>2, UpServes
  <2> QED
    BY <2>1, <2>3, <2>4, AllServe DEF CleanInv
<1> QED
  BY <1>1, <1>2, <1>3, PTL DEF Spec

\* What a step writes to an empty data directory is an identity that was handed
\* out for the running start.
LEMMA AmnesiaStep ==
  ASSUME CleanSerial, CleanInv, [Next]_vars, NEW j \in Nodes,
         data[j] = NoIdent, data'[j] # NoIdent,
         NEW m \in members, m.id = data'[j].id
  PROVE  m.name = NoNode
<1>1. CASE UNCHANGED vars
  BY <1>1 DEF vars, etcdVars
<1>2. ASSUME NEW n \in Nodes, NodeStep(n)
      PROVE  m.name = NoNode
  <2>1. /\ Frame(n) /\ (\A i \in Nodes \ {n} : Settled(i))
        /\ \/ CtlStart(n) \/ MonitRestart(n) \/ CtlStop(n) \/ FabStep(n)
           \/ NodeEtcdStep(n)
    BY <1>2, CleanSteps, StepFrame
       DEF CleanInv, SerialInv, BaseInv, CleanSerial, LossySerial
  <2>2. j = n
    BY <2>1 DEF Frame
  <2>3. CASE CtlStart(n) \/ MonitRestart(n) \/ CtlStop(n)
    BY <2>3 DEF CtlStart, MonitRestart, CtlStop, GuardedStart, etcdVars
  <2>4. CASE FabStep(n)
    <3>1. data' = data \/ RemoveDataDir(n)
      BY <2>4 DEF FabStep, PriorMembers, PriorMembersFail, AddSelf, AddSelfFails, AddsMember,
         Spawn, SpawnFails, VerifySynced, VerifySyncedFails, WritePidFile, WritePidFileFails,
         PriorClusterHadOtherNodes, FindSelf, RemoveSelf, RemovesMember, Kill, etcdVars
    <3> QED
      BY <2>2, <3>1 DEF RemoveDataDir, CleanInv, SerialInv, BaseInv, TypeOK, EtcdTypeOK
  <2>5. ASSUME NEW k \in Starts, EtcdStep(n, k), UNCHANGED fabVars
        PROVE  m.name = NoNode
    <3>1. CASE BootNew(n, k)
      <4>1. data'[n].id = <<n, k>>
        BY <3>1 DEF BootNew, CleanInv, SerialInv, BaseInv, TypeOK, EtcdTypeOK
      <4>2. /\ k = starts[n] /\ pc[n] = "sync" /\ ~Up(n) /\ InitialState(n) = "new"
        BY <3>1, BootingNode DEF BootNew, CleanInv
      <4>3. prior[n] = {}
        BY <4>2 DEF InitialState
      <4>4. m.id # <<n, starts[n]>>
        BY <4>2, <4>3 DEF CleanInv, SerialInv, Roster, FreshIds, NoMemberYet, NoClusterYet
      <4> QED
        BY <2>2, <4>1, <4>2, <4>4
    <3>2. CASE BootExisting(n, k)
      <4>1. PICK x \in Own(n) : x.name = NoNode /\ data'[n].id = x.id
        BY <2>1, <2>5, <3>2, BootExistingClean
      <4>2. x = m
        BY <2>2, <4>1, OneCurrent DEF Own, CleanInv, SerialInv, Roster, UniqueMembers
      <4> QED
        BY <4>1, <4>2
    <3>3. CASE \/ BootPortTaken(n, k) \/ BootFromDisk(n, k) \/ BootRejected(n, k)
               \/ Publish(n, k) \/ StopRemoved(n, k)
      BY <3>3 DEF BootPortTaken, BootFromDisk, BootRejected, Publish, StopRemoved
    <3> QED
      BY <2>5, <3>1, <3>2, <3>3 DEF EtcdStep
  <2> QED
    BY <2>1, <2>3, <2>4, <2>5 DEF NodeEtcdStep
<1> QED
  BY <1>1, <1>2 DEF Next, NodeStep

\* While BOSH updates one node at a time and nothing fails, a node with an empty
\* disk never comes back as a member that had already started: stop removes the
\* member before it empties the data directory, and start adds a new one.
THEOREM NothingForgotten ==
  ASSUME CleanSerial
  PROVE  Spec => NoAmnesia
<1>1. Init => CleanInv
  BY CleanInit
<1>2. CleanInv /\ [Next]_vars => CleanInv'
  BY CleanNext
<1>3. CleanInv /\ [Next]_vars =>
        [\A n \in Nodes :
            data[n] = NoIdent /\ data'[n] # NoIdent =>
               ~\E m \in members : m.id = data'[n].id /\ m.name # NoNode]_vars
  BY AmnesiaStep
<1> QED
  BY <1>1, <1>2, <1>3, PTL DEF Spec, NoAmnesia

-----------------------------------------------------------------------------
(* Refinement                                                              *)

Group   == {m.url : m \in Current}
Serving == {m.url : m \in {m \in Current : Serves(m)}}

\* The nodes other than the one that steps all serve, and stay what they are.
LEMMA OthersGroup ==
  ASSUME CleanInv, NEW n \in Nodes, Frame(n), \A j \in Nodes \ {n} : Settled(j), NoRevival
  PROVE  \A j : j # n => /\ j \in Group <=> j \in Serving
                         /\ j \in Group' <=> j \in Group
                         /\ j \in Serving' <=> j \in Serving
<1>1. ASSUME NEW j, j # n
      PROVE  /\ j \in Group <=> j \in Serving
             /\ j \in Group' <=> j \in Group
             /\ j \in Serving' <=> j \in Serving
  <2>1. j \in Group <=> \E m \in Current : m.url = j
    BY DEF Group
  <2>2. j \in Group' <=> \E m \in Current' : m.url = j
    BY DEF Group
  <2>3. j \in Serving <=> \E m \in Current : m.url = j /\ Serves(m)
    BY DEF Serving
  <2>4. j \in Serving' <=> \E m \in Current' : m.url = j /\ Serves(m)'
    BY DEF Serving
  <2> QED
    BY <1>1, <2>1, <2>2, <2>3, <2>4, OthersCurrent
<1> QED
  BY <1>1

\* The node that steps, seen as a member of the group.
LEMMA OwnGroup ==
  ASSUME NEW n \in Nodes
  PROVE  /\ n \in Group <=> InGroup(n)
         /\ n \in Group' <=> InGroup(n)'
         /\ n \in Serving <=> InServing(n)
         /\ n \in Serving' <=> InServing(n)'
         /\ Group = {} <=> Current = {}
BY DEF Group, Serving, InGroup, InServing, Own

\* A step of a node is a step of the group, or changes nothing of it.
LEMMA GroupStep ==
  ASSUME CleanSerial, CleanInv, NEW n \in Nodes, NodeStep(n)
  PROVE  \/ Group' = Group /\ Serving' = Serving
         \/ Group = {} /\ Group' = {n} /\ Serving' = {n}
         \/ /\ Group # {} /\ n \notin Group /\ Serving = Group
            /\ Group' = Group \cup {n} /\ Serving' = Serving
         \/ n \in Group /\ Serving' = Serving \cup {n} /\ Group' = Group
         \/ /\ n \in Group /\ Serving = Group
            /\ Group' = Group \ {n} /\ Serving' = Serving \ {n}
<1>1. /\ Frame(n) /\ (\A j \in Nodes \ {n} : Settled(j))
      /\ View(n) /\ NoRevival
  BY CleanSteps DEF CleanStep
<1>2. \A j : j # n => /\ j \in Group <=> j \in Serving
                      /\ j \in Group' <=> j \in Group
                      /\ j \in Serving' <=> j \in Serving
  BY <1>1, OthersGroup
<1>3. /\ n \in Group <=> InGroup(n)
      /\ n \in Group' <=> InGroup(n)'
      /\ n \in Serving <=> InServing(n)
      /\ n \in Serving' <=> InServing(n)'
      /\ Group = {} <=> Current = {}
  BY OwnGroup
<1>4. (InServing(n) => InGroup(n)) /\ (InServing(n)' => InGroup(n)')
  BY DEF InServing, InGroup
<1>5. /\ \A S : (\A j : j \in S <=> j \in Group) => S = Group
      /\ \A S : (\A j : j \in S <=> j \in Serving) => S = Serving
      /\ \A S : (\A j : j \in S <=> j \in Group') => S = Group'
      /\ \A S : (\A j : j \in S <=> j \in Serving') => S = Serving'
  BY DEF Group, Serving
<1>6. CASE (InGroup(n)' <=> InGroup(n)) /\ (InServing(n)' <=> InServing(n))
  <2>1. Group' = Group
    BY <1>2, <1>3, <1>5, <1>6
  <2>2. Serving' = Serving
    BY <1>2, <1>3, <1>5, <1>6
  <2> QED
    BY <2>1, <2>2
<1>7. CASE Current = {} /\ InGroup(n)' /\ InServing(n)'
  <2>1. Group = {}
    BY <1>3, <1>7
  <2>2. {n} = Group'
    BY <1>2, <1>3, <1>5, <1>7, <2>1
  <2>3. {n} = Serving'
    BY <1>2, <1>3, <1>5, <1>7, <2>1
  <2> QED
    BY <2>1, <2>2, <2>3
<1>8. CASE Current # {} /\ ~InGroup(n) /\ InGroup(n)' /\ ~InServing(n)'
  <2>1. Group = Serving
    BY <1>2, <1>3, <1>4, <1>5, <1>8
  <2>2. Group \cup {n} = Group'
    BY <1>2, <1>3, <1>5, <1>8
  <2>3. Serving' = Serving
    BY <1>2, <1>3, <1>4, <1>5, <1>8
  <2> QED
    BY <1>3, <1>8, <2>1, <2>2, <2>3
<1>9. CASE InGroup(n) /\ InGroup(n)' /\ InServing(n)'
  <2>1. Group' = Group
    BY <1>2, <1>3, <1>5, <1>9
  <2>2. Serving \cup {n} = Serving'
    BY <1>2, <1>3, <1>5, <1>9
  <2> QED
    BY <1>3, <1>9, <2>1, <2>2
<1>10. CASE InServing(n) /\ ~InGroup(n)' /\ ~InServing(n)'
  <2>1. Group = Serving
    BY <1>2, <1>3, <1>4, <1>5, <1>10
  <2>2. Group \ {n} = Group'
    BY <1>2, <1>3, <1>5, <1>10
  <2>3. Serving \ {n} = Serving'
    BY <1>2, <1>3, <1>5, <1>10
  <2> QED
    BY <1>3, <1>4, <1>10, <2>1, <2>2, <2>3
<1> QED
  BY <1>1, <1>6, <1>7, <1>8, <1>9, <1>10 DEF View

\* While BOSH updates one node at a time and nothing fails, all that etcdfab,
\* etcd and monit do amounts to the abstract group: a node is admitted only
\* while all others serve, serves before anything else changes, and leaves the
\* member list and the serving nodes at once.
THEOREM RefinesMembership ==
  ASSUME CleanSerial
  PROVE  Spec => ImplementsMembership
<1>1. Init => CleanInv
  BY CleanInit
<1>2. CleanInv /\ [Next]_vars => CleanInv'
  BY CleanNext
<1>3. Init => Abstract!Init
  <2>1. Init => Current = {}
    BY DEF Init, EtcdInit, Current
  <2> QED
    BY <2>1 DEF Abstract!Init
<1>4. CleanInv /\ [Next]_vars => [Abstract!Next]_<<Group, Serving>>
  <2>1. SUFFICES ASSUME CleanInv, [Next]_vars
                 PROVE  [Abstract!Next]_<<Group, Serving>>
    OBVIOUS
  <2>2. CASE UNCHANGED vars
    <3>1. members' = members /\ proc' = proc
      BY <2>2 DEF vars, etcdVars
    <3>2. Responding' = Responding /\ \A m : Serves(m)' <=> Serves(m)
      BY <3>1 DEF Responding, Serves, Running
    <3>3. Current' = Current
      BY <3>1, <3>2 DEF Current
    <3> QED
      BY <3>2, <3>3 DEF Group, Serving
  <2>3. ASSUME NEW n \in Nodes, NodeStep(n)
        PROVE  Abstract!Next \/ (Group' = Group /\ Serving' = Serving)
    <3>1. \/ Group' = Group /\ Serving' = Serving
          \/ Abstract!Found(n) \/ Abstract!Admit(n) \/ Abstract!Serve(n) \/ Abstract!Withdraw(n)
      BY <2>1, <2>3, GroupStep
         DEF Group, Serving, Abstract!Found, Abstract!Admit, Abstract!Serve, Abstract!Withdraw
    <3> QED
      BY <3>1 DEF Abstract!Next
  <2> QED
    BY <2>1, <2>2, <2>3 DEF Next, NodeStep
<1> QED
  BY <1>1, <1>2, <1>3, <1>4, PTL DEF Spec, ImplementsMembership, Abstract!Spec, Group, Serving
=============================================================================
