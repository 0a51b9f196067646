--------------------------- MODULE EtcdFabProofs ---------------------------
(***************************************************************************)
(* Theorems about EtcdFab for any number of nodes and starts, any bounds   *)
(* of the retry loops and any set of faults.  The inductive invariant is   *)
(*                                                                         *)
(*    TypeOK /\ PidFileOfLastStart /\ Identities /\ LastStartHasData       *)
(*                                                                         *)
(* Type correctness needs PidFileOfLastStart (the id of an added member is *)
(* made of a start that was counted); the identities need the types; and   *)
(* the data of the last start needs the pid file.                          *)
(***************************************************************************)
EXTENDS EtcdFab, TLAPS

\* The process records that the actions write are processes.
LEMMA ProcessTypes ==
  /\ NoProcess \in Process
  /\ DeadProcess \in Process
  /\ \A i \in Ident : RunningAs(i) \in Process
  /\ \A s \in {"new", "existing"} : \A e \in SUBSET Entry : Booting(s, e) \in Process
BY DEF NoProcess, DeadProcess, RunningAs, Booting, Process

\* A running process has an identity.
LEMMA RunningIdent ==
  ASSUME EtcdTypeOK, NEW n \in Nodes, NEW k \in Starts, Running(n, k)
  PROVE  proc[n][k].ident \in Ident
<1>1. proc[n][k] \in Process
  BY DEF EtcdTypeOK
<1> QED
  BY <1>1 DEF Process, Running

\* The state of the process records that the actions write.
LEMMA ProcessStates ==
  /\ DeadProcess.st = "dead"
  /\ NoProcess.st = "none"
  /\ \A i : RunningAs(i).st = "run" /\ RunningAs(i).ident = i
  /\ \A s, e : Booting(s, e).st = "boot"
BY DEF NoProcess, DeadProcess, RunningAs, Booting

\* What etcdfab passes as --initial-cluster is a set of entries.
LEMMA InitialMembersType ==
  ASSUME TypeOK, NEW n \in Nodes
  PROVE  InitialMembers(n) \in SUBSET Entry
BY DEF TypeOK, InitialMembers, Entry, Member, EtcdTypeOK

\* The initial state satisfies the invariant.
LEMMA InitInv ==
  Init => TypeOK /\ PidFileOfLastStart /\ Identities /\ LastStartHasData
<1> SUFFICES ASSUME Init
             PROVE  TypeOK /\ PidFileOfLastStart /\ Identities /\ LastStartHasData
  OBVIOUS
<1> USE ConstantsAssumption, FabAssumption DEF Init, EtcdInit
<1>1. TypeOK
  BY ProcessTypes DEF TypeOK, EtcdTypeOK, PCs, StartPCs, Starts
<1>2. PidFileOfLastStart
  BY DEF PidFileOfLastStart, StartPCs
<1>3. Identities
  BY ProcessStates DEF Identities, Running
<1>4. LastStartHasData
  BY DEF LastStartHasData, Watched
<1> QED
  BY <1>1, <1>2, <1>3, <1>4

-----------------------------------------------------------------------------
\* An update of one process keeps the type of proc.
LEMMA ProcUpdate ==
  ASSUME proc \in [Nodes -> [Starts -> Process]],
         NEW n \in Nodes, NEW k, NEW p \in Process
  PROVE  [proc EXCEPT ![n][k] = p] \in [Nodes -> [Starts -> Process]]
OBVIOUS

\* The steps of etcd keep the types.
LEMMA EtcdTypeNext ==
  ASSUME EtcdTypeOK, NEW n \in Nodes, NEW k \in Starts,
         EtcdStep(n, k) \/ Crash(n, k)
  PROVE  EtcdTypeOK'
<1> USE DEF EtcdTypeOK
<1>0. <<n, k>> \in Id
  BY DEF Id
<1>1. CASE BootPortTaken(n, k)
  BY <1>1, ProcUpdate, ProcessTypes DEF BootPortTaken
<1>2. CASE BootFromDisk(n, k)
  <2>1. data[n] \in Ident
    BY <1>2 DEF BootFromDisk
  <2> QED
    BY <1>2, <2>1, ProcUpdate, ProcessTypes DEF BootFromDisk
<1>3. CASE BootNew(n, k)
  <2> DEFINE ident == [cluster |-> <<n, k>>, id |-> <<n, k>>]
  <2>1. ident \in Ident
    BY <1>0 DEF Ident
  <2>2. [cluster |-> <<n, k>>, id |-> <<n, k>>, url |-> n, name |-> n] \in Member
    BY <1>0 DEF Member
  <2>3. members' \in SUBSET Member
    BY <1>3, <2>2 DEF BootNew
  <2>4. data' \in [Nodes -> Ident \cup {NoIdent}]
    BY <1>3, <2>1 DEF BootNew
  <2>5. proc' \in [Nodes -> [Starts -> Process]]
    BY <1>3, <2>1, ProcUpdate, ProcessTypes DEF BootNew
  <2> QED
    BY <2>3, <2>4, <2>5
<1>4. CASE BootExisting(n, k)
  <2>1. PICK m \in members :
          /\ data' = [data EXCEPT ![n] = [cluster |-> m.cluster, id |-> m.id]]
          /\ proc' = [proc EXCEPT ![n][k] =
                        RunningAs([cluster |-> m.cluster, id |-> m.id])]
    BY <1>4 DEF BootExisting
  <2>2. [cluster |-> m.cluster, id |-> m.id] \in Ident
    BY DEF Ident, Member
  <2>3. members' = members
    BY <1>4 DEF BootExisting
  <2> QED
    BY <2>1, <2>2, <2>3, ProcUpdate, ProcessTypes
<1>5. CASE BootRejected(n, k)
  BY <1>5, ProcUpdate, ProcessTypes DEF BootRejected
<1>6. CASE Publish(n, k)
  <2>1. PICK m \in members :
          members' = (members \ {m}) \cup {[m EXCEPT !.name = n]}
    BY <1>6 DEF Publish
  <2>2. [m EXCEPT !.name = n] \in Member
    BY DEF Member
  <2> QED
    BY <1>6, <2>1, <2>2 DEF Publish
<1>7. CASE StopRemoved(n, k)
  BY <1>7, ProcUpdate, ProcessTypes DEF StopRemoved
<1>8. CASE Crash(n, k)
  BY <1>8, ProcUpdate, ProcessTypes DEF Crash
<1> QED
  BY <1>1, <1>2, <1>3, <1>4, <1>5, <1>6, <1>7, <1>8 DEF EtcdStep

-----------------------------------------------------------------------------
\* The steps of etcdfab and its environment keep the types.
LEMMA TypeNext ==
  ASSUME TypeOK, PidFileOfLastStart, [Next]_vars
  PROVE  TypeOK'
<1> USE DEF TypeOK, PCs, StartPCs, Goto, Exit
<1>1. CASE UNCHANGED vars
  BY <1>1 DEF vars, etcdVars, fabVars, EtcdTypeOK
<1>2. ASSUME NEW n \in Nodes, CtlStart(n) \/ MonitRestart(n)
      PROVE  TypeOK'
  <2>1. GuardedStart(n) /\ op' \in [Nodes -> {"start", "stop"}]
    BY <1>2 DEF CtlStart, MonitRestart
  <2>2. starts[n] + 1 \in 0 .. MaxStarts
    BY <2>1, ConstantsAssumption DEF GuardedStart
  <2>3. starts' \in [Nodes -> 0 .. MaxStarts]
    BY <2>1, <2>2 DEF GuardedStart
  <2>4. pc' \in [Nodes -> PCs] /\ pidfile' \in [Nodes -> Starts \cup {NoPid}]
    BY <2>1 DEF GuardedStart
  <2>5. UNCHANGED <<members, data, proc, tries, prior, target>>
    BY <2>1 DEF GuardedStart, etcdVars
  <2> QED
    BY <2>1, <2>3, <2>4, <2>5 DEF EtcdTypeOK
<1>3. ASSUME NEW n \in Nodes, CtlStop(n)
      PROVE  TypeOK'
  BY <1>3 DEF CtlStop, EtcdTypeOK, etcdVars
<1>4. ASSUME NEW n \in Nodes, FabStep(n)
      PROVE  TypeOK'
  <2>1. CASE PriorMembers(n)
    <3>1. PICK c \in Responding :
            prior' = [prior EXCEPT ![n] = MembersOf(c)] /\ pc'[n] \in PCs
      BY <2>1 DEF PriorMembers
    <3>2. MembersOf(c) \in SUBSET Member
      BY DEF MembersOf, EtcdTypeOK
    <3> QED
      BY <2>1, <3>1, <3>2 DEF PriorMembers, EtcdTypeOK, etcdVars
  <2>2. CASE PriorMembersFail(n)
    <3>1. \/ tries' = [tries EXCEPT ![n] = 0] /\ Goto(n, "spawn")
          \/ tries' = [tries EXCEPT ![n] = @ + 1] /\ UNCHANGED pc
      BY <2>2, Zenon DEF PriorMembersFail
    <3>2. tries' \in [Nodes -> Nat] /\ pc' \in [Nodes -> PCs]
      BY <3>1
    <3> QED
      BY <2>2, <3>2 DEF PriorMembersFail, EtcdTypeOK, etcdVars
  <2>3. ASSUME NEW c \in Responding, AddsMember(n, c), pc[n] = "add"
        PROVE  EtcdTypeOK'
    <3>1. <<n, starts[n]>> \in Id
      BY <2>3 DEF PidFileOfLastStart, Id
    <3>2. c \in Id
      <4>1. PICK i \in Id :
              Running(i[1], i[2]) /\ c = proc[i[1]][i[2]].ident.cluster
        BY DEF Responding
      <4>2. proc[i[1]][i[2]].ident \in Ident
        BY <4>1, RunningIdent DEF Id
      <4> QED
        BY <4>1, <4>2 DEF Ident
    <3>3. [cluster |-> c, id |-> <<n, starts[n]>>, url |-> n, name |-> NoNode]
            \in Member
      BY <3>1, <3>2 DEF Member
    <3> QED
      BY <2>3, <3>3 DEF AddsMember, EtcdTypeOK
  <2>4. CASE AddSelf(n)
    BY <2>4, <2>3 DEF AddSelf
  <2>5. CASE AddSelfFails(n)
    BY <2>5, <2>3 DEF AddSelfFails, EtcdTypeOK, etcdVars
  <2>6. CASE Spawn(n)
    <3>1. Booting(InitialState(n), InitialMembers(n)) \in Process
      BY ProcessTypes, InitialMembersType DEF InitialState
    <3>2. proc' \in [Nodes -> [Starts -> Process]]
      BY <2>6, <3>1, ProcUpdate DEF Spawn, EtcdTypeOK
    <3> QED
      BY <2>6, <3>2 DEF Spawn, EtcdTypeOK
  <2>7. CASE SpawnFails(n) \/ WritePidFileFails(n)
    <3>1. Exit(n) /\ UNCHANGED <<etcdVars, op, starts, pidfile>>
      BY <2>7 DEF SpawnFails, WritePidFileFails
    <3> QED
      BY <3>1 DEF EtcdTypeOK, etcdVars
  <2>8. CASE VerifySynced(n)
    BY <2>8 DEF VerifySynced, EtcdTypeOK, etcdVars
  <2>9. CASE VerifySyncedFails(n)
    BY <2>9 DEF VerifySyncedFails, EtcdTypeOK, etcdVars
  <2>10. CASE WritePidFile(n)
    BY <2>10 DEF WritePidFile, PidFileOfLastStart, EtcdTypeOK, etcdVars
  <2>11. CASE PriorClusterHadOtherNodes(n)
    BY <2>11 DEF PriorClusterHadOtherNodes, EtcdTypeOK, etcdVars
  <2>12. CASE FindSelf(n)
    BY <2>12 DEF FindSelf, SelfByName, MembersOf, Member, EtcdTypeOK, etcdVars
  <2>13. CASE RemoveSelf(n)
    <3>1. EtcdTypeOK'
      BY <2>13 DEF RemoveSelf, RemovesMember, EtcdTypeOK, etcdVars
    <3> QED
      BY <2>13, <3>1 DEF RemoveSelf
  <2>14. CASE RemoveDataDir(n)
    BY <2>14 DEF RemoveDataDir, EtcdTypeOK
  <2>15. CASE Kill(n)
    <3>1. proc' \in [Nodes -> [Starts -> Process]]
      <4>1. \/ proc' = proc
            \/ proc' = [proc EXCEPT ![n][pidfile[n]] = DeadProcess]
        BY <2>15 DEF Kill
      <4>2. [proc EXCEPT ![n][pidfile[n]] = DeadProcess]
              \in [Nodes -> [Starts -> Process]]
        BY ProcUpdate, ProcessTypes DEF EtcdTypeOK
      <4> QED
        BY <4>1, <4>2 DEF EtcdTypeOK
    <3>2. pidfile' \in [Nodes -> Starts \cup {NoPid}]
      BY <2>15 DEF Kill
    <3> QED
      BY <2>15, <3>1, <3>2 DEF Kill, EtcdTypeOK
  <2> QED
    BY <1>4, <2>1, <2>2, <2>4, <2>5, <2>6, <2>7, <2>8, <2>9, <2>10, <2>11,
       <2>12, <2>13, <2>14, <2>15 DEF FabStep
<1>5. ASSUME NEW n \in Nodes, StartTimesOut(n)
      PROVE  TypeOK'
  <2>1. proc' \in [Nodes -> [Starts -> Process]]
    <3>1. \/ proc' = proc
          \/ proc' = [proc EXCEPT ![n][starts[n]] = DeadProcess]
      BY <1>5 DEF StartTimesOut
    <3>2. [proc EXCEPT ![n][starts[n]] = DeadProcess]
            \in [Nodes -> [Starts -> Process]]
      BY ProcUpdate, ProcessTypes DEF EtcdTypeOK
    <3> QED
      BY <3>1, <3>2 DEF EtcdTypeOK
  <2> QED
    BY <1>5, <2>1 DEF StartTimesOut, EtcdTypeOK
<1>6. ASSUME NEW n \in Nodes, NodeEtcdStep(n) \/ NodeCrash(n)
      PROVE  TypeOK'
  <2>1. EtcdTypeOK'
    BY <1>6, EtcdTypeNext DEF NodeEtcdStep, NodeCrash
  <2> QED
    BY <1>6, <2>1 DEF NodeEtcdStep, NodeCrash, fabVars
<1> QED
  BY <1>1, <1>2, <1>3, <1>4, <1>5, <1>6 DEF Next

-----------------------------------------------------------------------------
\* A start clears the pid file and only its last step writes it.
LEMMA PidFileNext ==
  ASSUME TypeOK, PidFileOfLastStart, [Next]_vars
  PROVE  PidFileOfLastStart'
<1> USE DEF TypeOK, PidFileOfLastStart, PCs, StartPCs, Goto, Exit
<1>1. CASE UNCHANGED vars
  BY <1>1 DEF vars, fabVars
<1>2. ASSUME NEW n \in Nodes, CtlStart(n) \/ MonitRestart(n)
      PROVE  PidFileOfLastStart'
  BY <1>2, ConstantsAssumption DEF CtlStart, MonitRestart, GuardedStart, Starts
<1>3. ASSUME NEW n \in Nodes, CtlStop(n)
      PROVE  PidFileOfLastStart'
  BY <1>3 DEF CtlStop
<1>4. ASSUME NEW n \in Nodes, FabStep(n)
      PROVE  PidFileOfLastStart'
  <2>1. CASE PriorMembers(n)
    BY <2>1 DEF PriorMembers
  <2>2. CASE PriorMembersFail(n)
    BY <2>2 DEF PriorMembersFail
  <2>3. CASE AddSelf(n) \/ AddSelfFails(n)
    BY <2>3 DEF AddSelf, AddSelfFails
  <2>4. CASE Spawn(n) \/ SpawnFails(n)
    BY <2>4 DEF Spawn, SpawnFails
  <2>5. CASE VerifySynced(n) \/ VerifySyncedFails(n)
    BY <2>5 DEF VerifySynced, VerifySyncedFails
  <2>6. CASE WritePidFile(n) \/ WritePidFileFails(n)
    BY <2>6 DEF WritePidFile, WritePidFileFails
  <2>7. CASE PriorClusterHadOtherNodes(n)
    BY <2>7 DEF PriorClusterHadOtherNodes
  <2>8. CASE FindSelf(n) \/ RemoveSelf(n) \/ RemoveDataDir(n)
    BY <2>8 DEF FindSelf, RemoveSelf, RemoveDataDir
  <2>9. CASE Kill(n)
    BY <2>9 DEF Kill
  <2> QED
    BY <1>4, <2>1, <2>2, <2>3, <2>4, <2>5, <2>6, <2>7, <2>8, <2>9 DEF FabStep
<1>5. ASSUME NEW n \in Nodes, StartTimesOut(n)
      PROVE  PidFileOfLastStart'
  BY <1>5 DEF StartTimesOut
<1>6. ASSUME NEW n \in Nodes, NodeEtcdStep(n) \/ NodeCrash(n)
      PROVE  PidFileOfLastStart'
  BY <1>6 DEF NodeEtcdStep, NodeCrash, fabVars
<1> QED
  BY <1>1, <1>2, <1>3, <1>4, <1>5, <1>6 DEF Next

\* Type correctness: every reachable state of EtcdFab, whatever its constants,
\* has the types of TypeOK; in particular a member never gets an id that no
\* start handed out, and the pid file never holds anything but such a pid.
THEOREM TypeCorrect == Spec => []TypeOK
<1>1. Init => TypeOK /\ PidFileOfLastStart
  BY InitInv
<1>2. TypeOK /\ PidFileOfLastStart /\ [Next]_vars => TypeOK' /\ PidFileOfLastStart'
  BY TypeNext, PidFileNext
<1> QED
  BY <1>1, <1>2, PTL DEF Spec

-----------------------------------------------------------------------------
\* After an update of one process all the others are as before.
LEMMA ProcOthers ==
  ASSUME proc \in [Nodes -> [Starts -> Process]],
         NEW n \in Nodes, NEW k \in Starts, NEW p,
         proc' = [proc EXCEPT ![n][k] = p]
  PROVE  /\ proc'[n][k] = p
         /\ \A m \in Nodes, j \in Starts :
               <<m, j>> # <<n, k>> => proc'[m][j] = proc[m][j]
OBVIOUS

\* A process that ends keeps the identities.
LEMMA IdentitiesOfDead ==
  ASSUME TypeOK, Identities, NEW n \in Nodes, NEW k \in Starts,
         proc' = [proc EXCEPT ![n][k] = DeadProcess],
         members' = members, data' = data,
         \A m \in Nodes : target'[m] \in {target[m], NoId}
  PROVE  Identities'
<1>1. \A m \in Nodes, j \in Starts : Running(m, j)' =>
        Running(m, j) /\ proc'[m][j] = proc[m][j]
  BY ProcOthers, ProcessStates DEF Running, TypeOK, EtcdTypeOK
<1> QED
  BY <1>1 DEF Identities

\* A process that begins to run as a member of its own node keeps them.
LEMMA IdentitiesOfRunning ==
  ASSUME TypeOK, Identities, NEW n \in Nodes, NEW k \in Starts,
         NEW ident \in Ident, ident.id[1] = n,
         proc' = [proc EXCEPT ![n][k] = RunningAs(ident)],
         data' = [data EXCEPT ![n] = ident],
         \A m \in members' : m.id[1] = m.url /\ m.name \in {m.url, NoNode},
         target' = target
  PROVE  Identities'
<1>1. \A m \in Nodes, j \in Starts : Running(m, j)' =>
        \/ Running(m, j) /\ proc'[m][j] = proc[m][j]
        \/ m = n /\ proc'[m][j].ident = ident
  BY ProcOthers, ProcessStates DEF Running, TypeOK, EtcdTypeOK
<1>2. \A m \in Nodes, j \in Starts : Running(m, j)' =>
        proc'[m][j].ident # NoIdent /\ proc'[m][j].ident.id[1] = m
  BY <1>1, NullsAssumption DEF Identities
<1>3. \A m \in Nodes : data'[m] # NoIdent => data'[m].id[1] = m
  BY DEF Identities, TypeOK, EtcdTypeOK
<1> QED
  BY <1>2, <1>3 DEF Identities

\* The steps of etcd keep the identities.
LEMMA EtcdIdentities ==
  ASSUME TypeOK, Identities, NEW n \in Nodes, NEW k \in Starts,
         EtcdStep(n, k) \/ Crash(n, k), UNCHANGED fabVars
  PROVE  Identities'
<1>0. target' = target
  BY DEF fabVars
<1>1. CASE \/ BootPortTaken(n, k) \/ BootRejected(n, k)
           \/ StopRemoved(n, k) \/ Crash(n, k)
  BY <1>0, <1>1, IdentitiesOfDead
     DEF BootPortTaken, BootRejected, StopRemoved, Crash
<1>2. CASE BootFromDisk(n, k)
  <2>1. data[n] \in Ident /\ data[n].id[1] = n
    BY <1>2 DEF BootFromDisk, Identities, TypeOK, EtcdTypeOK
  <2>2. /\ proc' = [proc EXCEPT ![n][k] = RunningAs(data[n])]
        /\ data' = [data EXCEPT ![n] = data[n]]
        /\ members' = members
    BY <1>2 DEF BootFromDisk, TypeOK, EtcdTypeOK
  <2>3. \A m \in members' : m.id[1] = m.url /\ m.name \in {m.url, NoNode}
    BY <2>2 DEF Identities
  <2> QED
    BY <1>0, <2>1, <2>2, <2>3, IdentitiesOfRunning
<1>3. CASE BootNew(n, k)
  <2> DEFINE ident == [cluster |-> <<n, k>>, id |-> <<n, k>>]
  <2>1. ident \in Ident /\ ident.id[1] = n
    BY DEF Ident, Id
  <2>2. /\ proc' = [proc EXCEPT ![n][k] = RunningAs(ident)]
        /\ data' = [data EXCEPT ![n] = ident]
        /\ members' = members \cup
              {[cluster |-> <<n, k>>, id |-> <<n, k>>, url |-> n, name |-> n]}
    BY <1>3 DEF BootNew
  <2>3. \A m \in members' : m.id[1] = m.url /\ m.name \in {m.url, NoNode}
    BY <2>2 DEF Identities
  <2> HIDE DEF ident
  <2> QED
    BY <1>0, <2>1, <2>2, <2>3, IdentitiesOfRunning
<1>4. CASE BootExisting(n, k)
  <2>1. PICK m \in members :
          /\ m.url = n
          /\ data' = [data EXCEPT ![n] = [cluster |-> m.cluster, id |-> m.id]]
          /\ proc' = [proc EXCEPT ![n][k] =
                        RunningAs([cluster |-> m.cluster, id |-> m.id])]
    BY <1>4 DEF BootExisting
  <2> DEFINE ident == [cluster |-> m.cluster, id |-> m.id]
  <2>2. ident \in Ident /\ ident.id[1] = n
    BY <2>1 DEF Ident, Member, Identities, TypeOK, EtcdTypeOK
  <2>3. \A x \in members' : x.id[1] = x.url /\ x.name \in {x.url, NoNode}
    BY <1>4 DEF BootExisting, Identities
  <2>4. /\ proc' = [proc EXCEPT ![n][k] = RunningAs(ident)]
        /\ data' = [data EXCEPT ![n] = ident]
    BY <2>1
  <2> HIDE DEF ident
  <2> QED
    BY <1>0, <2>2, <2>3, <2>4, IdentitiesOfRunning
<1>5. CASE Publish(n, k)
  <2>1. PICK m \in members :
          /\ m.id = proc[n][k].ident.id
          /\ members' = (members \ {m}) \cup {[m EXCEPT !.name = n]}
    BY <1>5 DEF Publish
  <2>2. m.url = n
    BY <1>5, <2>1 DEF Publish, Identities
  <2> DEFINE named == [m EXCEPT !.name = n]
  <2>3. named.id = m.id /\ named.url = m.url /\ named.name = n
    BY DEF Member, TypeOK, EtcdTypeOK
  <2>4. members' = (members \ {m}) \cup {named}
    BY <2>1
  <2> HIDE DEF named
  <2>6. \A x \in members' : x.id[1] = x.url /\ x.name \in {x.url, NoNode}
    BY <2>2, <2>3, <2>4 DEF Identities
  <2>5. UNCHANGED <<data, proc>>
    BY <1>5 DEF Publish
  <2> QED
    BY <1>0, <2>5, <2>6 DEF Identities, Running
<1> QED
  BY <1>1, <1>2, <1>3, <1>4, <1>5 DEF EtcdStep

\* All steps keep the identities.
LEMMA IdentitiesNext ==
  ASSUME TypeOK, PidFileOfLastStart, Identities, [Next]_vars
  PROVE  Identities'
<1>0. ASSUME UNCHANGED etcdVars,
             \A m \in Nodes : target'[m] \in {target[m], NoId}
      PROVE  Identities'
  BY <1>0 DEF Identities, Running, etcdVars
<1>1. CASE UNCHANGED vars
  BY <1>0, <1>1 DEF vars, fabVars, TypeOK
<1>2. ASSUME NEW n \in Nodes, CtlStart(n) \/ MonitRestart(n) \/ CtlStop(n)
      PROVE  Identities'
  BY <1>0, <1>2 DEF CtlStart, MonitRestart, GuardedStart, CtlStop
<1>3. ASSUME NEW n \in Nodes, FabStep(n)
      PROVE  Identities'
  <2>1. CASE PriorMembers(n) \/ PriorMembersFail(n)
    BY <1>0, <2>1 DEF PriorMembers, PriorMembersFail
  <2>2. ASSUME NEW c \in Responding, AddsMember(n, c),
               \A m \in Nodes : target'[m] \in {target[m], NoId}
        PROVE  Identities'
    <3> DEFINE added ==
          [cluster |-> c, id |-> <<n, starts[n]>>, url |-> n, name |-> NoNode]
    <3>1. added.id[1] = added.url /\ added.name = NoNode
      OBVIOUS
    <3>2. members' = members \cup {added} /\ UNCHANGED <<data, proc>>
      BY <2>2 DEF AddsMember
    <3> HIDE DEF added
    <3> QED
      BY <2>2, <3>1, <3>2 DEF Identities, Running
  <2>3. CASE AddSelf(n) \/ AddSelfFails(n)
    <3>1. \A m \in Nodes : target'[m] \in {target[m], NoId}
      BY <2>3 DEF AddSelf, AddSelfFails, Exit, TypeOK
    <3> QED
      BY <1>0, <2>2, <2>3, <3>1 DEF AddSelf, AddSelfFails
  <2>4. CASE Spawn(n)
    <3>1. PICK s, e : proc' = [proc EXCEPT ![n][starts[n]] = Booting(s, e)]
      BY <2>4 DEF Spawn
    <3>2. starts[n] \in Starts
      BY <2>4 DEF Spawn, PidFileOfLastStart, StartPCs
    <3>3. \A m \in Nodes, j \in Starts : Running(m, j)' =>
            Running(m, j) /\ proc'[m][j] = proc[m][j]
      BY <3>1, <3>2, ProcOthers, ProcessStates DEF Running, TypeOK, EtcdTypeOK
    <3> QED
      BY <2>4, <3>3 DEF Spawn, Identities
  <2>5. CASE SpawnFails(n) \/ WritePidFile(n) \/ WritePidFileFails(n)
    <3>1. Exit(n) /\ UNCHANGED etcdVars
      BY <2>5 DEF SpawnFails, WritePidFile, WritePidFileFails
    <3> QED
      BY <1>0, <3>1 DEF Exit, TypeOK
  <2>6. CASE VerifySynced(n) \/ VerifySyncedFails(n)
    BY <1>0, <2>6 DEF VerifySynced, VerifySyncedFails
  <2>7. CASE PriorClusterHadOtherNodes(n)
    BY <1>0, <2>7 DEF PriorClusterHadOtherNodes
  <2>8. CASE FindSelf(n)
    <3>1. ASSUME NEW m \in members, m.name = n
          PROVE  m.id[1] = n
      BY <3>1, ConstantsAssumption DEF Identities
    <3>2. PICK i : target' = [target EXCEPT ![n] = i] /\ (i # NoId => i[1] = n)
      BY <2>8, <3>1 DEF FindSelf, SelfByName, MembersOf
    <3> QED
      BY <2>8, <3>2 DEF FindSelf, Identities, Running, etcdVars, TypeOK
  <2>9. CASE RemoveSelf(n)
    <3>1. members' \in SUBSET members /\ UNCHANGED <<data, proc, target>>
      BY <2>9 DEF RemoveSelf, RemovesMember, etcdVars
    <3> QED
      BY <3>1 DEF Identities, Running
  <2>10. CASE RemoveDataDir(n)
    BY <2>10 DEF RemoveDataDir, Identities, Running, TypeOK, EtcdTypeOK
  <2>11. CASE Kill(n)
    <3>1. \A m \in Nodes : target'[m] \in {target[m], NoId}
      BY <2>11 DEF Kill, Exit, TypeOK
    <3>2. CASE PidAlive(n)
      <4>1. /\ proc' = [proc EXCEPT ![n][pidfile[n]] = DeadProcess]
            /\ members' = members /\ data' = data
        BY <2>11, <3>2 DEF Kill
      <4>2. pidfile[n] \in Starts
        BY <3>2 DEF PidAlive, TypeOK
      <4> QED
        BY <3>1, <4>1, <4>2, IdentitiesOfDead
    <3>3. CASE ~PidAlive(n)
      BY <1>0, <2>11, <3>1, <3>3 DEF Kill, etcdVars
    <3> QED
      BY <3>2, <3>3
  <2> QED
    BY <1>3, <2>1, <2>3, <2>4, <2>5, <2>6, <2>7, <2>8, <2>9, <2>10, <2>11
       DEF FabStep
<1>4. ASSUME NEW n \in Nodes, StartTimesOut(n)
      PROVE  Identities'
  <2>1. \A m \in Nodes : target'[m] \in {target[m], NoId}
    BY <1>4 DEF StartTimesOut, Exit, TypeOK
  <2>2. members' = members /\ data' = data
    BY <1>4 DEF StartTimesOut
  <2>3. starts[n] \in Starts
    BY <1>4 DEF StartTimesOut, PidFileOfLastStart
  <2>4. CASE proc' = proc
    BY <1>0, <2>1, <2>2, <2>4 DEF etcdVars
  <2>5. CASE proc' = [proc EXCEPT ![n][starts[n]] = DeadProcess]
    BY <2>1, <2>2, <2>3, <2>5, IdentitiesOfDead
  <2> QED
    BY <1>4, <2>4, <2>5 DEF StartTimesOut
<1>5. ASSUME NEW n \in Nodes, NodeEtcdStep(n) \/ NodeCrash(n)
      PROVE  Identities'
  BY <1>5, EtcdIdentities DEF NodeEtcdStep, NodeCrash
<1> QED
  BY <1>1, <1>2, <1>3, <1>4, <1>5 DEF Next

-----------------------------------------------------------------------------
\* A member id that is there stays there, or its own node removes it.
LEMMA RemovesStep ==
  ASSUME TypeOK, Identities, [Next]_vars, NEW m \in members
  PROVE  \/ m.id \in {x.id : x \in members'}
         \/ pc[m.url] = "rm" /\ target[m.url] = m.id
<1>0. ASSUME members \subseteq members'
      PROVE  m.id \in {x.id : x \in members'}
  BY <1>0
<1>1. CASE UNCHANGED vars
  BY <1>0, <1>1 DEF vars, etcdVars
<1>2. ASSUME NEW n \in Nodes,
             CtlStart(n) \/ MonitRestart(n) \/ CtlStop(n) \/ StartTimesOut(n)
      PROVE  m.id \in {x.id : x \in members'}
  BY <1>0, <1>2
     DEF CtlStart, MonitRestart, GuardedStart, CtlStop, StartTimesOut, etcdVars
<1>3. ASSUME NEW n \in Nodes, RemoveSelf(n)
      PROVE  \/ m.id \in {x.id : x \in members'}
             \/ pc[m.url] = "rm" /\ target[m.url] = m.id
  <2>1. CASE UNCHANGED etcdVars
    BY <1>0, <2>1 DEF etcdVars
  <2>2. ASSUME NEW c \in Responding, RemovesMember(n, c)
        PROVE  \/ m \in members'
               \/ pc[m.url] = "rm" /\ target[m.url] = m.id
    <3>1. PICK x \in members : x.id = target[n] /\ members' = members \ {x}
      BY <2>2 DEF RemovesMember, MembersOf
    <3>2. x.id # NoId /\ x.id[1] = x.url
      BY NullsAssumption DEF Identities, TypeOK, EtcdTypeOK, Member
    <3>3. x.url = n
      BY <3>1, <3>2 DEF Identities
    <3> QED
      BY <1>3, <3>1, <3>3 DEF RemoveSelf
  <2> QED
    BY <1>3, <2>1, <2>2 DEF RemoveSelf
<1>4. ASSUME NEW n \in Nodes, FabStep(n), ~RemoveSelf(n)
      PROVE  m.id \in {x.id : x \in members'}
  <2>1. CASE AddSelf(n) \/ AddSelfFails(n)
    BY <1>0, <2>1 DEF AddSelf, AddSelfFails, AddsMember, etcdVars
  <2>2. CASE PriorMembers(n) \/ PriorMembersFail(n) \/ Spawn(n) \/ SpawnFails(n)
    BY <1>0, <2>2
       DEF PriorMembers, PriorMembersFail, Spawn, SpawnFails, etcdVars
  <2>3. CASE \/ VerifySynced(n) \/ VerifySyncedFails(n)
             \/ WritePidFile(n) \/ WritePidFileFails(n)
    BY <1>0, <2>3 DEF VerifySynced, VerifySyncedFails, WritePidFile,
                      WritePidFileFails, etcdVars
  <2>4. CASE \/ PriorClusterHadOtherNodes(n) \/ FindSelf(n)
             \/ RemoveDataDir(n) \/ Kill(n)
    BY <1>0, <2>4 DEF PriorClusterHadOtherNodes, FindSelf, RemoveDataDir,
                      Kill, etcdVars
  <2> QED
    BY <1>4, <2>1, <2>2, <2>3, <2>4 DEF FabStep
<1>5. ASSUME NEW n \in Nodes, NEW k \in Starts, EtcdStep(n, k) \/ Crash(n, k)
      PROVE  m.id \in {x.id : x \in members'}
  <2>1. CASE Publish(n, k)
    <3>1. PICK x \in members :
            members' = (members \ {x}) \cup {[x EXCEPT !.name = n]}
      BY <2>1 DEF Publish
    <3> DEFINE named == [x EXCEPT !.name = n]
    <3>2. named.id = x.id
      BY DEF Member, TypeOK, EtcdTypeOK
    <3>3. members' = (members \ {x}) \cup {named}
      BY <3>1
    <3> HIDE DEF named
    <3> QED
      BY <3>2, <3>3
  <2>2. CASE ~Publish(n, k)
    <3>1. members \subseteq members'
      BY <1>5, <2>2 DEF EtcdStep, Crash, BootPortTaken, BootFromDisk, BootNew,
                        BootExisting, BootRejected, StopRemoved
    <3> QED
      BY <1>0, <3>1
  <2> QED
    BY <2>1, <2>2
<1> QED
  BY <1>1, <1>2, <1>3, <1>4, <1>5 DEF Next, NodeEtcdStep, NodeCrash

\* For every set of nodes and every combination of failures, a member leaves
\* its cluster only by the MemberRemove of its own node: the id that
\* removeSelfFromCluster finds by name belongs to the URL that
\* GetInitialClusterState added.
THEOREM RemovalIsByOwner == Spec => RemovesOnlySelf
<1>1. Init => TypeOK /\ PidFileOfLastStart /\ Identities
  BY InitInv
<1>2. TypeOK /\ PidFileOfLastStart /\ Identities /\ [Next]_vars =>
        TypeOK' /\ PidFileOfLastStart' /\ Identities'
  BY TypeNext, PidFileNext, IdentitiesNext
<1>3. TypeOK /\ Identities /\ [Next]_vars =>
        [\A m \in members :
            m.id \notin {x.id : x \in members'} =>
               pc[m.url] = "rm" /\ target[m.url] = m.id]_vars
  BY RemovesStep
<1> QED
  BY <1>1, <1>2, <1>3, PTL DEF Spec, RemovesOnlySelf

-----------------------------------------------------------------------------
\* A watched process belongs to a start that was counted.
LEMMA WatchedStart ==
  ASSUME TypeOK, PidFileOfLastStart, NEW n \in Nodes, Watched(n)
  PROVE  starts[n] \in Starts
BY DEF TypeOK, PidFileOfLastStart, Watched, StartPCs

\* The steps that keep disks and start numbers, and of the processes let at
\* most one stop running, only have to watch no more than before.
LEMMA KeepsData ==
  ASSUME LastStartHasData, data' = data,
         \A m \in Nodes : Watched(m)' /\ Running(m, starts[m])' =>
            /\ Watched(m) /\ Running(m, starts[m])
            /\ proc'[m][starts'[m]] = proc[m][starts[m]]
  PROVE  LastStartHasData'
BY DEF LastStartHasData

\* The steps of etcd: a process writes the disk only while no other process
\* of the node runs, and then runs with what it wrote.
LEMMA EtcdKeepsData ==
  ASSUME TypeOK, PidFileOfLastStart, LastStartHasData,
         NEW n \in Nodes, NEW k \in Starts,
         EtcdStep(n, k) \/ Crash(n, k), UNCHANGED fabVars
  PROVE  LastStartHasData'
<1>0. /\ \A m \in Nodes : Watched(m)' <=> Watched(m)
      /\ starts' = starts
      /\ proc \in [Nodes -> [Starts -> Process]]
  BY DEF fabVars, Watched, TypeOK, EtcdTypeOK
<1>1. ASSUME proc' = [proc EXCEPT ![n][k] = DeadProcess], data' = data
      PROVE  LastStartHasData'
  <2>1. \A m \in Nodes, j \in Starts : Running(m, j)' =>
          Running(m, j) /\ proc'[m][j] = proc[m][j]
    BY <1>0, <1>1, ProcOthers, ProcessStates DEF Running
  <2> QED
    BY <1>0, <1>1, <2>1, WatchedStart, KeepsData
<1>2. ASSUME NEW ident, ~PortTaken(n, k),
             proc' = [proc EXCEPT ![n][k] = RunningAs(ident)],
             data' = [data EXCEPT ![n] = ident]
      PROVE  LastStartHasData'
  <2>1. \A j \in Starts : Running(n, j)' => proc'[n][j].ident = ident
    <3>1. \A j \in Starts \ {k} : proc'[n][j] = proc[n][j] /\ ~Running(n, j)
      BY <1>0, <1>2, ProcOthers DEF PortTaken
    <3> QED
      BY <1>0, <1>2, <3>1, ProcOthers, ProcessStates DEF Running
  <2>2. \A m \in Nodes \ {n}, j \in Starts : proc'[m][j] = proc[m][j]
    BY <1>0, <1>2, ProcOthers
  <2>3. data'[n] = ident /\ \A m \in Nodes \ {n} : data'[m] = data[m]
    BY <1>2 DEF TypeOK, EtcdTypeOK
  <2> QED
    BY <1>0, <2>1, <2>2, <2>3, WatchedStart DEF LastStartHasData, Running
<1>3. CASE \/ BootPortTaken(n, k) \/ BootRejected(n, k)
           \/ StopRemoved(n, k) \/ Crash(n, k)
  BY <1>1, <1>3 DEF BootPortTaken, BootRejected, StopRemoved, Crash
<1>4. CASE BootFromDisk(n, k)
  <2>1. data' = [data EXCEPT ![n] = data[n]]
    BY <1>4 DEF BootFromDisk, TypeOK, EtcdTypeOK
  <2> QED
    BY <1>2, <1>4, <2>1 DEF BootFromDisk
<1>5. CASE BootNew(n, k)
  <2> DEFINE ident == [cluster |-> <<n, k>>, id |-> <<n, k>>]
  <2>1. /\ ~PortTaken(n, k)
        /\ proc' = [proc EXCEPT ![n][k] = RunningAs(ident)]
        /\ data' = [data EXCEPT ![n] = ident]
    BY <1>5 DEF BootNew
  <2> HIDE DEF ident
  <2> QED
    BY <1>2, <2>1
<1>6. CASE BootExisting(n, k)
  BY <1>2, <1>6 DEF BootExisting
<1>7. CASE Publish(n, k)
  BY <1>0, <1>7, KeepsData DEF Publish, Running
<1> QED
  BY <1>3, <1>4, <1>5, <1>6, <1>7 DEF EtcdStep

\* All steps keep the data of the watched process.
LEMMA DataNext ==
  ASSUME TypeOK, PidFileOfLastStart, LastStartHasData, [Next]_vars
  PROVE  LastStartHasData'
<1> USE DEF Goto, Exit
<1>0. ASSUME UNCHANGED <<data, proc, starts>>,
             \A m \in Nodes : Watched(m)' => Watched(m)
      PROVE  LastStartHasData'
  BY <1>0, KeepsData DEF Running
<1>1. CASE UNCHANGED vars
  BY <1>0, <1>1 DEF vars, etcdVars, fabVars, Watched
<1>2. ASSUME NEW n \in Nodes, CtlStart(n) \/ MonitRestart(n)
      PROVE  LastStartHasData'
  <2>1. GuardedStart(n)
    BY <1>2 DEF CtlStart, MonitRestart
  <2>2. ~Watched(n)'
    BY <2>1 DEF GuardedStart, Watched, TypeOK
  <2>3. \A m \in Nodes \ {n} :
          starts'[m] = starts[m] /\ (Watched(m)' <=> Watched(m))
    BY <2>1 DEF GuardedStart, Watched, TypeOK
  <2> QED
    BY <2>1, <2>2, <2>3, KeepsData DEF GuardedStart, etcdVars, Running
<1>3. ASSUME NEW n \in Nodes, CtlStop(n)
      PROVE  LastStartHasData'
  BY <1>0, <1>3 DEF CtlStop, etcdVars, Watched, TypeOK
<1>4. ASSUME NEW n \in Nodes, FabStep(n)
      PROVE  LastStartHasData'
  <2>1. CASE PriorMembers(n) \/ PriorMembersFail(n)
    BY <1>0, <2>1 DEF PriorMembers, PriorMembersFail, etcdVars, Watched, TypeOK
  <2>2. CASE AddSelf(n) \/ AddSelfFails(n)
    <3>1. UNCHANGED <<data, proc, starts, pidfile>>
      BY <2>2 DEF AddSelf, AddSelfFails, AddsMember, etcdVars
    <3> QED
      BY <1>0, <2>2, <3>1 DEF AddSelf, AddSelfFails, Watched, TypeOK
  <2>3. CASE Spawn(n)
    <3>1. starts[n] \in Starts
      BY <2>3 DEF Spawn, PidFileOfLastStart, StartPCs
    <3>2. PICK s, e : proc' = [proc EXCEPT ![n][starts[n]] = Booting(s, e)]
      BY <2>3 DEF Spawn
    <3>3. ~Running(n, starts[n])'
      BY <2>3, <3>1, <3>2, ProcOthers, ProcessStates
         DEF Spawn, Running, TypeOK, EtcdTypeOK
    <3>4. \A m \in Nodes \ {n} :
            proc'[m] = proc[m] /\ (Watched(m)' <=> Watched(m))
      BY <2>3, <3>2 DEF Spawn, Watched, TypeOK, EtcdTypeOK
    <3> QED
      BY <2>3, <3>3, <3>4, KeepsData DEF Spawn, Running
  <2>4. CASE SpawnFails(n) \/ WritePidFileFails(n)
    BY <1>0, <2>4 DEF SpawnFails, WritePidFileFails, etcdVars, Watched, TypeOK
  <2>5. CASE VerifySynced(n)
    BY <1>0, <2>5 DEF VerifySynced, etcdVars, Watched, TypeOK
  <2>6. CASE VerifySyncedFails(n)
    BY <1>0, <2>6 DEF VerifySyncedFails, etcdVars, Watched, TypeOK
  <2>7. CASE WritePidFile(n)
    BY <1>0, <2>7 DEF WritePidFile, etcdVars, Watched, TypeOK
  <2>8. CASE PriorClusterHadOtherNodes(n)
    BY <1>0, <2>8 DEF PriorClusterHadOtherNodes, etcdVars, Watched, TypeOK
  <2>9. CASE FindSelf(n)
    BY <1>0, <2>9 DEF FindSelf, etcdVars, Watched, TypeOK
  <2>10. CASE RemoveSelf(n)
    <3>1. UNCHANGED <<data, proc, starts, pidfile>>
      BY <2>10 DEF RemoveSelf, RemovesMember, etcdVars
    <3> QED
      BY <1>0, <2>10, <3>1 DEF RemoveSelf, Watched, TypeOK
  <2>11. CASE RemoveDataDir(n)
    <3>1. ~Watched(n)'
      BY <2>11 DEF RemoveDataDir, Watched, TypeOK
    <3>2. \A m \in Nodes \ {n} :
            data'[m] = data[m] /\ (Watched(m)' <=> Watched(m))
      BY <2>11 DEF RemoveDataDir, Watched, TypeOK, EtcdTypeOK
    <3> QED
      BY <2>11, <3>1, <3>2 DEF RemoveDataDir, LastStartHasData, Running
  <2>12. CASE Kill(n)
    <3>1. \A m \in Nodes \ {n} : Watched(m)' <=> Watched(m)
      BY <2>12 DEF Kill, Watched, TypeOK
    <3>2. CASE PidAlive(n)
      <4>1. ~Watched(n)'
        BY <2>12, <3>2 DEF Kill, Watched, TypeOK
      <4>2. \A m \in Nodes \ {n} : proc'[m] = proc[m]
        BY <2>12, <3>2 DEF Kill, TypeOK, EtcdTypeOK
      <4> QED
        BY <2>12, <3>1, <4>1, <4>2, KeepsData DEF Kill, Running
    <3>3. CASE ~PidAlive(n)
      <4>1. UNCHANGED <<data, proc, starts, pidfile>>
        BY <2>12, <3>3 DEF Kill
      <4>2. Watched(n)' => ~Running(n, starts[n])'
        BY <2>12, <3>3, <4>1 DEF Kill, Watched, PidAlive, Alive, Running,
                                 PidFileOfLastStart, TypeOK
      <4> QED
        BY <3>1, <4>1, <4>2, KeepsData DEF Running
    <3> QED
      BY <3>2, <3>3
  <2> QED
    BY <1>4, <2>1, <2>2, <2>3, <2>4, <2>5, <2>6, <2>7, <2>8, <2>9, <2>10,
       <2>11, <2>12 DEF FabStep
<1>5. ASSUME NEW n \in Nodes, StartTimesOut(n)
      PROVE  LastStartHasData'
  <2>1. ~Watched(n)'
    BY <1>5 DEF StartTimesOut, Watched, PidFileOfLastStart, TypeOK
  <2>2. \A m \in Nodes \ {n} : Watched(m)' <=> Watched(m)
    BY <1>5 DEF StartTimesOut, Watched, TypeOK
  <2>3. \A m \in Nodes \ {n} : proc'[m] = proc[m]
    BY <1>5 DEF StartTimesOut, TypeOK, EtcdTypeOK
  <2> QED
    BY <1>5, <2>1, <2>2, <2>3, KeepsData DEF StartTimesOut, Running
<1>6. ASSUME NEW n \in Nodes, NodeEtcdStep(n) \/ NodeCrash(n)
      PROVE  LastStartHasData'
  BY <1>6, EtcdKeepsData DEF NodeEtcdStep, NodeCrash
<1> QED
  BY <1>1, <1>2, <1>3, <1>4, <1>5, <1>6 DEF Next

\* For every set of nodes and every combination of failures, the etcd process
\* that the pid file names, the one monit supervises, runs with the identity
\* that is on its disk, except between removeDataDir and kill of a stop: no
\* failure branch empties the data directory under a supervised process.
THEOREM SupervisedData == Spec => []SupervisedHasData
<1> DEFINE IInv == TypeOK /\ PidFileOfLastStart /\ LastStartHasData
<1>1. Init => IInv
  BY InitInv
<1>2. IInv /\ [Next]_vars => IInv'
  BY TypeNext, PidFileNext, DataNext
<1>3. IInv => SupervisedHasData
  BY DEF PidFileOfLastStart, LastStartHasData, SupervisedHasData, Watched
<1> QED
  BY <1>1, <1>2, <1>3, PTL DEF Spec
=============================================================================
