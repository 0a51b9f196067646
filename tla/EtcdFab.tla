------------------------------ MODULE EtcdFab ------------------------------
(***************************************************************************)
(* etcdfab (src/etcdfab) under etcd_ctl and monit (jobs/etcd), on every    *)
(* node of the instance group.  One action per call that etcdfab makes to  *)
(* the outside: between two of them another node, an etcd process or a     *)
(* failure may step in.                                                    *)
(*                                                                         *)
(*   start:  guard -> list -> [add] -> spawn -> sync -> write              *)
(*                                          sync fails: [rmList -> rm]     *)
(*                                                      -> wipe -> kill    *)
(*   stop :  had -> [rmList -> rm] -> wipe -> kill                         *)
(***************************************************************************)
EXTENDS Etcd

CONSTANTS
  MaxListTries,  \* the 5 of cluster/controller.go:45
  MaxSyncCalls,  \* the 20 of sync/controller.go:11
  NoPid,         \* the pid file does not exist
  Serial         \* BOSH updates one node at a time (max_in_flight: 1)

ASSUME FabAssumption ==
  /\ MaxListTries \in Nat \ {0}
  /\ MaxSyncCalls \in Nat \ {0}
  /\ NoPid \notin Starts
  /\ Serial \in BOOLEAN

VARIABLES
  pc,       \* pc[n]: where n's etcdfab process is; "idle": there is none
  op,       \* op[n]: the last command, and monit restarts etcd after "start"
  starts,   \* starts[n]: runs of etcdfab start so far
  tries,    \* tries[n]: the loop variable of the retry loop it is in
  prior,    \* prior[n]: priorMemberList of GetInitialClusterState
  target,   \* target[n]: memberID in removeSelfFromCluster
  pidfile   \* pidfile[n]: the pid in n's pid file

fabVars == <<pc, op, starts, tries, prior, target, pidfile>>
vars    == <<etcdVars, fabVars>>

StartPCs == {"list", "add", "spawn", "sync", "write"}
PCs == StartPCs \cup {"idle", "had", "rmList", "rm", "wipe", "kill"}

TypeOK ==
  /\ EtcdTypeOK
  /\ pc \in [Nodes -> PCs]
  /\ op \in [Nodes -> {"start", "stop"}]
  /\ starts \in [Nodes -> 0 .. MaxStarts]
  /\ tries \in [Nodes -> Nat]
  /\ prior \in [Nodes -> SUBSET Member]
  /\ target \in [Nodes -> Id \cup {NoId}]
  /\ pidfile \in [Nodes -> Starts \cup {NoPid}]

Init ==
  /\ EtcdInit
  /\ pc = [n \in Nodes |-> "idle"]
  /\ op = [n \in Nodes |-> "stop"]
  /\ starts = [n \in Nodes |-> 0]
  /\ tries = [n \in Nodes |-> 0]
  /\ prior = [n \in Nodes |-> {}]
  /\ target = [n \in Nodes |-> NoId]
  /\ pidfile = [n \in Nodes |-> NoPid]

-----------------------------------------------------------------------------
Goto(n, label) == pc' = [pc EXCEPT ![n] = label]

\* etcdfab exits: its local variables are gone.
Exit(n) ==
  /\ Goto(n, "idle")
  /\ tries' = [tries EXCEPT ![n] = 0]
  /\ prior' = [prior EXCEPT ![n] = {}]
  /\ target' = [target EXCEPT ![n] = NoId]

\* Mutant of PidAlive: the process of a pid file is never found.
PidAliveNever(n) == FALSE

PidAlive(n) == pidfile[n] # NoPid /\ Alive(n, pidfile[n])

\* What BOSH waits for before it goes on with the next node.
Settled(n) == pc[n] = "idle" /\ (op[n] = "start" => PidAlive(n))
MyTurn(n)  == Serial => \A m \in Nodes \ {n} : Settled(m)

\* pid_guard of etcd_ctl start lets etcdfab run: there is no live process in
\* the pid file, and a stale file is removed.
GuardedStart(n) ==
  /\ pc[n] = "idle"
  /\ starts[n] < MaxStarts
  /\ ~PidAlive(n)
  /\ Goto(n, "list")
  /\ starts' = [starts EXCEPT ![n] = @ + 1]
  /\ pidfile' = [pidfile EXCEPT ![n] = NoPid]
  /\ UNCHANGED <<etcdVars, tries, prior, target>>

\* monit start etcd
CtlStart(n) ==
  /\ op[n] = "stop"
  /\ MyTurn(n)
  /\ op' = [op EXCEPT ![n] = "start"]
  /\ GuardedStart(n)

\* monit finds the process of the pid file gone and starts etcd again.
MonitRestart(n) ==
  /\ op[n] = "start"
  /\ UNCHANGED op
  /\ GuardedStart(n)

\* The drain script or monit stop etcd; both may run, one after the other.
CtlStop(n) ==
  /\ pc[n] = "idle"
  /\ MyTurn(n)
  /\ op' = [op EXCEPT ![n] = "stop"]
  /\ Goto(n, "had")
  /\ UNCHANGED <<etcdVars, starts, tries, prior, target, pidfile>>

-----------------------------------------------------------------------------
(* cluster.Controller.GetInitialClusterState                               *)

\* MemberList fails: nobody answers, or a fault.
ListFails(lastTry) ==
  Responding = {} \/ "list" \in Faults \/ ("blip" \in Faults /\ ~lastTry)

\* Mutant of LastTry: the loop is left after a failure too.
LastTryAtOnce(n) == TRUE

LastTry(n) == tries[n] + 1 >= MaxListTries

\* Mutant of IsPart: any member will do.
IsPartIfAny(n, list) == list # {}

IsPart(n, list) == \E m \in list : m.url = n

PriorMembers(n) ==
  /\ pc[n] = "list"
  /\ \E c \in Responding :
        /\ prior' = [prior EXCEPT ![n] = MembersOf(c)]
        /\ Goto(n, IF MembersOf(c) = {} \/ IsPart(n, MembersOf(c))
                   THEN "spawn" ELSE "add")
  /\ tries' = [tries EXCEPT ![n] = 0]
  /\ UNCHANGED <<etcdVars, op, starts, target, pidfile>>

\* After the last failure priorMemberList is empty, as for a new cluster.
PriorMembersFail(n) ==
  /\ pc[n] = "list"
  /\ ListFails(tries[n] + 1 >= MaxListTries)
  /\ IF LastTry(n)
     THEN /\ tries' = [tries EXCEPT ![n] = 0]
          /\ Goto(n, "spawn")
     ELSE /\ tries' = [tries EXCEPT ![n] = @ + 1]
          /\ UNCHANGED pc
  /\ UNCHANGED <<etcdVars, op, starts, prior, target, pidfile>>

\* etcd refuses a second member with the same peer URL.
AddsMember(n, c) ==
  /\ HasQuorum(c)
  /\ ~IsPart(n, MembersOf(c))
  /\ members' = members \cup
        {[cluster |-> c, id |-> <<n, starts[n]>>, url |-> n, name |-> NoNode]}
  /\ UNCHANGED <<data, proc>>

AddSelf(n) ==
  /\ pc[n] = "add"
  /\ \E c \in Responding : AddsMember(n, c)
  /\ Goto(n, "spawn")
  /\ UNCHANGED <<op, starts, tries, prior, target, pidfile>>

\* MemberAdd returns an error, after or without adding the member, and so
\* does etcdfab start.
AddSelfFails(n) ==
  /\ pc[n] = "add"
  /\ \/ /\ "add" \in Faults
        /\ \E c \in Responding : AddsMember(n, c)
     \/ /\ \/ "add" \in Faults
           \/ ~\E c \in Responding : HasQuorum(c)
           \/ \E c \in Responding : IsPart(n, MembersOf(c))
        /\ UNCHANGED etcdVars
  /\ Exit(n)
  /\ UNCHANGED <<op, starts, pidfile>>

\* Mutants of InitialState: the state of the struct literal is never replaced;
\* it is not there.
InitialStateNew(n)   == "new"
InitialStateUnset(n) == IF prior[n] = {} THEN "" ELSE "existing"

\* initialCluster.State and initialCluster.Members
InitialState(n)   == IF prior[n] = {} THEN "new" ELSE "existing"
InitialMembers(n) ==
  {[name |-> m.name, url |-> m.url] : m \in prior[n]} \cup
  (IF IsPart(n, prior[n]) THEN {} ELSE {[name |-> n, url |-> n]})

-----------------------------------------------------------------------------
(* Application.Start from command.Start on                                 *)

Spawn(n) ==
  /\ pc[n] = "spawn"
  /\ proc' = [proc EXCEPT ![n][starts[n]] =
                 Booting(InitialState(n), InitialMembers(n))]
  /\ Goto(n, "sync")
  /\ UNCHANGED <<members, data, op, starts, tries, prior, target, pidfile>>

SpawnFails(n) ==
  /\ "io" \in Faults
  /\ pc[n] = "spawn"
  /\ Exit(n)
  /\ UNCHANGED <<etcdVars, op, starts, pidfile>>

\* The keys API of this node answers, whichever process serves it.
KeysAnswer(n) ==
  \E k \in Starts : Running(n, k) /\ ("slow" \in Faults \/ Published(n, k))

\* Mutant of KeysFail: the call blocks until somebody answers.
KeysFailNever(n) == FALSE

\* etcd cannot answer: it is dead, not ready in time, or has no quorum.
KeysFail(n) ==
  \/ "keys" \in Faults
  \/ ~\E k \in Starts : Alive(n, k)
  \/ /\ ~\E k \in Starts : Running(n, k) /\ Published(n, k)
     /\ \/ "slow" \in Faults
        \/ \E k \in Starts :
              Running(n, k) /\ ~HasQuorum(proc[n][k].ident.cluster)

VerifySynced(n) ==
  /\ pc[n] = "sync"
  /\ KeysAnswer(n)
  /\ Goto(n, "write")
  /\ UNCHANGED <<etcdVars, op, starts, tries, prior, target, pidfile>>

VerifySyncedFails(n) ==
  /\ pc[n] = "sync"
  /\ KeysFail(n)
  /\ IF tries[n] + 1 < MaxSyncCalls
     THEN /\ tries' = [tries EXCEPT ![n] = @ + 1]
          /\ UNCHANGED pc
     ELSE /\ tries' = [tries EXCEPT ![n] = 0]
          /\ Goto(n, IF InitialState(n) = "existing" THEN "rmList" ELSE "wipe")
  /\ UNCHANGED <<etcdVars, op, starts, prior, target, pidfile>>

WritePidFile(n) ==
  /\ pc[n] = "write"
  /\ pidfile' = [pidfile EXCEPT ![n] = starts[n]]
  /\ Exit(n)
  /\ UNCHANGED <<etcdVars, op, starts>>

WritePidFileFails(n) ==
  /\ "io" \in Faults
  /\ pc[n] = "write"
  /\ Exit(n)
  /\ UNCHANGED <<etcdVars, op, starts, pidfile>>

-----------------------------------------------------------------------------
(* Application.Stop, and what it shares with the failure branch of Start   *)

\* Mutant of HadOtherNodes: off by one.
HadTwoOtherNodes(n, list) == Cardinality(list) > 2

\* priorClusterHadOtherNodes; a failing MemberList counts as "no".
HadOtherNodes(n, list) ==
  list # {} /\ ~\E m \in list : list = {m} /\ m.name = n

PriorClusterHadOtherNodes(n) ==
  /\ pc[n] = "had"
  /\ \/ \E c \in Responding :
           Goto(n, IF HadOtherNodes(n, MembersOf(c)) THEN "rmList" ELSE "wipe")
     \/ ListFails(FALSE) /\ Goto(n, "wipe")
  /\ UNCHANGED <<etcdVars, op, starts, tries, prior, target, pidfile>>

\* Mutant of SelfByName: a member without a name is taken for this node's.
SelfByNameOrNone(n, list) == {m \in list : m.name \in {n, NoNode}}

\* removeSelfFromCluster, up to the choice of memberID: matched by name.
SelfByName(n, list) == {m \in list : m.name = n}

FindSelf(n) ==
  /\ pc[n] = "rmList"
  /\ \/ \E c \in Responding : \E m \in SelfByName(n, MembersOf(c)) :
           target' = [target EXCEPT ![n] = m.id]
     \/ /\ \/ ListFails(FALSE)
           \/ \E c \in Responding : SelfByName(n, MembersOf(c)) = {}
        /\ target' = [target EXCEPT ![n] = NoId]
  /\ Goto(n, "rm")
  /\ UNCHANGED <<etcdVars, op, starts, tries, prior, pidfile>>

RemovesMember(n, c) ==
  /\ HasQuorum(c)
  /\ \E m \in MembersOf(c) : m.id = target[n] /\ members' = members \ {m}
  /\ UNCHANGED <<data, proc>>

\* The rest of removeSelfFromCluster: the error of MemberRemove is dropped.
RemoveSelf(n) ==
  /\ pc[n] = "rm"
  /\ \/ \E c \in Responding : RemovesMember(n, c)
     \/ /\ \/ "remove" \in Faults
           \/ \E c \in Responding :
                 ~HasQuorum(c) \/ target[n] \notin {m.id : m \in MembersOf(c)}
           \/ Responding = {}
        /\ UNCHANGED etcdVars
  /\ Goto(n, "wipe")
  /\ UNCHANGED <<op, starts, tries, prior, target, pidfile>>

\* An error of removeDataDir is only logged.
RemoveDataDir(n) ==
  /\ pc[n] = "wipe"
  /\ \/ data' = [data EXCEPT ![n] = NoIdent]
     \/ "io" \in Faults /\ UNCHANGED data
  /\ Goto(n, "kill")
  /\ UNCHANGED <<members, proc, op, starts, tries, prior, target, pidfile>>

\* The pid file is read, its process killed, the file removed; each error
\* (no file, no such process) returns early.
Kill(n) ==
  /\ pc[n] = "kill"
  /\ IF PidAlive(n)
     THEN /\ proc' = [proc EXCEPT ![n][pidfile[n]] = DeadProcess]
          /\ pidfile' = [pidfile EXCEPT ![n] = NoPid]
     ELSE UNCHANGED <<proc, pidfile>>
  /\ Exit(n)
  /\ UNCHANGED <<members, data, op, starts>>

-----------------------------------------------------------------------------
\* `timeout 55` of jobs/etcd/monit ends etcd_ctl start; the signal may or may
\* not reach the etcd process (etcd_ctl traps it with an undefined function).
StartTimesOut(n) ==
  /\ "timeout" \in Faults
  /\ op[n] = "start"
  /\ pc[n] # "idle"
  /\ \/ UNCHANGED proc
     \/ /\ Alive(n, starts[n])
        /\ proc' = [proc EXCEPT ![n][starts[n]] = DeadProcess]
  /\ Exit(n)
  /\ UNCHANGED <<members, data, op, starts, pidfile>>

FabStep(n) ==
  \/ PriorMembers(n) \/ PriorMembersFail(n)
  \/ AddSelf(n) \/ AddSelfFails(n)
  \/ Spawn(n) \/ SpawnFails(n)
  \/ VerifySynced(n) \/ VerifySyncedFails(n)
  \/ WritePidFile(n) \/ WritePidFileFails(n)
  \/ PriorClusterHadOtherNodes(n)
  \/ FindSelf(n) \/ RemoveSelf(n)
  \/ RemoveDataDir(n) \/ Kill(n)

NodeEtcdStep(n) == (\E k \in Starts : EtcdStep(n, k)) /\ UNCHANGED fabVars

NodeCrash(n) == (\E k \in Starts : Crash(n, k)) /\ UNCHANGED fabVars

Next ==
  \E n \in Nodes :
     \/ CtlStart(n) \/ MonitRestart(n) \/ CtlStop(n)
     \/ FabStep(n) \/ StartTimesOut(n)
     \/ NodeEtcdStep(n) \/ NodeCrash(n)

Spec == Init /\ [][Next]_vars

(***************************************************************************)
(* Processes get to run: an etcdfab process that is there goes on, etcd    *)
(* goes on, and monit checks its processes every cycle.  BOSH need not     *)
(* give commands, and failures need not happen.                            *)
(***************************************************************************)
Fairness ==
  \A n \in Nodes :
     /\ WF_vars(FabStep(n))
     /\ WF_vars(NodeEtcdStep(n))
     /\ WF_vars(MonitRestart(n))

FairSpec == Spec /\ Fairness

-----------------------------------------------------------------------------
(* Properties                                                              *)

\* A member disappears from a cluster only by the MemberRemove of its own
\* node's etcdfab: removeSelfFromCluster, which selects by name what
\* GetInitialClusterState added by peer URL, never hits another node.
RemovesOnlySelf ==
  [][\A m \in members :
        m.id \notin {x.id : x \in members'} =>
           pc[m.url] = "rm" /\ target[m.url] = m.id]_vars

\* The process that the pid file names never runs without its data on disk,
\* except while etcdfab stop is about to kill it: whatever fails, monit does
\* not supervise an etcd whose data directory was emptied under it.
SupervisedHasData ==
  \A n \in Nodes :
     pidfile[n] # NoPid /\ Running(n, pidfile[n]) /\ pc[n] # "kill" =>
        data[n] = proc[n][pidfile[n]].ident

\* The parts of the inductive invariant behind the two properties above.

\* While etcdfab start runs there is no pid file, and a pid file is that of
\* the last start.
PidFileOfLastStart ==
  \A n \in Nodes :
     /\ pc[n] \in StartPCs => op[n] = "start"
     /\ op[n] = "start" /\ pc[n] # "idle" =>
           starts[n] \in Starts /\ pidfile[n] = NoPid
     /\ pidfile[n] # NoPid => pidfile[n] = starts[n]

\* Ids, URLs and names of members, disks and processes are those of one node.
Identities ==
  /\ \A m \in members : m.id[1] = m.url /\ m.name \in {m.url, NoNode}
  /\ \A n \in Nodes :
        /\ target[n] # NoId => target[n][1] = n
        /\ data[n] # NoIdent => data[n].id[1] = n
        /\ \A k \in Starts : Running(n, k) =>
              proc[n][k].ident # NoIdent /\ proc[n][k].ident.id[1] = n

\* The process that is, or is about to be, in the pid file has its data.
Watched(n) ==
  pc[n] \in {"sync", "write"} \/ (pidfile[n] # NoPid /\ pc[n] # "kill")

LastStartHasData ==
  \A n \in Nodes :
     Watched(n) /\ Running(n, starts[n]) => data[n] = proc[n][starts[n]].ident

\* No split brain: all running etcd processes belong to one cluster.
OneCluster == \A c, d \in Responding : c = d

\* A node with an empty disk never comes back as a member that had already
\* started: it was removed and added again, so no vote or log entry of the
\* member is forgotten.
NoAmnesia ==
  [][\A n \in Nodes :
        data[n] = NoIdent /\ data'[n] # NoIdent =>
           ~\E m \in members : m.id = data'[n].id /\ m.name # NoNode]_vars

\* A node that BOSH has stopped is no member of a cluster that still runs.
StoppedHasLeft ==
  \A n \in Nodes :
     op[n] = "stop" /\ pc[n] = "idle" =>
        \A c \in Responding : ~IsPart(n, MembersOf(c))

\* When every node is as BOSH wants it, the running cluster has a quorum.
SettledHasQuorum ==
  (\A n \in Nodes : Settled(n)) => \A c \in Responding : HasQuorum(c)

(***************************************************************************)
(* What the nodes are for each other: the member list of the cluster that  *)
(* answers, and the members that serve.                                    *)
(***************************************************************************)
Current == {m \in members : m.cluster \in Responding}

Abstract == INSTANCE Membership WITH
  group   <- {m.url : m \in Current},
  serving <- {m.url : m \in {m \in Current : Serves(m)}}

\* All that etcdfab, etcd and monit do on the nodes amounts to one group that
\* grows and shrinks by one serving node at a time.
ImplementsMembership == Abstract!Spec

\* Every etcdfab process ends: each call has an outcome that leads on, and
\* the retry loops are bounded.
EtcdfabTerminates == \A n \in Nodes : pc[n] # "idle" ~> pc[n] = "idle"

\* A node told to start gets a supervised etcd that is a named member of its
\* cluster, unless it is told to stop before.
StartTakesEffect ==
  \A n \in Nodes :
     op[n] = "start" ~>
        \/ op[n] = "stop"
        \/ PidAlive(n) /\ Running(n, pidfile[n]) /\ Published(n, pidfile[n])

\* A node told to stop gets rid of its etcd process and of its data, even if
\* etcd is faster to exit on its removal than etcdfab is to kill it.
StopTakesEffect ==
  \A n \in Nodes :
     op[n] = "stop" ~>
        \/ op[n] = "start"
        \/ data[n] = NoIdent /\ ~\E k \in Starts : Alive(n, k)

\* What application_test.go says of a start whose VerifySynced fails:
\* By("killing the etcd process").  The last step of the failure branch
\* leaves no etcd process behind.
FailedStartKillsEtcd ==
  [][\A n \in Nodes :
        op[n] = "start" /\ pc[n] = "kill" /\ pc'[n] = "idle" =>
           ~\E k \in Starts : Alive(n, k)']_vars

\* What application_test.go says of a start whose VerifySynced fails:
\* By("removing the node from the cluster"), with MemberRemove receiving the
\* id of the node's member.
FailedStartRemovesOwnMember ==
  \A n \in Nodes :
     op[n] = "start" /\ pc[n] = "rm" =>
        \A m \in members : m.url = n => target[n] = m.id
=============================================================================
