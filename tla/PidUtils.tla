------------------------------ MODULE PidUtils ------------------------------
(***************************************************************************)
(* The pid file of a job and its control script: etcd_proxy_ctl, with the  *)
(* helpers of src/etcd-common/utils.sh; etcd_consistency_checker_ctl and   *)
(* etcd_network_diagnostics_run_ctl, which start unguarded and stop with   *)
(* kill -9.  All run under bash -e: a kill of a process that has just gone *)
(* ends them.                                                              *)
(***************************************************************************)
EXTENDS Integers

CONSTANTS
  Pids,       \* bound: the process ids of the machine
  NoPid,      \* the pid file does not exist
  Timeout,    \* kill_and_wait's countdown (25 s in steps of 0.1 s)
  Reuse       \* other programs may get the pid of a process that ended

ASSUME PidAssumption ==
  /\ NoPid \notin Pids
  /\ Timeout \in Nat \ {0}
  /\ Reuse \in BOOLEAN

Jobs == {"etcd_proxy", "etcd_consistency_checker", "network_diagnostics"}

VARIABLES
  job,        \* the job whose script this is
  owner,      \* owner[p]: who has pid p: "none", "job", "other", or "killed"
              \* (was sent SIGKILL, and is still in /proc)
  deaf,       \* the processes that have been sent SIGTERM and do not react
  pidfile,    \* the contents of the pid file
  pc,         \* where the control script is
  pid,        \* its variable pid: what it read, or ${!}
  countdown   \* its variable countdown

vars == <<job, owner, deaf, pidfile, pc, pid, countdown>>

Owners == {"none", "job", "other", "killed"}

TypeOK ==
  /\ job \in Jobs
  /\ owner \in [Pids -> Owners]
  /\ deaf \in SUBSET Pids
  /\ pidfile \in Pids \cup {NoPid}
  /\ pc \in {"idle", "guard", "fork", "write", "read", "cat", "kill", "wait", "force", "rm"}
  /\ pid \in Pids \cup {NoPid}
  /\ countdown \in 0 .. Timeout

Init ==
  /\ job \in Jobs
  /\ owner = [p \in Pids |-> "none"]
  /\ deaf = {}
  /\ pidfile = NoPid
  /\ pc = "idle"
  /\ pid = NoPid
  /\ countdown = 0

-----------------------------------------------------------------------------
\* The script ends, whether by exit 1, by set -e or at its last line.
Exit == pc' = "idle" /\ pid' = NoPid /\ countdown' = 0

Exists(p) == owner[p] # "none"

\* The process has gone or belongs to another user: a kill may fail.
NotOurs(p) == owner[p] \in {"none", "other"}

Ends(p) ==
  /\ owner' = [owner EXCEPT ![p] = "none"]
  /\ deaf' = deaf \ {p}

\* Mutant of Guarded: the file is taken for stale without a look at /proc.
GuardedNever == FALSE

\* The test of pid_guard, which monit makes too before it starts a job.
Guarded == pidfile # NoPid /\ Exists(pidfile)

Command(label) ==
  /\ pc = "idle"
  /\ pc' = label
  /\ UNCHANGED <<owner, deaf, pidfile, pid, countdown>>

\* monit, or whoever calls the script, starts the job.  The consistency
\* checker relies on monit to look first; nobody looks for the diagnostics,
\* which every start of etcd starts again.
CtlStart ==
  \/ job = "etcd_proxy" /\ Command("guard")
  \/ job = "etcd_consistency_checker" /\ ~Guarded /\ Command("fork")
  \/ job = "network_diagnostics" /\ Command("fork")

CtlStop == Command(IF job = "etcd_proxy" THEN "read" ELSE "cat")

\* pid_guard: refuse while /proc/$pid exists, else remove the stale file.
PidGuard ==
  /\ pc = "guard"
  /\ IF Guarded
     THEN Exit /\ UNCHANGED pidfile
     ELSE pc' = "fork" /\ pidfile' = NoPid /\ UNCHANGED <<pid, countdown>>
  /\ UNCHANGED <<owner, deaf>>

\* check-a-record finds that DNS is not up, and the script exits.
DnsDown ==
  /\ pc = "fork"
  /\ job = "etcd_consistency_checker"
  /\ Exit
  /\ UNCHANGED <<owner, deaf, pidfile>>

\* The program is run in the background ...
StartProgram ==
  /\ pc = "fork"
  /\ \E p \in Pids :
        /\ ~Exists(p)
        /\ owner' = [owner EXCEPT ![p] = "job"]
        /\ pid' = p
  /\ pc' = "write"
  /\ UNCHANGED <<deaf, pidfile, countdown>>

\* ... and echoes ${!} into the pid file.
WritePidFile ==
  /\ pc = "write"
  /\ pidfile' = pid
  /\ Exit
  /\ UNCHANGED <<owner, deaf>>

\* stop of the two scripts that do not use utils.sh: without a file, cat fails.
CatPidFile ==
  /\ pc = "cat"
  /\ IF pidfile = NoPid
     THEN Exit
     ELSE pid' = pidfile /\ pc' = "force" /\ UNCHANGED countdown
  /\ UNCHANGED <<owner, deaf, pidfile>>

\* wait_pidfile: nothing to do without a file; a dead pid only needs the file
\* removed.
ReadPidFile ==
  /\ pc = "read"
  /\ IF pidfile = NoPid
     THEN Exit
     ELSE /\ pid' = pidfile
          /\ countdown' = Timeout
          /\ pc' = IF Exists(pidfile) THEN "kill" ELSE "rm"
  /\ UNCHANGED <<owner, deaf, pidfile>>

\* kill $pid: the process may end at once, later, or not at all.
KillPid ==
  /\ pc = "kill"
  /\ \/ /\ Exists(pid)
        /\ pc' = "wait"
        /\ UNCHANGED <<pid, countdown>>
        /\ \/ Ends(pid)
           \/ deaf' = deaf \cup {pid} /\ UNCHANGED owner
     \/ NotOurs(pid) /\ Exit /\ UNCHANGED <<owner, deaf>>
  /\ UNCHANGED pidfile

\* Mutants of TimedOut and Decremented: no test for 0, no decrement.
TimedOutNever  == FALSE
DecrementedNot == countdown

TimedOut    == countdown = 0
Decremented == countdown - 1

\* One turn of the loop `while [ -e /proc/$pid ]`.
WaitTurn ==
  /\ pc = "wait"
  /\ IF ~Exists(pid) THEN pc' = "rm" /\ UNCHANGED countdown
     ELSE IF TimedOut THEN pc' = "force" /\ UNCHANGED countdown
     ELSE countdown' = Decremented /\ UNCHANGED pc
  /\ UNCHANGED <<owner, deaf, pidfile, pid>>

\* kill -9 $pid and the break out of the loop.  The process is gone half a
\* second later, or it is not ("Timed Out"); the script goes on either way.
KillNine ==
  /\ pc = "force"
  /\ \/ /\ Exists(pid)
        /\ pc' = "rm"
        /\ UNCHANGED <<pid, countdown>>
        /\ \/ Ends(pid)
           \/ owner' = [owner EXCEPT ![pid] = "killed"] /\ UNCHANGED deaf
     \/ NotOurs(pid) /\ Exit /\ UNCHANGED <<owner, deaf>>
  /\ UNCHANGED pidfile

RemovePidFile ==
  /\ pc = "rm"
  /\ pidfile' = NoPid
  /\ Exit
  /\ UNCHANGED <<owner, deaf>>

-----------------------------------------------------------------------------
\* A process ends by itself.
ProcessEnds(p) ==
  /\ Exists(p)
  /\ p \notin deaf
  /\ Ends(p)
  /\ UNCHANGED <<pidfile, pc, pid, countdown>>

\* A process that got SIGTERM reacts to it after a while.
Reacts(p) ==
  /\ p \in deaf
  /\ Ends(p)
  /\ UNCHANGED <<pidfile, pc, pid, countdown>>

\* The machine never runs out of pids.
OtherStarts(p) ==
  /\ Reuse
  /\ ~Exists(p)
  /\ \E q \in Pids \ {p} : ~Exists(q)
  /\ owner' = [owner EXCEPT ![p] = "other"]
  /\ UNCHANGED <<deaf, pidfile, pc, pid, countdown>>

Script ==
  \/ PidGuard \/ DnsDown \/ StartProgram \/ WritePidFile
  \/ CatPidFile \/ ReadPidFile \/ KillPid \/ WaitTurn \/ KillNine \/ RemovePidFile

Process(p) == ProcessEnds(p) \/ Reacts(p) \/ OtherStarts(p)

Next ==
  /\ CtlStart \/ CtlStop \/ Script \/ \E p \in Pids : Process(p)
  /\ UNCHANGED job

Spec == Init /\ [][Next]_vars

\* A script that runs goes on; nobody need start or stop anything, and a
\* process need neither end nor react, but for the diagnostics, whose loop is
\* bounded, and for one that was sent SIGKILL.
Fairness ==
  /\ WF_vars(Script /\ UNCHANGED job)
  /\ \A p \in Pids :
        /\ WF_vars(job = "network_diagnostics" /\ owner[p] = "job" /\ ProcessEnds(p)
                   /\ UNCHANGED job)
        /\ WF_vars(owner[p] = "killed" /\ (ProcessEnds(p) \/ Reacts(p)) /\ UNCHANGED job)

FairSpec == Spec /\ Fairness

-----------------------------------------------------------------------------
(* Properties                                                              *)

\* At most one process of the job runs, and but for the moment between its
\* fork and the echo the pid file names it: no sequence of starts, stops and
\* exits leaves one that neither monit nor a later stop can find, and a stop
\* that gets as far as removing the pid file has ended the process, or has
\* sent it the SIGKILL that will.  The diagnostics have no guard, and are left
\* out.
OneProcess ==
  \A p \in Pids : owner[p] = "job" /\ job # "network_diagnostics" =>
     \/ pidfile = p
     \/ pc = "write" /\ pid = p

\* Every start and every stop ends, also when the process ignores SIGTERM or
\* another program has taken over its pid.
ScriptsEnd == pc # "idle" ~> pc = "idle"
=============================================================================
