--------------------------- MODULE PidUtilsProofs ---------------------------
(***************************************************************************)
(* That a job never has a process that its pid file does not name, proved  *)
(* for any number of pids, any countdown, and with or without pid reuse.   *)
(***************************************************************************)
EXTENDS PidUtils, TLAPS

\* A job whose start is guarded, by pid_guard or by monit.
GuardedJob == job # "network_diagnostics"

Ours(p) == owner[p] = "job"

\* Between the guard and the echo nothing of the job runs but what the script
\* has just started, and a stop only removes the file of a process that is
\* gone or was killed, though another program may have taken its pid over.
ScriptKnows ==
  /\ GuardedJob =>
        /\ pc = "fork" => \A p \in Pids : ~Ours(p)
        /\ pc = "write" => \A p \in Pids : Ours(p) => p = pid
  /\ pc \in {"kill", "wait", "force", "rm"} => pid = pidfile /\ pid \in Pids
  /\ pc = "rm" => ~Ours(pid)

Types ==
  /\ owner \in [Pids -> Owners]
  /\ pidfile \in Pids \cup {NoPid}
  /\ pc = "write" => pid \in Pids

IInv == Types /\ ScriptKnows /\ OneProcess

-----------------------------------------------------------------------------
\* Nothing runs and there is no pid file at first.
LEMMA InitIInv == Init => IInv
  BY DEF Init, IInv, Types, ScriptKnows, OneProcess, Ours, GuardedJob, Owners

\* A command begins: the guard of the script, or monit's, has looked at the
\* process of the pid file, which is the only one there can be.
LEMMA CommandIInv ==
  ASSUME IInv, CtlStart \/ CtlStop, UNCHANGED job
  PROVE  IInv'
  BY PidAssumption
     DEF CtlStart, CtlStop, Command, Guarded, Exists,
         IInv, Types, ScriptKnows, OneProcess, Ours, GuardedJob, Owners

\* The steps of a start.
LEMMA StartIInv ==
  ASSUME IInv, PidGuard \/ DnsDown \/ StartProgram \/ WritePidFile, UNCHANGED job
  PROVE  IInv'
<1> USE PidAssumption DEF IInv, Types, ScriptKnows, OneProcess, Ours, GuardedJob, Owners, Exit
<1>1. CASE PidGuard
  BY <1>1 DEF PidGuard, Guarded, Exists
<1>2. CASE DnsDown
  BY <1>2 DEF DnsDown
<1>3. CASE StartProgram
  BY <1>3 DEF StartProgram, Exists
<1>4. CASE WritePidFile
  BY <1>4 DEF WritePidFile
<1> QED BY <1>1, <1>2, <1>3, <1>4

\* The steps of a stop.
LEMMA StopIInv ==
  ASSUME IInv, UNCHANGED job,
         CatPidFile \/ ReadPidFile \/ KillPid \/ WaitTurn \/ KillNine \/ RemovePidFile
  PROVE  IInv'
<1> USE PidAssumption
    DEF IInv, Types, ScriptKnows, OneProcess, Ours, GuardedJob, Owners, Exit, Exists, Ends
<1>1. CASE CatPidFile
  BY <1>1 DEF CatPidFile
<1>2. CASE ReadPidFile
  BY <1>2 DEF ReadPidFile
<1>3. CASE KillPid
  BY <1>3 DEF KillPid, NotOurs
<1>4. CASE WaitTurn
  BY <1>4 DEF WaitTurn
<1>5. CASE KillNine
  BY <1>5 DEF KillNine, NotOurs
<1>6. CASE RemovePidFile
  BY <1>6 DEF RemovePidFile
<1> QED BY <1>1, <1>2, <1>3, <1>4, <1>5, <1>6

\* Processes that end, and other programs that take their pids.
LEMMA ProcessIInv ==
  ASSUME IInv, UNCHANGED job, NEW p \in Pids, Process(p)
  PROVE  IInv'
  BY DEF Process, ProcessEnds, Reacts, OtherStarts, Ends, Exists,
         IInv, Types, ScriptKnows, OneProcess, Ours, GuardedJob, Owners

\* IInv is inductive.
LEMMA NextIInv == IInv /\ [Next]_vars => IInv'
<1> SUFFICES ASSUME IInv, [Next]_vars PROVE IInv'
  OBVIOUS
<1>1. CASE Next
  BY <1>1, CommandIInv, StartIInv, StopIInv, ProcessIInv DEF Next, Script
<1>2. CASE UNCHANGED vars
  BY <1>2 DEF vars, IInv, Types, ScriptKnows, OneProcess, Ours, GuardedJob, Owners
<1> QED BY <1>1, <1>2

-----------------------------------------------------------------------------
\* A process that ends leaves the typing alone.
LEMMA EndsType ==
  ASSUME TypeOK, NEW p \in Pids, Ends(p)
  PROVE  owner' \in [Pids -> Owners] /\ deaf' \in SUBSET Pids
  BY DEF TypeOK, Ends, Owners

\* Each step keeps the types: the countdown stops at 0, and what is killed is
\* a pid that the file has named.
LEMMA NextType == IInv /\ TypeOK /\ [Next]_vars => TypeOK'
<1> SUFFICES ASSUME IInv, TypeOK, [Next]_vars PROVE TypeOK'
  OBVIOUS
<1>1. CASE UNCHANGED vars
  BY <1>1 DEF vars, TypeOK
<1>2. CASE UNCHANGED job /\ (CtlStart \/ CtlStop)
  BY <1>2 DEF CtlStart, CtlStop, Command, TypeOK
<1>3. CASE UNCHANGED job /\ (PidGuard \/ DnsDown \/ StartProgram \/ WritePidFile)
  BY <1>3, PidAssumption
     DEF PidGuard, DnsDown, StartProgram, WritePidFile, Exit, TypeOK, Owners
<1>4. CASE UNCHANGED job /\ (CatPidFile \/ ReadPidFile \/ RemovePidFile)
  BY <1>4, PidAssumption DEF CatPidFile, ReadPidFile, RemovePidFile, Exit, TypeOK, Owners
<1>5. CASE UNCHANGED job /\ (KillPid \/ KillNine)
  <2>1. pid \in Pids
    BY <1>5 DEF KillPid, KillNine, IInv, ScriptKnows
  <2> QED BY <1>5, <2>1, EndsType, PidAssumption DEF KillPid, KillNine, NotOurs, Exit, TypeOK, Owners
<1>6. CASE UNCHANGED job /\ WaitTurn
  BY <1>6, PidAssumption DEF WaitTurn, TimedOut, Decremented, TypeOK
<1>7. CASE UNCHANGED job /\ \E p \in Pids : Process(p)
  BY <1>7, EndsType DEF Process, ProcessEnds, Reacts, OtherStarts, TypeOK, Owners
<1> QED BY <1>1, <1>2, <1>3, <1>4, <1>5, <1>6, <1>7 DEF Next, Script

\* Whatever a script reads, kills or waits for is a pid, and its countdown
\* stays between 0 and the timeout.
THEOREM PidTypeCorrect == Spec => []TypeOK
<1>1. Init => TypeOK
  BY PidAssumption DEF Init, TypeOK, Owners
<1> QED BY <1>1, InitIInv, NextIInv, NextType, PTL DEF Spec

\* etcd_proxy and etcd_consistency_checker never run twice, nor unknown to
\* their pid file.
THEOREM PidFileNamesProcess == Spec => []OneProcess
<1>1. IInv => OneProcess
  BY DEF IInv
<1> QED BY <1>1, InitIInv, NextIInv, PTL DEF Spec
=============================================================================
