--------------------------- MODULE SyslogChecker ---------------------------
(***************************************************************************)
(* syslogchecker.Checker: while Cloud Foundry is moved to another etcd, a  *)
(* goroutine pushes a syslog drain app, binds it to a log source, looks    *)
(* for one log line in the drain and removes everything again, over and    *)
(* over, until Stop.  Every cf command may fail, with or without effect.   *)
(***************************************************************************)
EXTENDS Integers, Sequences, FiniteSets

CONSTANT MaxIterations   \* bound: iterations that are counted

ASSUME SyslogAssumption == MaxIterations \in Nat

\* setupSyslogDrainerApp
SetupSteps == <<"push", "app guid", "enable diego", "start">>

\* sendGetRequestToApp, and validateDrainerGotGuid on the logs of the drain
ValidateSteps == <<"get", "drain logs", "validate">>

\* the logs of the drain, and getSyslogAddress on them
AddressSteps == <<"logs", "address">>

\* deploySyslogAndValidate
DeploySteps ==
  SetupSteps \o AddressSteps \o <<"cups", "bind-service", "restage">> \o ValidateSteps

CleanupSteps == <<"unbind-service", "delete-service", "delete">>

Resources == {"app", "service", "binding"}

VARIABLES
  pc,               \* "select", "deploy", "cleanup", "later" or "returned"
  step,             \* the index of the command to run next
  resources,        \* external: what this iteration has left in Cloud Foundry
  errs,             \* the commands cleanup recorded as failed
  errors,           \* the sum of the counts in c.errors
  iterationCount,   \* *c.iterationCount
  stop,             \* the test in Stop: "no", "sending" or "sent"
  verdict,          \* Check: "none" yet, "ok" or "failed"
  begun,            \* history: iterations begun
  failures          \* history: iterations whose log line was not validated

loopVars == <<pc, step, resources, errs, errors, iterationCount, begun, failures>>
syslogVars == <<loopVars, stop, verdict>>

SyslogTypeOK ==
  /\ pc \in {"select", "deploy", "cleanup", "later", "returned"}
  /\ step \in 1 .. Len(DeploySteps)
  /\ resources \in SUBSET Resources
  /\ errs \in SUBSET {CleanupSteps[i] : i \in DOMAIN CleanupSteps}
  /\ errors \in Nat
  /\ iterationCount \in 0 .. MaxIterations
  /\ stop \in {"no", "sending", "sent"}
  /\ verdict \in {"none", "ok", "failed"}
  /\ begun \in 0 .. MaxIterations
  /\ failures \in 0 .. MaxIterations

\* New and Start.
SyslogInit ==
  /\ pc = "select"
  /\ step = 1
  /\ resources = {}
  /\ errs = {}
  /\ errors = 0
  /\ iterationCount = 0
  /\ stop = "no"
  /\ verdict = "none"
  /\ begun = 0
  /\ failures = 0

-----------------------------------------------------------------------------
(* Cloud Foundry (external)                                                *)

Made(c) ==
  CASE c = "push" -> {"app"}
    [] c = "cups" -> {"service"}
    [] c = "bind-service" -> {"binding"}
    [] OTHER -> {}

Removed(c) ==
  CASE c = "unbind-service" -> {"binding"}
    [] c = "delete-service" -> {"service"}
    [] OTHER -> {"app"}

\* A bound service is not deleted, and what is not there may be deleted.
MustFail(c) == c = "delete-service" /\ "binding" \in resources

-----------------------------------------------------------------------------
(* The goroutine of Start                                                  *)

\* <-time.After: a new name for the app, and the commands begin.
BeginIteration ==
  /\ pc = "select"
  /\ begun < MaxIterations
  /\ begun' = begun + 1
  /\ pc' = "deploy"
  /\ step' = 1
  /\ resources' = {}
  /\ errs' = {}
  /\ UNCHANGED <<errors, iterationCount, failures, stop, verdict>>

\* Mutant of LastCommand: one step too many.
LastCommandPastEnd == step > Len(DeploySteps)

LastCommand == step = Len(DeploySteps)

\* A command of deploySyslogAndValidate succeeds.
DeploySucceeds ==
  /\ pc = "deploy"
  /\ resources' = resources \cup Made(DeploySteps[step])
  /\ IF LastCommand
     THEN step' = 1 /\ pc' = "cleanup"
     ELSE step' = step + 1 /\ UNCHANGED pc
  /\ UNCHANGED <<errs, errors, iterationCount, begun, failures, stop, verdict>>

\* Mutant of AfterFailure: continue, without a cleanup.
AfterFailureNext == "select"

AfterFailure == "cleanup"

\* A command fails: its error is added, and cleanup is called all the same.
DeployFails ==
  /\ pc = "deploy"
  /\ \E made \in SUBSET Made(DeploySteps[step]) : resources' = resources \cup made
  /\ errors' = errors + 1
  /\ failures' = failures + 1
  /\ step' = 1
  /\ pc' = AfterFailure
  /\ UNCHANGED <<errs, iterationCount, begun, stop, verdict>>

\* One command of cleanup; a failure is recorded and the next one follows.  A
\* command that failed may have removed its resource.
CleanupStep ==
  /\ pc = "cleanup"
  /\ step <= Len(CleanupSteps)
  /\ LET c == CleanupSteps[step]
     IN  \/ /\ ~MustFail(c)
            /\ resources' = resources \ Removed(c)
            /\ UNCHANGED errs
         \/ /\ errs' = errs \cup {c}
            /\ \/ UNCHANGED resources
               \/ ~MustFail(c) /\ resources' = resources \ Removed(c)
  /\ step' = step + 1
  /\ UNCHANGED <<pc, errors, iterationCount, begun, failures, stop, verdict>>

\* ErrorSet.Add adds each error of a set, not the set as one.
AddedErrors == Cardinality(errs)

\* Mutant of AfterIteration: the goroutine returns on an error.
AfterIterationReturn == IF errs = {} THEN "select" ELSE "returned"

AfterIteration == "select"

\* cleanup returns its errors, if any, and the iteration is counted.
EndIteration ==
  /\ pc = "cleanup"
  /\ step > Len(CleanupSteps)
  /\ errors' = errors + AddedErrors
  /\ iterationCount' = iterationCount + 1
  /\ step' = 1
  /\ pc' = AfterIteration
  /\ UNCHANGED <<resources, errs, begun, failures, stop, verdict>>

\* Iterations after the bound are told apart no more and change nothing that is
\* counted: what is left of them is that the timer goes on winning the select.
LaterIteration ==
  /\ \/ pc = "select" /\ begun = MaxIterations /\ pc' = "later"
     \/ pc = "later" /\ pc' = "select"
  /\ UNCHANGED <<step, resources, errs, errors, iterationCount, begun, failures,
                 stop, verdict>>

\* <-c.doneChn: the goroutine takes what Stop sends, and both go on.
ReceiveDone ==
  /\ pc = "select"
  /\ stop = "sending"
  /\ stop' = "sent"
  /\ pc' = "returned"
  /\ UNCHANGED <<step, resources, errs, errors, iterationCount, begun,
                 failures, verdict>>

-----------------------------------------------------------------------------
(* The test                                                                *)

\* Mutant of Sending: the channel has a buffer.
SendingBuffered == "sent"

\* A send on c.doneChn, which has no buffer, waits for the goroutine.
Sending == "sending"

Stop ==
  /\ stop = "no"
  /\ stop' = Sending
  /\ UNCHANGED <<loopVars, verdict>>

\* Mutant of OverThreshold: four errors are allowed for in an iteration.
OverThresholdOfFour == iterationCount > 0 /\ 5 * errors > 4 * iterationCount

\* errPercent > totalErrorThreshold: errors / (2 * iterations) > 0.2.  With no
\* iteration it is 0 / 0, which is not greater than anything.
OverThreshold == iterationCount > 0 /\ 5 * errors > 2 * iterationCount

\* Check once Stop has returned; its own error is added to the others.
Check ==
  /\ stop = "sent" /\ verdict = "none"
  /\ verdict' = IF OverThreshold THEN "failed" ELSE "ok"
  /\ errors' = IF OverThreshold THEN errors + 1 ELSE errors
  /\ UNCHANGED <<pc, step, resources, errs, iterationCount, begun, failures, stop>>

Loop ==
  \/ BeginIteration \/ DeploySucceeds \/ DeployFails
  \/ CleanupStep \/ EndIteration \/ LaterIteration \/ ReceiveDone

SyslogNext == Loop \/ Stop \/ Check
=============================================================================
