--------------------------- MODULE UpgradeProbes ---------------------------
(***************************************************************************)
(* The two probes that cf_tls_upgrade_test.go keeps running while Cloud    *)
(* Foundry moves to another etcd.  They have no state in common, so that   *)
(* every property is about one of them: a behaviour runs one, or the other.*)
(***************************************************************************)
EXTENDS LogSpammer, SyslogChecker

VARIABLE probe   \* the probe that runs

vars == <<logVars, syslogVars, probe>>

TypeOK == LogTypeOK /\ SyslogTypeOK /\ probe \in {"logspammer", "syslogchecker"}

Init == LogInit /\ SyslogInit /\ probe \in {"logspammer", "syslogchecker"}

LogRuns    == probe = "logspammer" /\ UNCHANGED <<syslogVars, probe>>
SyslogRuns == probe = "syslogchecker" /\ UNCHANGED <<logVars, probe>>

Next == (LogNext /\ LogRuns) \/ (SyslogNext /\ SyslogRuns)

Spec == Init /\ [][Next]_vars

(***************************************************************************)
(* Commands and requests end, and the test goes on to Check.  A select     *)
(* picks any of its ready cases, so that none is passed over for ever.     *)
(***************************************************************************)
Fairness ==
  /\ WF_vars(Getter /\ LogRuns) /\ SF_vars(DoneGet /\ LogRuns)
  /\ WF_vars(Listener /\ LogRuns) /\ SF_vars(DoneMsg /\ LogRuns)
  /\ WF_vars(CheckLogs /\ LogRuns)
  /\ WF_vars(Loop /\ SyslogRuns) /\ SF_vars(ReceiveDone /\ SyslogRuns)

FairSpec == Spec /\ Fairness

-----------------------------------------------------------------------------
(* Properties of the log spammer                                           *)

\* The numbered lines of the app that have not reached logMessages.
Outstanding == Numbered(lost \cup stream \cup hand)

\* No loss goes unnoticed: a line that did not arrive is reported as missing,
\* or was covered up by another one with its number, which takes a request
\* that failed and is reported as an error.
LossIsReported ==
  checked => Cardinality(Outstanding) <= Cardinality(missingLogs) + logErrors

\* No false alarm: what Check reports as missing was written by the app, and
\* was lost or had not been added to logMessages when Check looked.
MissingIsOutstanding ==
  [][checked' /\ ~checked =>
        \A n \in missingLogs' : \E l \in Outstanding : l.number = n]_vars

\* Stop and Check return and the listener ends, although the goroutine that
\* ends it waits for doneWaitGroup for ever.
SpammerStops == doneGet ~> checked /\ listener = "returned"

-----------------------------------------------------------------------------
(* Properties of the syslog checker                                        *)

\* Nothing is left behind: between two iterations, whatever failed where, a
\* resource is still there only if the command that removes it failed.
CleansUp ==
  pc = "select" =>
     \A i \in DOMAIN CleanupSteps :
        Removed(CleanupSteps[i]) \subseteq resources => CleanupSteps[i] \in errs

\* When Stop has returned, no iteration is running and each one that began is
\* counted: Check reads errors and iterationCount that belong together.
SettledWhenStopped ==
  stop = "sent" => /\ pc = "returned"
                   /\ begun = iterationCount

\* "ok" means that at most 2 of 5 iterations failed to validate their line.
OkMeansFewFailures == verdict = "ok" => 5 * failures <= 2 * iterationCount

\* Stop returns, also when it is called in the middle of an iteration and the
\* timer is always ready.
StopReturns == stop = "sending" ~> stop = "sent"
=============================================================================
