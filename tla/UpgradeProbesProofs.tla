------------------------ MODULE UpgradeProbesProofs ------------------------
(***************************************************************************)
(* The safety properties of the two probes of the Cloud Foundry upgrade,   *)
(* proved for any number of iterations, requests and expired tokens.  The  *)
(* probes share no variable, so that each has an invariant of its own.     *)
(***************************************************************************)
EXTENDS UpgradeProbes, FiniteSetTheorems, TLAPS

-----------------------------------------------------------------------------
(* The invariant of the syslog checker                                     *)

\* The iterations begun, those counted and their errors belong together.
Tally ==
  /\ pc \in {"select", "later", "returned"} => begun = iterationCount
  /\ pc \in {"deploy", "cleanup"} => begun = iterationCount + 1
  /\ stop = "sent" <=> pc = "returned"
  /\ failures <= errors
  /\ failures <= IF pc = "deploy" THEN iterationCount ELSE begun
  /\ verdict # "none" => pc = "returned"
  /\ verdict = "ok" => iterationCount = 0 \/ 5 * errors <= 2 * iterationCount

\* The first i commands of cleanup have removed what they should, or failed.
CleanedBefore(i) ==
  \A j \in 1 .. 3 : j < i /\ Removed(CleanupSteps[j]) \subseteq resources
                    => CleanupSteps[j] \in errs

CleanupGoesOn ==
  /\ pc = "cleanup" => step \in 1 .. 4 /\ CleanedBefore(step)
  /\ pc \in {"select", "later"} => CleanedBefore(4)

SyslogInv == SyslogTypeOK /\ Tally /\ CleanupGoesOn

-----------------------------------------------------------------------------
(* The invariant of the log spammer                                        *)

\* The numbered lines the app has written, wherever they are now.
AppLines == Numbered(lost \cup stream \cup hand \cup logMessages)

LogPhases ==
  /\ getter = "off" => logWritten = 0 /\ listener = "off"
  /\ checked => getter \in {"done", "closed"}
  /\ ~checked => missingLogs = {}
  /\ logWritten + logErrors <= requests
  /\ listener # "add" => hand = {}
  /\ \A l \in logMessages : IsAppLog(l)

\* A line is in one place, and belongs to a request that was made.
LinesApart ==
  /\ \A l \in lost \cup stream \cup hand \cup logMessages : l.request <= requests
  /\ stream \cap (lost \cup hand \cup logMessages) = {}
  /\ lost \cap (hand \cup logMessages) = {}
  /\ hand \cap logMessages = {}

\* A request writes one numbered line at most; one that succeeds writes its own.
LinesCounted ==
  /\ IsFiniteSet(AppLines)
  /\ Cardinality(AppLines) <= logWritten + logErrors
  /\ \A n \in 0 .. logWritten - 1 : \E l \in AppLines : l.number = n

LogInv == LogTypeOK /\ LogPhases /\ LinesApart /\ LinesCounted /\ LossIsReported

IInv == SyslogInv /\ LogInv /\ probe \in {"logspammer", "syslogchecker"}

-----------------------------------------------------------------------------
(* The syslog checker                                                      *)

\* deploySyslogAndValidate has twelve commands and cleanup three.
LEMMA StepCounts ==
  /\ Len(DeploySteps) = 12
  /\ Len(CleanupSteps) = 3 /\ DOMAIN CleanupSteps = 1 .. 3
BY DEF DeploySteps, SetupSteps, AddressSteps, ValidateSteps, CleanupSteps

\* Commands make and remove resources; each of cleanup removes one.
LEMMA CommandEffects ==
  /\ \A c : Made(c) \subseteq Resources
  /\ \A i \in 1 .. 3 : Removed(CleanupSteps[i]) # {}
BY DEF Made, Removed, Resources

\* Nothing has been done at first.
LEMMA InitSyslogInv == SyslogInit => SyslogInv
<1> SUFFICES ASSUME SyslogInit PROVE SyslogInv
  OBVIOUS
<1>1. SyslogTypeOK
  BY StepCounts, SyslogAssumption DEF SyslogInit, SyslogTypeOK
<1>2. Tally
  BY DEF SyslogInit, Tally
<1>3. CleanupGoesOn
  BY CommandEffects DEF SyslogInit, CleanupGoesOn, CleanedBefore
<1> QED BY <1>1, <1>2, <1>3 DEF SyslogInv

\* An iteration begins, and its commands are run up to the first that fails.
LEMMA DeploySyslogInv ==
  ASSUME SyslogInv, BeginIteration \/ DeploySucceeds \/ DeployFails
  PROVE  SyslogInv'
<1> USE StepCounts, SyslogAssumption
<1>1. CASE BeginIteration
  <2>1. SyslogTypeOK' /\ Tally'
    BY <1>1 DEF BeginIteration, SyslogInv, SyslogTypeOK, Tally
  <2>2. CleanupGoesOn'
    BY <1>1 DEF BeginIteration, CleanupGoesOn
  <2> QED BY <2>1, <2>2 DEF SyslogInv
<1>2. CASE DeploySucceeds
  <2>1. resources' \in SUBSET Resources
    BY <1>2, CommandEffects DEF DeploySucceeds, SyslogInv, SyslogTypeOK
  <2>2. SyslogTypeOK' /\ Tally'
    BY <1>2, <2>1 DEF DeploySucceeds, LastCommand, SyslogInv, SyslogTypeOK, Tally
  <2>3. CleanupGoesOn'
    BY <1>2 DEF DeploySucceeds, LastCommand, CleanupGoesOn, CleanedBefore
  <2> QED BY <2>2, <2>3 DEF SyslogInv
<1>3. CASE DeployFails
  <2>1. resources' \in SUBSET Resources
    BY <1>3, CommandEffects DEF DeployFails, SyslogInv, SyslogTypeOK
  <2>2. SyslogTypeOK' /\ Tally'
    BY <1>3, <2>1 DEF DeployFails, AfterFailure, SyslogInv, SyslogTypeOK, Tally
  <2>3. CleanupGoesOn'
    BY <1>3 DEF DeployFails, AfterFailure, CleanupGoesOn, CleanedBefore
  <2> QED BY <2>2, <2>3 DEF SyslogInv
<1> QED BY <1>1, <1>2, <1>3

\* A command of cleanup removes its resource or is recorded, and leaves what
\* the commands before it did.
LEMMA CleanupSyslogInv ==
  ASSUME SyslogInv, CleanupStep
  PROVE  SyslogInv'
<1> DEFINE c == CleanupSteps[step]
<1>1. /\ pc = "cleanup" /\ pc' = "cleanup"
      /\ step \in 1 .. 3 /\ step' = step + 1
      /\ CleanedBefore(step)
  BY StepCounts DEF CleanupStep, SyslogInv, CleanupGoesOn
<1>2. c \in {CleanupSteps[i] : i \in DOMAIN CleanupSteps}
  BY <1>1, StepCounts
<1>3. SyslogTypeOK' /\ Tally'
  BY <1>1, <1>2, StepCounts DEF CleanupStep, SyslogInv, SyslogTypeOK, Tally
<1>4. \/ resources' = resources \ Removed(c) /\ errs' = errs
      \/ resources' \subseteq resources /\ errs' = errs \cup {c}
  BY DEF CleanupStep
<1>5. ASSUME NEW j \in 1 .. 3, j < step', Removed(CleanupSteps[j]) \subseteq resources'
      PROVE  CleanupSteps[j] \in errs'
  <2>1. CASE j = step
    BY <1>1, <1>4, <1>5, <2>1, CommandEffects
  <2>2. CASE j < step
    BY <1>1, <1>4, <1>5, <2>2 DEF CleanedBefore
  <2> QED BY <1>1, <1>5, <2>1, <2>2 DEF SyslogInv, SyslogTypeOK
<1>6. CleanedBefore(step)'
  BY <1>5 DEF CleanedBefore
<1> QED BY <1>1, <1>3, <1>6 DEF SyslogInv, CleanupGoesOn

\* The iteration is counted with its errors; Stop and Check.
LEMMA EndSyslogInv ==
  ASSUME SyslogInv, EndIteration \/ LaterIteration \/ ReceiveDone \/ Stop \/ Check
  PROVE  SyslogInv'
<1> USE StepCounts, SyslogAssumption
<1>1. CASE EndIteration
  <2>1. AddedErrors \in Nat
    <3>1. IsFiniteSet({CleanupSteps[i] : i \in DOMAIN CleanupSteps})
      <4>1. {CleanupSteps[i] : i \in DOMAIN CleanupSteps}
               = (({} \cup {CleanupSteps[1]}) \cup {CleanupSteps[2]}) \cup {CleanupSteps[3]}
        BY StepCounts
      <4>2. IsFiniteSet((({} \cup {CleanupSteps[1]}) \cup {CleanupSteps[2]}) \cup {CleanupSteps[3]})
        BY FS_EmptySet, FS_AddElement
      <4> QED BY <4>1, <4>2
    <3>2. IsFiniteSet(errs)
      BY <3>1, FS_Subset DEF SyslogInv, SyslogTypeOK
    <3> QED BY <3>2, FS_CardinalityType DEF AddedErrors
  <2>2. SyslogTypeOK' /\ Tally'
    BY <1>1, <2>1 DEF EndIteration, AfterIteration, SyslogInv, SyslogTypeOK, Tally
  <2>3. step = 4 /\ CleanedBefore(4)
    BY <1>1 DEF EndIteration, SyslogInv, CleanupGoesOn
  <2>4. CleanupGoesOn'
    BY <1>1, <2>3 DEF EndIteration, AfterIteration, CleanupGoesOn, CleanedBefore
  <2> QED BY <2>2, <2>4 DEF SyslogInv
<1>2. CASE ReceiveDone
  BY <1>2 DEF ReceiveDone, SyslogInv, SyslogTypeOK, Tally, CleanupGoesOn
<1>3. CASE Stop
  BY <1>3 DEF Stop, Sending, loopVars, SyslogInv, SyslogTypeOK, Tally, CleanupGoesOn,
              CleanedBefore
<1>4. CASE Check
  <2>1. SyslogTypeOK' /\ Tally'
    BY <1>4 DEF Check, OverThreshold, SyslogInv, SyslogTypeOK, Tally
  <2>2. CleanupGoesOn'
    BY <1>4 DEF Check, SyslogInv, CleanupGoesOn, CleanedBefore
  <2> QED BY <2>1, <2>2 DEF SyslogInv
<1>5. CASE LaterIteration
  BY <1>5 DEF LaterIteration, SyslogInv, SyslogTypeOK, Tally, CleanupGoesOn, CleanedBefore
<1> QED BY <1>1, <1>2, <1>3, <1>4, <1>5

-----------------------------------------------------------------------------
(* The log spammer                                                         *)

\* No line has been asked for at first.
LEMMA InitLogInv == LogInit => LogInv
<1> SUFFICES ASSUME LogInit PROVE LogInv
  OBVIOUS
<1>1. LogTypeOK
  <2>1. {doneGet, checked, authorized} \subseteq BOOLEAN
    BY Zenon DEF LogInit
  <2>2. \A lines \in {hand, logMessages, stream, lost} : lines \subseteq Line
    BY DEF LogInit
  <2> QED BY <2>1, <2>2, LogAssumption DEF LogInit, LogTypeOK
<1>2. LogPhases /\ LinesApart /\ LossIsReported
  BY DEF LogInit, LogPhases, LinesApart, LossIsReported
<1>3. AppLines = {}
  BY DEF LogInit, AppLines, Numbered
<1>4. LinesCounted
  BY <1>3, FS_EmptySet DEF LogInit, LinesCounted
<1> QED BY <1>1, <1>2, <1>4 DEF LogInv

\* A request of the getter writes a line of the app with its number at most:
\* the line is new, and no other one goes away.
LEMMA RequestLines ==
  ASSUME LogInv, NEW n \in 0 .. MaxRequests, NEW sources \in SUBSET Sources,
         Request(n, sources), UNCHANGED <<hand, logMessages>>
  PROVE  /\ requests' \in 0 .. MaxRequests /\ requests' = requests + 1
         /\ stream' \subseteq Line /\ lost' \subseteq Line
         /\ LinesApart'
         /\ \E l \in Line :
               /\ l.number = n
               /\ AppLines' = AppLines \/ AppLines' = AppLines \cup {l}
               /\ "APP" \in sources => AppLines' = AppLines \cup {l}
<1> DEFINE lines == {[request |-> requests + 1, number |-> n, source |-> s] : s \in sources}
           l     == [request |-> requests + 1, number |-> n, source |-> "APP"]
<1>1. /\ requests' \in 0 .. MaxRequests /\ requests' = requests + 1
      /\ requests \in 0 .. MaxRequests /\ requests + 1 \in 1 .. MaxRequests
      /\ stream' = IF authorized THEN stream \cup lines ELSE stream
      /\ lost' = IF authorized THEN lost ELSE lost \cup Numbered(lines)
  BY LogAssumption DEF Request, LogInv, LogTypeOK
<1>2. lines \subseteq Line
  BY <1>1, LogAssumption DEF Line, TEST
<1>3. Numbered(lines) = IF "APP" \in sources THEN {l} ELSE {}
  BY DEF Numbered, TEST
<1>4. \A x \in lines : x.request = requests + 1
  OBVIOUS
<1> HIDE DEF lines
<1>5. Numbered(lines) \subseteq lines
  BY DEF Numbered
<1>6. stream' \subseteq Line /\ lost' \subseteq Line
  BY <1>1, <1>2, <1>5 DEF LogInv, LogTypeOK
<1>7. AppLines' = AppLines \cup Numbered(lines)
  BY <1>1, <1>5 DEF AppLines, Numbered
<1>8. LinesApart'
  <2>1. /\ \A x \in lost \cup stream \cup hand \cup logMessages :
                x \in Line /\ x.request <= requests
        /\ LinesApart
    BY DEF LogInv, LinesApart, LogTypeOK
  <2>2. lines \cap (lost \cup stream \cup hand \cup logMessages) = {}
    BY <1>1, <1>4, <2>1
  <2>3. \A x \in (lost \cup stream \cup hand \cup logMessages)' : x.request <= requests'
    BY <1>1, <1>4, <1>5, <2>1 DEF Line
  <2> QED BY <1>1, <1>5, <2>1, <2>2, <2>3 DEF LinesApart
<1>9. l.number = n /\ l \in Line
  BY <1>1, LogAssumption DEF Line, TEST, Sources
<1> QED BY <1>1, <1>3, <1>6, <1>7, <1>8, <1>9

\* Lines that move, or are lost, are still counted and still reported.
LEMMA LinesMove ==
  ASSUME LogInv, UNCHANGED <<logWritten, logErrors, checked, missingLogs>>,
         AppLines' = AppLines, Outstanding' \subseteq Outstanding
  PROVE  LinesCounted' /\ LossIsReported'
<1>1. LinesCounted'
  BY DEF LogInv, LinesCounted
<1>2. IsFiniteSet(Outstanding)
  <2>1. Outstanding \subseteq AppLines
    BY DEF Outstanding, AppLines, Numbered
  <2> QED BY <2>1, FS_Subset DEF LogInv, LinesCounted
<1>3. /\ Cardinality(Outstanding') <= Cardinality(Outstanding)
      /\ Cardinality(Outstanding') \in Nat /\ Cardinality(Outstanding) \in Nat
  BY <1>2, FS_Subset, FS_CardinalityType
<1>4. Cardinality(missingLogs) \in Nat /\ logErrors \in Nat /\ logWritten \in Nat
  <2>1. logWritten \in Nat /\ missingLogs \subseteq 0 .. logWritten - 1 /\ logErrors \in Nat
    BY LogAssumption DEF LogInv, LogTypeOK
  <2>2. IsFiniteSet(0 .. logWritten - 1)
    BY <2>1, FS_Interval
  <2>3. IsFiniteSet(missingLogs)
    BY <2>1, <2>2, FS_Subset
  <2> QED BY <2>1, <2>3, FS_CardinalityType
<1>5. LossIsReported'
  BY <1>3, <1>4 DEF LogInv, LossIsReported
<1> QED BY <1>1, <1>5

\* The getter: a request, which fails or not, and its end.
LEMMA GetterLogInv ==
  ASSUME LogInv, Getter
  PROVE  LogInv'
<1>1. ASSUME getter = "select", UNCHANGED <<getter, listenVars, testVars, authorized, expiries>>,
             NEW sources \in SUBSET Sources, Request(logWritten, sources),
             \/ logErrors' = logErrors + 1 /\ logWritten' = logWritten
             \/ logErrors' = logErrors /\ logWritten' = logWritten + 1 /\ sources = Sources
      PROVE  LogInv'
  <2>1. /\ requests' \in 0 .. MaxRequests /\ requests' = requests + 1
        /\ stream' \subseteq Line /\ lost' \subseteq Line
        /\ LinesApart'
        /\ \E l \in Line :
              /\ l.number = logWritten
              /\ AppLines' = AppLines \/ AppLines' = AppLines \cup {l}
              /\ "APP" \in sources => AppLines' = AppLines \cup {l}
    BY <1>1, RequestLines DEF LogInv, LogTypeOK, listenVars
  <2>2. ~checked /\ missingLogs = {} /\ logWritten \in Nat /\ logErrors \in Nat
        /\ logWritten + logErrors <= requests /\ requests \in 0 .. MaxRequests
    BY <1>1, LogAssumption DEF LogInv, LogPhases, LogTypeOK
  <2>3. LogTypeOK'
    <3>1. {doneGet, checked, authorized}' \subseteq BOOLEAN
      BY <1>1, Zenon DEF LogInv, LogTypeOK, testVars
    <3>2. \A lines \in {hand, logMessages, stream, lost}' : lines \subseteq Line
      BY <1>1, <2>1 DEF LogInv, LogTypeOK, listenVars
    <3>3. logWritten' \in 0 .. MaxRequests /\ logErrors' \in 0 .. MaxRequests
      BY <1>1, <2>1, <2>2, LogAssumption
    <3> QED BY <1>1, <2>1, <2>2, <3>1, <3>2, <3>3 DEF LogInv, LogTypeOK, listenVars, testVars
  <2>4. LogPhases' /\ LossIsReported'
    BY <1>1, <2>1, <2>2 DEF LogInv, LogPhases, LossIsReported, listenVars, testVars
  <2>5. PICK l \in Line :
           /\ l.number = logWritten
           /\ AppLines' = AppLines \/ AppLines' = AppLines \cup {l}
           /\ "APP" \in sources => AppLines' = AppLines \cup {l}
    BY <2>1
  <2>6. /\ IsFiniteSet(AppLines') /\ Cardinality(AppLines) \in Nat
        /\ Cardinality(AppLines') \in Nat
        /\ Cardinality(AppLines') <= Cardinality(AppLines) + 1
    <3>1. IsFiniteSet(AppLines)
      BY DEF LogInv, LinesCounted
    <3>2. /\ Cardinality(AppLines) \in Nat
          /\ IsFiniteSet(AppLines \cup {l})
          /\ Cardinality(AppLines \cup {l})
                \in {Cardinality(AppLines), Cardinality(AppLines) + 1}
      BY <3>1, FS_AddElement, FS_CardinalityType
    <3> QED BY <2>5, <3>1, <3>2
  <2>7. \A m \in 0 .. logWritten' - 1 : \E x \in AppLines' : x.number = m
    <3> TAKE m \in 0 .. logWritten' - 1
    <3>1. CASE m = logWritten
      <4>1. sources = Sources
        BY <1>1, <2>2, <3>1
      <4>2. l \in AppLines'
        BY <2>5, <4>1 DEF Sources
      <4> QED BY <2>5, <3>1, <4>2
    <3>2. CASE m # logWritten
      <4>1. m \in 0 .. logWritten - 1
        BY <1>1, <2>2, <3>2
      <4>2. PICK x \in AppLines : x.number = m
        BY <4>1 DEF LogInv, LinesCounted
      <4> QED BY <2>5, <4>2
    <3> QED BY <3>1, <3>2
  <2>8. LinesCounted'
    BY <1>1, <2>2, <2>6, <2>7 DEF LogInv, LinesCounted
  <2> QED BY <2>1, <2>3, <2>4, <2>8 DEF LogInv
<1>2. CASE GetFails
  BY <1>1, <1>2 DEF GetFails
<1>3. CASE GetSucceeds
  BY <1>1, <1>3 DEF GetSucceeds
<1>4. CASE DoneGet \/ CloseDoneMsg
  <2>1. /\ UNCHANGED <<logWritten, logErrors, listenVars, testVars, streamVars>>
        /\ getter' \in {"done", "closed"}
    BY <1>4 DEF DoneGet, CloseDoneMsg
  <2>2. AppLines' = AppLines /\ Outstanding' = Outstanding
    BY <2>1 DEF AppLines, Outstanding, listenVars, streamVars
  <2>3. LinesCounted' /\ LossIsReported'
    BY <2>1, <2>2, LinesMove DEF testVars
  <2>4. LogTypeOK' /\ LogPhases' /\ LinesApart'
    BY <2>1 DEF LogInv, LogTypeOK, LogPhases, LinesApart, listenVars, testVars, streamVars
  <2> QED BY <2>3, <2>4 DEF LogInv
<1> QED BY <1>2, <1>3, <1>4 DEF Getter

\* The stream loses lines: they stay outstanding.
LEMMA LoseLogInv ==
  ASSUME LogInv, DropLine \/ Expire
  PROVE  LogInv'
<1>1. PICK lines \in SUBSET stream :
         /\ Lose(lines)
         /\ UNCHANGED authorized \/ authorized' = FALSE
         /\ expiries' \in 0 .. MaxExpiries
  <2>1. expiries \in 0 .. MaxExpiries /\ MaxExpiries \in Nat
    BY LogAssumption DEF LogInv, LogTypeOK
  <2>2. CASE DropLine
    BY <2>1, <2>2 DEF DropLine
  <2>3. CASE Expire
    <3>1. expiries' \in 0 .. MaxExpiries
      BY <2>1, <2>3 DEF Expire
    <3>2. Lose(stream) /\ authorized' = FALSE
      BY <2>3, Zenon DEF Expire
    <3> QED BY <3>1, <3>2, Zenon
  <2> QED BY <2>2, <2>3
<1>2. /\ stream' = stream \ lines
      /\ lost' = lost \cup Numbered(lines)
      /\ UNCHANGED <<getVars, listenVars, testVars, requests>>
  BY <1>1 DEF Lose
<1>3. Numbered(lines) \subseteq lines
  BY DEF Numbered
<1>4. AppLines' = AppLines /\ Outstanding' = Outstanding
  BY <1>2 DEF AppLines, Outstanding, Numbered, listenVars
<1>5. LinesCounted' /\ LossIsReported'
  BY <1>2, <1>4, LinesMove DEF getVars, testVars
<1>6. LogPhases'
  BY <1>2 DEF LogInv, LogPhases, getVars, listenVars, testVars
<1>7. LinesApart'
  BY <1>2, <1>3 DEF LogInv, LinesApart, listenVars
<1>8. LogTypeOK'
  <2>1. \A ls \in {hand, logMessages, stream, lost}' : ls \subseteq Line
    BY <1>2, <1>3 DEF LogInv, LogTypeOK, listenVars
  <2>2. {doneGet, checked, authorized}' \subseteq BOOLEAN
    BY <1>1, <1>2, Zenon DEF LogInv, LogTypeOK, testVars
  <2> QED BY <1>1, <1>2, <2>1, <2>2
          DEF LogInv, LogTypeOK, getVars, listenVars, testVars
<1> QED BY <1>5, <1>6, <1>7, <1>8 DEF LogInv

\* The listener: a line goes from the stream through its hand to logMessages,
\* unless it is not one of the app's.
LEMMA ListenerLogInv ==
  ASSUME LogInv, Listener
  PROVE  LogInv'
<1>1. ASSUME UNCHANGED <<getVars, testVars, expiries, requests, lost>>,
             UNCHANGED authorized \/ authorized' = TRUE,
             listener # "off", listener' \in {"select", "add", "returned"},
             listener' # "add" => hand' = {},
             stream' \subseteq stream, hand' \subseteq hand \cup (stream \ stream'),
             logMessages \subseteq logMessages',
             logMessages' \subseteq logMessages \cup (hand \ hand'),
             \A l \in logMessages' \ logMessages : IsAppLog(l),
             AppLines' = AppLines, Outstanding' \subseteq Outstanding
      PROVE  LogInv'
  <2>1. LinesCounted' /\ LossIsReported'
    BY <1>1, LinesMove DEF getVars, testVars
  <2>2. LogPhases'
    BY <1>1 DEF LogInv, LogPhases, getVars, testVars
  <2>3. LinesApart'
    BY <1>1 DEF LogInv, LinesApart
  <2>4. LogTypeOK'
    <3>1. \A ls \in {hand, logMessages, stream, lost}' : ls \subseteq Line
      BY <1>1 DEF LogInv, LogTypeOK
    <3>2. {doneGet, checked, authorized}' \subseteq BOOLEAN
      BY <1>1, Zenon DEF LogInv, LogTypeOK, testVars
    <3> QED BY <1>1, <3>1, <3>2 DEF LogInv, LogTypeOK, getVars, testVars
  <2> QED BY <2>1, <2>2, <2>3, <2>4 DEF LogInv
<1> USE DEF LogInv, LogPhases, listenVars, streamVars
<1>2. CASE Unauthorized
  <2>1. AppLines' = AppLines /\ Outstanding' = Outstanding
    BY <1>2 DEF Unauthorized, AppLines, Outstanding
  <2> QED BY <1>1, <1>2, <2>1 DEF Unauthorized
<1>3. CASE Receive
  <2>1. PICK l \in stream : hand' = {l} /\ stream' = stream \ {l}
    BY <1>3 DEF Receive
  <2>2. hand = {} /\ listener' = "add" /\ UNCHANGED <<lost, logMessages>>
    BY <1>3 DEF Receive
  <2>3. AppLines' = AppLines /\ Outstanding' = Outstanding
    BY <2>1, <2>2 DEF AppLines, Outstanding, Numbered
  <2> QED BY <1>1, <1>3, <2>1, <2>2, <2>3 DEF Receive
<1>4. CASE AddMessage
  <2>1. /\ logMessages' = logMessages \cup {l \in hand : l.source = "APP"}
        /\ hand' = {} /\ UNCHANGED <<lost, stream>>
        /\ \A l \in logMessages' \ logMessages : IsAppLog(l)
    BY <1>4 DEF AddMessage, IsAppLog
  <2>2. AppLines' = AppLines /\ Outstanding' \subseteq Outstanding
    BY <2>1 DEF AppLines, Outstanding, Numbered
  <2> QED BY <1>1, <1>4, <2>1, <2>2 DEF AddMessage
<1>5. CASE DoneMsg
  <2>1. AppLines' = AppLines /\ Outstanding' = Outstanding
    BY <1>5 DEF DoneMsg, AppLines, Outstanding
  <2> QED BY <1>1, <1>5, <2>1 DEF DoneMsg
<1> QED BY <1>2, <1>3, <1>4, <1>5 DEF Listener

\* Before Start, when every line is the answer to CheckStream, and Stop.
LEMMA TestLogInv ==
  ASSUME LogInv, CheckStream \/ StartSpammer \/ StopSpammer
  PROVE  LogInv'
<1>1. CASE CheckStream
  <2>1. PICK sources \in SUBSET Sources : Request(TEST, sources)
    BY <1>1 DEF CheckStream
  <2> DEFINE lines == {[request |-> requests + 1, number |-> TEST, source |-> s] : s \in sources}
  <2>2. /\ requests' \in 0 .. MaxRequests /\ requests' = requests + 1
        /\ requests \in 0 .. MaxRequests /\ requests + 1 \in 1 .. MaxRequests
        /\ stream' = IF authorized THEN stream \cup lines ELSE stream
        /\ lost' = IF authorized THEN lost ELSE lost \cup Numbered(lines)
        /\ UNCHANGED <<getVars, listenVars, testVars, authorized, expiries>>
    <3>1. requests \in 0 .. MaxRequests
      BY DEF LogInv, LogTypeOK
    <3>2. UNCHANGED <<getVars, listenVars, testVars, authorized, expiries>>
      BY <1>1, Zenon DEF CheckStream
    <3> QED BY <2>1, <3>1, <3>2, LogAssumption DEF Request
  <2>3. /\ lines \subseteq Line /\ Numbered(lines) = {}
        /\ \A x \in lines : x.request = requests + 1
    <3>1. TEST \in TEST .. MaxRequests
      BY LogAssumption DEF TEST
    <3>2. lines \subseteq Line
      BY <2>2, <3>1 DEF Line
    <3>3. \A x \in lines : x.number = TEST /\ x.request = requests + 1
      OBVIOUS
    <3> QED BY <3>2, <3>3 DEF Numbered
  <2> HIDE DEF lines
  <2>4. lost' = lost
    BY <2>2, <2>3
  <2>5. AppLines' = AppLines /\ Outstanding' = Outstanding
    BY <2>2, <2>3, <2>4 DEF AppLines, Outstanding, Numbered, listenVars
  <2>6. LinesCounted' /\ LossIsReported'
    BY <2>2, <2>5, LinesMove DEF getVars, testVars
  <2>7. LogPhases'
    BY <2>2, LogAssumption DEF LogInv, LogPhases, LogTypeOK, getVars, listenVars, testVars
  <2>8. LinesApart'
    <3>1. /\ \A x \in lost \cup stream \cup hand \cup logMessages :
                  x \in Line /\ x.request <= requests
          /\ LinesApart
      BY DEF LogInv, LinesApart, LogTypeOK
    <3>2. lines \cap (lost \cup stream \cup hand \cup logMessages) = {}
      BY <2>2, <2>3, <3>1
    <3>3. \A x \in (lost \cup stream \cup hand \cup logMessages)' : x.request <= requests'
      BY <2>2, <2>3, <2>4, <3>1 DEF Line, listenVars
    <3> QED BY <2>2, <2>4, <3>1, <3>2, <3>3 DEF LinesApart, listenVars
  <2>9. LogTypeOK'
    <3>1. \A ls \in {hand, logMessages, stream, lost}' : ls \subseteq Line
      BY <2>2, <2>3, <2>4 DEF LogInv, LogTypeOK, listenVars
    <3>2. {doneGet, checked, authorized}' \subseteq BOOLEAN
      BY <2>2, Zenon DEF LogInv, LogTypeOK, testVars
    <3> QED BY <2>2, <3>1, <3>2 DEF LogInv, LogTypeOK, getVars, listenVars, testVars
  <2> QED BY <2>6, <2>7, <2>8, <2>9 DEF LogInv
<1>2. CASE StartSpammer
  <2>1. /\ getter = "off" /\ getter' = "select" /\ listener' = "select"
        /\ stream' \subseteq stream
        /\ UNCHANGED <<logWritten, logErrors, hand, logMessages, testVars,
                       authorized, expiries, requests, lost>>
        /\ ~checked /\ logWritten = 0 /\ listener = "off"
    BY <1>2 DEF StartSpammer, LogInv, LogPhases
  <2>2. AppLines' \subseteq AppLines
    BY <2>1 DEF AppLines, Numbered
  <2>3. /\ IsFiniteSet(AppLines') /\ Cardinality(AppLines') <= Cardinality(AppLines)
        /\ Cardinality(AppLines') \in Nat /\ Cardinality(AppLines) \in Nat
    BY <2>2, FS_Subset, FS_CardinalityType DEF LogInv, LinesCounted
  <2>4. LinesCounted'
    BY <2>1, <2>3 DEF LogInv, LinesCounted, LogTypeOK
  <2>5. LossIsReported' /\ LogPhases'
    <3>1. ~checked' /\ missingLogs' = missingLogs
      BY <2>1, Zenon DEF testVars
    <3> QED BY <2>1, <3>1 DEF LogInv, LossIsReported, LogPhases
  <2>7. LinesApart'
    BY <2>1 DEF LogInv, LinesApart
  <2>6. LogTypeOK'
    <3>1. \A ls \in {hand, logMessages, stream, lost}' : ls \subseteq Line
      BY <2>1 DEF LogInv, LogTypeOK
    <3>2. {doneGet, checked, authorized}' \subseteq BOOLEAN
      BY <2>1, Zenon DEF LogInv, LogTypeOK, testVars
    <3> QED BY <2>1, <3>1, <3>2 DEF LogInv, LogTypeOK, testVars
  <2> QED BY <2>4, <2>5, <2>6, <2>7 DEF LogInv
<1>3. CASE StopSpammer
  <2>1. doneGet' = TRUE /\ UNCHANGED <<getVars, listenVars, checked, missingLogs, streamVars>>
    BY <1>3 DEF StopSpammer
  <2>2. AppLines' = AppLines /\ Outstanding' = Outstanding
    BY <2>1 DEF AppLines, Outstanding, listenVars, streamVars
  <2>3. LinesCounted' /\ LossIsReported'
    BY <2>1, <2>2, LinesMove DEF getVars
  <2>4. LogPhases' /\ LinesApart'
    BY <2>1 DEF LogInv, LogPhases, LinesApart, getVars, listenVars, streamVars
  <2>5. LogTypeOK'
    <3>1. {doneGet, checked, authorized}' \subseteq BOOLEAN
      BY <2>1, Zenon DEF LogInv, LogTypeOK, streamVars
    <3> QED BY <2>1, <3>1 DEF LogInv, LogTypeOK, getVars, listenVars, streamVars
  <2> QED BY <2>3, <2>4, <2>5 DEF LogInv
<1> QED BY <1>1, <1>2, <1>3

\* Check: of the lines written, those received carry at most as many numbers,
\* and what is left of logWritten numbers and logErrors spare lines covers
\* those outstanding.
LEMMA CheckLogInv ==
  ASSUME LogInv, CheckLogs
  PROVE  LogInv'
<1> DEFINE M == Numbered(logMessages)
           R == {l.number : l \in M}
           E == 0 .. logWritten - 1
<1>1. /\ getter \in {"done", "closed"}
      /\ missingLogs' = E \ ReceivedLogNumbers
      /\ UNCHANGED <<getVars, listenVars, doneGet, streamVars>>
      /\ checked' = TRUE
  BY Zenon DEF CheckLogs, Expected
<1>2. ReceivedLogNumbers = R
  BY DEF ReceivedLogNumbers, Numbered, LogInv, LogPhases, IsAppLog
<1>3. AppLines = Outstanding \cup M /\ Outstanding \cap M = {}
  BY DEF AppLines, Outstanding, Numbered, LogInv, LinesApart
<1>4. /\ IsFiniteSet(Outstanding) /\ IsFiniteSet(M)
      /\ Cardinality(AppLines) = Cardinality(Outstanding) + Cardinality(M)
      /\ Cardinality(Outstanding) \in Nat /\ Cardinality(M) \in Nat
  <2>1. IsFiniteSet(Outstanding) /\ IsFiniteSet(M)
    BY <1>3, FS_Subset DEF LogInv, LinesCounted
  <2>2. Cardinality(Outstanding \cup M) = Cardinality(Outstanding) + Cardinality(M) - Cardinality(Outstanding \cap M)
    BY <2>1, FS_Union
  <2>3. Cardinality(Outstanding \cap M) = 0
    BY <1>3, FS_EmptySet
  <2> QED BY <1>3, <2>1, <2>2, <2>3, FS_CardinalityType
<1>5. IsFiniteSet(R) /\ Cardinality(R) <= Cardinality(M) /\ Cardinality(R) \in Nat
  <2> DEFINE f == [l \in M |-> l.number]
  <2>1. f \in Surjection(M, R)
    BY DEF Surjection
  <2> QED BY <1>4, <2>1, FS_Surjection, FS_CardinalityType
<1>6. /\ logWritten \in Nat /\ logErrors \in Nat
      /\ IsFiniteSet(E) /\ Cardinality(E) = logWritten
  <2>1. logWritten \in Nat /\ logErrors \in Nat
    BY LogAssumption DEF LogInv, LogTypeOK
  <2> QED BY <2>1, FS_Interval
<1> HIDE DEF M, R, E
<1>7. /\ Cardinality(E \ R) = logWritten - Cardinality(E \cap R)
      /\ Cardinality(E \cap R) <= Cardinality(R) /\ Cardinality(E \cap R) \in Nat
  BY <1>5, <1>6, FS_Difference, FS_Intersection, FS_CardinalityType
<1>8. Cardinality(Outstanding) <= Cardinality(E \ R) + logErrors
  BY <1>4, <1>5, <1>6, <1>7 DEF LogInv, LinesCounted
<1>9. AppLines' = AppLines /\ Outstanding' = Outstanding
  BY <1>1 DEF AppLines, Outstanding, listenVars, streamVars
<1>10. LossIsReported'
  BY <1>1, <1>2, <1>8, <1>9 DEF LossIsReported, getVars
<1>11. LinesCounted' /\ LinesApart'
  BY <1>1, <1>9 DEF LogInv, LinesCounted, LinesApart, getVars, listenVars, streamVars
<1>12. LogPhases'
  BY <1>1 DEF LogInv, LogPhases, getVars, listenVars, streamVars
<1>13. LogTypeOK'
  <2>1. {doneGet, checked, authorized}' \subseteq BOOLEAN
    BY <1>1, Zenon DEF LogInv, LogTypeOK, streamVars
  <2>2. missingLogs' \subseteq 0 .. logWritten' - 1
    BY <1>1 DEF E, getVars
  <2> QED BY <1>1, <2>1, <2>2 DEF LogInv, LogTypeOK, getVars, listenVars, streamVars
<1> QED BY <1>10, <1>11, <1>12, <1>13 DEF LogInv

-----------------------------------------------------------------------------
(* Both probes                                                             *)

\* IInv is inductive.
LEMMA NextIInv == IInv /\ [Next]_vars => IInv'
<1> SUFFICES ASSUME IInv, [Next]_vars PROVE IInv'
  OBVIOUS
<1>1. CASE LogNext /\ LogRuns
  <2>1. LogInv'
    BY <1>1, GetterLogInv, ListenerLogInv, LoseLogInv, TestLogInv, CheckLogInv
       DEF IInv, LogNext
  <2>2. SyslogInv' /\ probe' = probe
    BY <1>1 DEF IInv, LogRuns, syslogVars, loopVars, SyslogInv, SyslogTypeOK, Tally,
                CleanupGoesOn, CleanedBefore
  <2> QED BY <2>1, <2>2 DEF IInv
<1>2. CASE UNCHANGED <<logVars, probe>> /\ (SyslogNext \/ UNCHANGED syslogVars)
  <2>1. LogInv'
    BY <1>2 DEF IInv, logVars, getVars, listenVars, testVars, streamVars,
                LogInv, LogTypeOK, LogPhases, LinesApart, LinesCounted, LossIsReported,
                AppLines, Outstanding
  <2>2. SyslogInv'
    <3>1. CASE SyslogNext
      BY <3>1, DeploySyslogInv, CleanupSyslogInv, EndSyslogInv DEF IInv, SyslogNext, Loop
    <3>2. CASE UNCHANGED syslogVars
      BY <3>2 DEF IInv, syslogVars, loopVars, SyslogInv, SyslogTypeOK, Tally,
                  CleanupGoesOn, CleanedBefore
    <3> QED BY <1>2, <3>1, <3>2
  <2> QED BY <1>2, <2>1, <2>2 DEF IInv
<1> QED BY <1>1, <1>2 DEF Next, SyslogRuns, vars

\* IInv holds at first.
LEMMA InitIInv == Init => IInv
  BY InitSyslogInv, InitLogInv DEF Init, IInv

\* IInv is an invariant of the probes.
LEMMA Invariance == Spec => []IInv
  BY InitIInv, NextIInv, PTL DEF Spec

-----------------------------------------------------------------------------
(* The theorems                                                            *)

\* Every variable of both probes has its type: an iteration, a request and an
\* error are counted once, and no step of deploySyslogAndValidate or cleanup
\* runs past the last command.
THEOREM ProbesTypeCorrect == Spec => []TypeOK
<1>1. IInv => TypeOK
  BY DEF IInv, SyslogInv, LogInv, TypeOK
<1> QED BY <1>1, Invariance, PTL

\* A line of the app that Check did not see is missing in its report, or hides
\* behind a request that is reported as an error.
THEOREM NoLossUnnoticed == Spec => []LossIsReported
<1>1. IInv => LossIsReported
  BY DEF IInv, LogInv
<1> QED BY <1>1, Invariance, PTL

\* What Check reports as missing was written by the app and has not arrived.
THEOREM NoFalseAlarm == Spec => MissingIsOutstanding
<1>1. ASSUME IInv, [Next]_vars, checked', ~checked
      PROVE  \A n \in missingLogs' : \E l \in Outstanding : l.number = n
  <2>1. CheckLogs
    BY <1>1, Zenon DEF Next, LogNext, Getter, Listener, GetFails, GetSucceeds, DoneGet,
       CloseDoneMsg, Unauthorized, Receive, AddMessage, DoneMsg, DropLine, Expire, Lose,
       CheckStream, StartSpammer, StopSpammer, SyslogRuns, vars, logVars, testVars
  <2>2. missingLogs' = 0 .. logWritten - 1 \ ReceivedLogNumbers
    BY <2>1 DEF CheckLogs, Expected
  <2> TAKE n \in missingLogs'
  <2>3. PICK l \in AppLines : l.number = n
    BY <1>1, <2>2 DEF IInv, LogInv, LinesCounted
  <2>4. l \notin logMessages
    BY <2>2, <2>3 DEF ReceivedLogNumbers, AppLines, Numbered
  <2>5. l \in Outstanding
    BY <2>3, <2>4 DEF AppLines, Outstanding, Numbered
  <2> QED BY <2>3, <2>5
<1>2. IInv /\ [Next]_vars =>
        [checked' /\ ~checked =>
           \A n \in missingLogs' : \E l \in Outstanding : l.number = n]_vars
  BY <1>1
<1> QED BY <1>2, Invariance, PTL DEF Spec, MissingIsOutstanding

\* Whatever command failed, an iteration leaves nothing behind but what its
\* own cleanup failed to remove.
THEOREM IterationsCleanUp == Spec => []CleansUp
<1>1. IInv => CleansUp
  BY StepCounts DEF IInv, SyslogInv, CleanupGoesOn, CleanedBefore, CleansUp
<1> QED BY <1>1, Invariance, PTL

\* Check of the syslog checker reads counters at rest.
THEOREM StopSettles == Spec => []SettledWhenStopped
<1>1. IInv => SettledWhenStopped
  BY DEF IInv, SyslogInv, Tally, SettledWhenStopped
<1> QED BY <1>1, Invariance, PTL

\* The verdict "ok" bounds the iterations whose line was not found.
THEOREM OkIsBounded == Spec => []OkMeansFewFailures
<1>1. IInv => OkMeansFewFailures
  BY SyslogAssumption DEF IInv, SyslogInv, SyslogTypeOK, Tally, OkMeansFewFailures
<1> QED BY <1>1, Invariance, PTL
=============================================================================
