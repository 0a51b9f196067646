----------------------------- MODULE LogSpammer -----------------------------
(***************************************************************************)
(* logspammer.Spammer: a goroutine makes an app write numbered log lines,  *)
(* a second one listens to the log stream of the app, and Check compares   *)
(* the numbers.  A line is written before the answer to its request comes, *)
(* the stream may lose lines and its token expires.                        *)
(***************************************************************************)
EXTENDS Integers, FiniteSets

CONSTANTS
  MaxRequests,   \* bound: requests to the app
  MaxExpiries    \* bound: how often the token of the stream expires

ASSUME LogAssumption == MaxRequests \in Nat /\ MaxExpiries \in Nat

\* The number of the line that CheckStream asks for, "TEST".
TEST == -1

\* Each request also leaves a line of the router, with the number in its path.
Sources == {"APP", "RTR"}
Line == [request : 1 .. MaxRequests, number : TEST .. MaxRequests, source : Sources]

VARIABLES
  getter,        \* "off" before Start, "select", "done" after wg.Done, and
                 \* "closed" after close(doneMsg), waiting for ever
  listener,      \* "off", "select", "add" a line, "returned"
  hand,          \* the line the listener has taken from msgChan, if any
  logWritten,    \* s.logWritten
  logMessages,   \* s.logMessages
  logErrors,     \* how many errors s.errors holds
  doneGet,       \* s.doneGet is closed
  checked,       \* Check has run ...
  missingLogs,   \* ... and what it found missing
  stream,        \* external: the lines on their way to msgChan
  authorized,    \* external: the token of the stream is good
  expiries,      \* bound counter
  requests,      \* requests so far, which tells lines of one number apart
  lost           \* history: the numbered lines of the app that were dropped

getVars    == <<getter, logWritten, logErrors>>
listenVars == <<listener, hand, logMessages>>
testVars   == <<doneGet, checked, missingLogs>>
streamVars == <<stream, authorized, expiries, requests, lost>>
logVars    == <<getVars, listenVars, testVars, streamVars>>

LogTypeOK ==
  /\ getter \in {"off", "select", "done", "closed"}
  /\ listener \in {"off", "select", "add", "returned"}
  /\ \A lines \in {hand, logMessages, stream, lost} : lines \subseteq Line
  /\ logWritten \in 0 .. MaxRequests
  /\ logErrors \in 0 .. MaxRequests
  /\ {doneGet, checked, authorized} \subseteq BOOLEAN
  /\ missingLogs \subseteq 0 .. logWritten - 1
  /\ expiries \in 0 .. MaxExpiries
  /\ requests \in 0 .. MaxRequests

\* NewSpammer
LogInit ==
  /\ getter = "off" /\ listener = "off"
  /\ hand = {} /\ logMessages = {} /\ stream = {} /\ lost = {}
  /\ logWritten = 0 /\ logErrors = 0 /\ requests = 0 /\ expiries = 0
  /\ doneGet = FALSE /\ checked = FALSE /\ missingLogs = {}
  /\ authorized = TRUE

-----------------------------------------------------------------------------
(* The app and its log stream (external)                                   *)

Numbered(lines) == {l \in lines : l.source = "APP" /\ l.number # TEST}

\* A request for line n is logged by some of the sources; what the stream
\* cannot deliver is lost.
Request(n, sources) ==
  LET lines == {[request |-> requests + 1, number |-> n, source |-> s] : s \in sources}
  IN  /\ requests < MaxRequests
      /\ requests' = requests + 1
      /\ stream' = IF authorized THEN stream \cup lines ELSE stream
      /\ lost' = IF authorized THEN lost ELSE lost \cup Numbered(lines)

Lose(lines) ==
  /\ stream' = stream \ lines
  /\ lost' = lost \cup Numbered(lines)
  /\ UNCHANGED <<getVars, listenVars, testVars, requests>>

DropLine == \E l \in stream : Lose({l}) /\ UNCHANGED <<authorized, expiries>>

Expire ==
  /\ authorized /\ expiries < MaxExpiries
  /\ authorized' = FALSE
  /\ expiries' = expiries + 1
  /\ Lose(stream)

-----------------------------------------------------------------------------
(* The first goroutine of Start                                            *)

\* A request fails, on its way to the app or on its way back: the next one
\* has the same number.
GetFails ==
  /\ getter = "select"
  /\ \E sources \in SUBSET Sources : Request(logWritten, sources)
  /\ logErrors' = logErrors + 1
  /\ UNCHANGED <<getter, logWritten, listenVars, testVars, authorized, expiries>>

GetSucceeds ==
  /\ getter = "select"
  /\ Request(logWritten, Sources)
  /\ logWritten' = logWritten + 1
  /\ UNCHANGED <<getter, logErrors, listenVars, testVars, authorized, expiries>>

\* <-s.doneGet: wg.Done() lets Stop return ...
DoneGet ==
  /\ getter = "select" /\ doneGet
  /\ getter' = "done"
  /\ UNCHANGED <<logWritten, logErrors, listenVars, testVars, streamVars>>

\* Mutant of CloseDoneMsg: doneWaitGroup.Wait() comes first.
CloseDoneMsgAfterWait == FALSE /\ UNCHANGED logVars

\* ... before close(s.doneMsg) ends the listener.
CloseDoneMsg ==
  /\ getter = "done"
  /\ getter' = "closed"
  /\ UNCHANGED <<logWritten, logErrors, listenVars, testVars, streamVars>>

-----------------------------------------------------------------------------
(* The second goroutine of Start                                           *)

\* <-s.errChan: a new stream if the error is "Unauthorized"; any other error
\* changes nothing.  The stream (external) is taken to leave its error channel
\* open: the nil error of a closed one would end the test with a panic.
Unauthorized ==
  /\ listener = "select" /\ ~authorized
  /\ authorized' = TRUE
  /\ UNCHANGED <<getVars, listenVars, testVars, stream, expiries, requests, lost>>

\* <-s.msgChan
Receive ==
  /\ listener = "select"
  /\ \E l \in stream : hand' = {l} /\ stream' = stream \ {l}
  /\ listener' = "add"
  /\ UNCHANGED <<getVars, logMessages, testVars, authorized, expiries, requests, lost>>

\* Mutant of IsAppLog: any line of the stream.
IsAppLogAny(l) == TRUE

\* The source type is "APP/PROC/WEB" and the message type is OUT.
IsAppLog(l) == l.source = "APP"

AddMessage ==
  /\ listener = "add"
  /\ logMessages' = logMessages \cup {l \in hand : IsAppLog(l)}
  /\ hand' = {}
  /\ listener' = "select"
  /\ UNCHANGED <<getVars, testVars, streamVars>>

\* <-s.doneMsg
DoneMsg ==
  /\ listener = "select" /\ getter = "closed"
  /\ listener' = "returned"
  /\ UNCHANGED <<getVars, hand, logMessages, testVars, streamVars>>

-----------------------------------------------------------------------------
(* The test                                                                *)

\* CheckStream asks for a line, in vain as far as the test can tell ...
CheckStream ==
  /\ getter = "off"
  /\ \E sources \in SUBSET Sources : Request(TEST, sources)
  /\ UNCHANGED <<getVars, listenVars, testVars, authorized, expiries>>

\* ... or takes some line from msgChan in time, and the test calls Start.
StartSpammer ==
  /\ getter = "off"
  /\ \E l \in stream : stream' = stream \ {l}
  /\ getter' = "select" /\ listener' = "select"
  /\ UNCHANGED <<logWritten, logErrors, hand, logMessages, testVars,
                 authorized, expiries, requests, lost>>

StopSpammer ==
  /\ getter # "off" /\ ~doneGet
  /\ doneGet' = TRUE
  /\ UNCHANGED <<getVars, listenVars, checked, missingLogs, streamVars>>

\* getReceivedLogNumbers
ReceivedLogNumbers == {l.number : l \in logMessages} \ {TEST}

\* Mutant of Expected: off by one.
ExpectedOneMore == 0 .. logWritten

\* The loop of Check runs from 0 to logWritten.
Expected == 0 .. logWritten - 1

\* Check once Stop has returned; the listener may still be running.
CheckLogs ==
  /\ getter \in {"done", "closed"} /\ ~checked
  /\ checked' = TRUE
  /\ missingLogs' = Expected \ ReceivedLogNumbers
  /\ UNCHANGED <<getVars, listenVars, doneGet, streamVars>>

Getter   == GetFails \/ GetSucceeds \/ DoneGet \/ CloseDoneMsg
Listener == Unauthorized \/ Receive \/ AddMessage \/ DoneMsg

LogNext ==
  \/ Getter \/ Listener \/ DropLine \/ Expire
  \/ CheckStream \/ StartSpammer \/ StopSpammer \/ CheckLogs
=============================================================================
