------------------------------ MODULE Watcher ------------------------------
(***************************************************************************)
(* helpers.Watcher: one goroutine calls Watch again whenever it fails,     *)
(* from the index after the last one recorded, and a second one, started   *)
(* for each call, records the responses.  Response and stopListening are   *)
(* unbuffered channels, so that handing over a value is one step of both.  *)
(***************************************************************************)
EXTENDS KvStore

CONSTANT
  HistorySize,   \* how many events etcd keeps for watchers
  MaxBreaks      \* bound: connections of a Watch that break

ASSUME WatcherAssumption == HistorySize \in Nat \ {0} /\ MaxBreaks \in Nat

VARIABLES
  wpc,                 \* "call", "watching", "failed" or "ended" (awaiting
                       \* stopListening), "stopped"
  waitIndex,           \* external: the next index the running Watch waits for
  listener,            \* "none", "receive", "add"
  response,            \* the index of the response the listener has in hand
  data,                \* w.data
  lastModifiedIndex,   \* w.lastModifiedIndex
  stop,                \* the test's w.Stop <- true: "no", "sending", "stale"
                       \* (blocked on a channel that was replaced), "sent"
  breaks               \* bound counter

watchVars == <<wpc, waitIndex, listener, response, data, lastModifiedIndex, stop, breaks>>

WatchTypeOK ==
  /\ wpc \in {"call", "watching", "failed", "ended", "stopped"}
  /\ waitIndex \in Nat
  /\ listener \in {"none", "receive", "add"}
  /\ response \in Nat
  /\ data \in [Keys -> Values]
  /\ lastModifiedIndex \in Nat
  /\ stop \in {"no", "sending", "stale", "sent"}
  /\ breaks \in 0 .. MaxBreaks

WatchInit ==
  /\ wpc = "call"
  /\ waitIndex = 0
  /\ listener = "none"
  /\ response = 0
  /\ data = [k \in Keys |-> ""]
  /\ lastModifiedIndex = 0
  /\ stop = "no"
  /\ breaks = 0

\* etcd no longer has the event a watch from index i begins with.
Cleared(i) == i + HistorySize <= Len(history)

-----------------------------------------------------------------------------
(* The goroutine of Watch                                                  *)

\* Mutant of ResumeIndex: the last recorded index itself.
ResumeIndexLast == lastModifiedIndex

\* w.getLastModifiedIndex() + 1
ResumeIndex == lastModifiedIndex + 1

\* The top of the loop.  To etcd, the index 0 means "from now on".
CallWatch ==
  /\ wpc = "call"
  /\ listener' = "receive"
  /\ waitIndex' = IF ResumeIndex = 0 THEN Len(history) + 1 ELSE ResumeIndex
  /\ wpc' = "watching"
  /\ UNCHANGED <<response, data, lastModifiedIndex, stop, breaks, storeVars>>

\* The running Watch hands the next event to the listener (external).
Deliver ==
  /\ wpc = "watching"
  /\ waitIndex <= Len(history) /\ ~Cleared(waitIndex)
  /\ listener = "receive"
  /\ listener' = "add"
  /\ response' = waitIndex
  /\ waitIndex' = waitIndex + 1
  /\ UNCHANGED <<wpc, data, lastModifiedIndex, stop, breaks, storeVars>>

\* Watch returns an error and closes Response (external): the connection
\* breaks, or the event has been cleared.
WatchFails ==
  /\ wpc = "watching"
  /\ \/ breaks < MaxBreaks /\ breaks' = breaks + 1
     \/ Cleared(waitIndex) /\ UNCHANGED breaks
  /\ wpc' = "failed"
  /\ UNCHANGED <<waitIndex, listener, response, data, lastModifiedIndex, stop, storeVars>>

\* Watch receives from Stop and closes Response (external).  The fake of the
\* unit test then returns no error, which ends the watcher; go-etcd's client
\* may call a stop an error, and then the watcher watches again.
WatchStopped ==
  /\ wpc = "watching"
  /\ stop = "sending"
  /\ stop' = "sent"
  /\ wpc' \in {"ended", "failed"}
  /\ UNCHANGED <<waitIndex, listener, response, data, lastModifiedIndex, breaks, storeVars>>

\* Mutants of Drained: the goroutine does not wait for the listener; the
\* listener does not test whether Response is closed.
DrainedAtOnce == TRUE
DrainedNever  == FALSE

\* The listener finds Response closed and sends to stopListening.
Drained == listener = "receive"

\* Mutant of AfterWatch: an error ends the watcher too.
AfterWatchReturn == "stopped"

\* Watch is called again after an error, and else setStopped(true).
AfterWatch == IF wpc = "failed" THEN "call" ELSE "stopped"

\* <-w.stopListening.  After an error the channels are new, and whoever is
\* sending on the old Stop stays there.
StopListening ==
  /\ wpc \in {"failed", "ended"}
  /\ Drained
  /\ listener' = "none"
  /\ stop' = IF wpc = "failed" /\ stop = "sending" THEN "stale" ELSE stop
  /\ wpc' = AfterWatch
  /\ UNCHANGED <<waitIndex, response, data, lastModifiedIndex, breaks, storeVars>>

-----------------------------------------------------------------------------
(* The listener and the test                                               *)

\* listenForResponses: AddData, and back to the channel.  A nil response and
\* one without a Node are skipped, which changes nothing.
AddData ==
  /\ listener = "add"
  /\ data' = [data EXCEPT ![history[response].key] = history[response].value]
  /\ lastModifiedIndex' = response
  /\ listener' = "receive"
  /\ UNCHANGED <<wpc, waitIndex, response, stop, breaks, storeVars>>

\* watcher.Stop <- true in a test: the channel is read, and the send begins.
RequestStop ==
  /\ stop = "no"
  /\ stop' = "sending"
  /\ UNCHANGED <<wpc, waitIndex, listener, response, data, lastModifiedIndex, breaks, storeVars>>

WatchGoroutine ==
  CallWatch \/ Deliver \/ WatchFails \/ WatchStopped \/ StopListening

WatchNext == WatchGoroutine \/ AddData \/ RequestStop
=============================================================================
