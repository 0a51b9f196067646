------------------------------ MODULE KvProbes ------------------------------
(***************************************************************************)
(* The two probes the acceptance tests keep running during an update of    *)
(* the cluster, on one store: the spammer writes what the watcher reads.   *)
(***************************************************************************)
EXTENDS KeySpammer, Watcher

vars == <<storeVars, spamVars, watchVars>>

TypeOK == StoreTypeOK /\ SpamTypeOK /\ WatchTypeOK

Init == StoreInit /\ SpamInit /\ WatchInit

Consumer(k) == (Put(k) \/ PutFails(k)) /\ UNCHANGED <<spamVars, watchVars>>

OthersWrite ==
  /\ \E k \in Keys, v \in Values : Foreign(k, v)
  /\ UNCHANGED <<spamVars, watchVars>>

Next ==
  \/ SpamNext /\ UNCHANGED watchVars
  \/ WatchNext /\ UNCHANGED spamVars
  \/ \E k \in Keys : Consumer(k)
  \/ OthersWrite

Spec == Init /\ [][Next]_vars

\* The goroutines run on and the requests end.  A select whose channels are
\* both ready picks either one, so that <-s.done is taken in the end although
\* the timer keeps firing.
Fairness ==
  /\ WF_vars(SpamGoroutine /\ UNCHANGED watchVars)
  /\ SF_vars(Finish /\ UNCHANGED watchVars)
  /\ \A k \in Keys : WF_vars(Consumer(k)) /\ WF_vars(CheckKey(k) /\ UNCHANGED watchVars)
  /\ WF_vars(BeginCheck /\ UNCHANGED watchVars)
  /\ WF_vars(WatchGoroutine /\ UNCHANGED spamVars)
  /\ WF_vars(AddData /\ UNCHANGED spamVars)

FairSpec == Spec /\ Fairness

-----------------------------------------------------------------------------
(* Properties                                                              *)

\* No number is used twice: the spammer takes back only an attempt that never
\* reached the testconsumer, so that a late PUT of an attempt that failed
\* cannot hit the key of a later one.
WrittenOnce == \A k \in Keys : Writes(k) <= 1 /\ (k \in pending => Writes(k) = 0)

\* A clean Check means that nothing was lost: some key was written, every
\* attempt that was counted was acknowledged, whatever was refused or applied
\* late in between, and every key that Check read back was in etcd, with its
\* value, when Stop returned or later.
CleanCheckIsTrue ==
  verdict = "nil" =>
     /\ keyWriteAttempts > 0 /\ keyWriteAttempts = added
     /\ \A k \in store : \E i \in endedAt .. Len(history) : ValueAt(k, i) = "own"

Abstract == INSTANCE Replica WITH
  log <- history, applied <- lastModifiedIndex, copy <- data

\* The watcher is a replica of the store: its data are the result of applying
\* etcd's events one by one, each one once and none left out, however often
\* Watch fails and is resumed.
ImplementsReplica == Abstract!Spec

\* A stopped watcher has recorded everything that Watch handed over.
StoppedIsDrained == wpc = "stopped" => lastModifiedIndex = response

\* A watcher that was not told to stop, or told in vain, gets to the end of the
\* history: no error ends it, and goroutine and listener never wait for each
\* other forever.  The exception is the watcher that fell so far behind that etcd
\* cleared its next event: it calls in vain forever.
CatchesUp ==
  <>[](\/ wpc = "stopped" /\ stop = "sent"
       \/ lastModifiedIndex = Len(history)
       \/ Cleared(lastModifiedIndex + 1))

\* Stop of the spammer returns and Check comes to a verdict.
SpammerEnds == done ~> verdict # "none"
=============================================================================
