--------------------------- MODULE KvProbesProofs ---------------------------
(***************************************************************************)
(* That the watcher is a replica of the store, and that a clean Check of   *)
(* the spammer means what it says, proved for any number of keys, events   *)
(* and broken watches, and any size of etcd's event history.               *)
(***************************************************************************)
EXTENDS KvProbes, FiniteSetTheorems, WellFoundedInduction, TLAPS

\* Goroutine, listener and running Watch agree on where the watcher is: the
\* listener holds at most one event, the one after those recorded, and the
\* Watch waits for the one after that.
InStep ==
  /\ IF listener = "add" THEN response = lastModifiedIndex + 1 ELSE response = lastModifiedIndex
  /\ response <= Len(history)
  /\ wpc \in {"call", "stopped"} <=> listener = "none"
  /\ wpc = "watching" => waitIndex = response + 1

IInv ==
  /\ history \in Seq([key : Keys, value : Values])
  /\ lastModifiedIndex \in Nat
  /\ wpc \in {"call", "watching", "failed", "ended", "stopped"}
  /\ listener \in {"none", "receive", "add"}
  /\ InStep

-----------------------------------------------------------------------------
\* Every watcher starts at the beginning of the history.
LEMMA InitIInv == Init => IInv
<1> SUFFICES ASSUME Init PROVE IInv
  OBVIOUS
<1>1. history \in Seq([key : Keys, value : Values]) /\ Len(history) = 0
  BY DEF Init, StoreInit
<1>2. wpc = "call" /\ listener = "none" /\ response = 0 /\ lastModifiedIndex = 0
  BY DEF Init, WatchInit
<1> QED BY <1>1, <1>2 DEF IInv, InStep

\* An event is appended: what the watcher has recorded or in hand stays.
LEMMA EventIInv ==
  ASSUME IInv, NEW k \in Keys, NEW v \in Values,
         history' = Append(history, [key |-> k, value |-> v]), UNCHANGED watchVars
  PROVE  IInv'
<1>1. /\ history' \in Seq([key : Keys, value : Values])
      /\ Len(history') = Len(history) + 1
      /\ Len(history) \in Nat
  BY DEF IInv
<1> QED BY <1>1 DEF IInv, InStep, watchVars

\* The steps of the two goroutines of the watcher, and of the test.
LEMMA WatchIInv ==
  ASSUME IInv, WatchNext
  PROVE  IInv'
<1>0. Len(history) \in Nat
  BY DEF IInv
<1> USE <1>0 DEF IInv, InStep, storeVars
<1>1. CASE CallWatch
  BY <1>1 DEF CallWatch, ResumeIndex
<1>2. CASE Deliver
  BY <1>2 DEF Deliver
<1>3. CASE WatchFails
  BY <1>3 DEF WatchFails
<1>4. CASE WatchStopped
  BY <1>4 DEF WatchStopped
<1>5. CASE StopListening
  BY <1>5 DEF StopListening, Drained, AfterWatch
<1>6. CASE AddData
  BY <1>6 DEF AddData
<1>7. CASE RequestStop
  BY <1>7 DEF RequestStop
<1> QED BY <1>1, <1>2, <1>3, <1>4, <1>5, <1>6, <1>7 DEF WatchNext, WatchGoroutine

\* The spammer writes through the testconsumer only.
LEMMA SpamKeepsHistory ==
  ASSUME SpamNext
  PROVE  UNCHANGED history
  BY DEF SpamNext, SpamGoroutine, Tick, Refused, Send, SetFails, SetSucceeds,
         Finish, Stop, ResetStore, BeginCheck, CheckKey, storeVars

\* The testconsumer and other clients append, or leave the history alone.
LEMMA StoreSteps ==
  ASSUME (\E k \in Keys : Consumer(k)) \/ OthersWrite
  PROVE  /\ UNCHANGED watchVars
         /\ \/ UNCHANGED history
            \/ \E k \in Keys, v \in Values :
                  history' = Append(history, [key |-> k, value |-> v])
<1>1. CASE \E k \in Keys : Consumer(k)
  BY <1>1 DEF Consumer, Put, PutFails, Values
<1>2. CASE OthersWrite
  BY <1>2 DEF OthersWrite, Foreign
<1> QED BY <1>1, <1>2

\* Nothing but the watcher and the history is in IInv.
LEMMA IdleIInv ==
  ASSUME IInv, UNCHANGED <<history, watchVars>>
  PROVE  IInv'
  BY DEF IInv, InStep, watchVars

\* IInv is inductive.
LEMMA NextIInv == IInv /\ [Next]_vars => IInv'
<1> SUFFICES ASSUME IInv, [Next]_vars PROVE IInv'
  OBVIOUS
<1>1. CASE SpamNext /\ UNCHANGED watchVars
  BY <1>1, SpamKeepsHistory, IdleIInv
<1>2. CASE WatchNext
  BY <1>2, WatchIInv
<1>3. CASE (\E k \in Keys : Consumer(k)) \/ OthersWrite
  BY <1>3, StoreSteps, EventIInv, IdleIInv
<1>4. CASE UNCHANGED vars
  BY <1>4, IdleIInv DEF vars, storeVars
<1> QED BY <1>1, <1>2, <1>3, <1>4 DEF Next

-----------------------------------------------------------------------------
\* A step of the watcher records the next event, or nothing.
LEMMA WatchSimulates ==
  ASSUME IInv, WatchNext
  PROVE  [Abstract!Next]_<<history, lastModifiedIndex, data>>
<1>1. CASE AddData
  <2>1. /\ lastModifiedIndex < Len(history)
        /\ response = lastModifiedIndex + 1
    BY <1>1 DEF AddData, IInv, InStep
  <2>2. Abstract!Apply
    BY <1>1, <2>1 DEF AddData, Abstract!Apply, storeVars
  <2> QED BY <2>2 DEF Abstract!Next
<1>2. CASE ~AddData
  BY <1>2 DEF WatchNext, WatchGoroutine, CallWatch, Deliver, WatchFails, WatchStopped,
              StopListening, RequestStop, storeVars
<1> QED BY <1>1, <1>2

\* Every step of the probes is one of the replica, or none.
LEMMA NextSimulates ==
  IInv /\ [Next]_vars => [Abstract!Next]_<<history, lastModifiedIndex, data>>
<1> SUFFICES ASSUME IInv, [Next]_vars
             PROVE  [Abstract!Next]_<<history, lastModifiedIndex, data>>
  OBVIOUS
<1>1. CASE SpamNext /\ UNCHANGED watchVars
  BY <1>1, SpamKeepsHistory DEF watchVars
<1>2. CASE WatchNext
  BY <1>2, WatchSimulates
<1>3. CASE (\E k \in Keys : Consumer(k)) \/ OthersWrite
  BY <1>3, StoreSteps DEF watchVars, Abstract!Next, Abstract!Event
<1>4. CASE UNCHANGED vars
  BY <1>4 DEF vars, storeVars, watchVars
<1> QED BY <1>1, <1>2, <1>3, <1>4 DEF Next

\* The watcher applies the events of etcd one by one, each one once and none
\* left out, however often Watch fails and is resumed.
THEOREM WatcherImplementsReplica == Spec => ImplementsReplica
<1>1. Init => Abstract!Init
  BY DEF Init, StoreInit, WatchInit, Abstract!Init
<1> QED BY <1>1, InitIInv, NextIInv, NextSimulates, PTL
        DEF Spec, ImplementsReplica, Abstract!Spec

\* A watcher that reports itself stopped has recorded all it was handed.
THEOREM StoppedWatcherIsDrained == Spec => []StoppedIsDrained
<1>1. IInv => StoppedIsDrained
  BY DEF IInv, InStep, StoppedIsDrained
<1> QED BY <1>1, InitIInv, NextIInv, PTL DEF Spec

-----------------------------------------------------------------------------
(* The invariant of the spammer                                            *)

\* The attempt that is under way, if any.
Open == IF spc \in {"dial", "wait"} THEN 1 ELSE 0

\* Every attempt but the one under way was acknowledged or left an error, and
\* the goroutine that has ended has left the count to Check.
Accounts ==
  /\ Open <= attempts
  /\ added + Open <= attempts
  /\ errors = 0 => added + Open = attempts
  /\ spc = "done" => keyWriteAttempts = attempts

\* The first number that no PUT has had.
Unused == IF spc = "dial" THEN attempts - 1 ELSE attempts

FreshKeys == \A k \in Keys : k >= Unused => k \notin pending /\ Writes(k) = 0

\* k had its value at some time since Stop returned.
SeenSinceStop(k) == \E i \in endedAt .. Len(history) : ValueAt(k, i) = "own"

\* Check has seen all it has read back, and decides when it has read back all.
CheckGoesOn ==
  /\ endedAt <= Len(history)
  /\ spc # "done" => verdict = "none" /\ unchecked = {}
  /\ unchecked # {} => verdict = "none" /\ keyWriteAttempts > 0
  /\ verdict = "nil" => errors = 0 /\ keyWriteAttempts > 0
  /\ errors = 0 /\ (unchecked # {} \/ verdict = "nil") =>
        \A k \in store \ unchecked : SeenSinceStop(k)

SpamInv ==
  /\ StoreTypeOK /\ SpamTypeOK
  /\ Accounts /\ FreshKeys /\ WrittenOnce /\ CheckGoesOn

-----------------------------------------------------------------------------
(* What an event does to the store                                         *)

\* A set of naturals that is not empty has a least element.
LEMMA LeastNatural ==
  ASSUME NEW T \in SUBSET Nat, T # {}
  PROVE  \E x \in T : \A y \in T : x <= y
<1>1. PICK x \in T : \A y \in T : <<y, x>> \notin OpToRel(<, Nat)
  BY WFMin, NatLessThanWellFounded
<1>2. \A y \in T : ~(y < x)
  BY <1>1 DEF OpToRel
<1> QED BY <1>2

\* Of the events up to index i that are about a key, one is the last.
LEMMA LastEvent ==
  ASSUME NEW i \in Nat, NEW T \in SUBSET (1 .. i), T # {}
  PROVE  \E j \in T : \A l \in T : l <= j
<1> DEFINE D == {i - j : j \in T}
<1>1. D \in SUBSET Nat /\ D # {}
  <2>1. \A j \in T : i - j \in Nat
    OBVIOUS
  <2>2. PICK j \in T : TRUE
    OBVIOUS
  <2> QED BY <2>1, <2>2
<1>2. PICK x \in D : \A y \in D : x <= y
  BY <1>1, LeastNatural
<1>3. PICK j \in T : x = i - j
  BY <1>2
<1>4. \A l \in T : i - j <= i - l
  BY <1>2, <1>3
<1>5. i \in Int /\ \A l \in T : l \in Int
  OBVIOUS
<1>6. \A l \in T : l <= j
  BY <1>4, <1>5
<1> QED BY <1>6

\* What a read returns, if the events of the key are those at these indices.
LastOf(h, at) == IF at = {} THEN "" ELSE h[CHOOSE j \in at : \A l \in at : l <= j].value

\* A new event does not change what a read returned before it.
LEMMA PastKept ==
  ASSUME NEW S, history \in Seq(S), NEW e \in S, history' = Append(history, e),
         NEW k, NEW i \in 0 .. Len(history)
  PROVE  ValueAt(k, i)' = ValueAt(k, i)
<1> DEFINE at == {j \in 1 .. i : history[j].key = k}
           new == {j \in 1 .. i : history'[j].key = k}
<1>0. Len(history) \in Nat
  OBVIOUS
<1>1. \A j \in 1 .. i : history'[j] = history[j]
  BY <1>0
<1>2. at = new /\ at \in SUBSET (1 .. i) /\ i \in Nat
  BY <1>0, <1>1
<1>3. ValueAt(k, i) = LastOf(history, at)
  BY DEF ValueAt, LastOf
<1>4. ValueAt(k, i)' = LastOf(history', new)
  BY DEF ValueAt, LastOf
<1> HIDE DEF at, new
<1>5. CASE at = {}
  BY <1>2, <1>3, <1>4, <1>5 DEF LastOf
<1>6. CASE at # {}
  <2> DEFINE last == CHOOSE j \in at : \A l \in at : l <= j
  <2>1. \E j \in at : \A l \in at : l <= j
    BY <1>2, <1>6, LastEvent
  <2>2. last \in at
    BY <2>1
  <2>3. LastOf(history, at) = history[last].value /\ LastOf(history', at) = history'[last].value
    BY <1>6 DEF LastOf
  <2> HIDE DEF last
  <2>4. history'[last] = history[last]
    BY <1>1, <1>2, <2>2
  <2> QED BY <1>2, <1>3, <1>4, <2>3, <2>4
<1> QED BY <1>5, <1>6

\* Writes counts an event if it is the spammer's, of that key.
LEMMA WritesCount ==
  ASSUME history \in Seq([key : Keys, value : Values]), NEW k \in Keys
  PROVE  /\ Writes(k) \in Nat
         /\ \A j \in Keys, v \in Values :
               history' = Append(history, [key |-> j, value |-> v]) =>
                  Writes(k)' = IF j = k /\ v = "own" THEN Writes(k) + 1 ELSE Writes(k)
<1> DEFINE own == [key |-> k, value |-> "own"]
           W == {n \in DOMAIN history : history[n] = own}
<1>0. Len(history) \in Nat /\ DOMAIN history = 1 .. Len(history)
  OBVIOUS
<1>1. IsFiniteSet(W) /\ Cardinality(W) \in Nat
  <2>1. IsFiniteSet(1 .. Len(history))
    BY <1>0, FS_Interval
  <2>2. W \subseteq 1 .. Len(history)
    BY <1>0
  <2> QED BY <2>1, <2>2, FS_Subset, FS_CardinalityType
<1>2. Writes(k) = Cardinality(W)
  BY DEF Writes
<1>3. ASSUME NEW j \in Keys, NEW v \in Values,
             history' = Append(history, [key |-> j, value |-> v])
      PROVE  Writes(k)' = IF j = k /\ v = "own" THEN Writes(k) + 1 ELSE Writes(k)
  <2> DEFINE m == Len(history) + 1
             X == {n \in DOMAIN history' : history'[n] = own}
  <2>1. Writes(k)' = Cardinality(X)
    BY DEF Writes
  <2>2. /\ DOMAIN history' = 1 .. m
        /\ history'[m] = [key |-> j, value |-> v]
        /\ \A n \in 1 .. Len(history) : history'[n] = history[n]
    BY <1>0, <1>3
  <2>3. m \notin W
    BY <1>0
  <2>4. j = k /\ v = "own" <=> history'[m] = own
    BY <2>2
  <2>5. X = IF j = k /\ v = "own" THEN W \cup {m} ELSE W
    BY <1>0, <2>2, <2>4
  <2>6. Cardinality(W \cup {m}) = Cardinality(W) + 1
    BY <1>1, <2>3, FS_AddElement
  <2> HIDE DEF W, X
  <2> QED BY <1>2, <2>1, <2>5, <2>6
<1> QED BY <1>1, <1>2, <1>3

\* Without an event there is nothing new to see.
LEMMA HistoryKept ==
  ASSUME UNCHANGED history
  PROVE  /\ \A k : Writes(k)' = Writes(k)
         /\ \A k, i : ValueAt(k, i)' = ValueAt(k, i)
  BY DEF Writes, ValueAt

-----------------------------------------------------------------------------
(* SpamInv is inductive                                                    *)

\* Nothing has been written at first.
LEMMA InitSpamInv == Init => SpamInv
<1> SUFFICES ASSUME Init PROVE SpamInv
  OBVIOUS
<1> USE StoreAssumption
<1>1. history = << >> /\ pending = {}
  BY DEF Init, StoreInit
<1>2. \A k \in Keys : Writes(k) = 0
  <2> SUFFICES ASSUME NEW k \in Keys PROVE Writes(k) = 0
    OBVIOUS
  <2>1. {j \in DOMAIN history : history[j] = [key |-> k, value |-> "own"]} = {}
    BY <1>1
  <2> QED BY <2>1, FS_EmptySet DEF Writes
<1>3. StoreTypeOK /\ SpamTypeOK
  <2>1. done \in BOOLEAN
    BY Zenon DEF Init, SpamInit
  <2>2. StoreTypeOK
    BY <1>1 DEF StoreTypeOK
  <2>3. SpamTypeOK
    BY <2>1 DEF Init, SpamInit, SpamTypeOK
  <2> QED BY <2>2, <2>3
<1>4. Accounts /\ CheckGoesOn
  BY <1>1 DEF Init, SpamInit, Accounts, Open, CheckGoesOn
<1>5. FreshKeys /\ WrittenOnce
  BY <1>1, <1>2 DEF FreshKeys, WrittenOnce
<1> QED BY <1>3, <1>4, <1>5 DEF SpamInv

\* The types of the spammer, but for done.
Counters ==
  /\ spc \in {"select", "dial", "wait", "done"}
  /\ attempts \in 0 .. MaxAttempts
  /\ store \in SUBSET Keys
  /\ errors \in Nat
  /\ keyWriteAttempts \in 0 .. MaxAttempts
  /\ unchecked \in SUBSET Keys
  /\ verdict \in {"none", "nil", "errors", "empty"}
  /\ added \in 0 .. MaxAttempts
  /\ endedAt \in Nat

\* SpamTypeOK in two parts, one for arithmetic and one Boolean.
LEMMA SpamTypes == SpamTypeOK <=> Counters /\ done \in BOOLEAN
  BY Zenon DEF SpamTypeOK, Counters

\* The goroutine: a number is taken for each key, and taken back only if its
\* PUT has not been sent.
LEMMA GoroutineSpamInv ==
  ASSUME SpamInv, SpamGoroutine
  PROVE  SpamInv'
<1> DEFINE Same == UNCHANGED <<keyWriteAttempts, unchecked, verdict, endedAt>>
<1>1. /\ UNCHANGED history
      /\ \A k \in Keys : Writes(k)' = Writes(k)
      /\ Len(history') = Len(history) /\ Len(history) \in Nat
  <2>1. UNCHANGED history
    BY DEF SpamGoroutine, Tick, Refused, Send, SetFails, SetSucceeds, Finish, storeVars
  <2> QED BY <2>1, HistoryKept DEF SpamInv, StoreTypeOK
<1>2. /\ Counters /\ Accounts /\ FreshKeys /\ WrittenOnce
      /\ pending \in SUBSET Keys /\ MaxAttempts \in Nat /\ endedAt <= Len(history)
      /\ spc # "done" => verdict = "none" /\ unchecked = {}
  BY SpamTypes, StoreAssumption DEF SpamInv, CheckGoesOn, StoreTypeOK
<1>3. /\ done' \in BOOLEAN
      /\ history' \in Seq([key : Keys, value : Values])
  <2>1. done' = done
    BY Zenon DEF SpamGoroutine, Tick, Refused, Send, SetFails, SetSucceeds, Finish, checkVars
  <2>2. done' \in BOOLEAN
    BY <2>1, Zenon DEF SpamInv, SpamTypeOK
  <2> QED BY <1>1, <2>2 DEF SpamInv, StoreTypeOK
<1>4. ASSUME Counters', Accounts', FreshKeys', WrittenOnce', pending' \in SUBSET Keys,
             verdict' = "none", unchecked' = {}, endedAt' <= Len(history')
      PROVE  SpamInv'
  <2>1. SpamTypeOK'
    BY <1>3, <1>4, SpamTypes, Zenon DEF SpamTypeOK, Counters
  <2>2. StoreTypeOK' /\ CheckGoesOn'
    BY <1>3, <1>4 DEF StoreTypeOK, CheckGoesOn
  <2> QED BY <1>4, <2>1, <2>2 DEF SpamInv
<1>5. CASE Tick
  <2>1. /\ spc = "select" /\ spc' = "dial"
        /\ attempts < MaxAttempts /\ attempts' = attempts + 1
        /\ UNCHANGED <<store, errors, added, pending>> /\ Same
    BY <1>5 DEF Tick, checkVars, storeVars
  <2>2. Counters' /\ Accounts'
    BY <1>2, <2>1 DEF Counters, Accounts, Open
  <2>3. FreshKeys' /\ WrittenOnce'
    BY <1>1, <1>2, <2>1 DEF Counters, FreshKeys, Unused, WrittenOnce, Keys
  <2> QED BY <1>1, <1>2, <1>4, <2>1, <2>2, <2>3
<1>6. CASE Refused
  <2>1. /\ spc = "dial" /\ spc' = "select" /\ attempts' = attempts - 1
        /\ UNCHANGED <<store, errors, added, pending>> /\ Same
    BY <1>6 DEF Refused, TakenBack, checkVars, storeVars
  <2>2. Counters' /\ Accounts'
    BY <1>2, <2>1 DEF Counters, Accounts, Open
  <2>3. FreshKeys' /\ WrittenOnce'
    BY <1>1, <1>2, <2>1 DEF Counters, FreshKeys, Unused, WrittenOnce, Keys
  <2> QED BY <1>1, <1>2, <1>4, <2>1, <2>2, <2>3
<1>7. CASE Send
  <2>1. /\ spc = "dial" /\ spc' = "wait" /\ pending' = pending \cup {Key}
        /\ UNCHANGED <<attempts, store, errors, added>> /\ Same
    BY <1>7 DEF Send, checkVars
  <2>2. Key \in Keys /\ Key = Unused /\ Writes(Key) = 0
    BY <1>2, <2>1 DEF Counters, Key, Keys, Unused, Accounts, Open, FreshKeys
  <2>3. Counters' /\ Accounts'
    BY <1>2, <2>1 DEF Counters, Accounts, Open
  <2>4. \A k \in Keys : k >= attempts => k # Key /\ k >= Unused
    BY <1>2, <2>1 DEF Counters, Key, Keys, Unused
  <2>5. FreshKeys'
    BY <1>1, <1>2, <2>1, <2>4 DEF FreshKeys, Unused
  <2>6. WrittenOnce'
    BY <1>1, <1>2, <2>1, <2>2 DEF WrittenOnce
  <2> QED BY <1>1, <1>2, <1>4, <2>1, <2>2, <2>3, <2>5, <2>6
<1>8. CASE SetFails
  <2>1. /\ spc \in {"dial", "wait"} /\ spc' = "select" /\ errors' = errors + 1
        /\ UNCHANGED <<attempts, store, added, pending>> /\ Same
    BY <1>8 DEF SetFails, Kept, checkVars, storeVars
  <2>2. Counters'
    BY <1>2, <2>1 DEF Counters
  <2>3. Open = 1 /\ Open' = 0 /\ errors' # 0
    BY <1>2, <2>1 DEF Open, Counters
  <2>4. Accounts'
    BY <1>2, <2>1, <2>3 DEF Accounts, Counters
  <2>5. Unused' = attempts /\ \A k \in Keys : k >= attempts => k >= Unused
    BY <1>2, <2>1 DEF Unused, Counters, Keys
  <2>6. FreshKeys' /\ WrittenOnce'
    BY <1>1, <1>2, <2>1, <2>5 DEF FreshKeys, WrittenOnce
  <2> QED BY <1>1, <1>2, <1>4, <2>1, <2>2, <2>4, <2>6
<1>9. CASE SetSucceeds
  <2>1. /\ spc = "wait" /\ spc' = "select" /\ store' = store \cup {Key} /\ added' = added + 1
        /\ UNCHANGED <<attempts, errors, pending>> /\ Same
    BY <1>9 DEF SetSucceeds, checkVars, storeVars
  <2>2. Key \in Keys
    BY <1>2, <2>1 DEF Counters, Key, Keys, Accounts, Open
  <2>3. Counters' /\ Accounts'
    BY <1>2, <2>1, <2>2 DEF Counters, Accounts, Open
  <2>4. FreshKeys' /\ WrittenOnce'
    BY <1>1, <1>2, <2>1 DEF FreshKeys, Unused, WrittenOnce
  <2> QED BY <1>1, <1>2, <1>4, <2>1, <2>3, <2>4
<1>10. CASE Finish
  <2>1. /\ spc = "select" /\ spc' = "done"
        /\ keyWriteAttempts' = attempts /\ endedAt' = Len(history)
        /\ UNCHANGED <<attempts, store, errors, added, unchecked, verdict, pending>>
    BY <1>10 DEF Finish, Counted, AfterDone, storeVars
  <2>2. Counters' /\ Accounts'
    BY <1>1, <1>2, <2>1 DEF Counters, Accounts, Open
  <2>3. FreshKeys' /\ WrittenOnce'
    BY <1>1, <1>2, <2>1 DEF FreshKeys, Unused, WrittenOnce
  <2> QED BY <1>1, <1>2, <1>4, <2>1, <2>2, <2>3
<1> QED BY <1>5, <1>6, <1>7, <1>8, <1>9, <1>10 DEF SpamGoroutine

\* The test: Stop, ResetStore and Check, which finds its keys as they are now.
LEMMA TestSpamInv ==
  ASSUME SpamInv, Stop \/ ResetStore \/ BeginCheck \/ \E k \in Keys : CheckKey(k)
  PROVE  SpamInv'
<1>0. UNCHANGED <<history, pending, spc, attempts, added, endedAt, keyWriteAttempts>>
  BY DEF Stop, ResetStore, BeginCheck, CheckKey, storeVars, checkVars
<1>1. /\ \A k : Writes(k)' = Writes(k)
      /\ \A k, i : ValueAt(k, i)' = ValueAt(k, i)
      /\ Len(history') = Len(history) /\ Len(history) \in Nat
  BY <1>0, HistoryKept DEF SpamInv, StoreTypeOK
<1>2. StoreTypeOK' /\ FreshKeys' /\ WrittenOnce'
  BY <1>0, <1>1 DEF SpamInv, StoreTypeOK, FreshKeys, Unused, WrittenOnce
<1>3. Counters /\ Accounts /\ CheckGoesOn /\ MaxAttempts \in Nat
  BY SpamTypes, StoreAssumption DEF SpamInv
<1>9. ASSUME Counters', Accounts', CheckGoesOn' PROVE SpamInv'
  <2>1. done' = done \/ done' = TRUE
    BY Zenon DEF Stop, ResetStore, BeginCheck, CheckKey, checkVars
  <2>2. done' \in BOOLEAN
    BY <2>1, Zenon DEF SpamInv, SpamTypeOK
  <2>3. SpamTypeOK'
    BY <1>9, <2>2, Zenon DEF SpamTypeOK, Counters
  <2> QED BY <1>2, <1>9, <2>3 DEF SpamInv
<1>4. \A k : SeenSinceStop(k)' <=> SeenSinceStop(k)
  BY <1>0, <1>1 DEF SeenSinceStop
<1>5. CASE Stop
  <2>1. UNCHANGED <<store, errors, unchecked, verdict>>
    BY <1>5 DEF Stop
  <2>2. Counters' /\ Accounts'
    BY <1>0, <1>3, <2>1 DEF Counters, Accounts, Open
  <2>3. CheckGoesOn'
    BY <1>0, <1>1, <1>3, <1>4, <2>1 DEF CheckGoesOn
  <2> QED BY <1>9, <2>2, <2>3
<1>6. CASE ResetStore
  <2>1. spc # "done" /\ store' = {} /\ UNCHANGED <<errors, unchecked, verdict>>
    BY <1>6 DEF ResetStore, checkVars
  <2>2. Counters' /\ Accounts'
    BY <1>0, <1>3, <2>1 DEF Counters, Accounts, Open
  <2>3. CheckGoesOn'
    BY <1>0, <1>1, <1>3, <2>1 DEF CheckGoesOn
  <2> QED BY <1>9, <2>2, <2>3
<1>7. CASE BeginCheck
  <2>1. /\ spc = "done" /\ verdict = "none" /\ unchecked = {}
        /\ \/ verdict' = "empty" /\ unchecked' = {}
           \/ /\ keyWriteAttempts # 0 /\ store = {} /\ unchecked' = {}
              /\ verdict' = IF errors > 0 THEN "errors" ELSE "nil"
           \/ keyWriteAttempts # 0 /\ verdict' = "none" /\ unchecked' = store
        /\ UNCHANGED <<store, errors>>
    BY <1>7 DEF BeginCheck
  <2>2. Counters' /\ Accounts'
    BY <1>0, <1>3, <2>1 DEF Counters, Accounts, Open
  <2>3. keyWriteAttempts # 0 => keyWriteAttempts > 0
    BY <1>3 DEF Counters
  <2>4. ~(errors > 0) => errors = 0
    BY <1>3 DEF Counters
  <2>5. CheckGoesOn'
    BY <1>0, <1>1, <1>3, <2>1, <2>3, <2>4 DEF CheckGoesOn
  <2> QED BY <1>9, <2>2, <2>5
<1>8. ASSUME NEW k \in Keys, CheckKey(k) PROVE SpamInv'
  <2>1. /\ k \in unchecked /\ unchecked' = unchecked \ {k}
        /\ errors' \in {errors, errors + 1}
        /\ Bad(k) => errors' = errors + 1
        /\ verdict' = IF unchecked # {k} THEN verdict
                      ELSE IF errors' > 0 THEN "errors" ELSE "nil"
        /\ store' = store
    BY <1>8 DEF CheckKey
  <2>2. /\ verdict = "none" /\ keyWriteAttempts > 0 /\ spc = "done"
        /\ errors \in Nat /\ errors' \in Nat
        /\ errors' = 0 => errors = 0 /\ ~Bad(k)
        /\ ~(errors' > 0) => errors' = 0
    BY <1>3, <2>1 DEF CheckGoesOn, Counters
  <2>3. Counters'
    BY <1>0, <1>3, <2>1, <2>2 DEF Counters
  <2>4. Accounts'
    BY <1>0, <1>3, <2>2 DEF Accounts, Open
  <2>5. ~Bad(k) => SeenSinceStop(k)
    <3>1. Len(history) \in endedAt .. Len(history)
      BY <1>1, <1>3 DEF CheckGoesOn, Counters
    <3> QED BY <3>1 DEF Bad, Value, SeenSinceStop
  <2>6. errors' = 0 => \A j \in store' \ unchecked' : SeenSinceStop(j)'
    BY <1>3, <1>4, <2>1, <2>2, <2>5 DEF CheckGoesOn
  <2>7. CheckGoesOn'
    BY <1>0, <1>1, <1>3, <2>1, <2>2, <2>6 DEF CheckGoesOn
  <2> QED BY <1>9, <2>3, <2>4, <2>7
<1> QED BY <1>5, <1>6, <1>7, <1>8

\* The testconsumer and other clients: the key of a PUT that is applied, be it
\* late, has not been written before and will not be sent again.
LEMMA StoreSpamInv ==
  ASSUME SpamInv, (\E k \in Keys : Consumer(k)) \/ OthersWrite
  PROVE  SpamInv'
<1>0. UNCHANGED spamVars /\ history \in Seq([key : Keys, value : Values])
  BY DEF Consumer, OthersWrite, SpamInv, StoreTypeOK
<1>1. SpamTypeOK' /\ Accounts'
  BY <1>0 DEF SpamInv, SpamTypeOK, Accounts, Open, spamVars
<1>2. Unused' = Unused
  BY <1>0 DEF Unused, spamVars
<1>3. ASSUME UNCHANGED history, NEW k \in Keys, pending' = pending \ {k}
      PROVE  SpamInv'
  <2>1. /\ \A j : Writes(j)' = Writes(j)
        /\ \A j, i : ValueAt(j, i)' = ValueAt(j, i)
    BY <1>3, HistoryKept
  <2>2. StoreTypeOK' /\ FreshKeys' /\ WrittenOnce'
    BY <1>2, <1>3, <2>1 DEF SpamInv, StoreTypeOK, FreshKeys, WrittenOnce
  <2>3. CheckGoesOn'
    BY <1>0, <1>3, <2>1 DEF SpamInv, CheckGoesOn, SeenSinceStop, spamVars
  <2> QED BY <1>1, <2>2, <2>3 DEF SpamInv
<1>4. ASSUME NEW k \in Keys, NEW v \in Values,
             history' = Append(history, [key |-> k, value |-> v]),
             \/ v = "own" /\ k \in pending /\ pending' = pending \ {k}
             \/ v # "own" /\ UNCHANGED pending
      PROVE  SpamInv'
  <2>1. /\ [key |-> k, value |-> v] \in [key : Keys, value : Values]
        /\ history' \in Seq([key : Keys, value : Values])
        /\ Len(history') = Len(history) + 1 /\ Len(history) \in Nat
    BY <1>0, <1>4
  <2>2. StoreTypeOK'
    BY <1>4, <2>1 DEF SpamInv, StoreTypeOK
  <2>3. \A j \in Keys :
           /\ Writes(j) \in Nat
           /\ Writes(j)' = IF k = j /\ v = "own" THEN Writes(j) + 1 ELSE Writes(j)
    BY <1>0, <1>4, WritesCount
  <2>4. FreshKeys' /\ WrittenOnce'
    BY <1>2, <1>4, <2>3 DEF SpamInv, FreshKeys, WrittenOnce
  <2>5. \A j : \A i \in 0 .. Len(history) : ValueAt(j, i)' = ValueAt(j, i)
    BY <1>0, <1>4, <2>1, PastKept
  <2>6. endedAt \in Nat
    BY DEF SpamInv, SpamTypeOK
  <2>7. \A j : SeenSinceStop(j) => SeenSinceStop(j)'
    BY <1>0, <2>1, <2>5, <2>6 DEF SeenSinceStop, spamVars
  <2>8. CheckGoesOn'
    BY <1>0, <2>1, <2>6, <2>7 DEF SpamInv, CheckGoesOn, spamVars
  <2> QED BY <1>1, <2>2, <2>4, <2>8 DEF SpamInv
<1>5. CASE \E k \in Keys : Consumer(k)
  <2>1. "own" \in Values
    BY DEF Values
  <2> QED BY <1>3, <1>4, <1>5, <2>1 DEF Consumer, Put, PutFails
<1>6. CASE OthersWrite
  BY <1>4, <1>6 DEF OthersWrite, Foreign
<1> QED BY <1>5, <1>6

\* SpamInv is inductive: the watcher only reads.
LEMMA NextSpamInv == SpamInv /\ [Next]_vars => SpamInv'
<1> SUFFICES ASSUME SpamInv, [Next]_vars PROVE SpamInv'
  OBVIOUS
<1>1. CASE SpamNext
  BY <1>1, GoroutineSpamInv, TestSpamInv DEF SpamNext
<1>2. CASE UNCHANGED <<storeVars, spamVars>>
  <2>1. UNCHANGED <<history, pending, spamVars>>
    BY <1>2 DEF storeVars
  <2>2. /\ \A j : Writes(j)' = Writes(j)
        /\ \A j, i : ValueAt(j, i)' = ValueAt(j, i)
    BY <2>1, HistoryKept
  <2>3. StoreTypeOK' /\ SpamTypeOK' /\ Accounts'
    BY <2>1 DEF SpamInv, StoreTypeOK, SpamTypeOK, Accounts, Open, spamVars
  <2>4. FreshKeys' /\ WrittenOnce'
    BY <2>1, <2>2 DEF SpamInv, FreshKeys, Unused, WrittenOnce, spamVars
  <2>5. CheckGoesOn'
    BY <2>1, <2>2 DEF SpamInv, CheckGoesOn, SeenSinceStop, spamVars
  <2> QED BY <2>3, <2>4, <2>5 DEF SpamInv
<1>3. CASE (\E k \in Keys : Consumer(k)) \/ OthersWrite
  BY <1>3, StoreSpamInv
<1>4. WatchNext => UNCHANGED storeVars
  BY DEF WatchNext, WatchGoroutine, CallWatch, Deliver, WatchFails, WatchStopped,
         StopListening, AddData, RequestStop
<1> QED BY <1>1, <1>2, <1>3, <1>4 DEF Next, vars

\* No number is used for two writes, however late a PUT is applied.
THEOREM EveryKeyWrittenOnce == Spec => []WrittenOnce
<1>1. SpamInv => WrittenOnce
  BY DEF SpamInv
<1> QED BY <1>1, InitSpamInv, NextSpamInv, PTL DEF Spec

\* Check returns nil only if every attempt was acknowledged and every key that
\* it read back was in etcd, with its value, when Stop returned or later.
THEOREM CleanCheckIsSound == Spec => []CleanCheckIsTrue
<1>1. ASSUME SpamInv, verdict = "nil"
      PROVE  /\ keyWriteAttempts > 0 /\ keyWriteAttempts = added
             /\ \A k \in store : SeenSinceStop(k)
  <2>1. /\ errors = 0 /\ keyWriteAttempts > 0 /\ unchecked = {} /\ spc = "done"
        /\ \A k \in store \ unchecked : SeenSinceStop(k)
    BY <1>1 DEF SpamInv, CheckGoesOn
  <2>2. keyWriteAttempts = added
    BY <1>1, <2>1 DEF SpamInv, Accounts, Open, SpamTypeOK
  <2> QED BY <2>1, <2>2
<1>2. SpamInv => CleanCheckIsTrue
  BY <1>1 DEF CleanCheckIsTrue, SeenSinceStop
<1> QED BY <1>2, InitSpamInv, NextSpamInv, PTL DEF Spec

-----------------------------------------------------------------------------
(* Type correctness                                                        *)

\* The events of the history are events.
LEMMA NthEvent ==
  ASSUME NEW S, NEW h \in Seq(S), NEW i \in 1 .. Len(h)
  PROVE  h[i] \in S
OBVIOUS

\* The steps of the watcher; AddData records an event that exists.
LEMMA NextWatchTypes == IInv /\ WatchTypeOK /\ [Next]_vars => WatchTypeOK'
<1> SUFFICES ASSUME IInv, WatchTypeOK, [Next]_vars PROVE WatchTypeOK'
  OBVIOUS
<1>0. Len(history) \in Nat /\ HistorySize \in Nat /\ MaxBreaks \in Nat
  BY WatcherAssumption DEF IInv
<1> USE <1>0 DEF WatchTypeOK
<1>1. CASE WatchNext
  <2>1. CASE CallWatch
    BY <2>1 DEF CallWatch, ResumeIndex
  <2>2. CASE Deliver
    BY <2>2 DEF Deliver
  <2>3. CASE WatchFails
    BY <2>3 DEF WatchFails
  <2>4. CASE WatchStopped
    BY <2>4 DEF WatchStopped
  <2>5. CASE StopListening
    BY <2>5 DEF StopListening, AfterWatch
  <2>6. CASE AddData
    <3>0. response = lastModifiedIndex + 1 /\ response <= Len(history)
      BY <2>6 DEF AddData, IInv, InStep
    <3>1. response \in 1 .. Len(history)
      BY <3>0
    <3>2. history[response] \in [key : Keys, value : Values]
      BY <3>1, NthEvent DEF IInv
    <3> QED BY <2>6, <3>2 DEF AddData
  <2>7. CASE RequestStop
    BY <2>7 DEF RequestStop
  <2> QED BY <1>1, <2>1, <2>2, <2>3, <2>4, <2>5, <2>6, <2>7 DEF WatchNext, WatchGoroutine
<1>2. CASE UNCHANGED watchVars
  BY <1>2 DEF watchVars
<1> QED BY <1>1, <1>2 DEF Next, Consumer, OthersWrite, vars

\* Every variable of the probes and of the store has its type: in particular
\* the number of a PUT is that of a key, and an event that is recorded exists.
THEOREM ProbesTypeCorrect == Spec => []TypeOK
<1>1. Init => WatchTypeOK
  <2> SUFFICES ASSUME Init PROVE WatchTypeOK
    OBVIOUS
  <2>1. "" \in Values
    BY DEF Values
  <2>2. data \in [Keys -> Values]
    BY <2>1 DEF Init, WatchInit
  <2>3. breaks \in 0 .. MaxBreaks
    <3>1. breaks = 0
      BY Zenon DEF Init, WatchInit
    <3> QED BY <3>1, WatcherAssumption
  <2> QED BY <2>2, <2>3 DEF Init, WatchInit, WatchTypeOK
<1>2. SpamInv /\ WatchTypeOK => TypeOK
  BY DEF SpamInv, TypeOK
<1> QED BY <1>1, <1>2, InitIInv, NextIInv, InitSpamInv, NextSpamInv, NextWatchTypes, PTL DEF Spec
=============================================================================
