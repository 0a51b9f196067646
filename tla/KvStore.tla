------------------------------ MODULE KvStore ------------------------------
(***************************************************************************)
(* The key-value store as the acceptance tests see it: the history of etcd *)
(* (external) and the testconsumer, whose KVHandler turns the requests of  *)
(* a test into calls of a go-etcd client.  The spammer writes to the store *)
(* and the watcher reads its history.                                      *)
(***************************************************************************)
EXTENDS Integers, Sequences, FiniteSets

CONSTANTS
  MaxAttempts,   \* bound: the keys a spammer tries to write
  MaxForeign     \* bound: expired keys and writes of other clients

ASSUME StoreAssumption == MaxAttempts \in Nat /\ MaxForeign \in Nat

\* The key "<prefix>-some-key-<n>" is n, and the value the spammer writes to
\* it, which n determines, is "own".  A key that is gone has the value "".
Keys   == 0 .. MaxAttempts - 1
Values == {"own", "other", ""}

VARIABLES
  history,   \* external: etcd's events, the i-th with modified index i
  pending    \* the PUT requests the testconsumer is working on

storeVars == <<history, pending>>

StoreTypeOK ==
  /\ history \in Seq([key : Keys, value : Values])
  /\ pending \in SUBSET Keys

StoreInit == history = << >> /\ pending = {}

\* What a strongly consistent read of k returned at index i.
ValueAt(k, i) ==
  LET at == {j \in 1 .. i : history[j].key = k}
  IN  IF at = {} THEN "" ELSE history[CHOOSE j \in at : \A l \in at : l <= j].value

Value(k) == ValueAt(k, Len(history))

\* How often the spammer's value was written to k.
Writes(k) == Cardinality({j \in DOMAIN history : history[j] = [key |-> k, value |-> "own"]})

\* KVHandler, PUT: client.Set succeeds and the answer is 201.  Set is taken to
\* write once: whether go-etcd sends a request again by itself is not visible
\* in the handler.
Put(k) ==
  /\ k \in pending
  /\ history' = Append(history, [key |-> k, value |-> "own"])
  /\ pending' = pending \ {k}

\* KVHandler, PUT: client.Set fails and the answer is 500.
PutFails(k) ==
  /\ k \in pending
  /\ pending' = pending \ {k}
  /\ UNCHANGED history

\* The time to live of k ends, or another client writes k.
ForeignEvents == {j \in DOMAIN history : history[j].value # "own"}

Foreign(k, v) ==
  /\ Cardinality(ForeignEvents) < MaxForeign
  /\ Value(k) # "" /\ v # "own"
  /\ history' = Append(history, [key |-> k, value |-> v])
  /\ UNCHANGED pending
=============================================================================
