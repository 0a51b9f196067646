------------------------------ MODULE Replica ------------------------------
(***************************************************************************)
(* What a watcher is to the tests that read its data: a copy of the keys   *)
(* that follows a growing log of events, one event at a time and in order. *)
(***************************************************************************)
EXTENDS Naturals, Sequences

CONSTANTS Keys, Values

VARIABLES
  log,       \* the events, each with a key and its new value
  applied,   \* how many of them the copy has seen
  copy       \* the value of every key

Init ==
  /\ log = << >>
  /\ applied = 0
  /\ copy = [k \in Keys |-> ""]

Event(k, v) ==
  /\ log' = Append(log, [key |-> k, value |-> v])
  /\ UNCHANGED <<applied, copy>>

Apply ==
  /\ applied < Len(log)
  /\ applied' = applied + 1
  /\ copy' = [copy EXCEPT ![log[applied + 1].key] = log[applied + 1].value]
  /\ UNCHANGED log

Next == Apply \/ \E k \in Keys, v \in Values : Event(k, v)

Spec == Init /\ [][Next]_<<log, applied, copy>>
=============================================================================
