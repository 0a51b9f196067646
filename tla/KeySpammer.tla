----------------------------- MODULE KeySpammer -----------------------------
(***************************************************************************)
(* helpers.Spammer: a goroutine that writes one numbered key per interval  *)
(* through the testconsumer while a deployment is updated, and a Check     *)
(* that reads back every key whose write was acknowledged.                 *)
(***************************************************************************)
EXTENDS KvStore

VARIABLES
  spc,                \* "select", "dial" or "wait" for the answer, "done"
  attempts,           \* counts.attempts, local to the goroutine
  store,              \* s.store: the acknowledged keys
  errors,             \* how many errors s.errors holds
  keyWriteAttempts,   \* what the goroutine leaves for Check
  done,               \* s.done is closed
  unchecked,          \* Check: the keys of s.store not yet read back
  verdict,            \* Check: "none" yet, "nil", "errors" or "empty"
  added,              \* history: how many writes were acknowledged
  endedAt             \* history: the last index when the goroutine ended

spamVars == <<spc, attempts, store, errors, keyWriteAttempts, done,
              unchecked, verdict, added, endedAt>>

SpamTypeOK ==
  /\ spc \in {"select", "dial", "wait", "done"}
  /\ attempts \in 0 .. MaxAttempts
  /\ store \in SUBSET Keys
  /\ errors \in Nat
  /\ keyWriteAttempts \in 0 .. MaxAttempts
  /\ done \in BOOLEAN
  /\ unchecked \in SUBSET Keys
  /\ verdict \in {"none", "nil", "errors", "empty"}
  /\ added \in 0 .. MaxAttempts
  /\ endedAt \in Nat

\* NewSpammer and Spam.
SpamInit ==
  /\ spc = "select"
  /\ attempts = 0
  /\ store = {}
  /\ errors = 0
  /\ keyWriteAttempts = 0
  /\ done = FALSE
  /\ unchecked = {}
  /\ verdict = "none"
  /\ added = 0
  /\ endedAt = 0

Key == attempts - 1

checkVars == <<keyWriteAttempts, done, unchecked, verdict, endedAt>>

-----------------------------------------------------------------------------
(* The goroutine of Spam                                                   *)

\* <-time.After: the next key is counted and its PUT begins.
Tick ==
  /\ spc = "select"
  /\ attempts < MaxAttempts
  /\ attempts' = attempts + 1
  /\ spc' = "dial"
  /\ UNCHANGED <<store, errors, added, checkVars, storeVars>>

\* attempts--, so that the number is used again
TakenBack == attempts - 1

\* kv.Set: the testconsumer refuses the connection, which does not count.
Refused ==
  /\ spc = "dial"
  /\ attempts' = TakenBack
  /\ spc' = "select"
  /\ UNCHANGED <<store, errors, added, checkVars, storeVars>>

\* kv.Set: the request reaches the testconsumer.
Send ==
  /\ spc = "dial"
  /\ pending' = pending \cup {Key}
  /\ spc' = "wait"
  /\ UNCHANGED <<history, attempts, store, errors, added, checkVars>>

\* Mutant of Kept: no failed write counts, as if every one were refused.
KeptNot == attempts - 1

\* The number of a write that failed is not used again.
Kept == attempts

\* kv.Set returns any other error: a dial that fails in another way, a status
\* other than 201, or a connection that breaks while the testconsumer may
\* still be working on the request.
SetFails ==
  /\ spc \in {"dial", "wait"}
  /\ errors' = errors + 1
  /\ attempts' = Kept
  /\ spc' = "select"
  /\ UNCHANGED <<store, added, checkVars, storeVars>>

\* kv.Set succeeds: AddKVToStore.
SetSucceeds ==
  /\ spc = "wait"
  /\ Key \notin pending /\ Writes(Key) > 0
  /\ store' = store \cup {Key}
  /\ added' = added + 1
  /\ spc' = "select"
  /\ UNCHANGED <<attempts, errors, checkVars, storeVars>>

\* Mutants of Counted and AfterDone: the last key; no return.
CountedLastKey  == Key
AfterDoneSelect == "select"

Counted   == attempts
AfterDone == "done"

\* <-s.done: the attempts are left for Check, and Stop returns.
Finish ==
  /\ spc = "select"
  /\ done
  /\ keyWriteAttempts' = Counted
  /\ endedAt' = Len(history)
  /\ spc' = AfterDone
  /\ UNCHANGED <<attempts, store, errors, added, done, unchecked, verdict, storeVars>>

-----------------------------------------------------------------------------
(* The test                                                                *)

Stop ==
  /\ ~done
  /\ done' = TRUE
  /\ UNCHANGED <<spc, attempts, store, errors, added, keyWriteAttempts,
                 unchecked, verdict, endedAt, storeVars>>

ResetStore ==
  /\ spc # "done"
  /\ store # {}
  /\ store' = {}
  /\ UNCHANGED <<spc, attempts, errors, added, checkVars, storeVars>>

\* Check once Stop has returned: the early return, or the loop over s.store.
BeginCheck ==
  /\ spc = "done" /\ verdict = "none" /\ unchecked = {}
  /\ IF keyWriteAttempts = 0
     THEN verdict' = "empty" /\ UNCHANGED unchecked
     ELSE IF store = {}
     THEN verdict' = (IF errors > 0 THEN "errors" ELSE "nil") /\ UNCHANGED unchecked
     ELSE unchecked' = store /\ UNCHANGED verdict
  /\ UNCHANGED <<spc, attempts, store, errors, added, keyWriteAttempts, done,
                 endedAt, storeVars>>

\* Mutant of Bad: the value that was read is not compared.
BadIfMissing(k) == Value(k) = ""

\* kv.Get(k) answers 404, or with a value that is not the one written.
Bad(k) == Value(k) # "own"

\* One turn of the loop; kv.Get may also fail.
CheckKey(k) ==
  /\ k \in unchecked
  /\ unchecked' = unchecked \ {k}
  /\ \E failed \in BOOLEAN :
        errors' = IF failed \/ Bad(k) THEN errors + 1 ELSE errors
  /\ verdict' = IF unchecked # {k} THEN verdict
                ELSE IF errors' > 0 THEN "errors" ELSE "nil"
  /\ UNCHANGED <<spc, attempts, store, added, keyWriteAttempts, done, endedAt, storeVars>>

SpamGoroutine ==
  Tick \/ Refused \/ Send \/ SetFails \/ SetSucceeds \/ Finish

SpamNext ==
  SpamGoroutine \/ Stop \/ ResetStore \/ BeginCheck \/ \E k \in Keys : CheckKey(k)
=============================================================================
