------------------------- MODULE ConsistencyChecker -------------------------
(***************************************************************************)
(* etcd-consistency-checker: it asks every cluster member in turn who the  *)
(* leader is and, in a second request, for that leader's client URL, and   *)
(* gives up with an error when the answers name more than one leader.      *)
(***************************************************************************)
EXTENDS Leadership, FiniteSets

N == Cardinality(Nodes)

\* The ClusterMembers of the configuration, of which there is at least one.
ASSUME CheckerAssumption == N \in Nat \ {0} /\ Nodes = 1 .. N

VARIABLES
  pc,        \* "start", "self", "url", "sleep", or how Run ended
  i,         \* the cluster member the inner loop is at
  answer,    \* leader, the local variable of the inner loop
  leaders,   \* the keys of the map of leaders
  reported   \* history: the leaders that members that answer have reported
             \* since the round began

checkerVars == <<pc, i, answer, leaders>>
vars        == <<clusterVars, checkerVars, reported>>

\* The leaders that members that answer report now.
Reports == {view[m] : m \in up} \ {NoLeader}

\* "split" is the error "more than one leader exists", "error" any other one
\* and "panic" the index of an empty list of client URLs.
Ended == {"split", "error", "panic"}

TypeOK ==
  /\ ClusterTypeOK
  /\ pc \in {"start", "self", "url", "sleep"} \cup Ended
  /\ i \in Nodes
  /\ answer \in Leaders
  /\ leaders \in SUBSET Nodes
  /\ reported \in SUBSET Nodes

\* One cluster, or any split of the members in two.
Init ==
  /\ cluster \in {f \in [Nodes -> Clusters] : f[1] = "a"}
  /\ ClusterInit
  /\ urls \in SUBSET Members
  /\ pc = "start"
  /\ i = 1
  /\ answer = NoLeader
  /\ leaders = {}
  /\ reported = Reports

Cluster(A) == A /\ reported' = reported \cup Reports' /\ UNCHANGED checkerVars

-----------------------------------------------------------------------------
(* App.Run                                                                 *)

End(how) == pc' = how /\ UNCHANGED <<i, leaders>>

\* Mutant of FreshLeaders: the map of leaders outlives the round.
FreshLeadersKept == leaders

\* leaders := map[string]string{}
FreshLeaders == {}

BeginRound ==
  /\ pc' = "self"
  /\ i' = 1
  /\ leaders' = FreshLeaders
  /\ reported' = Reports
  /\ UNCHANGED changes

\* Run, also when monit starts the checker again: the certificates of the
\* client may fail to load.
Run ==
  /\ pc \in {"start"} \cup Ended
  /\ BeginRound \/ (Change /\ End("error") /\ UNCHANGED reported)
  /\ UNCHANGED <<cluster, urls, up, view, leader, answer>>

Sleep ==
  /\ pc = "sleep"
  /\ BeginRound
  /\ UNCHANGED <<cluster, urls, up, view, leader, answer>>

\* leaderFromSelf: a member that cannot be reached has no leader; any other
\* failure of the request (a reset, a bad answer) ends Run.  The client has no
\* timeout: that a member which accepts the request answers it is assumed.
LeaderFromSelf ==
  /\ pc = "self"
  /\ \/ /\ answer' = IF i \in up THEN view[i] ELSE NoLeader
        /\ pc' = "url"
        /\ UNCHANGED <<changes, i, leaders>>
     \/ Change /\ End("error") /\ UNCHANGED answer
  /\ UNCHANGED <<cluster, urls, up, view, leader, reported>>

\* Mutant of Split: off by one.
SplitInThree(seen) == Cardinality(seen) > 2

\* len(leaderURLs) > 1
Split(seen) == Cardinality(seen) > 1

\* The inner loop goes on with the next member or ends the round.
Advance(seen) ==
  /\ leaders' = seen
  /\ IF i < N
     THEN i' = i + 1 /\ pc' = "self"
     ELSE UNCHANGED i /\ pc' = IF Split(seen) THEN "split" ELSE "sleep"

\* Mutant of Counted: no test for the leader "".
CountedAlways == {answer}

Counted == {answer} \ {NoLeader}

\* getNodeURL: a member that cannot be reached lists nothing, which is no
\* error; a list without the leader is, and so is asking for the leader "".
GetNodeURL ==
  /\ pc = "url"
  /\ \/ /\ IF i \in up /\ answer \notin Listed(i) THEN End("error")
           ELSE IF i \in up /\ answer \notin urls THEN End("panic")
           ELSE Advance(leaders \cup Counted)
        /\ UNCHANGED changes
     \/ Change /\ End("error")
  /\ answer' = NoLeader
  /\ UNCHANGED <<cluster, urls, up, view, leader, reported>>

Checker == Run \/ Sleep \/ LeaderFromSelf \/ GetNodeURL

Next ==
  \/ Checker
  \/ \E n \in Nodes : Cluster(Recovers(n)) \/ Cluster(Disturbed(n))

Spec == Init /\ [][Next]_vars

\* The checker runs on, every request of its ending, and members learn of their
\* leader and come back.
Fairness ==
  /\ WF_vars(Checker)
  /\ \A n \in Nodes : WF_vars(Cluster(Recovers(n)))

FairSpec == Spec /\ Fairness

-----------------------------------------------------------------------------
(* Properties                                                              *)

\* No alarm without a cause in its own round: "more than one leader exists"
\* means that two different leaders were reported by members that answer since
\* the round began, however the cluster changed between the requests.  If
\* nothing changed meanwhile, they are being reported right now.
AlarmIsOfThisRound == pc = "split" => \E a, b \in reported : a # b

\* A split brain is found: while two clusters keep a leader each, the checker
\* ends with "more than one leader exists" again and again, whatever failed,
\* went down, left or joined in the meantime.
FindsSplitBrain ==
  <>[](\A c \in Clusters : leader[c] # NoLeader) => []<>(pc = "split")
=============================================================================
