---------------------- MODULE ConsistencyCheckerProofs ----------------------
(***************************************************************************)
(* That an alarm is about leaders of its own round, proved for any number  *)
(* of cluster members and of changes.                                      *)
(***************************************************************************)
EXTENDS ConsistencyChecker, FiniteSetTheorems, TLAPS

\* What is in the map, and the answer that is being looked up, was reported in
\* this round, and so is what any member may answer next.
OfThisRound ==
  /\ Reports \subseteq reported
  /\ pc \in {"self", "url", "sleep", "split"} => leaders \subseteq reported
  /\ pc = "url" => answer \in reported \cup {NoLeader}

IInv ==
  /\ pc = "split" => Split(leaders)
  /\ OfThisRound

-----------------------------------------------------------------------------
\* More than one leader: there are two.
LEMMA TwoLeaders ==
  ASSUME NEW S, Split(S)
  PROVE  \E a, b \in S : a # b
<1> SUFFICES ASSUME \A a, b \in S : a = b PROVE FALSE
  OBVIOUS
<1>1. CASE S = {}
  BY <1>1, FS_EmptySet DEF Split
<1>2. CASE S # {}
  <2>1. PICK a \in S : S = {a}
    BY <1>2
  <2>2. Cardinality({a}) = 1
    BY FS_Singleton
  <2> QED BY <2>1, <2>2 DEF Split
<1> QED BY <1>1, <1>2

\* IInv gives the property.
LEMMA IInvImplies == IInv => AlarmIsOfThisRound
  BY TwoLeaders DEF IInv, OfThisRound, AlarmIsOfThisRound

\* A round begins, with no leaders, or the checker has ended with an error.
LEMMA RoundIInv ==
  ASSUME IInv, Run \/ Sleep
  PROVE  IInv'
  BY DEF Run, Sleep, BeginRound, FreshLeaders, End, IInv, OfThisRound, Ended, Reports

\* The first request: a member that answers answers with its view.
LEMMA SelfIInv ==
  ASSUME IInv, LeaderFromSelf
  PROVE  IInv'
  BY DEF LeaderFromSelf, End, IInv, OfThisRound, Reports

\* The second request: the answer is counted unless it is "".
LEMMA URLIInv ==
  ASSUME IInv, GetNodeURL
  PROVE  IInv'
<1>0. pc = "url" /\ UNCHANGED <<up, view, reported>>
  BY DEF GetNodeURL
<1> USE <1>0 DEF IInv, OfThisRound, Reports
<1>1. CASE End("error") \/ End("panic")
  BY <1>1 DEF End
<1>2. CASE Advance(leaders \cup Counted)
  <2>1. leaders' = leaders \cup ({answer} \ {NoLeader})
    BY <1>2 DEF Advance, Counted
  <2>2. pc' = "split" => Split(leaders')
    BY <1>2 DEF Advance
  <2>3. pc' \in {"self", "sleep", "split"}
    BY <1>2 DEF Advance
  <2> QED BY <2>1, <2>2, <2>3
<1> QED BY <1>1, <1>2 DEF GetNodeURL

\* IInv is inductive: what members come to report is added to what they have.
LEMMA NextIInv == IInv /\ [Next]_vars => IInv'
<1> SUFFICES ASSUME IInv, [Next]_vars PROVE IInv'
  OBVIOUS
<1>1. CASE Checker
  BY <1>1, RoundIInv, SelfIInv, URLIInv DEF Checker
<1>2. CASE \E n \in Nodes : Cluster(Recovers(n)) \/ Cluster(Disturbed(n))
  BY <1>2 DEF Cluster, checkerVars, IInv, OfThisRound
<1>3. CASE UNCHANGED vars
  BY <1>3 DEF vars, clusterVars, checkerVars, IInv, OfThisRound, Reports
<1> QED BY <1>1, <1>2, <1>3 DEF Next

-----------------------------------------------------------------------------
\* What the cluster does keeps the types of what is known of it: only a
\* member is up, has a URL, and can be elected.
LEMMA ClusterType ==
  ASSUME ClusterTypeOK, NEW n \in Nodes, Recovers(n) \/ Disturbed(n)
  PROVE  ClusterTypeOK'
<1> USE DEF ClusterTypeOK, Members, Leaders, Clusters
<1>1. CASE Learn(n)
  BY <1>1 DEF Learn
<1>2. CASE PublishURL(n)
  BY <1>2 DEF PublishURL
<1>3. CASE ComeUp(n)
  BY <1>3 DEF ComeUp
<1>4. CASE Elect(n)
  BY <1>4, LeadershipAssumption DEF Elect, Change
<1>5. CASE Forget(n)
  BY <1>5, LeadershipAssumption DEF Forget, Change
<1>6. CASE Join(n)
  BY <1>6, LeadershipAssumption DEF Join, Change
<1>7. CASE Leave(n)
  BY <1>7, LeadershipAssumption DEF Leave, Change
<1>8. CASE GoDown(n)
  BY <1>8, LeadershipAssumption DEF GoDown, Change
<1> QED BY <1>1, <1>2, <1>3, <1>4, <1>5, <1>6, <1>7, <1>8 DEF Recovers, Disturbed

\* The steps of the checker change nothing of the cluster but the counter.
LEMMA CheckerClusterType ==
  ASSUME ClusterTypeOK, Change \/ UNCHANGED changes,
         UNCHANGED <<cluster, urls, up, view, leader>>
  PROVE  ClusterTypeOK'
  BY LeadershipAssumption DEF ClusterTypeOK, Members, Change

\* What members report is a member.
LEMMA ReportsType ==
  ASSUME ClusterTypeOK
  PROVE  Reports \in SUBSET Nodes
  BY DEF ClusterTypeOK, Members, Leaders, Reports

\* The members that the checker asks are in its configuration, and what it
\* counts as a leader is a member.
LEMMA CheckerType ==
  ASSUME TypeOK, Checker
  PROVE  TypeOK'
<1>1. ClusterTypeOK'
  BY CheckerClusterType
     DEF TypeOK, Checker, Run, Sleep, LeaderFromSelf, GetNodeURL, BeginRound
<1>2. CASE Run \/ Sleep
  <2>1. 1 \in Nodes
    BY CheckerAssumption
  <2>2. reported' \in SUBSET Nodes
    BY <1>2, ReportsType DEF TypeOK, Run, Sleep, BeginRound
  <2> QED BY <1>1, <1>2, <2>1, <2>2
          DEF TypeOK, Run, Sleep, BeginRound, FreshLeaders, End, Ended, Leaders
<1>3. CASE LeaderFromSelf
  BY <1>1, <1>3 DEF TypeOK, ClusterTypeOK, Leaders, LeaderFromSelf, End, Ended
<1>4. CASE GetNodeURL
  <2>1. reported' \in SUBSET Nodes
    BY <1>4 DEF TypeOK, GetNodeURL
  <2>2. answer' \in Leaders
    BY <1>4 DEF GetNodeURL, Leaders
  <2>3. pc' \in {"start", "self", "url", "sleep"} \cup Ended
    BY <1>4 DEF GetNodeURL, End, Advance, Ended
  <2>4. i' = i \/ (i < N /\ i' = i + 1)
    BY <1>4 DEF GetNodeURL, End, Advance
  <2>5. i' \in Nodes
    BY <2>4, CheckerAssumption DEF TypeOK
  <2>6. leaders' \in SUBSET Nodes
    BY <1>4 DEF TypeOK, Leaders, GetNodeURL, End, Advance, Counted
  <2> QED BY <1>1, <2>1, <2>2, <2>3, <2>5, <2>6 DEF TypeOK
<1> QED BY <1>2, <1>3, <1>4 DEF Checker

\* The checker starts with a typed state.
LEMMA InitType == Init => TypeOK
  BY LeadershipAssumption, CheckerAssumption
     DEF Init, ClusterInit, TypeOK, ClusterTypeOK, Members, Leaders, Clusters, Ended, Reports

\* The inner loop stays within the configured members, and only members are
\* ever counted as leaders, whatever happens to the cluster meanwhile.
THEOREM CheckerTypeCorrect == Spec => []TypeOK
<1>1. TypeOK /\ [Next]_vars => TypeOK'
  <2> SUFFICES ASSUME TypeOK, [Next]_vars PROVE TypeOK'
    OBVIOUS
  <2>1. CASE \E n \in Nodes : Cluster(Recovers(n)) \/ Cluster(Disturbed(n))
    <3>1. ClusterTypeOK'
      BY <2>1, ClusterType DEF Cluster, TypeOK
    <3>2. Reports' \in SUBSET Nodes
      BY <3>1 DEF ClusterTypeOK, Members, Leaders, Reports
    <3> QED BY <2>1, <3>1, <3>2 DEF Cluster, checkerVars, TypeOK, Leaders
  <2>2. CASE UNCHANGED vars
    BY <2>2 DEF vars, clusterVars, checkerVars, TypeOK, ClusterTypeOK, Members, Leaders
  <2> QED BY <2>1, <2>2, CheckerType DEF Next
<1> QED BY <1>1, InitType, PTL DEF Spec

\* "more than one leader exists" means that two different leaders have been
\* reported since the round began.
THEOREM AlarmHasCause == Spec => []AlarmIsOfThisRound
<1>1. Init => IInv
  BY DEF Init, IInv, OfThisRound
<1> QED BY <1>1, NextIInv, IInvImplies, PTL DEF Spec
=============================================================================
