------------------------- MODULE LeaderFinderProofs -------------------------
(***************************************************************************)
(* That a search returns only leaders reported while it ran, and that the  *)
(* proxy never uses one older than the search before, proved for every set *)
(* of nodes and any number of elections, joins, removals and failures.     *)
(***************************************************************************)
EXTENDS LeaderFinder, TLAPS

\* While a search is under way, `since` has what may still be answered, and
\* the member list is a set of nodes, so that "" is not in it.  Its result is
\* used up before the next one begins.
SearchSees ==
  /\ pc # "set" => found = Default
  /\ members.id \subseteq Nodes
  /\ pc \in {"members", "self"} => Reported(asked, view) \subseteq since

\* Between two searches the address is no older than the last one.
AddressOfLastFind ==
  /\ client = "handler" => ~booted
  /\ pc \in {"boot", "exit"} \/ ~booted => address = Default
  /\ pc = "sleep" => address \in {Default} \cup since

IInv == SearchSees /\ AddressOfLastFind /\ FoundWasReported /\ StaleByOneFind

-----------------------------------------------------------------------------
\* The invariant holds when the proxy or the handler starts.
LEMMA InitIInv == Init => IInv
  BY DEF Init, IInv, SearchSees, AddressOfLastFind, FoundWasReported,
         StaleByOneFind, LeaderOrDefault, NoMembers

\* What the cluster does only adds to the history.
LEMMA ClusterIInv ==
  ASSUME IInv, since' = since \cup Reported(asked, view'), UNCHANGED finderVars
  PROVE  IInv'
  BY DEF IInv, SearchSees, AddressOfLastFind, FoundWasReported, StaleByOneFind,
         LeaderOrDefault, Reported, finderVars

\* The requests: a leader is looked up among nodes, and whoever answers is
\* one of those whose view the history has.
LEMMA RequestIInv ==
  ASSUME IInv, GetMembers \/ GetSelf
  PROVE  IInv'
<1> USE DEF IInv, SearchSees, AddressOfLastFind, FoundWasReported,
            StaleByOneFind, LeaderOrDefault, RequestFails, End, NoMembers
<1>1. CASE GetMembers
  BY <1>1 DEF GetMembers, Listed, Reported
<1>2. CASE GetSelf
  <2>1. CASE RequestFails
    BY <1>2, <2>1 DEF GetSelf
  <2>2. CASE \E n \in Answering(asked) : End(IF Lookup(view[n]) THEN view[n] ELSE Default)
    <3>1. PICK n \in Answering(asked) : End(IF Lookup(view[n]) THEN view[n] ELSE Default)
      BY <2>2
    <3>2. Lookup(view[n]) => view[n] \in since
      BY <1>2, <3>1, LeadershipAssumption DEF GetSelf, Answering, Lookup, Reported
    <3> QED BY <1>2, <3>1, <3>2 DEF GetSelf
  <2> QED BY <1>2, <2>1, <2>2 DEF GetSelf
<1> QED BY <1>1, <1>2

\* The steps between two searches.
LEMMA BetweenIInv ==
  ASSUME IInv,
         BeginFind \/ BuildTLSConfigFails \/ Respond \/ Boot \/ SetAddress
           \/ ServeFails \/ Restart
  PROVE  IInv'
<1> USE DEF IInv, SearchSees, AddressOfLastFind, FoundWasReported,
            StaleByOneFind, LeaderOrDefault, NoMembers
<1>1. CASE BeginFind
  <2>1. PICK node \in Nodes \cup {Default} :
           asked' = EtcdURL(node) /\ since' = Reported(node, view)
    BY <1>1 DEF BeginFind
  <2>2. Reported(asked, view)' = since'
    BY <1>1, <2>1 DEF BeginFind, EtcdURL, Reported, clusterVars
  <2>3. SearchSees'
    BY <1>1, <2>2 DEF BeginFind
  <2> QED BY <1>1, <2>3 DEF BeginFind
<1>2. CASE BuildTLSConfigFails
  BY <1>2 DEF BuildTLSConfigFails, End
<1>3. CASE Respond
  BY <1>3 DEF Respond, clusterVars
<1>4. CASE Boot
  BY <1>4 DEF Boot, clusterVars
<1>5. CASE SetAddress
  BY <1>5 DEF SetAddress, NextAddress, clusterVars
<1>6. CASE ServeFails
  BY <1>6 DEF ServeFails
<1>7. CASE Restart
  BY <1>7 DEF Restart, clusterVars
<1> QED BY <1>1, <1>2, <1>3, <1>4, <1>5, <1>6, <1>7

\* IInv is inductive.
LEMMA NextIInv == IInv /\ [Next]_vars => IInv'
<1> SUFFICES ASSUME IInv, [Next]_vars PROVE IInv'
  OBVIOUS
<1>1. CASE Search \/ BuildTLSConfigFails \/ ServeFails
  BY <1>1, RequestIInv, BetweenIInv DEF Search
<1>2. CASE \E n \in Nodes : Cluster(Recovers(n)) \/ Cluster(Disturbed(n))
  BY <1>2, ClusterIInv DEF Cluster
<1>3. CASE UNCHANGED vars
  BY <1>3 DEF vars, finderVars, clusterVars, IInv, SearchSees, AddressOfLastFind,
              FoundWasReported, StaleByOneFind, LeaderOrDefault, Reported
<1> QED BY <1>1, <1>2, <1>3 DEF Next

-----------------------------------------------------------------------------
\* What the cluster does keeps the types of what is known of it: only a
\* member is up, has a URL, and can be elected.
LEMMA ClusterType ==
  ASSUME ClusterTypeOK, NEW n \in Nodes, Recovers(n) \/ Disturbed(n)
  PROVE  ClusterTypeOK'
<1> USE DEF ClusterTypeOK, Members, Leaders, Clusters
<1>1. CASE Learn(n)
  BY <1>1 DEF Learn
<1>2. CASE PublishURL(n)
  BY <1>2 DEF PublishURL
<1>3. CASE ComeUp(n)
  BY <1>3 DEF ComeUp
<1>4. CASE Elect(n)
  BY <1>4, LeadershipAssumption DEF Elect, Change
<1>5. CASE Forget(n)
  BY <1>5, LeadershipAssumption DEF Forget, Change
<1>6. CASE Join(n)
  BY <1>6, LeadershipAssumption DEF Join, Change
<1>7. CASE Leave(n)
  BY <1>7, LeadershipAssumption DEF Leave, Change
<1>8. CASE GoDown(n)
  BY <1>8, LeadershipAssumption DEF GoDown, Change
<1> QED BY <1>1, <1>2, <1>3, <1>4, <1>5, <1>6, <1>7, <1>8 DEF Recovers, Disturbed

\* The steps of the search change nothing of the cluster but the counter.
LEMMA SearchClusterType ==
  ASSUME ClusterTypeOK, Change \/ UNCHANGED changes,
         UNCHANGED <<cluster, urls, up, view, leader>>
  PROVE  ClusterTypeOK'
  BY LeadershipAssumption DEF ClusterTypeOK, Members, Change

\* Only nodes are reported as leaders.
LEMMA ReportedType ==
  ASSUME NEW a, NEW v \in [Nodes -> Leaders]
  PROVE  Reported(a, v) \in SUBSET Nodes
  BY DEF Reported, Leaders

\* What a search asks, lists and returns are nodes.
LEMMA FinderType ==
  ASSUME TypeOK, Search \/ BuildTLSConfigFails \/ ServeFails
  PROVE  TypeOK'
<1>1. ClusterTypeOK'
  BY SearchClusterType
     DEF TypeOK, Search, BeginFind, GetMembers, GetSelf, Respond, Boot, SetAddress,
         Restart, BuildTLSConfigFails, ServeFails, RequestFails, clusterVars
<1>2. CASE BeginFind
  <2>1. since' \in SUBSET Nodes
    BY <1>2, ReportedType DEF BeginFind, TypeOK, ClusterTypeOK
  <2> QED BY <1>1, <1>2, <2>1 DEF BeginFind, EtcdURL, TypeOK
<1>3. CASE GetMembers
  BY <1>1, <1>3 DEF GetMembers, RequestFails, End, NoMembers, Listed, TypeOK
<1>4. CASE GetSelf
  <2>1. found' \in Nodes \cup {Default}
    BY <1>4 DEF GetSelf, RequestFails, End, Lookup, TypeOK
  <2> QED BY <1>1, <1>4, <2>1 DEF GetSelf, RequestFails, End, NoMembers, TypeOK
<1>5. CASE Respond \/ SetAddress \/ Restart
  BY <1>1, <1>5 DEF Respond, SetAddress, NextAddress, Restart, TypeOK
<1>6. CASE Boot
  BY <1>1, <1>6 DEF Boot, TypeOK
<1>7. CASE BuildTLSConfigFails
  BY <1>1, <1>7 DEF BuildTLSConfigFails, End, NoMembers, TypeOK
<1>8. CASE ServeFails
  BY <1>1, <1>8 DEF ServeFails, NoMembers, TypeOK
<1> QED BY <1>2, <1>3, <1>4, <1>5, <1>6, <1>7, <1>8 DEF Search

\* The finder starts with a typed state.
LEMMA InitType == Init => TypeOK
<1> SUFFICES ASSUME Init PROVE TypeOK
  OBVIOUS
<1>1. ClusterTypeOK
  BY LeadershipAssumption
     DEF Init, ClusterInit, ClusterTypeOK, Members, Leaders, Clusters
<1> QED BY <1>1 DEF Init, TypeOK, NoMembers

\* The proxy sends requests to a node or to the default, never to an empty
\* leader, and the two histories hold nodes only.
THEOREM FinderTypeCorrect == Spec => []TypeOK
<1>1. TypeOK /\ [Next]_vars => TypeOK'
  <2> SUFFICES ASSUME TypeOK, [Next]_vars PROVE TypeOK'
    OBVIOUS
  <2>1. CASE \E n \in Nodes : Cluster(Recovers(n)) \/ Cluster(Disturbed(n))
    <3>1. ClusterTypeOK'
      BY <2>1, ClusterType DEF Cluster, TypeOK
    <3>2. since' \in SUBSET Nodes
      BY <2>1, <3>1, ReportedType DEF Cluster, TypeOK, ClusterTypeOK
    <3> QED BY <2>1, <3>1, <3>2 DEF Cluster, finderVars, TypeOK
  <2>2. CASE UNCHANGED vars
    BY <2>2 DEF vars, clusterVars, finderVars, TypeOK, ClusterTypeOK, Members
  <2> QED BY <2>1, <2>2, FinderType DEF Next
<1> QED BY <1>1, InitType, PTL DEF Spec

\* An old leader survives at most one completed poll of the proxy's manager.
THEOREM ProxyStaleByOneFind == Spec => []StaleByOneFind
<1>1. IInv => StaleByOneFind
  BY DEF IInv
<1> QED BY <1>1, InitIInv, NextIInv, PTL DEF Spec

\* A search, of the proxy or of the /leader handler, returns only a leader
\* that was reported while it ran by a node it may have asked.
THEOREM SearchFindsReported == Spec => []FoundWasReported
<1>1. IInv => FoundWasReported
  BY DEF IInv
<1> QED BY <1>1, InitIInv, NextIInv, PTL DEF Spec
=============================================================================
