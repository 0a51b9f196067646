---------------------------- MODULE LeaderFinder ----------------------------
(***************************************************************************)
(* The clients that look for the leader with two requests, which two etcd  *)
(* nodes may answer at two times, and look the leader of the second answer *)
(* up in the member list of the first: etcd-proxy, whose manager goroutine *)
(* polls for it and whose director reads what it found, and the /leader    *)
(* handler of the acceptance tests' testconsumer.                          *)
(***************************************************************************)
EXTENDS Leadership

CONSTANT Default   \* the DNS name of the whole cluster

ASSUME FinderAssumption == Default \notin Nodes

VARIABLES
  client,    \* "proxy" or "handler"
  pc,        \* "boot", "sleep", "members", "self", "set", or "exit"
  booted,    \* main has created the manager
  asked,     \* the address both requests go to: Default, or one node
  members,   \* the answer to GET /v2/members
  found,     \* what the search returns: a node, or Default for an error
  address,   \* the address of the manager
  since,     \* history: the leaders reported since this search began
  before     \* history: the leaders reported during the search before it

finderVars == <<client, pc, booted, asked, members, found, address, before>>
vars       == <<clusterVars, finderVars, since>>

NoMembers == [id |-> {}, url |-> {}]

TypeOK ==
  /\ ClusterTypeOK
  /\ client \in {"proxy", "handler"}
  /\ pc \in {"boot", "members", "self", "set", "sleep", "exit"}
  /\ booted \in BOOLEAN
  /\ asked \in Nodes \cup {Default}
  /\ members \in [id : SUBSET Nodes, url : SUBSET Nodes]
  /\ found \in Nodes \cup {Default}
  /\ address \in Nodes \cup {Default}
  /\ since \in SUBSET Nodes
  /\ before \in SUBSET Nodes

Init ==
  /\ cluster \in [Nodes -> {"a", "none"}]
  /\ ClusterInit
  /\ urls = Members
  /\ client \in {"proxy", "handler"}
  /\ pc = "boot"
  /\ booted = FALSE
  /\ asked = Default
  /\ members = NoMembers
  /\ found = Default
  /\ address = Default
  /\ since = {}
  /\ before = {}

\* The leaders that whoever may answer at address a reports.
Reported(a, v) == {v[n] : n \in {m \in Nodes : a \in {Default, m}}} \ {NoLeader}

Cluster(A) ==
  /\ A
  /\ since' = since \cup Reported(asked, view')
  /\ UNCHANGED finderVars

-----------------------------------------------------------------------------
(* The search: Find of the proxy, getMembers and getLeader of the handler  *)

\* Mutant of EtcdURL: the node of the query is ignored.
EtcdURLDefault(node) == Default

\* The address of the requests: the node of the query, if it has one.
EtcdURL(node) == node

Answering(a) == {n \in Nodes : n \in up /\ a \in {Default, n}}

End(result) == found' = result /\ members' = NoMembers /\ pc' = "set"

BeginFind ==
  /\ pc \in {"boot", "sleep"}
  /\ \E node \in IF client = "handler" THEN Nodes \cup {Default} ELSE {Default} :
        /\ asked' = EtcdURL(node)
        /\ since' = Reported(node, view)
  /\ pc' = "members"
  /\ before' = since
  /\ UNCHANGED <<clusterVars, client, booted, members, found, address>>

\* The certificates cannot be read: the proxy exits, the handler answers 500.
BuildTLSConfigFails ==
  /\ pc = "boot" \/ (pc = "sleep" /\ client = "handler")
  /\ Change
  /\ IF client = "proxy" THEN pc' = "exit" /\ UNCHANGED <<found, members>> ELSE End(Default)
  /\ UNCHANGED <<cluster, urls, up, view, leader>>
  /\ UNCHANGED <<client, booted, asked, address, since, before>>

\* A request fails because nobody is there to answer it, or is lost.
RequestFails ==
  /\ \/ Answering(asked) = {} /\ UNCHANGED changes
     \/ Change
  /\ End(Default)

\* GET /v2/members: whoever answers lists at least itself.
GetMembers ==
  /\ pc = "members"
  /\ \/ /\ \E n \in Answering(asked) : members' = [id |-> Listed(n), url |-> Listed(n) \cap urls]
        /\ pc' = "self"
        /\ UNCHANGED <<found, changes>>
     \/ RequestFails
  /\ UNCHANGED <<cluster, urls, up, view, leader>>
  /\ UNCHANGED <<client, booted, asked, address, since, before>>

\* Mutant of Lookup: no LeaderNotFound for a member that knows no leader.
LookupAnyLeader(id) == id = NoLeader \/ id \in members.url

\* The member with the leader's id.  Only the proxy needs its client URL.
Lookup(id) == id \in members.id /\ (client = "proxy" => id \in members.url)

\* GET /v2/stats/self and the loop over the members.
GetSelf ==
  /\ pc = "self"
  /\ \/ /\ \E n \in Answering(asked) : End(IF Lookup(view[n]) THEN view[n] ELSE Default)
        /\ UNCHANGED changes
     \/ RequestFails
  /\ UNCHANGED <<cluster, urls, up, view, leader>>
  /\ UNCHANGED <<client, booted, asked, address, since, before>>

\* The handler writes the leader's name, or a 500: nothing of it is kept.
Respond ==
  /\ client = "handler"
  /\ pc = "set"
  /\ found' = Default
  /\ pc' = "sleep"
  /\ UNCHANGED <<clusterVars, client, booted, asked, members, address, since, before>>

-----------------------------------------------------------------------------
(* main of the proxy and the goroutine of NewManager                       *)

\* The first Find is main's own: its answer is not used, only its error.
Boot ==
  /\ client = "proxy"
  /\ pc = "set"
  /\ ~booted
  /\ booted' = (found # Default)
  /\ pc' = IF found = Default THEN "exit" ELSE "sleep"
  /\ found' = Default
  /\ UNCHANGED <<clusterVars, client, asked, members, address, since, before>>

\* Mutants of NextAddress: a failing Find keeps the address; a leader that was
\* found is never replaced.
NextAddressKeeps == IF found = Default THEN address ELSE found
NextAddressOnce  == IF address = Default THEN found ELSE address

\* defaultEtcdURL after an error.
NextAddress == found

SetAddress ==
  /\ client = "proxy"
  /\ pc = "set"
  /\ booted
  /\ address' = NextAddress
  /\ found' = Default
  /\ pc' = "sleep"
  /\ UNCHANGED <<clusterVars, client, booted, asked, members, since, before>>

\* Where the director of the reverse proxy sends a request.
LeaderOrDefault == address

\* ListenAndServe fails at once or later, whatever the goroutine is doing.
ServeFails ==
  /\ booted
  /\ Change
  /\ pc' = "exit"
  /\ booted' = FALSE
  /\ members' = NoMembers
  /\ found' = Default
  /\ address' = Default
  /\ UNCHANGED <<cluster, urls, up, view, leader, client, asked, since, before>>

\* monit starts the proxy again.
Restart ==
  /\ pc = "exit"
  /\ pc' = "boot"
  /\ UNCHANGED <<clusterVars, client, booted, asked, members, found, address, since, before>>

Search == BeginFind \/ GetMembers \/ GetSelf \/ Respond \/ Boot \/ SetAddress \/ Restart

Next ==
  \/ Search \/ BuildTLSConfigFails \/ ServeFails
  \/ \E n \in Nodes : Cluster(Recovers(n)) \/ Cluster(Disturbed(n))

Spec == Init /\ [][Next]_vars

(***************************************************************************)
(* The goroutine polls for ever and monit restarts the proxy; the members  *)
(* of a cluster learn of their leader, publish their URLs and come back.   *)
(***************************************************************************)
Fairness ==
  /\ WF_vars(Search)
  /\ \A n \in Nodes : WF_vars(Cluster(Recovers(n)))

FairSpec == Spec /\ Fairness

-----------------------------------------------------------------------------
(* Properties                                                              *)

\* What the director of the proxy uses is the default, or a member that some
\* member reported as leader during the Find that set it or the one that runs
\* now: an old leader survives at most one completed poll.
StaleByOneFind == LeaderOrDefault \in {Default} \cup since \cup before

\* The leader that a search returns was reported during that search, and by
\* the node that the request to the handler names, if it names one.
FoundWasReported == found # Default => found \in since

\* A leader that the cluster keeps, once no more members, messages or
\* machines fail, becomes and stays the address of the manager.
FollowsLeader ==
  client = "proxy" /\ <>[](leader["a"] # NoLeader) => <>[](LeaderOrDefault = leader["a"])
=============================================================================
