# A verification of etcd-release

TLA+ models, TLC configurations and TLAPS proofs for the parts of
`etcd-release` that decide how an etcd cluster is formed, grown, shrunk,
supervised and observed: `etcdfab`, the control scripts under monit,
`etcd-proxy` and `etcd-consistency-checker`, and for the probes the acceptance
tests run against it. Paths below are relative to the
repository.

## 1. The system

| Part | State it keeps | Operations | Interacts with |
|---|---|---|---|
| **etcdfab application** (`src/etcdfab/application`, `command`, `etcdfab/main.go`) | the pid file and the data directory of its machine; otherwise the local variables of one run | `Start`, `Stop`, `priorClusterHadOtherNodes`, `removeSelfFromCluster`, `removeDataDir`, `kill` | spawns and kills etcd; members and keys API of etcd |
| **cluster controller** (`src/etcdfab/cluster`) | the prior member list, during one call | `GetInitialClusterState`: list (5 tries), decide `new`/`existing`, add self | members API |
| **sync controller** (`src/etcdfab/sync`) | a counter of 20 | `VerifySynced` | keys API of its own machine |
| **etcd client** (`src/etcdfab/client`) | endpoints, transport | `Configure`, `Self`, `MemberList/Add/Remove`, `Keys` (1 s header timeout) | etcd |
| **configuration** (`src/etcdfab/config`, `jobs/etcd/templates/*.json.erb`) | two JSON files per machine | `ConfigFromJSONs`, names, URLs, endpoints, `buildEtcdArgs` | BOSH properties and links |
| **etcd control scripts** (`jobs/etcd/templates/etcd_ctl*`, `drain`, `jobs/etcd/monit`) | the pid file | start (with `pid_guard` and `timeout 55`), stop, drain; monit's restart | etcdfab |
| **etcd** (a binary package) | membership per cluster, data directory, process | boot, publish its name, leave, exit | etcdfab, proxy, checker |
| **etcd-proxy** (`src/etcd-proxy`) | the manager's `address` under a mutex | `Find` (two GETs), the polling goroutine, the director | etcd |
| **etcd-common** and `etcd_proxy_ctl` (`src/etcd-common/utils.sh`) | the pid file | `pid_guard`, `wait_pidfile`, `kill_and_wait` | processes of the machine |
| **control scripts of the checker and of the network diagnostics** (`jobs/etcd/templates/etcd_consistency_checker_ctl*`, `etcd_network_diagnostics_run_ctl*`) | a pid file each | start without a guard, stop with `kill -9` | processes of the machine, monit, `etcd_ctl` |
| **etcd-consistency-checker** (`src/etcd-consistency-checker`) | the map of leaders of one round | `Run`, `leaderFromSelf`, `getNodeURL` | etcd |
| **spammer and watcher** (`src/acceptance-tests/testing/helpers`) | acknowledged keys and errors; the last recorded index and the data | `Spam`, `Stop`, `Check`; `Watch`, `listenForResponses`, `Stop` | etcd, through the testconsumer and through go-etcd |
| **testconsumer** (`src/acceptance-tests/testing/testconsumer`) | none | GET and PUT of a key; the leader, as any node or one node sees it | etcd |
| **syslog checker** (`src/acceptance-tests/cf-tls-upgrade/syslogchecker`) | errors and iterations | `Start`, `Stop`, `Check` | the cf command line |
| **log spammer** (`src/acceptance-tests/cf-tls-upgrade/logspammer`) | the numbers written, the lines received, errors | `CheckStream`, `Start` (two goroutines), `Stop`, `Check` | an app and its log stream |
| other test support (`src/acceptance-tests`) | none | monit and iptables agents, manifests | the deployed system |

What makes it hard. An `etcdfab start` is a sequence of remote calls on shared
membership, with sleeps between them, on every machine; it may fail at each of
them, be killed by `timeout 55` between any two, and is retried by monit on
whatever was left. `Stop` and the failure branch of `Start` undo things in an
order that etcd reacts to by itself. Proxy and checker take two readings of a
cluster that changes between them. The probes of the acceptance tests are
goroutines that retry, resume and are stopped in the middle of a call.
`PROJECT.json` lists these hazards at their lines, with the properties aimed at
them.

What makes each part correct: one cluster, whatever the order of starts and
stops; a stopped node has left; nobody removes another node's member; no member
comes back with its memory erased; monit supervises the process that owns the
data; a job has one process, and its pid file names it; every etcdfab and every
control script ends; starts and stops take effect; a leader that is found was
reported while it was searched, the proxy's is never older than a poll and is
right once the cluster is stable; a probe's clean verdict is true, it misses
nothing and can be stopped; the checker finds a split brain and does not invent
one; the URLs of two machines fit together, and a machine that is made anew is
still known.

## 2. The modules

| Module | Models |
|---|---|
| `Etcd` | etcd as etcdfab relies on it (external): `members`, `data`, `proc`; boot in its five outcomes, publishing, exit on removal, crash |
| `EtcdFab` (extends `Etcd`) | etcdfab on every node, under etcd_ctl and monit |
| `MCEtcdFab` | the symmetry set for TLC |
| `Membership` | abstract: a group of nodes that grows and shrinks by one serving node at a time |
| `Leadership` | etcd members as the clients of `/v2/members` and `/v2/stats/self` see them (external) |
| `LeaderFinder` (extends `Leadership`) | the search for the leader and its two clients: etcd-proxy (`Find`, the manager's goroutine, `main`) and the testconsumer's `/leader` handler |
| `ConsistencyChecker` (extends `Leadership`) | `App.Run` |
| `PidUtils` | pid files and the control scripts of the proxy, the checker and the diagnostics |
| `Config`, `MCConfig` | configuration, flags and client endpoints of two machines |
| `KvStore` | the history of etcd's keys (external) and the testconsumer's key-value handler |
| `KeySpammer`, `Watcher` (both extend `KvStore`) | `helpers.Spammer` and `helpers.Watcher` |
| `KvProbes` | the two of them on one store, as in `tls_upgrade_test.go` |
| `Replica` | abstract: a copy of the keys that follows a log of events |
| `SyslogChecker` | `syslogchecker.Checker` and the cf commands it runs |
| `LogSpammer` | `logspammer.Spammer`, the app and its log stream (external) |
| `UpgradeProbes` | these two, as `cf_tls_upgrade_test.go` starts them |
| `EtcdFabProofs`, `LeaderFinderProofs`, `ConsistencyCheckerProofs`, `PidUtilsProofs`, `ConfigProofs`, `KvProbesProofs`, `UpgradeProbesProofs` | the theorems about the module of that name |
| `EtcdFabSerialProofs` (extends `EtcdFabProofs`) | the theorems about `EtcdFab` when one node at a time is updated |

**EtcdFab.** Each action ends at the next call that leaves the process, so that
anything may happen between two of them. `pc[n]` is the position of n's etcdfab:

| Code | Actions |
|---|---|
| `etcd_ctl start`, `pid_guard` | `CtlStart` (BOSH), `MonitRestart` (monit finds no process), both through `GuardedStart` |
| `GetInitialClusterState` | `PriorMembers`, `PriorMembersFail` (one try), `AddSelf`, `AddSelfFails`; `InitialState`, `InitialMembers` |
| `command.Start` | `Spawn`, `SpawnFails` |
| `VerifySynced` and the failure branch | `VerifySynced`, `VerifySyncedFails` (one Keys call) |
| writing the pid file | `WritePidFile`, `WritePidFileFails` |
| `Stop` / `priorClusterHadOtherNodes` | `CtlStop`, `PriorClusterHadOtherNodes` |
| `removeSelfFromCluster` | `FindSelf`, `RemoveSelf` |
| `removeDataDir`, `kill` | `RemoveDataDir`, `Kill` |
| `timeout 55` | `StartTimesOut` |

A start that `pid_guard` or the DNS check refuses changes nothing and is a
stuttering step. A node's peer URL and name are the node itself, but a member
has its URL from `MemberAdd` on and its name only after its etcd published it:
that difference is what `removeSelfFromCluster` trips over. The pid of the etcd
spawned by the k-th start is k, and the id of a member or cluster made by that
start is `<<n, k>>`.

Failures are the members of the constant `Faults`, so that each question is
asked under the failures it can stand:

| Fault | Meaning | in `EtcdFab` |
|---|---|---|
| `list` | MemberList fails although a cluster answers | `ListFails` |
| `blip` | the same, but not in the last try of a start: a retry gets the answer | `ListFails`, `LastTry` |
| `add`, `remove` | the call fails, before or after it is applied | `AddSelfFails`, `RemoveSelf` |
| `keys`, `slow` | Keys fails; etcd answers too late, or before it has published | `KeysFail`, `KeysAnswer` |
| `io` | exec, emptying the data directory or writing the pid file fails | `SpawnFails`, `RemoveDataDir`, `WritePidFileFails` |
| `crash` | an etcd process dies | `NodeCrash` |
| `timeout` | `timeout 55` ends etcd_ctl start | `StartTimesOut` |

A MemberList that fails because nobody answers, a MemberAdd without a quorum and
an etcd that cannot sync are no faults in this sense: they follow from the
state.

**Membership.** The refinement mapping reads the abstract `group` off the members
of the cluster that answers, by their URLs, and `serving` off those whose etcd
runs. `Admit` may only happen when everybody serves, `Withdraw` takes a node out
of the list and out of service in one step; so a node that is removed while it
still counts, a second cluster, or a second start before the first one serves
is no step of `Membership`.

**Leadership.** The clusters elect, learn, forget, join, leave, publish and go
down at any time, also between two requests of one search. It has room for two
clusters, which the proxy's runs leave empty and the checker's fill.

**LeaderFinder.** One behaviour has one client. `BeginFind` fixes the address
both requests go to: the default, where any member that is up may answer, or the
node of the handler's query (`asked`). `GetMembers` and `GetSelf` are the two
requests; `Respond` is the handler's answer, `Boot` and `SetAddress` are what the
proxy does with the result, `ServeFails`, `BuildTLSConfigFails` and `Restart` how
it ends and comes back. `since` and `before` are history variables: the leaders
that whoever may answer reported since the current search began, and during the
one before it.

**ConsistencyChecker.** `Run` and `Sleep` begin a round, `LeaderFromSelf` and
`GetNodeURL` are the two requests for member `i`, `Counted` and `Split` what is
made of their answers. An ended checker is started again by monit. `reported` is a
history variable: the leaders that some member has named since the round began.

**PidUtils.** One job per behaviour, one script at a time (monit runs them so),
processes that end by themselves, ignore SIGTERM or belong to somebody else, under
`bash -e`. A process that got SIGKILL no longer does anything, but may be in
`/proc` for a while (`killed`), so that a stop can time out over it. The proxy's start has `pid_guard`. The checker's has no guard of its
own: monit looks at the process of the pid file before it calls it, which is the
guard of `CtlStart`. Nobody looks for the network diagnostics, which every start
of etcd starts again. The stop of these two is `cat`, `kill -9`, `rm`.

**Config.** JSON objects are functions on the fields they have, so that
`json.Unmarshal` into the defaults, and the link over the file, are what they
are: an override field by field. Job names are sequences, so that the
replacement of `_` by `-` happens. `Load` is one run of etcdfab's configuration on
a machine, `Recreate` what BOSH does to it in between: the same instance at
another address.

**KvStore, KeySpammer, Watcher, KvProbes.** A key is its number; its value is the
spammer's (`own`), somebody else's, or gone. A PUT that reached the testconsumer
is in `pending` until it is applied or refused, which may be after the spammer
gave up on it. The watcher's unbuffered channels are rendezvous: `Deliver` hands
a response over, `AddData` records it, `Drained` is the listener at its closed
channel. go-etcd's `Watch` (external) closes the channel when it returns. Told to
stop, it may return no error, as the fake of `watcher_test.go` does, or one, as
the client of `etcd_client.go` may: then the loop of `Watcher.Watch` watches
again. A response without a node is a stutter of the listener. One call of
go-etcd's `Set` writes at most once: retries inside the library are not visible
to the code. `added` and `endedAt` are history variables. The mapping
to `Replica` is direct: etcd's history is its `log`, the last index the watcher
recorded is `applied`, the watcher's data are `copy`.

**SyslogChecker.** The commands are two sequences; each may succeed or fail, and a
failing one may have had its effect. `LaterIteration` stands for all the iterations
after the counted ones, so that the timer keeps being ready. Only the sum of the error counts is kept,
which is all that `Check` uses. `begun` and `failures` are history variables.

**LogSpammer, UpgradeProbes.** A line is its number, the request that made it and
its source: the app, or the router, which logs the path of the request and so the
same number. `DropLine` and `Expire` are the stream losing lines and its token. Its error
channel is taken to stay open while the goroutine reads from it.
The first goroutine never ends (it waits for a group nobody leaves); `getter`
is `"closed"` from `close(doneMsg)` on. `requests` and `lost` are history variables.
The two probes share no state, so a behaviour of `UpgradeProbes` runs one of them:
their product would only multiply states.

## 3. The runs

| Run | Instance | Checks |
|---|---|---|
| `fab_serial` | 3 nodes, 2 starts each, no faults, one node at a time; fairness | `StoppedHasLeft`, `SettledHasQuorum`, `ImplementsMembership`, `NoAmnesia`, `StartTakesEffect`, `StopTakesEffect` |
| `fab_lossy` | 3 nodes, 2 starts, `blip`, `add` and `remove`, one at a time | `OneCluster` |
| `fab_faults` | 2 nodes, 1 start, every fault, concurrent; fairness | `TypeOK`, `SupervisedHasData`, `RemovesOnlySelf`, `EtcdfabTerminates` |
| `fab_orphan` | 2 nodes, `slow` | `FailedStartKillsEtcd` is **violated** |
| `fab_ghost` | 2 nodes, `slow` | `FailedStartRemovesOwnMember` is **violated** |
| `proxy_leader` | 3 nodes, 3 changes, proxy and handler; fairness | `TypeOK`, `StaleByOneFind`, `FoundWasReported`, `FollowsLeader` |
| `checker_split` | 3 members in one or two clusters, 2 changes, joins and removals too; fairness | `TypeOK`, `AlarmIsOfThisRound`, `FindsSplitBrain` |
| `pid_one` | three jobs, 3 pids, countdown 3, pid reuse; fairness | `TypeOK`, `OneProcess`, `ScriptsEnd` |
| `config_agree` | 3 job names, 2 indices, 3 addresses, all SSL flags, with and without a link | `MachinesDiffer`, `ConnectionsAgree`, `RecreatedIsKnown` |
| `config_dns` | the same | `SSLUsesDNS` is **violated** |
| `kv_probes` | 2 keys, 1 foreign event, a window of 2 events, 2 breaks; fairness | `TypeOK`, `WrittenOnce`, `CleanCheckIsTrue`, `StoppedIsDrained`, `ImplementsReplica`, `CatchesUp`, `SpammerEnds` |
| `upgrade_probes` | 3 requests and 1 expiry, or 3 iterations; fairness | log spammer: `LossIsReported`, `MissingIsOutstanding`, `SpammerStops`; syslog checker: `CleansUp`, `SettledWhenStopped`, `OkMeansFewFailures`, `StopReturns`; `TypeOK` |

What the violations show:

* `fab_orphan`: the failure branch of `Start` kills the process of a pid file
  that is only written after `VerifySynced` has succeeded. The etcd it spawned
  runs on, without supervision, above an emptied data directory.
* `fab_ghost`: the failure branch looks for its member by name; a member whose
  etcd never started has none. `MemberRemove("")` fails, the member stays and
  counts against the quorum.
* `config_dns`: the README's "either SSL option" is, in the code, each option
  for its own kind of connection.

Some things are weaker than one would wish, and the properties say so.

* The checker polls its members one after the other, so that an election in
  between makes one cluster look like two. `AlarmIsOfThisRound` promises that each
  leader of an alarm was named by a member within the round, not that there were
  two at one time.
* A Watch that fails replaces the channel `Stop`, a test that is sending on the
  old one is never heard, and a Watch that reports its end by an error is begun
  again. No property promises that a Stop is heard.
* A watcher that fell behind etcd's window of events retries in vain: `CatchesUp`
  has that one.
* An iteration of the syslog checker can add four errors although
  `maxErrsPerIteration` is 2, because `ErrorSet.Add` adds the errors of a set one
  by one: the "percentage" can be 200, which errs on the strict side of
  `OkMeansFewFailures`.
* The log spammer uses a number again when a request for it failed, although the
  app may have logged it; one line then covers up the loss of the other.
  `LossIsReported` counts the errors of such requests too.
* Its `Stop` does not wait for the listener: a line that is on its way or in the
  listener's hand is called missing, which `MissingIsOutstanding` allows.
* Network diagnostics are started without a look at those that run, so
  `OneProcess` is about the other two jobs; every script, theirs too, ends.
* Without peer SSL a machine that comes back at another address has another peer
  URL and is added as a new member, while the old one stays: `RecreatedIsKnown`
  promises the peer URL only with peer SSL.

Without failures and one node at a time all of the cluster properties hold. Two
questions that the runs do not ask, because the answer is known: which single
fault breaks which property (2 nodes, one at a time, x = broken).

| | `OneCluster` | `StoppedHasLeft` | `SettledHasQuorum` | `NoAmnesia` |
|---|---|---|---|---|
| `list` | x | x | x | x |
| `blip` | | x | x | x |
| `add` | | x | x | |
| `remove` | | x | x | x |
| `keys`, `slow`, `io`, `crash` or `timeout` | x | x | x | x |

and with two nodes acting at the same time all four break without any fault: two
first starts each find no cluster and bootstrap one. This is why the manifests
say `serial: true` and `max_in_flight: 1`, and why README.md has the nodes
started one by one after a failure; `Serial` is that assumption, and `Settled`
what BOSH waits for before the next node. `OneCluster` is the only one of the
four that survives lost member calls and lists that a retry answers: the five
tries of a start are what it needs, and `fab_lossy` checks it under these three
faults together.

**Bounds.** `MaxStarts` = 2 is the first value at which a start meets what an
earlier start of the same node left behind (an orphan, a ghost member, a stale
pid file, old data). Three nodes are the deployments' size and the first where
a majority is not everybody. `MaxListTries` and `MaxSyncCalls` stand for 5 and
20: 2 has a first, a last and a next try; the outcome of a loop does not depend
on more. `fab_faults` affords concurrency and every fault with one start per
node; for restarts its safety properties are proved. Three changes let an
election fall into one request, a removal into the other and a failure into the
next poll. Three pids are the job, another program and a free one, or two
diagnostics and a free one. The third address is the one a machine can come back
at. Two keys, two breaks and a foreign event let a late
write meet the next key and a resumption meet an event that is not the spammer's;
a window of two events is overrun by the third. With three iterations a verdict
can go either way; those after them are run but not counted. Three requests are the one of CheckStream, one that fails and
one that uses its number again, or two that succeed around an expired token. The
job names are one without a separator and two that differ in `_` and `-`.

**Deadlock** is checked where the system runs for ever: BOSH may always stop a
node, proxy and checker poll on. Only the probes end, with their test.

**Fairness.** `EtcdFab`: weak fairness of an etcdfab process, of the etcd
processes and of monit's restart (monit checks its processes every cycle); none
of BOSH's commands and none of the failures. That each call of etcdfab returns is
justified by the client's header timeout of one second and the bounded loops.
`LeaderFinder`: the goroutine polls for ever, monit restarts a proxy that
failed, members learn of their leader, publish their URLs and come back.
`ConsistencyChecker`: the same, and every GET ends. That is an assumption about the
members: `newHttpClient` sets no timeout, so that a member that accepts a connection
and never answers blocks `Run`, and `FindsSplitBrain` says nothing of that case.
`PidUtils`: a script that runs goes on, and a process that got SIGKILL leaves
`/proc` in the end; no process need react to SIGTERM or end by itself, but for the
diagnostics, whose loop is bounded. Probes: goroutines go on, requests and commands end, and the test goes on
to its Check; strong fairness of the `done` cases of a select, because Go picks at
random among the cases that are ready. The bounds on changes make the environment calm
in the end, which is the condition of `FollowsLeader` and `FindsSplitBrain`.

Each property has a mutant: a definition changed the way a slip in the code
would change it (marked *Mutant of* in the modules), under which the property is
violated.

## 4. The proofs

Every safety property that a passing run checks, invariant, action property or
refinement, is also a theorem: the run shows it on a small instance, the theorem
for every value of the constants that the named assumptions allow. Each inductive
invariant below was also checked by TLC, on the run of its module, before it was
proved.

**etcdfab.** `EtcdFabProofs` proves, for every set of nodes, every bound, every set
of faults, serial or concurrent:

* `TypeCorrect`: `Spec => []TypeOK`
* `RemovalIsByOwner`: `Spec => RemovesOnlySelf`, an action property
* `SupervisedData`: `Spec => []SupervisedHasData`

from the assumptions on the constants (`ConstantsAssumption`,
`NullsAssumption`, `FabAssumption`): the null values are none of the values they
stand for, the bounds are positive, the faults are known ones.

None of the three is inductive as it stands; the inductive invariant is

    TypeOK /\ PidFileOfLastStart /\ Identities /\ LastStartHasData

* `PidFileOfLastStart`: while a start runs there is no pid file, and a pid file
  is that of the last start. `TypeOK` needs it: a member added by a start gets
  an id made of that start's number.
* `Identities`: ids, URLs and names of members, disks, processes and of the
  memberID that `removeSelfFromCluster` remembers belong to one node. With it, a
  removed id is the remover's own, although the list is read in one step and
  used in a later one.
* `LastStartHasData`: the process that is in the pid file, or will be once the
  start has synced, runs with what is on its disk. It holds because a process
  writes the disk only while no other process holds the ports, and because
  every path that empties the disk either kills the process of the pid file next
  or has no pid file.

Each part has a lemma with one case per action (`TypeNext`, `PidFileNext`,
`IdentitiesNext`, `DataNext`), and lemmas for the steps of etcd; updates of
single processes are handled once, in `ProcUpdate` and `ProcOthers`.

**One node at a time.** `EtcdFabSerialProofs`, for every set of nodes, any number of
starts and any bounds of the retry loops. Two hypotheses name what is assumed of
the deployment and of the failures: `LossySerial` (BOSH updates one node at a
time; `MemberAdd` and `MemberRemove` may fail, before or after they are applied, and
`MemberList` may, but for the last try of a start) and `CleanSerial` (one node at a time, no faults). They are those of the runs
`fab_lossy` and `fab_serial`, and the table above shows that they are needed.

* `NoSplitBrain`: under `LossySerial`, `Spec => []OneCluster`
* `StoppedLeaves`, `SettledQuorum`: under `CleanSerial`, `Spec => []StoppedHasLeft` and
  `Spec => []SettledHasQuorum`
* `NothingForgotten`: under `CleanSerial`, `Spec => NoAmnesia`, an action property
* `RefinesMembership`: under `CleanSerial`, `Spec => ImplementsMembership`, the
  refinement

`OneCluster` says nothing of the steps a start has behind it, so the invariant
`SerialInv` says what a node knows and what stays true meanwhile:

* `OneAtATime`: of two nodes one is settled. Only the other one has steps, and
  `Frame` says what a step of one node leaves alone; the lemma `OthersKept` then
  keeps everything said of the settled nodes, for all actions at once.
* `OwnProcess`, `OwnMember`, `OwnData`: a node has no process but that of its last
  start; a process that monit is given runs as a named member; one without a name
  has the quorum to publish it, so that its start does not fail with etcd left
  behind; a start finds an empty data directory.
* `PriorList`: a start that was told of no member is alone, and stays so until it
  has bootstrapped; otherwise the cluster it was told of still runs elsewhere and
  what the list says of this node is still true, although the list was read
  several steps ago.
* `Roster`: ids are unique, a cluster has one member per URL, and the ids that a
  running start will hand out are not taken. A lost answer of `MemberAdd` leaves a
  member behind that the next start finds by its URL.

`CleanInv` adds, for updates in which nothing fails, that no start fails
(`NeverFails`), that a node joins as no member of the running cluster and knows all
the others (`JoinsOnce`), and that its member is the one its process runs as until it
is removed, which it is unless it was the last (`LeavesOnce`). Quorums are counted
with the cardinality lemmas of the library. In `RefinesMembership` the boot of
the first node is `Found`, adding a member is `Admit`, a boot that joins is `Serve`, the
removal of a member or the kill of the last process is `Withdraw`, and all else is a
stutter.

**The search for the leader.** `LeaderFinderProofs`, for every set of nodes and any
number of changes, from `LeadershipAssumption` and `FinderAssumption`:

* `ProxyStaleByOneFind`: `Spec => []StaleByOneFind`
* `SearchFindsReported`: `Spec => []FoundWasReported`
* `FinderTypeCorrect`: `Spec => []TypeOK`, of which the lemma `ClusterType` is what is
  said of the cluster: only members are up, have a URL and are elected

The first two follow from one inductive invariant, which adds two parts to them.
`SearchSees`: while a search is under way, `since` has every leader
that may still be answered, whoever answers. `AddressOfLastFind`: between two
searches the manager's address is one of the last search, and a proxy that has to
start again has none. Without the second, the address could be older by any number
of searches when the next one begins and `since` becomes `before`.

**The checker.** `ConsistencyCheckerProofs`, for any number of members and changes, from
`LeadershipAssumption` and `CheckerAssumption`: `CheckerTypeCorrect`, that is
`Spec => []TypeOK`, which is inductive (the index of the inner loop stays within the
configured members), and `AlarmHasCause`, that is `Spec => []AlarmIsOfThisRound`. The
invariant of the second is that every leader in the map, and the answer that is
being looked up, was reported since the round began (`OfThisRound`), that the empty
leader is not in the map, and that an alarm means more than one key. It needs that
the map is made anew in each round, although its entries are of different times.

**The pid file.** `PidUtilsProofs`: `PidFileNamesProcess`, that is
`Spec => []OneProcess`, and `PidTypeCorrect`, that is `Spec => []TypeOK`, for any number
of pids, any countdown and with pid reuse, from `PidAssumption`. The invariant adds what a script knows between two of its
lines (`ScriptKnows`): nothing of the job runs between the guard and the start; only
what was just started runs until the pid is written; a stop removes the file only
of a process that is no longer the job's. Types need it too: what is killed is a pid
because the file named it.

**The configuration.** `ConfigProofs`, for all job names (sequences of strings),
indices, addresses and SSL options of properties and link, from `ConfigAssumption`:

* `InstancesDiffer`: `Spec => []MachinesDiffer`
* `ConfigurationsAgree`: `Spec => []ConnectionsAgree`
* `RecreatedMachineIsKnown`: `Spec => RecreatedIsKnown`, an action property

The invariant says what a loaded configuration has of its machine (`ConfigOf`: name,
index, suffix, and each SSL option from the link, else the properties, else the
default) and that two machines that could load theirs have the same link. The lemma
`Settings` computes what the two `Unmarshal` calls make of the files, `DistinctNames`
that the replacement of `_` by `-` keeps names apart that differ in more than that.

**The watcher.** `KvProbesProofs`, for any number of keys, events, broken watches
and any size of etcd's window:

* `WatcherImplementsReplica`: `Spec => ImplementsReplica`, the refinement. Initial
  states map to initial states; a recorded response is the abstract `Apply`, an
  event of the store is `Event`, every other step is a stutter.
* `StoppedWatcherIsDrained`: `Spec => []StoppedIsDrained`

from the invariant `InStep`: the listener holds at most one event, the one after
those recorded; a running Watch waits for the one after that; there is a listener
exactly while there is a Watch or its end is awaited.

**The spammer.** Also in `KvProbesProofs`, for any number of keys, events and attempts:

* `EveryKeyWrittenOnce`: `Spec => []WrittenOnce`
* `CleanCheckIsSound`: `Spec => []CleanCheckIsTrue`
* `ProbesTypeCorrect`: `Spec => []TypeOK`

from the invariant `SpamInv`. `Accounts`: every attempt but the one under way was
acknowledged or left an error, so that without errors the two counts agree.
`FreshKeys`: no PUT had a number from the next one on, which is why a late PUT meets
no other key. `CheckGoesOn`: all that Check has read back had its value at some time
since Stop. What the history says of a key is a greatest index; that there is one is
not proved by induction but by taking a least element of a set of numbers
(`LeastNatural`, from the library's well-foundedness of `<`).

**The upgrade probes.** `UpgradeProbesProofs`, for any number of iterations, requests
and expired tokens; the two probes share no variable, so that `IInv` is the conjunction
of an invariant for each.

* `NoLossUnnoticed`: `Spec => []LossIsReported`
* `NoFalseAlarm`: `Spec => MissingIsOutstanding`, an action property
* `IterationsCleanUp`: `Spec => []CleansUp`
* `StopSettles`: `Spec => []SettledWhenStopped`
* `OkIsBounded`: `Spec => []OkMeansFewFailures`
* `ProbesTypeCorrect`: `Spec => []TypeOK`

The log spammer's part counts lines: one is in one place only (`LinesApart`), there
are no more numbered lines of the app than requests that succeeded or failed, and each
number that was written has one (`LinesCounted`). When Check compares, the numbers it
has not received are missing, and lines beyond the numbers are paid for by the errors
of failed requests. The syslog checker's part relates the iterations begun and counted,
their failures and the errors (`Tally`) and says what the commands of cleanup have done
so far (`CleanupGoesOn`).

**Only model-checked.** Liveness under fairness is out of the prover's reach:
`StartTakesEffect`, `StopTakesEffect`, `EtcdfabTerminates`, `FollowsLeader`,
`FindsSplitBrain`, `ScriptsEnd`, `CatchesUp`, `SpammerEnds`, `SpammerStops` and `StopReturns` are checked by TLC, on the instances of section 3. So are the three
violations, which are about instances anyway.

## 5. Not modelled

* `etcd_bosh_utils.sh`: sourced, none of its functions is called any more.
* etcd's DNS health check (a start that exits before it changes anything), what
  the network diagnostics log, pre-start, the contents of certificates: pure I/O.
* In `EtcdFab` a node keeps its address; that a machine comes back at another one
  is in `Config` only, as what it does to names, URLs and endpoints. A pid of etcd
  reused by another program is in `PidUtils` only.
* The reverse proxy behind the director, and the constant answer of the proxy to
  `/v2/members`.
* `etcd-metrics-server` and `etcd-dns-checker`: submodules without source here.
* The fakes of etcdfab's tests, the monit and iptables agents (a request runs a
  few commands and keeps nothing) and the helpers that build manifests.

## 6. Plan

1. (done) `Etcd`, `EtcdFab` and its safety, liveness and proofs of types,
   removals and supervision; `LeaderFinder`, `ConsistencyChecker`, `PidUtils`,
   `Config`; the spammer, the watcher and the syslog checker of the acceptance
   tests.
2. (done) The log spammer, the leader handler, the control scripts of the checker
   and the diagnostics; machines that come back at another address, in `Config`.
3. (done) Abstract specifications: `Membership`, implemented by the fault-free
   serial `EtcdFab`, and `Replica`, implemented by the watcher.
4. (done) Proofs for the proxy and the handler, the checker, the pid files and the
   watcher.
5. (done) Proofs for serial updates: one cluster with lost member calls, and without
   failures the remaining cluster properties and the refinement of `Membership`; for the
   configuration, the spammer and the upgrade probes. No safety property of a run
   is left without a theorem.
6. (done) One cluster also with `list` faults that are answered by a retry (`blip`).
   Left: monit's restart of an etcd that crashed while all other nodes are settled.
7. Addresses in `EtcdFab`: the URL of a node as a value that `Recreate` changes,
   with the ghost member that a machine without peer SSL leaves.
