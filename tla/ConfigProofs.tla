---------------------------- MODULE ConfigProofs ----------------------------
(***************************************************************************)
(* That the configurations of two machines of a deployment identify them,  *)
(* fit together and stay the same when a machine is made anew, proved for  *)
(* all job names, indices, addresses, and SSL options of properties and    *)
(* link.                                                                   *)
(***************************************************************************)
EXTENDS Config, TLAPS

\* An SSL option: the link's, else the deployment's, else the default.
Option(f, l) ==
  IF l # NoLink /\ f \in DOMAIN l THEN l[f]
  ELSE IF f \in DOMAIN props THEN props[f] ELSE FALSE

\* What a configuration that could be loaded has of machine m.
ConfigOf(m, c) ==
  /\ c.node.name = node[m].name /\ c.node.index = node[m].index
  /\ c.etcd.require_ssl = Option("require_ssl", linked[m])
  /\ c.etcd.peer_require_ssl = Option("peer_require_ssl", linked[m])
  /\ c.etcd.suffix = Suffix

\* An option that a machine gets is on or off.
OptionsTyped ==
  \A m \in Machines : linked[m] # NoFile =>
     \A f \in {"require_ssl", "peer_require_ssl"} : Option(f, linked[m]) \in BOOLEAN

IInv ==
  /\ OptionsTyped
  /\ node \in [Machines -> Nodes]
  /\ node[1].external_ip # node[2].external_ip
  /\ linked[1] = linked[2] \/ NoFile \in {linked[1], linked[2]}
  /\ config = [m \in Machines |-> config[m]]
  /\ \A m \in Machines : config[m] # NoFile => linked[m] # NoFile /\ ConfigOf(m, config[m])

-----------------------------------------------------------------------------
\* What Unmarshal makes of the properties, and then of the link.
LEMMA Settings ==
  ASSUME NEW ips, NEW l
  PROVE  LET e == Unmarshal(IF l = NoLink THEN <<>> ELSE Rendered(l, ips),
                            Unmarshal(Rendered(props, ips), DefaultEtcd))
         IN  /\ e.require_ssl = Option("require_ssl", l)
             /\ e.peer_require_ssl = Option("peer_require_ssl", l)
             /\ e.suffix = Suffix
<1> DEFINE r == Rendered(props, ips)
           j == IF l = NoLink THEN <<>> ELSE Rendered(l, ips)
           p == Unmarshal(r, DefaultEtcd)
           e == Unmarshal(j, p)
           SSL == {"require_ssl", "peer_require_ssl"}
<1>1. /\ "suffix" \in DOMAIN r /\ r["suffix"] = Suffix
      /\ \A f \in SSL : f \in DOMAIN r <=> f \in DOMAIN props
      /\ \A f \in SSL : f \in DOMAIN props => r[f] = props[f]
  BY DEF Rendered
<1>2. /\ "suffix" \in DOMAIN j => j["suffix"] = Suffix
      /\ \A f \in SSL : f \in DOMAIN j <=> l # NoLink /\ f \in DOMAIN l
      /\ \A f \in SSL : l # NoLink /\ f \in DOMAIN l => j[f] = l[f]
  <2>1. CASE l = NoLink
    <3>1. j = << >>
      BY <2>1
    <3>2. \A f : f \notin DOMAIN << >>
      OBVIOUS
    <3> HIDE DEF j
    <3> QED BY <2>1, <3>1, <3>2
  <2>2. CASE l # NoLink
    BY <2>2 DEF Rendered
  <2> QED BY <2>1, <2>2
<1>3. \A f \in SSL : DefaultEtcd[f] = FALSE
  <2>1. DefaultEtcd["require_ssl"] = FALSE /\ DefaultEtcd["peer_require_ssl"] = FALSE
    BY DEF DefaultEtcd
  <2> QED BY <2>1
<1> HIDE DEF r, j
<1>4. \A f \in SSL \cup {"suffix"} : p[f] = IF f \in DOMAIN r THEN r[f] ELSE DefaultEtcd[f]
  BY DEF Unmarshal, Fields
<1> HIDE DEF p
<1>5. \A f \in SSL \cup {"suffix"} : e[f] = IF f \in DOMAIN j THEN j[f] ELSE p[f]
  BY DEF Unmarshal, Fields
<1> HIDE DEF e
<1>6. e["suffix"] = Suffix
  BY <1>1, <1>2, <1>4, <1>5
<1>7. \A f \in SSL : e[f] = Option(f, l)
  BY <1>1, <1>2, <1>3, <1>4, <1>5 DEF Option
<1> QED BY <1>6, <1>7 DEF e, j, p, r

\* No configuration has been loaded at first.
LEMMA InitIInv == Init => IInv
<1> SUFFICES ASSUME Init PROVE IInv
  OBVIOUS
<1>1. /\ node \in [Machines -> Nodes] /\ node[1].external_ip # node[2].external_ip
      /\ config = [m \in Machines |-> NoFile]
  BY DEF Init
<1>2. linked[1] = linked[2] \/ NoFile \in {linked[1], linked[2]}
  BY DEF Init, Machines
<1>3. OptionsTyped
  <2>1. PICK l \in Objects \cup {NoLink} : \A m \in Machines : linked[m] \in {l, NoFile}
    BY DEF Init
  <2>2. \A o \in Objects : \A f \in DOMAIN o : o[f] \in BOOLEAN
    BY DEF Objects
  <2>3. \A f \in {"require_ssl", "peer_require_ssl"} : Option(f, l) \in BOOLEAN
    <3>1. props \in Objects
      BY DEF Init
    <3> QED BY <2>2, <3>1, Zenon DEF Option
  <2> QED BY <2>1, <2>3, Zenon DEF OptionsTyped
<1> QED BY <1>1, <1>2, <1>3 DEF IInv

\* Loading gives an error, or the name of the machine and the options of the
\* deployment.
LEMMA LoadIInv ==
  ASSUME IInv, NEW m \in Machines, Load(m)
  PROVE  IInv'
<1> DEFINE c == ConfigFromJSONs(EtcdfabJSON(m), EtcdLinkJSON(m))
<1>1. config' = [config EXCEPT ![m] = c] /\ UNCHANGED <<node, props, linked>>
  BY DEF Load
<1>2. ASSUME c # NoFile PROVE linked[m] # NoFile /\ ConfigOf(m, c)
  <2>1. EtcdLinkJSON(m) # NoFile /\ EtcdfabJSON(m) # NoFile
    BY <1>2 DEF ConfigFromJSONs
  <2>2. linked[m] # NoFile
    BY <2>1, ConfigAssumption DEF EtcdLinkJSON
  <2>3. EtcdLinkJSON(m) = IF linked[m] = NoLink THEN <<>> ELSE Rendered(linked[m], IPs)
    BY <2>2 DEF EtcdLinkJSON
  <2> DEFINE e == Unmarshal(EtcdLinkJSON(m), Unmarshal(Rendered(props, IPs), DefaultEtcd))
  <2>4. c = [node |-> node[m], etcd |-> e]
    BY <2>1 DEF ConfigFromJSONs, EtcdfabJSON
  <2>5. /\ e.require_ssl = Option("require_ssl", linked[m])
        /\ e.peer_require_ssl = Option("peer_require_ssl", linked[m])
        /\ e.suffix = Suffix
    BY <2>3, Settings
  <2> HIDE DEF c, e
  <2> QED BY <2>2, <2>4, <2>5 DEF ConfigOf
<1> HIDE DEF c
<1>3. config' = [n \in Machines |-> config'[n]]
  BY <1>1 DEF IInv
<1>4. ASSUME NEW n \in Machines, config'[n] # NoFile
      PROVE  linked[n] # NoFile /\ ConfigOf(n, config'[n])
  BY <1>1, <1>2, <1>4 DEF IInv
<1> QED BY <1>1, <1>3, <1>4 DEF IInv, ConfigOf, Option, OptionsTyped

\* A machine that is made anew keeps its name and its index.
LEMMA RecreateIInv ==
  ASSUME IInv, NEW m \in Machines, Recreate(m)
  PROVE  IInv'
<1>1. PICK a \in Addresses \ IPs : node' = [node EXCEPT ![m].external_ip = a]
  BY DEF Recreate
<1>2. UNCHANGED <<props, linked, config>>
  BY DEF Recreate
<1>3. \A n \in Machines :
         /\ node'[n].name = node[n].name /\ node'[n].index = node[n].index
         /\ node'[n].external_ip = IF n = m THEN a ELSE node[n].external_ip
         /\ node'[n] \in Nodes
  BY <1>1 DEF IInv, Nodes
<1>4. node' \in [Machines -> Nodes]
  BY <1>1, <1>3 DEF IInv
<1>5. node'[1].external_ip # node'[2].external_ip
  <2>1. \A n \in Machines : a # node[n].external_ip
    BY DEF IPs
  <2> QED BY <1>3, <2>1 DEF IInv, Machines
<1>6. \A n \in Machines : ConfigOf(n, config[n]) => ConfigOf(n, config[n])'
  BY <1>2, <1>3 DEF ConfigOf, Option
<1> QED BY <1>2, <1>4, <1>5, <1>6 DEF IInv, OptionsTyped, Option

\* IInv is inductive.
LEMMA NextIInv == IInv /\ [Next]_vars => IInv'
<1> SUFFICES ASSUME IInv, [Next]_vars PROVE IInv'
  OBVIOUS
<1>1. CASE Next
  BY <1>1, LoadIInv, RecreateIInv DEF Next
<1>2. CASE UNCHANGED vars
  BY <1>2 DEF vars, IInv, ConfigOf, Option, OptionsTyped
<1> QED BY <1>1, <1>2

-----------------------------------------------------------------------------
\* Instances that differ in more than a separator have different member names.
LEMMA DistinctNames ==
  ASSUME NEW x \in Nodes, NEW y \in Nodes, Distinct(x, y)
  PROVE  x.index # y.index \/ Dashed(x.name) # Dashed(y.name)
<1>1. x.name \in Seq(STRING) /\ y.name \in Seq(STRING)
  BY ConfigAssumption DEF Nodes
<1>2. DOMAIN Dashed(x.name) = DOMAIN x.name /\ DOMAIN Dashed(y.name) = DOMAIN y.name
  BY DEF Dashed
<1>3. DOMAIN x.name = 1 .. Len(x.name) /\ DOMAIN y.name = 1 .. Len(y.name)
      /\ Len(x.name) \in Nat /\ Len(y.name) \in Nat
  BY <1>1
<1>4. CASE Len(x.name) # Len(y.name)
  <2>1. DOMAIN x.name # DOMAIN y.name
    BY <1>3, <1>4
  <2> QED BY <1>2, <2>1
<1>5. CASE Len(x.name) = Len(y.name) /\ x.index = y.index
  <2>1. DOMAIN x.name = DOMAIN y.name
    BY <1>3, <1>5
  <2>2. PICK j \in DOMAIN x.name :
           x.name[j] # y.name[j] /\ {x.name[j], y.name[j]} # {"_", "-"}
    BY <1>5 DEF Distinct
  <2>3. /\ Dashed(x.name)[j] = IF x.name[j] = "_" THEN "-" ELSE x.name[j]
        /\ Dashed(y.name)[j] = IF y.name[j] = "_" THEN "-" ELSE y.name[j]
    BY <2>1 DEF Dashed
  <2>4. Dashed(x.name)[j] # Dashed(y.name)[j]
    BY <2>2, <2>3
  <2> QED BY <2>4
<1> QED BY <1>4, <1>5

\* The configurations that are loaded have the same options.
LEMMA SameOptions ==
  ASSUME IInv, NEW a \in Loaded, NEW b \in Loaded
  PROVE  /\ a \in Machines /\ b \in Machines
         /\ config[a].node = node[a] /\ config[b].node = node[b]
         /\ config[a].etcd.require_ssl = config[b].etcd.require_ssl
         /\ config[a].etcd.peer_require_ssl = config[b].etcd.peer_require_ssl
         /\ config[a].etcd.suffix = config[b].etcd.suffix
<1>1. /\ a \in Machines /\ b \in Machines
      /\ config[a].node = node[a] /\ config[b].node = node[b]
      /\ linked[a] # NoFile /\ linked[b] # NoFile
      /\ ConfigOf(a, config[a]) /\ ConfigOf(b, config[b])
  BY DEF Loaded, IInv
<1>2. linked[a] = linked[b]
  BY <1>1 DEF IInv, Machines
<1> QED BY <1>1, <1>2 DEF ConfigOf

\* Distinct instances have member names, peer URLs and endpoints of their own,
\* whichever SSL options are on.
THEOREM InstancesDiffer == Spec => []MachinesDiffer
<1>1. ASSUME IInv, NEW a \in Loaded, NEW b \in Loaded, a # b,
             Distinct(config[a].node, config[b].node)
      PROVE  /\ BuildEtcdArgs(config[a]).name # BuildEtcdArgs(config[b]).name
             /\ BuildEtcdArgs(config[a]).advertisePeer # BuildEtcdArgs(config[b]).advertisePeer
             /\ Configure(config[a]).self # Configure(config[b]).self
  <2> DEFINE c == config[a]
             d == config[b]
  <2>1. /\ a \in Machines /\ b \in Machines
        /\ c.node = node[a] /\ d.node = node[b]
        /\ c.etcd.require_ssl = d.etcd.require_ssl
        /\ c.etcd.peer_require_ssl = d.etcd.peer_require_ssl
    BY <1>1, SameOptions
  <2> HIDE DEF c, d
  <2>2. c.node \in Nodes /\ d.node \in Nodes
    BY <1>1, <2>1 DEF IInv
  <2>3. NodeName(c) # NodeName(d)
    BY <1>1, <2>2, DistinctNames DEF NodeName, c, d
  <2>4. c.node.external_ip # d.node.external_ip
    BY <1>1, <2>1 DEF IInv, Machines
  <2>5. \A s, t, p, q, r, w :
           /\ DNS(NodeName(c), s) # DNS(NodeName(d), t)
           /\ IP(c.node.external_ip) # IP(d.node.external_ip)
           /\ p # q => URL(r, p, w) # URL(r, q, w)
    BY <2>3, <2>4 DEF DNS, IP, URL
  <2>6. AdvertisePeerURL(c) # AdvertisePeerURL(d)
    BY <2>1, <2>5 DEF AdvertisePeerURL
  <2>7. EtcdClientSelfEndpoint(c) # EtcdClientSelfEndpoint(d)
    BY <2>1, <2>5 DEF EtcdClientSelfEndpoint
  <2> QED BY <2>3, <2>6, <2>7 DEF BuildEtcdArgs, Configure, c, d
<1>2. IInv => MachinesDiffer
  BY <1>1 DEF MachinesDiffer
<1> QED BY <1>2, InitIInv, NextIInv, PTL DEF Spec

\* The clients and servers of any two machines of a deployment agree on
\* protocol, port and certificates.
THEOREM ConfigurationsAgree == Spec => []ConnectionsAgree
<1>1. ASSUME IInv, NEW a \in Loaded, NEW b \in Loaded
      PROVE  LET client == Configure(config[a])
                 args   == BuildEtcdArgs(config[b])
             IN  /\ \A u \in client.endpoints \cup {client.self} :
                      /\ u.protocol = args.listenClient.protocol
                      /\ u.port = args.listenClient.port
                 /\ client.tls = args.clientCertAuth
                 /\ args.advertisePeer.protocol = args.listenPeer.protocol
                 /\ args.peerCertAuth = (args.listenPeer.protocol = "https")
                 /\ a = b => client.self = args.advertiseClient
  <2> DEFINE c == config[a]
             d == config[b]
  <2>1. c.etcd.require_ssl = d.etcd.require_ssl
    BY <1>1, SameOptions
  <2>2. d.etcd.peer_require_ssl \in BOOLEAN /\ d.etcd.require_ssl \in BOOLEAN
    <3>1. b \in Machines /\ linked[b] # NoFile /\ ConfigOf(b, config[b])
      BY <1>1 DEF Loaded, IInv
    <3> QED BY <1>1, <3>1, Zenon DEF IInv, OptionsTyped, ConfigOf
  <2> HIDE DEF c, d
  <2>3. \A u \in EtcdClientEndpoints(c) \cup {EtcdClientSelfEndpoint(c)} :
           u.protocol = Protocol(c.etcd.require_ssl) /\ u.port = clientPort
    BY DEF EtcdClientEndpoints, EtcdClientSelfEndpoint, URL, Protocol
  <2>4. /\ ListenClientURL(d).protocol = Protocol(d.etcd.require_ssl)
        /\ ListenClientURL(d).port = clientPort
        /\ ListenPeerURL(d).protocol = Protocol(d.etcd.peer_require_ssl)
        /\ AdvertisePeerURL(d).protocol = Protocol(d.etcd.peer_require_ssl)
    BY DEF ListenClientURL, ListenPeerURL, AdvertisePeerURL, URL, Protocol
  <2>5. d.etcd.peer_require_ssl = (Protocol(d.etcd.peer_require_ssl) = "https")
    BY <2>2 DEF Protocol
  <2>6. EtcdClientSelfEndpoint(d) = AdvertiseClientURL(d)
    BY DEF EtcdClientSelfEndpoint, AdvertiseClientURL
  <2>7. c = d \/ a # b
    BY DEF c, d
  <2> QED BY <2>1, <2>3, <2>4, <2>5, <2>6, <2>7 DEF BuildEtcdArgs, Configure, c, d
<1>2. IInv => ConnectionsAgree
  BY <1>1 DEF ConnectionsAgree
<1> QED BY <1>2, InitIInv, NextIInv, PTL DEF Spec

\* A machine that comes back at another address has the name of the member it
\* was, and with SSL its peer URL and its endpoints.
THEOREM RecreatedMachineIsKnown == Spec => RecreatedIsKnown
<1>1. ASSUME IInv, IInv', [Next]_vars, NEW m \in Machines, NoFile \notin {config[m], config'[m]}
      PROVE  /\ NodeName(config[m]) = NodeName(config'[m])
             /\ config[m].etcd.peer_require_ssl =>
                   AdvertisePeerURL(config[m]) = AdvertisePeerURL(config'[m])
             /\ config[m].etcd.require_ssl => Configure(config[m]) = Configure(config'[m])
  <2> DEFINE c == config[m]
             d == config'[m]
  <2>1. UNCHANGED <<props, linked>>
    BY <1>1 DEF Next, Load, Recreate, vars
  <2>2. node'[m].name = node[m].name /\ node'[m].index = node[m].index
    BY <1>1 DEF Next, Load, Recreate, vars, IInv, Nodes
  <2>3. ConfigOf(m, c) /\ ConfigOf(m, config[m])'
    BY <1>1 DEF IInv
  <2>4. /\ c.node.name = d.node.name /\ c.node.index = d.node.index
        /\ c.etcd.require_ssl = d.etcd.require_ssl
        /\ c.etcd.peer_require_ssl = d.etcd.peer_require_ssl
        /\ c.etcd.suffix = d.etcd.suffix
    BY <2>1, <2>2, <2>3 DEF ConfigOf, Option
  <2> HIDE DEF c, d
  <2>5. NodeName(c) = NodeName(d)
    BY <2>4 DEF NodeName
  <2>6. c.etcd.peer_require_ssl => AdvertisePeerURL(c) = AdvertisePeerURL(d)
    BY <2>4, <2>5 DEF AdvertisePeerURL
  <2>7. c.etcd.require_ssl => Configure(c) = Configure(d)
    BY <2>4, <2>5 DEF Configure, EtcdClientEndpoints, EtcdClientSelfEndpoint
  <2> QED BY <2>5, <2>6, <2>7 DEF c, d
<1>2. IInv /\ IInv' /\ [Next]_vars =>
        [\A m \in Machines :
           NoFile \notin {config[m], config'[m]} =>
              /\ NodeName(config[m]) = NodeName(config'[m])
              /\ config[m].etcd.peer_require_ssl =>
                    AdvertisePeerURL(config[m]) = AdvertisePeerURL(config'[m])
              /\ config[m].etcd.require_ssl => Configure(config[m]) = Configure(config'[m])]_vars
  BY <1>1
<1> QED BY <1>2, InitIInv, NextIInv, PTL DEF Spec, RecreatedIsKnown
=============================================================================
