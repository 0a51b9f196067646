------------------------------- MODULE Config -------------------------------
(***************************************************************************)
(* The configuration of etcdfab (config/config.go), the flags that         *)
(* application.buildEtcdArgs makes of it and what client.Configure uses.   *)
(* Every machine of a deployment loads its own two files; the module looks *)
(* at two machines at a time, each of which may come back as a new one.    *)
(*                                                                         *)
(* A JSON object is a function on the fields it has.  A job name is a      *)
(* sequence of words and separators, a URL a record of its three parts.    *)
(***************************************************************************)
EXTENDS Integers, Sequences

CONSTANTS
  Names,      \* the job names
  Indices,    \* the instance indices
  Addresses,  \* the machines' IP addresses
  Suffix,     \* etcd.advertise_urls_dns_suffix
  NoLink,     \* the job consumes no link: etcd_link.json is {}
  NoFile      \* a file that cannot be read or unmarshalled

ASSUME ConfigAssumption ==
  /\ \A name \in Names : name \in Seq(STRING)
  /\ NoFile # NoLink

Machines == {1, 2}

VARIABLES
  node,    \* node[m]: name, index and address of machine m
  props,   \* the SSL options in the properties of the deployment
  linked,  \* linked[m]: those in the link that machine m gets
  config   \* config[m]: the last result of ConfigFromJSONs, NoFile for an error

vars == <<node, props, linked, config>>

Fields ==
  {"require_ssl", "peer_require_ssl", "machines", "suffix", "peer_ip", "client_ip"}

\* defaultConfig: the zero value of every field modelled here.
DefaultEtcd ==
  [require_ssl |-> FALSE, peer_require_ssl |-> FALSE, machines |-> {},
   suffix |-> "", peer_ip |-> "", client_ip |-> ""]

-----------------------------------------------------------------------------
(* config.go                                                               *)

\* json.Unmarshal into a struct: the fields of the object replace.
Unmarshal(json, etcd) ==
  [f \in Fields |-> IF f \in DOMAIN json THEN json[f] ELSE etcd[f]]

ConfigFromJSONs(f, l) ==
  IF f = NoFile \/ l = NoFile
  THEN NoFile
  ELSE [node |-> f.node, etcd |-> Unmarshal(l, Unmarshal(f.etcd, DefaultEtcd))]

\* strings.Replace(c.Node.Name, "_", "-", -1)
Dashed(name) == [j \in DOMAIN name |-> IF name[j] = "_" THEN "-" ELSE name[j]]

\* Mutant of NodeName: without the index.
NodeNameOfJob(c) == [name |-> Dashed(c.node.name), index |-> 0]

NodeName(c) == [name |-> Dashed(c.node.name), index |-> c.node.index]

URL(protocol, host, port) == [protocol |-> protocol, host |-> host, port |-> port]

\* The hosts: a node's DNS name, the DNS name of the cluster, an IP address.
NoName == [name |-> <<>>, index |-> 0]
DNS(nodeName, suffix) == [dns |-> TRUE, node |-> nodeName, at |-> suffix]
IP(address)           == [dns |-> FALSE, node |-> NoName, at |-> address]

clientPort == 4001
peerPort   == 7001

Protocol(ssl) == IF ssl THEN "https" ELSE "http"

\* Mutant of AdvertisePeerURL: always by address.
AdvertisePeerURLByIP(c) ==
  URL(Protocol(c.etcd.peer_require_ssl), IP(c.node.external_ip), peerPort)

AdvertisePeerURL(c) ==
  IF c.etcd.peer_require_ssl
  THEN URL("https", DNS(NodeName(c), c.etcd.suffix), peerPort)
  ELSE URL("http", IP(c.node.external_ip), peerPort)

AdvertiseClientURL(c) ==
  IF c.etcd.require_ssl
  THEN URL("https", DNS(NodeName(c), c.etcd.suffix), clientPort)
  ELSE URL("http", IP(c.node.external_ip), clientPort)

ListenPeerURL(c) ==
  URL(Protocol(c.etcd.peer_require_ssl), IP(c.etcd.peer_ip), peerPort)

\* Mutant of ListenClientURL: the flag of the peer connections.
ListenClientURLByPeer(c) ==
  URL(Protocol(c.etcd.peer_require_ssl), IP(c.etcd.client_ip), clientPort)

ListenClientURL(c) ==
  URL(Protocol(c.etcd.require_ssl), IP(c.etcd.client_ip), clientPort)

EtcdClientEndpoints(c) ==
  IF c.etcd.require_ssl
  THEN {URL("https", DNS(NoName, c.etcd.suffix), clientPort)}
  ELSE {URL("http", IP(a), clientPort) : a \in c.etcd.machines}

EtcdClientSelfEndpoint(c) ==
  IF c.etcd.require_ssl
  THEN URL("https", DNS(NodeName(c), c.etcd.suffix), clientPort)
  ELSE URL("http", IP(c.node.external_ip), clientPort)

-----------------------------------------------------------------------------
\* application.buildEtcdArgs: the flags of etcd that differ between machines.
BuildEtcdArgs(c) ==
  [name            |-> NodeName(c),
   listenPeer      |-> ListenPeerURL(c),
   listenClient    |-> ListenClientURL(c),
   advertisePeer   |-> AdvertisePeerURL(c),
   advertiseClient |-> AdvertiseClientURL(c),
   clientCertAuth  |-> c.etcd.require_ssl,
   peerCertAuth    |-> c.etcd.peer_require_ssl]

\* client.Configure and client.Self: the endpoints and the TLS transport.
Configure(c) ==
  [endpoints |-> EtcdClientEndpoints(c),
   self      |-> EtcdClientSelfEndpoint(c),
   tls       |-> c.etcd.require_ssl]

-----------------------------------------------------------------------------
(* etcdfab.json.erb and etcd_link.json.erb render p('etcd'), the same on   *)
(* every machine of the deployment, and the link's with its addresses.     *)

Objects == UNION {[fs -> BOOLEAN] : fs \in SUBSET {"require_ssl", "peer_require_ssl"}}

Rendered(json, addresses) ==
  [f \in DOMAIN json \cup {"machines", "suffix", "peer_ip", "client_ip"} |->
     CASE f = "machines"                  -> addresses
       [] f = "suffix"                    -> Suffix
       [] f \in {"peer_ip", "client_ip"} -> "0.0.0.0"
       [] OTHER                           -> json[f]]

Nodes == [name : Names, index : Indices, external_ip : Addresses]
IPs   == {node[m].external_ip : m \in Machines}

EtcdfabJSON(m) == [node |-> node[m], etcd |-> Rendered(props, IPs)]

EtcdLinkJSON(m) ==
  CASE linked[m] = NoFile -> NoFile
    [] linked[m] = NoLink -> <<>>
    [] OTHER              -> Rendered(linked[m], IPs)

Init ==
  /\ node \in {f \in [Machines -> Nodes] :
                 /\ f[1].external_ip # f[2].external_ip
                 /\ <<f[1].name, f[1].index>> # <<f[2].name, f[2].index>>}
  /\ props \in Objects
  /\ \E l \in Objects \cup {NoLink} :
        linked \in {[m \in Machines |-> l], [m \in Machines |-> IF m = 1 THEN l ELSE NoFile]}
  /\ config = [m \in Machines |-> NoFile]

\* Application.Start and Application.Stop begin by loading the configuration.
Load(m) ==
  /\ config' = [config EXCEPT ![m] = ConfigFromJSONs(EtcdfabJSON(m), EtcdLinkJSON(m))]
  /\ UNCHANGED <<node, props, linked>>

\* BOSH makes the machine anew, at another address.
Recreate(m) ==
  /\ \E a \in Addresses \ IPs : node' = [node EXCEPT ![m].external_ip = a]
  /\ UNCHANGED <<props, linked, config>>

Next == \E m \in Machines : Load(m) \/ Recreate(m)

Spec == Init /\ [][Next]_vars

-----------------------------------------------------------------------------
(* Properties                                                              *)

\* The machines whose etcdfab has run since they were made.
Loaded == {m \in Machines : config[m] # NoFile /\ config[m].node = node[m]}

\* The instances differ in their index, or in more of their job name than
\* that one has "_" where the other has "-".
Distinct(x, y) ==
  \/ x.index # y.index
  \/ Len(x.name) # Len(y.name)
  \/ \E j \in DOMAIN x.name :
        x.name[j] # y.name[j] /\ {x.name[j], y.name[j]} # {"_", "-"}

\* Distinct instances differ in all that identifies them in the cluster: the
\* member name by which removeSelfFromCluster finds them, the peer URL that
\* GetInitialClusterState looks for, and the endpoint that VerifySynced asks.
MachinesDiffer ==
  \A a, b \in Loaded :
     a # b /\ Distinct(config[a].node, config[b].node) =>
        LET x == BuildEtcdArgs(config[a])
            y == BuildEtcdArgs(config[b])
        IN  /\ x.name # y.name
            /\ x.advertisePeer # y.advertisePeer
            /\ Configure(config[a]).self # Configure(config[b]).self

\* Any machine's client can talk to any machine's etcd: endpoint and listener
\* agree on the protocol, port and client certificates, a peer URL on the
\* protocol of the peer listener, and the self endpoint is the advertised one.
ConnectionsAgree ==
  \A a, b \in Loaded :
     LET client == Configure(config[a])
         args   == BuildEtcdArgs(config[b])
     IN  /\ \A u \in client.endpoints \cup {client.self} :
              /\ u.protocol = args.listenClient.protocol
              /\ u.port = args.listenClient.port
         /\ client.tls = args.clientCertAuth
         /\ args.advertisePeer.protocol = args.listenPeer.protocol
         /\ args.peerCertAuth = (args.listenPeer.protocol = "https")
         /\ a = b => client.self = args.advertiseClient

\* A machine that comes back is known to the cluster: by its name, which is
\* all that removeSelfFromCluster asks for; with peer SSL by the peer URL that
\* GetInitialClusterState looks for; and with client SSL its own etcdfab asks
\* the same endpoints as before, whatever its address is now.
RecreatedIsKnown ==
  [][\A m \in Machines :
        NoFile \notin {config[m], config'[m]} =>
           /\ NodeName(config[m]) = NodeName(config'[m])
           /\ config[m].etcd.peer_require_ssl =>
                 AdvertisePeerURL(config[m]) = AdvertisePeerURL(config'[m])
           /\ config[m].etcd.require_ssl => Configure(config[m]) = Configure(config'[m])]_vars

\* README.md: "When either SSL option is enabled, communication to the etcd
\* nodes is done by consul DNS addresses rather than by IP address."
SSLUsesDNS ==
  \A m \in Loaded :
     LET c == config[m]
     IN  c.etcd.require_ssl \/ c.etcd.peer_require_ssl =>
           \A u \in Configure(c).endpoints \cup
                    {AdvertisePeerURL(c), AdvertiseClientURL(c)} : u.host.dns
=============================================================================
