SPECIFICATION Spec
CONSTANTS
  Names <- MCNames
  Indices = {0, 1}
  Addresses = {"10.0.0.1", "10.0.0.2", "10.0.0.3"}
  Suffix = "etcd.service.consul"
  NoLink = NoLink
  NoFile = NoFile
INVARIANT
  SSLUsesDNS
