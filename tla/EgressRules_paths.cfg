\* Every config, domain list and packet of the instance.
CONSTANTS
  Addr <- MCAddr
  LinkLocal <- MCLinkLocal
  Metadata <- MCMetadata
  Private <- MCPrivate
  Internal <- MCInternal
  Port <- MCPort
  AllowSets <- MCAllowSets
  Name <- MCName
  Pattern <- MCPattern
SPECIFICATION Spec
INVARIANTS
  TypeOK
  VerdictIsPolicy
  PortableToK8s
CHECK_DEADLOCK FALSE
