CONSTANTS
  alice = alice
  bob = bob
  svcA = svcA
  svcB = svcB
  meta = meta
  info = info
  Registries = {reg1}
  Names = {svcA, svcB}
  EmptyName = EmptyName
  Details = {info, other}
  NoDetails = NoDetails
  Accounts = {alice, bob}
  ZeroAddress = ZeroAddress
  Deployer = alice
  Heirs = {}
  AgentAddresses = {alice, bob}
  Metadata = {meta}
  NoMetadata = NoMetadata
  Prices = {1}
  TokenAddresses = {ZeroAddress}
  Ratings = {100}
  TaskRegistries = {bob}
  MaxProposals = 3
  MaxRatings = 1
  V1Agents <- KnownV1Agents
  V1Proposals <- FourV1Proposals
  V1NextProposalId = 4
  V1Services <- V1KnowsSvcA
SPECIFICATION RegistrySpec
INVARIANTS
  CountMatchesServices
  ProposalsHaveServices
PROPERTIES
  ServicesPersist
  KeepsTheBook
CHECK_DEADLOCK FALSE
