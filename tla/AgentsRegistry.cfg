CONSTANTS
  alice = alice
  bob = bob
  svcA = svcA
  svcB = svcB
  meta = meta
  info = info
  Registries = {reg1, reg2}
  Names = {svcA}
  EmptyName = EmptyName
  Details = {info}
  NoDetails = NoDetails
  Accounts = {alice, bob}
  ZeroAddress = ZeroAddress
  Deployer = alice
  Heirs = {}
  AgentAddresses = {bob, ZeroAddress}
  Metadata = {meta}
  NoMetadata = NoMetadata
  Prices = {1}
  TokenAddresses = {ZeroAddress}
  Ratings = {51, 100, 101}
  TaskRegistries = {alice}
  MaxProposals = 2
  MaxRatings = 2
  V1Agents <- NoV1Agents
  V1Proposals <- NoV1Proposals
  V1NextProposalId = 0
  V1Services <- NoV1Services
SPECIFICATION RegistrySpec
INVARIANTS
  AgentTypeOK
  ProposalsHaveAgents
  ProposalsHaveServices
  ReputationBounded
PROPERTIES
  KeepsTheBook
  AgentsAreNotTakenOver
CHECK_DEADLOCK FALSE
