CONSTANTS
  Registries = {reg1}
  Names = {svcA}
  EmptyName = EmptyName
  Details = {info}
  NoDetails = NoDetails
  Accounts = {alice, bob}
  ZeroAddress = ZeroAddress
  Deployer = alice
  Heirs = {}
  AgentAddresses = {bob}
  Metadata = {meta}
  NoMetadata = NoMetadata
  Prices = {1, 2}
  TokenAddresses = {ZeroAddress, coin, alice}
  Ratings = {}
  TaskRegistries = {}
  MaxProposals = 2
  MaxRatings = 0
  V1Agents <- NoV1Agents
  V1Proposals <- NoV1Proposals
  V1NextProposalId = 0
  V1Services <- NoV1Services
  TaskRegistryAddress = TaskRegistryAddress
  ERC20s = {coin}
  Values = {0, 1, 2}
  Funds = 3
  MaxTasks = 2
SPECIFICATION Spec
PROPERTY AgentIsPaidOnCompletion
CHECK_DEADLOCK FALSE
