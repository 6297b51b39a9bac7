CONSTANTS
  Registries = {reg1}
  Names = {svcA}
  EmptyName = EmptyName
  Details = {info}
  NoDetails = NoDetails
  Accounts = {alice, bob}
  ZeroAddress = ZeroAddress
  Deployer = alice
  Heirs = {}
  AgentAddresses = {bob}
  Metadata = {meta}
  NoMetadata = NoMetadata
  Prices = {1}
  TokenAddresses = {ZeroAddress}
  Ratings = {0, 60, 100, 101}
  TaskRegistries = {TaskRegistryAddress}
  MaxProposals = 2
  MaxRatings = 2
  V1Agents <- NoV1Agents
  V1Proposals <- NoV1Proposals
  V1NextProposalId = 0
  V1Services <- NoV1Services
  TaskRegistryAddress = TaskRegistryAddress
  ERC20s = {}
  Values = {1}
  Funds = 3
  MaxTasks = 2
SPECIFICATION Spec
INVARIANT TasksAreRatedOnce
CHECK_DEADLOCK FALSE
