CONSTANTS
  Registries = {reg1}
  Names = {svcA}
  EmptyName = EmptyName
  Details = {info}
  NoDetails = NoDetails
  Accounts = {alice, bob}
  ZeroAddress = ZeroAddress
  Deployer = alice
  Heirs = {}
  AgentAddresses = {bob}
  Metadata = {meta}
  NoMetadata = NoMetadata
  Prices = {1}
  TokenAddresses = {ZeroAddress, coin, alice}
  Ratings = {0, 60, 101}
  TaskRegistries = {TaskRegistryAddress}
  MaxProposals = 2
  MaxRatings = 2
  V1Agents <- NoV1Agents
  V1Proposals <- NoV1Proposals
  V1NextProposalId = 0
  V1Services <- NoV1Services
  TaskRegistryAddress = TaskRegistryAddress
  ERC20s = {coin}
  Values = {0, 1}
  Funds = 2
  MaxTasks = 2
SPECIFICATION Spec
INVARIANTS
  TaskTypeOK
  DepositsMatchProposals
  Solvent
  IssuerIndexIsExact
  ReputationIsEarned
  UnregisteredAgentsAreBlank
PROPERTIES
  IsAnEscrow
  ListedTasksPayBack
  TasksOnlyProgress
CHECK_DEADLOCK FALSE
