CONSTANTS
  Registries = {reg1}
  Names = {svcA}
  EmptyName = EmptyName
  Details = {info}
  NoDetails = NoDetails
  Accounts = {alice, bob}
  ZeroAddress = ZeroAddress
  Deployer = alice
  Heirs = {}
  AgentAddresses = {alice, carl}
  Metadata = {meta}
  NoMetadata = NoMetadata
  Prices = {1}
  TokenAddresses = {ZeroAddress, coin}
  Ratings = {60}
  TaskRegistries = {TaskRegistryAddress}
  MaxProposals = 2
  MaxRatings = 1
  V1Agents <- V1KnewCarl
  V1Proposals <- OneV1Proposal
  V1NextProposalId = 1
  V1Services <- V1KnewSvcA
  TaskRegistryAddress = TaskRegistryAddress
  ERC20s = {coin}
  Values = {0, 1}
  Funds = 2
  MaxTasks = 1
  IndexedServices = reg1
  Contents = {doc}
  NoContent = NoContent
  ContentOf <- DocumentOf
  Available = {doc}
  Documents = {doc}
  MaxLag = 2
  Blacklisted = {carl}
  Clients = {buyer}
  Buyers = {bob}
  SearchTerms = {anything}
  Found <- Everything
  MinReputations = {0, 61}
  Limit = 1
  alice = alice
  carl = carl
  svcA = svcA
  meta = meta
  doc = doc
SPECIFICATION MarketSpec
INVARIANTS
  MarketTypeOK
  ShownTermsAreTrue
  MarketIsIndexed
  BuyersGetWhatTheyChose
PROPERTIES
  SettledTasksAreShown
CHECK_DEADLOCK FALSE
