CONSTANTS
  Registries = {reg1}
  Names = {}
  EmptyName = EmptyName
  Details = {}
  NoDetails = NoDetails
  Accounts = {alice, bob}
  ZeroAddress = ZeroAddress
  Deployer = alice
  Heirs = {}
  AgentAddresses = {alice}
  Metadata <- AllMetadata
  NoMetadata <- BlankMetadata
  Prices = {}
  TokenAddresses = {}
  Ratings = {}
  TaskRegistries = {}
  MaxProposals = 0
  MaxRatings = 0
  V1Agents <- NoV1Agents
  V1Proposals <- NoV1Proposals
  V1NextProposalId = 0
  V1Services <- NoV1Services
  IndexedServices = reg1
  Contents <- AllContents
  NoContent = NoUri
  ContentOf <- ContentPath
  Available <- AllFiles
  Documents <- Document
  MaxLag = 2
  name = name
  description = description
  instructions = instructions
  twitter = twitter
  github = github
  env = env
  url = url
  form = form
  status = status
  oldText = oldText
  newText = newText
  NameField = name
  TextFields = {name, description}
  ListFields = {instructions}
  SocialKeys = {twitter, github}
  ParamKeys = {env, url, form}
  ParamsForm = form
  StatusField = status
  Texts = {oldText, newText}
  Blank = Blank
  WebUri = WebUri
  ImageUri = ImageUri
  PlainUri = PlainUri
  NoUri = NoUri
  NewAgents <- OneOfEachUri
  Uploaded <- OldDocument
  Requests <- OneOfEach
  RecordFiles <- OneFile
  ConfigKeys = {bob}
  MaxCommands = 3
SPECIFICATION RecordsSpec
PROPERTIES
  SignsWithTheGivenKey
CHECK_DEADLOCK FALSE
