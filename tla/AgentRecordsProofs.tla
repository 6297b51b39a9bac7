--------------------------- MODULE AgentRecordsProofs ---------------------------
(***************************************************************************)
(* Theorems about AgentRecords, for every set of fields, accounts and      *)
(* agents, and for any number of commands side by side: the records stay   *)
(* well typed, a subgraph that has caught up shows what the contract has,  *)
(* and an update that is not overtaken makes of the document exactly what  *)
(* was asked, as far as what it carries along was true.                    *)
(***************************************************************************)
EXTENDS AgentRecords, AgentsRegistryProofs

Values == Texts \cup {Blank}

-----------------------------------------------------------------------------
(* Requests, documents and merges.                                          *)

\* A request is a function from some of the fields that can be asked for.
LEMMA RequestIs ==
  /\ \A given \in SUBSET UpdateFields : \A request \in [given -> Values] : request \in Request
  /\ \A request \in Request :
       /\ DOMAIN request \subseteq UpdateFields
       /\ request \in [DOMAIN request -> Values]
BY DEF Request, Values

\* What the contract stores of an agent.
LEMMA MetadataIs ==
  /\ Metadata = [name : Values, uri : Document \cup {WebUri, ImageUri, PlainUri}]
  /\ \A metadata \in Metadata \cup {NoMetadata} : metadata.name \in Values
  /\ Document = [Fields -> Values]
BY RecordConstants DEF Values, Document

\* The record with nothing but a name, as a document.
LEMMA BlankRecordType ==
  ASSUME NEW name \in Values
  PROVE  BlankRecord(name) \in Document
BY DEF BlankRecord, Document, Values

\* The gateway's answer is a document.
LEMMA DocumentOfType ==
  ASSUME NEW metadata \in Metadata \cup {NoMetadata}
  PROVE  DocumentOf(metadata) \in Document
<1>1. metadata.name \in Values
  BY MetadataIs
<1>2. QED
  BY <1>1, MetadataIs, BlankRecordType DEF DocumentOf

\* The record that the subgraph shows is a document.
LEMMA RecordShownType ==
  ASSUME EntityTypeOK, NEW agent \in AgentKeys
  PROVE  RecordShown(agent) \in Document
<1>1. agentEntities[agent].metadata.name \in Values
  BY MetadataIs DEF EntityTypeOK, AgentEntity
<1>2. Blank \in Values
  BY DEF Values
<1>3. \A document \in Document : Readable(document) \in Document
  BY <1>2, MetadataIs DEF Readable
<1>4. QED
  BY <1>1, <1>3, BlankRecordType, MetadataIs DEF RecordShown

\* The name field is a field.
LEMMA NameIsAField == NameField \in Fields
BY RecordConstants DEF Fields

\* A merge makes a document of a document.
LEMMA MergedType ==
  ASSUME NEW current \in Document, NEW update \in Request
  PROVE  Merged(current, update) \in Document
BY RequestIs, MetadataIs DEF Merged

\* Completing a request makes a request.
LEMMA CompletedType ==
  ASSUME NEW asked \in Request, NEW groups, \A group \in groups : group \subseteq Fields,
         NEW rest \in Document
  PROVE  Completed(asked, groups, rest) \in Request
<1> DEFINE touched == UNION {group \in groups : group \cap DOMAIN asked # {}}
           completed == [f \in DOMAIN asked \cup touched |->
                           IF f \in DOMAIN asked THEN asked[f] ELSE rest[f]]
<1>1. DOMAIN asked \subseteq UpdateFields /\ asked \in [DOMAIN asked -> Values]
  BY RequestIs
<1>2. DOMAIN asked \cup touched \in SUBSET UpdateFields /\ touched \subseteq Fields
  BY <1>1 DEF UpdateFields
<1>3. completed \in [DOMAIN asked \cup touched -> Values]
  BY <1>1, <1>2, MetadataIs
<1>4. completed \in Request
  BY <1>2, <1>3, RequestIs
<1>5. QED
  BY <1>4 DEF Completed

\* The values of a completed request.
LEMMA CompletedValues ==
  ASSUME NEW asked, NEW groups, NEW rest
  PROVE  /\ DOMAIN asked \subseteq DOMAIN Completed(asked, groups, rest)
         /\ \A f \in DOMAIN asked : Completed(asked, groups, rest)[f] = asked[f]
         /\ \A f \in DOMAIN Completed(asked, groups, rest) \ DOMAIN asked :
              f \in UNION groups /\ Completed(asked, groups, rest)[f] = rest[f]
BY DEF Completed

\* The options of an update ask for what the user did and carry along what the
\* subgraph showed of the other socials and parameters, and nothing else.
LEMMA FromOptionsCarries ==
  ASSUME NEW asked \in Request, NEW shown \in Document
  PROVE  /\ FromOptions(asked, shown) \in Request
         /\ \A f \in DOMAIN asked :
              f \in DOMAIN FromOptions(asked, shown) /\ FromOptions(asked, shown)[f] = asked[f]
         /\ \A f \in DOMAIN FromOptions(asked, shown) \ DOMAIN asked :
              f \in SocialKeys \cup ParamKeys /\ FromOptions(asked, shown)[f] = shown[f]
<1> DEFINE some == Completed(asked, {SocialKeys}, shown)
           all == Completed(some, {ParamKeys}, shown)
<1>1. some \in Request
  BY CompletedType DEF Fields
<1>2. all \in Request
  BY <1>1, CompletedType DEF Fields
<1>3. /\ DOMAIN asked \subseteq DOMAIN some
      /\ \A f \in DOMAIN asked : some[f] = asked[f]
      /\ \A f \in DOMAIN some \ DOMAIN asked : f \in SocialKeys /\ some[f] = shown[f]
  BY CompletedValues
<1>4. /\ DOMAIN some \subseteq DOMAIN all
      /\ \A f \in DOMAIN some : all[f] = some[f]
      /\ \A f \in DOMAIN all \ DOMAIN some : f \in ParamKeys /\ all[f] = shown[f]
  BY CompletedValues
<1> HIDE DEF some, all
<1>5. /\ \A f \in DOMAIN asked : f \in DOMAIN all /\ all[f] = asked[f]
      /\ \A f \in DOMAIN all \ DOMAIN asked : f \in SocialKeys \cup ParamKeys /\ all[f] = shown[f]
  BY <1>3, <1>4
<1>6. QED
  BY <1>2, <1>5 DEF FromOptions, WithParams, some, all

\* Changes given by value are a request.
LEMMA FromValuesType ==
  ASSUME NEW asked \in Request
  PROVE  FromValues(asked) \in Request
<1>1. BlankRecord(Blank) \in Document
  BY BlankRecordType DEF Values
<1>2. QED
  BY <1>1, CompletedType DEF FromValues, Fields

\* A subgraph that has caught up shows of an agent, but for the name, what the
\* gateway has for the URI in the contract.
LEMMA CaughtUpShows ==
  ASSUME AgentTypeOK, AgentsAreIndexed, NEW agent \in AgentKeys, CaughtUp(agent)
  PROVE  \A f \in Fields \ {NameField} :
           RecordShown(agent)[f] = DocumentOf(agents[agent].metadata)[f]
<1> DEFINE metadata == agents[agent].metadata
           uri == metadata.uri
<1>1. metadata \in Metadata \cup {NoMetadata}
  BY DEF AgentTypeOK, AgentData
<1>2. /\ ContentOf(metadata) # NoContent
      /\ ContentOf(metadata) \in Document =>
           ContentOf(metadata) \in ipfsMetadata /\ ContentOf(metadata)[ParamsForm] = Blank
      /\ IsAgent(agent) /\ pending = <<>>
  BY DEF CaughtUp
<1>3. ContentOf(metadata) = uri
  BY <1>1, <1>2, RecordConstants
<1>4. /\ agentEntities[agent].metadata = metadata
      /\ agentEntities[agent].content = uri
  BY <1>2, <1>3 DEF AgentsAreIndexed
<1> HIDE DEF metadata, uri
<1>5. CASE uri \in Document
  <2>1. MetadataShown(agent) = uri
    BY <1>2, <1>3, <1>4, <1>5, RecordConstants DEF MetadataShown
  <2>2. RecordShown(agent) = [Readable(uri) EXCEPT ![NameField] = metadata.name]
    BY <1>4, <1>5, <2>1 DEF RecordShown
  <2>3. ASSUME NEW f \in Fields \ {NameField}
        PROVE  RecordShown(agent)[f] = uri[f]
    BY <1>2, <1>3, <1>5, <2>2 DEF Readable
  <2>4. ASSUME NEW f \in Fields \ {NameField}
        PROVE  DocumentOf(metadata)[f] = uri[f]
    BY <1>5, MetadataIs DEF DocumentOf, uri
  <2>5. QED
    BY <2>3, <2>4 DEF metadata
<1>6. CASE uri \notin Document
  <2>1. MetadataShown(agent) = NoContent
    BY <1>4, <1>6, RecordConstants DEF MetadataShown
  <2>2. MetadataShown(agent) \notin Document
    BY <2>1, RecordConstants
  <2>3. RecordShown(agent) = BlankRecord(metadata.name)
    BY <1>4, <2>2 DEF RecordShown
  <2>4. DocumentOf(metadata) = BlankRecord(metadata.name)
    BY <1>6 DEF DocumentOf, uri
  <2>5. QED
    BY <2>3, <2>4 DEF metadata
<1>7. QED
  BY <1>5, <1>6

-----------------------------------------------------------------------------
(* The inductive invariant.                                                 *)

\* What is sent is a name with a URI, never the record of nobody.
SentOK(command) == command.pc = "sent" => command.outgoing \in Metadata

\* What is asked is part of what the SDK is told.
Told(command) ==
  \A f \in DOMAIN command.asked : f \in DOMAIN command.update /\ command.update[f] = command.asked[f]

\* The fields of an update that need no more than the contract as it is: those
\* not carried along, and all of them if what was carried is still true.
Sure(command, f) == f \in Carried(command) => command.fresh

\* As long as an update is fresh, what it carries along is what the contract
\* has now; as long as it is alone, what it has read is, and then what it is
\* going to write was asked.
ExactOK(command) ==
  command.kind = "update" =>
    LET metadata == agents[command.agent].metadata
        document == DocumentOf(metadata)
    IN /\ command.pc \in {"confirm", "check", "read", "fetch"} =>
            /\ Told(command)
            /\ command.fresh =>
                 \A f \in Carried(command) \cap Fields : command.update[f] = document[f]
       /\ command.pc = "fetch" /\ command.alone => command.base = metadata
       /\ command.pc = "sent" /\ command.alone =>
            \A f \in Fields :
              Sure(command, f) => command.outgoing.uri[f] = Exactly(document, command.asked)[f]

CommandOK(command) == command \in Command /\ SentOK(command) /\ ExactOK(command)

RecordsInv ==
  /\ RecordsTypeOK
  /\ \A c \in Commands : CommandOK(commands[c])

\* A command that goes on by itself: it may read everything and writes only
\* its own state.
GoesOn(c) ==
  /\ Unchained
  /\ \E next : /\ commands' = [commands EXCEPT ![c] = next]
               /\ CommandOK(next)
               /\ next.pc # "mined"

\* The record of a command that was not started.
LEMMA NotRunType ==
  NotRun \in Command /\ NoRequest \in Request
<1>1. NoRequest \in Request
  BY RequestIs DEF NoRequest
<1>2. QED
  BY <1>1 DEF NotRun, Command, Phases, Kinds, AgentKeys

\* Ending is always possible.
LEMMA EndsGoesOn ==
  ASSUME NEW c, Ends(c), Unchained
  PROVE  GoesOn(c)
<1> DEFINE next == [NotRun EXCEPT !.pc = "ended"]
<1>1. next \in Command /\ next.pc = "ended" /\ next.kind = "register"
  BY NotRunType DEF Command, Phases, NotRun
<1>2. CommandOK(next)
  BY <1>1 DEF CommandOK, SentOK, ExactOK
<1>3. QED
  BY <1>1, <1>2 DEF Ends, GoesOn

\* agents update: what the subgraph showed is what the contract has, or the
\* command is not fresh.
LEMMA UpdateCommandGoesOn ==
  ASSUME RecordsInv, AgentsAreIndexed, NEW c \in Commands, NEW agent \in AgentAddresses,
         NEW asked \in Request, NEW fromFile \in BOOLEAN,
         UpdateCommand(c, agent, asked, fromFile)
  PROVE  GoesOn(c)
<1> DEFINE shown == RecordShown(agent)
           document == DocumentOf(agents[agent].metadata)
           update == IF fromFile THEN FromValues(asked) ELSE FromOptions(asked, shown)
           wanted == IF fromFile THEN update ELSE asked
           next == [commands[c] EXCEPT !.pc = "confirm", !.kind = "update", !.agent = agent,
                      !.owner = agentEntities[agent].owner, !.asked = wanted,
                      !.update = update, !.fresh = CaughtUp(agent)]
<1>0. agent \in AgentKeys /\ commands[c] \in Command /\ EntityTypeOK /\ AgentTypeOK
  BY DEF RecordsInv, RecordsTypeOK, AgentKeys
<1>1. shown \in Document
  BY <1>0, RecordShownType
<1>2. update \in Request /\ wanted \in Request
  BY <1>1, FromValuesType, FromOptionsCarries
<1>3. \A f \in DOMAIN wanted : f \in DOMAIN update /\ update[f] = wanted[f]
  BY <1>1, FromOptionsCarries
<1>4. ASSUME CaughtUp(agent), NEW f \in (DOMAIN update \ DOMAIN wanted) \cap Fields
      PROVE  update[f] = document[f]
  <2>1. f \in SocialKeys \cup ParamKeys /\ update[f] = shown[f]
    BY <1>1, <1>4, FromOptionsCarries
  <2>2. f \in Fields \ {NameField}
    BY <2>1, RecordConstants DEF Fields
  <2>3. QED
    BY <1>0, <1>4, <2>1, <2>2, CaughtUpShows
<1>5. agentEntities[agent].owner \in Accounts \cup {ZeroAddress}
  BY <1>0 DEF EntityTypeOK, AgentEntity
<1> HIDE DEF update, wanted, shown, document
<1>6. CaughtUp(agent) \in BOOLEAN
  BY DEF CaughtUp
<1>7. /\ next \in Command /\ next.pc = "confirm" /\ next.agent = agent
      /\ next.update = update /\ next.asked = wanted
      /\ next.fresh = CaughtUp(agent)
  BY <1>0, <1>2, <1>5, <1>6 DEF Command, Phases, Kinds
<1>8. CommandOK(next)
  <2> HIDE DEF next
  <2>1. Told(next)
    BY <1>3, <1>7 DEF Told
  <2>2. next.fresh =>
          \A f \in Carried(next) \cap Fields :
            next.update[f] = DocumentOf(agents[next.agent].metadata)[f]
    BY <1>4, <1>7 DEF Carried, document
  <2>3. QED
    BY <1>7, <2>1, <2>2 DEF CommandOK, SentOK, ExactOK
<1>9. CASE agentEntities[agent].known /\ DOMAIN asked # {}
  BY <1>7, <1>8, <1>9 DEF UpdateCommand, GoesOn, update, wanted, shown
<1>10. CASE ~(agentEntities[agent].known /\ DOMAIN asked # {})
  BY <1>10, EndsGoesOn DEF UpdateCommand
<1>11. QED
  BY <1>9, <1>10

\* The choice of a signer changes nothing that is going to be written.
LEMMA SignGoesOn ==
  ASSUME RecordsInv, NEW c \in Commands, NEW signer \in Accounts,
         SignWithKey(c, signer) \/ SignWithWallet(c, signer)
  PROVE  GoesOn(c)
<1> DEFINE next == [commands[c] EXCEPT !.pc = "check", !.signer = signer, !.owner = ZeroAddress]
<1>1. CommandOK(commands[c]) /\ commands[c].pc = "confirm"
  BY DEF RecordsInv, SignWithKey, SignWithWallet
<1>2. /\ next \in Command /\ next.pc = "check"
      /\ next.kind = commands[c].kind /\ next.fresh = commands[c].fresh
      /\ next.agent = commands[c].agent /\ next.update = commands[c].update
      /\ next.asked = commands[c].asked
  BY <1>1 DEF CommandOK, Command, Phases
<1>3. CommandOK(next)
  BY <1>1, <1>2 DEF CommandOK, SentOK, ExactOK, Told, Carried
<1>4. CASE Ends(c) /\ Unchained
  BY <1>4, EndsGoesOn
<1>5. CASE ~Ends(c)
  <2>1. commands' = [commands EXCEPT ![c].pc = "check", ![c].signer = signer,
                                     ![c].owner = ZeroAddress] /\ Unchained
    BY <1>5 DEF SignWithKey, SignWithWallet
  <2>2. commands' = [commands EXCEPT ![c] = next]
    BY <2>1 DEF RecordsInv, RecordsTypeOK
  <2>3. QED
    BY <1>2, <1>3, <2>1, <2>2 DEF GoesOn
<1>6. QED
  BY <1>4, <1>5 DEF SignWithKey, SignWithWallet

\* Changes that a program gives are all asked for.
LEMMA UpdateBySdkGoesOn ==
  ASSUME RecordsInv, NEW c \in Commands, NEW agent \in AgentAddresses, NEW asked \in Request,
         NEW signer \in Accounts, UpdateBySdk(c, agent, asked, signer)
  PROVE  GoesOn(c)
<1> DEFINE update == FromValues(asked)
           next == [commands[c] EXCEPT !.pc = "check", !.kind = "update", !.agent = agent,
                      !.signer = signer, !.asked = update, !.update = update]
<1>1. agent \in AgentKeys /\ commands[c] \in Command
  BY DEF RecordsInv, RecordsTypeOK, AgentKeys
<1>2. update \in Request
  BY FromValuesType
<1> HIDE DEF update
<1>3. /\ next \in Command /\ next.pc = "check" /\ next.agent = agent
      /\ next.update = update /\ next.asked = update
  BY <1>1, <1>2 DEF Command, Phases, Kinds
<1>4. CommandOK(next)
  BY <1>3 DEF CommandOK, SentOK, ExactOK, Told, Carried
<1>5. QED
  BY <1>3, <1>4 DEF UpdateBySdk, GoesOn, update

\* A record that is sent at once, for a registration or as a whole.
LEMMA SendsGoesOn ==
  ASSUME RecordsInv, NEW c \in Commands, NEW agent \in AgentAddresses, NEW signer \in Accounts,
         NEW kind \in Kinds \ {"update"}, NEW metadata \in Metadata, Unchained,
         commands' = [commands EXCEPT ![c] =
           [@ EXCEPT !.pc = "sent", !.kind = kind, !.agent = agent, !.signer = signer,
                     !.outgoing = metadata]]
  PROVE  GoesOn(c)
<1> DEFINE next == [commands[c] EXCEPT !.pc = "sent", !.kind = kind, !.agent = agent,
                                       !.signer = signer, !.outgoing = metadata]
<1>1. agent \in AgentKeys /\ commands[c] \in Command /\ commands \in [Commands -> Command]
  BY DEF RecordsInv, RecordsTypeOK, AgentKeys
<1>2. next \in Command /\ next.pc = "sent" /\ next.kind = kind /\ next.outgoing = metadata
  BY <1>1 DEF Command, Phases, Kinds
<1>3. CommandOK(next)
  BY <1>2 DEF CommandOK, SentOK, ExactOK
<1>4. QED
  BY <1>1, <1>2, <1>3 DEF GoesOn

\* The check that the agent exists.
LEMMA CheckExistsGoesOn ==
  ASSUME RecordsInv, NEW c \in Commands, CheckExists(c)
  PROVE  GoesOn(c)
<1> DEFINE next == [commands[c] EXCEPT !.pc = "read"]
<1>1. CommandOK(commands[c]) /\ commands[c].pc = "check" /\ commands \in [Commands -> Command]
  BY DEF RecordsInv, RecordsTypeOK, CheckExists
<1>2. /\ next \in Command /\ next.pc = "read"
      /\ next.kind = commands[c].kind /\ next.fresh = commands[c].fresh
      /\ next.agent = commands[c].agent /\ next.update = commands[c].update
      /\ next.asked = commands[c].asked
  BY <1>1 DEF CommandOK, Command, Phases
<1>3. CommandOK(next)
  BY <1>1, <1>2 DEF CommandOK, SentOK, ExactOK, Told, Carried
<1>4. CASE Ends(c)
  BY <1>4, EndsGoesOn DEF CheckExists
<1>5. CASE ~Ends(c)
  BY <1>1, <1>2, <1>3, <1>5 DEF CheckExists, Goes, GoesOn
<1>6. QED
  BY <1>4, <1>5

\* The record is read from the contract.
LEMMA ReadChainGoesOn ==
  ASSUME RecordsInv, NEW c \in Commands, ReadChain(c)
  PROVE  GoesOn(c)
<1> DEFINE metadata == agents[commands[c].agent].metadata
           next == [commands[c] EXCEPT !.pc = "fetch", !.alone = TRUE, !.base = metadata]
<1>1. CommandOK(commands[c]) /\ commands[c].pc = "read" /\ commands \in [Commands -> Command]
  BY DEF RecordsInv, RecordsTypeOK, ReadChain
<1>2. metadata \in Metadata \cup {NoMetadata}
  BY <1>1 DEF RecordsInv, RecordsTypeOK, AgentTypeOK, AgentData, CommandOK, Command
<1>3. /\ next \in Command /\ next.pc = "fetch" /\ next.base = metadata
      /\ next.kind = commands[c].kind /\ next.fresh = commands[c].fresh
      /\ next.agent = commands[c].agent /\ next.update = commands[c].update
      /\ next.asked = commands[c].asked
  BY <1>1, <1>2 DEF CommandOK, Command, Phases
<1>4. CommandOK(next)
  BY <1>1, <1>3 DEF CommandOK, SentOK, ExactOK, Told, Carried
<1>5. commands' = [commands EXCEPT ![c] = next]
  BY <1>1 DEF ReadChain
<1>6. QED
  BY <1>3, <1>4, <1>5 DEF GoesOn, ReadChain

\* The document is fetched, merged and uploaded.
LEMMA FetchGoesOn ==
  ASSUME RecordsInv, NEW c \in Commands, NEW answered \in BOOLEAN, Fetch(c, answered)
  PROVE  GoesOn(c)
<1> DEFINE command == commands[c]
           base == command.base
           current == IF answered THEN DocumentOf(base) ELSE BlankRecord(base.name)
           document == Merged(current, command.update)
           next == [command EXCEPT !.pc = "sent", !.base = NoMetadata,
                      !.outgoing = [name |-> document[NameField], uri |-> document],
                      !.alone = command.alone /\ answered]
           old == DocumentOf(agents[command.agent].metadata)
<1>0. commands' = [commands EXCEPT ![c] = next]
  BY DEF Fetch
<1>1. CommandOK(command) /\ command.pc = "fetch" /\ commands \in [Commands -> Command]
  BY DEF RecordsInv, RecordsTypeOK, Fetch
<1>2. base \in Metadata \cup {NoMetadata} /\ command.update \in Request
  BY <1>1 DEF CommandOK, Command
<1>3. document \in Document
  BY <1>2, MetadataIs, DocumentOfType, BlankRecordType, MergedType
<1>4. [name |-> document[NameField], uri |-> document] \in Metadata
  BY <1>3, MetadataIs, NameIsAField
<1>5. ASSUME command.kind = "update", command.alone, answered,
             NEW f \in Fields, Sure(command, f)
      PROVE  document[f] = Exactly(old, command.asked)[f]
  <2>1. document = Merged(old, command.update)
    BY <1>1, <1>5 DEF CommandOK, ExactOK
  <2>2. Told(command)
    BY <1>1, <1>5 DEF CommandOK, ExactOK
  <2>3. f \in Carried(command) => command.update[f] = old[f]
    BY <1>1, <1>5 DEF CommandOK, ExactOK, Sure
  <2> HIDE DEF document, old
  <2>4. CASE f \in DOMAIN command.asked
    BY <2>1, <2>2, <2>4 DEF Merged, Exactly, Told
  <2>5. CASE f \notin DOMAIN command.asked
    BY <2>1, <2>3, <2>5 DEF Merged, Exactly, Carried
  <2>6. QED
    BY <2>4, <2>5
<1> HIDE DEF document, old
<1>6. /\ next \in Command /\ next.pc = "sent"
      /\ next.outgoing = [name |-> document[NameField], uri |-> document]
      /\ next.kind = command.kind /\ next.alone = (command.alone /\ answered)
      /\ next.agent = command.agent /\ next.asked = command.asked
      /\ next.update = command.update /\ next.fresh = command.fresh
  BY <1>1, <1>4, NotRunType DEF CommandOK, Command, Phases
<1>7. CommandOK(next)
  <2>1. SentOK(next)
    BY <1>4, <1>6 DEF SentOK
  <2> HIDE DEF next
  <2>2. ASSUME next.kind = "update", next.alone, NEW f \in Fields, Sure(next, f)
        PROVE  next.outgoing.uri[f]
                 = Exactly(DocumentOf(agents[next.agent].metadata), next.asked)[f]
    <3>1. command.alone /\ answered
      BY <1>6, <2>2, Zenon
    <3>2. command.kind = "update" /\ Sure(command, f)
      BY <1>6, <2>2 DEF Sure, Carried
    <3>3. document[f] = Exactly(old, command.asked)[f]
      BY <1>5, <3>1, <3>2
    <3>4. QED
      BY <1>6, <3>3 DEF old
  <2>3. ExactOK(next)
    BY <1>6, <2>2 DEF ExactOK
  <2>4. QED
    BY <1>6, <2>1, <2>3 DEF CommandOK
<1>8. QED
  BY <1>6, <1>7, <1>0 DEF GoesOn, Fetch

\* Whatever a command does before its transaction is mined, it goes on.
LEMMA CommandGoesOn ==
  ASSUME RecordsInv, AgentsAreIndexed, NEW c \in Commands, CommandStep(c),
         ~MineUpdate(c), ~MineRegistration(c)
  PROVE  GoesOn(c)
<1>0. /\ Requests \subseteq Request /\ RecordFiles \subseteq Request
      /\ Uploaded \subseteq Document /\ NewAgents \subseteq Metadata
      /\ DefaultSigners \subseteq Accounts
  BY RecordBounds DEF DefaultSigners
<1>1. ASSUME NEW document \in Uploaded
      PROVE  [name |-> document[NameField], uri |-> document] \in Metadata
  BY <1>0, <1>1, MetadataIs, NameIsAField
<1>2. ASSUME NEW agent \in AgentAddresses, NEW asked \in Requests, NEW signer \in Accounts,
             UpdateProperty(c, agent, asked, signer)
      PROVE  GoesOn(c)
  BY <1>0, <1>2, UpdateBySdkGoesOn, EndsGoesOn DEF UpdateProperty
<1>3. ASSUME NEW agent \in AgentAddresses, NEW signer \in Accounts, NEW document \in Uploaded,
             ReplaceBySdk(c, agent, signer, document)
      PROVE  GoesOn(c)
  <2> DEFINE metadata == [name |-> document[NameField], uri |-> document]
  <2>1. metadata \in Metadata
    BY <1>1
  <2>2. "metadata" \in Kinds \ {"update"}
    BY DEF Kinds
  <2>3. Unchained /\ commands' = [commands EXCEPT ![c] =
           [@ EXCEPT !.pc = "sent", !.kind = "metadata", !.agent = agent, !.signer = signer,
                     !.outgoing = metadata]]
    BY <1>3 DEF ReplaceBySdk
  <2> HIDE DEF metadata
  <2>4. QED
    BY <2>1, <2>2, <2>3, SendsGoesOn
<1>4. ASSUME NEW key \in AgentAddresses \cap Accounts, NEW signer \in DefaultSigners,
             NEW metadata \in NewAgents, RegisterCommand(c, key, signer, metadata)
      PROVE  GoesOn(c)
  <2>1. metadata \in Metadata /\ key \in AgentAddresses /\ signer \in Accounts
    BY <1>0
  <2>2. "register" \in Kinds \ {"update"}
    BY DEF Kinds
  <2>3. Unchained /\ commands' = [commands EXCEPT ![c] =
           [@ EXCEPT !.pc = "sent", !.kind = "register", !.agent = key, !.signer = signer,
                     !.outgoing = metadata]]
    BY <1>4 DEF RegisterCommand
  <2>4. QED
    BY <2>1, <2>2, <2>3, SendsGoesOn
<1>5. ASSUME NEW agent \in AgentAddresses, NEW signer \in Accounts,
             NEW metadata \in NewAgents, RegisterBySdk(c, agent, signer, metadata)
      PROVE  GoesOn(c)
  <2>1. metadata \in Metadata
    BY <1>0
  <2>2. "registerAgent" \in Kinds \ {"update"}
    BY DEF Kinds
  <2>3. Unchained /\ commands' = [commands EXCEPT ![c] =
           [@ EXCEPT !.pc = "sent", !.kind = "registerAgent", !.agent = agent, !.signer = signer,
                     !.outgoing = metadata]]
    BY <1>5 DEF RegisterBySdk
  <2>4. QED
    BY <2>1, <2>2, <2>3, SendsGoesOn
<1>6. CASE End(c)
  BY <1>6, EndsGoesOn DEF End
<1>7. ASSUME NEW agent \in AgentAddresses, NEW asked \in Requests,
             UpdateCommand(c, agent, asked, FALSE)
      PROVE  GoesOn(c)
  BY <1>0, <1>7, UpdateCommandGoesOn
<1>8. ASSUME NEW agent \in AgentAddresses, NEW file \in RecordFiles,
             UpdateCommand(c, agent, file, TRUE)
      PROVE  GoesOn(c)
  BY <1>0, <1>8, UpdateCommandGoesOn
<1>9. ASSUME NEW agent \in AgentAddresses, NEW asked \in Requests, NEW signer \in Accounts,
             UpdateBySdk(c, agent, asked, signer)
      PROVE  GoesOn(c)
  BY <1>0, <1>9, UpdateBySdkGoesOn
<1>10. ASSUME NEW signer \in Accounts, SignWithKey(c, signer) \/ SignWithWallet(c, signer)
       PROVE  GoesOn(c)
  BY <1>10, SignGoesOn
<1>11. ASSUME CheckExists(c) \/ ReadChain(c) \/ \E answered \in BOOLEAN : Fetch(c, answered)
       PROVE  GoesOn(c)
  BY <1>11, CheckExistsGoesOn, ReadChainGoesOn, FetchGoesOn
<1>12. ASSUME NEW agent \in AgentAddresses,
              \/ \E asked \in Requests : UpdateCommand(c, agent, asked, FALSE)
              \/ \E file \in RecordFiles : UpdateCommand(c, agent, file, TRUE)
              \/ \E asked \in Requests, signer \in Accounts :
                   UpdateProperty(c, agent, asked, signer) \/ UpdateBySdk(c, agent, asked, signer)
              \/ \E signer \in Accounts, document \in Uploaded :
                   ReplaceBySdk(c, agent, signer, document)
       PROVE  GoesOn(c)
  BY <1>2, <1>3, <1>7, <1>8, <1>9, <1>12
<1>13. ASSUME NEW metadata \in NewAgents,
              \/ \E key \in AgentAddresses \cap Accounts, signer \in DefaultSigners :
                   RegisterCommand(c, key, signer, metadata)
              \/ \E agent \in AgentAddresses, signer \in Accounts :
                   RegisterBySdk(c, agent, signer, metadata)
       PROVE  GoesOn(c)
  BY <1>4, <1>5, <1>13
<1>14. QED
  BY <1>6, <1>10, <1>11, <1>12, <1>13 DEF CommandStep

\* Going on keeps the invariant: the records are what they were.
LEMMA GoingOnKeepsInv ==
  ASSUME RecordsInv, NEW c \in Commands, GoesOn(c)
  PROVE  RecordsInv'
<1>1. PICK next : commands' = [commands EXCEPT ![c] = next] /\ CommandOK(next)
  BY DEF GoesOn
<1>2. UNCHANGED <<registryVars, indexVars>>
  BY DEF GoesOn, Unchained
<1>3. agents' = agents /\ commands \in [Commands -> Command]
  BY <1>2 DEF registryVars, agentVars, RecordsInv, RecordsTypeOK
<1>4. ASSUME NEW d \in Commands
      PROVE  CommandOK(commands[d])'
  <2>1. commands'[d] = IF d = c THEN next ELSE commands[d]
    BY <1>1, <1>3
  <2>2. CommandOK(commands[d])
    BY DEF RecordsInv
  <2>3. CommandOK(commands'[d])
    BY <1>1, <2>1, <2>2
  <2>4. QED
    BY <1>3, <2>3 DEF CommandOK, SentOK, ExactOK, Sure, Told, Carried
<1>5. AgentTypeOK' /\ EntityTypeOK' /\ (pending \in Seq(RegistryEvent))'
  BY <1>2, RegistryStutterType
     DEF RecordsInv, RecordsTypeOK, indexVars, entityVars, EntityTypeOK
<1>6. commands' \in [Commands -> Command]
  BY <1>1, <1>3 DEF CommandOK
<1>7. QED
  BY <1>4, <1>5, <1>6 DEF RecordsInv, RecordsTypeOK

-----------------------------------------------------------------------------
(* Transactions.                                                            *)

\* A transaction for one agent overtakes only commands for that agent.
LEMMA OthersKeepTrust ==
  ASSUME NEW command, CommandOK(command), NEW agent,
         \A other \in AgentKeys \ {agent} : agents'[other] = agents[other],
         NEW d, commands'[d] = Overtaken(command, agent)
  PROVE  CommandOK(commands[d])'
<1> DEFINE next == [command EXCEPT !.alone = @ /\ command.agent # agent,
                                   !.fresh = @ /\ command.agent # agent]
<1>1. command \in Command
  BY DEF CommandOK
<1>2. /\ next \in Command /\ next.pc = command.pc /\ next.kind = command.kind
      /\ next.agent = command.agent /\ next.update = command.update
      /\ next.asked = command.asked /\ next.base = command.base
      /\ next.outgoing = command.outgoing
  BY <1>1 DEF Command
<1>3. /\ next.alone => command.alone /\ command.agent # agent
      /\ next.fresh => command.fresh /\ command.agent # agent
  BY <1>1 DEF Command
<1>4. commands'[d] = next
  BY DEF Overtaken
<1> HIDE DEF next
<1>5. next.alone \/ next.fresh => agents'[next.agent] = agents[command.agent]
  BY <1>1, <1>2, <1>3 DEF Command
<1>6. Carried(next) = Carried(command) /\ (Told(command) => Told(next))
  BY <1>2 DEF Carried, Told
<1>7. \A f \in Fields : Sure(next, f) => Sure(command, f)
  BY <1>3, <1>6 DEF Sure
<1>8. SentOK(next)
  BY <1>2 DEF CommandOK, SentOK
<1>9. ExactOK(commands[d])'
  <2> DEFINE old == DocumentOf(agents[command.agent].metadata)
             new == DocumentOf(agents'[next.agent].metadata)
  <2> SUFFICES ASSUME next.kind = "update"
               PROVE  /\ next.pc \in {"confirm", "check", "read", "fetch"} =>
                           /\ Told(next)
                           /\ next.fresh =>
                                \A f \in Carried(next) \cap Fields : next.update[f] = new[f]
                      /\ next.pc = "fetch" /\ next.alone =>
                           next.base = agents'[next.agent].metadata
                      /\ next.pc = "sent" /\ next.alone =>
                           \A f \in Fields :
                             Sure(next, f) =>
                               next.outgoing.uri[f] = Exactly(new, next.asked)[f]
    BY <1>4 DEF ExactOK, Told, Sure, Carried
  <2>1. next.alone \/ next.fresh => new = old
    BY <1>5
  <2>2. command.kind = "update"
    BY <1>2
  <2> HIDE DEF old, new
  <2>3. /\ command.pc \in {"confirm", "check", "read", "fetch"} =>
             /\ Told(command)
             /\ command.fresh =>
                  \A f \in Carried(command) \cap Fields : command.update[f] = old[f]
        /\ command.pc = "fetch" /\ command.alone =>
             command.base = agents[command.agent].metadata
        /\ command.pc = "sent" /\ command.alone =>
             \A f \in Fields :
               Sure(command, f) => command.outgoing.uri[f] = Exactly(old, command.asked)[f]
    BY <2>2 DEF CommandOK, ExactOK, old
  <2>4. QED
    BY <1>2, <1>3, <1>5, <1>6, <1>7, <2>1, <2>3
<1>10. QED
  BY <1>2, <1>4, <1>8, <1>9 DEF CommandOK, SentOK

\* The command whose transaction was mined has nothing left to send.
LEMMA MinedKeepsCommands ==
  ASSUME RecordsInv, NEW c \in Commands, Mined(c),
         \A other \in AgentKeys \ {commands[c].agent} : agents'[other] = agents[other]
  PROVE  /\ commands' \in [Commands -> Command]
         /\ \A d \in Commands : CommandOK(commands[d])'
<1> DEFINE done == [NotRun EXCEPT !.pc = "mined", !.agent = commands[c].agent,
                                  !.outgoing = commands[c].outgoing]
<1>1. commands[c] \in Command
  BY DEF RecordsInv, CommandOK
<1>2. done \in Command /\ done.pc = "mined" /\ done.kind = "register"
  BY <1>1, NotRunType DEF Command, Phases, NotRun
<1>3. commands' = [d \in Commands |-> IF d = c THEN done
        ELSE Overtaken(commands[d], commands[c].agent)]
  BY DEF Mined
<1> HIDE DEF done
<1>4. ASSUME NEW d \in Commands
      PROVE  CommandOK(commands[d])'
  <2>1. CASE d = c
    BY <1>2, <1>3, <2>1 DEF CommandOK, SentOK, ExactOK
  <2>2. CASE d # c
    <3>1. CommandOK(commands[d])
      BY DEF RecordsInv
    <3>2. commands'[d] = Overtaken(commands[d], commands[c].agent)
      BY <1>3, <2>2
    <3>3. QED
      BY <3>1, <3>2, OthersKeepTrust
  <2>3. QED
    BY <2>1, <2>2
<1>5. \A d \in Commands : commands'[d] \in Command
  BY <1>4 DEF CommandOK
<1>6. QED
  BY <1>3, <1>4, <1>5

\* An event that is sent to the subgraph is the only news for it.
LEMMA OneEvent ==
  ASSUME RecordsInv, NEW event \in RegistryEvent, Emit(<<event>>)
  PROVE  EntityTypeOK' /\ (pending \in Seq(RegistryEvent))'
<1>1. <<event>> \in Seq(RegistryEvent) /\ pending \in Seq(RegistryEvent)
  BY DEF RecordsInv, RecordsTypeOK
<1>2. pending' \in Seq(RegistryEvent)
  BY <1>1, EmitType
<1>3. QED
  BY <1>2 DEF Emit, entityVars, EntityTypeOK, RecordsInv, RecordsTypeOK

\* Mining an update.
LEMMA MineUpdateKeepsInv ==
  ASSUME RecordsInv, NEW c \in Commands, MineUpdate(c)
  PROVE  RecordsInv'
<1> DEFINE agent == commands[c].agent
<1>1. /\ commands[c] \in Command /\ commands[c].outgoing \in Metadata
      /\ agent \in AgentKeys /\ AgentTypeOK
  BY DEF RecordsInv, RecordsTypeOK, CommandOK, SentOK, Command, MineUpdate
<1>2. SetAgentData(commands[c].signer, agent, commands[c].outgoing)
      /\ Emit(<<AgentDataUpdated(agent)>>) /\ Mined(c)
  BY DEF MineUpdate
<1>3. agents' = [agents EXCEPT ![agent].metadata = commands[c].outgoing]
  BY <1>2 DEF SetAgentData
<1>4. AgentTypeOK' /\ agents'[agent].metadata = commands[c].outgoing
  BY <1>1, <1>2, <1>3
     DEF SetAgentData, AgentTypeOK, AgentData, ServiceTypeOK, serviceVars
<1>5. AgentDataUpdated(agent) \in RegistryEvent
  BY <1>1, <1>4, AgentEventType
<1>6. EntityTypeOK' /\ (pending \in Seq(RegistryEvent))'
  BY <1>2, <1>5, OneEvent
<1>7. \A other \in AgentKeys \ {agent} : agents'[other] = agents[other]
  BY <1>1, <1>3 DEF AgentTypeOK
<1>8. /\ commands' \in [Commands -> Command]
      /\ \A d \in Commands : CommandOK(commands[d])'
  BY <1>2, <1>7, MinedKeepsCommands
<1>9. QED
  BY <1>4, <1>6, <1>8 DEF RecordsInv, RecordsTypeOK

\* Mining a registration.
LEMMA MineRegistrationKeepsInv ==
  ASSUME RecordsInv, NEW c \in Commands, MineRegistration(c)
  PROVE  RecordsInv'
<1> DEFINE agent == commands[c].agent
<1>1. /\ commands[c] \in Command /\ commands[c].outgoing \in Metadata \cup {NoMetadata}
      /\ agent \in AgentKeys /\ AgentTypeOK /\ commands[c].signer \in Accounts \cup {ZeroAddress}
  BY DEF RecordsInv, RecordsTypeOK, CommandOK, Command
<1>2. RegisterAgent(commands[c].signer, agent, commands[c].outgoing)
      /\ Emit(<<AgentRegistered(agent)>>) /\ Mined(c)
  BY DEF MineRegistration
<1>3. CreateAgent(agent, commands[c].outgoing, commands[c].signer, 0)
  BY <1>2 DEF RegisterAgent
<1>4. AgentTypeOK'
  <2>1. agents' \in [AgentKeys -> AgentData]
    BY <1>1, <1>3, CreateAgentType
  <2>2. QED
    BY <1>1, <1>2, <2>1 DEF RegisterAgent, AgentTypeOK, ServiceTypeOK, serviceVars
<1>5. AgentRegistered(agent) \in RegistryEvent
  BY <1>1, <1>4, AgentEventType
<1>6. EntityTypeOK' /\ (pending \in Seq(RegistryEvent))'
  BY <1>2, <1>5, OneEvent
<1>7. \A other \in AgentKeys \ {agent} : agents'[other] = agents[other]
  BY <1>1, <1>3 DEF CreateAgent, AgentTypeOK
<1>8. /\ commands' \in [Commands -> Command]
      /\ \A d \in Commands : CommandOK(commands[d])'
  BY <1>2, <1>7, MinedKeepsCommands
<1>9. QED
  BY <1>4, <1>6, <1>8 DEF RecordsInv, RecordsTypeOK

\* Removing an agent.
LEMMA OwnerRemovesKeepsInv ==
  ASSUME RecordsInv, NEW sender \in Accounts, NEW agent \in AgentAddresses,
         OwnerRemoves(sender, agent)
  PROVE  RecordsInv'
<1>1. AgentTypeOK /\ RemoveAgent(sender, agent) /\ Emit(<<>>)
  BY DEF RecordsInv, RecordsTypeOK, OwnerRemoves
<1>2. AgentTypeOK'
  BY <1>1, AgentStepType DEF AgentStep
<1>3. EntityTypeOK' /\ (pending \in Seq(RegistryEvent))'
  <2>1. <<>> \in Seq(RegistryEvent)
    OBVIOUS
  <2>2. pending' \in Seq(RegistryEvent)
    BY <1>1, <2>1, EmitType DEF RecordsInv, RecordsTypeOK
  <2>3. QED
    BY <1>1, <2>2 DEF Emit, entityVars, EntityTypeOK, RecordsInv, RecordsTypeOK
<1>4. \A other \in AgentKeys \ {agent} : agents'[other] = agents[other]
  BY <1>1 DEF RemoveAgent, AgentTypeOK
<1>5. commands' = [c \in Commands |-> Overtaken(commands[c], agent)]
  BY DEF OwnerRemoves
<1>6. ASSUME NEW c \in Commands
      PROVE  CommandOK(commands[c])'
  <2>1. CommandOK(commands[c])
    BY DEF RecordsInv
  <2>2. commands'[c] = Overtaken(commands[c], agent)
    BY <1>5
  <2>3. QED
    BY <1>4, <2>1, <2>2, OthersKeepTrust
<1>7. commands' \in [Commands -> Command]
  BY <1>5, <1>6 DEF CommandOK
<1>8. QED
  BY <1>2, <1>3, <1>6, <1>7 DEF RecordsInv, RecordsTypeOK

\* The subgraph writes only its entities.
LEMMA IndexStepKeepsInv ==
  ASSUME RecordsInv, IndexStep
  PROVE  RecordsInv'
<1>1. UNCHANGED <<registryVars, commands>>
  BY DEF IndexStep
<1>2. AgentTypeOK' /\ agents' = agents
  BY <1>1, RegistryStutterType DEF RecordsInv, RecordsTypeOK, registryVars, agentVars
<1>3. EntityTypeOK' /\ pending' \in Seq(RegistryEvent)
  <2>1. EntityTypeOK /\ pending \in Seq(RegistryEvent \cup {})
    BY DEF RecordsInv, RecordsTypeOK
  <2>2. CASE HandleAgentRegistered \/ HandleAgentDataUpdated
    <3>1. HandleRegistryEvent
      BY <2>2 DEF HandleRegistryEvent
    <3>2. \A event \in {} : event.type \notin RegistryTypes
      OBVIOUS
    <3>3. EntityTypeOK' /\ pending' \in Seq(RegistryEvent \cup {})
      BY <2>1, <3>1, <3>2, RegistryHandlerType
    <3>4. QED
      BY <3>3
  <2>3. CASE \E content \in files : HandleAgentMetadata(content)
    BY <2>1, <2>3, FileFoundType
  <2>4. QED
    BY <2>2, <2>3 DEF IndexStep
<1>4. ASSUME NEW c \in Commands
      PROVE  CommandOK(commands[c])'
  BY <1>1, <1>2 DEF RecordsInv, CommandOK, SentOK, ExactOK, Sure, Told, Carried
<1>5. QED
  BY <1>1, <1>2, <1>3, <1>4 DEF RecordsInv, RecordsTypeOK

\* Every step keeps the invariant, as long as a subgraph that has caught up can
\* be relied on.
LEMMA RecordsStepKeepsInv ==
  RecordsInv /\ AgentsAreIndexed /\ [RecordsNext]_recordVars => RecordsInv'
<1> SUFFICES ASSUME RecordsInv, AgentsAreIndexed, [RecordsNext]_recordVars
             PROVE  RecordsInv'
  OBVIOUS
<1>1. ASSUME NEW c \in Commands, CommandStep(c)
      PROVE  RecordsInv'
  BY <1>1, MineUpdateKeepsInv, MineRegistrationKeepsInv, CommandGoesOn, GoingOnKeepsInv
<1>2. CASE UNCHANGED recordVars
  <2>1. UNCHANGED <<registryVars, indexVars, commands>>
    BY <1>2 DEF recordVars
  <2>2. AgentTypeOK' /\ agents' = agents
    BY <2>1, RegistryStutterType DEF RecordsInv, RecordsTypeOK, registryVars, agentVars
  <2>3. QED
    BY <2>1, <2>2 DEF RecordsInv, RecordsTypeOK, indexVars, entityVars, EntityTypeOK,
                      CommandOK, SentOK, ExactOK, Sure, Told, Carried
<1>3. QED
  BY <1>1, <1>2, OwnerRemovesKeepsInv, IndexStepKeepsInv DEF RecordsNext

\* No command is running at the start.
LEMMA RecordsInitInv == RecordsInit => RecordsInv
<1> SUFFICES ASSUME RecordsInit
             PROVE  RecordsInv
  OBVIOUS
<1>1. AgentTypeOK /\ EntityTypeOK /\ pending \in Seq(RegistryEvent)
  BY AgentInitType, IndexInitType DEF RecordsInit
<1>2. CommandOK(NotRun)
  BY NotRunType DEF CommandOK, SentOK, ExactOK, NotRun
<1>3. commands = [c \in Commands |-> NotRun]
  BY DEF RecordsInit
<1>4. QED
  BY <1>1, <1>2, <1>3, NotRunType DEF RecordsInv, RecordsTypeOK

-----------------------------------------------------------------------------
(* The subgraph catches up.                                                 *)

\* Every agent of the contract is told of by the events still to be handled or
\* shown by its entity.
AgentsFollowed == \A agent \in AgentKeys : AgentFollowed(agent)

\* A transaction that tells what it does to every agent.
LEMMA AllJoin ==
  ASSUME RecordsInv, AgentsFollowed, NEW events \in Seq(RegistryEvent), Emit(events),
         \A agent \in AgentKeys : AgentTold(agent, events)
  PROVE  AgentsFollowed'
<1>1. /\ pending \in Seq(RegistryEvent) /\ pending' = pending \o events
      /\ UNCHANGED agentEntities
  BY DEF RecordsInv, RecordsTypeOK, Emit, entityVars
<1>2. ASSUME NEW agent \in AgentKeys PROVE AgentFollowed(agent)'
  BY <1>1, AgentJoins DEF AgentsFollowed
<1>3. QED
  BY <1>2 DEF AgentsFollowed

\* Mining an update tells the new data.
LEMMA MineUpdateFollowed ==
  ASSUME RecordsInv, RecordsInv', AgentsFollowed, NEW c \in Commands, MineUpdate(c)
  PROVE  AgentsFollowed'
<1> DEFINE agent == commands[c].agent
           event == AgentDataUpdated(agent)
<1>1. /\ commands[c] \in Command /\ commands[c].outgoing \in Metadata /\ agent \in AgentKeys
      /\ AgentTypeOK /\ AgentTypeOK'
  BY DEF RecordsInv, RecordsTypeOK, CommandOK, SentOK, Command, MineUpdate
<1>2. SetAgentData(commands[c].signer, agent, commands[c].outgoing) /\ Emit(<<event>>)
  BY DEF MineUpdate
<1>3. agents'[agent].metadata = commands[c].outgoing
  BY <1>1, <1>2 DEF SetAgentData, AgentTypeOK, AgentData
<1>4. <<event>> \in Seq(RegistryEvent)
  BY <1>1, <1>3, AgentEventType
<1>5. \A other \in AgentKeys : AgentTold(other, <<event>>)
  BY <1>1, <1>2, UpdateTells
<1> HIDE DEF event
<1>6. QED
  BY <1>2, <1>4, <1>5, AllJoin

\* Mining a registration tells who the agent is.
LEMMA MineRegistrationFollowed ==
  ASSUME RecordsInv, RecordsInv', AgentsFollowed, NEW c \in Commands, MineRegistration(c)
  PROVE  AgentsFollowed'
<1> DEFINE agent == commands[c].agent
           event == AgentRegistered(agent)
<1>1. commands[c] \in Command /\ agent \in AgentKeys /\ AgentTypeOK /\ AgentTypeOK'
  BY DEF RecordsInv, RecordsTypeOK, CommandOK, Command
<1>2. CreateAgent(agent, commands[c].outgoing, commands[c].signer, 0) /\ Emit(<<event>>)
  BY DEF MineRegistration, RegisterAgent
<1>3. event \in RegistryEvent
  BY <1>1, AgentEventType
<1>4. \A other \in AgentKeys : AgentTold(other, <<event>> \o <<>>)
  <2>1. <<>> \in Seq(RegistryEvent) /\ \A k \in 1 .. Len(<<>>) : FALSE
    OBVIOUS
  <2>2. QED
    BY <1>1, <1>2, <2>1, RegistrationTells
<1> HIDE DEF event
<1>5. <<event>> \o <<>> = <<event>> /\ <<event>> \in Seq(RegistryEvent)
  BY <1>3
<1>6. QED
  BY <1>2, <1>4, <1>5, AllJoin

\* Removing an agent tells nothing, and leaves nothing to tell.
LEMMA OwnerRemovesFollowed ==
  ASSUME RecordsInv, AgentsFollowed, NEW sender \in Accounts, NEW agent \in AgentAddresses,
         OwnerRemoves(sender, agent)
  PROVE  AgentsFollowed'
<1>1. AgentTypeOK /\ agents' = [agents EXCEPT ![agent] = NoAgent] /\ Emit(<<>>)
  BY DEF RecordsInv, RecordsTypeOK, OwnerRemoves, RemoveAgent
<1>2. ASSUME NEW other \in AgentKeys
      PROVE  AgentTold(other, <<>>)
  <2>1. IsAgent(other)' => other # agent
    BY <1>1 DEF IsAgent, AgentTypeOK, NoAgent
  <2>2. other # agent => agents'[other] = agents[other]
    BY <1>1 DEF AgentTypeOK
  <2>3. IsAgent(other)' => /\ IsAgent(other)
                           /\ agents'[other].owner = agents[other].owner
                           /\ agents'[other].metadata = agents[other].metadata
    BY <2>1, <2>2 DEF IsAgent
  <2>4. \A k \in 1 .. Len(<<>>) : FALSE
    OBVIOUS
  <2>5. QED
    BY <2>3, <2>4, NothingTold
<1>3. <<>> \in Seq(RegistryEvent)
  OBVIOUS
<1>4. QED
  BY <1>1, <1>2, <1>3, AllJoin

\* A handler of the subgraph takes what it is told, and a file that is found
\* changes nothing of this.
LEMMA IndexStepFollowed ==
  ASSUME RecordsInv, AgentsFollowed, IndexStep
  PROVE  AgentsFollowed'
<1>1. UNCHANGED agents
  BY DEF IndexStep, registryVars, agentVars
<1>2. EntityTypeOK /\ pending \in Seq(RegistryEvent)
  BY DEF RecordsInv, RecordsTypeOK
<1>3. CASE HandleAgentRegistered \/ HandleAgentDataUpdated
  <2>1. HandleRegistryEvent
    BY <1>3 DEF HandleRegistryEvent
  <2> DEFINE Others == {}
  <2>2. pending \in Seq(RegistryEvent \cup Others)
    BY <1>2
  <2>3. \A event \in Others : event.type \notin RegistryTypes
    OBVIOUS
  <2> HIDE DEF Others
  <2>4. ASSUME NEW agent \in AgentKeys PROVE AgentFollowed(agent)'
    <3>1. pending # <<>> /\ pending' = Tail(pending) /\ AgentWritten(agent)
      BY <1>2, <2>1, <2>2, <2>3, HandlerWrites
    <3>2. QED
      BY <1>1, <1>2, <3>1, AgentTaken DEF AgentsFollowed
  <2>5. QED
    BY <2>4 DEF AgentsFollowed
<1>4. CASE \E content \in files : HandleAgentMetadata(content)
  <2>1. UNCHANGED <<agents, pending, agentEntities>>
    BY <1>1, <1>4 DEF HandleAgentMetadata
  <2>2. QED
    BY <2>1, AgentsStayFollowed DEF AgentsFollowed
<1>5. QED
  BY <1>3, <1>4 DEF IndexStep

\* Every step of a command, of an owner and of the subgraph.
LEMMA RecordsStepFollowed ==
  ASSUME RecordsInv, RecordsInv', AgentsFollowed, [RecordsNext]_recordVars
  PROVE  AgentsFollowed'
<1>0. AgentsAreIndexed
  BY FollowedIsIndexed DEF AgentsFollowed
<1>1. ASSUME UNCHANGED <<registryVars, indexVars>>
      PROVE  AgentsFollowed'
  <2>1. UNCHANGED <<agents, pending, agentEntities>>
    BY <1>1 DEF registryVars, agentVars, indexVars, entityVars
  <2>2. QED
    BY <2>1, AgentsStayFollowed DEF AgentsFollowed
<1>2. ASSUME NEW c \in Commands, CommandStep(c)
      PROVE  AgentsFollowed'
  <2>1. CASE MineUpdate(c)
    BY <2>1, MineUpdateFollowed
  <2>2. CASE MineRegistration(c)
    BY <2>2, MineRegistrationFollowed
  <2>3. CASE GoesOn(c)
    BY <1>1, <2>3 DEF GoesOn, Unchained
  <2>4. QED
    BY <1>0, <1>2, <2>1, <2>2, <2>3, CommandGoesOn
<1>3. CASE UNCHANGED recordVars
  BY <1>1, <1>3 DEF recordVars
<1>4. QED
  BY <1>2, <1>3, OwnerRemovesFollowed, IndexStepFollowed DEF RecordsNext

\* At the start there is no agent to be told of.
LEMMA RecordsInitFollowed == RecordsInit => AgentsFollowed
<1>1. AgentInit => \A agent \in AgentKeys : ~IsAgent(agent)
  BY DEF AgentInit, IsAgent, NoAgent
<1>2. QED
  BY <1>1 DEF RecordsInit, AgentsFollowed, AgentFollowed

\* The commands rely on the subgraph and the subgraph on what commands send, so
\* both invariants are kept together.
LEMMA RecordsStepKeepsBoth ==
  RecordsInv /\ AgentsFollowed /\ [RecordsNext]_recordVars => RecordsInv' /\ AgentsFollowed'
<1>1. AgentsFollowed => AgentsAreIndexed
  BY FollowedIsIndexed DEF AgentsFollowed
<1>2. QED
  BY <1>1, RecordsStepKeepsInv, RecordsStepFollowed

-----------------------------------------------------------------------------
(* The theorems.                                                            *)

\* Records, commands, the queue and the entities of the subgraph stay well
\* typed, whatever commands run side by side.
THEOREM RecordsTypeCorrect == RecordsSpec => []RecordsTypeOK
<1>1. RecordsInv => RecordsTypeOK
  BY DEF RecordsInv
<1>2. QED
  BY <1>1, RecordsInitInv, RecordsInitFollowed, RecordsStepKeepsBoth, PTL DEF RecordsSpec

\* Once the subgraph has handled every event, queries see every agent with the
\* name, URI and owner that the contract has, whoever registered, updated or
\* removed it in between.
THEOREM RecordsAreIndexed == RecordsSpec => []AgentsAreIndexed
<1>1. AgentsFollowed => AgentsAreIndexed
  BY FollowedIsIndexed DEF AgentsFollowed
<1>2. QED
  BY <1>1, RecordsInitInv, RecordsInitFollowed, RecordsStepKeepsBoth, PTL DEF RecordsSpec

\* Only the mining of its transaction takes an update from sent to mined.
LEMMA OnlyMiningUpdates ==
  ASSUME RecordsInv, AgentsAreIndexed, [RecordsNext]_recordVars, NEW c \in Commands, Updates(c)
  PROVE  MineUpdate(c)
<1>0. /\ commands \in [Commands -> Command]
      /\ commands[c].pc = "sent" /\ commands'[c].pc = "mined" /\ commands[c].kind = "update"
  BY DEF RecordsInv, RecordsTypeOK, Updates
<1>1. ASSUME NEW d \in Commands, GoesOn(d)
      PROVE  FALSE
  <2>1. PICK next : commands' = [commands EXCEPT ![d] = next] /\ next.pc # "mined"
    BY <1>1 DEF GoesOn
  <2>2. commands'[c] = IF c = d THEN next ELSE commands[c]
    BY <1>0, <2>1
  <2>3. QED
    BY <1>0, <2>1, <2>2
<1>2. ASSUME NEW agent, commands'[c] = Overtaken(commands[c], agent)
      PROVE  FALSE
  <2>1. commands'[c].pc = commands[c].pc
    BY <1>0, <1>2 DEF Command, Overtaken
  <2>2. QED
    BY <1>0, <2>1
<1>3. ASSUME NEW d \in Commands, d # c, Mined(d)
      PROVE  FALSE
  BY <1>2, <1>3 DEF Mined
<1>4. ASSUME NEW sender, NEW agent, OwnerRemoves(sender, agent)
      PROVE  FALSE
  BY <1>2, <1>4 DEF OwnerRemoves
<1>5. commands' # commands
  BY <1>0
<1>6. PICK d \in Commands : CommandStep(d)
  BY <1>4, <1>5 DEF RecordsNext, IndexStep, recordVars
<1>7. MineUpdate(d) \/ MineRegistration(d)
  BY <1>1, <1>6, CommandGoesOn
<1>8. d = c
  BY <1>3, <1>7 DEF MineUpdate, MineRegistration
<1>9. QED
  BY <1>0, <1>7, <1>8 DEF MineRegistration

\* An update that nobody overtakes makes of every field that a document has
\* exactly what was asked of it: the reads from the subgraph, the contract and
\* the gateway and the two merges fit together for every set of fields.  What it
\* carries along unasked is right if the subgraph had caught up; a status that
\* was asked for leaves the document as it was.
THEOREM UpdatesNotOvertakenAreExact == RecordsSpec => UpdatesAreExact
<1> DEFINE Exact == \A c \in Commands :
              Updates(c) /\ commands[c].alone =>
                LET agent == commands[c].agent
                IN \A f \in Fields :
                     (f \in Carried(commands[c]) => commands[c].fresh) =>
                       agents'[agent].metadata.uri[f] =
                         Exactly(DocumentOf(agents[agent].metadata), commands[c].asked)[f]
<1>1. RecordsInv /\ AgentsAreIndexed /\ [RecordsNext]_recordVars => [Exact]_recordVars
  <2> SUFFICES ASSUME RecordsInv, AgentsAreIndexed, [RecordsNext]_recordVars,
                      NEW c \in Commands, Updates(c), commands[c].alone,
                      NEW f \in Fields, f \in Carried(commands[c]) => commands[c].fresh
               PROVE  agents'[commands[c].agent].metadata.uri[f] =
                        Exactly(DocumentOf(agents[commands[c].agent].metadata),
                                commands[c].asked)[f]
    OBVIOUS
  <2>1. SetAgentData(commands[c].signer, commands[c].agent, commands[c].outgoing)
    BY OnlyMiningUpdates DEF MineUpdate
  <2>2. /\ commands[c].agent \in AgentKeys /\ AgentTypeOK /\ CommandOK(commands[c])
        /\ commands[c].pc = "sent" /\ commands[c].kind = "update"
    BY DEF RecordsInv, RecordsTypeOK, CommandOK, Command, Updates
  <2>3. commands[c].outgoing.uri[f] =
          Exactly(DocumentOf(agents[commands[c].agent].metadata), commands[c].asked)[f]
    BY <2>2 DEF CommandOK, ExactOK, Sure
  <2>4. agents'[commands[c].agent].metadata = commands[c].outgoing
    BY <2>1, <2>2 DEF SetAgentData, AgentTypeOK, AgentData
  <2>5. QED
    BY <2>3, <2>4
<1>2. AgentsFollowed => AgentsAreIndexed
  BY FollowedIsIndexed DEF AgentsFollowed
<1>3. QED
  BY <1>1, <1>2, RecordsInitInv, RecordsInitFollowed, RecordsStepKeepsBoth, PTL
     DEF RecordsSpec, UpdatesAreExact
=============================================================================
