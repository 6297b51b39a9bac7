----------------------------- MODULE AgentRecords -----------------------------
(***************************************************************************)
(* Registering agents and updating their records, by the agents commands   *)
(* of the CLI and by AgentService of the SDK.  A record is spread over     *)
(* three places: the contract has the name and a URI, IPFS the document    *)
(* behind the URI, and the subgraph a late copy of both.  A command reads  *)
(* it from the copy, asks its user, reads it again from the contract and   *)
(* from an IPFS gateway, merges what is to change, uploads a new document  *)
(* and sends a transaction; nothing keeps other commands from doing the    *)
(* same in between.                                                        *)
(***************************************************************************)
EXTENDS RegistryIndex

CONSTANTS
  NameField,   \* the field that the contract stores too
  TextFields,  \* fields of which an empty value means that none is given
  ListFields,  \* attributes, instructions, prompts: an empty list is a value
  SocialKeys,  \* socials: a given key replaces that key
  ParamKeys,   \* communicationParams: replaced as a whole
  ParamsForm,  \* one of them: Blank when they are stored as a JSON text
  StatusField, \* accepted by an update, but with no place in a document
  Texts,       \* values of fields
  Blank,       \* the empty value, and the default of a field that has one
  WebUri,      \* an https URI behind which IPFS finds nothing
  ImageUri,    \* an ipfs URI of a file that is no document
  PlainUri,    \* an http URI, which has no content path
  NoUri,       \* the empty URI
  NewAgents,   \* names and URIs that agents are registered with (a bound)
  Uploaded,    \* documents that programs put in place of others (a bound)
  Requests,    \* what updates ask for: field -> new value (a bound)
  RecordFiles, \* record files that updates are made from (a bound)
  ConfigKeys,  \* accounts the private key in config.json may belong to
  MaxCommands  \* bound on the commands ever run

\* Commands are numbered as they are started.
Commands == 1 .. MaxCommands

Fields == TextFields \cup ListFields \cup SocialKeys \cup ParamKeys
Document == [Fields -> Texts \cup {Blank}]
UpdateFields == Fields \cup {StatusField}
Request == UNION {[given -> Texts \cup {Blank}] : given \in SUBSET UpdateFields}

\* IPFS addresses a document by its content, so a document is its own URI.
ASSUME RecordConstants ==
  /\ NameField \in TextFields \ (SocialKeys \cup ParamKeys)
  /\ ParamsForm \in ParamKeys
  /\ StatusField \notin Fields
  /\ Blank \notin Texts
  /\ {WebUri, ImageUri, PlainUri, NoUri} \cap Document = {}
  /\ {WebUri, ImageUri, PlainUri} \cap {NoUri} = {}
  /\ PlainUri \notin {WebUri, ImageUri}
  /\ Metadata = [name : Texts \cup {Blank}, uri : Document \cup {WebUri, ImageUri, PlainUri}]
  /\ NoMetadata = [name |-> Blank, uri |-> NoUri]
  /\ Contents = Document \cup {WebUri, ImageUri}
  /\ NoContent = NoUri
  /\ \A metadata \in Metadata \cup {NoMetadata} :
       ContentOf(metadata) = IF metadata.uri = PlainUri THEN NoContent ELSE metadata.uri
  /\ Available = Document \cup {ImageUri}
  /\ Documents = Document

\* What is tried out lies within what is possible.
ASSUME RecordBounds ==
  /\ NewAgents \subseteq Metadata
  /\ Uploaded \subseteq Document
  /\ Requests \subseteq Request
  /\ RecordFiles \subseteq Request
  /\ \A file \in RecordFiles :
       NameField \in DOMAIN file /\ file[NameField] # Blank /\ ParamsForm \notin DOMAIN file
  /\ ConfigKeys \subseteq Accounts
  /\ MaxCommands \in Nat

VARIABLE commands  \* id -> Command

recordVars == <<registryVars, indexVars, commands>>

Kinds == {"register", "registerAgent", "update", "metadata"}
Phases == {"idle", "confirm", "check", "read", "fetch", "sent", "mined", "ended"}

\* asked is what the user wants changed, update what the SDK is told.  Two fields
\* are history, see UpdatesAreExact: alone, nobody else's transaction for the
\* agent was mined since the contract was read; fresh, nor since the subgraph
\* was, which had caught up then.
Command == [pc : Phases, kind : Kinds, agent : AgentKeys, owner : Accounts \cup {ZeroAddress},
            signer : Accounts \cup {ZeroAddress}, asked : Request, update : Request,
            base : Metadata \cup {NoMetadata}, outgoing : Metadata \cup {NoMetadata},
            alone : BOOLEAN, fresh : BOOLEAN]
NoRequest == [f \in {} |-> Blank]
NotRun == [pc |-> "idle", kind |-> "register", agent |-> ZeroAddress, owner |-> ZeroAddress,
           signer |-> ZeroAddress, asked |-> NoRequest, update |-> NoRequest,
           base |-> NoMetadata, outgoing |-> NoMetadata,
           alone |-> FALSE, fresh |-> FALSE]

RecordsTypeOK ==
  /\ AgentTypeOK
  /\ EntityTypeOK
  /\ pending \in Seq(RegistryEvent)
  /\ commands \in [Commands -> Command]

RecordsInit ==
  /\ AgentInit
  /\ IndexInit
  /\ commands = [c \in Commands |-> NotRun]

-----------------------------------------------------------------------------
\* What AgentService computes.

\* The record when only a name is known.
BlankRecord(name) == [f \in Fields |-> IF f = NameField THEN name ELSE Blank]

\* What the subgraph has of a document: parameters that are no text are lost,
\* and those in a text that is no JSON cannot be used by anybody.
Readable(document) ==
  [f \in Fields |->
     IF f \in ParamKeys /\ document[ParamsForm] # Blank THEN Blank ELSE document[f]]

\* convertSubgraphAgentToRecord: the name of the agent, the rest from its
\* metadata as far as the subgraph has it.
RecordShown(agent) ==
  LET shown == agentEntities[agent] IN
  IF MetadataShown(agent) \in Document
  THEN [Readable(MetadataShown(agent)) EXCEPT ![NameField] = shown.metadata.name]
  ELSE BlankRecord(shown.metadata.name)

\* What the gateway has for a URI, when it answers.  A document without a name
\* goes by the one in the contract.
DocumentOf(metadata) ==
  IF metadata.uri \notin Document THEN BlankRecord(metadata.name)
  ELSE [metadata.uri EXCEPT ![NameField] = IF @ = Blank THEN metadata.name ELSE @]

\* Faulty variant of Merged: the socials are replaced as a whole.
MergedWithoutSocials(current, update) ==
  [f \in Fields |->
     IF f \in DOMAIN update /\ (f \in TextFields => update[f] # Blank) THEN update[f]
     ELSE IF f \in SocialKeys /\ DOMAIN update \cap SocialKeys # {} THEN Blank
     ELSE current[f]]

\* The merge of updateAgentRecord: an empty text counts as not given.  The
\* fields of a document are listed one by one, and a status is not among them.
Merged(current, update) ==
  [f \in Fields |->
     IF f \in DOMAIN update /\ (f \in TextFields => update[f] # Blank)
     THEN update[f] ELSE current[f]]

\* A request with the rest of each group that it touches.
Completed(asked, groups, rest) ==
  LET touched == UNION {group \in groups : group \cap DOMAIN asked # {}}
  IN [f \in DOMAIN asked \cup touched |-> IF f \in DOMAIN asked THEN asked[f] ELSE rest[f]]

\* The options of an update: handleCommunicationParamsUpdate puts the given
\* parameters over those the subgraph showed, as a JSON text; over none if it
\* cannot parse them.
WithParams(asked, shown) == Completed(asked, {ParamKeys}, shown)

\* The action of the command itself does so with the socials.
FromOptions(asked, shown) == WithParams(Completed(asked, {SocialKeys}, shown), shown)

\* Everything else gives the parameters whole.
FromValues(asked) == Completed(asked, {ParamKeys}, BlankRecord(Blank))
-----------------------------------------------------------------------------
Starts(c) == commands[c].pc = "idle" /\ \A d \in 1 .. c - 1 : commands[d].pc # "idle"
Running(c) == commands[c].pc \notin {"idle", "mined", "ended"}

Unchained == UNCHANGED <<registryVars, indexVars>>
Goes(c, pc) == commands' = [commands EXCEPT ![c].pc = pc]
Ends(c) == commands' = [commands EXCEPT ![c] = [NotRun EXCEPT !.pc = "ended"]]

\* The subgraph has handled every event and has the file behind the agent's URI,
\* with the parameters as a text; a URI without a content path says nothing of
\* what is linked.
CaughtUp(agent) ==
  LET content == ContentOf(agents[agent].metadata)
  IN /\ IsAgent(agent)
     /\ pending = <<>>
     /\ content # NoContent
     /\ content \in Document => content \in ipfsMetadata /\ content[ParamsForm] = Blank

\* An option with an empty text is as good as no option, and parameters are
\* always written as a JSON text.
Expressible(asked) ==
  /\ ParamsForm \notin DOMAIN asked
  /\ \A f \in DOMAIN asked \ (ListFields \cup ParamKeys) : asked[f] # Blank

\* What updateAgentRecordProperty can change: a field, the socials or the
\* parameters; it takes a status too.
OneProperty(asked) ==
  \/ \E f \in TextFields \cup ListFields \cup {StatusField} : DOMAIN asked = {f}
  \/ \E group \in {SocialKeys, ParamKeys} : DOMAIN asked \subseteq group

\* agents update, with options or from a record file, up to the prompt: the
\* record comes from the subgraph.  It ends when no update is specified.
UpdateCommand(c, agent, asked, fromFile) ==
  /\ Starts(c)
  /\ fromFile \/ Expressible(asked)
  /\ IF agentEntities[agent].known /\ DOMAIN asked # {}
     THEN LET update == IF fromFile THEN FromValues(asked)
                        ELSE FromOptions(asked, RecordShown(agent))
          IN commands' = [commands EXCEPT ![c] =
               [@ EXCEPT !.pc = "confirm", !.kind = "update", !.agent = agent,
                         !.owner = agentEntities[agent].owner,
                         !.asked = IF fromFile THEN update ELSE asked, !.update = update,
                         !.fresh = CaughtUp(agent)]]
     ELSE Ends(c)
  /\ Unchained

\* After the prompt, with a private key of the options, the environment or the
\* configuration: whose it is is not looked at.
SignWithKey(c, signer) ==
  /\ commands[c].pc = "confirm"
  /\ commands' = [commands EXCEPT ![c].pc = "check", ![c].signer = signer,
                                       ![c].owner = ZeroAddress]
  /\ Unchained

\* With the key of a wallet, which must be the owner the subgraph showed.
SignWithWallet(c, signer) ==
  /\ commands[c].pc = "confirm"
  /\ IF signer = commands[c].owner
     THEN commands' = [commands EXCEPT ![c].pc = "check", ![c].signer = signer,
                                       ![c].owner = ZeroAddress]
     ELSE Ends(c)
  /\ Unchained

\* updateAgentRecord, called by a program with changes of its own: nothing was
\* read before.
UpdateBySdk(c, agent, asked, signer) ==
  /\ Starts(c)
  /\ commands' = [commands EXCEPT ![c] =
       [@ EXCEPT !.pc = "check", !.kind = "update", !.agent = agent, !.signer = signer,
                 !.asked = FromValues(asked), !.update = FromValues(asked)]]
  /\ Unchained

\* agents update property: it reads nothing either, nor looks at the owner.  It
\* parses communicationParams, which the SDK then refuses for not being a text.
UpdateProperty(c, agent, asked, signer) ==
  /\ OneProperty(asked)
  /\ IF DOMAIN asked \subseteq ParamKeys
     THEN Starts(c) /\ Ends(c) /\ Unchained
     ELSE UpdateBySdk(c, agent, asked, signer)

\* updateAgentMetadata, called by a program: a document takes the place of the
\* one there is.
ReplaceBySdk(c, agent, signer, document) ==
  /\ Starts(c)
  /\ commands' = [commands EXCEPT ![c] =
       [@ EXCEPT !.pc = "sent", !.kind = "metadata", !.agent = agent, !.signer = signer,
                 !.outgoing = [name |-> document[NameField], uri |-> document]]]
  /\ Unchained

\* validateAgentExists: an agent without a name does not exist.
CheckExists(c) ==
  /\ commands[c].pc = "check"
  /\ IF agents[commands[c].agent].metadata.name # Blank THEN Goes(c, "read") ELSE Ends(c)
  /\ Unchained

\* getAgentData
ReadChain(c) ==
  /\ commands[c].pc = "read"
  /\ commands' = [commands EXCEPT ![c].pc = "fetch", ![c].alone = TRUE,
                                  ![c].base = agents[commands[c].agent].metadata]
  /\ Unchained

\* The document is fetched and, with the changes merged in, uploaded.  When the
\* gateway fails the update proceeds without it.
Fetch(c, answered) ==
  /\ commands[c].pc = "fetch"
  /\ LET base == commands[c].base
         current == IF answered THEN DocumentOf(base) ELSE BlankRecord(base.name)
         document == Merged(current, commands[c].update)
     IN commands' = [commands EXCEPT ![c] =
          [@ EXCEPT !.pc = "sent", !.base = NoMetadata,
                    !.outgoing = [name |-> document[NameField], uri |-> document],
                    !.alone = commands[c].alone /\ answered]]
  /\ Unchained

\* createSDKInstance without a signer takes the key of the configuration; when
\* there is none it makes one up, which has nothing to pay with.
DefaultSigners == ConfigKeys

\* Faulty variant of RegisterCommand: there is no default for the URI.
RegisterCommandWithoutUri(c, key, signer, metadata) ==
  /\ Starts(c)
  /\ commands' = [commands EXCEPT ![c] =
       [@ EXCEPT !.pc = "sent", !.kind = "register", !.agent = key, !.signer = signer,
                 !.outgoing = [metadata EXCEPT !.uri = NoUri]]]
  /\ Unchained

\* agents register: the address comes from the key that was given, the signer
\* from createSDKInstance.  agentUri is mandatory and is the image, wherever that
\* is, or a default, so the URI of the document uploaded for the agent is never
\* used.
RegisterCommand(c, key, signer, metadata) ==
  /\ Starts(c)
  /\ commands' = [commands EXCEPT ![c] =
       [@ EXCEPT !.pc = "sent", !.kind = "register", !.agent = key, !.signer = signer,
                 !.outgoing = metadata]]
  /\ Unchained

\* registerAgent called by a program, for any address and with a URI at will.
RegisterBySdk(c, agent, signer, metadata) ==
  /\ Starts(c)
  /\ commands' = [commands EXCEPT ![c] =
       [@ EXCEPT !.pc = "sent", !.kind = "registerAgent", !.agent = agent, !.signer = signer,
                 !.outgoing = metadata]]
  /\ Unchained

\* What a command that is running has read of the agent is not the last word
\* any more.
Overtaken(command, agent) ==
  [command EXCEPT !.alone = @ /\ command.agent # agent, !.fresh = @ /\ command.agent # agent]

\* The transaction is mined.
Mined(c) ==
  commands' = [d \in Commands |->
    IF d = c THEN [NotRun EXCEPT !.pc = "mined", !.agent = commands[c].agent,
                                 !.outgoing = commands[c].outgoing]
    ELSE Overtaken(commands[d], commands[c].agent)]

MineUpdate(c) ==
  /\ commands[c].pc = "sent"
  /\ commands[c].kind \in {"update", "metadata"}
  /\ SetAgentData(commands[c].signer, commands[c].agent, commands[c].outgoing)
  /\ Emit(<<AgentDataUpdated(commands[c].agent)>>)
  /\ Mined(c)

MineRegistration(c) ==
  /\ commands[c].pc = "sent"
  /\ commands[c].kind \in {"register", "registerAgent"}
  /\ RegisterAgent(commands[c].signer, commands[c].agent, commands[c].outgoing)
  /\ Emit(<<AgentRegistered(commands[c].agent)>>)
  /\ Mined(c)

\* A command ends with nothing mined: a dry run, an answer no, a failed request
\* or upload, a transaction that reverts or is dropped, a kill.
End(c) ==
  /\ Running(c)
  /\ Ends(c)
  /\ Unchained

\* removeAgent, for which no client has a call.
OwnerRemoves(sender, agent) ==
  /\ RemoveAgent(sender, agent)
  /\ Emit(<<>>)
  /\ commands' = [c \in Commands |-> Overtaken(commands[c], agent)]

CommandStep(c) ==
  \/ \E agent \in AgentAddresses :
       \/ \E asked \in Requests : UpdateCommand(c, agent, asked, FALSE)
       \/ \E file \in RecordFiles : UpdateCommand(c, agent, file, TRUE)
       \/ \E asked \in Requests, signer \in Accounts :
            UpdateProperty(c, agent, asked, signer) \/ UpdateBySdk(c, agent, asked, signer)
       \/ \E signer \in Accounts, document \in Uploaded : ReplaceBySdk(c, agent, signer, document)
  \/ \E signer \in Accounts : SignWithKey(c, signer) \/ SignWithWallet(c, signer)
  \/ CheckExists(c)
  \/ ReadChain(c)
  \/ \E answered \in BOOLEAN : Fetch(c, answered)
  \/ \E metadata \in NewAgents :
       \/ \E key \in AgentAddresses \cap Accounts, signer \in DefaultSigners :
            RegisterCommand(c, key, signer, metadata)
       \/ \E agent \in AgentAddresses, signer \in Accounts :
            RegisterBySdk(c, agent, signer, metadata)
  \/ MineUpdate(c)
  \/ MineRegistration(c)
  \/ End(c)

IndexStep ==
  /\ \/ HandleAgentRegistered
     \/ HandleAgentDataUpdated
     \/ \E content \in files : HandleAgentMetadata(content)
  /\ UNCHANGED <<registryVars, commands>>

RecordsNext ==
  \/ \E c \in Commands : CommandStep(c)
  \/ \E sender \in Accounts, agent \in AgentAddresses : OwnerRemoves(sender, agent)
  \/ IndexStep

\* The indexer goes on handling events and looking for files.
RecordsSpec ==
  /\ RecordsInit
  /\ [][RecordsNext]_recordVars
  /\ WF_recordVars(IndexStep)
-----------------------------------------------------------------------------
Updates(c) ==
  commands[c].pc = "sent" /\ commands'[c].pc = "mined" /\ commands[c].kind = "update"

\* What an update should leave of a document: the asked fields, but for texts
\* asked to be empty, and the rest as it was.
Exactly(document, asked) ==
  [f \in Fields |-> IF f \in DOMAIN asked /\ ~(f \in TextFields /\ asked[f] = Blank)
                    THEN asked[f] ELSE document[f]]

\* What the options of an update carry along from the record that the subgraph
\* showed, without having been asked for.
Carried(command) == DOMAIN command.update \ DOMAIN command.asked

\* An update makes of the document exactly what its user asked for, field by
\* field, if nobody else's transaction for the agent was mined after it read the
\* contract, and the gateway answered.  The fields it carries along from the
\* subgraph, which it read long before, are only right if the subgraph had
\* caught up and nobody else was mined since that read either: then the
\* handlers, the two reads and the two merges fit together for every kind of
\* field.  A status is accepted and changes nothing: no document has one.
UpdatesAreExact ==
  [][\A c \in Commands :
       Updates(c) /\ commands[c].alone =>
         LET agent == commands[c].agent
         IN \A f \in Fields :
              (f \in Carried(commands[c]) => commands[c].fresh) =>
                agents'[agent].metadata.uri[f] =
                  Exactly(DocumentOf(agents[agent].metadata), commands[c].asked)[f]]_recordVars

\* The record that a command wrote is shown by queries in the end, document
\* and all, unless the agent has been written again or removed.
UpdatesAreShown ==
  \A c \in Commands :
    LET agent == commands[c].agent
        written == commands[c].outgoing
    IN commands[c].pc = "mined" ~>
         \/ agents[agent].metadata # written
         \/ /\ agentEntities[agent].metadata = written
            /\ written.uri \in Document => MetadataShown(agent) = written.uri

\* update.ts:120 says that socials are merged "instead of replacing", and
\* AgentService.ts:905 merges "current metadata with updates": the other
\* fields of the document survive an update.
OtherFieldsSurvive ==
  [][\A c \in Commands :
       Updates(c) =>
         LET agent == commands[c].agent
         IN \A f \in Fields \ DOMAIN commands[c].asked :
              agents'[agent].metadata.uri[f] = DocumentOf(agents[agent].metadata)[f]]_recordVars

\* register.ts:18 offers --private-key for "signing": who registers an agent
\* with a key then owns it with that key.
SignsWithTheGivenKey ==
  [][\A c \in Commands :
       /\ commands[c].pc = "sent" /\ commands'[c].pc = "mined"
       /\ commands[c].kind = "register"
       => agents'[commands[c].agent].owner = commands[c].agent]_recordVars
=============================================================================
