---------------------------- MODULE MCAgentRecords ----------------------------
(***************************************************************************)
(* The record of one agent, with a field or two of each kind.              *)
(***************************************************************************)
EXTENDS AgentRecords

CONSTANTS name, description, instructions, twitter, github, env, url, form, status,
          oldText, newText

AllMetadata == [name : Texts \cup {Blank}, uri : Document \cup {WebUri, ImageUri, PlainUri}]
BlankMetadata == [name |-> Blank, uri |-> NoUri]
AllContents == Document \cup {WebUri, ImageUri}
ContentPath(metadata) == IF metadata.uri = PlainUri THEN NoUri ELSE metadata.uri
AllFiles == Document \cup {ImageUri}

OldDocument == {[f \in Fields |-> IF f = form THEN Blank ELSE oldText]}

\* A document without a name and with parameters that are no text, a file that
\* is no document, and no file at all.  An https URI is to a command what the
\* file is before it is found.
OneOfEachUri ==
  [name : {oldText},
   uri : {[f \in Fields |-> IF f = name THEN Blank ELSE oldText], ImageUri, PlainUri}]

\* One of two socials; a text, a list that is cleared, one of two parameters and
\* a status.
OneOfEach ==
  {[f \in {twitter} |-> newText],
   [f \in {description, instructions, env, status} |-> IF f = instructions THEN Blank ELSE newText]}

\* Name and description are mandatory in a record file.
OneFile ==
  {[f \in {name, description, twitter} |-> newText]}

NoV1Agents ==
  [agent \in AgentKeys |->
     [metadata |-> NoMetadata, owner |-> ZeroAddress, reputation |-> 0]]
NoV1Proposals == [i \in {} |-> 0]
NoV1Services == [n \in Names |-> NoService]
=============================================================================
