----------------------------- MODULE WalletStore -----------------------------
(***************************************************************************)
(* The files the CLI keeps under ~/.ensemble: one file per wallet, and     *)
(* config.json, which names the active wallet.  Every command is a process *)
(* of its own, started from some shell; nothing locks the files, writeFile *)
(* truncates before it writes, and a command can be killed at any await.   *)
(***************************************************************************)
EXTENDS Naturals

CONSTANTS
  Shells,      \* where commands are started, one at a time each
  Names,       \* wallet names
  NoName,      \* no active wallet
  Passwords,   \* a wallet is known by the password that opens it
  NoPassword,
  Keys,        \* what `config set-...` can set
  NoKey,
  NoFile,      \* the file does not exist
  Torn,        \* the file exists and does not parse
  MaxCrashes   \* bound on the commands killed

\* The settings that differ from the defaults, and the active wallet.
Config == [set : SUBSET Keys, active : Names \cup {NoName}]
DefaultConfig == [set |-> {}, active |-> NoName]

ASSUME WalletConstants ==
  /\ NoName \notin Names
  /\ NoPassword \notin Passwords
  /\ NoKey \notin Keys
  /\ NoFile # Torn
  /\ {NoFile, Torn} \cap (Passwords \cup {NoPassword}) = {}
  /\ {NoFile, Torn} \cap Config = {}
  /\ MaxCrashes \in Nat

VARIABLES
  walletFile,  \* name -> contents of wallets/<name>.json
  configFile,  \* contents of config.json
  shell,       \* shell -> the command that runs in it
  crashes,     \* commands killed so far
  overlapped,  \* history: running commands that did not always run alone
  clean,       \* history: since the start, or since `wallets current` last ran
               \* alone, no command was killed and no two overlapped
  wanted       \* history: the settings asked for, while clean

files == <<walletFile, configFile>>
vars == <<files, shell, crashes, overlapped, clean, wanted>>

Commands == {"none", "create", "use", "current", "unset", "delete", "set", "reset", "show"}
\* service, active and merge are calls of getConfig: for its rpcUrl, for the
\* active wallet, and to change it.  open and write are saveConfig.
Steps == {"idle", "service", "active", "merge", "open", "write", "check",
          "openWallet", "writeWallet", "lookup", "verify", "unlink"}

\* back is the getConfig a save of the defaults belongs to; config is what
\* saveConfig saves.
Process == [cmd : Commands, pc : Steps, back : {"idle", "service", "active", "merge"},
            name : Names \cup {NoName}, password : Passwords \cup {NoPassword},
            key : Keys \cup {NoKey}, config : Config]
Idle == [cmd |-> "none", pc |-> "idle", back |-> "idle", name |-> NoName,
         password |-> NoPassword, key |-> NoKey, config |-> DefaultConfig]

TypeOK ==
  /\ walletFile \in [Names -> Passwords \cup {NoFile, Torn}]
  /\ configFile \in Config \cup {NoFile, Torn}
  /\ shell \in [Shells -> Process]
  /\ crashes \in 0 .. MaxCrashes
  /\ overlapped \subseteq Shells
  /\ clean \in BOOLEAN
  /\ wanted \subseteq Keys

Init ==
  /\ walletFile = [name \in Names |-> NoFile]
  /\ configFile = NoFile
  /\ shell = [p \in Shells |-> Idle]
  /\ crashes = 0
  /\ overlapped = {}
  /\ clean = TRUE
  /\ wanted = {}

Running == {p \in Shells : shell[p].pc # "idle"}

SettingsOf(file) == IF file \in {NoFile, Torn} THEN {} ELSE file.set

-----------------------------------------------------------------------------
\* The command of p comes to its next step.
Continue(p, process) ==
  /\ shell' = [shell EXCEPT ![p] = process]
  /\ UNCHANGED <<crashes, overlapped, clean, wanted>>

GoOn(p, step) == Continue(p, [shell[p] EXCEPT !.pc = step])

\* The command of p ends; config is what it leaves in the file.  The rest is
\* history: a `current` that ran alone starts it afresh.
End(p, config) ==
  /\ shell' = [shell EXCEPT ![p] = Idle]
  /\ overlapped' = overlapped \ {p}
  /\ LET fresh == shell[p].cmd = "current" /\ p \notin overlapped IN
     /\ clean' = (clean \/ fresh)
     /\ wanted' = CASE fresh -> SettingsOf(config)
                    [] shell[p].cmd = "set" -> wanted \cup {shell[p].key}
                    [] shell[p].cmd = "reset" -> {}
                    [] OTHER -> wanted
  /\ UNCHANGED crashes

\* The file after the second half of writeFile, where file is what is there: a
\* name deleted since stays deleted, and what another command wrote since may
\* show behind the end of what is written now.  (To delete a name and create it
\* again in between takes three commands at once.)
Written(value, file) ==
  CASE file = Torn -> {value}
    [] file = NoFile -> {NoFile}
    [] OTHER -> {value, Torn}

-----------------------------------------------------------------------------
Begin(p, cmd, step, name, password, key) ==
  /\ shell[p].pc = "idle"
  /\ shell' = [shell EXCEPT ![p] = [Idle EXCEPT !.cmd = cmd, !.pc = step, !.name = name,
                                      !.password = password, !.key = key]]
  /\ overlapped' = IF Running = {} THEN {} ELSE Running \cup {p}
  /\ clean' = (clean /\ Running = {})
  /\ UNCHANGED <<files, crashes, wanted>>

\* wallets create and wallets import differ in where the key comes from.
CreateWallet(p, name, password) == Begin(p, "create", "service", name, password, NoKey)
ImportWallet(p, name, password) == Begin(p, "create", "service", name, password, NoKey)

UseWallet(p, name) == Begin(p, "use", "service", name, NoPassword, NoKey)
CurrentWallet(p) == Begin(p, "current", "active", NoName, NoPassword, NoKey)
UnsetWallet(p) == Begin(p, "unset", "active", NoName, NoPassword, NoKey)
DeleteWallet(p, name, password) == Begin(p, "delete", "service", name, password, NoKey)

\* config set-network, set-rpc, set-private-key and set-gas-price
SetConfig(p, key) == Begin(p, "set", "merge", NoName, NoPassword, key)
ResetConfig(p) == Begin(p, "reset", "open", NoName, NoPassword, NoKey)

\* Commands that only read: list, balance, export, config show, and those that
\* fail on their arguments.
Show(p) == Begin(p, "show", "service", NoName, NoPassword, NoKey)

-----------------------------------------------------------------------------
\* Faulty variant of Merged: starts from the defaults instead of the file.
MergedIntoDefaults(process, read) ==
  CASE process.cmd = "use" -> [DefaultConfig EXCEPT !.active = process.name]
    [] process.cmd = "set" -> [DefaultConfig EXCEPT !.set = {process.key}]
    [] OTHER -> DefaultConfig

\* What setActiveWallet, updateConfig and clearActiveWallet save.
Merged(process, read) ==
  CASE process.cmd = "use" -> [read EXCEPT !.active = process.name]
    [] process.cmd = "set" -> [read EXCEPT !.set = @ \cup {process.key}]
    [] OTHER -> [read EXCEPT !.active = NoName]

\* Where a command that only needed the rpcUrl goes on.
AfterService(cmd) ==
  CASE cmd = "create" -> "check"
    [] cmd = "delete" -> "verify"
    [] OTHER -> "lookup"

\* Faulty variant of ClearsActive: delete leaves the active wallet alone.
ClearsActiveOnlyUnset(process, read) == process.cmd = "unset" /\ read.active # NoName

\* Whether the active wallet found is to be cleared: unset clears any, delete
\* the one just deleted.
ClearsActive(process, read) ==
  \/ process.cmd = "unset" /\ read.active # NoName
  \/ process.cmd = "delete" /\ read.active = process.name

\* getConfig has returned read; the command goes on, or ends.
Returned(p, process, read) ==
  CASE process.pc = "merge" ->
         Continue(p, [process EXCEPT !.config = Merged(process, read), !.pc = "open"])
    [] process.pc = "service" /\ process.cmd # "show" ->
         Continue(p, [process EXCEPT !.pc = AfterService(process.cmd)])
    [] process.pc = "active" /\ ClearsActive(process, read) ->
         Continue(p, [process EXCEPT !.pc = "merge"])
    [] process.pc = "active" /\ process.cmd = "current" /\ read.active # NoName ->
         Continue(p, [process EXCEPT !.pc = "service", !.name = read.active])
    [] OTHER -> End(p, configFile')

\* getConfig: when there is no file it saves the defaults first; a file that does
\* not parse reads as the defaults.
GetConfig(p) ==
  /\ shell[p].pc \in {"service", "active", "merge"}
  /\ UNCHANGED files
  /\ IF configFile = NoFile
     THEN Continue(p, [shell[p] EXCEPT !.config = DefaultConfig, !.back = shell[p].pc,
                                       !.pc = "open"])
     ELSE Returned(p, shell[p], IF configFile = Torn THEN DefaultConfig ELSE configFile)

\* saveConfig truncates the file,
OpenConfig(p) ==
  /\ shell[p].pc = "open"
  /\ configFile' = Torn
  /\ GoOn(p, "write")
  /\ UNCHANGED walletFile

\* then writes it; if getConfig called it, it returns the defaults.
WriteConfig(p) ==
  /\ shell[p].pc = "write"
  /\ configFile' \in Written(shell[p].config, configFile)
  /\ UNCHANGED walletFile
  /\ IF shell[p].back = "idle"
     THEN End(p, configFile')
     ELSE Returned(p, [shell[p] EXCEPT !.pc = shell[p].back, !.back = "idle"], DefaultConfig)

-----------------------------------------------------------------------------
\* Faulty variant of CheckFree: the file is not looked for.
CheckNothing(p) ==
  /\ shell[p].pc = "check"
  /\ UNCHANGED files
  /\ GoOn(p, "openWallet")

\* createWallet and importWallet refuse a name whose file exists, in whatever
\* state it is.
CheckFree(p) ==
  /\ shell[p].pc = "check"
  /\ UNCHANGED files
  /\ IF walletFile[shell[p].name] = NoFile THEN GoOn(p, "openWallet") ELSE End(p, configFile)

OpenWallet(p) ==
  /\ shell[p].pc = "openWallet"
  /\ walletFile' = [walletFile EXCEPT ![shell[p].name] = Torn]
  /\ UNCHANGED configFile
  /\ GoOn(p, "writeWallet")

\* Faulty variant of WriteWallet: writes the name for the contents.
WriteSwapped(p) ==
  /\ shell[p].pc = "writeWallet"
  /\ walletFile' = [walletFile EXCEPT ![shell[p].name] = shell[p].name]
  /\ UNCHANGED configFile
  /\ End(p, configFile)

WriteWallet(p) ==
  /\ shell[p].pc = "writeWallet"
  /\ \E contents \in Written(shell[p].password, walletFile[shell[p].name]) :
       walletFile' = [walletFile EXCEPT ![shell[p].name] = contents]
  /\ UNCHANGED configFile
  /\ End(p, configFile)

\* getWalletAddress: use goes on with a wallet that is there, current clears
\* the active wallet when it is not there; a file that does not parse ends both.
LookUp(p) ==
  /\ shell[p].pc = "lookup"
  /\ UNCHANGED files
  /\ LET file == walletFile[shell[p].name] IN
     IF \/ shell[p].cmd = "use" /\ file \notin {NoFile, Torn}
        \/ shell[p].cmd = "current" /\ file = NoFile
     THEN GoOn(p, "merge") ELSE End(p, configFile)

\* deleteWallet decrypts the wallet first: the password must fit.
Verify(p) ==
  /\ shell[p].pc = "verify"
  /\ UNCHANGED files
  /\ IF walletFile[shell[p].name] = shell[p].password
     THEN GoOn(p, "unlink") ELSE End(p, configFile)

\* unlink fails when the file is gone.
Unlink(p) ==
  /\ shell[p].pc = "unlink"
  /\ walletFile' = [walletFile EXCEPT ![shell[p].name] = NoFile]
  /\ UNCHANGED configFile
  /\ IF walletFile[shell[p].name] = NoFile THEN End(p, configFile) ELSE GoOn(p, "active")

\* The command is killed; what it wrote so far stays.
Crash(p) ==
  /\ shell[p].pc # "idle"
  /\ crashes < MaxCrashes
  /\ crashes' = crashes + 1
  /\ shell' = [shell EXCEPT ![p] = Idle]
  /\ overlapped' = overlapped \ {p}
  /\ clean' = FALSE
  /\ UNCHANGED <<files, wanted>>

BeginSome(p) ==
  \/ \E name \in Names, password \in Passwords :
       \/ CreateWallet(p, name, password)
       \/ ImportWallet(p, name, password)
       \/ DeleteWallet(p, name, password)
  \/ \E name \in Names : UseWallet(p, name)
  \/ CurrentWallet(p)
  \/ UnsetWallet(p)
  \/ \E key \in Keys : SetConfig(p, key)
  \/ ResetConfig(p)
  \/ Show(p)

Next ==
  \E p \in Shells :
    \/ BeginSome(p)
    \/ GetConfig(p) \/ OpenConfig(p) \/ WriteConfig(p)
    \/ CheckFree(p) \/ OpenWallet(p) \/ WriteWallet(p)
    \/ LookUp(p) \/ Verify(p) \/ Unlink(p)
    \/ Crash(p)

Spec == Init /\ [][Next]_vars

-----------------------------------------------------------------------------
\* A wallet that was completely written is lost only to a delete with its
\* password, however often commands are killed; commands that ran side by side
\* are excepted, because createWallet and deleteWallet look first and act later.
WalletsSurvive ==
  [][\A name \in Names :
       walletFile[name] \in Passwords /\ walletFile'[name] # walletFile[name] =>
         \E p \in Running :
           /\ shell[p].name = name
           /\ p \in overlapped \/ (shell[p].cmd = "delete"
                                    /\ shell[p].password = walletFile[name])]_vars

\* When nothing runs, the active wallet exists: it was looked up before it was
\* set, and deleting it clears it.  Kills and overlapping commands can break
\* this, and one undisturbed `wallets current` repairs it.
ActiveWalletExists ==
  clean /\ Running = {} /\ configFile \notin {NoFile, Torn} /\ configFile.active # NoName =>
    walletFile[configFile.active] # NoFile

\* When nothing runs, the settings are those last asked for: commands that
\* change the active wallet write the whole file but lose nothing of it.
SettingsAreKept == clean /\ Running = {} => SettingsOf(configFile) = wanted
=============================================================================
