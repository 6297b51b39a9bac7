--------------------------- MODULE WalletStoreProofs ---------------------------
(***************************************************************************)
(* Theorems about WalletStore, for any number of shells, names, passwords, *)
(* settings and kills.                                                     *)
(***************************************************************************)
EXTENDS WalletStore, TLAPS

\* Whoever runs next to another command is known to.
Alone ==
  /\ overlapped \subseteq Running
  /\ \A p, q \in Running : p # q => p \in overlapped
  /\ clean => overlapped = {}

\* The arguments a command has and the calls it makes.
WellFormed(q) ==
  /\ q.cmd \in {"create", "delete", "use"} => q.name \in Names
  /\ q.cmd \in {"create", "delete"} => q.password \in Passwords
  /\ q.cmd = "set" => q.key \in Keys
  /\ q.pc \in {"check", "openWallet", "writeWallet"} => q.cmd = "create"
  /\ q.pc \in {"verify", "unlink"} => q.cmd = "delete"
  /\ q.pc = "lookup" => q.cmd \in {"use", "current"}
  /\ "service" \in {q.pc, q.back} => q.cmd \in {"create", "use", "current", "delete", "show"}
  /\ "active" \in {q.pc, q.back} => q.cmd \in {"current", "unset", "delete"}
  /\ "merge" \in {q.pc, q.back} => q.cmd \in {"use", "set", "current", "unset", "delete"}
  /\ q.pc \in {"service", "lookup"} /\ q.cmd = "current" => q.name \in Names
  /\ q.pc = "write" \/ q.pc = "open" =>
       IF q.back = "idle"
       THEN q.cmd \in {"use", "set", "current", "unset", "delete", "reset"}
       ELSE /\ q.config = DefaultConfig
            /\ q.back = "service" /\ q.cmd = "current" => q.name \in Names
  /\ q.back # "idle" => q.pc \in {"open", "write"}

CommandsWellFormed == \A p \in Shells : WellFormed(shell[p])

\* What a command that runs alone has seen of the files is still so.
Seen(p) ==
  /\ shell[p].pc = "openWallet" => walletFile[shell[p].name] = NoFile
  /\ shell[p].pc = "writeWallet" => walletFile[shell[p].name] = Torn
  /\ shell[p].pc = "unlink" => walletFile[shell[p].name] = shell[p].password
  /\ shell[p].pc = "write" => configFile = Torn
  /\ shell[p].cmd = "current" /\ shell[p].pc \in {"service", "lookup"} =>
       configFile \in Config /\ configFile.active = shell[p].name
  /\ shell[p].cmd = "current" => shell[p].back # "service"

SeenHolds == \A p \in Running \ overlapped : Seen(p)

\* What the command leaves as the settings.
Asked(q) == CASE q.cmd = "set" -> wanted \cup {q.key}
              [] q.cmd = "reset" -> {}
              [] OTHER -> wanted

\* What holds of the settings when q alone is running, in a clean state.
SettingsOnTheWay(q) ==
  /\ q.pc # "write" => SettingsOf(configFile) = wanted
  /\ q.pc \in {"open", "write"} =>
       IF q.back = "idle" THEN q.config.set = Asked(q) ELSE wanted = {}

SettingsHeld ==
  clean => /\ Running = {} => SettingsOf(configFile) = wanted
           /\ \A p \in Running : SettingsOnTheWay(shell[p])

Held == TypeOK /\ Alone /\ CommandsWellFormed
Inv == Held /\ SeenHolds

-----------------------------------------------------------------------------
\* No command is well-formed, and typed.
LEMMA IdleIsAProcess == Idle \in Process /\ WellFormed(Idle)
<1>1. DefaultConfig \in Config
  BY DEF DefaultConfig, Config
<1>2. Idle \in Process
  BY <1>1 DEF Idle, Process, Commands, Steps
<1>3. QED
  BY <1>2 DEF Idle, WellFormed

\* At first nothing runs and nothing is asked for.
LEMMA InvInit == Init => Inv
<1> SUFFICES ASSUME Init PROVE Inv
  OBVIOUS
<1> USE DEF Init
<1>1. TypeOK
  BY IdleIsAProcess, WalletConstants DEF TypeOK
<1>2. Running = {}
  BY DEF Running, Idle
<1>3. Alone /\ SeenHolds
  BY <1>2 DEF Alone, SeenHolds
<1>4. CommandsWellFormed
  BY IdleIsAProcess DEF CommandsWellFormed
<1>5. QED
  BY <1>1, <1>3, <1>4 DEF Inv, Held

\* A command that goes on leaves the others and the history as they are.
LEMMA ContinueHeld ==
  ASSUME Held, NEW p \in Shells, p \in Running, NEW q \in Process, q.pc # "idle",
         WellFormed(q), Continue(p, q),
         walletFile' \in [Names -> Passwords \cup {NoFile, Torn}],
         configFile' \in Config \cup {NoFile, Torn}
  PROVE  Held' /\ Running' = Running /\ overlapped' = overlapped
<1>1. /\ shell' \in [Shells -> Process] /\ shell'[p] = q
      /\ \A r \in Shells : r # p => shell'[r] = shell[r]
  BY DEF Held, TypeOK, Continue
<1>2. TypeOK'
  BY <1>1 DEF Held, TypeOK, Continue
<1>3. Running' = Running /\ overlapped' = overlapped
  BY <1>1 DEF Running, Continue
<1>4. Alone'
  BY <1>3 DEF Held, Alone, Continue
<1>5. CommandsWellFormed'
  BY <1>1 DEF Held, CommandsWellFormed
<1>6. QED
  BY <1>2, <1>3, <1>4, <1>5 DEF Held

\* A command that ends takes itself out of the history of overlaps.
LEMMA EndHeld ==
  ASSUME Held, NEW p \in Shells, p \in Running, NEW c \in Config \cup {NoFile, Torn},
         End(p, c),
         walletFile' \in [Names -> Passwords \cup {NoFile, Torn}],
         configFile' \in Config \cup {NoFile, Torn}
  PROVE  Held' /\ Running' = Running \ {p} /\ overlapped' = overlapped \ {p}
<1>1. /\ shell' \in [Shells -> Process] /\ shell'[p] = Idle
      /\ \A r \in Shells : r # p => shell'[r] = shell[r]
  BY IdleIsAProcess DEF Held, TypeOK, End
<1>2. wanted' \subseteq Keys
  <2>1. SettingsOf(c) \subseteq Keys /\ wanted \subseteq Keys
    BY DEF SettingsOf, Config, Held, TypeOK
  <2>2. shell[p].cmd = "set" => shell[p].key \in Keys
    BY DEF Held, CommandsWellFormed, WellFormed
  <2>3. wanted' \in {SettingsOf(c), wanted, {}} \/ (shell[p].cmd = "set"
                                                     /\ wanted' = wanted \cup {shell[p].key})
    BY DEF End
  <2>4. QED
    BY <2>1, <2>2, <2>3
<1>3. TypeOK'
  BY <1>1, <1>2 DEF Held, TypeOK, End
<1>4. Running' = Running \ {p} /\ overlapped' = overlapped \ {p}
  BY <1>1 DEF Running, End, Idle
<1>5. Alone'
  BY <1>4 DEF Held, Alone, End
<1>6. CommandsWellFormed'
  BY <1>1, IdleIsAProcess DEF Held, CommandsWellFormed
<1>7. QED
  BY <1>3, <1>4, <1>5, <1>6 DEF Held

\* What a command that runs alone has seen stays so while others act: there are
\* none.
LEMMA OthersSeeNothing ==
  ASSUME Held, SeenHolds, NEW p \in Shells, p \in Running, Running' \subseteq Running,
         overlapped' \in {overlapped, overlapped \ {p}},
         p \in Running' \ overlapped' => Seen(p)'
  PROVE  SeenHolds'
BY DEF SeenHolds, Held, Alone

-----------------------------------------------------------------------------
\* The process a new command is.
Started(cmd, step, name, password, key) ==
  [Idle EXCEPT !.cmd = cmd, !.pc = step, !.name = name, !.password = password, !.key = key]

\* Every command starts with a call of getConfig, but reset, which only saves.
LEMMA BeginForm ==
  ASSUME NEW p \in Shells, BeginSome(p)
  PROVE  \E cmd \in Commands, step \in Steps, name \in Names \cup {NoName},
            password \in Passwords \cup {NoPassword}, key \in Keys \cup {NoKey} :
           /\ Begin(p, cmd, step, name, password, key)
           /\ step \in {"service", "active", "merge", "open"}
           /\ WellFormed(Started(cmd, step, name, password, key))
           /\ cmd = "current" => step = "active"
           /\ step = "open" => cmd = "reset"
           /\ step = "merge" => cmd = "set"
BY DEF BeginSome, CreateWallet, ImportWallet, DeleteWallet, UseWallet, CurrentWallet,
       UnsetWallet, SetConfig, ResetConfig, Show, Commands, Steps, WellFormed, Idle, Started

\* A new command starts well-formed, and nothing it has seen matters yet.
LEMMA BeginStep ==
  ASSUME Inv, NEW p \in Shells, BeginSome(p)
  PROVE  Inv' /\ UNCHANGED walletFile
<1>1. PICK cmd \in Commands, step \in Steps, name \in Names \cup {NoName},
           password \in Passwords \cup {NoPassword}, key \in Keys \cup {NoKey} :
        /\ Begin(p, cmd, step, name, password, key)
        /\ step \in {"service", "active", "merge", "open"}
        /\ WellFormed(Started(cmd, step, name, password, key))
        /\ cmd = "current" => step = "active"
  BY BeginForm
<1> DEFINE q == Started(cmd, step, name, password, key)
<1>2. q \in Process /\ q.pc = step /\ q.cmd = cmd /\ q.back = "idle" /\ WellFormed(q)
  BY <1>1, IdleIsAProcess DEF Idle, Process, Started
<1> HIDE DEF q
<1>3. /\ shell \in [Shells -> Process] /\ shell[p].pc = "idle" /\ UNCHANGED files
      /\ shell' = [shell EXCEPT ![p] = q] /\ shell'[p] = q
      /\ \A r \in Shells : r # p => shell'[r] = shell[r]
  BY <1>1 DEF Begin, Inv, Held, TypeOK, q, Started
<1>4. p \notin Running /\ Running' = Running \cup {p}
  BY <1>1, <1>2, <1>3 DEF Running
<1>5. /\ overlapped' = IF Running = {} THEN {} ELSE Running \cup {p}
      /\ clean' = (clean /\ Running = {})
      /\ UNCHANGED <<crashes, wanted>>
  BY <1>1 DEF Begin
<1>6. TypeOK'
  BY <1>2, <1>3, <1>5 DEF Inv, Held, TypeOK, files, Running
<1>7. Alone'
  BY <1>4, <1>5 DEF Inv, Held, Alone
<1>8. CommandsWellFormed'
  BY <1>2, <1>3 DEF Inv, Held, CommandsWellFormed
<1>9. Seen(p)'
  BY <1>1, <1>2, <1>3 DEF Seen
<1>10. Running' \ overlapped' \subseteq {p}
  BY <1>4, <1>5
<1>11. SeenHolds'
  BY <1>9, <1>10 DEF SeenHolds
<1>12. QED
  BY <1>3, <1>6, <1>7, <1>8, <1>11 DEF Inv, Held, files

\* When getConfig has returned, the command goes on well-formed, or ends.
LEMMA ReturnedStep ==
  ASSUME Inv, NEW p \in Shells, p \in Running, NEW q \in Process, NEW read \in Config,
         q.pc \in {"service", "active", "merge"}, q.back = "idle", WellFormed(q),
         q.cmd = shell[p].cmd, UNCHANGED walletFile,
         Returned(p, q, read), configFile' \in Config \cup {NoFile, Torn},
         read \in {configFile', DefaultConfig},
         q.cmd = "current" /\ q.pc = "service" /\ p \notin overlapped =>
           configFile' \in Config /\ configFile'.active = q.name
  PROVE  Inv'
<1>0. walletFile' \in [Names -> Passwords \cup {NoFile, Torn}]
  BY DEF Inv, Held, TypeOK
<1>1. CASE q.pc = "merge"
  <2> DEFINE r == [q EXCEPT !.config = Merged(q, read), !.pc = "open"]
  <2>1. Continue(p, r)
    BY <1>1 DEF Returned
  <2>2. Merged(q, read) \in Config
    BY <1>1 DEF Merged, Config, WellFormed
  <2>3. r \in Process /\ r.pc = "open" /\ r.back = "idle" /\ r.cmd = q.cmd
    BY <2>2 DEF Process, Steps
  <2>4. WellFormed(r)
    BY <1>1 DEF WellFormed
  <2> HIDE DEF r
  <2>5. Held' /\ Running' = Running /\ overlapped' = overlapped
    BY <1>0, <2>1, <2>3, <2>4, ContinueHeld DEF Inv
  <2>6. shell'[p] = r
    BY <2>1 DEF Continue, Inv, Held, TypeOK
  <2>7. Seen(p)'
    BY <2>3, <2>6 DEF Seen
  <2>8. QED
    BY <2>5, <2>7, OthersSeeNothing DEF Inv
<1>2. CASE q.pc = "service" /\ q.cmd # "show"
  <2> DEFINE r == [q EXCEPT !.pc = AfterService(q.cmd)]
  <2>1. Continue(p, r)
    BY <1>2 DEF Returned
  <2>2. q.cmd \in {"create", "use", "current", "delete"}
    BY <1>2 DEF WellFormed
  <2>3. /\ r \in Process /\ r.pc = AfterService(q.cmd) /\ r.back = "idle" /\ r.cmd = q.cmd
        /\ r.name = q.name /\ r.pc \in {"check", "verify", "lookup"}
    BY <2>2 DEF Process, Steps, AfterService
  <2>4. WellFormed(r)
    BY <1>2, <2>2 DEF WellFormed, AfterService
  <2> HIDE DEF r
  <2>5. Held' /\ Running' = Running /\ overlapped' = overlapped
    BY <1>0, <2>1, <2>3, <2>4, ContinueHeld DEF Inv
  <2>6. shell'[p] = r
    BY <2>1 DEF Continue, Inv, Held, TypeOK
  <2>7. p \notin overlapped => Seen(p)'
    BY <1>2, <2>3, <2>6 DEF Seen
  <2>8. QED
    BY <2>5, <2>7, OthersSeeNothing DEF Inv
<1>3. CASE q.pc = "active" /\ ClearsActive(q, read)
  <2> DEFINE r == [q EXCEPT !.pc = "merge"]
  <2>1. Continue(p, r)
    BY <1>3 DEF Returned, ClearsActive
  <2>3. r \in Process /\ r.pc = "merge" /\ r.back = "idle"
    BY DEF Process, Steps
  <2>4. WellFormed(r)
    BY <1>3 DEF WellFormed
  <2> HIDE DEF r
  <2>5. Held' /\ Running' = Running /\ overlapped' = overlapped
    BY <1>0, <2>1, <2>3, <2>4, ContinueHeld DEF Inv
  <2>6. shell'[p] = r
    BY <2>1 DEF Continue, Inv, Held, TypeOK
  <2>7. Seen(p)'
    BY <2>3, <2>6 DEF Seen
  <2>8. QED
    BY <2>5, <2>7, OthersSeeNothing DEF Inv
<1>4. CASE /\ q.pc = "active" /\ ~ClearsActive(q, read)
           /\ q.cmd = "current" /\ read.active # NoName
  <2> DEFINE r == [q EXCEPT !.pc = "service", !.name = read.active]
  <2>1. Continue(p, r)
    BY <1>4 DEF Returned
  <2>2. read.active \in Names /\ configFile' = read
    BY <1>4 DEF Config, DefaultConfig
  <2>3. /\ r \in Process /\ r.pc = "service" /\ r.back = "idle" /\ r.cmd = "current"
        /\ r.name = read.active
    BY <1>4, <2>2 DEF Process, Steps
  <2>4. WellFormed(r)
    BY <1>4, <2>2 DEF WellFormed
  <2> HIDE DEF r
  <2>5. Held' /\ Running' = Running /\ overlapped' = overlapped
    BY <1>0, <2>1, <2>3, <2>4, ContinueHeld DEF Inv
  <2>6. shell'[p] = r
    BY <2>1 DEF Continue, Inv, Held, TypeOK
  <2>7. Seen(p)'
    BY <2>2, <2>3, <2>6 DEF Seen
  <2>8. QED
    BY <2>5, <2>7, OthersSeeNothing DEF Inv
<1>5. CASE End(p, configFile')
  <2>1. Held' /\ Running' = Running \ {p} /\ overlapped' = overlapped \ {p}
    BY <1>0, <1>5, EndHeld DEF Inv
  <2>2. QED
    BY <2>1, OthersSeeNothing DEF Inv
<1>6. QED
  BY <1>1, <1>2, <1>3, <1>4, <1>5 DEF Returned

\* getConfig keeps the invariant: the file a command found stays while it is alone.
LEMMA GetConfigStep ==
  ASSUME Inv, NEW p \in Shells, GetConfig(p)
  PROVE  Inv' /\ UNCHANGED walletFile
<1> DEFINE q == [shell[p] EXCEPT !.config = DefaultConfig, !.back = shell[p].pc, !.pc = "open"]
<1>0. /\ p \in Running /\ UNCHANGED files /\ shell[p] \in Process /\ WellFormed(shell[p])
      /\ shell[p].pc \in {"service", "active", "merge"} /\ shell[p].back = "idle"
  BY DEF GetConfig, Running, Inv, Held, TypeOK, CommandsWellFormed, WellFormed
<1>1. /\ walletFile' \in [Names -> Passwords \cup {NoFile, Torn}]
      /\ configFile' \in Config \cup {NoFile, Torn}
  BY <1>0 DEF files, Inv, Held, TypeOK
<1>2. p \notin overlapped => Seen(p)
  BY <1>0 DEF Inv, SeenHolds
<1>3. CASE configFile = NoFile
  <2>1. /\ Continue(p, q) /\ q \in Process /\ q.pc = "open" /\ q.cmd = shell[p].cmd
        /\ q.back = shell[p].pc
    BY <1>0, <1>3 DEF GetConfig, Process, Steps, Config, DefaultConfig
  <2>2. q.config = DefaultConfig
    BY <1>0 DEF Process
  <2>3. WellFormed(q)
    BY <1>0, <2>2 DEF WellFormed
  <2> HIDE DEF q
  <2>4. Held' /\ Running' = Running /\ overlapped' = overlapped
    BY <1>0, <1>1, <2>1, <2>3, ContinueHeld DEF Inv
  <2>5. shell'[p] = q
    BY <2>1 DEF Continue, Inv, Held, TypeOK
  <2>6. ~(shell[p].cmd = "current" /\ shell[p].pc = "service" /\ p \notin overlapped)
    BY <1>2, <1>3, WalletConstants DEF Seen
  <2>7. p \notin overlapped => Seen(p)'
    BY <2>1, <2>5, <2>6 DEF Seen
  <2>8. QED
    BY <1>0, <2>4, <2>7, OthersSeeNothing DEF Inv, files
<1>4. CASE configFile # NoFile
  <2> DEFINE read == IF configFile = Torn THEN DefaultConfig ELSE configFile
  <2>1. Returned(p, shell[p], read)
    BY <1>4 DEF GetConfig
  <2>2. read \in Config /\ read \in {configFile', DefaultConfig}
    BY <1>0, <1>1, <1>4 DEF files, Config, DefaultConfig
  <2>3. shell[p].cmd = "current" /\ shell[p].pc = "service" /\ p \notin overlapped =>
          configFile' \in Config /\ configFile'.active = shell[p].name
    BY <1>0, <1>2 DEF Seen, files
  <2> HIDE DEF read
  <2>4. QED
    BY <1>0, <1>1, <2>1, <2>2, <2>3, ReturnedStep DEF files
<1>5. QED
  BY <1>3, <1>4

\* Truncating the file is seen only by the command that does it.
LEMMA OpenConfigStep ==
  ASSUME Inv, NEW p \in Shells, OpenConfig(p)
  PROVE  Inv' /\ UNCHANGED walletFile
<1> DEFINE q == [shell[p] EXCEPT !.pc = "write"]
<1>1. /\ p \in Running /\ Continue(p, q) /\ configFile' = Torn /\ UNCHANGED walletFile
      /\ shell[p] \in Process /\ WellFormed(shell[p]) /\ shell[p].pc = "open"
  BY DEF OpenConfig, GoOn, Running, Inv, Held, TypeOK, CommandsWellFormed
<1>2. /\ q \in Process /\ q.pc = "write" /\ q.back = shell[p].back /\ q.cmd = shell[p].cmd
  BY <1>1 DEF Process, Steps
<1>3. WellFormed(q)
  BY <1>1 DEF WellFormed
<1>4. p \notin overlapped => Seen(p)
  BY <1>1 DEF Inv, SeenHolds
<1> HIDE DEF q
<1>5. Held' /\ Running' = Running /\ overlapped' = overlapped
  BY <1>1, <1>2, <1>3, ContinueHeld DEF Inv, Held, TypeOK
<1>6. shell'[p] = q
  BY <1>1 DEF Continue, Inv, Held, TypeOK
<1>7. p \notin overlapped => Seen(p)'
  BY <1>1, <1>2, <1>4, <1>6 DEF Seen
<1>8. QED
  BY <1>1, <1>5, <1>7, OthersSeeNothing DEF Inv

\* A save ends the command, or the getConfig that made it.
LEMMA WriteConfigStep ==
  ASSUME Inv, NEW p \in Shells, WriteConfig(p)
  PROVE  Inv' /\ UNCHANGED walletFile
<1>1. /\ p \in Running /\ UNCHANGED walletFile /\ shell[p] \in Process
      /\ WellFormed(shell[p]) /\ shell[p].pc = "write"
  BY DEF WriteConfig, Running, Inv, Held, TypeOK, CommandsWellFormed
<1>2. configFile' \in Config \cup {NoFile, Torn}
  BY <1>1 DEF WriteConfig, Written, Process
<1>3. p \notin overlapped => Seen(p)
  BY <1>1 DEF Inv, SeenHolds
<1>4. CASE shell[p].back = "idle"
  <2>1. End(p, configFile')
    BY <1>4 DEF WriteConfig
  <2>2. Held' /\ Running' = Running \ {p} /\ overlapped' = overlapped \ {p}
    BY <1>1, <1>2, <2>1, EndHeld DEF Inv, Held, TypeOK
  <2>3. QED
    BY <1>1, <2>2, OthersSeeNothing DEF Inv
<1>5. CASE shell[p].back # "idle"
  <2> DEFINE q == [shell[p] EXCEPT !.pc = shell[p].back, !.back = "idle"]
  <2>1. Returned(p, q, DefaultConfig)
    BY <1>5 DEF WriteConfig
  <2>2. /\ q \in Process /\ q.back = "idle" /\ q.cmd = shell[p].cmd
        /\ q.pc \in {"service", "active", "merge"} /\ q.pc = shell[p].back
    BY <1>1, <1>5 DEF Process, Steps
  <2>3. WellFormed(q)
    BY <1>1, <1>5 DEF WellFormed, Process
  <2>4. ~(q.cmd = "current" /\ q.pc = "service" /\ p \notin overlapped)
    BY <1>3, <2>2 DEF Seen
  <2>5. configFile' \in {DefaultConfig, Torn, NoFile}
    BY <1>1, <1>5 DEF WriteConfig, Written, WellFormed
  <2>6. DefaultConfig \in Config
    BY DEF DefaultConfig, Config
  <2> HIDE DEF q
  <2>7. QED
    BY <1>1, <1>2, <2>1, <2>2, <2>3, <2>4, <2>6, ReturnedStep
<1>6. QED
  BY <1>4, <1>5

-----------------------------------------------------------------------------
\* What a step of WalletsSurvive may do to the wallets.
KeepsWallets ==
  \A name \in Names :
    walletFile[name] \in Passwords /\ walletFile'[name] # walletFile[name] =>
      \E p \in Running :
        /\ shell[p].name = name
        /\ p \in overlapped \/ (shell[p].cmd = "delete"
                                 /\ shell[p].password = walletFile[name])

\* The arguments of the commands that work on a wallet file.
LEMMA Arguments ==
  ASSUME Held, NEW p \in Shells,
         shell[p].pc \in {"check", "openWallet", "writeWallet", "verify", "unlink"}
  PROVE  /\ p \in Running /\ shell[p] \in Process /\ WellFormed(shell[p])
         /\ shell[p].name \in Names /\ shell[p].password \in Passwords
         /\ shell[p].back = "idle"
         /\ shell[p].cmd = IF shell[p].pc \in {"verify", "unlink"} THEN "delete" ELSE "create"
BY DEF Held, TypeOK, CommandsWellFormed, WellFormed, Running

\* A step that only looks goes on well-formed with what it has seen, or ends.
LEMMA LookStep ==
  ASSUME Inv, NEW p \in Shells, p \in Running, UNCHANGED files,
         NEW step \in {"openWallet", "merge", "unlink"},
         GoOn(p, step) \/ End(p, configFile),
         shell[p].back = "idle",
         step = "merge" => shell[p].cmd \in {"use", "current"},
         step = "openWallet" => shell[p].cmd = "create" /\ walletFile[shell[p].name] = NoFile,
         step = "unlink" => /\ shell[p].cmd = "delete"
                            /\ walletFile[shell[p].name] = shell[p].password
  PROVE  Inv'
<1> DEFINE q == [shell[p] EXCEPT !.pc = step]
<1>0. /\ shell[p] \in Process /\ WellFormed(shell[p])
      /\ walletFile' \in [Names -> Passwords \cup {NoFile, Torn}]
      /\ configFile' \in Config \cup {NoFile, Torn}
      /\ configFile \in Config \cup {NoFile, Torn}
  BY DEF files, Inv, Held, TypeOK, CommandsWellFormed
<1>1. CASE GoOn(p, step)
  <2>1. /\ Continue(p, q) /\ q \in Process /\ q.pc = step /\ q.cmd = shell[p].cmd
        /\ q.back = "idle" /\ q.name = shell[p].name /\ q.password = shell[p].password
    BY <1>0, <1>1 DEF GoOn, Process, Steps
  <2>2. WellFormed(q)
    BY <1>0, <2>1 DEF WellFormed
  <2> HIDE DEF q
  <2>3. Held' /\ Running' = Running /\ overlapped' = overlapped
    BY <1>0, <2>1, <2>2, ContinueHeld DEF Inv
  <2>4. shell'[p] = q /\ UNCHANGED walletFile
    BY <2>1 DEF Continue, files, Inv, Held, TypeOK
  <2>5. Seen(p)'
    BY <2>1, <2>4 DEF Seen
  <2>6. QED
    BY <2>3, <2>5, OthersSeeNothing DEF Inv
<1>2. CASE End(p, configFile)
  <2>1. Held' /\ Running' = Running \ {p} /\ overlapped' = overlapped \ {p}
    BY <1>0, <1>2, EndHeld DEF Inv
  <2>2. QED
    BY <2>1, OthersSeeNothing DEF Inv
<1>3. QED
  BY <1>1, <1>2

\* Looking for the file before it is created.
LEMMA CheckFreeStep ==
  ASSUME Inv, NEW p \in Shells, CheckFree(p)
  PROVE  Inv' /\ UNCHANGED walletFile
<1>1. /\ p \in Running /\ shell[p].back = "idle" /\ shell[p].cmd = "create"
  BY Arguments DEF CheckFree, Inv
<1>2. UNCHANGED files
  BY DEF CheckFree
<1>3. CASE walletFile[shell[p].name] = NoFile
  BY <1>1, <1>2, <1>3, LookStep DEF CheckFree, files
<1>4. CASE walletFile[shell[p].name] # NoFile
  <2>1. End(p, configFile)
    BY <1>4 DEF CheckFree
  <2>2. Held' /\ Running' = Running \ {p} /\ overlapped' = overlapped \ {p}
    BY <1>1, <1>2, <2>1, EndHeld DEF Inv, Held, TypeOK, files
  <2>3. QED
    BY <1>1, <1>2, <2>2, OthersSeeNothing DEF Inv, files
<1>5. QED
  BY <1>3, <1>4

\* Looking up the address of the wallet to use, or of the active one.
LEMMA LookUpStep ==
  ASSUME Inv, NEW p \in Shells, LookUp(p)
  PROVE  Inv' /\ UNCHANGED walletFile
<1>1. p \in Running /\ shell[p].back = "idle" /\ shell[p].cmd \in {"use", "current"}
  BY DEF LookUp, Running, Inv, Held, CommandsWellFormed, WellFormed
<1>2. UNCHANGED files /\ (GoOn(p, "merge") \/ End(p, configFile))
  BY DEF LookUp
<1>3. QED
  BY <1>1, <1>2, LookStep DEF files

\* Decrypting the wallet before it is deleted.
LEMMA VerifyStep ==
  ASSUME Inv, NEW p \in Shells, Verify(p)
  PROVE  Inv' /\ UNCHANGED walletFile
<1>1. p \in Running /\ shell[p].back = "idle" /\ shell[p].cmd = "delete"
  BY Arguments DEF Verify, Inv
<1>2. UNCHANGED files
  BY DEF Verify
<1>3. CASE walletFile[shell[p].name] = shell[p].password
  BY <1>1, <1>2, <1>3, LookStep DEF Verify, files
<1>4. CASE walletFile[shell[p].name] # shell[p].password
  <2>1. End(p, configFile)
    BY <1>4 DEF Verify
  <2>2. Held' /\ Running' = Running \ {p} /\ overlapped' = overlapped \ {p}
    BY <1>1, <1>2, <2>1, EndHeld DEF Inv, Held, TypeOK, files
  <2>3. QED
    BY <1>1, <1>2, <2>2, OthersSeeNothing DEF Inv, files
<1>5. QED
  BY <1>3, <1>4

\* Creating a wallet truncates a file only where there was none.
LEMMA OpenWalletStep ==
  ASSUME Inv, NEW p \in Shells, OpenWallet(p)
  PROVE  Inv' /\ KeepsWallets
<1> DEFINE q == [shell[p] EXCEPT !.pc = "writeWallet"]
<1>1. /\ p \in Running /\ shell[p] \in Process /\ WellFormed(shell[p])
      /\ shell[p].name \in Names /\ shell[p].cmd = "create" /\ shell[p].back = "idle"
  BY Arguments DEF OpenWallet, Inv
<1>2. /\ shell[p].pc = "openWallet" /\ Continue(p, q) /\ UNCHANGED configFile
      /\ walletFile' = [walletFile EXCEPT ![shell[p].name] = Torn]
      /\ walletFile \in [Names -> Passwords \cup {NoFile, Torn}]
      /\ configFile' \in Config \cup {NoFile, Torn}
  BY DEF OpenWallet, GoOn, Inv, Held, TypeOK
<1>3. /\ q \in Process /\ q.pc = "writeWallet" /\ q.cmd = "create" /\ q.back = "idle"
      /\ q.name = shell[p].name
  BY <1>1 DEF Process, Steps
<1>4. WellFormed(q)
  BY <1>1, <1>2 DEF WellFormed
<1> HIDE DEF q
<1>5. Held' /\ Running' = Running /\ overlapped' = overlapped
  BY <1>1, <1>2, <1>3, <1>4, ContinueHeld DEF Inv
<1>6. shell'[p] = q
  BY <1>2 DEF Continue, Inv, Held, TypeOK
<1>7. Seen(p)'
  BY <1>1, <1>2, <1>3, <1>6 DEF Seen
<1>8. KeepsWallets
  <2>1. p \in overlapped \/ walletFile[shell[p].name] = NoFile
    BY <1>1, <1>2 DEF Inv, SeenHolds, Seen
  <2>2. QED
    BY <1>1, <1>2, <2>1, WalletConstants DEF KeepsWallets
<1>9. QED
  BY <1>1, <1>5, <1>7, <1>8, OthersSeeNothing DEF Inv

\* Writing it fills in the file it has truncated.
LEMMA WriteWalletStep ==
  ASSUME Inv, NEW p \in Shells, WriteWallet(p)
  PROVE  Inv' /\ KeepsWallets
<1>1. /\ p \in Running /\ shell[p].name \in Names /\ shell[p].password \in Passwords
  BY Arguments DEF WriteWallet, Inv
<1>2. /\ shell[p].pc = "writeWallet" /\ End(p, configFile) /\ UNCHANGED configFile
      /\ walletFile \in [Names -> Passwords \cup {NoFile, Torn}]
      /\ configFile \in Config \cup {NoFile, Torn}
  BY DEF WriteWallet, Inv, Held, TypeOK
<1>3. PICK contents \in Passwords \cup {NoFile, Torn} :
        walletFile' = [walletFile EXCEPT ![shell[p].name] = contents]
  BY <1>1 DEF WriteWallet, Written
<1>4. Held' /\ Running' = Running \ {p} /\ overlapped' = overlapped \ {p}
  BY <1>1, <1>2, <1>3, EndHeld DEF Inv
<1>5. KeepsWallets
  <2>1. p \in overlapped \/ walletFile[shell[p].name] = Torn
    BY <1>1, <1>2 DEF Inv, SeenHolds, Seen
  <2>2. QED
    BY <1>1, <1>2, <1>3, <2>1, WalletConstants DEF KeepsWallets
<1>6. QED
  BY <1>1, <1>4, <1>5, OthersSeeNothing DEF Inv

\* Deleting a wallet removes the file the password was tried on.
LEMMA UnlinkStep ==
  ASSUME Inv, NEW p \in Shells, Unlink(p)
  PROVE  Inv' /\ KeepsWallets
<1> DEFINE q == [shell[p] EXCEPT !.pc = "active"]
<1>1. /\ p \in Running /\ shell[p] \in Process /\ WellFormed(shell[p])
      /\ shell[p].name \in Names /\ shell[p].cmd = "delete" /\ shell[p].back = "idle"
  BY Arguments DEF Unlink, Inv
<1>2. /\ shell[p].pc = "unlink" /\ UNCHANGED configFile
      /\ walletFile' = [walletFile EXCEPT ![shell[p].name] = NoFile]
      /\ walletFile \in [Names -> Passwords \cup {NoFile, Torn}]
      /\ configFile \in Config \cup {NoFile, Torn}
      /\ Continue(p, q) \/ End(p, configFile)
  BY DEF Unlink, GoOn, Inv, Held, TypeOK
<1>3. walletFile' \in [Names -> Passwords \cup {NoFile, Torn}]
  BY <1>2
<1>4. KeepsWallets
  <2>1. p \in overlapped \/ walletFile[shell[p].name] = shell[p].password
    BY <1>1, <1>2 DEF Inv, SeenHolds, Seen
  <2>2. QED
    BY <1>1, <1>2, <2>1 DEF KeepsWallets
<1>5. CASE Continue(p, q)
  <2>1. q \in Process /\ q.pc = "active" /\ q.cmd = "delete" /\ q.back = "idle"
    BY <1>1 DEF Process, Steps
  <2>2. WellFormed(q)
    BY <1>1 DEF WellFormed
  <2> HIDE DEF q
  <2>3. Held' /\ Running' = Running /\ overlapped' = overlapped
    BY <1>1, <1>2, <1>3, <1>5, <2>1, <2>2, ContinueHeld DEF Inv
  <2>4. shell'[p] = q
    BY <1>5 DEF Continue, Inv, Held, TypeOK
  <2>5. Seen(p)'
    BY <2>1, <2>4 DEF Seen
  <2>6. QED
    BY <1>1, <1>4, <2>3, <2>5, OthersSeeNothing DEF Inv
<1>6. CASE End(p, configFile)
  <2>1. Held' /\ Running' = Running \ {p} /\ overlapped' = overlapped \ {p}
    BY <1>1, <1>2, <1>3, <1>6, EndHeld DEF Inv
  <2>2. QED
    BY <1>1, <1>4, <2>1, OthersSeeNothing DEF Inv
<1>7. QED
  BY <1>2, <1>5, <1>6

\* A kill leaves the files as they are.
LEMMA CrashStep ==
  ASSUME Inv, NEW p \in Shells, Crash(p)
  PROVE  Inv' /\ UNCHANGED walletFile
<1>1. /\ p \in Running /\ UNCHANGED <<files, wanted>> /\ clean' = FALSE
      /\ shell' = [shell EXCEPT ![p] = Idle] /\ overlapped' = overlapped \ {p}
      /\ crashes < MaxCrashes /\ crashes' = crashes + 1
  BY DEF Crash, Running
<1>2. /\ shell' \in [Shells -> Process] /\ shell'[p] = Idle
      /\ \A r \in Shells : r # p => shell'[r] = shell[r]
  BY <1>1, IdleIsAProcess DEF Inv, Held, TypeOK
<1>3. crashes' \in 0 .. MaxCrashes
  BY <1>1, WalletConstants DEF Inv, Held, TypeOK
<1>4. TypeOK'
  BY <1>1, <1>2, <1>3 DEF Inv, Held, TypeOK, files
<1>5. Running' = Running \ {p}
  BY <1>2 DEF Running, Idle
<1>6. Alone'
  BY <1>1, <1>5 DEF Inv, Held, Alone
<1>7. CommandsWellFormed'
  BY <1>2, IdleIsAProcess DEF Inv, Held, CommandsWellFormed
<1>8. SeenHolds'
  BY <1>1, <1>5, OthersSeeNothing DEF Inv
<1>9. QED
  BY <1>1, <1>4, <1>6, <1>7, <1>8 DEF Inv, Held, files

\* Every step keeps the invariant, and the wallets but for a delete.
LEMMA InvNext == Inv /\ [Next]_vars => Inv' /\ KeepsWallets
<1>1. ASSUME Inv, UNCHANGED vars PROVE Inv' /\ KeepsWallets
  BY <1>1 DEF vars, files, Inv, Held, TypeOK, Alone, CommandsWellFormed, SeenHolds, Seen,
              Running, KeepsWallets
<1>2. ASSUME Inv, UNCHANGED walletFile PROVE KeepsWallets
  BY <1>2 DEF KeepsWallets
<1>3. ASSUME Inv, Next PROVE Inv' /\ KeepsWallets
  <2>1. PICK p \in Shells :
          \/ BeginSome(p) \/ GetConfig(p) \/ OpenConfig(p) \/ WriteConfig(p)
          \/ CheckFree(p) \/ OpenWallet(p) \/ WriteWallet(p)
          \/ LookUp(p) \/ Verify(p) \/ Unlink(p) \/ Crash(p)
    BY <1>3 DEF Next
  <2>2. CASE BeginSome(p)
    BY <1>2, <1>3, <2>2, BeginStep
  <2>3. CASE GetConfig(p)
    BY <1>2, <1>3, <2>3, GetConfigStep
  <2>4. CASE OpenConfig(p)
    BY <1>2, <1>3, <2>4, OpenConfigStep
  <2>5. CASE WriteConfig(p)
    BY <1>2, <1>3, <2>5, WriteConfigStep
  <2>6. CASE CheckFree(p)
    BY <1>2, <1>3, <2>6, CheckFreeStep
  <2>7. CASE OpenWallet(p)
    BY <1>3, <2>7, OpenWalletStep
  <2>8. CASE WriteWallet(p)
    BY <1>3, <2>8, WriteWalletStep
  <2>9. CASE LookUp(p)
    BY <1>2, <1>3, <2>9, LookUpStep
  <2>10. CASE Verify(p)
    BY <1>2, <1>3, <2>10, VerifyStep
  <2>11. CASE Unlink(p)
    BY <1>3, <2>11, UnlinkStep
  <2>12. CASE Crash(p)
    BY <1>2, <1>3, <2>12, CrashStep
  <2>13. QED
    BY <2>1, <2>2, <2>3, <2>4, <2>5, <2>6, <2>7, <2>8, <2>9, <2>10, <2>11, <2>12
<1>4. QED
  BY <1>1, <1>3

\* The inductive invariant holds of every reachable state.
THEOREM InvIsInvariant == Spec => []Inv
<1>1. QED
  BY InvInit, InvNext, PTL DEF Spec

\* Every file holds a wallet, a configuration, nothing or something torn, and
\* every running command is one the CLI has.
THEOREM WalletStoreTypeOK == Spec => []TypeOK
<1>1. Inv => TypeOK
  BY DEF Inv, Held
<1>2. QED
  BY <1>1, InvIsInvariant, PTL

\* A wallet that was completely written is lost only to a delete with its
\* password or to commands that ran side by side: createWallet writes only where
\* it found no file, deleteWallet removes only what it could decrypt.
THEOREM WalletsSurviveHolds == Spec => WalletsSurvive
<1>1. Inv /\ [Next]_vars => [KeepsWallets]_vars
  BY InvNext
<1>2. QED
  BY <1>1, InvIsInvariant, PTL DEF Spec, WalletsSurvive, KeepsWallets

-----------------------------------------------------------------------------
\* A configuration is neither an absent nor a torn file.
LEMMA SettingsOfConfig == ASSUME NEW c \in Config PROVE SettingsOf(c) = c.set
BY WalletConstants DEF SettingsOf

\* While clean, whoever runs is alone.
LEMMA CleanIsAlone ==
  ASSUME Held, clean, NEW p \in Running
  PROVE  p \notin overlapped /\ Running = {p}
BY DEF Held, Alone

\* A command that goes on does so on the way to the settings asked for.
LEMMA SettingsGoOn ==
  ASSUME Held, NEW p \in Running, UNCHANGED clean, Running' = Running,
         clean => SettingsOnTheWay(shell[p])'
  PROVE  SettingsHeld'
<1>1. clean => Running' = {p}
  BY CleanIsAlone
<1>2. QED
  BY <1>1 DEF SettingsHeld

\* A command that ends leaves the settings asked for.
LEMMA SettingsEnd ==
  ASSUME Held, Held', NEW p \in Running, End(p, configFile'), Running' = Running \ {p},
         clean /\ ~(shell[p].cmd = "current" /\ p \notin overlapped) =>
           SettingsOf(configFile') = Asked(shell[p])
  PROVE  SettingsHeld'
<1> SUFFICES ASSUME clean' PROVE Running' = {} /\ SettingsOf(configFile') = wanted'
  BY DEF SettingsHeld
<1> DEFINE fresh == shell[p].cmd = "current" /\ p \notin overlapped
<1>1. CASE fresh
  <2>1. Running' = {}
    BY <1>1 DEF Held, Alone
  <2>2. wanted' = SettingsOf(configFile')
    BY <1>1 DEF End
  <2>3. QED
    BY <2>1, <2>2
<1>2. CASE ~fresh
  <2>1. clean
    BY <1>2 DEF End
  <2>2. Running' = {}
    BY <2>1, CleanIsAlone
  <2>3. wanted' = Asked(shell[p])
    BY <1>2 DEF End, Asked
  <2>4. QED
    BY <1>2, <2>1, <2>2, <2>3
<1>3. QED
  BY <1>1, <1>2

\* What getConfig returned has the settings asked for, and so has what is merged
\* into it, but for what the command itself sets.
LEMMA SettingsReturned ==
  ASSUME Inv, Inv', NEW p \in Running, NEW q \in Process, NEW read \in Config,
         q.pc \in {"service", "active", "merge"}, q.back = "idle", WellFormed(q),
         q.cmd = shell[p].cmd, q.key = shell[p].key, Returned(p, q, read),
         clean => SettingsOf(configFile') = wanted /\ read.set = wanted
  PROVE  SettingsHeld'
<1>0. p \in Shells /\ shell \in [Shells -> Process]
  BY DEF Running, Inv, Held, TypeOK
<1>1. ASSUME NEW r \in Process, Continue(p, r), r.pc # "idle",
             r.pc \in {"open", "write"} =>
               r.pc = "open" /\ r.back = "idle" /\ (clean => r.config.set = Asked(r))
      PROVE  SettingsHeld'
  <2>1. shell'[p] = r /\ Running' = Running /\ UNCHANGED <<clean, wanted>>
    BY <1>0, <1>1 DEF Continue, Running
  <2>2. clean => SettingsOnTheWay(shell[p])'
    BY <1>1, <2>1 DEF SettingsOnTheWay, Asked
  <2>3. QED
    BY <2>1, <2>2, SettingsGoOn DEF Inv
<1>2. CASE q.pc = "merge"
  <2> DEFINE r == [q EXCEPT !.config = Merged(q, read), !.pc = "open"]
  <2>1. Continue(p, r)
    BY <1>2 DEF Returned
  <2>2. Merged(q, read) \in Config
    BY <1>2 DEF Merged, Config, WellFormed
  <2>3. /\ r \in Process /\ r.pc = "open" /\ r.back = "idle" /\ r.cmd = q.cmd /\ r.key = q.key
        /\ r.config = Merged(q, read)
    BY <2>2 DEF Process, Steps
  <2>4. clean => r.config.set = Asked(r)
    BY <1>2, <2>3 DEF Merged, Asked, Config, WellFormed
  <2> HIDE DEF r
  <2>5. QED
    BY <1>1, <2>1, <2>3, <2>4
<1>3. CASE q.pc = "service" /\ q.cmd # "show"
  <2> DEFINE r == [q EXCEPT !.pc = AfterService(q.cmd)]
  <2>1. Continue(p, r)
    BY <1>3 DEF Returned
  <2>2. r \in Process /\ r.pc \in {"check", "verify", "lookup"}
    BY <1>3 DEF Process, Steps, AfterService
  <2> HIDE DEF r
  <2>3. QED
    BY <1>1, <2>1, <2>2
<1>4. CASE q.pc = "active" /\ ClearsActive(q, read)
  <2> DEFINE r == [q EXCEPT !.pc = "merge"]
  <2>1. Continue(p, r)
    BY <1>4 DEF Returned, ClearsActive
  <2>2. r \in Process /\ r.pc = "merge"
    BY DEF Process, Steps
  <2> HIDE DEF r
  <2>3. QED
    BY <1>1, <2>1, <2>2
<1>5. CASE /\ q.pc = "active" /\ ~ClearsActive(q, read)
           /\ q.cmd = "current" /\ read.active # NoName
  <2> DEFINE r == [q EXCEPT !.pc = "service", !.name = read.active]
  <2>1. Continue(p, r)
    BY <1>5 DEF Returned
  <2>2. r \in Process /\ r.pc = "service"
    BY <1>5 DEF Process, Steps, Config
  <2> HIDE DEF r
  <2>3. QED
    BY <1>1, <2>1, <2>2
<1>6. CASE End(p, configFile') /\ q.pc # "merge"
  <2>1. Running' = Running \ {p}
    BY <1>0, <1>6 DEF End, Running, Idle
  <2>2. shell[p].cmd \notin {"set", "reset"}
    BY <1>6 DEF WellFormed
  <2>3. Asked(shell[p]) = wanted
    BY <2>2 DEF Asked
  <2>4. QED
    BY <1>6, <2>1, <2>3, SettingsEnd DEF Inv
<1>7. QED
  BY <1>2, <1>3, <1>4, <1>5, <1>6 DEF Returned

\* A new command finds the settings asked for, and reset starts from the defaults.
LEMMA SettingsBegin ==
  ASSUME Inv, SettingsHeld, NEW p \in Shells, BeginSome(p)
  PROVE  SettingsHeld'
<1> SUFFICES ASSUME clean' PROVE p \in Running' /\ \A r \in Running' : SettingsOnTheWay(shell[r])'
  BY DEF SettingsHeld
<1>1. PICK cmd \in Commands, step \in Steps, name \in Names \cup {NoName},
           password \in Passwords \cup {NoPassword}, key \in Keys \cup {NoKey} :
        /\ Begin(p, cmd, step, name, password, key)
        /\ step \in {"service", "active", "merge", "open"}
        /\ step = "open" => cmd = "reset"
  BY BeginForm
<1>2. clean /\ Running = {} /\ UNCHANGED <<files, wanted>>
  BY <1>1 DEF Begin
<1>3. /\ shell'[p].pc = step /\ shell'[p].cmd = cmd /\ shell'[p].back = "idle"
      /\ shell'[p].config = DefaultConfig
      /\ \A r \in Shells : r # p => shell'[r] = shell[r]
  BY <1>1, IdleIsAProcess DEF Begin, Idle, Inv, Held, TypeOK
<1>4. Running' = {p}
  BY <1>1, <1>2, <1>3 DEF Running
<1>5. SettingsOf(configFile) = wanted
  BY <1>2 DEF SettingsHeld
<1>6. SettingsOnTheWay(shell[p])'
  BY <1>1, <1>2, <1>3, <1>5 DEF SettingsOnTheWay, SettingsOf, files, Asked, DefaultConfig
<1>7. QED
  BY <1>4, <1>6

\* getConfig reads the settings asked for, be it from no file or a torn one.
LEMMA SettingsGetConfig ==
  ASSUME Inv, Inv', SettingsHeld, NEW p \in Shells, GetConfig(p)
  PROVE  SettingsHeld'
<1>0. /\ p \in Running /\ UNCHANGED files /\ shell[p] \in Process /\ WellFormed(shell[p])
      /\ shell[p].pc \in {"service", "active", "merge"} /\ shell[p].back = "idle"
      /\ configFile \in Config \cup {NoFile, Torn}
  BY DEF GetConfig, Running, Inv, Held, TypeOK, CommandsWellFormed, WellFormed
<1>1. clean => SettingsOf(configFile) = wanted
  BY <1>0 DEF SettingsHeld, SettingsOnTheWay
<1>2. SettingsOf(NoFile) = {} /\ SettingsOf(Torn) = {}
  BY DEF SettingsOf
<1>3. CASE configFile = NoFile
  <2> DEFINE q == [shell[p] EXCEPT !.config = DefaultConfig, !.back = shell[p].pc, !.pc = "open"]
  <2>1. Continue(p, q) /\ q.pc = "open" /\ q.back # "idle"
    BY <1>0, <1>3 DEF GetConfig, Process
  <2> HIDE DEF q
  <2>2. shell'[p] = q /\ Running' = Running /\ UNCHANGED <<clean, wanted>>
    BY <1>0, <2>1 DEF Continue, Running, Inv, Held, TypeOK
  <2>3. clean => SettingsOnTheWay(shell[p])'
    BY <1>0, <1>1, <1>2, <1>3, <2>1, <2>2 DEF SettingsOnTheWay, files, SettingsOf
  <2>4. QED
    BY <1>0, <2>2, <2>3, SettingsGoOn DEF Inv
<1>4. CASE configFile # NoFile
  <2> DEFINE read == IF configFile = Torn THEN DefaultConfig ELSE configFile
  <2>1. Returned(p, shell[p], read)
    BY <1>4 DEF GetConfig
  <2>2. read \in Config /\ read.set = SettingsOf(configFile)
    BY <1>0, <1>2, <1>4, SettingsOfConfig DEF Config, DefaultConfig
  <2> HIDE DEF read
  <2>3. clean => SettingsOf(configFile') = wanted /\ read.set = wanted
    BY <1>0, <1>1, <2>2 DEF files
  <2>4. QED
    BY <1>0, <2>1, <2>2, <2>3, SettingsReturned
<1>5. QED
  BY <1>3, <1>4

\* Truncating the file loses nothing that is not about to be saved.
LEMMA SettingsOpenConfig ==
  ASSUME Inv, SettingsHeld, NEW p \in Shells, OpenConfig(p)
  PROVE  SettingsHeld'
<1> DEFINE q == [shell[p] EXCEPT !.pc = "write"]
<1>1. /\ p \in Running /\ Continue(p, q) /\ shell[p] \in Process /\ shell[p].pc = "open"
      /\ shell \in [Shells -> Process]
  BY DEF OpenConfig, GoOn, Running, Inv, Held, TypeOK
<1>2. /\ q.pc = "write" /\ q.back = shell[p].back /\ q.cmd = shell[p].cmd
      /\ q.key = shell[p].key /\ q.config = shell[p].config
  BY <1>1 DEF Process
<1> HIDE DEF q
<1>3. shell'[p] = q /\ Running' = Running /\ UNCHANGED <<clean, wanted>>
  BY <1>1, <1>2 DEF Continue, Running
<1>4. clean => SettingsOnTheWay(shell[p])
  BY <1>1 DEF SettingsHeld
<1>5. clean => SettingsOnTheWay(shell[p])'
  BY <1>1, <1>2, <1>3, <1>4 DEF SettingsOnTheWay, Asked
<1>6. QED
  BY <1>1, <1>3, <1>5, SettingsGoOn DEF Inv

\* A save leaves the settings asked for.
LEMMA SettingsWriteConfig ==
  ASSUME Inv, Inv', SettingsHeld, NEW p \in Shells, WriteConfig(p)
  PROVE  SettingsHeld'
<1>1. /\ p \in Running /\ shell[p] \in Process /\ WellFormed(shell[p]) /\ shell[p].pc = "write"
      /\ shell \in [Shells -> Process]
  BY DEF WriteConfig, Running, Inv, Held, TypeOK, CommandsWellFormed
<1>2. clean => configFile' = shell[p].config
  <2>1. clean => configFile = Torn
    BY <1>1, CleanIsAlone DEF Inv, SeenHolds, Seen
  <2>2. Written(shell[p].config, Torn) = {shell[p].config}
    BY WalletConstants DEF Written
  <2>3. QED
    BY <2>1, <2>2 DEF WriteConfig
<1>3. clean => SettingsOnTheWay(shell[p])
  BY <1>1 DEF SettingsHeld
<1>4. clean => SettingsOf(configFile') = shell[p].config.set
  BY <1>1, <1>2, SettingsOfConfig DEF Process
<1>5. CASE shell[p].back = "idle"
  <2>1. End(p, configFile')
    BY <1>5 DEF WriteConfig
  <2>2. Running' = Running \ {p}
    BY <1>1, <2>1 DEF End, Running, Idle
  <2>3. clean => SettingsOf(configFile') = Asked(shell[p])
    BY <1>1, <1>3, <1>4, <1>5 DEF SettingsOnTheWay
  <2>4. QED
    BY <1>1, <2>1, <2>2, <2>3, SettingsEnd DEF Inv
<1>6. CASE shell[p].back # "idle"
  <2> DEFINE q == [shell[p] EXCEPT !.pc = shell[p].back, !.back = "idle"]
  <2>1. Returned(p, q, DefaultConfig)
    BY <1>6 DEF WriteConfig
  <2>2. /\ q \in Process /\ q.back = "idle" /\ q.cmd = shell[p].cmd /\ q.key = shell[p].key
        /\ q.pc \in {"service", "active", "merge"}
    BY <1>1, <1>6 DEF Process, Steps
  <2>3. WellFormed(q)
    BY <1>1, <1>6 DEF WellFormed, Process
  <2>4. shell[p].config = DefaultConfig /\ DefaultConfig \in Config /\ DefaultConfig.set = {}
    BY <1>1, <1>6 DEF WellFormed, DefaultConfig, Config
  <2>5. clean => wanted = {}
    BY <1>1, <1>3, <1>6 DEF SettingsOnTheWay
  <2> HIDE DEF q
  <2>6. QED
    BY <1>1, <1>4, <2>1, <2>2, <2>3, <2>4, <2>5, SettingsReturned
<1>7. QED
  BY <1>5, <1>6

\* The steps that leave the configuration alone end a command that does not set
\* any of it, or bring it to a step that does not write it.
LEMMA SettingsOtherwise ==
  ASSUME Inv, Inv', SettingsHeld, NEW p \in Running, UNCHANGED configFile,
         shell[p].pc \notin {"open", "write"}, shell[p].cmd \notin {"set", "reset"},
         NEW step \in {"openWallet", "writeWallet", "merge", "unlink", "active"},
         GoOn(p, step) \/ End(p, configFile)
  PROVE  SettingsHeld'
<1>0. p \in Shells /\ shell \in [Shells -> Process] /\ shell[p] \in Process
  BY DEF Running, Inv, Held, TypeOK
<1>1. clean => SettingsOf(configFile) = wanted
  BY DEF SettingsHeld, SettingsOnTheWay
<1>2. CASE GoOn(p, step)
  <2>1. /\ shell' = [shell EXCEPT ![p] = [shell[p] EXCEPT !.pc = step]]
        /\ UNCHANGED <<clean, wanted>>
    BY <1>2 DEF GoOn, Continue
  <2>2. shell'[p].pc = step /\ Running' = Running
    BY <1>0, <2>1 DEF Process, Running
  <2>3. clean => SettingsOnTheWay(shell[p])'
    BY <1>1, <2>1, <2>2 DEF SettingsOnTheWay, SettingsOf
  <2>4. QED
    BY <2>1, <2>2, <2>3, SettingsGoOn DEF Inv
<1>3. CASE End(p, configFile)
  <2>1. Running' = Running \ {p}
    BY <1>0, <1>3 DEF End, Running, Idle
  <2>2. Asked(shell[p]) = wanted
    BY DEF Asked
  <2>3. QED
    BY <1>1, <1>3, <2>1, <2>2, SettingsEnd DEF Inv
<1>4. QED
  BY <1>2, <1>3

\* Every step keeps the settings on the way to those asked for.
LEMMA SettingsNext == Inv /\ Inv' /\ SettingsHeld /\ [Next]_vars => SettingsHeld'
<1>1. ASSUME SettingsHeld, UNCHANGED vars PROVE SettingsHeld'
  BY <1>1 DEF vars, files, SettingsHeld, SettingsOnTheWay, SettingsOf, Asked, Running
<1>2. ASSUME Inv, Inv', SettingsHeld, Next PROVE SettingsHeld'
  <2>1. PICK p \in Shells :
          \/ BeginSome(p) \/ GetConfig(p) \/ OpenConfig(p) \/ WriteConfig(p)
          \/ CheckFree(p) \/ OpenWallet(p) \/ WriteWallet(p)
          \/ LookUp(p) \/ Verify(p) \/ Unlink(p) \/ Crash(p)
    BY <1>2 DEF Next
  <2>2. CASE BeginSome(p)
    BY <1>2, <2>2, SettingsBegin
  <2>3. CASE GetConfig(p)
    BY <1>2, <2>3, SettingsGetConfig
  <2>4. CASE OpenConfig(p)
    BY <1>2, <2>4, SettingsOpenConfig
  <2>5. CASE WriteConfig(p)
    BY <1>2, <2>5, SettingsWriteConfig
  <2>6. ASSUME shell[p].pc \in {"check", "openWallet", "writeWallet", "lookup", "verify", "unlink"}
        PROVE  p \in Running /\ shell[p].cmd \notin {"set", "reset"}
    BY <1>2, <2>6 DEF Running, Inv, Held, CommandsWellFormed, WellFormed
  <2>7. CASE CheckFree(p)
    <3>1. UNCHANGED configFile /\ (GoOn(p, "openWallet") \/ End(p, configFile))
      BY <2>7 DEF CheckFree, files
    <3>2. QED
      BY <1>2, <2>6, <2>7, <3>1, SettingsOtherwise DEF CheckFree
  <2>8. CASE OpenWallet(p)
    BY <1>2, <2>6, <2>8, SettingsOtherwise DEF OpenWallet
  <2>9. CASE WriteWallet(p)
    BY <1>2, <2>6, <2>9, SettingsOtherwise DEF WriteWallet
  <2>10. CASE LookUp(p)
    <3>1. UNCHANGED configFile /\ (GoOn(p, "merge") \/ End(p, configFile))
      BY <2>10 DEF LookUp, files
    <3>2. QED
      BY <1>2, <2>6, <2>10, <3>1, SettingsOtherwise DEF LookUp
  <2>11. CASE Verify(p)
    <3>1. UNCHANGED configFile /\ (GoOn(p, "unlink") \/ End(p, configFile))
      BY <2>11 DEF Verify, files
    <3>2. QED
      BY <1>2, <2>6, <2>11, <3>1, SettingsOtherwise DEF Verify
  <2>12. CASE Unlink(p)
    <3>1. UNCHANGED configFile /\ (GoOn(p, "active") \/ End(p, configFile))
      BY <2>12 DEF Unlink
    <3>2. QED
      BY <1>2, <2>6, <2>12, <3>1, SettingsOtherwise DEF Unlink
  <2>13. CASE Crash(p)
    BY <2>13 DEF Crash, SettingsHeld
  <2>14. QED
    BY <2>1, <2>2, <2>3, <2>4, <2>5, <2>7, <2>8, <2>9, <2>10, <2>11, <2>12, <2>13
<1>3. QED
  BY <1>1, <1>2

\* When nothing runs and nothing went wrong since the last undisturbed
\* `wallets current`, the settings are those asked for: updateConfig,
\* setActiveWallet and clearActiveWallet save the whole file and lose none of it.
THEOREM SettingsAreKeptHolds == Spec => []SettingsAreKept
<1>1. Init => SettingsHeld
  BY DEF Init, SettingsHeld, SettingsOf, Running, Idle
<1>2. SettingsHeld => SettingsAreKept
  BY DEF SettingsHeld, SettingsAreKept
<1>3. QED
  BY <1>1, <1>2, SettingsNext, InvIsInvariant, PTL DEF Spec
-----------------------------------------------------------------------------
(* The active wallet.                                                       *)

\* The configuration, when there is one, names no wallet or one that is there.
Sound(file, wallets) ==
  file \in Config /\ file.active # NoName => wallets[file.active] # NoFile

\* A delete that has removed the wallet and may still have to clear it.
Unlinked(q) ==
  q.cmd = "delete" /\ q.pc \in {"active", "merge", "open", "write"} /\ q.back # "service"

\* The configuration of the files is sound, but for a wallet being deleted.
SoundBut(q, file, wallets) ==
  \/ Sound(file, wallets)
  \/ Unlinked(q) /\ file.active = q.name

\* What holds of the active wallet when q alone is running.
ActiveOnTheWay(q) ==
  /\ clean => SoundBut(q, configFile, walletFile)
  /\ q.pc \in {"open", "write"} /\ q.back = "idle" /\ (clean \/ q.cmd = "current") =>
       Sound(q.config, walletFile)
  /\ q.cmd = "use" /\ "merge" \in {q.pc, q.back} => walletFile[q.name] # NoFile

\* The files agree when nothing runs, and a command that runs alone keeps it so.
ActiveHeld ==
  /\ clean /\ Running = {} => Sound(configFile, walletFile)
  /\ \A p \in Running \ overlapped : ActiveOnTheWay(shell[p])

\* No file, a torn one and one without an active wallet are sound.
LEMMA SoundWithout ==
  ASSUME NEW file, NEW wallets, file \notin Config \/ file.active = NoName
  PROVE  Sound(file, wallets)
BY DEF Sound

\* The defaults name no wallet.
LEMMA DefaultIsSound == ASSUME NEW wallets PROVE Sound(DefaultConfig, wallets)
BY SoundWithout DEF DefaultConfig

\* Only one command can be free of overlaps.
LEMMA OneAlone ==
  ASSUME Held, NEW p \in Running
  PROVE  /\ p \notin overlapped => Running = {p}
         /\ \A r \in Running \ {p} : r \in overlapped
         /\ clean => p \notin overlapped
BY DEF Held, Alone

\* A command that goes on does so with a sound configuration in sight.
LEMMA ActiveGoesOn ==
  ASSUME Inv, NEW p \in Running, Running' = Running, overlapped' = overlapped,
         p \notin overlapped => ActiveOnTheWay(shell[p])'
  PROVE  ActiveHeld'
<1>1. \A r \in Running \ {p} : r \in overlapped
  BY OneAlone DEF Inv
<1>2. QED
  BY <1>1 DEF ActiveHeld

\* A command that ends leaves a sound configuration.
LEMMA ActiveEnds ==
  ASSUME Inv, NEW p \in Running, NEW config, End(p, config), Running' = Running \ {p},
         p \notin overlapped /\ (clean \/ shell[p].cmd = "current") =>
           Sound(configFile', walletFile')
  PROVE  ActiveHeld'
<1>1. /\ clean' = (clean \/ (shell[p].cmd = "current" /\ p \notin overlapped))
      /\ overlapped' = overlapped \ {p}
  BY DEF End
<1>2. Running' \ overlapped' = {}
  BY <1>1, OneAlone DEF Inv
<1>3. clean' => Sound(configFile', walletFile')
  BY <1>1, OneAlone DEF Inv
<1>4. QED
  BY <1>2, <1>3 DEF ActiveHeld

\* Once getConfig has returned what is in the file, or the defaults for a file
\* that does not parse, the command merges into it, goes on or ends; it ends
\* only when the file needs no change.
LEMMA ActiveReturned ==
  ASSUME Inv, NEW p \in Running, NEW q \in Process, NEW read \in Config,
         q.pc \in {"service", "active", "merge"}, q.back = "idle", WellFormed(q),
         q.cmd = shell[p].cmd, Returned(p, q, read),
         p \notin overlapped =>
           /\ read = configFile' \/ (read = DefaultConfig /\ configFile' \notin Config)
           /\ clean => SoundBut(q, configFile', walletFile')
           /\ q.cmd = "use" /\ q.pc = "merge" => walletFile'[q.name] # NoFile
  PROVE  ActiveHeld'
<1>0. p \in Shells /\ shell \in [Shells -> Process]
  BY DEF Running, Inv, Held, TypeOK
<1>1. ASSUME NEW r \in Process, Continue(p, r), r.pc # "idle",
             p \notin overlapped =>
               /\ clean => SoundBut(r, configFile', walletFile')
               /\ r.pc \in {"open", "write"} =>
                    r.back = "idle" /\ (clean \/ r.cmd = "current" => Sound(r.config, walletFile'))
               /\ ~(r.cmd = "use" /\ "merge" \in {r.pc, r.back})
      PROVE  ActiveHeld'
  <2>1. shell'[p] = r /\ Running' = Running /\ UNCHANGED <<clean, overlapped>>
    BY <1>0, <1>1 DEF Continue, Running
  <2>2. p \notin overlapped => ActiveOnTheWay(shell[p])'
    BY <1>1, <2>1 DEF ActiveOnTheWay
  <2>3. QED
    BY <2>1, <2>2, ActiveGoesOn
<1>2. CASE q.pc = "merge"
  <2> DEFINE r == [q EXCEPT !.config = Merged(q, read), !.pc = "open"]
  <2>1. Continue(p, r)
    BY <1>2 DEF Returned
  <2>2. Merged(q, read) \in Config
    BY <1>2 DEF Merged, Config, WellFormed
  <2>3. /\ r \in Process /\ r.pc = "open" /\ r.back = "idle" /\ r.cmd = q.cmd /\ r.name = q.name
        /\ r.config = Merged(q, read)
    BY <2>2 DEF Process, Steps
  <2>4. p \notin overlapped /\ clean => SoundBut(r, configFile', walletFile')
    BY <1>2, <2>3 DEF SoundBut, Unlinked
  <2>5. ASSUME p \notin overlapped, clean \/ r.cmd = "current"
        PROVE  Sound(Merged(q, read), walletFile')
    <3>1. CASE q.cmd = "use"
      <4>1. Merged(q, read).active = q.name
        BY <3>1 DEF Merged, Config
      <4>2. QED
        BY <1>2, <2>5, <3>1, <4>1 DEF Sound
    <3>2. CASE q.cmd = "set"
      <4>1. Merged(q, read).active = read.active
        BY <3>2 DEF Merged, Config
      <4>2. Sound(configFile', walletFile')
        BY <2>3, <2>5, <3>2 DEF SoundBut, Unlinked
      <4>3. Sound(read, walletFile')
        BY <2>5, <4>2, DefaultIsSound
      <4>4. QED
        BY <4>1, <4>3 DEF Sound
    <3>3. CASE q.cmd \notin {"use", "set"}
      <4>1. Merged(q, read).active = NoName
        BY <3>3 DEF Merged, Config
      <4>2. QED
        BY <4>1, SoundWithout
    <3>4. QED
      BY <3>1, <3>2, <3>3
  <2> HIDE DEF r
  <2>6. QED
    BY <1>1, <2>1, <2>3, <2>4, <2>5
<1>3. CASE q.pc = "service" /\ q.cmd # "show"
  <2> DEFINE r == [q EXCEPT !.pc = AfterService(q.cmd)]
  <2>1. Continue(p, r)
    BY <1>3 DEF Returned
  <2>2. /\ r \in Process /\ r.pc \in {"check", "verify", "lookup"} /\ r.back = "idle"
        /\ r.cmd = q.cmd
    BY <1>3 DEF Process, Steps, AfterService
  <2>3. p \notin overlapped /\ clean => SoundBut(r, configFile', walletFile')
    BY <1>3 DEF SoundBut, Unlinked
  <2> HIDE DEF r
  <2>4. QED
    BY <1>1, <2>1, <2>2, <2>3
<1>4. CASE q.pc = "active" /\ ClearsActive(q, read)
  <2> DEFINE r == [q EXCEPT !.pc = "merge"]
  <2>1. Continue(p, r)
    BY <1>4 DEF Returned, ClearsActive
  <2>2. /\ r \in Process /\ r.pc = "merge" /\ r.back = "idle" /\ r.cmd = q.cmd
        /\ r.name = q.name /\ r.cmd # "use"
    BY <1>4 DEF Process, Steps, ClearsActive
  <2>3. p \notin overlapped /\ clean => SoundBut(r, configFile', walletFile')
    BY <1>4, <2>2 DEF SoundBut, Unlinked
  <2> HIDE DEF r
  <2>4. QED
    BY <1>1, <2>1, <2>2, <2>3
<1>5. CASE /\ q.pc = "active" /\ ~ClearsActive(q, read)
           /\ q.cmd = "current" /\ read.active # NoName
  <2> DEFINE r == [q EXCEPT !.pc = "service", !.name = read.active]
  <2>1. Continue(p, r)
    BY <1>5 DEF Returned
  <2>2. r \in Process /\ r.pc = "service" /\ r.cmd = "current"
    BY <1>5 DEF Process, Steps, Config
  <2>3. p \notin overlapped /\ clean => SoundBut(r, configFile', walletFile')
    BY <1>5 DEF SoundBut, Unlinked
  <2> HIDE DEF r
  <2>4. QED
    BY <1>1, <2>1, <2>2, <2>3
<1>6. CASE /\ End(p, configFile')
           /\ q.pc = "service" => q.cmd = "show"
           /\ q.pc # "merge"
           /\ q.pc = "active" /\ q.cmd = "current" => read.active = NoName
           /\ q.pc = "active" => ~ClearsActive(q, read)
  <2>1. Running' = Running \ {p}
    BY <1>0, <1>6 DEF End, Running, Idle
  <2>2. ASSUME p \notin overlapped, clean \/ shell[p].cmd = "current"
        PROVE  Sound(configFile', walletFile')
    <3>1. CASE configFile' \notin Config
      BY <3>1, SoundWithout
    <3>2. CASE configFile' \in Config /\ q.cmd \in {"current", "unset"}
      <4>1. read = configFile' /\ q.pc = "active"
        BY <1>6, <2>2, <3>2
      <4>2. read.active = NoName
        BY <1>6, <3>2, <4>1 DEF ClearsActive
      <4>3. QED
        BY <4>1, <4>2, SoundWithout
    <3>3. CASE configFile' \in Config /\ q.cmd \notin {"current", "unset"}
      <4>1. read = configFile' /\ SoundBut(q, configFile', walletFile')
        BY <2>2, <3>3
      <4>2. ~(Unlinked(q) /\ configFile'.active = q.name)
        <5>1. SUFFICES ASSUME Unlinked(q), configFile'.active = q.name
                       PROVE  FALSE
          OBVIOUS
        <5>2. q.pc = "active" /\ q.cmd = "delete"
          BY <1>6, <5>1 DEF Unlinked
        <5>3. read.active = q.name
          BY <4>1, <5>1
        <5>4. QED
          BY <1>6, <5>2, <5>3 DEF ClearsActive
      <4>3. QED
        BY <4>1, <4>2 DEF SoundBut
    <3>4. QED
      BY <3>1, <3>2, <3>3
  <2>3. QED
    BY <1>6, <2>1, <2>2, ActiveEnds
<1>7. QED
  BY <1>2, <1>3, <1>4, <1>5, <1>6 DEF Returned

\* A new command finds a sound configuration, and reset saves one.
LEMMA ActiveBegin ==
  ASSUME Inv, ActiveHeld, NEW p \in Shells, BeginSome(p)
  PROVE  ActiveHeld'
<1>1. PICK cmd \in Commands, step \in Steps, name \in Names \cup {NoName},
           password \in Passwords \cup {NoPassword}, key \in Keys \cup {NoKey} :
        /\ Begin(p, cmd, step, name, password, key)
        /\ step \in {"service", "active", "merge", "open"}
        /\ WellFormed(Started(cmd, step, name, password, key))
        /\ step = "open" => cmd = "reset"
        /\ step = "merge" => cmd = "set"
  BY BeginForm
<1>2. /\ clean' = (clean /\ Running = {}) /\ UNCHANGED files
      /\ overlapped' = IF Running = {} THEN {} ELSE Running \cup {p}
  BY <1>1 DEF Begin
<1>3. /\ shell'[p].pc = step /\ shell'[p].cmd = cmd /\ shell'[p].back = "idle"
      /\ shell'[p].config = DefaultConfig
      /\ \A r \in Shells : r # p => shell'[r] = shell[r]
  BY <1>1, IdleIsAProcess DEF Begin, Idle, Inv, Held, TypeOK
<1>4. Running' = Running \cup {p}
  BY <1>1, <1>3 DEF Running
<1>5. clean' => Sound(configFile', walletFile')
  BY <1>2 DEF ActiveHeld, files
<1>6. ActiveOnTheWay(shell[p])'
  BY <1>1, <1>3, <1>5, DefaultIsSound DEF ActiveOnTheWay, SoundBut
<1>7. Running' \ overlapped' \subseteq {p}
  BY <1>2, <1>4
<1>8. QED
  BY <1>4, <1>6, <1>7 DEF ActiveHeld

\* getConfig changes nothing that is not torn or missing.
LEMMA ActiveGetConfig ==
  ASSUME Inv, ActiveHeld, NEW p \in Shells, GetConfig(p)
  PROVE  ActiveHeld'
<1>0. /\ p \in Running /\ UNCHANGED files /\ shell[p] \in Process /\ WellFormed(shell[p])
      /\ shell[p].pc \in {"service", "active", "merge"} /\ shell[p].back = "idle"
      /\ configFile \in Config \cup {NoFile, Torn}
  BY DEF GetConfig, Running, Inv, Held, TypeOK, CommandsWellFormed, WellFormed
<1>1. p \notin overlapped => ActiveOnTheWay(shell[p])
  BY <1>0 DEF ActiveHeld
<1>2. NoFile \notin Config /\ Torn \notin Config /\ DefaultConfig \in Config
  BY WalletConstants DEF DefaultConfig, Config
<1>3. CASE configFile = NoFile
  <2> DEFINE q == [shell[p] EXCEPT !.config = DefaultConfig, !.back = shell[p].pc, !.pc = "open"]
  <2>1. /\ Continue(p, q) /\ q.pc = "open" /\ q.back = shell[p].pc /\ q.cmd = shell[p].cmd
        /\ q.name = shell[p].name
    BY <1>0, <1>3 DEF GetConfig, Process
  <2> HIDE DEF q
  <2>2. shell'[p] = q /\ Running' = Running /\ UNCHANGED <<clean, overlapped>>
    BY <1>0, <2>1 DEF Continue, Running, Inv, Held, TypeOK
  <2>3. Sound(configFile', walletFile')
    BY <1>0, <1>2, <1>3, SoundWithout DEF files
  <2>4. p \notin overlapped => ActiveOnTheWay(shell[p])'
    BY <1>0, <1>1, <2>1, <2>2, <2>3 DEF ActiveOnTheWay, SoundBut, files
  <2>5. QED
    BY <1>0, <2>2, <2>4, ActiveGoesOn
<1>4. CASE configFile # NoFile
  <2> DEFINE read == IF configFile = Torn THEN DefaultConfig ELSE configFile
  <2>1. Returned(p, shell[p], read)
    BY <1>4 DEF GetConfig
  <2>2. /\ read \in Config
        /\ read = configFile' \/ (read = DefaultConfig /\ configFile' \notin Config)
    BY <1>0, <1>2, <1>4 DEF files
  <2> HIDE DEF read
  <2>3. p \notin overlapped =>
          /\ clean => SoundBut(shell[p], configFile', walletFile')
          /\ shell[p].cmd = "use" /\ shell[p].pc = "merge" => walletFile'[shell[p].name] # NoFile
    BY <1>0, <1>1 DEF ActiveOnTheWay, files
  <2>4. QED
    BY <1>0, <2>1, <2>2, <2>3, ActiveReturned
<1>5. QED
  BY <1>3, <1>4

\* Truncating the file leaves what is to be saved in the hands of the command.
LEMMA ActiveOpenConfig ==
  ASSUME Inv, ActiveHeld, NEW p \in Shells, OpenConfig(p)
  PROVE  ActiveHeld'
<1> DEFINE q == [shell[p] EXCEPT !.pc = "write"]
<1>1. /\ p \in Running /\ Continue(p, q) /\ shell[p] \in Process /\ shell[p].pc = "open"
      /\ shell \in [Shells -> Process] /\ configFile' = Torn /\ UNCHANGED walletFile
  BY DEF OpenConfig, GoOn, Running, Inv, Held, TypeOK
<1>2. /\ q.pc = "write" /\ q.back = shell[p].back /\ q.cmd = shell[p].cmd
      /\ q.name = shell[p].name /\ q.config = shell[p].config
  BY <1>1 DEF Process
<1> HIDE DEF q
<1>3. shell'[p] = q /\ Running' = Running /\ UNCHANGED <<clean, overlapped>>
  BY <1>1, <1>2 DEF Continue, Running
<1>4. p \notin overlapped => ActiveOnTheWay(shell[p])
  BY <1>1 DEF ActiveHeld
<1>5. Sound(configFile', walletFile')
  BY <1>1, SoundWithout, WalletConstants
<1>6. p \notin overlapped => ActiveOnTheWay(shell[p])'
  BY <1>1, <1>2, <1>3, <1>4, <1>5 DEF ActiveOnTheWay, SoundBut
<1>7. QED
  BY <1>1, <1>3, <1>6, ActiveGoesOn

\* A save leaves what the command had in its hands.
LEMMA ActiveWriteConfig ==
  ASSUME Inv, ActiveHeld, NEW p \in Shells, WriteConfig(p)
  PROVE  ActiveHeld'
<1>1. /\ p \in Running /\ shell[p] \in Process /\ WellFormed(shell[p]) /\ shell[p].pc = "write"
      /\ shell \in [Shells -> Process] /\ UNCHANGED walletFile
  BY DEF WriteConfig, Running, Inv, Held, TypeOK, CommandsWellFormed
<1>2. p \notin overlapped => configFile' = shell[p].config
  <2>1. p \notin overlapped => configFile = Torn
    BY <1>1 DEF Inv, SeenHolds, Seen
  <2>2. Written(shell[p].config, Torn) = {shell[p].config}
    BY WalletConstants DEF Written
  <2>3. QED
    BY <2>1, <2>2 DEF WriteConfig
<1>3. p \notin overlapped => ActiveOnTheWay(shell[p])
  BY <1>1 DEF ActiveHeld
<1>4. CASE shell[p].back = "idle"
  <2>1. End(p, configFile')
    BY <1>4 DEF WriteConfig
  <2>2. Running' = Running \ {p}
    BY <1>1, <2>1 DEF End, Running, Idle
  <2>3. p \notin overlapped /\ (clean \/ shell[p].cmd = "current") =>
          Sound(configFile', walletFile')
    BY <1>1, <1>2, <1>3, <1>4 DEF ActiveOnTheWay
  <2>4. QED
    BY <1>1, <2>1, <2>2, <2>3, ActiveEnds
<1>5. CASE shell[p].back # "idle"
  <2> DEFINE q == [shell[p] EXCEPT !.pc = shell[p].back, !.back = "idle"]
  <2>1. Returned(p, q, DefaultConfig)
    BY <1>5 DEF WriteConfig
  <2>2. /\ q \in Process /\ q.back = "idle" /\ q.cmd = shell[p].cmd /\ q.name = shell[p].name
        /\ q.pc = shell[p].back /\ q.pc \in {"service", "active", "merge"}
    BY <1>1, <1>5 DEF Process, Steps
  <2>3. WellFormed(q)
    BY <1>1, <1>5 DEF WellFormed, Process
  <2>4. shell[p].config = DefaultConfig /\ DefaultConfig \in Config
    BY <1>1, <1>5 DEF WellFormed, DefaultConfig, Config
  <2> HIDE DEF q
  <2>5. p \notin overlapped =>
          /\ DefaultConfig = configFile'
          /\ SoundBut(q, configFile', walletFile')
          /\ q.cmd = "use" /\ q.pc = "merge" => walletFile'[q.name] # NoFile
    BY <1>1, <1>2, <1>3, <2>2, <2>4, DefaultIsSound DEF ActiveOnTheWay, SoundBut
  <2>6. QED
    BY <1>1, <2>1, <2>2, <2>3, <2>4, <2>5, ActiveReturned
<1>6. QED
  BY <1>4, <1>5

\* The steps that leave the configuration alone and take no wallet away.
LEMMA ActiveOtherwise ==
  ASSUME Inv, ActiveHeld, NEW p \in Running, UNCHANGED configFile,
         shell[p].pc \notin {"open", "write", "merge"}, shell[p].back = "idle",
         ~Unlinked(shell[p]),
         NEW step \in {"openWallet", "writeWallet", "merge", "unlink"},
         GoOn(p, step) \/ End(p, configFile),
         p \notin overlapped =>
           /\ \A name \in Names : walletFile[name] # NoFile => walletFile'[name] # NoFile
           /\ step = "merge" /\ shell[p].cmd = "use" /\ GoOn(p, step) =>
                walletFile'[shell[p].name] # NoFile
           /\ End(p, configFile) /\ shell[p].cmd = "current" => Sound(configFile', walletFile')
  PROVE  ActiveHeld'
<1>0. p \in Shells /\ shell \in [Shells -> Process] /\ shell[p] \in Process
  BY DEF Running, Inv, Held, TypeOK
<1>1. p \notin overlapped /\ clean => Sound(configFile', walletFile')
  <2>1. p \notin overlapped /\ clean => Sound(configFile, walletFile)
    BY DEF ActiveHeld, ActiveOnTheWay, SoundBut
  <2>2. QED
    BY <2>1 DEF Sound, Config
<1>2. CASE GoOn(p, step)
  <2>1. /\ shell' = [shell EXCEPT ![p] = [shell[p] EXCEPT !.pc = step]]
        /\ UNCHANGED <<clean, overlapped>>
    BY <1>2 DEF GoOn, Continue
  <2>2. /\ shell'[p].pc = step /\ shell'[p].cmd = shell[p].cmd /\ shell'[p].back = "idle"
        /\ shell'[p].name = shell[p].name /\ Running' = Running
    BY <1>0, <2>1 DEF Process, Running
  <2>3. p \notin overlapped => ActiveOnTheWay(shell[p])'
    BY <1>1, <1>2, <2>1, <2>2 DEF ActiveOnTheWay, SoundBut
  <2>4. QED
    BY <2>1, <2>2, <2>3, ActiveGoesOn
<1>3. CASE End(p, configFile)
  <2>1. Running' = Running \ {p}
    BY <1>0, <1>3 DEF End, Running, Idle
  <2>2. QED
    BY <1>1, <1>3, <2>1, ActiveEnds
<1>4. QED
  BY <1>2, <1>3

\* A wallet that is deleted is the only one that may be missed, until delete has
\* looked whether it is the active one.
LEMMA ActiveUnlink ==
  ASSUME Inv, ActiveHeld, NEW p \in Shells, Unlink(p)
  PROVE  ActiveHeld'
<1>1. /\ p \in Running /\ shell[p] \in Process /\ shell[p].name \in Names
      /\ shell[p].password \in Passwords /\ shell[p].cmd = "delete" /\ shell[p].back = "idle"
  BY Arguments DEF Unlink, Inv
<1>2. /\ shell[p].pc = "unlink" /\ UNCHANGED configFile
      /\ walletFile' = [walletFile EXCEPT ![shell[p].name] = NoFile]
      /\ shell \in [Shells -> Process] /\ walletFile \in [Names -> Passwords \cup {NoFile, Torn}]
  BY DEF Unlink, Inv, Held, TypeOK
<1>3. p \notin overlapped => walletFile[shell[p].name] # NoFile
  BY <1>1, <1>2, WalletConstants DEF Inv, SeenHolds, Seen
<1>4. CASE walletFile[shell[p].name] = NoFile
  <2>1. p \in overlapped /\ End(p, configFile)
    BY <1>3, <1>4 DEF Unlink
  <2>2. Running' = Running \ {p}
    BY <1>1, <1>2, <2>1 DEF End, Running, Idle
  <2>3. QED
    BY <1>1, <2>1, <2>2, ActiveEnds
<1>5. CASE walletFile[shell[p].name] # NoFile
  <2>1. /\ shell' = [shell EXCEPT ![p] = [shell[p] EXCEPT !.pc = "active"]]
        /\ UNCHANGED <<clean, overlapped>>
    BY <1>5 DEF Unlink, GoOn, Continue
  <2>2. /\ shell'[p].pc = "active" /\ shell'[p].cmd = "delete" /\ shell'[p].back = "idle"
        /\ shell'[p].name = shell[p].name /\ Running' = Running
    BY <1>1, <1>2, <2>1 DEF Process, Running
  <2>3. p \notin overlapped /\ clean => Sound(configFile, walletFile)
    BY <1>1, <1>2 DEF ActiveHeld, ActiveOnTheWay, SoundBut, Unlinked
  <2>4. Unlinked(shell'[p])
    BY <2>2 DEF Unlinked
  <2>5. p \notin overlapped /\ clean => SoundBut(shell'[p], configFile', walletFile')
    <3>1. SUFFICES ASSUME Sound(configFile, walletFile), configFile \in Config,
                          configFile.active # shell[p].name
                   PROVE  Sound(configFile', walletFile')
      BY <1>2, <2>2, <2>3, <2>4, SoundWithout DEF SoundBut
    <3>2. QED
      BY <1>2, <3>1 DEF Sound, Config
  <2>6. p \notin overlapped => ActiveOnTheWay(shell[p])'
    BY <2>1, <2>2, <2>5 DEF ActiveOnTheWay
  <2>7. QED
    BY <1>1, <2>1, <2>2, <2>6, ActiveGoesOn
<1>6. QED
  BY <1>4, <1>5

\* A command that goes on has not ended.
LEMMA GoesOnOrEnds ==
  ASSUME Inv, NEW p \in Shells, NEW step, step # "idle", GoOn(p, step)
  PROVE  ~End(p, configFile)
<1>1. shell'[p].pc = step
  BY DEF GoOn, Continue, Inv, Held, TypeOK, Process
<1>2. End(p, configFile) => shell'[p].pc = "idle"
  BY DEF End, Inv, Held, TypeOK, Idle
<1>3. QED
  BY <1>1, <1>2

\* Every step keeps the active wallet sound, or on its way there.
LEMMA ActiveNext == Inv /\ ActiveHeld /\ [Next]_vars => ActiveHeld'
<1>1. ASSUME ActiveHeld, UNCHANGED vars PROVE ActiveHeld'
  BY <1>1 DEF vars, files, ActiveHeld, ActiveOnTheWay, SoundBut, Running
<1>2. ASSUME Inv, ActiveHeld, Next PROVE ActiveHeld'
  <2>1. PICK p \in Shells :
          \/ BeginSome(p) \/ GetConfig(p) \/ OpenConfig(p) \/ WriteConfig(p)
          \/ CheckFree(p) \/ OpenWallet(p) \/ WriteWallet(p)
          \/ LookUp(p) \/ Verify(p) \/ Unlink(p) \/ Crash(p)
    BY <1>2 DEF Next
  <2>2. CASE BeginSome(p)
    BY <1>2, <2>2, ActiveBegin
  <2>3. CASE GetConfig(p)
    BY <1>2, <2>3, ActiveGetConfig
  <2>4. CASE OpenConfig(p)
    BY <1>2, <2>4, ActiveOpenConfig
  <2>5. CASE WriteConfig(p)
    BY <1>2, <2>5, ActiveWriteConfig
  <2>6. ASSUME shell[p].pc \in {"check", "openWallet", "writeWallet", "lookup", "verify"}
        PROVE  /\ p \in Running /\ shell[p].back = "idle" /\ ~Unlinked(shell[p])
               /\ shell[p].pc \notin {"open", "write", "merge"}
               /\ shell[p].pc # "lookup" => shell[p].cmd \in {"create", "delete"}
    BY <1>2, <2>6 DEF Running, Inv, Held, CommandsWellFormed, WellFormed, Unlinked
  <2>7. CASE CheckFree(p)
    <3>1. UNCHANGED files /\ (GoOn(p, "openWallet") \/ End(p, configFile))
      BY <2>7 DEF CheckFree
    <3>2. QED
      BY <1>2, <2>6, <2>7, <3>1, ActiveOtherwise DEF CheckFree, files
  <2>8. CASE OpenWallet(p)
    <3>1. \A name \in Names : walletFile[name] # NoFile => walletFile'[name] # NoFile
      BY <1>2, <2>8, WalletConstants DEF OpenWallet, Inv, Held, TypeOK
    <3>2. QED
      BY <1>2, <2>6, <2>8, <3>1, ActiveOtherwise DEF OpenWallet
  <2>9. CASE WriteWallet(p)
    <3>1. shell[p].name \in Names /\ shell[p].password \in Passwords
      BY <1>2, <2>9, Arguments DEF WriteWallet, Inv
    <3>2. p \notin overlapped => walletFile[shell[p].name] = Torn
      BY <1>2, <2>6, <2>9 DEF WriteWallet, Inv, SeenHolds, Seen
    <3>3. p \notin overlapped =>
            walletFile' = [walletFile EXCEPT ![shell[p].name] = shell[p].password]
      <4>1. Written(shell[p].password, Torn) = {shell[p].password}
        BY WalletConstants DEF Written
      <4>2. QED
        BY <2>9, <3>2, <4>1 DEF WriteWallet
    <3>4. p \notin overlapped =>
            \A name \in Names : walletFile[name] # NoFile => walletFile'[name] # NoFile
      BY <1>2, <3>1, <3>3, WalletConstants DEF Inv, Held, TypeOK
    <3>5. QED
      BY <1>2, <2>6, <2>9, <3>4, ActiveOtherwise DEF WriteWallet
  <2>10. CASE LookUp(p)
    <3>1. UNCHANGED files /\ (GoOn(p, "merge") \/ End(p, configFile))
      BY <2>10 DEF LookUp
    <3>2. shell[p].cmd \in {"use", "current"}
      BY <1>2, <2>10 DEF LookUp, Inv, Held, CommandsWellFormed, WellFormed
    <3>3. ASSUME GoOn(p, "merge"), shell[p].cmd = "use"
          PROVE  walletFile[shell[p].name] # NoFile
      BY <1>2, <2>10, <3>2, <3>3, GoesOnOrEnds DEF LookUp
    <3>4. ASSUME p \notin overlapped, End(p, configFile), shell[p].cmd = "current"
          PROVE  Sound(configFile, walletFile)
      <4>1. walletFile[shell[p].name] # NoFile
        BY <1>2, <2>10, <3>4, GoesOnOrEnds DEF LookUp
      <4>2. configFile \in Config /\ configFile.active = shell[p].name
        BY <1>2, <2>6, <2>10, <3>4 DEF LookUp, Inv, SeenHolds, Seen
      <4>3. QED
        BY <4>1, <4>2 DEF Sound
    <3>5. QED
      BY <1>2, <2>6, <2>10, <3>1, <3>3, <3>4, ActiveOtherwise DEF LookUp, files
  <2>11. CASE Verify(p)
    <3>1. UNCHANGED files /\ (GoOn(p, "unlink") \/ End(p, configFile))
      BY <2>11 DEF Verify
    <3>2. QED
      BY <1>2, <2>6, <2>11, <3>1, ActiveOtherwise DEF Verify, files
  <2>12. CASE Unlink(p)
    BY <1>2, <2>12, ActiveUnlink
  <2>13. CASE Crash(p)
    <3>1. /\ clean' = FALSE /\ overlapped' = overlapped \ {p} /\ p \in Running
          /\ shell' = [shell EXCEPT ![p] = Idle] /\ shell \in [Shells -> Process]
      BY <1>2, <2>13 DEF Crash, Running, Inv, Held, TypeOK
    <3>2. Running' = Running \ {p}
      BY <3>1 DEF Running, Idle
    <3>3. Running' \ overlapped' = {}
      BY <1>2, <3>1, <3>2, OneAlone DEF Inv
    <3>4. QED
      BY <3>1, <3>3 DEF ActiveHeld
  <2>14. QED
    BY <2>1, <2>2, <2>3, <2>4, <2>5, <2>7, <2>8, <2>9, <2>10, <2>11, <2>12, <2>13
<1>3. QED
  BY <1>1, <1>2

\* When nothing runs and nothing went wrong since the last undisturbed
\* `wallets current`, the active wallet exists: use looks it up before it saves
\* the name, and delete clears the name of what it deleted.
THEOREM ActiveWalletStaysThere == Spec => []ActiveWalletExists
<1>1. Init => ActiveHeld
  BY SoundWithout, WalletConstants DEF Init, ActiveHeld, Running, Idle
<1>2. ASSUME Inv, ActiveHeld
      PROVE  ActiveWalletExists
  BY <1>2 DEF ActiveHeld, ActiveWalletExists, Sound, Inv, Held, TypeOK
<1>3. QED
  BY <1>1, <1>2, ActiveNext, InvIsInvariant, PTL DEF Spec
=============================================================================
