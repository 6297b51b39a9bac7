CONSTANTS
  Shells = {sh1, sh2}
  Names = {main, test}
  NoName = NoName
  Passwords = {pw1, pw2}
  NoPassword = NoPassword
  Keys = {rpcUrl, privateKey}
  NoKey = NoKey
  NoFile = NoFile
  Torn = Torn
  MaxCrashes = 1
SPECIFICATION Spec
INVARIANTS
  TypeOK
  ActiveWalletExists
  SettingsAreKept
PROPERTY WalletsSurvive
SYMMETRY Symmetry
