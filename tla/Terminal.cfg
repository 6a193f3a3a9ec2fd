\* Every text of up to four characters, lines of up to three quoted words,
\* and lines of git and of other programs, with and without a rule.
CONSTANTS
  Flags <- MCFlags
  GlobalFlags <- MCGlobalFlags
  TrustedGit <- MCTrustedGit
  NamedGit <- MCNamedGit
  Destructive <- MCDestructive
  OddScheme <- MCOddScheme
  TwoColons <- MCTwoColons
  SafeRemote <- MCSafeRemote
  GithubRemote <- MCGithubRemote
  DiffHelper <- MCDiffHelper
  UploadPack <- MCUploadPack
  ReceivePack <- MCReceivePack
  CleanForce <- MCCleanForce
  EnvFiles <- MCEnvFiles
  PathResource <- MCPathResource
  ImageResource <- MCImageResource
  Assigned <- MCAssigned
  RunSwitches <- MCRunSwitches
  RunValued <- MCRunValued
  RepoName <- MCRepoName
  PackageNames <- MCPackageNames
  DeployWords <- MCDeployWords
  Production <- MCProduction
  Staging <- MCStaging
  Words <- MCWords
  NoCommand = NoCommand
  Rules <- MCRules
  Shells <- MCShells
  Forwarders <- MCForwarders
  BaseName <- MCBaseName
  Reinterprets <- MCReinterprets
  CodeFlags <- MCCodeFlags
  Pieces <- MCPieces
  Push = "push"
  Texts <- MCTexts
  Lines <- MCLines
SPECIFICATION Spec
INVARIANTS LineTypeOK ScannersAgree WordsAreTheShells TokensAreTheWords DestructivePushStays PushIsCharged RuleDecidesTheRest GitNeedsWords ImageIsUnambiguous
