\* Bounds and model values: see MCBeside for the sets.
SPECIFICATION MCSpec
CONSTANTS
  Tasks <- TwoTasks
  Arms <- TwoArms
  MaxRows = 3
  MaxRunners = 2
  Texts <- MCTexts
  Saves <- MCSaves
  EditCalls <- MCEditCalls
  MaxRewrite = 2
  NoFile = NoFile
  Failed = Failed
  ConfigLists <- MCConfigLists
  Native <- MCNative
  Redundant <- MCRedundant
  NoClient = NoClient
  Pieces <- MCPieces
  MaxPieces = 2
  ValidNames <- MCValidNames
  Suffixed <- MCSuffixed
  NoName = NoName
  RepoFiles <- MCRepoFiles
  FileTexts <- MCFileTexts
  RuleLists <- MCRuleLists
  BuiltinRules = {}
  Updaters <- MCUpdaters
  MaxChanges = 2
  MaxSymbol = 2
  Documents <- MCDocuments
  Conversations <- MCConversations
  Sources <- MCSources
  Rankings <- MCRankings
  Budgets <- MCBudgets
  Maps <- MCMaps
  MaxChunk = 5
  Overlap = 1
  MinExchange = 3
  TopK = 2
  Reserve = 4
  UserFiles <- MCUserFiles
  ProjectFiles <- MCProjectFiles
  Environments <- MCEnvironments
  CommandLines <- MCCommandLines
  MaxStarts = 2
  Unset = Unset
  Junk = Junk
  Malformed = Malformed
  StarterFiles <- MCStarterFiles
  MaxVersion = 2
  MaxEdits = 1
  MaxCrashes = 2
  Shelves <- MCShelves
  Fold <- MCFold
  OtherName = "else"
  MaxFile = 8
  MaxResources = 9
  Threshold = 5
  MaxActivated = 3
  Users <- MCUsers
  Facts <- MCFacts
  HasText <- MCHasText
  MaxMemories = 2
  MaxSaves = 3
  Installs <- MCInstalls
  Formats <- MCFormats
  BuiltinFormat = "baryo-jsonl"
  MaxMessages = 3
  MaxArchived = 3
  MaxTroubles = 1
  NoPlugin = NoPlugin
  Adapters <- MCAdapters
  LongTalk = 2
  MaxTalk = 5
  MaxAdded = 2
  MaxActive = 2
  Depths <- MCDepths
  Gaps <- MCGaps
  Queue = 3
  MaxTasks = 3
  MaxChats = 2
  Nobody = Nobody
  Names <- MCNames
  Recalled <- MCRecalled
  MaxText = 4
  MaxGlobs = 2
  Panic = Panic
INVARIANTS
  ScoresAreFair
  TextsAreExact
  RouteIsOwn
  IndexIsCurrent
  SettingsHold
  SkillsHold
  ExportsHold
  RequestsAreWhole
  BackgroundHolds
  MentionIsOwn
PROPERTY
  HomeFilesHold
CHECK_DEADLOCK FALSE
