CONSTANTS
  Client = {c1, c2, c3}
  Slot = {s1, s2}
  Proc = {p1, p2, p3}
  Hangs = TRUE
  NoSlot = NoSlot
  NoProc = NoProc
  NoClient = NoClient
  Job = {j1}
  Pipe = 1
  OwnSkill = {"own"}
  UserSkill = {"theirs"}
  SkillName = {"eco", "read"}
  OwnTool = {"read"}
  McpName = {"mcp__a__x"}
  LspName = {"lsp__a__x"}
  MaxEdits = 1
  WireEvents = 4
  MaxWire = 8
  Asker = {a, b}
  Terminal = {t}
  MaxPrompts = 2
  MaxToggles = 3
  SvcCaller = {e1, e2, e3}
  Board = {d1, d2}
  ServerProc = {q1, q2}
  NoServer = NoServer
  NoCall = NoCall
  TuiModels = 2
  MaxSends = 2
  MaxSwitches = 1
  MaxRounds = 3
  ReadSymbol = {"a", "w", " ", "r", "n"}
  EditSymbol = {"a", "r", "n"}
  ExportSymbol = {"a", "w", "r", "ctl", "n", "&", "<", "amp", "(", ")", "esc"}
  MaxText = 3
  MaxWord = 2
  OutputLimit = 8
  MaxMatches = 2
  ContextLines = 1
SPECIFICATION ProcessesSpec
INVARIANTS SlotsAreSound TurnIsAsMeant AnswersAreFinal OneToolPerName
  IdsKeepTheirPrompt NoServerIsForgotten ScreenTellsTheRun TextIsTold
PROPERTIES AcquireEnds
CHECK_DEADLOCK FALSE
