CONSTANTS
  Session = {s1, s2}
  Post = {p1, p2}
  MaxSessions = 1
  MaxAsks = 2
  Writer = {w1, w2}
  Limit = 2
  MaxSteps = 2
  MaxEvents = 4
  Profile = {"build"}
  Tool = {"edit"}
  Scope = {"in/f", "out"}
  Prefix = {"in/", ""}
  Covers <- MCCovers
  EmptyScope = ""
  NoPrefix = "null"
  DefaultRules <- MCDefaultRules
  Editor = {e1, e2}
  MaxSets = 2
  PipeSize = 1
  MaxRequests = 3
  MaxAsked = 1
  Confidence = {0, 3, 9}
  MaxPlan = 2
  MaxReact = 2
  CsTask = {x1, x2, x3}
  Nobody = Nobody
  MaxActions = 2
  CliScope = {"in/f", "out"}
  MaxTurns = 2
  McpCaller = {a, b, c}
  NoCaller = NoCaller
  Links = 2
SPECIFICATION AgentsSpec
INVARIANTS SessionHasOneActor HistoryIsCoherent
  LastWordWins AnswersMatchRequests
  WorkIsSanctioned EffectsWerePermitted
PROPERTIES SessionComesFree EndedTasksAnswerNobody CommandsAreServed
CHECK_DEADLOCK FALSE
