CONSTANTS
  main = main
  lib = lib
  tool = tool
  d1 = d1
  d2 = d2
  ws = ws
  rootA = rootA
  rootB = rootB
  handle = handle
  check = check
  auth = auth
  other = other
  Files = {main, lib, tool}
  Deps = {d1, d2}
  Workspace = {ws}
  Fallbacks = {main}
  Functions = {handle, check, auth, other}
  AuthNames = {"auth"}
  EntriesOf <- MCEntriesOf
  RootOf <- MCRootOf
  FileOf <- MCFileOf
  NameOf <- MCNameOf
  Facts <- MCFacts
  FirstTree <- MCFirstTree
  MaxMoves = 4
  Gone = Gone
  Scenes <- MCScenes
  Tables <- MCTables
  Asked <- MCAsked
  MaxTurns = 4
SPECIFICATION BothSpec
INVARIANTS
  SignedIsSound
  CoveredRouteRunsAuth
  BlameIsDeserved
  AnswersHold
CHECK_DEADLOCK FALSE
