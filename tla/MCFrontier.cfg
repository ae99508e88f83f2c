CONSTANTS
  c1 = c1
  c2 = c2
  c3 = c3
  k1 = k1
  u1 = u1
  u2 = u2
  r1 = r1
  r2 = r2
  scan = scan
  join = join
  sbom = sbom
  results = results
  tool = tool
  later = later
  loose = loose
  Unstated = Unstated
  Absent = Absent
  Controls = {c1, c2, c3}
  Ksis = {k1}
  Planes = {"aws", "pipeline"}
  Release <- MCRelease
  RecipeIds = {r1, r2}
  Order <- MCOrder
  Artifacts = {sbom, results}
  ToolNames = {tool, loose}
  PinnedTools = {tool}
  TierTwo = {later}
  FirstTrees <- MCFirstTrees
  MaxEdits = 3
SPECIFICATION FrontierSpec
INVARIANTS
  LoadsOneRelease
  NothingUndeclared
  CoverageHolds
CHECK_DEADLOCK FALSE
