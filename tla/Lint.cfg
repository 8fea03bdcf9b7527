\* cpplint.py over every file of a few lines, by feature.
CONSTANTS
  Features = {"blocks", "branches", "classes", "one_liners", "functions", "includes", "tests", "reports", "guards", "endings", "one_line", "two_lines"}
  Runs <- MCRuns
  CppHeaders <- MCCppHeaders
  CanonicalRank <- MCRank
  Streams = {"iostream"}
  ErrorCategories <- MCCategories
  ValidExtensions = {"cc", "h", "cpp"}
  CopyrightLines = 2
  ShortNamespace = 2
  SmallClass = 2
  NormalTrigger = 1
  TestTrigger = 2
  NestingLength = 4
  BranchLength = 5
  FunctionLength = 5
  IncludeLength = 4
  ReportLength = 3
  BracketLength = 5
SPECIFICATION Spec
CHECK_DEADLOCK FALSE
INVARIANTS PrintedExact CountsAgree FunctionSizesExact IncludesExact DepthKept ClosesBalanced CloseInverse ArgumentsRecognised
PROPERTY SkipsElseBranches
