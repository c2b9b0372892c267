\* Two callers, twenty-one calls, the trees of MCTrees0, and one step of another
\* process.
CONSTANTS
  Callers = {c1, c2}
  Requests <- MCRequests
  Nodes <- MCNodes
  Trees0 <- MCTrees0
  LinkTo <- MCLinkTo
  Loose <- MCLoose
  Swappable <- MCSwappable
  TempNames <- MCTempNames
  CMax = 4
  MaxTries = 2
  MaxForeign = 1
SYMMETRY MCSymmetry
CONSTRAINT MCPairs
SPECIFICATION Spec
PROPERTIES
  AnswerWasTrue
  OnlyNamedIsLost
  UndisturbedAsExpected
