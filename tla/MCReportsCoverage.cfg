CONSTANTS
  Walk <- MCWalk
  Excluded = {}
  Readme <- Root
  Archives <- MCArchives
  Merging = {TRUE, FALSE}
  Selections <- MCSelections
  Reviews <- MCReviews
  CharsPerToken = 2
  MaxTokens = 4
  Margin = 1
  MaxChunks = 5
  HeaderChars = 1
  NumberChars = 1
  ArchitectureTokens = 3
  MaxAnalysisFiles = 2
  InputMaxTokens = 8
  Overhead = 1
  Exports = {x1}
  MaxVersions = 2
  MaxAnalyses = 2
SPECIFICATION Spec
\* Everything is removed in the end, or every bound is reached.
CHECK_DEADLOCK FALSE
INVARIANT CoverageHolds
