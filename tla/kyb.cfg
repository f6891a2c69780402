CONSTANTS
  Requests = {r1, r2}
  Reviewers = {v1, v2}
  Types = {registration, director}
  Required = {registration, director}
  MaxFiles = 3
  MaxDocs = 2
  MaxSubmissions = 2
  MaxTrouble = 2
SPECIFICATION Spec
SYMMETRY Alike
INVARIANTS
  FrozenUnderReview
  SubmittedIsComplete
  LatestOfEachKind
  FilesMatchRows
CHECK_DEADLOCK FALSE
