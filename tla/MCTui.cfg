SPECIFICATION FairSpec
CONSTANTS
  Objects <- OnePolicy
  Shared <- OnePolicy
  NoObject = NoObject
  DetailOrder <- TwoLists
  Refreshed = {"policy"}
  Span = 2
  MaxChanges = 1
  MaxErrors = 1
INVARIANT TypeOK
INVARIANT OneMutation
INVARIANT FetchingMeansPending
PROPERTY NewestSnapshotWins
PROPERTY FetchNeverSticks
