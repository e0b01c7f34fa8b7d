SPECIFICATION Spec
CONSTANTS
  Folded <- MCFolded
  EndingWith <- MCEndingWith
  Requests <- MCRequests
  Outputs <- MCOutputs
  Replies <- MCReplies
  MaxDiffChars = 6
  MaxFilesPerBatch = 2
  HeaderChars = 1
  FenceChars = 1
  CutNoteChars = 1
  MaxPatchBytes = 8
  TruncatedChars = 5
  MaxComments = 2
INVARIANTS
  TypeOK
  EveryReportIsRepresented
  CapKeepsWorst
  TableAddsUp
  BatchesCoverDiff
  PromptFits
  FailedBatchCostsItsFiles
CHECK_DEADLOCK FALSE
