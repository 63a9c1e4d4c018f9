CONSTANTS
  MaxRecalls = 2
  StrictCitations = TRUE
SPECIFICATION KernelSpec
INVARIANTS EveryAnswerBilled
