CONSTANTS
  w1 = w1
  w2 = w2
  pA = pA
  pB = pB
  Workers = {w1, w2}
  ProcOf <- OneProcess
  PairSeq <- TwoPairs
  DbErrors = TRUE
  SharedSeed = FALSE
SPECIFICATION FairSpec
INVARIANTS OneGenerator NoSecondPayment
PROPERTIES RequestsEnd
