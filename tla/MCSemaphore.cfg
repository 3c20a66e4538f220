SPECIFICATION FairSpec
CONSTANTS
  NumTrans = 3
  Garbage <- MCGarbage
  Leftover <- MCLeftover
INVARIANTS
  TypeOK
  SlotExclusive
  ReadsInOrder
  SetOutlivesProducer
PROPERTIES
  ImplementsHandoff
  TransferCompletes
CHECK_DEADLOCK FALSE
