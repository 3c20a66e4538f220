SPECIFICATION FairSpec
CONSTANT Instances = {1, 2, 3}
INVARIANTS
  SoloRunPasses
  LeaksExplained
PROPERTY InstancesEnd
CHECK_DEADLOCK FALSE
