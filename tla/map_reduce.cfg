SPECIFICATION Spec
CONSTANTS
  k1 = k1
  k2 = k2
  k3 = k3
  Items = {1, 2, 3, 4}
  Emits <- MCEmits
  Names <- MCNames
  MaxLen = 3
  MaxPartitions = 4
  MaxRetried = 1
INVARIANTS
  PartitionIsSplit
  MapJobInOrder
  GroupedInOrder
  ResultIsReference
CHECK_DEADLOCK FALSE
