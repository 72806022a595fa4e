SPECIFICATION QueuesFairSpec
CONSTANTS
  Op = {o1, o2}
  OperationLimit = 1
  Thread = {d1, d2}
  MaxToken = 3
INVARIANTS
  OperationSound
PROPERTIES
  OutcomeFinal
  SlotComesBack
  BatchExact
  IsReadyQueue
  WaitersLeave
