SPECIFICATION FairSpec
CONSTANTS
  Commands = {c1, c2, c3}
  Queues = {q1, q2}
  Depth = 2
  NoQueue = NoQueue
  NoCommand = NoCommand
INVARIANT QueueIsServed
PROPERTIES ContractSpec EntryIsAnswered
