\* One group of three sequences, two client lifetimes, fair scheduling and a Home that answers in the end.
CONSTANTS
  Groups = {g1}
  MaxSeq = 3
  MaxLifetimes = 2
SPECIFICATION FairSpec
INVARIANTS TicketsExact FlushedReachedHome PromptFlush
PROPERTIES ImplementsLedger MarkedIsAcked
