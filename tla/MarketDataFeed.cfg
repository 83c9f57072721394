SPECIFICATION FairSpec
CONSTANTS
  NumTickers = 2
  Qty = {1, 2}
  MaxSeq = 2
  MaxFaults = 3
INVARIANTS
  SnapshotIsBook
  SynthesizerAsserts
  InSyncUnlessSpliced
PROPERTY RecoveryEnds
