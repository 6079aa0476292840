\* The encoder with queues that may do anything: sizes of 2 to 4 by 2 or 4.
SPECIFICATION Spec
CONSTANTS
  Widths = {2, 3, 4}
  Heights = {2, 4}
  MaxFrames = 2
INVARIANTS CodecExclusive ParamsInForce NoThreadOverwritten PtsCountsFrames ConversionFits

