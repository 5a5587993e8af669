SPECIFICATION WindowSpec
CONSTANTS NullKey = NullKey
          MaxValue = 2
          MaxPartition = 4
          Offsets = {1}
          Excludes = {"none", "current row"}
INVARIANT FrameSame
CHECK_DEADLOCK FALSE
