SPECIFICATION ItemSpec
CONSTANTS
    Null = Null
    NaN = NaN
    Refused = Refused
    MaxDepth = 3
    NullKey = Null
    MaxValue = 2
    MaxPartition = 4
    Offsets = {1}
    Excludes = {"none"}
INVARIANTS
    ItemConditionKeepsSameRows
    ItemValueIsSame
    ItemAggregateSame
    FrameSame
CHECK_DEADLOCK FALSE
