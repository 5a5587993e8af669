SPECIFICATION SpecParallel
CONSTANTS Tables = {t1, t2}
          Altered = {t1}
          Drivers = {"binary"}
          MaxTime = 2
          MaxPlans = 2
          TTLs = {0, 2}
          Caps = {2}
          MaxChanges = 2
          Limits = {2}
          Versions = {"new"}
INVARIANT ReturnsMetadata
CHECK_DEADLOCK FALSE
