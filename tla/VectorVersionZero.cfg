SPECIFICATION Spec
CONSTANTS Tables = {t1, t2}
          Altered = {t1}
          Drivers = {"http"}
          MaxTime = 2
          MaxPlans = 2
          TTLs = {0, 2}
          Caps = {2}
          MaxChanges = 2
          Limits = {2}
          Versions = {"new"}
INVARIANT ReasonTrue
CHECK_DEADLOCK FALSE
