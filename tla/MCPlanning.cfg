SPECIFICATION PlanningSpec
CONSTANTS Tables = {t1, t2, t3}
          Names <- MCNames
          Values = {"0", "1"}
          Unset = Unset
          Conflict = Conflict
          OptionLists <- MCLists
          Default <- MCDefault
          Since <- MCSince
          MaxVersion = 2
          ColumnNames = {"n1", "n2"}
          Cols = 2
          MaxAlters = 2
          Oids = {1}
          EndEvents = {"commit", "abort"}
          MaxChanges = 3
          IndexTables = {1, 2}
          Altered = {1}
          Drivers = {"binary"}
          MaxTime = 2
          MaxPlans = 2
          TTLs = {0, 2}
          MaxIndexChanges = 2
          Caps <- MCCaps
          Limits = {2}
          Versions = {"new", "old"}
INVARIANTS
    TypeOK
    MergedIsAgreement
    NameIsDeclared
    FreesLiveNames
    UnmarkedIsCurrent
    AnswerIsRecent
    ReasonTrue
    ContextsOwned
PROPERTY SentAsDeclared
CHECK_DEADLOCK FALSE
