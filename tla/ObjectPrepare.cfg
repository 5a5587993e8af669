SPECIFICATION Spec
CONSTANTS
    Oids = {o1}
    EndEvents = {"commit", "abort", "prepare"}
    MaxChanges = 3
INVARIANT AnswerIsRecent
