SPECIFICATION SpecRaise
CONSTANTS
    Oids = {o1}
    EndEvents = {"commit", "abort"}
    MaxChanges = 3
INVARIANT AnswerIsRecent
