\* Any reads in any order, while requests fail.
CONSTANTS
    None = None
    MaxEpoch = 4
SPECIFICATION Spec
INVARIANTS AnswersAreCurrent EndIsSeen
PROPERTIES AnswersNeverRegress
CHECK_DEADLOCK FALSE
