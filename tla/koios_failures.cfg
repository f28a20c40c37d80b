\* Any reads in any order, while requests fail.
CONSTANTS
    None = None
    Number = Number
    MaxEpoch = 4
SPECIFICATION Spec
INVARIANTS AnswersAreCurrent ParamsFollowEpoch
CHECK_DEADLOCK FALSE
