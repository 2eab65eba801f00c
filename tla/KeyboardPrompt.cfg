CONSTANTS
    Keys <- OneKey
    BUF_LEN = 3
    MaxSent = 6
SPECIFICATION Spec
INVARIANT AnswerFollowsPrompt
CHECK_DEADLOCK FALSE
