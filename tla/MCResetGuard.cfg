SPECIFICATION Spec
CONSTANT Commands = {c1, c2}
PROPERTY NoSubmissionAfterReset
CHECK_DEADLOCK FALSE
