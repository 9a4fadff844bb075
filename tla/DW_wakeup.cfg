SPECIFICATION FairSpec
CONSTANT MaxMarks = 5
PROPERTY DirtyIsWritten
CHECK_DEADLOCK FALSE
