\* A stack with room for four calls of ck_error.
CONSTANT StackDepth = 4
SPECIFICATION FairSpec
PROPERTY ErrorIsPosted
CHECK_DEADLOCK FALSE
