SPECIFICATION Spec
CONSTANT Platforms = {"posix"}
CHECK_DEADLOCK FALSE
INVARIANT SuccessEndsTree
