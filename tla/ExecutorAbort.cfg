\* A kill before the sandbox is there.
SPECIFICATION Spec
INVARIANT OneVerdict
CHECK_DEADLOCK FALSE
