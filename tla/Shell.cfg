SPECIFICATION Spec
CONSTANT MaxProcs = 2
INVARIANTS ResumesAfterExit
