CONSTANT MaxBlocks = 3
SPECIFICATION Spec
INVARIANT ReverseWalkCorrect
