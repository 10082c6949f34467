CONSTANTS
    i1 = i1
    i2 = i2
    Iters <- MCIters
    MaxRotations = 1
SPECIFICATION Spec
INVARIANT OpenIteratorsSpliced
SYMMETRY MCRegistrySymmetry
