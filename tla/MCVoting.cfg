CONSTANTS
    N = 4
    Faulty = {3}
    Heights = {1}
    Blocks = {b1, b2}
    Nil = Nil
    MaxRounds = 3
    MaxVotes = 9
    NilWeight = 4
SPECIFICATION Spec
CONSTRAINT FewVotes
SYMMETRY BlockSymmetry
INVARIANTS TypeOK Agreement PolcExcludes
PROPERTY ImplementsFinality
CHECK_DEADLOCK FALSE
