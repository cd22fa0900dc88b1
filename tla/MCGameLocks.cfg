SPECIFICATION Spec
CONSTANTS
    Sessions = {s1, s2}
SYMMETRY Symmetry
INVARIANTS
    NoDeadlock
    GameGoesOn
    
