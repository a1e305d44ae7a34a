SPECIFICATION Spec
CONSTANTS
    Callers = {c1, c2, c3}
    Stoppers = {s1, s2}
INVARIANT Drained
PROPERTY ShutdownReturns
