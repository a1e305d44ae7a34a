SPECIFICATION Spec
CONSTANTS
    Callers = {c1}
    Stoppers = {s1}
INVARIANT ShutdownWaits
