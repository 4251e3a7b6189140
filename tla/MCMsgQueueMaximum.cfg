SPECIFICATION Spec
CONSTANTS
    Producers = {p1, p2}
    Consumers = {c1}
    MaxNumber = 3
    SemMax = 2
    MaxSends = 3
INVARIANT MaximumHeld
