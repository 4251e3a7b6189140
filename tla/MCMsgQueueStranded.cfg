SPECIFICATION LiveSpec
CONSTANTS
    Producers = {p1}
    Consumers = {c1}
    MaxNumber = 3
    SemMax = 2
    MaxSends = 4
PROPERTY AcceptedIsReceived
