\* Every type is pushed at the front, tuples too.
SPECIFICATION BufferSpec
CONSTANTS
    Base = 3
    SizeLen = 1
    WideLen = 2
    Values <- SomeValues
    FrontKinds = {"byte", "string", "vector", "vectors", "tuple"}
    MaxItems = 2
    NoItem = NoItem
PROPERTIES
    FrontGivesWhatItWasGiven
