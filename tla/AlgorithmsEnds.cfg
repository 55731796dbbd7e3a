\* Texts that match a query twice.
SPECIFICATION Spec
CONSTANTS
    Letters = {1, 2}
    Quote = 3
    Star = 4
    MaxText = 6
    MaxQuery = 4
    Base = 4
    SizeLen = 1
    WideLen = 2
    MaxPlain = 2
    CipherLen = 3
    BlockSize = 3
INVARIANTS
    EndsAreLocations
\* Texts and queries have a largest length.
CHECK_DEADLOCK FALSE
