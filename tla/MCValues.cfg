CONSTANTS
    Bit <- EightBits
    Sign = 7
    Exponent = {5, 6}
    Quiet = {3, 4}
    Low = 0
    High = 1
    Double <- Doubles
    Address <- Addresses
    Slot = {1, 2}
SPECIFICATION Spec
INVARIANTS Faithful EqualAsTagged
