SPECIFICATION Spec
CONSTANTS
    Bytes = {0, 1, 20, 127, 128, 255}
    Lengths = {3, 6, 7, 8, 18, 19, 23, 24, 25, 41, 42, 47, 48, 49, 64}
INVARIANT TypeOK
INVARIANT EstimatePositive
INVARIANT RefreshBounded
INVARIANT LongerTakesLonger
