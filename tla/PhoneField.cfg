\* Two digits, so that a digit at the wrong place is seen; one character more
\* than a number is meant to have; a second plus.
CONSTANTS
    Digit = {d1, d2}
    MaxKept = 13
    MaxPluses = 2
SPECIFICATION Spec
SYMMETRY Digits
INVARIANT TypeOK
INVARIANT FieldFollowsHand
INVARIANT RemovingGetsAhead
INVARIANT MarkedIsComplete
