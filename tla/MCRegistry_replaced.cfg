SPECIFICATION Spec
CONSTANTS
    Threads = {t1, t2}
    Publishers = {p}
    Boots = {b1, b2, b3}
    MaxEpoch = 2
    NoBoot = NoBoot
SYMMETRY Symmetry
PROPERTIES
    ReplacedIsFenced
\* A coordinator that was stopped need not be started again.
CHECK_DEADLOCK FALSE
