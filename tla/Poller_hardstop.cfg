\* Three purchases fit; two payments may go unreceipted.
CONSTANTS
    MaxSpend = 7
    Price = 2
    Charge = 2
    MaxUnbooked = 2
SPECIFICATION Spec
INVARIANT HardStop
CHECK_DEADLOCK FALSE
