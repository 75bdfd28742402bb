\* Three assets whose prices double, halve and go missing; three epochs.
CONSTANTS
    Symbol = {btc, eth, sol}
    Price = {1, 2}
    Unpriced = Unpriced
    Parts = 4
    Scale = 2
    ValueScale = 10
    MinNames = 2
    MaxEpoch = 2
SPECIFICATION Spec
PROPERTIES Continuous RoundingNeverAccumulates
CHECK_DEADLOCK FALSE
