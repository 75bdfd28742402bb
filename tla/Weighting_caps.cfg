\* Up to six names under a cap of 30%, from equal to very unequal.
CONSTANTS
    Names = 6
    MarketCap = {1, 2, 3, 5, 7, 9, 20}
    CapBps = 3000
SPECIFICATION Spec
INVARIANTS CapsExactlyTheBreaching OrderKept RoundingIsSmall
CHECK_DEADLOCK FALSE
