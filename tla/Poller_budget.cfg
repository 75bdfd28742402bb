\* Three purchases fit; two payments may go unreceipted.
CONSTANTS
    MaxSpend = 7
    Price = 2
    Charge = 2
    MaxUnbooked = 2
SPECIFICATION FairSpec
INVARIANTS IInv ReceiptsWithinBudget NoHammering
PROPERTIES StopsWhenSold
CHECK_DEADLOCK FALSE
