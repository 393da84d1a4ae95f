\* Two requests at a time, three discounts that compete, two days.
SPECIFICATION Spec
CONSTANTS
    Requests = {r1, r2}
    Bases <- SomeBases
    Keep = Keep
    Discounts <- SomeDiscounts
    Context <- ThePrice
    Unit = 10
    LastDay = 1
    MaxRequests = 3
SYMMETRY Symmetry
INVARIANTS
    TrailIsComplete
    EveryAmountIsRecorded
    DiscountsOnlyLower
    BestDiscountApplies
