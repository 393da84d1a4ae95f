\* An update without a base price overtaken by one with a new base price.
SPECIFICATION Spec
CONSTANTS
    Requests = {r1, r2}
    Bases <- SomeBases
    Keep = Keep
    Discounts <- SomeDiscounts
    Context <- ThePrice
    Unit = 10
    LastDay = 0
    MaxRequests = 3
INVARIANT TrailEndsAtPrice
