\* Any number of requests of ten bodies, two at a time.
SPECIFICATION Spec
CONSTANTS
    Requests = {r1, r2}
    Undefined = Undefined
    OwnRefs <- Own
    ForeignRefs <- Foreign
    Payloads <- SomePayloads
SYMMETRY Symmetry
INVARIANTS
    ScopeMatches
    ReferencesAreOwn
