\* One user with two browsers, two requests under way at a time.
SPECIFICATION Spec
CONSTANTS
    Users = {u1}
    NoUser = NoUser
    Browsers = {b1, b2}
    NoBrowser = NoBrowser
    Requests = {r1, r2}
    MaxTokens = 3
    MaxExpired = 1
SYMMETRY Symmetry
INVARIANTS
    ReuseEndsFamilies
    FamilyNeverLost
    OneUsableToken
    LogoutEndsSession
    NoFalseAlarm
