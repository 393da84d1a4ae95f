\* A global administrator and users of a company, on one browser.
SPECIFICATION Spec
CONSTANTS
    None = None
    c1 = c1
    Users = {"root", "owner", "seller", "reader", "viewer"}
    Home <- HomeOf
    Granted <- GrantedBySeed
    Companies = {c1}
    Locales = {"es", "en"}
    BrowserLocale = "es"
    FirstPreferred <- PreferredFirst
    LogIn = {"viewer"}
    Clicked = {"products"}
    MaxOps <- GoesOn
    MaxCalls = 1
    Hasty = FALSE
CHECK_DEADLOCK FALSE
INVARIANTS
    SessionEndsAtLogin
    ScreensAreServed
    LocaleIsPreferred
PROPERTIES
    NavigationSettles
    EveryCallSettles
