CONSTANTS
    Tabs = {tab1, tab2, tab3}
    Tokens = {a, b, c, d}
    None = None
    MaxRestarts = 1
SPECIFICATION FairSpec
INVARIANTS
    RefusedOnlyInRace
PROPERTIES
    CookieSettles
    RefusalsStop
