CONSTANTS
    alice = alice
    tab1 = tab1
    tab2 = tab2
    phone = phone
    laptop = laptop
    Users = {alice}
    NoUser = NoUser
    Tokens = {t1, t2}
    NoToken = NoToken
    Handlers = {h1, h2}
    SessionLife = 1
    MaxTime = 1
    Devices = {phone, laptop}
    OwnerOf <- OneOwner
    Tabs = {tab1, tab2}
    DeviceOf <- OwnDevice
    NoTab = NoTab
SPECIFICATION BrowserSpec
VIEW WithoutHistory
SYMMETRY DeviceSymmetry
INVARIANTS
    CookieDiesForCause
    AppIsBacked
    AlarmForCause
