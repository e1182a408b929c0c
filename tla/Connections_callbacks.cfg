SPECIFICATION Spec
CONSTANTS
    o1 = o1
    o2 = o2
    i1 = i1
    b1 = b1
    b2 = b2
    a1 = a1
    a2 = a2
    Orgs = {o1, o2}
    Installs = {i1}
    Browsers = {b1, b2}
    Accounts = {a1, a2}
    Home <- TwoOrgs
    Tabs = {1, 2}
    MaxSerial = 2
    NoRow = NoRow
    NoOne = NoOne
    Denied = Denied
    Manual = Manual
SYMMETRY Symmetry
CHECK_DEADLOCK FALSE
INVARIANT DisconnectIsFinal
INVARIANT SameBrowser
