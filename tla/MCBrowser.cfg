\* Two tabs: one tenant signs in with a key it has, another signs up.  Two webhooks and
\* two requests about them at once.  Three new API keys.
SPECIFICATION BrowserSpec
CONSTANTS
    ka = ka
    kb = kb
    a = a
    b = b
    Tabs = {t1, t2}
    Keys = {ka, kb}
    NoKey = NoKey
    Tenants = {a, b}
    NoTenant = NoTenant
    OwnerOf <- Owners
    FirstKeys = {ka}
    MaxCalls = 1
    MaxHooks = 2
    MaxHookCalls = 2
    MaxKeys = 3
SYMMETRY Symmetry
INVARIANTS
    TenantMatchesKey
    LockedOutByFaults
    ListIsCurrent
    DeliveriesAreItsOwn
    UnseenForAReason
PROPERTIES
    GoodKeyStays
