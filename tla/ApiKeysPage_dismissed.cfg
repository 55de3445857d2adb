\* One key, created while the window is closed.
SPECIFICATION KeysSpec
CONSTANTS
    MaxKeys = 2
INVARIANTS
    NewKeysAreShown
