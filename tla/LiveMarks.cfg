SPECIFICATION Spec
CONSTANTS
    one = one
    two = two
    infy = infy
    tcs = tcs
    nifty = nifty
    None = None
    Callers <- MCCallers
    Names <- MCNames
    Listed <- MCListed
    Lists <- MCLists
    Worlds <- Together
    Environments <- Either
    Counts = {22}
    Chunk = 1
    Gap = 1
    Pause = 1
    Timeout = 1
    QuoteTTL = 2
    StatusTTL = 2
INVARIANTS
    NeverMockAsLive
