CONSTANTS
    pool = pool
    alice = alice
    bob = bob
    xfi = xfi
    lpt = lpt
    Address = {pool, alice, bob}
    Pool = pool
    Denom <- MCDenom
    MintDenom = xfi
    BondDenom = xfi
    LPDenom = lpt
    GenesisDenom = {xfi}
    GenesisCoins <- MCGenesisCoins
    IssueID = {1}
    MaxAmount = 1
    MaxWithdraws = 2
    MaxMints = 0
SPECIFICATION Spec
INVARIANT
    TotalSupply
