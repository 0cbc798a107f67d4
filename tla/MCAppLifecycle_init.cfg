CONSTANTS
    Wallets = {w1, w2}
    Races = {"cancelDuringInit"}
    None = None
    MaxEvents = 2
    MaxConns = 2
SPECIFICATION Spec
INVARIANT StartedNodeFindsWallet
