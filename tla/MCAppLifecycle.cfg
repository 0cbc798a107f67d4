CONSTANTS
    Wallets = {w1, w2, w3}
    Races = {}
    None = None
    MaxEvents = 2
    MaxConns = 2
SPECIFICATION FairSpec
INVARIANTS
    TypeOK
    KeptWalletsOnDisk
    ResetInv
    AssertionsHold
    NodeServesOpenWallet
    MainScreenHasWallet
PROPERTIES
    CancelRestores
    OpenedWalletStarts
    CancelCompletes
