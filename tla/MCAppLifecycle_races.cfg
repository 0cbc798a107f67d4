CONSTANTS
    Wallets = {w1, w2}
    Races = {"cancelAgain", "cancelDuringInit", "createWhenLocked", "restoreFails", "syncDuringReset"}
    None = None
    MaxEvents = 1
    MaxConns = 2
SPECIFICATION Spec
SYMMETRY WalletSymmetry
INVARIANT OpenDbIsMainFile
PROPERTY OnlyOpenWalletRemoved
