CONSTANTS
    s1 = s1
    s2 = s2
    m1 = m1
    m2 = m2
    btc = btc
    ltc = ltc
    shared = shared
    sole = sole
    TxIDs = {s1, s2, m1, m2}
    Simple = {m1, m2}
    Coins = {btc, ltc}
    Swaps = {s1, s2}
    CoinOf <- SwapCoins
    Addresses = {shared, sole}
    MyIdOf <- TxAddresses
    EndedRepeats = FALSE
    MaxQueue = 2
SPECIFICATION Spec
INVARIANT UsedIsBusy
