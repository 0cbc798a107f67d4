CONSTANTS
    TxIDs = {t1, t2}
    Tokens = {t1, t2}
    EndedRepeats = TRUE
    MaxQueue = 2
    Offers = {o1, o2}
    Coins = {c1}
    MaxBalance = 1
    MaxOfferPosts = 2
    NodeAddresses = {n0, n1, n2}
    NoAddress = n0
    MaxChecks = 2
    News = {w1, w2, w3}
    Newer = {w1}
    Older = {w2}
    MaxNewsPosts = 2
SPECIFICATION SideSpec
INVARIANTS
    VerdictsRight
    NoTokenStranded
    FitIsCurrent
    VerdictIsOfShown
    NewsFollow
    PopupOnce
PROPERTIES
    MirrorsIds
    EveryTokenAnswered
