CONSTANTS
    first = first
    second = second
    nameless = nameless
    unparsed = unparsed
    p1 = p1
    p2 = p2
    Nobody = Nobody
    Holdings = {{}, {3}, {1, 2}}
    MaxPending = 2
    Payees = {first, second, nameless, unparsed}
    Peers = {p1, p2}
    ParamsOf <- Parameters
    Amounts = {2}
    Fees = {2}
    FeeRange = 4
    DefaultFee = 1
    Fork1Fee = 2
    Offers <- SomeOffers
    SwapFees = {2}
    CoinFee = 1
    CoinBalances = {2, 4}
SYMMETRY Symmetry
SPECIFICATION Spec
PROPERTY SendAssertionHolds
