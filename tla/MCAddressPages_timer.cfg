CONSTANTS
    Addresses = {a1, a2}
    Contacts = {zero}
    ZeroId = zero
    Labels = {l1}
    None = None
    MaxTime = 1
    MaxPosted = 2
    MaxRequests = 1
    MaxSaving = 1
    MaxChanges = 1
SPECIFICATION Spec
INVARIANT ExpiredRowsExpired
