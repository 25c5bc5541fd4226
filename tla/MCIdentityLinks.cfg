SPECIFICATION Spec
CONSTANTS
    p1 = p1
    p2 = p2
    i1 = i1
    i2 = i2
    s1 = s1
    s2 = s2
    r1 = r1
    r2 = r2
    Users = {1, 2, 3}
    Existing = {1, 2}
    Providers <- TwoProviders
    Issuers <- TwoIssuers
    FirstIssuer = i1
    Subjects <- TwoSubjects
    Requests <- TwoRequests
    MaxRequests = 3
SYMMETRY Alike
INVARIANT TypeOK
INVARIANT NoStrandedAccount
INVARIANT LinksHold
INVARIANT SignsInByItsIssuer
INVARIANT NoWaitCycle
PROPERTY TransactionsAreAtomic
CHECK_DEADLOCK FALSE
