\* The erasure of an account that has a price history, against the privacy page.
SPECIFICATION AccountSpec
CONSTANTS
    Visits = {h1, h2}
    BetaRequired = TRUE
    MaxAccounts = 2
PROPERTY ErasureErases
