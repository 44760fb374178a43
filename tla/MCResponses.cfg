CONSTANTS
    alice = alice
    bob = bob
    Account <- MCAccount
    Amount <- MCAmount
    LongMax = 3
    NoAccount = NoAccount
    Foreign = Foreign
    Zero = Zero
    Request = {r1}
    Provisioned <- MCFunded
    Tellers = {}
    Forgetful = {}
SPECIFICATION FairSpec
PROPERTY ResponsesCertified
CHECK_DEADLOCK FALSE
