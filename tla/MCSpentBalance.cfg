CONSTANTS
    alice = alice
    bob = bob
    Account <- MCAccount
    Amount <- MCSpend
    LongMax = 3
    NoAccount = NoAccount
    Foreign = Foreign
    Zero = Zero
    Request = {r1}
    Provisioned <- MCFunded
    Tellers = {alice}
    Forgetful = {}
SPECIFICATION Spec
PROPERTY SpentBalanceRefused
