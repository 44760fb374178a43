CONSTANTS
    alice = alice
    bob = bob
    Account <- MCAccount
    Amount <- MCAmount
    LongMax = 3
    NoAccount = NoAccount
    Foreign = Foreign
    Zero = Zero
    Request = {r1}
    Provisioned <- MCProvisioned
    Tellers = {alice}
    Forgetful = {bob}
SPECIFICATION Spec
INVARIANTS TypeOK SpokenOnce RequestorNeverCertifies CertifiedWasAnswered
