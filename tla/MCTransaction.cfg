CONSTANTS
    alice = alice
    bob = bob
    carol = carol
    h1 = h1
    h2 = h2
    k = k
    t1 = t1
    t2 = t2
    Peer <- MCPeer
    Zero = Zero
    Outside = Outside
    Hash <- MCHash
    Digest <- MCDigest
    Terms = {t1, t2}
    TxRoot = TxRoot
    Foreign <- MCForeign
    ForeignVerdicts <- MCForeignVerdicts
    Watched <- MCWatched
    NoEntry = NoEntry
    Garbled = Garbled
    TimeBase = 1
    Settings <- MCSettings
SPECIFICATION Spec
INVARIANTS TypeOK CertifiedByTwo SettledIsAgreed SettledIsChained ChainedIsAgreed ChainsNumbered
