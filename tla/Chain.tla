------------------------------- MODULE Chain -------------------------------
(***************************************************************************)
(* The chain of one peer: the static trie chain::blockchain, filled by     *)
(* addBlock with blocks numbered by getSize.                               *)
(*                                                                         *)
(* addBlock ignores what Insert returns: a failed Insert is a step that    *)
(* leaves the trie alone.  The clock that goes into a block is any value:  *)
(* nothing makes time(NULL) increase.                                      *)
(***************************************************************************)
EXTENDS Block, Sequences

CONSTANTS
    Data,      \* what a block can carry: packed verified transactions
    Verifier,  \* the InfoHashes a block can name as its verifier
    MaxBlocks  \* bound: the size at which the model stops adding

ASSUME MaxBlocksAssumption == MaxBlocks \in Nat

VARIABLE blockchain

TypeOK == blockchain \in SUBSET BlockType(Data, Verifier)

(* The constructor of chain looks at the root of an empty trie and then    *)
(* drops what it builds: a new chain is an empty trie.                     *)
Init == blockchain = {}

(* transaction::verified adding its block. *)
AddBlock(data, verifier, now) ==
    /\ getSize(blockchain) < MaxBlocks
    /\ blockchain' = addBlock(blockchain, data, verifier, now)

(* Mutant of Restart: the trie comes back at the root it had after its     *)
(* first block.                                                            *)
RestartAtFirst == blockchain' = {b \in blockchain : b.index = 0}

(* The process starts anew and no code restores the trie's root. *)
Restart == blockchain' = {}

Next ==
    \/ \E d \in Data, v \in Verifier, t \in Time : AddBlock(d, v, t)
    \/ Restart

Spec == Init /\ [][Next]_blockchain

-----------------------------------------------------------------------------
(* However often blocks are added and whatever the clock says, the blocks  *)
(* on a chain are numbered 0 .. getSize()-1 without gap or repetition:     *)
(* addBlock and getSize agree although no counter is kept.                 *)
BlocksNumbered == Contiguous(blockchain)

(* addBlock never replaces a block: Insert would overwrite an equal key,   *)
(* and index and clock are hashed without a separator between them.        *)
BlocksKept ==
    [][blockchain \subseteq blockchain' \/ blockchain' = {}]_blockchain

-----------------------------------------------------------------------------
(* The log a trie stands for: position i holds the block numbered i-1. *)
Numbered(i) == CHOOSE b \in blockchain : b.index = i - 1

Recorded(b) == [data |-> b.data, verifier |-> b.prevHash]

History == [i \in 1..getSize(blockchain) |-> Recorded(Numbered(i))]

L == INSTANCE Log WITH
        Entry <- [data: Data, verifier: Verifier],
        log <- History

(* A peer's chain, a trie keyed by hashes, implements an append-only log:  *)
(* no sequence of addBlock calls reorders or rewrites what was recorded.   *)
ImplementsLog == L!Spec
=============================================================================
