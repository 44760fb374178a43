------------------------------- MODULE Block -------------------------------
(***************************************************************************)
(* A block and the trie of blocks one peer keeps (block.cpp, chain.cpp).   *)
(*                                                                         *)
(* The trie maps the block's hash to the packed block.  A block record     *)
(* here stands for its entry: the hash commits to the four fields.  The    *)
(* packed copy stored beside the key is read by nothing in the program.    *)
(***************************************************************************)
EXTENDS Integers, FiniteSets

CONSTANT
    TimeBase   \* while time(NULL) has a constant number of decimal digits,
               \* printing index and clock side by side, which pads
               \* neither, gives the decimal number
               \* index * TimeBase + current_time

ASSUME TimeBaseAssumption == TimeBase \in Nat \ {0}

(* Readings of time(NULL). *)
Time == 0..(TimeBase - 1)

(* The members of class block that carry D and name a verifier in V;       *)
(* "hash" is computed on demand by calculateHash.                          *)
BlockType(D, V) == [index: Nat, current_time: Time, data: D, prevHash: V]

(* The constructor.  prevHash is the verifier it is given, not the hash of *)
(* the block before it.                                                    *)
NewBlock(index, data, verifier, now) ==
    [index |-> index, current_time |-> now, data |-> data, prevHash |-> verifier]

(* Mutant of calculateHash: the index left out of what is hashed. *)
HashWithoutIndex(b) == <<b.current_time, b.data, b.prevHash>>

(* calculateHash: index, time, data and prevHash are printed one after the *)
(* other with no separator and hashed.  sha256 is taken to be injective.   *)
(* Data never starts with a digit and prevHash has a fixed width, so only  *)
(* index and time run into each other.                                     *)
calculateHash(b) ==
    <<b.index * TimeBase + b.current_time, b.data, b.prevHash>>

(* VTrie::Insert, an alias of Put: stores the value at the key whether or  *)
(* not the key is present.                                                 *)
Insert(trie, b) ==
    {x \in trie : calculateHash(x) # calculateHash(b)} \cup {b}

(* chain::getSize. *)
getSize(trie) == Cardinality(trie)

(* The keys the trie can prove (VTrie::Prove, VTrie::VerifyProof). *)
Keys(trie) == {calculateHash(b) : b \in trie}

(* Mutant of addBlock: blocks numbered from one. *)
AddBlockFromOne(trie, data, verifier, now) ==
    Insert(trie, NewBlock(getSize(trie) + 1, data, verifier, now))

(* Mutant of addBlock: the number of the last block, not of the next one. *)
AddBlockLast(trie, data, verifier, now) ==
    Insert(trie, NewBlock(getSize(trie) - 1, data, verifier, now))

(* chain::addBlock of a block numbered by chain::getSize, as               *)
(* transaction::verified uses them.                                        *)
addBlock(trie, data, verifier, now) ==
    Insert(trie, NewBlock(getSize(trie), data, verifier, now))

(* The indexes of a trie are exactly 0 .. size-1, each used once. *)
Contiguous(trie) ==
    /\ \A b \in trie : b.index < getSize(trie)
    /\ \A i \in 0..(getSize(trie) - 1) : \E b \in trie : b.index = i
    /\ \A b, c \in trie : b.index = c.index => b = c
=============================================================================
