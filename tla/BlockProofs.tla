---------------------------- MODULE BlockProofs ----------------------------
(***************************************************************************)
(* Lemmas about the trie of blocks, for every set of data and verifiers    *)
(* and every clock with a constant number of digits: what calculateHash    *)
(* tells apart and what addBlock does.                                     *)
(***************************************************************************)
EXTENDS Block, FiniteSetTheorems, TLAPS

-----------------------------------------------------------------------------
(* Printing the clock with a fixed number of digits after the index loses  *)
(* neither: calculateHash needs no separator between them.                 *)
LEMMA PrintedApart ==
    ASSUME NEW B \in Nat, NEW i \in Nat, NEW j \in Nat,
           NEW t \in 0..(B - 1), NEW u \in 0..(B - 1),
           i * B + t = j * B + u
    PROVE  i = j
<1>1. ASSUME NEW m \in Nat, NEW n \in Nat, NEW x \in 0..(B - 1),
             NEW y \in 0..(B - 1), m < n
      PROVE  m * B + x # n * B + y
  <2>1. PICK k \in Nat : n = m + 1 + k
    <3>1. n - m - 1 \in Nat /\ n = m + 1 + (n - m - 1)
      BY <1>1
    <3>. QED  BY <3>1
  <2>2. n * B = m * B + B + k * B
    BY <2>1
  <2>3. k * B \in Nat /\ m * B \in Nat /\ n * B \in Nat
    OBVIOUS
  <2>. QED  BY <2>2, <2>3
<1>. QED  BY <1>1

(* Blocks with equal hashes have equal indexes (block::calculateHash). *)
LEMMA HashFixesIndex ==
    ASSUME NEW D, NEW V, NEW b \in BlockType(D, V), NEW c \in BlockType(D, V),
           calculateHash(b) = calculateHash(c)
    PROVE  b.index = c.index
<1>1. b.index * TimeBase + b.current_time = c.index * TimeBase + c.current_time
  BY DEF calculateHash
<1>2. /\ b.index \in Nat /\ c.index \in Nat
      /\ b.current_time \in 0..(TimeBase - 1)
      /\ c.current_time \in 0..(TimeBase - 1)
  BY DEF BlockType, Time
<1>. QED  BY <1>1, <1>2, PrintedApart, TimeBaseAssumption

(* addBlock on a well-numbered trie adds one block and removes none. *)
LEMMA AddBlockAppends ==
    ASSUME NEW D, NEW V,
           NEW trie \in SUBSET BlockType(D, V), IsFiniteSet(trie), Contiguous(trie),
           NEW d \in D, NEW v \in V, NEW t \in Time
    PROVE  \E b \in BlockType(D, V) :
               /\ b \notin trie
               /\ b.index = getSize(trie) /\ b.data = d /\ b.prevHash = v
               /\ addBlock(trie, d, v, t) = trie \cup {b}
               /\ IsFiniteSet(trie \cup {b})
               /\ getSize(trie \cup {b}) = getSize(trie) + 1
               /\ Contiguous(trie \cup {b})
<1>. DEFINE n == getSize(trie)
            b == NewBlock(n, d, v, t)
<1>1. n \in Nat
  BY FS_CardinalityType DEF getSize
<1>2. b \in BlockType(D, V) /\ b.index = n /\ b.data = d /\ b.prevHash = v
  BY <1>1 DEF NewBlock, BlockType
<1>3. \A x \in trie : x.index # n
  <2>1. \A x \in trie : x.index \in Nat /\ x.index < n
    BY DEF Contiguous, BlockType
  <2>. QED  BY <2>1, <1>1
<1>4. b \notin trie
  BY <1>2, <1>3
<1>5. \A x \in trie : calculateHash(x) # calculateHash(b)
  BY <1>2, <1>3, HashFixesIndex
<1>6. addBlock(trie, d, v, t) = trie \cup {b}
  BY <1>5 DEF addBlock, Insert
<1>7. IsFiniteSet(trie \cup {b}) /\ getSize(trie \cup {b}) = n + 1
  BY <1>4, FS_AddElement DEF getSize
<1>8. Contiguous(trie \cup {b})
  <2>. DEFINE S == trie \cup {b}
  <2>1. \A x \in S : x.index < n + 1
    BY <1>1, <1>2 DEF Contiguous, BlockType
  <2>2. \A i \in 0..n : \E x \in S : x.index = i
    <3>1. TAKE i \in 0..n
    <3>2. CASE i = n
      BY <3>2, <1>2
    <3>3. CASE i # n
      <4>1. i \in 0..(n - 1)
        BY <3>3, <1>1
      <4>. QED  BY <4>1 DEF Contiguous
    <3>. QED  BY <3>2, <3>3
  <2>3. \A x, y \in S : x.index = y.index => x = y
    BY <1>2, <1>3 DEF Contiguous
  <2>4. getSize(S) - 1 = n
    BY <1>7, <1>1
  <2>. QED  BY <2>1, <2>2, <2>3, <2>4, <1>7 DEF Contiguous
<1>. QED  BY <1>2, <1>4, <1>6, <1>7, <1>8

(* The empty trie is finite and well numbered. *)
LEMMA EmptyChain ==
    IsFiniteSet({}) /\ getSize({}) = 0 /\ Contiguous({})
<1>1. IsFiniteSet({}) /\ getSize({}) = 0
  BY FS_EmptySet DEF getSize
<1>. QED  BY <1>1 DEF Contiguous
=============================================================================
