---------------------------- MODULE ChainProofs ----------------------------
(***************************************************************************)
(* Proofs about Chain, for every set of data and verifiers and every       *)
(* clock.                                                                  *)
(***************************************************************************)
EXTENDS Chain, BlockProofs, SequenceTheorems

-----------------------------------------------------------------------------
(* The inductive invariant: numbering alone is not inductive, because what *)
(* getSize returns means something only for a finite trie of blocks.       *)
ChainInv == TypeOK /\ IsFiniteSet(blockchain) /\ BlocksNumbered

(* An empty trie is numbered. *)
LEMMA ChainInit == Init => ChainInv
  BY EmptyChain DEF Init, ChainInv, TypeOK, BlocksNumbered

(* A step either records one block at the end of the chain or empties it. *)
LEMMA ChainMoves ==
    ASSUME ChainInv, Next
    PROVE  \/ \E b \in BlockType(Data, Verifier) :
                 /\ b \notin blockchain
                 /\ b.index = getSize(blockchain)
                 /\ blockchain' = blockchain \cup {b}
                 /\ IsFiniteSet(blockchain')
                 /\ getSize(blockchain') = getSize(blockchain) + 1
                 /\ Contiguous(blockchain')
           \/ blockchain' = {}
<1>1. CASE \E d \in Data, v \in Verifier, t \in Time : AddBlock(d, v, t)
  <2>1. PICK d \in Data, v \in Verifier, t \in Time : AddBlock(d, v, t)
    BY <1>1
  <2>2. blockchain \in SUBSET BlockType(Data, Verifier) /\ IsFiniteSet(blockchain)
          /\ Contiguous(blockchain)
    BY DEF ChainInv, TypeOK, BlocksNumbered
  <2>3. blockchain' = addBlock(blockchain, d, v, t)
    BY <2>1 DEF AddBlock
  <2>4. PICK b \in BlockType(Data, Verifier) :
               /\ b \notin blockchain
               /\ b.index = getSize(blockchain) /\ b.data = d /\ b.prevHash = v
               /\ addBlock(blockchain, d, v, t) = blockchain \cup {b}
               /\ IsFiniteSet(blockchain \cup {b})
               /\ getSize(blockchain \cup {b}) = getSize(blockchain) + 1
               /\ Contiguous(blockchain \cup {b})
    BY <2>2, AddBlockAppends
  <2>. QED  BY <2>3, <2>4
<1>2. CASE Restart
  BY <1>2 DEF Restart
<1>. QED  BY <1>1, <1>2 DEF Next

(* addBlock and a restart keep the trie numbered. *)
LEMMA ChainStep == ChainInv /\ [Next]_blockchain => ChainInv'
<1>. SUFFICES ASSUME ChainInv, [Next]_blockchain PROVE ChainInv'
  OBVIOUS
<1>1. CASE UNCHANGED blockchain
  BY <1>1 DEF ChainInv, TypeOK, BlocksNumbered
<1>2. CASE blockchain' = {}
  BY <1>2, EmptyChain DEF ChainInv, TypeOK, BlocksNumbered
<1>3. ASSUME NEW b \in BlockType(Data, Verifier), blockchain' = blockchain \cup {b},
             IsFiniteSet(blockchain'), Contiguous(blockchain')
      PROVE  ChainInv'
  BY <1>3 DEF ChainInv, TypeOK, BlocksNumbered
<1>. QED  BY <1>1, <1>2, <1>3, ChainMoves

(* The trie is always finite and numbered. *)
LEMMA ChainInvariant == Spec => []ChainInv
  BY ChainInit, ChainStep, PTL DEF Spec

(* Every reachable chain holds blocks only (chain::addBlock). *)
THEOREM ChainTypeCorrect == Spec => []TypeOK
<1>1. ChainInv => TypeOK
  BY DEF ChainInv
<1>. QED  BY <1>1, ChainInvariant, PTL

(* Every reachable chain is numbered without gap or repetition             *)
(* (chain::getSize and chain::addBlock).                                   *)
THEOREM ChainNumbered == Spec => []BlocksNumbered
<1>1. ChainInv => BlocksNumbered
  BY DEF ChainInv
<1>. QED  BY <1>1, ChainInvariant, PTL

(* No call of chain::addBlock removes or replaces a block. *)
THEOREM ChainAppendOnly == Spec => BlocksKept
<1>1. ChainInv /\ [Next]_blockchain
        => [blockchain \subseteq blockchain' \/ blockchain' = {}]_blockchain
  BY ChainMoves
<1>. QED  BY <1>1, ChainInvariant, PTL DEF Spec, BlocksKept

-----------------------------------------------------------------------------
(* A function on 1..n is a sequence of length n. *)
LEMMA FunctionIsSeq ==
    ASSUME NEW S, NEW n \in Nat, NEW f \in [1..n -> S]
    PROVE  f \in Seq(S) /\ Len(f) = n
<1>1. f \in Seq(S)
  BY SeqDef
<1>2. DOMAIN f = 1..n /\ DOMAIN f = 1..Len(f) /\ Len(f) \in Nat
  BY <1>1, LenProperties
<1>. QED  BY <1>1, <1>2

(* A sequence that agrees with s and then holds e is Append(s, e). *)
LEMMA LongerByOne ==
    ASSUME NEW S, NEW s \in Seq(S), NEW e \in S, NEW t \in Seq(S),
           Len(t) = Len(s) + 1,
           \A i \in 1..Len(s) : t[i] = s[i],
           t[Len(s) + 1] = e
    PROVE  t = Append(s, e)
<1>1. Len(s) \in Nat
  BY LenProperties
<1>2. /\ Append(s, e) \in Seq(S) /\ Len(Append(s, e)) = Len(s) + 1
      /\ \A i \in 1..Len(s) : Append(s, e)[i] = s[i]
      /\ Append(s, e)[Len(s) + 1] = e
  BY AppendProperties
<1>3. \A i \in 1..(Len(s) + 1) : t[i] = Append(s, e)[i]
  BY <1>1, <1>2
<1>. QED  BY <1>2, <1>3, SeqEqual

(* Position i of the history is the one block numbered i - 1. *)
LEMMA NumberedFound ==
    ASSUME ChainInv, NEW i \in 1..getSize(blockchain)
    PROVE  Numbered(i) \in blockchain /\ Numbered(i).index = i - 1
<1>1. getSize(blockchain) \in Nat
  BY FS_CardinalityType DEF ChainInv, getSize
<1>2. i - 1 \in 0..(getSize(blockchain) - 1)
  BY <1>1
<1>3. \E b \in blockchain : b.index = i - 1
  BY <1>2 DEF ChainInv, BlocksNumbered, Contiguous
<1>. QED  BY <1>3 DEF Numbered

(* The trie keyed by hashes implements the append-only log (chain.cpp). *)
THEOREM ChainIsLog == Spec => ImplementsLog
<1>1. Init => L!Init
  <2>1. Init => History = << >>
    BY EmptyChain DEF Init, History
  <2>. QED  BY <2>1 DEF L!Init
<1>2. ChainInv /\ ChainInv' /\ [Next]_blockchain => [L!Next]_History
  <2>. SUFFICES ASSUME ChainInv, ChainInv', [Next]_blockchain
                PROVE  [L!Next]_History
    OBVIOUS
  <2>1. CASE UNCHANGED blockchain
    BY <2>1 DEF History, Numbered, Recorded
  <2>2. CASE blockchain' = {}
    <3>1. History' = << >>
      BY <2>2, EmptyChain DEF History
    <3>. QED  BY <3>1 DEF L!Next, L!Lose
  <2>3. ASSUME NEW b \in BlockType(Data, Verifier),
               b \notin blockchain, b.index = getSize(blockchain),
               blockchain' = blockchain \cup {b},
               getSize(blockchain') = getSize(blockchain) + 1
        PROVE  L!Next
    <3>1. PICK n \in Nat : n = getSize(blockchain)
      BY FS_CardinalityType DEF ChainInv, getSize
    <3>2. \A x, y \in blockchain' : x.index = y.index => x = y
      BY DEF ChainInv, BlocksNumbered, Contiguous
    <3>3. \A i \in 1..(n + 1) :
            Numbered(i)' \in blockchain' /\ Numbered(i)'.index = i - 1
      <4>1. \A i \in 1..(n + 1) : \E x \in blockchain' : x.index = i - 1
        <5>1. TAKE i \in 1..(n + 1)
        <5>2. i - 1 \in 0..(getSize(blockchain') - 1)
          BY <3>1, <2>3
        <5>. QED  BY <5>2 DEF ChainInv, BlocksNumbered, Contiguous
      <4>. QED  BY <4>1 DEF Numbered
    <3>4. \A i \in 1..n : Numbered(i)' = Numbered(i)
      <4>1. TAKE i \in 1..n
      <4>2. Numbered(i) \in blockchain' /\ Numbered(i).index = i - 1
        BY NumberedFound, <2>3, <3>1
      <4>3. i \in 1..(n + 1)
        BY <3>1
      <4>. QED  BY <4>2, <4>3, <3>2, <3>3
    <3>5. Numbered(n + 1)' = b
      <4>1. n + 1 \in 1..(n + 1) /\ n + 1 - 1 = n
        BY <3>1
      <4>2. b \in blockchain' /\ b.index = n
        BY <2>3, <3>1
      <4>. QED  BY <4>1, <4>2, <3>2, <3>3
    <3>. DEFINE E == [data: Data, verifier: Verifier]
    <3>6. Recorded(b) \in E
      BY DEF Recorded, BlockType
    <3>7. History \in Seq(E) /\ Len(History) = n
      <4>1. \A i \in 1..n : Recorded(Numbered(i)) \in E
        BY NumberedFound, <3>1 DEF Recorded, ChainInv, TypeOK, BlockType
      <4>2. History \in [1..n -> E]
        BY <4>1, <3>1 DEF History
      <4>. QED  BY <4>2, FunctionIsSeq
    <3>8. History' \in Seq(E) /\ Len(History') = n + 1
      <4>1. \A i \in 1..(n + 1) : Recorded(Numbered(i)') \in E
        BY <3>3 DEF Recorded, ChainInv, TypeOK, BlockType
      <4>2. History' = [i \in 1..(n + 1) |-> Recorded(Numbered(i)')]
        BY <2>3, <3>1 DEF History, Recorded
      <4>3. History' \in [1..(n + 1) -> E]
        BY <4>1, <4>2
      <4>4. n + 1 \in Nat
        OBVIOUS
      <4>. HIDE DEF E
      <4>. QED  BY <4>3, <4>4, FunctionIsSeq
    <3>9. /\ \A i \in 1..n : History'[i] = History[i]
          /\ History'[n + 1] = Recorded(b)
      <4>1. \A i \in 1..(n + 1) : History'[i] = Recorded(Numbered(i)')
        BY <2>3, <3>1 DEF History, Recorded
      <4>2. 1..n \subseteq 1..(n + 1) /\ n + 1 \in 1..(n + 1)
        OBVIOUS
      <4>3. \A i \in 1..n : History[i] = Recorded(Numbered(i))
        BY <3>1 DEF History
      <4>. QED  BY <4>1, <4>2, <4>3, <3>4, <3>5
    <3>10. History' = Append(History, Recorded(b))
      <4>. HIDE DEF E
      <4>. QED  BY <3>6, <3>7, <3>8, <3>9, LongerByOne
    <3>. QED  BY <3>6, <3>10 DEF L!Next, L!Record
  <2>. QED  BY <2>1, <2>2, <2>3, ChainMoves
<1>. QED  BY <1>1, <1>2, ChainInvariant, PTL DEF Spec, ImplementsLog, L!Spec
=============================================================================
