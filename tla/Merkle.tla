-------------------------------- MODULE Merkle --------------------------------
(***************************************************************************)
(* The Merkle tree of merkle.go over a sequence of leaves.  Hashes are     *)
(* terms, so that two hashes are equal exactly when their inputs are.      *)
(***************************************************************************)
EXTENDS Naturals, Sequences

HashLeaf(data) == <<"leaf", data>>
HashNode(left, right) == <<"node", left, right>>

\* Nodes are paired from the left; a lone last node moves up as it is.
NextLevel(nodes) ==
  [i \in 1 .. (Len(nodes) + 1) \div 2 |->
     IF 2 * i <= Len(nodes) THEN HashNode(nodes[2 * i - 1], nodes[2 * i])
     ELSE nodes[2 * i - 1]]

\* Steps of halving until one node is left.
Widths(n) == LET W[h \in 0 .. n] == IF h = 0 THEN n ELSE (W[h - 1] + 1) \div 2 IN W
Height(n) == CHOOSE h \in 0 .. n : Widths(n)[h] <= 1 /\ \A k \in 0 .. n : k < h => Widths(n)[k] > 1

\* NewMerkleTree: level 0 are the leaf hashes.
Levels(leaves) ==
  LET L[h \in 0 .. Height(Len(leaves))] ==
        IF h = 0 THEN [i \in DOMAIN leaves |-> HashLeaf(leaves[i])] ELSE NextLevel(L[h - 1])
  IN L

\* RootHex, "" for no leaves.
RootHex(leaves) == IF leaves = <<>> THEN <<"">> ELSE Levels(leaves)[Height(Len(leaves))][1]

\* Proof: on each level the sibling, unless the node has none.  Indices from 0.
ProofStep(nodes, idx, proof) ==
  IF idx % 2 = 1 THEN Append(proof, [sibling |-> nodes[idx], left |-> TRUE])
  ELSE IF idx + 1 < Len(nodes) THEN Append(proof, [sibling |-> nodes[idx + 2], left |-> FALSE])
  ELSE proof
Path(leaves, leafIndex) ==
  LET P[h \in 0 .. Height(Len(leaves))] ==
        IF h = 0 THEN [idx |-> leafIndex, proof |-> <<>>]
        ELSE [idx |-> P[h - 1].idx \div 2,
              proof |-> ProofStep(Levels(leaves)[h - 1], P[h - 1].idx, P[h - 1].proof)]
  IN P
Proof(leaves, leafIndex) == Path(leaves, leafIndex)[Height(Len(leaves))].proof

\* The bound Verify takes from the size of the batch: ceil(log2 size).
Powers(n) == LET D[h \in 0 .. n] == IF h = 0 THEN 1 ELSE 2 * D[h - 1] IN D
MaxProof(size) ==
  CHOOSE h \in 0 .. size : Powers(size)[h] >= size /\ \A k \in 0 .. size : k < h => Powers(size)[k] < size

\* VerifyProofBounded.
HashUp(leaf, proof) ==
  LET H[i \in 0 .. Len(proof)] ==
        IF i = 0 THEN HashLeaf(leaf)
        ELSE IF proof[i].left THEN HashNode(proof[i].sibling, H[i - 1])
        ELSE HashNode(H[i - 1], proof[i].sibling)
  IN H
VerifyProof(leaf, proof, root, size) ==
  Len(proof) <= MaxProof(size) /\ HashUp(leaf, proof)[Len(proof)] = root
===============================================================================
