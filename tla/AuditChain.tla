------------------------------- MODULE AuditChain -------------------------------
(***************************************************************************)
(* AuditChain (merkle.go): batches of entries sealed into Merkle trees,    *)
(* each linked to the root before it.  A sealer reads LatestRoot and seals *)
(* in a later call, so another sealer may come between the two.            *)
(***************************************************************************)
EXTENDS Merkle

CONSTANTS
  Sealers,   \* callers of the chain
  Batches,   \* the batches they may seal: sequences of entries
  Leaves,    \* the entries that occur in them
  NoRoot     \* a sealer that has not read the root yet

ASSUME AuditChainAssumption == Batches \subseteq Seq(Leaves)

VARIABLES
  trees,   \* the sealed batches, with the entries that went into them
  held,    \* the root each sealer has read
  seals    \* sealing calls left

chainVars == <<trees, held, seals>>

LatestRoot == IF trees = <<>> THEN RootHex(<<>>) ELSE trees[Len(trees)].root

ReadLatestRoot(s) ==
  /\ held[s] = NoRoot
  /\ seals > 0
  /\ held' = [held EXCEPT ![s] = LatestRoot]
  /\ UNCHANGED <<trees, seals>>

\* Plausible bug: only an empty previous root is refused.
MutantLinks(previous) == trees # <<>> => previous # RootHex(<<>>)

\* SealChecked's guard: a non-empty chain is continued from its latest root.
Links(previous) ==
  trees # <<>> => previous # RootHex(<<>>) /\ previous = trees[Len(trees)].root

Sealed(previous, entries) ==
  [previous |-> previous, root |-> RootHex(entries), size |-> Len(entries), entries |-> entries]

\* The batch is appended, or the call is refused and the chain is as it was.
SealChecked(s, entries) ==
  /\ held[s] # NoRoot
  /\ seals > 0
  /\ trees' = IF Links(held[s]) THEN Append(trees, Sealed(held[s], entries)) ELSE trees
  /\ seals' = seals - 1
  /\ held' = [held EXCEPT ![s] = NoRoot]

ChainNext ==
  \E s \in Sealers : ReadLatestRoot(s) \/ \E b \in Batches : SealChecked(s, b)

\* VerifyContinuity, of any sequence of sealed batches.
VerifyContinuity(c) == \A i \in 2 .. Len(c) : c[i].previous = c[i - 1].root

\* Verify: a proof against one batch.
Verify(batch, leaf, proof) == VerifyProof(leaf, proof, trees[batch].root, trees[batch].size)

-------------------------------------------------------------------------------
(* Properties *)

\* Whatever the sealers interleave, the chain is continuous, and nothing that
\* was sealed can be left out of its inside or moved: if no batch is empty or
\* sealed twice, every selection that VerifyContinuity accepts is a gapless
\* stretch of the chain in its own order ("a reordered/inserted/deleted batch
\* is detected", merkle.go:215-217; the two ends are not covered).
ChainContinuous ==
  /\ VerifyContinuity(trees)
  /\ (\A i, j \in DOMAIN trees :
        trees[i].size > 0 /\ (i # j => trees[i].root # trees[j].root)) =>
       \A i, j \in DOMAIN trees :
         VerifyContinuity(<<trees[i], trees[j]>>) <=> j = i + 1

\* Verify accepts an entry with the proof Proof computes for its place, and no
\* proof that any sealed batch yields shows an entry the batch does not hold.
ProofsSound ==
  \A b, c \in DOMAIN trees : \A i \in DOMAIN trees[c].entries :
    LET proof == Proof(trees[c].entries, i - 1)
    IN \A leaf \in Leaves :
         /\ b = c /\ leaf = trees[c].entries[i] => Verify(b, leaf, proof)
         /\ Verify(b, leaf, proof) => \E k \in DOMAIN trees[b].entries : trees[b].entries[k] = leaf

\* What a chain of sealed batches is good for.
ChainTamperEvident == ChainContinuous /\ ProofsSound
===============================================================================
