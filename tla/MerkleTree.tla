------------------------------ MODULE MerkleTree ------------------------------
(***************************************************************************)
(* src/utils/merkleUtils/merkleTree.ts and balanceTree.ts: the tree over   *)
(* the entries of a distribution, and the proofs that an entry is in it.   *)
(*                                                                         *)
(* A hash is the term it was computed from, so hashes do not collide; the  *)
(* hash of an entry and the hash of two hashes are of different lengths of *)
(* data and never equal.  The bytes of a hash order it in a way the code   *)
(* cannot know: whoever builds a tree supplies the order.                  *)
(***************************************************************************)
EXTENDS Naturals, SequencesExt

(* BalanceTree.toNode, and the node of MerkleDistributor.claim.            *)
toNode(index, account, amount) ==
  [entry |-> <<index, account, amount>>, pair |-> {}]

(* Of two hashes, sorted: which is first does not matter.                  *)
combinedHash(first, second) == [entry |-> <<>>, pair |-> {first, second}]

(* Mutant: an element without a pair is paired with itself.                *)
getNextLayerPairingLast(elements) ==
  [k \in 1..((Len(elements) + 1) \div 2) |->
     combinedHash(elements[2 * k - 1],
                  IF 2 * k <= Len(elements) THEN elements[2 * k] ELSE elements[2 * k - 1])]

(* Elements are combined by twos; one without a pair moves up as it is.    *)
getNextLayer(elements) ==
  [k \in 1..((Len(elements) + 1) \div 2) |->
     IF 2 * k <= Len(elements)
     THEN combinedHash(elements[2 * k - 1], elements[2 * k])
     ELSE elements[2 * k - 1]]

(* From the elements, which are not none, to the layer of one, the root.   *)
getLayers(elements) ==
  LET layer[n \in 1..Len(elements)] ==
        IF n = 1 THEN elements ELSE getNextLayer(layer[n - 1])
      height == CHOOSE n \in 1..Len(elements) :
                  Len(layer[n]) = 1 /\ \A m \in 1..(n - 1) : Len(layer[m]) > 1
  IN  [n \in 1..height |-> layer[n]]

getRoot(layers) == layers[Len(layers)][1]

(* The neighbour at each layer, where there is one; positions are counted  *)
(* from 0.                                                                 *)
getProof(layers, el) ==
  LET position == (CHOOSE i \in 1..Len(layers[1]) : layers[1][i] = el) - 1
      idx[n \in 1..Len(layers)] == IF n = 1 THEN position ELSE idx[n - 1] \div 2
      pairIdx(n) == IF idx[n] % 2 = 0 THEN idx[n] + 1 ELSE idx[n] - 1
  IN  FlattenSeq([n \in 1..Len(layers) |->
        IF pairIdx(n) < Len(layers[n]) THEN <<layers[n][pairIdx(n) + 1]>> ELSE <<>>])

(* BalanceTree.verifyProof, and OpenZeppelin's MerkleProof.verify.         *)
verifyProof(node, proof, root) == FoldLeft(combinedHash, node, proof) = root
===============================================================================
