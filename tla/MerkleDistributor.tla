--------------------------- MODULE MerkleDistributor ---------------------------
(***************************************************************************)
(* A distribution from the list of balances to the last claim:             *)
(* src/utils/merkleUtils/parseBalanceMap.ts makes the tree and the claims, *)
(* and src/contracts/token/MerkleDistributor.sol, deployed with the root,  *)
(* pays whoever shows that an entry is in the tree.  A reverted            *)
(* transaction is a step that is not taken.                                *)
(*                                                                         *)
(* An address of the list is a spelling, a number in the order of sort();  *)
(* one account may have several.  The token is external: it moves what is  *)
(* there to be moved.                                                      *)
(***************************************************************************)
EXTENDS MerkleTree

CONSTANTS
  Lists,            \* lists of [address, earnings] that are distributed
  Accounts,
  accountOf,        \* the account an address spells
  WordBits          \* bits of a word of claimedBitMap: 256

ASSUME ListsAssumption == Lists \subseteq Seq([address : DOMAIN accountOf, earnings : Int])
ASSUME SpellingAssumption == DOMAIN accountOf \subseteq Nat /\ accountOf \in [DOMAIN accountOf -> Accounts]
ASSUME WordAssumption == WordBits \in Nat \ {0}

VARIABLES
  balances,         \* the list
  merkleRoot, claims, tokenTotal,   \* what parseBalanceMap returned
  claimedBitMap,    \* the bits that are set in each word
  funds,            \* token.balanceOf(this)
  paid              \* history: tokens paid to each account

publishedVars == <<balances, merkleRoot, claims, tokenTotal>>
vars == <<publishedVars, claimedBitMap, funds, paid>>

-----------------------------------------------------------------------------
(* parseBalanceMap.  A list that names an address twice, or an amount that *)
(* is not positive, or nobody, is refused.                                 *)
accepted(list) ==
  /\ list # <<>>
  /\ \A i, j \in 1..Len(list) : list[i].address = list[j].address => i = j
  /\ \A i \in 1..Len(list) : list[i].earnings > 0

addresses(list) == {list[i].address : i \in 1..Len(list)}

earningsOf(list, address) ==
  (CHOOSE entry \in ToSet(list) : entry.address = address).earnings

(* The index of an address is its position among the sorted addresses.     *)
indexOf(list, address) == Cardinality({a \in addresses(list) : a < address})

nodeOf(list, address) ==
  toNode(indexOf(list, address), accountOf[address], earningsOf(list, address))

nodes(list) == {nodeOf(list, address) : address \in addresses(list)}

publish(list, elements) ==
  LET layers == getLayers(elements)
  IN  /\ merkleRoot = getRoot(layers)
      /\ claims = [address \in addresses(list) |->
                     [index |-> indexOf(list, address), amount |-> earningsOf(list, address),
                      proof |-> getProof(layers, nodeOf(list, address))]]
      /\ tokenTotal = FoldFunction(+, 0, [a \in addresses(list) |-> earningsOf(list, a)])

(* The distributor is deployed with the root of an accepted list and given *)
(* the total, or less.                                                     *)
Init ==
  /\ balances \in {list \in Lists : accepted(list)}
  /\ \E elements \in SetToSeqs(nodes(balances)) : publish(balances, elements)
  /\ claimedBitMap = [word \in 0..(Len(balances) \div WordBits) |-> {}]
  /\ funds \in {tokenTotal, tokenTotal - 1}
  /\ paid = [account \in Accounts |-> 0]

-----------------------------------------------------------------------------
isClaimed(index) ==
  LET word == index \div WordBits
  IN  word \in DOMAIN claimedBitMap /\ index % WordBits \in claimedBitMap[word]

(* Mutant: the position of the bit is not taken within the word, and a bit *)
(* shifted out of it is lost.                                              *)
_setClaimedUnwrapped(index) ==
  claimedBitMap' =
    [claimedBitMap EXCEPT ![index \div WordBits] = @ \union ({index} \intersect (0..(WordBits - 1)))]

_setClaimed(index) ==
  claimedBitMap' = [claimedBitMap EXCEPT ![index \div WordBits] = @ \union {index % WordBits}]

claimAccepted(index, account, amount, proof) ==
  /\ ~isClaimed(index)
  /\ verifyProof(toNode(index, account, amount), proof, merkleRoot)
  /\ amount <= funds

claim(index, account, amount, proof) ==
  /\ claimAccepted(index, account, amount, proof)
  /\ _setClaimed(index)
  /\ funds' = funds - amount
  /\ paid' = [paid EXCEPT ![account] = @ + amount]
  /\ UNCHANGED publishedVars

(* What is tried: every mix of indices, accounts and amounts of the list,  *)
(* with the published proofs and their parts.                              *)
proofsTried ==
  UNION {{SubSeq(claims[a].proof, i, j) : i \in 1..(Len(claims[a].proof) + 1),
                                          j \in {0, Len(claims[a].proof)}} : a \in DOMAIN claims}

indicesTried == 0..Len(balances)
amountsTried == {claims[a].amount : a \in DOMAIN claims}

Next ==
  \E index \in indicesTried, account \in Accounts, amount \in amountsTried, proof \in proofsTried :
    claim(index, account, amount, proof)

Spec == Init /\ [][Next]_vars

-----------------------------------------------------------------------------
claimed == {a \in addresses(balances) : isClaimed(claims[a].index)}
amounts(S) == FoldFunction(+, 0, [a \in S |-> claims[a].amount])

(* Each account has been paid exactly the entries of the list that are     *)
(* marked as claimed and spell it: no proof, whole or in part and with     *)
(* whatever index, account and amount, gets more than the list gives, and  *)
(* no entry is paid twice.                                                 *)
PaidByTheList ==
  \A account \in Accounts : paid[account] = amounts({a \in claimed : accountOf[a] = account})

(* When the distributor was given the total, whoever has not claimed can,  *)
(* with the published proof, whatever others claimed and in whatever way   *)
(* the hashes were sorted.                                                 *)
EveryoneCanClaim ==
  funds + amounts(claimed) = tokenTotal =>
    \A a \in addresses(balances) \ claimed :
      claimAccepted(claims[a].index, accountOf[a], claims[a].amount, claims[a].proof)
===============================================================================
