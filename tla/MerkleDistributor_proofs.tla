------------------------ MODULE MerkleDistributor_proofs ------------------------
(***************************************************************************)
(* Theorems about MerkleDistributor, for every list of balances of any     *)
(* length, every order of the hashes and every width of a word: a proof    *)
(* that verifies is of an entry of the list, every entry has one, and what *)
(* an account is paid is what the list gives it.                           *)
(***************************************************************************)
EXTENDS MerkleDistributor, FiniteSums

-----------------------------------------------------------------------------
(* Sequences, as functions on 1 .. n.                                      *)
isSeqOf(s, n) == n \in Nat /\ s = [k \in 1..n |-> s[k]]

LEMMA SameInterval ==
  ASSUME NEW m \in Nat, NEW n \in Nat, 1..m = 1..n
  PROVE  m = n
<1>1. m <= n /\ n <= m
  <2>1. m = 0 \/ m \in 1..m
    OBVIOUS
  <2>2. n = 0 \/ n \in 1..n
    OBVIOUS
  <2> QED
    BY <2>1, <2>2
<1> QED
  BY <1>1

LEMMA LenOfSeq ==
  ASSUME NEW s, NEW n, isSeqOf(s, n)
  PROVE  n \in Nat /\ Len(s) = n /\ DOMAIN s = 1..n
<1>1. n \in Nat /\ DOMAIN s = 1..n
  BY DEF isSeqOf
<1>2. s \in Seq({s[k] : k \in 1..n})
  BY <1>1 DEF isSeqOf
<1>3. Len(s) \in Nat /\ DOMAIN s = 1..Len(s)
  BY <1>2
<1> QED
  BY <1>1, <1>3, SameInterval

LEMMA SeqIsSeq ==
  ASSUME NEW S, NEW s \in Seq(S)
  PROVE  isSeqOf(s, Len(s))
BY DEF isSeqOf

(* A set of naturals that is not empty has a least element.                *)
LEMMA LeastExists ==
  ASSUME NEW T, T \subseteq Nat, T # {}
  PROVE  \E x \in T : \A y \in T : x <= y
<1>1. PICK x \in T : \A y \in T : ~ (<<y, x>> \in OpToRel(<, Nat))
  BY NatLessThanWellFounded, WFMin
<1>2. ASSUME NEW y \in T, y < x PROVE FALSE
  <2>1. <<y, x>> \in OpToRel(<, Nat)
    BY <1>2 DEF OpToRel
  <2> QED
    BY <1>1, <2>1
<1> QED
  BY <1>2

(* And one of a finite interval has a greatest.                            *)
LEMMA GreatestExists ==
  ASSUME NEW n \in Nat, NEW T, T \subseteq 1..n, T # {}
  PROVE  Max(T) \in T /\ \A y \in T : Max(T) >= y
<1>1. PICK m \in {n - x : x \in T} : \A k \in {n - x : x \in T} : m <= k
  <2>1. \A x \in T : n - x \in Nat
    OBVIOUS
  <2>2. {n - x : x \in T} \subseteq Nat
    BY <2>1
  <2>3. {n - x : x \in T} # {}
    <3>1. PICK x \in T : TRUE
      OBVIOUS
    <3> QED
      BY <3>1
  <2> QED
    BY <2>2, <2>3, LeastExists
<1>2. PICK x \in T : m = n - x
  BY <1>1
<1>3. \A y \in T : x >= y
  <2> TAKE y \in T
  <2>1. n - x <= n - y
    BY <1>1, <1>2
  <2> QED
    BY <2>1
<1> QED
  BY <1>3 DEF Max

LEMMA MaxOfInterval ==
  ASSUME NEW n \in Nat \ {0}
  PROVE  Max(1..n) = n /\ (1..n) \ {Max(1..n)} = 1..(n - 1)
<1>1. Max(1..n) \in 1..n /\ \A y \in 1..n : Max(1..n) >= y
  <2>1. 1..n \subseteq 1..n /\ 1..n # {}
    BY n \in 1..n
  <2> QED
    BY <2>1, GreatestExists
<1>2. Max(1..n) = n
  BY <1>1
<1> QED
  BY <1>2

-----------------------------------------------------------------------------
(* FoldLeft over hashes, one element of the proof after the other.         *)
rootOf(node, proof) == FoldLeft(combinedHash, node, proof)

foldStep(node, proof, g, T) ==
  IF T = {} THEN node ELSE combinedHash(g[T \ {Max(T)}], proof[Max(T)])
folds(node, proof) ==
  CHOOSE g : g = [T \in SUBSET DOMAIN proof |-> foldStep(node, proof, g, T)]

LEMMA FoldIsIterated ==
  ASSUME NEW node, NEW proof
  PROVE  FoldLeft(combinedHash, node, proof) = folds(node, proof)[DOMAIN proof]
BY DEF FoldLeft, MapThenFoldSet, folds, foldStep

LEMMA FoldsAreDefined ==
  ASSUME NEW node, NEW proof, NEW n, isSeqOf(proof, n)
  PROVE  folds(node, proof) = [T \in SUBSET (1..n) |-> foldStep(node, proof, folds(node, proof), T)]
<1> DEFINE S == 1..n
           defined(k) == \E g : g = [T \in upTo(S, k) |-> foldStep(node, proof, g, T)]
           N == {k \in Nat : defined(k)}
<1>0. n \in Nat /\ IsFiniteSet(S) /\ DOMAIN proof = S /\ S = 1..n
  BY LenOfSeq, FS_Interval
<1> HIDE DEF S
<1>1. 0 \in N
  <2> DEFINE g == [T \in upTo(S, 0) |-> node]
  <2>1. \A T \in upTo(S, 0) : T = {}
    BY <1>0, SubsetsUpTo
  <2>2. g = [T \in upTo(S, 0) |-> foldStep(node, proof, g, T)]
    BY <2>1 DEF foldStep
  <2> QED
    BY <2>2
<1>2. ASSUME NEW k \in Nat, k \in N PROVE k + 1 \in N
  <2>1. PICK g : g = [T \in upTo(S, k) |-> foldStep(node, proof, g, T)]
    BY <1>2
  <2> DEFINE h == [T \in upTo(S, k + 1) |-> foldStep(node, proof, g, T)]
  <2>2. ASSUME NEW T \in upTo(S, k) PROVE T \in upTo(S, k + 1) /\ h[T] = g[T]
    <3>1. T \in upTo(S, k + 1)
      BY <1>0, SubsetsUpTo
    <3>2. g[T] = foldStep(node, proof, g, T)
      BY <2>1
    <3> QED
      BY <3>1, <3>2
  <2>3. ASSUME NEW T \in upTo(S, k + 1)
        PROVE  foldStep(node, proof, h, T) = foldStep(node, proof, g, T)
    <3>1. CASE T = {}
      BY <3>1 DEF foldStep
    <3>2. CASE T # {}
      <4>1. Max(T) \in T
        BY <1>0, <3>2, GreatestExists DEF upTo
      <4>2. h[T \ {Max(T)}] = g[T \ {Max(T)}]
        BY <1>0, <2>2, <4>1, SmallerSubset
      <4> HIDE DEF h
      <4> QED
        BY <3>2, <4>2 DEF foldStep
    <3> QED
      BY <3>1, <3>2
  <2>4. h = [T \in upTo(S, k + 1) |-> foldStep(node, proof, h, T)]
    BY <2>3
  <2>5. defined(k + 1)
    BY <2>4
  <2> QED
    BY <2>5
<1>3. Cardinality(S) \in N
  <2> HIDE DEF N
  <2> QED
    BY <1>0, <1>1, <1>2, NatSetInduction, FS_CardinalityType
<1>4. upTo(S, Cardinality(S)) = SUBSET S
  BY <1>0, SubsetsUpTo
<1>5. \E g : g = [T \in SUBSET S |-> foldStep(node, proof, g, T)]
  BY <1>3, <1>4
<1> QED
  BY <1>0, <1>5 DEF folds

(* The nodes on the way from an entry to the root: the last of them is     *)
(* what verifyProof compares.                                              *)
isPath(g, node, proof, n) ==
  /\ g[0] = node
  /\ \A k \in 1..n : g[k] = combinedHash(g[k - 1], proof[k])

LEMMA PathExists ==
  ASSUME NEW node, NEW proof, NEW n, isSeqOf(proof, n)
  PROVE  \E g : isPath(g, node, proof, n) /\ rootOf(node, proof) = g[n]
<1> DEFINE f == folds(node, proof)
           g == [k \in 0..n |-> f[1..k]]
<1>0. n \in Nat /\ DOMAIN proof = 1..n
  BY LenOfSeq
<1>1. ASSUME NEW k \in 0..n
      PROVE  f[1..k] = foldStep(node, proof, f, 1..k)
  <2>1. 1..k \in SUBSET (1..n)
    BY <1>0
  <2>2. f = [T \in SUBSET (1..n) |-> foldStep(node, proof, f, T)]
    BY FoldsAreDefined
  <2> HIDE DEF f
  <2>3. \A T \in SUBSET (1..n) : f[T] = foldStep(node, proof, f, T)
    BY <2>2
  <2> QED
    BY <2>1, <2>3
<1> HIDE DEF f
<1>2. g[0] = node
  <2>1. 1..0 = {} /\ 0 \in 0..n
    BY <1>0
  <2> QED
    BY <1>1, <2>1 DEF foldStep
<1>3. ASSUME NEW k \in 1..n
      PROVE  g[k] = combinedHash(g[k - 1], proof[k])
  <2>1. k \in 0..n /\ k - 1 \in 0..n /\ k \in Nat \ {0} /\ 1..k # {}
    BY <1>0, k \in 1..k
  <2>2. Max(1..k) = k /\ (1..k) \ {Max(1..k)} = 1..(k - 1)
    BY <2>1, MaxOfInterval
  <2>3. f[1..k] = combinedHash(f[1..(k - 1)], proof[k])
    BY <1>1, <2>1, <2>2 DEF foldStep
  <2> QED
    BY <2>1, <2>3
<1>4. rootOf(node, proof) = g[n]
  BY <1>0, FoldIsIterated DEF f, rootOf
<1> HIDE DEF g
<1> QED
  BY <1>2, <1>3, <1>4 DEF isPath
-----------------------------------------------------------------------------
(* The layers, from the elements to the root.                              *)
isTree(layers, elements, height) ==
  /\ height \in Nat \ {0}
  /\ layers = [n \in 1..height |-> layers[n]]
  /\ layers[1] = elements
  /\ \A n \in 1..(height - 1) : layers[n + 1] = getNextLayer(layers[n])
  /\ \A n \in 1..height : isSeqOf(layers[n], Len(layers[n])) /\ Len(layers[n]) >= 1
  /\ Len(layers[height]) = 1

LEMMA NextLayerIsSeq ==
  ASSUME NEW s, NEW m, isSeqOf(s, m), m >= 1
  PROVE  /\ isSeqOf(getNextLayer(s), (m + 1) \div 2)
         /\ Len(getNextLayer(s)) = (m + 1) \div 2
         /\ (m + 1) \div 2 >= 1
         /\ m > 1 => (m + 1) \div 2 < m
<1>1. m \in Nat /\ Len(s) = m
  BY LenOfSeq
<1>2. (m + 1) \div 2 \in Nat /\ (m + 1) \div 2 >= 1 /\ (m > 1 => (m + 1) \div 2 < m)
  BY <1>1
<1>3. isSeqOf(getNextLayer(s), (m + 1) \div 2)
  <2> DEFINE half == (m + 1) \div 2
  <2>1. getNextLayer(s) = [k \in 1..half |->
          IF 2 * k <= Len(s) THEN combinedHash(s[2 * k - 1], s[2 * k]) ELSE s[2 * k - 1]]
    BY <1>1 DEF getNextLayer
  <2>2. half \in Nat
    BY <1>2
  <2> HIDE DEF half
  <2> DEFINE next == getNextLayer(s)
  <2>3. next = [k \in 1..half |-> next[k]]
    BY <2>1
  <2>4. isSeqOf(next, half)
    BY <2>2, <2>3 DEF isSeqOf
  <2> QED
    BY <2>4 DEF half
<1> QED
  BY <1>2, <1>3, LenOfSeq

layersUpTo(elements, k) ==
  CHOOSE g : g = [n \in 1..k |-> IF n = 1 THEN elements ELSE getNextLayer(g[n - 1])]

LEMMA LayersAreDefined ==
  ASSUME NEW elements, NEW k \in Nat
  PROVE  layersUpTo(elements, k) =
           [n \in 1..k |-> IF n = 1 THEN elements ELSE getNextLayer(layersUpTo(elements, k)[n - 1])]
<1> DEFINE layer(g, n) == IF n = 1 THEN elements ELSE getNextLayer(g[n - 1])
           defined(j) == \E g : g = [n \in 1..j |-> layer(g, n)]
           N == {j \in Nat : defined(j)}
<1>1. 0 \in N
  <2>1. <<>> = [n \in 1..0 |-> layer(<<>>, n)]
    OBVIOUS
  <2>2. defined(0)
    BY <2>1
  <2> QED
    BY <2>2
<1>2. ASSUME NEW j \in Nat, j \in N PROVE j + 1 \in N
  <2>1. PICK g : g = [n \in 1..j |-> layer(g, n)]
    BY <1>2
  <2> DEFINE h == [n \in 1..(j + 1) |-> layer(g, n)]
  <2>2. ASSUME NEW n \in 1..j PROVE h[n] = g[n]
    <3>1. n \in 1..(j + 1) /\ g[n] = layer(g, n)
      BY <2>1
    <3> QED
      BY <3>1
  <2>3. ASSUME NEW n \in 1..(j + 1) PROVE layer(h, n) = layer(g, n)
    <3>1. n = 1 \/ n - 1 \in 1..j
      OBVIOUS
    <3> HIDE DEF h
    <3> QED
      BY <2>2, <3>1
  <2>4. h = [n \in 1..(j + 1) |-> layer(h, n)]
    BY <2>3
  <2>5. defined(j + 1)
    BY <2>4
  <2> QED
    BY <2>5
<1>3. k \in N
  <2> HIDE DEF N
  <2> QED
    BY <1>1, <1>2, NatSetInduction
<1> QED
  BY <1>3 DEF layersUpTo

(* getLayers reaches a layer of one element: each layer is of fewer        *)
(* elements than the one below it.                                         *)
LEMMA TreeExists ==
  ASSUME NEW elements, NEW N \in Nat \ {0}, isSeqOf(elements, N)
  PROVE  \E height : isTree(getLayers(elements), elements, height)
<1> DEFINE layer == layersUpTo(elements, N)
           heights == {n \in 1..N : Len(layer[n]) = 1}
           height == CHOOSE n \in 1..N : Len(layer[n]) = 1 /\ \A m \in 1..(n - 1) : Len(layer[m]) > 1
<1>1. Len(elements) = N
  BY LenOfSeq
<1>2. getLayers(elements) = [n \in 1..height |-> layer[n]]
  BY <1>1 DEF getLayers, layersUpTo
<1>3. layer = [n \in 1..N |-> IF n = 1 THEN elements ELSE getNextLayer(layer[n - 1])]
  BY LayersAreDefined
<1> HIDE DEF layer
<1>4. layer[1] = elements /\ \A n \in 1..(N - 1) : layer[n + 1] = getNextLayer(layer[n])
  <2>1. 1 \in 1..N
    OBVIOUS
  <2>2. ASSUME NEW n \in 1..(N - 1) PROVE layer[n + 1] = getNextLayer(layer[n])
    <3>1. n + 1 \in 1..N /\ n + 1 # 1 /\ (n + 1) - 1 = n
      OBVIOUS
    <3> QED
      BY <1>3, <3>1
  <2> QED
    BY <1>3, <2>1, <2>2
<1> DEFINE good(n) == isSeqOf(layer[n], Len(layer[n])) /\ Len(layer[n]) >= 1
           shrinks(n) == (\A m \in 1..n : Len(layer[m]) # 1) => Len(layer[n]) <= N + 1 - n
           I == {n \in Nat : n + 1 \in 1..N => good(n + 1) /\ shrinks(n + 1)}
<1>5. 0 \in I
  BY <1>1, <1>4
<1>6. ASSUME NEW n \in Nat, n \in I PROVE n + 1 \in I
  <2> SUFFICES ASSUME n + 2 \in 1..N PROVE good(n + 2) /\ shrinks(n + 2)
    OBVIOUS
  <2>1. good(n + 1) /\ shrinks(n + 1) /\ n + 1 \in 1..(N - 1)
    BY <1>6
  <2> DEFINE m == Len(layer[n + 1])
  <2>2. layer[n + 2] = getNextLayer(layer[n + 1])
    BY <1>4, <2>1
  <2>3. /\ isSeqOf(layer[n + 2], (m + 1) \div 2) /\ Len(layer[n + 2]) = (m + 1) \div 2
        /\ (m + 1) \div 2 >= 1
        /\ m > 1 => (m + 1) \div 2 < m
    BY <2>1, <2>2, NextLayerIsSeq
  <2>4. m \in Nat /\ m >= 1
    BY <2>1 DEF isSeqOf
  <2>5. ASSUME \A j \in 1..(n + 2) : Len(layer[j]) # 1 PROVE Len(layer[n + 2]) <= N + 1 - (n + 2)
    <3>1. m # 1 /\ m <= N + 1 - (n + 1)
      BY <2>1, <2>5
    <3> HIDE DEF m
    <3> QED
      BY <2>3, <2>4, <3>1
  <2> QED
    BY <2>3, <2>5
<1>7. \A n \in 1..N : good(n) /\ shrinks(n)
  <2> HIDE DEF I
  <2>1. \A n \in Nat : n \in I
    BY <1>5, <1>6, NatSetInduction
  <2> HIDE DEF good, shrinks
  <2>2. ASSUME NEW n \in 1..N PROVE good(n) /\ shrinks(n)
    <3>1. n - 1 \in Nat /\ (n - 1) + 1 = n
      OBVIOUS
    <3>2. n - 1 \in I
      BY <2>1, <3>1
    <3> QED
      BY <3>1, <3>2 DEF I
  <2> QED
    BY <2>2
<1>8. heights # {}
  <2> SUFFICES ASSUME heights = {} PROVE FALSE
    OBVIOUS
  <2>1. \A m \in 1..N : Len(layer[m]) # 1
    OBVIOUS
  <2>2. good(N) /\ shrinks(N)
    BY <1>7
  <2>3. Len(layer[N]) <= N + 1 - N /\ Len(layer[N]) >= 1 /\ Len(layer[N]) # 1
    BY <2>1, <2>2, N \in 1..N
  <2> DEFINE len == Len(layer[N])
  <2>4. len \in Nat
    BY <2>2 DEF isSeqOf
  <2> HIDE DEF len
  <2>5. len <= 1 /\ len >= 1 /\ len # 1
    BY <2>3 DEF len
  <2> QED
    BY <2>4, <2>5
<1>9. \E n \in 1..N : Len(layer[n]) = 1 /\ \A m \in 1..(n - 1) : Len(layer[m]) > 1
  <2>1. PICK n \in heights : \A m \in heights : n <= m
    <3>1. heights \subseteq Nat
      OBVIOUS
    <3> HIDE DEF heights
    <3> QED
      BY <1>8, <3>1, LeastExists
  <2>2. ASSUME NEW m \in 1..(n - 1) PROVE Len(layer[m]) > 1
    <3>1. m \in 1..N /\ ~ (n <= m)
      OBVIOUS
    <3>2. Len(layer[m]) # 1
      BY <2>1, <3>1
    <3> DEFINE len == Len(layer[m])
    <3>3. len \in Nat /\ len >= 1 /\ len # 1
      BY <1>7, <3>1, <3>2 DEF isSeqOf
    <3> HIDE DEF len
    <3>4. len > 1
      BY <3>3
    <3> QED
      BY <3>4 DEF len
  <2> QED
    BY <2>2
<1>10. height \in 1..N /\ Len(layer[height]) = 1
  BY <1>9
<1> HIDE DEF height
<1> DEFINE layers == getLayers(elements)
<1>11. \A n \in 1..height : layers[n] = layer[n] /\ n \in 1..N
  BY <1>2, <1>10
<1>12. layers = [n \in 1..height |-> layers[n]]
  BY <1>2
<1> HIDE DEF layers
<1>13. \A n \in 1..(height - 1) : layers[n + 1] = getNextLayer(layers[n])
  <2> TAKE n \in 1..(height - 1)
  <2>1. n \in 1..height /\ n + 1 \in 1..height /\ n \in 1..(N - 1)
    BY <1>10
  <2> QED
    BY <1>4, <1>11, <2>1
<1>14. isTree(layers, elements, height)
  <2>1. 1 \in 1..height /\ height \in 1..height /\ height \in Nat \ {0}
    BY <1>10
  <2> QED
    BY <1>4, <1>7, <1>10, <1>11, <1>12, <1>13, <2>1 DEF isTree
<1> QED
  BY <1>14 DEF layers
-----------------------------------------------------------------------------
(* The hashes of a tree.                                                   *)
hashes(layers, height) ==
  UNION {{layers[n][k] : k \in 1..Len(layers[n])} : n \in 1..height}

isEntry(node) == node.entry # <<>>
isLeafList(elements) == \A k \in 1..Len(elements) : isEntry(elements[k])

LEMMA TreeLengths ==
  ASSUME NEW layers, NEW elements, NEW height, isTree(layers, elements, height)
  PROVE  /\ height \in Nat \ {0} /\ Len(layers) = height
         /\ layers[1] = elements
         /\ \A n \in 1..height : Len(layers[n]) \in Nat \ {0}
         /\ Len(layers[height]) = 1
<1>1. isSeqOf(layers, height)
  BY DEF isTree, isSeqOf
<1>2. ASSUME NEW n \in 1..height PROVE Len(layers[n]) \in Nat \ {0}
  <2> DEFINE len == Len(layers[n])
  <2>1. len \in Nat /\ len >= 1
    BY DEF isTree, isSeqOf
  <2> HIDE DEF len
  <2>2. len \in Nat \ {0}
    BY <2>1
  <2> QED
    BY <2>2 DEF len
<1> QED
  BY <1>1, <1>2, LenOfSeq DEF isTree

(* An entry is an element of the lowest layer, and a hash of two is of two *)
(* hashes of the tree: no hash of an entry is the hash of two hashes.      *)
LEMMA HashesComeFromBelow ==
  ASSUME NEW layers, NEW elements, NEW height, isTree(layers, elements, height),
         isLeafList(elements)
  PROVE  \A n \in 1..height : \A k \in 1..Len(layers[n]) :
           \/ \E i \in 1..Len(elements) : layers[n][k] = elements[i]
           \/ \E a, b \in hashes(layers, height) : layers[n][k] = combinedHash(a, b)
<1> DEFINE below(x) == \/ \E i \in 1..Len(elements) : x = elements[i]
                       \/ \E a, b \in hashes(layers, height) : x = combinedHash(a, b)
           I == {n \in Nat : n + 1 \in 1..height =>
                               \A k \in 1..Len(layers[n + 1]) : below(layers[n + 1][k])}
<1>0. layers[1] = elements /\ height \in Nat \ {0}
  BY TreeLengths
<1>1. 0 \in I
  BY <1>0
<1>2. ASSUME NEW n \in Nat, n \in I PROVE n + 1 \in I
  <2> SUFFICES ASSUME n + 2 \in 1..height, NEW k \in 1..Len(layers[n + 2])
               PROVE  below(layers[n + 2][k])
    OBVIOUS
  <2> DEFINE s == layers[n + 1]
             m == Len(s)
  <2>1. n + 1 \in 1..height /\ n + 1 \in 1..(height - 1) /\ (n + 1) + 1 = n + 2
    BY <1>0
  <2>2. layers[n + 2] = getNextLayer(s)
    <3>1. \A j \in 1..(height - 1) : layers[j + 1] = getNextLayer(layers[j])
      BY DEF isTree
    <3> QED
      BY <2>1, <3>1
  <2>3. isSeqOf(s, m) /\ m >= 1 /\ m \in Nat
    BY <2>1 DEF isTree, isSeqOf
  <2>4. Len(layers[n + 2]) = (m + 1) \div 2
    BY <2>2, <2>3, NextLayerIsSeq
  <2>5. \A j \in 1..m : s[j] \in hashes(layers, height) /\ below(s[j])
    <3> HIDE DEF below
    <3>1. \A j \in 1..m : below(s[j])
      BY <1>2, <2>1
    <3>2. {s[j] : j \in 1..m} \subseteq hashes(layers, height)
      BY <2>1 DEF hashes
    <3> QED
      BY <3>1, <3>2
  <2> HIDE DEF s, m, below
  <2>6. k \in 1..((m + 1) \div 2)
    BY <2>4
  <2>7. /\ 2 * k <= m => 2 * k \in 1..m /\ 2 * k - 1 \in 1..m
        /\ 2 * k - 1 \in 1..m
    BY <2>3, <2>6
  <2>8. layers[n + 2][k] = IF 2 * k <= m THEN combinedHash(s[2 * k - 1], s[2 * k]) ELSE s[2 * k - 1]
    BY <2>2, <2>6 DEF getNextLayer, m
  <2>9. CASE 2 * k <= m
    BY <2>5, <2>7, <2>8, <2>9 DEF below
  <2>10. CASE ~ (2 * k <= m)
    BY <2>5, <2>7, <2>8, <2>10
  <2> QED
    BY <2>9, <2>10
<1>3. \A n \in Nat : n \in I
  <2> HIDE DEF I
  <2> QED
    BY <1>1, <1>2, NatSetInduction
<1>4. ASSUME NEW n \in 1..height PROVE \A k \in 1..Len(layers[n]) : below(layers[n][k])
  <2> HIDE DEF below
  <2>1. n - 1 \in Nat /\ (n - 1) + 1 = n
    OBVIOUS
  <2>2. n - 1 \in I
    BY <1>3, <2>1
  <2> QED
    BY <2>1, <2>2
<1> QED
  BY <1>4

(* Only an element of the tree has a proof.                                *)
LEMMA ProofsAreSound ==
  ASSUME NEW layers, NEW elements, NEW height, isTree(layers, elements, height),
         isLeafList(elements),
         NEW node, isEntry(node), NEW proof, NEW n, isSeqOf(proof, n),
         verifyProof(node, proof, getRoot(layers))
  PROVE  \E i \in 1..Len(elements) : node = elements[i]
<1>1. PICK g : isPath(g, node, proof, n) /\ g[n] = getRoot(layers)
  BY PathExists DEF verifyProof, rootOf
<1> DEFINE H == hashes(layers, height)
           I == {k \in Nat : k <= n => g[n - k] \in H}
<1>2. n \in Nat
  BY LenOfSeq
<1>3. ASSUME NEW x \in H
      PROVE  \/ \E i \in 1..Len(elements) : x = elements[i]
             \/ \E a, b \in H : x = combinedHash(a, b)
  <2>1. PICK m \in 1..height : \E k \in 1..Len(layers[m]) : x = layers[m][k]
    BY DEF hashes
  <2>2. PICK k \in 1..Len(layers[m]) : x = layers[m][k]
    BY <2>1
  <2> HIDE DEF H
  <2>3. \/ \E i \in 1..Len(elements) : layers[m][k] = elements[i]
        \/ \E a, b \in H : layers[m][k] = combinedHash(a, b)
    BY HashesComeFromBelow DEF H
  <2> QED
    BY <2>2, <2>3
<1>4. ASSUME NEW a, NEW b, combinedHash(a, b) \in H PROVE a \in H
  <2>1. combinedHash(a, b).entry = <<>>
    BY DEF combinedHash
  <2>2. ~ \E i \in 1..Len(elements) : combinedHash(a, b) = elements[i]
    BY <2>1 DEF isLeafList, isEntry
  <2>3. PICK c \in H, d \in H : combinedHash(a, b) = combinedHash(c, d)
    BY <1>3, <1>4, <2>2
  <2>4. {a, b} = {c, d}
    BY <2>3 DEF combinedHash
  <2> QED
    BY <2>4
<1>5. 0 \in I
  <2>1. height \in 1..height /\ 1 \in 1..Len(layers[height]) /\ Len(layers) = height
    BY TreeLengths
  <2>2. layers[height][1] \in H
    BY <2>1 DEF hashes
  <2> QED
    BY <1>1, <1>2, <2>1, <2>2 DEF getRoot
<1>6. ASSUME NEW k \in Nat, k \in I PROVE k + 1 \in I
  <2> SUFFICES ASSUME k + 1 <= n PROVE g[n - (k + 1)] \in H
    OBVIOUS
  <2>1. n - k \in 1..n /\ (n - k) - 1 = n - (k + 1) /\ g[n - k] \in H
    BY <1>2, <1>6
  <2> HIDE DEF H
  <2>2. g[n - k] = combinedHash(g[n - (k + 1)], proof[n - k])
    BY <1>1, <2>1 DEF isPath
  <2> QED
    BY <1>4, <2>1, <2>2
<1>7. g[0] \in H
  <2> HIDE DEF I
  <2>1. n \in I
    BY <1>2, <1>5, <1>6, NatSetInduction
  <2> QED
    BY <1>2, <2>1 DEF I
<1>8. node \in H
  BY <1>1, <1>7 DEF isPath
<1> HIDE DEF H
<1>9. \A a, b : combinedHash(a, b).entry = <<>>
  BY DEF combinedHash
<1> QED
  BY <1>3, <1>8, <1>9 DEF isEntry
-----------------------------------------------------------------------------
(* A hash more at the end of a proof.                                      *)
LEMMA FoldOfNone ==
  ASSUME NEW node, NEW proof, isSeqOf(proof, 0)
  PROVE  rootOf(node, proof) = node
BY PathExists DEF isPath

isLonger(t, s, n, x) ==
  isSeqOf(t, n + 1) /\ t[n + 1] = x /\ \A k \in 1..n : t[k] = s[k]

LEMMA FoldOfOneMore ==
  ASSUME NEW node, NEW proof, NEW n, isSeqOf(proof, n),
         NEW longer, NEW x, isLonger(longer, proof, n, x)
  PROVE  rootOf(node, longer) = combinedHash(rootOf(node, proof), x)
<1>1. PICK g : isPath(g, node, proof, n) /\ rootOf(node, proof) = g[n]
  BY PathExists
<1>2. PICK h : isPath(h, node, longer, n + 1) /\ rootOf(node, longer) = h[n + 1]
  BY PathExists DEF isLonger
<1>3. n \in Nat
  BY LenOfSeq
<1> DEFINE I == {k \in Nat : k <= n => g[k] = h[k]}
<1>4. 0 \in I
  BY <1>1, <1>2 DEF isPath
<1>5. ASSUME NEW k \in Nat, k \in I PROVE k + 1 \in I
  <2> SUFFICES ASSUME k + 1 <= n PROVE g[k + 1] = h[k + 1]
    OBVIOUS
  <2>1. k + 1 \in 1..n /\ k + 1 \in 1..(n + 1) /\ (k + 1) - 1 = k /\ g[k] = h[k]
    BY <1>3, <1>5
  <2>2. g[k + 1] = combinedHash(g[k], proof[k + 1])
    BY <1>1, <2>1 DEF isPath
  <2>3. h[k + 1] = combinedHash(h[k], longer[k + 1])
    BY <1>2, <2>1 DEF isPath
  <2> QED
    BY <2>1, <2>2, <2>3 DEF isLonger
<1>6. g[n] = h[n]
  <2> HIDE DEF I
  <2>1. n \in I
    BY <1>3, <1>4, <1>5, NatSetInduction
  <2> QED
    BY <1>3, <2>1 DEF I
<1>7. n + 1 \in 1..(n + 1) /\ (n + 1) - 1 = n
  BY <1>3
<1> QED
  BY <1>1, <1>2, <1>6, <1>7 DEF isPath, isLonger

-----------------------------------------------------------------------------
(* The pieces of a proof and the positions of a node in the layers, which  *)
(* are defined by recursion.                                               *)
flattened(seqs, k) ==
  CHOOSE g : g = [n \in 1..k |-> IF n = 1 THEN seqs[n] ELSE g[n - 1] \o seqs[n]]

LEMMA FlattenedIsDefined ==
  ASSUME NEW seqs, NEW k \in Nat
  PROVE  flattened(seqs, k) =
           [n \in 1..k |-> IF n = 1 THEN seqs[n] ELSE flattened(seqs, k)[n - 1] \o seqs[n]]
<1> DEFINE prefix(g, n) == IF n = 1 THEN seqs[n] ELSE g[n - 1] \o seqs[n]
           defined(j) == \E g : g = [n \in 1..j |-> prefix(g, n)]
           N == {j \in Nat : defined(j)}
<1>1. 0 \in N
  <2>1. <<>> = [n \in 1..0 |-> prefix(<<>>, n)]
    OBVIOUS
  <2>2. defined(0)
    BY <2>1
  <2> QED
    BY <2>2
<1>2. ASSUME NEW j \in Nat, j \in N PROVE j + 1 \in N
  <2>1. PICK g : g = [n \in 1..j |-> prefix(g, n)]
    BY <1>2
  <2> DEFINE h == [n \in 1..(j + 1) |-> prefix(g, n)]
  <2>2. ASSUME NEW n \in 1..j PROVE h[n] = g[n]
    <3> HIDE DEF prefix
    <3>1. n \in 1..(j + 1) /\ g[n] = prefix(g, n)
      BY <2>1
    <3> QED
      BY <3>1
  <2>3. ASSUME NEW n \in 1..(j + 1) PROVE prefix(h, n) = prefix(g, n)
    <3>1. n = 1 \/ n - 1 \in 1..j
      OBVIOUS
    <3> HIDE DEF h
    <3> QED
      BY <2>2, <3>1
  <2>4. h = [n \in 1..(j + 1) |-> prefix(h, n)]
    BY <2>3
  <2>5. defined(j + 1)
    BY <2>4
  <2> HIDE DEF prefix
  <2> QED
    BY <2>5
<1>3. k \in N
  <2> HIDE DEF N
  <2> QED
    BY <1>1, <1>2, NatSetInduction
<1> QED
  BY <1>3 DEF flattened

positions(position, k) ==
  CHOOSE idx : idx = [n \in 1..k |-> IF n = 1 THEN position ELSE idx[n - 1] \div 2]

LEMMA PositionsAreDefined ==
  ASSUME NEW position, NEW k \in Nat
  PROVE  positions(position, k) =
           [n \in 1..k |-> IF n = 1 THEN position ELSE positions(position, k)[n - 1] \div 2]
<1> DEFINE half(g, n) == IF n = 1 THEN position ELSE g[n - 1] \div 2
           defined(j) == \E g : g = [n \in 1..j |-> half(g, n)]
           N == {j \in Nat : defined(j)}
<1>1. 0 \in N
  <2>1. <<>> = [n \in 1..0 |-> half(<<>>, n)]
    OBVIOUS
  <2>2. defined(0)
    BY <2>1
  <2> QED
    BY <2>2
<1>2. ASSUME NEW j \in Nat, j \in N PROVE j + 1 \in N
  <2>1. PICK g : g = [n \in 1..j |-> half(g, n)]
    BY <1>2
  <2> DEFINE h == [n \in 1..(j + 1) |-> half(g, n)]
  <2>2. ASSUME NEW n \in 1..j PROVE h[n] = g[n]
    <3>1. n \in 1..(j + 1) /\ g[n] = half(g, n)
      BY <2>1
    <3> QED
      BY <3>1
  <2>3. ASSUME NEW n \in 1..(j + 1) PROVE half(h, n) = half(g, n)
    <3>1. n = 1 \/ n - 1 \in 1..j
      OBVIOUS
    <3> HIDE DEF h
    <3> QED
      BY <2>2, <3>1
  <2>4. h = [n \in 1..(j + 1) |-> half(h, n)]
    BY <2>3
  <2>5. defined(j + 1)
    BY <2>4
  <2> QED
    BY <2>5
<1>3. k \in N
  <2> HIDE DEF N
  <2> QED
    BY <1>1, <1>2, NatSetInduction
<1> QED
  BY <1>3 DEF positions

(* The position of an element in each layer, and the element there.        *)
isClimb(idx, layers, height, position) ==
  /\ idx[1] = position
  /\ \A n \in 1..(height - 1) : idx[n + 1] = idx[n] \div 2
  /\ \A n \in 1..height : idx[n] \in 0..(Len(layers[n]) - 1)

LEMMA ClimbExists ==
  ASSUME NEW layers, NEW elements, NEW height, isTree(layers, elements, height),
         NEW position \in 0..(Len(elements) - 1)
  PROVE  isClimb(positions(position, height), layers, height, position)
<1> DEFINE idx == positions(position, height)
           I == {n \in Nat : n + 1 \in 1..height => idx[n + 1] \in 0..(Len(layers[n + 1]) - 1)}
<1>0. layers[1] = elements /\ height \in Nat \ {0}
  BY TreeLengths
<1>1. idx = [n \in 1..height |-> IF n = 1 THEN position ELSE idx[n - 1] \div 2]
  BY <1>0, PositionsAreDefined
<1> HIDE DEF idx
<1>2. idx[1] = position
  <2>1. 1 \in 1..height
    BY <1>0
  <2> QED
    BY <1>1, <2>1
<1>3. ASSUME NEW n \in 1..(height - 1) PROVE idx[n + 1] = idx[n] \div 2
  <2>1. n + 1 \in 1..height /\ n + 1 # 1 /\ (n + 1) - 1 = n
    BY <1>0
  <2> QED
    BY <1>1, <2>1
<1>4. 0 \in I
  BY <1>0, <1>2
<1>5. ASSUME NEW n \in Nat, n \in I PROVE n + 1 \in I
  <2> SUFFICES ASSUME n + 2 \in 1..height
               PROVE  idx[n + 2] \in 0..(Len(layers[n + 2]) - 1)
    OBVIOUS
  <2> DEFINE s == layers[n + 1]
             m == Len(s)
             i == idx[n + 1]
  <2>1. n + 1 \in 1..height /\ n + 1 \in 1..(height - 1) /\ (n + 1) + 1 = n + 2
    BY <1>0
  <2>2. layers[n + 2] = getNextLayer(s)
    <3>1. \A j \in 1..(height - 1) : layers[j + 1] = getNextLayer(layers[j])
      BY DEF isTree
    <3> QED
      BY <2>1, <3>1
  <2>3. isSeqOf(s, m) /\ m >= 1 /\ m \in Nat
    BY <2>1 DEF isTree, isSeqOf
  <2>4. Len(layers[n + 2]) = (m + 1) \div 2
    BY <2>2, <2>3, NextLayerIsSeq
  <2>5. i \in 0..(m - 1)
    BY <1>5, <2>1
  <2>6. idx[n + 2] = i \div 2
    BY <1>3, <2>1
  <2> HIDE DEF i, m
  <2>7. i \div 2 \in 0..(((m + 1) \div 2) - 1)
    BY <2>3, <2>5
  <2> QED
    BY <2>4, <2>6, <2>7
<1>6. ASSUME NEW n \in 1..height PROVE idx[n] \in 0..(Len(layers[n]) - 1)
  <2> HIDE DEF I
  <2>1. n - 1 \in Nat /\ (n - 1) + 1 = n
    BY <1>0
  <2>2. n - 1 \in I
    BY <1>4, <1>5, <2>1, NatSetInduction
  <2> QED
    BY <2>1, <2>2 DEF I
<1> QED
  BY <1>2, <1>3, <1>6 DEF isClimb, idx
(* From a node to the one above it, by the piece of the proof between.     *)
pairOf(i) == IF i % 2 = 0 THEN i + 1 ELSE i - 1
pieceOf(layers, idx, n) ==
  IF pairOf(idx[n]) < Len(layers[n]) THEN <<layers[n][pairOf(idx[n]) + 1]>> ELSE <<>>
nodeAbove(layers, idx, n) ==
  IF pairOf(idx[n]) < Len(layers[n])
  THEN combinedHash(layers[n][idx[n] + 1], layers[n][pairOf(idx[n]) + 1])
  ELSE layers[n][idx[n] + 1]

LEMMA PairsOfPositions ==
  ASSUME NEW m \in Nat, NEW i \in 0..(m - 1)
  PROVE  /\ i \div 2 + 1 \in 1..((m + 1) \div 2)
         /\ i % 2 = 0 => /\ 2 * (i \div 2 + 1) - 1 = i + 1
                         /\ 2 * (i \div 2 + 1) = pairOf(i) + 1
                         /\ pairOf(i) < m <=> 2 * (i \div 2 + 1) <= m
         /\ i % 2 # 0 => /\ 2 * (i \div 2 + 1) - 1 = pairOf(i) + 1
                         /\ 2 * (i \div 2 + 1) = i + 1
                         /\ pairOf(i) < m
                         /\ 2 * (i \div 2 + 1) <= m
BY DEF pairOf

LEMMA NodeAboveIsAbove ==
  ASSUME NEW layers, NEW elements, NEW height, isTree(layers, elements, height),
         NEW idx, NEW position, isClimb(idx, layers, height, position),
         NEW n \in 1..height
  PROVE  nodeAbove(layers, idx, n) =
           IF n = height THEN getRoot(layers) ELSE layers[n + 1][idx[n + 1] + 1]
<1> DEFINE s == layers[n]
           m == Len(s)
           i == idx[n]
<1>0. height \in Nat \ {0} /\ Len(layers) = height /\ m \in Nat \ {0}
  BY TreeLengths
<1>1. i \in 0..(m - 1)
  BY DEF isClimb
<1>2. CASE n = height
  <2>1. m = 1
    BY <1>2, TreeLengths
  <2>2. i = 0
    BY <1>1, <2>1
  <2>3. ~ (pairOf(i) < m)
    BY <2>1, <2>2 DEF pairOf
  <2> QED
    BY <1>0, <1>2, <2>2, <2>3 DEF nodeAbove, getRoot
<1>3. CASE n # height
  <2> DEFINE k == i \div 2 + 1
  <2>1. n \in 1..(height - 1)
    BY <1>0, <1>3
  <2>2. layers[n + 1] = getNextLayer(s)
    <3>1. \A j \in 1..(height - 1) : layers[j + 1] = getNextLayer(layers[j])
      BY DEF isTree
    <3> QED
      BY <2>1, <3>1
  <2>3. idx[n + 1] + 1 = k
    BY <2>1 DEF isClimb
  <2> HIDE DEF i
  <2>4. k \in 1..((m + 1) \div 2)
    BY <1>0, <1>1, PairsOfPositions
  <2> HIDE DEF s
  <2>5. layers[n + 1][k] = IF 2 * k <= m THEN combinedHash(s[2 * k - 1], s[2 * k]) ELSE s[2 * k - 1]
    BY <2>2, <2>4 DEF getNextLayer
  <2> HIDE DEF m
  <2>6. nodeAbove(layers, idx, n) =
          IF pairOf(i) < m THEN combinedHash(s[i + 1], s[pairOf(i) + 1]) ELSE s[i + 1]
    BY DEF nodeAbove, s, m, i
  <2>7. CASE i % 2 = 0
    <3>1. 2 * k - 1 = i + 1 /\ 2 * k = pairOf(i) + 1 /\ (pairOf(i) < m <=> 2 * k <= m)
      BY <1>0, <1>1, <2>7, PairsOfPositions
    <3> HIDE DEF k
    <3> QED
      BY <1>3, <2>3, <2>5, <2>6, <3>1
  <2>8. CASE i % 2 # 0
    <3>1. 2 * k - 1 = pairOf(i) + 1 /\ 2 * k = i + 1 /\ pairOf(i) < m /\ 2 * k <= m
      BY <1>0, <1>1, <2>8, PairsOfPositions
    <3> HIDE DEF k
    <3>2. combinedHash(s[pairOf(i) + 1], s[i + 1]) = combinedHash(s[i + 1], s[pairOf(i) + 1])
      <4>1. {s[pairOf(i) + 1], s[i + 1]} = {s[i + 1], s[pairOf(i) + 1]}
        OBVIOUS
      <4> QED
        BY <4>1 DEF combinedHash
    <3> QED
      BY <1>3, <2>3, <2>5, <2>6, <3>1, <3>2
  <2> QED
    BY <2>7, <2>8
<1> QED
  BY <1>2, <1>3

LEMMA ConcatOfPiece ==
  ASSUME NEW s, NEW n, isSeqOf(s, n), NEW x, NEW t, t = s \o <<x>>
  PROVE  isLonger(t, s, n, x)
<1> DEFINE S == {s[k] : k \in 1..n} \union {x}
<1>1. n \in Nat /\ Len(s) = n /\ DOMAIN s = 1..n
  BY LenOfSeq
<1>2. s \in Seq(S)
  BY <1>1 DEF isSeqOf
<1>3. x \in S
  OBVIOUS
<1> HIDE DEF S
<1>4. <<x>> \in Seq(S) /\ Len(<<x>>) = 1
  BY <1>3
<1>5. t \in Seq(S) /\ Len(t) = n + 1 /\ t[n + 1] = x /\ \A k \in 1..n : t[k] = s[k]
  BY <1>1, <1>2, <1>4
<1>6. isSeqOf(t, n + 1)
  BY <1>5, SeqIsSeq
<1> QED
  BY <1>5, <1>6 DEF isLonger

LEMMA ConcatOfNone ==
  ASSUME NEW s, NEW n \in Nat, isSeqOf(s, n)
  PROVE  s \o <<>> = s
<1>1. s \in Seq({s[k] : k \in 1..n})
  BY LenOfSeq DEF isSeqOf
<1> QED
  BY <1>1

isWithPiece(t, s, x) == t = s \o <<x>>

LEMMA FoldOfPiece ==
  ASSUME NEW node, NEW s, isSeqOf(s, Len(s)), NEW x, NEW t, isWithPiece(t, s, x)
  PROVE  isSeqOf(t, Len(t)) /\ rootOf(node, t) = combinedHash(rootOf(node, s), x)
<1> DEFINE l == Len(s)
<1>1. isSeqOf(s, l)
  OBVIOUS
<1> HIDE DEF l
<1>2. isLonger(t, s, l, x)
  BY <1>1, ConcatOfPiece DEF isWithPiece
<1>3. rootOf(node, t) = combinedHash(rootOf(node, s), x)
  BY <1>1, <1>2, FoldOfOneMore
<1>4. isSeqOf(t, l + 1) /\ Len(t) = l + 1
  BY <1>2, LenOfSeq DEF isLonger
<1> QED
  BY <1>3, <1>4

(* The proof of an element leads from it to the root.                      *)
LEMMA ProofLeadsToRoot ==
  ASSUME NEW layers, NEW elements, NEW height, isTree(layers, elements, height),
         NEW position \in 0..(Len(elements) - 1),
         \A i, j \in 1..Len(elements) : elements[i] = elements[j] => i = j
  PROVE  LET el == elements[position + 1]
             proof == getProof(layers, el)
         IN  isSeqOf(proof, Len(proof)) /\ verifyProof(el, proof, getRoot(layers))
<1> DEFINE el == elements[position + 1]
           proof == getProof(layers, el)
           idx == positions(position, height)
           pieces == [n \in 1..height |-> pieceOf(layers, idx, n)]
           flat == flattened(pieces, height)
           foldTo(n) == rootOf(el, flat[n])
<1>0. /\ layers[1] = elements /\ height \in Nat \ {0} /\ Len(layers) = height
      /\ Len(elements) \in Nat
  <2>1. 1 \in 1..height /\ layers[1] = elements /\ height \in Nat \ {0} /\ Len(layers) = height
    BY TreeLengths
  <2> QED
    BY <2>1, TreeLengths
<1>1. (CHOOSE i \in 1..Len(layers[1]) : layers[1][i] = el) - 1 = position
  <2>1. position + 1 \in 1..Len(elements)
    BY <1>0
  <2>2. (CHOOSE i \in 1..Len(elements) : elements[i] = el) = position + 1
    BY <2>1
  <2> QED
    BY <1>0, <2>2
<1>2. isSeqOf(pieces, height) /\ Len(pieces) = height
  <2>1. isSeqOf(pieces, height)
    BY <1>0 DEF isSeqOf
  <2> QED
    BY <2>1, LenOfSeq
<1>3. proof = flat[height]
  <2> DEFINE first == (CHOOSE i \in 1..Len(layers[1]) : layers[1][i] = el) - 1
  <2> HIDE DEF el
  <2>1. proof = FlattenSeq([n \in 1..Len(layers) |-> pieceOf(layers, positions(first, Len(layers)), n)])
    BY DEF getProof, positions, pieceOf, pairOf
  <2>2. proof = FlattenSeq(pieces)
    BY <1>0, <1>1, <2>1
  <2> HIDE DEF pieces
  <2> QED
    BY <1>0, <1>2, <2>2 DEF FlattenSeq, flattened
<1>4. flat = [n \in 1..height |-> IF n = 1 THEN pieces[n] ELSE flat[n - 1] \o pieces[n]]
  <2> HIDE DEF pieces
  <2> QED
    BY <1>0, FlattenedIsDefined
<1>5. isClimb(idx, layers, height, position)
  BY ClimbExists
<1> HIDE DEF flat, idx, el
<1> DEFINE atLayer(n) == layers[n][idx[n] + 1]
           reaches(n) == isSeqOf(flat[n], Len(flat[n])) /\ foldTo(n) = nodeAbove(layers, idx, n)
           I == {n \in Nat : n + 1 \in 1..height => reaches(n + 1)}
<1>6. ASSUME NEW n \in 1..height, NEW s, isSeqOf(s, Len(s)),
             rootOf(el, s) = atLayer(n),
             flat[n] = s \o pieceOf(layers, idx, n)
      PROVE  reaches(n)
  <2> DEFINE x == layers[n][pairOf(idx[n]) + 1]
  <2>1. CASE pairOf(idx[n]) < Len(layers[n])
    <3> DEFINE t == flat[n]
    <3>1. isWithPiece(t, s, x)
      BY <1>6, <2>1 DEF pieceOf, isWithPiece
    <3> HIDE DEF x, t
    <3>2. isSeqOf(s, Len(s))
      BY <1>6
    <3>3. isSeqOf(t, Len(t)) /\ rootOf(el, t) = combinedHash(rootOf(el, s), x)
      BY <3>1, <3>2, FoldOfPiece
    <3> QED
      BY <1>6, <2>1, <3>3 DEF nodeAbove, x, t
  <2>2. CASE ~ (pairOf(idx[n]) < Len(layers[n]))
    <3>1. flat[n] = s
      BY <1>6, <2>2, ConcatOfNone DEF pieceOf, isSeqOf
    <3> QED
      BY <1>6, <2>2, <3>1 DEF nodeAbove
  <2> QED
    BY <2>1, <2>2
<1>7. 0 \in I
  <2>1. 1 \in 1..height
    BY <1>0
  <2>2. flat[1] = pieceOf(layers, idx, 1)
    BY <1>4, <2>1
  <2>3. isSeqOf(<<>>, 0)
    BY DEF isSeqOf
  <2>4. Len(<<>>) = 0 /\ rootOf(el, <<>>) = el
    BY <2>3, FoldOfNone, LenOfSeq
  <2>5. el = atLayer(1)
    BY <1>0, <1>5 DEF isClimb, el
  <2>6. flat[1] = <<>> \o pieceOf(layers, idx, 1)
    BY <2>2 DEF pieceOf
  <2> HIDE DEF reaches, atLayer
  <2>7. reaches(1)
    BY <1>6, <2>1, <2>3, <2>4, <2>5, <2>6
  <2> QED
    BY <2>7
<1>8. ASSUME NEW n \in Nat, n \in I PROVE n + 1 \in I
  <2> SUFFICES ASSUME n + 2 \in 1..height PROVE reaches(n + 2)
    OBVIOUS
  <2>1. n + 1 \in 1..height /\ n + 1 # height /\ (n + 1) + 1 = n + 2 /\ n + 2 # 1 /\ (n + 2) - 1 = n + 1
    BY <1>0
  <2>2. reaches(n + 1)
    BY <1>8, <2>1
  <2>3. nodeAbove(layers, idx, n + 1) = atLayer(n + 2)
    BY <1>5, <2>1, NodeAboveIsAbove
  <2>4. flat[n + 2] = flat[n + 1] \o pieceOf(layers, idx, n + 2)
    BY <1>4, <2>1
  <2> DEFINE s == flat[n + 1]
  <2>5. isSeqOf(s, Len(s)) /\ rootOf(el, s) = atLayer(n + 2)
    BY <2>2, <2>3
  <2>6. flat[n + 2] = s \o pieceOf(layers, idx, n + 2)
    BY <2>4
  <2> HIDE DEF reaches, atLayer, s
  <2> QED
    BY <1>6, <2>5, <2>6
<1>9. reaches(height)
  <2> HIDE DEF I, reaches
  <2>1. height - 1 \in Nat /\ (height - 1) + 1 = height /\ height \in 1..height
    BY <1>0
  <2>2. height - 1 \in I
    BY <1>7, <1>8, <2>1, NatSetInduction
  <2> QED
    BY <2>1, <2>2 DEF I
<1>10. nodeAbove(layers, idx, height) = getRoot(layers)
  BY <1>0, <1>5, height \in 1..height, NodeAboveIsAbove
<1> QED
  BY <1>3, <1>9, <1>10 DEF el, verifyProof, rootOf
-----------------------------------------------------------------------------
(* The list: who is on it, at which index and with how much.               *)
LEMMA ListFacts ==
  ASSUME NEW list \in Lists, accepted(list)
  PROVE  /\ Len(list) \in Nat \ {0} /\ isSeqOf(list, Len(list))
         /\ \A i \in 1..Len(list) : list[i].address \in DOMAIN accountOf /\ list[i].earnings \in Nat \ {0}
         /\ IsFiniteSet(addresses(list)) /\ addresses(list) # {}
         /\ Cardinality(addresses(list)) <= Len(list)
         /\ addresses(list) \subseteq DOMAIN accountOf
         /\ \A a \in addresses(list) : earningsOf(list, a) \in Nat \ {0}
<1> DEFINE n == Len(list)
           Entries == [address : DOMAIN accountOf, earnings : Int]
<1>0. list \in Seq(Entries)
  BY Zenon, ListsAssumption
<1> HIDE DEF Entries
<1>1. list \in Seq(Entries) /\ n \in Nat /\ DOMAIN list = 1..n
  BY <1>0
<1>2. n # 0
  BY <1>1 DEF accepted
<1>3. \A i \in 1..n : list[i] \in Entries
  BY <1>1
<1>4. isSeqOf(list, n)
  BY <1>1, SeqIsSeq
<1>5. \A i \in 1..n : list[i].address \in DOMAIN accountOf /\ list[i].earnings \in Nat \ {0}
  BY <1>3 DEF accepted, Entries
<1> HIDE DEF n
<1>6. IsFiniteSet(addresses(list)) /\ Cardinality(addresses(list)) <= n
  <2> DEFINE f == [i \in 1..n |-> list[i].address]
  <2>1. f \in Surjection(1..n, addresses(list))
    BY DEF Surjection, addresses, n
  <2>2. IsFiniteSet(1..n) /\ Cardinality(1..n) = n
    BY <1>1, FS_Interval
  <2> HIDE DEF f
  <2> QED
    BY <2>1, <2>2, FS_Surjection
<1>7. addresses(list) # {}
  BY <1>1, <1>2, 1 \in 1..n DEF addresses, n
<1>8. addresses(list) \subseteq DOMAIN accountOf
  BY <1>5 DEF addresses, n
<1>9. ASSUME NEW a \in addresses(list) PROVE earningsOf(list, a) \in Nat \ {0}
  <2>1. PICK i \in 1..n : list[i].address = a
    BY DEF addresses, n
  <2>2. list[i] \in ToSet(list)
    BY <1>1 DEF ToSet
  <2> DEFINE entry == CHOOSE entry \in ToSet(list) : entry.address = a
  <2>3. entry \in ToSet(list)
    BY <2>1, <2>2
  <2>4. PICK j \in 1..n : entry = list[j]
    BY <1>1, <2>3 DEF ToSet
  <2> QED
    BY <1>5, <2>4 DEF earningsOf
<1> QED
  BY <1>1, <1>2, <1>4, <1>5, <1>6, <1>7, <1>8, <1>9 DEF n

(* No two addresses have the same index, and an index is below the length  *)
(* of the list.                                                            *)
LEMMA IndexFacts ==
  ASSUME NEW list \in Lists, accepted(list)
  PROVE  /\ \A a \in addresses(list) : indexOf(list, a) \in 0..(Len(list) - 1)
         /\ \A a, b \in addresses(list) : indexOf(list, a) = indexOf(list, b) => a = b
<1> DEFINE A == addresses(list)
           before(a) == {x \in A : x < a}
<1>1. IsFiniteSet(A) /\ A \subseteq Nat /\ Cardinality(A) <= Len(list) /\ Len(list) \in Nat
  BY ListFacts, SpellingAssumption
<1> HIDE DEF A
<1>2. \A a \in A : indexOf(list, a) = Cardinality(before(a))
  BY DEF indexOf, A
<1>3. ASSUME NEW a \in A PROVE before(a) \subseteq A /\ a \notin before(a)
  BY <1>1
<1>4. ASSUME NEW a \in A PROVE indexOf(list, a) \in 0..(Len(list) - 1)
  <2> DEFINE P == before(a)
  <2>1. P \in SUBSET A /\ P # A
    BY <1>3
  <2>2. indexOf(list, a) = Cardinality(P)
    BY <1>2
  <2> HIDE DEF P
  <2>3. /\ Cardinality(P) \in Nat /\ Cardinality(A) \in Nat
        /\ Cardinality(P) <= Cardinality(A) /\ Cardinality(P) # Cardinality(A)
    BY <1>1, <2>1, FS_Subset, FS_CardinalityType
  <2> QED
    BY <1>1, <2>2, <2>3
<1>5. ASSUME NEW a \in A, NEW b \in A, a < b PROVE indexOf(list, a) # indexOf(list, b)
  <2> DEFINE P == before(a)
             Q == before(b)
  <2>1. P \in SUBSET Q
    <3>1. a \in Nat /\ b \in Nat /\ a < b
      BY <1>1, <1>5
    <3>2. \A x \in A : x \in Nat
      BY <1>1
    <3>3. \A x \in A : x < a => x < b
      BY <3>1, <3>2
    <3> QED
      BY <3>3
  <2>2. a \in Q /\ a \notin P /\ Q \in SUBSET A
    BY <1>1, <1>5
  <2>3. indexOf(list, a) = Cardinality(P) /\ indexOf(list, b) = Cardinality(Q)
    BY <1>2
  <2> HIDE DEF P, Q
  <2>4. IsFiniteSet(Q)
    BY <1>1, <2>2, FS_Subset
  <2> QED
    BY <2>1, <2>2, <2>3, <2>4, FS_Subset
<1>6. ASSUME NEW a \in A, NEW b \in A, indexOf(list, a) = indexOf(list, b) PROVE a = b
  <2>1. a \in Nat /\ b \in Nat
    BY <1>1
  <2>2. a < b \/ b < a \/ a = b
    BY <2>1
  <2> QED
    BY <1>5, <1>6, <2>2
<1> QED
  BY <1>4, <1>6 DEF A
(* The tree that is published for a list: every entry has a proof, and     *)
(* nothing else has.                                                       *)
LEMMA ElementsFacts ==
  ASSUME NEW list \in Lists, accepted(list), NEW elements \in SetToSeqs(nodes(list))
  PROVE  /\ Len(elements) \in Nat \ {0} /\ isSeqOf(elements, Len(elements))
         /\ \A i, j \in 1..Len(elements) : elements[i] = elements[j] => i = j
         /\ \A a \in addresses(list) : \E i \in 1..Len(elements) : elements[i] = nodeOf(list, a)
         /\ \A i \in 1..Len(elements) : \E a \in addresses(list) : elements[i] = nodeOf(list, a)
         /\ isLeafList(elements)
<1> DEFINE A == addresses(list)
           T == nodes(list)
           N == Cardinality(T)
<1>1. IsFiniteSet(T) /\ T # {}
  <2> DEFINE f == [a \in A |-> nodeOf(list, a)]
  <2>1. f \in Surjection(A, T)
    BY DEF Surjection, nodes
  <2>2. IsFiniteSet(A) /\ A # {}
    BY ListFacts
  <2>3. T # {}
    BY <2>2 DEF nodes
  <2> HIDE DEF f, A, T
  <2> QED
    BY <2>1, <2>2, <2>3, FS_Surjection
<1>2. elements \in [1..N -> T] /\ \A i, j \in 1..N : i # j => elements[i] # elements[j]
  BY DEF SetToSeqs
<1>3. \A x \in T : \E a \in A : x = nodeOf(list, a)
  BY DEF nodes
<1>4. \A a \in A : nodeOf(list, a) \in T
  BY DEF nodes
<1> HIDE DEF A, T
<1>5. N \in Nat /\ N # 0
  BY <1>1, FS_CardinalityType, FS_EmptySet
<1>6. elements \in Surjection(1..N, T)
  <2>1. elements \in Injection(1..N, T)
    BY <1>2 DEF Injection, IsInjective
  <2>2. Cardinality(1..N) = N
    BY <1>5, FS_Interval
  <2> QED
    BY <1>1, <2>1, <2>2, FS_Injection
<1> HIDE DEF N
<1>7. isSeqOf(elements, N)
  BY <1>2, <1>5 DEF isSeqOf
<1>8. Len(elements) = N
  BY <1>7, LenOfSeq
<1>9. \A a \in A : \E i \in 1..N : elements[i] = nodeOf(list, a)
  BY <1>4, <1>6 DEF Surjection
<1>10. \A i \in 1..N : \E a \in A : elements[i] = nodeOf(list, a)
  BY <1>2, <1>3
<1>11. \A a : nodeOf(list, a).entry # <<>>
  <2>1. \A x, y, z : <<x, y, z>> # <<>>
    OBVIOUS
  <2> QED
    BY <2>1 DEF nodeOf, toNode
<1> QED
  BY <1>2, <1>5, <1>7, <1>8, <1>9, <1>10, <1>11 DEF A, isLeafList, isEntry

LEMMA EntriesHaveProofs ==
  ASSUME NEW list \in Lists, accepted(list), NEW elements \in SetToSeqs(nodes(list)),
         NEW a \in addresses(list)
  PROVE  LET layers == getLayers(elements)
             proof == getProof(layers, nodeOf(list, a))
         IN  isSeqOf(proof, Len(proof)) /\ verifyProof(nodeOf(list, a), proof, getRoot(layers))
<1> DEFINE layers == getLayers(elements)
<1>1. /\ Len(elements) \in Nat \ {0} /\ isSeqOf(elements, Len(elements))
      /\ \A i, j \in 1..Len(elements) : elements[i] = elements[j] => i = j
      /\ \A b \in addresses(list) : \E i \in 1..Len(elements) : elements[i] = nodeOf(list, b)
  BY ElementsFacts
<1>2. PICK i \in 1..Len(elements) : elements[i] = nodeOf(list, a)
  BY <1>1
<1>3. PICK height : isTree(layers, elements, height)
  BY <1>1, TreeExists
<1> DEFINE position == i - 1
<1>4. position \in 0..(Len(elements) - 1) /\ position + 1 = i
  BY <1>1
<1> HIDE DEF layers, position
<1>5. LET el == elements[position + 1]
          proof == getProof(layers, el)
      IN  isSeqOf(proof, Len(proof)) /\ verifyProof(el, proof, getRoot(layers))
  BY <1>1, <1>3, <1>4, ProofLeadsToRoot
<1> QED
  BY <1>2, <1>4, <1>5 DEF layers

LEMMA OnlyEntriesHaveProofs ==
  ASSUME NEW list \in Lists, accepted(list), NEW elements \in SetToSeqs(nodes(list)),
         NEW index, NEW account, NEW amount, NEW proof, NEW n, isSeqOf(proof, n),
         verifyProof(toNode(index, account, amount), proof, getRoot(getLayers(elements)))
  PROVE  \E a \in addresses(list) :
           index = indexOf(list, a) /\ account = accountOf[a] /\ amount = earningsOf(list, a)
<1> DEFINE layers == getLayers(elements)
           node == toNode(index, account, amount)
<1>1. /\ Len(elements) \in Nat \ {0} /\ isSeqOf(elements, Len(elements)) /\ isLeafList(elements)
      /\ \A i \in 1..Len(elements) : \E a \in addresses(list) : elements[i] = nodeOf(list, a)
  BY ElementsFacts
<1>2. PICK height : isTree(layers, elements, height)
  BY <1>1, TreeExists
<1>3. node.entry = <<index, account, amount>> /\ isEntry(node)
  BY DEF toNode, isEntry
<1> HIDE DEF layers, node
<1>4. verifyProof(node, proof, getRoot(layers))
  BY DEF layers, node
<1>5. \E i \in 1..Len(elements) : node = elements[i]
  BY <1>1, <1>2, <1>3, <1>4, ProofsAreSound
<1>6. PICK a \in addresses(list) : node = nodeOf(list, a)
  BY <1>1, <1>5
<1>7. node.entry = <<indexOf(list, a), accountOf[a], earningsOf(list, a)>>
  BY <1>6 DEF nodeOf, toNode
<1> QED
  BY <1>3, <1>7
-----------------------------------------------------------------------------
(* The bits of claimedBitMap: an index has one of its own.                 *)
marked(map, index) ==
  index \div WordBits \in DOMAIN map /\ index % WordBits \in map[index \div WordBits]

LEMMA BitOfIndex ==
  ASSUME NEW i \in Nat
  PROVE  /\ i \div WordBits \in Nat /\ i % WordBits \in Nat
         /\ i = WordBits * (i \div WordBits) + (i % WordBits)
         /\ i % WordBits < WordBits
BY WordAssumption

LEMMA BitsDiffer ==
  ASSUME NEW i \in Nat, NEW j \in Nat,
         i \div WordBits = j \div WordBits, i % WordBits = j % WordBits
  PROVE  i = j
BY BitOfIndex

LEMMA WordIsThere ==
  ASSUME NEW n \in Nat, NEW i \in 0..n
  PROVE  i \div WordBits \in 0..(n \div WordBits)
<1> DEFINE q == i \div WordBits
           r == n \div WordBits
<1>1. q \in Nat /\ r \in Nat /\ WordBits \in Nat \ {0} /\ i \in Nat
  BY BitOfIndex, WordAssumption
<1>2. WordBits * q <= i /\ n < WordBits * r + WordBits
  BY BitOfIndex, WordAssumption
<1> HIDE DEF q, r
<1>3. ASSUME r < q PROVE FALSE
  <2>1. r + 1 <= q
    BY <1>1, <1>3
  <2>2. WordBits * (r + 1) <= WordBits * q
    BY <1>1, <2>1
  <2>3. WordBits * (r + 1) = WordBits * r + WordBits
    BY <1>1
  <2>4. WordBits * r \in Int /\ WordBits * q \in Int
    BY <1>1
  <2> QED
    BY <1>1, <1>2, <2>2, <2>3, <2>4
<1> QED
  BY <1>1, <1>3 DEF q, r

isMarking(next, map, index) ==
  next = [map EXCEPT ![index \div WordBits] = @ \union {index % WordBits}]

LEMMA MarkingIsOfOne ==
  ASSUME NEW n \in Nat, NEW map \in [0..(n \div WordBits) -> SUBSET Nat],
         NEW index \in 0..n, NEW next, isMarking(next, map, index)
  PROVE  /\ next \in [0..(n \div WordBits) -> SUBSET Nat]
         /\ \A i \in 0..n : marked(next, i) <=> (marked(map, i) \/ i = index)
<1> DEFINE w == index \div WordBits
           b == index % WordBits
           W == 0..(n \div WordBits)
<1>1. w \in W /\ b \in Nat /\ index \in Nat
  <2>1. index \in Nat
    OBVIOUS
  <2>2. w \in W
    BY WordIsThere
  <2>3. b \in Nat
    BY <2>1, BitOfIndex
  <2> QED
    BY <2>1, <2>2, <2>3
<1>2. next = [map EXCEPT ![w] = map[w] \union {b}]
  BY DEF isMarking
<1>3. \A i \in 0..n : i \in Nat /\ i \div WordBits \in W
  BY WordIsThere
<1>4. \A i \in Nat : i \div WordBits = w /\ i % WordBits = b => i = index
  BY <1>1, BitsDiffer
<1>5. map \in [W -> SUBSET Nat]
  OBVIOUS
<1> HIDE DEF W
<1>6. next \in [W -> SUBSET Nat]
  <2> HIDE DEF w, b
  <2> QED
    BY <1>1, <1>2, <1>5
<1>7. ASSUME NEW i \in 0..n PROVE marked(next, i) <=> (marked(map, i) \/ i = index)
  <2> DEFINE v == i \div WordBits
             c == i % WordBits
  <2>1. v \in W /\ i \in Nat
    BY <1>3
  <2>2. (v = w /\ c = b) <=> i = index
    BY <1>4, <2>1
  <2>3. /\ marked(next, i) <=> v \in DOMAIN next /\ c \in next[v]
        /\ marked(map, i) <=> v \in DOMAIN map /\ c \in map[v]
    BY DEF marked
  <2> HIDE DEF v, c, w, b
  <2>4. next[v] = IF v = w THEN map[w] \union {b} ELSE map[v]
    BY <1>2, <1>5, <2>1
  <2> QED
    BY <1>5, <1>6, <2>1, <2>2, <2>3, <2>4
<1> QED
  BY <1>6, <1>7 DEF W
-----------------------------------------------------------------------------
(* The distributor.  What was published stays; the bits are those of       *)
(* indices of the list; and everyone has been paid by the list.            *)
publishedAs(list, elements, root, theClaims, total) ==
  LET layers == getLayers(elements)
  IN  /\ root = getRoot(layers)
      /\ theClaims = [address \in addresses(list) |->
                        [index |-> indexOf(list, address), amount |-> earningsOf(list, address),
                         proof |-> getProof(layers, nodeOf(list, address))]]
      /\ total = FoldFunction(+, 0, [a \in addresses(list) |-> earningsOf(list, a)])

published ==
  /\ balances \in Lists /\ accepted(balances)
  /\ \E elements \in SetToSeqs(nodes(balances)) :
       publishedAs(balances, elements, merkleRoot, claims, tokenTotal)

TypeOK ==
  /\ claimedBitMap \in [0..(Len(balances) \div WordBits) -> SUBSET Nat]
  /\ funds \in Int
  /\ paid \in [Accounts -> Int]

amountsOf(theClaims, S) == FoldFunction(+, 0, [a \in S |-> theClaims[a].amount])

paidInFull ==
  \A account \in Accounts :
    paid[account] = amountsOf(claims, {a \in claimed : accountOf[a] = account})

IInv == published /\ TypeOK /\ paidInFull

LEMMA AmountsAreOfClaims == \A S : amounts(S) = amountsOf(claims, S)
BY DEF amounts, amountsOf

amountOf == [a \in addresses(balances) |-> claims[a].amount]

LEMMA PublishedFacts ==
  ASSUME published
  PROVE  /\ IsFiniteSet(addresses(balances)) /\ Len(balances) \in Nat
         /\ addresses(balances) \subseteq DOMAIN accountOf
         /\ DOMAIN claims = addresses(balances)
         /\ amountOf \in [addresses(balances) -> Nat]
         /\ tokenTotal = FoldFunction(+, 0, amountOf)
         /\ \A a \in addresses(balances) :
              /\ claims[a].index = indexOf(balances, a)
              /\ claims[a].amount = earningsOf(balances, a)
              /\ isSeqOf(claims[a].proof, Len(claims[a].proof))
              /\ verifyProof(nodeOf(balances, a), claims[a].proof, merkleRoot)
              /\ claims[a].index \in 0..Len(balances)
         /\ \A a, b \in addresses(balances) : claims[a].index = claims[b].index => a = b
<1> DEFINE A == addresses(balances)
<1>1. PICK elements \in SetToSeqs(nodes(balances)) : publishedAs(balances, elements, merkleRoot, claims, tokenTotal)
  BY DEF published
<1>2. balances \in Lists /\ accepted(balances)
  BY DEF published
<1>3. /\ IsFiniteSet(A) /\ Len(balances) \in Nat /\ A \subseteq DOMAIN accountOf
      /\ \A a \in A : earningsOf(balances, a) \in Nat
  BY <1>2, ListFacts
<1>4. claims = [address \in A |->
                  [index |-> indexOf(balances, address), amount |-> earningsOf(balances, address),
                   proof |-> getProof(getLayers(elements), nodeOf(balances, address))]]
  BY <1>1 DEF publishedAs
<1>5. merkleRoot = getRoot(getLayers(elements))
  BY <1>1 DEF publishedAs
<1>6. tokenTotal = FoldFunction(+, 0, [a \in A |-> earningsOf(balances, a)])
  BY <1>1 DEF publishedAs
<1> HIDE DEF A
<1>7. ASSUME NEW a \in A
      PROVE  /\ claims[a].index = indexOf(balances, a)
             /\ claims[a].amount = earningsOf(balances, a)
             /\ claims[a].proof = getProof(getLayers(elements), nodeOf(balances, a))
  BY <1>4
<1>8. amountOf = [a \in A |-> earningsOf(balances, a)]
  BY <1>7 DEF amountOf, A
<1>9. ASSUME NEW a \in A
      PROVE  /\ isSeqOf(claims[a].proof, Len(claims[a].proof))
             /\ verifyProof(nodeOf(balances, a), claims[a].proof, merkleRoot)
  BY <1>2, <1>5, <1>7, EntriesHaveProofs DEF A
<1>10. ASSUME NEW a \in A PROVE indexOf(balances, a) \in 0..Len(balances)
  <2>1. indexOf(balances, a) \in 0..(Len(balances) - 1)
    BY <1>2, IndexFacts DEF A
  <2> QED
    BY <1>3, <2>1
<1>11. \A a, b \in A : claims[a].index = claims[b].index => a = b
  BY <1>2, <1>7, IndexFacts DEF A
<1>12. amountOf \in [A -> Nat]
  BY <1>3, <1>8
<1>13. tokenTotal = FoldFunction(+, 0, amountOf)
  BY <1>6, <1>8
<1>14. DOMAIN claims = A
  BY <1>4
<1> QED
  BY <1>3, <1>7, <1>9, <1>10, <1>11, <1>12, <1>13, <1>14 DEF A

LEMMA AmountsAreSums ==
  ASSUME published, NEW S \in SUBSET addresses(balances)
  PROVE  amounts(S) = sums(amountOf)[S]
<1> DEFINE A == addresses(balances)
<1>1. IsFiniteSet(A) /\ amountOf \in [A -> Int]
  <2>1. IsFiniteSet(A) /\ amountOf \in [A -> Nat]
    BY PublishedFacts
  <2> HIDE DEF A
  <2> QED
    BY <2>1
<1>2. \A a \in A : amountOf[a] = claims[a].amount
  BY DEF amountOf
<1> HIDE DEF A
<1>3. S \in SUBSET A
  BY DEF A
<1>4. [a \in S |-> claims[a].amount] = [a \in S |-> amountOf[a]]
  BY <1>2, <1>3
<1>5. FoldFunction(+, 0, [a \in S |-> amountOf[a]]) = sums(amountOf)[S]
  BY <1>1, <1>3, SumOfPart
<1> QED
  BY <1>4, <1>5 DEF amounts

LEMMA TotalIsSum ==
  ASSUME published
  PROVE  tokenTotal = sums(amountOf)[addresses(balances)]
<1>1. DOMAIN amountOf = addresses(balances)
  BY DEF amountOf
<1> QED
  BY <1>1, PublishedFacts, FoldIsSum

(* What is tried as a proof is one: a sequence of hashes.                  *)
LEMMA TriedAreProofs ==
  ASSUME published, NEW proof \in proofsTried
  PROVE  \E n : isSeqOf(proof, n)
<1>1. PICK a \in DOMAIN claims : \E i \in 1..(Len(claims[a].proof) + 1), j \in {0, Len(claims[a].proof)} :
             proof = SubSeq(claims[a].proof, i, j)
  BY DEF proofsTried
<1> DEFINE p == claims[a].proof
<1>2. PICK i \in 1..(Len(p) + 1), j \in {0, Len(p)} : proof = SubSeq(p, i, j)
  BY <1>1
<1>3. isSeqOf(p, Len(p)) /\ Len(p) \in Nat
  BY PublishedFacts DEF isSeqOf
<1> HIDE DEF p
<1> DEFINE S == {p[k] : k \in 1..Len(p)}
<1>4. p \in Seq(S)
  BY <1>3 DEF isSeqOf
<1> HIDE DEF S
<1>5. i \in Nat /\ j \in Nat
  BY <1>3
<1>6. proof \in Seq(S)
  BY <1>2, <1>3, <1>4, <1>5
<1>7. isSeqOf(proof, Len(proof))
  BY <1>6, SeqIsSeq
<1> QED
  BY <1>7
LEMMA AmountsWithOne ==
  ASSUME published, NEW S \in SUBSET addresses(balances), NEW a \in addresses(balances), a \notin S
  PROVE  /\ amounts(S) \in Int /\ claims[a].amount \in Nat
         /\ amounts(S \union {a}) = amounts(S) + claims[a].amount
<1> DEFINE A == addresses(balances)
<1>1. IsFiniteSet(A) /\ amountOf \in [A -> Nat]
  BY PublishedFacts
<1>2. amountOf[a] = claims[a].amount
  BY DEF amountOf
<1> DEFINE T == S \union {a}
<1>3. amounts(S) = sums(amountOf)[S] /\ amounts(T) = sums(amountOf)[T]
  BY AmountsAreSums
<1>4. S \in SUBSET A /\ T \in SUBSET A /\ a \in T /\ T \ {a} = S /\ a \in A
  OBVIOUS
<1> HIDE DEF A, T
<1>5. amountOf \in [A -> Int] /\ amountOf[a] \in Nat
  BY <1>1, <1>4
<1>6. sums(amountOf)[T] = amountOf[a] + sums(amountOf)[T \ {a}]
  BY <1>1, <1>4, <1>5, SumOfElement
<1>7. sums(amountOf)[S] \in Int
  BY <1>1, <1>4, <1>5, SumIsInt
<1>8. sums(amountOf)[T] = sums(amountOf)[S] + amountOf[a]
  <2> DEFINE s == sums(amountOf)[S]
             c == amountOf[a]
  <2>1. sums(amountOf)[T] = c + s /\ s \in Int /\ c \in Nat
    BY <1>4, <1>5, <1>6, <1>7
  <2> HIDE DEF s, c
  <2>2. sums(amountOf)[T] = s + c
    BY <2>1
  <2> QED
    BY <2>2 DEF s, c
<1> QED
  BY <1>2, <1>3, <1>5, <1>7, <1>8 DEF T

LEMMA AmountsOfNone ==
  ASSUME published
  PROVE  amounts({}) = 0
<1>1. IsFiniteSet(DOMAIN amountOf)
  BY PublishedFacts DEF amountOf
<1> QED
  BY <1>1, AmountsAreSums, SumOfEmpty

LEMMA AmountsWithinTotal ==
  ASSUME published, NEW S \in SUBSET addresses(balances)
  PROVE  amounts(S) \in Int /\ tokenTotal \in Int /\ amounts(S) <= tokenTotal
<1> DEFINE A == addresses(balances)
<1>1. IsFiniteSet(A) /\ amountOf \in [A -> Nat] /\ S \in SUBSET A /\ A \in SUBSET A
  BY PublishedFacts
<1>2. amounts(S) = sums(amountOf)[S] /\ tokenTotal = sums(amountOf)[A]
  BY AmountsAreSums, TotalIsSum
<1> HIDE DEF A
<1>3. amountOf \in [A -> Int]
  BY <1>1
<1>4. sums(amountOf)[S] \in Int /\ sums(amountOf)[A] \in Int
  BY <1>1, <1>3, SumIsInt
<1>5. sums(amountOf)[S] <= sums(amountOf)[A]
  BY <1>1, SumGrows
<1> QED
  BY <1>2, <1>4, <1>5

LEMMA ClaimedIsMarked ==
  claimed = {a \in addresses(balances) : marked(claimedBitMap, claims[a].index)}
BY DEF claimed, isClaimed, marked

LEMMA InitIInv == Init => IInv
<1> SUFFICES ASSUME Init PROVE IInv
  OBVIOUS
<1>1. published
  <2>1. PICK elements \in SetToSeqs(nodes(balances)) : publish(balances, elements)
    BY DEF Init
  <2>2. publishedAs(balances, elements, merkleRoot, claims, tokenTotal)
    BY <2>1 DEF publish, publishedAs
  <2>3. balances \in Lists /\ accepted(balances)
    BY DEF Init
  <2> QED
    BY <2>2, <2>3 DEF published
<1>2. TypeOK
  <2>1. tokenTotal \in Int
    BY <1>1, AmountsWithinTotal
  <2>2. funds \in Int
    BY <2>1 DEF Init
  <2> QED
    BY <2>2 DEF Init, TypeOK
<1>3. claimed = {}
  BY DEF Init, claimed, isClaimed
<1>4. paidInFull
  <2> SUFFICES ASSUME NEW account \in Accounts
               PROVE  paid[account] = amounts({a \in claimed : accountOf[a] = account})
    BY AmountsAreOfClaims DEF paidInFull
  <2>1. {a \in claimed : accountOf[a] = account} = {}
    BY <1>3
  <2>2. paid[account] = 0
    BY DEF Init
  <2> QED
    BY <1>1, <2>1, <2>2, AmountsOfNone
<1> QED
  BY <1>1, <1>2, <1>4 DEF IInv

(* A claim pays an entry that was not claimed, and marks this one only.    *)
LEMMA ClaimIsOfOneEntry ==
  ASSUME IInv, NEW index \in indicesTried, NEW account \in Accounts, NEW amount \in amountsTried,
         NEW proof \in proofsTried, claim(index, account, amount, proof)
  PROVE  \E a \in addresses(balances) \ claimed :
           /\ index = claims[a].index /\ account = accountOf[a] /\ amount = claims[a].amount
           /\ claimedBitMap' \in [0..(Len(balances) \div WordBits) -> SUBSET Nat]
           /\ claimed' = claimed \union {a}
<1> DEFINE A == addresses(balances)
<1>1. published /\ TypeOK
  BY DEF IInv
<1>2. PICK n : isSeqOf(proof, n)
  BY <1>1, TriedAreProofs
<1>3. PICK elements \in SetToSeqs(nodes(balances)) : publishedAs(balances, elements, merkleRoot, claims, tokenTotal)
  BY <1>1 DEF published
<1>4. verifyProof(toNode(index, account, amount), proof, getRoot(getLayers(elements)))
  BY <1>3 DEF claim, claimAccepted, publishedAs
<1>5. balances \in Lists /\ accepted(balances)
  BY <1>1 DEF published
<1>6. PICK a \in A : index = indexOf(balances, a) /\ account = accountOf[a] /\ amount = earningsOf(balances, a)
  BY <1>2, <1>4, <1>5, OnlyEntriesHaveProofs
<1>7. /\ \A b \in A : claims[b].index \in 0..Len(balances)
      /\ \A b \in A : claims[b].index = claims[a].index => b = a
      /\ index = claims[a].index /\ amount = claims[a].amount
      /\ Len(balances) \in Nat
  BY <1>1, <1>6, PublishedFacts
<1>8. a \notin claimed
  BY <1>7 DEF claim, claimAccepted, claimed
<1>9. claimedBitMap' = [claimedBitMap EXCEPT ![index \div WordBits] = @ \union {index % WordBits}]
  BY DEF claim, _setClaimed
<1> DEFINE next == claimedBitMap'
<1>10. isMarking(next, claimedBitMap, index)
  BY <1>9 DEF isMarking
<1> HIDE DEF next
<1>11. /\ next \in [0..(Len(balances) \div WordBits) -> SUBSET Nat]
       /\ \A i \in 0..Len(balances) : marked(next, i) <=> (marked(claimedBitMap, i) \/ i = index)
  <2> DEFINE m == Len(balances)
  <2>1. m \in Nat /\ index \in 0..m
    BY <1>7 DEF indicesTried
  <2>2. claimedBitMap \in [0..(m \div WordBits) -> SUBSET Nat]
    BY <1>1 DEF TypeOK
  <2> HIDE DEF m
  <2>3. /\ next \in [0..(m \div WordBits) -> SUBSET Nat]
        /\ \A i \in 0..m : marked(next, i) <=> (marked(claimedBitMap, i) \/ i = index)
    BY <1>10, <2>1, <2>2, MarkingIsOfOne
  <2> QED
    BY <2>3 DEF m
<1>12. claimed = {b \in A : marked(claimedBitMap, claims[b].index)}
  BY ClaimedIsMarked
<1>13. claimed' = {b \in A : marked(next, claims[b].index)}
  BY DEF claim, publishedVars, claimed, isClaimed, marked, next
<1> HIDE DEF A
<1>14. claimed' = claimed \union {a}
  BY <1>7, <1>11, <1>12, <1>13
<1> QED
  BY <1>6, <1>7, <1>8, <1>11, <1>14 DEF A, next

LEMMA NextIInv == IInv /\ [Next]_vars => IInv'
<1> SUFFICES ASSUME IInv, [Next]_vars PROVE IInv'
  OBVIOUS
<1>1. CASE UNCHANGED vars
  <2>1. /\ UNCHANGED <<balances, merkleRoot, claims, tokenTotal>>
        /\ UNCHANGED <<claimedBitMap, funds, paid>>
    BY <1>1 DEF vars, publishedVars
  <2>2. published' /\ TypeOK'
    BY <2>1 DEF IInv, published, TypeOK
  <2>3. claimed' = claimed
    BY <2>1 DEF claimed, isClaimed
  <2>4. paidInFull'
    BY <2>1, <2>3 DEF IInv, paidInFull
  <2> QED
    BY <2>2, <2>4 DEF IInv
<1>2. CASE Next
  <2>1. PICK index \in indicesTried, account \in Accounts, amount \in amountsTried, proof \in proofsTried :
               claim(index, account, amount, proof)
    BY <1>2 DEF Next
  <2>2. PICK a \in addresses(balances) \ claimed :
           /\ index = claims[a].index /\ account = accountOf[a] /\ amount = claims[a].amount
           /\ claimedBitMap' \in [0..(Len(balances) \div WordBits) -> SUBSET Nat]
           /\ claimed' = claimed \union {a}
    BY <2>1, ClaimIsOfOneEntry
  <2>3. /\ UNCHANGED <<balances, merkleRoot, claims, tokenTotal>>
        /\ funds' = funds - amount /\ paid' = [paid EXCEPT ![account] = @ + amount]
    BY <2>1 DEF claim, publishedVars
  <2>4. published /\ TypeOK /\ paidInFull
    BY DEF IInv
  <2>5. amount \in Nat
    <3>1. {} \in SUBSET addresses(balances) /\ a \notin {} /\ a \in addresses(balances)
      BY <2>2
    <3> QED
      BY <2>2, <2>4, <3>1, AmountsWithOne
  <2>6. published'
    BY <2>3, <2>4 DEF published
  <2>7. TypeOK'
    BY <2>2, <2>3, <2>4, <2>5 DEF TypeOK
  <2>8. ASSUME NEW b \in Accounts
        PROVE  paid'[b] = amountsOf(claims', {x \in claimed' : accountOf[x] = b})
    <3> DEFINE S == {x \in claimed : accountOf[x] = b}
               T == {x \in claimed' : accountOf[x] = b}
    <3>1. amountsOf(claims', T) = amounts(T)
      BY <2>3, AmountsAreOfClaims
    <3>2. paid[b] = amounts(S)
      BY <2>4, AmountsAreOfClaims DEF paidInFull
    <3>3. S \in SUBSET addresses(balances) /\ a \notin S
      BY ClaimedIsMarked
    <3>4. CASE b = account
      <4>1. T = S \union {a}
        BY <2>2, <3>4
      <4>2. amounts(T) = amounts(S) + amount
        BY <2>2, <2>4, <3>3, <4>1, AmountsWithOne
      <4>3. paid'[b] = paid[b] + amount
        BY <2>3, <2>4, <3>4 DEF TypeOK
      <4> QED
        BY <3>1, <3>2, <4>2, <4>3
    <3>5. CASE b # account
      <4>1. T = S
        BY <2>2, <3>5
      <4>2. paid'[b] = paid[b]
        BY <2>3, <2>4, <3>5 DEF TypeOK
      <4> QED
        BY <3>1, <3>2, <4>1, <4>2
    <3> QED
      BY <3>4, <3>5
  <2>9. paidInFull'
    BY <2>8 DEF paidInFull
  <2> QED
    BY <2>6, <2>7, <2>9 DEF IInv
<1> QED
  BY <1>1, <1>2

LEMMA Invariance == Spec => []IInv
BY InitIInv, NextIInv, PTL DEF Spec

(* Each account has been paid exactly the entries of the list that spell   *)
(* it and are marked: MerkleDistributor.claim.                             *)
THEOREM ByTheList == Spec => []PaidByTheList
<1>1. IInv => PaidByTheList
  BY AmountsAreOfClaims DEF IInv, paidInFull, PaidByTheList
<1> QED
  BY Invariance, <1>1, PTL

(* Whoever has not claimed can, as long as no funds were missing at the    *)
(* start: the proof of parseBalanceMap is one MerkleDistributor accepts.   *)
THEOREM AllCanClaim == Spec => []EveryoneCanClaim
<1>1. ASSUME IInv PROVE EveryoneCanClaim
  <2> SUFFICES ASSUME funds + amounts(claimed) = tokenTotal, NEW a \in addresses(balances) \ claimed
               PROVE  claimAccepted(claims[a].index, accountOf[a], claims[a].amount, claims[a].proof)
    BY DEF EveryoneCanClaim
  <2>1. published /\ funds \in Int
    BY <1>1 DEF IInv, TypeOK
  <2>2. ~ isClaimed(claims[a].index)
    BY DEF claimed
  <2>3. verifyProof(toNode(claims[a].index, accountOf[a], claims[a].amount), claims[a].proof, merkleRoot)
    BY <2>1, PublishedFacts DEF nodeOf
  <2> DEFINE T == claimed \union {a}
  <2>4. claimed \in SUBSET addresses(balances) /\ T \in SUBSET addresses(balances)
    BY DEF claimed
  <2>5. amounts(T) = amounts(claimed) + claims[a].amount /\ amounts(claimed) \in Int /\ claims[a].amount \in Nat
    BY <2>1, <2>4, AmountsWithOne
  <2>6. amounts(T) <= tokenTotal
    BY <2>1, <2>4, AmountsWithinTotal
  <2> HIDE DEF T
  <2>7. claims[a].amount <= funds
    BY <2>1, <2>5, <2>6
  <2> QED
    BY <2>2, <2>3, <2>7 DEF claimAccepted
<1> QED
  BY Invariance, <1>1, PTL

(* A claim takes from the funds what it adds to the entries claimed.       *)
fundsInFull == funds + amountsOf(claims, claimed) = tokenTotal

LEMMA FundsStayInFull == IInv /\ fundsInFull /\ [Next]_vars => fundsInFull'
<1> SUFFICES ASSUME IInv, fundsInFull, [Next]_vars PROVE fundsInFull'
  OBVIOUS
<1>1. CASE UNCHANGED vars
  <2>1. UNCHANGED <<balances, claims, tokenTotal, funds, claimedBitMap>>
    BY <1>1 DEF vars, publishedVars
  <2>2. claimed' = claimed
    BY <2>1 DEF claimed, isClaimed
  <2> QED
    BY <2>1, <2>2 DEF fundsInFull
<1>2. CASE Next
  <2>1. PICK index \in indicesTried, account \in Accounts, amount \in amountsTried, proof \in proofsTried :
               claim(index, account, amount, proof)
    BY <1>2 DEF Next
  <2>2. PICK a \in addresses(balances) \ claimed :
           amount = claims[a].amount /\ claimed' = claimed \union {a}
    BY <2>1, ClaimIsOfOneEntry
  <2>3. UNCHANGED <<claims, tokenTotal>> /\ funds' = funds - amount
    BY <2>1 DEF claim, publishedVars
  <2>4. published /\ funds \in Int
    BY DEF IInv, TypeOK
  <2> DEFINE T == claimed \union {a}
  <2>5. claimed \in SUBSET addresses(balances)
    BY DEF claimed
  <2>6. /\ amounts(claimed) \in Int /\ amount \in Nat
        /\ amounts(T) = amounts(claimed) + amount
    BY <2>2, <2>4, <2>5, AmountsWithOne
  <2>7. amountsOf(claims', claimed') = amounts(T)
    BY <2>2, <2>3, AmountsAreOfClaims
  <2>8. funds + amounts(claimed) = tokenTotal
    BY AmountsAreOfClaims DEF fundsInFull
  <2> HIDE DEF T
  <2> QED
    BY <2>3, <2>4, <2>6, <2>7, <2>8 DEF fundsInFull
<1> QED
  BY <1>1, <1>2

claimsAreOpen ==
  \A a \in addresses(balances) \ claimed :
    claimAccepted(claims[a].index, accountOf[a], claims[a].amount, claims[a].proof)

(* A distributor that was given the total pays everybody on the list,      *)
(* whoever claims first: MerkleDistributor.claim.                          *)
THEOREM TotalIsEnough == Spec /\ funds = tokenTotal => []claimsAreOpen
<1>1. Init /\ funds = tokenTotal => IInv /\ fundsInFull
  <2> SUFFICES ASSUME Init, funds = tokenTotal PROVE IInv /\ fundsInFull
    OBVIOUS
  <2>1. IInv
    BY InitIInv
  <2>2. claimed = {}
    BY DEF Init, claimed, isClaimed
  <2>3. amountsOf(claims, claimed) = 0 /\ funds \in Int
    BY <2>1, <2>2, AmountsAreOfClaims, AmountsOfNone DEF IInv, TypeOK
  <2> QED
    BY <2>1, <2>3 DEF fundsInFull
<1>2. IInv /\ fundsInFull /\ [Next]_vars => IInv' /\ fundsInFull'
  BY NextIInv, FundsStayInFull
<1>3. EveryoneCanClaim /\ fundsInFull => claimsAreOpen
  BY AmountsAreOfClaims DEF EveryoneCanClaim, fundsInFull, claimsAreOpen
<1> QED
  BY <1>1, <1>2, <1>3, AllCanClaim, PTL DEF Spec
===============================================================================
