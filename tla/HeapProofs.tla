----------------------------- MODULE HeapProofs -----------------------------
(***************************************************************************)
(* Theorems about Heap and Paging, for every size of the heap, of headers, *)
(* of the alignment and of pages, and for every set of requests.           *)
(***************************************************************************)
EXTENDS Paging, KernelLemmas

HeaderTable == [size : [Addr -> 0 .. HeapSize], used : [Addr -> BOOLEAN],
                next : [Addr -> Addr \cup {NULL}], prev : [Addr -> Addr \cup {NULL}]]

EndOf(hp, b) == b + HdrSize + hp.size[b]

\* TypeOK and Tiled for any headers hp whose list is B, with what kfree relies
\* on besides: the prev pointer of every block but the first leads to a block
\* whose next pointer leads back.
Listed(hp, B) ==
    /\ hp \in HeaderTable /\ B \subseteq Addr
    /\ 0 \in B /\ hp.prev[0] = NULL
    /\ \A b \in B :
          /\ EndOf(hp, b) <= HeapSize
          /\ hp.next[b] = IF EndOf(hp, b) = HeapSize THEN NULL ELSE EndOf(hp, b)
          /\ hp.next[b] # NULL => hp.next[b] \in B /\ hp.prev[hp.next[b]] = b
          /\ b # 0 => hp.prev[b] \in B /\ hp.next[hp.prev[b]] = b
    /\ \A b, c \in B : b < c => EndOf(hp, b) <= c

\* The free blocks whose next block is free too.
FreePairs(hp, B) == {b \in B : ~hp.used[b] /\ hp.next[b] # NULL /\ ~hp.used[hp.next[b]]}

-----------------------------------------------------------------------------
\* What the list of blocks says of one block and its neighbours.
LEMMA BlockFacts ==
    ASSUME NEW hp, NEW B, Listed(hp, B), NEW b \in B
    PROVE  /\ b \in Addr /\ b \in Int /\ hp.size[b] \in 0 .. HeapSize /\ EndOf(hp, b) \in Int
           /\ b < EndOf(hp, b) /\ EndOf(hp, b) <= HeapSize
           /\ hp.next[b] # NULL => hp.next[b] \in B /\ hp.next[b] = EndOf(hp, b)
           /\ hp.prev[b] # NULL => /\ hp.prev[b] \in B /\ hp.next[hp.prev[b]] = b
                                   /\ EndOf(hp, hp.prev[b]) = b
<1>1. /\ HeapSize \in Nat /\ HdrSize \in Nat /\ HdrSize > 0
      /\ hp.size \in [Addr -> 0 .. HeapSize] /\ B \subseteq Addr
  BY HeapConstants DEF Listed, HeaderTable
<1>2. b \in Addr /\ b \in Int /\ hp.size[b] \in 0 .. HeapSize
  BY <1>1 DEF Addr
<1>3. EndOf(hp, b) \in Int /\ b < EndOf(hp, b)
  BY <1>1, <1>2 DEF EndOf
<1>4. /\ EndOf(hp, b) <= HeapSize
      /\ hp.next[b] # NULL => hp.next[b] \in B /\ hp.next[b] = EndOf(hp, b)
      /\ hp.prev[b] # NULL => hp.prev[b] \in B /\ hp.next[hp.prev[b]] = b
  BY DEF Listed
<1>5. hp.prev[b] # NULL => EndOf(hp, hp.prev[b]) = b
  <2> SUFFICES ASSUME hp.prev[b] # NULL PROVE EndOf(hp, hp.prev[b]) = b
    OBVIOUS
  <2>1. b # NULL
    BY <1>1, <1>2 DEF Addr, NULL
  <2>2. LET p == hp.prev[b] IN
        p \in B /\ hp.next[p] = b /\ hp.next[p] = IF EndOf(hp, p) = HeapSize THEN NULL ELSE EndOf(hp, p)
    BY <1>4 DEF Listed
  <2> QED
    BY <2>1, <2>2
<1> QED
  BY <1>2, <1>3, <1>4, <1>5

\* A block swallows its successor: the list stays whole without it.
LEMMA AbsorbListed ==
    ASSUME NEW hp, NEW B, Listed(hp, B), NEW b \in B,
           NEW n, n = hp.next[b], n # NULL, NEW h2, h2 = Absorb(hp, b, n)
    PROVE  /\ Listed(h2, B \ {n})
           /\ h2.used = hp.used
           /\ h2.next[b] = hp.next[n]
           /\ \A c \in B \ {n, b} : h2.next[c] = hp.next[c]
           /\ b # n
<1> DEFINE after == hp.next[n]
<1>1. /\ n \in B /\ n \in Addr /\ b \in Addr /\ n = EndOf(hp, b) /\ b < n
      /\ hp.prev[n] = b
  BY BlockFacts DEF Listed
<1>2. /\ EndOf(hp, n) <= HeapSize /\ EndOf(hp, n) \in Int /\ n < EndOf(hp, n)
      /\ after = IF EndOf(hp, n) = HeapSize THEN NULL ELSE EndOf(hp, n)
      /\ after # NULL => after \in B /\ hp.prev[after] = n /\ n < after
  BY <1>1, BlockFacts DEF Listed
<1>3. /\ h2.size = [hp.size EXCEPT ![b] = @ + HdrSize + hp.size[n], ![n] = 0]
      /\ h2.used = hp.used
      /\ h2.next = [hp.next EXCEPT ![b] = after, ![n] = NULL]
      /\ h2.prev = [a \in Addr |-> IF a = after THEN b ELSE IF a = n THEN NULL ELSE hp.prev[a]]
      /\ h2 = [size |-> h2.size, used |-> h2.used, next |-> h2.next, prev |-> h2.prev]
  BY DEF Absorb
<1>4. hp \in HeaderTable /\ B \subseteq Addr
  BY DEF Listed
<1>5. /\ h2.size[b] = hp.size[b] + HdrSize + hp.size[n]
      /\ \A c \in B \ {n, b} : h2.size[c] = hp.size[c] /\ h2.next[c] = hp.next[c]
      /\ h2.next[b] = after
      /\ \A c \in Addr : h2.prev[c] = IF c = after THEN b ELSE IF c = n THEN NULL ELSE hp.prev[c]
  BY <1>1, <1>3, <1>4 DEF HeaderTable
<1>6. /\ EndOf(h2, b) = EndOf(hp, n)
      /\ \A c \in B \ {n, b} : EndOf(h2, c) = EndOf(hp, c)
  <2>1. HdrSize \in Nat /\ hp.size[b] \in Int /\ hp.size[n] \in Int /\ b \in Int
    BY <1>1, <1>4, HeapConstants DEF HeaderTable, Addr
  <2>2. EndOf(h2, b) = EndOf(hp, n)
    <3>1. n = b + HdrSize + hp.size[b]
      BY <1>1 DEF EndOf
    <3>2. b + HdrSize + h2.size[b] = n + HdrSize + hp.size[n]
      BY <1>5, <2>1, <3>1
    <3> QED
      BY <3>2 DEF EndOf
  <2> QED
    BY <1>5, <2>2 DEF EndOf
<1>7. h2 \in HeaderTable
  <2>1. h2.size[b] \in 0 .. HeapSize
    <3>1. /\ HeapSize \in Nat /\ HdrSize \in Nat /\ b \in Nat
          /\ hp.size[b] \in Nat /\ hp.size[n] \in Nat
      BY <1>1, <1>4, HeapConstants DEF HeaderTable, Addr
    <3>2. b + HdrSize + h2.size[b] <= HeapSize
      BY <1>2, <1>6 DEF EndOf
    <3> QED
      BY <1>5, <3>1, <3>2
  <2>2. after \in Addr \cup {NULL}
    BY <1>1, <1>4 DEF HeaderTable
  <2> QED
    BY <1>1, <1>3, <1>4, <1>5, <2>1, <2>2, HeapConstants DEF HeaderTable
<1>8. 0 \in B \ {n} /\ h2.prev[0] = NULL
  BY <1>1, <1>2, <1>5, HeapConstants DEF Listed, Addr, NULL
<1>9. ASSUME NEW c \in B \ {n}
      PROVE  /\ EndOf(h2, c) <= HeapSize
             /\ h2.next[c] = IF EndOf(h2, c) = HeapSize THEN NULL ELSE EndOf(h2, c)
             /\ h2.next[c] # NULL => h2.next[c] \in B \ {n} /\ h2.prev[h2.next[c]] = c
             /\ c # 0 => h2.prev[c] \in B \ {n} /\ h2.next[h2.prev[c]] = c
  <2>1. /\ EndOf(h2, c) <= HeapSize
        /\ h2.next[c] = IF EndOf(h2, c) = HeapSize THEN NULL ELSE EndOf(h2, c)
    BY <1>2, <1>5, <1>6 DEF Listed
  <2>2. h2.next[c] # NULL => h2.next[c] \in B \ {n} /\ h2.prev[h2.next[c]] = c
    BY <1>1, <1>2, <1>4, <1>5 DEF Listed
  <2>3. c # 0 => h2.prev[c] \in B \ {n} /\ h2.next[h2.prev[c]] = c
    BY <1>1, <1>2, <1>4, <1>5 DEF Listed
  <2> QED
    BY <2>1, <2>2, <2>3
<1>10. \A c, d \in B \ {n} : c < d => EndOf(h2, c) <= d
  BY <1>1, <1>2, <1>4, <1>6 DEF Listed, Addr
<1>11. Listed(h2, B \ {n})
  BY <1>4, <1>7, <1>8, <1>9, <1>10 DEF Listed
<1> QED
  BY <1>1, <1>3, <1>5, <1>11 DEF Addr

\* Marking a block moves nothing.
LEMMA MarkListed ==
    ASSUME NEW hp, NEW B, Listed(hp, B), NEW h2 \in HeaderTable,
           h2.size = hp.size, h2.next = hp.next, h2.prev = hp.prev
    PROVE  Listed(h2, B)
  BY DEF Listed, EndOf

\* kfree leaves a whole list, in which it has joined all there is to join.
LEMMA FreeListed ==
    ASSUME Listed(heap, blocks), FreePairs(heap, blocks) = {},
           NEW b \in blocks, heap.used[b]
    PROVE  /\ Listed(AfterFree(b), LeftInList(b))
           /\ FreePairs(AfterFree(b), LeftInList(b)) = {}
<1> DEFINE h1 == MarkFree(heap, b)
           h2 == AfterNext(b)
           B2 == IF JoinsNext(h1, b) THEN blocks \ {heap.next[b]} ELSE blocks
<1>0. /\ h1 \in HeaderTable
      /\ h1.size = heap.size /\ h1.next = heap.next /\ h1.prev = heap.prev
      /\ h1.used = [heap.used EXCEPT ![b] = FALSE]
  BY DEF MarkFree, Listed, HeaderTable
<1> HIDE DEF h1
<1>1. /\ Listed(h1, blocks) /\ h1.next = heap.next /\ h1.prev = heap.prev
      /\ h1.used = [heap.used EXCEPT ![b] = FALSE]
  BY <1>0, MarkListed
<1>2. heap.used \in [Addr -> BOOLEAN] /\ blocks \subseteq Addr
  BY DEF Listed, HeaderTable
<1>3. \A c \in FreePairs(h1, blocks) : c = b \/ c = h1.prev[b]
  BY <1>1, <1>2 DEF FreePairs, Listed
<1>4. /\ Listed(h2, B2) /\ b \in B2
      /\ \A c \in FreePairs(h2, B2) : c = h2.prev[b]
      /\ h2.used = h1.used
  <2>1. CASE JoinsNext(h1, b)
    <3>1. h2 = Absorb(h1, b, h1.next[b]) /\ h1.next[b] # NULL /\ ~h1.used[h1.next[b]]
          /\ B2 = blocks \ {h1.next[b]}
      BY <1>1, <2>1 DEF AfterNext, JoinsNext, h1
    <3> HIDE DEF h2, B2
    <3>2. /\ Listed(h2, B2) /\ h2.used = h1.used /\ b \in B2
          /\ h2.next[b] = h1.next[h1.next[b]]
          /\ \A c \in B2 \ {b} : h2.next[c] = h1.next[c]
      <4> DEFINE n == h1.next[b]
      <4>1. n = h1.next[b] /\ n # NULL /\ h2 = Absorb(h1, b, n) /\ B2 = blocks \ {n}
        BY <3>1
      <4> HIDE DEF n
      <4>2. /\ Listed(h2, blocks \ {n}) /\ h2.used = h1.used /\ h2.next[b] = h1.next[n] /\ b # n
            /\ \A c \in blocks \ {n, b} : h2.next[c] = h1.next[c]
        BY <1>1, <4>1, AbsorbListed
      <4> QED
        BY <4>1, <4>2
    <3>3. h1.next[b] \in blocks
      BY <1>1, <3>1, BlockFacts
    <3>4. ASSUME NEW c \in FreePairs(h2, B2) PROVE c = h2.prev[b]
      <4>1. c \in B2 /\ ~h2.used[c] /\ h2.next[c] # NULL /\ ~h2.used[h2.next[c]]
        BY DEF FreePairs
      <4>2. c # b
        <5>1. SUFFICES ASSUME c = b PROVE FALSE
          OBVIOUS
        <5>2. h1.next[b] \in FreePairs(h1, blocks)
          BY <3>1, <3>2, <3>3, <4>1, <5>1 DEF FreePairs
        <5>3. h1.next[b] = h1.prev[b]
          BY <1>3, <3>1, <3>2, <5>2, <1>1, BlockFacts
        <5> QED
          BY <1>1, <3>1, <5>3, BlockFacts
      <4>3. c \in FreePairs(h1, blocks)
        BY <3>1, <3>2, <4>1, <4>2 DEF FreePairs
      <4>4. h1.next[c] = b
        BY <1>1, <1>3, <4>2, <4>3, BlockFacts DEF FreePairs, Listed
      <4>5. h2.next[c] = b
        BY <3>2, <4>1, <4>2, <4>4
      <4> QED
        BY <3>2, <4>1, <4>5 DEF Listed
    <3> QED
      BY <3>2, <3>4
  <2>2. CASE ~JoinsNext(h1, b)
    <3>1. h2 = h1 /\ B2 = blocks
      BY <2>2 DEF AfterNext, h1
    <3>2. b \notin FreePairs(h1, blocks)
      BY <2>2 DEF JoinsNext, FreePairs
    <3> QED
      BY <1>1, <1>3, <3>1, <3>2
  <2> QED
    BY <2>1, <2>2
<1>5. LeftInList(b) = IF JoinsPrev(h2, b) THEN B2 \ {b} ELSE B2
  BY DEF LeftInList, h1
<1> HIDE DEF h2, B2
<1>6. CASE JoinsPrev(h2, b)
  <2> DEFINE p == h2.prev[b]
             h3 == Absorb(h2, p, b)
             B3 == B2 \ {b}
  <2>1. AfterFree(b) = h3
    BY <1>6 DEF AfterFree, h2
  <2>2. p # NULL /\ p \in B2 /\ h2.next[p] = b /\ ~h2.used[p] /\ b # NULL /\ p # b
    <3>1. p # NULL /\ ~h2.used[p]
      BY <1>6 DEF JoinsPrev
    <3>2. p \in B2 /\ h2.next[p] = b /\ EndOf(h2, p) = b
      BY <1>4, <3>1, BlockFacts
    <3>3. b \in Int /\ p \in Int /\ p < EndOf(h2, p)
      BY <1>4, <3>2, BlockFacts
    <3>4. b \in Addr
      BY <1>4, BlockFacts
    <3> QED
      BY <3>1, <3>2, <3>3, <3>4, HeapConstants DEF Addr, NULL
  <2> HIDE DEF p
  <2>0. h3 = Absorb(h2, p, b)
    OBVIOUS
  <2> HIDE DEF h3
  <2>3. /\ Listed(h3, B3) /\ h3.used = h2.used
        /\ h3.next[p] = h2.next[b]
        /\ \A c \in B2 \ {b, p} : h3.next[c] = h2.next[c]
    <3>1. /\ Listed(h3, B2 \ {b}) /\ h3.used = h2.used
          /\ h3.next[p] = h2.next[b]
          /\ \A c \in B2 \ {b, p} : h3.next[c] = h2.next[c]
      <4> HIDE DEF B3
      <4>1. Listed(h2, B2) /\ p \in B2 /\ b = h2.next[p] /\ b # NULL
        BY <1>4, <2>2
      <4> QED
        BY <2>0, <4>1, AbsorbListed
    <3> QED
      BY <3>1
  <2>4. ASSUME NEW c \in FreePairs(h3, B3) PROVE FALSE
    <3>1. c \in B2 /\ c # b /\ ~h2.used[c] /\ h3.next[c] # NULL /\ ~h2.used[h3.next[c]]
      BY <2>3 DEF FreePairs
    <3>2. CASE c # p
      <4>1. c \in FreePairs(h2, B2)
        BY <2>3, <3>1, <3>2 DEF FreePairs
      <4> QED
        BY <1>4, <3>2, <4>1 DEF p
    <3>3. CASE c = p
      <4>1. ~h2.used[b]
        BY <1>1, <1>2, <1>4
      <4>2. b \in FreePairs(h2, B2)
        BY <1>4, <2>3, <3>1, <3>3, <4>1 DEF FreePairs
      <4> QED
        BY <1>4, <2>2, <4>2 DEF p
    <3> QED
      BY <3>2, <3>3
  <2> QED
    BY <1>5, <1>6, <2>1, <2>3, <2>4
<1>7. CASE ~JoinsPrev(h2, b)
  <2>1. AfterFree(b) = h2
    BY <1>7 DEF AfterFree, h2
  <2>2. ASSUME NEW c \in FreePairs(h2, B2) PROVE FALSE
    <3>1. c = h2.prev[b] /\ c \in B2 /\ ~h2.used[c]
      BY <1>4 DEF FreePairs
    <3>2. c # NULL
      BY <1>4, <3>1, HeapConstants DEF Listed, Addr, NULL
    <3> QED
      BY <1>7, <3>1, <3>2 DEF JoinsPrev
  <2> QED
    BY <1>4, <1>5, <1>7, <2>1, <2>2
<1> QED
  BY <1>6, <1>7

\* kmalloc cuts a free block in two: the list stays whole with the new header,
\* whose block is free and has a used one, or none, behind it.
LEMMA SplitListed ==
    ASSUME Listed(heap, blocks), FreePairs(heap, blocks) = {}, want \in Nat,
           NEW b \in blocks, ~heap.used[b], Splits(b),
           NEW rest, rest = b + HdrSize + want, NEW h2, h2 = Split(b)
    PROVE  /\ Listed(h2, blocks \cup {rest})
           /\ FreePairs(h2, blocks \cup {rest}) = {}
           /\ h2.size[b] = want
<1> DEFINE after == heap.next[b]
<1>1. /\ HeapSize \in Nat /\ HdrSize \in Nat /\ HdrSize > 0 /\ MinSplit \in Nat
      /\ b \in Nat /\ b \in Addr /\ heap.size[b] \in Nat /\ heap \in HeaderTable /\ blocks \subseteq Addr
  BY BlockFacts, HeapConstants DEF Listed, HeaderTable, Addr
<1>2. /\ EndOf(heap, b) = b + HdrSize + heap.size[b]
      /\ EndOf(heap, b) <= HeapSize
      /\ heap.size[b] >= want + HdrSize + MinSplit
  BY BlockFacts DEF EndOf, Splits
<1>3. rest \in Addr /\ rest \in Nat /\ b < rest /\ rest < EndOf(heap, b)
  BY <1>1, <1>2 DEF Addr
<1>4. rest \notin blocks
  BY <1>1, <1>2, <1>3 DEF Listed
<1>5. /\ after = IF EndOf(heap, b) = HeapSize THEN NULL ELSE EndOf(heap, b)
      /\ after # NULL => after \in blocks /\ heap.prev[after] = b /\ heap.used[after]
      /\ after \in Addr \cup {NULL} /\ after # b /\ after # rest /\ after # 0
  <2>1. b # NULL /\ rest # NULL /\ 0 # NULL
    BY <1>1, <1>3 DEF NULL
  <2> QED
    BY <1>1, <1>2, <1>3, <2>1 DEF Listed, FreePairs, HeaderTable
<1>6. /\ h2.size = [heap.size EXCEPT ![rest] = heap.size[b] - want - HdrSize, ![b] = want]
      /\ h2.used = [heap.used EXCEPT ![rest] = FALSE, ![b] = TRUE]
      /\ h2.next = [heap.next EXCEPT ![rest] = after, ![b] = rest]
      /\ h2.prev = [a \in Addr |-> IF a = rest THEN b ELSE IF a = after THEN rest
                                   ELSE heap.prev[a]]
      /\ h2 = [size |-> h2.size, used |-> h2.used, next |-> h2.next, prev |-> h2.prev]
  BY DEF Split
<1> HIDE DEF after
<1>7. /\ h2.size[b] = want /\ h2.size[rest] = heap.size[b] - want - HdrSize
      /\ h2.next[b] = rest /\ h2.next[rest] = after
      /\ h2.used[b] = TRUE /\ h2.used[rest] = FALSE
      /\ \A c \in blocks \ {b} : /\ h2.size[c] = heap.size[c] /\ h2.next[c] = heap.next[c]
                                 /\ h2.used[c] = heap.used[c]
      /\ \A c \in Addr : h2.prev[c] = IF c = rest THEN b ELSE IF c = after THEN rest
                                      ELSE heap.prev[c]
  BY <1>1, <1>3, <1>4, <1>6 DEF HeaderTable
<1>8. /\ EndOf(h2, b) = rest
      /\ EndOf(h2, rest) = EndOf(heap, b)
      /\ \A c \in blocks \ {b} : EndOf(h2, c) = EndOf(heap, c)
  <2>1. rest + HdrSize + (heap.size[b] - want - HdrSize) = b + HdrSize + heap.size[b]
    BY <1>1
  <2>2. EndOf(h2, rest) = EndOf(heap, b)
    BY <1>2, <1>7, <2>1 DEF EndOf
  <2>3. EndOf(h2, b) = rest
    BY <1>7 DEF EndOf
  <2> QED
    BY <1>7, <2>2, <2>3 DEF EndOf
<1>9. h2 \in HeaderTable
  <2>1. want \in 0 .. HeapSize /\ heap.size[b] - want - HdrSize \in 0 .. HeapSize
    BY <1>1, <1>2
  <2>2. h2.size \in [Addr -> 0 .. HeapSize]
    <3>1. heap.size \in [Addr -> 0 .. HeapSize]
      BY <1>1 DEF HeaderTable
    <3>2. [heap.size EXCEPT ![rest] = heap.size[b] - want - HdrSize] \in [Addr -> 0 .. HeapSize]
      BY <2>1, <3>1
    <3>3. ASSUME NEW g \in [Addr -> 0 .. HeapSize] PROVE [g EXCEPT ![b] = want] \in [Addr -> 0 .. HeapSize]
      BY <2>1
    <3> QED
      BY <1>6, <3>2, <3>3
  <2>4. h2.used \in [Addr -> BOOLEAN]
    <3>1. heap.used \in [Addr -> BOOLEAN]
      BY <1>1 DEF HeaderTable
    <3>2. [heap.used EXCEPT ![rest] = FALSE] \in [Addr -> BOOLEAN]
      BY <3>1
    <3>3. ASSUME NEW g \in [Addr -> BOOLEAN] PROVE [g EXCEPT ![b] = TRUE] \in [Addr -> BOOLEAN]
      OBVIOUS
    <3> QED
      BY <1>6, <3>2, <3>3
  <2>3. h2.next \in [Addr -> Addr \cup {NULL}] /\ h2.prev \in [Addr -> Addr \cup {NULL}]
    BY <1>1, <1>3, <1>5, <1>6 DEF HeaderTable
  <2> QED
    BY <1>6, <2>2, <2>3, <2>4 DEF HeaderTable
<1>10. 0 \in blocks \cup {rest} /\ h2.prev[0] = NULL
  BY <1>1, <1>3, <1>5, <1>7 DEF Listed
<1>11. ASSUME NEW c \in blocks \cup {rest}
       PROVE  /\ EndOf(h2, c) <= HeapSize
              /\ h2.next[c] = IF EndOf(h2, c) = HeapSize THEN NULL ELSE EndOf(h2, c)
              /\ h2.next[c] # NULL => h2.next[c] \in blocks \cup {rest} /\ h2.prev[h2.next[c]] = c
              /\ c # 0 => h2.prev[c] \in blocks \cup {rest} /\ h2.next[h2.prev[c]] = c
  <2>1. CASE c = b
    BY <1>1, <1>2, <1>3, <1>4, <1>5, <1>7, <1>8, <2>1 DEF Listed
  <2>2. CASE c = rest
    BY <1>1, <1>2, <1>3, <1>5, <1>7, <1>8, <2>2
  <2>3. CASE c \in blocks \ {b}
    <3>1. /\ EndOf(h2, c) <= HeapSize
          /\ h2.next[c] = IF EndOf(h2, c) = HeapSize THEN NULL ELSE EndOf(h2, c)
      BY <1>7, <1>8, <2>3 DEF Listed
    <3>2. /\ heap.next[c] # NULL => heap.next[c] \in blocks /\ heap.prev[heap.next[c]] = c
          /\ c # 0 => heap.prev[c] \in blocks /\ heap.next[heap.prev[c]] = c
      BY <2>3 DEF Listed
    <3>3. h2.next[c] # NULL => h2.next[c] \in blocks \cup {rest} /\ h2.prev[h2.next[c]] = c
      <4> SUFFICES ASSUME heap.next[c] # NULL
                   PROVE  heap.next[c] \in blocks /\ h2.prev[heap.next[c]] = c
        BY <1>7, <2>3
      <4>1. heap.next[c] \in blocks /\ heap.prev[heap.next[c]] = c
        BY <3>2
      <4>2. heap.next[c] \in Addr /\ heap.next[c] # rest
        BY <1>1, <1>4, <4>1
      <4>3. heap.next[c] # after
        BY <1>5, <2>3, <4>1
      <4>4. h2.prev[heap.next[c]] = heap.prev[heap.next[c]]
        BY <1>7, <4>2, <4>3
      <4> QED
        BY <4>1, <4>4
    <3>4. c # 0 => h2.prev[c] \in blocks \cup {rest} /\ h2.next[h2.prev[c]] = c
      <4>1. c \in Addr /\ c # rest
        BY <1>1, <1>4, <2>3
      <4>2. CASE c = after
        BY <1>7, <4>1, <4>2
      <4>3. CASE c # after
        <5>1. h2.prev[c] = heap.prev[c]
          BY <1>7, <4>1, <4>3
        <5>2. c # 0 => heap.prev[c] # b
          BY <3>2, <4>3 DEF after
        <5> QED
          BY <1>7, <3>2, <5>1, <5>2
      <4> QED
        BY <4>2, <4>3
    <3> QED
      BY <3>1, <3>3, <3>4
  <2> QED
    BY <2>1, <2>2, <2>3
<1>12. \A c, d \in blocks \cup {rest} : c < d => EndOf(h2, c) <= d
  <2>1. \A c, d \in blocks : c < d => EndOf(heap, c) <= d
    BY DEF Listed
  <2>2. \A c \in blocks : c \in Int /\ EndOf(heap, c) \in Int /\ c < EndOf(heap, c)
    BY BlockFacts
  <2> QED
    BY <1>3, <1>8, <2>1, <2>2
<1>13. Listed(h2, blocks \cup {rest})
  BY <1>1, <1>3, <1>9, <1>10, <1>11, <1>12 DEF Listed
<1>14. ASSUME NEW c \in FreePairs(h2, blocks \cup {rest}) PROVE FALSE
  <2>1. /\ c \in blocks \cup {rest} /\ ~h2.used[c] /\ h2.next[c] # NULL
        /\ ~h2.used[h2.next[c]]
    BY DEF FreePairs
  <2>2. CASE c = rest
    <3>1. h2.next[c] = after /\ after # NULL
      BY <1>7, <2>1, <2>2
    <3>2. after \in blocks \ {b} /\ heap.used[after]
      BY <1>5, <3>1
    <3>3. h2.used[after] = heap.used[after]
      BY <1>7, <3>2
    <3> QED
      BY <2>1, <3>1, <3>2, <3>3
  <2>3. CASE c \in blocks \ {b}
    <3>1. heap.next[c] \in blocks /\ ~heap.used[c]
      BY <1>7, <2>1, <2>3 DEF Listed
    <3>2. heap.used[heap.next[c]]
      BY <1>7, <2>1, <2>3, <3>1 DEF FreePairs
    <3> QED
      BY <1>7, <2>1, <2>3, <3>1, <3>2
  <2> QED
    BY <1>7, <2>1, <2>2, <2>3
<1> QED
  BY <1>7, <1>13, <1>14

\* The block kmalloc takes whole is marked.
LEMMA TakeListed ==
    ASSUME Listed(heap, blocks), FreePairs(heap, blocks) = {}, NEW b \in blocks,
           NEW h2 \in HeaderTable,
           h2.size = heap.size, h2.next = heap.next, h2.prev = heap.prev,
           h2.used[b] = TRUE, \A c \in Addr \ {b} : h2.used[c] = heap.used[c]
    PROVE  /\ Listed(h2, blocks)
           /\ FreePairs(h2, blocks) = {}
<1>1. Listed(h2, blocks)
  BY MarkListed
<1>2. blocks \subseteq Addr
  BY DEF Listed
<1>3. FreePairs(h2, blocks) = {}
  BY <1>1, <1>2 DEF FreePairs, Listed
<1> QED
  BY <1>1, <1>3

-----------------------------------------------------------------------------
NoStats == [used |-> 0, free |-> 0, headers |-> 0]

\* The inductive invariant of the allocator.  The walk of memory_stats has
\* added up all that lies below its cursor.
ListInv == Listed(heap, blocks) /\ FreePairs(heap, blocks) = {}

CallInv ==
    /\ pc \in {"idle", "kmalloc", "stats"}
    /\ cur \in blocks \cup {NULL}
    /\ want \in 0 .. WordMod - 1 /\ asked \in 0 .. WordMod - 1
    /\ stats \in [used : Int, free : Int, headers : Int]
    /\ pc = "idle" => cur = NULL
    /\ pc # "stats" => stats = NoStats
    /\ pc = "kmalloc" => want = RoundUp(asked)
    /\ pc = "stats" => stats.used + stats.free + stats.headers * HdrSize =
                          IF cur = NULL THEN HeapSize ELSE cur

AllocInv == ListInv /\ CallInv /\ PassedOver

\* What is promised follows.
LEMMA AllocInvImplies == AllocInv => HeapInv /\ WalkInv
<1> SUFFICES ASSUME AllocInv PROVE HeapInv /\ WalkInv
  OBVIOUS
<1>1. TypeOK
  BY DEF AllocInv, ListInv, CallInv, Listed, HeaderTable, TypeOK
<1>2. Tiled
  BY DEF AllocInv, ListInv, Listed, Tiled, End, EndOf
<1>3. Coalesced
  BY DEF AllocInv, ListInv, FreePairs, Coalesced
<1>4. StatsAddUp
  BY DEF AllocInv, CallInv, StatsAddUp
<1> QED
  BY <1>1, <1>2, <1>3, <1>4 DEF HeapInv, WalkInv, AllocInv

\* memory_init() makes a list of one block.
LEMMA InitAlloc == Init => AllocInv
<1> SUFFICES ASSUME Init PROVE AllocInv
  OBVIOUS
<1>1. HeapSize \in Nat /\ HdrSize \in Nat /\ HdrSize > 0 /\ HdrSize <= HeapSize /\ WordMod > 0
      /\ WordMod \in Nat /\ 0 \in Addr
  BY HeapConstants DEF Addr
<1>2. /\ heap.size[0] = HeapSize - HdrSize /\ heap.next[0] = NULL /\ heap.prev[0] = NULL
      /\ blocks = {0}
  BY <1>1 DEF Init
<1>3. heap \in HeaderTable
  BY <1>1 DEF Init, HeaderTable
<1>4. EndOf(heap, 0) = HeapSize
  BY <1>1, <1>2 DEF EndOf
<1>5. Listed(heap, blocks)
  BY <1>1, <1>2, <1>3, <1>4 DEF Listed
<1>6. FreePairs(heap, blocks) = {}
  BY <1>2 DEF FreePairs
<1>7. CallInv /\ PassedOver
  BY <1>1 DEF Init, CallInv, PassedOver, NoStats
<1> QED
  BY <1>5, <1>6, <1>7 DEF AllocInv, ListInv

\* Between a block and the next there is none.
LEMMA NextIsNext ==
    ASSUME Listed(heap, blocks), NEW b \in blocks, NEW c \in blocks,
           heap.next[b] = NULL \/ c < heap.next[b]
    PROVE  c < b \/ c = b
<1>1. /\ b \in Int /\ c \in Int /\ c \in Addr /\ EndOf(heap, b) \in Int
      /\ heap.next[b] = IF EndOf(heap, b) = HeapSize THEN NULL ELSE EndOf(heap, b)
      /\ b < c => EndOf(heap, b) <= c
  BY BlockFacts DEF Listed
<1>2. c < HeapSize /\ HeapSize \in Int
  BY <1>1, HeapConstants DEF Addr
<1>3. c < EndOf(heap, b)
  <2>1. EndOf(heap, b) \in Nat
    BY BlockFacts, HeapConstants, <1>1 DEF Addr
  <2>2. EndOf(heap, b) # NULL
    BY <2>1 DEF NULL
  <2> QED
    BY <1>1, <1>2, <2>2
<1> QED
  BY <1>1, <1>3

\* kmalloc: the arguments, the walk, the end.
LEMMA KmallocStep ==
    ASSUME AllocInv, NEW n \in Requests, Kmalloc(n)
    PROVE  AllocInv'
<1>1. ListInv'
  BY DEF AllocInv, ListInv, Kmalloc, Listed, FreePairs
<1>2. RoundUp(n) \in 0 .. WordMod - 1
  <2>1. /\ WordMod \in Nat \ {0} /\ Align \in Nat \ {0} /\ n \in Int
    BY HeapConstants
  <2> DEFINE sum == (n + Align - 1) % WordMod
  <2>2. sum \in 0 .. WordMod - 1
    BY <2>1, ModRange
  <2> HIDE DEF sum
  <2>3. sum % Align \in 0 .. sum
    <3>1. sum % Align \in 0 .. Align - 1
      BY <2>1, <2>2, ModRange
    <3>2. CASE sum < Align
      BY <2>1, <2>2, <3>2, ModSmall
    <3>3. CASE sum >= Align
      BY <2>1, <2>2, <3>1, <3>3
    <3> QED
      BY <2>1, <2>2, <3>2, <3>3
  <2>4. RoundUp(n) = sum - (sum % Align)
    BY DEF RoundUp, sum
  <2> QED
    BY <2>1, <2>2, <2>3, <2>4
<1>3. CallInv'
  <2>1. pc' = "kmalloc" /\ cur' = 0 /\ want' = RoundUp(n) /\ asked' = n /\ blocks' = blocks
        /\ stats' = stats /\ pc = "idle"
    BY DEF Kmalloc
  <2>2. asked' \in 0 .. WordMod - 1 /\ 0 \in blocks
    BY <2>1, HeapConstants DEF AllocInv, ListInv, Listed
  <2>3. RoundUp(n) = RoundUp(asked')
    BY <2>1
  <2> QED
    BY <1>2, <2>1, <2>2, <2>3 DEF AllocInv, CallInv, NoStats, RoundUp
<1>4. PassedOver'
  <2>1. cur' = 0 /\ blocks' = blocks
    BY DEF Kmalloc
  <2>2. \A b \in blocks : ~(b < 0) /\ 0 # NULL
    BY DEF AllocInv, ListInv, Listed, Addr, NULL
  <2> QED
    BY <2>1, <2>2 DEF PassedOver
<1> QED
  BY <1>1, <1>3, <1>4 DEF AllocInv

LEMMA KmallocSkipStep ==
    ASSUME AllocInv, KmallocSkip
    PROVE  AllocInv'
<1>1. /\ pc = "kmalloc" /\ cur \in blocks /\ ~Fits(cur) /\ cur' = heap.next[cur]
      /\ UNCHANGED <<heap, pc, want, asked, blocks, stats>>
  BY DEF AllocInv, CallInv, KmallocSkip
<1>2. ListInv'
  BY <1>1 DEF AllocInv, ListInv, Listed, FreePairs
<1>3. cur' \in blocks \cup {NULL}
  BY <1>1 DEF AllocInv, ListInv, Listed
<1>4. CallInv'
  BY <1>1, <1>3 DEF AllocInv, CallInv, NoStats, RoundUp
<1>5. ASSUME NEW b \in blocks, cur' = NULL \/ b < cur' PROVE ~Fits(b)
  <2>1. b < cur \/ b = cur
    BY <1>1, <1>5, NextIsNext DEF AllocInv, ListInv
  <2> QED
    BY <1>1, <2>1 DEF AllocInv, PassedOver
<1>6. PassedOver'
  BY <1>1, <1>5 DEF PassedOver, Fits
<1> QED
  BY <1>2, <1>4, <1>6 DEF AllocInv

LEMMA KmallocTakeStep ==
    ASSUME AllocInv, KmallocTake
    PROVE  AllocInv' /\ heap'.size[cur] = IF Splits(cur) THEN want ELSE heap.size[cur]
<1>1. /\ pc = "kmalloc" /\ cur \in blocks /\ ~heap.used[cur] /\ want \in Nat
      /\ pc' = "idle" /\ cur' = NULL /\ want' = 0 /\ asked' = 0 /\ stats' = stats
  BY HeapConstants DEF AllocInv, CallInv, KmallocTake, Fits
<1>2. ListInv' /\ heap'.size[cur] = IF Splits(cur) THEN want ELSE heap.size[cur]
  <2>1. CASE Splits(cur)
    <3>1. heap' = Split(cur) /\ blocks' = blocks \cup {cur + HdrSize + want}
      BY <2>1 DEF KmallocTake
    <3> DEFINE rest == cur + HdrSize + want
    <3>2. rest = cur + HdrSize + want /\ blocks' = blocks \cup {rest}
      BY <3>1
    <3> HIDE DEF rest
    <3> QED
      BY <1>1, <2>1, <3>1, <3>2, SplitListed DEF AllocInv, ListInv
  <2>2. CASE ~Splits(cur)
    <3>1. heap' = [heap EXCEPT !.used[cur] = TRUE] /\ blocks' = blocks
      BY <2>2 DEF KmallocTake
    <3>2. heap \in HeaderTable /\ blocks \subseteq Addr
      BY DEF AllocInv, ListInv, Listed
    <3>3. /\ heap' \in HeaderTable
          /\ heap'.size = heap.size /\ heap'.next = heap.next /\ heap'.prev = heap.prev
          /\ heap'.used[cur] = TRUE /\ \A c \in Addr \ {cur} : heap'.used[c] = heap.used[c]
      BY <1>1, <3>1, <3>2 DEF HeaderTable
    <3>4. Listed(heap', blocks) /\ FreePairs(heap', blocks) = {}
      BY <1>1, <3>3, TakeListed DEF AllocInv, ListInv
    <3>5. ListInv'
      BY <3>1, <3>4 DEF ListInv
    <3> QED
      BY <2>2, <3>3, <3>5
  <2> QED
    BY <2>1, <2>2
<1>3. CallInv' /\ PassedOver'
  BY <1>1, HeapConstants DEF AllocInv, CallInv, PassedOver, NoStats
<1> QED
  BY <1>2, <1>3 DEF AllocInv

LEMMA KmallocFailStep ==
    ASSUME AllocInv, KmallocFail
    PROVE  AllocInv'
<1>1. ListInv'
  BY DEF AllocInv, ListInv, KmallocFail, Listed, FreePairs
<1>2. CallInv' /\ PassedOver'
  BY HeapConstants DEF AllocInv, KmallocFail, CallInv, PassedOver, NoStats
<1> QED
  BY <1>1, <1>2 DEF AllocInv

LEMMA KfreeStep ==
    ASSUME AllocInv, NEW b \in Addr, Kfree(b)
    PROVE  AllocInv'
<1>1. /\ pc = "idle" /\ b \in blocks /\ heap.used[b]
      /\ heap' = AfterFree(b) /\ blocks' = LeftInList(b)
      /\ UNCHANGED <<pc, cur, want, asked, stats>>
  BY DEF Kfree, callVars
<1>2. ListInv'
  BY <1>1, FreeListed DEF AllocInv, ListInv
<1>3. CallInv' /\ PassedOver'
  BY <1>1 DEF AllocInv, CallInv, PassedOver, NoStats
<1> QED
  BY <1>2, <1>3 DEF AllocInv

\* memory_stats adds a block, header and payload, to what lies below it.
LEMMA StatsStepStep ==
    ASSUME AllocInv, StatsStep
    PROVE  AllocInv'
<1>1. /\ pc = "stats" /\ cur \in blocks /\ cur' = heap.next[cur]
      /\ UNCHANGED <<heap, pc, want, asked, blocks>>
  BY DEF AllocInv, CallInv, StatsStep
<1>2. ListInv'
  BY <1>1 DEF AllocInv, ListInv, Listed, FreePairs
<1>3. /\ cur \in Int /\ cur # NULL /\ heap.size[cur] \in Int /\ HdrSize \in Int
      /\ cur' \in blocks \cup {NULL}
      /\ cur' = IF EndOf(heap, cur) = HeapSize THEN NULL ELSE EndOf(heap, cur)
      /\ EndOf(heap, cur) = cur + HdrSize + heap.size[cur] /\ EndOf(heap, cur) # NULL
  <2>1. Listed(heap, blocks)
    BY DEF AllocInv, ListInv
  <2>2. cur \in Addr /\ cur < EndOf(heap, cur) /\ EndOf(heap, cur) \in Int
        /\ heap.size[cur] \in 0 .. HeapSize
    BY <1>1, <2>1, BlockFacts
  <2>3. cur \in Nat
    BY <2>2 DEF Addr
  <2>4. cur # NULL /\ EndOf(heap, cur) # NULL
    BY <2>2, <2>3 DEF NULL
  <2>5. /\ cur' = IF EndOf(heap, cur) = HeapSize THEN NULL ELSE EndOf(heap, cur)
        /\ cur' \in blocks \cup {NULL}
    BY <1>1, <2>1 DEF Listed
  <2> QED
    BY <2>2, <2>3, <2>4, <2>5, HeapConstants DEF EndOf
<1>4. /\ stats.used \in Int /\ stats.free \in Int /\ stats.headers \in Int
      /\ stats.used + stats.free + stats.headers * HdrSize = cur
  BY <1>1, <1>3 DEF AllocInv, CallInv
<1>5. /\ stats'.used \in Int /\ stats'.free \in Int /\ stats'.headers = stats.headers + 1
      /\ stats'.used + stats'.free = stats.used + stats.free + heap.size[cur]
      /\ stats' = [used |-> stats'.used, free |-> stats'.free, headers |-> stats'.headers]
  BY <1>3, <1>4 DEF StatsStep
<1>6. stats'.headers * HdrSize = stats.headers * HdrSize + HdrSize
  BY <1>3, <1>4, <1>5
<1>7. stats.headers * HdrSize \in Int
  BY <1>3, <1>4
<1>8. stats'.used + stats'.free + stats'.headers * HdrSize = EndOf(heap, cur)
  <2> DEFINE x == stats.headers * HdrSize
             y == stats'.headers * HdrSize
  <2>1. x \in Int /\ y = x + HdrSize /\ stats.used + stats.free + x = cur
    BY <1>4, <1>6, <1>7
  <2> HIDE DEF x, y
  <2>2. stats'.used + stats'.free + y = EndOf(heap, cur)
    BY <1>3, <1>4, <1>5, <2>1
  <2> QED
    BY <2>2 DEF y
<1>9. stats'.used + stats'.free + stats'.headers * HdrSize =
          IF cur' = NULL THEN HeapSize ELSE cur'
  BY <1>3, <1>8
<1>10. stats' \in [used : Int, free : Int, headers : Int]
  BY <1>4, <1>5
<1>11. CallInv'
  BY <1>1, <1>3, <1>9, <1>10 DEF AllocInv, CallInv
<1>12. PassedOver'
  BY <1>1 DEF PassedOver
<1> QED
  BY <1>2, <1>11, <1>12 DEF AllocInv

\* The two ends of memory_stats.
LEMMA StatsEndsStep ==
    ASSUME AllocInv, MemoryStats \/ StatsReturn
    PROVE  AllocInv'
<1>1. ListInv'
  BY DEF AllocInv, ListInv, MemoryStats, StatsReturn, Listed, FreePairs
<1>2. 0 \in blocks /\ 0 # NULL
  BY DEF AllocInv, ListInv, Listed, NULL
<1>3. CASE MemoryStats
  <2>1. /\ pc = "idle" /\ pc' = "stats" /\ cur' = 0 /\ stats' = stats
        /\ UNCHANGED <<heap, want, asked, blocks>>
    BY <1>3 DEF MemoryStats
  <2>2. stats = NoStats
    BY <2>1 DEF AllocInv, CallInv
  <2>3. stats.used + stats.free + stats.headers * HdrSize = 0
    BY <2>2, HeapConstants DEF NoStats
  <2>4. CallInv' /\ PassedOver'
    BY <1>2, <2>1, <2>3 DEF AllocInv, CallInv, PassedOver
  <2> QED
    BY <1>1, <2>4 DEF AllocInv
<1>4. CASE StatsReturn
  <2>1. CallInv' /\ PassedOver'
    BY <1>4 DEF StatsReturn, AllocInv, CallInv, PassedOver, NoStats
  <2> QED
    BY <1>1, <2>1 DEF AllocInv
<1> QED
  BY <1>3, <1>4

\* No call of the allocator breaks the invariant.
LEMMA AllocStep ==
    ASSUME AllocInv, Next \/ UNCHANGED vars
    PROVE  AllocInv'
<1>1. CASE UNCHANGED vars
  BY <1>1 DEF vars, callVars, AllocInv, ListInv, CallInv, PassedOver, Listed, FreePairs,
              EndOf, Fits, RoundUp, NoStats
<1>2. CASE Next
  BY <1>2, KmallocStep, KmallocSkipStep, KmallocTakeStep, KmallocFailStep, KfreeStep,
     StatsStepStep, StatsEndsStep DEF Next, Walk
<1> QED
  BY <1>1, <1>2

\* Rounding up reaches the request, or wraps to 0.
LEMMA RoundUpHolds ==
    ASSUME NEW n \in 0 .. WordMod - 1
    PROVE  IF Wraps(n) THEN RoundUp(n) = 0 ELSE RoundUp(n) >= n
<1> DEFINE sum == (n + Align - 1) % WordMod
<1>1. WordMod \in Nat \ {0} /\ Align \in Nat \ {0} /\ n \in Int
  BY HeapConstants
<1>2. sum \in 0 .. WordMod - 1
  BY <1>1, ModRange
<1>3. RoundUp(n) = sum - (sum % Align)
  BY DEF RoundUp
<1>4. CASE Wraps(n)
  <2>1. sum \in 0 .. Align - 1
    <3>1. CASE Align > WordMod
      <4> HIDE DEF sum
      <4> QED
        BY <1>1, <1>2, <3>1
    <3>2. CASE Align <= WordMod
      <4>1. n + Align - 1 \in WordMod .. 2 * WordMod - 1
        BY <1>1, <1>4, <3>2 DEF Wraps
      <4>2. sum = n + Align - 1 - WordMod
        BY <1>1, <4>1, ModWrap
      <4> HIDE DEF sum
      <4> QED
        BY <1>1, <1>2, <4>2
    <3> QED
      BY <1>1, <3>1, <3>2
  <2> HIDE DEF sum
  <2>2. sum % Align = sum
    BY <1>1, <2>1, ModSmall
  <2> QED
    BY <1>2, <1>3, <1>4, <2>2
<1>5. CASE ~Wraps(n)
  <2>1. n + Align - 1 \in 0 .. WordMod - 1
    BY <1>1, <1>5 DEF Wraps
  <2>2. sum = n + Align - 1
    BY <1>1, <2>1, ModSmall
  <2> HIDE DEF sum
  <2>3. sum % Align \in 0 .. Align - 1
    BY <1>1, <1>2, ModRange
  <2> QED
    BY <1>1, <1>3, <1>5, <2>2, <2>3
<1> QED
  BY <1>4, <1>5

\* What kmalloc returns when it returns a block.
LEMMA ResultStep ==
    ASSUME AllocInv, Next \/ UNCHANGED vars, pc = "kmalloc", pc' = "idle", cur # NULL
    PROVE  IF Wraps(asked) THEN heap'.size[cur] < HdrSize + MinSplit
                           ELSE heap'.size[cur] >= asked
<1>1. KmallocTake
  BY DEF Next, Walk, Kmalloc, Kfree, MemoryStats, KmallocSkip, KmallocFail, StatsStep,
         StatsReturn, vars, callVars
<1>2. /\ heap'.size[cur] = IF Splits(cur) THEN want ELSE heap.size[cur]
      /\ heap.size[cur] >= want
  BY <1>1, KmallocTakeStep DEF KmallocTake, Fits
<1>3. /\ asked \in 0 .. WordMod - 1 /\ want = RoundUp(asked) /\ want \in Nat
      /\ HdrSize \in Nat \ {0} /\ MinSplit \in Nat /\ WordMod \in Nat
  BY HeapConstants DEF AllocInv, CallInv
<1>4. heap.size[cur] \in Int
  BY BlockFacts DEF AllocInv, ListInv, CallInv
<1>5. IF Wraps(asked) THEN want = 0 ELSE want >= asked
  BY <1>3, RoundUpHolds
<1>6. ~Splits(cur) => heap.size[cur] < want + HdrSize + MinSplit
  BY <1>3, <1>4 DEF Splits
<1> QED
  BY <1>2, <1>3, <1>4, <1>5, <1>6

-----------------------------------------------------------------------------
\* What paging_init has done when it has filled the table up to entry.
Mapping(p) == [phys |-> p, present |-> p \notin {GuardLo, GuardHi}]

TableInv ==
    /\ entry \in -1 .. Pages
    /\ entry >= 0 => /\ DOMAIN ptab = Page
                     /\ \A p \in Page : p < entry => ptab[p] = Mapping(p)
    /\ pdir => entry = Pages
    /\ cr0 = "on" => pdir

PagedInv == AllocInv /\ TableInv

LEMMA BootPaged == BootInit => PagedInv
<1> SUFFICES ASSUME BootInit PROVE PagedInv
  OBVIOUS
<1>1. AllocInv
  BY InitAlloc DEF BootInit
<1>2. TableInv
  <2>1. Pages \in Nat
    BY MemoryLayout
  <2>2. entry = -1 /\ ~pdir /\ cr0 # "on"
    BY DEF BootInit
  <2> QED
    BY <2>1, <2>2 DEF TableInv
<1> QED
  BY <1>1, <1>2 DEF PagedInv

LEMMA PagedStep ==
    ASSUME PagedInv, PagedNext \/ UNCHANGED allVars
    PROVE  PagedInv' /\ (Next \/ UNCHANGED vars)
<1>1. Next \/ UNCHANGED vars
  BY DEF PagedNext, PagingInit, PagingClear, PagingFill, PagingWire, PagingEnable, HeapStep, allVars
<1>2. AllocInv'
  BY <1>1, AllocStep DEF PagedInv
<1>3. TableInv'
  <2>0. Pages \in Nat
    BY MemoryLayout
  <2>1. CASE PagingClear
    <3>1. entry' = 0 /\ ~pdir' /\ cr0' # "on" /\ DOMAIN ptab' = Page
      BY <2>1 DEF PagingClear
    <3>2. \A p \in Page : ~(p < 0)
      BY <2>0 DEF Page
    <3> QED
      BY <2>0, <3>1, <3>2 DEF TableInv
  <2>2. CASE PagingFill
    <3>1. /\ entry \in Page /\ entry' = entry + 1 /\ pdir' = pdir /\ cr0' = cr0
          /\ ptab' = [ptab EXCEPT ![entry] = Mapping(entry)]
      BY <2>2 DEF PagingFill, Mapping
    <3>2. entry \in Int /\ entry >= 0 /\ entry' \in -1 .. Pages /\ entry # Pages
      BY <2>0, <3>1 DEF Page
    <3>3. /\ DOMAIN ptab' = Page
          /\ \A p \in Page : ptab'[p] = IF p = entry THEN Mapping(p) ELSE ptab[p]
      BY <3>1, <3>2 DEF PagedInv, TableInv
    <3>4. \A p \in Page : p < entry' => ptab'[p] = Mapping(p)
      BY <2>0, <3>1, <3>2, <3>3 DEF PagedInv, TableInv, Page
    <3> QED
      BY <3>1, <3>2, <3>3, <3>4 DEF PagedInv, TableInv
  <2>3. CASE PagingWire
    BY <2>0, <2>3 DEF PagingWire, PagedInv, TableInv
  <2>4. CASE PagingEnable
    BY <2>4 DEF PagingEnable, PagedInv, TableInv
  <2>5. CASE HeapStep
    BY <2>5 DEF HeapStep, pagingVars, PagedInv, TableInv
  <2>6. CASE UNCHANGED allVars
    BY <2>6 DEF allVars, pagingVars, PagedInv, TableInv
  <2> QED
    BY <2>1, <2>2, <2>3, <2>4, <2>5, <2>6 DEF PagedNext, PagingInit
<1> QED
  BY <1>1, <1>2, <1>3 DEF PagedInv

\* The heap's units lie in its pages, which are those between the guards.
LEMMA HeapBetweenGuards ==
    ASSUME NEW a \in Addr
    PROVE  PageOf(a) \in HeapPage .. HeapEnd - 1
<1> DEFINE k == HeapSize \div PageSize
           q == a \div PageSize
<1>1. PageSize \in Nat \ {0} /\ HeapPage \in Nat /\ HeapSize \in Nat /\ a \in 0 .. HeapSize - 1
      /\ HeapSize % PageSize = 0
  BY MemoryLayout, HeapConstants DEF Addr
<1>2. k \in Int /\ HeapSize = PageSize * k + 0
  BY <1>1, DivMod
<1>3. q \in Int /\ a = PageSize * q + (a % PageSize) /\ a % PageSize \in 0 .. PageSize - 1
  BY <1>1, DivMod, ModRange
<1>4. PageOf(a) = HeapPage + q /\ HeapEnd = HeapPage + k
  BY DEF PageOf, HeapEnd
<1> HIDE DEF k, q
<1>5. q < k
  <2>1. SUFFICES ASSUME q >= k PROVE FALSE
    BY <1>2, <1>3
  <2>2. PageSize * q >= PageSize * k
    BY <1>1, <1>2, <1>3, <2>1
  <2>3. PageSize * q \in Int /\ PageSize * k \in Int
    BY <1>1, <1>2, <1>3
  <2> DEFINE x == PageSize * q
             y == PageSize * k
  <2>4. x \in Int /\ y \in Int /\ x >= y /\ HeapSize = y /\ a = x + (a % PageSize)
    BY <1>2, <1>3, <2>2, <2>3
  <2> HIDE DEF x, y
  <2> QED
    BY <1>1, <1>3, <2>4
<1>6. q >= 0
  <2>1. SUFFICES ASSUME q <= -1 PROVE FALSE
    BY <1>3
  <2>2. PageSize * q <= -PageSize
    BY <1>1, <1>3, <2>1
  <2> DEFINE x == PageSize * q
  <2>3. x \in Int /\ x <= -PageSize /\ a = x + (a % PageSize)
    BY <1>1, <1>3, <2>2
  <2> HIDE DEF x
  <2> QED
    BY <1>1, <1>3, <2>3
<1> QED
  BY <1>1, <1>2, <1>3, <1>4, <1>5, <1>6

\* The guards are entries of the table.
LEMMA GuardsInTable ==
    /\ GuardLo \in Page /\ GuardHi \in Page
    /\ HeapPage \in Nat /\ HeapEnd \in Nat /\ HeapPage < HeapEnd
    /\ PageOf(0) = HeapPage /\ PageOf(HeapSize) = HeapEnd
<1>1. PageSize \in Nat \ {0} /\ HeapPage \in Nat \ {0} /\ Pages \in Nat /\ HeapEnd < Pages
      /\ HeapSize \in Nat /\ 0 \in Addr
  BY MemoryLayout, HeapConstants DEF Addr
<1>2. PageOf(0) \in HeapPage .. HeapEnd - 1
  BY <1>1, HeapBetweenGuards
<1>3. HeapSize \div PageSize \in Int
  BY <1>1, DivMod
<1>4. HeapEnd \in Int
  BY <1>1, <1>3 DEF HeapEnd
<1>5. PageOf(0) = HeapPage
  BY <1>1 DEF PageOf
<1> QED
  BY <1>1, <1>2, <1>4, <1>5 DEF GuardLo, GuardHi, Page, PageOf, HeapEnd

LEMMA GuardsWork == PagedInv => PagingGuardsHeap
<1> SUFFICES ASSUME PagedInv, cr0 = "on" PROVE PagingGuardsHeap
  BY DEF PagingGuardsHeap, MemoryReachable, OverrunTraps
<1>1. pdir /\ \A p \in Page : ptab[p] = Mapping(p)
  <2>1. Pages \in Nat
    BY MemoryLayout
  <2>2. pdir /\ entry = Pages
    BY DEF PagedInv, TableInv
  <2>3. \A p \in Page : p < entry
    BY <2>1, <2>2 DEF Page
  <2> QED
    BY <2>1, <2>2, <2>3 DEF PagedInv, TableInv
<1>2. \A p \in Page \ {GuardLo, GuardHi} : Reached(p)
  <2> SUFFICES ASSUME NEW p \in Page \ {GuardLo, GuardHi} PROVE Reached(p)
    OBVIOUS
  <2>1. ptab[p].present = (p \notin {GuardLo, GuardHi}) /\ ptab[p].phys = p
    <3>1. ptab[p] = Mapping(p)
      BY <1>1
    <3> QED
      BY <3>1 DEF Mapping
  <2>2. ptab[p].present /\ ptab[p].phys = p
    BY <2>1
  <2> QED
    BY <1>1, <2>2 DEF Reached
<1>3. Faults(GuardLo) /\ Faults(GuardHi)
  <2>1. ASSUME NEW p \in {GuardLo, GuardHi} PROVE Faults(p)
    <3>1. p \in Page
      BY GuardsInTable
    <3>2. ptab[p].present = (p \notin {GuardLo, GuardHi})
      <4>1. ptab[p] = Mapping(p)
        BY <1>1, <3>1
      <4> QED
        BY <4>1 DEF Mapping
    <3> QED
      BY <3>2 DEF Faults
  <2> QED
    BY <2>1
<1>4. Listed(heap, blocks)
  BY DEF PagedInv, AllocInv, ListInv
<1>5. ASSUME NEW b \in blocks, NEW p \in PageOf(b) .. PageOf(End(b) - 1) PROVE Reached(p)
  <2>1. b \in Addr /\ End(b) - 1 \in Addr
    <3>1. b \in Addr /\ b < EndOf(heap, b) /\ EndOf(heap, b) <= HeapSize /\ EndOf(heap, b) \in Int
      BY <1>4, BlockFacts
    <3>2. End(b) = EndOf(heap, b)
      BY DEF End, EndOf
    <3> QED
      BY <3>1, <3>2, HeapConstants DEF Addr
  <2>2. PageOf(b) \in HeapPage .. HeapEnd - 1 /\ PageOf(End(b) - 1) \in HeapPage .. HeapEnd - 1
    BY <2>1, HeapBetweenGuards
  <2>3. p \in HeapPage .. HeapEnd - 1
    BY <2>2, GuardsInTable
  <2>4. p \in Page \ {GuardLo, GuardHi}
    BY <2>3, GuardsInTable, MemoryLayout DEF Page, GuardLo, GuardHi
  <2> QED
    BY <1>2, <2>4
<1>6. \A p \in UsedPages : Reached(p)
  BY <1>2, MemoryLayout DEF GuardLo, GuardHi
<1>7. ASSUME NEW b \in blocks
      PROVE  /\ heap.next[b] = NULL => Faults(PageOf(End(b)))
             /\ heap.prev[b] = NULL => Faults(PageOf(b) - 1)
  <2>1. heap.next[b] = NULL => End(b) = HeapSize
    <3>1. EndOf(heap, b) # NULL /\ End(b) = EndOf(heap, b)
      BY <1>4, BlockFacts, HeapConstants DEF End, EndOf, Addr, NULL
    <3>2. heap.next[b] = IF EndOf(heap, b) = HeapSize THEN NULL ELSE EndOf(heap, b)
      BY <1>4 DEF Listed
    <3> QED
      BY <3>1, <3>2
  <2>2. heap.prev[b] = NULL => b = 0
    <3>1. b # 0 => heap.prev[b] \in Addr
      BY <1>4 DEF Listed
    <3> QED
      BY <3>1, HeapConstants DEF Addr, NULL
  <2> QED
    BY <1>3, <2>1, <2>2, GuardsInTable DEF GuardLo, GuardHi
<1> QED
  BY <1>5, <1>6, <1>7 DEF PagingGuardsHeap, MemoryReachable, OverrunTraps

-----------------------------------------------------------------------------
\* The invariant holds throughout.
LEMMA PagedInvariant == PagedSpec => []PagedInv
<1>1. PagedInv /\ [PagedNext]_allVars => PagedInv'
  BY PagedStep
<1> QED
  BY BootPaged, <1>1, PTL DEF PagedSpec

\* Any sequence of calls of kmalloc and kfree leaves a list whose blocks tile
\* the heap, with no two free neighbours (memory.c: kmalloc's split, kfree's
\* joins), for every heap, header and alignment.
THEOREM ListIsWhole == PagedSpec => []HeapInv
<1>1. PagedInv => HeapInv
  BY AllocInvImplies DEF PagedInv
<1> QED
  BY PagedInvariant, <1>1, PTL

\* kmalloc passes no block over that fits, and memory_stats accounts for every
\* byte of the heap.
THEOREM WalksSeeEveryBlock == PagedSpec => []WalkInv
<1>1. PagedInv => WalkInv
  BY AllocInvImplies DEF PagedInv
<1> QED
  BY PagedInvariant, <1>1, PTL

\* A block kmalloc returns holds the request, but for the requests that rounding
\* up wraps to 0.
THEOREM RequestIsHeld == PagedSpec => ResultHoldsRequest
<1>1. PagedInv /\ [PagedNext]_allVars =>
          [(pc = "kmalloc" /\ pc' = "idle" /\ cur # NULL) =>
              IF Wraps(asked) THEN heap'.size[cur] < HdrSize + MinSplit
                              ELSE heap'.size[cur] >= asked]_vars
  BY PagedStep, ResultStep DEF PagedInv
<1> QED
  BY PagedInvariant, <1>1, PTL DEF PagedSpec, ResultHoldsRequest

\* Wherever blocks lie, paging maps all of them and the kernel, and faults on
\* either side of the heap (paging.c: paging_init).
THEOREM PagesGuardHeap == PagedSpec => []PagingGuardsHeap
  BY PagedInvariant, GuardsWork, PTL
=============================================================================
