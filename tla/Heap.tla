-------------------------------- MODULE Heap --------------------------------
(***************************************************************************)
(* kernel/memory.c: the first-fit allocator.  Block headers lie in the     *)
(* heap itself, in front of their payloads, linked in both directions; an  *)
(* address is an offset from HEAP_START and NULL is -1.  Sizes are counted *)
(* in one unit, so that HdrSize, Align and MinSplit keep their real        *)
(* proportions (20, 8 and 8 bytes).  Sizes are unsigned numbers of WordMod *)
(* values; the Align - 1 largest requests wrap to 0 when they are rounded  *)
(* up, and kmalloc answers them with an empty block.                       *)
(*                                                                         *)
(* The list is walked block by block, as the loops of kmalloc and          *)
(* memory_stats do.  The payload bytes are left out.                       *)
(***************************************************************************)
EXTENDS Integers, FiniteSets

CONSTANTS HeapSize,   \* HEAP_SIZE
          HdrSize,    \* sizeof(block_hdr_t)
          Align,      \* allocations are rounded up to a multiple of it
          MinSplit,   \* the least payload a split may leave
          WordMod,    \* size_t counts modulo 2^32
          Requests    \* the sizes kmalloc is called with

ASSUME HeapConstants ==
    /\ HeapSize \in Nat /\ HdrSize \in Nat \ {0} /\ HeapSize >= HdrSize
    /\ Align \in Nat \ {0} /\ MinSplit \in Nat
    /\ WordMod \in Nat /\ WordMod > HeapSize + HdrSize + MinSplit
    /\ Requests \subseteq 0 .. WordMod - 1

NULL == -1
Addr == 0 .. HeapSize - 1

VARIABLES heap,      \* the headers: size, used, next and prev at each address
          pc,        \* the call in progress: "idle", "kmalloc" or "stats"
          cur,       \* its list cursor
          want,      \* kmalloc's argument, rounded up
          asked,     \* history: kmalloc's argument
          blocks,    \* history: the addresses of the headers in the list
          stats      \* what memory_stats has added up

callVars == <<pc, cur, want, asked>>
vars     == <<heap, callVars, blocks, stats>>

\* memory_init(): one free block covers the heap.
Init ==
    /\ heap = [size |-> [a \in Addr |-> IF a = 0 THEN HeapSize - HdrSize ELSE 0],
               used |-> [a \in Addr |-> FALSE],
               next |-> [a \in Addr |-> NULL],
               prev |-> [a \in Addr |-> NULL]]
    /\ pc = "idle" /\ cur = NULL /\ want = 0 /\ asked = 0
    /\ blocks = {0}
    /\ stats = [used |-> 0, free |-> 0, headers |-> 0]

-----------------------------------------------------------------------------
RoundDown(n) == n - (n % Align)

\* (size + 7) & ~7, in size_t.
RoundUp(n) == LET sum == (n + Align - 1) % WordMod IN sum - (sum % Align)

\* kmalloc(0) returns NULL at once.
Kmalloc(n) ==
    /\ pc = "idle"
    /\ n # 0
    /\ pc' = "kmalloc" /\ cur' = 0
    /\ want' = RoundUp(n) /\ asked' = n
    /\ UNCHANGED <<heap, blocks, stats>>

Fits(b) == ~heap.used[b] /\ heap.size[b] >= want

KmallocSkipBlindly ==
    /\ pc = "kmalloc" /\ cur # NULL
    /\ cur' = heap.next[cur]
    /\ UNCHANGED <<heap, pc, want, asked, blocks, stats>>

KmallocSkip ==
    /\ pc = "kmalloc" /\ cur # NULL
    /\ ~Fits(cur)
    /\ cur' = heap.next[cur]
    /\ UNCHANGED <<heap, pc, want, asked, blocks, stats>>

Splits(b) == heap.size[b] >= want + HdrSize + MinSplit

\* The headers once block b is cut after want units of payload.
Split(b) ==
    LET rest  == b + HdrSize + want
        after == heap.next[b]
    IN [size |-> [heap.size EXCEPT ![rest] = heap.size[b] - want - HdrSize, ![b] = want],
        used |-> [heap.used EXCEPT ![rest] = FALSE, ![b] = TRUE],
        next |-> [heap.next EXCEPT ![rest] = after, ![b] = rest],
        prev |-> [a \in Addr |-> IF a = rest THEN b
                                 ELSE IF a = after THEN rest
                                 ELSE heap.prev[a]]]

KmallocTake ==
    /\ pc = "kmalloc" /\ cur # NULL
    /\ Fits(cur)
    /\ IF Splits(cur)
       THEN /\ heap' = Split(cur)
            /\ blocks' = blocks \cup {cur + HdrSize + want}
       ELSE /\ heap' = [heap EXCEPT !.used[cur] = TRUE]
            /\ blocks' = blocks
    /\ pc' = "idle" /\ cur' = NULL /\ want' = 0 /\ asked' = 0
    /\ UNCHANGED stats

KmallocFail ==
    /\ pc = "kmalloc" /\ cur = NULL
    /\ pc' = "idle" /\ want' = 0 /\ asked' = 0
    /\ UNCHANGED <<heap, cur, blocks, stats>>

-----------------------------------------------------------------------------
\* kfree(), on headers hp: the block is marked, then joined with the free
\* block after it, then with the free block before it.
MarkFree(hp, b) == [hp EXCEPT !.used[b] = FALSE]

JoinsNext(hp, b) == hp.next[b] # NULL /\ ~hp.used[hp.next[b]]
JoinsPrev(hp, b) == hp.prev[b] # NULL /\ ~hp.used[hp.prev[b]]

\* Block b swallows its successor n.  A header that has left the list is
\* dead memory: it is blanked here, so that it does not tell states apart.
Absorb(hp, b, n) ==
    LET after == hp.next[n] IN
    [size |-> [hp.size EXCEPT ![b] = @ + HdrSize + hp.size[n], ![n] = 0],
     used |-> hp.used,
     next |-> [hp.next EXCEPT ![b] = after, ![n] = NULL],
     prev |-> [a \in Addr |-> IF a = after THEN b
                              ELSE IF a = n THEN NULL
                              ELSE hp.prev[a]]]

AfterNext(b) == LET hp == MarkFree(heap, b) IN
                IF JoinsNext(hp, b) THEN Absorb(hp, b, hp.next[b]) ELSE hp

FreeForgetsPrev(b) == AfterNext(b)

AfterFree(b) == LET hp == AfterNext(b) IN
                IF JoinsPrev(hp, b) THEN Absorb(hp, hp.prev[b], b) ELSE hp

\* The list after the headers that were absorbed have left it.
LeftInList(b) == LET hp == AfterNext(b) IN
    blocks \ ((IF JoinsNext(MarkFree(heap, b), b) THEN {heap.next[b]} ELSE {})
              \cup (IF JoinsPrev(hp, b) THEN {b} ELSE {}))

\* A caller frees what it was given, and frees it once: with a pointer freed
\* before, the magic number of an absorbed header still passes kfree's test.
Kfree(b) ==
    /\ pc = "idle"
    /\ b \in blocks /\ heap.used[b]
    /\ heap' = AfterFree(b)
    /\ blocks' = LeftInList(b)
    /\ UNCHANGED <<callVars, stats>>

-----------------------------------------------------------------------------
\* memory_stats() walks the whole list.
MemoryStats ==
    /\ pc = "idle"
    /\ pc' = "stats" /\ cur' = 0
    /\ UNCHANGED <<heap, want, asked, blocks, stats>>

StatsStep ==
    /\ pc = "stats" /\ cur # NULL
    /\ stats' = [used    |-> stats.used + (IF heap.used[cur] THEN heap.size[cur] ELSE 0),
                 free    |-> stats.free + (IF heap.used[cur] THEN 0 ELSE heap.size[cur]),
                 headers |-> stats.headers + 1]
    /\ cur' = heap.next[cur]
    /\ UNCHANGED <<heap, pc, want, asked, blocks>>

StatsReturn ==
    /\ pc = "stats" /\ cur = NULL
    /\ pc' = "idle"
    /\ stats' = [used |-> 0, free |-> 0, headers |-> 0]
    /\ UNCHANGED <<heap, cur, want, asked, blocks>>

Walk == KmallocSkip \/ KmallocTake \/ KmallocFail \/ StatsStep \/ StatsReturn

Next == \/ \E n \in Requests : Kmalloc(n)
        \/ \E b \in Addr : Kfree(b)
        \/ MemoryStats
        \/ Walk

Spec == Init /\ [][Next]_vars

-----------------------------------------------------------------------------
\* Every variable stays in its range.
TypeOK ==
    /\ heap \in [size : [Addr -> 0 .. HeapSize], used : [Addr -> BOOLEAN],
                 next : [Addr -> Addr \cup {NULL}], prev : [Addr -> Addr \cup {NULL}]]
    /\ pc \in {"idle", "kmalloc", "stats"}
    /\ cur \in blocks \cup {NULL}
    /\ want \in 0 .. WordMod - 1 /\ asked \in 0 .. WordMod - 1
    /\ blocks \subseteq Addr
    /\ stats \in [used : Int, free : Int, headers : Int]

\* Where block b ends.
End(b) == b + HdrSize + heap.size[b]

\* The blocks in the list, headers and payloads, lie one after the other and
\* fill the heap: the next pointer of each leads to where it ends, the prev
\* pointer back, and the last one ends with the heap.  So no two allocations
\* overlap, and no memory is lost between blocks.
Tiled ==
    /\ 0 \in blocks /\ heap.prev[0] = NULL
    /\ \A b \in blocks :
          /\ End(b) <= HeapSize
          /\ heap.next[b] = IF End(b) = HeapSize THEN NULL ELSE End(b)
          /\ heap.next[b] # NULL => heap.next[b] \in blocks /\ heap.prev[heap.next[b]] = b
    /\ \A b, c \in blocks : b < c => End(b) <= c

\* kfree joins what it can: two free blocks are never neighbours, so a request
\* fails only when no run of free memory is large enough for it.
Coalesced == \A b \in blocks : (~heap.used[b] /\ heap.next[b] # NULL)
                                   => heap.used[heap.next[b]]

\* The list is whole after every call of kmalloc and kfree, in any order.
HeapInv == TypeOK /\ Tiled /\ Coalesced

\* memory_stats accounts for every unit of the heap.
StatsAddUp == (pc = "stats" /\ cur = NULL) =>
                  stats.used + stats.free + stats.headers * HdrSize = HeapSize

\* First fit: what kmalloc has passed over was used or too small, so it takes
\* the first block that fits and reports out of memory only when none does.
PassedOver == pc = "kmalloc" =>
                  \A b \in blocks : (cur = NULL \/ b < cur) => ~Fits(b)

\* A walk of the list sees every block it should.
WalkInv == StatsAddUp /\ PassedOver

\* The requests whose rounding up does not fit a size_t.
Wraps(n) == n > WordMod - Align

\* memory.c: NULL means "Out of memory"; so anything else is a block of at
\* least the size asked for.  The only requests answered with less are those
\* that rounding up wraps to 0: they get an empty block and never more.
ResultHoldsRequest ==
    [][(pc = "kmalloc" /\ pc' = "idle" /\ cur # NULL) =>
          IF Wraps(asked) THEN heap'.size[cur] < HdrSize + MinSplit
                          ELSE heap'.size[cur] >= asked]_vars
=============================================================================
