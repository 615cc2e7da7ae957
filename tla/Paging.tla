------------------------------- MODULE Paging -------------------------------
(***************************************************************************)
(* kernel/paging.c together with the heap it guards: kernel_main calls     *)
(* memory_init, then paging_init, and only then can anything allocate.     *)
(* One page table maps the first pages of memory onto themselves, except   *)
(* for a guard page on either side of the heap.  Memory is counted in      *)
(* Heap's units, and a page is one entry of the table.                     *)
(*                                                                         *)
(* The page directory lies in the page above the heap, which is also the   *)
(* upper guard page: the CPU finds it by its physical address, and nobody  *)
(* can reach it by a virtual one once paging is on.                        *)
(***************************************************************************)
EXTENDS Heap

CONSTANTS PageSize,    \* PAGE_SIZE
          Pages,       \* PAGES_4M, the entries of the page table
          HeapPage,    \* the page of HEAP_START
          TablePages,  \* the pages of PDIR_ADDR and PTAB_ADDR
          UsedPages    \* the kernel image, its stack and the VGA buffer

Page       == 0 .. Pages - 1
PageOf(a)  == HeapPage + a \div PageSize      \* of the heap's unit a
HeapPages  == {PageOf(a) : a \in Addr}
HeapEnd    == HeapPage + HeapSize \div PageSize

\* HEAP_START, HEAP_SIZE, PDIR_ADDR and PTAB_ADDR are literals of two files
\* that have to fit each other.
ASSUME MemoryLayout ==
    /\ PageSize \in Nat \ {0} /\ HeapSize % PageSize = 0
    /\ HeapPage \in Nat \ {0} /\ Pages \in Nat /\ HeapEnd < Pages
    /\ (HeapPages \cup {HeapPage - 1, HeapEnd}) \cap UsedPages = {}
    /\ TablePages \cap (HeapPages \cup UsedPages) = {}
    /\ TablePages \cup UsedPages \subseteq Page

VARIABLES ptab,   \* page table 0
          pdir,   \* the entry 0 of the page directory refers to it
          entry,  \* the loop index of paging_init
          cr0     \* paging is "off", or "on" (CR0.PG)

pagingVars == <<ptab, pdir, entry, cr0>>
allVars    == <<vars, pagingVars>>

\* After memory_init(); the tables' memory holds anything: here, nothing that
\* makes a difference before they are cleared.
BootInit ==
    /\ Init
    /\ ptab = <<>> /\ pdir = FALSE /\ entry = -1
    /\ cr0 = "off"

\* paging_init(): both tables are cleared, ...
PagingClear ==
    /\ cr0 = "off" /\ entry = -1
    /\ ptab' = [p \in Page |-> [phys |-> 0, present |-> FALSE]]
    /\ pdir' = FALSE
    /\ entry' = 0
    /\ UNCHANGED <<vars, cr0>>

GuardHiInside == HeapEnd - 1

\* HEAP_GUARD_LO and HEAP_GUARD_HI
GuardLo == HeapPage - 1
GuardHi == HeapEnd

\* ... the table is filled, the guards without PTE_PRESENT, ...
PagingFill ==
    /\ cr0 = "off" /\ entry \in Page
    /\ ptab' = [ptab EXCEPT ![entry] = [phys |-> entry, present |-> entry \notin {GuardLo, GuardHi}]]
    /\ entry' = entry + 1
    /\ UNCHANGED <<vars, pdir, cr0>>

\* ... entered in the directory, ...
PagingWire ==
    /\ cr0 = "off" /\ entry = Pages /\ ~pdir
    /\ pdir' = TRUE
    /\ UNCHANGED <<vars, ptab, entry, cr0>>

\* ... and switched on.
PagingEnable ==
    /\ cr0 = "off" /\ pdir
    /\ cr0' = "on"
    /\ UNCHANGED <<vars, ptab, pdir, entry>>

HeapStep == cr0 = "on" /\ Next /\ UNCHANGED pagingVars
PagingInit == PagingClear \/ PagingFill \/ PagingWire \/ PagingEnable

PagedNext == PagingInit \/ HeapStep

PagedSpec == BootInit /\ [][PagedNext]_allVars

-----------------------------------------------------------------------------
\* An access to virtual page p reaches the memory it means.
Reached(p) == pdir /\ ptab[p].present /\ ptab[p].phys = p

Faults(p) == ~pdir \/ ~ptab[p].present

\* paging.h: "all existing absolute addresses remain valid".  Wherever the
\* allocator puts its blocks, each unit of them, header and payload, is mapped
\* onto itself, and so are the pages the kernel runs in: no step of the kernel
\* faults because paging is on.
MemoryReachable ==
    cr0 = "on" => /\ \A b \in blocks : \A p \in PageOf(b) .. PageOf(End(b) - 1) : Reached(p)
                  /\ \A p \in UsedPages : Reached(p)

\* paging.h: "a buffer overrun or underrun triggers a #PF instead of silently
\* corrupting other data structures".  A caller that runs off the last block
\* upwards or the first one downwards faults before it reaches anything else,
\* the paging tables included.
OverrunTraps ==
    cr0 = "on" =>
        \A b \in blocks :
            /\ heap.next[b] = NULL => Faults(PageOf(End(b)))
            /\ heap.prev[b] = NULL => Faults(PageOf(b) - 1)

\* What paging_init promises the allocator, whatever kmalloc and kfree do.
PagingGuardsHeap == MemoryReachable /\ OverrunTraps
=============================================================================
