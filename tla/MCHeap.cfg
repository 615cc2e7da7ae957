CONSTANTS
    HeapSize = 40
    HdrSize = 5
    Align = 2
    MinSplit = 2
    WordMod = 128
    Requests = {0, 1, 3, 4, 9, 60, 127}
    PageSize = 8
    Pages = 12
    HeapPage = 4
    TablePages = {9, 10}
    UsedPages = {0, 1, 2}
SPECIFICATION PagedSpec
INVARIANTS
    HeapInv
    WalkInv
    PagingGuardsHeap
PROPERTIES
    ResultHoldsRequest
