------------------------------- MODULE Fat12 -------------------------------
(***************************************************************************)
(* env/fat12.c over adapters/ata.c: one-cluster files in the root          *)
(* directory of a FAT12 volume.  fat12_write_file changes the disk sector  *)
(* by sector (the data, the directory entry, then each sector of both      *)
(* FATs), and after any of them a write may fail or the power may go.      *)
(*                                                                         *)
(* A sector write is atomic; one that is reported as failed (a timeout of  *)
(* ata_write_sectors) may have reached the disk or not, and so may one     *)
(* that is reported as done: the driver does not look at the error bits,   *)
(* and the drive may ignore its command to flush the cache (Ata has both). *)
(* A sector read that succeeds is right, which Ata shows, but for a call   *)
(* after one that timed out.  The FATs are bytes, with two 12-bit entries  *)
(* in three of them: neighbours share a byte, and an entry may lie on the  *)
(* border of two sectors.  The driver never follows a chain, but the files *)
(* of the host may have one, AIOS.ENV too, of which the driver reads and   *)
(* writes the first cluster.                                               *)
(* The only file the kernel writes is AIOS.ENV, so a directory entry is    *)
(* that file's ("env"), "end" (0x00), "deleted" (0xE5), or "other": any    *)
(* entry the scan passes over.  AIOS.ENV, where it exists, has a cluster:  *)
(* a host may also leave it empty with cluster 0, which cluster_to_lba     *)
(* maps into the root directory.                                           *)
(* The disk need not hold a volume: fat12_init does not look at sector 0,  *)
(* and takes whatever lies in the sectors of the FAT and the directory for *)
(* what it expects there.                                                  *)
(***************************************************************************)
EXTENDS Integers, Sequences, FiniteSetsExt, Functions

CONSTANTS EntryCount,   \* ROOT_ENTRY_COUNT
          LastCluster,  \* data clusters are 2 .. LastCluster
          FatSectors,   \* FAT_SIZE_SECTORS
          FatBytes,     \* BYTES_PER_SECTOR, for the FATs
          SectorSize,   \* BYTES_PER_SECTOR, for files, and the size of env.c's buffers
          MaxLost,      \* bound on the writes the drive loses
          Disks         \* the disks the kernel may find: root, fat and data; whether
                        \* there is a volume; chain, the clusters of AIOS.ENV there

Entry   == 0 .. EntryCount - 1
Cluster == 2 .. LastCluster
Copies  == 1 .. 2
FatByte == 0 .. FatSectors * FatBytes - 1

ASSUME FatConstants ==
    /\ EntryCount \in Nat \ {0} /\ LastCluster \in Nat /\ FatSectors \in Nat \ {0}
    /\ FatBytes \in Nat \ {0} /\ SectorSize \in Nat \ {0} /\ MaxLost \in Nat

DirEntry == [kind : {"env", "other", "deleted", "end"}, cluster : Nat, size : Nat]
Byte     == 0 .. 255
Table    == [FatByte -> Byte]

VARIABLES root, fat, data,      \* the disk
          s_fat, s_fat_loaded,  \* the FAT cache (s_fat_buf)
          w,                    \* the locals of fat12_write_file
          written,              \* what it returned last
          lost,                 \* history: how many writes reported as done were not
          host                 \* history: the disk as the host left it

diskVars == <<root, fat, data>>
fatVars  == <<diskVars, s_fat, s_fat_loaded, w, written, lost, host>>

NotWriting == [pc |-> "idle", entry |-> 0, cluster |-> 0, content |-> <<>>, size |-> 0,
               copy |-> 1, sector |-> 1]

\* The static buffer at boot.
Zeroed == [b \in FatByte |-> 0]

FatInit ==
    /\ host \in Disks
    /\ root = host.root /\ fat = host.fat /\ data = host.data
    /\ s_fat = Zeroed /\ s_fat_loaded = FALSE
    /\ w = NotWriting
    /\ written = 0
    /\ lost = 0

-----------------------------------------------------------------------------
\* The walk over the root directory stops at the first "end" entry.
Visible == {e \in Entry : \A d \in 0 .. e : root[d].kind # "end"}
Match   == {e \in Visible : root[e].kind = "env"}

\* "this slot and beyond are free": a deleted entry, or the first "end".
FreeEntries == {e \in Entry : /\ root[e].kind \in {"deleted", "end"}
                              /\ \A d \in 0 .. e - 1 : d \in Visible}

\* The entry of cluster c is in this byte of the FAT and the next one.
Offset(c) == c + c \div 2

\* fat12_next_cluster()
NextCluster(buf, c) ==
    LET o     == Offset(c)
        entry == buf[o] + 256 * buf[o + 1]
    IN IF o + 1 \notin FatByte THEN 4095
       ELSE IF c % 2 = 1 THEN entry \div 16 ELSE entry % 4096

SetClusterUnmasked(buf, c, value) ==
    LET o == Offset(c)
    IN IF c % 2 = 1 THEN [buf EXCEPT ![o] = (16 * value) % 256, ![o + 1] = value \div 16]
       ELSE [buf EXCEPT ![o] = value % 256, ![o + 1] = value \div 256]

\* fat12_set_cluster(): the half of a byte that belongs to the neighbour stays.
SetCluster(buf, c, value) ==
    LET o == Offset(c)
    IN IF o + 1 \notin FatByte THEN buf
       ELSE IF c % 2 = 1
       THEN [buf EXCEPT ![o] = (@ % 16) + ((16 * value) % 256), ![o + 1] = value \div 16]
       ELSE [buf EXCEPT ![o] = value % 256, ![o + 1] = (16 * (@ \div 16)) + (value \div 256)]

\* Any bytes will do for a disk; those of AIOS.ENV's entry name a cluster.
ASSUME DisksAreBytes ==
    \A d \in Disks :
        /\ d.root \in [Entry -> DirEntry] /\ d.fat \in [Copies -> Table]
        /\ \A e \in Entry : d.root[e].kind = "env" => d.root[e].cluster \in Cluster
        /\ d.chain \in Seq(Cluster) /\ d.volume \in BOOLEAN

\* A volume as a host leaves it: the FATs are equal, AIOS.ENV is the chain from
\* its entry's cluster to an end mark, and the clusters of the other entries
\* are in use and none of its own.
Sound(d) ==
    LET next(c) == NextCluster(d.fat[1], c)
    IN /\ d.fat[1] = d.fat[2]
       /\ d.chain # <<>> <=> \E e \in Entry : d.root[e].kind = "env"
       /\ \A e \in Entry : d.root[e].kind = "env" => d.root[e].cluster = d.chain[1]
       /\ \A i \in DOMAIN d.chain : IF i = Len(d.chain) THEN next(d.chain[i]) >= 4088
                                    ELSE next(d.chain[i]) = d.chain[i + 1]
       /\ \A e \in Entry : (d.root[e].kind = "other" /\ d.root[e].cluster \in Cluster) =>
              next(d.root[e].cluster) # 0 /\ d.root[e].cluster \notin Range(d.chain)

ASSUME VolumesAreSound == \A d \in Disks : d.volume => Sound(d)

\* What is not AIOS.ENV's: the marked clusters of files of any length, of
\* directories below the root, and the bad ones.
Theirs == {c \in Cluster : NextCluster(host.fat[1], c) # 0} \ Range(host.chain)

\* The clusters of AIOS.ENV after its first.
Rest == {host.chain[i] : i \in 2 .. Len(host.chain)}

\* The candidates of fat12_alloc_cluster(), which takes the first.
FreeClusters == {c \in Cluster : NextCluster(s_fat, c) = 0}

\* fat12_read_file: the sector and how much of it is the file.
ReadFile == LET e == root[Min(Match)] IN [content |-> data[e.cluster], size |-> e.size]

\* fat12_init(), after ata_init(): the cache is FAT1.
Mount == /\ s_fat' = fat[1]
         /\ s_fat_loaded' = TRUE

\* ata_init() finds no drive or fat12_init() cannot read FAT1.
MountFails == /\ s_fat' = s_fat
              /\ s_fat_loaded' = FALSE

-----------------------------------------------------------------------------
\* fat12_write_file().  Phases 1 and 2 only read the disk: an existing entry
\* keeps its cluster, a new one takes the first free cluster.
Found == Match # {}

WriteBegin(c, n) ==
    /\ w.pc = "idle"
    /\ s_fat_loaded
    /\ Found \/ (FreeEntries # {} /\ FreeClusters # {})
    /\ LET e  == IF Found THEN Min(Match) ELSE Min(FreeEntries)
           cl == IF Found THEN root[e].cluster ELSE Min(FreeClusters)
       IN /\ w' = [NotWriting EXCEPT !.pc = "data", !.entry = e, !.cluster = cl,
                                     !.content = c, !.size = n]
          /\ s_fat' = SetCluster(s_fat, cl, 4095)
    /\ UNCHANGED <<diskVars, s_fat_loaded, written, lost, host>>

\* No volume, a full directory, a full disk, or a failed read of the directory.
WriteRefused ==
    /\ w.pc = "idle"
    /\ written' = -1
    /\ UNCHANGED <<diskVars, s_fat, s_fat_loaded, w, lost, host>>

\* ata_write_sectors: reported as done or as failed, and done or not.
Outcome == [ok : BOOLEAN, done : BOOLEAN]

FlushPhaseFirst(p) == CASE p = "data" -> "flush" [] p = "flush" -> "entry" [] p = "entry" -> "idle"

PhaseAfter(p) == CASE p = "data" -> "entry" [] p = "entry" -> "flush" [] p = "flush" -> "idle"

\* The next phase after success; the end of the call after the last one, or
\* at the first error, with nothing undone.
Proceed(ok, next) ==
    IF ok /\ next # "idle"
    THEN w' = [w EXCEPT !.pc = next] /\ written' = written
    ELSE w' = NotWriting /\ written' = IF ok THEN w.size ELSE -1

NewSectorUnzeroed == LET old == data[w.cluster]
                     IN w.content \o SubSeq(old, Len(w.content) + 1, Len(old))

\* The text, and zeroes up to the end of the sector.
NewSector == w.content

WriteData(o) ==
    /\ w.pc = "data"
    /\ data' = IF o.done THEN [data EXCEPT ![w.cluster] = NewSector] ELSE data
    /\ Proceed(o.ok, PhaseAfter("data"))
    /\ UNCHANGED <<root, fat, s_fat, s_fat_loaded>>

\* The sector of the entry is read again, changed and written.
WriteEntry(o) ==
    /\ w.pc = "entry"
    /\ root' = IF o.done
               THEN [root EXCEPT ![w.entry] =
                        [kind |-> "env", cluster |-> w.cluster, size |-> w.size]]
               ELSE root
    /\ Proceed(o.ok, PhaseAfter("entry"))
    /\ UNCHANGED <<fat, data, s_fat, s_fat_loaded>>

FlushOneCopy == w.sector = FatSectors

FlushDone == w.sector = FatSectors /\ w.copy = 2

\* fat12_flush_fat(): FAT1 then FAT2, each sector from the cache.
FlushFat(o) ==
    /\ w.pc = "flush"
    /\ fat' = IF o.done
              THEN [fat EXCEPT ![w.copy] = [b \in FatByte |->
                       IF b \div FatBytes = w.sector - 1 THEN s_fat[b] ELSE fat[w.copy][b]]]
              ELSE fat
    /\ IF o.ok /\ ~FlushDone
       THEN /\ w' = IF w.sector < FatSectors THEN [w EXCEPT !.sector = @ + 1]
                                             ELSE [w EXCEPT !.sector = 1, !.copy = @ + 1]
            /\ written' = written
       ELSE Proceed(o.ok, PhaseAfter("flush"))
    /\ UNCHANGED <<root, data, s_fat, s_fat_loaded>>

WriteStep == \E o \in Outcome :
                /\ WriteData(o) \/ WriteEntry(o) \/ FlushFat(o)
                /\ IF o.ok /\ ~o.done THEN lost < MaxLost /\ lost' = lost + 1
                                     ELSE lost' = lost
                /\ UNCHANGED host

\* The power goes: the write under way ends where it is, the cache is lost.
Forget == /\ w' = NotWriting
          /\ s_fat' = Zeroed /\ s_fat_loaded' = FALSE
          /\ UNCHANGED <<diskVars, lost, host>>

-----------------------------------------------------------------------------
\* On a volume no other file is ever harmed: whatever writes fail, reported or
\* not, and wherever the power goes, the entries of other files, their clusters
\* and their marks in both FATs are as the host left them, although every save
\* rewrites both FATs whole from a cache, and a mark shares a byte with its
\* neighbours.
OthersUntouched ==
    host.volume =>
        /\ \A e \in Entry : host.root[e].kind = "other" => root[e] = host.root[e]
        /\ \A c \in Theirs :
              /\ data[c] = host.data[c]
              /\ \A f \in Copies : NextCluster(fat[f], c) = NextCluster(host.fat[1], c)

\* The entry is written before the FATs, so an interrupted write may leave an
\* entry whose cluster is marked free, but never a marked cluster that no
\* entry leads to, not even a mark of which one sector only was written: no
\* disk space is lost on a volume, while the drive does what it says.  The
\* exception is named: the rest of an AIOS.ENV of several clusters, which
\* fat12_write_file cuts off with its end mark and does not free: no entry and
\* no cluster leads to them any more.
NoLeak == (host.volume /\ lost = 0) =>
              \A f \in Copies, c \in Cluster : NextCluster(fat[f], c) # 0 =>
                  \/ c \in Theirs \cup Rest
                  \/ \E e \in Entry : root[e].kind = "env" /\ root[e].cluster = c

\* fat12.h: fat12_init "reads the BPB from sector 0", and kernel_main reports
\* "FAT12 mount skipped (no FAT12 volume)": a disk that holds no volume is not
\* written.
ForeignDiskUntouched ==
    ~host.volume => root = host.root /\ fat = host.fat /\ data = host.data
=============================================================================
