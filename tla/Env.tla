-------------------------------- MODULE Env --------------------------------
(***************************************************************************)
(* env/env.c on top of Fat12, in the life of the kernel: kernel_main sets  *)
(* the defaults up and overlays them with AIOS.ENV, the variables change,  *)
(* kernel_shutdown or kernel_panic saves them and halts, and the power is  *)
(* switched off and on again, or fails at any moment.                      *)
(*                                                                         *)
(* A value is a word and how many of its characters are kept; a file is    *)
(* the sequence of its lines KEY=VALUE with their lengths.  Keys and       *)
(* values hold neither '=' nor a newline.                                  *)
(***************************************************************************)
EXTENDS Fat12

CONSTANTS EnvMax,    \* ENV_MAX_VARS
          ValLen,    \* ENV_VAL_LEN
          Keys,      \* keys; all of length KeyLen
          KeyLen,
          Trunc,     \* what strncpy_k keeps of a key in ENV_KEY_LEN bytes
          WordLen,   \* the words and their lengths
          Defaults   \* the lines of env_init

\* A line of a file, and a variable: a value is cut when it is stored.
Line     == [key : Keys, value : [word : DOMAIN WordLen, n : Nat]]
Variable == [key : Keys, value : [word : DOMAIN WordLen, n : 0 .. ValLen - 1]]

ASSUME EnvConstants ==
    /\ EnvMax \in Nat /\ ValLen \in Nat \ {0} /\ KeyLen \in Nat
    /\ WordLen \in [DOMAIN WordLen -> Nat]
    /\ Trunc \in [Keys -> Keys] /\ \A k \in Keys : Trunc[Trunc[k]] = Trunc[k]
    /\ Defaults \in Seq(Line)
    /\ \A d \in Disks : d.data \in [Cluster -> Seq(Line)]

VARIABLES env_table,  \* the places in use: none is ever given up
          phase,      \* "off", "run", "saving", "halted"
          message,    \* what kernel_shutdown printed: "none", "saved", "skipped"
          load_ret,   \* history: the result of env_load, until the next operation
          kept,       \* history: what AIOS.ENV said before this boot's save
          trying,     \* history: the lines of this boot's save
          saved       \* history: the variables at this boot's completed save

envVars == <<env_table, phase, message, load_ret, kept, trying, saved>>
allVars == <<fatVars, envVars>>

Whole(word) == [word |-> word, n |-> WordLen[word]]
NoValue == [word |-> "", n |-> 0]
Var(k, v) == [key |-> k, value |-> v]

\* strncpy_k into ENV_VAL_LEN bytes.
Cut(v) == IF v.n > ValLen - 1 THEN [v EXCEPT !.n = ValLen - 1] ELSE v

-----------------------------------------------------------------------------
\* The stored key is the truncated one, the argument is compared whole.
Holding(t, k) == {i \in DOMAIN t : t[i].key = k}

\* env_set() on table t; -1 when full.
EnvSet(t, k, v) ==
    IF Holding(t, k) # {} THEN [t EXCEPT ![Min(Holding(t, k))].value = Cut(v)]
    ELSE IF Len(t) < EnvMax THEN Append(t, Var(Trunc[k], Cut(v)))
    ELSE t

EnvGet(t, k) == IF Holding(t, k) = {} THEN NoValue ELSE t[Min(Holding(t, k))].value

\* env_set() for the first k lines.
SetUpTo(t, lines, k) ==
    LET table[i \in 0 .. Len(lines)] ==
            IF i = 0 THEN t ELSE EnvSet(table[i - 1], lines[i].key, lines[i].value)
    IN table[k]

SetAll(t, lines) == SetUpTo(t, lines, Len(lines))

EnvInit == SetAll(<<>>, Defaults)

LineLen(line) == KeyLen + 1 + line.value.n + 1

\* The length of the first k lines.
Total(lines, k) ==
    LET sum[i \in 0 .. Len(lines)] == IF i = 0 THEN 0 ELSE sum[i - 1] + LineLen(lines[i])
    IN sum[k]

\* env_save stops at the first variable its buffer has no room for.
Serialised(t) == SubSeq(t, 1, Max({k \in 0 .. Len(t) : Total(t, k) < SectorSize}))

\* env_load asks for one byte less than its buffer holds.
Readable(n) == IF n < SectorSize - 1 THEN n ELSE SectorSize - 1

ParsedFirstLine(lines, n) ==
    IF lines # <<>> /\ Total(lines, 1) <= n THEN SubSeq(lines, 1, 1) ELSE <<>>

\* The lines env_load finds in the first n characters of a sector: the last
\* one may be cut off in its value; zeroes after the last line make none.
Parsed(lines, n) ==
    LET k    == Max({j \in 0 .. Len(lines) : Total(lines, j) <= n})
        left == n - Total(lines, k) - KeyLen - 1
    IN SubSeq(lines, 1, k) \o
       (IF k < Len(lines) /\ left >= 0
        THEN <<[lines[k + 1] EXCEPT !.value.n = IF left < @ THEN left ELSE @]>>
        ELSE <<>>)

\* What AIOS.ENV says: no file is no lines.
FileSays == IF Match = {} THEN <<>>
            ELSE Parsed(ReadFile.content, Readable(ReadFile.size))

-----------------------------------------------------------------------------
\* The history ends when the drive loses a write.
Recorded(lines) == IF lost' > 0 THEN <<>> ELSE lines

StorageInit ==
    /\ FatInit
    /\ env_table = EnvInit
    /\ phase = "off"
    /\ message = "none"
    /\ load_ret = -1
    /\ kept = FileSays /\ trying = FileSays
    /\ saved = <<>>

\* kernel_main: env_init, then the disk, if there is one, and env_load.  The
\* disk is only read; a failed read of the FAT leaves no volume, one of the
\* directory or of the file leaves the defaults.
Boot ==
    /\ phase = "off"
    /\ phase' = "run"
    /\ \/ /\ Mount
          /\ \/ /\ Match # {} /\ ReadFile.size > 0
                /\ env_table' = SetAll(EnvInit, FileSays)
                /\ load_ret' = 0
             \/ env_table' = EnvInit /\ load_ret' = -1
       \/ MountFails /\ env_table' = EnvInit /\ load_ret' = -1
    /\ message' = "none"
    /\ UNCHANGED <<diskVars, w, written, lost, host>>
    /\ kept' = Recorded(FileSays) /\ trying' = Recorded(FileSays) /\ saved' = <<>>

SetVariable(k, word) ==
    /\ phase = "run"
    /\ env_table' = EnvSet(env_table, k, Whole(word))
    /\ load_ret' = -1
    /\ UNCHANGED <<fatVars, phase, message, kept, trying, saved>>

\* The menu's '[R]', mirror_restore(): env_init again.
Restore ==
    /\ phase = "run"
    /\ env_table' = EnvInit
    /\ load_ret' = -1
    /\ UNCHANGED <<fatVars, phase, message, kept, trying, saved>>

\* kernel_shutdown or kernel_panic calls env_save, which is the only write of
\* this boot: both halt.
SaveBegin ==
    /\ phase = "run"
    /\ phase' = "saving"
    /\ LET lines == Serialised(env_table) IN
       /\ \/ WriteBegin(lines, Total(lines, Len(lines)))
          \/ WriteRefused
       /\ kept' = Recorded(FileSays)
       /\ trying' = Recorded(lines)
    /\ saved' = <<>>
    /\ load_ret' = -1
    /\ UNCHANGED <<env_table, message>>

SaveStep ==
    /\ phase = "saving"
    /\ WriteStep
    /\ kept' = Recorded(kept) /\ trying' = Recorded(trying)
    /\ UNCHANGED <<env_table, phase, message, load_ret, saved>>

Said == IF written = 0 THEN "saved" ELSE "skipped"

\* The call is over.  kernel_shutdown reports and halts.
Shutdown ==
    /\ phase = "saving" /\ w.pc = "idle"
    /\ message' = Said
    /\ phase' = "halted"
    /\ UNCHANGED <<fatVars, env_table, load_ret, kept, trying>>
    /\ saved' = Recorded(IF written >= 0 THEN env_table ELSE <<>>)

\* kernel_panic halts without a word about it.
Panic ==
    /\ phase = "saving" /\ w.pc = "idle"
    /\ phase' = "halted"
    /\ UNCHANGED <<fatVars, env_table, message, load_ret, kept, trying>>
    /\ saved' = Recorded(IF written >= 0 THEN env_table ELSE <<>>)

\* Power off, or a power failure at any moment.
PowerOff ==
    /\ phase # "off"
    /\ phase' = "off"
    /\ Forget
    /\ written' = 0
    /\ env_table' = EnvInit
    /\ load_ret' = -1
    /\ message' = "none"
    /\ UNCHANGED <<kept, trying, saved>>

StorageNext ==
    \/ Boot
    \/ \E k \in Keys, word \in DOMAIN WordLen : SetVariable(k, word)
    \/ Restore
    \/ SaveBegin \/ SaveStep \/ Shutdown \/ Panic
    \/ PowerOff

StorageSpec == StorageInit /\ [][StorageNext]_allVars

-----------------------------------------------------------------------------
\* Every variable stays in its range.
StorageTypeOK ==
    /\ root \in [Entry -> DirEntry] /\ data \in [Cluster -> Seq(Line)]
    /\ \A e \in Entry : root[e].kind = "env" => root[e].cluster \in Cluster
    /\ fat \in [Copies -> Table] /\ s_fat \in Table /\ s_fat_loaded \in BOOLEAN
    /\ w.pc \in {"idle", "data", "entry", "flush"}
    /\ written \in -1 .. SectorSize - 1 /\ lost \in 0 .. MaxLost
    /\ env_table \in Seq(Variable) /\ Len(env_table) <= EnvMax
    /\ phase \in {"off", "run", "saving", "halted"}
    /\ message \in {"none", "saved", "skipped"}
    /\ load_ret \in {-1, 0}

\* The table and the volume are well formed and no cluster is lost, through
\* every boot, save, failed write and loss of power.
StorageInv == StorageTypeOK /\ NoLeak

\* AIOS.ENV always says what it said before the last save or what that save
\* wrote, wherever a sector write failed or the power went, while the drive
\* does what it says.  The exception is named: between the write of the data
\* and of the entry, when the new text is longer than the old, the file is the
\* new text cut off at the old length.
OldOrNew == \/ lost > 0
            \/ FileSays \in {kept, trying}
            \/ /\ ReadFile.content = trying
               /\ ReadFile.size < Total(trying, Len(trying))

\* When env_save has returned without an error, the file is on the disk: it
\* says what was saved, and both FATs agree and mark its cluster, unless the
\* drive said it had written a sector and had not.
SavedIsOnDisk == (lost = 0 /\ phase \in {"saving", "halted"} /\ w.pc = "idle" /\ written >= 0) =>
                     /\ FileSays = Serialised(env_table)
                     /\ fat[1] = fat[2] /\ fat[1] = s_fat
                     /\ NextCluster(fat[1], root[Min(Match)].cluster) = 4095

\* The table kept no two variables under one key and all fitted the buffer.
Clean(t) == Serialised(t) = t /\ \A i, j \in DOMAIN t : t[i].key = t[j].key => i = j

\* env.h, "Persist all env vars": a boot that loads AIOS.ENV after a completed
\* save gives every variable the value it had, unless the table was too large
\* for the buffer or held a truncated key twice, or the drive lost a write.
BootRestores ==
    [][(/\ phase = "off" /\ phase' = "run" /\ load_ret' = 0
        /\ saved # <<>> /\ Clean(saved) /\ lost = 0) =>
          \A k \in Keys : EnvGet(env_table', k) = EnvGet(saved, k)]_allVars

\* env.h: env_save "Returns 0 on success, -1 on error", and kernel_shutdown
\* takes anything else for a failure: a completed save is reported as saved.
ShutdownReportsSave == (phase = "halted" /\ saved # <<>> /\ message # "none") => message = "saved"
=============================================================================
