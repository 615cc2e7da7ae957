--------------------------------- MODULE Ata ---------------------------------
(***************************************************************************)
(* adapters/ata.c: the polling driver of the primary master, one sector    *)
(* per call as all its callers in env/fat12.c ask for, against a drive     *)
(* that may be slow, may fail any command, keeps a volatile write cache    *)
(* and may lose its power.                                                 *)
(*                                                                         *)
(* The drive is external.  It sets BSY before the driver's next access to  *)
(* a port, and while BSY is set neither DRQ nor ERR is.  ATA leaves open   *)
(* what a command does that is written while the drive is not ready for    *)
(* one: here it is ignored while BSY is set, and while DRQ is set either   *)
(* ignored or taken in place of the command under way.                     *)
(*                                                                         *)
(* The content of a sector is a version, and the sector it was meant for.  *)
(***************************************************************************)
EXTENDS Naturals

CONSTANTS Lba,       \* sectors
          Versions,  \* what callers write to them
          Old,       \* the version the disk has of all of them at first
          PollMax,   \* 0x100000, the number of times a status is polled
          MaxCalls,  \* bound: calls made
          None

Content == [for : Lba, version : Versions]

ASSUME AtaConstants == /\ PollMax \in Nat \ {0} /\ MaxCalls \in Nat
                       /\ Lba # {} /\ Old \in Versions
                       /\ None \notin Content /\ None # "AURA_OK"

VARIABLES drive,              \* what answers: "ata", "atapi" or "none"
          bsy, drq, err,      \* its status register
          regs,               \* its LBA registers
          job,                \* the command it carries out, with its data
          cache, media,       \* what its cache holds of a sector, and the medium
          pc, n,              \* where the driver stands, and its poll counter
          detected,           \* ata_init has returned AURA_OK, which its caller
                              \* goes by: ata.c itself keeps no variable
          op, lba, buf,       \* the call under way or last made
          ret,                \* what it returned, None until it has
          calls,              \* calls made, at most MaxCalls
          outOfStep,          \* history: a call gave up while the drive had
                              \* still to transfer its data
          failed,             \* history: sectors the drive failed to write
                              \* without the driver's noticing
          acked               \* history: what AURA_OK was returned for

statusVars == <<bsy, drq, err>>
driveVars  == <<drive, statusVars, regs, job, cache, media>>
callVars   == <<detected, op, lba, buf, calls>>
histVars   == <<outOfStep, failed, acked>>
vars       == <<driveVars, pc, n, callVars, ret, histVars>>

NoJob  == [cmd |-> "none", lba |-> CHOOSE l \in Lba : TRUE, data |-> None]
Stored(l) == IF cache[l] = None THEN media[l] ELSE cache[l]

PowerUp == /\ bsy' = FALSE /\ drq' = FALSE /\ err' = FALSE
           /\ regs' = NoJob.lba /\ job' = NoJob
           /\ cache' = [l \in Lba |-> None]

Init ==
    /\ drive \in {"ata", "atapi", "none"}
    /\ bsy = FALSE /\ drq = FALSE /\ err = FALSE
    /\ regs = NoJob.lba /\ job = NoJob
    /\ cache = [l \in Lba |-> None]
    /\ media = [l \in Lba |-> [for |-> l, version |-> Old]]
    /\ pc = "off" /\ n = 0
    /\ detected = FALSE
    /\ op = "identify" /\ lba = NoJob.lba /\ buf = None /\ ret = None /\ calls = 0
    /\ outOfStep = FALSE /\ failed = {}
    /\ acked = [l \in Lba |-> None]

-----------------------------------------------------------------------------
\* External: the drive.

\* A command register access, with the LBA registers at r.
Command(c, r) ==
    \/ /\ ~bsy
       /\ job' = [cmd |-> c, lba |-> r, data |-> None]
       /\ bsy' = TRUE /\ drq' = FALSE /\ err' = FALSE
    \/ /\ bsy \/ drq
       /\ UNCHANGED <<job, statusVars>>

\* The command under way ends with an error.  Before the data of a write are
\* transferred the driver will see ERR; afterwards it never looks.
JobFails ==
    /\ bsy
    /\ bsy' = FALSE /\ err' = TRUE /\ drq' = FALSE
    /\ failed' = IF job.cmd = "flush" THEN {l \in Lba : cache[l] # None} \cup failed
                 ELSE IF job.data # None THEN failed \cup {job.lba}
                 ELSE failed
    /\ cache' = IF job.cmd = "flush" THEN [l \in Lba |-> None] ELSE cache
    /\ job' = NoJob
    /\ UNCHANGED <<drive, drq, regs, media, pc, n, callVars, ret, outOfStep, acked>>

\* The drive is ready to transfer a sector.
JobReady ==
    /\ bsy /\ drive = "ata"
    /\ \/ job.cmd = "identify" /\ job' = job
       \/ job.cmd = "read" /\ job' = [job EXCEPT !.data = Stored(job.lba)]
       \/ job.cmd = "write" /\ job.data = None /\ job' = job
    /\ bsy' = FALSE /\ drq' = TRUE
    /\ UNCHANGED <<drive, err, regs, cache, media, pc, n, callVars, ret, histVars>>

\* ... or has taken the sector it was sent, or flushed its cache.
JobDone ==
    /\ bsy
    /\ \/ job.cmd = "write" /\ job.data # None
          /\ cache' = [cache EXCEPT ![job.lba] = job.data] /\ media' = media
       \/ job.cmd = "flush"
          /\ media' = [l \in Lba |-> Stored(l)] /\ cache' = [l \in Lba |-> None]
    /\ bsy' = FALSE /\ job' = NoJob
    /\ UNCHANGED <<drive, drq, err, regs, pc, n, callVars, ret, histVars>>

\* The drive empties its cache in an order of its own.
Destage(l) ==
    /\ cache[l] # None
    /\ media' = [media EXCEPT ![l] = cache[l]]
    /\ cache' = [cache EXCEPT ![l] = None]
    /\ UNCHANGED <<drive, statusVars, regs, job, pc, n, callVars, ret, histVars>>

-----------------------------------------------------------------------------
\* The driver.

Return(r) == /\ ret' = r
             /\ pc' = "idle" /\ n' = 0

GoTo(next) == /\ pc' = next /\ n' = 0
              /\ ret' = ret

\* ata_init(), first half.  A status of 0 means that there is no drive.
InitIdentify ==
    /\ pc = "off"
    /\ op' = "identify" /\ n' = 0
    /\ \/ drive = "none" /\ pc' = "idle" /\ ret' = "AURA_ERR" /\ UNCHANGED <<job, statusVars>>
       \/ drive # "none" /\ pc' = "id_bsy" /\ ret' = None /\ Command("identify", regs)
    /\ UNCHANGED <<drive, regs, cache, media, detected, lba, buf, calls, histVars>>

\* A disk does not answer with the signature of a packet device.
InitSignature ==
    /\ pc = "id_signature"
    /\ IF drive = "atapi" THEN Return("AURA_ERR") ELSE GoTo("id_drq")
    /\ UNCHANGED <<driveVars, callVars, histVars>>

InitConsume ==
    /\ pc = "id_data"
    /\ drq' = FALSE /\ job' = NoJob
    /\ detected' = TRUE
    /\ Return("AURA_OK")
    /\ UNCHANGED <<drive, bsy, err, regs, cache, media, op, lba, buf, calls, histVars>>

\* ata_read_sectors() and ata_write_sectors(), called with a count of 1.
ReadSector(l) ==
    /\ pc = "idle" /\ detected /\ calls < MaxCalls
    /\ calls' = calls + 1
    /\ op' = "read" /\ lba' = l /\ buf' = None
    /\ pc' = "bsy" /\ n' = 0 /\ ret' = None
    /\ UNCHANGED <<driveVars, detected, histVars>>

WriteSector(l, v) ==
    /\ pc = "idle" /\ detected /\ calls < MaxCalls
    /\ calls' = calls + 1
    /\ op' = "write" /\ lba' = l /\ buf' = [for |-> l, version |-> v]
    /\ acked' = [acked EXCEPT ![l] = None] /\ failed' = failed \ {l}
    /\ pc' = "bsy" /\ n' = 0 /\ ret' = None
    /\ UNCHANGED <<driveVars, detected, outOfStep>>

AfterBsyNoDrq == CASE pc = "id_bsy"    -> "id_signature"
                   [] pc = "bsy"       -> "command"
                   [] pc = "bsy_data"  -> "data"
                   [] pc = "bsy_flush" -> "done"

AfterBsy == CASE pc = "id_bsy"    -> "id_signature"
              [] pc = "bsy"       -> "command"
              [] pc = "bsy_data"  -> "drq"
              [] pc = "bsy_flush" -> "done"

AfterDrq == IF pc = "id_drq" THEN "id_data" ELSE "data"

PollForEver == TRUE

\* The loops end after PollMax tries.
PollAgain == n + 1 < PollMax

TimesOut == /\ Return("AURA_ERR")
            /\ outOfStep' = (outOfStep \/ pc \in {"id_bsy", "id_drq", "bsy_data", "drq"})

Polls == /\ n' = (n + 1) % PollMax
         /\ UNCHANGED <<pc, ret, outOfStep>>

\* ata_poll_bsy()
PollBsy ==
    /\ pc \in {"id_bsy", "bsy", "bsy_data", "bsy_flush"}
    /\ \/ ~bsy /\ GoTo(AfterBsy) /\ outOfStep' = outOfStep
       \/ bsy /\ PollAgain /\ Polls
       \/ bsy /\ ~PollAgain /\ TimesOut
    /\ UNCHANGED <<driveVars, callVars, failed, acked>>

\* ata_poll_drq()
PollDrq ==
    /\ pc \in {"id_drq", "drq"}
    /\ \/ err /\ Return("AURA_ERR") /\ outOfStep' = outOfStep
       \/ ~err /\ drq /\ GoTo(AfterDrq) /\ outOfStep' = outOfStep
       \/ ~err /\ ~drq /\ PollAgain /\ Polls
       \/ ~err /\ ~drq /\ ~PollAgain /\ TimesOut
    /\ UNCHANGED <<driveVars, callVars, failed, acked>>

WriteBeforeSetup ==
    /\ pc = "command"
    /\ regs' = lba
    /\ Command(op, IF op = "write" THEN regs ELSE lba)
    /\ GoTo("bsy_data")
    /\ UNCHANGED <<drive, cache, media, callVars, histVars>>

\* ata_setup_lba(), then the command.
Issue ==
    /\ pc = "command"
    /\ regs' = lba
    /\ Command(op, regs')
    /\ GoTo("bsy_data")
    /\ UNCHANGED <<drive, cache, media, callVars, histVars>>

\* A read takes 256 words from the data port ...
TransferIn ==
    /\ pc = "data" /\ op = "read"
    /\ buf' = job.data
    /\ drq' = FALSE /\ job' = NoJob
    /\ Return("AURA_OK")
    /\ UNCHANGED <<drive, bsy, err, regs, cache, media, detected, op, lba, calls, histVars>>

\* ... and a write sends them.  A drive that wants to be read drops them.
TransferOut ==
    /\ pc = "data" /\ op = "write"
    /\ drq' = FALSE
    /\ IF job.cmd = "write" THEN job' = [job EXCEPT !.data = buf] /\ bsy' = TRUE
                            ELSE job' = NoJob /\ bsy' = FALSE
    /\ GoTo("flush")
    /\ UNCHANGED <<drive, err, regs, cache, media, callVars, histVars>>

FlushNotAwaited ==
    /\ pc = "flush"
    /\ Command("flush", regs)
    /\ GoTo("done")
    /\ UNCHANGED <<drive, regs, cache, media, callVars, histVars>>

\* FLUSH CACHE, without waiting for BSY: a drive that has not finished the
\* sector ignores it.
Flush ==
    /\ pc = "flush"
    /\ Command("flush", regs)
    /\ GoTo("bsy_flush")
    /\ UNCHANGED <<drive, regs, cache, media, callVars, histVars>>

\* The driver does not look at ERR again.
WriteReturns ==
    /\ pc = "done"
    /\ acked' = [acked EXCEPT ![lba] = buf]
    /\ Return("AURA_OK")
    /\ UNCHANGED <<driveVars, callVars, outOfStep, failed>>

Driver == \/ InitIdentify \/ InitSignature \/ InitConsume
          \/ PollBsy \/ PollDrq \/ Issue \/ TransferIn \/ TransferOut \/ Flush \/ WriteReturns

\* The power goes and comes back: what is in the cache only is lost.
PowerLoss ==
    /\ pc # "off"
    /\ PowerUp
    /\ pc' = "off" /\ n' = 0
    /\ detected' = FALSE /\ op' = "identify" /\ lba' = NoJob.lba /\ buf' = None /\ ret' = None
    /\ outOfStep' = FALSE
    /\ acked' = [l \in Lba |-> IF outOfStep \/ cache[l] # None THEN None ELSE acked[l]]
    /\ UNCHANGED <<drive, media, failed, calls>>

Next == \/ Driver
        \/ \E l \in Lba : ReadSector(l)
        \/ \E l \in Lba, v \in Versions : WriteSector(l, v)
        \/ JobFails \/ JobReady \/ JobDone
        \/ \E l \in Lba : Destage(l)
        \/ PowerLoss

Spec == Init /\ [][Next]_vars

\* The CPU executes the driver; nothing is assumed of the drive.
FairSpec == Spec /\ WF_vars(Driver)

-----------------------------------------------------------------------------
\* Every variable stays in its range, BSY excludes DRQ and ERR, and a transfer
\* to or from a caller is made for a caller only.
TypeOK ==
    /\ pc \in {"command", "data", "flush", "done"} => op # "identify"
    /\ drive \in {"ata", "atapi", "none"}
    /\ bsy \in BOOLEAN /\ drq \in BOOLEAN /\ err \in BOOLEAN /\ ~(bsy /\ (drq \/ err))
    /\ regs \in Lba /\ lba \in Lba
    /\ job \in [cmd : {"none", "identify", "read", "write", "flush"}, lba : Lba,
                data : Content \cup {None}]
    /\ cache \in [Lba -> Content \cup {None}] /\ media \in [Lba -> Content]
    /\ n \in 0 .. PollMax - 1
    /\ detected \in BOOLEAN /\ calls \in 0 .. MaxCalls
    /\ op \in {"identify", "read", "write"} /\ buf \in Content \cup {None}
    /\ ret \in {None, "AURA_OK", "AURA_ERR"}
    /\ outOfStep \in BOOLEAN /\ failed \subseteq Lba
    /\ acked \in [Lba -> Content \cup {None}]

\* ata.h: a write that returned AURA_OK is on the disk or in its cache, until
\* the sector is written again or the power goes with the sector in the cache.
\* The two exceptions are those the driver does not guard against: an error
\* after the data were sent, which it does not see, and an earlier call that
\* gave up before the drive had asked for its data, to whose sector the data of
\* this one then go.  Nor is the flush sure to be done, which a drive that is
\* still busy ignores: what the cache holds when the power goes is lost.
AckedIsStored ==
    \A l \in Lba \ failed : (acked[l] # None /\ ~outOfStep) => Stored(l) = acked[l]

\* The driver, the drive and the sectors agree at every point of a call, also
\* after calls that timed out, failed or were cut short by a loss of power.
DriveInv == TypeOK /\ AckedIsStored

\* A read that returned AURA_OK delivered the content of the sector it was
\* asked for, while driver and drive are in step: that is, as long as no call
\* has given up before its data were transferred.  After such a call the data
\* may be those of the command it has left behind.
ReadIsFresh == (pc = "idle" /\ op = "read" /\ ret = "AURA_OK" /\ ~outOfStep) => buf = Stored(lba)

\* No write ever reaches another sector than the one it was meant for, also a
\* write that timed out after its data were sent and lands late, while driver
\* and drive are in step.
NoStrayWrite ==
    [][\A l \in Lba : cache'[l] \notin {None, cache[l]} => outOfStep \/ cache'[l].for = l]_vars

\* Every call returns, though the drive may never answer.
CallReturns == pc \notin {"off", "idle"} ~> pc \in {"off", "idle"}
=============================================================================
