---------------------------- MODULE StorageProofs ----------------------------
(***************************************************************************)
(* Theorems about the disk: about Ata, for every number of sectors and of  *)
(* contents, every length of the polling loops and every number of calls;  *)
(* and about Env on Fat12, for every disk, sound volumes where a theorem   *)
(* is about those, and every size of the FATs, of the directory and of the *)
(* table of variables, with any number of failed and of lost writes.       *)
(***************************************************************************)
EXTENDS Ata, Env, KernelLemmas, SequenceTheorems

-----------------------------------------------------------------------------
\* The driver and its drive.

PollingId == {"id_bsy", "id_signature", "id_drq", "id_data"}
Calling   == {"bsy", "command", "bsy_data", "drq", "data"}
Ending    == {"flush", "bsy_flush", "done"}

\* The call that pc stands in, and the buffer of a write.
CallInv ==
    /\ pc \in {"off", "idle"} \cup PollingId \cup Calling \cup Ending
    /\ pc \in {"off"} \cup PollingId => op = "identify"
    /\ pc \in Calling => op \in {"read", "write"}
    /\ pc \in Ending => op = "write"
    /\ op = "write" => buf \in Content /\ buf.for = lba
    /\ (op = "write" /\ pc \in Calling \cup Ending) => acked[lba] = None
    /\ pc \in {"data", "id_data"} => drq /\ ~err /\ ~bsy
    /\ drq => drive = "ata"
    /\ pc = "off" => ~outOfStep /\ regs = lba

\* What the drive does while driver and drive are in step: nothing; the
\* command just written; a transfer it is ready for; an error; the sector it
\* was sent; or, with that sector stored, nothing or a flush.
Resting == job = NoJob /\ ~bsy /\ ~drq
Waiting == bsy /\ ~drq /\ job.cmd = op /\ job.lba = lba /\ job.data = None
Ready   == /\ drq /\ ~bsy /\ ~err /\ job.cmd = op /\ job.lba = lba
           /\ job.data = IF op = "read" THEN Stored(lba) ELSE None
Failed  == Resting /\ err
Sent    == bsy /\ ~drq /\ job.cmd = "write" /\ job.lba = lba /\ job.data = buf
Landed  == /\ Resting \/ (bsy /\ ~drq /\ job.cmd = "flush")
           /\ Stored(lba) = buf \/ lba \in failed

\* A write sent by a call that has given up, or its flush, may still go on.
Late    == bsy /\ ~drq /\ (job.cmd = "flush" \/ (job.cmd = "write" /\ job.data # None))

InStep ==
    /\ pc \in {"off", "command"} => Resting
    /\ pc \in {"idle", "bsy"} => Resting \/ Late
    /\ pc \in {"id_bsy", "bsy_data"} => Waiting \/ Ready \/ Failed
    /\ pc \in {"id_signature", "id_drq", "drq"} => Ready \/ Failed
    /\ pc \in {"id_data", "data"} => Ready
    /\ pc \in {"flush", "bsy_flush"} => Sent \/ Landed
    /\ pc = "done" => Landed /\ ~bsy
    /\ (pc = "idle" /\ op = "read" /\ ret = "AURA_OK") => Resting

\* A sector on its way to the drive is on its way to its place, and nobody has
\* been told that it is there.
OnItsWay == (job.cmd = "write" /\ job.data # None) =>
                job.data.for = job.lba /\ acked[job.lba] = None

AtaInv == /\ DriveInv /\ ReadIsFresh /\ CallInv
          /\ ~outOfStep => InStep /\ OnItsWay

-----------------------------------------------------------------------------
Jobs == [cmd : {"none", "identify", "read", "write", "flush"}, lba : Lba, data : Content \cup {None}]

LEMMA NoJobIs ==
    NoJob.cmd = "none" /\ NoJob.lba \in Lba /\ NoJob.data = None /\ NoJob \in Jobs
  BY AtaConstants DEF NoJob, Jobs

\* What the drive holds of a sector.
LEMMA StoredIs ==
    ASSUME TypeOK
    PROVE  \A l \in Lba : Stored(l) \in Content
  BY DEF TypeOK, Stored

\* What a write of the command register does.
LEMMA CommandIs ==
    ASSUME TypeOK, NEW c \in {"identify", "read", "write", "flush"}, NEW r \in Lba, Command(c, r)
    PROVE  /\ job' \in Jobs
           /\ bsy' \in BOOLEAN /\ drq' \in BOOLEAN /\ err' \in BOOLEAN /\ ~(bsy' /\ (drq' \/ err'))
           /\ drq' => drq
<1>1. [cmd |-> c, lba |-> r, data |-> None] \in Jobs /\ job \in Jobs
  BY DEF Jobs, TypeOK
<1>2. job' \in Jobs
  BY <1>1 DEF Command
<1>3. CASE ~bsy /\ bsy' = TRUE /\ drq' = FALSE /\ err' = FALSE
  BY <1>2, <1>3
<1>4. CASE UNCHANGED <<bsy, drq, err>>
  BY <1>2, <1>4 DEF TypeOK
<1> QED
  BY <1>3, <1>4 DEF Command, statusVars

\* The types are kept, and each call keeps to its course.
LEMMA TypeStep ==
    ASSUME TypeOK, CallInv, [Next]_vars
    PROVE  TypeOK' /\ CallInv'
<1>1. job \in Jobs /\ NoJob \in Jobs /\ NoJob.lba \in Lba
  BY NoJobIs DEF TypeOK, Jobs
<1>2. CASE InitIdentify
  <2>1. job' \in Jobs /\ bsy' \in BOOLEAN /\ drq' \in BOOLEAN /\ err' \in BOOLEAN
        /\ ~(bsy' /\ (drq' \/ err')) /\ (drq' => drq)
    BY <1>1, <1>2, CommandIs DEF InitIdentify, statusVars, TypeOK
  <2>2. TypeOK'
    BY <1>1, <1>2, <2>1, AtaConstants
       DEF InitIdentify, driveVars, statusVars, callVars, histVars, Return, GoTo, TypeOK,
           Jobs, CallInv, PollingId, Calling, Ending
  <2>3. CallInv'
    BY <1>1, <1>2, <2>1
       DEF InitIdentify, driveVars, statusVars, callVars, histVars, Return, GoTo, TypeOK,
           CallInv, PollingId, Calling, Ending
  <2> QED
    BY <2>2, <2>3
<1>3. CASE InitSignature
  BY <1>1, <1>3, AtaConstants, NoJobIs
     DEF InitSignature, driveVars, statusVars, callVars, histVars, TypeOK, CallInv,
         PollingId, Calling, Ending, Return, GoTo
<1>4. CASE InitConsume
  <2>1. job' \in Jobs
    BY <1>1, <1>4 DEF InitConsume
  <2>2. bsy' \in BOOLEAN /\ drq' \in BOOLEAN /\ err' \in BOOLEAN /\ ~(bsy' /\ (drq' \/ err'))
    BY <1>4 DEF InitConsume, TypeOK, CallInv, PollingId, Calling, Ending, Return
  <2>3. TypeOK'
    BY <1>1, <1>4, <2>1, <2>2, AtaConstants, NoJobIs
       DEF InitConsume, driveVars, statusVars, callVars, histVars, TypeOK, Jobs, Return
  <2>4. CallInv'
    BY <1>1, <1>4, NoJobIs
       DEF InitConsume, driveVars, statusVars, callVars, histVars, TypeOK, CallInv,
           PollingId, Calling, Ending, Return
  <2> QED
    BY <2>3, <2>4
<1>5. CASE PollBsy
  BY <1>1, <1>5, AtaConstants, NoJobIs
     DEF PollBsy, driveVars, statusVars, callVars, histVars, TypeOK, CallInv, PollingId,
         Calling, Ending, GoTo, AfterBsy, Polls, TimesOut, Return
<1>6. CASE PollDrq
  <2>1. outOfStep' \in BOOLEAN
    BY <1>6 DEF PollDrq, TypeOK, Polls, TimesOut
  <2>2. n' \in 0 .. PollMax - 1 /\ ret' \in {None, "AURA_OK", "AURA_ERR"}
    BY <1>6, AtaConstants DEF PollDrq, TypeOK, GoTo, Polls, TimesOut, Return
  <2>3. TypeOK'
    BY <1>6, <2>1, <2>2
       DEF PollDrq, driveVars, statusVars, callVars, histVars, TypeOK, CallInv, PollingId,
           Calling, Ending, GoTo, AfterDrq, Polls, TimesOut, Return
  <2>4. CallInv'
    BY <1>6
       DEF PollDrq, driveVars, statusVars, callVars, histVars, TypeOK, CallInv, PollingId,
           Calling, Ending, GoTo, AfterDrq, Polls, TimesOut, Return
  <2> QED
    BY <2>3, <2>4
<1>7. CASE Issue
  <2>1. job' \in Jobs /\ bsy' \in BOOLEAN /\ drq' \in BOOLEAN /\ err' \in BOOLEAN
        /\ ~(bsy' /\ (drq' \/ err')) /\ (drq' => drq)
    BY <1>1, <1>7, CommandIs DEF Issue, TypeOK
  <2>2. TypeOK'
    BY <1>1, <1>7, <2>1, AtaConstants
       DEF Issue, driveVars, statusVars, callVars, histVars, Return, GoTo, TypeOK, Jobs,
           CallInv, PollingId, Calling, Ending
  <2>3. CallInv'
    BY <1>1, <1>7, <2>1
       DEF Issue, driveVars, statusVars, callVars, histVars, Return, GoTo, TypeOK, CallInv,
           PollingId, Calling, Ending
  <2> QED
    BY <2>2, <2>3
<1>8. CASE TransferIn
  <2>1. job' \in Jobs
    BY <1>1, <1>8 DEF TransferIn
  <2>2. bsy' \in BOOLEAN /\ drq' \in BOOLEAN /\ err' \in BOOLEAN /\ ~(bsy' /\ (drq' \/ err'))
        /\ buf' \in Content \cup {None}
    BY <1>8, AtaConstants, NoJobIs
       DEF TransferIn, TypeOK, CallInv, PollingId, Calling, Ending, Return
  <2>3. TypeOK'
    BY <1>1, <1>8, <2>1, <2>2, AtaConstants, NoJobIs
       DEF TransferIn, driveVars, statusVars, callVars, histVars, TypeOK, Jobs, Return
  <2>4. CallInv'
    BY <1>1, <1>8, NoJobIs
       DEF TransferIn, driveVars, statusVars, callVars, histVars, TypeOK, CallInv,
           PollingId, Calling, Ending, Return
  <2> QED
    BY <2>3, <2>4
<1>9. CASE TransferOut
  <2>1. job' \in Jobs
    BY <1>1, <1>9 DEF TransferOut, Jobs, TypeOK
  <2>2. bsy' \in BOOLEAN /\ drq' \in BOOLEAN /\ err' \in BOOLEAN /\ ~(bsy' /\ (drq' \/ err'))
    BY <1>9 DEF TransferOut, TypeOK, CallInv, PollingId, Calling, Ending, GoTo
  <2>3. TypeOK'
    BY <1>1, <1>9, <2>1, <2>2, AtaConstants, NoJobIs
       DEF TransferOut, driveVars, statusVars, callVars, histVars, TypeOK, Jobs, GoTo
  <2>4. CallInv'
    BY <1>1, <1>9, NoJobIs
       DEF TransferOut, driveVars, statusVars, callVars, histVars, TypeOK, CallInv,
           PollingId, Calling, Ending, GoTo
  <2> QED
    BY <2>3, <2>4
<1>10. CASE Flush
  <2>1. job' \in Jobs /\ bsy' \in BOOLEAN /\ drq' \in BOOLEAN /\ err' \in BOOLEAN
        /\ ~(bsy' /\ (drq' \/ err')) /\ (drq' => drq)
    BY <1>1, <1>10, CommandIs DEF Flush, TypeOK
  <2>2. TypeOK'
    BY <1>1, <1>10, <2>1, AtaConstants
       DEF Flush, driveVars, statusVars, callVars, histVars, Return, GoTo, TypeOK, Jobs,
           CallInv, PollingId, Calling, Ending
  <2>3. CallInv'
    BY <1>1, <1>10, <2>1
       DEF Flush, driveVars, statusVars, callVars, histVars, Return, GoTo, TypeOK, CallInv,
           PollingId, Calling, Ending
  <2> QED
    BY <2>2, <2>3
<1>11. CASE WriteReturns
  BY <1>1, <1>11, AtaConstants, NoJobIs
     DEF WriteReturns, driveVars, statusVars, callVars, histVars, TypeOK, CallInv,
         PollingId, Calling, Ending, Return
<1>12. CASE JobFails
  <2>1. job' \in Jobs
    BY <1>1, <1>12 DEF JobFails
  <2>2. bsy' \in BOOLEAN /\ drq' \in BOOLEAN /\ err' \in BOOLEAN /\ ~(bsy' /\ (drq' \/ err'))
    BY <1>12 DEF JobFails, TypeOK, CallInv, PollingId, Calling, Ending
  <2>3. TypeOK'
    BY <1>1, <1>12, <2>1, <2>2, AtaConstants, NoJobIs
       DEF JobFails, driveVars, statusVars, callVars, histVars, TypeOK, Jobs
  <2>4. CallInv'
    BY <1>1, <1>12, NoJobIs
       DEF JobFails, driveVars, statusVars, callVars, histVars, TypeOK, CallInv, PollingId,
           Calling, Ending
  <2> QED
    BY <2>3, <2>4
<1>13. CASE JobReady
  <2>1. job' \in Jobs
    BY <1>1, <1>13, StoredIs DEF JobReady, Jobs
  <2>2. bsy' \in BOOLEAN /\ drq' \in BOOLEAN /\ err' \in BOOLEAN /\ ~(bsy' /\ (drq' \/ err'))
    BY <1>13 DEF JobReady, TypeOK, CallInv, PollingId, Calling, Ending
  <2>3. TypeOK'
    BY <1>1, <1>13, <2>1, <2>2, AtaConstants, NoJobIs
       DEF JobReady, driveVars, statusVars, callVars, histVars, TypeOK, Jobs
  <2>4. CallInv'
    BY <1>1, <1>13, NoJobIs
       DEF JobReady, driveVars, statusVars, callVars, histVars, TypeOK, CallInv, PollingId,
           Calling, Ending
  <2> QED
    BY <2>3, <2>4
<1>14. CASE JobDone
  <2>1. job' \in Jobs
    BY <1>1, <1>14 DEF JobDone
  <2>2. bsy' \in BOOLEAN /\ drq' \in BOOLEAN /\ err' \in BOOLEAN /\ ~(bsy' /\ (drq' \/ err'))
    BY <1>14 DEF JobDone, TypeOK
  <2>3. cache' \in [Lba -> Content \cup {None}] /\ media' \in [Lba -> Content]
    BY <1>14, StoredIs DEF JobDone, TypeOK
  <2>4. TypeOK'
    BY <1>1, <1>14, <2>1, <2>2, <2>3
       DEF JobDone, driveVars, statusVars, callVars, histVars, TypeOK, Jobs
  <2>5. CallInv'
    BY <1>14
       DEF JobDone, driveVars, statusVars, callVars, histVars, TypeOK, CallInv, PollingId,
           Calling, Ending
  <2> QED
    BY <2>4, <2>5
<1>15. CASE PowerLoss
  <2>1. /\ bsy' \in BOOLEAN /\ drq' \in BOOLEAN /\ err' \in BOOLEAN /\ ~(bsy' /\ (drq' \/ err'))
        /\ job' \in Jobs /\ regs' \in Lba /\ lba' \in Lba
    BY <1>1, <1>15 DEF PowerLoss, PowerUp
  <2>2. acked' \in [Lba -> Content \cup {None}]
    BY <1>15 DEF PowerLoss, TypeOK
  <2>3. cache' \in [Lba -> Content \cup {None}] /\ media' \in [Lba -> Content]
    BY <1>15 DEF PowerLoss, PowerUp, TypeOK
  <2>4. /\ pc' = "off" /\ n' \in 0 .. PollMax - 1 /\ detected' \in BOOLEAN /\ outOfStep' \in BOOLEAN
        /\ buf' \in Content \cup {None} /\ ret' \in {None, "AURA_OK", "AURA_ERR"}
        /\ op' \in {"identify", "read", "write"}
    <3>1. 0 \in 0 .. PollMax - 1
      BY AtaConstants
    <3>2. /\ pc' = "off" /\ n' = 0 /\ detected' = FALSE /\ outOfStep' = FALSE
          /\ buf' = None /\ ret' = None /\ op' = "identify"
      BY <1>15 DEF PowerLoss
    <3> QED
      BY <3>1, <3>2
  <2>5. TypeOK'
    <3>1. UNCHANGED <<drive, failed, calls>>
      BY <1>15 DEF PowerLoss
    <3> QED
      BY <2>1, <2>2, <2>3, <2>4, <3>1 DEF TypeOK, Jobs
  <2>6. CallInv'
    BY <1>15 DEF PowerLoss, PowerUp, CallInv, PollingId, Calling, Ending
  <2> QED
    BY <2>5, <2>6
<1>16. ASSUME NEW l \in Lba, ReadSector(l) PROVE TypeOK' /\ CallInv'
  BY <1>1, <1>16, AtaConstants, NoJobIs
     DEF ReadSector, driveVars, statusVars, callVars, histVars, TypeOK, CallInv, PollingId,
         Calling, Ending
<1>17. ASSUME NEW l \in Lba, NEW v \in Versions, WriteSector(l, v) PROVE TypeOK' /\ CallInv'
  BY <1>1, <1>17, AtaConstants, NoJobIs
     DEF WriteSector, driveVars, statusVars, callVars, histVars, TypeOK, CallInv,
         PollingId, Calling, Ending, Content
<1>18. ASSUME NEW l \in Lba, Destage(l) PROVE TypeOK' /\ CallInv'
  BY <1>1, <1>18, AtaConstants, NoJobIs
     DEF Destage, driveVars, statusVars, callVars, histVars, TypeOK, CallInv, PollingId,
         Calling, Ending
<1>19. CASE UNCHANGED vars
  BY <1>1, <1>19, AtaConstants, NoJobIs
     DEF vars, driveVars, statusVars, callVars, histVars, TypeOK, CallInv, PollingId,
         Calling, Ending
<1> QED
  BY <1>2, <1>3, <1>4, <1>5, <1>6, <1>7, <1>8, <1>9, <1>10, <1>11, <1>12, <1>13, <1>14, <1>15, <1>16, <1>17, <1>18, <1>19
     DEF Next, Driver

-----------------------------------------------------------------------------
\* What remains of the invariant: driver and drive are in step, and what the
\* callers were told is true.
StepInv == /\ AckedIsStored /\ ReadIsFresh
           /\ ~outOfStep => InStep /\ OnItsWay

\* What a phase says of the status register.
LEMMA Phases ==
    ASSUME TypeOK
    PROVE  /\ Resting => ~bsy /\ ~drq
           /\ Waiting => bsy /\ ~drq /\ ~err
           /\ Ready => drq /\ ~bsy /\ ~err
           /\ Failed => Resting /\ err
           /\ Sent => bsy /\ ~drq /\ ~err
           /\ Landed => ~drq
           /\ (Landed /\ ~bsy) => Resting
           /\ Late => bsy /\ ~drq
  BY DEF TypeOK, Resting, Waiting, Ready, Failed, Sent, Landed, Late

\* The phases do not change when neither the drive nor the call does.
LEMMA Frozen ==
    ASSUME UNCHANGED <<driveVars, op, lba, buf, failed>>
    PROVE  /\ Resting' <=> Resting
           /\ Waiting' <=> Waiting
           /\ Ready' <=> Ready
           /\ Failed' <=> Failed
           /\ Sent' <=> Sent
           /\ Landed' <=> Landed
           /\ Late' <=> Late
           /\ \A l : Stored(l)' = Stored(l)
<1>1. UNCHANGED <<bsy, drq, err, job, cache, media, op, lba, buf, failed>>
  BY DEF driveVars, statusVars
<1>2. \A l : Stored(l)' = Stored(l)
  BY <1>1 DEF Stored
<1>3. (Resting' <=> Resting) /\ (Waiting' <=> Waiting) /\ (Failed' <=> Failed)
  BY <1>1 DEF Resting, Waiting, Failed
<1>4. (Sent' <=> Sent) /\ (Late' <=> Late)
  BY <1>1 DEF Sent, Late
<1>5. (Ready' <=> Ready) /\ (Landed' <=> Landed)
  BY <1>1, <1>2, <1>3 DEF Ready, Landed, Resting
<1> QED
  BY <1>2, <1>3, <1>4, <1>5

\* A sent sector, or one that has landed, goes on late when the call gives up.
LEMMA SentIsLate ==
    ASSUME TypeOK, CallInv, pc \in Ending, Sent \/ Landed
    PROVE  Resting \/ Late
<1>1. buf # None
  BY AtaConstants DEF CallInv
<1> QED
  BY <1>1 DEF Sent, Landed, Late, Resting

LEMMA PollKeeps ==
    ASSUME TypeOK, CallInv, StepInv, InitSignature \/ PollBsy \/ PollDrq
    PROVE  StepInv'
<1>1. UNCHANGED <<driveVars, callVars, failed, acked>>
  BY DEF InitSignature, PollBsy, PollDrq, histVars
<1>2. UNCHANGED <<driveVars, op, lba, buf, failed>> /\ UNCHANGED <<job, acked, drive, drq, bsy, err>>
  BY <1>1 DEF callVars, driveVars, statusVars
<1>3. outOfStep => outOfStep'
  BY DEF InitSignature, PollBsy, PollDrq, histVars, TimesOut, Polls
<1>4. AckedIsStored'
  BY <1>2, <1>3, Frozen DEF StepInv, AckedIsStored
<1>5. ReadIsFresh'
  <2>1. pc' = "idle" => ret' = "AURA_ERR"
    BY DEF InitSignature, PollBsy, PollDrq, GoTo, AfterBsy, AfterDrq, Return, Polls, TimesOut
  <2> QED
    BY <2>1 DEF ReadIsFresh
<1>6. ASSUME ~outOfStep' PROVE OnItsWay'
  BY <1>2, <1>3, <1>6 DEF StepInv, OnItsWay
<1>7. ASSUME ~outOfStep' PROVE InStep'
  <2>1. InStep
    BY <1>3, <1>7 DEF StepInv
  <2>2. CASE InitSignature
    BY <1>2, <2>1, <2>2, Frozen, Phases DEF InitSignature, Return, GoTo, InStep, CallInv
  <2>3. CASE PollBsy
    <3>1. CASE ~bsy /\ GoTo(AfterBsy)
      BY <1>2, <2>1, <2>3, <3>1, Frozen, Phases DEF PollBsy, GoTo, AfterBsy, InStep
    <3>2. CASE Polls
      BY <1>2, <2>1, <2>3, <3>2, Frozen DEF PollBsy, Polls, InStep
    <3>3. CASE TimesOut
      <4>1. pc \in {"bsy", "bsy_flush"} /\ pc' = "idle" /\ ret' = "AURA_ERR"
        BY <1>7, <2>3, <3>3 DEF PollBsy, TimesOut, Return
      <4>2. Resting \/ Late
        BY <2>1, <4>1, SentIsLate DEF InStep, Ending
      <4> QED
        BY <1>2, <4>1, <4>2, Frozen DEF InStep
    <3> QED
      BY <2>3, <3>1, <3>2, <3>3 DEF PollBsy
  <2>4. CASE PollDrq
    <3>1. Ready \/ Failed
      BY <2>1, <2>4 DEF InStep, PollDrq
    <3>2. CASE err /\ Return("AURA_ERR")
      BY <1>2, <3>1, <3>2, Frozen, Phases DEF Return, InStep
    <3>3. CASE ~err /\ drq /\ GoTo(AfterDrq)
      BY <1>2, <2>4, <3>1, <3>3, Frozen, Phases DEF PollDrq, GoTo, AfterDrq, InStep
    <3> QED
      BY <2>4, <3>1, <3>2, <3>3, Phases DEF PollDrq
  <2> QED
    BY <2>2, <2>3, <2>4
<1> QED
  BY <1>4, <1>5, <1>6, <1>7 DEF StepInv

\* The calls begin with whatever the drive is still doing.
LEMMA CallKeeps ==
    ASSUME TypeOK, CallInv, StepInv,
           \/ \E l \in Lba : ReadSector(l)
           \/ \E l \in Lba, v \in Versions : WriteSector(l, v)
    PROVE  StepInv'
<1>1. /\ UNCHANGED <<bsy, drq, err, job, cache, media, outOfStep>>
      /\ pc = "idle" /\ pc' = "bsy"
  BY DEF ReadSector, WriteSector, driveVars, statusVars, histVars
<1>2. \A l \in Lba : Stored(l)' = Stored(l)
  BY <1>1 DEF Stored
<1>3. \A l \in Lba : \/ acked'[l] = acked[l] /\ (l \in failed' <=> l \in failed)
                     \/ acked'[l] = None
  BY DEF ReadSector, WriteSector, histVars, TypeOK
<1>4. AckedIsStored'
  BY <1>1, <1>2, <1>3 DEF StepInv, AckedIsStored
<1>5. ReadIsFresh'
  BY <1>1 DEF ReadIsFresh
<1>6. ASSUME ~outOfStep' PROVE InStep' /\ OnItsWay'
  <2>1. (Resting' <=> Resting) /\ (Late' <=> Late)
    BY <1>1 DEF Resting, Late
  <2>2. InStep'
    BY <1>1, <1>6, <2>1 DEF StepInv, InStep
  <2>3. OnItsWay'
    <3>1. job.lba \in Lba /\ job' = job
      BY <1>1 DEF TypeOK
    <3>2. acked[job.lba] = None => acked'[job.lba] = None
      BY <1>3, <3>1
    <3> QED
      BY <1>1, <1>6, <3>1, <3>2 DEF StepInv, OnItsWay
  <2> QED
    BY <2>2, <2>3
<1> QED
  BY <1>4, <1>5, <1>6 DEF StepInv

\* A command written while the drive rests is taken.
LEMMA CommandTaken ==
    ASSUME NEW c, NEW r, Command(c, r), ~bsy, ~drq
    PROVE  /\ job' = [cmd |-> c, lba |-> r, data |-> None]
           /\ bsy' = TRUE /\ drq' = FALSE /\ err' = FALSE
  BY DEF Command

LEMMA IdentifyKeeps ==
    ASSUME TypeOK, CallInv, StepInv, InitIdentify
    PROVE  StepInv'
<1>1. /\ UNCHANGED <<cache, media, lba, buf, acked, failed, outOfStep, regs>>
      /\ pc = "off" /\ op' = "identify" /\ regs = lba /\ ~outOfStep
  BY DEF InitIdentify, histVars, CallInv
<1>2. \A l \in Lba : Stored(l)' = Stored(l)
  BY <1>1 DEF Stored
<1>3. AckedIsStored' /\ ReadIsFresh'
  BY <1>1, <1>2 DEF StepInv, AckedIsStored, ReadIsFresh
<1>4. Resting
  BY <1>1 DEF StepInv, InStep
<1>5. CASE drive = "none" /\ pc' = "idle" /\ ret' = "AURA_ERR" /\ UNCHANGED <<job, statusVars>>
  <2>1. Resting'
    BY <1>4, <1>5 DEF Resting, statusVars
  <2>2. InStep'
    BY <1>5, <2>1 DEF InStep
  <2>3. OnItsWay'
    BY <2>1, NoJobIs DEF Resting, OnItsWay
  <2> QED
    BY <1>3, <2>2, <2>3 DEF StepInv
<1>6. CASE drive # "none" /\ pc' = "id_bsy" /\ ret' = None /\ Command("identify", regs)
  <2>1. /\ job' = [cmd |-> "identify", lba |-> regs, data |-> None]
        /\ bsy' = TRUE /\ drq' = FALSE /\ err' = FALSE
    BY <1>4, <1>6, CommandTaken DEF Resting
  <2>2. Waiting'
    BY <1>1, <2>1 DEF Waiting
  <2>3. InStep'
    BY <1>6, <2>2 DEF InStep
  <2>4. OnItsWay'
    BY <2>1 DEF OnItsWay
  <2> QED
    BY <1>3, <2>3, <2>4 DEF StepInv
<1> QED
  BY <1>5, <1>6 DEF InitIdentify

LEMMA IssueKeeps ==
    ASSUME TypeOK, CallInv, StepInv, Issue
    PROVE  StepInv'
<1>1. /\ UNCHANGED <<cache, media, op, lba, buf, acked, failed, outOfStep>>
      /\ pc = "command" /\ pc' = "bsy_data" /\ Command(op, lba)
  BY DEF Issue, histVars, callVars, GoTo
<1>2. \A l \in Lba : Stored(l)' = Stored(l)
  BY <1>1 DEF Stored
<1>3. AckedIsStored' /\ ReadIsFresh'
  BY <1>1, <1>2 DEF StepInv, AckedIsStored, ReadIsFresh
<1>4. ASSUME ~outOfStep' PROVE InStep' /\ OnItsWay'
  <2>1. Resting
    BY <1>1, <1>4 DEF StepInv, InStep
  <2>2. /\ job' = [cmd |-> op, lba |-> lba, data |-> None]
        /\ bsy' = TRUE /\ drq' = FALSE /\ err' = FALSE
    BY <1>1, <2>1, CommandTaken DEF Resting
  <2>3. Waiting'
    BY <1>1, <2>2 DEF Waiting
  <2>4. InStep'
    BY <1>1, <2>3 DEF InStep
  <2>5. OnItsWay'
    BY <2>2 DEF OnItsWay
  <2> QED
    BY <2>4, <2>5
<1> QED
  BY <1>3, <1>4 DEF StepInv

\* The transfers from the drive.
LEMMA TakeKeeps ==
    ASSUME TypeOK, CallInv, StepInv, InitConsume \/ TransferIn
    PROVE  StepInv'
<1>1. /\ UNCHANGED <<cache, media, op, lba, bsy, acked, failed, outOfStep>>
      /\ drq' = FALSE /\ job' = NoJob /\ pc' = "idle" /\ pc \in {"id_data", "data"}
  BY DEF InitConsume, TransferIn, histVars, Return
<1>2. \A l \in Lba : Stored(l)' = Stored(l)
  BY <1>1 DEF Stored
<1>3. AckedIsStored'
  BY <1>1, <1>2 DEF StepInv, AckedIsStored
<1>4. Resting'
  BY <1>1 DEF Resting, CallInv
<1>5. ASSUME ~outOfStep' PROVE InStep' /\ OnItsWay'
  BY <1>1, <1>4, NoJobIs DEF InStep, OnItsWay
<1>6. ReadIsFresh'
  <2> SUFFICES ASSUME op' = "read", ~outOfStep' PROVE buf' = Stored(lba)'
    BY DEF ReadIsFresh
  <2>1. TransferIn
    BY <1>1 DEF InitConsume, CallInv, PollingId
  <2>2. Ready
    BY <1>1 DEF StepInv, InStep
  <2>3. buf' = Stored(lba)
    BY <1>1, <2>1, <2>2 DEF TransferIn, Ready
  <2>4. Stored(lba)' = IF cache'[lba'] = None THEN media'[lba'] ELSE cache'[lba']
    BY DEF Stored
  <2>5. Stored(lba) = IF cache[lba] = None THEN media[lba] ELSE cache[lba]
    BY DEF Stored
  <2> QED
    BY <1>1, <2>3, <2>4, <2>5
<1> QED
  BY <1>3, <1>5, <1>6 DEF StepInv

LEMMA SendKeeps ==
    ASSUME TypeOK, CallInv, StepInv, TransferOut
    PROVE  StepInv'
<1>1. /\ UNCHANGED <<cache, media, op, lba, buf, acked, failed, outOfStep>>
      /\ pc = "data" /\ pc' = "flush" /\ op = "write" /\ drq' = FALSE
  BY DEF TransferOut, histVars, callVars, GoTo
<1>2. \A l \in Lba : Stored(l)' = Stored(l)
  BY <1>1 DEF Stored
<1>3. AckedIsStored' /\ ReadIsFresh'
  BY <1>1, <1>2 DEF StepInv, AckedIsStored, ReadIsFresh
<1>4. ASSUME ~outOfStep' PROVE InStep' /\ OnItsWay'
  <2>1. Ready
    BY <1>1, <1>4 DEF StepInv, InStep
  <2>2. job' = [job EXCEPT !.data = buf] /\ bsy' = TRUE /\ job.cmd = "write" /\ job.lba = lba
    BY <1>1, <2>1 DEF Ready, TransferOut
  <2>3. job'.cmd = "write" /\ job'.lba = lba /\ job'.data = buf
    BY <2>2 DEF TypeOK
  <2>4. Sent'
    BY <1>1, <2>2, <2>3 DEF Sent
  <2>5. InStep'
    BY <1>1, <2>4 DEF InStep
  <2>6. OnItsWay'
    BY <1>1, <2>3 DEF OnItsWay, CallInv, Calling
  <2> QED
    BY <2>5, <2>6
<1> QED
  BY <1>3, <1>4 DEF StepInv

LEMMA FlushKeeps ==
    ASSUME TypeOK, CallInv, StepInv, Flush
    PROVE  StepInv'
<1>1. /\ UNCHANGED <<cache, media, op, lba, buf, acked, failed, outOfStep>>
      /\ pc = "flush" /\ pc' = "bsy_flush" /\ Command("flush", regs)
  BY DEF Flush, histVars, callVars, GoTo
<1>2. (\A l \in Lba : Stored(l)' = Stored(l)) /\ lba \in Lba
  BY <1>1 DEF Stored, TypeOK
<1>3. AckedIsStored' /\ ReadIsFresh'
  BY <1>1, <1>2 DEF StepInv, AckedIsStored, ReadIsFresh
<1>4. ASSUME ~outOfStep' PROVE InStep' /\ OnItsWay'
  <2>1. Sent \/ Landed
    BY <1>1, <1>4 DEF StepInv, InStep
  <2>2. CASE UNCHANGED <<job, statusVars>>
    <3>1. Sent' \/ Landed'
      BY <1>1, <1>2, <2>1, <2>2 DEF Sent, Landed, Resting, Stored, statusVars
    <3>2. OnItsWay'
      BY <1>1, <1>4, <2>2 DEF StepInv, OnItsWay
    <3> QED
      BY <1>1, <3>1, <3>2 DEF InStep
  <2>3. CASE /\ ~bsy /\ job' = [cmd |-> "flush", lba |-> regs, data |-> None]
             /\ bsy' = TRUE /\ drq' = FALSE /\ err' = FALSE
    <3>1. Landed
      BY <2>1, <2>3 DEF Sent
    <3>2. Landed'
      BY <1>1, <1>2, <2>3, <3>1 DEF Landed, Stored
    <3>3. OnItsWay'
      BY <2>3 DEF OnItsWay
    <3> QED
      BY <1>1, <3>2, <3>3 DEF InStep
  <2> QED
    BY <1>1, <2>2, <2>3 DEF Command
<1> QED
  BY <1>3, <1>4 DEF StepInv

\* What a write returns AURA_OK for is stored, or failed unnoticed.
LEMMA WriteReturnsKeeps ==
    ASSUME TypeOK, CallInv, StepInv, WriteReturns
    PROVE  StepInv'
<1>1. /\ UNCHANGED <<driveVars, op, lba, buf, failed, outOfStep>>
      /\ pc = "done" /\ pc' = "idle" /\ acked' = [acked EXCEPT ![lba] = buf] /\ op = "write"
  BY DEF WriteReturns, callVars, Return, CallInv, Ending
<1>2. lba \in Lba /\ job' = job /\ \A l \in Lba : acked'[l] = IF l = lba THEN buf ELSE acked[l]
  BY <1>1 DEF TypeOK, driveVars
<1>3. ASSUME ~outOfStep' PROVE Landed /\ Resting /\ OnItsWay
  BY <1>1, <1>3, Phases DEF StepInv, InStep
<1>4. AckedIsStored'
  <2> SUFFICES ASSUME NEW l \in Lba, l \notin failed, acked'[l] # None, ~outOfStep'
               PROVE  Stored(l) = acked'[l]
    BY <1>1, Frozen DEF AckedIsStored
  <2>1. CASE l = lba
    BY <1>2, <1>3, <2>1 DEF Landed
  <2>2. CASE l # lba
    BY <1>1, <1>2, <2>2 DEF StepInv, AckedIsStored
  <2> QED
    BY <2>1, <2>2
<1>5. ReadIsFresh'
  BY <1>1 DEF ReadIsFresh
<1>6. ASSUME ~outOfStep' PROVE InStep' /\ OnItsWay'
  <2>1. Resting'
    BY <1>1, <1>3, <1>6, Frozen
  <2> QED
    BY <1>1, <2>1, NoJobIs DEF InStep, OnItsWay, Resting
<1> QED
  BY <1>4, <1>5, <1>6 DEF StepInv

\* The drive asks for the transfer of the command it was given.
LEMMA JobReadyKeeps ==
    ASSUME TypeOK, CallInv, StepInv, JobReady
    PROVE  StepInv'
<1>1. /\ UNCHANGED <<cache, media, err, pc, op, lba, buf, ret, acked, failed, outOfStep>>
      /\ bsy /\ bsy' = FALSE /\ drq' = TRUE /\ ~err
  BY DEF JobReady, callVars, histVars, TypeOK
<1>2. (\A l \in Lba : Stored(l)' = Stored(l)) /\ lba \in Lba
  BY <1>1 DEF Stored, TypeOK
<1>3. AckedIsStored' /\ ReadIsFresh'
  BY <1>1, <1>2 DEF StepInv, AckedIsStored, ReadIsFresh
<1>4. ASSUME ~outOfStep' PROVE InStep' /\ OnItsWay'
  <2>1. InStep
    BY <1>1, <1>4 DEF StepInv
  <2>2. ~Late /\ job.cmd # "flush" /\ (pc \in Ending => ~Sent)
    <3>1. job.cmd = "write" => job.data = None
      BY DEF JobReady
    <3>2. pc \in Ending => buf # None
      BY AtaConstants DEF CallInv
    <3> QED
      BY <3>1, <3>2 DEF JobReady, Late, Sent
  <2>3. pc \in {"id_bsy", "bsy_data"} /\ Waiting
    BY <1>1, <2>1, <2>2, Phases DEF InStep, Landed, CallInv, PollingId, Calling, Ending, Resting
  <2>4. job' \in Jobs /\ job'.cmd = op /\ job'.lba = lba
        /\ job'.data = IF op = "read" THEN Stored(lba) ELSE None
    BY <2>3, StoredIs DEF JobReady, Waiting, TypeOK, Jobs
  <2>5. Ready'
    BY <1>1, <1>2, <2>4 DEF Ready, Stored
  <2>6. InStep'
    BY <1>1, <2>3, <2>5 DEF InStep
  <2>7. OnItsWay'
    BY <2>4 DEF OnItsWay
  <2> QED
    BY <2>6, <2>7
<1> QED
  BY <1>3, <1>4 DEF StepInv

\* The drive gives up what it is doing.
LEMMA JobFailsKeeps ==
    ASSUME TypeOK, CallInv, StepInv, JobFails
    PROVE  StepInv'
<1>1. /\ UNCHANGED <<media, pc, op, lba, buf, ret, acked, outOfStep>>
      /\ bsy /\ bsy' = FALSE /\ err' = TRUE /\ drq' = FALSE /\ job' = NoJob
  BY DEF JobFails, callVars, TypeOK
<1>2. /\ failed \subseteq failed'
      /\ \A l \in Lba : Stored(l)' = Stored(l) \/ l \in failed'
  BY DEF JobFails, Stored, TypeOK
<1>3. lba \in Lba /\ Resting' /\ Failed'
  BY <1>1 DEF Resting, Failed, TypeOK
<1>4. AckedIsStored'
  BY <1>1, <1>2 DEF StepInv, AckedIsStored
<1>5. ReadIsFresh'
  <2>1. ~outOfStep => ~(pc = "idle" /\ op = "read" /\ ret = "AURA_OK")
    BY <1>1 DEF StepInv, InStep, Resting
  <2> QED
    BY <1>1, <2>1 DEF ReadIsFresh
<1>6. ASSUME ~outOfStep' PROVE InStep' /\ OnItsWay'
  <2>1. InStep
    BY <1>1, <1>6 DEF StepInv
  <2>2. pc \notin {"off", "command", "id_signature", "id_drq", "drq", "id_data", "data", "done"}
    BY <1>1, <2>1, Phases DEF InStep
  <2>3. pc \in {"flush", "bsy_flush"} => Landed'
    <3> SUFFICES ASSUME pc \in {"flush", "bsy_flush"} PROVE Landed'
      OBVIOUS
    <3>1. Sent \/ (job.cmd = "flush" /\ (Stored(lba) = buf \/ lba \in failed))
      BY <1>1, <2>1 DEF InStep, Landed, Resting
    <3>2. CASE Sent
      <4>1. job.data # None /\ job.lba = lba /\ job.cmd = "write"
        BY <3>2, AtaConstants DEF Sent, CallInv, Ending
      <4>2. lba \in failed'
        BY <4>1 DEF JobFails
      <4> QED
        BY <1>1, <1>3, <4>2 DEF Landed
    <3>3. CASE job.cmd = "flush" /\ (Stored(lba) = buf \/ lba \in failed)
      <4>1. Stored(lba)' = Stored(lba) \/ lba \in failed'
        BY <1>1, <1>2, <1>3 DEF Stored
      <4> QED
        BY <1>1, <1>2, <1>3, <3>3, <4>1 DEF Landed
    <3> QED
      BY <3>1, <3>2, <3>3
  <2>4. InStep'
    BY <1>1, <1>3, <2>2, <2>3 DEF InStep
  <2>5. OnItsWay'
    BY <1>1, NoJobIs DEF OnItsWay
  <2> QED
    BY <2>4, <2>5
<1> QED
  BY <1>4, <1>5, <1>6 DEF StepInv

\* The drive has taken the sector, or has emptied its cache.
LEMMA JobDoneKeeps ==
    ASSUME TypeOK, CallInv, StepInv, JobDone
    PROVE  StepInv'
<1>1. /\ UNCHANGED <<drq, err, pc, op, lba, buf, ret, acked, failed, outOfStep>>
      /\ bsy /\ bsy' = FALSE /\ job' = NoJob /\ ~drq
  BY DEF JobDone, callVars, histVars, TypeOK
<1>2. lba \in Lba /\ job.lba \in Lba /\ Resting'
  BY <1>1 DEF Resting, TypeOK
<1>3. /\ job.cmd = "write" \/ job.cmd = "flush"
      /\ job.cmd = "write" =>
            /\ job.data # None
            /\ \A l \in Lba : Stored(l)' = IF l = job.lba THEN job.data ELSE Stored(l)
      /\ job.cmd = "flush" => \A l \in Lba : Stored(l)' = Stored(l)
  <2>1. CASE /\ job.cmd = "write" /\ job.data # None
             /\ cache' = [cache EXCEPT ![job.lba] = job.data] /\ media' = media
    BY <1>2, <2>1 DEF Stored, TypeOK
  <2>2. CASE /\ job.cmd = "flush"
             /\ media' = [l \in Lba |-> Stored(l)] /\ cache' = [l \in Lba |-> None]
    BY <2>2 DEF Stored
  <2> QED
    BY <2>1, <2>2 DEF JobDone
<1>4. AckedIsStored'
  <2> SUFFICES ASSUME NEW l \in Lba, l \notin failed, acked[l] # None, ~outOfStep
               PROVE  Stored(l)' = acked[l]
    BY <1>1 DEF AckedIsStored
  <2>1. Stored(l) = acked[l]
    BY DEF StepInv, AckedIsStored
  <2>2. job.cmd = "write" => l # job.lba
    BY <1>3 DEF StepInv, OnItsWay
  <2> QED
    BY <1>3, <2>1, <2>2
<1>5. ReadIsFresh'
  <2>1. ~outOfStep => ~(pc = "idle" /\ op = "read" /\ ret = "AURA_OK")
    BY <1>1 DEF StepInv, InStep, Resting
  <2> QED
    BY <1>1, <2>1 DEF ReadIsFresh
<1>6. ASSUME ~outOfStep' PROVE InStep' /\ OnItsWay'
  <2>1. InStep
    BY <1>1, <1>6 DEF StepInv
  <2>2. ~Waiting
    <3> SUFFICES ASSUME Waiting PROVE FALSE
      OBVIOUS
    <3>1. op \in {"identify", "read", "write"} /\ job.cmd = op /\ job.data = None
      BY DEF Waiting, TypeOK
    <3> QED
      BY <1>3, <3>1
  <2>3. pc \notin {"off", "command", "id_bsy", "bsy_data", "id_signature", "id_drq", "drq",
                   "id_data", "data", "done"}
    BY <1>1, <2>1, <2>2, Phases DEF InStep
  <2>4. pc \in {"flush", "bsy_flush"} => Landed'
    <3> SUFFICES ASSUME pc \in {"flush", "bsy_flush"} PROVE Landed'
      OBVIOUS
    <3>1. Sent \/ (job.cmd = "flush" /\ (Stored(lba) = buf \/ lba \in failed))
      BY <1>1, <2>1 DEF InStep, Landed, Resting
    <3>2. Stored(lba)' = Stored(lba) \/ (job.cmd = "write" /\ (lba = job.lba => Stored(lba)' = job.data))
      BY <1>1, <1>2, <1>3 DEF Stored
    <3>3. CASE Sent
      <4>1. job.cmd = "write" /\ job.lba = lba /\ job.data = buf
        BY <3>3 DEF Sent
      <4>2. \A l \in Lba : l = job.lba => Stored(l)' = job.data
        BY <1>3, <4>1
      <4>3. Stored(lba)' = buf
        BY <1>1, <1>2, <4>1, <4>2 DEF Stored
      <4> QED
        BY <1>1, <1>2, <4>3 DEF Landed
    <3>4. CASE job.cmd = "flush" /\ (Stored(lba) = buf \/ lba \in failed)
      BY <1>1, <1>2, <3>2, <3>4 DEF Landed
    <3> QED
      BY <3>1, <3>3, <3>4
  <2>5. InStep'
    BY <1>1, <1>2, <2>3, <2>4 DEF InStep
  <2>6. OnItsWay'
    BY <1>1, NoJobIs DEF OnItsWay
  <2> QED
    BY <2>5, <2>6
<1> QED
  BY <1>4, <1>5, <1>6 DEF StepInv

\* A sector that moves from the cache to the medium is stored as before.
LEMMA DestageKeeps ==
    ASSUME TypeOK, CallInv, StepInv, NEW l \in Lba, Destage(l)
    PROVE  StepInv'
<1>1. UNCHANGED <<bsy, drq, err, job, pc, op, lba, buf, ret, acked, failed, outOfStep>>
  BY DEF Destage, statusVars, callVars, histVars
<1>2. \A k \in Lba : Stored(k)' = Stored(k)
  BY DEF Destage, Stored, TypeOK
<1>3. lba \in Lba /\ lba' = lba
  BY <1>1 DEF TypeOK
<1>4. Stored(lba)' = Stored(lba)
  BY <1>2, <1>3 DEF Stored
<1>5. AckedIsStored' /\ ReadIsFresh'
  BY <1>1, <1>2, <1>4 DEF StepInv, AckedIsStored, ReadIsFresh
<1>6. /\ Resting' <=> Resting
      /\ Waiting' <=> Waiting
      /\ Failed' <=> Failed
      /\ Sent' <=> Sent
      /\ Late' <=> Late
  BY <1>1 DEF Resting, Waiting, Failed, Sent, Late
<1>7. (Ready' <=> Ready) /\ (Landed' <=> Landed)
  BY <1>1, <1>4, <1>6 DEF Ready, Landed
<1>8. ASSUME ~outOfStep' PROVE InStep' /\ OnItsWay'
  BY <1>1, <1>6, <1>7, <1>8 DEF StepInv, InStep, OnItsWay
<1> QED
  BY <1>5, <1>8 DEF StepInv

\* A loss of power brings driver and drive back in step; what was acknowledged
\* and no longer in the cache is on the medium.
LEMMA PowerLossKeeps ==
    ASSUME TypeOK, CallInv, StepInv, PowerLoss
    PROVE  StepInv'
<1>1. /\ bsy' = FALSE /\ drq' = FALSE /\ job' = NoJob /\ pc' = "off"
      /\ UNCHANGED <<media, failed>> /\ cache' = [l \in Lba |-> None]
      /\ acked' = [l \in Lba |-> IF outOfStep \/ cache[l] # None THEN None ELSE acked[l]]
  BY DEF PowerLoss, PowerUp
<1>2. Resting'
  BY <1>1 DEF Resting
<1>3. InStep' /\ OnItsWay'
  BY <1>1, <1>2, NoJobIs DEF InStep, OnItsWay
<1>4. ReadIsFresh'
  BY <1>1 DEF ReadIsFresh
<1>5. AckedIsStored'
  <2> SUFFICES ASSUME NEW l \in Lba, l \notin failed', acked'[l] # None
               PROVE  Stored(l)' = acked'[l]
    BY DEF AckedIsStored
  <2>1. ~outOfStep /\ cache[l] = None /\ acked'[l] = acked[l]
    BY <1>1
  <2>2. Stored(l) = acked[l]
    BY <1>1, <2>1 DEF StepInv, AckedIsStored
  <2>3. Stored(l)' = Stored(l)
    BY <1>1, <2>1 DEF Stored
  <2> QED
    BY <2>1, <2>2, <2>3
<1> QED
  BY <1>3, <1>4, <1>5 DEF StepInv

LEMMA StepInvStep ==
    ASSUME TypeOK, CallInv, StepInv, [Next]_vars
    PROVE  StepInv'
<1>1. CASE UNCHANGED vars
  <2>1. UNCHANGED <<driveVars, op, lba, buf, failed>> /\ UNCHANGED <<bsy, job, pc, ret, acked, outOfStep>>
    BY <1>1 DEF vars, callVars, histVars, driveVars, statusVars
  <2>2. AckedIsStored' /\ ReadIsFresh'
    BY <2>1, Frozen DEF StepInv, AckedIsStored, ReadIsFresh
  <2>3. ASSUME ~outOfStep' PROVE InStep' /\ OnItsWay'
    BY <2>1, <2>3, Frozen DEF StepInv, InStep, OnItsWay
  <2> QED
    BY <2>2, <2>3 DEF StepInv
<1>2. CASE Driver
  BY <1>2, PollKeeps, IdentifyKeeps, IssueKeeps, TakeKeeps, SendKeeps, FlushKeeps, WriteReturnsKeeps
     DEF Driver
<1>3. CASE \/ \E l \in Lba : ReadSector(l)
           \/ \E l \in Lba, v \in Versions : WriteSector(l, v)
  BY <1>3, CallKeeps
<1>4. CASE JobFails \/ JobReady \/ JobDone
  BY <1>4, JobFailsKeeps, JobReadyKeeps, JobDoneKeeps
<1>5. CASE (\E l \in Lba : Destage(l)) \/ PowerLoss
  BY <1>5, DestageKeeps, PowerLossKeeps
<1> QED
  BY <1>1, <1>2, <1>3, <1>4, <1>5 DEF Next

-----------------------------------------------------------------------------
LEMMA AtaInvInit ==
    Init => AtaInv
<1> SUFFICES ASSUME Init PROVE AtaInv
  OBVIOUS
<1>1. TypeOK
  <2>1. /\ job \in Jobs /\ regs \in Lba /\ lba \in Lba
        /\ drive \in {"ata", "atapi", "none"}
        /\ pc = "off"
    BY NoJobIs DEF Init
  <2>2. cache \in [Lba -> Content \cup {None}] /\ acked \in [Lba -> Content \cup {None}]
    BY DEF Init
  <2>3. media \in [Lba -> Content]
    BY AtaConstants DEF Init, Content
  <2>4. n \in 0 .. PollMax - 1 /\ calls \in 0 .. MaxCalls
    BY AtaConstants DEF Init
  <2>5. /\ bsy \in BOOLEAN /\ drq \in BOOLEAN /\ err \in BOOLEAN /\ ~(bsy /\ (drq \/ err))
        /\ detected \in BOOLEAN /\ outOfStep \in BOOLEAN /\ failed \subseteq Lba
    BY DEF Init
  <2>6. op \in {"identify", "read", "write"} /\ buf \in Content \cup {None}
        /\ ret \in {None, "AURA_OK", "AURA_ERR"}
    BY DEF Init
  <2> QED
    BY <2>1, <2>2, <2>3, <2>4, <2>5, <2>6 DEF TypeOK, Jobs
<1>2. CallInv
  BY DEF Init, CallInv, PollingId, Calling, Ending
<1>3. AckedIsStored /\ ReadIsFresh
  BY DEF Init, AckedIsStored, ReadIsFresh
<1>4. InStep /\ OnItsWay
  BY NoJobIs DEF Init, InStep, Resting, OnItsWay
<1> QED
  BY <1>1, <1>2, <1>3, <1>4 DEF AtaInv, DriveInv

LEMMA AtaInvStep ==
    AtaInv /\ [Next]_vars => AtaInv'
<1>1. AtaInv <=> TypeOK /\ CallInv /\ StepInv
  BY DEF AtaInv, DriveInv, StepInv
<1>2. AtaInv' <=> TypeOK' /\ CallInv' /\ StepInv'
  BY DEF AtaInv, DriveInv, StepInv
<1> QED
  BY <1>1, <1>2, TypeStep, StepInvStep

-----------------------------------------------------------------------------
\* ata_write_sectors keeps the promise of its AURA_OK: what it was returned for
\* is in the cache or on the medium until the sector is written again, through
\* time-outs and failures of other calls and losses of power, for a drive of
\* any speed.
THEOREM AckedWritesAreStored ==
    Spec => []DriveInv
<1>1. AtaInv => DriveInv
  BY DEF AtaInv
<1> QED
  BY <1>1, AtaInvInit, AtaInvStep, PTL DEF Spec

\* ata_read_sectors returns AURA_OK with the content its sector then has, also
\* after writes that are still in the cache, failed or cut short by a loss of
\* power; but nothing is said of a call after one that gave up before the drive
\* had transferred its data.
THEOREM ReadsAreFresh ==
    Spec => []ReadIsFresh
<1>1. AtaInv => ReadIsFresh
  BY DEF AtaInv
<1> QED
  BY <1>1, AtaInvInit, AtaInvStep, PTL DEF Spec

\* ata_setup_lba comes before the command: every sector of data that reaches the
\* drive's cache is one meant for its place, also when ata_write_sectors gave up
\* after it had sent the data; but nothing is said of a call after one that gave
\* up before that.
THEOREM WritesHitTheirSector ==
    Spec => NoStrayWrite
<1>1. ASSUME AtaInv, [Next]_vars, NEW l \in Lba, cache'[l] \notin {None, cache[l]}
      PROVE  outOfStep \/ cache'[l].for = l
  <2>1. cache' # cache
    BY <1>1
  <2>2. JobDone
    <3>1. cache' # [k \in Lba |-> None]
      BY <1>1
    <3>2. ~(\E k \in Lba : Destage(k))
      BY <1>1 DEF Destage, AtaInv, DriveInv, TypeOK
    <3>3. ~JobFails /\ ~PowerLoss
      BY <2>1, <3>1 DEF JobFails, PowerLoss, PowerUp
    <3>4. /\ ~Driver /\ ~JobReady /\ ~UNCHANGED vars
          /\ ~(\E k \in Lba : ReadSector(k)) /\ ~(\E k \in Lba, v \in Versions : WriteSector(k, v))
      BY <2>1 DEF Driver, InitIdentify, InitSignature, InitConsume, PollBsy, PollDrq, Issue,
         TransferIn, TransferOut, Flush, WriteReturns, JobReady, ReadSector, WriteSector,
         vars, driveVars
    <3> QED
      BY <1>1, <3>2, <3>3, <3>4 DEF Next
  <2>3. job.cmd = "write" /\ job.data # None /\ cache' = [cache EXCEPT ![job.lba] = job.data]
    BY <1>1, <2>2 DEF JobDone
  <2>4. l = job.lba /\ cache'[l] = job.data
    BY <1>1, <2>3 DEF AtaInv, DriveInv, TypeOK
  <2> QED
    BY <1>1, <2>3, <2>4 DEF AtaInv, OnItsWay
<1>2. AtaInv /\ [Next]_vars =>
        [\A l \in Lba : cache'[l] \notin {None, cache[l]} => outOfStep \/ cache'[l].for = l]_vars
  BY <1>1
<1> QED
  BY <1>2, AtaInvInit, AtaInvStep, PTL DEF Spec, NoStrayWrite

-----------------------------------------------------------------------------
\* Lines and their lengths.

\* A line has a length.
LEMMA LineLenIs == ASSUME NEW line \in Line PROVE LineLen(line) \in Nat /\ LineLen(line) > 0
  BY EnvConstants DEF Line, LineLen

\* Total is what its recursive definition says.
LEMMA TotalIs ==
    ASSUME NEW lines \in Seq(Line)
    PROVE  /\ Total(lines, 0) = 0
           /\ \A i \in 0 .. Len(lines) : Total(lines, i) \in Nat
           /\ \A i \in 1 .. Len(lines) : Total(lines, i) = Total(lines, i - 1) + LineLen(lines[i])
<1> DEFINE N == Len(lines)
           Def(f) == f = [i \in 0 .. N |-> IF i = 0 THEN 0 ELSE f[i - 1] + LineLen(lines[i])]
           step == [i \in 1 .. N |-> [a \in Nat |-> a + LineLen(lines[i])]]
           sum == CHOOSE f : Def(f)
<1>1. N \in Nat /\ \A i \in 1 .. N : LineLen(lines[i]) \in Nat
  BY LineLenIs
<1>2. /\ step \in [1 .. N -> [Nat -> Nat]]
      /\ \A i \in 1 .. N, a \in Nat : step[i][a] = a + LineLen(lines[i])
  BY <1>1
<1> HIDE DEF step, N
<1>3. \E f : Def(f)
  <2>1. 0 \in Nat
    OBVIOUS
  <2>2. PICK f \in [0 .. N -> Nat] : Recurs(f, N, 0, step)
    BY <1>1, <1>2, <2>1, RecursionExists
  <2>3. \A i \in 1 .. N : f[i - 1] \in Nat /\ f[i] = f[i - 1] + LineLen(lines[i])
    <3> TAKE i \in 1 .. N
    <3>1. i - 1 \in 0 .. N /\ f[i - 1] \in Nat
      BY <1>1, <2>2
    <3> QED
      BY <1>2, <2>2, <3>1 DEF Recurs
  <2>4. Def(f)
    BY <1>1, <2>2, <2>3 DEF Recurs
  <2> QED
    BY <2>4
<1>4. Def(sum)
  BY <1>3
<1>5. \A k : Total(lines, k) = sum[k]
  BY DEF Total, N
<1> HIDE DEF sum
<1>6. sum[0] = 0 /\ \A i \in 1 .. N : sum[i] = sum[i - 1] + LineLen(lines[i])
  BY <1>1, <1>4
<1> DEFINE S == {i \in 0 .. N : sum[i] \in Nat}
<1>7. 0 .. N \subseteq S
  <2>1. 0 \in S
    BY <1>1, <1>6
  <2>2. \A i \in 1 .. N : i - 1 \in S => i \in S
    BY <1>1, <1>6
  <2> HIDE DEF S
  <2> QED
    BY <1>1, <2>1, <2>2, BoundedInduction
<1> QED
  BY <1>1, <1>5, <1>6, <1>7 DEF N

\* The lengths of a beginning of the lines are those of the lines.
LEMMA TotalPrefix ==
    ASSUME NEW lines \in Seq(Line), NEW k \in 0 .. Len(lines)
    PROVE  /\ SubSeq(lines, 1, k) \in Seq(Line) /\ Len(SubSeq(lines, 1, k)) = k
           /\ \A i \in 1 .. k : SubSeq(lines, 1, k)[i] = lines[i]
           /\ \A i \in 0 .. k : Total(SubSeq(lines, 1, k), i) = Total(lines, i)
<1> DEFINE part == SubSeq(lines, 1, k)
<1>1. part \in Seq(Line) /\ Len(part) = k /\ \A i \in 1 .. k : part[i] = lines[i]
  OBVIOUS
<1> HIDE DEF part
<1> DEFINE S == {i \in 0 .. k : Total(part, i) = Total(lines, i)}
<1>2. 0 \in S
  BY <1>1, TotalIs
<1>3. ASSUME NEW i \in 1 .. k, i - 1 \in S PROVE i \in S
  <2>1. Total(part, i) = Total(part, i - 1) + LineLen(part[i])
    BY <1>1, TotalIs
  <2>2. Total(lines, i) = Total(lines, i - 1) + LineLen(lines[i])
    BY TotalIs
  <2> QED
    BY <1>1, <1>3, <2>1, <2>2
<1> HIDE DEF S
<1>4. k \in Nat
  OBVIOUS
<1>5. 0 .. k \subseteq S
  BY <1>2, <1>3, <1>4, BoundedInduction
<1> QED
  BY <1>1, <1>5 DEF S, part

\* What env_save writes: a beginning of the table that fits its buffer.
LEMMA SerialisedIs ==
    ASSUME NEW t \in Seq(Line)
    PROVE  /\ Serialised(t) \in Seq(Line)
           /\ Total(Serialised(t), Len(Serialised(t))) \in 0 .. SectorSize - 1
<1> DEFINE S == {k \in 0 .. Len(t) : Total(t, k) < SectorSize}
           m == Max(S)
<1>1. Len(t) \in Nat /\ S \subseteq 0 .. Len(t)
  OBVIOUS
<1>2. 0 \in S
  BY <1>1, TotalIs, FatConstants
<1> HIDE DEF S
<1>3. m \in S
  BY <1>1, <1>2, MaxOfBounded
<1>4. m \in 0 .. Len(t) /\ Total(t, m) < SectorSize /\ Total(t, m) \in Nat
  BY <1>3, TotalIs DEF S
<1>5. Serialised(t) = SubSeq(t, 1, m)
  BY DEF Serialised, S
<1> HIDE DEF m
<1>6. /\ SubSeq(t, 1, m) \in Seq(Line) /\ Len(SubSeq(t, 1, m)) = m
      /\ Total(SubSeq(t, 1, m), m) = Total(t, m)
  BY <1>4, TotalPrefix
<1> QED
  BY <1>4, <1>5, <1>6, FatConstants

\* What env_load finds in the first len characters.
LEMMA ParsedIs ==
    ASSUME NEW lines \in Seq(Line), NEW len \in Nat
    PROVE  /\ Parsed(lines, len) \in Seq(Line)
           /\ len >= Total(lines, Len(lines)) => Parsed(lines, len) = lines
<1> DEFINE S == {j \in 0 .. Len(lines) : Total(lines, j) <= len}
           k == Max(S)
           left == len - Total(lines, k) - KeyLen - 1
           cut == [lines[k + 1] EXCEPT !.value.n = IF left < @ THEN left ELSE @]
           rest == IF k < Len(lines) /\ left >= 0 THEN <<cut>> ELSE <<>>
<1>1. Len(lines) \in Nat /\ S \subseteq 0 .. Len(lines)
  OBVIOUS
<1>2. 0 \in S
  BY <1>1, TotalIs
<1>3. Len(lines) \in S \/ ~(len >= Total(lines, Len(lines)))
  BY <1>1, TotalIs
<1> HIDE DEF S
<1>4. k \in S /\ \A j \in S : j <= k
  BY <1>1, <1>2, MaxOfBounded
<1>5. k \in 0 .. Len(lines) /\ Total(lines, k) \in Nat /\ Total(lines, k) <= len
  BY <1>4, TotalIs DEF S
<1>6. Parsed(lines, len) = SubSeq(lines, 1, k) \o rest
  BY Zenon DEF Parsed, S
<1> HIDE DEF k
<1>7. SubSeq(lines, 1, k) \in Seq(Line) /\ Len(SubSeq(lines, 1, k)) = k
  BY <1>5
<1>8. rest \in Seq(Line)
  <2>1. CASE k < Len(lines) /\ left >= 0
    <3>1. lines[k + 1] \in Line /\ left \in Nat
      <4>1. k + 1 \in 1 .. Len(lines)
        BY <1>5, <2>1
      <4>2. left \in Nat
        BY <1>5, <2>1, EnvConstants
      <4> QED
        BY <4>1, <4>2
    <3>2. cut \in Line
      <4> HIDE DEF left
      <4>1. lines[k + 1].value.n \in Nat
        BY <3>1 DEF Line
      <4> DEFINE new == IF left < lines[k + 1].value.n THEN left ELSE lines[k + 1].value.n
      <4>2. new \in Nat
        BY <3>1, <4>1
      <4>3. cut = [lines[k + 1] EXCEPT !.value.n = new]
        OBVIOUS
      <4> HIDE DEF new
      <4> QED
        BY <3>1, <4>2, <4>3 DEF Line
    <3> HIDE DEF cut
    <3> QED
      BY <2>1, <3>2
  <2>2. CASE ~(k < Len(lines) /\ left >= 0)
    BY <2>2
  <2> QED
    BY <2>1, <2>2
<1>9. ASSUME len >= Total(lines, Len(lines)) PROVE Parsed(lines, len) = lines
  <2>1. k = Len(lines)
    BY <1>1, <1>3, <1>4, <1>5, <1>9
  <2>2. rest = <<>>
    BY <1>1, <2>1
  <2>3. SubSeq(lines, 1, k) = lines
    BY <2>1
  <2> HIDE DEF rest
  <2> QED
    BY <1>6, <2>2, <2>3
<1> HIDE DEF rest
<1> QED
  BY <1>6, <1>7, <1>8, <1>9

-----------------------------------------------------------------------------
\* The table of variables.

Tables == {t \in Seq(Variable) : Len(t) <= EnvMax}

\* What env_save writes are lines.
LEMMA VariablesAreLines == Variable \subseteq Line /\ Tables \subseteq Seq(Line)
<1>1. Variable \subseteq Line
  BY EnvConstants DEF Variable, Line
<1> QED
  BY <1>1 DEF Tables

\* A stored value is cut to its field.
LEMMA CutIs ==
    ASSUME NEW k \in Keys, NEW v \in [word : DOMAIN WordLen, n : Nat]
    PROVE  /\ Cut(v) \in [word : DOMAIN WordLen, n : 0 .. ValLen - 1]
           /\ Var(k, Cut(v)) \in Variable
  BY EnvConstants DEF Cut, Var, Variable

\* env_set keeps the table well formed.
LEMMA EnvSetIs ==
    ASSUME NEW t \in Tables, NEW k \in Keys, NEW v \in [word : DOMAIN WordLen, n : Nat]
    PROVE  EnvSet(t, k, v) \in Tables
<1> DEFINE val == Cut(v)
           new == Var(Trunc[k], val)
           at == Min(Holding(t, k))
<1>1. val \in [word : DOMAIN WordLen, n : 0 .. ValLen - 1] /\ new \in Variable
  BY CutIs, EnvConstants
<1>2. t \in Seq(Variable) /\ Len(t) \in Nat /\ Len(t) <= EnvMax /\ EnvMax \in Nat
  BY EnvConstants DEF Tables
<1> HIDE DEF val, new
<1>3. CASE Holding(t, k) # {}
  <2>1. Holding(t, k) \subseteq 1 .. Len(t) /\ Holding(t, k) \subseteq Nat
    BY <1>2 DEF Holding
  <2>2. at \in 1 .. Len(t)
    BY <1>3, <2>1, MinOfNaturals
  <2> HIDE DEF at
  <2>3. [t[at] EXCEPT !.value = val] \in Variable
    <3>1. t[at] \in Variable
      BY <1>2, <2>2
    <3> QED
      BY <1>1, <3>1 DEF Variable
  <2>4. EnvSet(t, k, v) = [t EXCEPT ![at] = [t[at] EXCEPT !.value = val]]
    BY <1>3 DEF EnvSet, val, at
  <2> DEFINE var == [t[at] EXCEPT !.value = val]
  <2> HIDE DEF var
  <2>5. [t EXCEPT ![at] = var] \in Seq(Variable) /\ Len([t EXCEPT ![at] = var]) = Len(t)
    BY <1>2, <2>2, <2>3 DEF var
  <2> QED
    BY <1>2, <2>4, <2>5 DEF Tables, var
<1>4. CASE Holding(t, k) = {} /\ Len(t) < EnvMax
  <2>1. EnvSet(t, k, v) = Append(t, new)
    BY <1>4 DEF EnvSet, val, new
  <2> QED
    BY <1>1, <1>2, <1>4, <2>1 DEF Tables
<1>5. CASE Holding(t, k) = {} /\ ~(Len(t) < EnvMax)
  BY <1>5 DEF EnvSet
<1> QED
  BY <1>3, <1>4, <1>5

\* env_set for one line after the other is what its recursive definition says.
LEMMA SetUpToIs ==
    ASSUME NEW t \in Tables, NEW lines \in Seq(Line)
    PROVE  /\ SetUpTo(t, lines, 0) = t
           /\ \A i \in 0 .. Len(lines) : SetUpTo(t, lines, i) \in Tables
           /\ \A i \in 1 .. Len(lines) :
                 SetUpTo(t, lines, i) =
                     EnvSet(SetUpTo(t, lines, i - 1), lines[i].key, lines[i].value)
<1> DEFINE N == Len(lines)
           Set(i, a) == EnvSet(a, lines[i].key, lines[i].value)
           Def(f) == f = [i \in 0 .. N |-> IF i = 0 THEN t ELSE EnvSet(f[i - 1], lines[i].key, lines[i].value)]
           step == [i \in 1 .. N |-> [a \in Tables |-> Set(i, a)]]
           table == CHOOSE f : Def(f)
<1>1. N \in Nat /\ \A i \in 1 .. N, a \in Tables : Set(i, a) \in Tables
  <2>1. \A i \in 1 .. N : lines[i].key \in Keys /\ lines[i].value \in [word : DOMAIN WordLen, n : Nat]
    <3>1. \A i \in 1 .. N : lines[i] \in Line
      OBVIOUS
    <3> QED
      BY <3>1 DEF Line
  <2>2. ASSUME NEW i \in 1 .. N, NEW a \in Tables PROVE Set(i, a) \in Tables
    <3>1. lines[i].key \in Keys /\ lines[i].value \in [word : DOMAIN WordLen, n : Nat]
      BY <2>1
    <3> QED
      BY <3>1, EnvSetIs
  <2> QED
    BY <2>2
<1>2. \A k : SetUpTo(t, lines, k) = table[k]
  BY DEF SetUpTo
<1> HIDE DEF N
<1>3. \E f : Def(f)
  <2> HIDE DEF Set
  <2>1. /\ step \in [1 .. N -> [Tables -> Tables]]
        /\ \A i \in 1 .. N, a \in Tables : step[i][a] = Set(i, a)
    BY <1>1
  <2> HIDE DEF step
  <2>2. PICK f \in [0 .. N -> Tables] : Recurs(f, N, t, step)
    BY <1>1, <2>1, RecursionExists
  <2>3. \A i \in 1 .. N : f[i] = Set(i, f[i - 1])
    <3> TAKE i \in 1 .. N
    <3>1. i - 1 \in 0 .. N /\ f[i - 1] \in Tables
      BY <1>1, <2>2
    <3> QED
      BY <2>1, <2>2, <3>1 DEF Recurs
  <2>4. f = [i \in 0 .. N |-> IF i = 0 THEN t ELSE Set(i, f[i - 1])]
    BY <1>1, <2>2, <2>3 DEF Recurs
  <2>5. Def(f)
    BY <2>4, Zenon DEF Set
  <2> QED
    BY <2>5
<1>4. Def(table)
  BY <1>3
<1> HIDE DEF table
<1>5. table[0] = t /\ \A i \in 1 .. N : table[i] = Set(i, table[i - 1])
  BY <1>1, <1>4
<1> HIDE DEF Set
<1> DEFINE S == {i \in 0 .. N : table[i] \in Tables}
<1>6. 0 .. N \subseteq S
  <2>1. 0 \in S
    BY <1>1, <1>5
  <2>2. \A i \in 1 .. N : i - 1 \in S => i \in S
    BY <1>1, <1>5
  <2> HIDE DEF S
  <2> QED
    BY <1>1, <2>1, <2>2, BoundedInduction
<1>7. /\ table[0] = t
      /\ \A i \in 0 .. N : table[i] \in Tables
      /\ \A i \in 1 .. N : table[i] = EnvSet(table[i - 1], lines[i].key, lines[i].value)
  BY <1>5, <1>6 DEF Set
<1> QED
  BY <1>2, <1>7, Zenon DEF N

\* env_load and env_init keep the table well formed.
LEMMA SetAllIs ==
    ASSUME NEW t \in Tables, NEW lines \in Seq(Line)
    PROVE  SetAll(t, lines) \in Tables
  BY SetUpToIs DEF SetAll

LEMMA EnvInitIs == EnvInit \in Tables
<1>1. <<>> \in Tables
  BY EmptySeq, EnvConstants DEF Tables
<1> QED
  BY <1>1, SetAllIs, EnvConstants DEF EnvInit

-----------------------------------------------------------------------------
\* Twelve-bit entries in bytes.

\* The bytes of a cluster's entry, and which half of which byte is a
\* neighbour's.
LEMMA OffsetIs ==
    ASSUME NEW c \in Cluster
    PROVE  \E h \in Nat : /\ h > 0
                          /\ (c % 2 = 0 /\ c = 2 * h /\ Offset(c) = 3 * h)
                             \/ (c % 2 = 1 /\ c = 2 * h + 1 /\ Offset(c) = 3 * h + 1)
<1>1. c \in Nat /\ c >= 2
  BY FatConstants DEF Cluster
<1> DEFINE h == c \div 2
           r == c % 2
<1>2. h \in Int /\ c = 2 * h + r /\ r \in 0 .. 2 - 1
  <2>1. 2 \in Nat \ {0} /\ c \in Int
    BY <1>1
  <2> QED
    BY <2>1, DivMod, ModRange
<1>3. Offset(c) = c + h
  BY DEF Offset
<1>4. c % 2 = r
  OBVIOUS
<1> HIDE DEF h, r
<1> QED
  BY <1>1, <1>2, <1>3, <1>4

\* The value of an entry from its two bytes.
Low(a, b)  == a + 256 * (b % 16)
High(a, b) == (a \div 16) + 16 * b

\* Each is twelve bits.
LEMMA EntryValue ==
    ASSUME NEW a \in Byte, NEW b \in Byte
    PROVE  /\ (a + 256 * b) % 4096 = Low(a, b) /\ (a + 256 * b) \div 16 = High(a, b)
           /\ Low(a, b) \in 0 .. 4095 /\ High(a, b) \in 0 .. 4095
<1> USE DEF Byte
<1> DEFINE hi == b \div 16
           lo == b % 16
<1>1. hi \in 0 .. 15 /\ lo \in 0 .. 15 /\ b = 16 * hi + lo
  OBVIOUS
<1>2. Low(a, b) = a + 256 * lo
  BY DEF Low
<1> HIDE DEF hi, lo
<1>3. a + 256 * b = 4096 * hi + (a + 256 * lo) /\ a + 256 * lo \in 0 .. 4095
  BY <1>1
<1>4. (a + 256 * b) % 4096 = a + 256 * lo
  BY <1>1, <1>3
<1> DEFINE ah == a \div 16
           al == a % 16
<1>5. ah \in 0 .. 15 /\ al \in 0 .. 15 /\ a = 16 * ah + al
  OBVIOUS
<1>6. High(a, b) = ah + 16 * b
  BY DEF High
<1> HIDE DEF ah, al
<1>7. a + 256 * b = 16 * (ah + 16 * b) + al
  BY <1>5
<1>8. (a + 256 * b) \div 16 = ah + 16 * b
  <2> DEFINE x == ah + 16 * b
  <2>1. x \in Nat /\ a + 256 * b = 16 * x + al
    BY <1>5, <1>7
  <2> HIDE DEF x
  <2>2. (a + 256 * b) \div 16 = x
    BY <1>5, <2>1
  <2> QED
    BY <2>2 DEF x
<1>9. ah + 16 * b \in 0 .. 4095
  BY <1>5
<1> QED
  BY <1>2, <1>3, <1>4, <1>6, <1>8, <1>9

\* fat12_next_cluster, in and out of the table.
LEMMA NextClusterIs ==
    ASSUME NEW tab \in Table, NEW c \in Cluster
    PROVE  /\ Offset(c) + 1 \notin FatByte => NextCluster(tab, c) = 4095
           /\ Offset(c) + 1 \in FatByte =>
                /\ Offset(c) \in FatByte
                /\ NextCluster(tab, c) = IF c % 2 = 1 THEN High(tab[Offset(c)], tab[Offset(c) + 1])
                                         ELSE Low(tab[Offset(c)], tab[Offset(c) + 1])
<1> DEFINE o == Offset(c)
<1>1. o \in Nat
  BY OffsetIs
<1>2. o + 1 \in FatByte => o \in FatByte
  BY <1>1, FatConstants DEF FatByte
<1> HIDE DEF o
<1>3. ASSUME o + 1 \in FatByte
      PROVE  /\ (tab[o] + 256 * tab[o + 1]) \div 16 = High(tab[o], tab[o + 1])
             /\ (tab[o] + 256 * tab[o + 1]) % 4096 = Low(tab[o], tab[o + 1])
  <2>1. tab[o] \in Byte /\ tab[o + 1] \in Byte
    BY <1>2, <1>3 DEF Table
  <2> DEFINE a == tab[o]
             b == tab[o + 1]
  <2> HIDE DEF a, b
  <2>2. a \in Byte /\ b \in Byte
    BY <2>1 DEF a, b
  <2>3. (a + 256 * b) \div 16 = High(a, b) /\ (a + 256 * b) % 4096 = Low(a, b)
    BY <2>2, EntryValue
  <2> QED
    BY <2>3 DEF a, b
<1>4. NextCluster(tab, c) = IF o + 1 \notin FatByte THEN 4095
                            ELSE IF c % 2 = 1 THEN (tab[o] + 256 * tab[o + 1]) \div 16
                            ELSE (tab[o] + 256 * tab[o + 1]) % 4096
  BY DEF NextCluster, o
<1> DEFINE even == (tab[o] + 256 * tab[o + 1]) % 4096
           odd == (tab[o] + 256 * tab[o + 1]) \div 16
           value == NextCluster(tab, c)
<1>5. /\ o + 1 \notin FatByte => value = 4095
      /\ o + 1 \in FatByte => /\ o \in FatByte
                              /\ value = IF c % 2 = 1 THEN High(tab[o], tab[o + 1]) ELSE Low(tab[o], tab[o + 1])
  <2>1. value = IF o + 1 \notin FatByte THEN 4095 ELSE IF c % 2 = 1 THEN odd ELSE even
    BY <1>4
  <2>2. o + 1 \in FatByte => odd = High(tab[o], tab[o + 1]) /\ even = Low(tab[o], tab[o + 1])
    BY <1>3
  <2> HIDE DEF value, even, odd
  <2> QED
    BY <1>2, <2>1, <2>2
<1> QED
  BY <1>5 DEF o

\* A byte of one table and the next of another: the entry they make up is the
\* one both tables have, and it is free if both have it free.
LEMMA MixedValues ==
    ASSUME NEW a \in Byte, NEW b \in Byte, NEW x \in Byte, NEW y \in Byte,
           NEW p \in {a, x}, NEW q \in {b, y}
    PROVE  /\ Low(a, b) = Low(x, y) => Low(p, q) = Low(a, b)
           /\ High(a, b) = High(x, y) => High(p, q) = High(a, b)
           /\ (Low(a, b) = 0 /\ Low(x, y) = 0) => Low(p, q) = 0
           /\ (High(a, b) = 0 /\ High(x, y) = 0) => High(p, q) = 0
<1> USE DEF Byte
<1>1. /\ a \div 16 \in 0 .. 15 /\ x \div 16 \in 0 .. 15
      /\ b % 16 \in 0 .. 15 /\ y % 16 \in 0 .. 15
  OBVIOUS
<1>2. Low(a, b) = Low(x, y) => a = x /\ b % 16 = y % 16
  BY <1>1 DEF Low
<1>3. High(a, b) = High(x, y) => a \div 16 = x \div 16 /\ b = y
  BY <1>1 DEF High
<1>4. Low(a, b) = Low(x, y) => Low(p, q) = Low(a, b)
  BY <1>2 DEF Low
<1>5. High(a, b) = High(x, y) => High(p, q) = High(a, b)
  BY <1>3 DEF High
<1> QED
  BY <1>4, <1>5

\* The same of two tables.
LEMMA Mixed ==
    ASSUME NEW a \in Table, NEW b \in Table, NEW m \in Table,
           \A k \in FatByte : m[k] \in {a[k], b[k]}, NEW c \in Cluster
    PROVE  /\ NextCluster(a, c) = NextCluster(b, c) => NextCluster(m, c) = NextCluster(a, c)
           /\ (NextCluster(a, c) = 0 /\ NextCluster(b, c) = 0) => NextCluster(m, c) = 0
<1> DEFINE o == Offset(c)
<1>1. CASE o + 1 \notin FatByte
  BY <1>1, NextClusterIs
<1>2. CASE o + 1 \in FatByte
  <2>1. o \in FatByte
    BY <1>2, NextClusterIs
  <2>2. /\ a[o] \in Byte /\ a[o + 1] \in Byte /\ b[o] \in Byte /\ b[o + 1] \in Byte
        /\ m[o] \in {a[o], b[o]} /\ m[o + 1] \in {a[o + 1], b[o + 1]}
    BY <1>2, <2>1 DEF Table
  <2>3. /\ Low(a[o], a[o + 1]) = Low(b[o], b[o + 1]) => Low(m[o], m[o + 1]) = Low(a[o], a[o + 1])
        /\ High(a[o], a[o + 1]) = High(b[o], b[o + 1]) => High(m[o], m[o + 1]) = High(a[o], a[o + 1])
        /\ (Low(a[o], a[o + 1]) = 0 /\ Low(b[o], b[o + 1]) = 0) => Low(m[o], m[o + 1]) = 0
        /\ (High(a[o], a[o + 1]) = 0 /\ High(b[o], b[o + 1]) = 0) => High(m[o], m[o + 1]) = 0
    <3> DEFINE a0 == a[o]  a1 == a[o + 1]  b0 == b[o]  b1 == b[o + 1]  m0 == m[o]  m1 == m[o + 1]
    <3> HIDE DEF a0, a1, b0, b1, m0, m1
    <3>1. /\ a0 \in Byte /\ a1 \in Byte /\ b0 \in Byte /\ b1 \in Byte
          /\ m0 \in {a0, b0} /\ m1 \in {a1, b1}
      BY <2>2 DEF a0, a1, b0, b1, m0, m1
    <3>2. /\ Low(a0, a1) = Low(b0, b1) => Low(m0, m1) = Low(a0, a1)
          /\ High(a0, a1) = High(b0, b1) => High(m0, m1) = High(a0, a1)
          /\ (Low(a0, a1) = 0 /\ Low(b0, b1) = 0) => Low(m0, m1) = 0
          /\ (High(a0, a1) = 0 /\ High(b0, b1) = 0) => High(m0, m1) = 0
      BY <3>1, MixedValues
    <3> QED
      BY <3>2 DEF a0, a1, b0, b1, m0, m1
  <2>4. \A t \in Table : NextCluster(t, c) = IF c % 2 = 1 THEN High(t[o], t[o + 1]) ELSE Low(t[o], t[o + 1])
    BY <1>2, NextClusterIs
  <2> QED
    BY <2>3, <2>4
<1> QED
  BY <1>1, <1>2

\* The end-of-file mark, in the two halves fat12_set_cluster leaves alone.
LEMMA MarkBytes ==
    ASSUME NEW a \in Byte
    PROVE  /\ (a % 16) + ((16 * 4095) % 256) \in Byte
           /\ ((a % 16) + ((16 * 4095) % 256)) \div 16 = 15
           /\ ((a % 16) + ((16 * 4095) % 256)) % 16 = a % 16
           /\ 4095 \div 16 = 255 /\ 4095 % 256 = 255
           /\ (16 * (a \div 16)) + (4095 \div 256) \in Byte
           /\ ((16 * (a \div 16)) + (4095 \div 256)) % 16 = 15
           /\ ((16 * (a \div 16)) + (4095 \div 256)) \div 16 = a \div 16
  BY DEF Byte

\* Which bytes the entries of two clusters share.
LEMMA Neighbours ==
    ASSUME NEW c \in Cluster, NEW d \in Cluster, c # d
    PROVE  /\ Offset(c) \in Nat /\ Offset(d) \in Nat
           /\ c % 2 \in {0, 1} /\ d % 2 \in {0, 1}
           /\ c % 2 = d % 2 => /\ Offset(d) # Offset(c) /\ Offset(d) # Offset(c) + 1
                               /\ Offset(d) + 1 # Offset(c) /\ Offset(d) + 1 # Offset(c) + 1
           /\ (c % 2 = 1 /\ d % 2 = 0) => /\ Offset(d) # Offset(c) /\ Offset(d) # Offset(c) + 1
                                          /\ Offset(d) + 1 # Offset(c) + 1
           /\ (c % 2 = 0 /\ d % 2 = 1) => /\ Offset(d) + 1 # Offset(c) /\ Offset(d) + 1 # Offset(c) + 1
                                          /\ Offset(d) # Offset(c)
<1>1. PICK h \in Nat : /\ h > 0
                       /\ (c % 2 = 0 /\ c = 2 * h /\ Offset(c) = 3 * h)
                          \/ (c % 2 = 1 /\ c = 2 * h + 1 /\ Offset(c) = 3 * h + 1)
  BY OffsetIs
<1>2. PICK g \in Nat : /\ g > 0
                       /\ (d % 2 = 0 /\ d = 2 * g /\ Offset(d) = 3 * g)
                          \/ (d % 2 = 1 /\ d = 2 * g + 1 /\ Offset(d) = 3 * g + 1)
  BY OffsetIs
<1> QED
  BY <1>1, <1>2

\* fat12_set_cluster marks its cluster and leaves the others alone, the one
\* that shares a byte with it included.
LEMMA SetClusterIs ==
    ASSUME NEW tab \in Table, NEW c \in Cluster
    PROVE  /\ SetCluster(tab, c, 4095) \in Table
           /\ NextCluster(SetCluster(tab, c, 4095), c) = 4095
           /\ \A d \in Cluster \ {c} :
                 NextCluster(SetCluster(tab, c, 4095), d) = NextCluster(tab, d)
<1> DEFINE o == Offset(c)
           new == SetCluster(tab, c, 4095)
<1>1. CASE o + 1 \notin FatByte
  <2>1. new = tab
    BY <1>1 DEF SetCluster
  <2> QED
    BY <1>1, <2>1, NextClusterIs
<1>2. CASE o + 1 \in FatByte
  <2>1. o \in FatByte /\ tab[o] \in Byte /\ tab[o + 1] \in Byte /\ o \in Nat
    BY <1>2, NextClusterIs, OffsetIs DEF Table
  <2>2. CASE c % 2 = 1
    <3> DEFINE low == (tab[o] % 16) + ((16 * 4095) % 256)
    <3>1. low \in Byte /\ low \div 16 = 15 /\ low % 16 = tab[o] % 16
      BY <2>1, MarkBytes
    <3>2. new = [tab EXCEPT ![o] = low, ![o + 1] = 255]
      <4>1. 4095 \div 16 = 255
        OBVIOUS
      <4>2. new = [tab EXCEPT ![o] = (@ % 16) + ((16 * 4095) % 256), ![o + 1] = 4095 \div 16]
        BY <1>2, <2>2 DEF SetCluster
      <4> QED
        BY <2>1, <4>1, <4>2
    <3> HIDE DEF low, new, o
    <3>3. /\ new \in Table /\ new[o] = low /\ new[o + 1] = 255
          /\ \A k \in FatByte \ {o, o + 1} : new[k] = tab[k]
      <4>1. 255 \in Byte /\ o # o + 1
        BY <2>1 DEF Byte
      <4> QED
        BY <1>2, <2>1, <3>1, <3>2, <4>1 DEF Table
    <3>4. NextCluster(new, c) = 4095
      <4>1. NextCluster(new, c) = High(low, 255)
        BY <1>2, <2>2, <3>3, NextClusterIs DEF o
      <4> QED
        BY <3>1, <4>1 DEF High
    <3>5. ASSUME NEW d \in Cluster \ {c} PROVE NextCluster(new, d) = NextCluster(tab, d)
      <4> DEFINE q == Offset(d)
      <4>1. CASE q + 1 \notin FatByte
        BY <3>3, <4>1, NextClusterIs
      <4>2. CASE q + 1 \in FatByte
        <5>1. q \in FatByte /\ q \in Nat /\ d % 2 \in {0, 1}
          BY <4>2, NextClusterIs, Neighbours
        <5>2. CASE d % 2 = 1
          <6>1. q \notin {o, o + 1} /\ q + 1 \notin {o, o + 1}
            BY <2>2, <5>2, Neighbours DEF o
          <6>2. new[q] = tab[q] /\ new[q + 1] = tab[q + 1]
            BY <3>3, <4>2, <5>1, <6>1
          <6> QED
            BY <3>3, <4>2, <5>2, <6>2, NextClusterIs
        <5>3. CASE d % 2 = 0
          <6>1. q \notin {o, o + 1} /\ q + 1 # o + 1
            BY <2>2, <5>3, Neighbours DEF o
          <6>2. new[q] = tab[q]
            BY <3>3, <5>1, <6>1
          <6>3. new[q + 1] % 16 = tab[q + 1] % 16
            <7>1. CASE q + 1 = o
              BY <3>1, <3>3, <7>1
            <7>2. CASE q + 1 # o
              BY <3>3, <4>2, <6>1, <7>2
            <7> QED
              BY <7>1, <7>2
          <6>4. NextCluster(new, d) = Low(new[q], new[q + 1]) /\ NextCluster(tab, d) = Low(tab[q], tab[q + 1])
            BY <3>3, <4>2, <5>3, NextClusterIs
          <6> QED
            BY <6>2, <6>3, <6>4 DEF Low
        <5> QED
          BY <5>1, <5>2, <5>3
      <4> QED
        BY <4>1, <4>2
    <3> QED
      BY <3>3, <3>4, <3>5 DEF new
  <2>3. CASE c % 2 # 1
    <3> DEFINE high == (16 * (tab[o + 1] \div 16)) + (4095 \div 256)
    <3>0. c % 2 = 0
      BY <2>3, OffsetIs
    <3>1. high \in Byte /\ high % 16 = 15 /\ high \div 16 = tab[o + 1] \div 16
      BY <2>1, MarkBytes
    <3>2. new = [tab EXCEPT ![o] = 255, ![o + 1] = high]
      <4>1. 4095 % 256 = 255
        OBVIOUS
      <4>2. new = [tab EXCEPT ![o] = 4095 % 256, ![o + 1] = (16 * (@ \div 16)) + (4095 \div 256)]
        BY <1>2, <2>3 DEF SetCluster
      <4> QED
        BY <2>1, <4>1, <4>2
    <3> HIDE DEF high, new, o
    <3>3. /\ new \in Table /\ new[o] = 255 /\ new[o + 1] = high
          /\ \A k \in FatByte \ {o, o + 1} : new[k] = tab[k]
      <4>1. 255 \in Byte /\ o # o + 1
        BY <2>1 DEF Byte
      <4> QED
        BY <1>2, <2>1, <3>1, <3>2, <4>1 DEF Table
    <3>4. NextCluster(new, c) = 4095
      <4>1. NextCluster(new, c) = Low(255, high)
        BY <1>2, <2>3, <3>3, NextClusterIs DEF o
      <4> QED
        BY <3>1, <4>1 DEF Low
    <3>5. ASSUME NEW d \in Cluster \ {c} PROVE NextCluster(new, d) = NextCluster(tab, d)
      <4> DEFINE q == Offset(d)
      <4>1. CASE q + 1 \notin FatByte
        BY <3>3, <4>1, NextClusterIs
      <4>2. CASE q + 1 \in FatByte
        <5>1. q \in FatByte /\ q \in Nat /\ d % 2 \in {0, 1}
          BY <4>2, NextClusterIs, Neighbours
        <5>2. CASE d % 2 = 0
          <6>1. q \notin {o, o + 1} /\ q + 1 \notin {o, o + 1}
            BY <3>0, <5>2, Neighbours DEF o
          <6>2. new[q] = tab[q] /\ new[q + 1] = tab[q + 1]
            BY <3>3, <4>2, <5>1, <6>1
          <6> QED
            BY <3>3, <4>2, <5>2, <6>2, NextClusterIs
        <5>3. CASE d % 2 = 1
          <6>1. q + 1 \notin {o, o + 1} /\ q # o
            BY <3>0, <5>3, Neighbours DEF o
          <6>2. new[q + 1] = tab[q + 1]
            BY <3>3, <4>2, <6>1
          <6>3. new[q] \div 16 = tab[q] \div 16
            <7>1. CASE q = o + 1
              BY <3>1, <3>3, <7>1
            <7>2. CASE q # o + 1
              BY <3>3, <5>1, <6>1, <7>2
            <7> QED
              BY <7>1, <7>2
          <6>4. NextCluster(new, d) = High(new[q], new[q + 1]) /\ NextCluster(tab, d) = High(tab[q], tab[q + 1])
            BY <3>3, <4>2, <5>3, NextClusterIs
          <6> QED
            BY <6>2, <6>3, <6>4 DEF High
        <5> QED
          BY <5>1, <5>2, <5>3
      <4> QED
        BY <4>1, <4>2
    <3> QED
      BY <3>3, <3>4, <3>5 DEF new
  <2> QED
    BY <2>2, <2>3
<1> QED
  BY <1>1, <1>2
-----------------------------------------------------------------------------
\* The inductive invariant.

WriteState == [pc : {"idle", "data", "entry", "flush"}, entry : Entry, cluster : Nat,
               content : Seq(Line), size : 0 .. SectorSize - 1, copy : Copies,
               sector : 1 .. FatSectors]

StorageTypes == /\ StorageTypeOK
                /\ w \in WriteState /\ kept \in Seq(Line) /\ trying \in Seq(Line)
                /\ saved \in Tables

Writing == w.pc # "idle"

\* The directory as a function of its entries, and what the file says.
Seen(r)    == {e \in Entry : \A d \in 0 .. e : r[d].kind # "end"}
Matches(r) == {e \in Seen(r) : r[e].kind = "env"}
Spare(r)   == {e \in Entry : r[e].kind \in {"deleted", "end"} /\ \A d \in 0 .. e - 1 : d \in Seen(r)}
Says(r, d) == IF Matches(r) = {} THEN <<>>
              ELSE Parsed(d[r[Min(Matches(r))].cluster], Readable(r[Min(Matches(r))].size))

\* Where fat12_write_file is: it writes an entry and a cluster that are no
\* other file's, and the cache marks the cluster.
WriteAt == Writing =>
    /\ phase = "saving" /\ s_fat_loaded /\ w.cluster \in Cluster
    /\ root[w.entry].kind # "other"
    /\ root[w.entry].kind = "env" => root[w.entry].cluster = w.cluster
    /\ host.volume => w.cluster \notin Theirs
    /\ NextCluster(s_fat, w.cluster) = 4095
    /\ w.pc # "flush" => w.copy = 1 /\ w.sector = 1
    /\ \/ Matches(root) # {} /\ w.entry = Min(Matches(root))
       \/ Matches(root) = {} /\ Spare(root) # {} /\ w.entry = Min(Spare(root))

\* The cache is FAT1 from boot to the save.
CacheAt == (phase = "run" /\ s_fat_loaded) => s_fat = fat[1]

\* AIOS.ENV has none of the clusters of other files, and the cache has their
\* marks.
OthersAt == host.volume =>
    /\ \A e \in Entry : root[e].kind = "env" => root[e].cluster \notin Theirs
    /\ s_fat_loaded => \A c \in Theirs : NextCluster(s_fat, c) = NextCluster(host.fat[1], c)

Uses(r, e, c) == r[e].kind = "env" /\ r[e].cluster = c
Owned(r, c)   == c \in Theirs \cup Rest \/ \E e \in Entry : Uses(r, e, c)

\* While the drive does what it says, a mark has an owner; the cache may have
\* one more, whose entry is written before the FATs.
MarksAt == (host.volume /\ lost = 0) =>
    /\ \A f \in Copies, c \in Cluster : NextCluster(fat[f], c) # 0 => Owned(root, c)
    /\ Writing => \A c \in Cluster : NextCluster(s_fat, c) # 0 => c = w.cluster \/ Owned(root, c)

\* How far the save has come.
FlushedAt == /\ \A f \in Copies : f < w.copy => fat[f] = s_fat
             /\ \A b \in FatByte : b \div FatBytes < w.sector - 1 => fat[w.copy][b] = s_fat[b]

SaveAt == (lost = 0 /\ Writing) =>
    /\ w.content = trying /\ w.content = Serialised(env_table)
    /\ w.size = Total(trying, Len(trying))
    /\ w.pc = "data" => Says(root, data) = kept
    /\ w.pc # "data" => data[w.cluster] = trying
    /\ w.pc = "entry" => (Matches(root) = {} => kept = <<>>)
    /\ w.pc = "flush" => /\ root[w.entry] = [kind |-> "env", cluster |-> w.cluster, size |-> w.size]
                         /\ Matches(root) # {} /\ FlushedAt

StorageIInv == /\ StorageTypes /\ (phase \in {"off", "run", "halted"} => ~Writing)
               /\ WriteAt /\ CacheAt /\ OthersAt /\ MarksAt /\ SaveAt
               /\ OthersUntouched /\ OldOrNew /\ SavedIsOnDisk

-----------------------------------------------------------------------------
\* The directory.

\* The searches of the model, as operators of the directory and the data.
LEMMA AsFunctions ==
    /\ Match = Matches(root) /\ FreeEntries = Spare(root) /\ FileSays = Says(root, data)
    /\ Match' = Matches(root') /\ FileSays' = Says(root', data')
<1>1. Match = Matches(root) /\ FreeEntries = Spare(root) /\ Match' = Matches(root')
  BY DEF Match, Matches, Visible, Seen, FreeEntries, Spare
<1> QED
  BY <1>1 DEF FileSays, Says, ReadFile

\* The directory is searched from its first entry on.
LEMMA LeastEntry ==
    ASSUME NEW S, S \subseteq Entry, S # {}
    PROVE  Min(S) \in S /\ Min(S) \in Entry /\ \A e \in S : Min(S) <= e
<1>1. S \subseteq Nat
  BY FatConstants DEF Entry
<1> QED
  BY <1>1, MinOfNaturals

\* The entry that fat12_find_file finds is a file of that name.
LEMMA LeastMatch ==
    ASSUME NEW r, Matches(r) # {}
    PROVE  /\ Min(Matches(r)) \in Matches(r) /\ Min(Matches(r)) \in Entry
           /\ r[Min(Matches(r))].kind = "env" /\ \A e \in Matches(r) : Min(Matches(r)) <= e
<1>1. Matches(r) \subseteq Entry
  BY DEF Matches, Seen
<1>2. Min(Matches(r)) \in Matches(r) /\ Min(Matches(r)) \in Entry /\ \A e \in Matches(r) : Min(Matches(r)) <= e
  BY <1>1, LeastEntry
<1> QED
  BY <1>2 DEF Matches

\* The entry a new file takes is free, and none before it ends the directory.
LEMMA LeastSpare ==
    ASSUME NEW r, Spare(r) # {}
    PROVE  /\ Min(Spare(r)) \in Entry /\ r[Min(Spare(r))].kind \in {"deleted", "end"}
           /\ \A d \in 0 .. Min(Spare(r)) - 1 : d \in Seen(r)
<1>1. Spare(r) \subseteq Entry
  BY DEF Spare
<1>2. Min(Spare(r)) \in Spare(r)
  BY <1>1, LeastEntry
<1> QED
  BY <1>2 DEF Spare

\* The entry written is the one that is found from then on.
LEMMA EntryIsFound ==
    ASSUME NEW r \in [Entry -> DirEntry], NEW e \in Entry, NEW new \in DirEntry, new.kind = "env",
           \/ Matches(r) # {} /\ e = Min(Matches(r))
           \/ Matches(r) = {} /\ Spare(r) # {} /\ e = Min(Spare(r))
    PROVE  /\ Matches([r EXCEPT ![e] = new]) # {}
           /\ Min(Matches([r EXCEPT ![e] = new])) = e
<1> DEFINE r2 == [r EXCEPT ![e] = new]
<1>0. Entry = 0 .. EntryCount - 1 /\ e \in Nat /\ EntryCount \in Nat
  BY FatConstants DEF Entry
<1>1. r2[e].kind = "env" /\ \A x \in Entry \ {e} : r2[x].kind = r[x].kind
  OBVIOUS
<1>2. \A d \in 0 .. e - 1 : d \in Entry /\ r[d].kind # "end"
  <2> TAKE d \in 0 .. e - 1
  <2>1. d \in Entry /\ d \in 0 .. e /\ d \in 0 .. d
    BY <1>0
  <2>2. CASE Matches(r) # {} /\ e = Min(Matches(r))
    <3>1. e \in Seen(r)
      BY <2>2, LeastMatch DEF Matches
    <3> QED
      BY <2>1, <3>1 DEF Seen
  <2>3. CASE Matches(r) = {} /\ Spare(r) # {} /\ e = Min(Spare(r))
    <3>1. d \in Seen(r)
      BY <2>3, LeastSpare
    <3> QED
      BY <2>1, <3>1 DEF Seen
  <2> QED
    BY <2>2, <2>3
<1> HIDE DEF r2
<1>3. e \in Matches(r2)
  <2>1. \A d \in 0 .. e : r2[d].kind # "end"
    <3> TAKE d \in 0 .. e
    <3>1. CASE d = e
      BY <1>1, <3>1
    <3>2. CASE d # e
      <4>1. d \in 0 .. e - 1
        BY <1>0, <3>2
      <4>2. d \in Entry \ {e} /\ r[d].kind # "end"
        BY <1>2, <3>2, <4>1
      <4> QED
        BY <1>1, <4>2
    <3> QED
      BY <3>1, <3>2
  <2> QED
    BY <1>1, <2>1 DEF Matches, Seen
<1>4. ASSUME NEW x \in Matches(r2) PROVE e <= x
  <2> SUFFICES ASSUME ~(e <= x) PROVE FALSE
    OBVIOUS
  <2>1. x \in Entry /\ r2[x].kind = "env" /\ \A d \in 0 .. x : r2[d].kind # "end"
    BY DEF Matches, Seen
  <2>2. x \in Nat /\ x < e
    BY <1>0, <2>1
  <2>3. \A d \in 0 .. x : d \in Entry \ {e}
    BY <1>0, <2>1, <2>2
  <2>4. x \in Matches(r)
    <3>1. \A d \in 0 .. x : r[d].kind # "end"
      BY <1>1, <2>1, <2>3
    <3>2. r[x].kind = "env"
      BY <1>0, <1>1, <2>1, <2>2
    <3> QED
      BY <2>1, <3>1, <3>2 DEF Matches, Seen
  <2>5. e = Min(Matches(r))
    BY <2>4
  <2>6. e <= x
    BY <2>4, <2>5, LeastMatch
  <2> QED
    BY <2>6
<1>5. Matches(r2) # {}
  BY <1>3
<1>6. Min(Matches(r2)) \in Matches(r2) /\ Min(Matches(r2)) \in Entry /\ Min(Matches(r2)) <= e
  BY <1>3, <1>5, LeastMatch
<1>7. Min(Matches(r2)) = e
  BY <1>0, <1>4, <1>6
<1> QED
  BY <1>5, <1>7 DEF r2

\* What AIOS.ENV says once its sector holds a text that its buffer holds.
LEMMA SaysText ==
    ASSUME NEW r \in [Entry -> DirEntry], NEW d, NEW text \in Seq(Line), Matches(r) # {},
           d[r[Min(Matches(r))].cluster] = text,
           Total(text, Len(text)) < SectorSize, Total(text, Len(text)) <= r[Min(Matches(r))].size
    PROVE  Says(r, d) = text
<1> DEFINE size == r[Min(Matches(r))].size
<1>1. size \in Nat
  BY LeastMatch DEF DirEntry
<1>2. Total(text, Len(text)) \in Nat /\ SectorSize \in Nat \ {0}
  BY TotalIs, FatConstants
<1> HIDE DEF size
<1>3. Readable(size) \in Nat /\ Readable(size) >= Total(text, Len(text))
  BY <1>1, <1>2 DEF Readable, size
<1>4. Parsed(text, Readable(size)) = text
  BY <1>3, ParsedIs
<1> QED
  BY <1>4 DEF Says, size

\* AIOS.ENV is made of lines, also where it is cut off.
LEMMA SaysLines ==
    ASSUME NEW r \in [Entry -> DirEntry], NEW d \in [Cluster -> Seq(Line)],
           \A e \in Entry : r[e].kind = "env" => r[e].cluster \in Cluster
    PROVE  Says(r, d) \in Seq(Line)
<1>1. CASE Matches(r) = {}
  BY <1>1, EmptySeq DEF Says
<1>2. CASE Matches(r) # {}
  <2> DEFINE e == Min(Matches(r))
             size == r[e].size
             text == d[r[e].cluster]
  <2>1. e \in Entry /\ r[e].kind = "env"
    BY <1>2, LeastMatch
  <2> HIDE DEF e
  <2>2. size \in Nat /\ text \in Seq(Line)
    BY <2>1 DEF DirEntry
  <2> HIDE DEF size, text
  <2>3. Readable(size) \in Nat
    BY <2>2, FatConstants DEF Readable
  <2>4. Parsed(text, Readable(size)) \in Seq(Line)
    BY <2>2, <2>3, ParsedIs
  <2> QED
    BY <1>2, <2>4 DEF Says, e, size, text
<1> QED
  BY <1>1, <1>2

\* Between calls fat12_write_file has no locals.
LEMMA NotWritingIs == NotWriting \in WriteState /\ NotWriting.pc = "idle"
<1>1. <<>> \in Seq(Line)
  BY EmptySeq
<1>2. 0 \in Entry /\ 1 \in 1 .. FatSectors /\ 0 \in 0 .. SectorSize - 1 /\ 1 \in Copies
  BY FatConstants DEF Entry, Copies
<1> QED
  BY <1>1, <1>2 DEF NotWriting, WriteState

\* What the host left stays what it was.
LEMMA HostIs ==
    ASSUME UNCHANGED host
    PROVE  /\ Theirs' = Theirs /\ Rest' = Rest /\ host' = host
           /\ UNCHANGED root => \A c \in Cluster : Owned(root, c) => Owned(root, c)'
<1>1. Theirs' = Theirs /\ Rest' = Rest
  BY DEF Theirs, Rest
<1> QED
  BY <1>1 DEF Owned, Uses

\* A disk that the kernel has not touched.
LEMMA StorageStart == StorageInit => StorageIInv
<1> SUFFICES ASSUME StorageInit PROVE StorageIInv
  OBVIOUS
<1>1. host \in Disks /\ root = host.root /\ fat = host.fat /\ data = host.data
  BY DEF StorageInit, FatInit
<1>2. /\ root \in [Entry -> DirEntry] /\ fat \in [Copies -> Table]
      /\ \A e \in Entry : root[e].kind = "env" => root[e].cluster \in Cluster
      /\ host.chain \in Seq(Cluster) /\ (host.volume => Sound(host))
  BY <1>1, DisksAreBytes, VolumesAreSound
<1>3. data \in [Cluster -> Seq(Line)]
  BY <1>1, EnvConstants
<1>4. /\ s_fat_loaded = FALSE /\ w = NotWriting /\ written = 0 /\ lost = 0
      /\ env_table = EnvInit /\ phase = "off" /\ message = "none" /\ load_ret = -1
      /\ kept = FileSays /\ trying = FileSays /\ saved = <<>>
  BY DEF StorageInit, FatInit
<1>5. s_fat \in Table
  BY DEF StorageInit, FatInit, Zeroed, Table, Byte
<1>6. StorageTypes
  <2>1. EnvInit \in Seq(Variable) /\ Len(EnvInit) <= EnvMax
    BY EnvInitIs DEF Tables
  <2>2. StorageTypeOK
    <3>1. written \in -1 .. SectorSize - 1 /\ lost \in 0 .. MaxLost
      BY <1>4, FatConstants
    <3> QED
      BY <1>2, <1>3, <1>4, <1>5, <2>1, <3>1, NotWritingIs DEF StorageTypeOK
  <2>3. FileSays \in Seq(Line)
    BY <1>2, <1>3, AsFunctions, SaysLines
  <2>4. <<>> \in Tables
    BY EmptySeq, EnvConstants DEF Tables
  <2> QED
    BY <1>4, <2>2, <2>3, <2>4, NotWritingIs DEF StorageTypes
<1>7. ~Writing /\ WriteAt /\ CacheAt /\ SaveAt
  BY <1>4, NotWritingIs DEF Writing, WriteAt, CacheAt, SaveAt
<1>8. ASSUME host.volume
      PROVE  /\ fat[1] = fat[2]
             /\ \A e \in Entry : root[e].kind = "env" => host.chain # <<>> /\ root[e].cluster = host.chain[1]
             /\ host.chain # <<>> => \E e \in Entry : Uses(root, e, host.chain[1])
  BY <1>1, <1>2, <1>8 DEF Sound, Uses
<1>9. /\ DOMAIN host.chain = 1 .. Len(host.chain) /\ Len(host.chain) \in Nat
      /\ Range(host.chain) = {host.chain[i] : i \in DOMAIN host.chain}
      /\ host.chain # <<>> => 1 \in DOMAIN host.chain
  BY <1>2 DEF Range
<1>11. OthersAt
  <2>1. \A e \in Entry : (host.volume /\ root[e].kind = "env") => root[e].cluster \in Range(host.chain)
    BY <1>8, <1>9
  <2> QED
    BY <1>4, <2>1 DEF OthersAt, Theirs
<1>12. OthersUntouched
  BY <1>1, <1>8 DEF OthersUntouched, Copies
<1>13. MarksAt
  <2>1. ASSUME host.volume, NEW c \in Cluster, NextCluster(fat[1], c) # 0 PROVE Owned(root, c)
    <3>1. CASE c \notin Range(host.chain)
      BY <1>1, <2>1, <3>1 DEF Owned, Theirs
    <3>2. CASE c \in Range(host.chain)
      <4>1. PICK i \in 1 .. Len(host.chain) : c = host.chain[i]
        BY <1>9, <3>2
      <4>2. CASE i = 1
        <5>1. host.chain # <<>>
          BY <1>9, <4>1
        <5> QED
          BY <1>8, <2>1, <4>1, <4>2, <5>1 DEF Owned
      <4>3. CASE i # 1
        <5>1. i \in 2 .. Len(host.chain)
          BY <1>9, <4>1, <4>3
        <5> QED
          BY <4>1, <5>1 DEF Owned, Rest
      <4> QED
        BY <4>2, <4>3
    <3> QED
      BY <3>1, <3>2
  <2> QED
    BY <1>7, <1>8, <2>1 DEF MarksAt, Copies
<1>10. OldOrNew /\ SavedIsOnDisk
  BY <1>4 DEF OldOrNew, SavedIsOnDisk
<1> QED
  BY <1>6, <1>7, <1>10, <1>11, <1>12, <1>13 DEF StorageIInv

\* The file says what it said when neither the directory nor the data changed.
LEMMA SaysTheSame ==
    ASSUME UNCHANGED <<root, data>>
    PROVE  FileSays' = FileSays
  BY DEF FileSays, ReadFile, Match, Visible

\* What holds of the file then still does.
LEMMA OldOrNewKept ==
    ASSUME OldOrNew, UNCHANGED <<root, data, kept, trying, lost>>
    PROVE  OldOrNew'
<1>1. ReadFile' = ReadFile
  BY DEF ReadFile, Match, Visible
<1> QED
  BY <1>1, SaysTheSame DEF OldOrNew

\* So do the facts about the other files and the marks.
LEMMA MarksKept ==
    ASSUME OthersAt, OthersUntouched, MarksAt, UNCHANGED <<root, fat, data, s_fat, lost, host>>,
           s_fat_loaded' => s_fat_loaded, ~Writing' \/ UNCHANGED w
    PROVE  OthersAt' /\ OthersUntouched' /\ MarksAt'
<1>1. /\ Theirs' = Theirs /\ Rest' = Rest
      /\ \A c \in Cluster : Owned(root, c) => Owned(root, c)'
  BY HostIs
<1>2. OthersAt' /\ OthersUntouched'
  BY <1>1 DEF OthersAt, OthersUntouched
<1>3. MarksAt'
  BY <1>1 DEF MarksAt, Writing
<1> QED
  BY <1>2, <1>3

\* An operation that leaves the volume and its driver alone.
LEMMA DiskAlone ==
    ASSUME UNCHANGED <<fatVars, phase, kept, trying>>, StorageIInv
    PROVE  /\ WriteAt' /\ CacheAt' /\ OthersAt' /\ OthersUntouched' /\ MarksAt' /\ OldOrNew'
           /\ (phase \in {"off", "run", "halted"} => ~Writing)'
<1>1. UNCHANGED <<root, fat, data, s_fat, s_fat_loaded, w, lost, host, phase, kept, trying>>
  BY DEF fatVars, diskVars
<1>2. WriteAt /\ CacheAt /\ OthersAt /\ OthersUntouched /\ MarksAt /\ OldOrNew
  BY DEF StorageIInv
<1>3. WriteAt' /\ CacheAt'
  BY <1>1, <1>2, HostIs DEF WriteAt, CacheAt, Writing
<1>4. OthersAt' /\ OthersUntouched' /\ MarksAt' /\ OldOrNew'
  BY <1>1, <1>2, MarksKept, OldOrNewKept
<1> QED
  BY <1>1, <1>3, <1>4 DEF StorageIInv, Writing

\* env_set, and mirror_restore.
LEMMA StorageSet ==
    ASSUME StorageIInv,
           Restore \/ \E k \in Keys, word \in DOMAIN WordLen : SetVariable(k, word)
    PROVE  StorageIInv'
<1>1. /\ UNCHANGED <<fatVars, phase, message, kept, trying, saved>> /\ phase = "run"
      /\ load_ret' = -1
  BY DEF Restore, SetVariable
<1>2. env_table' \in Tables
  <2>1. CASE Restore
    BY <2>1, EnvInitIs DEF Restore
  <2>2. ASSUME NEW k \in Keys, NEW word \in DOMAIN WordLen, SetVariable(k, word)
        PROVE env_table' \in Tables
    <3>1. env_table \in Tables
      BY DEF StorageIInv, StorageTypes, StorageTypeOK, Tables
    <3>2. Whole(word) \in [word : DOMAIN WordLen, n : Nat]
      BY EnvConstants DEF Whole
    <3> QED
      BY <2>2, <3>1, <3>2, EnvSetIs DEF SetVariable
  <2> QED
    BY <2>1, <2>2
<1>3. StorageTypes'
  <2>1. env_table' \in Seq(Variable) /\ Len(env_table') <= EnvMax
    BY <1>2 DEF Tables
  <2> QED
    BY <1>1, <2>1 DEF StorageIInv, StorageTypes, StorageTypeOK, fatVars, diskVars
<1>4. SaveAt' /\ SavedIsOnDisk'
  <2>1. phase' = "run" /\ ~Writing'
    BY <1>1 DEF StorageIInv, fatVars, diskVars, Writing
  <2> QED
    BY <2>1 DEF SaveAt, SavedIsOnDisk
<1> QED
  BY <1>1, <1>3, <1>4, DiskAlone DEF StorageIInv

\* kernel_shutdown and kernel_panic after env_save.
LEMMA StorageHalt ==
    ASSUME StorageIInv, Shutdown \/ Panic
    PROVE  StorageIInv'
<1>1. /\ UNCHANGED <<fatVars, env_table, load_ret, kept, trying>>
      /\ phase = "saving" /\ phase' = "halted" /\ w.pc = "idle"
      /\ saved' = Recorded(IF written >= 0 THEN env_table ELSE <<>>)
      /\ message' \in {message, "saved", "skipped"}
  BY DEF Shutdown, Panic, Said
<1>2. saved' \in Tables
  <2>1. <<>> \in Tables /\ env_table \in Tables
    BY EmptySeq, EnvConstants DEF Tables, StorageIInv, StorageTypes, StorageTypeOK
  <2> QED
    BY <1>1, <2>1 DEF Recorded
<1>3. StorageTypes'
  BY <1>1, <1>2 DEF StorageIInv, StorageTypes, StorageTypeOK, fatVars, diskVars
<1>4. ~Writing'
  BY <1>1 DEF fatVars, Writing
<1>5. WriteAt' /\ CacheAt' /\ SaveAt'
  BY <1>1, <1>4 DEF WriteAt, CacheAt, SaveAt
<1>6. UNCHANGED <<root, fat, data, s_fat, s_fat_loaded, w, written, lost, host, kept, trying>>
  BY <1>1 DEF fatVars, diskVars
<1>7. OthersAt' /\ OthersUntouched' /\ MarksAt' /\ OldOrNew'
  BY <1>6, MarksKept, OldOrNewKept DEF StorageIInv
<1>8. SavedIsOnDisk'
  <2>1. SavedIsOnDisk /\ Match' = Match
    BY <1>6 DEF StorageIInv, Match, Visible
  <2> QED
    BY <1>1, <1>6, <2>1, SaysTheSame DEF SavedIsOnDisk
<1> QED
  BY <1>3, <1>4, <1>5, <1>7, <1>8 DEF StorageIInv

\* The power goes, in the middle of a write or not.
LEMMA StoragePowerOff ==
    ASSUME StorageIInv, PowerOff
    PROVE  StorageIInv'
<1>1. /\ UNCHANGED <<root, fat, data, lost, host, kept, trying, saved>>
      /\ phase' = "off" /\ w' = NotWriting /\ s_fat' = Zeroed /\ s_fat_loaded' = FALSE
      /\ written' = 0 /\ env_table' = EnvInit /\ load_ret' = -1 /\ message' = "none"
  BY DEF PowerOff, Forget, diskVars
<1>2. StorageTypes'
  <2>1. EnvInit \in Seq(Variable) /\ Len(EnvInit) <= EnvMax
    BY EnvInitIs DEF Tables
  <2>2. Zeroed \in Table
    BY DEF Zeroed, Table, Byte
  <2>3. written' \in -1 .. SectorSize - 1
    BY <1>1, FatConstants
  <2>4. StorageTypeOK'
    BY <1>1, <2>1, <2>2, <2>3, NotWritingIs DEF StorageIInv, StorageTypes, StorageTypeOK
  <2> QED
    BY <1>1, <2>4, NotWritingIs DEF StorageIInv, StorageTypes
<1>3. ~Writing'
  BY <1>1, NotWritingIs DEF Writing
<1>4. WriteAt' /\ CacheAt' /\ SaveAt' /\ SavedIsOnDisk'
  BY <1>1, <1>3 DEF WriteAt, CacheAt, SaveAt, SavedIsOnDisk
<1>5. OthersAt' /\ OthersUntouched' /\ MarksAt'
  BY <1>1, <1>3, HostIs DEF StorageIInv, OthersAt, OthersUntouched, MarksAt
<1>6. OldOrNew'
  BY <1>1, OldOrNewKept DEF StorageIInv
<1> QED
  BY <1>2, <1>3, <1>4, <1>5, <1>6 DEF StorageIInv

\* AIOS.ENV is made of lines, whatever its length.
LEMMA FileSaysLines ==
    ASSUME StorageIInv
    PROVE  FileSays \in Seq(Line)
  BY AsFunctions, SaysLines DEF StorageIInv, StorageTypes, StorageTypeOK

\* kernel_main.
LEMMA StorageBoot ==
    ASSUME StorageIInv, Boot
    PROVE  StorageIInv'
<1>1. /\ UNCHANGED <<root, fat, data, w, written, lost, host>>
      /\ phase = "off" /\ phase' = "run" /\ message' = "none"
      /\ kept' = Recorded(FileSays) /\ trying' = Recorded(FileSays) /\ saved' = <<>>
  BY DEF Boot, diskVars
<1>2. (s_fat' = fat[1] /\ s_fat_loaded' = TRUE) \/ (s_fat' = s_fat /\ s_fat_loaded' = FALSE)
  BY DEF Boot, Mount, MountFails
<1>3. load_ret' \in {-1, 0} /\ env_table' \in {EnvInit, SetAll(EnvInit, FileSays)}
  BY DEF Boot
<1>4. StorageTypes'
  <2>1. env_table' \in Seq(Variable) /\ Len(env_table') <= EnvMax
    <3>1. SetAll(EnvInit, FileSays) \in Tables
      BY EnvInitIs, SetAllIs, FileSaysLines
    <3>2. env_table' \in Tables
      BY <1>3, <3>1, EnvInitIs
    <3> QED
      BY <3>2 DEF Tables
  <2>2. s_fat' \in Table /\ s_fat_loaded' \in BOOLEAN
    <3>1. fat \in [Copies -> Table] /\ s_fat \in Table /\ 1 \in Copies
      BY DEF StorageIInv, StorageTypes, StorageTypeOK, Copies
    <3>2. fat[1] \in Table
      BY <3>1
    <3> QED
      BY <1>2, <3>1, <3>2, Zenon
  <2>3. StorageTypeOK'
    BY <1>1, <1>3, <2>1, <2>2 DEF StorageIInv, StorageTypes, StorageTypeOK
  <2>4. <<>> \in Seq(Line) /\ <<>> \in Tables
    BY EmptySeq, EnvConstants DEF Tables
  <2> QED
    BY <1>1, <2>3, <2>4, FileSaysLines DEF StorageIInv, StorageTypes, Recorded
<1>5. ~Writing'
  BY <1>1 DEF StorageIInv, Writing
<1>6. WriteAt' /\ SaveAt' /\ SavedIsOnDisk' /\ CacheAt'
  BY <1>1, <1>2, <1>5 DEF WriteAt, CacheAt, SaveAt, SavedIsOnDisk
<1>7. OthersAt' /\ OthersUntouched' /\ MarksAt'
  <2>1. /\ Theirs' = Theirs /\ (UNCHANGED root => \A c \in Cluster : Owned(root, c) => Owned(root, c)')
        /\ 1 \in Copies
    BY <1>1, HostIs DEF Copies
  <2>2. OthersAt' /\ OthersUntouched'
    BY <1>1, <1>2, <2>1 DEF StorageIInv, OthersAt, OthersUntouched
  <2> QED
    BY <1>1, <1>5, <2>1, <2>2 DEF StorageIInv, MarksAt
<1>8. OldOrNew'
  BY <1>1, SaysTheSame DEF OldOrNew, Recorded, StorageIInv, StorageTypes, StorageTypeOK
<1> QED
  BY <1>4, <1>5, <1>6, <1>7, <1>8 DEF StorageIInv

\* env_save finds no room, or no volume.
LEMMA StorageRefused ==
    ASSUME StorageIInv, SaveBegin, WriteRefused
    PROVE  StorageIInv'
<1>1. /\ UNCHANGED <<root, fat, data, s_fat, s_fat_loaded, w, lost, host, env_table, message>>
      /\ phase = "run" /\ phase' = "saving" /\ written' = -1 /\ load_ret' = -1 /\ saved' = <<>>
      /\ kept' = Recorded(FileSays) /\ trying' = Recorded(Serialised(env_table))
  BY DEF SaveBegin, WriteRefused, diskVars
<1>2. StorageTypes'
  <2>1. Serialised(env_table) \in Seq(Line) /\ <<>> \in Seq(Line) /\ <<>> \in Tables
    <3>1. env_table \in Seq(Line)
      BY VariablesAreLines DEF StorageIInv, StorageTypes, StorageTypeOK, Tables
    <3> QED
      BY <3>1, SerialisedIs, EmptySeq, EnvConstants DEF Tables
  <2>2. written' \in -1 .. SectorSize - 1
    BY <1>1, FatConstants
  <2>3. StorageTypeOK'
    BY <1>1, <2>2 DEF StorageIInv, StorageTypes, StorageTypeOK
  <2> QED
    BY <1>1, <2>1, <2>3, FileSaysLines DEF StorageIInv, StorageTypes, Recorded
<1>3. ~Writing'
  BY <1>1 DEF StorageIInv, Writing
<1>4. WriteAt' /\ CacheAt' /\ SaveAt'
  BY <1>1, <1>3 DEF WriteAt, CacheAt, SaveAt
<1>5. SavedIsOnDisk'
  BY <1>1 DEF SavedIsOnDisk
<1>6. OthersAt' /\ OthersUntouched' /\ MarksAt'
  BY <1>1, <1>3, MarksKept DEF StorageIInv
<1>7. OldOrNew'
  BY <1>1, SaysTheSame DEF OldOrNew, Recorded, StorageIInv, StorageTypes, StorageTypeOK
<1> QED
  BY <1>1, <1>2, <1>3, <1>4, <1>5, <1>6, <1>7 DEF StorageIInv

\* env_save finds an entry and a cluster: they are no other file's, since the
\* cache is FAT1 and FAT1 marks every other file.
LEMMA StorageBegin ==
    ASSUME StorageIInv, SaveBegin,
           LET lines == Serialised(env_table) IN WriteBegin(lines, Total(lines, Len(lines)))
    PROVE  StorageIInv'
<1> DEFINE lines == Serialised(env_table)
           size == Total(lines, Len(lines))
           e == IF Found THEN Min(Match) ELSE Min(FreeEntries)
           cl == IF Found THEN root[e].cluster ELSE Min(FreeClusters)
           new == [NotWriting EXCEPT !.pc = "data", !.entry = e, !.cluster = cl, !.content = lines, !.size = size]
<1>1. /\ UNCHANGED <<root, fat, data, s_fat_loaded, written, lost, host, env_table, message>>
      /\ phase = "run" /\ phase' = "saving" /\ load_ret' = -1 /\ saved' = <<>>
      /\ kept' = Recorded(FileSays) /\ trying' = Recorded(lines)
  BY DEF SaveBegin, WriteBegin, diskVars
<1>2. /\ s_fat_loaded /\ (Found \/ (FreeEntries # {} /\ FreeClusters # {}))
      /\ w' = new /\ s_fat' = SetCluster(s_fat, cl, 4095)
  BY DEF WriteBegin
<1>3. /\ root \in [Entry -> DirEntry] /\ s_fat \in Table /\ s_fat = fat[1]
      /\ \A x \in Entry : root[x].kind = "env" => root[x].cluster \in Cluster
  BY <1>1, <1>2 DEF StorageIInv, StorageTypes, StorageTypeOK, CacheAt
<1>4. lines \in Seq(Line) /\ size \in 0 .. SectorSize - 1
  <2>1. env_table \in Seq(Line)
    BY VariablesAreLines DEF StorageIInv, StorageTypes, StorageTypeOK, Tables
  <2> QED
    BY <2>1, SerialisedIs
<1> HIDE DEF lines, size
<1>5. /\ e \in Entry /\ cl \in Cluster /\ root[e].kind # "other"
      /\ root[e].kind = "env" => root[e].cluster = cl
      /\ host.volume => cl \notin Theirs
      /\ \/ Matches(root) # {} /\ e = Min(Matches(root))
         \/ Matches(root) = {} /\ Spare(root) # {} /\ e = Min(Spare(root))
  <2>1. CASE Found
    <3>1. e = Min(Matches(root)) /\ cl = root[e].cluster /\ Matches(root) # {}
      BY <2>1, AsFunctions DEF Found
    <3> HIDE DEF e, cl
    <3>2. e \in Entry /\ root[e].kind = "env"
      BY <3>1, LeastMatch
    <3>3. host.volume => cl \notin Theirs
      BY <3>1, <3>2 DEF StorageIInv, OthersAt
    <3> QED
      BY <1>3, <3>1, <3>2, <3>3
  <2>2. CASE ~Found
    <3>1. /\ e = Min(Spare(root)) /\ cl = Min(FreeClusters) /\ Matches(root) = {}
          /\ Spare(root) # {} /\ FreeClusters # {}
      BY <1>2, <2>2, AsFunctions DEF Found
    <3> HIDE DEF e, cl
    <3>2. e \in Entry /\ root[e].kind \in {"deleted", "end"}
      BY <3>1, LeastSpare
    <3>3. cl \in Cluster /\ NextCluster(s_fat, cl) = 0
      <4>1. FreeClusters \subseteq Nat
        BY FatConstants DEF FreeClusters, Cluster
      <4>2. cl \in FreeClusters
        BY <3>1, <4>1, MinOfNaturals
      <4> QED
        BY <4>2 DEF FreeClusters
    <3>4. host.volume => cl \notin Theirs
      BY <1>2, <3>3 DEF StorageIInv, OthersAt, Theirs
    <3> QED
      BY <3>1, <3>2, <3>3, <3>4
  <2> QED
    BY <2>1, <2>2
<1> HIDE DEF e, cl
<1>6. /\ w' \in WriteState /\ w'.pc = "data" /\ w'.entry = e /\ w'.cluster = cl
      /\ w'.content = lines /\ w'.size = size /\ w'.copy = 1 /\ w'.sector = 1
  <2>1. cl \in Nat
    BY <1>5, FatConstants DEF Cluster
  <2>2. w' = [pc |-> "data", entry |-> e, cluster |-> cl, content |-> lines, size |-> size,
               copy |-> 1, sector |-> 1]
    BY <1>2, Zenon DEF NotWriting
  <2>3. 1 \in Copies /\ 1 \in 1 .. FatSectors
    BY FatConstants DEF Copies
  <2> QED
    BY <1>4, <1>5, <2>1, <2>2, <2>3 DEF WriteState
<1>7. /\ s_fat' \in Table /\ NextCluster(s_fat', cl) = 4095
      /\ \A c \in Cluster \ {cl} : NextCluster(s_fat', c) = NextCluster(s_fat, c)
  BY <1>2, <1>3, <1>5, SetClusterIs
<1>8. StorageTypes'
  <2>1. <<>> \in Seq(Line) /\ <<>> \in Tables
    BY EmptySeq, EnvConstants DEF Tables
  <2>2. StorageTypeOK'
    BY <1>1, <1>6, <1>7 DEF StorageIInv, StorageTypes, StorageTypeOK
  <2> QED
    BY <1>1, <1>4, <1>6, <2>1, <2>2, FileSaysLines DEF StorageTypes, Recorded
<1>9. WriteAt' /\ Theirs' = Theirs /\ (\A c \in Cluster : Owned(root, c) => Owned(root, c)')
  <2>1. Theirs' = Theirs /\ (\A c \in Cluster : Owned(root, c) => Owned(root, c)')
    BY <1>1, HostIs
  <2> QED
    BY <1>1, <1>2, <1>5, <1>6, <1>7, <2>1 DEF WriteAt
<1>10. CacheAt' /\ SavedIsOnDisk'
  BY <1>1, <1>6 DEF CacheAt, SavedIsOnDisk
<1>11. OthersAt' /\ OthersUntouched'
  <2>1. ASSUME host.volume, NEW c \in Theirs
        PROVE  NextCluster(s_fat', c) = NextCluster(host.fat[1], c)
    <3>1. c \in Cluster \ {cl} /\ NextCluster(s_fat, c) = NextCluster(host.fat[1], c)
      BY <1>2, <1>5, <2>1 DEF StorageIInv, OthersAt, Theirs
    <3> QED
      BY <1>7, <3>1
  <2> QED
    BY <1>1, <1>9, <2>1 DEF StorageIInv, OthersAt, OthersUntouched
<1>12. MarksAt'
  <2>1. ASSUME host.volume, lost = 0, NEW c \in Cluster, NextCluster(s_fat', c) # 0, c # cl
        PROVE  Owned(root, c)
    <3>1. NextCluster(fat[1], c) # 0 /\ 1 \in Copies
      BY <1>3, <1>7, <2>1 DEF Copies
    <3> QED
      BY <2>1, <3>1 DEF StorageIInv, MarksAt
  <2> QED
    BY <1>1, <1>6, <1>9, <2>1 DEF StorageIInv, MarksAt
<1>13. SaveAt'
  <2>1. lost' = 0 => trying' = lines /\ kept' = Says(root, data)
    BY <1>1, AsFunctions DEF Recorded
  <2> QED
    BY <1>1, <1>6, <2>1 DEF SaveAt, lines, size
<1>14. OldOrNew'
  BY <1>1, SaysTheSame DEF OldOrNew, Recorded, StorageIInv, StorageTypes, StorageTypeOK
<1>15. (phase \in {"off", "run", "halted"} => ~Writing)'
  BY <1>1
<1> QED
  BY <1>8, <1>9, <1>10, <1>11, <1>12, <1>13, <1>14, <1>15 DEF StorageIInv

-----------------------------------------------------------------------------
\* The sector writes of fat12_write_file.

\* What the outcome of a write means for the history.
Counted(o) == IF o.ok /\ ~o.done THEN lost < MaxLost /\ lost' = lost + 1 ELSE lost' = lost

LEMMA OutcomeIs ==
    ASSUME StorageIInv, SaveStep, NEW o \in Outcome, Counted(o)
    PROVE  /\ UNCHANGED <<env_table, phase, message, load_ret, saved, host>> /\ phase = "saving"
           /\ lost' \in 0 .. MaxLost /\ kept' \in Seq(Line) /\ trying' \in Seq(Line)
           /\ lost' = 0 \/ lost' > 0
           /\ lost' = 0 => lost = 0 /\ (o.ok => o.done) /\ kept' = kept /\ trying' = trying
<1>1. lost \in 0 .. MaxLost /\ MaxLost \in Nat /\ kept \in Seq(Line) /\ trying \in Seq(Line)
  BY FatConstants DEF StorageIInv, StorageTypes, StorageTypeOK
<1>2. /\ lost' \in 0 .. MaxLost /\ (lost' = 0 \/ lost' > 0)
      /\ lost' = 0 => lost = 0 /\ (o.ok => o.done)
  BY <1>1 DEF Counted
<1>3. <<>> \in Seq(Line) /\ kept' = Recorded(kept) /\ trying' = Recorded(trying)
  BY EmptySeq DEF SaveStep
<1> QED
  BY <1>1, <1>2, <1>3 DEF SaveStep, WriteStep, Recorded

\* The end of a phase.
LEMMA ProceedIs ==
    ASSUME StorageIInv, NEW ok \in BOOLEAN, NEW next \in {"entry", "flush", "idle"}, Proceed(ok, next)
    PROVE  /\ w' \in WriteState /\ written' \in -1 .. SectorSize - 1
           /\ Writing' => ok /\ w' = [w EXCEPT !.pc = next] /\ next # "idle" /\ w'.pc = next
           /\ (~Writing' /\ written' >= 0) => ok /\ next = "idle"
<1>1. w \in WriteState /\ written \in -1 .. SectorSize - 1 /\ w.size \in 0 .. SectorSize - 1 /\ SectorSize \in Nat
  BY FatConstants DEF StorageIInv, StorageTypes, StorageTypeOK, WriteState
<1>2. CASE ok /\ next # "idle"
  <2>1. w' = [w EXCEPT !.pc = next] /\ written' = written
    BY <1>2 DEF Proceed
  <2>2. w' \in WriteState /\ w'.pc = next
    BY <1>1, <2>1 DEF WriteState
  <2> QED
    BY <1>1, <1>2, <2>1, <2>2 DEF Writing
<1>3. CASE ~(ok /\ next # "idle")
  <2>1. w' = NotWriting /\ written' = IF ok THEN w.size ELSE -1
    BY <1>3 DEF Proceed
  <2>2. ~Writing' /\ w' \in WriteState
    BY <2>1, NotWritingIs DEF Writing
  <2>3. written' \in -1 .. SectorSize - 1 /\ (written' >= 0 => ok)
    BY <1>1, <2>1
  <2> QED
    BY <1>3, <2>2, <2>3
<1> QED
  BY <1>2, <1>3

\* The write of the data: the file says the new text, or the new text cut off
\* at the old length, or what it said.
LEMMA StorageData ==
    ASSUME StorageIInv, SaveStep, NEW o \in Outcome, Counted(o), WriteData(o)
    PROVE  StorageIInv'
<1>1. /\ UNCHANGED <<env_table, phase, message, load_ret, saved, host>> /\ phase = "saving"
      /\ lost' \in 0 .. MaxLost /\ kept' \in Seq(Line) /\ trying' \in Seq(Line)
      /\ lost' = 0 \/ lost' > 0
      /\ lost' = 0 => lost = 0 /\ (o.ok => o.done) /\ kept' = kept /\ trying' = trying
      /\ Theirs' = Theirs /\ Rest' = Rest
  BY OutcomeIs, HostIs
<1>2. /\ UNCHANGED <<root, fat, s_fat, s_fat_loaded>> /\ w.pc = "data" /\ Writing
      /\ data' = IF o.done THEN [data EXCEPT ![w.cluster] = w.content] ELSE data
  BY DEF WriteData, NewSector, Writing
<1>3. /\ w' \in WriteState /\ written' \in -1 .. SectorSize - 1
      /\ Writing' => o.ok /\ w' = [w EXCEPT !.pc = "entry"] /\ w'.pc = "entry"
      /\ (~Writing' /\ written' >= 0) => FALSE
  <2>1. Proceed(o.ok, "entry") /\ o.ok \in BOOLEAN
    BY DEF WriteData, PhaseAfter, Outcome
  <2> QED
    BY <2>1, ProceedIs
<1>4. /\ w \in WriteState /\ root \in [Entry -> DirEntry] /\ data \in [Cluster -> Seq(Line)]
      /\ WriteAt /\ MarksAt /\ OthersAt /\ OthersUntouched /\ SaveAt /\ StorageTypeOK /\ saved \in Tables
  BY DEF StorageIInv, StorageTypes, StorageTypeOK
<1>5. /\ w.cluster \in Cluster /\ w.content \in Seq(Line) /\ w.entry \in Entry
      /\ Writing' => /\ w'.entry = w.entry /\ w'.cluster = w.cluster /\ w'.content = w.content
                     /\ w'.size = w.size /\ w'.copy = w.copy /\ w'.sector = w.sector
  BY <1>2, <1>3, <1>4 DEF WriteState, WriteAt
<1>6. data' \in [Cluster -> Seq(Line)]
  BY <1>2, <1>4, <1>5
<1>7. StorageTypes'
  <2>1. w'.pc \in {"idle", "data", "entry", "flush"}
    BY <1>3 DEF WriteState
  <2>2. StorageTypeOK'
    BY <1>1, <1>2, <1>3, <1>4, <1>6, <2>1 DEF StorageTypeOK
  <2> QED
    BY <1>1, <1>3, <1>4, <2>2 DEF StorageTypes
<1>8. WriteAt'
  <2> SUFFICES ASSUME Writing' PROVE WriteAt'
    BY DEF WriteAt
  <2> QED
    BY <1>1, <1>2, <1>4, <1>5 DEF WriteAt
<1>9. CacheAt' /\ OthersAt' /\ OthersUntouched'
  <2>1. host.volume => \A c \in Theirs : data'[c] = data[c]
    BY <1>2, <1>4 DEF WriteAt, Theirs
  <2> QED
    BY <1>1, <1>2, <1>4, <2>1 DEF CacheAt, OthersAt, OthersUntouched
<1>10. MarksAt'
  <2>1. \A c \in Cluster : Owned(root, c) => Owned(root, c)'
    BY <1>1, <1>2, HostIs
  <2> QED
    BY <1>1, <1>2, <1>4, <1>5, <2>1 DEF MarksAt
<1>11. SaveAt'
  <2> SUFFICES ASSUME lost' = 0, Writing' PROVE SaveAt'
    BY DEF SaveAt
  <2>1. /\ w.content = trying /\ w.content = Serialised(env_table)
        /\ w.size = Total(trying, Len(trying)) /\ Says(root, data) = kept
    BY <1>1, <1>2, <1>4 DEF SaveAt
  <2>2. data'[w.cluster] = trying
    BY <1>1, <1>2, <1>3, <1>4, <1>5, <2>1
  <2>3. Matches(root) = {} => kept = <<>>
    BY <2>1 DEF Says
  <2> QED
    BY <1>1, <1>2, <1>3, <1>5, <2>1, <2>2, <2>3 DEF SaveAt
<1>12. OldOrNew'
  <2> SUFFICES ASSUME lost' = 0 PROVE OldOrNew'
    BY <1>1 DEF OldOrNew
  <2>1. /\ w.content = trying /\ w.size = Total(trying, Len(trying)) /\ Says(root, data) = kept
    BY <1>1, <1>2, <1>4 DEF SaveAt
  <2>2. kept' = kept /\ trying' = trying /\ root' = root /\ FileSays' = Says(root, data')
    BY <1>1, <1>2, AsFunctions
  <2>3. CASE ~o.done
    BY <1>2, <2>1, <2>2, <2>3 DEF OldOrNew
  <2>4. CASE o.done /\ Matches(root) = {}
    BY <2>1, <2>2, <2>4 DEF OldOrNew, Says
  <2>5. CASE o.done /\ Matches(root) # {}
    <3> DEFINE e == Min(Matches(root))
               total == Total(trying, Len(trying))
    <3>1. e = w.entry /\ root[e].kind = "env"
      BY <1>2, <1>4, <2>5, LeastMatch DEF WriteAt
    <3>2. root[e].cluster = w.cluster /\ data'[w.cluster] = trying
      BY <1>2, <1>4, <1>5, <2>1, <2>5, <3>1 DEF WriteAt
    <3>3. ReadFile'.content = trying' /\ ReadFile'.size = root[e].size
      BY <2>2, <3>2, AsFunctions DEF ReadFile
    <3>4. total \in Nat /\ total < SectorSize /\ root[e].size \in Nat
      BY <1>4, <1>5, <2>1, <3>1, FatConstants DEF WriteState, DirEntry
    <3>5. CASE root[e].size < total
      BY <2>2, <3>3, <3>5 DEF OldOrNew
    <3>6. CASE total <= root[e].size
      <4>1. trying \in Seq(Line)
        BY <1>5, <2>1
      <4>2. Says(root, data') = trying
        BY <1>4, <2>5, <3>2, <3>4, <3>6, <4>1, SaysText
      <4> QED
        BY <2>2, <4>2 DEF OldOrNew
    <3> HIDE DEF total
    <3> QED
      BY <3>4, <3>5, <3>6
  <2> QED
    BY <2>3, <2>4, <2>5
<1>13. SavedIsOnDisk' /\ (phase \in {"off", "run", "halted"} => ~Writing)'
  BY <1>1, <1>3 DEF SavedIsOnDisk, Writing
<1> QED
  BY <1>7, <1>8, <1>9, <1>10, <1>11, <1>12, <1>13 DEF StorageIInv

\* The sector of the FAT that a byte lies in.
LEMMA SectorOfByte ==
    ASSUME NEW b \in FatByte
    PROVE  b \div FatBytes \in 0 .. FatSectors - 1
<1> DEFINE q == b \div FatBytes
           r == b % FatBytes
<1>1. /\ FatBytes \in Nat \ {0} /\ FatSectors \in Nat \ {0} /\ b \in Nat /\ b < FatSectors * FatBytes
      /\ FatSectors * FatBytes \in Nat
  BY FatConstants DEF FatByte
<1>2. q \in Int /\ r \in 0 .. FatBytes - 1 /\ b = FatBytes * q + r
  BY <1>1, DivMod, ModRange
<1> HIDE DEF q, r
<1>3. q >= 0
  BY <1>1, <1>2
<1>4. q < FatSectors
  BY <1>1, <1>2
<1> QED
  BY <1>1, <1>2, <1>3, <1>4 DEF q

\* The write of the entry, over a free one or the file's own: from then on it
\* leads to the new text.
LEMMA StorageEntry ==
    ASSUME StorageIInv, SaveStep, NEW o \in Outcome, Counted(o), WriteEntry(o)
    PROVE  StorageIInv'
<1> DEFINE new == [kind |-> "env", cluster |-> w.cluster, size |-> w.size]
<1>1. /\ UNCHANGED <<env_table, phase, message, load_ret, saved, host>> /\ phase = "saving"
      /\ lost' \in 0 .. MaxLost /\ kept' \in Seq(Line) /\ trying' \in Seq(Line)
      /\ lost' = 0 \/ lost' > 0
      /\ lost' = 0 => lost = 0 /\ (o.ok => o.done) /\ kept' = kept /\ trying' = trying
      /\ Theirs' = Theirs /\ Rest' = Rest
  BY OutcomeIs, HostIs
<1>2. /\ UNCHANGED <<fat, data, s_fat, s_fat_loaded>> /\ w.pc = "entry" /\ Writing
      /\ root' = IF o.done THEN [root EXCEPT ![w.entry] = new] ELSE root
  BY DEF WriteEntry, Writing
<1>3. /\ w' \in WriteState /\ written' \in -1 .. SectorSize - 1
      /\ Writing' => o.ok /\ w' = [w EXCEPT !.pc = "flush"] /\ w'.pc = "flush"
      /\ (~Writing' /\ written' >= 0) => FALSE
  <2>1. Proceed(o.ok, "flush") /\ o.ok \in BOOLEAN
    BY DEF WriteEntry, PhaseAfter, Outcome
  <2> QED
    BY <2>1, ProceedIs
<1>4. /\ w \in WriteState /\ root \in [Entry -> DirEntry] /\ data \in [Cluster -> Seq(Line)]
      /\ WriteAt /\ MarksAt /\ OthersAt /\ OthersUntouched /\ SaveAt /\ StorageTypeOK /\ saved \in Tables
  BY DEF StorageIInv, StorageTypes, StorageTypeOK
<1>5. /\ w.cluster \in Cluster /\ w.content \in Seq(Line) /\ w.entry \in Entry
      /\ w.cluster \in Nat /\ w.size \in 0 .. SectorSize - 1
      /\ Writing' => /\ w'.entry = w.entry /\ w'.cluster = w.cluster /\ w'.content = w.content
                     /\ w'.size = w.size /\ w'.copy = w.copy /\ w'.sector = w.sector
  BY <1>2, <1>3, <1>4 DEF WriteState, WriteAt
<1>6. new \in DirEntry /\ new.kind = "env" /\ new.cluster = w.cluster /\ new.size = w.size
  BY <1>5, FatConstants DEF DirEntry
<1> HIDE DEF new
<1>7. /\ root' \in [Entry -> DirEntry] /\ \A x \in Entry \ {w.entry} : root'[x] = root[x]
      /\ root'[w.entry] \in {root[w.entry], new} /\ (o.done => root'[w.entry] = new)
      /\ ~o.done => root' = root
  BY <1>2, <1>4, <1>5, <1>6
<1>8. /\ root'[w.entry].kind # "other"
      /\ root'[w.entry].kind = "env" => root'[w.entry].cluster = w.cluster
      /\ root[w.entry].kind # "other" /\ (host.volume => w.cluster \notin Theirs)
  BY <1>2, <1>4, <1>5, <1>6, <1>7 DEF WriteAt
<1>9. o.done => Matches(root') # {} /\ Min(Matches(root')) = w.entry
  <2>1. ASSUME o.done PROVE root' = [root EXCEPT ![w.entry] = new]
    BY <1>2, <2>1
  <2>2. \/ Matches(root) # {} /\ w.entry = Min(Matches(root))
        \/ Matches(root) = {} /\ Spare(root) # {} /\ w.entry = Min(Spare(root))
    BY <1>2, <1>4 DEF WriteAt
  <2>3. /\ Matches([root EXCEPT ![w.entry] = new]) # {}
        /\ Min(Matches([root EXCEPT ![w.entry] = new])) = w.entry
    BY <1>4, <1>5, <1>6, <2>2, EntryIsFound
  <2> QED
    BY <2>1, <2>3
<1>10. StorageTypes'
  <2>1. w'.pc \in {"idle", "data", "entry", "flush"}
    BY <1>3 DEF WriteState
  <2>2. \A x \in Entry : root'[x].kind = "env" => root'[x].cluster \in Cluster
    BY <1>4, <1>5, <1>7, <1>8 DEF StorageTypeOK
  <2>3. StorageTypeOK'
    BY <1>1, <1>2, <1>3, <1>4, <1>7, <2>1, <2>2 DEF StorageTypeOK
  <2> QED
    BY <1>1, <1>3, <1>4, <2>3 DEF StorageTypes
<1>11. WriteAt'
  <2> SUFFICES ASSUME Writing' PROVE WriteAt'
    BY DEF WriteAt
  <2>1. \/ Matches(root') # {} /\ w'.entry = Min(Matches(root'))
        \/ Matches(root') = {} /\ Spare(root') # {} /\ w'.entry = Min(Spare(root'))
    <3>1. CASE o.done
      BY <1>5, <1>9, <3>1
    <3>2. CASE ~o.done
      BY <1>2, <1>4, <1>5, <1>7, <3>2 DEF WriteAt
    <3> QED
      BY <3>1, <3>2
  <2>2. /\ phase' = "saving" /\ s_fat_loaded' /\ w'.cluster \in Cluster
        /\ NextCluster(s_fat', w'.cluster) = 4095
    BY <1>1, <1>2, <1>4, <1>5 DEF WriteAt
  <2>3. /\ root'[w'.entry].kind # "other"
        /\ root'[w'.entry].kind = "env" => root'[w'.entry].cluster = w'.cluster
        /\ host'.volume => w'.cluster \notin Theirs'
    BY <1>1, <1>5, <1>8
  <2> QED
    BY <1>3, <2>1, <2>2, <2>3 DEF WriteAt
<1>12. CacheAt'
  BY <1>1 DEF CacheAt
<1>13. OthersAt' /\ OthersUntouched'
  <2>1. ASSUME host.volume, NEW x \in Entry, root'[x].kind = "env" PROVE root'[x].cluster \notin Theirs
    <3>1. CASE x = w.entry
      BY <1>8, <2>1, <3>1
    <3>2. CASE x # w.entry
      BY <1>4, <1>7, <2>1, <3>2 DEF OthersAt
    <3> QED
      BY <3>1, <3>2
  <2>2. ASSUME host.volume, NEW x \in Entry, host.root[x].kind = "other" PROVE root'[x] = host.root[x]
    <3>1. root[x] = host.root[x]
      BY <1>4, <2>2 DEF OthersUntouched
    <3>2. x # w.entry
      BY <1>8, <2>2, <3>1
    <3> QED
      BY <1>7, <3>1, <3>2
  <2> QED
    BY <1>1, <1>2, <1>4, <2>1, <2>2 DEF OthersAt, OthersUntouched
<1>14. MarksAt'
  <2> SUFFICES ASSUME lost' = 0 PROVE MarksAt'
    BY DEF MarksAt
  <2>1. ASSUME NEW c \in Cluster, NEW x \in Entry, Uses(root, x, c)
        PROVE  Uses(root', x, c)
    <3>1. CASE x = w.entry
      <4>1. root[x].kind = "env" /\ c = w.cluster
        BY <1>2, <1>4, <2>1, <3>1 DEF Uses, WriteAt
      <4> QED
        BY <1>6, <1>7, <2>1, <3>1, <4>1 DEF Uses
    <3>2. CASE x # w.entry
      BY <1>7, <2>1, <3>2 DEF Uses
    <3> QED
      BY <3>1, <3>2
  <2>2. \A c \in Cluster : Owned(root, c) => Owned(root, c)'
    BY <1>1, <2>1 DEF Owned, Uses
  <2> QED
    BY <1>1, <1>2, <1>4, <1>5, <2>2 DEF MarksAt
<1>15. ASSUME lost' = 0
       PROVE  /\ w.content = trying /\ w.content = Serialised(env_table)
              /\ w.size = Total(trying, Len(trying)) /\ data[w.cluster] = trying
  BY <1>1, <1>2, <1>4, <1>15 DEF SaveAt
<1>16. SaveAt'
  <2> SUFFICES ASSUME lost' = 0, Writing' PROVE SaveAt'
    BY DEF SaveAt
  <2>1. o.done /\ w'.copy = 1 /\ w'.sector = 1
    BY <1>1, <1>2, <1>3, <1>4, <1>5 DEF WriteAt
  <2>2. FlushedAt'
    <3>1. \A b \in FatByte : ~(b \div FatBytes < w'.sector - 1)
      BY <2>1, SectorOfByte
    <3>2. \A f \in Copies : ~(f < w'.copy)
      BY <2>1 DEF Copies
    <3> QED
      BY <3>1, <3>2 DEF FlushedAt
  <2>3. root'[w'.entry] = [kind |-> "env", cluster |-> w'.cluster, size |-> w'.size]
    BY <1>5, <1>7, <2>1 DEF new
  <2> QED
    BY <1>1, <1>2, <1>3, <1>5, <1>9, <1>15, <2>1, <2>2, <2>3 DEF SaveAt
<1>17. OldOrNew'
  <2> SUFFICES ASSUME lost' = 0 PROVE OldOrNew'
    BY <1>1 DEF OldOrNew
  <2>1. CASE o.done
    <3>1. trying \in Seq(Line) /\ Total(trying, Len(trying)) < SectorSize /\ SectorSize \in Nat
      BY <1>5, <1>15, FatConstants
    <3>2. /\ Matches(root') # {} /\ data[root'[Min(Matches(root'))].cluster] = trying
          /\ Total(trying, Len(trying)) <= root'[Min(Matches(root'))].size
      BY <1>5, <1>6, <1>7, <1>9, <1>15, <2>1
    <3>3. Says(root', data) = trying
      <4>1. root' \in [Entry -> DirEntry]
        BY <1>7
      <4> QED
        BY <3>1, <3>2, <4>1, SaysText
    <3> QED
      BY <1>1, <1>2, <3>3, AsFunctions DEF OldOrNew
  <2>2. CASE ~o.done
    <3>1. root' = root /\ data' = data /\ kept' = kept /\ trying' = trying /\ lost = 0
      BY <1>1, <1>2, <1>7, <2>2
    <3>2. OldOrNew
      BY DEF StorageIInv
    <3> QED
      BY <1>1, <3>1, <3>2, OldOrNewKept
  <2> QED
    BY <2>1, <2>2
<1>18. SavedIsOnDisk' /\ (phase \in {"off", "run", "halted"} => ~Writing)'
  BY <1>1, <1>3 DEF SavedIsOnDisk, Writing
<1> QED
  BY <1>10, <1>11, <1>12, <1>13, <1>14, <1>16, <1>17, <1>18 DEF StorageIInv

\* A sector of the cache in place of one of a FAT: an entry on which the two
\* agree stays what it is, even on the border of the sector, and one that is
\* free in both stays free.
LEMMA FlushMixes ==
    ASSUME StorageIInv, NEW o \in Outcome, FlushFat(o)
    PROVE  \A f \in Copies, c \in Cluster :
              /\ NextCluster(fat[f], c) = NextCluster(s_fat, c) => NextCluster(fat'[f], c) = NextCluster(fat[f], c)
              /\ NextCluster(fat'[f], c) # 0 => NextCluster(fat[f], c) # 0 \/ NextCluster(s_fat, c) # 0
<1> DEFINE mix == [b \in FatByte |-> IF b \div FatBytes = w.sector - 1 THEN s_fat[b] ELSE fat[w.copy][b]]
<1>1. fat' = IF o.done THEN [fat EXCEPT ![w.copy] = mix] ELSE fat
  BY DEF FlushFat
<1>2. fat \in [Copies -> Table] /\ s_fat \in Table /\ w.copy \in Copies /\ fat[w.copy] \in Table
  BY DEF StorageIInv, StorageTypes, StorageTypeOK, WriteState
<1>3. mix \in Table /\ \A b \in FatByte : mix[b] \in {fat[w.copy][b], s_fat[b]}
  BY <1>2 DEF Table
<1> HIDE DEF mix
<1> TAKE f \in Copies, c \in Cluster
<1>4. CASE f = w.copy /\ o.done
  <2>1. fat'[f] = mix /\ fat[f] \in Table /\ \A b \in FatByte : mix[b] \in {fat[f][b], s_fat[b]}
    BY <1>1, <1>2, <1>3, <1>4
  <2>2. /\ NextCluster(fat[f], c) = NextCluster(s_fat, c) => NextCluster(mix, c) = NextCluster(fat[f], c)
        /\ (NextCluster(fat[f], c) = 0 /\ NextCluster(s_fat, c) = 0) => NextCluster(mix, c) = 0
    BY <1>2, <1>3, <2>1, Mixed
  <2> QED
    BY <2>1, <2>2
<1>5. CASE ~(f = w.copy /\ o.done)
  <2>1. fat'[f] = fat[f]
    BY <1>1, <1>2, <1>5
  <2> QED
    BY <2>1
<1> QED
  BY <1>4, <1>5

\* The write of a sector of a FAT.
LEMMA StorageFlush ==
    ASSUME StorageIInv, SaveStep, NEW o \in Outcome, Counted(o), FlushFat(o)
    PROVE  StorageIInv'
<1> DEFINE sector(b) == b \div FatBytes
           mix == [b \in FatByte |-> IF sector(b) = w.sector - 1 THEN s_fat[b] ELSE fat[w.copy][b]]
<1>1. /\ UNCHANGED <<env_table, phase, message, load_ret, saved, host>> /\ phase = "saving"
      /\ lost' \in 0 .. MaxLost /\ kept' \in Seq(Line) /\ trying' \in Seq(Line)
      /\ lost' = 0 \/ lost' > 0
      /\ lost' = 0 => lost = 0 /\ (o.ok => o.done) /\ kept' = kept /\ trying' = trying
      /\ Theirs' = Theirs /\ Rest' = Rest
  BY OutcomeIs, HostIs
<1>2. /\ UNCHANGED <<root, data, s_fat, s_fat_loaded>> /\ w.pc = "flush" /\ Writing
      /\ fat' = IF o.done THEN [fat EXCEPT ![w.copy] = mix] ELSE fat
  BY DEF FlushFat, Writing
<1>3. /\ w \in WriteState /\ root \in [Entry -> DirEntry] /\ data \in [Cluster -> Seq(Line)]
      /\ fat \in [Copies -> Table] /\ s_fat \in Table /\ written \in -1 .. SectorSize - 1
      /\ WriteAt /\ MarksAt /\ OthersAt /\ OthersUntouched /\ SaveAt /\ StorageTypeOK /\ saved \in Tables
  BY DEF StorageIInv, StorageTypes, StorageTypeOK
<1>4. /\ w.cluster \in Cluster /\ w.content \in Seq(Line) /\ w.entry \in Entry
      /\ w.copy \in Copies /\ w.sector \in 1 .. FatSectors /\ w.size \in 0 .. SectorSize - 1
      /\ FatSectors \in Nat /\ SectorSize \in Nat
  BY <1>2, <1>3, FatConstants DEF WriteState, WriteAt
<1>5. /\ mix \in Table
      /\ \A b \in FatByte : mix[b] = IF sector(b) = w.sector - 1 THEN s_fat[b] ELSE fat[w.copy][b]
      /\ \A b \in FatByte : mix[b] \in {fat[w.copy][b], s_fat[b]}
  <2>1. fat[w.copy] \in Table
    BY <1>3, <1>4
  <2> QED
    BY <1>3, <2>1 DEF Table
<1> HIDE DEF mix
<1>6. /\ fat' \in [Copies -> Table]
      /\ \A f \in Copies : f # w.copy => fat'[f] = fat[f]
      /\ fat'[w.copy] = IF o.done THEN mix ELSE fat[w.copy]
  BY <1>2, <1>3, <1>4, <1>5
<1>7. /\ w' \in WriteState /\ written' \in -1 .. SectorSize - 1
      /\ Writing' => /\ o.ok /\ ~FlushDone /\ w'.pc = "flush"
                     /\ w'.copy = (IF w.sector < FatSectors THEN w.copy ELSE w.copy + 1)
                     /\ w'.sector = (IF w.sector < FatSectors THEN w.sector + 1 ELSE 1)
                     /\ w'.entry = w.entry /\ w'.cluster = w.cluster /\ w'.content = w.content
                     /\ w'.size = w.size
      /\ (~Writing' /\ written' >= 0) => o.ok /\ FlushDone
  <2>1. CASE o.ok /\ ~FlushDone
    <3>1. /\ w' = IF w.sector < FatSectors THEN [w EXCEPT !.sector = @ + 1]
                                           ELSE [w EXCEPT !.sector = 1, !.copy = @ + 1]
          /\ written' = written
      BY <2>1 DEF FlushFat
    <3>2. ~(w.sector < FatSectors) => w.copy = 1
      BY <1>4, <2>1 DEF FlushDone, Copies
    <3>3. CASE w.sector < FatSectors
      <4>1. w.sector + 1 \in 1 .. FatSectors
        BY <1>4, <3>3
      <4> QED
        BY <1>2, <1>3, <2>1, <3>1, <3>3, <4>1 DEF WriteState, Writing
    <3>4. CASE ~(w.sector < FatSectors)
      <4>1. 1 \in 1 .. FatSectors /\ w.copy + 1 \in Copies
        BY <1>4, <3>2, <3>4 DEF Copies
      <4> QED
        BY <1>2, <1>3, <2>1, <3>1, <3>4, <4>1 DEF WriteState, Writing
    <3> QED
      BY <3>3, <3>4
  <2>2. CASE ~(o.ok /\ ~FlushDone)
    <3>1. Proceed(o.ok, "idle") /\ o.ok \in BOOLEAN
      BY <2>2 DEF FlushFat, PhaseAfter, Outcome
    <3>2. /\ w' \in WriteState /\ written' \in -1 .. SectorSize - 1 /\ ~Writing'
          /\ written' >= 0 => o.ok
      BY <3>1, ProceedIs
    <3> QED
      BY <2>2, <3>2
  <2> QED
    BY <2>1, <2>2
<1>8. StorageTypes'
  <2>1. w'.pc \in {"idle", "data", "entry", "flush"}
    BY <1>7 DEF WriteState
  <2>2. StorageTypeOK'
    BY <1>1, <1>2, <1>3, <1>6, <1>7, <2>1 DEF StorageTypeOK
  <2> QED
    BY <1>1, <1>3, <1>7, <2>2 DEF StorageTypes
<1>9. WriteAt'
  <2> SUFFICES ASSUME Writing' PROVE WriteAt'
    BY DEF WriteAt
  <2> QED
    BY <1>1, <1>2, <1>3, <1>7 DEF WriteAt
<1>10. CacheAt'
  BY <1>1 DEF CacheAt
<1>11. \A f \in Copies, c \in Cluster :
          /\ NextCluster(fat[f], c) = NextCluster(s_fat, c) => NextCluster(fat'[f], c) = NextCluster(fat[f], c)
          /\ NextCluster(fat'[f], c) # 0 => NextCluster(fat[f], c) # 0 \/ NextCluster(s_fat, c) # 0
  BY FlushMixes
<1>12. OthersAt' /\ OthersUntouched'
  <2>1. ASSUME host.volume, NEW c \in Theirs, NEW f \in Copies
        PROVE  NextCluster(fat'[f], c) = NextCluster(host.fat[1], c)
    <3>1. c \in Cluster /\ s_fat_loaded
      BY <1>2, <1>3, <2>1 DEF WriteAt, Theirs
    <3>2. /\ NextCluster(fat[f], c) = NextCluster(host.fat[1], c)
          /\ NextCluster(s_fat, c) = NextCluster(host.fat[1], c)
      BY <1>3, <2>1, <3>1 DEF OthersAt, OthersUntouched
    <3> QED
      BY <1>11, <3>1, <3>2
  <2> QED
    BY <1>1, <1>2, <1>3, <2>1 DEF OthersAt, OthersUntouched
<1>13. ASSUME lost' = 0
       PROVE  /\ lost = 0 /\ w.content = trying /\ w.content = Serialised(env_table)
              /\ w.size = Total(trying, Len(trying)) /\ data[w.cluster] = trying
              /\ root[w.entry] = [kind |-> "env", cluster |-> w.cluster, size |-> w.size]
              /\ Matches(root) # {} /\ FlushedAt
  BY <1>1, <1>2, <1>3, <1>13 DEF SaveAt
<1>14. MarksAt'
  <2> SUFFICES ASSUME host.volume, lost' = 0 PROVE MarksAt'
    BY <1>1 DEF MarksAt
  <2>1. Owned(root, w.cluster)
    BY <1>4, <1>13 DEF Owned, Uses
  <2>2. \A c \in Cluster : NextCluster(s_fat, c) # 0 => Owned(root, c)
    BY <1>2, <1>3, <1>4, <1>13, <2>1 DEF MarksAt
  <2>3. \A f \in Copies, c \in Cluster : NextCluster(fat'[f], c) # 0 => Owned(root, c)
    BY <1>3, <1>11, <1>13, <2>2 DEF MarksAt
  <2>4. \A c \in Cluster : Owned(root, c) => Owned(root, c)'
    BY <1>1, <1>2, HostIs
  <2> QED
    BY <1>2, <2>2, <2>3, <2>4 DEF MarksAt
<1>15. ASSUME lost' = 0, o.done, w.sector = FatSectors
       PROVE  fat'[w.copy] = s_fat
  <2>1. ASSUME NEW b \in FatByte PROVE mix[b] = s_fat[b]
    <3>1. sector(b) \in 0 .. FatSectors - 1
      BY SectorOfByte
    <3>2. sector(b) # w.sector - 1 => sector(b) < w.sector - 1
      BY <1>4, <1>15, <3>1
    <3>3. sector(b) < w.sector - 1 => fat[w.copy][b] = s_fat[b]
      BY <1>13, <1>15 DEF FlushedAt
    <3> HIDE DEF sector
    <3> QED
      BY <1>5, <3>2, <3>3
  <2>2. mix = s_fat
    BY <1>3, <1>5, <2>1 DEF Table
  <2> QED
    BY <1>6, <1>15, <2>2
<1>16. SaveAt'
  <2> SUFFICES ASSUME lost' = 0, Writing' PROVE SaveAt'
    BY DEF SaveAt
  <2>1. o.done /\ ~FlushDone /\ FlushedAt
    BY <1>1, <1>7, <1>13
  <2>2. FlushedAt'
    <3>1. CASE w.sector < FatSectors
      <4>1. w'.copy = w.copy /\ w'.sector = w.sector + 1
        BY <1>7, <3>1
      <4>2. \A f \in Copies : f < w.copy => fat'[f] = s_fat
        BY <1>4, <1>6, <2>1 DEF FlushedAt, Copies
      <4>3. ASSUME NEW b \in FatByte, sector(b) < w.sector PROVE fat'[w.copy][b] = s_fat[b]
        <5>1. sector(b) \in 0 .. FatSectors - 1
          BY SectorOfByte
        <5>2. sector(b) = w.sector - 1 \/ sector(b) < w.sector - 1
          BY <1>4, <4>3, <5>1
        <5>3. sector(b) < w.sector - 1 => fat[w.copy][b] = s_fat[b]
          BY <2>1 DEF FlushedAt
        <5> HIDE DEF sector
        <5> QED
          BY <1>5, <1>6, <2>1, <5>2, <5>3
      <4>4. w'.sector - 1 = w.sector
        BY <1>4, <4>1
      <4> QED
        BY <1>2, <4>1, <4>2, <4>3, <4>4 DEF FlushedAt
    <3>2. CASE ~(w.sector < FatSectors)
      <4>1. w.sector = FatSectors /\ w.copy = 1 /\ w'.copy = 2 /\ w'.sector = 1
        BY <1>4, <1>7, <2>1, <3>2 DEF FlushDone, Copies
      <4>2. fat'[1] = s_fat
        BY <1>15, <2>1, <4>1
      <4>3. \A b \in FatByte : ~(sector(b) < w'.sector - 1)
        BY <4>1, SectorOfByte
      <4>4. \A f \in Copies : f < w'.copy => f = 1
        BY <4>1 DEF Copies
      <4> QED
        BY <1>2, <4>2, <4>3, <4>4 DEF FlushedAt
    <3> QED
      BY <3>1, <3>2
  <2> QED
    BY <1>1, <1>2, <1>7, <1>13, <2>2 DEF SaveAt
<1>17. OldOrNew'
  <2> SUFFICES ASSUME lost' = 0 PROVE OldOrNew'
    BY <1>1 DEF OldOrNew
  <2>1. root' = root /\ data' = data /\ kept' = kept /\ trying' = trying /\ lost = 0
    BY <1>1, <1>2
  <2>2. OldOrNew
    BY DEF StorageIInv
  <2> QED
    BY <2>1, <2>2, OldOrNewKept
<1>18. SavedIsOnDisk'
  <2> SUFFICES ASSUME lost' = 0, ~Writing', written' >= 0 PROVE SavedIsOnDisk'
    BY DEF SavedIsOnDisk, Writing
  <2>1. o.done /\ w.sector = FatSectors /\ w.copy = 2
    BY <1>1, <1>7 DEF FlushDone
  <2>2. fat'[2] = s_fat /\ fat'[1] = s_fat
    <3>1. fat[1] = s_fat /\ fat'[1] = fat[1]
      BY <1>6, <1>13, <2>1 DEF FlushedAt, Copies
    <3> QED
      BY <1>15, <2>1, <3>1
  <2>3. w.entry = Min(Matches(root)) /\ root[w.entry].cluster = w.cluster /\ root[w.entry].size = w.size
    BY <1>2, <1>3, <1>13 DEF WriteAt
  <2>4. FileSays' = Serialised(env_table)
    <3>1. trying \in Seq(Line) /\ Total(trying, Len(trying)) < SectorSize
          /\ Total(trying, Len(trying)) <= root[Min(Matches(root))].size
      BY <1>4, <1>13, <2>3
    <3>2. data[root[Min(Matches(root))].cluster] = trying
      BY <1>13, <2>3
    <3>3. Says(root, data) = trying
      BY <1>3, <1>13, <3>1, <3>2, SaysText
    <3> QED
      BY <1>2, <1>13, <3>3, AsFunctions
  <2>5. NextCluster(s_fat, root[Min(Matches(root))].cluster) = 4095
    BY <1>2, <1>3, <2>3 DEF WriteAt
  <2> QED
    BY <1>1, <1>2, <2>2, <2>4, <2>5, AsFunctions DEF SavedIsOnDisk
<1>19. (phase \in {"off", "run", "halted"} => ~Writing)'
  BY <1>1
<1> QED
  BY <1>8, <1>9, <1>10, <1>12, <1>14, <1>16, <1>17, <1>18, <1>19 DEF StorageIInv

\* Every step keeps the invariant.
LEMMA StorageStep == StorageIInv /\ [StorageNext]_allVars => StorageIInv'
<1> SUFFICES ASSUME StorageIInv, [StorageNext]_allVars PROVE StorageIInv'
  OBVIOUS
<1>1. CASE Boot
  BY <1>1, StorageBoot
<1>2. CASE Restore \/ \E k \in Keys, word \in DOMAIN WordLen : SetVariable(k, word)
  BY <1>2, StorageSet
<1>3. CASE SaveBegin
  BY <1>3, StorageBegin, StorageRefused DEF SaveBegin
<1>4. CASE SaveStep
  <2>1. PICK o \in Outcome : (WriteData(o) \/ WriteEntry(o) \/ FlushFat(o)) /\ Counted(o)
    BY <1>4 DEF SaveStep, WriteStep, Counted
  <2> QED
    BY <1>4, <2>1, StorageData, StorageEntry, StorageFlush
<1>5. CASE Shutdown \/ Panic
  BY <1>5, StorageHalt
<1>6. CASE PowerOff
  BY <1>6, StoragePowerOff
<1>7. CASE UNCHANGED allVars
  <2>1. StorageTypes' /\ SaveAt'
    BY <1>7 DEF StorageIInv, StorageTypes, StorageTypeOK, SaveAt, FlushedAt, Writing,
                allVars, fatVars, diskVars, envVars
  <2>2. SavedIsOnDisk'
    BY <1>7 DEF StorageIInv, SavedIsOnDisk, FileSays, ReadFile, Match, Visible,
                allVars, fatVars, diskVars, envVars
  <2>3. UNCHANGED <<fatVars, phase, kept, trying>>
    BY <1>7 DEF allVars, envVars
  <2> QED
    BY <2>1, <2>2, <2>3, DiskAlone DEF StorageIInv
<1> QED
  BY <1>1, <1>2, <1>3, <1>4, <1>5, <1>6, <1>7 DEF StorageNext

\* The inductive invariant holds.
LEMMA StorageAlways == StorageSpec => []StorageIInv
  BY StorageStart, StorageStep, PTL DEF StorageSpec

\* The variables stay in their ranges, and on a volume no cluster is lost that
\* was not AIOS.ENV's second or a later one: a mark in either FAT, even one of
\* which a single sector was written, is another file's or has an entry that
\* leads to it, through every failed write and loss of power of
\* fat12_write_file, while the drive does what it says.
THEOREM VolumeIsKept == StorageSpec => []StorageInv
<1>1. StorageIInv => StorageInv
  <2> SUFFICES ASSUME StorageIInv PROVE StorageInv
    OBVIOUS
  <2>1. lost = 0 \/ lost > 0
    BY DEF StorageIInv, StorageTypes, StorageTypeOK
  <2> QED
    BY <2>1 DEF StorageIInv, StorageTypes, StorageInv, NoLeak, MarksAt, Owned, Uses
<1> QED
  BY <1>1, StorageAlways, PTL

\* AIOS.ENV says what it said before env_save or what env_save wrote, or is
\* the longer new text cut off at the old length, wherever a sector write
\* failed or the power went.
THEOREM SavesReplaceTheFile == StorageSpec => []OldOrNew
<1>1. StorageIInv => OldOrNew
  BY DEF StorageIInv
<1> QED
  BY <1>1, StorageAlways, PTL

\* When env_save has returned without an error, the file says the variables,
\* both FATs agree with the cache, and they mark its cluster.
THEOREM SavesReachTheDisk == StorageSpec => []SavedIsOnDisk
<1>1. StorageIInv => SavedIsOnDisk
  BY DEF StorageIInv
<1> QED
  BY <1>1, StorageAlways, PTL

\* On a volume no save, done, failed, lost or cut off, changes the entry, a
\* cluster or a mark of another file, however many clusters it has, although
\* the FATs are written whole from a cache and marks share bytes.
THEOREM OtherFilesAreSafe == StorageSpec => []OthersUntouched
<1>1. StorageIInv => OthersUntouched
  BY DEF StorageIInv
<1> QED
  BY <1>1, StorageAlways, PTL

\* The keys of a table are stored as they are cut, and no place of a table is
\* given up: a later table has the keys of an earlier one, at their places.
Truncated(t) == \A i \in 1 .. Len(t) : Trunc[t[i].key] = t[i].key
Grown(t, u)  == Len(t) <= Len(u) /\ \A i \in 1 .. Len(t) : u[i].key = t[i].key

\* env_set changes values, and appends.
LEMMA EnvSetKeys ==
    ASSUME NEW t \in Tables, NEW k \in Keys, NEW v \in [word : DOMAIN WordLen, n : Nat], Truncated(t)
    PROVE  Truncated(EnvSet(t, k, v)) /\ Grown(t, EnvSet(t, k, v))
<1> DEFINE val == Cut(v)
           at == Min(Holding(t, k))
           new == Var(Trunc[k], val)
<1>1. t \in Seq(Variable) /\ Len(t) \in Nat /\ \A i \in 1 .. Len(t) : t[i] \in Variable
  BY DEF Tables
<1>2. CASE Holding(t, k) # {}
  <2>1. EnvSet(t, k, v) = [t EXCEPT ![at].value = val]
    BY <1>2 DEF EnvSet
  <2>2. Holding(t, k) \subseteq 1 .. Len(t) /\ Holding(t, k) \subseteq Nat
    BY <1>1 DEF Holding
  <2>3. at \in 1 .. Len(t)
    BY <1>2, <2>2, MinOfNaturals
  <2> HIDE DEF at, val
  <2> DEFINE u == [t EXCEPT ![at].value = val]
  <2>4. Len(u) = Len(t) /\ \A i \in 1 .. Len(t) : u[i].key = t[i].key
    <3>1. Len(u) = Len(t)
      BY <1>1, <2>3
    <3>2. ASSUME NEW i \in 1 .. Len(t) PROVE u[i].key = t[i].key
      <4>1. CASE i = at
        <5>1. u[i] = [t[i] EXCEPT !.value = val] /\ t[i] \in Variable
          BY <1>1, <2>3, <4>1
        <5> QED
          BY <5>1 DEF Variable
      <4>2. CASE i # at
        BY <1>1, <2>3, <4>2
      <4> QED
        BY <4>1, <4>2
    <3> QED
      BY <3>1, <3>2
  <2> HIDE DEF u
  <2> QED
    BY <1>1, <2>1, <2>4 DEF Truncated, Grown, u
<1>3. CASE Holding(t, k) = {} /\ Len(t) < EnvMax
  <2>1. EnvSet(t, k, v) = Append(t, new)
    BY <1>3 DEF EnvSet
  <2>2. new.key = Trunc[k] /\ Trunc[Trunc[k]] = Trunc[k]
    BY EnvConstants DEF Var
  <2> HIDE DEF new
  <2> DEFINE u == Append(t, new)
  <2>3. /\ Len(u) = Len(t) + 1 /\ u[Len(t) + 1] = new
        /\ \A i \in 1 .. Len(t) : u[i] = t[i]
    BY <1>1
  <2> HIDE DEF u
  <2>4. Truncated(u)
    <3> SUFFICES ASSUME NEW i \in 1 .. Len(u) PROVE Trunc[u[i].key] = u[i].key
      BY DEF Truncated
    <3>1. i = Len(t) + 1 \/ i \in 1 .. Len(t)
      BY <1>1, <2>3
    <3> QED
      BY <2>2, <2>3, <3>1 DEF Truncated
  <2>5. Grown(t, u)
    BY <1>1, <2>3 DEF Grown
  <2> QED
    BY <2>1, <2>4, <2>5 DEF u
<1>4. CASE Holding(t, k) = {} /\ ~(Len(t) < EnvMax)
  BY <1>1, <1>4 DEF EnvSet, Grown
<1> QED
  BY <1>2, <1>3, <1>4

\* So do env_init and env_load.
LEMMA SetAllKeys ==
    ASSUME NEW t \in Tables, NEW lines \in Seq(Line), Truncated(t)
    PROVE  Truncated(SetAll(t, lines)) /\ Grown(t, SetAll(t, lines))
<1> DEFINE N == Len(lines)
           at(i) == SetUpTo(t, lines, i)
           S == {i \in 0 .. N : Truncated(at(i)) /\ Grown(t, at(i))}
<1>1. N \in Nat /\ \A i \in 1 .. N : lines[i] \in Line
  OBVIOUS
<1>2. /\ at(0) = t /\ \A i \in 0 .. N : at(i) \in Tables
      /\ \A i \in 1 .. N : at(i) = EnvSet(at(i - 1), lines[i].key, lines[i].value)
  BY SetUpToIs
<1> HIDE DEF at, N
<1>3. 0 \in S
  BY <1>1, <1>2 DEF Grown, Tables
<1>4. ASSUME NEW i \in 1 .. N, i - 1 \in S PROVE i \in S
  <2> DEFINE u == at(i - 1)
             x == at(i)
  <2>1. u \in Tables /\ x \in Tables /\ Truncated(u) /\ Grown(t, u) /\ i \in 0 .. N
    BY <1>1, <1>2, <1>4
  <2>2. lines[i].key \in Keys /\ lines[i].value \in [word : DOMAIN WordLen, n : Nat]
    BY <1>1 DEF Line
  <2>3. x = EnvSet(u, lines[i].key, lines[i].value)
    BY <1>2
  <2> HIDE DEF u, x
  <2>4. Truncated(x) /\ Grown(u, x)
    BY <2>1, <2>2, <2>3, EnvSetKeys
  <2>5. Grown(t, x)
    BY <2>1, <2>4 DEF Grown, Tables
  <2> QED
    BY <2>1, <2>4, <2>5 DEF x
<1> HIDE DEF S
<1>5. 0 .. N \subseteq S
  BY <1>1, <1>3, <1>4, BoundedInduction
<1>6. N \in S
  BY <1>1, <1>5
<1> QED
  BY <1>6 DEF S, SetAll, at, N

\* Loading a table without double keys over an earlier one gives that table.
LEMMA SetAllRestores ==
    ASSUME NEW t \in Tables, NEW u \in Tables, Grown(t, u), Truncated(u),
           \A i, j \in 1 .. Len(u) : u[i].key = u[j].key => i = j
    PROVE  SetAll(t, u) = u
<1> DEFINE N == Len(u)
           M == Len(t)
           at(i) == SetUpTo(t, u, i)
           Good(i, x) == /\ Len(x) = (IF i < M THEN M ELSE i) /\ Grown(x, u)
                         /\ \A j \in 1 .. i : x[j] = u[j]
           S == {i \in 0 .. N : Good(i, at(i))}
<1>1. /\ N \in Nat /\ M \in Nat /\ M <= N /\ N <= EnvMax /\ EnvMax \in Nat
      /\ u \in Seq(Line) /\ u \in Seq(Variable) /\ \A i \in 1 .. N : u[i] \in Variable
  BY VariablesAreLines, EnvConstants DEF Tables, Grown
<1>2. /\ at(0) = t /\ \A i \in 0 .. N : at(i) \in Tables
      /\ \A i \in 1 .. N : at(i) = EnvSet(at(i - 1), u[i].key, u[i].value)
  BY <1>1, SetUpToIs
<1> HIDE DEF at
<1>3. 0 \in S
  BY <1>1, <1>2
<1>4. ASSUME NEW i \in 1 .. N, i - 1 \in S PROVE i \in S
  <2> DEFINE x == at(i - 1)
             y == at(i)
             k == u[i].key
             val == u[i].value
  <2>1. x \in Tables /\ y \in Tables /\ Good(i - 1, x) /\ i \in 0 .. N
    BY <1>1, <1>2, <1>4
  <2>2. y = EnvSet(x, k, val)
    BY <1>2
  <2> HIDE DEF x, y
  <2>3. /\ k \in Keys /\ val \in [word : DOMAIN WordLen, n : 0 .. ValLen - 1] /\ Cut(val) = val
        /\ u[i] = [key |-> k, value |-> val] /\ Trunc[k] = k
    <3>1. u[i] \in Variable
      BY <1>1
    <3>2. Trunc[k] = k
      BY DEF Truncated
    <3>3. ValLen \in Nat
      BY EnvConstants
    <3>4. val \in [word : DOMAIN WordLen, n : 0 .. ValLen - 1] /\ k \in Keys /\ u[i] = [key |-> k, value |-> val]
      BY <3>1 DEF Variable
    <3>5. Cut(val) = val
      BY <3>3, <3>4 DEF Cut
    <3> QED
      BY <3>2, <3>4, <3>5
  <2>4. /\ x \in Seq(Variable) /\ Len(x) \in Nat /\ Len(x) <= N /\ i - 1 <= Len(x)
        /\ \A j \in 1 .. Len(x) : x[j] \in Variable /\ x[j].key = u[j].key
        /\ \A j \in 1 .. i - 1 : x[j] = u[j]
        /\ Len(x) = (IF i - 1 < M THEN M ELSE i - 1)
    <3>1. x \in Seq(Variable) /\ Grown(x, u) /\ Len(x) = (IF i - 1 < M THEN M ELSE i - 1)
      BY <2>1 DEF Tables
    <3>2. Len(x) \in Nat /\ \A j \in 1 .. Len(x) : x[j] \in Variable
      BY <3>1
    <3>3. Len(x) <= N /\ \A j \in 1 .. Len(x) : x[j].key = u[j].key
      BY <3>1 DEF Grown
    <3>4. i - 1 <= Len(x)
      BY <1>1, <3>1
    <3>5. \A j \in 1 .. i - 1 : x[j] = u[j]
      BY <2>1
    <3> HIDE DEF N, M
    <3> QED
      BY <3>1, <3>2, <3>3, <3>4, <3>5
  <2>5. CASE i <= M
    <3>1. i \in 1 .. Len(x)
      BY <1>1, <2>4, <2>5
    <3>2. Holding(x, k) = {i}
      <4>1. DOMAIN x = 1 .. Len(x)
        BY <2>4
      <4>2. \A j \in 1 .. Len(x) : x[j].key = k <=> j = i
        BY <1>1, <2>4, <3>1
      <4> QED
        BY <3>1, <4>1, <4>2 DEF Holding
    <3>3. Min({i}) = i
      <4>1. {i} \subseteq Nat /\ {i} # {}
        OBVIOUS
      <4> QED
        BY <4>1, MinOfNaturals
    <3>4. y = [x EXCEPT ![i].value = val]
      BY <2>2, <2>3, <3>2, <3>3 DEF EnvSet
    <3>5. /\ Len(y) = Len(x) /\ y[i] = [x[i] EXCEPT !.value = val]
          /\ \A j \in 1 .. Len(x) : j # i => y[j] = x[j]
      BY <2>4, <3>1, <3>4
    <3>6. y[i] = u[i]
      <4>1. x[i] \in Variable /\ x[i].key = k
        BY <2>4, <3>1
      <4>2. [x[i] EXCEPT !.value = val] = [key |-> k, value |-> val]
        BY <4>1 DEF Variable
      <4> QED
        BY <2>3, <3>5, <4>2
    <3>7. Grown(y, u)
      BY <2>4, <3>5, <3>6 DEF Grown
    <3>8. \A j \in 1 .. i : y[j] = u[j]
      <4> TAKE j \in 1 .. i
      <4>1. CASE j = i
        BY <3>6, <4>1
      <4>2. CASE j # i
        <5>1. j \in 1 .. i - 1 /\ j \in 1 .. Len(x)
          BY <2>4, <4>2
        <5> QED
          BY <2>4, <3>5, <4>2, <5>1
      <4> QED
        BY <4>1, <4>2
    <3>9. Len(y) = (IF i < M THEN M ELSE i)
      BY <1>1, <2>4, <2>5, <3>5
    <3> QED
      BY <2>1, <3>7, <3>8, <3>9 DEF y
  <2>6. CASE i > M
    <3>1. Len(x) = i - 1 /\ Len(x) < EnvMax
      BY <1>1, <2>4, <2>6
    <3>2. Holding(x, k) = {}
      <4>1. DOMAIN x = 1 .. Len(x)
        BY <2>4
      <4>2. \A j \in 1 .. Len(x) : x[j].key # k
        BY <1>1, <2>4, <3>1
      <4> QED
        BY <4>1, <4>2 DEF Holding
    <3>3. y = Append(x, u[i])
      BY <2>2, <2>3, <3>1, <3>2 DEF EnvSet, Var
    <3>4. /\ Len(y) = i /\ y[i] = u[i] /\ \A j \in 1 .. i - 1 : y[j] = u[j]
      BY <2>4, <3>1, <3>3
    <3>5. \A j \in 1 .. i : y[j] = u[j]
      BY <3>4
    <3>6. Grown(y, u)
      BY <1>1, <3>4, <3>5 DEF Grown
    <3>7. Len(y) = (IF i < M THEN M ELSE i)
      BY <1>1, <2>6, <3>4
    <3> QED
      BY <2>1, <3>5, <3>6, <3>7 DEF y
  <2> QED
    BY <1>1, <2>5, <2>6
<1>5. 0 .. N \subseteq S
  <2> HIDE DEF S, N
  <2> QED
    BY <1>1, <1>3, <1>4, BoundedInduction
<1>6. Good(N, at(N)) /\ at(N) \in Tables
  BY <1>1, <1>2, <1>5
<1> DEFINE r == at(N)
<1>7. r \in Seq(Variable) /\ Len(r) = N /\ \A j \in 1 .. N : r[j] = u[j]
  BY <1>1, <1>6 DEF Tables
<1> HIDE DEF r
<1>8. r = u
  BY <1>1, <1>7
<1> QED
  BY <1>8 DEF SetAll, r, at

\* The variables only grow from the defaults, and once a completed save has
\* recorded them, AIOS.ENV says them until the next boot.
RestoreIInv ==
    /\ Truncated(EnvInit) /\ Truncated(env_table) /\ Grown(EnvInit, env_table)
    /\ saved # <<>> => Truncated(saved) /\ Grown(EnvInit, saved)
    /\ phase \in {"run", "saving"} => saved = <<>>
    /\ (lost = 0 /\ saved # <<>>) => FileSays = Serialised(saved)

LEMMA GrownItself == ASSUME NEW t \in Tables PROVE Grown(t, t)
  BY DEF Grown, Tables

\* The defaults are a table of their own.
LEMMA RestoreStart == StorageInit => RestoreIInv
<1> SUFFICES ASSUME StorageInit PROVE RestoreIInv
  OBVIOUS
<1>1. Truncated(EnvInit)
  <2>1. <<>> \in Tables /\ Truncated(<<>>)
    BY EmptySeq, EnvConstants DEF Tables, Truncated
  <2> QED
    BY <2>1, SetAllKeys, EnvConstants DEF EnvInit
<1> QED
  BY <1>1, EnvInitIs, GrownItself DEF StorageInit, RestoreIInv

\* Every step keeps it.
LEMMA RestoreStep ==
    ASSUME StorageIInv, RestoreIInv, [StorageNext]_allVars
    PROVE  RestoreIInv'
<1>1. /\ env_table \in Tables /\ EnvInit \in Tables /\ Truncated(EnvInit) /\ Grown(EnvInit, EnvInit)
      /\ FileSays \in Seq(Line) /\ (Truncated(EnvInit))'
  BY EnvInitIs, GrownItself, FileSaysLines DEF StorageIInv, StorageTypes, StorageTypeOK, Tables, RestoreIInv
<1>2. CASE Boot
  <2>1. env_table' \in {EnvInit, SetAll(EnvInit, FileSays)} /\ saved' = <<>>
    BY <1>2 DEF Boot
  <2>2. Truncated(SetAll(EnvInit, FileSays)) /\ Grown(EnvInit, SetAll(EnvInit, FileSays))
    BY <1>1, SetAllKeys
  <2>3. Truncated(env_table') /\ Grown(EnvInit, env_table')
    BY <1>1, <2>1, <2>2
  <2> QED
    BY <1>1, <2>1, <2>3 DEF RestoreIInv
<1>3. ASSUME NEW k \in Keys, NEW word \in DOMAIN WordLen, SetVariable(k, word)
      PROVE  RestoreIInv'
  <2>1. Whole(word) \in [word : DOMAIN WordLen, n : Nat]
    BY EnvConstants DEF Whole
  <2>2. env_table' = EnvSet(env_table, k, Whole(word)) /\ env_table' \in Tables
    BY <1>1, <1>3, <2>1, EnvSetIs DEF SetVariable
  <2>3. Truncated(env_table') /\ Grown(env_table, env_table')
    BY <1>1, <2>1, <2>2, EnvSetKeys DEF RestoreIInv
  <2>4. Grown(EnvInit, env_table')
    BY <1>1, <2>2, <2>3 DEF RestoreIInv, Grown, Tables
  <2>5. phase = "run" /\ phase' = "run" /\ saved' = saved
    BY <1>3 DEF SetVariable
  <2> QED
    BY <1>1, <2>3, <2>4, <2>5 DEF RestoreIInv
<1>4. CASE Restore
  BY <1>1, <1>4 DEF Restore, RestoreIInv
<1>5. CASE SaveBegin \/ SaveStep
  BY <1>1, <1>5 DEF SaveBegin, SaveStep, RestoreIInv
<1>6. CASE Shutdown \/ Panic
  <2>1. /\ UNCHANGED <<fatVars, env_table>> /\ phase = "saving" /\ w.pc = "idle" /\ phase' = "halted"
        /\ saved' = Recorded(IF written >= 0 THEN env_table ELSE <<>>)
    BY <1>6 DEF Shutdown, Panic
  <2>2. lost' = lost /\ root' = root /\ data' = data
    BY <2>1 DEF fatVars, diskVars
  <2>3. ASSUME saved' # <<>> PROVE saved' = env_table /\ written >= 0
    BY <2>1, <2>3 DEF Recorded
  <2>4. ASSUME lost' = 0, saved' # <<>> PROVE FileSays' = Serialised(saved')
    BY <2>1, <2>2, <2>3, <2>4, SaysTheSame DEF StorageIInv, SavedIsOnDisk
  <2> QED
    BY <1>1, <2>1, <2>3, <2>4 DEF RestoreIInv
<1>7. CASE PowerOff
  <2>1. /\ UNCHANGED <<root, data, lost, saved>> /\ env_table' = EnvInit /\ phase' = "off"
    BY <1>7 DEF PowerOff, Forget, diskVars
  <2> QED
    BY <1>1, <2>1, SaysTheSame DEF RestoreIInv
<1>8. CASE UNCHANGED allVars
  <2>1. UNCHANGED <<root, data, lost, saved, env_table, phase>>
    BY <1>8 DEF allVars, fatVars, diskVars, envVars
  <2> QED
    BY <1>1, <2>1, SaysTheSame DEF RestoreIInv
<1> QED
  BY <1>2, <1>3, <1>4, <1>5, <1>6, <1>7, <1>8 DEF StorageNext

\* A boot that loads AIOS.ENV after a completed save finds every variable as it
\* was: env_load over the defaults of env_init gives the very table saved.
THEOREM BootsRestore == StorageSpec => BootRestores
<1> DEFINE Restores == (/\ phase = "off" /\ phase' = "run" /\ load_ret' = 0
                        /\ saved # <<>> /\ Clean(saved) /\ lost = 0) =>
                           \A k \in Keys : EnvGet(env_table', k) = EnvGet(saved, k)
<1>1. StorageIInv /\ RestoreIInv /\ [StorageNext]_allVars => [Restores]_allVars
  <2> SUFFICES ASSUME StorageIInv, RestoreIInv, [StorageNext]_allVars,
                      phase = "off", phase' = "run", load_ret' = 0, saved # <<>>, Clean(saved), lost = 0
               PROVE  env_table' = saved
    OBVIOUS
  <2>1. Boot
    BY DEF StorageNext, SetVariable, Restore, SaveBegin, SaveStep, Shutdown, Panic, PowerOff,
           allVars, envVars
  <2>2. env_table' = SetAll(EnvInit, FileSays)
    BY <2>1 DEF Boot
  <2>3. FileSays = saved /\ saved \in Tables /\ DOMAIN saved = 1 .. Len(saved)
    BY DEF RestoreIInv, Clean, StorageIInv, StorageTypes, Tables
  <2>4. \A i, j \in 1 .. Len(saved) : saved[i].key = saved[j].key => i = j
    BY <2>3 DEF Clean
  <2>5. SetAll(EnvInit, saved) = saved
    BY <2>3, <2>4, EnvInitIs, SetAllRestores DEF RestoreIInv
  <2> QED
    BY <2>2, <2>3, <2>5
<1>2. StorageSpec => []RestoreIInv
  BY RestoreStart, RestoreStep, StorageAlways, PTL DEF StorageSpec
<1> QED
  BY <1>1, <1>2, StorageAlways, PTL DEF StorageSpec, BootRestores
=============================================================================
