---------------------------- MODULE ABSlotProofs ----------------------------
(***************************************************************************)
(* What an interrupted boot leaves for the next one: the steps of a boot   *)
(* with reliable storage, what the register, the cache and the copies have *)
(* in common while its outcome is being recorded, and the retries of an    *)
(* updated slot.                                                           *)
(***************************************************************************)
EXTENDS ABBootProofs

(***************************************************************************)
(* Steps.  With reliable storage every step is one of these.               *)
(***************************************************************************)

\* The SoC is reset; a register that halted MB1 is lost with the power.
ResetStep ==
  /\ SocReset
  /\ (sr' = sr /\ stage # "halt") \/ sr' = ClearedReg
  /\ UNCHANGED <<store, tries, otaTries>>

LEMMA StepKinds ==
  ASSUME ~IoErrors, Inv, [OtaNext]_vars
  PROVE  \/ MB1 \/ LoadKernel \/ UpdateSmd \/ FlushBegin \/ FlushWrite \/ FinishBoot
         \/ UEConfirm \/ UESetActive \/ ResetStep \/ UNCHANGED vars
<1>1. ~FlushFails /\ stage # "hang"
  BY Zenon DEF FlushFails, Inv, AgreeInv
<1>2. LoaderReset \/ KernelReset \/ Watchdog \/ PowerLoss \/ PowerCycle => ResetStep
  BY <1>1, Zenon DEF LoaderReset, KernelReset, Watchdog, PowerLoss, PowerCycle, ResetStep, BootStages
<1> QED BY <1>1, <1>2, Zenon DEF OtaNext, Next, Boot, Environment

\* What a reader finds is one of the copies.
LEMMA CurrentFacts ==
  ASSUME TypeOK
  PROVE  /\ Current \in Smd \cup {NoSmd}
         /\ Current # NoSmd => /\ Current \in Smd /\ Stored = Current
                              /\ \E c \in Copies : Valid(c) /\ Current = store[c]
         /\ Current = NoSmd => Stored = Corrupt /\ \A c \in Copies : ~Valid(c)
         /\ \A c \in Copies : Valid(c) => store[c] \in Smd /\ Current # NoSmd
<1>1. \A c \in Copies : store[c] \in Smd \cup {Corrupt}
  BY Zenon DEF TypeOK
<1>2. NoSmd \notin Smd /\ Corrupt \notin Smd /\ Copies = {"SMD", "SMD_b"}
  BY SentinelAssumption, Zenon DEF Copies
<1> QED BY <1>1, <1>2, Zenon DEF Current, Stored, Valid

\* The slot that boot_chain_get_bootslot_from_smd returns is the only one.
LEMMA ActiveUnique ==
  ASSUME NEW m \in Smd, NEW s \in Slots, NEW t \in Slots, IsActiveSlot(m, s), IsActiveSlot(m, t)
  PROVE  s = t
BY DEF IsActiveSlot, Smd, Slots

\* The register that MB1 reads its retry counts from, given the metadata m.
ReadFrom(reg, m) ==
  \/ sr.magic /\ reg = sr
  \/ ~sr.magic /\ reg.retry_count = m.retry_count

\* MB1 selects slot s.
Picks(reg, m, s) ==
  /\ ReadFrom(reg, m)
  /\ IsActiveSlot(CopyRegToSmd(m, reg), s)
  /\ sr'.slot = s /\ sr'.magic
  /\ sr'.retry_count[Other(s)] = reg.retry_count[Other(s)]
  /\ sr'.retry_count[s] = IF SpendsRetry(m, s) THEN reg.retry_count[s] - 1
                                              ELSE reg.retry_count[s]
  /\ sr'.flag = UpdateFlag(m, s, reg.flag)
  /\ tries' = IF s = tries.slot THEN tries ELSE [slot |-> s, n |-> 0]

LEMMA MB1Facts ==
  ASSUME ~IoErrors, Inv, MB1
  PROVE  /\ UNCHANGED <<store, ram, copy, loadErr, otaTries>> /\ stage = "mb1" /\ ram = NoSmd
         /\ \/ /\ stage' = "halt" /\ tries' = tries
               /\ \A t \in Slots : sr'.retry_count[t] \in
                    {sr.retry_count[t], MB1Smd(Current).retry_count[t], 0}
            \/ /\ stage' = "load"
               /\ \E reg \in Reg, s \in Slots : Picks(reg, MB1Smd(Current), s)
<1>0. /\ UNCHANGED <<store, ram, copy, loadErr, otaTries>> /\ stage = "mb1" /\ ram = NoSmd
      /\ sr \in Reg
  BY Zenon DEF MB1, Inv, AgreeInv, TypeInv, TypeOK
<1>1. PICK m \in Candidates :
        /\ Loadable(m)
        /\ LET reg == InitBootSlotReg(MB1Smd(m), sr)
               smd == CopyRegToSmd(MB1Smd(m), reg)
           IN  \/ sr' = reg /\ stage' = "halt" /\ tries' = tries
               \/ \E s \in Slots :
                    /\ IsActiveSlot(smd, s)
                    /\ sr' = SaveBootSlotReg(CheckAndUpdateRetryCount(smd, s), s, reg)
                    /\ stage' = "load"
                    /\ tries' = IF s = tries.slot THEN tries ELSE [slot |-> s, n |-> 0]
  BY Zenon DEF MB1
<1> DEFINE M == MB1Smd(m)
           reg == InitBootSlotReg(M, sr)
           d == CopyRegToSmd(M, reg)
<1>2. m = Current /\ M \in Smd
  BY <1>1, LoadableIsCurrent, CandidatesType, SmdInitType, Zenon DEF Inv, TypeInv, MB1Smd
<1>3. reg \in Reg
  BY <1>0, <1>2, InitBootSlotRegType, Zenon
<1>4. /\ reg.magic
      /\ \/ sr.magic /\ reg = sr
         \/ ~sr.magic /\ \A t \in Slots : reg.retry_count[t] = M.retry_count[t]
         \/ ~sr.magic /\ \A t \in Slots : reg.retry_count[t] = 0
  <2>1. CASE sr.magic
    BY <2>1, Zenon DEF InitBootSlotReg
  <2>2. CASE ~sr.magic /\ NoBootableSlot(M)
    BY <2>2, Zenon DEF InitBootSlotReg, EmptyReg
  <2>3. CASE ~sr.magic /\ ~NoBootableSlot(M)
    <3> DEFINE s == CHOOSE t \in Slots : IsActiveSlot(M, t)
    <3>1. s \in Slots
      BY <1>2, <2>3, ActiveSlotExists, Zenon
    <3> HIDE DEF s
    <3>2. reg = SaveBootSlotReg(M, s, EmptyReg(TRUE))
      BY <2>3, Zenon DEF InitBootSlotReg, s
    <3>3. EmptyReg(TRUE) \in Reg
      BY EmptyRegType, Zenon
    <3>4. EmptyReg(TRUE).magic
      BY Zenon DEF EmptyReg
    <3> HIDE DEF M, reg
    <3>5. /\ \A t \in Slots : SaveBootSlotReg(M, s, EmptyReg(TRUE)).retry_count[t] = M.retry_count[t]
          /\ SaveBootSlotReg(M, s, EmptyReg(TRUE)).magic = EmptyReg(TRUE).magic
      BY <1>2, <3>1, <3>3, SaveBootSlotRegFields, Zenon
    <3> QED BY <2>3, <3>2, <3>4, <3>5, Zenon
  <2> QED BY <2>1, <2>2, <2>3, Zenon
<1> HIDE DEF M, reg
<1>5. CASE sr' = reg /\ stage' = "halt" /\ tries' = tries
  BY <1>0, <1>2, <1>4, <1>5, Zenon DEF M
<1>6. ASSUME NEW s \in Slots, IsActiveSlot(d, s),
             sr' = SaveBootSlotReg(CheckAndUpdateRetryCount(d, s), s, reg),
             stage' = "load",
             tries' = IF s = tries.slot THEN tries ELSE [slot |-> s, n |-> 0]
      PROVE  Picks(reg, M, s)
  <2> DEFINE e == CheckAndUpdateRetryCount(d, s)
  <2>1. /\ d \in Smd
        /\ d.retry_count = reg.retry_count /\ d.version = M.version
        /\ d.boot_successful = M.boot_successful
    BY <1>2, <1>3, CopyRegToSmdType, CopyRegToSmdFields, Zenon
  <2>2. Bootable(d, s)
    BY <1>6, Zenon DEF IsActiveSlot
  <2>a. sr' = SaveBootSlotReg(e, s, reg) /\ IsActiveSlot(d, s)
    BY <1>6, Zenon
  <2> HIDE DEF d
  <2>3. e \in Smd
    BY <2>1, <2>2, CheckAndUpdateType, Zenon DEF Bootable
  <2>4. /\ \A t \in Slots : t # s => e.retry_count[t] = d.retry_count[t]
        /\ e.retry_count[s] = IF SpendsRetry(d, s) THEN d.retry_count[s] - 1 ELSE d.retry_count[s]
        /\ e.boot_successful = d.boot_successful /\ e.version = d.version
    BY <2>1, CheckAndUpdateFields, Zenon
  <2> HIDE DEF e
  <2>5. /\ sr'.slot = s /\ sr'.magic = reg.magic
        /\ \A t \in Slots : sr'.retry_count[t] = e.retry_count[t]
        /\ sr'.flag = UpdateFlag(e, s, reg.flag)
    BY <1>3, <2>3, <2>a, SaveBootSlotRegFields
  <2>6. /\ SpendsRetry(d, s) <=> SpendsRetry(M, s)
        /\ UpdateFlag(e, s, reg.flag) = UpdateFlag(M, s, reg.flag)
    BY <2>1, <2>4, Zenon DEF SpendsRetry, SupportRedundancy, UpdateFlag
  <2>7. Other(s) \in Slots /\ Other(s) # s
    BY OtherSlot, Zenon
  <2>8. ReadFrom(reg, M)
    <3>1. ~(\A t \in Slots : reg.retry_count[t] = 0)
      BY <2>1, <2>2, Zenon DEF Bootable
    <3>2. M.retry_count \in [Slots -> 0..15] /\ reg.retry_count \in [Slots -> 0..15]
      BY <1>2, <1>3, Zenon DEF Smd, Reg
    <3> QED BY <1>4, <3>1, <3>2 DEF ReadFrom
  <2>9. /\ sr'.retry_count[Other(s)] = reg.retry_count[Other(s)]
        /\ sr'.retry_count[s] = IF SpendsRetry(M, s) THEN reg.retry_count[s] - 1
                                                    ELSE reg.retry_count[s]
    BY <2>1, <2>4, <2>5, <2>6, <2>7, Zenon
  <2> QED BY <1>4, <1>6, <2>a, <2>5, <2>6, <2>8, <2>9, Zenon DEF Picks, d
<1> QED BY <1>0, <1>1, <1>2, <1>3, <1>5, <1>6, Zenon DEF M, reg

LEMMA RestoreRetryFields ==
  ASSUME NEW r \in Reg
  PROVE  /\ RestoreRetry(r).slot = r.slot /\ RestoreRetry(r).magic = r.magic
         /\ RestoreRetry(r).flag = r.flag
<1> DEFINE n == (r.retry_count[r.slot] + 1) % 16
<1> HIDE DEF n
<1>1. RestoreRetry(r) = [r EXCEPT !.retry_count[r.slot] = n]
  BY Zenon DEF RestoreRetry, SetRetryCountReg, n
<1> QED BY <1>1, Zenon DEF Reg

\* The outcomes of tegrabl_a_b_update_smd before the flush: nothing to record;
\* the stored slot kept, or left for the one that was booted, with redundancy
\* for the bootloader only; the retry restored and the priorities rotated, with
\* redundancy up to the kernel; the register's retry counts recorded.
NothingToRecord ==
  /\ stage' = "clear" /\ UNCHANGED <<sr, ram>>
  /\ sr.flag = "OTA_OFF" \/ Current = NoSmd

RedundantBoot ==
  Current # NoSmd /\ sr.flag = "REDUNDANCY_BOOT" /\ SupportRedundancy(Current)

KeepsStoredSlot ==
  /\ RedundantBoot /\ ~SupportRedundancyUser(Current)
  /\ stage' = "clear" /\ sr' = sr /\ ram' = Current
  /\ NoBootableSlot(Current) \/ IsActiveSlot(Current, sr.slot)

RestoresRetry ==
  /\ RedundantBoot
  /\ stage' = "begin" /\ sr' = RestoreRetry(sr)
  /\ \/ ~SupportRedundancyUser(Current) /\ ram' = CopyRegToSmd(Current, sr')
     \/ /\ SupportRedundancyUser(Current) /\ ~BothBootable(Current, sr)
        /\ ram' = CopyRegToSmd(Current, sr')
     \/ /\ SupportRedundancyUser(Current) /\ BothBootable(Current, sr)
        /\ Current.priority[sr.slot] >= Current.priority[Other(sr.slot)]
        /\ ram' = CopyRegToSmd(RotateSlotsPriority(Current, sr.slot), sr')

RecordsRetries ==
  /\ Current # NoSmd /\ sr.flag # "OTA_OFF"
  /\ ~(sr.flag = "REDUNDANCY_BOOT" /\ SupportRedundancy(Current))
  /\ stage' = "begin" /\ sr' = sr /\ ram' = CopyRegToSmd(Current, sr)

LEMMA UpdateFacts ==
  ASSUME ~IoErrors, Inv, UpdateSmd, sr.magic
  PROVE  /\ UNCHANGED <<store, copy, loadErr, tries, otaTries>> /\ stage = "update"
         /\ NothingToRecord \/ KeepsStoredSlot \/ RestoresRetry \/ RecordsRetries
<1>0. /\ UNCHANGED <<store, copy, loadErr, tries, otaTries>> /\ stage = "update"
      /\ ram # NoSmd => ram = Current
      /\ stage' # "hang"
  BY UpdateSmdRange, Zenon DEF UpdateSmd, Inv, AgreeInv
<1>f. sr.flag \in {"OTA_OFF", "REDUNDANCY_BOOT", "OTA_ON"}
  BY Zenon DEF Inv, TypeInv, TypeOK, Reg, Flags
<1>1. CASE sr.flag = "OTA_OFF"
  BY <1>0, <1>1, Zenon DEF UpdateSmd, NothingToRecord
<1>2. CASE sr.flag # "OTA_OFF"
  <2>1. PICK m \in Candidates :
          /\ GetSmd(m)
          /\ \/ m = NoSmd /\ stage' = "clear" /\ UNCHANGED <<sr, ram>>
             \/ /\ m # NoSmd
                /\ sr.flag = "REDUNDANCY_BOOT" /\ SupportRedundancy(m)
                /\ IF SupportRedundancyUser(m) THEN CheckUserRedundancy(m)
                                               ELSE CheckNonUserRedundancy(m)
             \/ /\ m # NoSmd
                /\ ~(sr.flag = "REDUNDANCY_BOOT" /\ SupportRedundancy(m))
                /\ ram' = CopyRegToSmd(m, sr) /\ stage' = "begin" /\ UNCHANGED sr
    BY <1>f, <1>2, Zenon DEF UpdateSmd
  <2>2. m = Current
    BY <1>0, <2>1, LoadableIsCurrent, Zenon DEF GetSmd
  <2>3. CASE m = NoSmd
    BY <1>0, <2>1, <2>2, <2>3, Zenon DEF NothingToRecord
  <2>4. CASE m # NoSmd /\ ~(sr.flag = "REDUNDANCY_BOOT" /\ SupportRedundancy(m))
    BY <1>0, <1>2, <2>1, <2>2, <2>4, Zenon DEF RecordsRetries
  <2>5. CASE /\ m # NoSmd /\ sr.flag = "REDUNDANCY_BOOT" /\ SupportRedundancy(m)
             /\ SupportRedundancyUser(m) /\ CheckUserRedundancy(m)
    BY <1>0, <2>2, <2>5, Zenon DEF CheckUserRedundancy, RestoresRetry, RedundantBoot
  <2>6. CASE /\ m # NoSmd /\ sr.flag = "REDUNDANCY_BOOT" /\ SupportRedundancy(m)
             /\ ~SupportRedundancyUser(m) /\ CheckNonUserRedundancy(m)
    BY <1>0, <2>2, <2>6, Zenon
       DEF CheckNonUserRedundancy, RestoresRetry, KeepsStoredSlot, RedundantBoot
  <2> QED BY <2>1, <2>3, <2>4, <2>5, <2>6, Zenon
<1> QED BY <1>1, <1>2, Zenon

-----------------------------------------------------------------------------
(***************************************************************************)
(* The flush: what the register, the cache and the copies have in common   *)
(* while an outcome is being recorded.                                     *)
(***************************************************************************)
FlushInv ==
  /\ stage \in {"mb1", "load", "update"} => copy = "SMD"
  /\ stage \in {"begin", "write"} /\ copy = "SMD_b" => store["SMD"] = ram
  /\ stage = "begin" => Current # NoSmd
  /\ stage = "flushed" => \A c \in Copies : store[c] = ram
  /\ stage \in FlushStages => ram.retry_count = sr.retry_count /\ sr.flag # "OTA_OFF"
  /\ stage \in BootStages => sr.magic /\ tries.slot = sr.slot
  /\ stage \in {"kernel", "running"} => ~sr.magic

\* The metadata that the four outcomes leave in the cache.
LEMMA UpdateRam ==
  ASSUME ~IoErrors, Inv, stage = "update", RestoresRetry \/ RecordsRetries
  PROVE  /\ Current \in Smd /\ SelectedBy(sr, Current)
         /\ sr' \in Reg /\ ram'.retry_count = sr'.retry_count
         /\ sr'.slot = sr.slot /\ sr'.magic = sr.magic /\ sr'.flag = sr.flag
         /\ ram'.version = Current.version /\ ram'.num_slots = Current.num_slots
         /\ ram'.boot_successful = Current.boot_successful
         /\ ~SupportRedundancyUser(Current) => ram'.priority = Current.priority
<1>1. sr \in Reg /\ sr.slot \in Slots /\ TypeOK /\ Current # NoSmd
  BY Zenon DEF Inv, TypeInv, TypeOK, Reg, RestoresRetry, RecordsRetries, RedundantBoot
<1>2. Current \in Smd
  BY <1>1, CurrentFacts, Zenon
<1>3. SelectedBy(sr, Current)
  BY <1>1, Zenon DEF Inv, AgreeInv, MB1Smd
<1>4. /\ sr' \in Reg
      /\ sr'.slot = sr.slot /\ sr'.magic = sr.magic /\ sr'.flag = sr.flag
  BY <1>1, RestoreRetryType, RestoreRetryFields, Zenon DEF RestoresRetry, RecordsRetries
<1>5. ASSUME ram' = CopyRegToSmd(Current, sr')
      PROVE  /\ ram'.retry_count = sr'.retry_count /\ ram'.priority = Current.priority
             /\ ram'.version = Current.version /\ ram'.num_slots = Current.num_slots
             /\ ram'.boot_successful = Current.boot_successful
  BY <1>2, <1>4, <1>5, CopyRegToSmdFields, Zenon
<1>6. ASSUME SupportRedundancyUser(Current), BothBootable(Current, sr),
             Current.priority[sr.slot] >= Current.priority[Other(sr.slot)],
             ram' = CopyRegToSmd(RotateSlotsPriority(Current, sr.slot), sr')
      PROVE  /\ ram'.retry_count = sr'.retry_count
             /\ ram'.version = Current.version /\ ram'.num_slots = Current.num_slots
             /\ ram'.boot_successful = Current.boot_successful
  <2> DEFINE R == RotateSlotsPriority(Current, sr.slot)
  <2>1. \A t \in Slots : Current.priority[t] <= SLOT_PRIORITY_DEFAULT
    <3>1. \E c \in Copies : Valid(c) /\ Current = store[c]
      BY <1>1, CurrentFacts, Zenon
    <3> QED BY <3>1, Zenon DEF Inv, RangeInv, RangeOK, Valid
  <2>2. SameButPriority(R, Current)
    BY <1>1, <1>2, <1>6, <2>1, RotateFacts, Zenon DEF BothBootable
  <2> HIDE DEF R
  <2>3. ram' = CopyRegToSmd(R, sr')
    BY <1>6, Zenon DEF R
  <2> QED BY <1>4, <2>2, <2>3, CopyRegToSmdFields, Zenon DEF SameButPriority
<1>7. RecordsRetries => ram' = CopyRegToSmd(Current, sr')
  BY Zenon DEF RecordsRetries
<1> QED BY <1>2, <1>3, <1>4, <1>5, <1>6, <1>7, Zenon DEF RestoresRetry

LEMMA InitFlushInv == Init => FlushInv
BY Zenon DEF Init, FlushInv, FlushStages, BootStages

LEMMA NextFlushInv ==
  ASSUME ~IoErrors
  PROVE  Inv /\ FlushInv /\ [OtaNext]_vars => FlushInv'
<1> SUFFICES ASSUME Inv, FlushInv, [OtaNext]_vars PROVE FlushInv'
  OBVIOUS
<1> USE DEF FlushStages, BootStages
<1>t. /\ TypeOK /\ store \in [Copies -> Smd \cup {Corrupt}] /\ copy \in Copies
      /\ stage \in Stages
  BY Zenon DEF Inv, TypeInv, TypeOK
<1>1. CASE MB1
  <2>1. copy' = copy /\ stage = "mb1" /\ stage' \in {"halt", "load"}
    BY <1>1, MB1Facts, Zenon
  <2>2. stage' = "load" => sr'.magic /\ tries'.slot = sr'.slot
    <3> SUFFICES ASSUME stage' = "load" PROVE sr'.magic /\ tries'.slot = sr'.slot
      OBVIOUS
    <3>1. PICK reg \in Reg, s \in Slots : Picks(reg, MB1Smd(Current), s)
      BY <1>1, MB1Facts, Zenon
    <3> QED BY <3>1, Zenon DEF Picks
  <2> QED BY <2>1, <2>2, Zenon DEF FlushInv
<1>2. CASE LoadKernel
  BY <1>2, Zenon DEF LoadKernel, FlushInv
<1>3. CASE UpdateSmd
  <2>0. sr.magic /\ tries.slot = sr.slot /\ copy = "SMD"
    BY <1>3, Zenon DEF UpdateSmd, FlushInv
  <2>1. /\ UNCHANGED <<store, copy, tries>> /\ stage = "update"
        /\ NothingToRecord \/ KeepsStoredSlot \/ RestoresRetry \/ RecordsRetries
    BY <1>3, <2>0, UpdateFacts, Zenon
  <2>2. CASE NothingToRecord \/ KeepsStoredSlot
    BY <2>0, <2>1, <2>2, Zenon DEF NothingToRecord, KeepsStoredSlot, FlushInv
  <2>3. CASE RestoresRetry \/ RecordsRetries
    <3>1. stage' = "begin" /\ Current # NoSmd /\ sr.flag # "OTA_OFF"
      BY <2>3, Zenon DEF RestoresRetry, RecordsRetries, RedundantBoot
    <3>2. Current' # NoSmd
      BY <2>1, <3>1, Zenon DEF Current
    <3>3. /\ ram'.retry_count = sr'.retry_count /\ sr'.slot = sr.slot
          /\ sr'.magic = sr.magic /\ sr'.flag = sr.flag
      BY <2>1, <2>3, UpdateRam, Zenon
    <3> QED BY <2>0, <2>1, <3>1, <3>2, <3>3, Zenon DEF FlushInv
  <2> QED BY <2>1, <2>2, <2>3, Zenon
<1>4. CASE FlushBegin
  <2>1. copy = "SMD_b" => store'["SMD"] = store["SMD"]
    BY <1>4, <1>t, Zenon DEF FlushBegin, Copies
  <2> QED BY <1>4, <2>1, Zenon DEF FlushBegin, FlushInv
<1>5. CASE FlushWrite
  <2>1. /\ stage = "write" /\ UNCHANGED <<sr, ram, tries>>
        /\ \A c \in Copies : store'[c] = IF c = copy THEN ram ELSE store[c]
        /\ IF copy = "SMD" THEN copy' = "SMD_b" /\ stage' = "begin"
                           ELSE copy' = copy /\ stage' = "flushed"
    BY <1>5, <1>t, Zenon DEF FlushWrite, NextCopy
  <2>2. ram # Corrupt /\ ram # NoSmd
    BY <2>1, SentinelAssumption, Zenon DEF Inv, TypeInv, TypeOK
  <2>3. copy \in {"SMD", "SMD_b"} /\ Copies = {"SMD", "SMD_b"}
    BY <1>t, Zenon DEF Copies
  <2>4. Current' # NoSmd
    BY <1>t, <2>1, <2>2, <2>3, SentinelAssumption, Zenon DEF Current
  <2> QED BY <2>1, <2>3, <2>4, Zenon DEF FlushInv
<1>6. CASE FinishBoot
  <2>1. ~sr'.magic
    BY <1>6, Zenon DEF FinishBoot, ClearReg, ClearedReg, EmptyReg
  <2>2. stage' = "kernel" \/ (stage' = "mb1" /\ copy' = "SMD")
    BY <1>6, Zenon DEF FinishBoot, SocReset
  <2> QED BY <2>1, <2>2, Zenon DEF FlushInv
<1>7. CASE UEConfirm \/ UESetActive
  BY <1>7, Zenon DEF UEConfirm, UESetActive, FlushInv
<1>8. CASE ResetStep
  BY <1>8, Zenon DEF ResetStep, SocReset, FlushInv
<1>9. CASE UNCHANGED vars
  BY <1>9, Zenon DEF vars, FlushInv, Current
<1> QED BY <1>1, <1>2, <1>3, <1>4, <1>5, <1>6, <1>7, <1>8, <1>9, StepKinds, Zenon

-----------------------------------------------------------------------------
(***************************************************************************)
(* The register against the metadata: its flag says what is to be recorded *)
(* of the boot, and with redundancy the slot is the one that the metadata  *)
(* selects once the spent retry is given back.                             *)
(***************************************************************************)
SelectedStages == {"load", "update"}

FlagInv ==
  stage \in SelectedStages /\ Current # NoSmd =>
    /\ ~Current.boot_successful[sr.slot] => sr.flag = "OTA_ON"
    /\ Current.boot_successful[sr.slot] /\ SupportRedundancy(Current) =>
         sr.flag = "REDUNDANCY_BOOT"
    /\ SupportRedundancy(Current) => IsActiveSlot(CopyRegToSmd(Current, RestoreRetry(sr)), sr.slot)

LEMMA PicksFlag ==
  ASSUME NEW m \in Smd, NEW reg \in Reg, NEW s \in Slots, Picks(reg, m, s), sr' \in Reg,
         \A t \in Slots : sr'.retry_count[t] <= SLOT_RETRY_COUNT_DEFAULT, SelectedBy(sr', m)
  PROVE  /\ ~m.boot_successful[s] => sr'.flag = "OTA_ON"
         /\ m.boot_successful[s] /\ SupportRedundancy(m) => sr'.flag = "REDUNDANCY_BOOT"
         /\ SupportRedundancy(m) => IsActiveSlot(CopyRegToSmd(m, RestoreRetry(sr')), s)
<1>0. sr'.slot = s
  BY Zenon DEF Picks
<1>1. /\ ~m.boot_successful[s] => sr'.flag = "OTA_ON"
      /\ m.boot_successful[s] /\ SupportRedundancy(m) => sr'.flag = "REDUNDANCY_BOOT"
  BY Zenon DEF Picks, UpdateFlag
<1>2. ASSUME SupportRedundancy(m)
      PROVE  IsActiveSlot(CopyRegToSmd(m, RestoreRetry(sr')), s)
  <2>1. \A t \in Slots : RestoreRetry(sr').retry_count[t] =
                           IF t = s THEN sr'.retry_count[t] + 1 ELSE sr'.retry_count[t]
    BY <1>0, <1>2, RestoreRetryRange, Zenon DEF SelectedBy
  <2>2. /\ sr'.retry_count[s] = reg.retry_count[s] - 1
        /\ sr'.retry_count[Other(s)] = reg.retry_count[Other(s)]
    BY <1>2, Zenon DEF Picks, SpendsRetry
  <2>3. \A t \in Slots : t = s \/ t = Other(s)
    BY DEF Slots, Other
  <2>4. RestoreRetry(sr') \in Reg
    BY RestoreRetryType, Zenon
  <2>5. /\ reg.retry_count \in [Slots -> 0..15]
        /\ RestoreRetry(sr').retry_count \in [Slots -> 0..15]
    BY <2>4, Zenon DEF Reg
  <2>6. \A t \in Slots : RestoreRetry(sr').retry_count[t] = reg.retry_count[t]
    BY <2>1, <2>2, <2>3, <2>5
  <2>7. RestoreRetry(sr').retry_count = reg.retry_count
    BY <2>5, <2>6
  <2>8. CopyRegToSmd(m, RestoreRetry(sr')) = CopyRegToSmd(m, reg)
    BY <2>7, Zenon DEF CopyRegToSmd
  <2> QED BY <2>8, Zenon DEF Picks
<1> QED BY <1>1, <1>2, Zenon

LEMMA NextFlagInv ==
  ASSUME ~IoErrors
  PROVE  Inv /\ FlagInv /\ [OtaNext]_vars => FlagInv'
<1> SUFFICES ASSUME Inv, FlagInv, [OtaNext]_vars, stage' \in SelectedStages, Current' # NoSmd
             PROVE  FlagInv'
  BY Zenon DEF FlagInv
<1>i. Inv'
  BY NextInv, Zenon
<1>1. CASE MB1
  <2>1. stage' = "load" /\ Current' = Current
    BY <1>1, MB1Facts, Zenon DEF SelectedStages, Current
  <2>2. PICK reg \in Reg, s \in Slots : Picks(reg, MB1Smd(Current), s)
    BY <1>1, <2>1, MB1Facts, Zenon DEF SelectedStages
  <2>3. Current \in Smd /\ MB1Smd(Current) = Current /\ sr'.slot = s
    BY <2>1, <2>2, CurrentFacts, Zenon DEF Inv, TypeInv, MB1Smd, Picks
  <2>4. /\ sr' \in Reg /\ \A t \in Slots : sr'.retry_count[t] <= SLOT_RETRY_COUNT_DEFAULT
    BY <1>i, Zenon DEF Inv, TypeInv, TypeOK, RangeInv
  <2>5. SelectedBy(sr', Current)
    BY <1>i, <2>1, <2>3, Zenon DEF Inv, AgreeInv, MB1Smd, SelectedBy
  <2>6. /\ ~Current.boot_successful[s] => sr'.flag = "OTA_ON"
        /\ Current.boot_successful[s] /\ SupportRedundancy(Current) => sr'.flag = "REDUNDANCY_BOOT"
        /\ SupportRedundancy(Current) => IsActiveSlot(CopyRegToSmd(Current, RestoreRetry(sr')), s)
    BY <2>2, <2>3, <2>4, <2>5, PicksFlag, Zenon
  <2>7. RestoreRetry(sr)' = RestoreRetry(sr') /\ SupportRedundancy(Current)' = SupportRedundancy(Current')
    BY Zenon DEF RestoreRetry, SetRetryCountReg, SupportRedundancy
  <2>8. ASSUME SupportRedundancy(Current)'
        PROVE  IsActiveSlot(CopyRegToSmd(Current, RestoreRetry(sr)), sr.slot)'
    <3>1. IsActiveSlot(CopyRegToSmd(Current, RestoreRetry(sr')), s)
      BY <2>1, <2>6, <2>8, Zenon DEF SupportRedundancy
    <3> QED BY <2>1, <2>3, <2>7, <3>1, Zenon DEF IsActiveSlot, Bootable, CopyRegToSmd
  <2> QED BY <2>1, <2>3, <2>6, <2>8, Zenon DEF FlagInv, SupportRedundancy
<1>2. CASE LoadKernel
  <2>1. stage = "load" /\ sr' = sr /\ Current' = Current
    BY <1>2, Zenon DEF LoadKernel, Current
  <2> QED BY <2>1, Zenon DEF FlagInv, SelectedStages, SupportRedundancy, IsActiveSlot, Bootable,
                      CopyRegToSmd, RestoreRetry, SetRetryCountReg
<1>3. CASE UNCHANGED vars
  <2>1. UNCHANGED <<stage, sr>> /\ Current' = Current
    BY <1>3, Zenon DEF vars, Current
  <2> QED BY <2>1, Zenon DEF FlagInv, SelectedStages, SupportRedundancy, IsActiveSlot, Bootable,
                      CopyRegToSmd, RestoreRetry, SetRetryCountReg
<1>4. ~(UpdateSmd \/ FlushBegin \/ FlushWrite \/ FinishBoot \/ UEConfirm \/ UESetActive \/ ResetStep)
  <2>1. UpdateSmd => stage' \in {"begin", "clear", "hang"}
    BY UpdateSmdType, Zenon DEF Inv, TypeInv
  <2> QED BY <2>1, Zenon DEF FlushBegin, FlushWrite, NextCopy, FinishBoot, UEConfirm, UESetActive,
                      ResetStep, SocReset, SelectedStages
<1> QED BY <1>1, <1>2, <1>3, <1>4, StepKinds, Zenon

-----------------------------------------------------------------------------
(***************************************************************************)
(* Retries of an updated slot.  The retries left in the register and in    *)
(* the copies and the entries into the slot's kernel so far never exceed   *)
(* the retries the slot was given; before the entry that is about to       *)
(* happen there is one to spare.                                           *)
(***************************************************************************)
Left(n, s) == n + otaTries[s] <= SLOT_RETRY_COUNT_DEFAULT

SmdLeft(m) ==
  \A s \in Slots : Left(m.retry_count[s], s) /\ (m.boot_successful[s] => otaTries[s] = 0)

OtaInv ==
  /\ \A s \in Slots : otaTries[s] <= SLOT_RETRY_COUNT_DEFAULT
  /\ \A c \in Copies : Valid(c) => SmdLeft(store[c])
  /\ stage \in BootStages /\ ram # NoSmd => SmdLeft(ram)
  /\ stage = "write" \/ Current # NoSmd => \A s \in Slots : Left(sr.retry_count[s], s)
  /\ stage \in SelectedStages /\ Current # NoSmd /\ ~Current.boot_successful[sr.slot] =>
       Left(sr.retry_count[sr.slot] + 1, sr.slot)
  /\ stage \in FlushStages /\ ~ram.boot_successful[sr.slot] =>
       Left(ram.retry_count[sr.slot] + 1, sr.slot)
  /\ stage = "clear" /\ ram # NoSmd => ram.boot_successful[sr.slot]

LEMMA InitOtaInv == Init => OtaInv
<1> SUFFICES ASSUME Init PROVE OtaInv
  OBVIOUS
<1>1. PICK m \in InitialSmds : store = [c \in Copies |-> m]
  BY Zenon DEF Init
<1>2. m \in Smd /\ \A s \in Slots : m.retry_count[s] \in 0..15 /\ m.retry_count[s] <= SLOT_RETRY_COUNT_DEFAULT
  BY InitialAssumption, Zenon DEF Smd
<1>3. \A s \in Slots : otaTries[s] = 0 /\ sr.retry_count[s] = 0
  BY Zenon DEF Init, ClearedReg, EmptyReg
<1>4. SmdLeft(m)
  BY <1>2, <1>3, RetryAssumption DEF SmdLeft, Left
<1> QED BY <1>1, <1>3, <1>4, RetryAssumption
     DEF Init, OtaInv, Left, BootStages, SelectedStages, FlushStages

\* What the counting adds up, in the types that the arithmetic needs.
OtaTypes ==
  /\ \A s \in Slots : otaTries[s] \in Nat /\ sr.retry_count[s] \in 0..15
  /\ sr \in Reg /\ sr.slot \in Slots /\ SLOT_RETRY_COUNT_DEFAULT \in 1..14
  /\ TypeOK

LEMMA OtaTypesHold ==
  ASSUME Inv
  PROVE  OtaTypes
BY RetryAssumption DEF Inv, TypeInv, TypeOK, OtaTypes, OtaTriesCap, Reg

LEMMA MB1OtaInv ==
  ASSUME ~IoErrors, Inv, OtaInv, MB1
  PROVE  OtaInv'
<1>0. OtaTypes
  BY OtaTypesHold, Zenon
<1>1. UNCHANGED <<store, otaTries>> /\ ram' = NoSmd /\ Current' = Current /\ stage' \in {"halt", "load"}
  BY MB1Facts, Zenon DEF Current
<1>2. ASSUME Current # NoSmd
      PROVE  /\ \A s \in Slots : Left(sr'.retry_count[s], s)
             /\ stage' = "load" /\ ~Current.boot_successful[sr'.slot] =>
                  Left(sr'.retry_count[sr'.slot] + 1, sr'.slot)
  <2>1. /\ \A s \in Slots : Left(sr.retry_count[s], s) /\ Left(0, s)
        /\ SmdLeft(Current) /\ Current \in Smd /\ MB1Smd(Current) = Current
    <3>1. Current \in Smd /\ \E c \in Copies : Valid(c) /\ Current = store[c]
      BY <1>0, <1>2, CurrentFacts, Zenon DEF OtaTypes
    <3>2. \A s \in Slots : Left(0, s)
      BY <1>0 DEF OtaInv, Left, OtaTypes
    <3> QED BY <1>2, <3>1, <3>2, Zenon DEF OtaInv, MB1Smd
  <2>2. CASE stage' = "halt"
    <3>1. \A t \in Slots : sr'.retry_count[t] \in {sr.retry_count[t], Current.retry_count[t], 0}
      BY <2>1, <2>2, MB1Facts, Zenon
    <3> QED BY <2>1, <2>2, <3>1, Zenon DEF SmdLeft
  <2>3. CASE stage' = "load"
    <3>1. PICK reg \in Reg, s \in Slots : Picks(reg, Current, s)
      BY <2>1, <2>3, MB1Facts, Zenon
    <3>2. \A t \in Slots : Left(reg.retry_count[t], t)
      BY <2>1, <3>1, Zenon DEF Picks, ReadFrom, SmdLeft
    <3>3. \A t \in Slots : t = s \/ t = Other(s)
      BY <3>1 DEF Slots, Other
    <3>4. \A t \in Slots : reg.retry_count[t] \in 0..15
      BY <3>1, Zenon DEF Reg
    <3>5. sr'.slot = s /\ sr'.retry_count[Other(s)] = reg.retry_count[Other(s)]
      BY <3>1, Zenon DEF Picks
    <3>6. /\ sr'.retry_count[s] \in {reg.retry_count[s] - 1, reg.retry_count[s]}
          /\ ~Current.boot_successful[s] => sr'.retry_count[s] = reg.retry_count[s] - 1
      BY <3>1, Zenon DEF Picks, SpendsRetry
    <3>7. Left(sr'.retry_count[s], s)
      BY <1>0, <3>2, <3>4, <3>6 DEF Left, OtaTypes
    <3>8. ~Current.boot_successful[s] => Left(sr'.retry_count[s] + 1, s)
      BY <1>0, <3>2, <3>4, <3>6 DEF Left, OtaTypes
    <3> QED BY <3>2, <3>3, <3>5, <3>7, <3>8, Zenon
  <2> QED BY <1>1, <2>2, <2>3, Zenon
<1> QED BY <1>1, <1>2, Zenon DEF OtaInv, Left, SmdLeft, Valid, BootStages, SelectedStages, FlushStages

LEMMA UpdateOtaInv ==
  ASSUME ~IoErrors, Inv, FlushInv, FlagInv, OtaInv, UpdateSmd
  PROVE  OtaInv'
<1>0. OtaTypes
  BY OtaTypesHold, Zenon
<1>1. /\ UNCHANGED <<store, otaTries>> /\ stage = "update" /\ Current' = Current
      /\ NothingToRecord \/ KeepsStoredSlot \/ RestoresRetry \/ RecordsRetries
      /\ ram # NoSmd => ram = Current
  <2>1. sr.magic
    BY Zenon DEF FlushInv, UpdateSmd, BootStages
  <2> QED BY <2>1, UpdateFacts, Zenon DEF Current, Inv, AgreeInv
<1>2. Current # NoSmd => /\ Current \in Smd /\ SmdLeft(Current)
                         /\ \A s \in Slots : Left(sr.retry_count[s], s)
                         /\ ~Current.boot_successful[sr.slot] =>
                              sr.flag = "OTA_ON" /\ Left(sr.retry_count[sr.slot] + 1, sr.slot)
  <2>1. Current # NoSmd => Current \in Smd /\ \E c \in Copies : Valid(c) /\ Current = store[c]
    BY <1>0, CurrentFacts, Zenon DEF OtaTypes
  <2> QED BY <1>1, <2>1, Zenon DEF OtaInv, FlagInv, SelectedStages
<1>3. CASE NothingToRecord \/ KeepsStoredSlot
  <2>1. stage' = "clear" /\ sr' = sr /\ ram' \in {ram, Current}
    BY <1>3, Zenon DEF NothingToRecord, KeepsStoredSlot
  <2>2. ram' # NoSmd => ram' = Current /\ sr.flag # "OTA_ON"
    BY <1>1, <1>3, <2>1, Zenon DEF NothingToRecord, KeepsStoredSlot, RedundantBoot
  <2>3. ram' # NoSmd => SmdLeft(ram') /\ ram'.boot_successful[sr.slot]
    BY <1>2, <2>2, Zenon
  <2> QED BY <1>1, <2>1, <2>3, Zenon
       DEF OtaInv, Left, SmdLeft, Valid, SelectedStages, FlushStages
<1>4. CASE RestoresRetry \/ RecordsRetries
  <2>1. /\ stage' = "begin" /\ Current # NoSmd /\ sr'.slot = sr.slot
        /\ sr' \in Reg /\ ram'.retry_count = sr'.retry_count
        /\ ram'.boot_successful = Current.boot_successful /\ SelectedBy(sr, Current)
    BY <1>1, <1>4, UpdateRam, Zenon DEF RestoresRetry, RecordsRetries, RedundantBoot
  <2>2. /\ \A s \in Slots : Left(sr'.retry_count[s], s)
        /\ ~Current.boot_successful[sr.slot] => Left(sr'.retry_count[sr.slot] + 1, sr.slot)
    <3>1. CASE RecordsRetries
      BY <1>2, <2>1, <3>1, Zenon DEF RecordsRetries
    <3>2. CASE RestoresRetry
      <4>1. Current.boot_successful[sr.slot] /\ sr.retry_count[sr.slot] < SLOT_RETRY_COUNT_DEFAULT
        BY <1>2, <2>1, <3>2, Zenon DEF RestoresRetry, RedundantBoot, SelectedBy
      <4>2. otaTries[sr.slot] = 0
        BY <1>0, <1>2, <2>1, <4>1, Zenon DEF SmdLeft, OtaTypes
      <4>3. \A t \in Slots : sr'.retry_count[t] =
                               IF t = sr.slot THEN sr.retry_count[t] + 1 ELSE sr.retry_count[t]
        BY <1>0, <3>2, <4>1, RestoreRetryRange, Zenon DEF RestoresRetry, OtaTypes, Inv, RangeInv
      <4>4. Left(sr'.retry_count[sr.slot], sr.slot)
        BY <1>0, <4>1, <4>2, <4>3 DEF Left, OtaTypes
      <4> QED BY <1>2, <2>1, <4>1, <4>3, <4>4, Zenon
    <3> QED BY <1>4, <3>1, <3>2, Zenon
  <2>3. SmdLeft(ram')
    BY <1>2, <2>1, <2>2, Zenon DEF SmdLeft
  <2> QED BY <1>1, <2>1, <2>2, <2>3, Zenon
       DEF OtaInv, Left, SmdLeft, Valid, SelectedStages, FlushStages
<1> QED BY <1>1, <1>3, <1>4, Zenon

LEMMA FinishOtaInv ==
  ASSUME ~IoErrors, Inv, FlushInv, OtaInv, FinishBoot
  PROVE  OtaInv'
<1>0. OtaTypes
  BY OtaTypesHold, Zenon
<1>1. /\ store' = store /\ CountOtaTries /\ stage \in {"flushed", "clear"}
      /\ stage' = "kernel" \/ (stage' = "mb1" /\ ram' = NoSmd)
  BY Zenon DEF FinishBoot, SocReset
<1>2. \A s \in Slots : sr'.retry_count[s] = 0
  BY <1>1, Zenon DEF FinishBoot, FlushInv, BootStages, ClearReg, ClearedReg, EmptyReg
<1>3. CASE otaTries' = otaTries
  BY <1>0, <1>1, <1>2, <1>3
  DEF OtaInv, SmdLeft, Left, Valid, OtaTypes, BootStages, SelectedStages, FlushStages
<1>4. CASE otaTries' # otaTries
  <2>1. /\ ram # NoSmd /\ ~ram.boot_successful[sr.slot]
        /\ otaTries' = [otaTries EXCEPT ![sr.slot] = IF @ < OtaTriesCap THEN @ + 1 ELSE @]
    BY <1>1, <1>4, Zenon DEF CountOtaTries
  <2>2. stage = "flushed" /\ \A c \in Copies : store[c] = ram
    BY <1>1, <2>1, Zenon DEF OtaInv, FlushInv
  <2>3. /\ Left(ram.retry_count[sr.slot] + 1, sr.slot)
        /\ SmdLeft(ram) /\ ram \in Smd
    BY <1>0, <2>1, <2>2, Zenon DEF OtaInv, BootStages, FlushStages, OtaTypes, TypeOK
  <2>a. \A s \in Slots : ram.retry_count[s] \in 0..15
    BY <2>3, Zenon DEF Smd
  <2>b. /\ \A s \in Slots : otaTries[s] <= SLOT_RETRY_COUNT_DEFAULT
        /\ otaTries \in [Slots -> 0..OtaTriesCap]
    BY <1>0, Zenon DEF OtaInv, OtaTypes, TypeOK
  <2>4. \A s \in Slots : /\ ram.retry_count[s] \in 0..15
                         /\ otaTries'[s] = IF s = sr.slot THEN otaTries[s] + 1 ELSE otaTries[s]
    BY <1>0, <2>1, <2>a, <2>b DEF OtaTypes, OtaTriesCap
  <2>5. \A s \in Slots : /\ ram.retry_count[s] + otaTries'[s] <= SLOT_RETRY_COUNT_DEFAULT
                         /\ otaTries'[s] <= SLOT_RETRY_COUNT_DEFAULT
                         /\ 0 + otaTries'[s] <= SLOT_RETRY_COUNT_DEFAULT
    BY <1>0, <2>3, <2>4 DEF Left, SmdLeft, OtaTypes
  <2>6. \A s \in Slots : ram.boot_successful[s] => otaTries'[s] = 0
    BY <2>1, <2>3, <2>4, Zenon DEF SmdLeft
  <2> QED BY <1>1, <1>2, <2>2, <2>5, <2>6, Zenon
       DEF OtaInv, Left, SmdLeft, Valid, BootStages, SelectedStages, FlushStages
<1> QED BY <1>3, <1>4, Zenon

\* Metadata as the UE leaves it, field by field.
LEMMA ConfirmedFields ==
  ASSUME NEW m \in Smd, NEW s \in Slots, NEW r \in Restored
  PROVE  LET x == Confirmed(m, s, r) IN
         /\ \A t \in Slots :
              /\ x.boot_successful[t] => t = s \/ m.boot_successful[t]
              /\ x.retry_count[t] = IF t = s THEN SLOT_RETRY_COUNT_DEFAULT ELSE m.retry_count[t]
              /\ x.priority[t] = IF t = s THEN r[1] ELSE IF m.priority[t] = 0 THEN 0 ELSE r[2]
         /\ x.version = m.version /\ x.num_slots = m.num_slots
<1> DEFINE f == [t \in Slots |-> IF t = s THEN r[1]
                                 ELSE IF m.priority[t] = 0 THEN 0 ELSE r[2]]
<1>1. \A t \in Slots : f[t] = IF t = s THEN r[1] ELSE IF m.priority[t] = 0 THEN 0 ELSE r[2]
  OBVIOUS
<1> HIDE DEF f
<1>2. Confirmed(m, s, r) = [m EXCEPT !.boot_successful[s] = TRUE,
                                     !.retry_count[s] = SLOT_RETRY_COUNT_DEFAULT, !.priority = f]
  BY Zenon DEF Confirmed, f
<1> DEFINE x == Confirmed(m, s, r)
<1> HIDE DEF x
<1>3. /\ x.priority = f /\ x.version = m.version /\ x.num_slots = m.num_slots
      /\ x.boot_successful = [m.boot_successful EXCEPT ![s] = TRUE]
      /\ x.retry_count = [m.retry_count EXCEPT ![s] = SLOT_RETRY_COUNT_DEFAULT]
  BY <1>2, Zenon DEF Smd, x
<1>4. m.boot_successful \in [Slots -> BOOLEAN] /\ m.retry_count \in [Slots -> 0..15]
  BY Zenon DEF Smd
<1> QED BY <1>1, <1>3, <1>4, Zenon DEF x

LEMMA SetActiveFields ==
  ASSUME NEW m \in Smd, NEW s \in Slots
  PROVE  LET x == SetActiveSlot(m, s) IN
         \A t \in Slots :
           /\ x.boot_successful[t] => t # s /\ m.boot_successful[t]
           /\ x.retry_count[t] = IF t = s THEN SLOT_RETRY_COUNT_DEFAULT ELSE m.retry_count[t]
<1> DEFINE f == [t \in Slots |->
                   IF t = s THEN SLOT_PRIORITY_DEFAULT
                   ELSE IF m.priority[t] > 1 THEN m.priority[t] - 1 ELSE m.priority[t]]
<1> HIDE DEF f
<1>1. SetActiveSlot(m, s) = [m EXCEPT !.priority = f, !.retry_count[s] = SLOT_RETRY_COUNT_DEFAULT,
                                      !.boot_successful[s] = FALSE]
  BY Zenon DEF SetActiveSlot, f
<1> DEFINE x == SetActiveSlot(m, s)
<1> HIDE DEF x
<1>2. /\ x.boot_successful = [m.boot_successful EXCEPT ![s] = FALSE]
      /\ x.retry_count = [m.retry_count EXCEPT ![s] = SLOT_RETRY_COUNT_DEFAULT]
  BY <1>1, Zenon DEF Smd, x
<1>3. m.boot_successful \in [Slots -> BOOLEAN] /\ m.retry_count \in [Slots -> 0..15]
  BY Zenon DEF Smd
<1> QED BY <1>2, <1>3, Zenon DEF x

\* The UE gives a slot all its retries and starts counting anew.
LEMMA RewrittenOtaInv ==
  ASSUME OtaTypes, OtaInv, Stored # Corrupt, NEW x, NEW s \in Slots,
         \A t \in Slots :
           /\ x.boot_successful[t] => t = s \/ Stored.boot_successful[t]
           /\ x.retry_count[t] = IF t = s THEN SLOT_RETRY_COUNT_DEFAULT ELSE Stored.retry_count[t],
         store' = [c \in Copies |-> x], otaTries' = [otaTries EXCEPT ![s] = 0],
         sr' = sr, stage' = "running"
  PROVE  OtaInv'
<1>1. /\ SmdLeft(Stored) /\ Stored \in Smd
      /\ \A t \in Slots : Left(sr.retry_count[t], t)
  <2>1. Current # NoSmd
    BY CurrentFacts, Zenon DEF OtaTypes
  <2>2. Stored \in Smd /\ \E c \in Copies : Valid(c) /\ Stored = store[c]
    BY <2>1, CurrentFacts, Zenon DEF OtaTypes
  <2> QED BY <2>1, <2>2, Zenon DEF OtaInv
<1>2. \A t \in Slots : /\ Stored.retry_count[t] \in 0..15
                       /\ otaTries'[t] = IF t = s THEN 0 ELSE otaTries[t]
  BY <1>1, Zenon DEF Smd, OtaTypes, TypeOK
<1>3. \A t \in Slots : /\ otaTries'[t] <= SLOT_RETRY_COUNT_DEFAULT
                       /\ sr.retry_count[t] + otaTries'[t] <= SLOT_RETRY_COUNT_DEFAULT
                       /\ x.retry_count[t] + otaTries'[t] <= SLOT_RETRY_COUNT_DEFAULT
  BY <1>1, <1>2 DEF OtaInv, SmdLeft, Left, OtaTypes
<1>4. \A t \in Slots : x.boot_successful[t] => otaTries'[t] = 0
  BY <1>1, <1>2, Zenon DEF SmdLeft
<1>5. SmdLeft(x)'
  BY <1>3, <1>4, Zenon DEF SmdLeft, Left
<1> QED BY <1>3, <1>4, Zenon DEF OtaInv, Left, SmdLeft, BootStages, SelectedStages, FlushStages

LEMMA NextOtaInv ==
  ASSUME ~IoErrors
  PROVE  Inv /\ FlushInv /\ FlagInv /\ OtaInv /\ [OtaNext]_vars => OtaInv'
<1> SUFFICES ASSUME Inv, FlushInv, FlagInv, OtaInv, [OtaNext]_vars PROVE OtaInv'
  OBVIOUS
<1>t. OtaTypes
  BY OtaTypesHold, Zenon
<1>s. stage \in {"kernel", "running"} => tries.slot \in Slots /\ Other(tries.slot) \in Slots
  BY <1>t, OtherSlot, Zenon DEF OtaTypes, TypeOK
<1>1. CASE MB1
  BY <1>1, MB1OtaInv, Zenon
<1>2. CASE LoadKernel
  <2>1. /\ UNCHANGED <<store, sr, otaTries>> /\ stage = "load" /\ stage' = "update"
        /\ Current' = Current /\ ram' \in {ram, Current}
    BY <1>2, LoadableIsCurrent, Zenon DEF LoadKernel, GetSmd, Current
  <2>2. Current # NoSmd => SmdLeft(Current)
    <3>1. Current # NoSmd => \E c \in Copies : Valid(c) /\ Current = store[c]
      BY <1>t, CurrentFacts, Zenon DEF OtaTypes
    <3> QED BY <3>1, Zenon DEF OtaInv
  <2>3. ram' # NoSmd => SmdLeft(ram')
    BY <2>1, <2>2 DEF OtaInv, BootStages
  <2> QED BY <2>1, <2>3, Zenon DEF OtaInv, SmdLeft, Left, Valid, SelectedStages, FlushStages
<1>3. CASE UpdateSmd
  BY <1>3, UpdateOtaInv, Zenon
<1>4. CASE FlushBegin
  <2>1. /\ UNCHANGED <<sr, ram, otaTries>> /\ stage = "begin" /\ stage' = "write"
        /\ \A c \in Copies : store'[c] \in {store[c], Corrupt}
    BY <1>4, <1>t, Zenon DEF FlushBegin, OtaTypes, TypeOK
  <2>2. Current # NoSmd
    BY <2>1, Zenon DEF FlushInv
  <2> QED BY <2>1, <2>2, Zenon DEF OtaInv, SmdLeft, Left, Valid, BootStages, SelectedStages, FlushStages
<1>5. CASE FlushWrite
  <2>1. /\ UNCHANGED <<sr, ram, otaTries>> /\ stage = "write" /\ stage' \in {"begin", "flushed"}
        /\ \A c \in Copies : store'[c] \in {store[c], ram}
    BY <1>5, <1>t, Zenon DEF FlushWrite, NextCopy, OtaTypes, TypeOK
  <2>2. ram # NoSmd /\ SmdLeft(ram)
    BY <2>1, Zenon DEF Inv, TypeInv, OtaInv, FlushStages, BootStages
  <2> QED BY <2>1, <2>2, Zenon DEF OtaInv, SmdLeft, Left, Valid, BootStages, SelectedStages, FlushStages
<1>6. CASE FinishBoot
  BY <1>6, FinishOtaInv, Zenon
<1>7. CASE UEConfirm
  <2>1. PICK r \in Restored : store' = [c \in Copies |-> Confirmed(Stored, BootedSlot, r)]
    BY <1>7, Zenon DEF UEConfirm
  <2>2. Stored # Corrupt /\ Stored \in Smd /\ BootedSlot \in Slots
    BY <1>7, <1>t, Zenon DEF UEConfirm, BootedSlot, OtaTypes, TypeOK, Stored, Copies
  <2>3. otaTries' = [otaTries EXCEPT ![BootedSlot] = 0] /\ sr' = sr /\ stage' = "running"
    BY <1>7, Zenon DEF UEConfirm
  <2> DEFINE x == Confirmed(Stored, BootedSlot, r)
  <2>4. \A t \in Slots :
          /\ x.boot_successful[t] => t = BootedSlot \/ Stored.boot_successful[t]
          /\ x.retry_count[t] = IF t = BootedSlot THEN SLOT_RETRY_COUNT_DEFAULT
                                ELSE Stored.retry_count[t]
    BY <2>2, ConfirmedFields
  <2>5. store' = [c \in Copies |-> x]
    BY <2>1, Zenon
  <2> HIDE DEF x
  <2> QED BY <1>t, <2>2, <2>3, <2>4, <2>5, RewrittenOtaInv, Zenon
<1>8. CASE UESetActive
  <2>1. /\ Stored # Corrupt /\ Stored \in Smd /\ Other(BootedSlot) \in Slots
        /\ store' = [c \in Copies |-> SetActiveSlot(Stored, Other(BootedSlot))]
        /\ otaTries' = [otaTries EXCEPT ![Other(BootedSlot)] = 0] /\ sr' = sr
        /\ stage' = "running"
    BY <1>8, <1>t, <1>s, Zenon DEF UESetActive, BootedSlot, OtaTypes, TypeOK, Stored, Copies
  <2> DEFINE s == Other(BootedSlot)
             x == SetActiveSlot(Stored, s)
  <2>2. \A t \in Slots :
          /\ x.boot_successful[t] => t = s \/ Stored.boot_successful[t]
          /\ x.retry_count[t] = IF t = s THEN SLOT_RETRY_COUNT_DEFAULT ELSE Stored.retry_count[t]
    BY <2>1, SetActiveFields
  <2>3. /\ s \in Slots /\ store' = [c \in Copies |-> x]
        /\ otaTries' = [otaTries EXCEPT ![s] = 0]
    BY <2>1, Zenon
  <2> HIDE DEF s, x
  <2> QED BY <1>t, <2>1, <2>2, <2>3, RewrittenOtaInv, ZenonT(30)
<1>9. CASE ResetStep
  <2>1. /\ UNCHANGED <<store, otaTries>> /\ stage' = "mb1" /\ Current' = Current
        /\ sr' = sr \/ \A s \in Slots : sr'.retry_count[s] = 0
    BY <1>9 DEF ResetStep, SocReset, ClearedReg, EmptyReg, Current
  <2> QED BY <1>t, <2>1 DEF OtaInv, SmdLeft, Left, Valid, OtaTypes, BootStages, SelectedStages, FlushStages
<1>10. CASE UNCHANGED vars
  <2>1. UNCHANGED <<store, otaTries, sr, ram, stage>> /\ Current' = Current
    BY <1>10, Zenon DEF vars, Current
  <2> QED BY <2>1, Zenon DEF OtaInv, SmdLeft, Left, Valid, BootStages, SelectedStages, FlushStages
<1> QED BY <1>1, <1>2, <1>3, <1>4, <1>5, <1>6, <1>7, <1>8, <1>9, <1>10, StepKinds, Zenon

LEMMA OtaInvHolds ==
  ASSUME ~IoErrors
  PROVE  OtaSpec => [](Inv /\ FlushInv /\ FlagInv /\ OtaInv)
<1>1. Init => Inv /\ FlushInv /\ FlagInv /\ OtaInv
  BY InitInv, InitFlushInv, InitOtaInv, Zenon DEF Init, FlagInv, SelectedStages
<1>2. Inv /\ FlushInv /\ FlagInv /\ OtaInv /\ [OtaNext]_vars => (Inv /\ FlushInv /\ FlagInv /\ OtaInv)'
  BY NextInv, NextFlushInv, NextFlagInv, NextOtaInv, Zenon
<1> QED BY <1>1, <1>2, PTL DEF OtaSpec

\* With reliable storage a slot that an update activated enters its kernel
\* unconfirmed at most as often as it was given retries, wherever resets and
\* power losses interrupt the boots: tegrabl_a_b_update_smd has stored the spent
\* retry in both copies before load_and_boot_kernel goes on.
THEOREM UpdatesBounded ==
  ASSUME ~IoErrors
  PROVE  OtaSpec => []OtaBounded
<1>1. OtaInv => OtaBounded
  BY Zenon DEF OtaInv, OtaBounded
<1> QED BY <1>1, OtaInvHolds, PTL
=============================================================================
