------------------------------- MODULE ABBoot -------------------------------
(***************************************************************************)
(* One device booting again and again under A/B boot control.              *)
(*                                                                         *)
(* A boot is: MB1 (external firmware) selects a slot and records it in the *)
(* scratch register; CBoot loads the kernel (tegrabl_load_kernel_and_dtb); *)
(* CBoot writes the outcome of the boot back to the slot metadata          *)
(* (tegrabl_a_b_update_smd), clears the register and enters the kernel; in *)
(* the running system the update engine ("UE", external) confirms the slot *)
(* or activates the other one.  The power may fail, and the watchdog may   *)
(* fire, between any two steps; a flush of the metadata is not atomic.     *)
(***************************************************************************)
EXTENDS ABControl

CONSTANTS
  InitialSmds,  \* contents of both metadata copies when the device is flashed
  Restored,     \* <<current, other>>: priorities the UE may restore
  IoErrors,     \* TRUE: storage operations may fail
  MaxFaults,   \* bound on power losses, watchdog resets and failed flushes
  NoSmd,        \* smd_loadaddress = NULL
  Corrupt       \* contents of a copy that the CRC check refuses

\* Flashed metadata is in the header's ranges, does not prefer slot A by more
\* than one (rotation then tries A twice), and offers redundancy up to the
\* kernel only for two slots.
ASSUME InitialAssumption ==
  /\ InitialSmds \subseteq Smd
  /\ \A m \in InitialSmds :
       /\ \A s \in Slots : /\ m.retry_count[s] <= SLOT_RETRY_COUNT_DEFAULT
                           /\ m.priority[s] <= SLOT_PRIORITY_DEFAULT
       /\ m.priority[1] # 0 => m.priority[0] <= m.priority[1] + 1
       /\ SupportRedundancyUser(m) => m.num_slots = 2

\* The UE leaves the slot it runs from preferred, by at most one.
ASSUME RestoredAssumption ==
  /\ Restored \subseteq (1..SLOT_PRIORITY_DEFAULT) \X (1..SLOT_PRIORITY_DEFAULT)
  /\ \A r \in Restored : r[1] \in {r[2], r[2] + 1}

ASSUME BoundAssumption == IoErrors \in BOOLEAN /\ MaxFaults \in Nat

ASSUME SentinelAssumption == NoSmd \notin Smd /\ Corrupt \notin Smd

Copies == {"SMD", "SMD_b"}   \* partitions of the primary and secondary copy

VARIABLES
  stage,     \* where the device is in its boot
  store,     \* the two copies on storage
  sr,        \* the scratch register
  ram,       \* smd_loadaddress: CBoot's cached metadata
  copy,      \* the copy being flushed
  loadErr,   \* result of tegrabl_load_kernel_and_dtb, TRUE: an error
  error,     \* result of tegrabl_a_b_flush_smd, TRUE: an error
  faults,    \* power losses, watchdog resets and failed flushes so far
  tries,     \* history: consecutive unconfirmed boots of one slot
  otaTries   \* history: kernel entries of a slot since it was activated

vars == <<stage, store, sr, ram, copy, loadErr, error, faults, tries, otaTries>>

\* The counting of tries and otaTries saturates one above what is allowed.
TriesCap == 3
OtaTriesCap == SLOT_RETRY_COUNT_DEFAULT + 1

BootStages == {"load", "update", "begin", "write", "flushed", "clear"}
Stages == BootStages \cup {"mb1", "kernel", "running", "halt", "hang"}

Init ==
  /\ stage = "mb1"
  /\ \E m \in InitialSmds : store = [c \in Copies |-> m]
  /\ sr = ClearedReg
  /\ ram = NoSmd
  /\ copy = "SMD"
  /\ loadErr = FALSE /\ error = FALSE
  /\ faults = 0
  /\ tries = [slot |-> 0, n |-> 0]
  /\ otaTries = [s \in Slots |-> 0]

-----------------------------------------------------------------------------
(***************************************************************************)
(* Storage.                                                                *)
(***************************************************************************)

\* load_smd_bin_copy fails for a corrupt copy, and on a storage error.
LoadFails(c) == store[c] = Corrupt \/ IoErrors

\* m is a possible result of tegrabl_a_b_get_smd with nothing cached: the
\* primary copy, the secondary when the primary fails, NoSmd when both fail.
Loadable(m) ==
  \/ store["SMD"] # Corrupt /\ m = store["SMD"]
  \/ LoadFails("SMD") /\ store["SMD_b"] # Corrupt /\ m = store["SMD_b"]
  \/ LoadFails("SMD") /\ LoadFails("SMD_b") /\ m = NoSmd

\* tegrabl_a_b_get_smd: the cached metadata if there is one.
GetSmd(m) == IF ram # NoSmd THEN m = ram ELSE Loadable(m)

Candidates == {store[c] : c \in Copies} \cup {ram, NoSmd}

-----------------------------------------------------------------------------
(***************************************************************************)
(* MB1 (external).  It uses the same library: metadata, the default when   *)
(* there is none; the register, initialised unless it survived a warm      *)
(* reset, in which case its retry counts are the latest; slot selection; a *)
(* retry spent; the register saved.                                        *)
(***************************************************************************)
MB1Smd(m) == IF m = NoSmd THEN SmdInit ELSE m

MB1 ==
  /\ stage = "mb1"
  /\ \E m \in Candidates :
       /\ Loadable(m)
       /\ LET reg == InitBootSlotReg(MB1Smd(m), sr)
              smd == CopyRegToSmd(MB1Smd(m), reg)
          IN  \/ /\ NoBootableSlot(smd)
                 /\ sr' = reg
                 /\ stage' = "halt"
                 /\ UNCHANGED tries
              \/ \E s \in Slots :
                 /\ IsActiveSlot(smd, s)
                 /\ sr' = SaveBootSlotReg(CheckAndUpdateRetryCount(smd, s), s, reg)
                 /\ stage' = "load"
                 /\ tries' = IF s = tries.slot THEN tries ELSE [slot |-> s, n |-> 0]
  /\ UNCHANGED <<store, ram, copy, loadErr, error, faults, otaTries>>

\* What a reset of the SoC does to CBoot's memory; the register survives it.
SocReset ==
  /\ stage' = "mb1"
  /\ ram' = NoSmd
  /\ copy' = "SMD"
  /\ loadErr' = FALSE /\ error' = FALSE

(***************************************************************************)
(* CBoot: load_and_boot_kernel.                                            *)
(***************************************************************************)

\* tegrabl_load_kernel_and_dtb.  For slot B the loader asks for the metadata
\* to find out whether redundancy stops at the bootloader.
LoadKernel ==
  /\ stage = "load"
  /\ \/ ram' = ram
     \/ /\ ActiveSlotFromReg(sr) # 0
        /\ \E m \in Candidates \ {NoSmd} : GetSmd(m) /\ ram' = m
  /\ stage' = "update"
  /\ loadErr' \in BOOLEAN
  /\ UNCHANGED <<store, sr, copy, error, faults, tries, otaTries>>

\* A partition that cannot be loaded (tegrabl_load_binary) or verified
\* (fixed_boot_load_kernel_and_dtb) resets the SoC from inside the loader.
LoaderReset ==
  /\ stage = "load"
  /\ SocReset
  /\ UNCHANGED <<store, sr, faults, tries, otaTries>>

\* Mutant: with bootloader-only redundancy the metadata is never updated.
NonUserNeverUpdates(smd) ==
  /\ ram' = smd
  /\ stage' = "clear"
  /\ UNCHANGED sr

\* check_non_user_redundancy_status: with redundancy for the bootloader only,
\* metadata changes only when MB1 moved to a slot other than the stored one.
CheckNonUserRedundancy(smd) ==
  \/ /\ NoBootableSlot(smd) \/ IsActiveSlot(smd, sr.slot)
     /\ ram' = smd
     /\ stage' = "clear"
     /\ UNCHANGED sr
  \/ /\ IsActiveSlot(smd, Other(sr.slot))
     /\ sr' = RestoreRetry(sr)
     /\ ram' = CopyRegToSmd(smd, sr')
     /\ stage' = "begin"

\* check_user_redundancy_status: the retry is restored and, with both slots
\* bootable, priorities are rotated.  The assertion hangs the boot.
CheckUserRedundancy(smd) ==
  /\ sr' = RestoreRetry(sr)
  /\ \/ /\ ~BothBootable(smd, sr)
        /\ ram' = CopyRegToSmd(smd, sr')
        /\ stage' = "begin"
     \/ /\ BothBootable(smd, sr)
        /\ smd.priority[sr.slot] < smd.priority[Other(sr.slot)]
        /\ ram' = smd
        /\ stage' = "hang"
     \/ /\ BothBootable(smd, sr)
        /\ smd.priority[sr.slot] >= smd.priority[Other(sr.slot)]
        /\ ram' = CopyRegToSmd(RotateSlotsPriority(smd, sr.slot), sr')
        /\ stage' = "begin"

\* tegrabl_a_b_update_smd up to the flush.
UpdateSmd ==
  /\ stage = "update"
  /\ IF sr.magic /\ sr.flag \in {"OTA_ON", "REDUNDANCY_BOOT"}
     THEN \E m \in Candidates :
       /\ GetSmd(m)
       /\ \/ /\ m = NoSmd
             /\ stage' = "clear"
             /\ UNCHANGED <<sr, ram>>
          \/ /\ m # NoSmd
             /\ sr.flag = "REDUNDANCY_BOOT" /\ SupportRedundancy(m)
             /\ IF SupportRedundancyUser(m)
                THEN CheckUserRedundancy(m)
                ELSE CheckNonUserRedundancy(m)
          \/ /\ m # NoSmd
             /\ ~(sr.flag = "REDUNDANCY_BOOT" /\ SupportRedundancy(m))
             /\ ram' = CopyRegToSmd(m, sr)
             /\ stage' = "begin"
             /\ UNCHANGED sr
     ELSE /\ stage' = "clear"
          /\ UNCHANGED <<sr, ram>>
  /\ UNCHANGED <<store, copy, loadErr, error, faults, tries, otaTries>>

\* flush_smd_bin_copy up to the point where the copy's old contents are gone:
\* the erase on QSPI flash, the start of the write elsewhere.
FlushBegin ==
  /\ stage = "begin"
  /\ store' = [store EXCEPT ![copy] = Corrupt]
  /\ stage' = "write"
  /\ UNCHANGED <<sr, ram, copy, loadErr, error, faults, tries, otaTries>>

\* tegrabl_a_b_flush_smd goes on to the secondary copy, whatever happened to
\* the primary, and returns the result of the last flush only.
NextCopy(failed) ==
  /\ error' = failed
  /\ IF copy = "SMD"
     THEN copy' = "SMD_b" /\ stage' = "begin"
     ELSE copy' = copy /\ stage' = "flushed"

\* Mutant: both flushes write the primary partition.
FlushWritePrimaryOnly ==
  /\ stage = "write"
  /\ store' = [store EXCEPT !["SMD"] = ram]
  /\ NextCopy(FALSE)
  /\ UNCHANGED <<sr, ram, loadErr, faults, tries, otaTries>>

FlushWrite ==
  /\ stage = "write"
  /\ store' = [store EXCEPT ![copy] = ram]
  /\ NextCopy(FALSE)
  /\ UNCHANGED <<sr, ram, loadErr, faults, tries, otaTries>>

\* The partition cannot be opened or erased, or the write fails half way.
FlushFails ==
  /\ IoErrors
  /\ stage \in {"begin", "write"}
  /\ faults < MaxFaults
  /\ faults' = faults + 1
  /\ NextCopy(TRUE)
  /\ UNCHANGED <<store, sr, ram, loadErr, tries, otaTries>>

\* History of a boot whose outcome is now recorded.
RotatedBoot ==
  /\ stage = "flushed"
  /\ sr.flag = "REDUNDANCY_BOOT"
  /\ SupportRedundancy(ram) /\ SupportRedundancyUser(ram)
  /\ BothBootable(ram, sr)

CountTries ==
  tries' = IF RotatedBoot
           THEN [tries EXCEPT !.n = IF @ < TriesCap THEN @ + 1 ELSE @]
           ELSE [tries EXCEPT !.n = 0]

CountOtaTries ==
  otaTries' = IF ram # NoSmd /\ ~ram.boot_successful[sr.slot] /\ ~loadErr
              THEN [otaTries EXCEPT ![sr.slot] = IF @ < OtaTriesCap THEN @ + 1 ELSE @]
              ELSE otaTries

\* The end of tegrabl_a_b_update_smd (its own error is only logged), and what
\* load_and_boot_kernel does then: enter the kernel, or reset when the load
\* had failed.
ClearReg(reg) == IF reg.magic THEN ClearedReg ELSE reg

FinishBoot ==
  /\ stage \in {"flushed", "clear"}
  /\ sr' = ClearReg(sr)
  /\ CountTries
  /\ CountOtaTries
  /\ \/ /\ ~loadErr
        /\ stage' = "kernel"
        /\ UNCHANGED <<ram, copy, loadErr, error>>
     \/ /\ loadErr
        /\ SocReset
  /\ UNCHANGED <<store, faults>>

-----------------------------------------------------------------------------
(***************************************************************************)
(* The running system (external).  The UE rewrites both copies; that it    *)
(* does so atomically is an assumption.                                    *)
(***************************************************************************)

\* Metadata as the UE reads it.
Stored == IF store["SMD"] # Corrupt THEN store["SMD"] ELSE store["SMD_b"]

BootedSlot == tries.slot   \* the slot MB1 selected for this boot

\* The UE confirms the slot: successful, with all its retries, preferred.
Confirmed(smd, slot, r) ==
  [smd EXCEPT !.boot_successful[slot] = TRUE,
              !.retry_count[slot] = SLOT_RETRY_COUNT_DEFAULT,
              !.priority = [s \in Slots |->
                 IF s = slot THEN r[1]
                 ELSE IF smd.priority[s] = 0 THEN 0 ELSE r[2]]]

UEConfirm ==
  /\ stage = "kernel"
  /\ Stored # Corrupt
  /\ \E r \in Restored :
       store' = [c \in Copies |-> Confirmed(Stored, BootedSlot, r)]
  /\ stage' = "running"
  /\ tries' = [tries EXCEPT !.n = 0]
  /\ otaTries' = [otaTries EXCEPT ![BootedSlot] = 0]
  /\ UNCHANGED <<sr, ram, copy, loadErr, error, faults>>

\* An update was installed in the other slot, which becomes the active one.
UESetActive ==
  /\ stage = "running"
  /\ Stored # Corrupt
  /\ Stored.num_slots = 2
  /\ store' = [c \in Copies |-> SetActiveSlot(Stored, Other(BootedSlot))]
  /\ otaTries' = [otaTries EXCEPT ![Other(BootedSlot)] = 0]
  /\ UNCHANGED <<stage, sr, ram, copy, loadErr, error, faults, tries>>

\* A reboot: on request, or because the kernel never got to the UE.
KernelReset ==
  /\ stage \in {"kernel", "running"}
  /\ SocReset
  /\ UNCHANGED <<store, sr, faults, tries, otaTries>>

-----------------------------------------------------------------------------
(***************************************************************************)
(* Crashes.                                                                *)
(***************************************************************************)

\* The watchdog resets a bootloader that hangs; the register survives.
Watchdog ==
  /\ stage \in BootStages \cup {"hang"}
  /\ faults < MaxFaults
  /\ faults' = faults + 1
  /\ SocReset
  /\ UNCHANGED <<store, sr, tries, otaTries>>

\* The power fails: the register is lost too.
PowerLoss ==
  /\ stage \in BootStages \cup {"kernel", "running"}
  /\ faults < MaxFaults
  /\ faults' = faults + 1
  /\ sr' = ClearedReg
  /\ SocReset
  /\ UNCHANGED <<store, tries, otaTries>>

\* A device without a bootable slot waits for its operator, who can only
\* power-cycle it as far as this model goes.
PowerCycle ==
  /\ stage \in {"halt", "hang"}
  /\ sr' = ClearedReg
  /\ SocReset
  /\ UNCHANGED <<store, faults, tries, otaTries>>

-----------------------------------------------------------------------------
Boot == \/ MB1 \/ LoadKernel \/ LoaderReset
        \/ UpdateSmd \/ FlushBegin \/ FlushWrite \/ FlushFails \/ FinishBoot

Environment == UEConfirm \/ KernelReset \/ Watchdog \/ PowerLoss \/ PowerCycle

Next == Boot \/ Environment
Spec == Init /\ [][Next]_vars

\* The same with updates being installed.
OtaNext == Next \/ UESetActive
OtaSpec == Init /\ [][OtaNext]_vars

\* CBoot's own steps are one thread that nothing stops for good: crashes are
\* bounded, and the device under the kernel ends up confirmed or rebooted.
Fairness == WF_vars(Boot) /\ WF_vars(UEConfirm \/ KernelReset)
FairSpec == Spec /\ Fairness

-----------------------------------------------------------------------------
(***************************************************************************)
(* Properties.                                                             *)
(***************************************************************************)

\* Every variable has its type.
TypeOK ==
  /\ stage \in Stages
  /\ store \in [Copies -> Smd \cup {Corrupt}]
  /\ sr \in Reg
  /\ ram \in Smd \cup {NoSmd}
  /\ copy \in Copies
  /\ loadErr \in BOOLEAN /\ error \in BOOLEAN
  /\ faults \in 0..MaxFaults
  /\ tries \in [slot : Slots, n : 0..TriesCap]
  /\ otaTries \in [Slots -> 0..OtaTriesCap]

\* flush_smd_bin_copy destroys a copy before it rewrites it; after at most one
\* crash or failed flush in the life of the device, tegrabl_a_b_get_smd still
\* finds a copy whenever somebody reads it (no write being under way).
OneFaultTolerated == faults <= 1 /\ stage # "write" => Stored # Corrupt

\* The assertion in check_user_redundancy_status ("current slot priority must
\* be greater or equal than non-current slot") never hangs a boot: CBoot reads
\* the metadata that MB1 selected the slot by.
NoHang == stage # "hang"

\* Giving a retry back (check_*_redundancy_status) never takes a count above
\* the range [0:7] of the header, whatever resets came between.
RetryInRange ==
  /\ \A s \in Slots : sr.retry_count[s] <= SLOT_RETRY_COUNT_DEFAULT
  /\ \A c \in Copies : store[c] # Corrupt =>
       \A s \in Slots : store[c].retry_count[s] <= SLOT_RETRY_COUNT_DEFAULT

\* "the policy is to try up to two times on a slot" (check_user_redundancy_
\* status): with both slots bootable no slot is booted three times running
\* without being confirmed, wherever crashes interrupt the flushes.
TwoTries == tries.n <= 2

\* A slot that an update activated enters the kernel unconfirmed at most as
\* often as it has retries: update_smd saves the spent retry before the entry.
OtaBounded == \A s \in Slots : otaTries[s] <= SLOT_RETRY_COUNT_DEFAULT

\* A slot that MB1 passed over because the register had no retries left for it
\* has none on storage either when the kernel of the other slot is entered and
\* the register is cleared: the next power-on does not go back to it.
ExhaustedStaysExhausted ==
  [][stage' = "kernel" /\ stage # "kernel" /\ sr.retry_count[Other(sr.slot)] = 0
     => Stored = Corrupt \/ Stored.retry_count[Other(sr.slot)] = 0]_vars

\* With redundancy for the bootloader only, the confirmed slot that got to the
\* kernel is the one the stored metadata selects on the next power-on.
NextBootKeepsSlot ==
  (/\ stage = "kernel" /\ Stored # Corrupt
   /\ SupportRedundancy(Stored) /\ ~SupportRedundancyUser(Stored)
   /\ Stored.boot_successful[BootedSlot])
  => IsActiveSlot(Stored, BootedSlot)

\* A slot whose boots keep failing is left for the other one, as long as that
\* one is bootable and the update engine is not reached.
Failover ==
  \A s \in Slots :
    (stage = "load" /\ sr.slot = s)
    ~> \/ stage = "load" /\ sr.slot = Other(s)
       \/ stage = "running"
       \/ sr.magic /\ sr.retry_count[Other(s)] = 0
       \/ Stored = Corrupt \/ Stored.priority[Other(s)] = 0
=============================================================================
