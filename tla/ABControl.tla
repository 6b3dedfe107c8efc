----------------------------- MODULE ABControl -----------------------------
(***************************************************************************)
(* The slot arithmetic of the A/B boot control library                     *)
(* (common/lib/a_b_boot/tegrabl_a_b_boot_control.c): the slot metadata     *)
(* ("SMD", kept twice on storage) and the boot slot scratch register       *)
(* ("SR", kept across a warm reset, zero after a power-on reset), and the  *)
(* functions that select a slot, spend and restore retries, and rotate the *)
(* priorities of the two slots.  Everything here is a pure function of an  *)
(* SMD or of the register; module ABBoot gives them their order in a boot. *)
(***************************************************************************)
EXTENDS Integers

CONSTANTS
  SLOT_PRIORITY_DEFAULT,    \* 15 in the header: the largest priority
  SLOT_RETRY_COUNT_DEFAULT  \* 7 in the header: tries of a fresh slot

\* The reversal of the priorities leaves the slots at the default and one
\* below it, both of them bootable.
ASSUME PriorityAssumption == SLOT_PRIORITY_DEFAULT \in 3..15

\* A retry count, and one more than it, fit the register's four bits.
ASSUME RetryAssumption == SLOT_RETRY_COUNT_DEFAULT \in 1..14

Slots == {0, 1}              \* BOOT_SLOT_A, BOOT_SLOT_B
Other(slot) == 1 - slot      \* !current_slot

\* The two feature bits of smd->version that the library tests.
Features == {"REDUNDANCY", "REDUNDANCY_USER"}

\* BC_FLAG_*, the register's update flag; value 2 is reserved.
Flags == {"OTA_OFF", "REDUNDANCY_BOOT", "OTA_ON"}

Smd == [num_slots : {1, 2}, version : SUBSET Features,
        priority : [Slots -> 0..15], retry_count : [Slots -> 0..15],
        boot_successful : [Slots -> BOOLEAN]]

\* The register's fields; its retry counts are four bits wide.
Reg == [magic : BOOLEAN, slot : Slots, max_slots : 0..2,
        retry_count : [Slots -> 0..15], flag : Flags]

EmptyReg(magic) == [magic |-> magic, slot |-> 0, max_slots |-> 0,
                    retry_count |-> [s \in Slots |-> 0], flag |-> "OTA_OFF"]
ClearedReg == EmptyReg(FALSE)

(***************************************************************************)
(* Fields of the metadata and of the register.                             *)
(***************************************************************************)
SupportRedundancy(smd) == "REDUNDANCY" \in smd.version
SupportRedundancyUser(smd) == "REDUNDANCY_USER" \in smd.version

SetRetryCountReg(reg, slot, n) == [reg EXCEPT !.retry_count[slot] = n % 16]

\* Mutant: the register's retry counts never reach the metadata.
CopyNothing(smd, reg) == smd

\* tegrabl_a_b_copy_retry_count, one operator per direction.
CopyRegToSmd(smd, reg) == [smd EXCEPT !.retry_count = reg.retry_count]
CopySmdToReg(smd, reg) ==
  [reg EXCEPT !.retry_count = [s \in Slots |-> smd.retry_count[s] % 16]]

\* tegrabl_a_b_init: the metadata of a device that has none.
SmdInit ==
  [num_slots |-> 1, version |-> {},
   priority |-> [s \in Slots |-> IF s = 0 THEN SLOT_PRIORITY_DEFAULT ELSE 0],
   retry_count |-> [s \in Slots |-> IF s = 0 THEN SLOT_RETRY_COUNT_DEFAULT ELSE 0],
   boot_successful |-> [s \in Slots |-> s = 0]]

(***************************************************************************)
(* Slot selection.                                                         *)
(***************************************************************************)
Bootable(smd, slot) ==
  /\ slot < smd.num_slots
  /\ smd.retry_count[slot] # 0
  /\ smd.priority[slot] # 0

\* Mutant: the first bootable slot wins, priorities are not compared.
IsFirstBootable(smd, slot) ==
  /\ Bootable(smd, slot)
  /\ \A t \in Slots : Bootable(smd, t) => slot <= t

\* boot_chain_get_bootslot_from_smd: slot is the answer.  The scan replaces
\* its candidate only by a strictly greater priority, so a tie stays with
\* the lower slot.  No slot satisfies this when none is bootable (an error).
IsActiveSlot(smd, slot) ==
  /\ Bootable(smd, slot)
  /\ \A t \in Slots : Bootable(smd, t) =>
       \/ smd.priority[t] < smd.priority[slot]
       \/ smd.priority[t] = smd.priority[slot] /\ slot <= t

NoBootableSlot(smd) == \A s \in Slots : ~Bootable(smd, s)

\* tegrabl_a_b_get_active_slot(NULL): the register decides, slot A when it
\* is not valid (no magic, or a device with one slot).
ActiveSlotFromReg(reg) == IF reg.magic /\ reg.max_slots > 1 THEN reg.slot ELSE 0

\* Mutant: the flag of the previous boot is dropped.
UpdateFlagDropped(smd, slot, old) ==
  IF ~smd.boot_successful[slot] THEN "OTA_ON"
  ELSE IF SupportRedundancy(smd) THEN "REDUNDANCY_BOOT" ELSE "OTA_OFF"

\* The update flag: set from the slot's state, otherwise retained.
UpdateFlag(smd, slot, old) ==
  IF ~smd.boot_successful[slot] THEN "OTA_ON"
  ELSE IF SupportRedundancy(smd) THEN "REDUNDANCY_BOOT" ELSE old

SaveBootSlotReg(smd, slot, reg) ==
  [CopySmdToReg(smd, reg) EXCEPT !.slot = slot, !.max_slots = smd.num_slots,
                                 !.flag = UpdateFlag(smd, slot, reg.flag)]

\* tegrabl_a_b_init_boot_slot_reg.  A register that survived a warm reset is
\* left as it is; otherwise the magic is written before the slot is looked
\* for, so it stays when no slot is bootable.
InitBootSlotReg(smd, reg) ==
  LET fresh == EmptyReg(TRUE)
  IN  IF reg.magic THEN reg
      ELSE IF NoBootableSlot(smd) THEN fresh
      ELSE SaveBootSlotReg(smd, CHOOSE s \in Slots : IsActiveSlot(smd, s), fresh)

\* Mutant: only an unconfirmed slot spends a retry.
SpendsRetryUnconfirmed(smd, slot) == ~smd.boot_successful[slot]

\* tegrabl_a_b_check_and_update_retry_count: a boot spends a retry when
\* redundancy is on or the slot has not been confirmed yet.
SpendsRetry(smd, slot) == SupportRedundancy(smd) \/ ~smd.boot_successful[slot]

CheckAndUpdateRetryCount(smd, slot) ==
  IF SpendsRetry(smd, slot)
  THEN [smd EXCEPT !.retry_count[slot] = @ - 1]
  ELSE smd

(***************************************************************************)
(* Redundancy: what tegrabl_a_b_update_smd does to the metadata.           *)
(***************************************************************************)

\* Both priorities at once: p for slot current, q for the other.
SetPriorities(smd, current, p, q) ==
  [smd EXCEPT !.priority = [s \in Slots |-> IF s = current THEN p ELSE q]]

\* Mutants: a reversal that leaves a gap of two; no rotation at all.
RotateWideReversal(smd, current) ==
  LET p1 == smd.priority[current]
      p2 == smd.priority[Other(current)]
  IN  IF current = 0
      THEN IF p1 > p2 THEN SetPriorities(smd, current, p1 - 1, p2)
           ELSE IF p2 < SLOT_PRIORITY_DEFAULT THEN SetPriorities(smd, current, p1, p2 + 1)
           ELSE SetPriorities(smd, current, p2 - 1, p2)
      ELSE SetPriorities(smd, current, SLOT_PRIORITY_DEFAULT - 2, SLOT_PRIORITY_DEFAULT)

RotateNever(smd, current) == smd

\* rotate_slots_priority: p1 is the current slot's priority, p2 the other's.
\* Slot A steps down to the other's level, then below it; slot B first makes
\* the gap two, then reverses the priorities.
RotateSlotsPriority(smd, current) ==
  LET p1 == smd.priority[current]
      p2 == smd.priority[Other(current)]
  IN  IF current = 0
      THEN IF p1 > p2 THEN SetPriorities(smd, current, p1 - 1, p2)
           ELSE IF p2 < SLOT_PRIORITY_DEFAULT THEN SetPriorities(smd, current, p1, p2 + 1)
           ELSE SetPriorities(smd, current, p2 - 1, p2)
      ELSE IF p1 # p2 + 1
           THEN SetPriorities(smd, current, SLOT_PRIORITY_DEFAULT - 1, SLOT_PRIORITY_DEFAULT)
           ELSE IF p2 > 1 THEN SetPriorities(smd, current, p1, p2 - 1)
           ELSE SetPriorities(smd, current, p1 + 1, p2)

\* "Change priority only when both slots are bootable".
BothBootable(smd, reg) ==
  /\ reg.retry_count[Other(reg.slot)] # 0
  /\ smd.priority[reg.slot] # 0
  /\ smd.priority[Other(reg.slot)] # 0

\* The retry that MB1 spent, given back in the register.
RestoreRetry(reg) ==
  SetRetryCountReg(reg, reg.slot, reg.retry_count[reg.slot] + 1)

\* tegrabl_a_b_set_active_slot: the others step down (never below one), the
\* new slot gets the default priority and retries, and must be confirmed.
SetActiveSlot(smd, slot) ==
  [smd EXCEPT
     !.priority = [s \in Slots |->
        IF s = slot THEN SLOT_PRIORITY_DEFAULT
        ELSE IF smd.priority[s] > 1 THEN smd.priority[s] - 1 ELSE smd.priority[s]],
     !.retry_count[slot] = SLOT_RETRY_COUNT_DEFAULT,
     !.boot_successful[slot] = FALSE]
=============================================================================
