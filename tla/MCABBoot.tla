------------------------------ MODULE MCABBoot ------------------------------
(***************************************************************************)
(* Instances of ABBoot for TLC.                                            *)
(***************************************************************************)
EXTENDS ABBoot

\* A two-slot device, both slots confirmed, with priorities a and b.
Flashed(features, a, b) ==
  [num_slots |-> 2, version |-> features,
   priority |-> [s \in Slots |-> IF s = 0 THEN a ELSE b],
   retry_count |-> [s \in Slots |-> SLOT_RETRY_COUNT_DEFAULT],
   boot_successful |-> [s \in Slots |-> TRUE]]

User == {"REDUNDANCY", "REDUNDANCY_USER"}

\* Redundancy up to the kernel: every pair of priorities the assumption
\* allows near the two ends of the range, where rotation has special cases.
UserSmds ==
  {Flashed(User, a, b) : <<a, b>> \in
     {p \in {1, 2, 3, SLOT_PRIORITY_DEFAULT - 1, SLOT_PRIORITY_DEFAULT} \X
            {1, 2, 3, SLOT_PRIORITY_DEFAULT - 1, SLOT_PRIORITY_DEFAULT} :
        p[1] <= p[2] + 1}}

\* Redundancy for the bootloader only, and no redundancy at all.
BlOnlySmds == {Flashed({"REDUNDANCY"}, SLOT_PRIORITY_DEFAULT, SLOT_PRIORITY_DEFAULT - 1)}
PlainSmds == {Flashed({}, SLOT_PRIORITY_DEFAULT, SLOT_PRIORITY_DEFAULT - 1), SmdInit}
AllSmds == {Flashed(User, SLOT_PRIORITY_DEFAULT, SLOT_PRIORITY_DEFAULT - 1)}
           \cup BlOnlySmds \cup PlainSmds

RestoredPair == {<<SLOT_PRIORITY_DEFAULT, SLOT_PRIORITY_DEFAULT - 1>>}
=============================================================================
