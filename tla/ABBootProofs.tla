---------------------------- MODULE ABBootProofs ----------------------------
(***************************************************************************)
(* Proofs about ABControl and ABBoot, for every value of the constants.    *)
(***************************************************************************)
EXTENDS ABBoot, TLAPS

-----------------------------------------------------------------------------
(***************************************************************************)
(* The operators of ABControl keep the types.                              *)
(***************************************************************************)

\* The other slot is a slot, and the other of the other is the slot again.
LEMMA OtherSlot ==
  ASSUME NEW s \in Slots
  PROVE  Other(s) \in Slots /\ Other(s) # s /\ Other(Other(s)) = s
BY DEF Slots, Other

\* Metadata r differs from m in the priorities only.
SameButPriority(r, m) ==
  /\ r \in Smd
  /\ r.num_slots = m.num_slots
  /\ r.version = m.version
  /\ r.retry_count = m.retry_count
  /\ r.boot_successful = m.boot_successful

LEMMA SetPrioritiesType ==
  ASSUME NEW m \in Smd, NEW s \in Slots, NEW p \in 0..15, NEW q \in 0..15
  PROVE  SameButPriority(SetPriorities(m, s, p, q), m)
<1> DEFINE f == [t \in Slots |-> IF t = s THEN p ELSE q]
<1>1. f \in [Slots -> 0..15]
  OBVIOUS
<1> HIDE DEF f
<1>2. [m EXCEPT !.priority = f] \in Smd
  BY <1>1 DEF Smd
<1>3. SetPriorities(m, s, p, q) = [m EXCEPT !.priority = f]
  BY DEF SetPriorities, f
<1> QED BY <1>2, <1>3 DEF Smd, SameButPriority

LEMMA SetPrioritiesValues ==
  ASSUME NEW m \in Smd, NEW s \in Slots, NEW p, NEW q
  PROVE  /\ SetPriorities(m, s, p, q).priority[s] = p
         /\ SetPriorities(m, s, p, q).priority[Other(s)] = q
<1> DEFINE f == [t \in Slots |-> IF t = s THEN p ELSE q]
<1>1. f[s] = p /\ f[Other(s)] = q
  BY OtherSlot
<1> HIDE DEF f
<1>2. SetPriorities(m, s, p, q) = [m EXCEPT !.priority = f]
  BY DEF SetPriorities, f
<1>3. SetPriorities(m, s, p, q).priority = f
  BY <1>2 DEF Smd
<1> QED BY <1>1, <1>3

\* rotate_slots_priority yields metadata and touches the priorities only; both
\* slots stay bootable and the new priorities are as the comments say: slot A
\* goes down to the other's level, then below it; slot B makes the gap two,
\* then gives way.
LEMMA RotateFacts ==
  ASSUME NEW m \in Smd, NEW s \in Slots,
         m.priority[s] # 0, m.priority[Other(s)] # 0,
         m.priority[s] >= m.priority[Other(s)],
         \A t \in Slots : m.priority[t] <= SLOT_PRIORITY_DEFAULT
  PROVE  LET r == RotateSlotsPriority(m, s) IN
         /\ SameButPriority(r, m)
         /\ \A t \in Slots : r.priority[t] \in 1..SLOT_PRIORITY_DEFAULT
         /\ s = 0 /\ m.priority[0] <= m.priority[1] + 1 => r.priority[0] <= r.priority[1]
         /\ s = 0 /\ m.priority[0] <= m.priority[1] => r.priority[0] < r.priority[1]
         /\ s = 1 => \/ r.priority[0] = r.priority[1] + 1
                     \/ r.priority[1] = r.priority[0] + 2 /\ m.priority[1] = m.priority[0] + 1
<1> DEFINE p1 == m.priority[s]
           p2 == m.priority[Other(s)]
           D == SLOT_PRIORITY_DEFAULT
<1>0. /\ Other(s) \in Slots /\ Other(0) = 1 /\ Other(1) = 0 /\ s \in {0, 1}
      /\ p1 \in 1..D /\ p2 \in 1..D /\ D \in 3..15 /\ p1 >= p2
  BY OtherSlot, PriorityAssumption DEF Smd, Slots, Other
<1> DEFINE R == RotateSlotsPriority(m, s)
<1>1. ASSUME NEW p \in 1..D, NEW q \in 1..D, R = SetPriorities(m, s, p, q)
      PROVE  SameButPriority(R, m) /\ R.priority[s] = p /\ R.priority[Other(s)] = q
  <2>1. p \in 0..15 /\ q \in 0..15
    BY <1>0
  <2>2. SameButPriority(SetPriorities(m, s, p, q), m)
    BY <2>1, SetPrioritiesType
  <2>3. /\ SetPriorities(m, s, p, q).priority[s] = p
        /\ SetPriorities(m, s, p, q).priority[Other(s)] = q
    BY SetPrioritiesValues
  <2> HIDE DEF R, p1, p2, D
  <2> QED BY <1>1, <2>2, <2>3
<1>2. CASE s = 0
  <2>1. R = IF p1 > p2 THEN SetPriorities(m, s, p1 - 1, p2)
            ELSE IF p2 < D THEN SetPriorities(m, s, p1, p2 + 1)
            ELSE SetPriorities(m, s, p2 - 1, p2)
    BY <1>2 DEF RotateSlotsPriority
  <2>2. CASE p1 > p2
    <3>1. p1 - 1 \in 1..D /\ R = SetPriorities(m, s, p1 - 1, p2)
      BY <1>0, <2>1, <2>2
    <3> HIDE DEF R, p1, p2, D
    <3>2. SameButPriority(R, m) /\ R.priority[0] = p1 - 1 /\ R.priority[1] = p2
      BY <1>0, <1>1, <1>2, <3>1
    <3> QED BY <1>0, <1>2, <2>2, <3>1, <3>2 DEF R, Slots, p1, p2, D
  <2>3. CASE ~(p1 > p2) /\ p2 < D
    <3>1. p2 + 1 \in 1..D /\ R = SetPriorities(m, s, p1, p2 + 1)
      BY <1>0, <2>1, <2>3
    <3> HIDE DEF R, p1, p2, D
    <3>2. SameButPriority(R, m) /\ R.priority[0] = p1 /\ R.priority[1] = p2 + 1
      BY <1>0, <1>1, <1>2, <3>1
    <3> QED BY <1>0, <1>2, <2>3, <3>1, <3>2 DEF R, Slots, p1, p2, D
  <2>4. CASE ~(p1 > p2) /\ ~(p2 < D)
    <3>1. p2 - 1 \in 1..D /\ R = SetPriorities(m, s, p2 - 1, p2)
      BY <1>0, <2>1, <2>4
    <3> HIDE DEF R, p1, p2, D
    <3>2. SameButPriority(R, m) /\ R.priority[0] = p2 - 1 /\ R.priority[1] = p2
      BY <1>0, <1>1, <1>2, <3>1
    <3> QED BY <1>0, <1>2, <2>4, <3>1, <3>2 DEF R, Slots, p1, p2, D
  <2> QED BY <2>2, <2>3, <2>4
<1>3. CASE s = 1
  <2>1. R = IF p1 # p2 + 1 THEN SetPriorities(m, s, D - 1, D)
            ELSE IF p2 > 1 THEN SetPriorities(m, s, p1, p2 - 1)
            ELSE SetPriorities(m, s, p1 + 1, p2)
    BY <1>3 DEF RotateSlotsPriority
  <2>2. CASE p1 # p2 + 1
    <3>1. D - 1 \in 1..D /\ D \in 1..D /\ R = SetPriorities(m, s, D - 1, D)
      BY <1>0, <2>1, <2>2
    <3> HIDE DEF R, p1, p2, D
    <3>2. SameButPriority(R, m) /\ R.priority[1] = D - 1 /\ R.priority[0] = D
      BY <1>0, <1>1, <1>3, <3>1
    <3> QED BY <1>0, <1>3, <2>2, <3>1, <3>2 DEF R, Slots, p1, p2, D
  <2>3. CASE p1 = p2 + 1 /\ p2 > 1
    <3>1. p2 - 1 \in 1..D /\ R = SetPriorities(m, s, p1, p2 - 1)
      BY <1>0, <2>1, <2>3
    <3> HIDE DEF R, p1, p2, D
    <3>2. SameButPriority(R, m) /\ R.priority[1] = p1 /\ R.priority[0] = p2 - 1
      BY <1>0, <1>1, <1>3, <3>1
    <3> QED BY <1>0, <1>3, <2>3, <3>1, <3>2 DEF R, Slots, p1, p2, D
  <2>4. CASE p1 = p2 + 1 /\ ~(p2 > 1)
    <3>1. p1 + 1 \in 1..D /\ R = SetPriorities(m, s, p1 + 1, p2)
      BY <1>0, <2>1, <2>4
    <3> HIDE DEF R, p1, p2, D
    <3>2. SameButPriority(R, m) /\ R.priority[1] = p1 + 1 /\ R.priority[0] = p2
      BY <1>0, <1>1, <1>3, <3>1
    <3> QED BY <1>0, <1>3, <2>4, <3>1, <3>2 DEF R, Slots, p1, p2, D
  <2> QED BY <2>2, <2>3, <2>4
<1> QED BY <1>0, <1>2, <1>3

LEMMA RotateType ==
  ASSUME NEW m \in Smd, NEW s \in Slots,
         m.priority[s] # 0, m.priority[Other(s)] # 0
  PROVE  RotateSlotsPriority(m, s) \in Smd
<1> DEFINE p1 == m.priority[s]
           p2 == m.priority[Other(s)]
           D == SLOT_PRIORITY_DEFAULT
<1>1. p1 \in 1..15 /\ p2 \in 1..15 /\ D \in 3..15
  BY OtherSlot, PriorityAssumption DEF Smd
<1>2. ASSUME NEW p \in 0..15, NEW q \in 0..15
      PROVE  SetPriorities(m, s, p, q) \in Smd
  BY SetPrioritiesType, Zenon DEF SameButPriority
<1>3. /\ SetPriorities(m, s, p1 - 1, p2) \in Smd
      /\ p2 < D => SetPriorities(m, s, p1, p2 + 1) \in Smd
      /\ SetPriorities(m, s, p2 - 1, p2) \in Smd
      /\ SetPriorities(m, s, D - 1, D) \in Smd
      /\ SetPriorities(m, s, p1, p2 - 1) \in Smd
      /\ p1 = p2 + 1 /\ ~(p2 > 1) => SetPriorities(m, s, p1 + 1, p2) \in Smd
  <2> HIDE DEF p1, p2, D
  <2>1. p1 - 1 \in 0..15 /\ p2 - 1 \in 0..15 /\ D - 1 \in 0..15
    BY <1>1
  <2>2. p1 \in 0..15 /\ p2 \in 0..15 /\ D \in 0..15
    BY <1>1
  <2>3. p2 < D => p2 + 1 \in 0..15
    BY <1>1
  <2>4. p1 = p2 + 1 /\ ~(p2 > 1) => p1 + 1 \in 0..15
    BY <1>1
  <2> QED BY <1>2, <2>1, <2>2, <2>3, <2>4
<1> QED BY <1>3 DEF RotateSlotsPriority

LEMMA CopyRegToSmdType ==
  ASSUME NEW m \in Smd, NEW r \in Reg
  PROVE  CopyRegToSmd(m, r) \in Smd
BY DEF CopyRegToSmd, Smd, Reg

LEMMA RestoreRetryType ==
  ASSUME NEW r \in Reg
  PROVE  RestoreRetry(r) \in Reg
BY DEF RestoreRetry, SetRetryCountReg, Reg, Slots

LEMMA EmptyRegType ==
  ASSUME NEW b \in BOOLEAN
  PROVE  EmptyReg(b) \in Reg
BY DEF EmptyReg, Reg, Slots, Flags

LEMMA SmdInitType == SmdInit \in Smd
BY PriorityAssumption, RetryAssumption DEF SmdInit, Smd, Slots, Features

LEMMA SaveBootSlotRegType ==
  ASSUME NEW m \in Smd, NEW s \in Slots, NEW r \in Reg
  PROVE  SaveBootSlotReg(m, s, r) \in Reg
<1>1. UpdateFlag(m, s, r.flag) \in Flags
  BY DEF UpdateFlag, Smd, Reg, Flags, Slots
<1>2. CopySmdToReg(m, r) \in Reg
  BY DEF CopySmdToReg, Smd, Reg, Slots
<1>3. m.num_slots \in 0..2
  BY DEF Smd
<1>4. ASSUME NEW x \in Reg, NEW n \in 0..2, NEW f \in Flags
      PROVE  [x EXCEPT !.slot = s, !.max_slots = n, !.flag = f] \in Reg
  BY Zenon DEF Reg
<1> QED BY <1>1, <1>2, <1>3, <1>4, Zenon DEF SaveBootSlotReg

LEMMA CheckAndUpdateType ==
  ASSUME NEW m \in Smd, NEW s \in Slots, m.retry_count[s] # 0
  PROVE  CheckAndUpdateRetryCount(m, s) \in Smd
BY DEF CheckAndUpdateRetryCount, Smd, Slots

\* boot_chain_get_bootslot_from_smd finds a slot unless none is bootable.
LEMMA ActiveSlotExists ==
  ASSUME NEW m \in Smd, ~NoBootableSlot(m)
  PROVE  \E s \in Slots : IsActiveSlot(m, s)
BY DEF NoBootableSlot, IsActiveSlot, Bootable, Smd, Slots

LEMMA InitBootSlotRegType ==
  ASSUME NEW m \in Smd, NEW r \in Reg
  PROVE  InitBootSlotReg(m, r) \in Reg
<1>1. EmptyReg(TRUE) \in Reg
  BY EmptyRegType, Zenon
<1>2. CASE ~r.magic /\ ~NoBootableSlot(m)
  <2>1. (CHOOSE s \in Slots : IsActiveSlot(m, s)) \in Slots
    BY <1>2, ActiveSlotExists
  <2> QED BY <1>1, <1>2, <2>1, SaveBootSlotRegType, Zenon DEF InitBootSlotReg
<1>3. CASE ~r.magic /\ NoBootableSlot(m)
  BY <1>1, <1>3, Zenon DEF InitBootSlotReg
<1>4. CASE r.magic
  BY <1>4 DEF InitBootSlotReg
<1> QED BY <1>2, <1>3, <1>4

-----------------------------------------------------------------------------
(***************************************************************************)
(* Type correctness.  A flush writes the cached metadata, so there has to  *)
(* be some: TypeOK is inductive with that fact.                            *)
(***************************************************************************)
FlushStages == {"begin", "write", "flushed"}

TypeInv == TypeOK /\ (stage \in FlushStages => ram # NoSmd)

LEMMA CandidatesType ==
  ASSUME TypeOK, NEW m \in Candidates, GetSmd(m) \/ Loadable(m)
  PROVE  m \in Smd \cup {NoSmd}
BY SentinelAssumption DEF TypeOK, Candidates, GetSmd, Loadable, Copies

\* The initial state has the types.
LEMMA InitType == Init => TypeInv
<1> SUFFICES ASSUME Init PROVE TypeInv
  OBVIOUS
<1>1. sr \in Reg
  BY EmptyRegType, Zenon DEF Init, ClearedReg
<1>2. store \in [Copies -> Smd \cup {Corrupt}]
  BY InitialAssumption DEF Init
<1>3. tries \in [slot : Slots, n : 0..TriesCap]
  BY DEF Init, TriesCap, Slots
<1>4. otaTries \in [Slots -> 0..OtaTriesCap]
  BY RetryAssumption DEF Init, OtaTriesCap
<1>5. faults \in 0..MaxFaults
  BY BoundAssumption DEF Init
<1> QED BY <1>1, <1>2, <1>3, <1>4, <1>5, Zenon
     DEF Init, TypeInv, TypeOK, Stages, BootStages, Copies, FlushStages

\* What MB1 writes to the register.
LEMMA MB1Type ==
  ASSUME TypeOK, MB1
  PROVE  sr' \in Reg /\ tries' \in [slot : Slots, n : 0..TriesCap]
<1>1. PICK m \in Candidates :
        /\ Loadable(m)
        /\ LET reg == InitBootSlotReg(MB1Smd(m), sr)
               smd == CopyRegToSmd(MB1Smd(m), reg)
           IN  \/ sr' = reg /\ UNCHANGED tries
               \/ \E s \in Slots :
                    /\ IsActiveSlot(smd, s)
                    /\ sr' = SaveBootSlotReg(CheckAndUpdateRetryCount(smd, s), s, reg)
                    /\ tries' = IF s = tries.slot THEN tries ELSE [slot |-> s, n |-> 0]
  BY DEF MB1
<1> DEFINE M == MB1Smd(m)
           reg == InitBootSlotReg(M, sr)
           smd == CopyRegToSmd(M, reg)
<1>2. M \in Smd
  BY <1>1, CandidatesType, SmdInitType DEF MB1Smd
<1>3. reg \in Reg
  BY <1>2, InitBootSlotRegType DEF TypeOK
<1>4. smd \in Smd
  BY <1>2, <1>3, CopyRegToSmdType
<1> HIDE DEF M, reg, smd
<1>5. CASE sr' = reg /\ UNCHANGED tries
  BY <1>3, <1>5 DEF TypeOK
<1>6. ASSUME NEW s \in Slots, IsActiveSlot(smd, s),
             sr' = SaveBootSlotReg(CheckAndUpdateRetryCount(smd, s), s, reg),
             tries' = IF s = tries.slot THEN tries ELSE [slot |-> s, n |-> 0]
      PROVE  sr' \in Reg /\ tries' \in [slot : Slots, n : 0..TriesCap]
  <2>1. CheckAndUpdateRetryCount(smd, s) \in Smd
    BY <1>4, <1>6, CheckAndUpdateType DEF IsActiveSlot, Bootable
  <2>2. sr' \in Reg
    BY <1>3, <1>6, <2>1, SaveBootSlotRegType
  <2>3. tries' \in [slot : Slots, n : 0..TriesCap]
    BY <1>6 DEF TypeOK, TriesCap
  <2> QED BY <2>2, <2>3
<1> QED BY <1>1, <1>5, <1>6 DEF M, reg, smd

\* What the first half of tegrabl_a_b_update_smd leaves in the register and in
\* the cache.
LEMMA UpdateSmdType ==
  ASSUME TypeOK, UpdateSmd
  PROVE  /\ sr' \in Reg /\ ram' \in Smd \cup {NoSmd}
         /\ stage' \in {"begin", "clear", "hang"}
         /\ stage' = "begin" => ram' # NoSmd
<1>1. sr \in Reg /\ ram \in Smd \cup {NoSmd} /\ sr.slot \in Slots
  BY DEF TypeOK, Reg
<1>2. RestoreRetry(sr) \in Reg
  BY <1>1, RestoreRetryType
<1>3. CASE ~(sr.magic /\ sr.flag \in {"OTA_ON", "REDUNDANCY_BOOT"})
  BY <1>1, <1>3 DEF UpdateSmd
<1>4. CASE sr.magic /\ sr.flag \in {"OTA_ON", "REDUNDANCY_BOOT"}
  <2>1. PICK m \in Candidates :
          /\ GetSmd(m)
          /\ \/ m = NoSmd /\ stage' = "clear" /\ UNCHANGED <<sr, ram>>
             \/ /\ m # NoSmd
                /\ sr.flag = "REDUNDANCY_BOOT" /\ SupportRedundancy(m)
                /\ CheckUserRedundancy(m) \/ CheckNonUserRedundancy(m)
             \/ m # NoSmd /\ ram' = CopyRegToSmd(m, sr) /\ stage' = "begin" /\ UNCHANGED sr
    BY <1>4 DEF UpdateSmd
  <2>2. CASE m = NoSmd
    BY <1>1, <2>1, <2>2
  <2>3. CASE m # NoSmd
    <3>1. m \in Smd
      BY <2>1, <2>3, CandidatesType
    <3>2. \A r \in Reg : CopyRegToSmd(m, r) \in Smd /\ CopyRegToSmd(m, r) # NoSmd
      BY <3>1, CopyRegToSmdType, SentinelAssumption
    <3>3. CASE CheckUserRedundancy(m)
      <4>1. ASSUME BothBootable(m, sr)
            PROVE  RotateSlotsPriority(m, sr.slot) \in Smd
        BY <4>1, <3>1, <1>1, RotateType DEF BothBootable
      <4>2. \A r \in Reg, x \in Smd : CopyRegToSmd(x, r) \in Smd /\ CopyRegToSmd(x, r) # NoSmd
        BY CopyRegToSmdType, SentinelAssumption
      <4> QED BY <1>2, <3>1, <3>2, <3>3, <4>1, <4>2 DEF CheckUserRedundancy
    <3>4. CASE CheckNonUserRedundancy(m)
      BY <1>1, <1>2, <3>1, <3>2, <3>4 DEF CheckNonUserRedundancy
    <3>5. CASE ram' = CopyRegToSmd(m, sr) /\ stage' = "begin" /\ UNCHANGED sr
      BY <1>1, <3>2, <3>5
    <3> QED BY <2>1, <2>3, <3>3, <3>4, <3>5
  <2> QED BY <2>2, <2>3
<1> QED BY <1>3, <1>4

\* Metadata as the UE leaves it: confirmed, or with the other slot active.
LEMMA ConfirmedType ==
  ASSUME NEW m \in Smd, NEW s \in Slots, NEW r \in Restored
  PROVE  Confirmed(m, s, r) \in Smd
<1>1. r[1] \in 1..15 /\ r[2] \in 1..15 /\ SLOT_RETRY_COUNT_DEFAULT \in 0..15
  BY RestoredAssumption, PriorityAssumption, RetryAssumption
<1> DEFINE f == [t \in Slots |-> IF t = s THEN r[1]
                                 ELSE IF m.priority[t] = 0 THEN 0 ELSE r[2]]
<1>2. f \in [Slots -> 0..15]
  BY <1>1 DEF Smd
<1> HIDE DEF f
<1>3. [m EXCEPT !.boot_successful[s] = TRUE, !.retry_count[s] = SLOT_RETRY_COUNT_DEFAULT,
                !.priority = f] \in Smd
  BY <1>1, <1>2, Zenon DEF Smd
<1> QED BY <1>3 DEF Confirmed, f

LEMMA SetActiveType ==
  ASSUME NEW m \in Smd, NEW s \in Slots
  PROVE  SetActiveSlot(m, s) \in Smd
<1>1. SLOT_PRIORITY_DEFAULT \in 0..15 /\ SLOT_RETRY_COUNT_DEFAULT \in 0..15
  BY PriorityAssumption, RetryAssumption
<1> DEFINE f == [t \in Slots |->
                   IF t = s THEN SLOT_PRIORITY_DEFAULT
                   ELSE IF m.priority[t] > 1 THEN m.priority[t] - 1 ELSE m.priority[t]]
<1>2. f \in [Slots -> 0..15]
  BY <1>1 DEF Smd
<1> HIDE DEF f
<1>3. [m EXCEPT !.priority = f, !.retry_count[s] = SLOT_RETRY_COUNT_DEFAULT,
                !.boot_successful[s] = FALSE] \in Smd
  BY <1>1, <1>2, Zenon DEF Smd
<1> QED BY <1>3 DEF SetActiveSlot, f

\* The history variables keep their types.
LEMMA HistoryType ==
  ASSUME TypeOK
  PROVE  /\ CountTries => tries' \in [slot : Slots, n : 0..TriesCap]
         /\ CountOtaTries => otaTries' \in [Slots -> 0..OtaTriesCap]
<1>1. CountTries => tries' \in [slot : Slots, n : 0..TriesCap]
  BY DEF CountTries, TypeOK, TriesCap
<1>2. CountOtaTries => otaTries' \in [Slots -> 0..OtaTriesCap]
  BY RetryAssumption DEF CountOtaTries, TypeOK, OtaTriesCap, Reg
<1> QED BY <1>1, <1>2

\* Every step keeps the types.
LEMMA NextType == TypeInv /\ [OtaNext]_vars => TypeInv'
<1> SUFFICES ASSUME TypeInv, [OtaNext]_vars PROVE TypeInv'
  OBVIOUS
<1> USE DEF TypeInv, FlushStages
<1>t. TypeOK
  OBVIOUS
<1>c. ClearedReg \in Reg
  BY EmptyRegType, Zenon DEF ClearedReg
<1>1. CASE MB1
  <2>1. stage' \in {"halt", "load"}
    BY <1>1 DEF MB1
  <2> QED BY <1>1, <1>t, <2>1, MB1Type DEF MB1, TypeOK, Stages, BootStages
<1>2. CASE LoadKernel
  <2>1. ram' \in Smd \cup {NoSmd}
    BY <1>2, <1>t, CandidatesType DEF LoadKernel, TypeOK
  <2> QED BY <1>2, <2>1 DEF LoadKernel, TypeOK, Stages, BootStages
<1>3. CASE LoaderReset
  BY <1>3, Zenon DEF LoaderReset, SocReset, TypeOK, Stages, Copies
<1>4. CASE UpdateSmd
  <2>1. UNCHANGED <<store, copy, loadErr, error, faults, tries, otaTries>>
    BY <1>4 DEF UpdateSmd
  <2> QED BY <1>4, <1>t, <2>1, UpdateSmdType DEF TypeOK, Stages, BootStages
<1>5. CASE FlushBegin
  BY <1>5 DEF FlushBegin, TypeOK, Stages, BootStages
<1>6. CASE FlushWrite
  BY <1>6, Zenon DEF FlushWrite, NextCopy, TypeOK, Stages, BootStages, Copies
<1>7. CASE FlushFails
  BY <1>7, BoundAssumption DEF FlushFails, NextCopy, TypeOK, Stages, BootStages, Copies
<1>8. CASE FinishBoot
  <2>1. sr' \in Reg
    BY <1>8, <1>c DEF FinishBoot, ClearReg, TypeOK
  <2>2. tries' \in [slot : Slots, n : 0..TriesCap] /\ otaTries' \in [Slots -> 0..OtaTriesCap]
    BY <1>8, <1>t, HistoryType DEF FinishBoot
  <2>3. UNCHANGED <<store, faults>> /\ stage' \in {"kernel", "mb1"}
    BY <1>8 DEF FinishBoot, SocReset
  <2>4. /\ ram' \in Smd \cup {NoSmd} /\ copy' \in Copies
        /\ loadErr' \in BOOLEAN /\ error' \in BOOLEAN
    BY <1>8, Zenon DEF FinishBoot, SocReset, TypeOK, Copies
  <2> QED BY <2>1, <2>2, <2>3, <2>4 DEF TypeOK, Stages, BootStages
<1>9. CASE UEConfirm
  <2>1. PICK r \in Restored : store' = [c \in Copies |-> Confirmed(Stored, BootedSlot, r)]
    BY <1>9 DEF UEConfirm
  <2>2. Stored \in Smd /\ BootedSlot \in Slots
    BY <1>9 DEF UEConfirm, Stored, BootedSlot, TypeOK, Copies
  <2>3. store' \in [Copies -> Smd \cup {Corrupt}]
    BY <2>1, <2>2, ConfirmedType
  <2>4. tries' \in [slot : Slots, n : 0..TriesCap] /\ otaTries' \in [Slots -> 0..OtaTriesCap]
    <3>1. tries' = [tries EXCEPT !.n = 0] /\ otaTries' = [otaTries EXCEPT ![BootedSlot] = 0]
      BY <1>9 DEF UEConfirm
    <3>2. 0 \in 0..TriesCap /\ 0 \in 0..OtaTriesCap
      BY RetryAssumption DEF TriesCap, OtaTriesCap
    <3> QED BY <3>1, <3>2, Zenon DEF TypeOK
  <2> QED BY <1>9, <2>3, <2>4 DEF UEConfirm, TypeOK, Stages
<1>10. CASE UESetActive
  <2>1. Stored \in Smd /\ Other(BootedSlot) \in Slots
    BY <1>10, OtherSlot DEF UESetActive, Stored, BootedSlot, TypeOK, Copies
  <2>2. SetActiveSlot(Stored, Other(BootedSlot)) \in Smd
    BY <2>1, SetActiveType
  <2>3. store' \in [Copies -> Smd \cup {Corrupt}]
    BY <1>10, <2>2 DEF UESetActive
  <2>4. otaTries' \in [Slots -> 0..OtaTriesCap]
    <3>1. otaTries' = [otaTries EXCEPT ![Other(BootedSlot)] = 0]
      BY <1>10 DEF UESetActive
    <3>2. 0 \in 0..OtaTriesCap
      BY RetryAssumption DEF OtaTriesCap
    <3> QED BY <3>1, <3>2, Zenon DEF TypeOK
  <2> QED BY <1>10, <2>3, <2>4 DEF UESetActive, TypeOK
<1>11. CASE KernelReset
  BY <1>11, Zenon DEF KernelReset, SocReset, TypeOK, Stages, Copies
<1>12. CASE Watchdog
  <2>1. faults' \in 0..MaxFaults
    BY <1>12, BoundAssumption DEF Watchdog, TypeOK
  <2> QED BY <1>12, <2>1, Zenon DEF Watchdog, SocReset, TypeOK, Stages, Copies
<1>13. CASE PowerLoss
  <2>1. faults' \in 0..MaxFaults
    BY <1>13, BoundAssumption DEF PowerLoss, TypeOK
  <2> QED BY <1>13, <1>c, <2>1, Zenon DEF PowerLoss, SocReset, TypeOK, Stages, Copies
<1>14. CASE PowerCycle
  BY <1>14, <1>c, Zenon DEF PowerCycle, SocReset, TypeOK, Stages, Copies
<1>15. CASE UNCHANGED vars
  BY <1>15 DEF vars, TypeOK
<1> QED BY <1>1, <1>2, <1>3, <1>4, <1>5, <1>6, <1>7, <1>8, <1>9, <1>10, <1>11,
           <1>12, <1>13, <1>14, <1>15 DEF OtaNext, Next, Boot, Environment

\* Every variable keeps its type in every behaviour, updates, crashes and
\* storage errors included.
THEOREM TypeCorrect == OtaSpec => []TypeOK
<1>1. OtaSpec => []TypeInv
  BY InitType, NextType, PTL DEF OtaSpec
<1>2. TypeInv => TypeOK
  BY DEF TypeInv
<1> QED BY <1>1, <1>2, PTL

-----------------------------------------------------------------------------
(***************************************************************************)
(* The rotation assertion and the range of the retry counts.               *)
(*                                                                         *)
(* Both rest on the agreement of MB1 and CBoot: while CBoot has not        *)
(* changed anything, the slot in the register is the one that the metadata *)
(* CBoot is about to read prefers, and with redundancy one retry of it has *)
(* been spent.  That needs reliable reads (two reads of the metadata could *)
(* return different copies otherwise), so IoErrors is FALSE from here on.  *)
(***************************************************************************)
RangeOK(m) ==
  /\ \A s \in Slots : /\ m.retry_count[s] <= SLOT_RETRY_COUNT_DEFAULT
                      /\ m.priority[s] <= SLOT_PRIORITY_DEFAULT
  /\ SupportRedundancyUser(m) => m.num_slots = 2

\* The metadata that every reader finds.
Current == IF store["SMD"] # Corrupt THEN store["SMD"]
           ELSE IF store["SMD_b"] # Corrupt THEN store["SMD_b"] ELSE NoSmd

\* The slot in register r was selected by metadata m.
SelectedBy(r, m) ==
  /\ m.priority[r.slot] # 0
  /\ (m.num_slots = 2 /\ r.retry_count[Other(r.slot)] # 0 /\ m.priority[Other(r.slot)] # 0)
       => IF r.slot = 0 THEN m.priority[0] >= m.priority[1]
                        ELSE m.priority[1] > m.priority[0]
  /\ SupportRedundancy(m) => r.retry_count[r.slot] < SLOT_RETRY_COUNT_DEFAULT

RangeInv ==
  /\ \A c \in Copies : store[c] # Corrupt => RangeOK(store[c])
  /\ ram # NoSmd => RangeOK(ram)
  /\ \A s \in Slots : sr.retry_count[s] <= SLOT_RETRY_COUNT_DEFAULT

AgreeInv ==
  /\ stage = "mb1" => ram = NoSmd
  /\ stage \in {"load", "update"} =>
       /\ ram # NoSmd => ram = Current
       /\ SelectedBy(sr, MB1Smd(Current))
  /\ stage # "hang"

Inv == TypeInv /\ RangeInv /\ AgreeInv

\* With reliable reads there is one possible result of tegrabl_a_b_get_smd.
LEMMA LoadableIsCurrent ==
  ASSUME ~IoErrors, NEW m, Loadable(m)
  PROVE  m = Current
BY DEF Loadable, LoadFails, Current

LEMMA SmdInitRange == RangeOK(SmdInit)
<1>1. SmdInit.version = {} /\ SmdInit.num_slots = 1
  BY DEF SmdInit
<1>2. \A s \in Slots : /\ SmdInit.retry_count[s] \in {0, SLOT_RETRY_COUNT_DEFAULT}
                       /\ SmdInit.priority[s] \in {0, SLOT_PRIORITY_DEFAULT}
  BY DEF SmdInit
<1> QED BY <1>1, <1>2, PriorityAssumption, RetryAssumption
     DEF RangeOK, SupportRedundancyUser

\* Fields of the register that tegrabl_a_b_save_boot_slot_reg leaves behind.
LEMMA SaveBootSlotRegFields ==
  ASSUME NEW m \in Smd, NEW s \in Slots, NEW r \in Reg
  PROVE  /\ SaveBootSlotReg(m, s, r).slot = s
         /\ \A t \in Slots : SaveBootSlotReg(m, s, r).retry_count[t] = m.retry_count[t]
         /\ SaveBootSlotReg(m, s, r).magic = r.magic
         /\ SaveBootSlotReg(m, s, r).flag = UpdateFlag(m, s, r.flag)
<1> DEFINE q == CopySmdToReg(m, r)
<1>1. q \in Reg /\ q.magic = r.magic
  BY DEF CopySmdToReg, Smd, Reg, Slots
<1>2. \A t \in Slots : q.retry_count[t] = m.retry_count[t] % 16
  BY DEF CopySmdToReg, Smd, Reg
<1>3. \A t \in Slots : m.retry_count[t] \in 0..15
  BY DEF Smd
<1>4. \A t \in Slots : q.retry_count[t] = m.retry_count[t]
  BY <1>2, <1>3
<1> HIDE DEF q
<1>5. ASSUME NEW n, NEW f
      PROVE  /\ [q EXCEPT !.slot = s, !.max_slots = n, !.flag = f].slot = s
             /\ [q EXCEPT !.slot = s, !.max_slots = n, !.flag = f].retry_count = q.retry_count
             /\ [q EXCEPT !.slot = s, !.max_slots = n, !.flag = f].magic = q.magic
             /\ [q EXCEPT !.slot = s, !.max_slots = n, !.flag = f].flag = f
  BY <1>1 DEF Reg
<1> QED BY <1>1, <1>4, <1>5 DEF SaveBootSlotReg, q

\* Register q is r with slot s and the retry counts of m.
Saved(q, m, s, r) ==
  /\ q.slot = s
  /\ \A t \in Slots : q.retry_count[t] = m.retry_count[t]
  /\ q.magic = r.magic

LEMMA SaveBootSlotRegSaves ==
  ASSUME NEW m \in Smd, NEW s \in Slots, NEW r \in Reg
  PROVE  Saved(SaveBootSlotReg(m, s, r), m, s, r)
<1> DEFINE q == SaveBootSlotReg(m, s, r)
<1>1. q.slot = s /\ (\A t \in Slots : q.retry_count[t] = m.retry_count[t]) /\ q.magic = r.magic
  BY SaveBootSlotRegFields
<1> HIDE DEF q
<1>2. Saved(q, m, s, r)
  BY <1>1, Zenon DEF Saved
<1> QED BY <1>2, Zenon DEF q

LEMMA InitBootSlotRegFields ==
  ASSUME NEW m \in Smd, NEW r \in Reg, RangeOK(m),
         \A s \in Slots : r.retry_count[s] <= SLOT_RETRY_COUNT_DEFAULT
  PROVE  /\ \A s \in Slots : InitBootSlotReg(m, r).retry_count[s] <= SLOT_RETRY_COUNT_DEFAULT
         /\ InitBootSlotReg(m, r).magic
<1>0. /\ EmptyReg(TRUE).magic
      /\ \A s \in Slots : EmptyReg(TRUE).retry_count[s] <= SLOT_RETRY_COUNT_DEFAULT
  BY RetryAssumption DEF EmptyReg
<1>1. CASE r.magic
  BY <1>1 DEF InitBootSlotReg
<1>2. CASE ~r.magic /\ NoBootableSlot(m)
  BY <1>0, <1>2, Zenon DEF InitBootSlotReg
<1>3. CASE ~r.magic /\ ~NoBootableSlot(m)
  <2> DEFINE s == CHOOSE t \in Slots : IsActiveSlot(m, t)
  <2>1. s \in Slots
    BY <1>3, ActiveSlotExists
  <2> HIDE DEF s
  <2>2. InitBootSlotReg(m, r) = SaveBootSlotReg(m, s, EmptyReg(TRUE))
    BY <1>3 DEF InitBootSlotReg, s
  <2>3. EmptyReg(TRUE) \in Reg
    BY EmptyRegType, Zenon
  <2>4. /\ \A t \in Slots : SaveBootSlotReg(m, s, EmptyReg(TRUE)).retry_count[t] = m.retry_count[t]
        /\ SaveBootSlotReg(m, s, EmptyReg(TRUE)).magic = EmptyReg(TRUE).magic
    <3>1. Saved(SaveBootSlotReg(m, s, EmptyReg(TRUE)), m, s, EmptyReg(TRUE))
      BY <2>1, <2>3, SaveBootSlotRegSaves, Zenon
    <3> QED BY <3>1, Zenon DEF Saved
  <2> QED BY <1>0, <2>2, <2>4, Zenon DEF RangeOK
<1> QED BY <1>1, <1>2, <1>3

\* The initial state satisfies the invariant.
LEMMA InitInv == Init => Inv
<1> SUFFICES ASSUME Init PROVE Inv
  OBVIOUS
<1>1. TypeInv
  BY InitType
<1>2. RangeInv
  <2>1. \A c \in Copies : RangeOK(store[c])
    BY InitialAssumption DEF Init, RangeOK
  <2>2. \A s \in Slots : sr.retry_count[s] <= SLOT_RETRY_COUNT_DEFAULT
    BY RetryAssumption DEF Init, ClearedReg, EmptyReg
  <2> QED BY <2>1, <2>2 DEF Init, RangeInv
<1> QED BY <1>1, <1>2 DEF Init, Inv, AgreeInv

LEMMA CheckAndUpdateFields ==
  ASSUME NEW m \in Smd, NEW s \in Slots
  PROVE  /\ \A t \in Slots : t # s =>
              CheckAndUpdateRetryCount(m, s).retry_count[t] = m.retry_count[t]
         /\ CheckAndUpdateRetryCount(m, s).retry_count[s] =
              IF SpendsRetry(m, s) THEN m.retry_count[s] - 1 ELSE m.retry_count[s]
         /\ CheckAndUpdateRetryCount(m, s).boot_successful = m.boot_successful
         /\ CheckAndUpdateRetryCount(m, s).version = m.version
<1>1. CASE SpendsRetry(m, s)
  <2>1. CheckAndUpdateRetryCount(m, s) = [m EXCEPT !.retry_count[s] = @ - 1]
    BY <1>1 DEF CheckAndUpdateRetryCount
  <2> QED BY <1>1, <2>1 DEF Smd
<1>2. CASE ~SpendsRetry(m, s)
  <2>1. CheckAndUpdateRetryCount(m, s) = m
    BY <1>2 DEF CheckAndUpdateRetryCount
  <2> QED BY <1>2, <2>1
<1> QED BY <1>1, <1>2

LEMMA CopyRegToSmdFields ==
  ASSUME NEW m \in Smd, NEW r \in Reg
  PROVE  /\ CopyRegToSmd(m, r).retry_count = r.retry_count
         /\ CopyRegToSmd(m, r).priority = m.priority
         /\ CopyRegToSmd(m, r).num_slots = m.num_slots
         /\ CopyRegToSmd(m, r).version = m.version
         /\ CopyRegToSmd(m, r).boot_successful = m.boot_successful
BY DEF CopyRegToSmd, Smd

\* MB1 leaves a register that the metadata agrees with.
LEMMA MB1Selects ==
  ASSUME NEW m \in Smd, NEW reg \in Reg, NEW s \in Slots, RangeOK(m),
         \A t \in Slots : reg.retry_count[t] <= SLOT_RETRY_COUNT_DEFAULT,
         IsActiveSlot(CopyRegToSmd(m, reg), s),
         NEW r, r = SaveBootSlotReg(CheckAndUpdateRetryCount(CopyRegToSmd(m, reg), s), s, reg)
  PROVE  /\ r.slot = s
         /\ \A t \in Slots : r.retry_count[t] <= SLOT_RETRY_COUNT_DEFAULT
         /\ r.magic = reg.magic
         /\ SelectedBy(r, m)
<1> DEFINE d == CopyRegToSmd(m, reg)
           e == CheckAndUpdateRetryCount(d, s)
<1>1. d \in Smd
  BY CopyRegToSmdType
<1>2. /\ d.retry_count = reg.retry_count /\ d.priority = m.priority
      /\ d.num_slots = m.num_slots /\ d.version = m.version
  BY CopyRegToSmdFields
<1>3. Bootable(d, s)
  BY DEF IsActiveSlot
<1> HIDE DEF d
<1>4. e \in Smd
  BY <1>1, <1>3, CheckAndUpdateType DEF Bootable
<1>5. /\ \A t \in Slots : t # s => e.retry_count[t] = d.retry_count[t]
      /\ e.retry_count[s] = IF SpendsRetry(d, s) THEN d.retry_count[s] - 1 ELSE d.retry_count[s]
  BY <1>1, CheckAndUpdateFields
<1> HIDE DEF e
<1>6. /\ r.slot = s /\ r.magic = reg.magic
      /\ \A t \in Slots : r.retry_count[t] = e.retry_count[t]
  <2>1. r = SaveBootSlotReg(e, s, reg)
    BY Zenon DEF d, e
  <2>2. Saved(r, e, s, reg)
    BY <1>4, <2>1, SaveBootSlotRegSaves, Zenon
  <2> QED BY <2>2, Zenon DEF Saved
<1>7. \A t \in Slots : reg.retry_count[t] \in 0..15 /\ m.priority[t] \in 0..15
  BY DEF Reg, Smd
<1>8. \A t \in Slots : r.retry_count[t] <= SLOT_RETRY_COUNT_DEFAULT
  BY <1>2, <1>5, <1>6, <1>7, RetryAssumption, SMTT(30)
<1>9. SelectedBy(r, m)
  <2>1. m.priority[r.slot] # 0
    BY <1>2, <1>3, <1>6 DEF Bootable
  <2>2. ASSUME m.num_slots = 2, r.retry_count[Other(s)] # 0, m.priority[Other(s)] # 0
        PROVE  IF s = 0 THEN m.priority[0] >= m.priority[1]
                        ELSE m.priority[1] > m.priority[0]
    <3>1. Other(s) \in Slots /\ Other(s) # s
      BY OtherSlot
    <3>2. Bootable(d, Other(s))
      BY <1>2, <1>5, <1>6, <2>2, <3>1, SMTT(30) DEF Bootable, Slots
    <3>3. \/ d.priority[Other(s)] < d.priority[s]
          \/ d.priority[Other(s)] = d.priority[s] /\ s <= Other(s)
      BY <3>1, <3>2 DEF IsActiveSlot, d
    <3> QED BY <1>2, <1>7, <3>1, <3>3 DEF Slots, Other
  <2>3. SupportRedundancy(m) => r.retry_count[s] < SLOT_RETRY_COUNT_DEFAULT
    <3>1. SupportRedundancy(m) => SpendsRetry(d, s)
      BY <1>2 DEF SupportRedundancy, SpendsRetry
    <3>2. SupportRedundancy(m) => r.retry_count[s] = reg.retry_count[s] - 1
      BY <1>2, <1>5, <1>6, <3>1
    <3>3. reg.retry_count[s] \in Int /\ reg.retry_count[s] <= SLOT_RETRY_COUNT_DEFAULT
      BY <1>7
    <3> QED BY <3>2, <3>3, RetryAssumption, SMTT(30)
  <2> QED BY <1>6, <2>1, <2>2, <2>3 DEF SelectedBy
<1> QED BY <1>6, <1>8, <1>9

LEMMA MB1Inv ==
  ASSUME ~IoErrors, Inv, MB1
  PROVE  RangeInv' /\ AgreeInv'
<1>1. PICK m \in Candidates :
        /\ Loadable(m)
        /\ LET reg == InitBootSlotReg(MB1Smd(m), sr)
               smd == CopyRegToSmd(MB1Smd(m), reg)
           IN  \/ sr' = reg /\ stage' = "halt"
               \/ \E s \in Slots :
                    /\ IsActiveSlot(smd, s)
                    /\ sr' = SaveBootSlotReg(CheckAndUpdateRetryCount(smd, s), s, reg)
                    /\ stage' = "load"
  BY DEF MB1
<1> DEFINE M == MB1Smd(m)
           reg == InitBootSlotReg(M, sr)
<1>0. stage = "mb1" /\ ram' = ram /\ store' = store /\ ram = NoSmd
  BY DEF MB1, Inv, AgreeInv
<1>2. m = Current /\ m \in Smd \cup {NoSmd}
  BY <1>1, LoadableIsCurrent, CandidatesType DEF Inv, TypeInv
<1>3. M \in Smd
  BY <1>2, SmdInitType DEF MB1Smd
<1>4. RangeOK(M)
  <2>1. m # NoSmd => \E c \in Copies : store[c] # Corrupt /\ m = store[c]
    BY <1>2 DEF Current, Copies
  <2> QED BY <2>1, SmdInitRange DEF MB1Smd, Inv, RangeInv
<1>5. reg \in Reg /\ \A t \in Slots : reg.retry_count[t] <= SLOT_RETRY_COUNT_DEFAULT
  BY <1>3, <1>4, InitBootSlotRegType, InitBootSlotRegFields
     DEF Inv, TypeInv, TypeOK, RangeInv
<1>6. Current' = Current /\ MB1Smd(Current)' = M
  BY <1>0, <1>2 DEF Current, MB1Smd
<1> HIDE DEF M, reg
<1>7. CASE sr' = reg /\ stage' = "halt"
  BY <1>0, <1>5, <1>7 DEF Inv, RangeInv, AgreeInv
<1>8. ASSUME NEW s \in Slots, IsActiveSlot(CopyRegToSmd(M, reg), s),
             sr' = SaveBootSlotReg(CheckAndUpdateRetryCount(CopyRegToSmd(M, reg), s), s, reg),
             stage' = "load"
      PROVE  RangeInv' /\ AgreeInv'
  <2>1. /\ \A t \in Slots : sr'.retry_count[t] <= SLOT_RETRY_COUNT_DEFAULT
        /\ SelectedBy(sr', M)
    BY <1>3, <1>4, <1>5, <1>8, MB1Selects
  <2>2. RangeInv'
    BY <1>0, <2>1 DEF Inv, RangeInv
  <2>3. SelectedBy(sr, MB1Smd(Current))'
    BY <1>6, <2>1 DEF SelectedBy
  <2> QED BY <1>0, <1>8, <2>2, <2>3 DEF AgreeInv
<1> QED BY <1>1, <1>7, <1>8 DEF M, reg

\* A retry given back to a register that has one spent stays in range.
LEMMA RestoreRetryRange ==
  ASSUME NEW r \in Reg, \A t \in Slots : r.retry_count[t] <= SLOT_RETRY_COUNT_DEFAULT,
         r.retry_count[r.slot] < SLOT_RETRY_COUNT_DEFAULT
  PROVE  \A t \in Slots : /\ RestoreRetry(r).retry_count[t] <= SLOT_RETRY_COUNT_DEFAULT
                          /\ RestoreRetry(r).retry_count[t] =
                               IF t = r.slot THEN r.retry_count[t] + 1 ELSE r.retry_count[t]
<1>1. r.slot \in Slots /\ \A t \in Slots : r.retry_count[t] \in 0..15
  BY DEF Reg
<1>2. (r.retry_count[r.slot] + 1) % 16 = r.retry_count[r.slot] + 1
  BY <1>1, RetryAssumption
<1> DEFINE n == (r.retry_count[r.slot] + 1) % 16
<1> HIDE DEF n
<1>3. RestoreRetry(r) = [r EXCEPT !.retry_count[r.slot] = n]
  BY DEF RestoreRetry, SetRetryCountReg, n
<1>4. \A t \in Slots : RestoreRetry(r).retry_count[t] = IF t = r.slot THEN n ELSE r.retry_count[t]
  BY <1>1, <1>3 DEF Reg
<1> QED BY <1>1, <1>2, <1>4, RetryAssumption DEF n

LEMMA CopyRegToSmdRange ==
  ASSUME NEW m \in Smd, NEW r \in Reg, RangeOK(m),
         \A t \in Slots : r.retry_count[t] <= SLOT_RETRY_COUNT_DEFAULT
  PROVE  RangeOK(CopyRegToSmd(m, r))
BY CopyRegToSmdFields DEF RangeOK, SupportRedundancyUser

\* The part of tegrabl_a_b_update_smd that may hang or raise a retry count.
LEMMA UpdateSmdRange ==
  ASSUME ~IoErrors, Inv, UpdateSmd
  PROVE  /\ \A t \in Slots : sr'.retry_count[t] <= SLOT_RETRY_COUNT_DEFAULT
         /\ ram' # NoSmd => RangeOK(ram')
         /\ stage' # "hang"
<1>0. /\ sr \in Reg /\ sr.slot \in Slots /\ stage = "update"
      /\ \A t \in Slots : sr.retry_count[t] <= SLOT_RETRY_COUNT_DEFAULT
      /\ ram # NoSmd => RangeOK(ram)
  BY DEF Inv, TypeInv, TypeOK, RangeInv, UpdateSmd, Reg
<1>1. CASE ~(sr.magic /\ sr.flag \in {"OTA_ON", "REDUNDANCY_BOOT"})
  BY <1>0, <1>1, Zenon DEF UpdateSmd
<1>2. CASE sr.magic /\ sr.flag \in {"OTA_ON", "REDUNDANCY_BOOT"}
  <2>1. PICK m \in Candidates :
          /\ GetSmd(m)
          /\ \/ m = NoSmd /\ stage' = "clear" /\ UNCHANGED <<sr, ram>>
             \/ /\ m # NoSmd
                /\ SupportRedundancy(m)
                /\ IF SupportRedundancyUser(m) THEN CheckUserRedundancy(m)
                                               ELSE CheckNonUserRedundancy(m)
             \/ m # NoSmd /\ ram' = CopyRegToSmd(m, sr) /\ stage' = "begin" /\ UNCHANGED sr
    BY <1>2 DEF UpdateSmd
  <2>2. CASE m = NoSmd
    BY <1>0, <2>1, <2>2
  <2>3. CASE m # NoSmd
    <3>1. m \in Smd
      BY <2>1, <2>3, CandidatesType DEF Inv, TypeInv
    <3>2. m = Current
      BY <1>0, <2>1, LoadableIsCurrent DEF GetSmd, Inv, AgreeInv
    <3>3. RangeOK(m)
      <4>1. \E c \in Copies : store[c] # Corrupt /\ m = store[c]
        BY <2>3, <3>2 DEF Current, Copies
      <4> QED BY <4>1 DEF Inv, RangeInv
    <3>4. SelectedBy(sr, m)
      BY <1>0, <2>3, <3>2 DEF MB1Smd, Inv, AgreeInv
    <3>5. CASE ram' = CopyRegToSmd(m, sr) /\ stage' = "begin" /\ UNCHANGED sr
      BY <1>0, <3>1, <3>3, <3>5, CopyRegToSmdRange
    <3>6. ASSUME SupportRedundancy(m)
          PROVE  /\ RestoreRetry(sr) \in Reg
                 /\ \A t \in Slots : RestoreRetry(sr).retry_count[t] <= SLOT_RETRY_COUNT_DEFAULT
      BY <1>0, <3>4, <3>6, RestoreRetryType, RestoreRetryRange DEF SelectedBy
    <3>7. CASE SupportRedundancy(m) /\ CheckNonUserRedundancy(m)
      BY <1>0, <3>1, <3>3, <3>6, <3>7, CopyRegToSmdRange DEF CheckNonUserRedundancy
    <3>8. CASE SupportRedundancy(m) /\ SupportRedundancyUser(m) /\ CheckUserRedundancy(m)
      <4>1. m.num_slots = 2
        BY <3>3, <3>8 DEF RangeOK
      <4>2. ASSUME BothBootable(m, sr)
            PROVE  m.priority[sr.slot] >= m.priority[Other(sr.slot)]
        <5>1. IF sr.slot = 0 THEN m.priority[0] >= m.priority[1]
                             ELSE m.priority[1] > m.priority[0]
          BY <3>4, <4>1, <4>2 DEF SelectedBy, BothBootable
        <5>2. m.priority[0] \in 0..15 /\ m.priority[1] \in 0..15
          BY <3>1 DEF Smd, Slots
        <5> QED BY <1>0, <5>1, <5>2 DEF Slots, Other
      <4>3. ASSUME BothBootable(m, sr)
            PROVE  /\ RotateSlotsPriority(m, sr.slot) \in Smd
                   /\ RangeOK(RotateSlotsPriority(m, sr.slot))
        <5>1. /\ m.priority[sr.slot] # 0 /\ m.priority[Other(sr.slot)] # 0
              /\ \A t \in Slots : m.priority[t] <= SLOT_PRIORITY_DEFAULT
          BY <3>3, <4>3 DEF BothBootable, RangeOK
        <5>2. /\ SameButPriority(RotateSlotsPriority(m, sr.slot), m)
              /\ \A t \in Slots : RotateSlotsPriority(m, sr.slot).priority[t]
                                     \in 1..SLOT_PRIORITY_DEFAULT
          BY <1>0, <3>1, <4>2, <4>3, <5>1, RotateFacts
        <5> QED BY <3>3, <5>2, PriorityAssumption, SMTT(30)
            DEF SameButPriority, RangeOK, SupportRedundancyUser
      <4>4. \/ ram' = CopyRegToSmd(m, sr') /\ stage' = "begin"
            \/ /\ BothBootable(m, sr) /\ stage' = "begin"
               /\ ram' = CopyRegToSmd(RotateSlotsPriority(m, sr.slot), sr')
            \/ /\ BothBootable(m, sr)
               /\ m.priority[sr.slot] < m.priority[Other(sr.slot)]
        BY <3>8 DEF CheckUserRedundancy
      <4>5. sr' = RestoreRetry(sr)
        BY <3>8 DEF CheckUserRedundancy
      <4>6. CASE ram' = CopyRegToSmd(m, sr') /\ stage' = "begin"
        BY <3>1, <3>3, <3>6, <3>8, <4>5, <4>6, CopyRegToSmdRange
      <4>7. CASE /\ BothBootable(m, sr) /\ stage' = "begin"
                 /\ ram' = CopyRegToSmd(RotateSlotsPriority(m, sr.slot), sr')
        BY <3>6, <3>8, <4>3, <4>5, <4>7, CopyRegToSmdRange
      <4>8. CASE BothBootable(m, sr) /\ m.priority[sr.slot] < m.priority[Other(sr.slot)]
        <5>1. m.priority[sr.slot] \in 0..15 /\ m.priority[Other(sr.slot)] \in 0..15
          BY <1>0, <3>1, OtherSlot DEF Smd
        <5> QED BY <4>2, <4>8, <5>1, SMTT(30)
      <4> QED BY <4>4, <4>6, <4>7, <4>8
    <3> QED BY <2>1, <2>3, <3>5, <3>7, <3>8
  <2> QED BY <2>2, <2>3
<1> QED BY <1>1, <1>2

LEMMA ConfirmedRange ==
  ASSUME NEW m \in Smd, NEW s \in Slots, NEW r \in Restored, RangeOK(m)
  PROVE  RangeOK(Confirmed(m, s, r))
<1>1. r[1] \in 1..SLOT_PRIORITY_DEFAULT /\ r[2] \in 1..SLOT_PRIORITY_DEFAULT
  BY RestoredAssumption
<1> DEFINE f == [t \in Slots |-> IF t = s THEN r[1]
                                 ELSE IF m.priority[t] = 0 THEN 0 ELSE r[2]]
<1>2. \A t \in Slots : f[t] <= SLOT_PRIORITY_DEFAULT
  BY <1>1, PriorityAssumption
<1> HIDE DEF f
<1> DEFINE x == [m EXCEPT !.boot_successful[s] = TRUE,
                          !.retry_count[s] = SLOT_RETRY_COUNT_DEFAULT, !.priority = f]
<1>3. /\ x.priority = f /\ x.version = m.version /\ x.num_slots = m.num_slots
      /\ \A t \in Slots : x.retry_count[t] = IF t = s THEN SLOT_RETRY_COUNT_DEFAULT
                                             ELSE m.retry_count[t]
  BY DEF Smd
<1> HIDE DEF x
<1>4. RangeOK(x)
  BY <1>2, <1>3, RetryAssumption DEF RangeOK, SupportRedundancyUser
<1> QED BY <1>4 DEF Confirmed, x, f

LEMMA SetActiveRange ==
  ASSUME NEW m \in Smd, NEW s \in Slots, RangeOK(m)
  PROVE  RangeOK(SetActiveSlot(m, s))
<1> DEFINE f == [t \in Slots |->
                   IF t = s THEN SLOT_PRIORITY_DEFAULT
                   ELSE IF m.priority[t] > 1 THEN m.priority[t] - 1 ELSE m.priority[t]]
<1>1. \A t \in Slots : m.priority[t] \in 0..15 /\ m.priority[t] <= SLOT_PRIORITY_DEFAULT
  BY DEF Smd, RangeOK
<1>2. \A t \in Slots : f[t] <= SLOT_PRIORITY_DEFAULT
  BY <1>1, PriorityAssumption
<1> HIDE DEF f
<1> DEFINE x == [m EXCEPT !.priority = f, !.retry_count[s] = SLOT_RETRY_COUNT_DEFAULT,
                          !.boot_successful[s] = FALSE]
<1>3. /\ x.priority = f /\ x.version = m.version /\ x.num_slots = m.num_slots
      /\ \A t \in Slots : x.retry_count[t] = IF t = s THEN SLOT_RETRY_COUNT_DEFAULT
                                             ELSE m.retry_count[t]
  BY DEF Smd
<1> HIDE DEF x
<1>4. RangeOK(x)
  BY <1>2, <1>3, RetryAssumption DEF RangeOK, SupportRedundancyUser
<1> QED BY <1>4 DEF SetActiveSlot, x, f

\* Every step keeps the invariant.
LEMMA NextInv ==
  ASSUME ~IoErrors
  PROVE  Inv /\ [OtaNext]_vars => Inv'
<1> SUFFICES ASSUME Inv, [OtaNext]_vars PROVE RangeInv' /\ AgreeInv'
  BY NextType DEF Inv
<1>t. TypeOK /\ RangeInv /\ AgreeInv
  BY DEF Inv, TypeInv
<1>c. \A t \in Slots : ClearedReg.retry_count[t] <= SLOT_RETRY_COUNT_DEFAULT
  BY RetryAssumption DEF ClearedReg, EmptyReg
<1>r. ASSUME SocReset, store' = store, sr' = sr \/ sr' = ClearedReg
      PROVE  RangeInv' /\ AgreeInv'
  BY <1>c, <1>r, <1>t DEF SocReset, RangeInv, AgreeInv
<1>1. CASE MB1
  BY <1>1, MB1Inv
<1>2. CASE LoadKernel
  <2>1. /\ stage = "load" /\ stage' = "update" /\ store' = store /\ sr' = sr
        /\ ram' = ram \/ \E m \in Candidates \ {NoSmd} : GetSmd(m) /\ ram' = m
    BY <1>2 DEF LoadKernel
  <2>2. ram' # NoSmd => ram' = Current
    BY <1>t, <2>1, LoadableIsCurrent DEF GetSmd, AgreeInv
  <2>3. Current' = Current /\ MB1Smd(Current)' = MB1Smd(Current)
    BY <2>1 DEF Current, MB1Smd
  <2>4. ram' # NoSmd => RangeOK(ram')
    <3>1. ram' # NoSmd => \E c \in Copies : store[c] # Corrupt /\ ram' = store[c]
      BY <2>2 DEF Current, Copies
    <3> QED BY <1>t, <3>1 DEF RangeInv
  <2>5. RangeInv'
    BY <1>t, <2>1, <2>4 DEF RangeInv
  <2>6. SelectedBy(sr, MB1Smd(Current))'
    BY <1>t, <2>1, <2>3 DEF AgreeInv, SelectedBy
  <2> QED BY <2>1, <2>2, <2>3, <2>5, <2>6 DEF AgreeInv
<1>3. CASE LoaderReset
  BY <1>3, <1>r DEF LoaderReset
<1>4. CASE UpdateSmd
  <2>1. store' = store /\ stage' \in {"begin", "clear", "hang"}
    BY <1>4, <1>t, UpdateSmdType DEF UpdateSmd
  <2>2. RangeInv' /\ stage' # "hang"
    BY <1>4, <1>t, <2>1, UpdateSmdRange DEF RangeInv
  <2> QED BY <2>1, <2>2 DEF AgreeInv
<1>5. CASE FlushBegin
  <2>1. /\ ram' = ram /\ sr' = sr /\ stage' = "write"
        /\ \A c \in Copies : store'[c] = Corrupt \/ store'[c] = store[c]
    BY <1>5, <1>t DEF FlushBegin, TypeOK
  <2> QED BY <1>t, <2>1 DEF RangeInv, AgreeInv
<1>6. CASE FlushWrite
  <2>1. ram # NoSmd
    BY <1>6 DEF Inv, TypeInv, FlushStages, FlushWrite
  <2>2. /\ ram' = ram /\ sr' = sr /\ stage' \in {"begin", "flushed"}
        /\ \A c \in Copies : store'[c] = ram \/ store'[c] = store[c]
    BY <1>6, <1>t DEF FlushWrite, NextCopy, TypeOK
  <2> QED BY <1>t, <2>1, <2>2 DEF RangeInv, AgreeInv
<1>7. CASE FlushFails
  BY <1>7 DEF FlushFails
<1>8. CASE FinishBoot
  <2>1. store' = store /\ (sr' = sr \/ sr' = ClearedReg)
    BY <1>8 DEF FinishBoot, ClearReg
  <2>2. CASE stage' = "kernel" /\ ram' = ram
    BY <1>c, <1>t, <2>1, <2>2 DEF RangeInv, AgreeInv
  <2>3. CASE SocReset
    BY <1>r, <2>1, <2>3
  <2> QED BY <1>8, <2>2, <2>3 DEF FinishBoot
<1>a. ASSUME stage' = "running", ram' = ram, sr' = sr, NEW x, RangeOK(x),
             store' = [c \in Copies |-> x]
      PROVE  RangeInv' /\ AgreeInv'
  BY <1>a, <1>t DEF RangeInv, AgreeInv
<1>b. Stored # Corrupt => Stored \in Smd /\ RangeOK(Stored)
  BY <1>t DEF Stored, TypeOK, RangeInv, Copies
<1>9. CASE UEConfirm
  <2>1. PICK r \in Restored : store' = [c \in Copies |-> Confirmed(Stored, BootedSlot, r)]
    BY <1>9 DEF UEConfirm
  <2>2. Stored \in Smd /\ RangeOK(Stored) /\ BootedSlot \in Slots
    BY <1>9, <1>b, <1>t DEF UEConfirm, BootedSlot, TypeOK
  <2>3. RangeOK(Confirmed(Stored, BootedSlot, r))
    BY <2>2, ConfirmedRange
  <2>4. stage' = "running" /\ ram' = ram /\ sr' = sr
    BY <1>9 DEF UEConfirm
  <2> QED BY <1>a, <2>1, <2>3, <2>4
<1>10. CASE UESetActive
  <2>1. Stored \in Smd /\ RangeOK(Stored) /\ Other(BootedSlot) \in Slots
    BY <1>10, <1>b, <1>t, OtherSlot DEF UESetActive, BootedSlot, TypeOK
  <2>2. RangeOK(SetActiveSlot(Stored, Other(BootedSlot)))
    BY <2>1, SetActiveRange
  <2>3. /\ stage' = "running" /\ ram' = ram /\ sr' = sr
        /\ store' = [c \in Copies |-> SetActiveSlot(Stored, Other(BootedSlot))]
    BY <1>10 DEF UESetActive
  <2> QED BY <1>a, <2>2, <2>3
<1>11. CASE KernelReset
  BY <1>11, <1>r DEF KernelReset
<1>12. CASE Watchdog
  BY <1>12, <1>r DEF Watchdog
<1>13. CASE PowerLoss
  BY <1>13, <1>r DEF PowerLoss
<1>14. CASE PowerCycle
  BY <1>14, <1>r DEF PowerCycle
<1>15. CASE UNCHANGED vars
  <2>1. UNCHANGED <<stage, store, sr, ram>>
    BY <1>15 DEF vars
  <2>2. RangeInv'
    BY <1>t, <2>1 DEF RangeInv
  <2> QED BY <1>t, <2>1, <2>2, Zenon DEF AgreeInv, SelectedBy, MB1Smd, Current
<1> QED BY <1>1, <1>2, <1>3, <1>4, <1>5, <1>6, <1>7, <1>8, <1>9, <1>10, <1>11,
           <1>12, <1>13, <1>14, <1>15 DEF OtaNext, Next, Boot, Environment

LEMMA InvHolds ==
  ASSUME ~IoErrors
  PROVE  OtaSpec => []Inv
BY InitInv, NextInv, PTL DEF OtaSpec

\* With reliable storage the assertion of check_user_redundancy_status never
\* fails, whatever crashes, updates and confirmations come between boots.
THEOREM NeverHangs ==
  ASSUME ~IoErrors
  PROVE  OtaSpec => []NoHang
<1>1. Inv => NoHang
  BY DEF Inv, AgreeInv, NoHang
<1> QED BY <1>1, InvHolds, PTL

\* With reliable storage no retry count leaves the header's range: a retry is
\* given back only for a boot that spent one.
THEOREM RetriesBounded ==
  ASSUME ~IoErrors
  PROVE  OtaSpec => []RetryInRange
<1>1. Inv => RetryInRange
  BY DEF Inv, RangeInv, RangeOK, RetryInRange
<1> QED BY <1>1, InvHolds, PTL

-----------------------------------------------------------------------------
Valid(c) == store[c] # Corrupt

(***************************************************************************)
(* One fault.  Only the copy being written is ever invalid without a fault,*)
(* so that a single fault leaves the other one.                            *)
(***************************************************************************)
FaultInv ==
  /\ faults = 0 => \A c \in Copies : (stage = "write" /\ c = copy) \/ Valid(c)
  /\ faults <= 1 /\ stage # "write" => \E c \in Copies : Valid(c)

LEMMA NextFaultInv == TypeInv /\ FaultInv /\ [OtaNext]_vars => FaultInv'
<1> SUFFICES ASSUME TypeInv, FaultInv, [OtaNext]_vars PROVE FaultInv'
  OBVIOUS
<1>t. /\ store \in [Copies -> Smd \cup {Corrupt}] /\ copy \in Copies /\ faults \in Nat
      /\ tries.slot \in Slots
  BY BoundAssumption DEF TypeInv, TypeOK
<1>o. copy = "SMD" \/ copy = "SMD_b"
  BY <1>t DEF Copies
<1>q. ASSUME stage # "write", stage' # "write", UNCHANGED <<store, faults>>
      PROVE  FaultInv'
  BY <1>q DEF FaultInv, Valid
<1>f. ASSUME stage' # "write", store' = store, faults' = faults + 1
      PROVE  FaultInv'
  <2>1. faults' <= 1 => faults = 0
    BY <1>t, <1>f
  <2>2. faults = 0 => \E c \in Copies : Valid(c)
    BY <1>o DEF FaultInv, Copies
  <2>3. faults' # 0
    BY <1>t, <1>f
  <2> QED BY <1>f, <2>1, <2>2, <2>3 DEF FaultInv, Valid
<1>u. ASSUME NEW x \in Smd, store' = [c \in Copies |-> x]
      PROVE  FaultInv'
  BY <1>u, SentinelAssumption DEF FaultInv, Valid, Copies
<1>1. CASE MB1
  BY <1>1, <1>q DEF MB1
<1>2. CASE LoadKernel
  BY <1>2, <1>q DEF LoadKernel
<1>3. CASE LoaderReset
  BY <1>3, <1>q DEF LoaderReset, SocReset
<1>4. CASE UpdateSmd
  BY <1>4, <1>q, UpdateSmdType DEF UpdateSmd, TypeInv
<1>5. CASE FlushBegin
  BY <1>5, <1>t DEF FlushBegin, FaultInv, Valid
<1>6. CASE FlushWrite
  <2>1. ram # Corrupt
    BY <1>6, SentinelAssumption DEF FlushWrite, TypeInv, TypeOK, FlushStages
  <2>2. /\ stage = "write" /\ stage' # "write" /\ faults' = faults
        /\ \A c \in Copies : store'[c] = IF c = copy THEN ram ELSE store[c]
    BY <1>6, <1>t DEF FlushWrite, NextCopy
  <2> QED BY <1>t, <2>1, <2>2 DEF FaultInv, Valid
<1>7. CASE FlushFails
  BY <1>7, <1>f DEF FlushFails, NextCopy
<1>8. CASE FinishBoot
  BY <1>8, <1>q DEF FinishBoot, SocReset
<1>b. Stored # Corrupt => Stored \in Smd
  BY <1>t DEF Stored, Copies
<1>9. CASE UEConfirm
  <2>1. PICK r \in Restored : store' = [c \in Copies |-> Confirmed(Stored, BootedSlot, r)]
    BY <1>9 DEF UEConfirm
  <2>2. Confirmed(Stored, BootedSlot, r) \in Smd
    BY <1>9, <1>b, <1>t, ConfirmedType DEF UEConfirm, BootedSlot
  <2> QED BY <1>u, <2>1, <2>2
<1>10. CASE UESetActive
  <2>1. SetActiveSlot(Stored, Other(BootedSlot)) \in Smd
    BY <1>10, <1>b, <1>t, OtherSlot, SetActiveType DEF UESetActive, BootedSlot
  <2> QED BY <1>10, <1>u, <2>1 DEF UESetActive
<1>11. CASE KernelReset
  BY <1>11, <1>q DEF KernelReset, SocReset
<1>12. CASE Watchdog
  BY <1>12, <1>f DEF Watchdog, SocReset
<1>13. CASE PowerLoss
  BY <1>13, <1>f DEF PowerLoss, SocReset
<1>14. CASE PowerCycle
  BY <1>14, <1>q DEF PowerCycle, SocReset
<1>15. CASE UNCHANGED vars
  BY <1>15 DEF vars, FaultInv, Valid
<1> QED BY <1>1, <1>2, <1>3, <1>4, <1>5, <1>6, <1>7, <1>8, <1>9, <1>10, <1>11,
           <1>12, <1>13, <1>14, <1>15 DEF OtaNext, Next, Boot, Environment

\* flush_smd_bin_copy destroys a copy before it rewrites it, and yet after at
\* most one crash or failed flush a reader always finds a copy, also when reads
\* of the storage may fail and whatever updates are installed.
THEOREM OneFaultLeavesACopy == OtaSpec => []OneFaultTolerated
<1>1. Init => FaultInv
  BY InitialAssumption, SentinelAssumption DEF Init, FaultInv, Valid, Copies
<1>2. FaultInv => OneFaultTolerated
  BY DEF FaultInv, OneFaultTolerated, Stored, Valid, Copies
<1>3. OtaSpec => [](TypeInv /\ FaultInv)
  BY <1>1, InitType, NextType, NextFaultInv, PTL DEF OtaSpec
<1> QED BY <1>2, <1>3, PTL
=============================================================================
