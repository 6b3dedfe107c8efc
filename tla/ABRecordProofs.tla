--------------------------- MODULE ABRecordProofs ---------------------------
(***************************************************************************)
(* What a boot that reaches the kernel leaves on storage: the slot that    *)
(* the next power-on selects, the retries of the slot that was passed      *)
(* over, and the priorities that limit a slot to two tries.                *)
(***************************************************************************)
EXTENDS ABSlotProofs

(***************************************************************************)
(* The copies and the register.  They are versions of one another: they    *)
(* have the same shape, and retry counts that at most one boot separates.  *)
(***************************************************************************)
NonUser(m) == ~SupportRedundancyUser(m)

SameShape(a, b) ==
  /\ a.version = b.version /\ a.num_slots = b.num_slots
  /\ a.boot_successful = b.boot_successful
  /\ NonUser(a) => a.priority = b.priority

\* The retry counts r are m's, or come after m: the slot that m selects has
\* been used up, or retries were spent on it alone.
Agrees(r, m) ==
  \/ r = m.retry_count
  \/ \E s \in Slots : /\ IsActiveSlot(m, s)
                      /\ r[s] = 0 \/ r[Other(s)] = m.retry_count[Other(s)]

\* The same for a register with a selected slot: it is the slot that m selects,
\* or that one has been used up.
Tracks(r, m) ==
  \E s \in Slots :
    /\ IsActiveSlot(m, s)
    /\ IF r.slot = s THEN r.retry_count[Other(s)] = m.retry_count[Other(s)]
                     ELSE r.retry_count[s] = 0

CopiesInv ==
  /\ Valid("SMD") /\ Valid("SMD_b") =>
       /\ SameShape(store["SMD"], store["SMD_b"])
       /\ NonUser(store["SMD"]) => Agrees(store["SMD"].retry_count, store["SMD_b"])
  /\ \A c \in Copies : stage \in FlushStages /\ Valid(c) => SameShape(ram, store[c])
  /\ \A c \in Copies : Valid(c) /\ NonUser(store[c]) /\ sr.magic /\ stage # "halt" =>
       /\ Agrees(sr.retry_count, store[c])
       /\ stage \in SelectedStages => Tracks(sr, store[c])

LEMMA TracksAgrees ==
  ASSUME NEW r \in Reg, NEW m \in Smd, Tracks(r, m)
  PROVE  Agrees(r.retry_count, m)
BY Zenon DEF Tracks, Agrees

\* A retry given back to the selected slot changes none of the others.
LEMMA RestoreAgrees ==
  ASSUME NEW r \in Reg, NEW m \in Smd, Tracks(r, m),
         \A t \in Slots : t # r.slot => RestoreRetry(r).retry_count[t] = r.retry_count[t]
  PROVE  Agrees(RestoreRetry(r).retry_count, m)
<1>1. PICK s \in Slots :
        /\ IsActiveSlot(m, s)
        /\ IF r.slot = s THEN r.retry_count[Other(s)] = m.retry_count[Other(s)]
                         ELSE r.retry_count[s] = 0
  BY Zenon DEF Tracks
<1>2. Other(s) \in Slots /\ Other(s) # s
  BY OtherSlot, Zenon
<1> QED BY <1>1, <1>2, Zenon DEF Agrees

\* Selection depends on the slots, the priorities and the retry counts only.
LEMMA ActiveSame ==
  ASSUME NEW a, NEW b, NEW s \in Slots, a.num_slots = b.num_slots, a.priority = b.priority,
         a.retry_count = b.retry_count, IsActiveSlot(a, s)
  PROVE  IsActiveSlot(b, s)
BY Zenon DEF IsActiveSlot, Bootable

\* MB1 selects by retry counts that agree with a copy.
LEMMA PicksTracks ==
  ASSUME NEW m \in Smd, NEW x \in Smd, NEW reg \in Reg, NEW s \in Slots, sr' \in Reg,
         Picks(reg, m, s), m.num_slots = x.num_slots, m.priority = x.priority,
         Agrees(reg.retry_count, x)
  PROVE  Tracks(sr', x)
<1> DEFINE d == CopyRegToSmd(m, reg)
<1>0. /\ d.num_slots = x.num_slots /\ d.priority = x.priority
      /\ d.retry_count = reg.retry_count /\ d \in Smd
  BY CopyRegToSmdFields, CopyRegToSmdType, Zenon
<1>1. /\ IsActiveSlot(d, s) /\ sr'.slot = s
      /\ sr'.retry_count[Other(s)] = reg.retry_count[Other(s)]
  BY Zenon DEF Picks
<1> HIDE DEF d
<1>2. CASE reg.retry_count = x.retry_count
  <2>1. IsActiveSlot(x, s)
    BY <1>0, <1>1, <1>2, ActiveSame, Zenon
  <2> QED BY <1>1, <1>2, <2>1, Zenon DEF Tracks
<1>3. ASSUME NEW a \in Slots, IsActiveSlot(x, a),
             reg.retry_count[a] = 0 \/ reg.retry_count[Other(a)] = x.retry_count[Other(a)]
      PROVE  Tracks(sr', x)
  <2>1. CASE reg.retry_count[a] = 0
    <3>1. a # s
      BY <1>0, <1>1, <2>1, Zenon DEF IsActiveSlot, Bootable
    <3>2. a = Other(s)
      BY <3>1 DEF Slots, Other
    <3> QED BY <1>1, <1>3, <2>1, <3>1, <3>2, Zenon DEF Tracks
  <2>2. CASE reg.retry_count[Other(a)] = x.retry_count[Other(a)] /\ a = s
    BY <1>1, <1>3, <2>2, Zenon DEF Tracks
  <2>3. CASE /\ reg.retry_count[Other(a)] = x.retry_count[Other(a)] /\ a # s
             /\ reg.retry_count[a] # 0
    <3>1. s = Other(a) /\ Other(a) \in Slots /\ a \in {0, 1}
      BY <2>3 DEF Slots, Other
    <3>2. Bootable(d, a)
      BY <1>0, <1>3, <2>3, Zenon DEF IsActiveSlot, Bootable
    <3>3. Bootable(x, s)
      BY <1>0, <1>1, <2>3, <3>1, Zenon DEF IsActiveSlot, Bootable
    <3>4. /\ \/ x.priority[a] < x.priority[s]
             \/ x.priority[a] = x.priority[s] /\ s <= a
          /\ \/ x.priority[s] < x.priority[a]
             \/ x.priority[s] = x.priority[a] /\ a <= s
      BY <1>0, <1>1, <1>3, <3>2, <3>3, Zenon DEF IsActiveSlot
    <3>5. x.priority[a] \in 0..15 /\ x.priority[s] \in 0..15 /\ a \in 0..1 /\ s \in 0..1
      BY DEF Smd, Slots
    <3> QED BY <2>3, <3>4, <3>5
  <2> QED BY <1>3, <2>1, <2>2, <2>3, Zenon
<1> QED BY <1>2, <1>3, Zenon DEF Agrees

\* What a reader finds has the shape of every valid copy, and comes after it.
LEMMA CurrentCopies ==
  ASSUME TypeOK, CopiesInv, NEW c \in Copies, Valid(c)
  PROVE  /\ Current \in Smd /\ store[c] \in Smd /\ Current # NoSmd
         /\ SameShape(Current, store[c])
         /\ NonUser(store[c]) => /\ NonUser(Current) /\ Current.priority = store[c].priority
                                 /\ Agrees(Current.retry_count, store[c])
<1>1. Current \in Smd /\ store[c] \in Smd /\ Current # NoSmd
  BY CurrentFacts, SentinelAssumption, Zenon
<1>2. c = "SMD" \/ c = "SMD_b"
  BY Zenon DEF Copies
<1>3. CASE Current = store[c]
  BY <1>1, <1>3, Zenon DEF SameShape, Agrees
<1>4. CASE Current # store[c]
  <2>1. c = "SMD_b" /\ Current = store["SMD"] /\ Valid("SMD")
    BY <1>2, <1>4 DEF Current, Valid
  <2>2. SameShape(Current, store[c])
    BY <2>1, Zenon DEF CopiesInv
  <2>3. NonUser(store[c]) => NonUser(Current)
    BY <2>2, Zenon DEF SameShape, NonUser, SupportRedundancyUser
  <2> QED BY <1>1, <2>1, <2>2, <2>3, Zenon DEF CopiesInv, SameShape
<1> QED BY <1>3, <1>4, Zenon

LEMMA MB1CopiesInv ==
  ASSUME ~IoErrors, Inv, CopiesInv, MB1
  PROVE  CopiesInv'
<1>0. TypeOK /\ sr' \in Reg
  BY MB1Type, Zenon DEF Inv, TypeInv
<1>1. store' = store /\ stage = "mb1" /\ stage' \in {"halt", "load"}
  BY MB1Facts, Zenon
<1>2. ASSUME NEW c \in Copies, Valid(c), NonUser(store[c]), stage' = "load"
      PROVE  Tracks(sr', store[c]) /\ Agrees(sr'.retry_count, store[c])
  <2>1. /\ Current \in Smd /\ store[c] \in Smd /\ SameShape(Current, store[c])
        /\ Current.priority = store[c].priority /\ MB1Smd(Current) = Current
        /\ Agrees(Current.retry_count, store[c])
    BY <1>0, <1>2, CurrentCopies, Zenon DEF MB1Smd
  <2>2. PICK reg \in Reg, s \in Slots : Picks(reg, Current, s)
    BY <1>1, <1>2, <2>1, MB1Facts, Zenon
  <2>3. Agrees(reg.retry_count, store[c])
    BY <1>1, <1>2, <2>1, <2>2, Zenon DEF Picks, ReadFrom, CopiesInv
  <2>4. Tracks(sr', store[c])
    BY <1>0, <2>1, <2>2, <2>3, PicksTracks, Zenon DEF SameShape
  <2> QED BY <1>0, <2>1, <2>4, TracksAgrees, Zenon
<1>3. \A c \in Copies : store'[c] = store[c] /\ (Valid(c)' <=> Valid(c))
  BY <1>1, Zenon DEF Valid
<1>4. \A c \in Copies : Valid(c)' /\ NonUser(store[c])' /\ stage' = "load" =>
        Agrees(sr.retry_count, store[c])' /\ Tracks(sr, store[c])'
  BY <1>1, <1>2, <1>3 DEF NonUser, SupportRedundancyUser, Agrees, Tracks, IsActiveSlot, Bootable
<1>5. /\ SameShape(store["SMD"], store["SMD_b"])' <=> SameShape(store["SMD"], store["SMD_b"])
      /\ NonUser(store["SMD"])' <=> NonUser(store["SMD"])
      /\ Agrees(store["SMD"].retry_count, store["SMD_b"])' <=>
           Agrees(store["SMD"].retry_count, store["SMD_b"])
  BY <1>1, Zenon DEF SameShape, NonUser, SupportRedundancyUser, Agrees, IsActiveSlot, Bootable
<1>6. Valid("SMD")' = Valid("SMD") /\ Valid("SMD_b")' = Valid("SMD_b")
  BY <1>1, Zenon DEF Valid
<1> QED BY <1>1, <1>4, <1>5, <1>6, Zenon DEF CopiesInv, FlushStages

\* Steps that leave the copies alone, in terms of what they do to the register.
LEMMA StoreKept ==
  ASSUME CopiesInv, store' = store,
         \A c \in Copies : stage' \in FlushStages /\ Valid(c) => SameShape(ram', store[c]),
         \A c \in Copies : Valid(c) /\ NonUser(store[c]) /\ sr'.magic /\ stage' # "halt" =>
           /\ Agrees(sr'.retry_count, store[c])
           /\ stage' \in SelectedStages => Tracks(sr', store[c])
  PROVE  CopiesInv'
<1>1. \A c \in Copies : store'[c] = store[c] /\ (Valid(c)' <=> Valid(c))
  BY Zenon DEF Valid
<1>2. \A c \in Copies :
        /\ SameShape(ram, store[c])' <=> SameShape(ram', store[c])
        /\ NonUser(store[c])' <=> NonUser(store[c])
        /\ Agrees(sr.retry_count, store[c])' <=> Agrees(sr'.retry_count, store[c])
        /\ Tracks(sr, store[c])' <=> Tracks(sr', store[c])
  BY <1>1 DEF SameShape, NonUser, SupportRedundancyUser, Agrees, Tracks, IsActiveSlot, Bootable
<1>3. /\ SameShape(store["SMD"], store["SMD_b"])' <=> SameShape(store["SMD"], store["SMD_b"])
      /\ Agrees(store["SMD"].retry_count, store["SMD_b"])' <=>
           Agrees(store["SMD"].retry_count, store["SMD_b"])
  BY Zenon DEF SameShape, NonUser, SupportRedundancyUser, Agrees, IsActiveSlot, Bootable
<1>4. "SMD" \in Copies /\ "SMD_b" \in Copies
  BY Zenon DEF Copies
<1> QED BY <1>1, <1>2, <1>3, <1>4, Zenon DEF CopiesInv, FlushStages, SelectedStages

LEMMA UpdateCopiesInv ==
  ASSUME ~IoErrors, Inv, FlushInv, CopiesInv, UpdateSmd
  PROVE  CopiesInv'
<1>0. TypeOK /\ sr \in Reg /\ \A t \in Slots : sr.retry_count[t] <= SLOT_RETRY_COUNT_DEFAULT
  BY Zenon DEF Inv, TypeInv, TypeOK, RangeInv
<1>1. /\ store' = store /\ stage = "update" /\ sr.magic
      /\ NothingToRecord \/ KeepsStoredSlot \/ RestoresRetry \/ RecordsRetries
  <2>1. sr.magic
    BY Zenon DEF FlushInv, UpdateSmd, BootStages
  <2> QED BY <2>1, UpdateFacts, Zenon
<1>2. \A c \in Copies : Valid(c) /\ NonUser(store[c]) =>
        Agrees(sr.retry_count, store[c]) /\ Tracks(sr, store[c])
  BY <1>1, Zenon DEF CopiesInv, SelectedStages
<1>3. CASE NothingToRecord \/ KeepsStoredSlot
  <2>1. stage' = "clear" /\ sr' = sr
    BY <1>3, Zenon DEF NothingToRecord, KeepsStoredSlot
  <2> QED BY <1>1, <1>2, <2>1, StoreKept, Zenon DEF FlushStages, SelectedStages
<1>4. CASE RestoresRetry \/ RecordsRetries
  <2>0. stage' = "begin"
    BY <1>4, Zenon DEF RestoresRetry, RecordsRetries
  <2>1. /\ stage' = "begin" /\ SelectedBy(sr, Current)
        /\ ram'.version = Current.version /\ ram'.num_slots = Current.num_slots
        /\ ram'.boot_successful = Current.boot_successful
        /\ NonUser(Current) => ram'.priority = Current.priority
    BY <1>1, <1>4, <2>0, UpdateRam, Zenon DEF NonUser
  <2>2. ASSUME NEW c \in Copies, Valid(c)
        PROVE  SameShape(ram', store[c])
    <3>1. SameShape(Current, store[c])
      BY <1>0, <2>2, CurrentCopies, Zenon
    <3> QED BY <2>1, <3>1, Zenon DEF SameShape, NonUser, SupportRedundancyUser
  <2>3. ASSUME NEW c \in Copies, Valid(c), NonUser(store[c])
        PROVE  Agrees(sr'.retry_count, store[c])
    <3>1. CASE sr' = sr
      BY <1>2, <2>3, <3>1, Zenon
    <3>2. CASE RestoresRetry
      <4>1. SupportRedundancy(Current) /\ sr' = RestoreRetry(sr)
        BY <3>2, Zenon DEF RestoresRetry, RedundantBoot
      <4>2. \A t \in Slots : t # sr.slot => RestoreRetry(sr).retry_count[t] = sr.retry_count[t]
        BY <1>0, <2>1, <4>1, RestoreRetryRange, Zenon DEF SelectedBy
      <4>3. store[c] \in Smd
        BY <1>0, <2>3, CurrentFacts
      <4> QED BY <1>0, <1>2, <2>3, <4>1, <4>2, <4>3, RestoreAgrees, Zenon
    <3> QED BY <1>4, <3>1, <3>2, Zenon DEF RecordsRetries
  <2> QED BY <1>1, <2>1, <2>2, <2>3, StoreKept, Zenon DEF SelectedStages
<1> QED BY <1>1, <1>3, <1>4, Zenon

LEMMA NextCopiesInv ==
  ASSUME ~IoErrors
  PROVE  Inv /\ FlushInv /\ CopiesInv /\ [OtaNext]_vars => CopiesInv'
<1> SUFFICES ASSUME Inv, FlushInv, CopiesInv, [OtaNext]_vars PROVE CopiesInv'
  OBVIOUS
<1>t. /\ TypeOK /\ store \in [Copies -> Smd \cup {Corrupt}] /\ copy \in Copies
      /\ "SMD" \in Copies /\ "SMD_b" \in Copies
  BY Zenon DEF Inv, TypeInv, TypeOK, Copies
<1>r. ASSUME store' = store, stage' \notin FlushStages, stage' \notin SelectedStages,
             ~sr'.magic \/ (sr' = sr /\ stage # "halt")
      PROVE  CopiesInv'
  <2>1. \A c \in Copies : Valid(c) /\ NonUser(store[c]) /\ sr'.magic => Agrees(sr'.retry_count, store[c])
    BY <1>r, Zenon DEF CopiesInv
  <2> QED BY <1>r, <2>1, StoreKept, Zenon
<1>u. ASSUME NEW x, store' = [c \in Copies |-> x], ~sr'.magic, stage' = "running"
      PROVE  CopiesInv'
  <2>1. store'["SMD"] = x /\ store'["SMD_b"] = x
    BY <1>t, <1>u, Zenon
  <2>2. SameShape(store["SMD"], store["SMD_b"])' /\ Agrees(store["SMD"].retry_count, store["SMD_b"])'
    BY <2>1, Zenon DEF SameShape, Agrees
  <2> QED BY <1>u, <2>2, Zenon DEF CopiesInv, FlushStages
<1>1. CASE MB1
  BY <1>1, MB1CopiesInv, Zenon
<1>2. CASE LoadKernel
  <2>1. store' = store /\ sr' = sr /\ stage = "load" /\ stage' = "update"
    BY <1>2, Zenon DEF LoadKernel
  <2>2. \A c \in Copies : Valid(c) /\ NonUser(store[c]) /\ sr'.magic =>
          Agrees(sr'.retry_count, store[c]) /\ Tracks(sr', store[c])
    BY <2>1, Zenon DEF CopiesInv, SelectedStages
  <2> QED BY <2>1, <2>2, StoreKept, Zenon DEF FlushStages
<1>3. CASE UpdateSmd
  BY <1>3, UpdateCopiesInv, Zenon
<1>4. CASE FlushBegin
  <2>1. /\ UNCHANGED <<sr, ram>> /\ stage = "begin" /\ stage' = "write"
        /\ \A c \in Copies : Valid(c)' => Valid(c) /\ store'[c] = store[c]
    BY <1>4, <1>t, Zenon DEF FlushBegin, Valid
  <2>2. \A c \in Copies : Valid(c)' =>
        /\ SameShape(ram, store[c])' <=> SameShape(ram, store[c])
        /\ NonUser(store[c])' <=> NonUser(store[c])
        /\ Agrees(sr.retry_count, store[c])' <=> Agrees(sr.retry_count, store[c])
    BY <2>1 DEF SameShape, NonUser, SupportRedundancyUser, Agrees, IsActiveSlot, Bootable
  <2>3. ~Valid("SMD")' \/ ~Valid("SMD_b")'
    BY <1>4, <1>t, Zenon DEF FlushBegin, Valid, Copies
  <2> QED BY <2>1, <2>2, <2>3, Zenon DEF CopiesInv, FlushStages, SelectedStages
<1>5. CASE FlushWrite
  <2>1. /\ UNCHANGED <<sr, ram>> /\ stage = "write" /\ stage' \in {"begin", "flushed"}
        /\ \A c \in Copies : store'[c] = IF c = copy THEN ram ELSE store[c]
    BY <1>5, <1>t, Zenon DEF FlushWrite, NextCopy
  <2>2. ram.retry_count = sr.retry_count /\ (copy = "SMD_b" => store["SMD"] = ram) /\ sr.magic
    BY <2>1, Zenon DEF FlushInv, FlushStages, BootStages
  <2>3. ASSUME NEW c \in Copies, Valid(c)'
        PROVE  /\ SameShape(ram, store[c])'
               /\ NonUser(store[c])' => Agrees(sr.retry_count, store[c])'
    <3>1. CASE store'[c] = ram
      BY <2>1, <2>2, <3>1, Zenon DEF SameShape, Agrees
    <3>2. CASE store'[c] # ram
      <4>1. store'[c] = store[c] /\ Valid(c)
        BY <2>1, <2>3, <3>2, Zenon DEF Valid
      <4>2. /\ SameShape(ram, store[c])
            /\ NonUser(store[c]) => Agrees(sr.retry_count, store[c])
        BY <2>1, <2>2, <4>1, Zenon DEF CopiesInv, FlushStages
      <4> QED BY <2>1, <4>1, <4>2
           DEF SameShape, NonUser, SupportRedundancyUser, Agrees, IsActiveSlot, Bootable
    <3> QED BY <3>1, <3>2, Zenon
  <2>4. store'["SMD"] = ram
    BY <1>t, <2>1, <2>2, Zenon DEF Copies
  <2>5. Valid("SMD_b")' => /\ SameShape(store["SMD"], store["SMD_b"])'
                           /\ NonUser(store["SMD"])' => Agrees(store["SMD"].retry_count, store["SMD_b"])'
    BY <1>t, <2>1, <2>2, <2>3, <2>4
       DEF SameShape, NonUser, SupportRedundancyUser, Agrees, IsActiveSlot, Bootable
  <2> QED BY <2>1, <2>3, <2>5, Zenon DEF CopiesInv, FlushStages, SelectedStages
<1>6. CASE FinishBoot
  <2>1. store' = store /\ ~sr'.magic /\ stage' \in {"kernel", "mb1"}
    BY <1>6, Zenon DEF FinishBoot, SocReset, ClearReg, ClearedReg, EmptyReg
  <2> QED BY <1>r, <2>1, Zenon DEF FlushStages, SelectedStages
<1>7. CASE UEConfirm
  BY <1>7, <1>u, Zenon DEF UEConfirm, FlushInv
<1>8. CASE UESetActive
  BY <1>8, <1>u, Zenon DEF UESetActive, FlushInv
<1>9. CASE ResetStep
  BY <1>9, <1>r DEF ResetStep, SocReset, ClearedReg, EmptyReg, FlushStages, SelectedStages
<1>10. CASE UNCHANGED vars
  <2>1. UNCHANGED <<store, stage, sr, ram>>
    BY <1>10, Zenon DEF vars
  <2> QED BY <2>1, StoreKept, Zenon DEF CopiesInv
<1> QED BY <1>1, <1>2, <1>3, <1>4, <1>5, <1>6, <1>7, <1>8, <1>9, <1>10, StepKinds, Zenon

-----------------------------------------------------------------------------
(***************************************************************************)
(* The slot of the next boot.  A register that asks for no record of the   *)
(* boot has the retry counts of the metadata; a record keeps the confirmed *)
(* slot that was booted selected.                                          *)
(***************************************************************************)
OffInv ==
  sr.magic /\ sr.flag = "OTA_OFF" /\ stage # "halt" /\ Current # NoSmd =>
    sr.retry_count = Current.retry_count

LEMMA NextOffInv ==
  ASSUME ~IoErrors
  PROVE  Inv /\ FlushInv /\ OffInv /\ [OtaNext]_vars => OffInv'
<1> SUFFICES ASSUME Inv, FlushInv, OffInv, [OtaNext]_vars,
                    sr'.magic, sr'.flag = "OTA_OFF", stage' # "halt", Current' # NoSmd
             PROVE  OffInv'
  BY Zenon DEF OffInv
<1>t. TypeOK
  BY Zenon DEF Inv, TypeInv
<1>1. CASE MB1
  <2>1. stage = "mb1" /\ stage' = "load" /\ Current' = Current
    BY <1>1, MB1Facts, Zenon DEF Current
  <2>2. Current \in Smd /\ MB1Smd(Current) = Current
    BY <1>t, <2>1, CurrentFacts, Zenon DEF MB1Smd
  <2>3. PICK reg \in Reg, s \in Slots : Picks(reg, Current, s)
    BY <1>1, <2>1, <2>2, MB1Facts, Zenon
  <2>4. /\ Current.boot_successful[s] /\ ~SupportRedundancy(Current)
        /\ reg.flag = "OTA_OFF"
    BY <2>3, Zenon DEF Picks, UpdateFlag
  <2>5. reg.retry_count = Current.retry_count
    BY <2>1, <2>3, <2>4, Zenon DEF Picks, ReadFrom, OffInv
  <2>6. /\ sr'.retry_count[s] = reg.retry_count[s]
        /\ sr'.retry_count[Other(s)] = reg.retry_count[Other(s)]
    BY <2>3, <2>4, Zenon DEF Picks, SpendsRetry
  <2>7. sr'.retry_count \in [Slots -> 0..15] /\ Current.retry_count \in [Slots -> 0..15]
    BY <1>1, <1>t, <2>2, MB1Type, Zenon DEF Reg, Smd
  <2>8. \A t \in Slots : t = s \/ t = Other(s)
    BY DEF Slots, Other
  <2> QED BY <2>1, <2>5, <2>6, <2>7, <2>8 DEF OffInv
<1>2. CASE UpdateSmd
  <2>1. stage = "update" /\ sr.magic /\ Current' = Current
    BY <1>2, Zenon DEF UpdateSmd, FlushInv, BootStages, Current
  <2>2. NothingToRecord \/ KeepsStoredSlot \/ RestoresRetry \/ RecordsRetries
    BY <1>2, <2>1, UpdateFacts, Zenon
  <2>3. sr' = sr
    <3>1. RestoresRetry => sr'.flag = sr.flag /\ sr.flag # "OTA_OFF"
      BY <1>t, RestoreRetryFields, Zenon DEF RestoresRetry, RedundantBoot, TypeOK
    <3> QED BY <2>2, <3>1, Zenon DEF NothingToRecord, KeepsStoredSlot, RecordsRetries
  <2> QED BY <2>1, <2>3, Zenon DEF OffInv
<1>3. CASE FlushBegin \/ FlushWrite
  BY <1>3, Zenon DEF FlushBegin, FlushWrite, NextCopy, FlushInv, FlushStages
<1>4. CASE FinishBoot
  BY <1>4, Zenon DEF FinishBoot, ClearReg, ClearedReg, EmptyReg
<1>5. CASE UEConfirm \/ UESetActive
  BY <1>5, Zenon DEF UEConfirm, UESetActive, FlushInv
<1>6. CASE LoadKernel \/ ResetStep \/ UNCHANGED vars
  <2>1. store' = store /\ (~sr'.magic \/ (sr' = sr /\ stage # "halt"))
    BY <1>6 DEF LoadKernel, ResetStep, vars, ClearedReg, EmptyReg
  <2> QED BY <2>1, Zenon DEF OffInv, Current
<1> QED BY <1>1, <1>2, <1>3, <1>4, <1>5, <1>6, StepKinds, Zenon

Keeps(m) == SupportRedundancy(m) /\ NonUser(m) /\ m.boot_successful[sr.slot] =>
              IsActiveSlot(m, sr.slot)

DoneInv ==
  /\ stage \in FlushStages => Keeps(ram)
  /\ stage = "clear" /\ Current # NoSmd =>
       /\ Keeps(Current)
       /\ sr.retry_count[Other(sr.slot)] = Current.retry_count[Other(sr.slot)]
  /\ NextBootKeepsSlot

\* tegrabl_a_b_update_smd keeps the booted slot selected.
LEMMA UpdateDoneInv ==
  ASSUME ~IoErrors, Inv, FlushInv, FlagInv, CopiesInv, OffInv, UpdateSmd
  PROVE  DoneInv'
<1>0. TypeOK /\ sr \in Reg /\ sr.slot \in Slots
  BY Zenon DEF Inv, TypeInv, TypeOK, Reg
<1>1. /\ stage = "update" /\ sr.magic /\ Current' = Current
      /\ NothingToRecord \/ KeepsStoredSlot \/ RestoresRetry \/ RecordsRetries
  <2>1. sr.magic
    BY Zenon DEF FlushInv, UpdateSmd, BootStages
  <2> QED BY <2>1, UpdateFacts, Zenon DEF Current
<1>2. Current # NoSmd =>
        /\ Current \in Smd
        /\ Current.boot_successful[sr.slot] /\ SupportRedundancy(Current) =>
             /\ sr.flag = "REDUNDANCY_BOOT"
             /\ IsActiveSlot(CopyRegToSmd(Current, RestoreRetry(sr)), sr.slot)
  BY <1>0, <1>1, CurrentFacts, Zenon DEF FlagInv, SelectedStages
<1>3. CASE NothingToRecord \/ KeepsStoredSlot
  <2>1. stage' = "clear" /\ sr' = sr
    BY <1>3, Zenon DEF NothingToRecord, KeepsStoredSlot
  <2>2. ASSUME Current # NoSmd
        PROVE  /\ Keeps(Current)
               /\ sr.retry_count[Other(sr.slot)] = Current.retry_count[Other(sr.slot)]
    <3>1. CASE NothingToRecord
      <4>1. sr.flag = "OTA_OFF"
        BY <2>2, <3>1, Zenon DEF NothingToRecord
      <4>2. sr.retry_count = Current.retry_count
        BY <1>1, <2>2, <4>1, Zenon DEF OffInv
      <4> QED BY <1>2, <2>2, <4>1, <4>2, Zenon DEF Keeps
    <3>2. CASE KeepsStoredSlot
      <4>1. PICK c \in Copies : Valid(c) /\ Current = store[c]
        BY <1>0, <2>2, CurrentFacts, Zenon
      <4>2. NonUser(Current) /\ (NoBootableSlot(Current) \/ IsActiveSlot(Current, sr.slot))
        BY <3>2, Zenon DEF KeepsStoredSlot, NonUser
      <4>3. Tracks(sr, Current)
        BY <1>1, <4>1, <4>2, Zenon DEF CopiesInv, SelectedStages
      <4>4. PICK s \in Slots :
              /\ IsActiveSlot(Current, s)
              /\ IF sr.slot = s THEN sr.retry_count[Other(s)] = Current.retry_count[Other(s)]
                                ELSE sr.retry_count[s] = 0
        BY <4>3, Zenon DEF Tracks
      <4>5. IsActiveSlot(Current, sr.slot)
        BY <4>2, <4>4 DEF NoBootableSlot, IsActiveSlot
      <4>6. s = sr.slot
        BY <1>0, <1>2, <2>2, <4>4, <4>5, ActiveUnique, Zenon
      <4> QED BY <4>4, <4>5, <4>6, Zenon DEF Keeps
    <3> QED BY <1>3, <3>1, <3>2, Zenon
  <2>3. Current # NoSmd => Keeps(Current)'
    BY <1>1, <2>1, <2>2, Zenon
       DEF Keeps, SupportRedundancy, NonUser, SupportRedundancyUser, IsActiveSlot, Bootable
  <2> QED BY <1>1, <2>1, <2>2, <2>3, Zenon DEF DoneInv, FlushStages, NextBootKeepsSlot
<1>4. CASE RestoresRetry \/ RecordsRetries
  <2>1. stage' = "begin" /\ Current # NoSmd
    BY <1>4, Zenon DEF RestoresRetry, RecordsRetries, RedundantBoot
  <2>2. /\ ram'.version = Current.version /\ ram'.boot_successful = Current.boot_successful
        /\ sr'.slot = sr.slot
    BY <1>1, <1>4, UpdateRam, Zenon
  <2>3. ASSUME SupportRedundancy(ram'), NonUser(ram'), ram'.boot_successful[sr'.slot]
        PROVE  IsActiveSlot(ram', sr'.slot)
    <3>1. SupportRedundancy(Current) /\ NonUser(Current) /\ Current.boot_successful[sr.slot]
      BY <2>2, <2>3, Zenon DEF SupportRedundancy, NonUser, SupportRedundancyUser
    <3>2. sr.flag = "REDUNDANCY_BOOT" /\ IsActiveSlot(CopyRegToSmd(Current, RestoreRetry(sr)), sr.slot)
      BY <1>2, <2>1, <3>1, Zenon
    <3>3. RestoresRetry
      BY <1>4, <3>1, <3>2, Zenon DEF RecordsRetries
    <3>4. ram' = CopyRegToSmd(Current, RestoreRetry(sr))
      BY <3>1, <3>3, Zenon DEF RestoresRetry, NonUser
    <3> QED BY <2>2, <3>2, <3>4, Zenon
  <2>4. Keeps(ram)'
    BY <2>3, Zenon DEF Keeps, SupportRedundancy, NonUser, SupportRedundancyUser, IsActiveSlot, Bootable
  <2> QED BY <2>1, <2>4, Zenon DEF DoneInv, NextBootKeepsSlot
<1> QED BY <1>1, <1>3, <1>4, Zenon

\* Both ends of tegrabl_a_b_update_smd, with the record on storage.
LEMMA RecordStored ==
  ASSUME ~IoErrors, Inv, FlushInv, DoneInv, stage \in {"flushed", "clear"}, Stored # Corrupt
  PROVE  /\ Keeps(Stored)
         /\ sr.retry_count[Other(sr.slot)] = Stored.retry_count[Other(sr.slot)]
<1>0. TypeOK /\ sr.slot \in Slots
  BY Zenon DEF Inv, TypeInv, TypeOK, Reg
<1>1. CASE stage = "flushed"
  <2>1. store["SMD"] = ram /\ store["SMD_b"] = ram
    BY <1>1, Zenon DEF FlushInv, Copies
  <2>2. Stored = ram /\ ram.retry_count = sr.retry_count /\ Keeps(ram)
    BY <1>1, <2>1, Zenon DEF Stored, FlushInv, DoneInv, FlushStages
  <2> QED BY <2>2, Zenon
<1>2. CASE stage = "clear"
  <2>1. Current # NoSmd /\ Stored = Current
    BY <1>0, CurrentFacts, Zenon
  <2> QED BY <1>2, <2>1, Zenon DEF DoneInv
<1> QED BY <1>1, <1>2, Zenon

LEMMA NextDoneInv ==
  ASSUME ~IoErrors
  PROVE  /\ Inv /\ FlushInv /\ FlagInv /\ CopiesInv /\ OffInv /\ DoneInv /\ [OtaNext]_vars
         => DoneInv'
<1> SUFFICES ASSUME Inv, FlushInv, FlagInv, CopiesInv, OffInv, DoneInv, [OtaNext]_vars
             PROVE  DoneInv'
  OBVIOUS
<1> USE DEF FlushStages
<1>q. ASSUME stage' \notin FlushStages \cup {"clear", "kernel"}
      PROVE  DoneInv'
  BY <1>q, Zenon DEF DoneInv, NextBootKeepsSlot
<1>1. CASE UpdateSmd
  BY <1>1, UpdateDoneInv, Zenon
<1>2. CASE FlushBegin \/ FlushWrite
  <2>1. UNCHANGED <<sr, ram>> /\ stage \in FlushStages /\ stage' \in FlushStages
    BY <1>2, Zenon DEF FlushBegin, FlushWrite, NextCopy
  <2>2. Keeps(ram)'
    BY <2>1, Zenon DEF DoneInv, Keeps, SupportRedundancy, NonUser, SupportRedundancyUser,
                IsActiveSlot, Bootable
  <2> QED BY <2>1, <2>2, Zenon DEF DoneInv, NextBootKeepsSlot
<1>3. CASE FinishBoot /\ stage' = "kernel"
  <2>1. /\ stage \in {"flushed", "clear"} /\ Stored' = Stored /\ tries.slot = sr.slot
        /\ tries'.slot = tries.slot
    BY <1>3, Zenon DEF FinishBoot, Stored, FlushInv, BootStages, CountTries, Inv, TypeInv, TypeOK
  <2>2. Stored # Corrupt => Keeps(Stored)
    BY <2>1, RecordStored, Zenon
  <2>3. NextBootKeepsSlot'
    BY <2>1, <2>2, Zenon DEF NextBootKeepsSlot, BootedSlot, Keeps, SupportRedundancy, NonUser,
                      SupportRedundancyUser, IsActiveSlot, Bootable
  <2> QED BY <1>3, <2>3, Zenon DEF DoneInv
<1>4. CASE UNCHANGED vars
  <2>1. UNCHANGED <<stage, sr, ram, tries>> /\ Current' = Current /\ Stored' = Stored
    BY <1>4, Zenon DEF vars, Current, Stored
  <2>2. (Keeps(ram)' <=> Keeps(ram)) /\ (Keeps(Current)' <=> Keeps(Current))
    BY <2>1, Zenon DEF Keeps, SupportRedundancy, NonUser, SupportRedundancyUser, IsActiveSlot, Bootable
  <2>3. NextBootKeepsSlot' <=> NextBootKeepsSlot
    BY <2>1, Zenon DEF NextBootKeepsSlot, BootedSlot, SupportRedundancy, SupportRedundancyUser,
                IsActiveSlot, Bootable
  <2> QED BY <2>1, <2>2, <2>3, Zenon DEF DoneInv
<1>5. CASE MB1 \/ LoadKernel \/ UEConfirm \/ UESetActive \/ ResetStep \/ (FinishBoot /\ stage' # "kernel")
  BY <1>5, <1>q, Zenon DEF MB1, LoadKernel, UEConfirm, UESetActive, ResetStep, FinishBoot, SocReset
<1> QED BY <1>1, <1>2, <1>3, <1>4, <1>5, StepKinds, Zenon

LEMMA DoneInvHolds ==
  ASSUME ~IoErrors
  PROVE  OtaSpec => [](Inv /\ FlushInv /\ FlagInv /\ CopiesInv /\ OffInv /\ DoneInv)
<1>1. Init => CopiesInv /\ OffInv /\ DoneInv
  <2> SUFFICES ASSUME Init PROVE CopiesInv /\ OffInv /\ DoneInv
    OBVIOUS
  <2>1. stage = "mb1" /\ ~sr.magic /\ store["SMD"] = store["SMD_b"]
    BY Zenon DEF Init, ClearedReg, EmptyReg, Copies
  <2> QED BY <2>1, Zenon DEF CopiesInv, SameShape, Agrees, OffInv, DoneInv, FlushStages, NextBootKeepsSlot
<1>2. Init => Inv /\ FlushInv /\ FlagInv
  BY InitInv, InitFlushInv, Zenon DEF Init, FlagInv, SelectedStages
<1>3. Inv /\ FlushInv /\ FlagInv /\ CopiesInv /\ OffInv /\ DoneInv /\ [OtaNext]_vars
      => (Inv /\ FlushInv /\ FlagInv /\ CopiesInv /\ OffInv /\ DoneInv)'
  BY NextInv, NextFlushInv, NextFlagInv, NextCopiesInv, NextOffInv, NextDoneInv, Zenon
<1> QED BY <1>1, <1>2, <1>3, PTL DEF OtaSpec

\* With reliable storage and redundancy for the bootloader only, the confirmed
\* slot that reached the kernel is the one that the metadata selects on the
\* next power-on, wherever earlier boots were interrupted:
\* check_non_user_redundancy_status records a failover before the register,
\* which alone knew of it, is cleared.
THEOREM KernelSlotIsKept ==
  ASSUME ~IoErrors
  PROVE  OtaSpec => []NextBootKeepsSlot
<1>1. DoneInv => NextBootKeepsSlot
  BY Zenon DEF DoneInv
<1> QED BY <1>1, DoneInvHolds, PTL

\* With reliable storage a slot whose retries are used up in the register has
\* none on storage either when the kernel is entered: tegrabl_a_b_update_smd
\* clears the register only when the metadata says the same.
THEOREM ExhaustedSlotIsRecorded ==
  ASSUME ~IoErrors
  PROVE  OtaSpec => ExhaustedStaysExhausted
<1> DEFINE A == stage' = "kernel" /\ stage # "kernel" /\ sr.retry_count[Other(sr.slot)] = 0
                => Stored = Corrupt \/ Stored.retry_count[Other(sr.slot)] = 0
<1>1. Inv /\ FlushInv /\ DoneInv /\ [OtaNext]_vars => [A]_vars
  <2> SUFFICES ASSUME Inv, FlushInv, DoneInv, [OtaNext]_vars, stage' = "kernel", stage # "kernel",
                      sr.retry_count[Other(sr.slot)] = 0, Stored # Corrupt
               PROVE  Stored.retry_count[Other(sr.slot)] = 0
    OBVIOUS
  <2>1. stage \in {"flushed", "clear"}
    <3>1. ~(MB1 \/ LoadKernel \/ UEConfirm \/ UESetActive \/ ResetStep \/ UNCHANGED vars)
      BY Zenon DEF MB1, LoadKernel, UEConfirm, UESetActive, ResetStep, SocReset, vars
    <3>2. ~(UpdateSmd \/ FlushBegin \/ FlushWrite)
      BY UpdateSmdType, Zenon DEF Inv, TypeInv, FlushBegin, FlushWrite, NextCopy
    <3> QED BY <3>1, <3>2, StepKinds, Zenon DEF FinishBoot
  <2> QED BY <2>1, RecordStored, Zenon
<1> QED BY <1>1, DoneInvHolds, PTL DEF OtaSpec, ExhaustedStaysExhausted

-----------------------------------------------------------------------------
(***************************************************************************)
(* Two tries.  After n unconfirmed boots of a slot in a row the priorities *)
(* have come so far down the path of rotate_slots_priority; at the end of  *)
(* it the other slot is preferred.                                         *)
(***************************************************************************)
PrioOK(m, slot, n) ==
  LET a == m.priority[0]
      b == m.priority[1]
  IN  /\ b # 0 => a <= b + 1
      /\ a # 0 /\ b # 0 /\ slot = 0 => (n >= 1 => a <= b) /\ (n >= 2 => a < b)
      /\ a # 0 /\ b # 0 /\ slot = 1 => /\ n >= 1 => a = b + 1 \/ b = a + 2
                                       /\ n >= 2 => a = b + 1

\* The boot whose outcome is being flushed rotated the priorities.
Rotates == /\ sr.flag = "REDUNDANCY_BOOT"
           /\ SupportRedundancy(ram) /\ SupportRedundancyUser(ram) /\ BothBootable(ram, sr)

TriesInv ==
  /\ tries.n <= 2
  /\ \A c \in Copies : Valid(c) => PrioOK(store[c], tries.slot, tries.n)
  /\ stage \in FlushStages =>
       /\ PrioOK(ram, tries.slot, tries.n)
       /\ Rotates => tries.n < 2 /\ PrioOK(ram, tries.slot, tries.n + 1)

LEMMA FewerTries ==
  ASSUME NEW m, NEW s, NEW n \in Nat, PrioOK(m, s, n)
  PROVE  \A t : PrioOK(m, t, 0)
BY DEF PrioOK

LEMMA RotationLimit ==
  ASSUME NEW m \in Smd, NEW r \in Reg, NEW n \in Nat, RangeOK(m), m.num_slots = 2,
         SelectedBy(r, m), BothBootable(m, r), m.priority[r.slot] >= m.priority[Other(r.slot)],
         PrioOK(m, r.slot, n)
  PROVE  /\ n < 2
         /\ PrioOK(RotateSlotsPriority(m, r.slot), r.slot, n)
         /\ PrioOK(RotateSlotsPriority(m, r.slot), r.slot, n + 1)
<1> DEFINE R == RotateSlotsPriority(m, r.slot)
           a == m.priority[0]
           b == m.priority[1]
           x == R.priority[0]
           y == R.priority[1]
<1>1. r.slot \in Slots /\ a \in 0..15 /\ b \in 0..15
  BY Zenon DEF Reg, Smd, Slots
<1>2. /\ SameButPriority(R, m)
      /\ r.slot = 0 /\ a <= b + 1 => x <= y
      /\ r.slot = 0 /\ a <= b => x < y
      /\ r.slot = 1 => x = y + 1 \/ (y = x + 2 /\ b = a + 1)
  BY <1>1, RotateFacts, Zenon DEF BothBootable, RangeOK
<1>3. x \in 0..15 /\ y \in 0..15
  BY <1>2, Zenon DEF SameButPriority, Smd, Slots
<1>4. a # 0 /\ b # 0
  BY <1>1 DEF BothBootable, Slots, Other
<1>5. IF r.slot = 0 THEN a >= b ELSE b > a
  BY <1>1, <1>4, Zenon DEF SelectedBy, BothBootable, Slots, Other
<1>6. /\ a <= b + 1
      /\ r.slot = 0 => (n >= 1 => a <= b) /\ (n >= 2 => a < b)
      /\ r.slot = 1 => (n >= 1 => a = b + 1 \/ b = a + 2) /\ (n >= 2 => a = b + 1)
  BY <1>4, Zenon DEF PrioOK
<1> HIDE DEF R, a, b, x, y
<1>7. n < 2
  BY <1>1, <1>5, <1>6 DEF Slots
<1>8. CASE r.slot = 0
  <2>1. x <= y /\ (n >= 1 => x < y)
    BY <1>1, <1>2, <1>6, <1>8, Zenon
  <2> QED BY <1>3, <1>7, <1>8, <2>1 DEF PrioOK, R, x, y
<1>9. CASE r.slot = 1
  <2>1. /\ x = y + 1 \/ y = x + 2
        /\ n >= 1 => x = y + 1
    BY <1>1, <1>2, <1>5, <1>6, <1>7, <1>9
  <2> QED BY <1>3, <1>7, <1>9, <2>1 DEF PrioOK, R, x, y
<1> QED BY <1>1, <1>8, <1>9, Zenon DEF Slots

\* tegrabl_a_b_update_smd rotates at most twice for a slot.
LEMMA UpdateTriesInv ==
  ASSUME ~IoErrors, Inv, FlushInv, TriesInv, UpdateSmd
  PROVE  TriesInv'
<1>0. TypeOK /\ sr \in Reg /\ sr.slot \in Slots /\ Other(sr.slot) \in Slots /\ tries.n \in Nat
  BY OtherSlot DEF Inv, TypeInv, TypeOK, Reg
<1>1. /\ UNCHANGED <<store, tries>> /\ stage = "update" /\ tries.slot = sr.slot
      /\ NothingToRecord \/ KeepsStoredSlot \/ RestoresRetry \/ RecordsRetries
  <2>1. sr.magic /\ tries.slot = sr.slot
    BY Zenon DEF FlushInv, UpdateSmd, BootStages
  <2> QED BY <2>1, UpdateFacts, Zenon
<1>2. CASE NothingToRecord \/ KeepsStoredSlot
  BY <1>1, <1>2, Zenon DEF NothingToRecord, KeepsStoredSlot, TriesInv, Valid, PrioOK, FlushStages
<1>3. CASE RestoresRetry \/ RecordsRetries
  <2>1. stage' = "begin" /\ Current # NoSmd
    BY <1>3, Zenon DEF RestoresRetry, RecordsRetries, RedundantBoot
  <2>2. PICK c \in Copies : Valid(c) /\ Current = store[c]
    BY <1>0, <2>1, CurrentFacts, Zenon
  <2>3. Current \in Smd /\ RangeOK(Current) /\ PrioOK(Current, sr.slot, tries.n)
    BY <1>0, <1>1, <2>1, <2>2, CurrentFacts, Zenon DEF Inv, RangeInv, TriesInv, Valid
  <2>4. /\ SelectedBy(sr, Current) /\ ram'.version = Current.version
        /\ sr'.slot = sr.slot /\ sr' \in Reg
    BY <1>1, <1>3, UpdateRam, Zenon
  <2>5. ASSUME ram' = CopyRegToSmd(Current, sr'), ~Rotates'
        PROVE  TriesInv'
    <3>1. ram'.priority = Current.priority
      BY <2>3, <2>4, <2>5, CopyRegToSmdFields, Zenon
    <3> QED BY <1>1, <2>3, <2>5, <3>1, Zenon DEF TriesInv, PrioOK, Valid
  <2>6. CASE RecordsRetries
    <3>1. ~Rotates'
      BY <2>4, <2>6, Zenon DEF RecordsRetries, Rotates, SupportRedundancy
    <3> QED BY <2>5, <2>6, <3>1, Zenon DEF RecordsRetries
  <2>7. CASE RestoresRetry /\ ~SupportRedundancyUser(Current)
    <3>1. ~Rotates'
      BY <2>4, <2>7, Zenon DEF Rotates, SupportRedundancyUser
    <3> QED BY <2>5, <2>7, <3>1, Zenon DEF RestoresRetry
  <2>8. CASE RestoresRetry /\ SupportRedundancyUser(Current) /\ ~BothBootable(Current, sr)
    <3>1. ram' = CopyRegToSmd(Current, sr') /\ SupportRedundancy(Current) /\ sr' = RestoreRetry(sr)
      BY <2>8, Zenon DEF RestoresRetry, RedundantBoot
    <3>2. ram'.priority = Current.priority
      BY <2>3, <2>4, <3>1, CopyRegToSmdFields
    <3>3. sr'.retry_count[Other(sr.slot)] = sr.retry_count[Other(sr.slot)]
      BY <1>0, <2>4, <3>1, OtherSlot, RestoreRetryRange, Zenon DEF SelectedBy, Inv, RangeInv
    <3>4. ~Rotates'
      BY <2>4, <2>8, <3>2, <3>3 DEF Rotates, BothBootable
    <3> QED BY <2>5, <3>1, <3>4, Zenon
  <2>9. CASE RestoresRetry /\ SupportRedundancyUser(Current) /\ BothBootable(Current, sr)
    <3> DEFINE R == RotateSlotsPriority(Current, sr.slot)
    <3>1. ram' = CopyRegToSmd(R, sr') /\ Current.priority[sr.slot] >= Current.priority[Other(sr.slot)]
      BY <2>9, Zenon DEF RestoresRetry
    <3>2. Current.num_slots = 2
      BY <2>3, <2>9, Zenon DEF RangeOK
    <3>3. /\ tries.n < 2 /\ PrioOK(R, sr.slot, tries.n) /\ PrioOK(R, sr.slot, tries.n + 1)
      BY <1>0, <2>3, <2>4, <2>9, <3>1, <3>2, RotationLimit
    <3>4. R \in Smd
      BY <1>0, <2>3, <2>9, RotateType, Zenon DEF BothBootable
    <3> HIDE DEF R
    <3>5. ram'.priority = R.priority
      BY <2>4, <3>1, <3>4, CopyRegToSmdFields
    <3> QED BY <1>1, <3>3, <3>5 DEF TriesInv, PrioOK, Valid
  <2> QED BY <1>3, <2>6, <2>7, <2>8, <2>9, Zenon
<1> QED BY <1>1, <1>2, <1>3, Zenon

LEMMA NextTriesInv ==
  ASSUME ~IoErrors
  PROVE  Inv /\ FlushInv /\ TriesInv /\ [Next]_vars => TriesInv'
<1> SUFFICES ASSUME Inv, FlushInv, TriesInv, [Next]_vars PROVE TriesInv'
  OBVIOUS
<1>t. /\ TypeOK /\ tries \in [slot : Slots, n : 0..TriesCap]
      /\ store \in [Copies -> Smd \cup {Corrupt}]
  BY Zenon DEF Inv, TypeInv, TypeOK
<1>n. tries.n \in Nat /\ tries.slot \in Slots
  BY <1>t
<1>r. ASSUME store' = store, stage' \notin FlushStages, tries' = tries \/ tries'.n = 0
      PROVE  TriesInv'
  <2>1. \A c \in Copies : Valid(c) => \A t : PrioOK(store[c], t, 0)
    BY <1>n, FewerTries, Zenon DEF TriesInv
  <2>2. \A c \in Copies : Valid(c) => PrioOK(store[c], tries'.slot, tries'.n)
    BY <1>r, <2>1, Zenon DEF TriesInv
  <2>3. tries'.n <= 2
    BY <1>r DEF TriesInv
  <2> QED BY <1>r, <2>2, <2>3, Zenon DEF TriesInv, Valid, PrioOK
<1>1. CASE MB1
  <2>1. store' = store /\ stage' \in {"halt", "load"}
    BY <1>1, MB1Facts, Zenon
  <2>2. tries' = tries \/ tries'.n = 0
    BY <1>1, <2>1, MB1Facts DEF Picks
  <2> QED BY <1>r, <2>1, <2>2, Zenon DEF FlushStages
<1>2. CASE LoadKernel
  BY <1>2, <1>r, Zenon DEF LoadKernel, FlushStages
<1>3. CASE UpdateSmd
  BY <1>3, UpdateTriesInv, Zenon
<1>4. CASE FlushBegin \/ FlushWrite
  <2>1. /\ UNCHANGED <<ram, sr, tries>> /\ stage \in FlushStages /\ stage' \in FlushStages
        /\ \A c \in Copies : store'[c] \in {store[c], Corrupt, ram}
    BY <1>4, <1>t, Zenon DEF FlushBegin, FlushWrite, NextCopy, FlushStages
  <2>2. \A c \in Copies : Valid(c)' => PrioOK(store'[c], tries.slot, tries.n)
    BY <2>1, Zenon DEF TriesInv, Valid
  <2> QED BY <2>1, <2>2 DEF TriesInv, Rotates, PrioOK, SupportRedundancy, SupportRedundancyUser, BothBootable
<1>5. CASE FinishBoot
  <2>1. store' = store /\ stage' \notin FlushStages /\ CountTries
    BY <1>5, Zenon DEF FinishBoot, SocReset, FlushStages
  <2>2. CASE ~RotatedBoot
    <3>1. tries'.n = 0
      BY <1>t, <2>1, <2>2, Zenon DEF CountTries
    <3> QED BY <1>r, <2>1, <3>1, Zenon
  <2>3. CASE RotatedBoot
    <3>1. stage = "flushed" /\ Rotates
      BY <2>3, Zenon DEF RotatedBoot, Rotates
    <3>2. tries.n < 2 /\ PrioOK(ram, tries.slot, tries.n + 1)
      BY <3>1, Zenon DEF TriesInv, FlushStages
    <3>3. tries'.n = tries.n + 1 /\ tries'.slot = tries.slot
      BY <1>t, <1>n, <2>1, <2>3, <3>2 DEF CountTries, TriesCap
    <3>4. \A c \in Copies : store[c] = ram
      BY <3>1, Zenon DEF FlushInv
    <3>5. \A c \in Copies : PrioOK(store[c], tries.slot, tries.n)'
      BY <2>1, <3>2, <3>3, <3>4, Zenon DEF PrioOK
    <3>6. tries'.n <= 2
      BY <1>n, <3>2, <3>3
    <3> QED BY <2>1, <3>5, <3>6, Zenon DEF TriesInv
  <2> QED BY <2>2, <2>3, Zenon
<1>6. CASE UEConfirm
  <2>1. PICK r \in Restored : store' = [c \in Copies |-> Confirmed(Stored, BootedSlot, r)]
    BY <1>6, Zenon DEF UEConfirm
  <2> DEFINE x == Confirmed(Stored, BootedSlot, r)
  <2>2. Stored \in Smd /\ BootedSlot \in Slots
    BY <1>6, <1>t, <1>n, Zenon DEF UEConfirm, Stored, Copies, BootedSlot
  <2>3. \A t \in Slots : x.priority[t] = IF t = BootedSlot THEN r[1]
                                         ELSE IF Stored.priority[t] = 0 THEN 0 ELSE r[2]
    BY <2>2, ConfirmedFields
  <2>4. /\ r[1] \in Nat /\ r[2] \in Nat /\ r[1] # 0 /\ r[2] # 0
        /\ r[1] \in {r[2], r[2] + 1}
    BY RestoredAssumption
  <2>5. store' = [c \in Copies |-> x] /\ tries'.n = 0 /\ stage' = "running"
    BY <1>6, <1>t, <2>1, Zenon DEF UEConfirm
  <2> HIDE DEF x
  <2>6. x.priority[1] # 0 => x.priority[0] <= x.priority[1] + 1
    BY <2>2, <2>3, <2>4 DEF Slots
  <2> QED BY <2>5, <2>6 DEF TriesInv, PrioOK, FlushStages
<1>7. CASE ResetStep
  BY <1>7, <1>r, Zenon DEF ResetStep, SocReset, FlushStages
<1>8. CASE UNCHANGED vars
  BY <1>8 DEF vars, TriesInv, Valid, Rotates, PrioOK, SupportRedundancy, SupportRedundancyUser, BothBootable
<1>9. ~UESetActive \/ UNCHANGED vars
  <2>1. Next => stage' # "running" \/ stage # "running"
    BY Zenon DEF Next, Boot, Environment, MB1, LoadKernel, LoaderReset, UpdateSmd, FlushBegin, FlushWrite,
           FlushFails, FinishBoot, UEConfirm, KernelReset, Watchdog, PowerLoss, PowerCycle, SocReset
  <2> QED BY <2>1, Zenon DEF UESetActive
<1>10. [OtaNext]_vars
  BY Zenon DEF OtaNext
<1> QED BY <1>1, <1>2, <1>3, <1>4, <1>5, <1>6, <1>7, <1>8, <1>9, <1>10, StepKinds

\* "The policy is to try up to two times on a slot", for every choice of initial
\* and restored priorities: with reliable storage no slot is booted a third time
\* running without being confirmed while both are bootable, wherever crashes
\* interrupt the flushes of rotate_slots_priority's result.
THEOREM AtMostTwoTries ==
  ASSUME ~IoErrors
  PROVE  Spec => []TwoTries
<1>1. Init => Inv /\ FlushInv /\ TriesInv
  <2> SUFFICES ASSUME Init PROVE TriesInv
    BY InitInv, InitFlushInv, Zenon
  <2>1. PICK m \in InitialSmds : store = [c \in Copies |-> m]
    BY Zenon DEF Init
  <2>2. m.priority[1] # 0 => m.priority[0] <= m.priority[1] + 1
    BY InitialAssumption, Zenon
  <2> QED BY <2>1, <2>2 DEF Init, TriesInv, PrioOK, FlushStages
<1>2. Inv /\ FlushInv /\ TriesInv /\ [Next]_vars => (Inv /\ FlushInv /\ TriesInv)'
  <2>1. [Next]_vars => [OtaNext]_vars
    BY Zenon DEF OtaNext
  <2> QED BY <2>1, NextInv, NextFlushInv, NextTriesInv, Zenon
<1>3. TriesInv => TwoTries
  BY Zenon DEF TriesInv, TwoTries
<1> QED BY <1>1, <1>2, <1>3, PTL DEF Spec
=============================================================================
