---------------------------- MODULE BootFlowProofs ----------------------------
(***************************************************************************)
(* Proofs about Storage and BootFlow, for every boot order, table of       *)
(* devices, number of entries in extlinux.conf and number of TFTP retries. *)
(* The inductive invariant has four parts, each built on the ones before:  *)
(* what an attempt holds of the storage (StoreInv), which attempt the loop *)
(* is at (LoopInv), the types of the rest (RestType) and what the attempt  *)
(* has in memory (ImgInv).                                                 *)
(***************************************************************************)
EXTENDS BootFlow, WellFoundedInduction, TLAPS

\* A set of positive numbers that is not empty has a least element.
LEMMA Least ==
  ASSUME NEW S \in SUBSET Nat, S # {}
  PROVE  Min(S) \in S /\ \A n \in S : Min(S) <= n
<1> DEFINE R == OpToRel(<, Nat)
<1>1. IsWellFoundedOn(R, Nat)
  BY NatLessThanWellFounded
<1>2. \A a, b \in Nat : a < b => <<a, b>> \in R
  BY DEF OpToRel
<1> HIDE DEF R
<1>3. PICK x \in S : \A y \in S : ~(<<y, x>> \in R)
  BY <1>1, WFMin, Zenon
<1>4. \A y \in S : ~(y < x)
  BY <1>2, <1>3, Zenon
<1>5. \A y \in S : x <= y
  BY <1>4
<1> QED BY <1>5, Zenon DEF Min

LEMMA FindNone ==
  ASSUME NEW s, NEW d, s.mounts = <<>>
  PROVE  find_mount(s, d) = 0
BY DEF find_mount

LEMMA FindOwn ==
  ASSUME NEW s, NEW d, NEW r, s.mounts = <<[dev |-> d, ref |-> r]>>
  PROVE  find_mount(s, d) = 1
<1> DEFINE serving == {n \in DOMAIN s.mounts : IsPrefixOf(s.mounts[n].dev, d)}
<1>1. serving = {1}
  BY DEF IsPrefixOf
<1>2. Min({1}) = 1
  BY Least
<1>3. find_mount(s, d) = IF serving = {} THEN 0 ELSE Min(serving)
  BY Zenon DEF find_mount
<1> QED BY <1>1, <1>2, <1>3

\* A boot order lists media.
LEMMA OrderType ==
  ASSUME NEW names \in BootOrders
  PROVE  MapBootPriority(names) \in Seq(Media)
<1> DEFINE unknown == {n \in DOMAIN names : names[n] \notin DOMAIN DeviceOf}
           known == IF unknown = {} THEN Len(names) ELSE Min(unknown) - 1
<1>1. Len(names) \in Nat /\ DOMAIN names = 1..Len(names)
  BY OrderAssumption
<1>2. unknown \in SUBSET Nat
  BY <1>1
<1>3. known \in 0..Len(names) /\ \A n \in 1..known : names[n] \in DOMAIN DeviceOf
  <2>1. CASE unknown = {}
    <3>1. known = Len(names)
      BY <2>1, Zenon
    <3>2. known \in 0..Len(names)
      BY <3>1, <1>1
    <3> QED BY <2>1, <3>1, <3>2, <1>1, Zenon
  <2>2. CASE unknown # {}
    <3>1. Min(unknown) \in unknown /\ \A n \in unknown : Min(unknown) <= n
      BY <2>2, <1>2, Least, Zenon
    <3>2. known = Min(unknown) - 1
      BY <2>2, Zenon
    <3> HIDE DEF known
    <3>3. known \in 0..Len(names)
      BY <3>1, <3>2, <1>1
    <3>4. ASSUME NEW n \in 1..known PROVE names[n] \in DOMAIN DeviceOf
      <4>1. n \in DOMAIN names /\ ~(Min(unknown) <= n)
        BY <3>1, <3>2, <3>3, <1>1
      <4> QED BY <4>1, <3>1, Zenon
    <3> QED BY <3>3, <3>4, Zenon
  <2> QED BY <2>1, <2>2, Zenon
<1>4. MapBootPriority(names) = [n \in 1..known |-> DeviceOf[names[n]]]
  BY Zenon DEF MapBootPriority
<1> HIDE DEF known
<1>5. \A n \in 1..known : DeviceOf[names[n]] \in Media
  BY <1>3, OrderAssumption, Zenon
<1> QED BY <1>3, <1>4, <1>5

StorageType == [bdevs : Seq(Devices), ref : [Devices -> Nat], published : SUBSET Devices,
                mounts : Seq([dev : Devices, ref : Nat \ {0}])]

\* The builtin storage is registered first and keeps a reference.
Sound(s) ==
  /\ s \in StorageType
  /\ s.bdevs # <<>> /\ s.bdevs[1] = "builtin" /\ s.ref["builtin"] >= 1

Clean(s) == Sound(s) /\ s.mounts = <<>> /\ s.published = {"builtin"}

\* A medium d that is being tried, with its partitions published or not.
Opened(s, d) ==
  Sound(s) /\ d \in Devices /\ s.published \in {{"builtin"}, {"builtin", d}}

\* The reference that closing the medium returns.
Referred(s, d) == d = "builtin" => s.ref[d] >= 2

Mounted(s, d) == Opened(s, d) /\ Referred(s, d) /\ s.mounts = <<[dev |-> d, ref |-> 1]>>
Unmounted(s, d) == Opened(s, d) /\ s.mounts = <<>>

\* Where no medium is open, where its file system is, and where the boot has
\* ended without a kernel.
NetPcs == {"net", "tftp_dtb", "tftp_img", "net_validate"}
Outside == {"bootctrl", "select", "next", "open", "extract", "loaded", "failed", "kernel_entry"} \cup NetPcs
InConf == {"conf", "kernel", "dtb", "ramdisk"}
Stopped == {"reset", "corrupt", "bad_conf"}

\* What the storage holds at each point of an attempt.
StoreInv ==
  /\ Sound(storage) /\ fm_handle \in {"null", "unmounted", "mounted"}
  /\ pc \in Outside => Clean(storage) /\ fm_handle = "null"
  /\ pc = "publish" => Unmounted(storage, medium) /\ Referred(storage, medium) /\ fm_handle = "null"
  /\ pc \in InConf => Mounted(storage, medium) /\ fm_handle = "mounted"
  /\ pc = "partition" =>
       \/ Mounted(storage, medium) /\ fm_handle = "mounted"
       \/ Unmounted(storage, medium) /\ fm_handle = "unmounted"

\* Parts of a state of the storage.
LEMMA StorageParts ==
  ASSUME NEW s \in StorageType
  PROVE  /\ s.bdevs \in Seq(Devices) /\ s.ref \in [Devices -> Nat]
         /\ s.published \in SUBSET Devices /\ s.mounts \in Seq([dev : Devices, ref : Nat \ {0}])
BY Zenon DEF StorageType

\* A device that is closed keeps the builtin storage open, unless it is that and
\* was not opened.
LEMMA CloseSound ==
  ASSUME NEW s, NEW d \in Devices, Sound(s), d = "builtin" => s.ref[d] >= 2
  PROVE  /\ Sound(blockdev_close(s, d))
         /\ blockdev_close(s, d).mounts = s.mounts
         /\ blockdev_close(s, d).published = s.published
<1> DEFINE c == IF s.ref[d] > 0 THEN s.ref[d] - 1 ELSE 0
           t == blockdev_close(s, d)
<1>1. s \in StorageType /\ s.ref \in [Devices -> Nat]
  BY StorageParts, Zenon DEF Sound
<1>2. t = [s EXCEPT !.ref = [s.ref EXCEPT ![d] = c]]
  BY <1>1, Zenon DEF blockdev_close, StorageType
<1>3. c \in Nat /\ (s.ref[d] >= 2 => c >= 1)
  BY <1>1
<1> HIDE DEF c, t
<1>4. /\ t.bdevs = s.bdevs /\ t.mounts = s.mounts /\ t.published = s.published
      /\ t.ref = [s.ref EXCEPT ![d] = c] /\ t \in StorageType
  <2>1. [s.ref EXCEPT ![d] = c] \in [Devices -> Nat]
    BY <1>1, <1>3, Zenon
  <2> QED BY <1>1, <1>2, <2>1, Zenon DEF StorageType
<1>5. t.ref["builtin"] >= 1
  <2>1. CASE d = "builtin"
    BY <2>1, <1>1, <1>3, <1>4, Zenon
  <2>2. CASE d # "builtin"
    BY <2>2, <1>1, <1>4, Zenon DEF Sound, Devices
  <2> QED BY <2>1, <2>2, Zenon
<1>6. Sound(t)
  BY <1>4, <1>5, Zenon DEF Sound
<1> QED BY <1>4, <1>6, Zenon DEF t

\* fs_unmount returns both references, removes the mount and closes the device.
LEMMA UnmountOwn ==
  ASSUME NEW s, NEW d, Mounted(s, d)
  PROVE  fs_unmount(s, d) = blockdev_close([s EXCEPT !.mounts = <<>>], d)
<1> DEFINE m == s.mounts
           taken == [s EXCEPT !.mounts[1].ref = s.mounts[1].ref + 1]
           back == [s EXCEPT !.mounts = <<[dev |-> d, ref |-> 1]>>]
<1>1. s \in StorageType /\ m = <<[dev |-> d, ref |-> 1]>>
  BY Zenon DEF Mounted, Opened, Sound
<1>2. find_mount(s, d) = 1
  BY <1>1, FindOwn, Zenon
<1>3. taken = [s EXCEPT !.mounts = <<[dev |-> d, ref |-> 2]>>]
  <2>1. [m EXCEPT ![1].ref = m[1].ref + 1] = <<[dev |-> d, ref |-> 2]>>
    BY <1>1
  <2> QED BY <1>1, <2>1, Zenon DEF StorageType
<1>4. taken.mounts = <<[dev |-> d, ref |-> 2]>>
  BY <1>1, <1>3, Zenon DEF StorageType
<1>5. put_mount(taken, 1) = back
  <2>1. taken.mounts[1].ref = 2 /\ 2 > 1
    BY <1>4
  <2>2. put_mount(taken, 1) = [taken EXCEPT !.mounts[1].ref = taken.mounts[1].ref - 1]
    BY <2>1, Zenon DEF put_mount
  <2>3. [taken.mounts EXCEPT ![1].ref = taken.mounts[1].ref - 1] = <<[dev |-> d, ref |-> 1]>>
    BY <1>4
  <2> QED BY <1>1, <1>3, <2>2, <2>3, Zenon DEF StorageType
<1>6. put_mount(back, 1) = blockdev_close([s EXCEPT !.mounts = <<>>], d)
  <2>1. back.mounts = <<[dev |-> d, ref |-> 1]>>
    BY <1>1, Zenon DEF StorageType
  <2>2. back.mounts[1].ref = 1 /\ ~(1 > 1) /\ back.mounts[1].dev = d
    BY <2>1
  <2>3. WithoutMount(back.mounts, 1) = <<>>
    BY <2>1 DEF WithoutMount
  <2>4. [back EXCEPT !.mounts = WithoutMount(back.mounts, 1)] = [s EXCEPT !.mounts = <<>>]
    BY <2>3, <1>1, Zenon DEF StorageType
  <2> QED BY <2>2, <2>4, Zenon DEF put_mount
<1>7. find_mount(s, d) # 0 /\ taken = [s EXCEPT !.mounts[find_mount(s, d)].ref = @ + 1]
  BY <1>2
<1> HIDE DEF taken, back
<1>8. fs_unmount(s, d) = put_mount(put_mount(taken, find_mount(s, d)), find_mount(s, d))
  BY <1>7, Zenon DEF fs_unmount
<1> QED BY <1>2, <1>5, <1>6, <1>8, Zenon

LEMMA CloseClean ==
  ASSUME NEW s, NEW d \in Devices, Clean(s), Referred(s, d)
  PROVE  Clean(blockdev_close(s, d))
BY CloseSound, Zenon DEF Clean, Referred

\* tegrabl_fm_close unmounts what was mounted.
LEMMA FmCloseClean ==
  ASSUME NEW s, NEW handle, s.published = {"builtin"},
         \/ Mounted(s, medium) /\ handle = "mounted"
         \/ Unmounted(s, medium) /\ handle = "unmounted"
  PROVE  Clean(fm_close(s, handle))
<1>1. CASE handle = "mounted"
  <2> DEFINE t == [s EXCEPT !.mounts = <<>>]
  <2>1. s \in StorageType /\ Mounted(s, medium) /\ medium \in Devices
    BY <1>1, Zenon DEF Mounted, Opened, Sound
  <2>2. fm_close(s, handle) = blockdev_close(t, medium)
    BY <1>1, <2>1, UnmountOwn, Zenon DEF fm_close
  <2>3. t.bdevs = s.bdevs /\ t.ref = s.ref /\ t.published = s.published /\ t.mounts = <<>>
    BY <2>1, Zenon DEF StorageType
  <2>4. t \in StorageType
    <3>1. <<>> \in Seq([dev : Devices, ref : Nat \ {0}])
      OBVIOUS
    <3> QED BY <2>1, <3>1, Zenon DEF StorageType
  <2>5. Clean(t) /\ Referred(t, medium)
    BY <2>1, <2>3, <2>4, Zenon DEF Mounted, Opened, Sound, Clean, Referred
  <2> QED BY <2>1, <2>2, <2>5, CloseClean, Zenon
<1>2. CASE handle = "unmounted"
  BY <1>2, Zenon DEF fm_close, Unmounted, Opened, Clean
<1> QED BY <1>1, <1>2, Zenon

\* Whatever an attempt has opened, published or mounted is taken back when it
\* returns, and the builtin storage stays open.
LEMMA CloseMediumClean ==
  ASSUME NEW s, NEW handle,
         \/ Mounted(s, medium) /\ handle = "mounted"
         \/ Unmounted(s, medium) /\ handle = "unmounted"
  PROVE  Clean(CloseMedium(s, handle))
<1>0. Opened(s, medium) /\ s \in StorageType /\ medium \in Devices
  BY Zenon DEF Mounted, Unmounted, Opened, Sound
<1>1. CASE medium \in Removable
  <2> DEFINE t == partitions_unpublish(s, medium)
  <2>1. t = [s EXCEPT !.published = s.published \ {medium}]
    BY Zenon DEF partitions_unpublish
  <2> HIDE DEF t
  <2>2. t.bdevs = s.bdevs /\ t.ref = s.ref /\ t.mounts = s.mounts
        /\ t.published = s.published \ {medium}
    BY <1>0, <2>1, Zenon DEF StorageType
  <2>3. t.published = {"builtin"} /\ medium # "builtin"
    BY <1>0, <1>1, <2>2 DEF Opened, Removable
  <2>4. t \in StorageType
    <3>1. s.published \ {medium} \in SUBSET Devices
      BY <1>0, Zenon DEF StorageType
    <3> QED BY <1>0, <2>1, <3>1, Zenon DEF StorageType
  <2>5. Sound(t)
    BY <1>0, <2>2, <2>4, Zenon DEF Opened, Sound
  <2>6. \/ Mounted(t, medium) /\ handle = "mounted"
        \/ Unmounted(t, medium) /\ handle = "unmounted"
    BY <2>2, <2>3, <2>5, Zenon DEF Mounted, Unmounted, Opened, Referred
  <2>7. Clean(fm_close(t, handle))
    BY <2>3, <2>6, FmCloseClean, Zenon
  <2>8. Clean(blockdev_close(fm_close(t, handle), medium))
    BY <2>3, <2>7, <1>0, CloseClean, Zenon DEF Referred
  <2> QED BY <1>1, <2>8, Zenon DEF CloseMedium, t
<1>2. CASE medium \notin Removable
  <2>1. medium = "builtin"
    BY <1>0, <1>2, Zenon DEF Devices, Removable
  <2>2. s.published = {"builtin"}
    BY <2>1, <1>0, Zenon DEF Opened
  <2>3. Clean(fm_close(s, handle))
    BY <2>2, FmCloseClean, Zenon
  <2> QED BY <1>2, <2>3, Zenon DEF CloseMedium
<1> QED BY <1>1, <1>2, Zenon

-----------------------------------------------------------------------------
(***************************************************************************)
(* The storage, step by step.                                              *)
(***************************************************************************)

\* How a step of an attempt ends: the attempt returns, or it goes on.
Outcome(labels) == Failed \/ Loaded \/ \E label \in labels : Goto(label)

\* An attempt that returns leaves the storage as it found it.
LEMMA ReturnClean ==
  ASSUME StoreInv, pc \in Outside \cup InConf \cup {"partition"}, Leave(storage, fm_handle)
  PROVE  Clean(storage)' /\ fm_handle' = "null"
<1>1. \/ Clean(storage) /\ fm_handle = "null"
      \/ Mounted(storage, medium) /\ fm_handle = "mounted"
      \/ Unmounted(storage, medium) /\ fm_handle = "unmounted"
  BY Zenon DEF StoreInv
<1>2. CASE fm_handle = "null"
  <2>1. storage' = storage /\ fm_handle' = "null" /\ Clean(storage)
    BY <1>1, <1>2, Zenon DEF Leave
  <2> QED BY <2>1, Zenon
<1>3. CASE fm_handle # "null"
  <2>1. storage' = CloseMedium(storage, fm_handle) /\ fm_handle' = "null"
    BY <1>3, Zenon DEF Leave
  <2>2. Clean(CloseMedium(storage, fm_handle))
    BY <1>1, <1>3, CloseMediumClean, Zenon
  <2> QED BY <2>1, <2>2, Zenon
<1> QED BY <1>2, <1>3, Zenon

\* Outside of an attempt, or at its end, the storage is clean.
LEMMA CleanStore ==
  ASSUME pc' \in Outside \cup Stopped, Clean(storage)', fm_handle' = "null"
  PROVE  StoreInv'
<1>1. /\ pc' # "publish" /\ pc' # "partition" /\ pc' \notin InConf
  BY Zenon DEF Outside, Stopped, InConf, NetPcs
<1> QED BY <1>1, Zenon DEF StoreInv, Clean

LEMMA SameStore ==
  ASSUME StoreInv, UNCHANGED <<storage, fm_handle, medium>>,
         \/ pc \in Outside /\ pc' \in Outside
         \/ pc \in InConf /\ pc' \in InConf \cup {"partition"}
         \/ pc' \in Stopped
  PROVE  StoreInv'
<1>1. CASE pc \in Outside /\ pc' \in Outside
  BY <1>1, Zenon DEF StoreInv, Outside, InConf, NetPcs
<1>2. CASE pc \in InConf /\ pc' \in InConf \cup {"partition"}
  BY <1>2, Zenon DEF StoreInv, Outside, InConf, NetPcs
<1>3. CASE pc' \in Stopped
  BY <1>3, Zenon DEF StoreInv, Outside, InConf, NetPcs, Stopped
<1> QED BY <1>1, <1>2, <1>3, Zenon

\* A step on the network, on the file system or on the partitions.
LEMMA OutcomeStore ==
  ASSUME StoreInv, NEW labels, Outcome(labels), UNCHANGED medium,
         \/ pc \in NetPcs /\ labels \subseteq NetPcs
         \/ pc \in InConf /\ labels \subseteq InConf \cup {"partition"} \cup Stopped
         \/ pc = "partition" /\ labels \subseteq Stopped
  PROVE  StoreInv'
<1>0. pc \in Outside \cup InConf \cup {"partition"}
  BY Zenon DEF Outside
<1>1. CASE Failed \/ Loaded
  <2>1. Leave(storage, fm_handle) /\ pc' \in {"failed", "next", "extract"}
    BY <1>1, Zenon DEF Failed, FailedWith, Loaded
  <2>2. Clean(storage)' /\ fm_handle' = "null"
    BY <1>0, <2>1, ReturnClean, Zenon
  <2>3. pc' \in Outside
    BY <2>1, Zenon DEF Outside
  <2> QED BY <2>2, <2>3, CleanStore, Zenon
<1>2. CASE \E label \in labels : Goto(label)
  <2>1. UNCHANGED <<storage, fm_handle, medium>> /\ pc' \in labels
    BY <1>2, Zenon DEF Goto, media
  <2>2. \/ pc \in Outside /\ pc' \in Outside
        \/ pc \in InConf /\ pc' \in InConf \cup {"partition"}
        \/ pc' \in Stopped
    BY <2>1, Zenon DEF Outside
  <2> QED BY <2>1, <2>2, SameStore, Zenon
<1> QED BY <1>1, <1>2, Zenon DEF Outcome

\* A device is registered behind the builtin storage.
LEMMA InitDeviceClean ==
  ASSUME NEW s, NEW d \in Devices, Clean(s)
  PROVE  Clean(init_storage_device(s, d))
<1> DEFINE t == blockdev_register(s, d)
<1>1. s \in StorageType /\ s.bdevs \in Seq(Devices) /\ s.ref \in [Devices -> Nat]
  BY StorageParts, Zenon DEF Clean, Sound
<1>2. t = [s EXCEPT !.bdevs = Append(s.bdevs, d), !.ref = [s.ref EXCEPT ![d] = s.ref[d] + 1]]
  BY <1>1, Zenon DEF blockdev_register, StorageType
<1> HIDE DEF t
<1>3. /\ t.bdevs = Append(s.bdevs, d) /\ t.ref = [s.ref EXCEPT ![d] = s.ref[d] + 1]
      /\ t.mounts = s.mounts /\ t.published = s.published
  BY <1>1, <1>2, Zenon DEF StorageType
<1>4. /\ Append(s.bdevs, d) \in Seq(Devices) /\ Append(s.bdevs, d) # <<>>
      /\ s.bdevs # <<>> => Append(s.bdevs, d)[1] = s.bdevs[1]
  BY <1>1
<1>5. /\ [s.ref EXCEPT ![d] = s.ref[d] + 1] \in [Devices -> Nat]
      /\ s.ref["builtin"] >= 1 => [s.ref EXCEPT ![d] = s.ref[d] + 1]["builtin"] >= 1
  BY <1>1 DEF Devices
<1>6. t \in StorageType
  BY <1>1, <1>2, <1>4, <1>5, Zenon DEF StorageType
<1>7. Clean(t)
  BY <1>3, <1>4, <1>5, <1>6, Zenon DEF Clean, Sound
<1> QED BY <1>7, Zenon DEF init_storage_device, t

LEMMA OpenUnmounted ==
  ASSUME NEW s, NEW d \in Devices, Clean(s)
  PROVE  Unmounted(blockdev_open(s, d), d) /\ Referred(blockdev_open(s, d), d)
<1> DEFINE t == blockdev_open(s, d)
<1>1. s \in StorageType /\ s.ref \in [Devices -> Nat] /\ s.ref["builtin"] >= 1
  BY StorageParts, Zenon DEF Clean, Sound
<1>2. t = [s EXCEPT !.ref = [s.ref EXCEPT ![d] = s.ref[d] + 1]]
  BY <1>1, Zenon DEF blockdev_open, StorageType
<1> HIDE DEF t
<1>3. /\ t.bdevs = s.bdevs /\ t.ref = [s.ref EXCEPT ![d] = s.ref[d] + 1]
      /\ t.mounts = s.mounts /\ t.published = s.published
  BY <1>1, <1>2, Zenon DEF StorageType
<1>4. /\ [s.ref EXCEPT ![d] = s.ref[d] + 1] \in [Devices -> Nat]
      /\ [s.ref EXCEPT ![d] = s.ref[d] + 1]["builtin"] >= 1
      /\ d = "builtin" => [s.ref EXCEPT ![d] = s.ref[d] + 1][d] >= 2
  BY <1>1 DEF Devices
<1>5. t \in StorageType
  BY <1>1, <1>2, <1>4, Zenon DEF StorageType
<1>6. Unmounted(t, d) /\ Referred(t, d)
  BY <1>3, <1>4, <1>5, Zenon DEF Clean, Sound, Unmounted, Opened, Referred
<1> QED BY <1>6, Zenon DEF t

LEMMA OpenStore ==
  ASSUME StoreInv, OpenRemovable \/ OpenBuiltin
  PROVE  StoreInv'
<1>1. pc = "open" /\ Clean(storage) /\ fm_handle = "null" /\ medium \in Devices /\ medium' = medium
  BY Zenon DEF OpenRemovable, OpenBuiltin, StoreInv, Outside, Removable, Devices
<1>2. CASE Failed
  BY <1>1, <1>2, OutcomeStore, ReturnClean, CleanStore, Zenon DEF Failed, FailedWith, Outside
<1>3. ASSUME NEW s, Clean(s),
             \/ /\ pc' = "publish" /\ storage' = blockdev_open(s, medium)
                /\ UNCHANGED <<fm_handle, is_load_done>>
             \/ FailedWith(s, "null")
      PROVE  StoreInv'
  <2>1. CASE FailedWith(s, "null")
    <3>1. storage' = s /\ fm_handle' = "null" /\ pc' \in {"failed", "next"}
      BY <2>1, Zenon DEF FailedWith, Leave
    <3> QED BY <1>3, <3>1, CleanStore, Zenon DEF Outside
  <2>2. CASE pc' = "publish" /\ storage' = blockdev_open(s, medium) /\ UNCHANGED fm_handle
    <3>1. Unmounted(blockdev_open(s, medium), medium) /\ Referred(blockdev_open(s, medium), medium)
      BY <1>1, <1>3, OpenUnmounted, Zenon
    <3>2. Unmounted(storage, medium)' /\ Referred(storage, medium)' /\ fm_handle' = "null"
      BY <1>1, <2>2, <3>1, Zenon
    <3> QED BY <2>2, <3>2, Zenon DEF StoreInv, Unmounted, Opened, Outside, InConf, NetPcs
  <2> QED BY <1>3, <2>1, <2>2, Zenon
<1>4. CASE OpenBuiltin
  BY <1>1, <1>2, <1>3, <1>4, Zenon DEF OpenBuiltin
<1>5. CASE OpenRemovable /\ ~Failed
  <2>1. PICK present \in BOOLEAN :
          LET s == IF present THEN init_storage_device(storage, medium) ELSE storage
          IN IF CanOpen(s, medium)
             THEN /\ pc' = "publish" /\ storage' = blockdev_open(s, medium)
                  /\ UNCHANGED <<fm_handle, is_load_done>>
             ELSE FailedWith(s, "null")
    BY <1>5, Zenon DEF OpenRemovable
  <2> DEFINE s == IF present THEN init_storage_device(storage, medium) ELSE storage
  <2>2. Clean(s)
    BY <1>1, InitDeviceClean, Zenon
  <2> HIDE DEF s
  <2>3. \/ /\ pc' = "publish" /\ storage' = blockdev_open(s, medium)
           /\ UNCHANGED <<fm_handle, is_load_done>>
        \/ FailedWith(s, "null")
    BY <2>1, Zenon DEF s
  <2> QED BY <1>3, <2>2, <2>3, Zenon
<1> QED BY <1>2, <1>4, <1>5, Zenon

LEMMA NotMountedStore ==
  ASSUME NEW s, Unmounted(s, medium), NotMounted(s), UNCHANGED medium
  PROVE  StoreInv'
<1>1. CASE pc' = "partition" /\ storage' = s /\ fm_handle' = "unmounted"
  <2>1. Unmounted(storage, medium)'
    BY <1>1, Zenon
  <2> QED BY <1>1, <2>1, Zenon DEF StoreInv, Unmounted, Opened, Outside, InConf, NetPcs
<1>2. CASE FailedWith(s, "unmounted")
  <2>1. storage' = CloseMedium(s, "unmounted") /\ fm_handle' = "null" /\ pc' \in {"failed", "next"}
    BY <1>2, Zenon DEF FailedWith, Leave
  <2>2. Clean(CloseMedium(s, "unmounted"))
    BY CloseMediumClean, Zenon
  <2> QED BY <2>1, <2>2, CleanStore, Zenon DEF Outside
<1> QED BY <1>1, <1>2, Zenon DEF NotMounted

LEMMA PublishStore ==
  ASSUME StoreInv, FmPublish
  PROVE  StoreInv'
<1>1. Unmounted(storage, medium) /\ Referred(storage, medium) /\ UNCHANGED medium
  BY Zenon DEF FmPublish, StoreInv
<1>2. PICK gpt \in BOOLEAN :
        LET s == IF gpt THEN partition_publish(storage, medium) ELSE storage
        IN \/ NotMounted(s)
           \/ NotMounted(mount_failed(s, medium))
           \/ pc' = "conf" /\ storage' = fs_mount(s, medium) /\ fm_handle' = "mounted"
  BY Zenon DEF FmPublish
<1> DEFINE s == IF gpt THEN partition_publish(storage, medium) ELSE storage
<1>3. Unmounted(s, medium) /\ Referred(s, medium)
  <2> DEFINE t == partition_publish(storage, medium)
  <2>1. storage \in StorageType /\ medium \in Devices
    BY <1>1, Zenon DEF Unmounted, Opened, Sound
  <2>2. t = [storage EXCEPT !.published = storage.published \cup {medium}]
    BY Zenon DEF partition_publish
  <2> HIDE DEF t
  <2>3. /\ t.bdevs = storage.bdevs /\ t.ref = storage.ref /\ t.mounts = storage.mounts
        /\ t.published = storage.published \cup {medium}
    BY <2>1, <2>2, Zenon DEF StorageType
  <2>4. t.published = {"builtin", medium}
    BY <1>1, <2>3 DEF Unmounted, Opened
  <2>5. storage.published \cup {medium} \in SUBSET Devices
    BY <2>1, Zenon DEF StorageType
  <2>6. t \in StorageType
    BY <2>1, <2>2, <2>5, Zenon DEF StorageType
  <2>7. Unmounted(t, medium) /\ Referred(t, medium)
    BY <1>1, <2>3, <2>4, <2>6, Zenon DEF Unmounted, Opened, Sound, Referred
  <2> QED BY <1>1, <2>7, Zenon DEF t
<1> HIDE DEF s
<1>4. CASE NotMounted(s)
  BY <1>1, <1>3, <1>4, NotMountedStore, Zenon
<1>5. CASE NotMounted(mount_failed(s, medium))
  <2>1. mount_failed(s, medium) = blockdev_close(s, medium)
    BY <1>3, FindNone, Zenon DEF mount_failed, MountsOver, Unmounted
  <2>2. Unmounted(blockdev_close(s, medium), medium)
    BY <1>3, CloseSound, Zenon DEF Unmounted, Opened, Referred
  <2> QED BY <1>1, <1>5, <2>1, <2>2, NotMountedStore, Zenon
<1>6. CASE pc' = "conf" /\ storage' = fs_mount(s, medium) /\ fm_handle' = "mounted"
  <2> DEFINE t == fs_mount(s, medium)
             m == [dev |-> medium, ref |-> 1]
  <2>1. s \in StorageType /\ medium \in Devices /\ s.mounts = <<>>
    BY <1>3, Zenon DEF Unmounted, Opened, Sound
  <2>2. <<m>> \o s.mounts = <<m>> /\ <<m>> \in Seq([dev : Devices, ref : Nat \ {0}])
    BY <2>1
  <2>3. t = [s EXCEPT !.mounts = <<m>>]
    BY <2>2, Zenon DEF fs_mount
  <2> HIDE DEF t
  <2>4. t.bdevs = s.bdevs /\ t.ref = s.ref /\ t.mounts = <<m>> /\ t.published = s.published
    BY <2>1, <2>3, Zenon DEF StorageType
  <2>5. t \in StorageType
    BY <2>1, <2>2, <2>3, Zenon DEF StorageType
  <2>6. Mounted(t, medium)
    BY <1>3, <2>4, <2>5, Zenon DEF Unmounted, Mounted, Opened, Sound, Referred
  <2>7. Mounted(storage, medium)'
    BY <1>1, <1>6, <2>6, Zenon DEF t
  <2> QED BY <1>6, <2>7, Zenon DEF StoreInv, Mounted, Opened, Outside, InConf, NetPcs
<1> QED BY <1>2, <1>4, <1>5, <1>6, Zenon DEF s

\* Where the steps on a medium go on, if they do.
Ways ==
  IF pc \in NetPcs THEN NetPcs \ {"net"}
  ELSE IF pc \in InConf THEN InConf \cup {"partition"} \cup Stopped
  ELSE Stopped

OnMedium ==
  \/ NetBootStackInit \/ TftpClientRecv \/ NetValidate
  \/ ConfNotRead \/ ParseConfFile
  \/ ExtlinuxLoadKernel \/ ExtlinuxLoadDtb \/ ExtlinuxLoadRamdisk
  \/ LoadFromPartition \/ TegrablLoadFromPartition

InAttempt == UNCHANGED <<slot, mode, boot_order, i, medium, attempt, fallback>>

LEMMA FallbackOutcome ==
  ASSUME pc \in InConf, FreeSections(Fallback)
  PROVE  Outcome(Ways)
<1>1. Ways = InConf \cup {"partition"} \cup Stopped
  BY Zenon DEF Ways, NetPcs, InConf
<1> QED BY <1>1, Zenon DEF FreeSections, Fallback, Outcome, Stopped

LEMMA OnMediumOutcome ==
  ASSUME OnMedium
  PROVE  /\ pc \in NetPcs \cup InConf \cup {"partition"}
         /\ Outcome(Ways) /\ InAttempt
<1> USE DEF InAttempt, boot
<1>1. CASE NetBootStackInit \/ TftpClientRecv \/ NetValidate
  <2>1. pc \in NetPcs /\ Ways = NetPcs \ {"net"} /\ InAttempt
    BY <1>1, Zenon DEF NetBootStackInit, TftpClientRecv, NetValidate, Ways, NetPcs
  <2>2. CASE NetBootStackInit \/ NetValidate
    BY <2>1, <2>2, Zenon DEF NetBootStackInit, NetValidate, Outcome, NetPcs
  <2>3. CASE TftpClientRecv
    BY <2>1, <2>3, Zenon DEF TftpClientRecv, RequestAgain, Outcome, NetPcs
  <2> QED BY <1>1, <2>1, <2>2, <2>3, Zenon
<1>2. CASE ConfNotRead \/ ParseConfFile \/ ExtlinuxLoadKernel \/ ExtlinuxLoadDtb \/ ExtlinuxLoadRamdisk
  <2>1. pc \in InConf /\ InAttempt
    BY <1>2, Zenon DEF ConfNotRead, ParseConfFile, ExtlinuxLoadKernel, ExtlinuxLoadDtb,
                       ExtlinuxLoadRamdisk, InConf
  <2>2. Ways = InConf \cup {"partition"} \cup Stopped
    BY <2>1, Zenon DEF Ways, NetPcs, InConf
  <2>3. \A label \in {"kernel", "dtb", "ramdisk", "reset", "bad_conf", "corrupt"} :
          Goto(label) => Outcome(Ways)
    BY <2>2, Zenon DEF Outcome, InConf, Stopped
  <2>4. CASE ConfNotRead
    BY <2>1, <2>4, FallbackOutcome, Zenon DEF ConfNotRead
  <2>5. CASE ParseConfFile
    BY <2>1, <2>3, <2>5, Zenon DEF ParseConfFile
  <2>6. CASE ExtlinuxLoadKernel
    BY <2>1, <2>3, <2>6, FallbackOutcome, Zenon DEF ExtlinuxLoadKernel, LoadBinaryWithSig, Reset
  <2>7. CASE ExtlinuxLoadDtb
    <3>1. FreeSections(Goto("ramdisk")) => Outcome(Ways)
      BY <2>3, Zenon DEF FreeSections
    <3> QED BY <2>1, <2>3, <2>7, <3>1, FallbackOutcome, Zenon DEF ExtlinuxLoadDtb, LoadBinaryWithSig, Reset
  <2>8. CASE ExtlinuxLoadRamdisk
    BY <2>1, <2>8, Zenon DEF ExtlinuxLoadRamdisk, Outcome
  <2> QED BY <1>2, <2>1, <2>4, <2>5, <2>6, <2>7, <2>8, Zenon
<1>3. CASE LoadFromPartition \/ TegrablLoadFromPartition
  <2>1. pc = "partition" /\ InAttempt
    BY <1>3, Zenon DEF LoadFromPartition, TegrablLoadFromPartition
  <2>2. "reset" \in Ways
    BY <2>1, Zenon DEF Ways, NetPcs, InConf, Stopped
  <2> QED BY <1>3, <2>1, <2>2, Zenon DEF LoadFromPartition, TegrablLoadFromPartition, Outcome, Reset
<1> QED BY <1>1, <1>2, <1>3, Zenon DEF OnMedium

\* The steps between the attempts and after them leave the storage alone.
Between ==
  GetKernelBootctrl \/ MediaSelect \/ NextMedium \/ Extract \/ BootOrReset

LEMMA NextCases ==
  Next <=> Between \/ OpenRemovable \/ OpenBuiltin \/ FmPublish \/ OnMedium
BY Zenon DEF Next, Between, OnMedium

LEMMA BetweenStore ==
  ASSUME StoreInv, Between
  PROVE  StoreInv'
<1>1. UNCHANGED <<storage, fm_handle>>
  BY Zenon DEF Between, GetKernelBootctrl, MediaSelect, NextMedium, Extract, BootOrReset, Goto, media
<1>2. pc \in Outside /\ pc' \in Outside \cup Stopped
  BY Zenon DEF Between, GetKernelBootctrl, MediaSelect, NextMedium, Extract, BootOrReset,
               Goto, Outside, Stopped, NetPcs
<1>3. Clean(storage)' /\ fm_handle' = "null"
  BY <1>1, <1>2, Zenon DEF StoreInv, Clean, Sound
<1> QED BY <1>2, <1>3, CleanStore, Zenon

LEMMA NextStore ==
  ASSUME StoreInv, [Next]_vars
  PROVE  StoreInv'
<1>1. CASE OnMedium
  <2>1. /\ pc \in NetPcs \cup InConf \cup {"partition"}
        /\ Outcome(Ways) /\ UNCHANGED medium
    BY <1>1, OnMediumOutcome, Zenon DEF InAttempt
  <2>2. \/ pc \in NetPcs /\ Ways \subseteq NetPcs
        \/ pc \in InConf /\ Ways \subseteq InConf \cup {"partition"} \cup Stopped
        \/ pc = "partition" /\ Ways \subseteq Stopped
    BY <2>1, Zenon DEF Ways, NetPcs, InConf
  <2> QED BY <2>1, <2>2, OutcomeStore, Zenon
<1>2. CASE UNCHANGED vars
  BY <1>2, Zenon DEF vars, loop, media, StoreInv
<1> QED BY <1>1, <1>2, NextCases, BetweenStore, OpenStore, PublishStore, Zenon

-----------------------------------------------------------------------------
(***************************************************************************)
(* The loop over the boot order.                                           *)
(***************************************************************************)

Skipped == IF SkipsFirst THEN 1 ELSE 0
Attempting == NetPcs \cup {"open", "publish"} \cup InConf \cup {"partition"}

\* Attempts are counted from the first medium that was not skipped, the builtin
\* storage is tried once after all of them, and the loop goes on until then.
LoopInv ==
  /\ boot_order \in Seq(Media) /\ i \in 1..Len(boot_order) + 1 /\ attempt \in Nat
  /\ fallback \in BOOLEAN /\ is_load_done \in BOOLEAN
  /\ pc \in Labels \cup Ended
  /\ pc \in {"bootctrl", "select"} => i = 1 /\ attempt = 0
  /\ pc \notin {"bootctrl", "select"} => attempt = i - 1 - Skipped + (IF fallback THEN 1 ELSE 0)
  /\ fallback => i = Len(boot_order) + 1 /\ medium = "builtin"
  /\ pc \in {"bootctrl", "select", "next"} => ~fallback
  /\ is_load_done => ~fallback /\ pc \notin {"bootctrl", "select"} \cup Attempting
  /\ pc \in NetPcs => medium = "net"
  /\ pc \in Attempting \ NetPcs => medium \in Devices
  /\ pc \in {"extract", "failed"} => fallback \/ is_load_done

\* What a step of an attempt does to the loop.
Turn ==
  /\ pc \in Attempting /\ InAttempt
  /\ \/ pc' = (IF fallback THEN "failed" ELSE "next") /\ is_load_done' = is_load_done
     \/ pc' = (IF fallback THEN "extract" ELSE "next") /\ is_load_done' = ~fallback
     \/ /\ pc' \in Attempting \cup Stopped
        /\ pc' \in Attempting => (pc' \in NetPcs <=> pc \in NetPcs)
        /\ is_load_done' = is_load_done

LEMMA TurnLoop ==
  ASSUME LoopInv, Turn
  PROVE  LoopInv'
<1> DEFINE count == i - 1 - Skipped + (IF fallback THEN 1 ELSE 0)
<1>1. InAttempt /\ pc \in Attempting /\ pc \notin {"bootctrl", "select"} /\ is_load_done = FALSE
  BY Zenon DEF Turn, LoopInv, Attempting, NetPcs, InConf
<1>2. UNCHANGED <<boot_order, i, medium, attempt, fallback>> /\ count' = count /\ attempt = count
  BY <1>1, Zenon DEF InAttempt, Skipped, SkipsFirst, LoopInv
<1> HIDE DEF count
<1>3. CASE pc' = (IF fallback THEN "failed" ELSE "next") /\ is_load_done' = is_load_done
  <2>1. /\ pc' \in {"failed", "next"} /\ (pc' = "next" => ~fallback) /\ (pc' = "failed" => fallback)
        /\ is_load_done' = FALSE
    BY <1>1, <1>3, Zenon
  <2> QED BY <1>2, <2>1, Zenon DEF LoopInv, Labels, Attempting, NetPcs, InConf, count
<1>4. CASE pc' = (IF fallback THEN "extract" ELSE "next") /\ is_load_done' = ~fallback
  <2>1. /\ pc' \in {"extract", "next"} /\ (pc' = "next" => ~fallback) /\ (pc' = "extract" => fallback)
        /\ is_load_done' \in BOOLEAN /\ (is_load_done' <=> ~fallback)
    BY <1>4, Zenon
  <2> QED BY <1>2, <2>1, Zenon DEF LoopInv, Labels, Attempting, NetPcs, InConf, count
<1>5. CASE /\ pc' \in Attempting \cup Stopped
           /\ pc' \in Attempting => (pc' \in NetPcs <=> pc \in NetPcs)
           /\ is_load_done' = is_load_done
  <2>1. /\ pc' \in Labels \cup Ended /\ is_load_done' = FALSE
        /\ pc' \notin {"bootctrl", "select", "next", "extract", "failed"}
    BY <1>1, <1>5, Zenon DEF Attempting, NetPcs, InConf, Stopped, Labels, Ended
  <2>2. (pc' \in NetPcs => pc \in NetPcs) /\ (pc' \in Attempting \ NetPcs => pc \in Attempting \ NetPcs)
    BY <1>1, <1>5, Zenon DEF Attempting
  <2> QED BY <1>1, <1>2, <2>1, <2>2, Zenon DEF LoopInv, count
<1> QED BY <1>3, <1>4, <1>5, Zenon DEF Turn

LEMMA OnMediumTurn ==
  ASSUME OnMedium
  PROVE  Turn
<1>1. /\ pc \in NetPcs \cup InConf \cup {"partition"}
      /\ Outcome(Ways) /\ InAttempt
  BY OnMediumOutcome, Zenon
<1>2. pc \in Attempting
  BY <1>1, Zenon DEF Attempting
<1>3. CASE Failed \/ Loaded
  BY <1>1, <1>2, <1>3, Zenon DEF Failed, FailedWith, Loaded, Turn
<1>4. CASE \E label \in Ways : Goto(label)
  <2>1. pc' \in Ways /\ is_load_done' = is_load_done
    BY <1>4, Zenon DEF Goto
  <2>2. /\ pc' \in Attempting \cup Stopped
        /\ pc' \in Attempting => (pc' \in NetPcs <=> pc \in NetPcs)
    BY <1>1, <2>1, Zenon DEF Ways, Attempting, NetPcs, InConf, Stopped
  <2> QED BY <1>1, <1>2, <2>1, <2>2, Zenon DEF Turn
<1> QED BY <1>1, <1>3, <1>4, Zenon DEF Outcome

LEMMA OpenTurn ==
  ASSUME OpenRemovable \/ OpenBuiltin \/ FmPublish
  PROVE  Turn
<1>1. InAttempt /\ pc \in {"open", "publish"}
  BY Zenon DEF OpenRemovable, OpenBuiltin, FmPublish, InAttempt, boot
<1>2. \/ pc' = (IF fallback THEN "failed" ELSE "next") /\ is_load_done' = is_load_done
      \/ pc' \in {"publish", "conf", "partition"} /\ is_load_done' = is_load_done
  BY Zenon DEF OpenRemovable, OpenBuiltin, FmPublish, NotMounted, Failed, FailedWith
<1>3. pc \in Attempting /\ pc \notin NetPcs
  BY <1>1, Zenon DEF Attempting, NetPcs
<1>4. pc' \in {"publish", "conf", "partition"} => pc' \in Attempting /\ pc' \notin NetPcs
  BY Zenon DEF Attempting, NetPcs, InConf
<1> QED BY <1>1, <1>2, <1>3, <1>4, Zenon DEF Turn

LEMMA BetweenLoop ==
  ASSUME LoopInv, Between
  PROVE  LoopInv'
<1> USE DEF boot, loop, media, Goto
<1>1. CASE GetKernelBootctrl
  <2>1. /\ pc = "bootctrl" /\ pc' = "select"
        /\ UNCHANGED <<boot_order, i, medium, attempt, fallback, is_load_done>>
    BY <1>1, Zenon DEF GetKernelBootctrl
  <2> QED BY <2>1, Zenon DEF LoopInv, Labels, Attempting, NetPcs, InConf
<1>2. CASE MediaSelect
  <2>1. /\ pc = "select" /\ pc' = "next" /\ i' = (IF SkipsFirst THEN 2 ELSE 1)
        /\ UNCHANGED <<slot, boot_order, medium, attempt, fallback, is_load_done>>
    BY <1>2, Zenon DEF MediaSelect
  <2>2. Skipped' = Skipped /\ attempt' = 0 /\ ~fallback /\ boot_order \in Seq(Media)
    BY <2>1, Zenon DEF Skipped, SkipsFirst, LoopInv
  <2>3. i' \in 1..Len(boot_order) + 1 /\ 0 = i' - 1 - Skipped + 0
    BY <2>1, <2>2 DEF Skipped, SkipsFirst
  <2>4. attempt' = i' - 1 - Skipped' + (IF fallback' THEN 1 ELSE 0)
    BY <2>1, <2>2, <2>3, Zenon
  <2> QED BY <2>1, <2>2, <2>3, <2>4, Zenon DEF LoopInv, Labels, Attempting, NetPcs, InConf
<1>3. CASE NextMedium /\ is_load_done
  <2>1. /\ pc = "next" /\ pc' = "extract"
        /\ UNCHANGED <<slot, boot_order, i, medium, attempt, fallback, is_load_done>>
    BY <1>3, Zenon DEF NextMedium
  <2> QED BY <1>3, <2>1, Zenon DEF LoopInv, Labels, Attempting, NetPcs, InConf, Skipped, SkipsFirst
<1>4. CASE NextMedium /\ ~is_load_done
  <2>1. /\ pc = "next" /\ attempt' = attempt + 1 /\ fallback' = (i > Len(boot_order))
        /\ medium' = (IF fallback' THEN "builtin" ELSE boot_order[i])
        /\ i' = (IF fallback' THEN i ELSE i + 1)
        /\ pc' = (IF medium' = "net" THEN "net" ELSE "open")
        /\ UNCHANGED <<slot, boot_order, is_load_done>>
    BY <1>4, Zenon DEF NextMedium
  <2>2. /\ boot_order \in Seq(Media) /\ i \in 1..Len(boot_order) + 1 /\ attempt \in Nat
        /\ ~fallback /\ Skipped' = Skipped /\ attempt = i - 1 - Skipped + 0
    BY <2>1, Zenon DEF LoopInv, Skipped, SkipsFirst
  <2>3. /\ fallback' \in BOOLEAN /\ i' \in 1..Len(boot_order) + 1 /\ attempt' \in Nat
        /\ fallback' => i' = Len(boot_order) + 1
    <3>1. i + 1 \in 1..Len(boot_order) + 1 \/ i > Len(boot_order)
      BY <2>2
    <3>2. i > Len(boot_order) => i = Len(boot_order) + 1
      BY <2>2
    <3>3. attempt + 1 \in Nat
      BY <2>2
    <3>4. fallback' \in BOOLEAN
      <4>1. (i > Len(boot_order)) \in BOOLEAN
        OBVIOUS
      <4> QED BY <2>1, <4>1, Zenon
    <3> QED BY <2>1, <2>2, <3>1, <3>2, <3>3, <3>4, Zenon
  <2>4. attempt' = i' - 1 - Skipped' + (IF fallback' THEN 1 ELSE 0)
    <3>1. Skipped \in Int
      BY DEF Skipped
    <3>2. attempt + 1 = i - 1 - Skipped + 1 /\ attempt + 1 = (i + 1) - 1 - Skipped + 0
      BY <3>1, <2>2
    <3> QED BY <2>1, <2>2, <3>2, Zenon
  <2>5. medium' \in Media
    <3>1. i > Len(boot_order) \/ i \in 1..Len(boot_order)
      BY <2>2
    <3>2. i \in 1..Len(boot_order) => boot_order[i] \in Media
      BY <2>2
    <3> QED BY <2>1, <3>1, <3>2, Zenon DEF Media
  <2>6. (pc' = "net" /\ medium' = "net") \/ (pc' = "open" /\ medium' \in Devices)
    BY <2>1, <2>5, Zenon DEF Media, Devices
  <2>7. fallback' => medium' = "builtin"
    BY <2>1, Zenon
  <2> QED BY <1>4, <2>1, <2>2, <2>3, <2>4, <2>6, <2>7, Zenon
          DEF LoopInv, Labels, Attempting, NetPcs, InConf
<1>5. CASE Extract \/ BootOrReset
  <2>1. /\ UNCHANGED <<slot, boot_order, i, medium, attempt, fallback, is_load_done>>
        /\ \/ pc = "extract" /\ pc' \in {"loaded", "failed"}
           \/ pc \in {"loaded", "failed"} /\ pc' \in {"kernel_entry", "reset"}
    BY <1>5, Zenon DEF Extract, BootOrReset
  <2> QED BY <2>1, Zenon DEF LoopInv, Labels, Ended, Attempting, NetPcs, InConf, Skipped, SkipsFirst
<1> QED BY <1>1, <1>2, <1>3, <1>4, <1>5, Zenon DEF Between

LEMMA NextLoop ==
  ASSUME LoopInv, [Next]_vars
  PROVE  LoopInv'
<1>1. CASE UNCHANGED vars
  BY <1>1, Zenon DEF vars, boot, loop, LoopInv, Skipped, SkipsFirst
<1> QED BY <1>1, NextCases, BetweenLoop, OpenTurn, OnMediumTurn, TurnLoop, Zenon

LEMMA InitLoop == Init => LoopInv
<1> SUFFICES ASSUME Init PROVE LoopInv
  OBVIOUS
<1>1. boot_order \in Seq(Media)
  <2>1. default_boot_order \in Seq(Media)
    BY DEF default_boot_order, Media
  <2> QED BY <2>1, OrderType, Zenon DEF Init
<1>2. i \in 1..Len(boot_order) + 1 /\ 0 \in Nat
  BY <1>1 DEF Init
<1> QED BY <1>1, <1>2, Zenon DEF Init, LoopInv, Labels, Attempting, NetPcs, InConf

-----------------------------------------------------------------------------
(***************************************************************************)
(* The images, the conf and the read requests.                             *)
(***************************************************************************)

ConfType == [num : 0..MaxEntries, default : 1..MaxEntries, sections : {"none", "live", "freed"}]
EntryType == [linux : BOOLEAN, fdt : BOOLEAN, initrd : BOOLEAN, of : 0..attempt]
ImgType == [kernel : Images, dtb : Images, ramdisk : Images, args : Images]

RestType ==
  /\ slot \in {0, 1} /\ mode \in Modes /\ medium \in Media \cup {"none"}
  /\ conf \in ConfType /\ entry \in EntryType /\ success \in BOOLEAN /\ img \in ImgType
  /\ retry \in 0..TFTP_MAX_RRQ_RETRIES
  /\ pc \in NetPcs \ {"net_validate"} => retry < TFTP_MAX_RRQ_RETRIES

\* Loaded by this attempt, from its medium or from the builtin storage.
Own(image) == image.attempt = attempt /\ image.from \in {medium, "builtin"}
OwnNormal(image) == Own(image) /\ image.mode = "normal"

\* An attempt has loaded what will be entered.
Done == pc \in {"extract", "loaded", "kernel_entry"} \/ (pc = "next" /\ is_load_done)

\* What an attempt has loaded so far; the ramdisk and the success of extlinux come
\* last, so that none of an earlier attempt is there.
ImgInv ==
  /\ pc \in {"dtb", "ramdisk", "net_validate"} => OwnNormal(img.kernel)
  /\ pc \in {"tftp_img", "ramdisk", "net_validate"} => OwnNormal(img.dtb)
  /\ pc \in {"kernel", "dtb", "ramdisk"} => entry.of = attempt
  /\ Done => /\ Own(img.kernel) /\ Own(img.dtb) /\ img.kernel.mode = img.dtb.mode
             /\ success => entry.of = attempt
             /\ img.ramdisk.attempt \in {0, attempt}
  /\ ~Done /\ pc \notin {"failed", "reset"} => ~success /\ img.ramdisk.attempt = 0
  /\ pc \in {"loaded", "kernel_entry"} => img.args.attempt \in {0, attempt}
  /\ pc \notin {"loaded", "kernel_entry"} => img.args.attempt = 0

LEMMA KeepType ==
  ASSUME RestType, InAttempt, conf' \in ConfType, entry' \in EntryType, success' \in BOOLEAN,
         img' \in ImgType, retry' \in 0..TFTP_MAX_RRQ_RETRIES,
         pc' \in NetPcs \ {"net_validate"} => retry' < TFTP_MAX_RRQ_RETRIES
  PROVE  RestType'
<1>1. UNCHANGED <<slot, mode, medium, attempt>>
  BY Zenon DEF InAttempt
<1>2. EntryType' = EntryType /\ ImgType' = ImgType
  BY <1>1, Zenon DEF EntryType, ImgType, Images
<1>3. ConfType' = ConfType
  BY Zenon DEF ConfType
<1> QED BY <1>1, <1>2, <1>3, Zenon DEF RestType

\* What holds while an attempt goes on.
LEMMA NothingYet ==
  ASSUME LoopInv, ImgInv, pc \in Attempting
  PROVE  ~Done /\ ~success /\ img.ramdisk.attempt = 0 /\ img.args.attempt = 0 /\ is_load_done = FALSE
<1>1. pc \notin {"extract", "loaded", "kernel_entry", "next", "failed", "reset"}
  BY Zenon DEF Attempting, NetPcs, InConf
<1> QED BY <1>1, Zenon DEF LoopInv, ImgInv, Done

\* The attempt fails or the boot stops: what it has loaded so far does not count.
LEMMA FailImg ==
  ASSUME LoopInv, ImgInv, pc \in Attempting, InAttempt, is_load_done' = is_load_done,
         pc' \in {"failed", "next"} \cup Stopped, success' = success,
         img'.ramdisk = img.ramdisk, img'.args = img.args
  PROVE  ImgInv'
<1>1. ~success' /\ img'.ramdisk.attempt = 0 /\ img'.args.attempt = 0 /\ is_load_done' = FALSE
  BY NothingYet, Zenon
<1>2. pc' \notin {"dtb", "ramdisk", "net_validate", "tftp_img", "kernel", "extract", "loaded", "kernel_entry"}
  BY Zenon DEF Stopped
<1> QED BY <1>1, <1>2, Zenon DEF ImgInv, Done

\* The attempt has loaded everything.
LEMMA LoadImg ==
  ASSUME LoopInv, ImgInv, pc \in Attempting, InAttempt,
         pc' = IF fallback THEN "extract" ELSE "next", is_load_done' = ~fallback,
         Own(img.kernel)', Own(img.dtb)', img'.kernel.mode = img'.dtb.mode,
         success' => entry'.of = attempt, img'.ramdisk.attempt \in {0, attempt},
         img'.args = img.args
  PROVE  ImgInv'
<1>1. img'.args.attempt = 0 /\ attempt' = attempt
  BY NothingYet, Zenon DEF InAttempt
<1>2. Done' /\ pc' \in {"extract", "next"}
  BY Zenon DEF Done
<1> QED BY <1>1, <1>2, Zenon DEF ImgInv

\* The attempt goes on.
LEMMA GoImg ==
  ASSUME LoopInv, ImgInv, pc \in Attempting, InAttempt, pc' \in Attempting, success' = success,
         img'.ramdisk = img.ramdisk, img'.args = img.args,
         pc' \in {"dtb", "ramdisk", "net_validate"} => OwnNormal(img.kernel)',
         pc' \in {"tftp_img", "ramdisk", "net_validate"} => OwnNormal(img.dtb)',
         pc' \in {"kernel", "dtb", "ramdisk"} => entry'.of = attempt
  PROVE  ImgInv'
<1>1. /\ ~success' /\ img'.ramdisk.attempt = 0 /\ img'.args.attempt = 0 /\ attempt' = attempt
  BY NothingYet, Zenon DEF InAttempt
<1>2. pc' \notin {"next", "extract", "loaded", "kernel_entry"}
  BY Zenon DEF Attempting, NetPcs, InConf
<1> QED BY <1>1, <1>2, Zenon DEF ImgInv, Done

\* An image that this attempt reads.
LEMMA ReadImage ==
  ASSUME attempt \in Nat, NEW m \in Modes, NEW from \in Media, from \in {medium, "builtin"},
         NEW form \in {"raw", "bootimg"}
  PROVE  /\ ImageFor(m, from, form) \in Images /\ Own(ImageFor(m, from, form))
         /\ ImageFor(m, from, form).mode = m
<1>1. attempt \in 0..attempt
  OBVIOUS
<1> QED BY <1>1, Zenon DEF ImageFor, Images, Own

\* Files come from the medium, partitions from it or from the builtin storage.
LEMMA Sources ==
  ASSUME StoreInv
  PROVE  /\ pc \in InConf => FileSource = medium
         /\ pc \in InConf \cup {"partition"} => PartitionSources \subseteq {medium, "builtin"}
<1>1. pc \in InConf => storage.mounts = <<[dev |-> medium, ref |-> 1]>>
  BY Zenon DEF StoreInv, Mounted
<1>2. pc \in InConf \cup {"partition"} => storage.published \in {{"builtin"}, {"builtin", medium}}
  BY Zenon DEF StoreInv, Mounted, Unmounted, Opened
<1>3. storage.mounts = <<[dev |-> medium, ref |-> 1]>> => storage.mounts[1].dev = medium
  OBVIOUS
<1> QED BY <1>1, <1>2, <1>3, FindOwn, Zenon DEF FileSource, PartitionSources

LEMMA SetKernel ==
  ASSUME img \in ImgType, NEW x \in Images, img' = [img EXCEPT !.kernel = x]
  PROVE  /\ img' \in ImgType /\ img'.kernel = x
         /\ img'.dtb = img.dtb /\ img'.ramdisk = img.ramdisk /\ img'.args = img.args
BY Zenon DEF ImgType

LEMMA SetDtb ==
  ASSUME img \in ImgType, NEW x \in Images, img' = [img EXCEPT !.dtb = x]
  PROVE  /\ img' \in ImgType /\ img'.dtb = x
         /\ img'.kernel = img.kernel /\ img'.ramdisk = img.ramdisk /\ img'.args = img.args
BY Zenon DEF ImgType

LEMMA SetRamdisk ==
  ASSUME img \in ImgType, NEW x \in Images, img' = [img EXCEPT !.ramdisk = x]
  PROVE  /\ img' \in ImgType /\ img'.ramdisk = x
         /\ img'.kernel = img.kernel /\ img'.dtb = img.dtb /\ img'.args = img.args
BY Zenon DEF ImgType

LEMMA FreedConf ==
  ASSUME conf \in ConfType,
         \/ UNCHANGED conf
         \/ conf' = [conf EXCEPT !.sections = IF conf.num > 0 THEN "freed" ELSE conf.sections]
  PROVE  conf' \in ConfType
BY Zenon DEF ConfType

Inv == StoreInv /\ LoopInv /\ RestType /\ ImgInv

\* What the network has loaded is of this attempt.
LEMMA NetImg ==
  ASSUME Inv, NetBootStackInit \/ TftpClientRecv \/ NetValidate
  PROVE  RestType' /\ ImgInv'
<1>1. /\ InAttempt /\ UNCHANGED <<conf, entry, success>> /\ pc \in NetPcs /\ pc \in Attempting
  BY Zenon DEF NetBootStackInit, TftpClientRecv, NetValidate, InAttempt, boot, extlinux, NetPcs, Attempting
<1>2. LoopInv /\ ImgInv /\ RestType /\ medium = "net" /\ attempt \in Nat
  BY <1>1, Zenon DEF Inv, LoopInv
<1>3. conf' \in ConfType /\ entry' \in EntryType /\ success' \in BOOLEAN /\ img \in ImgType
  BY <1>1, <1>2, Zenon DEF RestType
<1>4. ASSUME NEW img1, img' = img1, img1.ramdisk = img.ramdisk, img1.args = img.args, Failed
      PROVE  ImgInv'
  BY <1>1, <1>2, <1>4, FailImg, Zenon DEF Failed, FailedWith
<1>5. ASSUME Failed \/ Loaded PROVE pc' \notin NetPcs \ {"net_validate"}
  BY <1>5, Zenon DEF Failed, FailedWith, Loaded, NetPcs
<1>6. 0 \in 0..TFTP_MAX_RRQ_RETRIES /\ 0 < TFTP_MAX_RRQ_RETRIES
  BY LimitAssumption
<1>7. CASE NetBootStackInit
  <2>1. img' = img /\ retry' = retry /\ pc = "net"
    BY <1>7, Zenon DEF NetBootStackInit
  <2>2. retry < TFTP_MAX_RRQ_RETRIES
    BY <1>2, <2>1, Zenon DEF RestType, NetPcs
  <2>3. RestType'
    BY <1>1, <1>2, <1>3, <2>1, <2>2, KeepType, Zenon DEF RestType
  <2>4. CASE Failed
    BY <1>4, <2>1, <2>3, <2>4, Zenon
  <2>5. CASE Goto("tftp_dtb")
    BY <1>1, <1>2, <2>1, <2>3, <2>5, GoImg, Zenon DEF Goto, Attempting, NetPcs
  <2> QED BY <1>7, <2>3, <2>4, <2>5, Zenon DEF NetBootStackInit
<1>8. CASE NetValidate
  <2>1. img' = img /\ retry' = retry /\ pc = "net_validate" /\ (Failed \/ Loaded)
    BY <1>8, Zenon DEF NetValidate
  <2>2. RestType'
    BY <1>1, <1>2, <1>3, <1>5, <2>1, KeepType, Zenon DEF RestType
  <2>3. CASE Failed
    BY <1>4, <2>1, <2>2, <2>3, Zenon
  <2>4. CASE Loaded
    <3>1. OwnNormal(img.kernel) /\ OwnNormal(img.dtb) /\ ~success /\ img.ramdisk.attempt = 0
      BY <1>1, <1>2, <2>1, NothingYet, Zenon DEF ImgInv
    <3>2. Own(img.kernel)' /\ Own(img.dtb)' /\ img'.kernel.mode = img'.dtb.mode
      BY <1>1, <2>1, <3>1, Zenon DEF OwnNormal, Own, InAttempt
    <3> QED BY <1>1, <1>2, <2>1, <2>2, <2>4, <3>1, <3>2, LoadImg, Zenon DEF Loaded
  <2> QED BY <2>1, <2>2, <2>3, <2>4, Zenon
<1>9. CASE TftpClientRecv
  <2>0. pc \in {"tftp_dtb", "tftp_img"} /\ retry < TFTP_MAX_RRQ_RETRIES
    BY <1>2, <1>9, Zenon DEF TftpClientRecv, RestType, NetPcs
  <2>1. CASE Failed /\ UNCHANGED <<retry, img>>
    <3>1. RestType'
      BY <1>1, <1>2, <1>3, <1>5, <2>1, KeepType, Zenon DEF RestType
    <3> QED BY <1>4, <2>1, <3>1, Zenon
  <2>2. CASE RequestAgain /\ UNCHANGED img
    <3>1. retry' = retry + 1 /\ img' = img
      BY <2>2, Zenon DEF RequestAgain
    <3>2. retry' \in 0..TFTP_MAX_RRQ_RETRIES /\ (~Exhausted(retry + 1) => retry' < TFTP_MAX_RRQ_RETRIES)
      BY <1>2, <2>0, <3>1, LimitAssumption DEF RestType, Exhausted
    <3>3. CASE Exhausted(retry + 1)
      <4>1. Failed
        BY <2>2, <3>3, Zenon DEF RequestAgain
      <4>2. RestType'
        BY <1>1, <1>2, <1>3, <1>5, <3>1, <3>2, <4>1, KeepType, Zenon
      <4> QED BY <1>4, <3>1, <4>1, <4>2, Zenon
    <3>4. CASE ~Exhausted(retry + 1)
      <4>1. pc' = pc
        BY <2>2, <3>4, Zenon DEF RequestAgain, Goto
      <4>2. RestType'
        BY <1>1, <1>2, <1>3, <3>1, <3>2, <3>4, KeepType, Zenon
      <4>3. pc = "tftp_img" => OwnNormal(img.dtb)'
        BY <1>1, <1>2, <3>1, Zenon DEF ImgInv, OwnNormal, Own, InAttempt
      <4>4. ImgInv'
        BY <1>1, <1>2, <2>0, <3>1, <4>1, <4>3, GoImg, Zenon
      <4> QED BY <4>2, <4>4, Zenon
    <3> QED BY <3>3, <3>4, Zenon
  <2>3. CASE /\ img' = IF pc = "tftp_dtb" THEN [img EXCEPT !.dtb = Image("net", "raw")]
                       ELSE [img EXCEPT !.kernel = Image("net", "bootimg")]
             /\ IF Exhausted(retry + 1) THEN Failed
                ELSE Goto(IF pc = "tftp_dtb" THEN "tftp_img" ELSE "net_validate")
             /\ retry' = 0
    <3>1. /\ Image("net", "raw") \in Images /\ OwnNormal(Image("net", "raw"))
          /\ Image("net", "bootimg") \in Images /\ OwnNormal(Image("net", "bootimg"))
      BY <1>2, ReadImage, Zenon DEF Image, OwnNormal, Media, Modes
    <3>2. /\ img' \in ImgType /\ img'.ramdisk = img.ramdisk /\ img'.args = img.args
          /\ pc = "tftp_dtb" => OwnNormal(img'.dtb)
          /\ pc = "tftp_img" => OwnNormal(img'.kernel) /\ img'.dtb = img.dtb
      BY <1>3, <2>0, <2>3, <3>1, SetDtb, SetKernel, Zenon
    <3>3. /\ pc = "tftp_dtb" => OwnNormal(img.dtb)'
          /\ pc = "tftp_img" => OwnNormal(img.kernel)' /\ OwnNormal(img.dtb)'
      BY <1>1, <1>2, <3>2, Zenon DEF ImgInv, OwnNormal, Own, InAttempt
    <3>4. RestType'
      BY <1>1, <1>2, <1>3, <1>6, <2>3, <3>2, KeepType, Zenon
    <3>5. CASE Failed
      BY <1>4, <3>2, <3>4, <3>5, Zenon
    <3>6. CASE Goto(IF pc = "tftp_dtb" THEN "tftp_img" ELSE "net_validate")
      <4>1. /\ pc' \in {"tftp_img", "net_validate"}
            /\ pc' = "tftp_img" => pc = "tftp_dtb"
            /\ pc' = "net_validate" => pc = "tftp_img"
        BY <2>0, <3>6, Zenon DEF Goto
      <4>2. pc' \in Attempting
        BY <4>1, Zenon DEF Attempting, NetPcs
      <4>3. ImgInv'
        BY <1>1, <1>2, <3>2, <3>3, <4>1, <4>2, GoImg, Zenon
      <4> QED BY <3>4, <4>3, Zenon
    <3> QED BY <2>3, <3>5, <3>6, Zenon
  <2> QED BY <1>9, <2>1, <2>2, <2>3, Zenon DEF TftpClientRecv
<1> QED BY <1>7, <1>8, <1>9, Zenon

\* Opening, publishing and mounting load nothing.
LEMMA OpenImg ==
  ASSUME Inv, OpenRemovable \/ OpenBuiltin \/ FmPublish
  PROVE  RestType' /\ ImgInv'
<1>1. /\ InAttempt /\ UNCHANGED <<conf, entry, success, img, retry>> /\ pc \in Attempting
  BY Zenon DEF OpenRemovable, OpenBuiltin, FmPublish, InAttempt, boot, extlinux, Attempting
<1>2. /\ pc' \in {"failed", "next", "publish", "conf", "partition"}
      /\ is_load_done' = is_load_done
  BY Zenon DEF OpenRemovable, OpenBuiltin, FmPublish, NotMounted, Failed, FailedWith
<1>3. LoopInv /\ ImgInv /\ RestType
  BY Zenon DEF Inv
<1>4. RestType'
  <2>1. pc' \notin NetPcs
    BY <1>2, Zenon DEF NetPcs
  <2> QED BY <1>1, <1>3, <2>1, KeepType, Zenon DEF RestType
<1>5. CASE pc' \in {"failed", "next"}
  BY <1>1, <1>2, <1>3, <1>4, <1>5, FailImg, Zenon
<1>6. CASE pc' \in {"publish", "conf", "partition"}
  <2>1. pc' \in Attempting
    BY <1>6, Zenon DEF Attempting, InConf
  <2>2. ImgInv'
    BY <1>1, <1>3, <1>6, <2>1, GoImg, Zenon
  <2> QED BY <1>4, <2>2, Zenon
<1> QED BY <1>2, <1>5, <1>6, Zenon

\* What the steps on the file system have in common.
LEMMA ConfFacts ==
  ASSUME Inv, pc \in InConf
  PROVE  /\ StoreInv /\ LoopInv /\ RestType /\ ImgInv /\ pc \in Attempting
         /\ attempt \in Nat /\ medium \in Devices /\ medium \in Media
<1>1. pc \in Attempting /\ pc \notin NetPcs
  BY Zenon DEF Attempting, InConf, NetPcs
<1>2. medium \in Devices /\ attempt \in Nat
  BY <1>1, Zenon DEF Inv, LoopInv
<1> QED BY <1>1, <1>2, Zenon DEF Inv, Devices, Media

\* The partitions are tried, the attempt fails, or a section is freed twice.
LEMMA FallbackImg ==
  ASSUME Inv, pc \in InConf, InAttempt, UNCHANGED <<entry, success, img, retry>>,
         FreeSections(Fallback)
  PROVE  RestType' /\ ImgInv'
<1>1. /\ LoopInv /\ ImgInv /\ RestType /\ pc \in Attempting
  BY ConfFacts, Zenon
<1>2. /\ pc' \in {"failed", "next", "partition", "corrupt"} /\ is_load_done' = is_load_done
  BY Zenon DEF FreeSections, Fallback, Goto, Failed, FailedWith
<1>3. conf' \in ConfType
  BY <1>1, FreedConf, Zenon DEF FreeSections, RestType
<1>4. RestType'
  <2>1. pc' \notin NetPcs
    BY <1>2, Zenon DEF NetPcs
  <2> QED BY <1>1, <1>3, <2>1, KeepType, Zenon DEF RestType
<1>5. CASE pc' \in {"failed", "next", "corrupt"}
  BY <1>1, <1>2, <1>4, <1>5, FailImg, Zenon DEF Stopped
<1>6. CASE pc' = "partition"
  <2>1. pc' \in Attempting
    BY <1>6, Zenon DEF Attempting
  <2>2. ImgInv'
    BY <1>1, <1>6, <2>1, GoImg, Zenon
  <2> QED BY <1>4, <2>2, Zenon
<1> QED BY <1>2, <1>5, <1>6, Zenon

\* The entry that is booted is of the conf of this attempt.
LEMMA ConfImg ==
  ASSUME Inv, ConfNotRead \/ ParseConfFile
  PROVE  RestType' /\ ImgInv'
<1>1. pc = "conf" /\ pc \in InConf /\ InAttempt /\ UNCHANGED <<success, img, retry>>
  BY Zenon DEF ConfNotRead, ParseConfFile, InConf, InAttempt, boot
<1>2. /\ LoopInv /\ ImgInv /\ RestType /\ pc \in Attempting /\ attempt \in Nat
  BY <1>1, ConfFacts, Zenon
<1>3. CASE ConfNotRead
  BY <1>1, <1>3, FallbackImg, Zenon DEF ConfNotRead
<1>4. CASE ParseConfFile
  <2>1. pc' \in {"kernel", "bad_conf"} /\ is_load_done' = is_load_done
    BY <1>4, Zenon DEF ParseConfFile, Goto
  <2>2. /\ conf' \in ConfType /\ entry' \in EntryType
        /\ pc' = "kernel" => entry'.of = attempt
    <3>1. CASE Goto("bad_conf") /\ UNCHANGED <<conf, entry>>
      BY <1>2, <3>1, Zenon DEF RestType, Goto
    <3>2. ASSUME NEW num \in 1..MaxEntries, NEW match \in 0..MaxEntries,
                 NEW linux \in BOOLEAN, NEW fdt \in BOOLEAN, NEW initrd \in BOOLEAN,
                 match <= num,
                 conf' = [num |-> num, default |-> IF match = 0 THEN conf.default ELSE match,
                          sections |-> "live"],
                 entry' = [linux |-> linux, fdt |-> fdt, initrd |-> initrd, of |-> attempt]
          PROVE  conf' \in ConfType /\ entry' \in EntryType /\ entry'.of = attempt
      <4>1. attempt \in 0..attempt /\ num \in 0..MaxEntries /\ (match = 0 \/ match \in 1..MaxEntries)
        BY <1>2, LimitAssumption
      <4>2. conf.default \in 1..MaxEntries
        BY <1>2, Zenon DEF RestType, ConfType
      <4>3. conf' \in ConfType
        BY <3>2, <4>1, <4>2, Zenon DEF ConfType
      <4>4. entry' \in EntryType /\ entry'.of = attempt
        BY <3>2, <4>1, Zenon DEF EntryType
      <4> QED BY <4>3, <4>4, Zenon
    <3> QED BY <1>4, <3>1, <3>2 DEF ParseConfFile
  <2>3. RestType'
    <3>1. pc' \notin NetPcs
      BY <2>1, Zenon DEF NetPcs
    <3> QED BY <1>1, <1>2, <2>2, <3>1, KeepType, Zenon DEF RestType
  <2>4. CASE pc' = "kernel"
    <3>1. pc' \in Attempting
      BY <2>4, Zenon DEF Attempting, InConf
    <3>2. ImgInv'
      BY <1>1, <1>2, <2>2, <2>4, <3>1, GoImg, Zenon
    <3> QED BY <2>3, <3>2, Zenon
  <2>5. CASE pc' = "bad_conf"
    <3>1. pc' \in {"failed", "next"} \cup Stopped
      BY <2>5, Zenon DEF Stopped
    <3>2. ImgInv'
      BY <1>1, <1>2, <2>1, <3>1, FailImg, Zenon
    <3> QED BY <2>3, <3>2, Zenon
  <2> QED BY <2>1, <2>4, <2>5, Zenon
<1> QED BY <1>3, <1>4, Zenon

\* A binary that extlinux.conf names is read by this attempt: the file of the
\* medium, or a partition.
LEMMA BinaryOwn ==
  ASSUME Inv, pc \in InConf, NEW form \in {"raw", "bootimg"},
         NEW from \in {FileSource} \cup PartitionSources
  PROVE  Image(from, form) \in Images /\ OwnNormal(Image(from, form))
<1>1. from \in {medium, "builtin"} /\ from \in Media /\ attempt \in Nat
  BY ConfFacts, Sources, Zenon DEF Media
<1> QED BY <1>1, ReadImage, Zenon DEF Image, OwnNormal, Modes

LEMMA KernelImg ==
  ASSUME Inv, ExtlinuxLoadKernel
  PROVE  RestType' /\ ImgInv'
<1>1. pc = "kernel" /\ pc \in InConf /\ InAttempt /\ UNCHANGED <<entry, success, retry>>
  BY Zenon DEF ExtlinuxLoadKernel, InConf, InAttempt, boot
<1>2. /\ LoopInv /\ ImgInv /\ RestType /\ pc \in Attempting /\ attempt \in Nat
  BY <1>1, ConfFacts, Zenon
<1>3. CASE FreeSections(Fallback) /\ UNCHANGED img
  BY <1>1, <1>3, FallbackImg, Zenon
<1>4. CASE Reset /\ UNCHANGED <<img, conf>>
  <2>1. pc' = "reset" /\ is_load_done' = is_load_done
    BY <1>4, Zenon DEF Reset, Goto
  <2>2. RestType'
    BY <1>1, <1>2, <1>4, <2>1, KeepType, Zenon DEF RestType, NetPcs
  <2>3. ImgInv'
    BY <1>1, <1>2, <1>4, <2>1, FailImg, Zenon DEF Stopped
  <2> QED BY <2>2, <2>3, Zenon
<1>5. ASSUME NEW form \in {"raw", "bootimg"}, NEW from \in {FileSource} \cup PartitionSources,
             img' = [img EXCEPT !.kernel = Image(from, form)], Goto("dtb"), UNCHANGED conf
      PROVE  RestType' /\ ImgInv'
  <2>1. Image(from, form) \in Images /\ OwnNormal(Image(from, form)) /\ img \in ImgType
    BY <1>1, <1>2, <1>5, BinaryOwn, Zenon DEF RestType
  <2>2. /\ img' \in ImgType /\ img'.kernel = Image(from, form)
        /\ img'.ramdisk = img.ramdisk /\ img'.args = img.args
    BY <1>5, <2>1, SetKernel, Zenon
  <2>3. OwnNormal(img.kernel)' /\ entry'.of = attempt
    <3>1. OwnNormal(img'.kernel)
      BY <2>1, <2>2, Zenon
    <3> QED BY <1>1, <1>2, <3>1, Zenon DEF ImgInv, OwnNormal, Own, InAttempt
  <2>4. pc' = "dtb" /\ pc' \in Attempting /\ pc' \notin NetPcs
    BY <1>5, Zenon DEF Goto, Attempting, InConf, NetPcs
  <2>5. RestType'
    BY <1>1, <1>2, <1>5, <2>2, <2>4, KeepType, Zenon DEF RestType
  <2>6. ImgInv'
    BY <1>1, <1>2, <2>2, <2>3, <2>4, GoImg, Zenon
  <2> QED BY <2>5, <2>6, Zenon
<1> QED BY <1>3, <1>4, <1>5, Zenon DEF ExtlinuxLoadKernel, LoadBinaryWithSig

LEMMA DtbImg ==
  ASSUME Inv, ExtlinuxLoadDtb
  PROVE  RestType' /\ ImgInv'
<1>1. pc = "dtb" /\ pc \in InConf /\ InAttempt /\ UNCHANGED <<entry, success, retry>>
  BY Zenon DEF ExtlinuxLoadDtb, InConf, InAttempt, boot
<1>2. /\ LoopInv /\ ImgInv /\ RestType /\ pc \in Attempting /\ attempt \in Nat
  BY <1>1, ConfFacts, Zenon
<1>3. CASE FreeSections(Fallback) /\ UNCHANGED img
  BY <1>1, <1>3, FallbackImg, Zenon
<1>4. CASE Reset /\ UNCHANGED <<img, conf>>
  <2>1. pc' = "reset" /\ is_load_done' = is_load_done
    BY <1>4, Zenon DEF Reset, Goto
  <2>2. RestType'
    BY <1>1, <1>2, <1>4, <2>1, KeepType, Zenon DEF RestType, NetPcs
  <2>3. ImgInv'
    BY <1>1, <1>2, <1>4, <2>1, FailImg, Zenon DEF Stopped
  <2> QED BY <2>2, <2>3, Zenon
<1>5. ASSUME NEW from \in {FileSource} \cup PartitionSources,
             img' = [img EXCEPT !.dtb = Image(from, "raw")], FreeSections(Goto("ramdisk"))
      PROVE  RestType' /\ ImgInv'
  <2>1. Image(from, "raw") \in Images /\ OwnNormal(Image(from, "raw")) /\ img \in ImgType
    BY <1>1, <1>2, <1>5, BinaryOwn, Zenon DEF RestType
  <2>2. /\ img' \in ImgType /\ img'.dtb = Image(from, "raw") /\ img'.kernel = img.kernel
        /\ img'.ramdisk = img.ramdisk /\ img'.args = img.args
    BY <1>5, <2>1, SetDtb, Zenon
  <2>3. OwnNormal(img.kernel)' /\ OwnNormal(img.dtb)' /\ entry'.of = attempt
    <3>1. OwnNormal(img'.kernel) /\ OwnNormal(img'.dtb) /\ entry'.of = attempt
      BY <1>1, <1>2, <2>1, <2>2, Zenon DEF ImgInv
    <3> QED BY <1>1, <3>1, Zenon DEF OwnNormal, Own, InAttempt
  <2>4. conf' \in ConfType
    BY <1>2, <1>5, FreedConf, Zenon DEF FreeSections, RestType
  <2>5. pc' \in {"corrupt", "ramdisk"} /\ is_load_done' = is_load_done /\ pc' \notin NetPcs
    BY <1>5, Zenon DEF FreeSections, Goto, NetPcs
  <2>6. RestType'
    BY <1>1, <1>2, <2>2, <2>4, <2>5, KeepType, Zenon DEF RestType
  <2>7. CASE pc' = "ramdisk"
    <3>1. pc' \in Attempting
      BY <2>7, Zenon DEF Attempting, InConf
    <3>2. ImgInv'
      BY <1>1, <1>2, <2>2, <2>3, <2>7, <3>1, GoImg, Zenon
    <3> QED BY <2>6, <3>2, Zenon
  <2>8. CASE pc' = "corrupt"
    BY <1>1, <1>2, <2>2, <2>5, <2>6, <2>8, FailImg, Zenon DEF Stopped
  <2> QED BY <2>5, <2>7, <2>8, Zenon
<1> QED BY <1>3, <1>4, <1>5, Zenon DEF ExtlinuxLoadDtb, LoadBinaryWithSig

LEMMA RamdiskImg ==
  ASSUME Inv, ExtlinuxLoadRamdisk
  PROVE  RestType' /\ ImgInv'
<1>1. pc = "ramdisk" /\ pc \in InConf /\ InAttempt /\ UNCHANGED <<conf, entry, retry>>
  BY Zenon DEF ExtlinuxLoadRamdisk, InConf, InAttempt, boot
<1>2. /\ LoopInv /\ ImgInv /\ RestType /\ pc \in Attempting /\ attempt \in Nat
      /\ success \in BOOLEAN /\ img \in ImgType
  BY <1>1, ConfFacts, Zenon DEF RestType
<1>3. CASE entry.initrd /\ SetStatus(FALSE) /\ Failed /\ UNCHANGED img
  <2>1. success' = success /\ pc' \in {"failed", "next"} /\ is_load_done' = is_load_done
    BY <1>2, <1>3, Zenon DEF SetStatus, Failed, FailedWith
  <2>2. RestType'
    BY <1>1, <1>2, <1>3, <2>1, KeepType, Zenon DEF RestType, NetPcs
  <2>3. ImgInv'
    BY <1>1, <1>2, <1>3, <2>1, FailImg, Zenon
  <2> QED BY <2>2, <2>3, Zenon
<1>4. CASE /\ img' = IF entry.initrd THEN [img EXCEPT !.ramdisk = Image(FileSource, "raw")] ELSE img
           /\ SetStatus(TRUE) /\ Loaded
  <2>1. Image(FileSource, "raw") \in Images /\ OwnNormal(Image(FileSource, "raw"))
    BY <1>1, BinaryOwn, Zenon
  <2>2. /\ img' \in ImgType /\ img'.kernel = img.kernel /\ img'.dtb = img.dtb /\ img'.args = img.args
        /\ img'.ramdisk \in {img.ramdisk, Image(FileSource, "raw")}
    BY <1>2, <1>4, <2>1, SetRamdisk, Zenon
  <2>3. img'.ramdisk.attempt \in {0, attempt}
    BY <1>2, <2>1, <2>2, NothingYet, Zenon DEF OwnNormal, Own
  <2>4. /\ Own(img.kernel)' /\ Own(img.dtb)' /\ img'.kernel.mode = img'.dtb.mode /\ entry'.of = attempt
    BY <1>1, <1>2, <2>2, Zenon DEF ImgInv, OwnNormal, Own, InAttempt
  <2>5. /\ pc' = (IF fallback THEN "extract" ELSE "next") /\ is_load_done' = ~fallback
        /\ success' \in BOOLEAN
    BY <1>2, <1>4, Zenon DEF Loaded, SetStatus
  <2>6. RestType'
    BY <1>1, <1>2, <2>2, <2>5, KeepType, Zenon DEF RestType, NetPcs
  <2>7. ImgInv'
    BY <1>1, <1>2, <2>2, <2>3, <2>4, <2>5, LoadImg, Zenon
  <2> QED BY <2>6, <2>7, Zenon
<1> QED BY <1>3, <1>4, Zenon DEF ExtlinuxLoadRamdisk

LEMMA PartitionImg ==
  ASSUME Inv, LoadFromPartition \/ TegrablLoadFromPartition
  PROVE  RestType' /\ ImgInv'
<1>1. pc = "partition" /\ InAttempt /\ UNCHANGED <<conf, entry, success, retry>>
  BY Zenon DEF LoadFromPartition, TegrablLoadFromPartition, InAttempt, boot, extlinux
<1>2. /\ LoopInv /\ ImgInv /\ RestType /\ StoreInv /\ pc \in Attempting /\ pc \notin NetPcs
  BY <1>1, Zenon DEF Inv, Attempting, NetPcs
<1>3. attempt \in Nat /\ medium \in Media /\ img \in ImgType /\ mode \in Modes /\ "builtin" \in Media
  BY <1>2, Zenon DEF LoopInv, RestType, Devices, Media
<1>4. CASE UNCHANGED img /\ (Failed \/ Reset)
  <2>1. pc' \in {"failed", "next", "reset"} /\ is_load_done' = is_load_done
    BY <1>4, Zenon DEF Failed, FailedWith, Reset, Goto
  <2>2. RestType'
    BY <1>1, <1>2, <1>4, <2>1, KeepType, Zenon DEF RestType, NetPcs
  <2>3. ImgInv'
    BY <1>1, <1>2, <1>4, <2>1, FailImg, Zenon DEF Stopped
  <2> QED BY <2>2, <2>3, Zenon
<1>5. ASSUME NEW m \in Modes, NEW from \in {medium, "builtin"}, NEW fromDtb \in {medium, "builtin"},
             img' = [img EXCEPT !.kernel = ImageFor(m, from, "bootimg"),
                                !.dtb = ImageFor(m, fromDtb, "raw")],
             Failed \/ Loaded
      PROVE  RestType' /\ ImgInv'
  <2> DEFINE x == ImageFor(m, from, "bootimg")
             y == ImageFor(m, fromDtb, "raw")
  <2>1. x \in Images /\ y \in Images /\ Own(x) /\ Own(y) /\ x.mode = m /\ y.mode = m
    BY <1>3, <1>5, ReadImage, Zenon
  <2> HIDE DEF x, y
  <2>2. /\ img' \in ImgType /\ img'.kernel = x /\ img'.dtb = y
        /\ img'.ramdisk = img.ramdisk /\ img'.args = img.args
    BY <1>3, <1>5, <2>1, Zenon DEF ImgType, x, y
  <2>3. RestType'
    <3>1. pc' \notin NetPcs
      BY <1>5, Zenon DEF Failed, FailedWith, Loaded, NetPcs
    <3> QED BY <1>1, <1>2, <2>2, <3>1, KeepType, Zenon DEF RestType
  <2>4. CASE Failed
    <3>1. pc' \in {"failed", "next"} /\ is_load_done' = is_load_done
      BY <2>4, Zenon DEF Failed, FailedWith
    <3>2. ImgInv'
      BY <1>1, <1>2, <2>2, <3>1, FailImg, Zenon
    <3> QED BY <2>3, <3>2, Zenon
  <2>5. CASE Loaded
    <3>1. Own(img.kernel)' /\ Own(img.dtb)' /\ img'.kernel.mode = img'.dtb.mode
      BY <1>1, <2>1, <2>2, Zenon DEF Own, InAttempt
    <3>2. ~success' /\ img'.ramdisk.attempt = 0
      BY <1>1, <1>2, <2>2, NothingYet, Zenon
    <3>3. ImgInv'
      BY <1>1, <1>2, <2>2, <2>5, <3>1, <3>2, LoadImg, Zenon DEF Loaded
    <3> QED BY <2>3, <3>3, Zenon
  <2> QED BY <1>5, <2>4, <2>5, Zenon
<1>6. CASE LoadFromPartition
  <2>1. \/ UNCHANGED img /\ Failed
        \/ /\ img' = [img EXCEPT !.kernel = ImageFor("normal", medium, "bootimg"),
                                 !.dtb = ImageFor("normal", medium, "raw")]
           /\ Failed \/ Loaded
    BY <1>6, Zenon DEF LoadFromPartition, Image
  <2> QED BY <1>4, <1>5, <2>1, Zenon DEF Modes
<1>7. CASE TegrablLoadFromPartition
  <2>1. PartitionSources \subseteq {medium, "builtin"}
    BY <1>1, <1>2, Sources, Zenon
  <2> QED BY <1>3, <1>4, <1>5, <1>7, <2>1, Zenon DEF TegrablLoadFromPartition
<1> QED BY <1>6, <1>7, Zenon

\* The steps between the attempts and after them.
LEMMA BetweenImg ==
  ASSUME Inv, Between
  PROVE  RestType' /\ ImgInv'
<1>0. LoopInv /\ RestType /\ ImgInv /\ attempt \in Nat
  BY Zenon DEF Inv, LoopInv
<1>k. attempt' = attempt => EntryType' = EntryType /\ ImgType' = ImgType
  BY Zenon DEF EntryType, ImgType, Images
<1>c. ConfType' = ConfType
  BY Zenon DEF ConfType
<1> USE DEF boot, loop, media, extlinux, Goto
<1>1. CASE GetKernelBootctrl \/ MediaSelect
  <2>1. /\ pc \in {"bootctrl", "select"} /\ pc' \in {"select", "next"} /\ mode' \in Modes
        /\ UNCHANGED <<slot, medium, attempt, is_load_done, conf, entry, success, img, retry>>
    BY <1>0, <1>1, Zenon DEF GetKernelBootctrl, MediaSelect, RestType, Modes
  <2>2. is_load_done = FALSE
    BY <1>0, <2>1, Zenon DEF LoopInv
  <2>3. RestType'
    BY <1>0, <1>k, <1>c, <2>1, Zenon DEF RestType, NetPcs
  <2>4. ImgInv'
    BY <1>0, <2>1, <2>2, Zenon DEF ImgInv, Done
  <2> QED BY <2>3, <2>4, Zenon
<1>2. CASE NextMedium /\ is_load_done
  <2>1. /\ pc = "next" /\ pc' = "extract" /\ retry' = 0
        /\ UNCHANGED <<slot, mode, medium, attempt, is_load_done, conf, entry, success, img>>
    BY <1>2, Zenon DEF NextMedium
  <2>2. RestType'
    <3>1. 0 \in 0..TFTP_MAX_RRQ_RETRIES
      BY LimitAssumption
    <3> QED BY <1>0, <1>k, <1>c, <2>1, <3>1, Zenon DEF RestType, NetPcs
  <2>3. ImgInv'
    BY <1>0, <1>2, <2>1, Zenon DEF ImgInv, Done, Own
  <2> QED BY <2>2, <2>3, Zenon
<1>3. CASE NextMedium /\ ~is_load_done
  <2>1. /\ pc = "next" /\ pc' \in {"net", "open"} /\ retry' = 0 /\ attempt' = attempt + 1
        /\ UNCHANGED <<slot, mode, is_load_done, conf, entry, success, img>>
    BY <1>3, Zenon DEF NextMedium
  <2>2. 0..attempt \subseteq 0..attempt' /\ 0 \in 0..TFTP_MAX_RRQ_RETRIES /\ 0 < TFTP_MAX_RRQ_RETRIES
    BY <1>0, <2>1, LimitAssumption
  <2>3. medium' \in Media
    <3>1. LoopInv'
      BY <1>0, BetweenLoop, Zenon
    <3>2. pc' \in NetPcs \/ pc' \in Attempting \ NetPcs
      BY <2>1, Zenon DEF Attempting, NetPcs
    <3>3. (pc' \in NetPcs => medium' = "net") /\ (pc' \in Attempting \ NetPcs => medium' \in Devices)
      BY <3>1, Zenon DEF LoopInv
    <3>4. medium' = "net" \/ medium' \in Devices
      BY <3>2, <3>3, Zenon
    <3> QED BY <3>4, Zenon DEF Media, Devices
  <2>4. Images \subseteq Images'
    BY <2>2, Zenon DEF Images
  <2>5. img \in ImgType' /\ entry \in EntryType'
    BY <1>0, <2>2, <2>4, Zenon DEF RestType, ImgType, EntryType
  <2>6. RestType'
    BY <1>0, <2>1, <2>2, <2>3, <2>5, Zenon DEF RestType, ConfType
  <2>7. ImgInv'
    BY <1>0, <1>3, <2>1, Zenon DEF ImgInv, Done
  <2> QED BY <2>6, <2>7, Zenon
<1>4. CASE Extract
  <2>1. /\ pc = "extract"
        /\ UNCHANGED <<slot, mode, medium, attempt, is_load_done, conf, entry, success, retry>>
    BY <1>4, Zenon DEF Extract
  <2>2. /\ Own(img.kernel) /\ Own(img.dtb) /\ img.kernel.mode = img.dtb.mode
        /\ success => entry.of = attempt
        /\ img.ramdisk.attempt \in {0, attempt} /\ img.args.attempt = 0
    BY <1>0, <2>1, Zenon DEF ImgInv, Done
  <2>3. EntryType' = EntryType /\ ImgType' = ImgType /\ ConfType' = ConfType
    BY <1>k, <1>c, <2>1, Zenon
  <2>4. CASE pc' = "failed" /\ UNCHANGED img
    <3>1. RestType'
      BY <1>0, <2>1, <2>3, <2>4, Zenon DEF RestType, NetPcs
    <3>2. ImgInv'
      BY <2>2, <2>4, Zenon DEF ImgInv, Done
    <3> QED BY <3>1, <3>2, Zenon
  <2>5. CASE /\ img' = [img EXCEPT
                          !.ramdisk = IF img.kernel.form = "bootimg" THEN img.kernel ELSE @,
                          !.args = IF success THEN [Absent EXCEPT !.attempt = entry.of] ELSE @]
             /\ pc' = "loaded"
    <3> DEFINE r == IF img.kernel.form = "bootimg" THEN img.kernel ELSE img.ramdisk
               a == IF success THEN [Absent EXCEPT !.attempt = entry.of] ELSE img.args
    <3>1. img \in ImgType /\ entry.of \in 0..attempt
      BY <1>0, Zenon DEF RestType, EntryType
    <3>2. /\ [Absent EXCEPT !.attempt = entry.of] \in Images
          /\ [Absent EXCEPT !.attempt = entry.of].attempt = entry.of
      BY <3>1, Zenon DEF Absent, Images, Modes
    <3>3. r \in Images /\ a \in Images
      BY <3>1, <3>2, Zenon DEF ImgType
    <3>4. r.attempt \in {0, attempt} /\ a.attempt \in {0, attempt}
      BY <2>2, <3>2, Zenon DEF Own
    <3>5. img' = [img EXCEPT !.ramdisk = r, !.args = a]
      BY <2>5, <3>1, Zenon DEF ImgType
    <3> HIDE DEF r, a
    <3>6. /\ img' \in ImgType /\ img'.kernel = img.kernel /\ img'.dtb = img.dtb
          /\ img'.ramdisk = r /\ img'.args = a
      BY <3>1, <3>3, <3>5, Zenon DEF ImgType
    <3>7. RestType'
      BY <1>0, <2>1, <2>3, <2>5, <3>6, Zenon DEF RestType, NetPcs
    <3>8. ImgInv'
      BY <2>1, <2>2, <2>5, <3>4, <3>6, Zenon DEF ImgInv, Done, Own
    <3> QED BY <3>7, <3>8, Zenon
  <2> QED BY <1>4, <2>4, <2>5, Zenon DEF Extract
<1>5. CASE BootOrReset
  <2>1. /\ (pc = "loaded" /\ pc' = "kernel_entry") \/ (pc = "failed" /\ pc' = "reset")
        /\ UNCHANGED <<slot, mode, medium, attempt, is_load_done, conf, entry, success, img, retry>>
    BY <1>5, Zenon DEF BootOrReset
  <2>2. RestType'
    BY <1>0, <1>k, <1>c, <2>1, Zenon DEF RestType, NetPcs
  <2>3. ImgInv'
    BY <1>0, <2>1, Zenon DEF ImgInv, Done, Own
  <2> QED BY <2>2, <2>3, Zenon
<1> QED BY <1>1, <1>2, <1>3, <1>4, <1>5, Zenon DEF Between

-----------------------------------------------------------------------------
(* The invariant holds, and what follows from it. *)

LEMMA InitInv == Init => Inv
<1> SUFFICES ASSUME Init PROVE Inv
  OBVIOUS
<1>1. LoopInv
  BY InitLoop, Zenon
<1>2. StoreInv
  <2>1. Clean(storage)
    <3>1. storage = StorageInit
      BY Zenon DEF Init
    <3>2. <<"builtin">> \in Seq(Devices) /\ <<>> \in Seq([dev : Devices, ref : Nat \ {0}])
      BY DEF Devices
    <3>3. <<"builtin">> # <<>> /\ <<"builtin">>[1] = "builtin"
      OBVIOUS
    <3>4. /\ [d \in Devices |-> IF d = "builtin" THEN 1 ELSE 0] \in [Devices -> Nat]
          /\ [d \in Devices |-> IF d = "builtin" THEN 1 ELSE 0]["builtin"] >= 1
      BY DEF Devices
    <3>5. {"builtin"} \in SUBSET Devices
      BY Zenon DEF Devices
    <3>6. StorageInit \in StorageType
      BY <3>2, <3>4, <3>5, Zenon DEF StorageInit, StorageType
    <3>7. /\ StorageInit.bdevs = <<"builtin">> /\ StorageInit.published = {"builtin"}
          /\ StorageInit.mounts = <<>>
          /\ StorageInit.ref = [d \in Devices |-> IF d = "builtin" THEN 1 ELSE 0]
      BY Zenon DEF StorageInit
    <3> QED BY <3>1, <3>3, <3>4, <3>6, <3>7, Zenon DEF Clean, Sound
  <2>2. fm_handle = "null" /\ pc = "bootctrl"
    BY Zenon DEF Init
  <2> QED BY <2>1, <2>2, Zenon DEF StoreInv, Clean, InConf
<1>3. RestType
  <2>1. 0 \in 0..attempt /\ 0 \in 0..MaxEntries /\ 1 \in 1..MaxEntries /\ 0 \in 0..TFTP_MAX_RRQ_RETRIES
    BY <1>1, LimitAssumption DEF LoopInv
  <2>2. Absent \in Images
    BY <2>1, Zenon DEF Absent, Images, Modes
  <2> QED BY <2>1, <2>2, Zenon DEF Init, RestType, ConfType, EntryType, ImgType, NetPcs, Modes
<1>4. ImgInv
  BY Zenon DEF Init, ImgInv, Done, Absent
<1> QED BY <1>1, <1>2, <1>3, <1>4, Zenon DEF Inv

LEMMA NextInv ==
  ASSUME Inv, [Next]_vars
  PROVE  Inv'
<1>1. StoreInv' /\ LoopInv'
  BY NextStore, NextLoop, Zenon DEF Inv
<1>2. RestType' /\ ImgInv'
  <2>1. CASE UNCHANGED vars
    <3>1. UNCHANGED <<pc, slot, mode, medium, attempt, is_load_done, conf, entry, success, img, retry>>
      BY <2>1, Zenon DEF vars, boot, loop, extlinux
    <3>2. EntryType' = EntryType /\ ImgType' = ImgType /\ ConfType' = ConfType
      BY <3>1, Zenon DEF EntryType, ImgType, Images, ConfType
    <3>3. RestType'
      BY <3>1, <3>2, Zenon DEF Inv, RestType
    <3>4. /\ Done' = Done /\ Own(img.kernel)' = Own(img.kernel) /\ Own(img.dtb)' = Own(img.dtb)
          /\ OwnNormal(img.kernel)' = OwnNormal(img.kernel) /\ OwnNormal(img.dtb)' = OwnNormal(img.dtb)
      BY <3>1, Zenon DEF Done, Own, OwnNormal
    <3>5. ImgInv'
      BY <3>1, <3>4, Zenon DEF Inv, ImgInv
    <3> QED BY <3>3, <3>5, Zenon
  <2>2. CASE Next
    BY <2>2, NextCases, BetweenImg, OpenImg, NetImg, ConfImg, KernelImg, DtbImg, RamdiskImg,
       PartitionImg, Zenon DEF OnMedium
  <2> QED BY <2>1, <2>2, Zenon
<1> QED BY <1>1, <1>2, Zenon DEF Inv

LEMMA Invariance == Spec => []Inv
<1>1. Inv /\ [Next]_vars => Inv'
  BY NextInv, Zenon
<1> QED BY <1>1, InitInv, PTL DEF Spec

\* Every variable keeps its type.  That boot_order[i] is within the order, with its
\* final BOOT_DEFAULT, needs the count of LoopInv; that tegrabl_tftp_client_recv is
\* not called again after the last retry needs the bound of RestType.
THEOREM TypeCorrect == Spec => []TypeOK
<1>1. Inv => TypeOK
  BY Zenon DEF Inv, TypeOK, LoopInv, StoreInv, Sound, StorageType, RestType, ConfType, EntryType, ImgType
<1> QED BY <1>1, Invariance, PTL

\* tegrabl_load_kernel_and_dtb enters the kernel with the kernel, the device tree,
\* the ramdisk and the boot arguments of one attempt, however many media were
\* given up before it.
THEOREM OneAttemptIsBooted == Spec => []SameAttempt
<1>1. Inv => SameAttempt
  BY Zenon DEF Inv, ImgInv, Done, Own, SameAttempt
<1> QED BY <1>1, Invariance, PTL

\* What tegrabl_load_kernel_and_dtb enters was read from the medium of the attempt
\* or from the builtin storage, because the partitions of a medium that was given
\* up are unpublished.
THEOREM ImagesAreOwn == Spec => []NoForeignImage
<1>1. Inv => NoForeignImage
  BY Zenon DEF Inv, ImgInv, Done, Own, NoForeignImage
<1> QED BY <1>1, Invariance, PTL

\* usb_sd_boot_load_kernel_and_dtb and fixed_boot_load_kernel_and_dtb leave no mount
\* and no partition of a removable medium behind, on every path out of them.
THEOREM MediaAreLeftClean == Spec => []NothingLeft
<1>1. Inv => NothingLeft
  BY Zenon DEF Inv, StoreInv, Clean, Outside, NothingLeft
<1> QED BY <1>1, Invariance, PTL

\* tegrabl_blockdev_open finds the builtin storage, in every state of every boot.
THEOREM LastResortStaysOpen == Spec => []BuiltinOpens
<1>1. ASSUME Inv PROVE BuiltinOpens
  <2>1. /\ storage.bdevs \in Seq(Devices) /\ storage.bdevs # <<>>
        /\ storage.bdevs[1] = "builtin" /\ storage.ref["builtin"] >= 1 /\ storage.ref \in [Devices -> Nat]
    BY <1>1, StorageParts, Zenon DEF Inv, StoreInv, Sound
  <2>2. 1 \in DOMAIN storage.bdevs /\ storage.ref["builtin"] # 0
    BY <2>1 DEF Devices
  <2> QED BY <2>1, <2>2 DEF BuiltinOpens, CanOpen
<1> QED BY <1>1, Invariance, PTL

\* When tegrabl_load_kernel_and_dtb gives up, it has tried each medium of the boot
\* order that slot B does not skip, and the builtin storage after them.
THEOREM EveryMediumIsTried == Spec => []NothingSkipped
<1>1. ASSUME Inv, pc = "failed", ~is_load_done
      PROVE  /\ fallback /\ medium = "builtin"
             /\ attempt = Len(boot_order) + 1 - (IF SkipsFirst THEN 1 ELSE 0)
  <2>1. LoopInv /\ fallback /\ medium = "builtin" /\ i = Len(boot_order) + 1
    BY <1>1, Zenon DEF Inv, LoopInv
  <2>2. attempt = i - 1 - Skipped + 1
    BY <1>1, <2>1, Zenon DEF LoopInv
  <2>3. Len(boot_order) \in Nat /\ Skipped \in {0, 1} /\ Skipped = IF SkipsFirst THEN 1 ELSE 0
    BY <1>1, <2>1 DEF LoopInv, Skipped
  <2> QED BY <2>1, <2>2, <2>3
<1>2. Inv => NothingSkipped
  BY <1>1, Zenon DEF NothingSkipped
<1> QED BY <1>2, Invariance, PTL
=============================================================================
