------------------------------ MODULE Storage ------------------------------
(***************************************************************************)
(* What the boot from storage shares between its attempts: the list of     *)
(* registered block devices with their reference counts                    *)
(* (tegrabl_blockdev.c), the media whose partitions are published          *)
(* (tegrabl_partition_manager.c) and the mounted file systems (fs.c).  The *)
(* state is one value,                                                     *)
(*                                                                         *)
(*   bdevs      the registered devices, in the order of the list           *)
(*   ref        the reference count of each device, 0 before registration  *)
(*   published  the devices with dev->published                            *)
(*   mounts     the mounts, the last one first: a device and its count     *)
(*                                                                         *)
(* and every operation is an operator from a state to the next.            *)
(***************************************************************************)
EXTENDS Integers, Sequences, FiniteSetsExt

Devices == {"sd", "usb", "builtin"}

\* get_prefix: "/sd", "/usb" and "/sdmmc_user".  find_mount compares prefixes,
\* and the path of the SD card is one of the path of the builtin storage.
IsPrefixOf(mounted, device) ==
  mounted = device \/ (mounted = "sd" /\ device = "builtin")

\* After config_storage and tegrabl_partition_manager_init on a module with an
\* eMMC: the builtin storage is registered and its partitions are published.
StorageInit ==
  [bdevs |-> <<"builtin">>, ref |-> [d \in Devices |-> IF d = "builtin" THEN 1 ELSE 0],
   published |-> {"builtin"}, mounts |-> <<>>]

-----------------------------------------------------------------------------
(* Block devices. *)

\* Mutant of blockdev_register: a device is registered at the head of the list.
blockdev_register_head(s, d) ==
  [s EXCEPT !.bdevs = <<d>> \o @, !.ref[d] = @ + 1]

blockdev_register(s, d) ==
  [s EXCEPT !.bdevs = Append(@, d), !.ref[d] = @ + 1]

\* The walk of tegrabl_blockdev_open finds d: it gives up at the first device
\* of the list whose count is 0.
CanOpen(s, d) ==
  \E n \in DOMAIN s.bdevs : s.bdevs[n] = d /\ \A k \in 1..n : s.ref[s.bdevs[k]] > 0

blockdev_open(s, d) == [s EXCEPT !.ref[d] = @ + 1]

\* bdev_dec_ref: a device that is still in the list stays there with the count
\* 0 (the error of bdev_dec_ref is dropped by tegrabl_blockdev_close).
blockdev_close(s, d) == [s EXCEPT !.ref[d] = IF @ > 0 THEN @ - 1 ELSE 0]

\* init_storage_device for a removable medium: the SD card and the USB device
\* are registered by the first call that finds them (contexts, init_done).
init_storage_device(s, d) ==
  IF d \in Range(s.bdevs) THEN s ELSE blockdev_register(s, d)

-----------------------------------------------------------------------------
(* Partitions. *)

partition_publish(s, d) == [s EXCEPT !.published = @ \cup {d}]

\* Mutant of partitions_unpublish: the partitions stay published.
stay_published(s, d) == s

partitions_unpublish(s, d) == [s EXCEPT !.published = @ \ {d}]

-----------------------------------------------------------------------------
(* Mounts. *)

\* Index in the list of the mount that serves the paths of d, 0 without one.
find_mount(s, d) ==
  LET serving == {n \in DOMAIN s.mounts : IsPrefixOf(s.mounts[n].dev, d)}
  IN IF serving = {} THEN 0 ELSE Min(serving)

WithoutMount(mounts, n) == SubSeq(mounts, 1, n - 1) \o SubSeq(mounts, n + 1, Len(mounts))

\* The last reference unmounts the file system and closes the device.
put_mount(s, n) ==
  IF s.mounts[n].ref > 1
  THEN [s EXCEPT !.mounts[n].ref = @ - 1]
  ELSE blockdev_close([s EXCEPT !.mounts = WithoutMount(@, n)], s.mounts[n].dev)

\* mount: something is mounted there already, the file system cannot be
\* mounted (the device is closed), or it is.
MountsOver(s, d) == find_mount(s, d) # 0
mount_failed(s, d) == IF MountsOver(s, d) THEN s ELSE blockdev_close(s, d)
fs_mount(s, d) == [s EXCEPT !.mounts = <<[dev |-> d, ref |-> 1]>> \o @]

\* Mutant of fs_unmount: the reference of the mount itself is not returned.
fs_unmount_once(s, d) == s

\* find_mount takes a reference; it and the one of the mount are returned.
fs_unmount(s, d) ==
  LET n == find_mount(s, d)
      taken == [s EXCEPT !.mounts[n].ref = @ + 1]
  IN IF n = 0 THEN s ELSE put_mount(put_mount(taken, n), n)
=============================================================================
