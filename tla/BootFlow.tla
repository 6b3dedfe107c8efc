------------------------------ MODULE BootFlow ------------------------------
(***************************************************************************)
(* One boot of CBoot from kernel_boot.c: read the kernel boot control      *)
(* block, choose where to start in the boot order (CBO), try one medium    *)
(* after the other (linux_load.c with net_boot.c, usb_sd_boot.c,           *)
(* fixed_boot.c, extlinux_boot.c and the partition loader), extract the    *)
(* images and enter the kernel, or reset.                                  *)
(*                                                                         *)
(* The program is sequential; what is open is the result of every access   *)
(* to a medium.  An image is known by the attempt that loaded it and the   *)
(* medium it was read from.  What persists from one attempt to the next    *)
(* are the static variables: the parsed extlinux.conf, its boot arguments, *)
(* the success flag, the addresses and sizes of the images, and the block  *)
(* devices, published partitions and mounts of module Storage.  Memory     *)
(* allocation does not fail here, and the user answers the boot menu.      *)
(***************************************************************************)
EXTENDS Storage

CONSTANTS
  BootOrders,            \* device names the CBO or the console may list
  DeviceOf,              \* g_boot_devices: the medium of each known name
  MaxEntries,            \* bound: LABELs in an extlinux.conf
  TFTP_MAX_RRQ_RETRIES   \* 5 in net_boot.c

Media == {"net", "sd", "usb", "builtin"}
Removable == {"sd", "usb"}

ASSUME OrderAssumption ==
  /\ \A names \in BootOrders : names \in Seq(STRING)
  /\ \A name \in DOMAIN DeviceOf : DeviceOf[name] \in Media

ASSUME LimitAssumption ==
  MaxEntries \in Nat \ {0} /\ TFTP_MAX_RRQ_RETRIES \in Nat \ {0}

default_boot_order == <<"sd", "usb", "builtin", "net">>

\* map_boot_priority: a name that is not in the table is left 0, and 0 is
\* BOOT_DEFAULT, which ends the order.
MapBootPriority(names) ==
  LET unknown == {n \in DOMAIN names : names[n] \notin DOMAIN DeviceOf}
      known == IF unknown = {} THEN Len(names) ELSE Min(unknown) - 1
  IN [n \in 1..known |-> DeviceOf[names[n]]]

VARIABLES
  pc,
  slot,        \* the active slot; 0 as well when it cannot be read
  mode,        \* kernel->bootctrl.mode
  boot_order,  \* without the final BOOT_DEFAULT
  i,           \* index of the next medium
  medium,      \* the medium being tried
  attempt,     \* number of the attempt
  is_load_done,
  fallback,    \* the attempt after the loop
  storage,     \* block devices, published partitions and mounts
  fm_handle,   \* "null", or the handle with or without a mount_path
  conf,        \* extlinux_conf: entries, default, state of the sections
  entry,       \* boot_entry of the last conf: its paths; g_boot_args, g_ramdisk_path
  success,     \* extlinux_boot_is_success
  img,         \* what is in memory: kernel, dtb, ramdisk, boot arguments
  retry        \* read requests of TFTP that found no connection

boot == <<slot, mode, boot_order>>
loop == <<i, medium, attempt, is_load_done, fallback>>
extlinux == <<conf, entry, success>>
media == <<storage, fm_handle>>
vars == <<pc, boot, loop, media, extlinux, img, retry>>

Modes == {"normal", "recovery"}
Absent == [attempt |-> 0, from |-> "none", form |-> "none", mode |-> "normal"]
ImageFor(image_mode, from, form) ==
  [attempt |-> attempt, from |-> from, form |-> form, mode |-> image_mode]
Image(from, form) == ImageFor("normal", from, form)

Init ==
  /\ pc = "bootctrl"
  /\ slot \in {0, 1}
  /\ mode = "normal"
  /\ boot_order \in {MapBootPriority(names) : names \in BootOrders} \cup {default_boot_order}
  /\ i = 1 /\ medium = "none" /\ attempt = 0
  /\ is_load_done = FALSE /\ fallback = FALSE
  /\ storage = StorageInit /\ fm_handle = "null"
  /\ conf = [num |-> 0, default |-> 1, sections |-> "none"]
  /\ entry = [linux |-> FALSE, fdt |-> FALSE, initrd |-> FALSE, of |-> 0]
  /\ success = FALSE
  /\ img = [kernel |-> Absent, dtb |-> Absent, ramdisk |-> Absent, args |-> Absent]
  /\ retry = 0

\* tegrabl_get_kernel_bootctrl: the second copy is used when the first cannot
\* be read, not when it is invalid; a copy that is invalid means normal mode.
GetKernelBootctrl ==
  /\ pc = "bootctrl"
  /\ \E primary, recovery \in Modes \cup {"unreadable", "invalid"} :
       LET control == IF primary = "unreadable" THEN recovery ELSE primary
       IN mode' = IF control \in Modes THEN control ELSE "normal"
  /\ pc' = "select"
  /\ UNCHANGED <<slot, boot_order, loop, media, extlinux, img, retry>>

\* Mutant of SkipsFirst: the first medium is skipped without looking at it.
SkipsUnguarded == slot # 0

\* A boot of slot B skips the first medium, if there is one.
SkipsFirst == slot # 0 /\ boot_order # <<>>

MediaSelect ==
  /\ pc = "select"
  /\ i' = IF SkipsFirst THEN 2 ELSE 1
  /\ pc' = "next"
  /\ UNCHANGED <<boot, medium, attempt, is_load_done, fallback, media, extlinux, img, retry>>

\* The loop over the boot order, and the builtin storage after it.
NextMedium ==
  /\ pc = "next"
  /\ IF is_load_done
     THEN pc' = "extract" /\ UNCHANGED <<i, medium, attempt, fallback>>
     ELSE /\ attempt' = attempt + 1
          /\ fallback' = (i > Len(boot_order))
          /\ medium' = IF fallback' THEN "builtin" ELSE boot_order[i]
          /\ i' = IF fallback' THEN i ELSE i + 1
          /\ pc' = IF medium' = "net" THEN "net" ELSE "open"
  /\ retry' = 0
  /\ UNCHANGED <<boot, is_load_done, media, extlinux, img>>

\* tegrabl_fm_close: unmounts what the handle has mounted.
fm_close(s, handle) == IF handle = "mounted" THEN fs_unmount(s, medium) ELSE s

\* The end of usb_sd_boot_load_kernel_and_dtb, which closes the device after
\* the file system has closed it, and of fixed_boot_load_kernel_and_dtb, which
\* leaves that to the file system.
CloseMedium(s, handle) ==
  IF medium \in Removable
  THEN blockdev_close(fm_close(partitions_unpublish(s, medium), handle), medium)
  ELSE fm_close(s, handle)

\* An attempt returns; without a handle the medium was not opened.
Leave(s, handle) ==
  /\ storage' = IF handle = "null" THEN s ELSE CloseMedium(s, handle)
  /\ fm_handle' = "null"

\* Mutant of FailedWith: the first failure ends the loop.
FailedWithEnds(s, handle) ==
  /\ pc' = "failed"
  /\ Leave(s, handle)
  /\ UNCHANGED is_load_done

FailedWith(s, handle) ==
  /\ pc' = IF fallback THEN "failed" ELSE "next"
  /\ Leave(s, handle)
  /\ UNCHANGED is_load_done
Failed == FailedWith(storage, fm_handle)

Loaded ==
  /\ pc' = IF fallback THEN "extract" ELSE "next"
  /\ Leave(storage, fm_handle)
  /\ is_load_done' = ~fallback

Goto(label) ==
  /\ pc' = label
  /\ UNCHANGED <<media, is_load_done>>
Reset == Goto("reset")

-----------------------------------------------------------------------------
(***************************************************************************)
(* Network: DHCP, then the device tree and the boot image over TFTP.       *)
(***************************************************************************)

NetBootStackInit ==
  /\ pc = "net"
  /\ Failed \/ Goto("tftp_dtb")
  /\ UNCHANGED <<boot, i, medium, attempt, fallback, extlinux, img, retry>>

Exhausted(requests) == requests >= TFTP_MAX_RRQ_RETRIES

\* Mutant of RequestAgain: the download starts over, and the count with it.
RequestFromStart ==
  /\ retry' = 0
  /\ Goto("tftp_dtb")

RequestAgain ==
  /\ retry' = retry + 1
  /\ IF Exhausted(retry + 1) THEN Failed ELSE Goto(pc)

\* One read request.  A file that arrives with the last request is given up as
\* if it had not: the count is compared after the loop was left.
TftpClientRecv ==
  /\ pc \in {"tftp_dtb", "tftp_img"}
  /\ \/ /\ img' = IF pc = "tftp_dtb" THEN [img EXCEPT !.dtb = Image("net", "raw")]
                  ELSE [img EXCEPT !.kernel = Image("net", "bootimg")]
        /\ IF Exhausted(retry + 1) THEN Failed
           ELSE Goto(IF pc = "tftp_dtb" THEN "tftp_img" ELSE "net_validate")
        /\ retry' = 0
     \/ RequestAgain /\ UNCHANGED img
     \/ Failed /\ UNCHANGED <<retry, img>>
  /\ UNCHANGED <<boot, i, medium, attempt, fallback, extlinux>>

NetValidate ==
  /\ pc = "net_validate"
  /\ Failed \/ Loaded
  /\ UNCHANGED <<boot, i, medium, attempt, fallback, extlinux, img, retry>>

-----------------------------------------------------------------------------
(***************************************************************************)
(* Storage: publish and mount, extlinux.conf, else the partitions.         *)
(***************************************************************************)

\* A removable medium is initialized and opened.  Its initialization may fail;
\* a missing SD card is no error, but cannot be opened unless it was registered
\* before.
OpenRemovable ==
  /\ pc = "open" /\ medium \in Removable
  /\ \/ Failed
     \/ \E present \in BOOLEAN :
          LET s == IF present THEN init_storage_device(storage, medium) ELSE storage
          IN /\ present \/ medium = "sd"
             /\ IF CanOpen(s, medium)
                THEN /\ pc' = "publish"
                     /\ storage' = blockdev_open(s, medium)
                     /\ UNCHANGED <<fm_handle, is_load_done>>
                ELSE FailedWith(s, "null")
  /\ UNCHANGED <<boot, i, medium, attempt, fallback, extlinux, img, retry>>

OpenBuiltin ==
  /\ pc = "open" /\ medium = "builtin"
  /\ IF CanOpen(storage, medium)
     THEN /\ pc' = "publish"
          /\ storage' = blockdev_open(storage, medium)
          /\ UNCHANGED <<fm_handle, is_load_done>>
     ELSE Failed
  /\ UNCHANGED <<boot, i, medium, attempt, fallback, extlinux, img, retry>>

\* Without a file system the builtin storage fails and a removable medium goes
\* on with its partitions, if it has any.
NotMounted(s) ==
  IF medium \in Removable /\ medium \in s.published
  THEN /\ pc' = "partition"
       /\ storage' = s
       /\ fm_handle' = "unmounted"
       /\ UNCHANGED is_load_done
  ELSE FailedWith(s, "unmounted")

\* tegrabl_fm_publish: the partitions are published if there is a partition
\* table, a file system is looked for (in the boot partition, or at the start
\* of a medium without a table) and mounted.
FmPublish ==
  /\ pc = "publish"
  /\ \E gpt \in BOOLEAN :
       LET s == IF gpt THEN partition_publish(storage, medium) ELSE storage
       IN \/ NotMounted(s)                    \* no boot partition, no file system
          \/ NotMounted(mount_failed(s, medium))
          \/ /\ ~MountsOver(s, medium)
             /\ pc' = "conf"
             /\ storage' = fs_mount(s, medium)
             /\ fm_handle' = "mounted"
             /\ UNCHANGED is_load_done
  /\ UNCHANGED <<boot, i, medium, attempt, fallback, extlinux, img, retry>>

\* The end of extlinux_boot_load_kernel_and_dtb frees the sections of the conf
\* that was parsed last, in this call or in an earlier one, and then goes on.
FreeSections(Continue) ==
  IF conf.num > 0 /\ conf.sections = "freed"
  THEN Goto("corrupt") /\ UNCHANGED conf
  ELSE Continue /\ conf' = [conf EXCEPT !.sections = IF conf.num > 0 THEN "freed" ELSE @]

\* The partitions are the second choice, where there are any.
Fallback == IF medium \in storage.published THEN Goto("partition") ELSE Failed

\* Without extlinux.conf: the sections that are freed are those of an earlier
\* attempt.
ConfNotRead ==
  /\ pc = "conf"
  /\ FreeSections(Fallback)
  /\ UNCHANGED <<boot, i, medium, attempt, fallback, entry, success, img, retry>>

\* extlinux.conf is parsed and the user, or the default, picks an entry.  The
\* default of an earlier conf stays when DEFAULT names no label of this one.
\* bad_conf: the code goes on with a section that is not there (an empty conf,
\* one without a LABEL or a DEFAULT, or that default beyond the last entry).
ParseConfFile ==
  /\ pc = "conf"
  /\ \/ \E num \in 1..MaxEntries, match \in 0..MaxEntries, linux, fdt, initrd \in BOOLEAN :
          /\ match <= num
          /\ conf' = [num |-> num, default |-> IF match = 0 THEN conf.default ELSE match,
                      sections |-> "live"]
          /\ \E boot_entry \in 1..num \cup {conf'.default} :
               Goto(IF boot_entry <= num THEN "kernel" ELSE "bad_conf")
          /\ entry' = [linux |-> linux, fdt |-> fdt, initrd |-> initrd, of |-> attempt]
     \/ Goto("bad_conf") /\ UNCHANGED <<conf, entry>>
  /\ UNCHANGED <<boot, i, medium, attempt, fallback, success, img, retry>>

\* tegrabl_load_binary: the partition is looked up in the media published last
\* first; a failure to load it resets the SoC.
PartitionSources == storage.published

\* fs_open_file: the medium of the mount that serves the path.
FileSource == storage.mounts[find_mount(storage, medium)].dev

\* extlinux.conf names a file, with the partition as a second choice (also when
\* its signature is wrong on a fused device).  Continue is what follows success.
LoadBinaryWithSig(path, role, forms, Continue) ==
  \/ /\ path
     /\ \E form \in forms : img' = [img EXCEPT ![role] = Image(FileSource, form)]
     /\ Continue
  \/ /\ \E form \in forms, from \in PartitionSources : img' = [img EXCEPT ![role] = Image(from, form)]
     /\ Continue
  \/ Reset /\ UNCHANGED <<img, conf>>
  \/ /\ FreeSections(Fallback)
     /\ UNCHANGED img

ExtlinuxLoadKernel ==
  /\ pc = "kernel"
  /\ LoadBinaryWithSig(entry.linux, "kernel", {"raw", "bootimg"}, Goto("dtb") /\ UNCHANGED conf)
  /\ UNCHANGED <<boot, i, medium, attempt, fallback, entry, success, retry>>

ExtlinuxLoadDtb ==
  /\ pc = "dtb"
  /\ LoadBinaryWithSig(entry.fdt, "dtb", {"raw"}, FreeSections(Goto("ramdisk")))
  /\ UNCHANGED <<boot, i, medium, attempt, fallback, entry, success, retry>>

\* Mutant of SetStatus: success is noted before the ramdisk is loaded.
SetStatusEarly(loaded) == success' = TRUE

SetStatus(loaded) == success' = (success \/ loaded)

\* The ramdisk has no fallback: the attempt fails with it.
ExtlinuxLoadRamdisk ==
  /\ pc = "ramdisk"
  /\ \/ /\ img' = IF entry.initrd THEN [img EXCEPT !.ramdisk = Image(FileSource, "raw")] ELSE img
        /\ SetStatus(TRUE)
        /\ Loaded
     \/ /\ entry.initrd
        /\ SetStatus(FALSE)
        /\ Failed
        /\ UNCHANGED img
  /\ UNCHANGED <<boot, i, medium, attempt, fallback, conf, entry, retry>>

\* A removable medium: its own partitions kernel and kernel-dtb.
LoadFromPartition ==
  /\ pc = "partition" /\ medium \in Removable
  /\ \/ /\ img' = [img EXCEPT !.kernel = Image(medium, "bootimg"), !.dtb = Image(medium, "raw")]
        /\ Failed \/ Loaded
     \/ Failed /\ UNCHANGED img
  /\ UNCHANGED <<boot, i, medium, attempt, fallback, extlinux, retry>>

\* The builtin storage: the images of the mode, and a reset when that fails.
TegrablLoadFromPartition ==
  /\ pc = "partition" /\ medium = "builtin"
  /\ \/ /\ \E from, fromDtb \in PartitionSources :
             img' = [img EXCEPT !.kernel = ImageFor(mode, from, "bootimg"),
                                !.dtb = ImageFor(mode, fromDtb, "raw")]
        /\ Loaded
     \/ Reset /\ UNCHANGED img
  /\ UNCHANGED <<boot, i, medium, attempt, fallback, extlinux, retry>>

-----------------------------------------------------------------------------
\* extract_kernel, extract_ramdisk for a boot image, extract_kernel_dtb.
Extract ==
  /\ pc = "extract"
  /\ \/ /\ img' = [img EXCEPT
                     !.ramdisk = IF img.kernel.form = "bootimg" THEN img.kernel ELSE @,
                     !.args = IF success THEN [Absent EXCEPT !.attempt = entry.of] ELSE @]
        /\ Goto("loaded")
     \/ Goto("failed") /\ UNCHANGED img
  /\ UNCHANGED <<boot, i, medium, attempt, fallback, extlinux, retry>>

\* load_and_boot_kernel: with the metadata updated either way (module ABBoot),
\* the kernel is entered or the SoC reset.
BootOrReset ==
  /\ pc \in {"loaded", "failed"}
  /\ Goto(IF pc = "loaded" THEN "kernel_entry" ELSE "reset")
  /\ UNCHANGED <<boot, i, medium, attempt, fallback, extlinux, img, retry>>

Next ==
  \/ GetKernelBootctrl \/ MediaSelect \/ NextMedium
  \/ NetBootStackInit \/ TftpClientRecv \/ NetValidate
  \/ OpenRemovable \/ OpenBuiltin \/ FmPublish \/ ConfNotRead \/ ParseConfFile
  \/ ExtlinuxLoadKernel \/ ExtlinuxLoadDtb \/ ExtlinuxLoadRamdisk
  \/ LoadFromPartition \/ TegrablLoadFromPartition
  \/ Extract \/ BootOrReset

Spec == Init /\ [][Next]_vars

\* One thread that runs on: every access to a medium returns, with a result or
\* by its timeout.
FairSpec == Spec /\ WF_vars(Next)

-----------------------------------------------------------------------------
(* Properties. *)

Labels == {"bootctrl", "select", "next", "net", "tftp_dtb", "tftp_img", "net_validate",
           "open", "publish", "conf", "kernel", "dtb", "ramdisk", "partition", "extract", "loaded", "failed"}
Ended == {"kernel_entry", "reset", "corrupt", "bad_conf"}
Images == [attempt : 0..attempt, from : Media \cup {"none"},
           form : {"raw", "bootimg", "none"}, mode : Modes]

\* Type.  boot_order[i] is read no further than its final BOOT_DEFAULT, also when
\* slot B skips the first medium (tegrabl_load_kernel_and_dtb), and a download is
\* not requested more often than the limit.
TypeOK ==
  /\ pc \in Labels \cup Ended
  /\ slot \in {0, 1} /\ mode \in Modes
  /\ boot_order \in Seq(Media)
  /\ i \in 1..Len(boot_order) + 1 /\ medium \in Media \cup {"none"} /\ attempt \in Nat
  /\ is_load_done \in BOOLEAN /\ fallback \in BOOLEAN
  /\ storage \in [bdevs : Seq(Devices), ref : [Devices -> Nat], published : SUBSET Devices,
                  mounts : Seq([dev : Devices, ref : Nat \ {0}])]
  /\ fm_handle \in {"null", "unmounted", "mounted"}
  /\ conf \in [num : 0..MaxEntries, default : 1..MaxEntries, sections : {"none", "live", "freed"}]
  /\ entry \in [linux : BOOLEAN, fdt : BOOLEAN, initrd : BOOLEAN, of : 0..attempt]
  /\ success \in BOOLEAN
  /\ img \in [kernel : Images, dtb : Images, ramdisk : Images, args : Images]
  /\ retry \in 0..TFTP_MAX_RRQ_RETRIES

\* The kernel is entered with what one attempt loaded: no kernel, device tree,
\* ramdisk or boot arguments of a medium that was given up, and the kernel and
\* the device tree are both of the recovery system or both not.
SameAttempt ==
  pc = "kernel_entry" =>
    /\ img.kernel.attempt = attempt
    /\ img.dtb.attempt = attempt
    /\ img.ramdisk.attempt \in {0, attempt}
    /\ img.args.attempt \in {0, attempt}
    /\ img.kernel.mode = img.dtb.mode

\* What is entered was read from the medium of the attempt or from the builtin
\* storage: the partitions of a medium that was given up are not found any more.
NoForeignImage ==
  pc = "kernel_entry" => {img.kernel.from, img.dtb.from} \subseteq {medium, "builtin"}

\* An attempt leaves nothing behind that the next one could trip over: no mount
\* ("/sd" would serve the paths of "/sdmmc_user" and keep it from being mounted)
\* and no partition of a removable medium, whatever the attempt failed of.
NothingLeft ==
  pc \in {"next", "extract", "failed", "kernel_entry"} =>
    storage.mounts = <<>> /\ storage.published = {"builtin"}

\* The last resort stays open: whatever happened to the removable media, whose
\* count drops to 0 when a file system was mounted and the medium is given up
\* (fs.c and usb_sd_boot.c both close it), tegrabl_blockdev_open finds the
\* builtin storage before it meets one of them.
BuiltinOpens == CanOpen(storage, "builtin")

\* When nothing could be loaded, every medium from the first that was not skipped
\* was tried, and the builtin storage after them ("Boot from storage, if not
\* already tried or if booting from all other options failed").
NothingSkipped ==
  pc = "failed" /\ ~is_load_done =>
    /\ fallback /\ medium = "builtin"
    /\ attempt = Len(boot_order) + 1 - (IF SkipsFirst THEN 1 ELSE 0)

\* A boot comes to an end: no loop over media or read requests runs for ever.
Ends == <>(pc \in Ended)

\* A section of extlinux.conf is freed once: a medium without the file does not
\* keep the next medium, or the builtin storage, from being tried.
FreedOnce == pc # "corrupt"
=============================================================================
