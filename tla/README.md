# Verification of CBoot

This directory is a TLA+ model of the control logic of CBoot, the last
bootloader stage of the Jetson Xavier (t194) in this repository, with TLC runs
on small instances and TLAPS proofs that hold for every value of the constants.

## The system

CBoot is loaded by MB1/MB2 firmware (not in this repository), finds a kernel,
a device tree and a ramdisk, and enters the kernel. Its parts:

| part | where | state | operations |
| --- | --- | --- | --- |
| A/B boot control | `common/lib/a_b_boot` | slot metadata (two copies on storage, one cached), scratch register | select a slot, spend and restore retries, rotate priorities, flush |
| kernel boot flow | `t18x/cboot/app/kernel_boot`, `common/lib/linuxboot` | boot order, boot control block, loaded images | read the boot control block, try the boot media in order, load, update the metadata, enter the kernel or reset |
| boot configuration (CBO) | `common/lib/cbo` | boot order, network configuration | parse, set, clear |
| network boot | `common/lib/linuxboot/net_boot.c` | DHCP state, retry counters | DHCP, TFTP with retries |
| partition loader | `t18x/common/lib/partitionloader` | - | choose the copy for the slot, read, reset on failure |
| block devices, partition manager, GPT | `common/lib/{blockdev,partition_manager,gpt}` | list of published devices and partitions | publish, open, seek, read, write, erase |
| IVC and BPMP messages | `common/lib/ipc` | frame queues in memory shared with another processor | connect, reset handshake, write, read, transfer with timeout |
| threads, mutexes, events, timers | `t18x/cboot/kernel` | run queues, wait queues, counts | create, block, wake, time out, join |
| heaps | `t18x/cboot/lib/heap`, `common/lib/malloc` | free list | allocate, free, merge |
| block cache, ext2 and ext4 | `common/lib/bcache`, `common/lib/fs` | LRU and free list, mounts, inodes, open files | mount, look up, read through the cache |
| file manager | `common/lib/file_manager` | a handle per medium | publish, mount, read a file or a partition, close |
| USB mass storage over xHCI | `common/drivers/usb/storage`, `common/drivers/usbh` | command tag, transfer and event rings | open, read blocks, recover from stalls and timeouts |
| bootloader update | `common/lib/bootloader_update` | entries of a payload | write the images of a payload |
| drivers, file systems, libfdt, console, menu | `common/drivers`, `common/lib/*`, `t18x/cboot/{dev,lib}` | registers, buffers | I/O |

Behaviours that are hard to test: power may fail inside a metadata flush;
the watchdog resets with the scratch register kept, a power cycle without it;
two processors share the IVC queues without a lock and reset them
independently; a wait may time out while it is being granted; a late answer
follows a timeout; retry counters run into their last value; one boot medium
leaves devices, mounts and parsed configuration behind for the next one; a USB
wait is ended by an event of another transfer.

How the parts interact: MB1 picks a slot from the metadata and leaves it in the
scratch register; `kernel_boot.c` reads the boot control block and walks over
the boot media; every image read from an internal partition goes through the
partition loader, which asks A/B boot control for the slot; files come from ext2
or ext4 through the block cache; both go down to a block device; at the end the
outcome of the boot is written to the metadata. Drivers for I2C, clocks and
resets send requests to the BPMP firmware over an IVC channel. All of it runs on
threads of the little kernel (LK) and allocates from one heap.

What correctness means here, in the order of what it would cost to be wrong: the
device never loses both metadata copies or all bootable slots by its own doing,
and leaves a slot that keeps failing; the kernel is entered only with images
that belong together; shared queues lose, duplicate and tear nothing; a waiter
is woken when what it waits for is there; memory has one owner.

## Modules

| module | models | state and actions |
| --- | --- | --- |
| `ABControl` | pure functions of `tegrabl_a_b_boot_control.c` | slot choice, retry accounting, priority rotation as operators on metadata and register records |
| `ABBoot` | a device that boots again and again | `store` (both copies), `sr` (register), `ram` (cached metadata), `stage`; MB1, loading, `tegrabl_a_b_update_smd`, the flush in its begin/write steps per copy, the update engine, watchdog, power loss |
| `ABBootProofs` | theorems about `ABControl` and `ABBoot` | types, ranges, the priority assertion, the two copies |
| `ABSlotProofs`, `ABRecordProofs` | more theorems about `ABBoot` | how often a slot is entered; what the metadata and the register say of each other |
| `MCABBoot` | instances of `ABBoot` | flashed metadata of every version |
| `IVC` | `tegra-ivc.c` | counts, states and frames in shared memory; one action per access to it, for both ends; restarts |
| `IVCFifo` | what a channel promises | a pair of bounded queues that a reset empties; `IVC` implements it under the mapping at the end of `IVC.tla` |
| `IVCRingProofs`, `IVCFifoProofs` | theorems about `IVC` | the handshake and one ring; the refinement of `IVCFifo`, doorbells |
| `BPMP` | `tegrabl_bpmp_fw_interface.c` on `IVCFifo` | a transfer's steps and its timeout; the firmware takes and answers |
| `BPMPProofs` | theorems about `BPMP` | |
| `MCIVC` | instances of `IVC` | |
| `LKSched` | scheduler, wait queues and one-shot timers of `t18x/cboot/kernel` | functions on one kernel-state record, as the C functions nest |
| `LKThread` | threads that use mutex, semaphore, event, sleep, join, exit | one action per call up to the context switch, `Return` for the rest, `Tick` for the timer interrupt |
| `MCLKThread` | instance of `LKThread` | |
| `Heap` | `tegrabl_malloc.c` | free list in memory (`mem`, `head`), allocated blocks; malloc, memalign, free |
| `Storage` | `tegrabl_blockdev.c`'s list of devices, publishing in `tegrabl_partition_manager.c`, the mounts of `fs.c` | one record, operators for register, open, close, publish, unpublish, mount, unmount |
| `BootFlow` | `kernel_boot.c`, `linuxboot/*.c`, `tegrabl_file_manager.c`, CBO order, partition loader's outcomes; uses `Storage` | one action per step of an attempt, with every result of an access to a medium; the static variables and the storage state that survive an attempt |
| `BootFlowProofs` | theorems about `Storage` and `BootFlow` | |
| `MCBootFlow` | instance of `BootFlow` | boot orders |
| `BlockCache` | `bcache.c`, `list.h` | the two linked lists with their pointers as the C code has them, so that a node put on a second list corrupts the first |
| `Ext2` | `ext2.c`, `dir.c`, `io.c`, `file.c` over `BlockCache` | mount, path lookup with links, reads through direct and indirect tables, close, unmount; one action per call into the cache |
| `Ext2Content` | what a file system holds | paths and file contents read off the disk by definition; the reference for `OpensNamed` and `ReadsFile` |
| `MCExt2` | instance of `Ext2` | a small file system |
| `USBMSD` | `tegrabl_usbmsd_bdev.c`, `usbh.c`, `xhci.c` | a command's stages, retries and recovery on the host; posted transfers, events and completion codes; an external device that answers late, stalls and fails |
| `PartitionRead` | `tegrabl_partition_manager.c` and `tegrabl_blockdev.c` over `USBMSD` | seek and read of a partition, cut into parts of blocks and whole blocks |
| `USBProofs` | theorems about `USBMSD` and `PartitionRead` | |

`PROJECT.json` maps every definition to its lines. External, modelled from how
the source uses them: MB1, the update engine of the running system, the SoC's
resets, the BPMP firmware (which runs the same IVC library), the USB device and the
host controller hardware.

Compositions: `BPMP` uses the abstract channel that `IVC` is shown to implement.
`ABBoot` abstracts `BootFlow` to three results (loaded, failed, reset by the
loader), and `BootFlow` leaves the metadata to `ABBoot`. `BootFlow` runs on the
storage state of `Storage`, on a module whose builtin storage is the eMMC and is
registered first. Whether a read of `BootFlow` succeeds is a choice; `Ext2` over
`BlockCache` and `PartitionRead` over `USBMSD` say what a read that succeeds returns.

## Runs

| run | question and answer |
| --- | --- |
| `ab_user` | With redundancy up to the kernel: is a slot ever booted a third time running without being confirmed (no, `TwoTries`), and is a failing slot left (yes, `Failover`)? |
| `ab_ota` | With updates: an activated slot is entered at most as often as it has retries (`OtaBounded`), the priority assertion of `check_user_redundancy_status` never hangs the boot (`NoHang`), retries stay in range, a slot given up stays so over a power cycle. |
| `ab_io` | One crash or storage error never costs both copies (`OneFaultTolerated`). |
| `ivc` | The shared memory protocol implements a pair of queues (`FifoSpec`) under restarts and wrapping counts, with one end that polls and one that waits for doorbells; no doorbell is missed (`NoLostWakeup`, `FullEnds`), the handshake converges (`Reestablished`), and an established end sees its peer's counts only advance. |
| `bpmp` | Every transfer returns; until one timed out each gets its own answer (`AnswerMatches`); after that an answer lags at most two requests (`LagBounded`): the sequence is not repaired. |
| `lk_sync` | Queues and thread states agree; a mutex has one holder, and no thread waits for a free mutex, a posted semaphore or a signalled event; no timer outlives the stack frame it lives in; a join that succeeds finds the thread dead and not yet freed. |
| `heap` | The free list stays sorted, linked both ways and merged (`WellLinked`); every word has one owner, and what a caller may write lies in its block (`Partition`). |
| `boot_media` | The kernel is entered with the images of one attempt (`SameAttempt`), none from a medium that was given up (`NoForeignImage`); an attempt leaves no mount and no published partition behind (`NothingLeft`), although devices are closed once too often the builtin one still opens (`BuiltinOpens`); all media and the builtin storage are tried before giving up; the boot ends. |
| `boot_conf` (violation) | The sections of an `extlinux.conf` are freed twice when a later medium has none. |
| `ext2_read` | A path opens the inode it names (`OpensNamed`), a read returns the file's bytes (`ReadsFile`), the cache holds what the device holds and each block once (`CacheCoherent`), every block is put back (`BlocksReturned`), and calls return, links in a circle included (`CallsReturn`). Holes stand where the double indirect tables would be misread. |
| `ext2_dind` (violation) | Beyond the first table of the double indirect block a file is read wrongly: the tables above the last level are indexed as 64-bit words. |
| `usb_read` | An accepted status is the one of its command (`AcceptsOwnStatus`), a read that succeeds has its bytes (`ReadsBytes`), a command that meets no fault succeeds (`HealthySucceeds`), and reads return (`ReadsReturn`). The first two leave out transfers given up earlier and served later (`late`), and buffers across a 64 KiB boundary (`split`); `HealthySucceeds` leaves out commands after a STALL. See the observations. |

Each module states the shape of its variables as `TypeOK`. `ABBoot`'s and `BootFlow`'s
are proved (the latter with the bounds of the index into the boot order); the others
were checked along with the runs and are kept for the reader.

### Bounds, and why they are enough

- A/B: two slots and the code's priority limit 15; retries 2 or 3 where the code
  has 7, enough for first, middle and last use, and every special case of the
  rotation lies at the ends of the priority range, which the initial pairs cover.
  Two or three faults: one flush writes two copies, so two faults already hit
  both. The retry and priority results are proved for all limits.
- IVC: a ring of two frames, the smallest where positions and counts differ (CBoot's
  own has one); counts modulo 5 in place of 2^32 so that they wrap; two restarts.
  `Prompt` says that a handler running while its peer restarts ends before the peer
  resets the channel; see the observations for what happens without.
- BPMP: eight requests; the lag does not grow beyond two with more.
- LK: three threads of equal priority and the idle thread, quantum 1, one mutex, one
  semaphore, one event: two waiters on a queue and a third that runs. Finite
  timeouts on events and joins, as CBoot has them.
- Heap: 24 words, sizes that split, just do not split and fill; alignments below and
  above the header size.
- Boot flow: seven orders with no, unknown, repeated and builtin media, at most four
  and the fallback; two entries in a conf; three TFTP requests.
- ext2: blocks of two bytes, two direct pointers and tables of four, so that a short
  file reaches the triple indirect level and every edge between levels is read; two
  groups of inodes; a cache of three blocks (the code has four), fewer than a lookup
  touches, so that blocks are reused; one failed read.
- USB: two faults (a late answer, a stall, a failed command, a phase error or a stray
  event each), which is enough for one command to be given up and its answer to meet
  the recovery of the next; tags modulo 4; transfers of two sectors and a 64 KiB
  boundary every two sectors, so that a read takes several commands and buffers
  cross; three sectors of two bytes in the partition, so that a read has a first
  part, whole blocks and a last part; two reads, the second from where the first
  ended; one retry at each level.

### Fairness

- `ABBoot`: boot steps go on, and a running system confirms its slot or reboots in
  the end (the watchdog sees to the latter); no fairness of updates or faults.
- `IVC`: each end finishes library calls it has begun and answers a doorbell; an end
  that resets the channel gets to do so in the end (strong fairness of `ChannelReset`,
  which waits for the peer's handler under `Prompt`).
- `BPMP`: the polling loop is bounded by a timer, so it ends by an answer or the
  timeout; none is assumed of the firmware.
- `BootFlow`: the one thread runs on, and every access returns (drivers have
  timeouts). The user answers the `extlinux` menu; without TIMEOUT in the conf the
  code waits for a key.
- `Ext2`: a call that was begun goes on; no fairness of new calls. The device returns
  data or an error.
- `PartitionRead`: the host runs on, and its waits end, by an event or after a second
  (`xusbh_wait_irq`); none is assumed of the device beyond that.
- No liveness is claimed of the LK model: its state space is too large for TLC's
  liveness check. Its invariants exclude the states in which a waiter was missed.

## Proofs

The theorems hold for every value of the constants that the named assumptions allow, so
the bounds of the runs do not matter to them. Each rests on an inductive invariant whose
proof has one step per action, and on lemmas about the operators the actions use.

### A/B metadata

For all retry limits up to 14 (`RetryAssumption`), priority limits from 3 to 15
(`PriorityAssumption`), flashed metadata in the header's ranges (`InitialAssumption`),
priorities an update engine leaves that prefer its own slot by at most one
(`RestoredAssumption`), and any number of faults (`BoundAssumption`).

- With storage errors and crashes: `TypeCorrect` (`TypeOK`) and `OneFaultLeavesACopy`
  (`OneFaultTolerated`). `FaultInv`: without a fault every copy but the one being
  written is good, and after one fault at least one is.
- The others need storage that returns what was written (`~IoErrors`; crashes remain).
  `NeverHangs` (`NoHang`) and `RetriesBounded`: the assertion at the end of
  `check_user_redundancy_status`, which spins when it fails, compares the slot MB1 chose
  with priorities CBoot reads later. `Inv` therefore says that counts and priorities on
  storage, in the cache and in the register are in range (`RangeInv`) and that from the
  choice to the update CBoot will see the metadata the choice was made from (`AgreeInv`).
- `UpdatesBounded` (`OtaBounded`): times entered plus retries left never exceed the
  default (`OtaInv`), wherever the count is at the moment: in either copy, in the cache
  or in the register. `FlushInv` says which of them agree during a flush, `FlagInv` what
  the register's flag says of the slot.
- `KernelSlotIsKept` (`NextBootKeepsSlot`) and `ExhaustedSlotIsRecorded`
  (`ExhaustedStaysExhausted`): the two copies agree on all that the next MB1 looks at,
  also when a power loss comes between their writes (`CopiesInv`), and the slot
  CBoot was started from is still preferred after its update (`DoneInv`).
- `AtMostTwoTries` (`TwoTries`, without updates): the gap between the priorities counts
  the tries (`TriesInv`).

### IVC and BPMP

For every ring size, every modulus of the counts above the number of frames plus one
(`CountAssumption`; the code has 2^32, and its over-full test needs as much), and any
number of restarts, under `Prompt`.

- `CountsAdvance` (`PeerCountsAdvance`): `HInv` says what an end may conclude from a
  state it sampled earlier (`Sampled`), and which counts are zero at which step of the
  handshake (`Zeroed`).
- `ImplementsFifo` (`FifoSpec`): every step of `IVC` is a step of the two queues or
  leaves them alone. `FInv` adds for each ring that it holds no more than it
  can, that the positions are as far apart as the counts, and that in the middle of a call
  a writer has room and a reader a frame, all while the session lasts (`Dropped`).
- `NoWakeupIsLost` (`NoLostWakeup`): `WInv` says who still has to ring, for an end
  that saw an empty or a full ring, at each point of the other end's call.
- `OwnAnswer` (`AnswerMatches`), `BoundedLag` (`LagBounded`), `UsesFifo`: requests on the
  way are the youngest ones without a gap, and there is room for one at each of three
  places (`InOrder`), so that an answer is never more than two behind. `UsesFifo` shows
  that `BPMP` uses the queues as `IVCFifo` allows. Together with `ImplementsFifo`: the
  transfer over the queues stands for the transfer over shared memory.

### Boot flow

For every boot order, table of devices, number of entries in a conf and of TFTP requests
(`OrderAssumption`, `LimitAssumption`): `TypeCorrect`, `OneAttemptIsBooted`
(`SameAttempt`), `ImagesAreOwn` (`NoForeignImage`), `MediaAreLeftClean` (`NothingLeft`),
`LastResortStaysOpen` (`BuiltinOpens`), `EveryMediumIsTried` (`NothingSkipped`). The
invariant is built up: what an attempt holds of the storage at each step, and that the
builtin device comes first and is open (`StoreInv`); which attempt the loop is at
(`LoopInv`); what is in memory, and from where (`ImgInv`).

### USB reads

For every tag width of at least one bit, limit of a command and of a TRB, number of
tries, block size, partition, and any number of late answers, stalls, failed commands and
stray events (`USBAssumption`, `PartitionAssumption`).

- `OwnStatus` (`AcceptsOwnStatus`) and `BytesAreRead` (`ReadsBytes`), which keep the
  exceptions `late` and `split` of the properties. A controller that keeps its ring
  (`KeptInv`) has the device at the host's command or at none, with enough transfers
  posted for it; one that reads its context again (`RereadInv`) may have it at an older
  command, which then has another tag. From either follows what a status that passes the
  checks stands for (`CswInv`): the device is done with this command and, if it passed,
  the data is in the buffer. `PInv` adds that the pieces so far, and the blocks of the
  piece in progress, are those asked for. The recursion that lays out TRBs is used only for one
  TRB; more than one is `split`.
- `HealthyCommands` (`HealthySucceeds`): `HealthInv` follows the command, the
  device, the posted transfer and the event ring through the three stages.

### Only model-checked

- Liveness, which is out of the prover's reach: `Failover`, `Reestablished`, `FullEnds`,
  `XferEnds`, `Ends`, `CallsReturn`, `ReadsReturn`.
- LK: the operators of `LKSched` fold over wait queues and thread sets; what a fold does
  needs induction over data, which the installed provers cannot do.
- `Heap`: the walk along the free list is recursive. So are the reference definitions of
  `Ext2Content`, and the properties of `BlockCache` follow links.

## Observations without a run

A/B metadata and IVC:

- `tegrabl_a_b_flush_smd` returns the result of the secondary copy only. It always
  rewrites the primary first, also when that is the only good copy: two crashes can
  cost both (`OneFaultTolerated` is stated for one fault).
- `tegra-ivc.c:528`: a handler that acts on a peer state sampled before two restarts of
  the peer lets the peer clear its counts under an established end, against the comment
  in `ivc_check_read`. With `Prompt = FALSE`, `PeerCountsAdvance` is violated.
- `tegrabl_load_binary` and `fixed_boot.c:203` reset the SoC before
  `tegrabl_a_b_update_smd`, although the comment at `kernel_boot.c:184` expects
  priorities to be rotated when a load failed; the next MB1 then works from the register.

Boot flow and storage:

- `net_boot.c:320`: a file received with the fifth request is reported as a timeout.
- `map_boot_priority` leaves an unknown name 0, which is BOOT_DEFAULT: the order ends there.
- `fixed_boot.c:176`: the builtin storage without a mountable file system fails before
  its partitions are tried; in recovery mode an `extlinux.conf` there still wins.
- `extlinux_boot.c`: DEFAULT that names no label leaves the default of the last conf; a
  conf without DEFAULT or LABEL dereferences null (`bad_conf` in the model).
- `usb_sd_boot.c:131`: a failed allocation returns success with nothing loaded.
- `usb_sd_boot.c:172` closes a device that unmounting it (`fs.c`) closed already. Its
  count drops to 0 while it stays in the list, and `tegrabl_blockdev_open` fails at the
  first device with count 0 (`tegrabl_blockdev.c:397`): after an SD card with a file
  system was given up, a USB device registered behind it is not found. `BuiltinOpens`
  holds because the builtin storage is registered first.
- `tegrabl_file_manager.c:28`: the mount path `/sd` is a prefix of `/sdmmc_user`;
  harmless as long as `NothingLeft` holds.
- `bcache.c:234`: a block whose read failed goes on the free list while it is still on
  the other one, under the number of the block that was not read. Later searches go
  around in a circle, or find it and take it for read (`hang` and `wild` in `Ext2`,
  reached only after an error).
- `io.c:167`, `io.c:217`: a table that cannot be read makes holes of what is below it,
  and the error of a data block is ignored: the file is reported as read.
- `dir.c:79`: a deleted entry at the start of a directory block still matches by name.
- `tegrabl_blockdev.c:229` ignores the error of writing a partial first block;
  `tegrabl_partition_manager.c:369` moves the position on when a write failed;
  `tegrabl_partition_manager.c:205` uses the list head when no device matched (writes
  and this result are not used on the way modelled).

USB:

- `usbmsd_bdev.c:1427`: a command block that times out keeps its tag for the next one and
  may still be taken: the late status then passes for the next command's. Transfers
  given up stay on the ring (`xhci.c:1804`), so that data goes to the old buffer where
  the controller does not read the context again. Without `late` both
  `AcceptsOwnStatus` and `ReadsBytes` are violated.
- `xhci.c:390`: `comp_code` is never reset, and `clear_endpoint_stall` sends the endpoint
  number without its direction: after one STALL each command goes through a recovery
  that does not clear the halt.
- `usbmsd_bdev.c:1458`: error and length of the data stage are dropped; `ReadsBytes` holds
  because a device passes a command only when its data was taken.
- `xhci.c:1777` and `:1791` both advance the address: of a buffer that crosses a 64 KiB
  boundary the second piece is put too far. Without `split` `ReadsBytes` is violated.

Threads and heap:

- `mutex_acquire_timeout` and `sem_timedwait` with a finite timeout: a waiter that timed
  out stays counted until it runs, so a release in between wakes nobody. `MutexHandedOn`
  fails with `Timed = {"mutex"}`; CBoot uses only timeout 0 or none.
- `wait_queue_wake_all` wakes in an order that reverses the queue; `event_signal` puts
  woken threads at the head of the run queue where its comment says the end.
- `tegrabl_malloc.c`: memalign drops the tail of a block it could not split; the list is
  changed without a lock, and no statement says which threads may allocate. The model
  runs one call at a time.

## Not modelled

Listed with reasons in `PROJECT.json`. In short:

- drivers other than USB mass storage (SDMMC, UFS, SATA, QSPI, Ethernet, display, buses):
  register sequences with polled timeouts; their results are quantified over;
- xHCI start-up, firmware, enumeration, hubs and the cycle bits of its rings;
- ext4's extents, writing to file systems, GPT parsing, writes and erases of partitions;
- third-party libraries, decompression, authentication: functions of their input;
- device tree edits and the plugin manager: one pass over a tree;
- fastboot, verified boot, and the bootloader update, which only fastboot calls: not in
  this build;
- console, menu and start-up code.

## Plan

1. Composition of `BootFlow` with `ABControl`: a boot's outcome and the metadata in one
   model, replacing the abstraction in `ABBoot`.
2. The Ethernet descriptor ring, with the interrupt handler that refills it.

Theorems worth proving next: the well-linked free list of `Heap` stated by neighbours
and addresses in place of a walk, and `QueuesAgree` of LK with wait queues handled one
thread at a time in place of folds.
