# A TLA+ verification of cpp_fatfs

cpp_fatfs is a C++ port of ChaN's FatFs R0.14b: a FAT12/16/32 and exFAT file
system driver for microcontrollers, `fatfs::Driver<DISKIO_HW>`, over a
replaceable disk layer. This directory holds TLA+ models of the driver, the TLC
configurations that check them on small volumes, and proofs, checked by TLAPS,
of what matters most for volumes of any size.

`include/ffconf.hpp` as it stands builds read/write access without long names,
exFAT, relative paths, formatting, string functions, file locks and re-entrancy,
with one volume, 512-byte sectors and a sector buffer in every file object
(`FF_FS_TINY 0`). The core modules (`Window` to `Mount`) are about that build.
The source contains the other builds too, and so do the models: each module that
describes code an option turns on names the option. Some of these branches do
not compile as they stand (those of `FF_FS_LOCK` and `FF_FS_REENTRANT` use names
the port has renamed); they are modelled by what they say.

Source ranges are of `include/ff_driver_hidden_impl.hpp` ("hidden"),
`include/ff_driver_public_impl.hpp` ("public"), `src/ff_driver_common.cpp`
("common") and `src/ffunicode.cpp` ("unicode").

## 1. The system

### Components

| Component | State | Operations | Where |
|---|---|---|---|
| Disk layer | the medium; `Stat` | `initialize`, `status`, `read`, `write`, `ioctl` | `diskio_layer/` |
| Disk access window | `FATFS.win, winsect, wflag, fsi_flag` | `sync_window`, `move_window`, `sync_fs`, `dir_clear` | hidden 55-72, 402-450, 856-883 |
| FAT and cluster allocation | the FAT; `free_clst`, `last_clst` | `get_fat`, `put_fat`, `create_chain`, `remove_chain`, `f_getfree` | hidden 454-571, 676-851; public 1212-1296 |
| exFAT allocation (`FF_FS_EXFAT`) | the bitmap; `stat`, `n_cont`, `n_frag` of an `FFOBJID` | `find_bitmap`, `change_bitmap`, `fill_first_frag`, `fill_last_frag`, `create_chain`, `remove_chain`, `f_expand` | hidden 454-851; public 1954-2040 |
| Directories | directory entries; `DIR` | `dir_sdi`, `dir_next`, `dir_alloc`, `dir_read`, `dir_find`, `dir_register`, `dir_remove`, `follow_path` | hidden 887-1494 |
| Long names (`FF_USE_LFN`) | long name entries; `lfnbuf` | the same, with `put_lfn`, `pick_lfn`, `cmp_lfn`, `gen_numname`, `sum_sfn` | hidden 1066-1414; common 569-760 |
| Open files | `FIL` (`fptr`, `clust`, `sect`, `buf`, `flag`, `err`), `FFOBJID` | `f_open`, `f_read`, `f_write`, `f_sync`, `f_close`, `f_lseek`, `f_truncate`, `f_forward` | public 114-640, 829-985, 1304-1346, 2044-2109 |
| Name space | directory entries and chains; `FATFS.cdir` | `f_unlink`, `f_mkdir`, `f_rename`, `f_chmod`, `f_utime`, `f_opendir`, `f_readdir`, `f_stat`, `f_chdir`, `f_getcwd` | public 660-818, 993-1204, 1354-1727 |
| Mounting | `FatFs[]`, `Fsid`, the geometry in `FATFS` | `f_mount`, `mount_volume`, `find_volume`, `check_fs`, `validate` | public 55-106; hidden 75-399 |
| Names and numbers | none | `create_name`, `get_fileinfo`, `pattern_match`, `get_ldnumber`, `tchar2uni`, `put_utf`, `ld_*`, `st_*`, `clst2sect` | common |
| Code pages | tables | `ff_uni2oem`, `ff_oem2uni`, `ff_wtoupper`, `f_setcp` | unicode; public 3430-3451 |
| File locks (`FF_FS_LOCK`) | `Files[]` | `chk_lock`, `enq_lock`, `inc_lock`, `dec_lock`, `clear_lock` | common 370-468 |
| Re-entrancy (`FF_FS_REENTRANT`) | a mutex per volume | `lock_fs`, `unlock_fs`, `f_req_grant` | common 343-359, `ffsystem.cpp` |
| Formatting (`FF_USE_MKFS`) | the drive | `f_mkfs`, `f_fdisk`, `create_partition` | public 2115-2790 |
| String functions (`FF_USE_STRFUNC`) | `putbuff` | `f_putc`, `f_puts`, `f_printf`, `f_gets` | public 2800-3420 |
| Labels (`FF_USE_LABEL`) | the label entry | `f_getlabel`, `f_setlabel` | public 1733-1945 |

In the built configuration a public call locks nothing, keeps no thread and has
no callback: the driver runs one call at a time to its end. What makes it hard
is inside the calls: each is a sequence of sector transfers of which any may fail
or be the last before the power goes, over four places that hold the same facts
(the disk, the window, the sector buffers of open files, the fields of `FATFS`
and `FIL`). With `FF_FS_REENTRANT` there are threads, and a call may lose its
volume in its middle.

### How the components interact

- Everything but file data goes through the window. `get_fat`, `put_fat`, the
  `dir_*` functions and `f_sync` call `move_window(sector)`, then read or edit
  `win` in place and set `wflag`. `move_window` writes the sector it gives up;
  `sync_fs` writes it on demand, and the FSINFO sector after it.
- File data goes from the caller to the disk in whole sectors, or through
  `FIL.buf`. The buffer is written when another sector is needed, by `f_sync`,
  and by `f_truncate`.
- `create_chain` and `remove_chain` change which clusters an object has; the
  owner's first cluster is in `FIL.obj.sclust` until `f_sync` copies it to the
  directory entry. On exFAT the object also carries what of its chain is not on
  the FAT yet.
- `f_open` remembers where the entry is (`dir_sect`, `dir_ptr`); `f_sync` goes
  back there.
- `f_mount` and a failed `status` make `mount_volume` start over, which forgets
  the window, the current directory and the locks, and gives the volume a new
  id; objects with the old id are refused by `validate`.
- A name is turned from the encoding of the API into UTF-16 and the code page
  and back, by tables, on every way in and out of a directory.
- What `f_mkfs` and `f_fdisk` write, `find_volume` and `mount_volume` must read
  as it was meant.

### Hard behaviours

`PROJECT.json` lists the hazards, each at its line, with the properties that
cover it. By kind:

- **partial failure**: a transfer fails between two that belong together (the
  two FATs, the new cluster and the link to it, the clusters of a chain that is
  removed, the FAT and the buffer in `f_truncate`, the clearing of a directory
  cluster, the pieces of a long name, the buffer of `f_printf`);
- **stale state**: window against disk, file buffer against direct transfers,
  FSINFO counters against the FAT, chain status against the exFAT FAT, a kept
  sector number whose cluster changed owner, objects of an earlier mount, the
  current directory;
- **power cuts** between the FAT and the directory entry (`f_truncate`,
  `f_unlink`, `f_rename` with its commented critical section);
- **interleaving** of threads between two uses of the table of open objects, and
  of callers between two calls of `f_readdir`;
- **boundaries**: positions on sector and cluster boundaries, the wrap of the
  cluster search, disk full in the middle of a call, sizes that wrap in 32 bits,
  ends of names, paths, patterns and tables;
- **termination** of `remove_chain` on damaged chains.

### What makes each component correct

| Component | Properties |
|---|---|
| Window | a clean window equals the disk; a dirty one is never a sector that must not be edited; updates reach the disk in order; what `sync_fs` confirmed stays; the FATs agree |
| Allocation | chains never meet, dangle or loop; clusters are lost only to disk errors; full means full; removal ends on any FAT |
| exFAT allocation | the bitmap marks the clusters in use and no others; whatever is late on the FAT, `get_fat` tells the clusters an object was given |
| Open files | bytes written are in the buffer or on the disk; position, cluster and sector agree; what `f_close` confirmed is recorded; reads deliver what was written |
| Directories | names are unique; no entry lies behind the end mark; an entry that stays is listed once |
| Long names | a name and the short name beside it lead to their own object; no piece is left that fits another |
| Name space | at every moment the disk is a volume whose entries have chains and tables of their own; what was synchronised is not lost; the current directory is there |
| Mounting | an object of an earlier mount is refused; the mounted volume is on the medium in the drive; its layout is sound; nothing is written to a protected medium |
| Names, code pages, labels | what one function makes of a value its partner makes into that value again |
| Locks | the table counts the handles that are open; a writer is alone; an open file stays; nobody keeps a volume |
| Formatting | what is formatted is mounted as what it was made; partitions are apart |
| String functions | a text that was accepted comes back; an error in the middle reaches the caller |

## 2. Modules

| Module | What it is | Extends, instantiates |
|---|---|---|
| `SectorStore` | abstract: a map of sectors whose changes become durable in order | |
| `Window` | the disk access window | INSTANCE `SectorStore` |
| `WindowProofs` | theorems about `Window` | `Window`, TLAPS |
| `ChainStore` | abstract: each object owns a sequence of clusters | |
| `Linked` | the clusters of a chain: where `get_fat` leads from a first one | |
| `BasicLemmas` | induction over numbers, runs of a function, quotients and remainders, chains as sequences | `Linked`, TLAPS |
| `FatChain` | `create_chain`, `remove_chain` and their callers | `Linked`; INSTANCE `ChainStore` |
| `FatChainProofs` | theorems about `FatChain` | `FatChain`, `BasicLemmas` |
| `FileIO` | open files | `Linked` |
| `FileIOProofs` | theorems about `FileIO` | `FileIO`, `BasicLemmas` |
| `Listing` | abstract: a set of names and a reader that lists it | |
| `Directory` | one directory table and the calls on it | INSTANCE `Listing` |
| `DirectoryProofs` | theorems about `Directory` | `Directory`, `BasicLemmas` |
| `NameSpace` | files and directories as sector updates, with power cuts; the current directory | `Linked` |
| `Volume` | finding a volume on a medium, and its layout: functions of the boot record | |
| `Mount` | registering, mounting, objects and media | `Volume` |
| `MountProofs` | theorems about `Volume` and `Mount` | `Mount`, TLAPS |
| `Locks` | threads, the grant of a volume, the table of open objects | |
| `LocksProofs` | theorems about `Locks` | `Locks`, TLAPS |
| `ExFat` | allocation on exFAT | `Linked` |
| `ExFatProofs` | theorems about `ExFat` | `ExFat`, `BasicLemmas` |
| `Encoding` | characters of the API and of the driver | |
| `OemTables`, `CodePages` | the tables of `ffunicode.cpp` and the searches in them | `OemTables` |
| `Names` | names, patterns, numbered names, pieces of long names, labels, volume prefixes | `Encoding`, `CodePages` |
| `LongNames` | a directory table with long names | `Names` |
| `StringIO` | `f_putc`, `f_puts`, `f_printf`, `f_gets` | `Encoding` |
| `Format` | `f_mkfs`, `f_fdisk`, and mounting with GPT and exFAT | INSTANCE `Volume` |
| `Questions` | the form in which functions without state are checked | |
| `Formatting`, `Text` | what formatting, and names, characters and texts promise | `Questions`; INSTANCE `Format`, `Names` |
| `MCWindow`, `MCFatChain`, `MCFileIO`, `MCDirectory`, `MCNameSpace`, `MCMount`, `MCLocks`, `MCExFat`, `MCLongNames`, `MCFormat`, `MCText` | symmetry, views, bounds and inputs for TLC | the module checked |

The modules divide the system by question. `Window` justifies what the others
assume of sectors (an update happens or the call fails; updates reach the disk
in order). `FatChain` looks at chains with all details of the FAT, `Directory`
at a table with all details of `DIR`, `FileIO` at data with all details of
`FIL`. `NameSpace` puts entries, chains and tables together, each only as far
as their order on the disk goes. `Mount` looks at the time between calls: which
volume and which objects a call may work on at all, and that the layout the
other modules take for granted (`Window!LayoutAssumption` with one or two FATs
behind the boot record and data behind them) is what mounting yields. `Locks`
looks at the time between the steps of several threads. `Format` produces the
media that `Mount` finds. `Names` is pure functions; `LongNames` uses them in a
table, `Text` asks what they promise.

### Window

| Code | Model |
|---|---|
| the medium | `disk`, one content per sector |
| `win`, `winsect`, `wflag`, `fsi_flag` | the same names; `winsect = -1` is `NoSector` |
| `free_clst`, `last_clst` | `info`, their image in the FSINFO sector |
| `fs_type # 0` | `mounted` |
| `sync_window`, `move_window` | `sync_window_ok`, `sync_window_err`, `move_window`; the outcomes are sets of media |
| clients that set `wflag` | `Edit` |
| `create_chain`, `remove_chain` setting `fsi_flag` | `Account`; `f_open`'s hint without the flag is `Hint` |
| `sync_fs`, `dir_clear`, `f_mount`, `check_fs`, `mount_volume` | actions (`check_fs` an operator) of the same names |
| power cut | `Crash`: RAM is forgotten |

A transfer that fails leaves every outcome open: a failed write may have
landed, a failed read leaves the buffer undefined and the code sets `NoSector`.
A power cut in the middle of a call leaves on the medium what a failure of the
same transfer leaves, so `Crash` only forgets the RAM and covers cuts at any
point. Ghosts: `unmirrored` (FAT sectors whose second copy failed), `phantom`
(write errors nobody reported: FSINFO and `dir_clear`), `infoStale`, `synced`.

### FatChain

The FAT is a function from clusters to entries; the window below it is the
store of `SectorStore`, so that a call either changes an entry or fails.
`create_chain` writes at most twice, at its end, and is one step per outcome:
`CreateChain` (first cluster), `StretchChain` (follow or append), each with the
full, internal error and disk error outcomes; the search is `NewCluster`,
`NextCluster` and `Search`, the same cluster the loop finds. `remove_chain` is
a step per cluster (`RemoveAll` or `RemoveRest`, then `RemoveStep`,
`RemoveStop`, `RemoveFail`): it may fail between any two. `job` is the call
under way; nothing else runs meanwhile. `Init` is every sound volume with any
FSINFO counters, because `mount_volume` does not check them; `DamagedInit` is
every FAT whatever, where only `remove_chain` is asked to end.

### FileIO

`fil[f]` has the fields of `FIL` (`wr`, `dirty`, `mod` are the flags FA_WRITE,
FA_DIRTY, FA_MODIFIED; every file is opened with FA_READ), `entry[f]` the two
fields of the directory entry that matter here. `f_read`, `f_forward`,
`f_write` and `f_lseek` begin with an action of that name and go on with a step
per turn of their loop (`ReadStep`, `ForwardStep` and `ForwardEnds`,
`WriteStep`, `SeekStep`, `SeekEnd`); the stream of `f_forward` takes any part of
what it is offered, or nothing, or is not ready. `f_sync` and
`f_close` are `SyncNothing` or `SyncModified`. `Flush`, `Fill` and `Bring` are
the places where the code writes back and fills `FIL.buf`, `Abort` is the macro
ABORT.

A byte is a tag, `<<f, i>>` for "what byte i of f should now be", `Old` for
anything else; writing or truncating turns every other copy `Old`, wherever it
is. `undef[f]` are the offsets that hold nothing in particular: a range f_lseek
extended over, the range of a direct write that failed, and what `f_close`
drops with a dirty buffer after an aborted call (`Dropped`). `create_chain` and
`remove_chain` are sets of outcomes, with any free cluster for the new one and
a full volume at any time (FSINFO may count too few). `cached` says that an
entry is only in the window.

### Directory

| Code | Model |
|---|---|
| entries of a table | `slot[sector][index]`: a name, `end`, `deleted`, `other` (volume label, dot entries) or `junk` (what an old cluster holds) |
| `DIR`: `dptr`, `sect`, `clust` | records of these fields; offsets count entries; `dir` is `dptr % SS` in the sector |
| the open `DIR` of the caller | `rd` |
| a call under way | `job`: the operation, its phase `pc`, its `DIR`s |
| `dir_sdi(dp, 0)` | `Top`; without long names no other offset occurs |
| `dir_next` | `dir_next`, the set of its outcomes; `Stretch` with `dir_clear` |
| `dir_find`, `dir_alloc`, `dir_remove`, `dir_read` | a step per entry each; `dir_register` is `dir_alloc` and `Put` |
| `f_open`/`f_stat`, `f_mkdir`, `f_unlink`, `f_rename`, `f_opendir`, `f_readdir` | actions that begin a call |

`sclust` is 0 for the static root table of FAT12/16 and 2 for a table on
clusters; one run covers both. An error of `get_fat` in `dir_next` leaves what
the code leaves (`Derailed`). Ghosts follow the reader: `scan` (its state),
`must` (names there since it started), `seen` (how often it got a name since
the name came in); `twice` are names that a failing rename to themselves left
with two entries, `garbled` says that `dir_clear` failed in a linked cluster.

### NameSpace

A call is the list of its updates (`job.plan`), worked off a step at a time:
`Look` (a search moves the window), `Link` (a FAT entry), `Enter` (a directory
entry), `Up` (the dot-dot entry), `Clear` (`dir_clear`), `Write` (data, past
the window), `Sync`; `Fp`, `Cdir` and `Undo` are the moments at which the
caller's object, the current directory and the cleanup of `f_mkdir` change, in
memory and so together with the update before them. The plan can be laid down at the
beginning because calls do not overlap. Every step may fail, in each way a
transfer can, and ends the call then. Operators give the order in each call:
`Reset`, `Stretch`, `MakeTable`, `Moving`, `Removal`, `Recording`.

The properties are invariants of `disk`, the medium, in every state: what a
power cut would leave at that moment. `Crash` forgets the RAM and goes on. The
ghosts name the two exceptions the code has: `moved`, objects inside the
critical section of `f_rename`, and `cut`, files truncated and not recorded
since. `safe` is what was synchronised, with the places where it may be since;
a directory that the caller moves below itself leaves it (`OutOfReach`).

`cdir` is the current directory (`FF_FS_RPATH`). `f_chdir` goes to any directory
that a path leads to, from the root or by names and dot-dot entries from where
it is; `f_getcwd` climbs the dot-dot entries and looks in each table for the
entry of the one below, which `CurrentFound` says is there. `f_unlink` refuses
the current directory (`IsCurrent`); `f_rename` may move it, or one above it.

### Volume and Mount

| Code | Model |
|---|---|
| boot record and BPB, FSINFO | records (`BootRecord`); a medium has some at certain sectors, and a partition table |
| `check_fs`, `find_volume` | operators of the same names; the sectors that cannot be read are a parameter |
| BPB checks and the fields of `FATFS` | `Accepted`, `Layout`, `Info`; sums and products are taken modulo `Word32` |
| `FatFs[0]`, `Fsid` | `FatFs`, `Fsid` (modulo `IdMod`) |
| a `FATFS` | `fs[f]`; `Off` when `fs_type` is 0; possibly `Garbage` at first |
| `FFOBJID` of a `FIL` or `DIR` | `obj[o]`, with FA_WRITE |
| `status` and `initialize` | `drive`: the medium, STA_NOINIT, STA_PROTECT |
| `mount_volume` | `mount_volume`, the set of its outcomes; `FindAndMount` from `find_volume` on |
| `validate` | `Valid` |
| `f_mount`, `f_open` and `f_opendir`, `f_close` and `f_closedir`, other calls by path | `f_mount`, `Open`, `Close`, `CallByPath` |
| the user's hand | `Eject`, `Insert` |

Any of the boot sectors may be unreadable in a mount, any initialisation may
fail, any FATFS may be registered over any other, without or with mounting at
once, and media change between any two calls. Ghosts: the `age` of an object
(mounts since it was opened) and `missed`, the sectors that could not be read
in the last mount.

### Locks

| Code | Model |
|---|---|
| `Files[]` (`fs`, `clu`, `ofs`, `ctr`) | `Files[i]`: `key` (a place of an entry, or the first cluster of a directory at offset 0) and `ctr` |
| `sobj`, the mutex of a volume | `grant[v]` |
| `FIL` and `DIR`: validity, `lockid` | `handle[h]` |
| the volume | `there[p]`: what is at the place of an entry |
| a thread in a call | `call[t]`: the point it is at and what it has found |
| `lock_fs`, `unlock_fs`, `chk_lock`, `enq_lock`, `inc_lock`, `dec_lock`, `clear_lock` | operators of these names, or the steps `Check`, `Find`, `Seek`, `Count`, `Release` around them |

Between two uses of the table another thread may run: the table is one for all
volumes and not protected by anything but the grant of the caller's volume.
`f_close` gives its volume back in `f_sync` and asks for it again (`Again`).
`validate` looks at the id of the object before it waits for the volume.
`f_opendir` registers a directory by its own cluster, `f_unlink` and `f_rename`
ask for the place of its entry.

### ExFat

A cluster is free by the bitmap; the FAT of a contiguous chain (`stat` 2) is not
written, that of a chain in fragments (3) is late by its first part (`n_cont`)
or its last (`n_frag`); `get_fat` makes up what is missing. One action per call:
`f_open`, `f_write`, `f_truncate`, `f_sync`, `f_close`, `f_expand`, `f_mkdir`,
`f_unlink`, `f_rename`, `f_getfree`; `f_lseek` is a first step and one for each
turn of its loop (`LseekTurn`), in each of which it may stretch the file. `seek`
is what it has still to go, and no other call runs meanwhile (`Idle`).
`remove_chain` is a walk, `Cleared`, of turns `ClearTurn`. Files and
sub-directories are in a directory, `Home`, which grows by clusters of entry
blocks, so that the place where an object remembers its directory (`c_scl`,
`c_size`, `c_ofs`) becomes old. Three ghosts: `chain` is what each object was
given, in order; `lost` are the clusters that a failed `f_mkdir` took and did not
give back; `stray` says that one gave back more than its own, because the object it
does that with, which it leaves uninitialised, told it so (`Misled`; section 4).

### Encoding, CodePages, OemTables, Names

`Encoding` has `tchar2uni`, `put_utf` and the words of on-disk structures for
the four encodings of the API. `CodePages` has the up-case tables of the
single-byte pages and the searches of `ff_uni2oem`, `ff_oem2uni` and
`ff_wtoupper`, on their tables: those of the single-byte pages character by
character, the pairs of the double-byte pages (`OemTables`) as blocks, a block
being a number of pairs that stand together of which the first, the last and
some in between are spelled out. A search that meets a pair that is not spelled
out learns on which side of it the key is and no more.

`Names` has `create_name` in both builds (`create_name_sfn` without long names),
`get_fileinfo`, `gen_numname`, `sum_sfn`, `put_lfn`, `pick_lfn`, `cmp_lfn`,
`pattern_match`, `get_ldnumber`, and the labels of `f_setlabel` and
`f_getlabel`. The widths of short names and of pieces are constants.

### LongNames

One directory table with long name entries. What a name becomes is computed by
`Names`; a call is one action (nothing runs meanwhile), which fails on the disk
before any entry it would write and leaves what it wrote until then. `sure` are
the objects a failed call cannot have harmed: pieces without a short name stay
behind when `dir_register` fails, and may fit the short name that comes next.

### StringIO, Text

`StringIO` writes a text by `f_putc`, `f_puts` or `f_printf` on a file that
takes all, some or none of what is written, in every combination of the
encodings of the API and of the file, and reads it back by `f_gets` with buffers
of several sizes. `Text` puts it together with **questions** (`Questions`): a
behaviour chooses a kind of question and an input, and the properties are
invariants about what the functions answer. So the inputs are TLC's states, and
a mutant of a function is found like a mutant of an action.

### Format, Formatting

A drive is what was written on it. `f_mkfs` and `f_fdisk` compute what they
write (`writes`), the result, and where the volume lies; a write may fail, and
those of the backup boot record and of FSINFO fail without anyone noticing.
The CTRL_SYNC at the end of `f_mkfs` may fail too (`Synced`).
Sums of `DWORD`s are taken modulo `Word32`. `Formatting` asks `find_volume` and
`mount_volume` (with GPT and exFAT) what they see on the drive after some calls.


## 3. Runs

| Run | Instance | Distinct states | Shows |
|---|---|---|---|
| `window_fat32` | 6 sectors: boot, FSINFO, 2 FATs of 1, 1 cluster of 2; two contents | 45 thousand | all window properties and the refinement of `SectorStore` |
| `chains` | 4 clusters, 2 objects | 114 thousand | chain properties from every sound volume; the FAT implements `ChainStore` |
| `chains_damaged` | 3 clusters, 1 object, every FAT | 273 thousand | used entries are kept, every removal ends |
| `one_file` | 1 file, 2 clusters of 2 sectors of 2 bytes, sizes to 5 | 635 thousand | position, cluster, buffer, entry and disk stay in step; reads are right |
| `directory` | 2 names, 2 entries to a sector, 2 sectors to a cluster; a static table of 4 entries, and a table of 1 or 2 clusters | 1.9 million | all properties of a table, and that it implements `Listing` |
| `name_space` | 2 names, 2 clusters, files to 2 clusters, one fault | 784 thousand | the disk is sound at every moment, nothing synchronised is lost |
| `mounts` | 2 FATFS, 1 object, 3 mount ids, some 170 media of which 3 are exchanged | 174 thousand | all properties of mounting |
| `functions` | strings to 4-6 characters, all code pages, a few thousand drives | 212 thousand | what names, patterns, characters, labels, texts and formatting promise |
| `long_names` | a table of 5 entries, 5 names, one failing call | 42 thousand | names lead to their objects, pieces stay with theirs |
| `locks` | 2 threads, 1 volume, 2 places, 2 files, 1 directory, a table of 2 | 314 thousand | the table counts, a writer is alone, an open file stays |
| `exfat` | 5 clusters, a file and a sub-directory in a directory, sizes to 3 | 124 thousand | chains, bitmap and entries agree, but for what a failed `f_mkdir` loses, and until one frees more than its own cluster |
| `stray_write` | 2 files, 1 cluster | violation | the finding of section 4 |

Properties that belong together are one definition, a conjunction of named
parts: `ChainsApart` (`NoDangling`, `NoCrossLink`), `CountHonest`
(`CountCovers`, `FullIsFull`), `TableSound` (`TypeOK`, `UniqueNames`,
`NothingBehindEnd`, `FullMeansFull`, `InPlace`), `InStep` (`TypeOK`,
`ChainsHoldFiles`, `Positioned`, `Stored`, `Recorded`), `VolumeSound` (`TypeOK`,
`EntriesApart`, `EntriesBacked`, `TablesReady`, `CurrentFound`),
`ObjectsInPlace` (`OwnMount`, `WriteAllowed`), `VolumeTrue` (`VolumeOfMedium`,
`LayoutIsSound`).

### Why the bounds are enough

*Window*: the code tells apart the sector in the window, the FAT sectors, FSINFO
and all others; there is at least one of each, two contents tell old from new.

*Chains*: four clusters give two chains of two, a wrap of the search with a used
entry on each side, and a removal with a cluster behind and before the cut.

*Files*: two bytes to a sector are a first and a last byte, so that every
boundary condition of the loops (inside a sector, on a sector, on a cluster
boundary) has both sides; five bytes cover two clusters, three sectors and a
partial one; three clusters give nothing that two do not, since a chain of two is
already stretched, followed and cut. What another file does shows only in
`stray_write`, where it takes the cluster that was freed.

*Directory*: a table begins with other entries and at most `Room` free ones, so
that two names soon fill it and it grows; `MAX_DIR` is reached with two clusters;
two entries to a sector and two sectors to a cluster give `dir_next` its four
cases.

*Name space*: every FAT entry and every table has a sector of its own, the case
with the most moments between two updates; two clusters hold a file of two, a
directory in a directory, or a file and a directory that compete. `MaxFaults` is
1: one failing transfer or one power cut, after which calls go on. Since the
invariants speak of the disk in every state, a power cut after a failing transfer
is covered; two failing transfers are not. Files are opened, and `f_chmod` and
`f_utime` called, only while the root is the current directory; `f_chdir`,
`f_chmod` and `f_utime` are called only while no file is open: these calls do not
touch what an open file has in memory. The current directory is changed before the
fault only. Calls that change nothing (`f_stat`, `f_readdir`) are not actions: a
clean window is anywhere when a call begins (`Elsewhere`), which is all they do.

*Mounts*: three ids are enough for an object to be one and two mounts old and for
an id to come again; two FATFS are the registered one and another. Sectors have
64 bytes, a sector number has 512 values, and the greatest numbers of clusters
are 43, 48 and 60 for FAT12, 16 and 32: the volumes have 4 to 70 sectors, so that
the thresholds, the size of the FAT at a sector boundary, and the overflow of the
product of FATs and their size all occur. Every medium is in the drive at first
once; the three that are exchanged are a sound one, one that cannot be mounted
and one with a partition table.

*Functions*. Names: short names of 3 + 1 characters and pieces of 3 put every end
within a string of five; the characters are one of each kind the code tells apart
(upper, lower, dot, separators, blank, forbidden, the mark of a deleted entry,
both bytes of a double-byte character, beyond the code page, surrogates). Code
pages: every character of every single-byte page, every key of the double-byte
tables as far as it is spelled, every upper-casing of 65536 characters. UTF:
the edges of every length. Texts: up to two characters in each of the 96
combinations of encodings and line ends, buffers of 6 and 9, a file that takes
any part. Drives: on `Real` the limits of the code (a DWORD is taken as 30 bits,
TLC's integers being 32) around every size at which the layout changes; `Small`,
`Narrow` and `Gpt` shrink the limits so that every size, percentage and partition
up to the end of a DWORD is reached.

*Long names*: pieces of 4, names to 6: one or two pieces, one that is filled to
its end (`abcd`); `AB`, `Ab`, `A~1` differ in case or are what a numbered name
may be; after two numbers (`NumLimit` 3 for 100) a call gives up; a table of five
has no room for the largest two. Two objects (`Ids`) compete.

*Locks*: a table of two is full with two open objects; `WriteMark` 4 stands for
0x100 and exceeds the three handles. A medium is exchanged, but not while a call
by handle waits for the volume (`ExchangeAnytime` FALSE; see section 4). Two
volumes are in section 4 as well.

*exFAT*: five clusters for a file of up to three, a sub-directory and the
directory they are in, with one entry block to a cluster: every chain can be
contiguous, broken once, twice, and grow while its neighbour is in the way. Disk
errors are not in this model. `Garbage` is the content of the stack where
`f_mkdir` leaves an object uninitialised: zeros, or what is left of an object,
empty, of one cluster, ending with the cluster of the directory, or going on to the
end of the volume. With these the cluster is given back, is lost, or is given back
with the ones behind it (`stray`). `CONSTRAINT WithoutStray` ends the exploration
in the states of the last kind, of which no property says anything: in what follows
a cluster of another object has been freed, and each of the four properties, were
it not for its condition, is violated a call or two later.

`one_file` uses a view (`MCFileIO!View`) that drops what no step and no property
reads again: the position of an object in error, its clean buffer, and tags of
bytes that are not in their place. `directory` and `name_space` have views that
leave out where a disabled `DIR` was and, between calls, clean windows and the
contents of clusters nobody has; that of `mounts` the layout of a volume while no
call can go on with it. Clusters, objects, names, files and threads are
interchangeable, which the symmetry sets use for safety properties only.

**Fairness.** `chains_damaged` (`RemovalEnds`) has the liveness property. Its
fairness is weak fairness of the steps of the call under way: the driver is
single-threaded, so a call runs until it returns. No transfer is assumed to
succeed, and no call to be made.

**Deadlock** is checked in all runs but three. In `name_space` calls stop on a
volume that a cut in a critical section has broken; `long_names` ends after its
failing call when no call is left that the bounds allow; a question of
`functions` has an answer and no next state.

## 4. Findings and weaknesses

**Finding: a failed truncation can overwrite another file** (run `stray_write`).
`f_truncate` frees clusters and then fails, in `remove_chain` or in writing back
the buffer, and returns through ABORT with FA_DIRTY still set and `fp->sect` in a
freed cluster. `f_sync` does not look at `fp->err`: `f_close` writes the buffer
there, over the bytes of a file that has taken the cluster since, and answers
FR_OK. `Stored`, `Kept` and `ReadsRight` hold as long as this has not happened
(`~stray`).

The other weaknesses we met contradict no comment, or only a general one, but for
that of `f_mkdir` on exFAT. They are modelled as they are, and show up as the
conditions of the properties, or are noted here because no property is about them.

*Window and allocation.* Write errors of the second FAT and of FSINFO are
dropped (`unmirrored`, `infoStale`, `phantom`). A failed link loses a cluster
without counting it (`leaked`).

*Files.* An `f_write` that aborts does not set FA_MODIFIED and may lose its part
of the buffer (`undef`). `f_sync` clears FA_MODIFIED whatever `sync_fs` answers
(public 596): the caller's second attempt, by `f_sync` or `f_close`, does nothing
and answers FR_OK while the entry waits in the window. Between `f_truncate` and
the next `f_sync` a power cut leaves an entry whose clusters are free or another
object's (`cut`). `f_truncate` leaves the table of fast seek as it was.

*Directories.* `dir_read` disables the `DIR` when it fails; `f_readdir` moves on
with a `dir_next` of its own (public 1110), whose error leaves the `DIR` enabled
with `sect` one past the cluster (`Derailed`). The caller gets the error; the
next call answers FR_OK with what lies in the physically next cluster.
`f_rename("a", "a/b")` answers FR_OK and leaves the directory in a table that
only it contains (`OutOfReach`); `f_getcwd` in it ends with FR_NOT_ENOUGH_CORE.
When the path just fits, `f_getcwd` puts the final 0 behind the buffer (public
779-815).

*Mounting.* A partition whose boot sector cannot be read is passed over, and the
next FAT partition mounted instead, without an error (`missed`). Sizes in a boot
record that overflow a DWORD can pass all checks (`Representable` is a condition
of `LayoutIsSound`). A mount id comes again after 65536 mounts (`Recent`).

*Locks.* The table of open objects is one for all volumes, the grants are one per
volume: threads on two volumes may find the same blank entry and both take it.
With `Volumes = {v1, v2}`, `Tables = {}` and `VolumeOf <- MCLocks!TwoVolumes` TLC
finds `LocksCount` violated within seconds, although a comment of `ffconf.hpp`
(327-328) calls access to different volumes always re-entrant. `validate` (hidden
81) looks at the id of an object before it waits for the volume: a call by handle
may go on with an object of a medium that was exchanged meanwhile
(`ExchangeAnytime`). `f_opendir` registers a directory under its own cluster
while `f_unlink` and `f_rename` ask for the place of its entry, so an open
sub-directory can be removed, which `ffconf.hpp` 311-318 says the table prevents
(`OpenFileStays` is about files). The 256th open for reading makes `ctr` the mark
of a writer (`MarkAssumption`).

*exFAT.* When `dir_register` fails, because the directory above is full and so is
the volume, `f_mkdir` calls `remove_chain(&sobj, dcl, 0)`: "Could not register,
remove the allocated cluster" (public 1517). Of `sobj` only `fs` was set, and `stat`
by `create_chain`; `get_fat` answers from `sclust` and `objsize`, which are whatever
was on the stack (`Garbage`). If they describe a chain that ends with just this
cluster, it is freed. If they describe none that it is in, the answer is 1:
`remove_chain` gives up with FR_INT_ERR before it has cleared the bit, nobody looks
at its result, and the cluster is in no chain from then on (`lost`, which
`BitmapAccounted` names as the one kind of cluster, besides the reserved ones, that
is marked and in no chain; `NeverInternal` is about what calls answer). If they describe a longer chain,
`remove_chain` goes on to the next cluster, and clears it in the bitmap though it
may be another object's. From then on nothing is promised: `stray` is a condition
of all four properties. A write error after the first `create_chain` of a file
leaves a first cluster with size 0. `f_expand` and `find_bitmap` count a run of free
clusters across the end of the volume.

*Formatting.* The results of writing the backup boot record and FSINFO are
ignored (public 2680-2688). On large exFAT volumes sizes wrap or are truncated
before they are divided (public 2420-2423); `VolumesFound` excludes those drives
(`Outgrown`). The end of a GPT partition may wrap (2169).

*Names and characters.* Without long names, `create_name` takes "." for a name of
blanks, and with relative paths a dot segment does not skip further separators
("../" is refused, "a/" is not; `DotNames`). The up-case tables of pages 737 and
775 are not idempotent. `gen_numname` takes a stored 0x05 for itself and not for
the lead byte it stands for. The table of page 950 has ten repeated keys
(`Doubled`). `f_printf` and its like test a UTF-8 lead byte with `(c & 0xF1) ==
0xF0` (public 2990), which refuses F1 and F3; an unfinished last character is
dropped. `f_gets` answers 0 for a buffer that is too short, as for the end of
file. A `dir_register` that fails leaves pieces of the long name behind, which
may fit the next short name (`sure`).

What the models ask of the environment: the drive reports STA_NOINIT once its
medium was changed, which `diskio_mmc_spi.cpp` does not (its `status` is always
0); media change between calls only (between steps, in `Locks`); one translation
unit includes the driver's header, because `FatFs` and `Fsid` are `static` in it
and so exist once per unit; objects in use are not opened, removed or renamed
again, as FF_FS_LOCK 0 demands; and a FAT32 volume with an FSINFO has it outside
its FATs (`Window!LayoutAssumption`), which `mount_volume` does not check.

## 5. Proofs

TLAPS checks, for every value of the constants, the theorems `PROJECT.json`
lists. Assumptions: `ContentAssumption`, `LayoutAssumption` (the geometry that
`mount_volume` computes), `NFatEntAssumption` (at least one cluster);
`GeometryAssumption` (sectors and clusters are not empty, there are finitely many
clusters, the marks `None` and `EOC` are none of them, and `None`, which stands
for sector 0 as well, is no sector of theirs);
`SizeAssumption` and `NameAssumption` (a table has sectors with entries in
them, and there are names);
`WidthAssumption` (sectors of at least 32 bytes, ordered cluster limits, a DWORD
that holds the byte size of the greatest FAT), `IdAssumption`,
`MediaAssumption` and `NullAssumption`; `TableAssumption` (the table of open
objects has entries), `KeysAssumption` (every place is on a volume),
`MarkAssumption` (fewer handles than the mark of a writer) and
`NobodyAssumption`; and `VolumeAssumption` (on exFAT, the bitmap has the first
cluster, a cluster of a directory holds an entry block, there are finitely many
names, and a first directory exists). The sets of objects, contents, FATFS, media,
threads, places and handles are arbitrary.

**WindowProofs.** `IInv` is `TypeOK`, `Coherent`, `DirtyIsEditable`,
`MirrorAgrees` and `FsInfoFresh`, with what ties the ghosts to the flags:
`phantom` only while mounted, and `synced` only while mounted with nothing
waiting in the window or in FSINFO, from which `SyncedIsDurable` follows.
`Coherent` alone is not inductive: a write-back may only be assumed harmless
when the dirty sector is one clients may edit, so that it never hits FSINFO or
the FAT copy, which is `DirtyIsEditable`, which needs the type of `winsect`.
`FixedPlaces` collects the arithmetic of the layout. One lemma per action;
`Invariance` puts them together. `Refinement` maps the window and the disk to
`store` and `durable` and shows that each action is one of `SectorStore`'s or a
stutter.

**FatChainProofs.** `IInv` is `TypeOK`, `NoDangling`, `NoCrossLink`, `NoLeak`,
`CountCovers`, `FullIsFull` and `BusyWhileRemoving` (the removal has a cluster
in use, and `ret` says busy). The properties are stated on single links ("a
cluster is referred to once", "what is referred to is in use") and not on
chains as sequences: links are local, so these proofs need no induction along a
chain. The counting (`CountCovers`) uses the cardinality of the free set with
one cluster more or less. `ChainsStayApart` and `CountStaysHonest` are the
theorems about the properties of the runs. `UsedEntriesStay` needs the types
only and holds from any FAT. `FatImplementsChains` is about chains as sequences:
when no entry is referred to twice and none refers to the head, then by induction
along the chain no cluster is in it twice and none in two of them, so a count
shows that `Follow` reads it to its end; a sequence that is linked in the new FAT
from its head to its end is the new chain. That makes a stretch `Grow`, a failed
link `Lose`, the beginning of a removal `Cut`, every turn of it `Release`, and
a removal that fails `Abandon`; the rest are stutters, and a removal that stops at
a free entry does not happen.

**DirectoryProofs.** The invariant has, besides the types and that the table is a
chain of clusters, what the calls under way rely on. `Passed` and `NoRoom`: a
search has no entry of its name behind it, an allocation no free run. `BehindEnd`:
nothing lies behind the end mark. From these `OneEntry` follows when an entry is
registered, and `TableStaysSound` is the result. It has the two exceptions of
`TableSound`: a name that a rename to itself left twice when it failed between its
two entries (`twice`), and what lies behind the end mark of a table to which a
cluster was linked that could not be cleared (`garbled`). A position and the place it
denotes determine each other (`Quiet`, `ReaderAt`), by the lemmas on quotients and
remainders and by induction along the chain of the table; a cluster that is added
lies behind every position. `TableRefinesListing` adds what a reader still owes
(`Ahead`) and what it delivered (`Behind`), both as long as it is not derailed at
the end of a cluster by an error of its own `dir_next` (section 4). `dir_register`
is `Add`, `dir_remove` is `Remove` (or again `Add`, when a file is renamed to its
own name), a `dir_remove` that fails leaves two names (`Double`), `f_opendir` is
`Start`, an item read `Deliver`, the end `End`, errors `Fail`.

**FileIOProofs.** The invariant (`IInv`) has four parts besides the types.
`Volume`: the first clusters of the files, those the open objects know of and
those of the entries of the closed ones, and the links of the FAT lead to clusters
in use, none of them twice; so each file has a chain with no cluster twice, and no
two share one (as in `FatChainProofs`, by induction along the chain). `Mine`: the
object, its chain, its entry and the call that runs on it are in step. What the
properties say of the object between calls, each loop needs in the form that holds
between its turns: `Reading`, `Writing` and `Seeking` say how far the call still
goes and where `clust` and the buffer are meanwhile. In a seek the position is at
the boundary of its cluster and `clust` is the cluster *of* it (`There`), in the
others and between calls the one *behind* it (`Placed`). `Lags`: an object without
FA_MODIFIED has an entry that is its own as far as it goes, or empty, since a call
that failed may have given a file its first cluster and said so nowhere. `Data`:
`Sound` for open files (the statement of `Stored`) and `Safe` for closed ones (that
of `Kept`), in every state in which `stray` does not hold.

A step is the work of one file. `Frame` says what it has to leave alone (the
chains of the others, and their bytes: only its own bytes and clusters of its
chain before or after may change, `Clean`) and what of its own it has to restore.
Then each action needs its outcomes only: those of the FAT (`NewFirst`, `NewNext`,
`RemovesAll`, `CutLeads`), those of the buffer (`Flushed`, `Brought`,
`Prepared`), and what a write does to the bytes (`PatchedSound` for the buffer,
`StraightSound` for whole sectors, where a clean buffer that held one of them is
refilled). A byte is where its cluster, sector and place in the sector say
(`PlaceIs`, `Place`), so that writing some bytes leaves the others where they
are. `ObjectsStayInStep`, `ClosedFilesKept` and `ReadsAreRight` follow, for any
set of files and clusters and any geometry. TLC checked the invariant before it was
proved, on the instance of `one_file` and on one with two files and two clusters of
one byte.

**ExFatProofs.** `Knows` says what the allocation fields of an object must tell,
with the FAT, of the clusters it was given: all by number (`stat` 2), or the first
`n_cont + 1` and the last `n_frag` by number and those between by their FAT
entries. `IInv` requires it of the handle of every open file and of the entry
block of every object no handle knows better of; that chains are disjoint and the
bitmap is their union with the reserved and the lost clusters (`Apart`); that the
free count is exact; and that what a handle remembers of its directory is a
beginning of the directory's chain with its entry block inside, contiguous if it
says so (`HomeSeen`). `ChainKnown` alone is not inductive: while `n_frag` is not 0
it says nothing of the chain, and it does not say what the FAT holds.

`GetFatOf` and `ChainIsFollowed` lead from `Knows` to `get_fat` and to the chain.
Then there is one lemma for each helper: `LastFilled`, `FirstFilled` (the object
knows its chain with the fragment on the FAT), `CreateExtends` (the cluster was
free, and object and FAT know the longer chain), `RemoveIs` (those behind the cut
are cleared, each counted once, and the status that remains knows the rest),
`DirRegister` (the directory may grow by a cluster). `remove_chain` clears block by
block and counts cluster by cluster: `ClearedAlong` is the induction along the
chain, in which a block is a run of numbers. None of them changes FAT entries of
other chains, and so one lemma per call follows (`WriteKeeps`, `TruncateKeeps`,
...), with `Others` for what the call does not touch. In a turn of `f_lseek` the
size is one behind the position, so `TurnKeeps` is stated between turns, where it
has been raised. TLC checked the invariant first, on an instance with one file and
with two.

The theorems assume nothing of `Garbage`. What is inductive is `Invariant`, that
`IInv` holds unless `stray`; the latter is for good (`StrayStays`), so that `IInv`
need only be shown in the steps that leave it FALSE. Of a volume that an `f_mkdir`
has damaged in this way they say nothing (section 4).

**MountProofs.** `AcceptedIsSound` is about the boot record alone: from the
checks of `mount_volume` and the absence of overflow it derives, by a few lemmas
on quotients and remainders, that the areas of the volume do not overlap and
every cluster has an entry. The inductive invariant `IInv` has three parts
besides the types. `Latest`: the registered FATFS, once mounted, has the last id
given, as any later mount would have been its own. `Orphan`: an object on another
FATFS finds it unmounted, because `f_mount` clears both the old and the new one.
`Counted`: the ids given since an object was opened follow its own. Together
they make `OwnMount`, which is not inductive (it says nothing of unmounted
volumes, from which later mounts start). `Writer` adds the write protection.
`IInv` is stated of arbitrary values (`Consistent`), so that one lemma,
`MountKeeps`, covers `mount_volume` as it is called by `f_mount` after its own
changes and by all others. `VInv` adds that a volume a call may go on with was
found on the medium in the drive and accepted. `ObjectsStayInPlace` and
`MountedTruly` are the results.

**LocksProofs.** Two invariants. `GInv` holds for any number of volumes: `TypeOK`,
`GrantHeld`, `CallsPlaced` (a call is at a point of its own kind, with places of
the volume it asks for) and `HandlesKeyed` (an open handle has a key);
`VolumeIsGranted` follows. `LInv` adds, for one volume whose medium is
not exchanged while a call by handle waits (`SingleVolume`), `CallsSound` (what a
call found in the table is still there), `OwnHandles` (no two calls open the same
handle) and `TableRight` (the three properties of the run, and
that only files are open to write). That the steps of other threads
leave what a call found alone is the lemma `Alone`: there is one thread inside.
`CallsSound` is what makes `LocksCount` inductive: without it a call might count
an entry of the table that became another object's while it searched.
`TableCounts`, `WritersAreAlone` and `OpenFilesStay` are the results; the
condition `SingleVolume` is in their statements because with two volumes they are
false (section 4).

**BasicLemmas.** Induction over the numbers is stated of sets (`Induction`: a set
that holds 0 and the successor of all it holds holds every number), because the
library's theorem takes an operator, which the provers cannot instantiate. From
it follow that a recursive function of one number exists (`RunExists`) and is what
its equations say (`RunsAreEqual`), which is how `Follow` and the walks of
`Directory` are reasoned about: `Linked` is written with such functions for this
reason.

**Only model-checked**: `RemovalEnds` (liveness); `NameSpace` (not
proved yet); `LongNames`, `StringIO`, `Format` and the functions of `Names`
and `CodePages`: these are RECURSIVE operators on strings and tables, for which
the prover has no SMT backend.

## 6. Not modelled

- **The disk layers.** `diskio_mmc_spi.cpp` initialises the card and waits for
  its answer without a limit; its `read`, `write` and `ioctl`, and all of SDIO and
  USB, answer success and move nothing. There is no behaviour to relate to the
  driver's; the models take a disk that may fail any transfer.
- **Floating point** in `f_printf` (`ftoa`, public 3140-3268): rounding of
  doubles is out of TLC's reach.
- **Checksums and hashes**: those of exFAT entries and boot regions, the CRC and
  the identifiers of GPT. Nothing in the models tells two values apart by them.
- **`f_expand` on FAT12/16/32** (public 1992-2015), fast seek (`CLMT`), the wrap
  of the 32-bit position in `f_write`, the two halves of a FAT12 entry in two
  sectors, exFAT entry blocks that span two new clusters, disk errors on exFAT.
- **`f_stat`**, which changes nothing (its search is in `Directory`), the
  read-only attribute, `get_fattime`.
- **Tests and build files**: they instantiate the templates.

Worth doing next: proofs for `NameSpace`; two faults in `name_space`; disk errors
in `ExFat`.

## 7. Running

Each run of `PROJECT.json` is a module and a configuration:

    tlc -config MCWindowFat32.cfg MCWindow
    tlc -config MCDirectory.cfg MCDirectory
    tlc -config MCLocks.cfg MCLocks
    tlc -config MCText.cfg MCText

and the proofs are checked with

    tlapm BasicLemmas.tla
    tlapm WindowProofs.tla
    tlapm FatChainProofs.tla
    tlapm FileIOProofs.tla
    tlapm DirectoryProofs.tla
    tlapm MountProofs.tla
    tlapm LocksProofs.tla
    tlapm ExFatProofs.tla
