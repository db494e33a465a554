# QuickStore in TLA+

QuickStore is an embedded key-value store for Android and iOS whose files are
those of MMKV: a memory-mapped log of records, `<id>`, and a meta record in
`<id>.crc`. This directory holds its specifications, the models that TLC checks
and the proofs that TLAPS checks. The reference is the code under `src/`; every
definition that stands for code names its lines in `PROJECT.json` under `map`.

## 1. The system

| component | source | state | operations |
|---|---|---|---|
| QuickStoreWriter | `core/src/writer.cpp` | `m_dataRegion` (the mapping), `m_meta`, `m_map` (key to offset), `m_crcFd`, `m_fileLock` | `open`, `setX`, `remove`, `clearAll`, `compact`, `getX`, `contains`, `count`, `allKeys`, `close` |
| MmapRegion | `core/src/mmap_region.cpp` | descriptor, address, size | `open`, `grow` |
| MetaInfo | `core/src/meta_info.cpp` | 112 bytes of the `.crc` file | `readMetaInfo`, `writeMetaInfo` (one `pwrite`), `writeMetaInfoFast` (two) |
| DataValidator, CRC | `core/src/data_validator.cpp`, `crc32_validator.cpp` | none | `checkDataValid`, `computeCRC`, `updateCRC`, `validateCRC` |
| DataParser | `core/src/data_parser.cpp`, `value_blob.h` | none | `decodeMap`, `getValueBlob` |
| FileLock | `core/src/file_lock.cpp` | two counts, the kernel's lock | `lock`, `tryLock`, `unlock` |
| Varint, Codec | `core/src/varint.cpp`, `codec.cpp` | none | encode and decode one value |
| QuickStoreReader | `core/src/reader.cpp` | a private mapping, an index | `open`, `getX` |
| kv_store C ABI | `core/src/kv_store.cpp` | a writer, a recursive mutex, `closed` | `kv_open` ... `kv_close` |
| JNI bridge, Kotlin `QuickStore` | `quickstore/src/*Main` | `_handle`, the address of the store or 0 | one C call per method, or one for each entry of a batch; `close` |
| QuickStoreSharedPreferences | `quickstore/src/androidMain` | the editor's pending operations | `put*`, `remove`, `clear`, `commit`, `apply` |

How they interact. A Kotlin object holds a handle to a `kv_store`, which its methods
read without a lock and `close()` sets to 0 after it has deleted the store; every C
function takes the store's mutex and makes one call of the writer. The writer stores
records straight into the shared mapping, then the header of the data file, then the
`.crc` file through `pwrite`. It never calls `msync` or `fsync`: what survives the
death of the process is what the page cache holds, which is everything that was
stored. In multi-process mode the writer takes a `FileLock` on the `.crc` file
around an append or a rewrite, and reloads the files when the meta record has
changed (`checkLoadData`).

Which behaviours are hard, and what makes a component correct there:

- **Crashes.** An operation is a series of stores and system calls on two files,
  and the process may die between any two. Correct: a reopened store has the
  contents before the operation, after it, or as of its recovery point
  (`lastConfirmedActualSize`, `lastConfirmedCRCDigest`), never a mixture.
- **Recovery, then work.** After an open that rolled back, size, digest, index
  and records must agree again.
- **The index against the log.** `m_map` holds offsets into a log that a rewrite
  moves and a growth maps elsewhere.
- **Growth.** The capacity arithmetic, `ftruncate` and `mmap` that fail, and a
  mapping that is gone in between.
- **Several processes.** Locks, stale indexes, stale mappings, a file that
  another process has grown, two processes that create the same store.
- **Several threads.** A `kv_close` while another thread waits for the mutex.
- **Several calls that are meant as one.** A batch, an Editor's commit: one native
  call for each entry, with the other threads in between.
- **Data.** No type tag, an empty value that is a tombstone, a scan that
  resynchronises byte by byte.

`PROJECT.json` lists each of them as a hazard, at its line, with the properties
that bear on it.

## 2. Modules

| module | models |
|---|---|
| `DataFile` | the two files as values, and the pure functions that read them: `checkDataValid`, `decodeMap`, `getValueBlob`, the CRC, `ftruncate`, the capacities of a growing file |
| `QuickStoreWriter` | the writer in single-process mode, one action per system call or store, with `Crash` between any two |
| `DurableMap` | the abstract specification: a map that survives crashes, and the exceptions to it |
| `FileLock` | the reentrant lock of several processes over `flock(2)` |
| `MultiProcess` | several writers and readers on one pair of files with `multi_process = 1`; composes `DataFile` (EXTENDS) and `FileLock` (INSTANCE) |
| `Codec` | `varint.cpp` and `codec.cpp` as functions between numbers and bytes |
| `DataParser` | `decodeMap` and `getValueBlob` byte by byte, and the bytes `appendRecord` leaves for them; over `Codec`, with `DataFile` as an instance to compare the two |
| `KvStore` | the C interface: the functions with their statuses, the mutex, `kv_close`, and the walks over the buffer of `kv_all_keys`; over `Codec` |
| `QuickStoreApp` | the threads of a program on one Kotlin `QuickStore`, on Android or iOS, and the Editor of `QuickStoreSharedPreferences`; over `KvStore`, and `DataParser` for its functions |
| `MCQuickStoreWriter`, `MCFileLock`, `MCMultiProcess`, `MCQuickStoreApp` | symmetry sets, input sets and constraints for TLC |
| `DataFileProofs` | lemmas about the functions of `DataFile`, for the writer and for several processes |
| `QuickStoreWriterProofs`, `QuickStoreWriterRefinementProofs` | theorems of the writer, the second module over the first |
| `CodecProofs` | theorems of the encoding, and the lemmas on powers of 2, division and recursive functions they rest on |
| `DataParserProofs` | theorems of the scan and of the logs it reads, over `CodecProofs` |
| `QuickStoreAppProofs` | theorems of the callers of a store, over `DataParserProofs` |
| `MultiProcessProofs`, `FileLockProofs` | theorems of the other components |

### How QuickStoreWriter stands for the code

State. `exists`, `data`, `header` and `crc` are the disk. `mapped`, `meta`,
`map`, `buffer` and `copied` are the process; `pc` says where it is. `view`,
`stored` and `logged` are history: what reads should return, what the next open
should return, and whether the log has been continued from a valid digest. No
action's guard reads them.

Cells. The CRC covers the bytes after the 4-byte header. `data` is the sequence
of *cells* of that region: cell 1 is the `ItemSizeHolder`, every other cell is a
whole record or bytes not written yet. All sizes and offsets count cells. A
record is torn in the code only behind the end of the log (`WriteRecord` stores
past `m_actualSize`) or inside a rewrite, where any prefix of the cells may have
been copied. Records of different lengths, and so a record boundary that moves
inside a rewrite, are not modelled. That cells yield what `decodeMap` finds in
the bytes is `DataParser!LogScanned`.

CRC. A digest is the sequence of cells it was computed over. Two contents have
the same digest only when they are equal: collisions are left out.

Actions. `CreateData`, `TruncateData`, `InitData`, `CreateCrc` and
`WriteInitialMeta` are `open()` of a new store; `OpenExisting` and `OpenRefused`
are `open()` of an existing one. `AppendRecord` (`Set`, `Remove`) is
`appendRecord` down to `ensureSpace`, and `WriteRecord`, `UpdateMeta`,
`WriteCrcDigest`, `WriteActualSize` and `IndexRecord` are the rest of it in
order. `DoFullWriteback` (`Compact`, `ClearAll`) reads the live entries and
reserves room; `CopyHolder`, `CopyRecord`, `ConfirmMeta` and `SyncMeta` follow.
`UpdateMeta` and `ConfirmMeta` change memory and the header together: `open()`
of a file of version 3 or 4 does not read the header, and for older versions a
crash between the header and the `pwrite` that follows is the state after
`UpdateMeta`. Inside `OpenExisting` nothing is written, so that a crash there is
a crash before it.

Failures. `ftruncate` fails where the file would pass `MaxCapacity`, and may fail
anywhere; with `MmapMayFail`, `mmap` fails after the old mapping is gone. An
error return inside the first open leaves what a crash there leaves. The results
of `pwrite` on the `.crc` file, which the code ignores, are taken to be success.

Initial states. No store, or one of format 1, 3 or 4 with one record that
another program (MMKV) left. Format 2 is left out: its meta record has no
confirmed size, but `checkDataValid` trusts that field from version 2 on, and a
size of zero with a digest of zero verifies, so that a damaged file opens as an
empty log without its `ItemSizeHolder`, which every other definition counts on.
It is listed as a hazard.

### How FileLock stands for the code

One action per call where a call makes at most one system call; a blocking
`flock` is a beginning (`Lock`) and a grant (`Acquire`) or an interruption.
`tryLock` with a promotion is `TryPromote`, `Promote` and `TakeShared`, which is
also the second half of a downgrade. `LockAgain` is every reentrant call.
`holders` is history: the shared locks the client was granted and has not given
back, which the code's own count loses on a promotion. `AtomicDowngrade` says
whether `flock` turns an exclusive lock into a shared one in one step, as the
comment in `file_lock.cpp` has it, or in two, as flock(2) allows: the code
ignores the result. The bound is `MaxNesting`.

### How MultiProcess stands for the code

A step is what a peer can get between. The copy of a record or of a rewrite with
the header is one step (the lock is held, and only a reader looks meanwhile), the
`pwrite` of the meta record another, since a process may die between them.
`open()` is taken apart into `stat`, the mapping, the read of the meta record, the
validation and the scan, because none of it is under the lock: `StatAbsent` to
`CreateCrc` create a store, perhaps over that of a peer, and `MapData` to `Decode`
open one that has grown or been rewritten since it was mapped. At the end `open()`
takes the lock and drops it. A mapping is its size: what a process sees through it
is the file (`Shown`), for the private mapping of a reader too, which it never
writes to. `CheckLoadData` is `checkLoadData` with `reloadFromFile`, and
`ReloadFails` the same where the files cannot be read or mapped: nobody is told.
`Grow` computes the new size from the process's own mapping, and so may cut the
file; `GrowFails` is its failing `ftruncate`, which changes nothing, and `MmapFails`
its failing `mmap`, which leaves the file with its new size and the process without
a mapping (`mapped[p] = 0`), in which it may go on. It gets one again from
`checkLoadData`, where a peer has written meanwhile, or from its own next `Grow`,
which then starts from 4096 bytes. A compaction looks its live entries up before it
grows: `blind` is that it did so without a mapping. `StoreRecord` and `StoreRewrite`
outside the file are SIGBUS, the end of the process. `Crash` is a death or a
`close()`, which write nothing.

History. `stored` is what the calls that returned true have left, `synced[p]` the
contents that a process knew when it last read the meta record or wrote. `excused`
becomes true in the six cases in which the code keeps no promise, and `Promised`
cuts the exploration there:

1. a second creator truncates the store of the first (`CreateData`);
2. a `clearAll` that fails has emptied its index (`Interrupt`, `GrowFails`,
   `MmapFails`);
3. a process dies inside a rewrite (`Crash`; `rewrite_crash` is about it);
4. `reloadFromFile` fails, and the call goes on over the peer's records
   (`ReloadFails`);
5. a compaction without a mapping writes no key, and returns true (`StoreRewrite`;
   `compact_after_mmap` is about it);
6. a `clearAll` that finds a peer's write loads every key again, writes them all,
   and returns true although writer.h:48 has it drop them (`SyncRewrite`): `stored`
   is empty then, and the files are not.

### How Codec and DataParser stand for the code

A byte is a number below `2 * Group`; the width of a group and of the integers
are constants (7, 32 and 64 in the code), scaled down in the runs so that every
value is tried. Values of float, double, string and bytes are their bytes. A
decoder yields a set of at most one value, `std::optional`. `DataParser` has the
mapping as a sequence of bytes; the record's two varints decide where everything
is. `Scan` is the loop of `decodeMap`, as a function of the position it has come to,
and `Indexes` the map after each record. `Bytes` is what `appendRecord` has written
after each record of a log, and `WriterIndex` the `m_map` it keeps meanwhile. The 32-bit additions of `decodeMap` are taken as exact: the lengths are below
2^32 and the pointers of a 64-bit process do not wrap.

### How KvStore and QuickStoreApp stand for the code

`KvStore` has, for each function, the set of outcomes: status, out-parameter, the
contents after it, and whether the file is mapped after it. A function's body is one
step, for the mutex is held around it; what the writer does inside is the other
modules' matter. A call that needs room ends with the file mapped (`Done`), or with
`KV_IO` where it could not be grown (`Failures`): the mapping is as it was where
`ftruncate` failed and gone where `mmap` did. While it is gone every getter finds
nothing, whereas `kv_contains`, `kv_count` and `kv_all_keys`, which look at the index
alone, go on as before; the next call that grows the file brings the values back,
save that a `kv_trim` has then dropped them and returns `KV_OK`. A failed `kv_clear`
leaves the contents empty for the readers. The constructor opens a store with any
contents that earlier calls may have left; a `kv_open` that returns `KV_IO` or
`KV_CORRUPT` leaves no store and no object, which is the behaviour in which
`Construct` is not taken. `QuickStoreApp` runs the calls of Kotlin: a method, a batch
or a flush is a sequence of native calls, and for each there is the read of
`_handle` (`Call`), the mutex (`Acquire`) and the body (`Execute`). On Android a
batch reads the handle once for each chunk. `CloseBody`, `Delete` and
`ForgetHandle` are `kv_close` and the assignment after it; between them other
threads go on. `Result` is what each platform makes of a status: an exception,
false, null, or, on iOS, the getter's local variable as it is. On iOS the address
of element 0 of an empty array throws before any native call (`Settable`).

Accesses to `_handle` are taken as sequentially consistent. A step on a deleted
store is undefined behaviour: `undefined` becomes true and the behaviour ends,
which is why this run does not check for deadlock. `raced`, `acked` and `foreign`
are history. The bounds are the constants: lists of keys, inputs and types.

In the buffer of `kv_all_keys` a byte is its place in its character, 1 to 4, or the
0 that ends a key: that is all the two walks depend on. Android advances by
`strlen`, iOS by `String.length`, which counts a character of four bytes twice and
any other once. A walk yields where it looks for each key; once it has left the
buffer it stays outside.

## 3. What the runs show

| run | instance | properties |
|---|---|---|
| `writer_core` | 2 keys, 2 values, capacity 3 growing to 6, formats 1 and 3 or none | `TypeOK`, `IndexCorrect`, `StoredOnDisk`, `RecoverableWhileUp`, `StoresInsideMapping`, `ImplementsDurableMap` |
| `writer_mmap_fails` | 2 keys, 1 value, capacity 3 to 12, `mmap` may fail | `RecoverableWhileUp`, `StoresInsideMapping`, `AppendOnly` |
| `filelock_exclusion` | 3 processes, all calls, nesting 2 | `TypeOK`, `Exclusion` |
| `filelock_returns` | 2 processes, `lock` and `unlock`, a downgrade in two steps | `Exclusion`, `ReleasedByLastHolder`, `LockReturns` |
| `multi_process` | 2 processes, one of them a reader at times, 1 key, 1 value, capacity 2 growing to 8, 3 writes | `TypeOK`, `AckedOnDisk`, `HolderUpToDate`, `SnapshotReads`, `CallsReturn` |
| `quickstore_app` | 2 keys, 2 threads: one that calls, one that edits, commits and closes; both platforms; a batch over k1, k2, k1 in chunks of 2; at most two edits pending | `TypeOK`, `UndefinedOnlyIfRaced`, `StaleOnlyAfterClose`, `ReadsBack`, `CommitApplied`, `CallsReturn`, and the functions: `VarintsAreSelfDelimiting`, `ValuesRoundTrip`, `MisreadsAreKnown`, `AllKeysAreWalked`, `LogsAreScanned`, `ScansStayInside` |

- `IndexCorrect`: between operations the index and the mapping yield every key's
  last value, through appends, tombstones, growth, rollback and rewrites. It is
  stated for a mapped file: with a null base every read returns nothing.
- `StoredOnDisk`: between operations, opening the files would yield `stored`.
- `RecoverableWhileUp`: outside a rewrite the recovery point on disk verifies.
- `StoresInsideMapping`: no copy goes through a null base or past the mapping.
- `AppendOnly`: outside a rewrite nothing the log counts is changed or cut off,
  even where a failed `mmap` makes the growth start again from 4096 bytes.
- `ImplementsDurableMap`: the refinement. `DurableMap` says what a client may
  count on: a crash between operations loses nothing stored; one inside a put
  yields old, new, or the recovery point; one inside a rewrite or inside the
  first open may leave a store that cannot be opened; a clear that fails empties
  the view and not the store.
- `Exclusion`, `ReleasedByLastHolder`, `LockReturns`: an exclusive lock excludes
  every other lock, and where a downgrade may be lost (`filelock_returns`) every
  other exclusive one; the last unlock releases; no `lock()` waits forever,
  promotions included.

- `AckedOnDisk`: outside a rewrite the log on disk verifies and yields what the
  calls of all processes that returned true have left, a process that has lost its
  mapping among them. `HolderUpToDate`: after `checkLoadData` the holder of the lock
  works on the state of the files, so that comparing the sequence number and the size
  is enough; a holder that has lost its mapping has the meta record of the files, and
  an index that yields nothing. `SnapshotReads`: reads without the lock are stale but
  whole until a peer rewrites the log, those of a reader that mapped the file before
  it read the meta record included; without a mapping they yield nothing, and all of
  it again once there is one. None of the three promises anything once `excused`.
  `CallsReturn`: no path keeps the lock.
- `UndefinedOnlyIfRaced`: a deleted store is touched only where a `close()` has
  overlapped another call. `StaleOnlyAfterClose`: an iOS getter yields its local
  variable only after a close. `ReadsBack`: a getter of the type that was set
  yields the value and one of a key that is not there null, except for bytes of
  length 0, for bytes on iOS where an allocation may fail, and for a store that a
  failed `mmap` has left without a mapping, where every getter yields null; once it
  is mapped again the values are back, unless it was `trim()` that did it.
  `CommitApplied`: a
  commit that returns has applied its clear, puts and removals to every key that
  no other thread has written meanwhile. `CallsReturn`: every call returns or
  throws; the mutex is given back on every path.
- `VarintsAreSelfDelimiting`, `ValuesRoundTrip`, `MisreadsAreKnown`: the encoding
  over every value of the scaled widths, and exactly which values of one type
  another type's getter accepts, no tag being stored. `AllKeysAreWalked`:
  what is found at a key's place in the buffer of `kv_all_keys` is that key; the walk
  looks at exactly these places on Android, and on iOS exactly when every key but the
  last is ASCII.
- `LogsAreScanned`: of a log cut at any byte `decodeMap` takes the whole records
  and of each key the last, as `DataFile!DecodeMap` does, and of the whole log the
  index that `appendRecord` keeps; `getValueBlob` finds the values through it.
  `ScansStayInside`: over any bytes the index leads to values inside them.

Bounds. Two keys and two values are enough for a record to overwrite, delete or
outlive another, and for the order of a rewrite to differ from that of the log.
Capacity 3 holds the `ItemSizeHolder` and one record, so that the second append
grows the file, and compacting a log of three records no longer fits; an append
that does not fit is among those whose `ftruncate` fails. In
`writer_mmap_fails` 3, 6 and 12 let a growth fail, start again from 3, and pass
through sizes smaller than the file. `MaxDigest` bounds the digest, which grows
without limit in a store that rolls back again and again; 4 cells cover a log of
three records, or an abandoned one and what is appended after the rollback.
Keys and values are interchangeable, so that permuting them is sound; there is
no liveness property in these runs. In `multi_process` two processes and three
writes let one process create while the other creates, open while it appends and
grows, reload after a rewrite, and grow from a stale mapping a file that its peer
has grown: 2, 4 and 8 are three sizes of it. One key is enough to tell an old
value, a new one and none. `quickstore_app` evaluates the formulas that depend on
no state before a store is open. Its widths (groups of 2 bits, integers of 5 and 7
bits, floats of 2 bytes, doubles of 3) keep what matters of 7, 32, 64, 4 and 8: the
last group of both integers is a shorter one, and a double is as long as some
varints. Logs have up to three records (`MaxRecords`) of keys (`LogKeys`) and values
(`LogBlobs`) of length 0, 1 and the first that needs a varint of two bytes, cut
anywhere; the bytes after a holder are all sequences of up to four (`MaxTail`). The
lists of keys that are walked have up to three (`MaxKeys`) of `KeyStrings`, with
characters of one, two and four bytes. The Editor's batch is at most one entry per key,
and `FewEdits` lets it hold two edits, a clear being one: enough for a clear and a
put, or two puts, in a wrong order. What is cut off are further edits, which nothing
obliges the Editor to make, so that the liveness property is not weakened by it.

### Where the code and its documentation differ

Each of these runs checks one sentence of the repository, and TLC refutes it.

| run | what is said | what happens |
|---|---|---|
| `rewrite_crash` | meta_info.h:27, "the known-good recovery point" | a rewrite overwrites the bytes that point covers before it writes the new meta record; a crash in between leaves a store that every open refuses |
| `rollback_append` | test_kv_store_cabi.cpp:88, "data persists" | after a rollback `m_crcDigest` is still that of the abandoned log, so that later sets are lost at the next open, until a rewrite |
| `compact_after_mmap` | writer.h:50, "keeping only live entries" | after a failed `mmap` a compaction keeps nothing and returns true |
| `filelock_leak` | file_lock.h:15, "released only when the last holder unlocks" | a failed `tryLock` promotion leaves the OS lock without a count |
| `stale_reads` | writer.h:53, the lookups "Return the value when the key exists" | after a peer's rewrite a lookup yields another key's record |
| `commit_atomic` | QuickStoreSharedPreferences.kt:110, "applied atomically" | removing a key that is not there throws in the middle of a commit, and every later commit of that Editor stops at the same key |

The writer uses only `lock` and `unlock` of the exclusive lock, so that
`filelock_leak` does not reach a store today.

Other differences that the models have and no run is about:

- a promotion in `FileLock::lock` sets the shared count to 0 (file_lock.cpp:29),
  so that unlocking the exclusive lock releases what file_lock.h:15 says is held;
- bytes of length 0, "a valid value" (QuickStore.kt:58), are read as null
  (kv_store.cpp:107, codec.cpp:122), and cannot be set at all on iOS;
- QuickStoreSharedPreferences.kt:45 and QuickStore.kt:13 speak of the stored type;
  no tag is stored, and `Misreads` says what comes of it;
- `remove` of a key that is not there throws on Android; QuickStore.kt:106 does not
  say so;
- `allKeys` on iOS returns wrong strings after a key that is not ASCII;
- a `clearAll` in multi-process mode that finds a peer's write clears nothing, and
  returns true, where writer.h:48 has it drop all keys;
- what `compact_after_mmap` shows of one process is true of several, where the
  compaction drops what the peers have stored as well, and of `kv_trim` and
  QuickStore's `trim()`, which return `KV_OK` and empty the store; until then every
  getter yields null while `contains` and `count` still see the keys;
- a `reloadFromFile` that fails (writer.cpp:258, 268) is not reported, and the append
  that follows overwrites what the peers have written.

## 4. Fairness

The writer's specification is a safety specification: a client need not call
anything, and a crash is always possible. `FileLock!Fairness` has strong fairness
of a grant (a blocked `flock` that finds the lock free again and again gets it;
the kernel wakes every waiter at a release) and weak fairness of system calls
that do not wait. That a client gives back what it was granted is not fairness
but a hypothesis of `LockReturns`: the guards in `writer.cpp` release on every
return path. `Interrupt` and `Crash` are not fair.

`MultiProcess!FairSpec` has weak fairness of what a process does while it has the
lock (it only computes and makes system calls that do not wait) and the same strong
fairness of the grant. `QuickStoreApp!FairSpec` has weak fairness of a thread's step
inside a call, and strong fairness of the mutex: a thread that finds it free again
and again gets it. No process or thread need call anything.

## 5. What is proved

For every set of keys, values, processes and threads, every capacity, every width
of the encoding and every bound. `MultiProcess` and `KvStore` let `mmap` fail at any
growth; the writer's theorems hold with `MmapMayFail` or without, but where the table
says `~MmapMayFail`:

| theorem | says |
|---|---|
| `QuickStoreWriterProofs!TypeCorrect` | `Spec => []TypeOK` |
| `QuickStoreWriterProofs!Recoverable` | `Spec => []RecoverableWhileUp` |
| `QuickStoreWriterProofs!MemorySafe` | `Spec => []StoresInsideMapping` |
| `QuickStoreWriterProofs!LogKept` | `Spec => AppendOnly` |
| `QuickStoreWriterProofs!IndexAlwaysCorrect` | `~MmapMayFail` implies `Spec => []IndexCorrect` |
| `QuickStoreWriterProofs!StoredAlwaysOnDisk` | `~MmapMayFail` implies `Spec => []StoredOnDisk` |
| `QuickStoreWriterRefinementProofs!WriterImplementsDurableMap` | `~MmapMayFail` implies `Spec => ImplementsDurableMap` |
| `MultiProcessProofs!TypesCorrect` | `Spec => []TypeOK` |
| `MultiProcessProofs!NoWriteIsLost` | `Spec => []AckedOnDisk` |
| `MultiProcessProofs!TheHolderIsUpToDate` | `Spec => []HolderUpToDate` |
| `MultiProcessProofs!ReadsAreSnapshots` | `Spec => []SnapshotReads` |
| `FileLockProofs!FileLockTypeCorrect` | `Spec => []TypeOK` |
| `FileLockProofs!ExclusiveExcludes` | `Spec => []Exclusion` |
| `FileLockProofs!LastUnlockReleases` | `"tryLock" \notin Calls` implies `Spec => []ReleasedByLastHolder` |
| `QuickStoreAppProofs!OnlyRacesAreUndefined` | `Spec => []UndefinedOnlyIfRaced` |
| `QuickStoreAppProofs!StaleNeedsClose` | `Spec => []StaleOnlyAfterClose` |
| `QuickStoreAppProofs!CommitsAreApplied` | `Spec => CommitApplied` |
| `QuickStoreAppProofs!GettersReadBack` | `Spec => ReadsBack` |
| `QuickStoreAppProofs!AppTypesCorrect` | `Spec => []TypeOK` |
| `CodecProofs!EveryValueReturns` | `RoundTrip`; `ValuesReturn` is `Spec => []ValuesRoundTrip` |
| `CodecProofs!VarintsEndThemselves` | `VarintSelfDelimiting`; `VarintsEnd` is `Spec => []VarintsAreSelfDelimiting` |
| `CodecProofs!MisreadsAreThese` | `1 < DoubleBytes` and `DoubleBytes <= MaxGroups(Bits64)` imply `Misreads`; `OnlyTheseAreMisread` is `Spec => []MisreadsAreKnown` under the same hypotheses |
| `DataParserProofs!LogsScanWhole` | `LogScanned`; `QuickStoreAppProofs!LogsScanAsCells` is `Spec => []LogsAreScanned` |
| `DataParserProofs!ScansEndInside` | `ScanInside`; `QuickStoreAppProofs!NoScanLeadsOut` is `Spec => []ScansStayInside` |
| `QuickStoreAppProofs!EveryKeyIsWalked` | `KeysWalked`; `KeysAreWalked` is `Spec => []AllKeysAreWalked` |

The writer's inductive invariant is `TypeOK` with four more parts. *Extends*: the
confirmed digest is a prefix of the current one, in memory and on disk. *Room*: what
`ensureSpace` reserved is there until it is used. *RecoveryPoint*: memory and disk
agree on the recovery point, and outside a rewrite the confirmed cells are the first
cells of the file and lie in the log, so that an append stores beyond them.
`RecoverableWhileUp` alone is not inductive: it says nothing of the sizes a growth
may cut the file to, nor of what the meta record in memory will put on disk. Each
action has a lemma that it preserves the invariant; `EnsureSpaceProperties` says
what a growth leaves. The assumptions used are those the modules name: the initial
capacity holds at least one record, `Empty` is not a value, the keys are finite.

`IndexAlwaysCorrect` adds to it. *Serves*: in an append no offset lies behind the
cells the log counted before, and through the index they yield the contents; in a
rewrite the prepared records are the contents, each key once. *Copied*: what the
log is about to count is what has been copied. `DecodeEncoded` shows that
`decodeMap` of a rewritten log finds every record, `YieldsKept` that a growth
changes nothing the index leads to. The hypothesis that no `mmap` fails is needed:
`compact_after_mmap` is the counterexample.

`StoredAlwaysOnDisk` adds the meta record. *Sized*: no record, in memory or on disk,
counts cells its digest does not cover, which is what the order of the two `pwrite`s
of `writeMetaInfoFast` is for. *Digested* and *Counted*: how far each of digest, size
and header has got on its way to the disk, at every step of an append and of a
rewrite. *Held*: the log holds what was promised; after a rollback the confirmed part
of it does, and the log as a whole cannot verify, because the stale digest it goes on
from covers more cells than it has. `LogHoldsLookup` and `LookupLogHolds` relate this
to what `decodeMap` builds. Here too the hypothesis that no `mmap` fails is needed: a
compaction after a failed one loses the records on disk as well.

`WriterImplementsDurableMap` is the refinement step by step: each action of the
writer, and its death there, is a step of `DurableMap` or a stutter. The mapping
reads the files as the next `open()` would, so that what they yield has to be known
at every step (`Outcome`): the old contents, the new ones, the recovery point, or
no store. That rests on what the meta record on disk is like there: *Ahead*, a
digest that covers more cells than the size counts never verifies, which is why a
crash between the two `pwrite`s of an append is seen; *Behind*, before them it is
that of the last append; *Overwritten*, a rewrite begins by replacing the cell that
both digests on disk begin with, so that from there to its `pwrite` neither verifies;
and `AllIntact`, a rollback is never taken where the file is whole.

`MultiProcessProofs` has one invariant for its four theorems. Its first part, `TypeInv`,
ties the lock to `pc`: who has it is a function of where the processes are, and two are
never inside. The second, `Protocol`, is claimed while `excused` is false, that is
outside the six cases of section 2, each of which makes one of the three properties
false of the code. *Files*: no process writes a meta record before the one that creates
the store; from then on the log verifies and holds `stored`, but inside a rewrite.
*Behind*: the meta record in memory is that on disk or an older one. The sequence number
grows with every write, so that no older one matches it, and *UpToDate* may say that
where the two agree, and there is a mapping, the index yields `stored`. This is what
`checkLoadData` rests on, and *Holding* is what it leaves: its process has the index,
size and digest of the files. *Appending* and *Rewritten* are the files between the copy
and the `pwrite`. *Snapshot* is for those without the lock: their index yields what they
knew last from a prefix of the log that no append touches, or, where they read the meta
record in the middle of a rewrite, they are going to see that the log has another
`ItemSizeHolder` and give up. A process that has lost its mapping keeps its meta record
and its index: what these are worth is said of the file (`Knows`), of which the next
mapping shows all that the log counts, and until then the index yields nothing
(`NothingMapped`). The keys are assumed finite (`KeysAssumption`), since a rewrite
writes one record for each of those that are there.

The lock's invariant adds that every count is backed by the kernel's lock of its
type (`Backed`) and that the kernel's locks exclude each other. For
`LastUnlockReleases`, *Counted*: a process that has the kernel's lock has a count, and
one that waits for it has none. The hypothesis that no process calls `tryLock` is
needed: `filelock_leak` is the counterexample.

`QuickStoreApp` has three invariants. The first is about addresses. *Addressed*: a
thread that is past `Call` has read the address. *Stages*: the handle is set before
there are calls and is 0 only when the store is deleted. While no `close()` has
overlapped another call, *Alone*: a `close()` is the only call there is; and
*Unreachable*: once the store is deleted no thread has its address, nor will read
it. The contents play no part in these two theorems.

The second follows a flush, for `CommitsAreApplied`. *Calling*: a call is at one of
its native calls. *Editing*: no key is pending twice. *Committing*: while the Editor
flushes, its calls are the clear, if there is one, and the pending edits in order,
and every key that no other thread has written is as the calls made so far have left
it (`Applied`). A later call undoes nothing, because no key is edited twice, and the
clear comes first. Whoever else runs meanwhile only adds to `foreign`
(`OthersAreForeign`). The third, *Holding*, is for `GettersReadBack`: the blob of a
key of an open store is the encoding, as the type that was set last, of the value that
was acknowledged last, or there is none. It holds from the constructor on, whatever
the store had, and is kept by a call that fails, whether or not it loses the mapping,
by a `clear` that fails (which clears, for the readers), by a `trim` without a mapping
(which drops what was acknowledged with the contents) and by calls on a closed store.
What a getter makes of it depends on `mapped`, as the theorem says. `TypeOK` follows
from the three. The inputs are assumed to be values of their types, and a
batch to have at least one key (`InputsAssumption`, `BatchAssumption`).

`CodecProofs` proves the encoding right at all widths: TLC goes through every value
of an instance of 5 and 7 bits, the theorems are about any, 32 and 64 included. What
is written (`VarintWrites`): groups of which the last, and no other, says that no
more follow, whose shifted sum is the value, and which are no more than a width asks
for. What is read from bytes that begin so is the value (`ReadWritten`), whatever
follows. A signed integer survives the way through the unsigned ones of a wider type
(`SignedThrough`), and cutting it twice is cutting it once (`CutTwice`). These take
induction over numbers. The induction theorems of the library have an operator as
a parameter and cannot be used, so the lemmas speak of the set of numbers that have
the property (`NatInduct`, `StrongInduct`, from the well-foundedness of the naturals).
That a recursive function is what its definition says is proved in
`RecursiveFunction`; that `2 ^ (n + 1)` is twice `2 ^ n`, for which the provers have no
axiom, from the number of subsets of `1 .. n + 1` (`PowerDoubles`). The one
assumption is `WidthAssumption`; `MisreadsAreThese` needs that a double is longer
than a bool and no longer than a varint can be, as 8 bytes of at most 10 are.

`DataParserProofs` is about the same codec. TLC goes through short logs and short
bytes; the theorems are about any keys and values whose length fits its varint
(`LogAssumption`), any number of records and any bytes.

- `LogsScanWhole` is what lets the writer's modules have a log in cells. It rests on
  what is read where a record has been written (`RecordRead`): the record as it was
  written, whatever follows it, where the size counts all of it; and nothing where
  the size cuts it off, at whichever byte, since a varint that is cut is an error and
  a value that is cut does not fit. The scan begins at the `ItemSizeHolder`, but what
  it yields from a record on is given by what it yields from the next, so it is
  followed backwards: from the end of the last record that is whole, where it finds
  nothing, to the first (`ScanOfLog`). Then the index after each record is compared
  with the cells (`IndexIs`, `CountsInCells`): a key is in it exactly when its last
  cell is no tombstone, at that cell's offset.
- `ScansEndInside` is about bytes nobody wrote. A record that is found is inside the
  size, and `getValueBlob`, which looks further than the size, reads the same two
  lengths there, because a varint that is read without an error does not depend on
  what follows it (`RecordInside`). That all a scan finds are such records
  (`ScanFinds`), and that a greedy one begins with what the other finds (`ScanLeads`),
  is shown by induction backwards from the size.

`EveryKeyIsWalked` follows the two walks from key to key. On Android each step is
a string and its end (`WalkFinds`). On iOS a step is the number of UTF-16 units, which
is the number of bytes of an ASCII key and less for every other (`Utf16OfAscii`); so
the walk is exact up to the first key that is not ASCII and inexact at the one after
it. What is assumed of a key is that its bytes stand in their characters as UTF-8
has them, and that it holds no NUL (`KeyStringsAssumption`); the interface takes keys
as C strings.

Only model-checked: `LockReturns` and both `CallsReturn`, which are liveness under
fairness and outside what TLAPS 1.4.5 proves. Every other property of a passing run
is a theorem, under the hypotheses of the table.

## 6. Not modelled

- Files of format 2, which are listed as a hazard.
- What a SIGBUS handler might do: a store past the end of a file that a peer has cut
  is the death of the process, and no property says that it does not happen.
- Records of different lengths inside a rewrite that a crash interrupts, and CRC
  collisions.
- A scan whose pointers wrap, in a 32-bit process.
- `kv_get_into` and `kv_buffer_free`, which change no state; the conversions of
  strings and arrays in JNI; the Kotlin extensions, each of which converts one
  value and makes one call.
- Two threads that close the same store: one thread closes in `quickstore_app`, to
  keep it small; the theorems of `QuickStoreAppProofs` have any number.
- A refinement between the modules of one process, of several processes and of
  several threads: each has the others' part as one step, and they share `DataFile`,
  `FileLock` and `Codec` rather than a common abstract specification.
- User interface, benchmarks, build files, MMKV features the code only carries
  (encryption vector, flags, expiry), power loss (the code and its crash test exclude
  it), and the moves of `QuickStoreWriter` objects.
