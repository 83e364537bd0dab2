# A TLA+ model of libshare

libshare is a C library of the Share project: memory utilities (`src/share-lib/mem`), a file
system kept in journal files (`fs`), sockets with an encrypted layer (`net`) and system
services (`sys`).  This directory models the parts of it where several processes or threads
meet, checks them with TLC and proves some of their properties with TLAPS.

Paths below are relative to `src/src/share-lib/` of the repository.

## 1. The system

| Part | State it keeps | Operations | What is hard | Correct means |
|---|---|---|---|---|
| IPC message queue, `sys/shsys_msg.c` | one mapped file per queue: a time-stamp lock, a ring of entries, a ring of bytes | `shmsgsnd`/`shmsg_write`, `shmsgrcv`/`shmsg_read`, `shmsgctl`, `shmsgget` | two rings that move at different speeds; many processes; a lease instead of a lock; crashes leave the file as it is | order, content and refusal of a bounded mailbox; no copy outside the mapping; entries of stored messages stay |
| Thread lock, `mem/shmem_lock.c` | a map from keys to lock objects (mutex, `ref`, `tid`) | `shlock_open`, `shlock_tryopen`, `shlock_close` | the map is not locked; `ref` and `tid` are written outside the mutex | exclusion; a closed lock is free; waiting ends |
| Process pool, `sys/shsys_proc.c` | slots with a state, a worker process, a stream and a datagram socket | `shproc_start/stop/pull/push/schedule/poll/shutdown`, the worker loop | header and data are separate writes; non-blocking reads; workers die; a descriptor belongs to a slot | a request reaches one worker whole, its answer comes back once, idle slots are clean |
| Buffer pool, `mem/shmem_pool.c` | an array of buffers and a global cursor | get, pull, push, put, grow | `_shpool_compact` | a buffer is in the pool or with its user |
| Hash map, `mem/shmem_map.c` | chained table, a free list of entries, one iterator stored in the map | get, set, unset, first/next, print, load | calls inside a loop over the map; recycled entries; expansion uses the same iterator | a map; a loop visits what stays in it once; nothing leaked or freed twice |
| File system, `fs/shfs_{journal,inode,link,aux}.c` | journals of blocks; an inode's children and its data are chains of blocks in hashed journals; each process has copies of inodes and maps of the journals | scan, link, read, write, truncate, clear | a block is chosen before it is written; chains cross journals; processes share the files, grow them and are killed | chains are disjoint and end; what is written is read; names stay; blocks are written inside the map |
| Encrypted sockets, `net/shnet_esl.c` | per descriptor: key, flags, receive and processed buffers | connect, accept, read, write | handshake frames and data share a stream; frames arrive in pieces; descriptors are reused | data is delivered once, in order, with the key of its connection |
| Cache, logging, PAM, licences, peer tracking, tools, SEXE | files and a SQLite table | | little concurrency of their own | |

The message queue, the lock, the pool, the file system and ESL are independent of each other.
The queue and the lock rest on the hash map (peer keys, lock objects), which their models
take as a plain function: `ShMap` shows that it is one (`Refines`), as long as it has one user
at a time, and `ShLock` has the steps where it has two.  Pool, ESL and journals rest on
`shbuf_t`, taken as a sequence; for the journals, its mapped files are part of the model.

## 2. Plan

1. Message queue: `ShMsgMap`, `ShMsgQueue`, `MsgMailbox` and `MCMsgFifo`, `ShMsgShared`;
   proofs in `ShMsgMapProofs`, `ShMsgQueueProofs`, `ShMsgSharedProofs`.  Done.
2. Thread lock: `ShLock`, proofs in `ShLockProofs`.  Done.
3. Process pool: `ShProc`, proofs in `ShProcProofs`.  Done.
4. File system: `ShFs`, `MCFs`.  One file and its children are modelled and checked; left are
   trees of directories, removal of files and writes at an offset.  Proofs of the form of the
   state and of the maps in `ShFsProofs`; chains, names and content stay with TLC.
5. Encrypted sockets: `ShEsl`, proofs in `ShEslProofs`.  Done.
6. Hash map: `KeyMap`, `ShMap`, `MCMap`.  Done; its properties stay with TLC (section 5).

## 3. Modules

### Message queue

`ShMsgMap` holds the region (`shmsgq_t` without `lock_t`) as a record and one operator for
each function that works on it: `ShmsgWriteMap`, `ShmsgWriteMapData`, `ShmsgReadValid`,
`ReadSlot` (`shmsg_read_map`), `ShmsgReadAdvance`, `ShmsgRelease`.  The two scans are sets of
entries (`WriteScan`, `ReadScan`) and the order in which a scan visits them (`Distance`,
`FirstFrom`).  A message's content is one value repeated over its bytes, so that `data[o]`
says who wrote byte `o` last.  `val` is a history field of an entry: what the sender sent.

`ShMsgQueue` has one action per call, with all its early returns: too large (`SHERR_INVAL`),
no entry, no room (`SHERR_AGAIN`; the entry is released again but `write_idx` has moved),
nothing to read (`SHERR_NOMSG`).  `SHMSGF_ANONYMOUS` is left out: `shmsgctl` has no case for
it, so the flag is never set.

`MsgMailbox` is what such a queue promises; `MCMsgFifo` maps the region to it (`BoxOf`: the
occupied entries from `read_idx` on) and states `IsMailbox`.

`ShMsgShared` cuts the calls where they access the region: the test of `lock_t`, its store, the
scan for an entry (one step), taking the entry, the keys, the load of `write_of`, the load of
`read_of` with the choice of the place, the stores of `write_of`, the content, `msg_size` and
`msg_of`, for a reader `read_idx`, the comparison with `read_of`, its store and the release, and
the unlock.  A process may stall anywhere (`Tick` lets the lease run out), crash anywhere and
start again.  `overlap` records that two processes were between `shmsg_lock` and `shmsg_unlock`
at once.  From then on an entry may have the size of one message and the offset of another, and
a copy may leave the data area; the calls that overlap are followed to their end, and calls that
begin later are followed through the lock only (`LockExpires` covers them).  Overflow is off
and the queue's owner is the only reader, so nobody else stores `read_idx` and `read_of`.

What is claimed of a message here is its table entry, not its bytes.  They are not safe once a
process died inside the lock: a reader killed after `read_of` moved (line 477) and before the entry
is blanked (486) leaves an entry whose bytes are free and are written again; a writer killed between
the stores leaves bytes that nobody gives up (229 to 231) or a message with a size and offset 0
(231 to 232); an entry left by a crash makes the order of the table differ from that of the bytes.
`Intact` of the sequential runs says when the bytes are safe: one process at a time and one size.

### Thread lock

`ShLock` follows one key through the three functions in the `USE_LIBPTHREAD` build.  Looking
up the map, inserting, `pthread_mutex_init`, locking, each access to `tid` and the load and
the store of `ref++`/`ref--` are separate steps.  `ref` is unsigned (`REF_MOD`).  In
`ClearTid` the compiler may reuse the value it stored or load `ref` again: both are allowed.
The mutex operations (`Available`, `CanLock`, `Locked`, `CanUnlock`, `Unlocked`) are
external and follow the pthread behaviour of normal and recursive mutexes.  `held` counts a
thread's successful opens less the closes it called.  `raced` records that a step met another
thread inside one of two unprotected places: adding a lock object to the map, or the tail of
`shlock_close`.

### Process pool

`ShProc` has one step per system call.  The parent (the application and the library calls it
makes) is one sequential process, each slot has a worker.  A slot record has the parent's
`shproc_t` fields (`state`, `user_fd`), the worker (`worker`), the two directions of the
stream socket (`down`, `up`) and the datagram socket (`dgram`).  A stream is a sequence of
units as long as `shproc_req_t`: a header or one unit of data.  Nothing in the stream marks
headers and the crc is never checked, so `Headers` lets a data unit read as a header have any
contents.  `broken` records that a frame was cut short on the slot (a reader met its end too
early, or a writer gave up).  Worker steps: header, data, RUN header, descriptor, callback,
IDLE header, result.  `Crash` makes a zombie, `Reap` removes it: `kill(pid, 0)` works on the
former and fails for the latter, and then `shproc_stop` fails too and leaves the slot.
`SIGPIPE` is ignored, as the library's own daemon does; signals end a worker at once.
Sizes that are not a multiple of a unit are not modelled (a leftover shorter than a header,
read where a header is expected, is dropped as "nothing to read").
Left out: `shproc_conf`, priorities, limits, statistics, and failure of `fork` (the slot
stays unused).

### File system

`ShFs` follows one file: its inode (`ParentPos`, made by whoever created the file), the chain of
its children (the BINARY inode with the data, ACCESS inodes for credentials) and the chain of
data blocks of each child.  `Earlier` is a child that an earlier program linked and left empty.
Any process may work on any child.  `disk` has the blocks of all journals, `fsize` the length of
the files, and `proc[p]` what a process keeps: its copy of the file's inode and of the children
it has looked up, the length at which it mapped each journal, and its call.  One step is one
access to a block: `shfs_link` is `InodeFind` (the search, which the code does twice in a row),
`LinkScan`, `LinkChild`, `LinkParent`; a write is `WriteBegin`, `WriteFirst`, then `WriteNext` and
`WriteStore` for each block, `WriteInode` and `ParentSave`; `shfs_inode_clear` is `ClearBegin`,
`ClearBlock`, `ClearNext`, `ClearInode`; truncation is `TruncateBegin`, `TruncateBlock`,
`TruncateInode`, `ParentSave`.  A process may close the partition between calls and be killed at any
step of one; both may open it again.

A scan that finds no free block in its map doubles the map and scans again, until there is one or
the limit is met.  `GrowStat` is the `fstat` of `shbuf_growmap`; when the file is shorter than the
new map, `GrowFill` writes blank blocks from the length that was read, one at a time, whatever a
faster process has stored in them meanwhile, and then maps the file.

The inode of the file tells what its children hold: `has` stands for the format that `shfs_write`
sets and the attribute that `shfs_cred_store` sets (`Kind`), and for the format of a credential's own
inode (`Format`).  `Read` finds nothing unless they are set, as `shfs_read` and `shfs_cred_load` do.
A process that is killed between `WriteInode` and `ParentSave` of the first write leaves data that
is not read; `Crash` (`hid`) makes the content uncertain then.

Several things damage a chain or what a process knows of it, and the history variable `harm` names
them: a write that is given the same slot for the current block and the next ("own":
`shfs_aux_pwrite` looks for the next block before it has written the current one), two processes
that are given the same free block ("slot"), a free block that something still refers to and that is
given away ("reuse") or followed by a write ("loose"), `shfs_inode_clear` clearing its sibling's
successor instead of the data ("clear"), the file's inode written from a copy with an older list of
children, or without a format or attribute that is on the disk ("stale"), a stored block written over by a
slower process that grows the journal ("wiped"), two processes in calls on one child, or one that changes
a child while another keeps a copy of its inode ("shared"), and the read of the first block past a
map, which `shfs_journal_block` does not refuse (`data_of > data_max`) and whose outcome is undefined
("past"; the call then ends as a failing one).  The model has all of these steps as the code takes
them, and goes on after them; `ChainsSound`, `ReadBack` and `NamesKept` say that nothing else goes
wrong, while the form of the state (`TypeOK`, `StoresMapped`) is claimed, and proved, of damaged chains
too.  A reference in the sense of "reuse" (`Referred`) is a
chain from an inode on the disk, from the copy of an inode that a process keeps, or from the block
that a truncation has come to: a first write that fails leaves its slot in the process's copy of the
inode only (`shfs_aux_pwrite` sets `fpos` before the block is written), and a truncation that goes on
from a block which an earlier one has cleared is at a free block.  `stored[n]` is what child `n` should
hold, `known` whether that is certain (a call that failed or was killed half way makes it uncertain),
`torn` whether its chain may end in a free block.

Abstractions: a block holds one unit, so lengths count blocks, and `PAGE_BLOCKS` is the number of
blocks in a page; the list of children is searched in one step, and truncation reads and updates a
block in one; writes start at offset 0 and replace the data; sizes, times and checksums in the
file's inode are left out; only credentials are cleared (`shfs_file_remove` and `shfs_format_set`, which
clear the BINARY child too, are not modelled); the journal files exist with their first blocks (the
creation of one is not modelled), and a `write` of blank blocks does not fail; a journal stays in the
cache once it is used; the journal of a new data block depends on a hash of a whole block and is any
journal of `Hashed`.

### Encrypted sockets

`ShEsl` is a client and a server with one descriptor each, which connect, talk, close and
connect again.  `sk[s]` is the `_sk_table` entry (key, `SHNET_CRYPT`, `recv_buff`, `send_buff`,
`proc_buff`) and the call in progress.  A frame crosses the connection in three pieces: the
part `esl_readb` needs to look at it, the part before it is complete, and the rest.  `write()`
takes as many pieces as it likes, up to the room there is.  Keys are sets of secrets and
`shkey_xor` is the symmetric difference, so that keys agree only if the same secrets went
into them.  One turn of the loop of `esl_readb` is one step: `LoopEnd`, `LoopWait`, `LoopCtrl`
(handshake), `LoopData`.  `esl_control` has no return statement; in the build its result is
that of `shnet_write_buf`, so `Accept` may fail when the client is gone; the accepted descriptor then
stays open and is lost, as in the code.  `esl_key_set` does
nothing for a listening socket, so a server that wants a key sets it on the connection.
The histories: `early` (the side wrote or verified before the handshake, which reads into no
buffer and drops data behind it), `stale` (`shnet_close` does not free `proc_buff`), `cut` (a
flush gave up after three minutes, or the peer closed).

### Hash map

`ShMap` has the chains and the free list as sequences of entries; the next pointer of an entry
is its successor in the list it is in, so the saved `next` of the iterator may lead into the
free list, as in the code.  `Set` is `shmap_set_ent` with `find_entry` and `_expand_array`,
`Unset` the same without a value, `First` and `Advances` a loop whose body may call anything,
`List` a loop inside a loop, `Reload` printing, freeing and loading.  `loop` is the history of
the loop.  `KeyMap` is what the map promises.  Two observations: `shmem.h` says that the array
size is always a power of two, but `max` goes from 15 to 30 to 60, so that the mask
`hash & max` always leaves 16 buckets in use, however large the array; `Bucket` follows the
code.  And a loop whose body unsets and sets the current key again may be given it again
and so not end (`VisitedOnce` is about keys that stay).

## 4. Runs

| Run | Bounds | Shows |
|---|---|---|
| `msg_fifo` (`MsgFifo.cfg`) | 3 entries, 7 bytes, sizes 2 and 7 (too large), 2 senders, 1 receiver | `IsMailbox`, `Intact`, `NoHiddenMessage`, `EmptyAccepts`: the queue is a mailbox when messages have one size and the data area holds a table of them.  7 is not a multiple of 2, so the gap at the wrap happens; 3 entries give every relative position of the two indices.  Proved in general |
| `msg_any` (`MsgAny.cfg`) | 2 entries, 3 bytes, sizes 0 to 3, 2 receivers, overflow | `InBounds` and `UnreadKept` hold for every use of the queue; both are proved in general |
| `msg_shared` (`MsgShared.cfg`) | 2 processes, 2 entries, 2 bytes, lease of 2 ticks, 1 crash | while no two processes were inside the lock at once, offsets and sizes stay in bounds whichever of the separate stores a crash leaves undone (`SerialBounds`), the entry of a stored message stays until it is read (`SerialEntriesKept`), and a crash costs at most one entry (`LeakBound`); the lock never stays taken, in every case (`LockExpires`) |
| `lock_open` (`LockOpen.cfg`) | 3 threads, nesting 2 | `MutualExclusion` for `shlock_open` on an existing lock |
| `lock_race_free` (`LockRaceFree.cfg`) | 2 threads, both opens, shared and private, no lock at the start | `RaceFreeLock`: without the two races the lock excludes, and a closed lock is free |
| `proc_pool` (`ProcPool.cfg`) | 2 slots, 2 requests, sizes 0 and 1, buffers of 2 units | requests, descriptors and answers stay matched and idle slots clean unless a frame was cut short; requests end (`PendingEnds`).  A buffer of 2 units makes writers run into a full buffer |
| `proc_crash` (`ProcCrash.cfg`) | 1 slot, 2 requests, 1 crash, stop and restart | the same with dead workers and stopped slots |
| `fs` (`Fs.cfg`) | 2 processes (symmetric), a BINARY child, a credential and one more that was linked before, 3 journals of 2 blocks (one page) that grow to 4 and not further, data of 0 or 2 blocks, truncation to 1, 2 calls, 1 restart or crash, followed to the first damage (`CONSTRAINT Undamaged`; the damaged states are checked, not continued) | until one of the named causes damages something: `ChainsSound`, `ReadBack`, `NamesKept`; and `StoresMapped`.  A journal of 2 blocks has one that can be used (block 0 never is), so journals grow at once, also both processes one journal, maps fall behind the files, the scan fails at the limit, and a block may lie in the first place past a map; the third child is the one that `shfs_inode_clear` clears by mistake |
| `esl` (`Esl.cfg`) | 2 connections, 2 messages in each, 4 pieces on the wire | `InOrder`, `Decodes`, `Delivered`, `ReadEnds`.  4 is one more than a frame, so frames are cut and writers run into a full connection; the second connection reuses the descriptors |
| `map` (`Map.cfg`) | 3 keys, values that are copied and pointers, first array of 2 buckets | `Refines`, `Sound`, `VisitedOnce` through two expansions; the keys share a chain, are apart after the first expansion and together after the second |

Other instances that pass: `Fs.cfg` without the constraint, with the two children in use and no
restarts, for `TypeOK` and `StoresMapped` (5.15 million states, damaged chains included); `Esl.cfg` with
`MaxData = 3` (407,394 states), `Map.cfg` with four keys and one kind of value (29,958 states).

Two runs end in a counterexample to what a comment, a document or a test says; PROJECT.json
has the quotations.

| Run | Property | What the code does |
|---|---|---|
| `msg_mixed` | `Intact` | with messages of different sizes an unread message is overwritten |
| `lock_close_race` | `OpenReturns` | the tail of `shlock_close` overwrites the next owner's `ref` or `tid`; its close does not unlock and others wait for ever |

Three more deviations were met that have no run of their own; the passing runs state their
properties around them: two processes pass `shmsg_lock` together
and one's message is lost or torn (`overlap` in the properties of `ShMsgShared`); a reader that runs between the two
writes of a frame of the pool drops it, and the request is not answered (`broken`); a
worker that dies while idle keeps its slot, and `shproc_pull` returns it again.  In the file
system, a journal is doubled from 4 blocks to 32768 and then to 65536, past `SHFS_MAX_BLOCK`
(57344): the scan then begins at a block that is refused, and fails for good.

The conditions of the passing runs are needed.  In `MsgFifo.cfg`, a second reader refutes
`NoHiddenMessage` (`read_idx` moves past a message for somebody else), and so does a message
of size 0, which `shmsg_read_valid` never accepts; a second size refutes `EmptyAccepts`.  In
`LockOpen.cfg`, `Preopened = FALSE` refutes `MutualExclusion` (two first users).  In
`LockRaceFree.cfg`, `MaxHeld = 2` refutes `RaceFreeLock`: `shlock_tryopen` by the owner does
not lock the mutex again, but each close unlocks it.  In `ProcPool.cfg`, `MayStop = TRUE`
refutes `DescriptorIntact`: `shproc_stop` does not clear `user_fd`.

In `MsgShared.cfg` with
4 bytes and sizes 1 and 2, `SerialBounds` without `overlap` is refuted: an entry gets the size of one
writer and the offset of another and reaches past the data area.  Without
`harm = {}` `ReadBack`, `ChainsSound` and `NamesKept` are refuted; without `early` and `stale`, `InOrder`
and `Delivered` are; without `lost`, `VisitedOnce` is.

Deadlock is checked in the message, pool and map runs.  In the lock runs it is not: threads
may wait for a lock that is never closed, and with the race above they do.  In `esl` the number of calls
is bounded and everyone may be done, and in `fs` also the constraint stops at the first damage.

**Fairness.**  `ShMsgShared`: time passes and a live process takes its next step; nobody has
to call, crash or come back.  `ShLock`: a thread inside the library goes on, a thread that
has the lock closes it, and a mutex that is free again and again is granted in the end
(strong fairness of `MutexLock`: it concerns the counterexample, which is the stronger for
it).  `ShProc`: a call of the library ends, workers run and their callback returns, and the
application polls again and again (strong fairness, since it can be busy pushing) as the
interface requires of it.  `ShEsl`: a call goes on, a waiting connection is
accepted, and both applications read again and again (strong fairness of `Read` or `ReadB`:
they can be busy writing), which is what a program on a socket does; nobody has to write.

## 5. Proofs

Every theorem is about all values of the constants that satisfy the named ASSUMEs of the
modules (TLC evaluates those in the runs); where a theorem has a hypothesis of its own it is
given below, with the reason.  Each inductive invariant was first checked by TLC on small
instances.

**Lemmas on the queue's operators** (`ShMsgMapProofs`).  `Succ` and `Distance` stay in the
table, `FirstFrom` of a non-empty set is an element of it and no other is nearer, and what
`ShmsgWriteMap`, `ShmsgWriteMapData`, `ReadSlot` and the others leave of a region's types and
bounds.  The proofs of the queue and of its shared use rest on them.

**One process at a time** (`ShMsgQueueProofs`), for every table size, data size, set of peers
and set of sizes:

- `MsgBounds`: `Spec => [](TypeOK /\ InBounds)`, and `MsgTypes` from it.  The conjunction is
  inductive: a write fits because `DataFits` bounds the start and the end, an overflow takes
  `read_of` from an entry that is in bounds, and a read only moves `read_of` to the end of one.
- `MsgUnreadKept`: `Spec => UnreadKept`, from `MsgBounds` and the fact that the entry a write
  takes is free or, with overflow, the one at `read_idx`.

**The mailbox** (`ShMsgQueueProofs`).  `FifoMailbox` is the refinement: `Spec => IsMailbox`,
step by step, and `FifoIntact`, `FifoFound` and `FifoAccepts` are `Intact`, `NoHiddenMessage`
and `EmptyAccepts`.  The hypothesis `OneReceiver(S)` is the use that the code is written for:
one receiver, messages of one size `S` or too large to be accepted, and a data area
that holds a table of them.  Each part is needed (section 4 has the counterexamples).  The
invariant `FifoInv(S)` describes two rings that turn at different speeds: the unread messages
are consecutive entries of the table from `read_idx` to `write_idx`, and consecutive cells of
the `DATA_SIZE \div S` cells that the data area is cut into, in the same order; `write_of` is
behind the cell of the newest, and `read_of` at the cell of the oldest or, once it met the end
of the last cell, there.
That a write never reaches an unread cell follows from the number of entries being at most
that of cells; that a refused send changes nothing of the box, from the same ring.

**Many processes, leases and crashes** (`ShMsgSharedProofs`), for every set of processes, every
lease and any number of crashes:

- `SharedBounds`: `Spec => []SerialBounds`, and `SharedTypes`.  The invariant `SerialInv` says that
  until `overlap` is set at most one process is past the lock, and that what it remembers of the
  region (the entry, the offsets it loaded) is what the region holds; so the place that a writer
  chose from two separate loads is inside the data area, and what is left by a crash
  between any two stores is an offset and a size that fit as well.
- `SharedEntriesKept`: `Spec => SerialEntriesKept`, from the same invariant: the entry that a writer
  claims is still free when it does.
- `SharedLeakBound`: `Spec => []LeakBound`, a crash costs at most one entry.  By `SerialInv` no
  step but a crash adds an entry to `Leaked`, and a crash adds at most the one its process was
  filling in.  It assumes `0 \notin Sizes`: a message of no bytes is stored
  in an entry that `shmsg_read_valid` never accepts, which then looks like one left by a crash.

**Thread lock** (`ShLockProofs`), for any number of threads, any nesting and any `REF_MOD`:

- `OpenExcludes`: if the lock object exists and threads use `shlock_open` only,
  `Spec => []MutualExclusion`.  The inductive invariant says that every thread works on the
  one object (`OneObject`) and that a thread which holds the lock, or is on its way to, is the
  owner of the mutex and its count covers what it holds (`Covered`).  It says nothing about
  `ref` and `tid`: they may be wrong (see `lock_close_race`), and a wrong value can only make
  `shlock_close` leave the mutex locked.
- `LockTypes`: `TypeOK`, in every use.
- `RaceFree`: `Spec => []RaceFreeLock`, with both opens and with no lock object at the start.
  Here `ref` and `tid` matter: until `raced` is set they are those of the owner, or on their way
  there in one thread's step.  It assumes `MaxHeld <= 1`; with nesting the property is
  false (section 4).

**Process pool** (`ShProcProofs`), for any number of slots, requests, sizes and buffer lengths,
with crashes, and with stopped and restarted slots except in the last theorem:

- `ProcTypes`, `ProcRequests` (`RequestIntact`), `ProcResponses` (`ResponseIntact`) and
  `ProcIdle` (`IdleIsClean`).  The invariant `PInv` follows the one request of a slot through
  its phases.  For a slot that is not `broken` it counts the units that the parent and the
  worker have sent and taken; what is in a stream is the difference, every unit of it belongs
  to the slot's request, and parent and worker agree on the phase.
- `ProcDescriptors` (`DescriptorIntact`), from `FInv`, which adds that a slot's descriptor, in
  `user_fd` or in the datagram socket, is that of its request.  It assumes that
  `shproc_stop` is not used (`MayStop = FALSE`): it leaves `user_fd` behind, and the next
  request of the slot sends it.

**Encrypted sockets** (`ShEslProofs`), for any number of connections and messages and any
capacity of the wire:

- `EslTypes`, `EslDecodes` (`Decodes`), `EslInOrder` (`InOrder`).  The invariant `EInv` says
  that the pieces in the receiver's buffer, on the wire and in the sender's buffer are one
  window of the pieces of a connection, from the first frame that was not read yet to the last
  that was written; that data frames have the key which both sides have after the handshake
  (`Merged`), whichever merged it first; and that the data delivered is the numbered messages
  before the window.

**File system** (`ShFsProofs`), for any number of processes, children, journals, blocks, calls and
restarts, and with any process on any child:

- `FsTypes`: `Spec => []TypeOK`, whatever is in `harm`: a block in use is at its own
  position inside its file, and links lead to positions that exist.
- `FsMaps`: `Spec => []StoresMapped`.  A map is never renewed, another process may have grown the
  journal and extended the chain past this map, and the store itself (`shfs_inode_write_block`)
  tests nothing; still, every block that a process stores is in its own map, because it was scanned
  or read through that map.  This includes two processes that write one child, each with its own copy
  of the inode.

Both follow from `Shaped`.  It says that a block in use is at its own position, below the length of
its file; that no link leads to the inode of the file (a scan never returns it, since it is never
free); that a free block is all zero; that a process has a block where it is about to write or clear
one; that its maps do not pass the end of the files and have every block of which it keeps a copy
(`Fits`); and that a process which fills a file is at a place of a call where it scans, and writes
after the blocks that a new file has, so not over the inode of the file (`Fills`).  That a search
returns such a block needs the chain: `Chain` iterates, and nothing about an iteration can be shown
by the library's induction.  The proof uses that a set of numbers has a least element (`LeastNat`),
and from that, that the iteration stays in every set which is closed under links (`ChainIn`).

**Checked by TLC only.**  All liveness (`LockExpires`, `PendingEnds`, `Delivered`,
`ReadEnds`), which is out of the prover's reach.  `ChainsSound`, `NamesKept` and `ReadBack` of the file
system, where any process may extend or cut any chain.  Everything about `ShMap` (`TypeOK`, `Sound`,
`VisitedOnce`, `Refines`): chains are concatenated, filtered and folded (`FlattenSeq`, `SelectSeq`, `FoldLeft`), and
what those do for every length needs inductions that the library's theorems do not give.

## 6. Mutants

Every property of a passing run has a mutant: an operator beside the definition it mutates,
marked "Mutant of", that changes it as a plausible bug would.  With it TLC finds the property
violated.  Mutants are used by nothing else.

## 7. Not modelled

Of the file system: trees of directories, removal of a file with its children, writes at an
offset, eviction of a journal from the cache by one with the same number modulo its size (the journal
is then mapped anew, at its present length),
and the layers above (revisions, streams, archives, file locks).  Of the sockets:
`shnet_verify` and sockets without ESL.  The buffer pool has no caller outside its tests.  Most
lines of the repository are vendored or generated (SQLite, zlib, xdelta, gnulib, the x509
library, Lua, SWIG wrappers) and not libshare's own logic.  Peer
tracking is SQL over SQLite; logging, caching, PAM, licences and signatures are file I/O and
cryptography; the algorithms under `mem` (digests, ECDSA, RSA, compression, diff, JSON) work
on byte strings out of TLC's reach and are in part vendored; SEXE is a Lua virtual machine;
the command line tools are thin; the kernel module and the language bindings are templates
and glue.  Of the message queue, the per-process table of mapped queues (`shmsgget`,
`SHMSGF_RMID`) is not modelled.
