# Verification of the ARC policy in gem5's Ruby caches

The repository adds an Adaptive Replacement Cache (ARC) policy to gem5 and makes
it the default of every Ruby cache. This directory models the policy, the cache
that calls it, and the memory system around it: sequencers, L1s, L2, directory
and DMA of MESI_Two_Level. TLC checks the models on small instances; TLAPS proves
the main properties for every geometry, number of CPUs and length of run.

## The system

| part | source | state | operations |
|---|---|---|---|
| ARC policy | `arc_rp.cc`, `arc_rp.hh` | per entry: time stamp, list (T1/T2), valid bit, tag; per set: ghost lists B1 and B2, target size of T1 | `instantiateEntry`, `touch`, `reset`, `invalidate`, `getVictim` |
| back-pointer | `replaceable_entry.hh` | `ReplacementData::entry` | `setPosition` |
| Ruby cache | `CacheMemory.cc` | the array of entries, the index from address to way, permissions, last access, LL/SC lock | `allocate`, `deallocate`, `cacheProbe`, `setMRU`, `tryCacheAccess`, `lookup`, locks |
| sequencer | `Sequencer.cc` | per line a list of requests, the lock of a locked read-modify-write | `makeRequest`, `insertRequest`, `issueRequest`, `readCallback`, `writeCallback` |
| L1 controller | `MESI_Two_Level-L1cache.sm` | protocol state, TBE, LL/SC timer, five ports | one transition per state and event |
| prefetcher | `RubyPrefetcher.cc` | streams | `issueNextPrefetch` |
| L2 controller | `MESI_Two_Level-L2cache.sm` | protocol state, sharers, TBEs, three ports | one transition per state and event |
| directory, DMA | `MESI_Two_Level-dir.sm`, `-dma.sm` | protocol state, TBE, memory | one transition per state and event |
| stalls | `MessageBuffer.cc`, `AbstractController.cc` | a priority heap and a stall map per port, `m_waiting_buffers` | `stallMessage`, `reanalyzeMessages`, `wakeUpBuffers`, `blockOnQueue` |
| driver | `x86-spec-cpu2017-benchmarks.py` | exit-event generators | configuration and statistics |

How they interact. A CPU's request joins its line's list in the sequencer; the
head of the list goes to the L1 through the mandatory queue. A miss becomes a
message to the L2 bank. When the block is cached there, the controller serves
the request from its data, forwards it to the L1 that owns the line, or parks it,
and on a hit calls `setMRU`, which calls the policy's `touch`. When the block is
absent and its set has room, `allocate` stores the entry, links it and calls
`reset`, and the line is fetched from the directory. When the set is full the
port calls `cacheProbe`, and so `getVictim`, and triggers a replacement of the
victim, which may stall. The request stays and the port probes again later.
`getVictim` is declared `const` but records a ghost each time, so the policy sees
probes, not evictions. A DMA access makes the directory take the line from the
L2, and the L2 from the L1s.

What makes it hard: the policy's state is spread over calls made by several
transitions; its division depends on two lists that other requests fill and
drain; a stalled message must be found by exactly the wake-up that ends the
transaction it waits for; messages of one line overtake each other in an
unordered network, so a write-back, an invalidation and a forwarded request
cross in every order; sequencer and L1 keep two views of the same request.

The copies under `src/` and in the gem5 tree differ in comments, in
layout and in how `adjustP` writes its upper bound (the list sizes read again, or
the locals that hold them: the same value); line numbers are those
of the copies directly under `src/`, where there is one.

## Modules: policy, cache and bank

**ARC** has the policy's methods as action fragments: a fragment mentions only
the variables it changes, and the caller conjoins it with its own changes.
`replData[s][w]` is the replacement data of a way, which exists from the
construction of the cache to the end. `sized` is the common length of the three
per-set vectors. `linkedEntry` says whether the back-pointer is unset, live or
dangling. `fault` records what stopped the process. `Victim` states the outcome
of the scan in `getVictim`: the first of the least recent ways of the chosen
list among those stamped before the present tick, else the first valid way;
`ScannedVictim` is the two loops themselves.

**CacheMemory** (extends ARC) has the array, the tag index, permissions and last
access times. The lower-case operators are the methods. The actions `Allocate`,
`Deallocate`, `CacheProbe`, `SetMRU`, `TryCacheAccess` and `ChangePermission`
let a client make any call whose assertions hold, in any order: this covers every
protocol that uses the cache, not only MESI. A call at which the process would
die sets `fault`, and nothing happens afterwards. Entries are deleted with their
slot, so permission and last access of an empty slot have a fixed value.

**SetStore** is what a cache promises its controller: a set of resident blocks that
come and go one at a time, and come only into a set with room. `CacheMemory`
implements it under the mapping `resident <- CachedBlocks`, the blocks `lookup()`
finds.

**L2Bank** (extends CacheMemory) is one bank of the L2 as client of its cache, with
several lines that compete for a set. The protocol's states are projected on
five classes: `NP`, `Stable` (SS, M, MT), `Fetching` (ISS, IS, IM: entry and TBE),
`Blocked` (SS_MB, MT_MB, MT_IIB, MT_IB, MT_SB: entry only) and `Evicting` (I_I, S_I,
MT_I, MCT_I, M_I: TBE only). Where states of one class behave differently the
choice is open, so each transition of the protocol is a step of the model. The
request port is three actions, after the three branches of its code:
`RequestResident`, `RequestWithRoom` and `RequestNoRoom`. `MemData`, `Unblock`,
`MemAck` and `MemInv` are the events of the other two ports. A message that was
stalled keeps its arrival time when it is woken, so the port's heap is a set of
arrival numbers whose head is the least.

**MCL2History** adds two history variables to L2Bank, for properties about the past.

## Modules: the protocol

These model one line in full, where L2Bank has several lines in outline. Other
lines appear through what they do to this one: they replace it in an L1 or in
the L2, and prefetches of theirs stall on it.

**RubyNetwork**: the messages in flight are a bag, and any of them may be peeked at
next, because the buffers are built unordered and messages of one buffer are
sent with different latencies. `stalled` is what `stall_and_wait` has taken out of
the buffers. `Send`, `Receive`, `ReceiveAndWake`, `Wake` and `StallAndWait` are the
five things a transition does with messages. A data block is a version number
per word: a write makes the next version of what it finds, so a lost update
shows as a version behind `latest`, the history of what was written last.

**Sequencer**: `seq[i]` has the line's list of requests, what is in the mandatory
queue, the LL/SC monitor (`m_locked` of the cache entry) and the lock of a
`Locked_RMW` access. `readCallback` completes the reads at the front of the list and
issues the first write again; `writeCallback` completes the whole list.

**L1Cache**: `l1[i]` is the line's state, data and Dirty bit, the TBE's pending
acknowledgements and whether it is for a load-linked; `opt[i]` is the prefetch
queue. There is one action for the transitions that do the same; the guards list
the states. The two network ports are `L1Receive`, the mandatory queue
`MandatoryQueue`, the timer `LLSC_Timeout`, the prefetch queue `PrefetchQueue`.
NP and I are one state: they differ in whether an empty entry is kept.

**L2Cache**: `l2` is state, data, Dirty bit, sharers and the TBE. `L2_Replacement` and
`L2_Replacement_clean` are caused by other lines; `MEM_Inv` by the directory.

**Directory**: state and TBE, memory, and a DMA controller with one access to the
line at a time. The memory performs a request when it answers it.

**MESI_Two_Level** composes them and has the properties. **CoherentLine** is what the
protocol promises, with no L2, directory, message or transient state: each CPU
has a permission and a copy, permissions are given and taken one at a time.
Under the mapping of L1 states to permissions the protocol implements it.

**MCCacheMemory**, **MCL2Bank** and **MCMesi** are the instances TLC runs. The `_proof`
modules have the theorems.

Operators named as variants ("Variant of ...") are deliberate errors placed next
to the definition they alter. Replacing the definition by the variant must make
TLC refute a property, which shows that the property depends on that code.

## Runs

| run | question | result |
|---|---|---|
| `cache_memory` | Do array, index and policy stay consistent under any legal calls? | holds, 364,053 states |
| `store` | Do the loops of `getVictim` choose what `Victim` says, and does the cache implement `SetStore`? | holds, 63,401 states |
| `l2_bank` | Does a bank whose set is contended lose, duplicate or misplace a request, disagree with its cache, or leave a request unserved? | holds, 35,579 states |
| `coherence` | Three CPUs: one writer or many readers, latest copies, memory right, inclusion, no unexpected message, no lost wake-up, `CoherentLine` implemented? | holds, 228,340 states |
| `progress` | Do sequencer and L1 agree, are reads fresh, is every request completed? | holds, 62,840 states |
| `atomics` | Are LL/SC and locked read-modify-writes atomic, and is what they hold up released? | holds, 427,390 states |
| `dma` | Do DMA accesses see and leave the right data, whatever they cross? | holds, 87,765 states |
| `prefetch` | Does prefetching keep data right and every event expected, and lose no wake-up of requests? | holds, 598,831 states |
| `ceiling_division` | Is the divisor in `adjustP` never zero? | violated |
| `new_block_list` | Does a new block enter T1? | violated |
| `ghost_without_eviction` | Do ghosts stand for evicted blocks? | violated |
| `ll_dirty_data` | With the LL/SC lock, is memory up to date when the directory owns the line? | violated |

Bounds. `cache_memory` has two sets of two ways; three addresses compete for set
0, so it fills, is probed and refilled, and one address in set 1 makes the
vectors grow late; ticks 0 to 2 give entries touched earlier, later and in the
present tick. `store` has three ways and four blocks of one set, so that ties
between neighbours and between the ends occur. `l2_bank` has three blocks for a
two-way set, three requests and two TBEs, so that a victim can be stable,
fetching or blocked, and the table full. `MaxTick`, `MaxRequests` and the size of
`Addr` are the only bounds there; ghost lists need none, being bounded by the code.

The protocol runs bound the versions of a word (`MaxVersion`, and `MaxDma` for
DMA writes), that is the writes of a behaviour; reads, replacements and prefetches
are unbounded, and with them the behaviours. One write suffices to tell an old
copy from a new one and one line suffices for coherence, which is per line.
`coherence` has three CPUs, as a forwarded request, its requestor and a third
party that overtakes it are needed, and the CPUs are interchangeable. `atomics` has
two writes, as a lost update takes two writers, one CPU with the LL/SC lock and one
without. `dma` has a CPU that loads, fetches and stores, and DMA writes up to the
third version, so writes of both kinds meet in either order. `MaxOutstanding` is 2 where lists are the question
(`progress`) and 1 elsewhere. `L2Evicts` says whether the L2 replaces dirty lines,
clean lines, both or none.

Deadlock is checked in every run. For cache and bank, `Halted` and `Rest` are the two
ways a behaviour may end: the process stopped, or every request was served and no
more are to come. In the protocol runs there is always a CPU that can read on.

Fairness. `l2_bank`: weak fairness of `HandleRequest`, as the event queue wakes a
controller as long as its port has a ready message, and of `MemData`, `Unblock` and
`MemAck` per block, as the directory answers and the L1s unblock. Nothing is
assumed about arrivals, `MEM_Inv` or time. `progress`: weak fairness of each port of
an L1, of the L2's network ports and of the directory, since a controller's
wakeup visits all ports while one is ready. Strong fairness of the L2 serving a
given L1's request, and its write-back: woken messages keep their arrival times and
are taken in that order, so a request that can be served again and again is not
passed over for ever. Nothing is assumed about CPUs, replacements or prefetches.
Under this fairness progress does not hold with the LL/SC lock (a CPU that repeats
its load-linked can lock the line again each time the timer has run out and before
a woken request is taken), so `progress` has loads and stores.

`ReadsFresh` speaks of the request the L1 was asked for. Later reads that join its
list are completed with the same data; when the line was invalidated on its way
(IS_I) those may be older than a write that ended before they were made.

### Disagreements between the code and its comments

With a run:

* `adjustP` divides by the length of the ghost list that was hit, after
  `removeFromGhost` has shortened it. When the list held one tag and the other
  is not empty the divisor is zero, and on x86 the simulator gets SIGFPE
  (`ceiling_division`). In the counterexample a probe of a victim in a
  transaction leaves a ghost in B1, a hit moves the block to T2, its eviction
  leaves a ghost in B2, and the next allocation takes B1's only tag.
* `tag` is never assigned, so every ghost matches every block, and a block that was
  never cached is filed as frequent (`new_block_list`).
* A probe that stalls leaves a ghost of a block that is still cached
  (`ghost_without_eviction`).
* A load-linked miss that takes a dirty line from another L1 leaves it in LLSC_E and,
  after the timeout, in E, from where an invalidation is answered without data: the
  write is lost (`ll_dirty_data`, `L1cache.sm:1279`).

Seen by changing a constant of a run (the property named then fails):

* `dma` with `L2Evicts = {FALSE}`: the L2's ACK of a clean replacement meets the
  directory in M_DRD or M_DWR, which have no transition for it
  (`NoInvalidTransition`, `dir.sm:475`).
* `dma` with two words and a DMA write of one: from M_DWR only the DMA's range goes
  to memory, and what the L2 sent for the other word is dropped (`DirectoryOwns`,
  `dir.sm:554`; the comment on state I at `dir.sm:47`).
* `dma` with a write that starts at the second word: memory's answer carries the
  address of the write, and no TBE is found under it (`NoInvalidTransition`,
  `dir.sm:372`).
* `atomics` with `SendEvictions = FALSE`: an upgrade that loses its race is not
  reported and the monitor stays armed (`MonitorSound`, `L1cache.sm:1526`).
* `atomics` with `MaxOutstanding = 2`: a request that joined the list of a
  Locked_RMW_Read is completed within the locked access (`LockedRMWAtomic`,
  `Sequencer.cc:482`).
* `atomics` with a prefetcher: a prefetch of another line replaces a locked line
  (`LockedRMWAtomic`, `L1cache.sm:412`).
* `prefetch` with `WaitersWaitForTransaction`: a wake-up from the response port clears
  the registration of the prefetch queue, which has a higher rank, without waking it
  (`AbstractController.cc:193`).
* `prefetch` with `SharedStreams = TRUE`: a prefetch meets PF_SM, which has no
  transition for it (`NoInvalidTransition`, `L1cache.sm:1101`).

And a comment says ghost lists are capped by the associativity; the code compares
with the number of sets seen (`src/arc_rp.cc:96`). The gem5 tree's copy has the same
code and admits it: "not enforced strictly here" (its `arc_rp.cc:84`). What holds,
and is proved, is `GhostBounded`.

## Proofs

`CacheMemory_proof` proves, from `GeometryAssumption` and `CacheAssumption` alone,
`TypeOK`, `TagIndexConsistent`, `PolicyTracksResidents`, `NoPointerFault`,
`RecencyAgrees`, `GhostBounded` and `TargetBounded` for `Spec`. The assumptions are
those `init()` makes of the geometry (more than one set; the number of set bits
is the floor of the logarithm, so the number of sets need not be a power of two)
and that no protocol gives a cached entry the permission `NotPresent`, which
`allocate()` warns of. The inductive invariant `IInv` is the conjunction of the
seven. `NoPointerFault` is not inductive: that a probe of a full set has a victim
needs every occupied way to be valid in the policy (`PolicyTracksResidents`); that
`allocate` has an open slot needs an absent block to be absent from the array too
(`TagIndexConsistent`). Those two are kept by `deallocate` because the way found
through the index is the one that holds the block. `TargetBounded` needs
`GhostBounded`, as the clamp in `adjustP` is a sum of list lengths. There is one
lemma per operator of the policy and one `...Effect` lemma per method of the cache.

`Store_proof` proves that `Spec` implements `SetStore`. Under `IInv` the blocks
`lookup()` finds are those in the index. A step of `Allocate` is an insertion; the
set has room because each of its blocks has a way of its own and none has the
open one, an injection into a set of `Assoc - 1` ways. A step of `Deallocate` is a
removal, and the others leave the index alone.

`L2Bank_proof` proves the bank's invariants for every geometry, TBE table and number
of requests: `StateMatchesCache`, `ParkedOnTransaction`, `NoRequestDuplicated`,
`TBEsBounded`, and that type and pointers stay right. The inductive invariant `BInv`
is the cache's `IInv` with these. The bank calls the cache's methods, so each step
reuses the cache's effect lemmas; that a method's assertions hold at the call is
`StateMatchesCache`. `TBEsBounded` needs the set of lines with a TBE to be finite,
which is part of `BInv` (at most one line joins it per step).

`MESI_proof` proves `RequestInProgress` for every number of CPUs, of outstanding
requests and of versions, and every choice of prefetching, LL/SC locks, replacement
and DMA. The inductive invariant `AllAgree` relates each sequencer's record to its
L1's: the list's type, that it has exactly one request under way, that a parked
request waits for the line. It is closed under each L1 handler by itself, because
no other controller touches either record.

`Stall_proof` proves `RequestsPutAsideWait` in the same generality, from `AllAgree` and
`StallInv`. Each handler is shown to do one of three things (`L1Keeps`, `L2Keeps`): leave
the stalled messages alone and stay in the states that make them wait; wake all of
its own; or put one aside in such a state. `MachineNames`, that no L1 is called
"L2", "Dir" or "DMA", keeps the controllers' messages apart.

`CoherentLine_proof` proves that `CoherentLine` has one writer or many readers and that
readable copies are the latest, for every set of CPUs and words: what
`ImplementsCoherentLine` is worth. `Min_proof` has a fact on minima that several
modules use.

Model-checked only: the coherence properties of the protocol itself and its
implementation of `CoherentLine`, whose inductive invariant must count messages and
acknowledgements in flight; the waits at the directory, which rest on the same
handshake; atomicity of LL/SC and locked accesses, as `writeCallback` is a fold over
the list; that the loops of `getVictim` compute `Victim`, which would need induction
over the ways; liveness and `NoInvalidTransition` (ENABLED), which are out of the
prover's reach.

## Not modelled

Statistics, tracing and debug output. Transactional memory in `CacheMemory` and
`Sequencer`, and bank and ALU resources: the configured system uses neither, and
resources only delay. Of the sequencer: flushes, remote atomics, TLB requests and
the deadlock timer, which stops a simulation that makes no progress; progress is
checked instead. The prefetcher's filters and strides: a prefetch may come at any
time. Latencies and finite buffers: the network is a bag and unbounded. The DMA
sequencer's splitting of an access into lines. The other replacement policies and
the classic caches, which the configured system does not use. The Python parameter
classes, the simulation driver and the shell scripts, which have no state in common
with the caches. The rest of gem5 is not changed by this repository.
