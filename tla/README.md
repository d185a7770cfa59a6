# A model of log-heap-pmem

This directory specifies the log-structured persistent heap of `src/project` in
TLA+: what the client's calls and the cleaner threads do to the log, the segment
lists and the hash table, what that adds up to for the client, and where the
code does something else than its documentation says. TLC checks the model on
small heaps; TLAPS proves for heaps of every size that the lists stay a
partition, that the hash table is right, and that the calls implement a map from
ids to values, over crashes and starts as well. The model covers running, shutting
down, crashing and starting again, and the list operations once more, store by store.

## The system

A heap is one mapped file. Behind a header (`log_t`) lie segments of 4 KiB
(`segment_t`), and objects are written into segments one after the other
(`log_entry_t`: id, version, length, deletion mark, data). A hash table in RAM
maps the ids of live objects to the offsets of their newest versions.

| component | source | state | operations |
|---|---|---|---|
| client interface | `log_pmem.c` | the caller's local variables, `update_move_mutex` | `palloc`, `palloc_with_id`, `update_data`, `pfree`, `get_address`, `init_pmem`, `delete_pmem` |
| log head | `log.c` | `head_segment`, `head_position`, `current_id`, `used_segments_count` | `init_log`, `append_to_log`, sealing the head and taking a new one, `gen_id`, `check_consistency` |
| segment lists | `log.c`, `cleaner.c` | free, used, cleaner and emergency list: first and last offset, `next_segment` in the segments, a mutex for each | moves of a segment from list to list |
| cleaner threads | `cleaner.c` | per thread: its cleaner segment and the position in it, the cursor in the used list, the position in the segment being cleaned; `currently_cleaned_segments` | `clean` and what it calls |
| hash table | `hash_table.c` | GHashTable id to offset; a file with its persisted pairs | add, get, remove, contains; persist, load, rebuild |
| start and recovery | `log_pmem.c`, `hash_table.c`, `cleaner.c` | `regular_termination`, `consistent` | start, shutdown, rebuilding after a crash, resuming cleaner segments |

The client (one thread: `src/document/thesis.tex:647`) and the cleaner threads
(two: `CLEANER_THREAD_COUNT`) share all of it. They interact

- through `update_move_mutex`, which `update_data` and `pfree` hold throughout
  and a cleaner holds while it compares and moves one entry;
- through the lists: the client takes free segments and appends to the used
  list; a cleaner takes free or emergency segments, copies live entries of a
  used segment into one, appends it to the used list when it is full, and puts
  the used segment it has emptied on the emergency list or the free list;
- through `used_space`, which the client lowers and the cleaners test without
  a lock;
- through `currently_cleaned_segments`, which keeps two cleaners from the same
  segment;
- through the hash table.

What is hard: the cleaners read the used list while it changes under them; a
cursor may stand on a segment that has moved on; `used_space`, the deletion
mark, the version and the hash table are changed one after the other and read
in other orders; the emergency segment must suffice for going on; memory is
reused without being erased; and a call may fail half way.

What makes the components correct:

- *lists*: a segment is always in exactly one place, and next to the right ones;
- *cleaner*: no live entry is lost, no dead one survives for good, no two
  threads work on the same segment, nobody waits for ever;
- *log head*: an entry fits, a walk over a segment ends where its entries end;
- *hash table*: it names exactly the live objects, each in its newest version;
- *client interface*: a map from ids to values;
- *recovery*: after a restart the same map, whatever moment the crash chose.

## Modules

`HeapStore` is the abstract specification: a map from ids to values. A creating
call begins with an id that has no object, and then has made it or not; it fails
only if there is no free segment. An update replaces the value, a removal removes
it. The promise is void once the detailed model has met a hazard.

`LogHeap` is the heap. Its variables are the fields of `log_t`, `segment_t` and
`pmem_t` (the comment at each names its field), the program counters of the
client (`app`) and of the cleaner threads (`cl`), and two things the code does
not have: a counter of writing calls, whose value stands for the data, and
`hazards`, the set of things that have gone wrong so far.

| actions | code |
|---|---|
| `BeginPalloc`, `BeginPallocWithId`, `BeginUpdate`, `BeginFree` | the calls up to `append_to_log`, or up to the change of the hash table |
| `WriteEntry`, `SealHead`, `TakeHead`, `OutOfMemory` | `append_to_log` and the change of the head, per critical section |
| `Publish`, `Unmap` | the change of the hash table and the return |
| `StartCleaning`, `GetFirstSegment` | `clean` up to its endless loop |
| `BeginScan`, `Claim`, `Skip` | the walk over the used list |
| `EndWalk`, `Drop`, `Copy`, `FindFull`, `Retire`, `Refill`, `Misread` | the walk over the entries of a claimed segment |
| `Advance`, `Reclaim`, `ReclaimNothing`, `Finish` | reading the next segment, giving the claimed one back, ending the claim |

A segment is a row of cells: an entry takes a header cell and one cell for each
unit of data. So walks over a segment, terminators and leftovers of an earlier
life of the segment behave as in the code; a walk that lands inside an entry's
data is recognised (hazard `garbage`).

**Hazards.** Where the code relies on something that is not always true, the
action records it. `staleClaim`, `failedUpdate`, `staleTail` and `lateReset`
let the model go on with what the code does next; `nullDeref`, `garbage`,
`truncated` and `relinked` end the behaviour, because the process dies or the
outcome depends on bytes and pointers that are not modelled; so does `misdealt`,
which belongs to `Restart`. The properties about values hold `hazards = {} =>`;
which hazards can occur at all, and what they do, is what the violation runs and
`RacesNeedTwo` are about.

The `Bug...` operators are wrong variants of the operator that follows each of
them. The specification does not use them; putting one in the place of the
right operator violates the property named in `PROJECT.json`, which shows that
the property depends on it.

`Restart` extends `LogHeap` with the life of the process: the file that holds the
heap outlives it, everything in RAM does not. `LogHeap`'s steps go on while the
process is up (`ClientRuns`, `ThreadRuns`).

| actions of `Restart` | code |
|---|---|
| `Start`, `Opened` | `init_pmem`: `check_consistency` (`SegCount`), `get_persisted_hash_table` (`Loads`), `reconstruct_hash_table` (`Rebuilt`, `RebuildEnds`), and the reset of `regular_termination` after the threads have begun |
| `InitCleaner` (in `Start`), `CreateThread` | `init_cleaner`: the i-th thread gets the i-th cleaner segment (`Dealt`), and the list is walked anew for each thread while the ones created before run already |
| `BeginResume`, `ResumeEntry`, `MisreadResume`, `EndResume` | `clean` for a thread that was started with a cleaner segment: it looks for the end of what was copied into it |
| `BeginClose`, `StopCleaner`, `BeginSave`, `EndSave`, `EndClose` | `delete_pmem`: `terminate_cleaner`, `persist_hash_table`, and the setting of `regular_termination` |
| `Crash` | the process ends between two steps (`Between`), or within one: in `append_to_log` (`WhileWriting`), `pfree` (`WhileFreeing`), the change of the head (`WhileTaking`) |

A crash ends the process and changes nothing in the file
(`src/document/thesis.tex:382`: only crashes "bei denen das Programm einfach nur
aufhört" are meant to be recovered). As `LogHeap` records hazards, `Restart` records
`faults`: what a crash or a shutdown leaves behind that the code does not put
right. The behaviour goes on with what the code then does, but `Recovered` and
`SurvivesRestart` no longer say anything about it.

| fault | code |
|---|---|
| `crashedUpdate` | `update_data` has discounted the old version and not written the new one (`log_pmem.c:301`) |
| `staleHead` | a cleaner has given the sealed head back and no new one is stored yet (`displaced`), or the new one is stored and `head_position` not yet (`log.c:144-159`) |
| `halfCleaned` | an entry that was moved is also, unmarked, in its old segment (`cleaner.c:129-151`) |
| `staleFile` | `persist_hash_table` writes nothing for an empty table (`hash_table.c:164`) |
| `staleLink` | an emergency segment still has its old successor (`cleaner.c:397`) |
| `trustedFile` | the threads have changed the heap, `regular_termination` is still set (`log_pmem.c:109-113`) |
| `shortCursor` | a thread resumes elsewhere than it had left off (`cleaner.c:71`) |

The hazard `misdealt` ends a behaviour in which `init_cleaner` comes to another segment
than the one the list had for the thread when it began: two threads then copy into
the same segment, or a segment has none (`cleaner.c:11-14`).

A start that rebuilds the hash table may also meet two of `LogHeap`'s hazards
(`RebuildHazards`): a walk past the end of a segment that has no terminator puts an
entry of an earlier life into the table (`staleTail`), or reads data as a header
(`garbage`).

`SegmentLists` is the four lists as the code has them: `next_segment` in the
segments, a first and a last offset in the header, a mutex for each list. Its
steps are single stores.

| actions of `SegmentLists` | code |
|---|---|
| `Seal`, `Take`, `TestFree`, `OutOfMemory` | `append_head_to_used_segments_and_get_new_head_segment` |
| `Get`, `GetEmergency` | `get_new_cleaner_segment`, `get_emergency_cleaner_segment` |
| `Retire` | `append_cleaner_segment_to_used_segments` |
| `Reclaim` | `append_cleaned_segment_to_free_segments`, `refill_emergency_cleaner_segment` |
| `Claim` | the walk of `clean` over the used list |
| `LockOuter`, `Link`, `SetLast`, `Recount`, `CutFirst`, `CutOut`, `Bypass`, `Tail`, `Reset` | the locks and stores these moves have in common, in their order |
| `Crash` | the end of the process between any two stores, and the next start's `check_consistency` |

A behaviour ends where something has gone wrong, since what the lists look like
afterwards depends on luck:

| hazard of `SegmentLists` | what has happened |
|---|---|
| `nullDeref` | the segment whose presence was tested outside the mutex has been taken by somebody else (`log.c:138`, `cleaner.c:191`, 229) |
| `relinked` | the old successor of an emergency segment is put into a list with it: it is taken before its late reset (`cleaner.c:247`), or the segment before it becomes a last one with a successor (`cleaner.c:326`, 390) |
| `truncated` | the late reset cuts off segments that were appended meanwhile (`cleaner.c:397`); it does no harm to the last segment of a list |
| `staleTail` | an accepted heap has a last offset or an emergency count from before a store that the crash prevented |

`SegmentLayout` is the arithmetic of `init_log`, `check_consistency` and the
cleaners' start condition, with the sizes of the code; it has no state.

`MCLogHeap`, `MCRestart` and `MCSegmentLists` instantiate these for TLC: the symmetry of
the cleaner threads, and in `MCSegmentLists` an assumption by which TLC compares
`SegmentLayout`'s theorems with every file size from five to seven pages.
The theorems are in `SegmentLayout` and in the proof modules:

| module | extends | about |
|---|---|---|
| `LogHeapProofs` | `LogHeap` | types, lists, ownership, claims |
| `HashSoundProofs` | `LogHeapProofs` | what is in the segments, `used_space`, the hash table |
| `VersionProofs` | `HashSoundProofs` | the versions of an object |
| `StoreProofs` | `VersionProofs` | exact `used_space`, the refinement of `HeapStore` |
| `OneCleanerProofs` | `VersionProofs` | what holds with a single cleaner thread |
| `RestartProofs` | `Restart`, `StoreProofs` | crashes and starts: the lists, the recovered hash table, the refinement of `HeapStore` |
| `SegmentListsProofs` | `SegmentLists` | the order of the mutexes, the chains store by store |

### Abstractions

- The list operations are steps on sequences. Every function that moves a
  segment does so under the mutexes of both lists; what happens outside them
  is kept: the reset of a segment after it went to the emergency list
  (`Finish`, `Late`; until then the segment keeps its old successor, `Left`, to
  which a stale cursor goes on, and `StillLinked` tells who takes it with that),
  the mutex that is never released
  (`ReclaimNothing`). The test `free_segments == 0` before the lock is taken
  (`log.c:138`, `cleaner.c:191`, `cleaner.c:229`) is in `SegmentLists`, and so
  is every single store.
- `SegmentLists` leaves out what is in the segments, `used_space` and
  `used_segments_count`: a client may seal its head at any time, a cleaner may
  claim any used segment. It has no `update_move_mutex`, which only
  restricts when a cleaner takes a segment, and no stale cursors, which are
  `LogHeap`'s.
- `Restart` keeps `LogHeap`'s critical sections: a crash comes between two of
  them, or where `Crash` names a place within one. A crash between the
  stores of a list move is `SegmentLists`'.
- In `Restart` a stale link adds one segment to what `check_consistency` counts,
  which is enough to reject the heap.
- A thread that is cancelled between two segments has released all mutexes.
- A cleaner's lookup, comparison and copy of one entry is one step: it is one
  critical section of `update_move_mutex`. The `length` it reads before that
  does not change while the segment is claimed.
- `to_clean`, `test_and_set_curr_cleaned` and the test of `used_space` at
  `cleaner.c:103` are one step. The `used_space` of a used segment only falls:
  what was worth cleaning stays so, and a segment that becomes empty after the
  test is walked in vain. A claim through a stale cursor is a hazard in either
  case.
- The hash table is a function; races inside GHashTable are undefined behaviour
  and not modelled.
- `malloc` does not fail, a call's `size` is positive and fits in a segment
  (`ClientAssumption`: the code checks only the former), `LogHeap`'s heap is
  consistent (`Restart` has the other case), and `get_address` changes nothing.
- Writing the hash table's file has two steps, incomplete and complete; a crash
  in between leaves a file that `get_persisted_hash_table` refuses. Reading it is
  part of `Start`. Opening and mapping files does not fail.
- The rebuilding of cleaner segments past the first, and the marking of
  duplicates by a resuming thread after a crash (`Duplicate`), cannot be
  reached: a crash with a cleaner segment ends in `endless`. `Duplicate` is
  modelled as written, for the day the loop is repaired.

## Runs

Bounds: `SegSize` is 6 cells. With a segment header of 2 cells (`SegHdr`) two of
the smallest entries fit, so that segments have live and dead entries and a
cleaner segment fills up over several segments; with 4 cells one entry fits, and
every copy fills a cleaner segment. Half a segment is 3 cells: a segment with one
entry is a candidate for cleaning. `one_cleaner` has 8 cells with a
header of 4: half a segment is 4, so that entries of both sizes (2 and 3) are copied, and
an entry of size 3 that does not fit behind one of size 2 leaves two cells where a walk
does not stop. The heap has 5 segments, the least that
leaves a head, a cleaner segment for each of two threads, an emergency segment
and one more; the runs with three or four are explained below the table. The
number of writing calls (`MaxWrites`) is chosen so that memory runs out and segments are reused; it is
what makes the state space finite. The client may stop at any time, so the runs
do not check for deadlock: being stuck is stated by `NeverStuck`, `CallsReturn`,
`CloseReturns` and `UsedSegsReleased`. Cleaner threads run the same code, which makes the symmetry
sound; no run with symmetry checks liveness.

| run | shows |
|---|---|
| `two_cleaners` | types, partition, ownership, claims, hash table, versions and accounting, with two threads and two entries to a segment; the object that is updated is not the one that is freed |
| `one_cleaner` | one thread, with entries of two sizes, terminators and leftovers, up to and past the point where `palloc` fails: the client ends every segment it seals and nobody undoes that, the first hazard is a failed update or a walk past an open end, and the heap implements `HeapStore`; the thread never gets stuck, calls return, the mutex is released, dead segments are given back |
| `restart` | a shutdown at any time, a crash at any moment and a start: an accepted heap is a partition; without a fault the hash table is right and the client finds the same map |
| `shutdown` | two threads, a shutdown at any time and a start: each old cleaner segment gets one thread, while `init_cleaner` is still creating the second; `delete_pmem` returns, unless a thread starves (see Fairness) |
| `lists` | two cleaner threads and the client, store by store, and a crash between any two: who may lock a list finds it whole, no segment is ever out of reach, and an accepted heap has every segment in one place |
| `update_then_free` | violates `VersionFound`: update, free, clean gives a NULL dereference |
| `failed_update` | violates `Readable`: a failed update gives the memory of the current version away |
| `stale_cursor` | violates `UsedSegsReleased`: a claim through a stale cursor leaks `used_segs_mutex` |
| `no_emergency_left` | violates `NeverStuck`: two threads and one emergency segment |
| `refill_race` | violates `ListsIntact`: an emergency segment is taken before its link is reset |
| `recovery_hangs` | violates `StartReturns`: a crash with a cleaner segment |
| `resume_overwrites` | violates `CopiesBehind`, without any crash: a thread resumes before the end of its copies |

`one_cleaner`, `restart`, `shutdown`, `recovery_hangs` and `resume_overwrites` have three
segments: a head, one more and the emergency segment, so that memory runs out and every segment changes its
place within a few calls. One crash and one start are enough for the properties of `restart`: each is
about what one crash leaves behind and one start makes of it; faults that need a
second start to do harm are recorded at the first. `lists` has four segments, so that
the used list has a first, a middle and a last one to be cut out while the others
change, and all four lists run empty. `shutdown` has
entries of one size, one to a segment, so that threads retire and exchange their
segments with every copy: both threads come to have one, one waits for the
mutex of the other, and each of them may have none to go on with.

**What the passing runs mean.** `HashSound`, `NewestVersion` and `Accounting`
relate the three places that say what is alive: the hash table, the entries with
their marks and versions, and `used_space`. `Accounting` is what makes the
shortcut for `used_space == 0` safe; `NewestVersion` makes the version test keep
the current version and nothing newer than it; `HashSound` is the result: no
segment is given back with a live entry. `ImplementsStore` says the same to the client, over whole
behaviours. `update_data` and `pfree` take effect when they lock
`update_move_mutex`, because from then on a cleaner may give the old version's
segment away (a full head even takes that very segment); the other calls take
effect when they change the hash table. The same object is never both
updated and freed in these runs, because that leads to `nullDeref` at once:
`update_then_free` has that case.

**Fairness.** `FairSpec` assumes weak fairness of the client's step within a
call and of every thread's step: the operating system schedules the threads, and a call that
has begun runs on. No fairness for beginning a call. Weak fairness is enough for the
mutex: the client waits for it only before its call is counted as begun, and
since a run has finitely many calls the client cannot keep it from the cleaner
for ever.
`DeadReclaimed` excuses segments after a failed update, since `used_space` may then have wrapped.

`RestartFairSpec` is what `CloseReturns` needs: weak fairness of the threads'
steps and of `delete_pmem`'s own, and strong fairness of `StopCleaner`. A cancelled
thread ends at the first cancellation point it reaches, but the step that
stands for this is not enabled all the time: the thread passes through the
steps of cleaning a segment, where it cannot be cancelled, and comes back.
Nothing is assumed of the client, of crashes or of starts. `CloseReturns` excuses
`Starved`: a thread waits for a segment to copy into, and each of the others has ended or
waits for a segment or for the mutex it holds. With one thread this
cannot be (`NeverStuck`). With two it can, and `delete_pmem` then hangs (finding 4):
TLC violates `CloseReturns` without the excuse.

## Proofs

`LogHeapProofs` proves, for every number of segments, cleaner threads, objects
and calls, that `IInv` holds in every reachable state, where `IInv` is the
conjunction of

- `TypeOK`;
- `Shape`: what a thread's program counter says about its segments and about
  the owner of `update_move_mutex`;
- `SegmentsPartitioned`, `OwnSegments`, `ClaimsExclusive`, `LeakNeedsStaleClaim`.

The parts need each other. That a retired segment is in the cleaner list, so that
removing it removes it, comes from `OwnSegments`, and that it is a segment at all from `Shape`;
that the segment a thread obtains belongs to nobody comes from the partition;
that the copies stay within a segment (`TypeOK`) needs `Shape` for a thread that
kept the mutex; that a leak needs a stale claim comes from `ClaimsExclusive`, whose
clause about the used list needs in turn that a segment is in that list only
once. The induction step has one lemma for each conjunct and each side: the
client's steps and a thread's steps, with one case for each action. The lemmas on
lists (`WithoutProps`, `AppendProps`, `TailProps`, `EmptyProps`) say what the list operations do to
the set of elements and to injectivity. TLC checks the conjuncts on
`two_cleaners`, except `Shape`, which serves the proof only (TLC was asked
before it was proved).

The proofs use the assumptions `SegAssumption` and `ClientAssumption` of
`LogHeap` and, except where a hypothesis is named below, nothing else: in
particular that requested data fit in a segment and that each counter's width
exceeds what is counted. `SizeMod > 2 * SegSize` is needed because `used_space`
is for a while the sum of two lives of a segment: one that was given to the
emergency list is taken and filled again before the late reset (`cleaner.c:401`).
The code's `size_t` is far wider.

`OnlyRetiringOpensEnds` proves `EndsStayClosed`: a segment sealed by the client ends
where a walk over it stops, and no later step of anybody writes behind its end. It
needs `IInv` only: what a step writes into is the head or a cleaner segment, or a mark.

The theorems are about the model: where the code's lists stop being lists
(`ListsIntact`) the behaviour ends.

### The hash table

`HashSoundProofs` proves `HashSound` by the invariant `CInv`: `IInv`, and

- `Rows`: the written part of a segment in use is entries back to back, none of
  length 0. This holds whatever has gone wrong (`EntriesBackToBack`), since the
  head and the cleaner segments are only ever written at their end;
- as long as no hazard has struck, `HInv`:
  - `AppSound`: the entry of the current call and, once it is written, its place;
  - `Hashed`: what `HashSound` says;
  - `Spaces(x)`: `used_space` is at least the size of the live entries, and at most
    what is written and `x` more, or one segment more than that before the late reset.
    On a fresh file `x` is 0; crashes leave more behind (see below);
  - `Walks`: a walk stands at a header, and no current version is behind it.

The parts need each other. A segment is given back by one of two ways. The
shortcut for `used_space == 0` relies on `Spaces`. A walk relies on `Walks`: it
has come to the end of the row (here `Rows` is needed, because an entry of length
0 or a step into data would end it too early), and what it has passed was not
current or was copied. `Spaces` needs that the live entries of a row do not
overlap, so that discounting one leaves enough for the others; this is the part on
`Area` and `LiveSpace`, which counts cells with the library's theorems on
cardinality. It is a bound and not an equation, and therefore needs nothing about versions:
`HashSound` needs no hypothesis about the client.

### Versions, accounting and the refinement

What a client sees depends on versions, and they are ordered only under a
hypothesis. `NoRebirth` says that no id is freed and also passed to
`palloc_with_id`. Without it the theorems below are false, and so is the code:
after allocation, update, free and `palloc_with_id` of one id the new entry has
version 1 (`log_pmem.c:222`), the first one is still there, unmarked, with the
same version, and a cleaner that meets it copies it and makes it current
(`cleaner.c:119`). With `WithIds = FreeIds = {1}` TLC finds `Accounting` violated
this way. All ids from `palloc` satisfy the hypothesis, and so do the runs.

- `VersionsOrdered`: `VInv` adds `NInv` to `CInv`. `Ordered` says of each unmarked
  entry that a cleaner may still look at that it is the current version of its
  object, or older than that and than the one being written, or left over from an
  object that was freed (`Gone`). `Known` and `Calls` say which ids can be in the
  hash table before `gen_id` has reached them, and during a call.
- `NewestVersionKept`: `NewestVersion`, under `KeptOrFreed`: no object that is
  changed is freed. Otherwise a freed object leaves older versions behind, and
  `NewestVersion` fails, which is the state before `update_then_free`'s NULL
  dereference. The one segment that `Ordered` does not cover is the old head while a
  call waits for a new one (`Residue`): a cleaner may have given it back already.
- `AccountingExact`: `Accounting`, by `Exacts`: a segment in use that nobody cleans
  and that waits for no late reset has no more `used_space` than live cells.
  Cleaning spoils this on purpose: a copy does not discount the original.
- `HeapImplementsStore`: every step of the heap is a step of `HeapStore` or leaves
  it alone. The mapping is the one that TLC checks. `Values` numbers the
  call that is writing; each action changes no value (`StoreUnseen`), or it is the
  step of the call: `StoreBegins`, `StoreCreated`, `StoreNotCreated` (with no segment
  free), `StoreUpdated`, `StoreRemoved`; or it records a hazard.
  A copy by a cleaner changes no value because by `Ordered` what it copies is what
  the hash table points to.

### One cleaner thread

`OneCleanerProofs` assumes `OneCleaner`: one thread and at least one emergency
segment, the case in which the thesis's argument for emergency segments holds. It
proves that then none of the races of the findings occurs (`OneReleases`,
`OneListsIntact`) and that the thread never waits in vain (`OneNeverStuck`,
`thesis.tex:345-349`). The invariant is `Going`: while a segment is walked, there is
an emergency segment or no more was copied than walked over, so a full cleaner
segment can be exchanged at least once; what it took is given back when the
segment has been walked. The runs `no_emergency_left`, `stale_cursor` and
`refill_race` show that each of the three is false for two threads.

`OneRacesNeedTwo` goes on from there: if no object that is freed was ever changed
(`KeptOrFreed`; `update_then_free` shows that this is needed), the first thing that goes
wrong is an update that finds no memory, or a walk that passes the end of what is
written. Data may have any lengths. Up to then a walk visits entries only
(`Rows`), and `Ordered` gives each unmarked one a version in the hash table, so that
nothing is dereferenced that is not there (`VisitSafe`). The entry at hand while the
thread exchanges its segment stays current, since it keeps `update_move_mutex`
(`Held`, `ResumeSafe`). The second case does occur, as `one_cleaner` has it: a
segment was retired without a terminator (`cleaner.c:121`).

TLC checked `CInv`, `VInv`, `Exacts`, `Values` and `OneInv` on `two_cleaners` and
`one_cleaner` before they were proved; they are not in the runs because
what they add to the listed properties serves the proofs only.

### Crashes and starts

`RestartProofs` carries this over crashes and starts, for every number of both. It
has three steps: the lists, the hash table, the client's view.

**The lists.** `RInv` has `RestartTypeOK`; `ListsSound`; `AcceptedPartition`; `ThreadsSound`, which
is `IInv` without types and lists, at all times and not only while the heap is
accepted; and what holds without a process (`AtRest`), on a rejected heap
(`OnlyFrees`) and for a thread that resumes (`HaveSegment`). The one crash that
spoils the lists is that within the change of the head: the old head is in the
used list and `head_segment` still names it, or the new one is named and still in
the free list. `Sealed` describes both, and `SealedRejected` is the heart of the
proof: with the head in a list and every other segment in one place the
lengths add up to more than `NSeg`, so `check_consistency` rejects the heap. It
counts with the library's theorems on cardinality. `AcceptedAreOwned` needs that
`init_cleaner` leaves no cleaner segment without a thread: the threads of the last run
had a segment each, and there are as many threads now (`EnoughThreads`), and the i-th
segment of the list goes to the i-th thread (`DealtOnce`). A thread that is created
later gets the same segment or the behaviour ends in `misdealt` (`CreateInv`). While the
heap is accepted, `RInv` gives `LogHeap`'s `IInv`, and its steps are covered by
`LogHeapProofs`. It has the same limits as the model: list moves other than the
change of the head are one step there; a crash within them is `SegmentLists`'. `RestartAssumption` is used besides `LogHeap`'s.

**The hash table.** `RestartRecovers` proves `Recovered` under `KeptOrFreed`: no object
that is freed was ever changed. Without it the property is false, as the code is:
`pfree` marks the newest version only, and a rebuilt table takes an older one
(`log_pmem.c:249`). The run's client satisfies it.

A crash loses the table, so the invariant has to say that the log determines it.
`Fits(h)` says so of a table `h`: it points to unmarked entries of the right objects,
`used_space` counts at least these, each unmarked entry is the one that `h` points to
or an older one of the same object, and ids that were not given out yet are free.
`Outcome` is the table that the call in progress is making: with the entry that is
written but not yet published, without the object that is being freed.

- `FitsAccepted`: on an accepted heap `Outcome` fits the log, except in the two states
  that are faults (`crashedUpdate`, `halfCleaned`). This is where `VInv` is
  used, and `Outranks` (the entry of an update is newer than all others of its object)
  and `Stamped` (an object that is never changed has only version 1).
- `CrashFits`: it still does after the crash, also if that came within the writing of
  an entry or within `pfree`.
- `RebuiltFits`: what `reconstruct_hash_table` builds is then this table. A walk
  over a row meets each of its entries (`WalkMeetsRow`), and among the unmarked
  entries of an object there is a newest, which is the one of `h`, since there is no
  other of its version. If the table is loaded instead, the file has it (`Filed`).
- `StartAccepted`: with this table the invariant of `LogHeap` holds again.

`used_space` is the one thing that does not come back exactly: a crash may come
after an entry was counted and before `head_position` was advanced, or before a late
reset. Nothing repairs it, and it adds up. Therefore `HashSoundProofs` proves its
invariant with a slack `x`, and each crash adds two segments to it (`Extra`);
`RestartAssumption` says that the counter is wide enough for as many crashes as there
may be. The code's `size_t` is, for any number a machine can survive.
`Accounting`, which is exact, holds for a first run only.

The inductive invariant is `GInv` (`RestartKeepsHeap`). Besides `RInv` and what the
phases say about calls and threads (`LifeSound`), it is, as long as no hazard and no fault has
occurred: `Memory` (what is written is intact), `Accepted` (the invariant of `LogHeap`
with slack), `Unattended` (what holds of `used_space` and the head without it),
`Rejected` (on a rejected heap, which is freed from, `Outcome` fits the log) and
`Down` (without a process there is a table that fits the log, `Findable`).

**The client's view.** `RestartKeepsStore` proves `SurvivesRestart`, also under
`KeptOrFreed`: the system refines `HeapStore` over restarts. While the heap is accepted the
steps are those of `HeapImplementsStore` (`StoreLives`). A crash is the end of a creating
call, which has made its object or not (`DurableCreated`, `DurableNotCreated`), a removal
if it comes within `pfree` (`DurableRemoved`), or nothing that the client sees
(`DurableUnseen`, `DurableCrash`); an interrupted update has taken effect or is the fault
`crashedUpdate`. A start is a stutter, because it finds
the table of `Findable`, and with it the values of `kept`. `Numbered` says that every
entry has a value, so that what `pfree` removes was there.

**What the proofs found.** Three of the model's statements were wrong, and TLC's
instances were too small to show it. The crash between sealing the head and storing the
new one was taken to be harmless: but a cleaner may give the sealed head
back in between, and the entries of a segment that is free, or
used for something else, are read after the start (`displaced`). A start was taken to read only what was
written: but it walks past the end of a segment without a
terminator (`RebuildHazards`). And `used_space` was taken to fit its width whatever the
number of crashes.

### The layout of the file

`SegmentLayout` proves by arithmetic that the segments of `init_log` fit in the file
(`SegmentsFit`), that a fresh heap is accepted except for files whose size is
more than one and less than two headers beyond whole pages (`FreshHeapAccepted`), and that
the cleaners' threshold can be reached (`ThresholdReached`).

### The segment lists

`SegmentListsProofs` proves `NoDeadlock` for every number of cleaner threads: no set
of threads in which each waits for a mutex of another one (`WaitsFor`). `LockInv` says
which mutexes a thread may own at each step of its move; a thread that waits for a
second mutex owns the cleaner list's or the used list's, and the order cleaner,
used, free or emergency (`LockOrder`) leaves somebody who can go on. `NoDeadlock` is in no
run: each pair of mutexes is taken by one kind of move only, so that two threads could
not form a circle in any order, and three with crashes are too many states. TLC finds
none with three threads and no crash, and one at once if a segment is taken before the
list it goes to is locked. `LockInv` is exact: a mutex is owned if and only if some
thread is where it owns it.

The other properties of `SegmentLists`, `NeverLost`, `SettledWhole`,
`AcceptedWhole` and the types, are proved for every number of segments,
emergency segments, cleaner threads and crashes. They speak of walks along chains
of any length, and one store can change all walks; an invariant about walks would need
induction over their length at each store. `Whole(M, r, e)` therefore says, without
walks, that for each list `l` there are a set `M[l]` of segments, an order `r[l]`
of them and a last one `e[l]`, and

- `Lines`: the successor of each but the last is the next one in that order;
- `Lasts`, `Clean`: `last[l]` is `e[l]`, and `e[l]` has no successor, unless a
  thread is between the two stores that make it so (`LastsOff`, `Tails`);
- `Cover`, `Apart`, `HeadApart`: each segment is in some list or the head; it
  is in two lists only while a thread moves it, and the head is in one only while it
  is sealed or taken;
- `Moving`: what each thread's move has done so far; `Owns`, `Claims`: whose segments
  are where; `Counts`: the emergency count is off by the moves that have yet to
  change it.

The parts need each other: which store a thread may make is known from `Moving`, that
it changes no other list's chain from `Apart` and `Clean`, and that no other
thread is at changing this one from `LockInv`, except for a late reclaim, which
writes to an emergency segment without a mutex; most of the cases are about it. A step
appends to `M[l]` with a higher number (`AppendLists`), removes from it
(`RemoveLists`) or leaves `M`, `r` and `e` as they are, the crash included. TLC checked
`Whole` with `M`, `r` and `e` as variables, for two and for three cleaner
threads, before it was proved. Walks come in afterwards: a walk visits `M[l]` (`Walk`, by a least
number argument) and nothing else if `e[l]` has no successor (`Exactly`).

For a crash the argument is by counting (`Adds`): the walks from the header reach
every segment, so if their lengths add up to `NSeg` none meets a segment twice. Then
no segment was being moved, and no last one had a successor (`ListsAlone`,
`NobodyMoves`).

This is also where the model was found wrong. The hazards `relinked` and `truncated`
did not cover what a third cleaner thread, or a second emergency segment, can
do: a cut that makes the last segment of a list one that has kept a successor, and a late reset
of a segment whose successor is just being linked. With them the invariant is
inductive, and TLC finds nothing with three threads.

### What is left to TLC

Only model-checked: the liveness properties `CallsReturn`, `DeadReclaimed` and
`CloseReturns`: liveness under fairness is out of the prover's reach. `NeverStuck` holds for one thread only, and is proved
for that. Every other property of a passing run is stated by a theorem, some under a
hypothesis about the client that the run's client satisfies.

## Findings

1. `cleaner.c:119` dereferences NULL for an old version of an object that was
   updated and freed (`update_then_free`).
2. `log_pmem.c:301`: a failed update leaves `used_space` too low; the current
   version's segment is given away (`failed_update`). A second failure makes it wrap.
3. `cleaner.c:358` returns with `used_segs_mutex` locked (`stale_cursor`).
4. `cleaner.c:123` waits for a segment with `update_move_mutex` locked; with two
   threads and one emergency segment nobody can free one (`no_emergency_left`). The
   thread cannot be cancelled either (`cleaner.c:102`), so `pthread_join`
   (`cleaner.c:34`) and with it `delete_pmem` hang, although a thread that is told to end is
   said to clean its segment to the end and terminate (`src/document/thesis.tex:377`).
5. `cleaner.c:247`, with 283 and 397: an emergency segment taken before
   its `next_segment` is reset joins the emergency list to the used list (`refill_race`).

6. `hash_table.c:92` does not assign the next cleaner segment in its loop: after a
   crash while a cleaner has a segment, which is nearly always,
   `init_pmem` never returns (`recovery_hangs`).
7. `cleaner.c:71` looks for the end of a cleaner segment by its `used_space` plus the
   marked entries, but an update lowers `used_space` without marking; one
   that comes before the thread has resumed makes it copy over a live entry
   (`resume_overwrites`).

Seen while modelling, without a run of their own:

- `log.c:138`, `cleaner.c:191` and 229 test a list outside its mutex; the last segment
  may be gone when it is locked (hazard `nullDeref` of `SegmentLists`).
- A crash between emptying a list and clearing its last offset, or between a
  move to or from the emergency list and its count, is accepted by `check_consistency`
  (hazard `staleTail`). `AcceptedWhole` is what remains true.
- `log.c:179` subtracts the header twice. `init_log` does not: for files that
  `Disputed` describes a fresh heap is inconsistent from the start.
- `palloc_with_id` of a freed id starts again at version 1, and an older entry of the
  id that is still in the log becomes current when it is cleaned (`log_pmem.c:222`,
  `cleaner.c:119`; see `NoRebirth` above).
- `pfree` writes to a heap that is not consistent; the other calls refuse
  (`log_pmem.c:168`, `src/document/thesis.tex:409-415`).
- The faults of `Restart`, each at its line in the table above.
- `cleaner.c:121` retires a segment without a terminator behind its last entry, which
  `append_to_log` writes (`log.c:95-100`). Where another header fits, the next walk
  goes on into what an earlier life of the segment left there (hazard `staleTail`; TLC
  reaches it in `one_cleaner`). `EndsStayClosed` says that nothing else leaves such an end.
- A rebuilding start walks past such an end as well
  (`hash_table.c:41`), and may take an entry of the segment's earlier life into the hash
  table.
- `cleaner.c:11` walks the cleaner list again for each new thread, without a mutex and
  while the earlier threads change it: two threads may get the same segment, or a segment
  none (hazard `misdealt`; TLC reaches it in `shutdown`).

## Not modelled, and the plan

In this order:

1. `LogHeap`'s sequences as the abstract specification of `SegmentLists`, by a
   mapping that takes a move as done at the store that makes it visible.
2. `HashAccess`: who accesses the two GHashTables under which lock.
3. `Restart` with a second start, for the harm that `staleFile` and `trustedFile` do,
   with `palloc_with_id` of a freed id, and with crashes while two cleaner threads run
   (`shutdown` has two, and no crash).
4. A run for the late reset of `used_space` (`cleaner.c:401`).

Left out for good: the benchmark (vendored YCSB with an adapter that calls the
client interface), the demonstration and test programs, which were read as
clients, the functions nobody calls (`cleaner.c:412-552`), the opening and
closing of files with its error returns, and what a client does with a pointer from
`get_address` (the thesis warns of it at line 292).
