# UniCCL in TLA+

UniCCL is a C library that gives one `unicc_*` API over four vendor collective
libraries (NVIDIA NCCL, AMD RCCL, Intel oneCCL, ECCL).  It opens the vendor's
library with `dlopen`, finds out which family it is, binds the family's
functions into one process-wide dispatch table, and forwards calls through it.
This directory models that machinery, its use by several threads, and the
multi-process test that bootstraps a communicator; checks the models with TLC on
small instances; and proves their safety and their refinements with TLAPS for
every value of the constants.

## 1. Inventory

| Component | Source | State | Operations |
|---|---|---|---|
| API: lifecycle and calls | `src/unicc_api.c` | `g_state`, `g_handle`, `g_last_backend_result`, `g_lib_path` | `unicc_init`, `unicc_finalize`, `unicc_diagnose`, ten forwarding calls, queries, `*_available` gates |
| Loader | `src/unicc_loader.c`, `unicc_backends.h` | the constant table `unicc_backends[]`; the locals of one load | selection from the environment, `dlopen` with fallbacks, identification, platform check, diagnosis |
| Dispatch table and binder | `src/unicc_vtable.c`, `src/backends/*.c`, `unicc_native_id.h` | `unicc` (ten slots), the `s_*` statics behind the adapters, `g_backend_type`, `g_backend_handle` | `unicc_vtable_init`, `unicc_vtable_bind`, `unicc_vtable_cleanup` |
| Type mapping | `unicc_dtmap.h` | none | two bounds-checked lookups |
| Error codes | `unicc_errors.h`, `src/unicc_error.c` | none | constant texts |
| Platform shims | `src/unicc_platform_*.c` | the dynamic linker's reference counts and its error text | `dlopen`, `dlsym`, `dlclose`, `dlerror` |
| Thread use | `src/unicc_api.c`, `docs/API.md` | the same globals, unlocked | concurrent calls, a serialized lifecycle |
| Bootstrap of the integration test | `tests/integration/test_integration.c`, `tests/run_integration.sh` | a file shared by the ranks, the ranks, the script's `rc` | publish by rename, poll with a bound, join, reduce, wait |
| Device-memory helper | `tests/integration/devmem.c` | the function pointers in `unicc_devmem_t` | the search for a CUDA or HIP runtime |
| Fixtures, build files, example | `tests/fake_backends/`, `cmake/`, `examples/` | none of the library's | |

How they interact.  `unicc_init` asks the loader for a name (`UNICC_LIBRARY`,
then `UNICC_BACKEND`, then NCCL's default), opens it, and hands the handle to
`unicc_vtable_init`, which identifies the family, has the binder resolve the
family's symbols, and publishes type and handle last.  Every later call checks
`g_state`, then its slot, then the arguments, calls through the slot and maps
the native result.  `unicc_finalize` clears the table and closes the library.
In the integration test each rank is a process that does all this; rank 0's
bootstrap id travels to the others through a file.

What is hard here:

* **Partial failure.**  The binder overwrites the statics before it has
  validated the core symbols, and the adapters read those statics at each call.
* **Stale state.**  Statics, the last error, the reported path, the error text
  of a failed load, and the application's bootstrap id all outlive a backend or a
  call unless something clears, copies or guards them.
* **Hybrid and incomplete libraries.**  One file can export several families'
  names, or a probe symbol without the rest.
* **Families that differ in their C signatures** (buffers of a broadcast, width
  of `nranks`, 128- or 4096-byte ids passed by value).
* **Reference counts** over every early return of init, diagnosis and the
  searches that try one name after another.
* **Threads.**  The state is global and unlocked; a call that is inside a native
  function depends on a library that another thread could close.
* **Processes.**  Ranks fail, die or are slow at any point, while their peers
  poll a file or block in a native call and a script waits for all.

`PROJECT.json` lists each hazard at its line with the properties that guard it.

## 2. Modules

| Module | Models |
|---|---|
| `UniccBackends` | result codes, the backend table, selection, `dlopen` with fallbacks, identification, platform check: constants and pure operators |
| `UniccVtable` | the table, the statics, the binder, `unicc_vtable_init`, `unicc_vtable_cleanup`, reference counts |
| `UniccVtableClient` | a direct client of loader and table (`tests/test_vtable.c`): open, init, cleanup, close, in any order, over a live table too |
| `UniccApi` | `unicc_api.c` and diagnosis, on top of `UniccVtable`; each call is one step |
| `UniccService` | what the API promises its callers: the abstract specification that `UniccApi` implements |
| `UniccThreads` | `UniccApi` under several threads: a call enters its native function in one step and returns in another |
| `UniccLoader` | `unicc_loader_load` one `dlopen` at a time, with the text of `dlerror` |
| `UniccBootstrap` | the ranks of `test_integration.c`, the shared file, `run_integration.sh` |
| `UniccRendezvous` | what that test is for: the abstract specification that `UniccBootstrap` implements |
| `UniccDevmem` | the search of `devmem.c` |
| `Unicc*Proofs` | the theorems (section 5) |
| `MC*` | the library files, hosts, environments and ids of the TLC runs; `UniccBootstrap` and `UniccDevmem` need none |

`UniccBackends` is at the bottom; `UniccVtable` extends it, `UniccVtableClient`
and `UniccApi` extend that, `UniccThreads` extends `UniccApi`, and `UniccLoader`
extends `UniccBackends`.  `UniccApi` instantiates `UniccService`
and `UniccBootstrap` instantiates `UniccRendezvous`.
`UniccBootstrap` and `UniccDevmem` stand alone: of the API they need only that
`unicc_comm_init_rank` refuses an id of the wrong length, which `IdNeverMisread`
establishes in `UniccApi`.

### The library: `UniccVtable`, `UniccApi`

* A **library** is the set of `<<family, suffix>>` symbols that `dlsym` finds
  through its handle, those of its dependencies included.
* A **slot** is `NULL` or `[through, fn]`.  A direct slot holds the address
  copied at bind time (`fn`).  An adapter slot holds the adapter; its `fn` is
  `NULL` and a call ends in whatever the static `s[through]` holds at that
  moment (`Target`).  This is the distinction that makes stale statics matter.
* `StaticSignature` is the C type a static is cast to; `NativeSignature`, marked
  external, is what the vendor compiled, as the fixtures of
  `tests/fake_backends` declare it.
* `refs[l]` is the dynamic linker's count for library `l`.
* `id` is the application's `unicc_comm_id_t`: its length, and which family made
  its bytes.
* `opened`, `lastFailure`, `call` are history variables, read by properties only,
  and so is the direct client's `rebound`: an init was called on a live table since
  the last cleanup.

Each way out of `unicc_init` is an action (`_already`, `_path_too_long`,
`_load_fails`, `_vtable_fails`, `_succeeds`); `unicc_finalize`,
`unicc_diagnose` and the ten calls are one action each.  A call is refused in
the code's order (not initialised, slot empty, bad argument), or it runs the
function its slot ends in, which returns any member of `BackendResults`.
`unicc_comm_init_rank` has a third outcome: the adapter refuses an id of the
wrong length.  Environment and host are inputs of each action, since both can
change between two calls; they are read once in one call.

The macOS fallback reads `loaded` after the block of `dylib[160]` has ended;
the reported name is then a nondeterministic choice between the spelling and
`Indeterminate`.  `DylibOf` is the spelling as `snprintf` leaves it, cut at 160
bytes if need be.

### The promise: `UniccService`

Three variables: the live backend or `NULL`, the last error, and the last
finished call.  No handle, table, static or adapter occurs in it.  The
refinement mapping is `live` = `[lib |-> g_handle, fam |-> g_backend_type]`
while initialised, `last` = `g_last_backend_result`, `done` = `call` without its
id.

### Threads: `UniccThreads`

`pending[t]` is the native call that thread `t` is in.  `Enter` passes the gates,
`Return` maps and keeps the result.  `docs/API.md` asks callers to serialize the
lifecycle and to keep collectives from racing `unicc_finalize`; that is an
assumption on the environment (`Quiescent`, marked external).  A second
`unicc_init` and `unicc_diagnose` run beside calls.  `owed[t]` remembers the
failure that `t` was told about.  The unlocked store to `g_last_backend_result`
is a data race in C; it is modelled as the atomic store of an `int` that every
supported build makes of it.

### The loader's chain: `UniccLoader`

One step per name tried.  `primary_err` is a pointer: it leads to the text it
was captured with, or that text is gone and what is read is nondeterministic
(the newer text, the old one, or anything).  POSIX leaves room for each of these
after a later `dlopen`; on Windows the shim formats the text only when asked.

### Processes: `UniccBootstrap`

A rank is a process with a program counter; its labels are named for the call it
makes next.  The shared file only ever holds a prefix of rank 0's id, so a file
is its length.  `mktemp` has created it empty.  `FAULTS` says what may go wrong: a
failing init, write, flush, rename, device or native call, a killed rank, an
interrupted script, a rank 0 that is slower than all the polls.  A native call
returns once all ranks have made it.  The copy back from the device, whose own
result the test ignores, waits for the reduction; without it the sum does not
match, so a failed copy ends in status 2.  `happened`, a history variable, is the set
of faults that have happened; a rank that gives up while rank 0 is still on its way
to the rename counts as `"slow"`.

### What the ranks are for: `UniccRendezvous`

No file, no poll, no order in which the script waits: rank 0 mints an id, ranks join
once there is one, contribute once all have joined, and succeed once all have
contributed; any rank may fail at any time, and the verdict falls when none runs any
more.  Under the refinement mapping, `minted` is that rank 0 holds the whole id,
`out` is how each rank has ended, `verdict` is `status`, and `joined` and
`contributed` are themselves.

### Device memory: `UniccDevmem`

One step is one turn of `load_runtime`'s loop: the name is absent, or the library
is complete, or it is incomplete and is closed.  The pointers of an incomplete
candidate stay in `api`, which the caller has not initialised.

## 3. Properties

| Property | What it says |
|---|---|
| `LifecycleCoherent` | `g_state`, `g_handle`, `g_backend_handle`, `g_backend_type` and the table agree; a live backend has its whole core |
| `DispatchSafe` | every filled slot ends in the live library's own function for that slot, of the identified family, mapped, called with the right signature |
| `RefsBalanced` | one reference for the live library and none for any other, on every path |
| `DispatchStable` | while a backend stays live no call changes what calls are dispatched to |
| `GatesTruthful` | the `*_available` gates are exactly the live library's exports |
| `NeverMisidentifiedAsNccl` | a library with another family's probe symbol is not driven as NCCL |
| `LastErrorExact` | `unicc_get_last_error` is the last native failure of this lifecycle, never a stale value or a wrapper code |
| `ResultsHonest` | the unified code tells whether the backend ran, and how it ended |
| `IdNeverMisread`, `IdRoundTrip` | ids of 128 and 4096 bytes are never read for each other; a fresh id is always accepted by its own family |
| `LibraryPathIsLoaded` | the reported path is the name `dlopen` accepted, and empty while nothing is live |
| `ImplementsService` | `UniccApi` implements `UniccService`: an operation runs the live library's own function, or fails with the code that says why |
| `NeverMixedFamily`, `BoundSlotsSound`, `FailedInitLeavesZeros` | the table seen by a direct client: sound slots even when rebinding; while it has not rebound, one family at a time and nothing left of a failed init |
| `NoCallOutlivesItsLibrary` | a thread inside a native function is inside the live, mapped library, in the function its slot still leads to |
| `CallsAreAtomic` | interleaved calls are a behaviour of `UniccApi` (a refinement with the identity mapping), so all of its properties hold of threads as well |
| `FailureNotForgotten` | a failure a thread was told about may be replaced by another thread's but is never lost while the backend lives |
| `LoadsAsOneStep` | the chain of `dlopen` calls opens one handle at most, and comes to the atomic `unicc_loader_load` of `UniccBackends` |
| `PrimaryReported` | a failed load reports why the requested name failed (violated on Linux, proved for Windows) |
| `MisledOnlyByFallback` | it reports anything else only on POSIX, and only where there is a fallback name to try |
| `WholeIdOnly` | only ranks with the whole id enter the native `CommInitRank`, also when the file was published short |
| `NeverPartial`, `PartialOnlyUnflushed` | no rank can observe a partial file (violated when `fclose` cannot flush); so it is until that happens, whatever else fails |
| `FailureHasCause` | no rank fails before the first fault: neither the empty file that `mktemp` left nor the order of the ranks makes one give up |
| `VerdictHonest` | the script passes only if every rank checked a sum that all contributed to; it fails only if some rank failed |
| `KeptWhilePolled` | the shared file is removed under a running rank only by an interrupt |
| `NoCircularWait` | while a rank is blocked in a native call, some rank can still run on its own, or one has failed |
| `EveryStepAdvances` | every step uses up one of finitely many steps of a rank or of the script: nothing is undone, no loop turns for ever |
| `ImplementsRendezvous` | `UniccBootstrap` implements `UniccRendezvous` |
| `PollEnds` | no rank polls for ever, whatever became of rank 0 |
| `NoDeadlockOfItsOwn` | ranks wait for each other for ever only if some rank failed |
| `PassesWithoutFaults` | if no fault ever happens, the integration test ends and passes |
| `OneOpenRuntime`, `FailsOnlyWithoutRuntime`, `CudaPreferred` | the device runtime: all pointers from one library, the only one left open; no complete library is missed; HIP only where CUDA is not to be had |

Each module has one type invariant besides.

## 4. Runs

| Run | Instance | Result |
|---|---|---|
| `api_libraries` | 8 library files (complete, incomplete, hybrid, foreign) selected by path, a path too long, nothing set | passes |
| `api_calls` | 3 families by `UNICC_BACKEND`, a misspelt name, nothing; found under development names, under fallback sonames, or not at all; native results 0, 1, 2; peer ids of 128, 4096 and 64 bytes; the refinement of `UniccService` | passes |
| `vtable_client` | 5 library files, a hybrid among them, each opened up to twice; any order of opens, inits, cleanups and closes | passes |
| `threads` | 3 threads, 3 operations, a complete library, one that cannot mint ids, one that cannot be bound; the refinement of `UniccApi` | passes |
| `loader_macos` | every subset of the names tried for NCCL and oneCCL is present; macOS, the longest chain | passes |
| `bootstrap_faults` | 3 ranks and the script, all faults: safety, the variant, liveness, and the refinement of `UniccRendezvous` | passes |
| `devmem` | 2 libraries with any exports under 2 CUDA and 2 HIP names | passes |
| `api_identify_order`, `api_error_mapping`, `api_macos_path`, `bootstrap_flush`, `loader_error_text` | one documented claim each | violated: section 6 |

**Deadlock** is checked in the runs of the API, the table and the threads, where
a call is always possible.  The loader's call and the search for a runtime
return, and the ranks exit; there the check is off, and for the ranks
`NoDeadlockOfItsOwn` says when they may be stuck.

**Bounds.**  The state of `UniccApi` is finite for finite constants, so those
runs need no cap: the process may go through any number of lifecycles.
`MAX_REFS` bounds how often the direct client opens one library; two are enough
to separate "still open" from "open for someone else too".  The library files
cover each class that the code tells apart: complete per family, one missing
optional symbol, one missing core symbol, half a bootstrap, two whole families
in one file, a whole family with another family's probe symbol, no symbol.  Two
different non-zero results distinguish a kept error from the previous one; the
threads, which ask only whether an error is kept, use one.
Integer arguments lie on both sides of every limit that the code tests.
Three threads let two calls overlap while a third thread runs the lifecycle.
Three ranks are rank 0, a rank that fails and a rank that waits for both;
`MAX_TRIES` 2 gives a poll that goes on and a poll that gives up; `UidBytes` 2 gives
an empty, a partial and a whole file.
Two device functions and two libraries give complete, half and foreign ones
on both sides of the step from CUDA to HIP.  The theorems lift the bounds.

**Fairness.**  Only `UniccBootstrap` waits, and only it has liveness.  `Fairness`
is weak fairness of each rank's own steps that bring no fault (`WithoutFault`) and
of the script's wait and verdict: the operating system runs every process that can
run, and a native call returns once every rank has made it.  No fault, no crash and
no interrupt is fair, so none has to happen.  A poll counts its tries and sleeps
10 ms between two of them, so rank 0's being in time is not a matter of fairness but
of speed: using up the last try while rank 0 is still on its way (`StillToCome`)
is the fault `"slow"`.

Each property of a passing run has a mutant of the code (in the modules as
`Mut...`) under which TLC finds it violated.

## 5. Proofs

Eight modules hold theorems; nothing in them is bounded.

| Module | Proves | Under a hypothesis |
|---|---|---|
| `UniccVtableProofs` | lemmas about identification, rows, binding, `unicc_vtable_init` | |
| `UniccApiProofs` | types, `LifecycleCoherent`, `DispatchSafe`, `RefsBalanced`, `GatesTruthful`, `NeverMisidentifiedAsNccl`, `IdRoundTrip`, `IdNeverMisread`, `DispatchStable` | `LastErrorExact`, `ResultsHonest` (native results are not negative); `LibraryPathIsLoaded` (not macOS) |
| `UniccServiceProofs` | `ImplementsService` | |
| `UniccVtableClientProofs` | types, `BoundSlotsSound`, `NeverMixedFamily`, `FailedInitLeavesZeros`, on any platform | |
| `UniccThreadsProofs` | types, `NoCallOutlivesItsLibrary`, `CallsAreAtomic`, and for threads `ImplementsService`, `LifecycleCoherent`, `DispatchSafe`, `RefsBalanced`, `GatesTruthful`, `IdRoundTrip`, `IdNeverMisread` | `FailureNotForgotten` (native results are not negative) |
| `UniccLoaderProofs` | types, `LoadsAsOneStep`, `MisledOnlyByFallback` | `PrimaryReported` (Windows) |
| `UniccBootstrapProofs` | types, `WholeIdOnly`, `VerdictHonest`, `KeptWhilePolled`, `PartialOnlyUnflushed`, `FailureHasCause`, `NoCircularWait`, `EveryStepAdvances`, `ImplementsRendezvous` | |
| `UniccDevmemProofs` | types, `OneOpenRuntime`, `FailsOnlyWithoutRuntime`, `CudaPreferred` | |

The hypotheses are needed: the runs `api_error_mapping` (a negative result is not
kept at all), `api_macos_path` and `loader_error_text` show what happens without
them.

*Assumptions.*  `NullAssumption`, `SlotAssumption`, `PendingAssumption`,
`PointerAssumption` and parts of `ApiAssumption` and `DevmemAssumption` (`NULL` is
no library, name, address, slot, argument or pending call); the rest are the
types of the constants.  TLC evaluates all of them in each run.  Nothing is
assumed about which symbols a library exports, or which hosts and environments
there are.

*The API.*  `DispatchSafe` is not inductive, since it does not say through which
static a slot goes and so does not survive reasoning about the adapters; nor is
`TypeOK`, since a decrement of `refs` keeps it natural only if the count is
balanced.  The inductive invariant is

    IInv == TypeOK /\ Agreement /\ TableExact /\ RefsBalanced /\ IdExact

* `Agreement`: the five places that say whether a backend is live agree, and
  a live backend is the family its library identifies as;
* `TableExact`: each slot of a live table is exactly `Install` of the static its
  family routes it through, that static is what `dlsym` returns now, and the
  library resolves the family's whole core;
* `RefsBalanced`, as above;
* `IdExact`: an id made by a family has that family's length.

`Inductive` has one step per action, and the properties follow from `IInv`.  The
calls touch only `call`, `id` and the last error, so one lemma carries the rest of
`IInv` over all ten of them.

*The refinements.*  `Implements_Service` maps initial states to initial states and each
step to a step of `UniccService`; it takes from `IInv` that a filled slot runs the
live library's own function and that an empty one means that the library lacks
it.  `Calls_Are_Atomic` maps `Return` and `Refuse` to the call's one step in
`UniccApi` and `Enter` to a stutter.  The whole of `UniccApi`'s `IInv` then holds of
the threads; the invariant of `UniccThreads` adds `PendingOK`, that a pending call
went through a slot that is still installed, which only quiescence at
lifecycle calls keeps.  With `Calls_Are_Atomic`, the theorems about `UniccApi` carry
over: `Threads_Implement_Service` composes the two refinements, and
`Threads_Inherit_Safety` states the API's safety of the threads.
`Implements_Rendezvous` is the fourth refinement, below.

*The direct client.*  `TableExact` fails once a client binds over a live table, so
`UniccVtableClientProofs` keeps less: what is published is open and of a known
family (`Published`), and the slots that this family binds hold its own functions
(`BoundExact`).  A second invariant says that every filled slot is of that family until
the client has bound over a live table.

*Loader and runtime search.*  The invariants say what has been tried by the time a
step is reached and that nothing is open until something succeeds (`Tried`,
`SearchInv`), and that the captured pointer leads to the requested name's own text
unless, on POSIX, there was a fallback name to try since (`Captured`).

*Bootstrap.*  `RankInv` (what a rank at each label has done: tries are left while it
polls, it holds the whole id once joined, all have contributed once it is past
the reduction), `ScriptInv` (what the script knows of the ranks it has waited for)
and `FileInv` (when the files are there) are inductive together.  Steps of one rank
leave the others' parts alone, so one lemma per part serves all ranks' actions.
Two more invariants rest on these: `WholeInv` (until a flush fails, what is renamed is
whole) and, on top of it, `CauseInv`: until the first fault every rank past its poll
holds the whole id, no rank has failed, and once rank 0 is past the rename the shared
file is whole or gone.  It is gone only after all ranks have ended (`FileInv`,
`ScriptInv`), so a rank that still polls finds the id or rank 0 still to come.

For the waits, `MeetInv` adds to `IInv` that the two meetings happen in order
(`JoinInv`: a rank in `CommInitRank` or beyond has joined, one beyond it has seen all
join, one in `dev_memcpy` has contributed, and none contributes before all have
joined) and that no file and no rank holds an id before rank 0 does (`MintInv`).
`NoCircularWait` follows: a blocked rank waits for one that has not come to this
meeting, which is blocked at neither and cannot have succeeded.

`EveryStepAdvances` is the variant.  `Left(r)` counts down along a rank's labels and
its tries, `ScriptLeft` along the script's waits; each action lowers one of them and
raises none.  So the two facts that liveness rests on are proved for any number of
ranks: the test comes to rest, and at rest no ranks wait only for each other.  The
temporal step from these and `Fairness` to `PollEnds` and `NoDeadlockOfItsOwn` is the
part left to TLC.

`Implements_Rendezvous` maps the minting of the id, the call of
`unicc_comm_init_rank`, the reduction, the last step of a rank and the verdict to the
actions of the same meaning, every failure and crash to `Fail`, and the file, the
polls and the waits to stutters.  `Succeed`'s guard comes from `RankInv`, those of `Join` and `Contribute` from
`MeetInv`, and `Judge`'s from `ScriptInv`.

*Only model-checked:* the liveness of `UniccBootstrap` (`PollEnds`,
`NoDeadlockOfItsOwn`, `PassesWithoutFaults`), which is out of the prover's reach, as are
`ENABLED`, induction over data and `RECURSIVE` operators; the modules use none of
the last two.  All violations are TLC's.

## 6. Findings

1. `docs/BACKENDS.md` lists the probes as rccl, oneccl, eccl, nccl; the loader
   probes eccl first.  A file with rccl and eccl symbols becomes ECCL
   (`api_identify_order`).
2. `docs/BACKENDS.md` maps *any* non-zero native result to
   `UNICC_ERR_UNHANDLED_BACKEND`; a negative one is passed through and not kept
   (`api_error_mapping`).
3. On macOS the reported library name is read from a buffer out of scope
   (`api_macos_path`).
4. `test_integration.c` renames the id file into place without checking `fclose`,
   so a partial file can be observed, which a comment rules out
   (`bootstrap_flush`).  `WholeIdOnly` shows that the length check contains it: the
   rank that read it fails, it does not join with half an id.
5. The loader captures the primary failure as a pointer into `dlerror`'s buffer, which
   the fallback's failure may overwrite before it is printed, where a comment says
   that the capture prevents this (`loader_error_text`).

Observations that the properties of passing runs are worded around:

* Binding ECCL over a live NCCL table leaves NCCL's `comm_user_rank` in place,
  where the comment at `src/backends/unicc_bind.c:211` says that the slot stays
  `NULL`; and a failed `unicc_vtable_init` over a live table does not restore
  all-zeros, where the comment at `src/unicc_vtable.c:42` says that it does.  Hence
  `~rebound` in `NeverMixedFamily` and `FailedInitLeavesZeros`.  `unicc_init` never
  binds over a live table: `DispatchSafe` and `LifecycleCoherent` hold of the API.
* After `UNICC_ERR_UNHANDLED_BACKEND`, `docs/API.md` sends a thread to
  `unicc_get_last_error`, which may give another thread's result, for there is one
  `g_last_backend_result`.  Hence `FailureNotForgotten` asks for no more than that
  some failure is still there.

## 7. Not modelled

* Texts: `unicc_error_string`, advice, what diagnosis and
  `unicc_print_backend_info` print, `unicc_get_version`.
* Build and packaging files and the straight-line examples: no logic of the library.
* What a backend or a fixture computes, and communicator handles, which the API never
  inspects.  A handle of an earlier lifecycle therefore reaches the new backend as it is;
  no document promises otherwise.
* Calls that break the discipline of `docs/API.md`: data races without a defined
  outcome.
* Bad command lines and world sizes of the integration test, which end before any
  state exists.

## 8. Plan

The components with logic of their own are modelled, and what can be proved of
their safety is.  What could be added:

1. `UniccBootstrap` on top of `UniccApi`, one instance per rank, so that
   `IdFits` is the adapter itself and not its counterpart.
2. Larger instances of `threads` under symmetry, if operations with state of their
   own are added to the API.
