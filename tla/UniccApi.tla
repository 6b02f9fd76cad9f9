------------------------------ MODULE UniccApi ------------------------------
(***************************************************************************)
(* The unicc_* API of src/unicc_api.c over the loader, the binder and the  *)
(* dispatch table: the lifecycle, the gating of every call, the mapping of *)
(* backend results, and the raw result kept for unicc_get_last_error.      *)
(*                                                                         *)
(* One process calls the API from one thread at a time.  The environment   *)
(* variables and the files that dlopen finds may differ at every call, so  *)
(* they are inputs.  A call is atomic.                                     *)
(***************************************************************************)
EXTENDS UniccVtable

CONSTANTS
  Envs,            (* the environments the process is run in               *)
  Hosts,           (* what dlopen finds at one time or another             *)
  BackendResults,  (* the native results a backend function may return     *)
  PeerIds          (* bootstrap ids received from other processes          *)

VARIABLES
  g_state, g_handle, g_last_backend_result, g_lib_path,
  id,           (* the application's unicc_comm_id_t                       *)
  (* History, read by properties only. *)
  opened,       (* the name under which dlopen accepted the live library   *)
  lastFailure,  (* the last non-zero native result of this lifecycle       *)
  call          (* the last API call: its result and what it ran           *)

apiVars == <<g_state, g_handle, g_last_backend_result, g_lib_path>>
vars == <<unicc, s, g_backend_type, g_backend_handle, refs, apiVars, id,
          opened, lastFailure, call>>

UNICC_STATE_UNINIT == "UNICC_STATE_UNINIT"
UNICC_STATE_INIT == "UNICC_STATE_INIT"

(* A bootstrap id: its length, and the family whose backend made its bytes *)
(* (UNICC_BACKEND_UNKNOWN when no backend has filled it in).               *)
CommId == [len : Nat, minted : Family \cup {UNICC_BACKEND_UNKNOWN}]

ASSUME ApiAssumption ==
  /\ Envs \subseteq Env
  /\ Hosts \subseteq Host
  /\ BackendResults \subseteq Int
  /\ PeerIds \subseteq CommId
  /\ NULL \notin CommId
  /\ NULL # "pointer"
  /\ NULL \notin [lib : Lib, fam : Family]

(* A finished call: what it was, its result, the native function it ran    *)
(* (NULL when none), that function's result, and the id it was given.      *)
Call == [op : Slot \cup {"unicc_init", "unicc_finalize", "unicc_diagnose"},
         rc : Int, ran : Pointer \cup {NULL}, raw : Int, id : CommId \cup {NULL}]

(* A call that ran no native function. *)
Returned(op, rc, i) == [op |-> op, rc |-> rc, ran |-> NULL, raw |-> 0, id |-> i]

Init ==
  /\ vtableInit
  /\ g_state = UNICC_STATE_UNINIT
  /\ g_handle = NULL
  /\ g_last_backend_result = 0
  /\ g_lib_path = ""
  /\ id = [len |-> 0, minted |-> UNICC_BACKEND_UNKNOWN]
  /\ opened = ""
  /\ lastFailure = 0
  /\ call = Returned("unicc_finalize", UNICC_OK, NULL)

-----------------------------------------------------------------------------
(* Lifecycle.  Each way out of unicc_init is an action.                    *)

unicc_init_already ==
  /\ g_state = UNICC_STATE_INIT
  /\ call' = Returned("unicc_init", UNICC_ERR_ALREADY_INITIALIZED, NULL)
  /\ UNCHANGED <<vtableVars, refs, apiVars, id, opened, lastFailure>>

unicc_init_path_too_long(env) ==
  /\ g_state = UNICC_STATE_UNINIT
  /\ unicc_loader_detect_backend(env) \in LongName
  /\ call' = Returned("unicc_init", UNICC_ERR_INVALID_ARGUMENT, NULL)
  /\ UNCHANGED <<vtableVars, refs, apiVars, id, opened, lastFailure>>

(* The outcomes of loading what env selects, when its name fits.           *)
Loads(env, host) == unicc_loader_load(host, unicc_loader_detect_backend(env))
(* Mutant: a live backend does not stop a second load. *)
MutNoAlreadyCheck(env) == unicc_loader_detect_backend(env) \notin LongName
CanLoad(env) ==
  /\ g_state = UNICC_STATE_UNINIT
  /\ unicc_loader_detect_backend(env) \notin LongName

unicc_init_load_fails(env, host) ==
  /\ CanLoad(env)
  /\ Loads(env, host) = {}
  /\ g_lib_path' = ""
  /\ call' = Returned("unicc_init", IF NothingSelected(env)
                                    THEN UNICC_ERR_NO_BACKEND
                                    ELSE UNICC_ERR_BACKEND_LOAD, NULL)
  /\ UNCHANGED <<vtableVars, refs, g_state, g_handle, g_last_backend_result,
                 id, opened, lastFailure>>

(* Mutant: the handle of a library that failed to bind is leaked. *)
MutLeaksHandle(env, host) ==
  /\ CanLoad(env)
  /\ \E lib \in Loads(env, host) :
       /\ unicc_vtable_init_rc(lib.lib) # UNICC_OK
       /\ unicc_vtable_init(lib.lib)
       /\ refs' = unicc_platform_dlopen(refs, lib.lib)
       /\ g_lib_path' = ""
       /\ call' = Returned("unicc_init", unicc_vtable_init_rc(lib.lib), NULL)
       /\ UNCHANGED <<g_state, g_handle, g_last_backend_result, id, opened,
                      lastFailure>>

unicc_init_vtable_fails(env, host) ==
  /\ CanLoad(env)
  /\ \E lib \in Loads(env, host) :
       /\ unicc_vtable_init_rc(lib.lib) # UNICC_OK
       /\ unicc_vtable_init(lib.lib)
       /\ refs' = unicc_platform_dlclose(unicc_platform_dlopen(refs, lib.lib), lib.lib)
       /\ g_lib_path' = ""
       /\ call' = Returned("unicc_init", unicc_vtable_init_rc(lib.lib), NULL)
       /\ UNCHANGED <<g_state, g_handle, g_last_backend_result, id, opened,
                      lastFailure>>

unicc_init_succeeds(env, host) ==
  /\ CanLoad(env)
  /\ \E lib \in Loads(env, host) :
       /\ unicc_vtable_init_rc(lib.lib) = UNICC_OK
       /\ unicc_vtable_init(lib.lib)
       /\ refs' = unicc_platform_dlopen(refs, lib.lib)
       /\ g_lib_path' = lib.reported
       /\ g_last_backend_result' = 0
       /\ g_handle' = lib.lib
       /\ g_state' = UNICC_STATE_INIT
       /\ opened' = lib.opened
       /\ lastFailure' = 0
       /\ call' = Returned("unicc_init", UNICC_OK, NULL)
       /\ UNCHANGED id

unicc_finalize ==
  \/ /\ g_state # UNICC_STATE_INIT
     /\ call' = Returned("unicc_finalize", UNICC_ERR_NOT_INITIALIZED, NULL)
     /\ UNCHANGED <<vtableVars, refs, apiVars, id, opened, lastFailure>>
  \/ /\ g_state = UNICC_STATE_INIT
     /\ unicc_vtable_cleanup
     /\ refs' = unicc_platform_dlclose(refs, g_handle)
     /\ g_handle' = NULL
     /\ g_lib_path' = ""
     /\ g_last_backend_result' = 0
     /\ g_state' = UNICC_STATE_UNINIT
     /\ opened' = ""
     /\ lastFailure' = 0
     /\ call' = Returned("unicc_finalize", UNICC_OK, NULL)
     /\ UNCHANGED id

(* Diagnosis opens the library again, inspects its symbols, and closes it. *)
unicc_diagnose_backend(host, path) ==
  \/ /\ unicc_loader_load(host, path) = {}
     /\ UNCHANGED refs
  \/ \E lib \in unicc_loader_load(host, path) :
       refs' = unicc_platform_dlclose(unicc_platform_dlopen(refs, lib.lib), lib.lib)

unicc_diagnose(env, host) ==
  /\ unicc_diagnose_backend(host, IF g_state = UNICC_STATE_INIT THEN g_lib_path
                                  ELSE unicc_loader_detect_backend(env))
  /\ call' = Returned("unicc_diagnose", UNICC_OK, NULL)
  /\ UNCHANGED <<vtableVars, apiVars, id, opened, lastFailure>>

-----------------------------------------------------------------------------
(* Calls through the table.                                                *)

(* Mutant: a code of the wrapper is kept as if a backend had returned it. *)
MutKeepsInternal(rc) ==
  CASE rc = 0 -> [code |-> UNICC_OK, last |-> g_last_backend_result]
    [] rc < 0 -> [code |-> rc, last |-> rc]
    [] OTHER  -> [code |-> UNICC_ERR_UNHANDLED_BACKEND, last |-> rc]

(* Mutant: the limit of the wrapper's own codes is off by one. *)
MutOneIsInternal(rc) ==
  CASE rc = 0            -> [code |-> UNICC_OK, last |-> g_last_backend_result]
    [] rc # 0 /\ rc <= 1 -> [code |-> rc, last |-> g_last_backend_result]
    [] OTHER             -> [code |-> UNICC_ERR_UNHANDLED_BACKEND, last |-> rc]

(* The unified code of a native result, and the raw result kept with it.   *)
map_backend_result(rc) ==
  CASE rc = 0 -> [code |-> UNICC_OK, last |-> g_last_backend_result]
    [] rc < 0 -> [code |-> rc, last |-> g_last_backend_result]
    [] OTHER  -> [code |-> UNICC_ERR_UNHANDLED_BACKEND, last |-> rc]

(* Mutant: the arguments are checked before the table. *)
MutArgsFirst(op, argsOK) ==
  CASE g_state # UNICC_STATE_INIT                   -> UNICC_ERR_NOT_INITIALIZED
    [] g_state = UNICC_STATE_INIT /\ ~argsOK        -> UNICC_ERR_INVALID_ARGUMENT
    [] OTHER -> IF unicc[op] # NULL THEN UNICC_OK ELSE UNICC_ERR_NOT_SUPPORTED

(* The wrapper's own error for a call, UNICC_OK when it may go through.    *)
Refusal(op, argsOK) ==
  CASE g_state # UNICC_STATE_INIT                   -> UNICC_ERR_NOT_INITIALIZED
    [] g_state = UNICC_STATE_INIT /\ unicc[op] = NULL -> UNICC_ERR_NOT_SUPPORTED
    [] OTHER -> IF argsOK THEN UNICC_OK ELSE UNICC_ERR_INVALID_ARGUMENT

Refused(op, argsOK, i) ==
  /\ Refusal(op, argsOK) # UNICC_OK
  /\ call' = Returned(op, Refusal(op, argsOK), i)
  /\ UNCHANGED <<vtableVars, refs, apiVars, id, opened, lastFailure>>

(* The native function behind the slot runs and returns raw.               *)
Runs(op, argsOK, i, raw) ==
  /\ Refusal(op, argsOK) = UNICC_OK
  /\ call' = [op |-> op, rc |-> map_backend_result(raw).code,
              ran |-> Target(op), raw |-> raw, id |-> i]
  /\ g_last_backend_result' = map_backend_result(raw).last
  /\ lastFailure' = IF raw # 0 THEN raw ELSE lastFailure
  /\ UNCHANGED <<vtableVars, refs, g_state, g_handle, g_lib_path, opened>>

Dispatch(op, argsOK) ==
  \/ Refused(op, argsOK, NULL)
  \/ \E raw \in BackendResults : Runs(op, argsOK, NULL, raw) /\ UNCHANGED id

unicc_backend_version(version) == Dispatch("get_version", version # NULL)
unicc_comm_destroy == Dispatch("comm_destroy", TRUE)
unicc_comm_count(count) == Dispatch("comm_count", count # NULL)
unicc_comm_user_rank(rank) == Dispatch("comm_user_rank", rank # NULL)
unicc_group_start == Dispatch("group_start", TRUE)
unicc_group_end == Dispatch("group_end", TRUE)

(* Datatypes and operators map to themselves, -1 when out of range.        *)
UNICC_DT_COUNT == 10
UNICC_OP_COUNT == 4
unicc_dtmap_lookup_dt(dt) == IF dt >= 0 /\ dt < UNICC_DT_COUNT THEN dt ELSE -1
unicc_dtmap_lookup_op(op) == IF op >= 0 /\ op < UNICC_OP_COUNT THEN op ELSE -1

unicc_allreduce(sendbuf, recvbuf, count, datatype, op) ==
  Dispatch("allreduce",
           /\ sendbuf # NULL /\ recvbuf # NULL /\ count # 0
           /\ unicc_dtmap_lookup_dt(datatype) >= 0
           /\ unicc_dtmap_lookup_op(op) >= 0)

unicc_broadcast(buf, count, datatype) ==
  Dispatch("broadcast", /\ buf # NULL /\ count # 0
                        /\ unicc_dtmap_lookup_dt(datatype) >= 0)

(* The id length that the adapters over a static write and insist on.      *)
AdapterBytes(st) ==
  IF st \in {"s_uid_get_4096", "s_rank_init_s4096"}
  THEN UNICC_ONECCL_UNIQUE_ID_BYTES ELSE UNICC_UNIQUE_ID_BYTES

(* The adapter fills the caller's id only when the backend succeeded.      *)
unicc_get_unique_id(out) ==
  \/ Refused("get_unique_id", out # NULL, NULL)
  \/ \E raw \in BackendResults :
       /\ Runs("get_unique_id", out # NULL, NULL, raw)
       /\ id' = IF raw = 0
                THEN [len    |-> AdapterBytes(unicc["get_unique_id"].through),
                      minted |-> Target("get_unique_id").fam]
                ELSE id

(* Mutant: the adapters do not compare the id's length. *)
MutNoLengthGuard(comm, nranks, i, rank) ==
  LET argsOK == /\ comm # NULL /\ nranks >= 1 /\ rank >= 0 /\ rank < nranks
                /\ i # NULL /\ i.len # 0
  IN  \/ Refused("comm_init_rank", argsOK, i)
      \/ \E raw \in BackendResults :
           Runs("comm_init_rank", argsOK, i, raw) /\ UNCHANGED id

(* The adapter refuses an id of another length with a code of the wrapper, *)
(* which map_backend_result passes on without keeping it.                  *)
unicc_comm_init_rank(comm, nranks, i, rank) ==
  LET argsOK == /\ comm # NULL /\ nranks >= 1 /\ rank >= 0 /\ rank < nranks
                /\ i # NULL /\ i.len # 0
      Fits   == i.len = AdapterBytes(unicc["comm_init_rank"].through)
  IN  \/ Refused("comm_init_rank", argsOK, i)
      \/ /\ Refusal("comm_init_rank", argsOK) = UNICC_OK
         /\ ~Fits
         /\ call' = Returned("comm_init_rank",
                             map_backend_result(UNICC_ERR_INVALID_ARGUMENT).code, i)
         /\ g_last_backend_result' = map_backend_result(UNICC_ERR_INVALID_ARGUMENT).last
         /\ UNCHANGED <<vtableVars, refs, g_state, g_handle, g_lib_path, id,
                        opened, lastFailure>>
      \/ \E raw \in BackendResults :
           /\ Runs("comm_init_rank", argsOK, i, raw)
           /\ Fits
           /\ UNCHANGED id

-----------------------------------------------------------------------------
(* Queries, which change nothing. *)
unicc_get_last_error == g_last_backend_result
unicc_get_library_path == g_lib_path
unicc_is_initialized == g_state = UNICC_STATE_INIT

unicc_backend_name ==
  IF g_state # UNICC_STATE_INIT THEN UNICC_BACKEND_UNKNOWN
  ELSE family_of(g_backend_type).name

Available(slot) == g_state = UNICC_STATE_INIT /\ unicc[slot] # NULL
unicc_get_unique_id_available == Available("get_unique_id")
(* Mutant: one half of the bootstrap is taken for both. *)
MutHalfBootstrap == Available("comm_init_rank")
unicc_comm_available == Available("comm_init_rank") /\ Available("get_unique_id")
unicc_allreduce_available == Available("allreduce")
unicc_broadcast_available == Available("broadcast")
unicc_group_start_available == Available("group_start")
unicc_group_end_available == Available("group_end")

-----------------------------------------------------------------------------
Lifecycle ==
  \/ unicc_init_already
  \/ \E env \in Envs : unicc_init_path_too_long(env)
  \/ \E env \in Envs, host \in Hosts :
       \/ unicc_init_load_fails(env, host)
       \/ unicc_init_vtable_fails(env, host)
       \/ unicc_init_succeeds(env, host)
       \/ unicc_diagnose(env, host)
  \/ unicc_finalize

(* A pointer argument is NULL or not; integers straddle their limits.      *)
Arg == {NULL, "pointer"}

Calls ==
  \/ \E a \in Arg :
       \/ unicc_backend_version(a)
       \/ unicc_comm_count(a)
       \/ unicc_comm_user_rank(a)
       \/ unicc_get_unique_id(a)
  \/ \E a \in Arg, b \in Arg, count \in {0, 1}, dt \in {-1, 0, 9, 10}, op \in {-1, 3, 4} :
       unicc_allreduce(a, b, count, dt, op)
  \/ \E a \in Arg, count \in {0, 1}, dt \in {-1, 0, 9, 10} :
       unicc_broadcast(a, count, dt)
  \/ \E a \in Arg, nranks \in {0, 1, 2}, rank \in {-1, 0, 1}, i \in {NULL, id} \cup PeerIds :
       unicc_comm_init_rank(a, nranks, i, rank)
  \/ unicc_comm_destroy
  \/ unicc_group_start
  \/ unicc_group_end

Next == Lifecycle \/ Calls

Spec == Init /\ [][Next]_vars

-----------------------------------------------------------------------------
(* Type correctness of the library's state, of the application's id and of *)
(* the history.                                                            *)
TypeOK ==
  /\ vtableTypeOK
  /\ g_state \in {UNICC_STATE_UNINIT, UNICC_STATE_INIT}
  /\ g_handle \in Lib \cup {NULL}
  /\ g_last_backend_result \in Int
  /\ g_lib_path \in Name \cup {""}
  /\ id \in CommId
  /\ opened \in Name \cup {""}
  /\ lastFailure \in Int
  /\ call \in Call

(* The five places that say whether a backend is live (g_state, g_handle,  *)
(* g_backend_handle, g_backend_type and the table of unicc_vtable.c) never *)
(* disagree, and a live backend is the family its library identifies as,   *)
(* with every core slot filled.                                            *)
LifecycleCoherent ==
  IF g_state = UNICC_STATE_INIT
  THEN /\ g_handle \in Lib
       /\ g_backend_handle = g_handle
       /\ g_backend_type \in Family
       /\ g_backend_type = unicc_loader_identify_backend(g_handle)
       /\ \A slot \in Core : unicc[slot] # NULL
  ELSE /\ g_handle = NULL
       /\ g_backend_handle = NULL
       /\ g_backend_type = UNICC_BACKEND_UNKNOWN
       /\ unicc = EmptyTable

(* Every call that can be dispatched ends in the function its slot is      *)
(* named for, exported by the library in use under the identified family's *)
(* name, with that library still mapped and the arguments laid out as the  *)
(* function expects.  The statics behind the adapters survive finalize and *)
(* failed inits, so this holds only because no slot outlives them          *)
(* (unicc_bind.c, "never a NULL inner call"; docs/BACKENDS.md, "an         *)
(* incomplete or hybrid library cannot ride one family's validation into   *)
(* another family's binding and crash").                                   *)
DispatchSafe ==
  \A slot \in Slot :
    unicc[slot] # NULL => /\ g_state = UNICC_STATE_INIT
                          /\ SlotSound(slot, g_handle, g_backend_type)

(* No library is left open or closed twice: over any sequence of failed    *)
(* and successful inits, diagnoses and finalizes, dlopen's count of every  *)
(* library is one for the live backend and zero for all others.            *)
RefsBalanced ==
  refs = [l \in Lib |-> IF g_handle = l THEN 1 ELSE 0]

(* unicc_get_library_path reports the name that dlopen really accepted (the *)
(* fallback soname where that is what loaded), and "" while nothing is live *)
(* (unicc_api.c, "the name it ACTUALLY dlopen'd", F6).                     *)
LibraryPathIsLoaded ==
  /\ unicc_get_library_path = opened
  /\ ~unicc_is_initialized => unicc_get_library_path = ""

(* unicc_get_last_error is exactly the last non-zero result that a backend *)
(* function returned in this lifecycle, 0 before one: neither a stale      *)
(* value of an earlier backend (F5) nor a code of the wrapper itself (F2)  *)
(* ever gets there.                                                        *)
LastErrorExact == unicc_get_last_error = lastFailure

(* The unified result tells the truth about the backend: OK only when the  *)
(* backend ran and returned 0, UNHANDLED_BACKEND only when it ran and      *)
(* failed, with its raw result at hand, and any other code only when no    *)
(* backend function ran at all.                                            *)
ResultsHonest ==
  call.op \in Slot =>
    CASE call.rc = UNICC_OK                    -> call.ran # NULL /\ call.raw = 0
      [] call.rc = UNICC_ERR_UNHANDLED_BACKEND -> /\ call.ran # NULL
                                                  /\ call.raw # 0
                                                  /\ unicc_get_last_error = call.raw
      [] OTHER                                 -> call.ran = NULL

(* A bootstrap id reaches a backend only when it is as long as the by-value *)
(* id that backend takes, so an id of oneCCL (4096 bytes) is never read as *)
(* one of the NCCL family (128) or the other way round, also when the id   *)
(* stems from an earlier lifecycle or another process.                     *)
IdBytes(fam) == IF NativeSignature(fam, "GetUniqueId") = "4096" THEN 4096 ELSE 128

IdNeverMisread ==
  call.op = "comm_init_rank" /\ call.ran # NULL =>
    call.id.len = IdBytes(call.ran.fam)

(* An id that the live family's backend made is one that its               *)
(* comm_init_rank accepts, and its length is the one the table announces:  *)
(* what unicc_get_unique_id returns always round-trips.                    *)
IdRoundTrip ==
  g_state = UNICC_STATE_INIT /\ id.minted = g_backend_type =>
    /\ id.len = AdapterBytes(unicc["comm_init_rank"].through)
    /\ id.len = family_of(g_backend_type).uid_bytes

(* The *_available() gates are 1 exactly when the library in use exports   *)
(* the backing symbol of its own family (docs/API.md, "1 iff the backend   *)
(* exports the backing symbol"), and unicc_comm_available only when both   *)
(* halves of the bootstrap are there (F4).                                 *)
Backs(slot) ==
  /\ g_state = UNICC_STATE_INIT
  /\ <<unicc_backend_name, SlotSymbol[slot]>> \in exports[g_handle]

GatesTruthful ==
  /\ unicc_get_unique_id_available <=> Backs("get_unique_id")
  /\ unicc_comm_available <=> Backs("comm_init_rank") /\ Backs("get_unique_id")
  /\ unicc_allreduce_available <=> Backs("allreduce")
  /\ unicc_broadcast_available <=> Backs("broadcast")
  /\ unicc_group_start_available <=> Backs("group_start")
  /\ unicc_group_end_available <=> Backs("group_end")

(* A library that exports another family's probe symbol besides            *)
(* ncclGetVersion is never driven as NVIDIA NCCL (unicc_loader.c, "must    *)
(* never be misidentified as NVIDIA NCCL").                                *)
NeverMisidentifiedAsNccl ==
  unicc_backend_name = "nccl" =>
    \A fam \in Family \ {"nccl"} : <<fam, "GetVersion">> \notin exports[g_handle]

(* While a backend stays live, no call (a second unicc_init, a diagnosis,  *)
(* a failing collective) changes what later calls are dispatched to.       *)
DispatchStable ==
  [][unicc_is_initialized /\ unicc_is_initialized'
       => UNCHANGED <<vtableVars, refs, g_handle, g_lib_path>>]_vars

(* Handles, table, statics and adapters come to this: a caller sees the    *)
(* service of UniccService and nothing else.                               *)
Service == INSTANCE UniccService WITH
  live <- IF g_state = UNICC_STATE_INIT
          THEN [lib |-> g_handle, fam |-> g_backend_type] ELSE NULL,
  last <- g_last_backend_result,
  done <- [op |-> call.op, rc |-> call.rc, ran |-> call.ran, raw |-> call.raw]

ImplementsService == Service!ServiceSpec

-----------------------------------------------------------------------------
(* What the documentation says, where the code differs.                    *)

(* The family is the first of rccl, oneccl, eccl, nccl whose GetVersion    *)
(* the library exports (docs/BACKENDS.md, "Identification order").         *)
IdentifiedInDocumentedOrder ==
  LET order == <<"rccl", "oneccl", "eccl", "nccl">>
      exported == {k \in Row : <<order[k], "GetVersion">> \in exports[g_handle]}
  IN  g_state = UNICC_STATE_INIT =>
        g_backend_type = order[CHOOSE k \in exported : \A j \in exported : k <= j]

(* Any non-zero native result becomes UNICC_ERR_UNHANDLED_BACKEND and is   *)
(* kept for unicc_get_last_error (docs/BACKENDS.md, "Error mapping").      *)
AnyNonzeroIsUnhandled ==
  call.ran # NULL /\ call.raw # 0 =>
    /\ call.rc = UNICC_ERR_UNHANDLED_BACKEND
    /\ unicc_get_last_error = call.raw

=============================================================================
