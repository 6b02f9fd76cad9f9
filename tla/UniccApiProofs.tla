--------------------------- MODULE UniccApiProofs ---------------------------
(***************************************************************************)
(* Proofs about UniccApi, for any set of libraries whatever they export,   *)
(* any environments, hosts, native results and peer ids, on any platform.  *)
(***************************************************************************)
EXTENDS UniccApi, UniccVtableProofs

-----------------------------------------------------------------------------
(* The inductive invariant.                                                *)

(* The table and the statics behind it are exactly what binding the live   *)
(* library by its family yields, and that family's core is complete.  This *)
(* is what DispatchSafe and the gates need and do not say: which static a  *)
(* slot goes through, and what the static holds.                           *)
TableExact ==
  g_state = UNICC_STATE_INIT =>
    LET d == family_of(g_backend_type)
    IN  /\ unicc = BoundTable(g_handle, d)
        /\ \A slot \in BoundSlot(d) :
             s[SlotStatic(d, slot)] = dlsym(g_handle, d.name, SlotSymbol[slot])
        /\ CoreResolves(g_handle, d)

(* The two modules agree on whether a backend is live, and on which. *)
Agreement ==
  IF g_state = UNICC_STATE_INIT
  THEN /\ g_handle \in Lib
       /\ g_backend_handle = g_handle
       /\ g_backend_type \in Family
       /\ g_backend_type = unicc_loader_identify_backend(g_handle)
  ELSE /\ g_handle = NULL
       /\ g_backend_handle = NULL
       /\ g_backend_type = UNICC_BACKEND_UNKNOWN
       /\ unicc = EmptyTable

(* An id filled in by a backend has that backend's length. *)
IdExact == id.minted \in Family => id.len = IdBytes(id.minted)

IInv == TypeOK /\ Agreement /\ TableExact /\ RefsBalanced /\ IdExact

-----------------------------------------------------------------------------
(* The adapters over both id calls of a family work on that family's id    *)
(* length, which is the one its row announces.                             *)
LEMMA IdLengths ==
  ASSUME NEW fam \in Family
  PROVE  /\ AdapterBytes(SlotStatic(family_of(fam), "get_unique_id")) = IdBytes(fam)
         /\ AdapterBytes(SlotStatic(family_of(fam), "comm_init_rank")) = IdBytes(fam)
         /\ family_of(fam).uid_bytes = IdBytes(fam)
         /\ IdBytes(fam) \in Nat
<1>1. IdBytes(fam) = IF fam = "oneccl" THEN 4096 ELSE 128
  <2>1. NativeSignature(fam, "GetUniqueId") = IF fam = "oneccl" THEN "4096" ELSE "128"
    BY NativeSignatures
  <2> QED
    BY <2>1 DEF IdBytes
<1>2. \/ fam = "oneccl" /\ SlotStatic(family_of(fam), "get_unique_id") = "s_uid_get_4096"
      \/ fam # "oneccl" /\ SlotStatic(family_of(fam), "get_unique_id") = "s_uid_get_128"
  BY RowFacts DEF SlotStatic, Family
<1>3. \/ fam = "oneccl" /\ SlotStatic(family_of(fam), "comm_init_rank") = "s_rank_init_s4096"
      \/ fam # "oneccl" /\ SlotStatic(family_of(fam), "comm_init_rank")
                              \in {"s_rank_init_n128", "s_rank_init_s128"}
  BY RowFacts DEF SlotStatic, Family
<1>4. family_of(fam).uid_bytes = IF fam = "oneccl" THEN 4096 ELSE 128
  BY RowFacts DEF Family
<1> QED
  BY <1>1, <1>2, <1>3, <1>4
  DEF AdapterBytes, UNICC_ONECCL_UNIQUE_ID_BYTES, UNICC_UNIQUE_ID_BYTES

(* Under the invariant, a filled slot ends in the live library's function. *)
LEMMA LiveSlot ==
  ASSUME IInv, g_state = UNICC_STATE_INIT, NEW slot \in Slot, unicc[slot] # NULL
  PROVE  /\ Target(slot) = dlsym(g_handle, g_backend_type, SlotSymbol[slot])
         /\ Target(slot) # NULL
         /\ Target(slot) \in Pointer
         /\ Target(slot).fam = g_backend_type
         /\ unicc[slot].through = SlotStatic(family_of(g_backend_type), slot)
<1> DEFINE d  == family_of(g_backend_type)
           st == SlotStatic(d, slot)
           fn == dlsym(g_handle, g_backend_type, SlotSymbol[slot])
<1>1. g_handle \in Lib /\ g_backend_type \in Family
  BY DEF IInv, Agreement
<1>2. d.name = g_backend_type
  BY <1>1, RowName
<1>3. st \in Static
  BY <1>1, Routing
<1>4. SlotSymbol[slot] \in Suffix
  BY SlotSymbolType
<1>5. fn \in Pointer \cup {NULL}
  BY <1>1, <1>4, DlsymType
<1> HIDE DEF d, st, fn
<1>6. unicc = BoundTable(g_handle, d) /\ \A sl \in BoundSlot(d) :
        s[SlotStatic(d, sl)] = dlsym(g_handle, d.name, SlotSymbol[sl])
  BY DEF IInv, TableExact, d
<1>7. slot \in BoundSlot(d) /\ unicc[slot] = Install(st, fn)
  BY <1>2, <1>6 DEF BoundTable, st, fn
<1>8. s[st] = fn
  BY <1>2, <1>6, <1>7 DEF st, fn
<1>9. fn # NULL /\ unicc[slot].through = st
      /\ unicc[slot].fn = IF st \in Wrapped THEN NULL ELSE fn
  BY <1>3, <1>5, <1>7, InstallType
<1>10. Target(slot) = fn
  BY <1>8, <1>9 DEF Target
<1>11. fn.fam = g_backend_type
  BY <1>9 DEF fn, dlsym
<1> QED
  BY <1>5, <1>9, <1>10, <1>11 DEF st, d, fn

(* The five ways in which a call through the table can go. *)
CallRefused ==
  \E op \in Slot, ok \in BOOLEAN, i \in CommId \cup {NULL} : Refused(op, ok, i)
CallRuns ==
  \E op \in Slot \ {"comm_init_rank"}, ok \in BOOLEAN, raw \in BackendResults :
    Runs(op, ok, NULL, raw) /\ UNCHANGED id
CallMints ==
  \E ok \in BOOLEAN, raw \in BackendResults :
    /\ Runs("get_unique_id", ok, NULL, raw)
    /\ id' = IF raw = 0
             THEN [len    |-> AdapterBytes(unicc["get_unique_id"].through),
                   minted |-> Target("get_unique_id").fam]
             ELSE id
CallWrongLength ==
  \E i \in CommId :
    /\ g_state = UNICC_STATE_INIT /\ unicc["comm_init_rank"] # NULL
    /\ call' = Returned("comm_init_rank", UNICC_ERR_INVALID_ARGUMENT, i)
    /\ UNCHANGED <<vtableVars, refs, apiVars, id, opened, lastFailure>>
CallJoins ==
  \E ok \in BOOLEAN, i \in CommId, raw \in BackendResults :
    /\ Runs("comm_init_rank", ok, i, raw)
    /\ i.len = AdapterBytes(unicc["comm_init_rank"].through)
    /\ UNCHANGED id

(* A plain call is refused or runs. *)
LEMMA DispatchCases ==
  ASSUME NEW op \in Slot \ {"comm_init_rank"}, NEW ok \in BOOLEAN, Dispatch(op, ok)
  PROVE  CallRefused \/ CallRuns
<1>1. CASE Refused(op, ok, NULL)
  BY <1>1, Zenon DEF CallRefused
<1>2. CASE \E raw \in BackendResults : Runs(op, ok, NULL, raw) /\ UNCHANGED id
  BY <1>2, Zenon DEF CallRuns
<1> QED
  BY <1>1, <1>2, Zenon DEF Dispatch

(* A call that may go through has good arguments and a filled slot. *)
LEMMA GoesThrough ==
  ASSUME NEW op, NEW ok \in BOOLEAN, Refusal(op, ok) = UNICC_OK
  PROVE  g_state = UNICC_STATE_INIT /\ unicc[op] # NULL /\ ok
BY DEF Refusal, UNICC_OK, UNICC_ERR_NOT_INITIALIZED, UNICC_ERR_NOT_SUPPORTED,
       UNICC_ERR_INVALID_ARGUMENT

(* Every call of the API goes one of the five ways. *)
LEMMA CallCases ==
  ASSUME TypeOK, Calls
  PROVE  CallRefused \/ CallRuns \/ CallMints \/ CallWrongLength \/ CallJoins
<1> DEFINE Goal == CallRefused \/ CallRuns \/ CallMints \/ CallWrongLength \/ CallJoins
<1> USE DEF Slot
<1> HIDE DEF Goal
<1>1. ASSUME NEW a \in Arg, unicc_backend_version(a) PROVE Goal
  BY <1>1, DispatchCases DEF unicc_backend_version, Goal
<1>2. ASSUME NEW a \in Arg, unicc_comm_count(a) PROVE Goal
  BY <1>2, DispatchCases DEF unicc_comm_count, Goal
<1>3. ASSUME NEW a \in Arg, unicc_comm_user_rank(a) PROVE Goal
  BY <1>3, DispatchCases DEF unicc_comm_user_rank, Goal
<1>4. ASSUME NEW a \in Arg, unicc_get_unique_id(a) PROVE Goal
  <2>1. CASE Refused("get_unique_id", a # NULL, NULL)
    BY <2>1, Zenon DEF CallRefused, Goal
  <2>2. CASE ~Refused("get_unique_id", a # NULL, NULL)
    BY <1>4, <2>2, Zenon DEF unicc_get_unique_id, CallMints, Goal
  <2> QED
    BY <2>1, <2>2
<1>5. ASSUME NEW a \in Arg, NEW b \in Arg, NEW count \in {0, 1}, NEW dt \in {-1, 0, 9, 10},
             NEW op \in {-1, 3, 4}, unicc_allreduce(a, b, count, dt, op)
      PROVE  Goal
  BY <1>5, DispatchCases DEF unicc_allreduce, Goal
<1>6. ASSUME NEW a \in Arg, NEW count \in {0, 1}, NEW dt \in {-1, 0, 9, 10},
             unicc_broadcast(a, count, dt)
      PROVE  Goal
  BY <1>6, DispatchCases DEF unicc_broadcast, Goal
<1>7. ASSUME NEW a \in Arg, NEW nranks \in {0, 1, 2}, NEW rank \in {-1, 0, 1},
             NEW i \in {NULL, id} \cup PeerIds, unicc_comm_init_rank(a, nranks, i, rank)
      PROVE  Goal
  <2> DEFINE ok   == /\ a # NULL /\ nranks >= 1 /\ rank >= 0 /\ rank < nranks
                     /\ i # NULL /\ i.len # 0
             Fits == i.len = AdapterBytes(unicc["comm_init_rank"].through)
  <2>1. i \in CommId \cup {NULL}
    BY ApiAssumption DEF TypeOK
  <2>2. ok \in BOOLEAN /\ (ok => i # NULL)
    OBVIOUS
  <2>3. \/ Refused("comm_init_rank", ok, i)
        \/ /\ Refusal("comm_init_rank", ok) = UNICC_OK
           /\ ~Fits
           /\ call' = Returned("comm_init_rank",
                               map_backend_result(UNICC_ERR_INVALID_ARGUMENT).code, i)
           /\ g_last_backend_result' = map_backend_result(UNICC_ERR_INVALID_ARGUMENT).last
           /\ UNCHANGED <<vtableVars, refs, g_state, g_handle, g_lib_path, id,
                          opened, lastFailure>>
        \/ \E raw \in BackendResults :
             /\ Runs("comm_init_rank", ok, i, raw)
             /\ Fits
             /\ UNCHANGED id
    BY <1>7, Zenon DEF unicc_comm_init_rank
  <2> HIDE DEF ok
  <2>4. CASE Refused("comm_init_rank", ok, i)
    BY <2>1, <2>2, <2>4, Zenon DEF CallRefused, Goal
  <2>5. CASE /\ Refusal("comm_init_rank", ok) = UNICC_OK
             /\ call' = Returned("comm_init_rank",
                                 map_backend_result(UNICC_ERR_INVALID_ARGUMENT).code, i)
             /\ g_last_backend_result' = map_backend_result(UNICC_ERR_INVALID_ARGUMENT).last
             /\ UNCHANGED <<vtableVars, refs, g_state, g_handle, g_lib_path, id,
                            opened, lastFailure>>
    <3>1. i \in CommId
      BY <2>1, <2>2, <2>5, GoesThrough, Zenon
    <3>2. /\ map_backend_result(UNICC_ERR_INVALID_ARGUMENT).code = UNICC_ERR_INVALID_ARGUMENT
          /\ map_backend_result(UNICC_ERR_INVALID_ARGUMENT).last = g_last_backend_result
      BY DEF map_backend_result, UNICC_ERR_INVALID_ARGUMENT
    <3>3. g_state = UNICC_STATE_INIT /\ unicc["comm_init_rank"] # NULL
      BY <2>2, <2>5, GoesThrough
    <3> QED
      BY <2>5, <3>1, <3>2, <3>3, Zenon DEF CallWrongLength, apiVars, Goal
  <2>6. CASE \E raw \in BackendResults :
               Runs("comm_init_rank", ok, i, raw) /\ Fits /\ UNCHANGED id
    <3>1. i \in CommId
      BY <2>1, <2>2, <2>6, GoesThrough, Zenon DEF Runs
    <3> QED
      BY <2>2, <2>6, <3>1, Zenon DEF CallJoins, Goal
  <2> QED
    BY <2>3, <2>4, <2>5, <2>6, Zenon
<1>8. ASSUME unicc_comm_destroy PROVE Goal
  BY <1>8, DispatchCases DEF unicc_comm_destroy, Goal
<1>9. ASSUME unicc_group_start PROVE Goal
  BY <1>9, DispatchCases DEF unicc_group_start, Goal
<1>10. ASSUME unicc_group_end PROVE Goal
  BY <1>10, DispatchCases DEF unicc_group_end, Goal
<1>11. Goal
  BY <1>1, <1>2, <1>3, <1>4, <1>5, <1>6, <1>7, <1>8, <1>9, <1>10 DEF Calls
<1> QED
  BY <1>11 DEF Goal

-----------------------------------------------------------------------------
(* The inductive proof.                                                    *)

(* The result codes are integers. *)
LEMMA Codes ==
  /\ UNICC_OK \in Int /\ UNICC_ERR_NO_BACKEND \in Int /\ UNICC_ERR_BACKEND_LOAD \in Int
  /\ UNICC_ERR_ALREADY_INITIALIZED \in Int /\ UNICC_ERR_NOT_INITIALIZED \in Int
  /\ UNICC_ERR_INVALID_ARGUMENT \in Int /\ UNICC_ERR_UNHANDLED_BACKEND \in Int
  /\ \A l : unicc_vtable_init_rc(l) \in Int
  /\ \A op, ok : Refusal(op, ok) \in Int
BY DEF UNICC_OK, UNICC_ERR_NO_BACKEND, UNICC_ERR_BACKEND_LOAD,
       UNICC_ERR_SYMBOL_NOT_FOUND, UNICC_ERR_NOT_INITIALIZED,
       UNICC_ERR_ALREADY_INITIALIZED, UNICC_ERR_INVALID_ARGUMENT,
       UNICC_ERR_NOT_SUPPORTED, UNICC_ERR_UNHANDLED_BACKEND,
       UNICC_ERR_BACKEND_NOT_SUPPORTED, unicc_vtable_init_rc,
       unicc_loader_check_platform_support, Refusal

(* A finished call that ran nothing is a call. *)
LEMMA ReturnedType ==
  ASSUME NEW op \in Slot \cup {"unicc_init", "unicc_finalize", "unicc_diagnose"},
         NEW rc \in Int, NEW i \in CommId \cup {NULL}
  PROVE  Returned(op, rc, i) \in Call
BY DEF Returned, Call

(* Mapped results are integers. *)
LEMMA MapType ==
  ASSUME NEW rc \in Int, g_last_backend_result \in Int
  PROVE  /\ map_backend_result(rc).code \in Int
         /\ map_backend_result(rc).last \in Int
BY Codes DEF map_backend_result

(* The initial states satisfy the invariant. *)
LEMMA InitIInv == Init => IInv
<1> SUFFICES ASSUME Init PROVE IInv
  OBVIOUS
<1> USE DEF Init, vtableInit
<1>1. vtableTypeOK
  BY DEF vtableTypeOK, EmptyTable, SlotValue
<1>2. call \in Call
  BY ReturnedType, Codes
<1>3. id \in CommId
  BY DEF CommId
<1>8. g_last_backend_result \in Int /\ lastFailure \in Int
  <2>1. g_last_backend_result = 0 /\ lastFailure = 0
    BY Zenon
  <2>2. 0 \in Int
    BY Codes, Zenon DEF UNICC_OK
  <2> QED
    BY <2>1, <2>2, Zenon
<1>9. TypeOK
  BY <1>1, <1>2, <1>3, <1>8, Zenon DEF TypeOK
<1>4. Agreement
  BY DEF Agreement, UNICC_STATE_INIT, UNICC_STATE_UNINIT
<1>5. TableExact
  BY DEF TableExact, UNICC_STATE_INIT, UNICC_STATE_UNINIT
<1>6. RefsBalanced
  BY NullAssumption DEF RefsBalanced
<1>7. IdExact
  BY DEF IdExact, Family, UNICC_BACKEND_UNKNOWN
<1> QED
  BY <1>9, <1>4, <1>5, <1>6, <1>7 DEF IInv

(* No call touches the table, the counts, the handle or the lifecycle. *)
LEMMA CallFrame ==
  ASSUME TypeOK, Calls
  PROVE  UNCHANGED <<unicc, s, g_backend_type, g_backend_handle, refs, g_state,
                     g_handle, g_lib_path, opened>>
<1>1. CASE CallRefused
  BY <1>1 DEF CallRefused, Refused, vtableVars, apiVars
<1>2. CASE CallRuns
  BY <1>2 DEF CallRuns, Runs, vtableVars
<1>3. CASE CallMints
  BY <1>3 DEF CallMints, Runs, vtableVars
<1>4. CASE CallWrongLength
  BY <1>4 DEF CallWrongLength, vtableVars, apiVars
<1>5. CASE CallJoins
  BY <1>5 DEF CallJoins, Runs, vtableVars
<1> QED
  BY <1>1, <1>2, <1>3, <1>4, <1>5, CallCases

(* A native function that runs leaves the rest of the state well typed. *)
LEMMA RunsType ==
  ASSUME IInv, NEW op \in Slot, NEW ok \in BOOLEAN, NEW i \in CommId \cup {NULL},
         NEW raw \in BackendResults, Runs(op, ok, i, raw)
  PROVE  call' \in Call /\ g_last_backend_result' \in Int /\ lastFailure' \in Int
<1>1. raw \in Int /\ g_last_backend_result \in Int /\ lastFailure \in Int
  BY ApiAssumption DEF IInv, TypeOK
<1>2. Target(op) \in Pointer
  BY GoesThrough, LiveSlot DEF Runs
<1>3. map_backend_result(raw).code \in Int /\ map_backend_result(raw).last \in Int
  BY <1>1, MapType
<1>4. call' \in Call
  BY <1>1, <1>2, <1>3 DEF Runs, Call
<1> QED
  BY <1>1, <1>3, <1>4 DEF Runs

(* The forwarding calls keep the invariant. *)
LEMMA CallsKeepIInv ==
  ASSUME IInv, Calls
  PROVE  IInv'
<1>0. TypeOK
  BY DEF IInv
<1>1. UNCHANGED <<unicc, s, g_backend_type, g_backend_handle, refs, g_state,
                  g_handle, g_lib_path, opened>>
  BY <1>0, CallFrame
<1>2. Agreement'
  BY <1>1 DEF IInv, Agreement
<1>3. TableExact'
  BY <1>1 DEF IInv, TableExact
<1>4. RefsBalanced'
  BY <1>1 DEF IInv, RefsBalanced
<1>5. vtableTypeOK'
  BY <1>0, <1>1 DEF TypeOK, vtableTypeOK
<1>6. /\ id' \in CommId /\ IdExact'
      /\ g_last_backend_result' \in Int /\ lastFailure' \in Int /\ call' \in Call
  <2>1. CASE CallRefused
    <3>1. UNCHANGED <<id, g_last_backend_result, lastFailure>>
      BY <2>1 DEF CallRefused, Refused, apiVars
    <3>2. call' \in Call
      BY <2>1, ReturnedType, Codes DEF CallRefused, Refused
    <3> QED
      BY <3>1, <3>2 DEF IInv, TypeOK, IdExact
  <2>2. CASE CallRuns
    <3>1. UNCHANGED id
      BY <2>2 DEF CallRuns
    <3>2. g_last_backend_result' \in Int /\ lastFailure' \in Int /\ call' \in Call
      BY <2>2, RunsType DEF CallRuns
    <3> QED
      BY <3>1, <3>2 DEF IInv, TypeOK, IdExact
  <2>3. CASE CallMints
    <3>1. PICK ok \in BOOLEAN, raw \in BackendResults :
            /\ Runs("get_unique_id", ok, NULL, raw)
            /\ id' = IF raw = 0
                     THEN [len    |-> AdapterBytes(unicc["get_unique_id"].through),
                           minted |-> Target("get_unique_id").fam]
                     ELSE id
      BY <2>3 DEF CallMints
    <3>2. "get_unique_id" \in Slot
      BY DEF Slot
    <3>3. g_last_backend_result' \in Int /\ lastFailure' \in Int /\ call' \in Call
      BY <3>1, <3>2, RunsType
    <3>4. g_state = UNICC_STATE_INIT /\ unicc["get_unique_id"] # NULL
      BY <3>1, GoesThrough DEF Runs
    <3>5. /\ Target("get_unique_id").fam = g_backend_type
          /\ unicc["get_unique_id"].through =
               SlotStatic(family_of(g_backend_type), "get_unique_id")
      BY <3>2, <3>4, LiveSlot
    <3>6. g_backend_type \in Family
      BY <3>4 DEF IInv, Agreement
    <3>7. AdapterBytes(unicc["get_unique_id"].through) = IdBytes(g_backend_type)
          /\ IdBytes(g_backend_type) \in Nat
      BY <3>5, <3>6, IdLengths
    <3>8. CASE raw = 0
      <4>1. id' = [len |-> IdBytes(g_backend_type), minted |-> g_backend_type]
        BY <3>1, <3>5, <3>7, <3>8
      <4>2. id' \in CommId
        BY <4>1, <3>6, <3>7 DEF CommId
      <4>3. id'.len = IdBytes(id'.minted)
        BY <4>1
      <4> QED
        BY <3>3, <4>2, <4>3 DEF IdExact
    <3>9. CASE raw # 0
      BY <3>1, <3>3, <3>9 DEF IInv, TypeOK, IdExact
    <3> QED
      BY <3>8, <3>9
  <2>4. CASE CallWrongLength
    <3>1. UNCHANGED <<id, g_last_backend_result, lastFailure>>
      BY <2>4 DEF CallWrongLength, apiVars
    <3>2. "comm_init_rank" \in Slot
      BY DEF Slot
    <3>3. call' \in Call
      BY <2>4, <3>2, ReturnedType, Codes DEF CallWrongLength
    <3> QED
      BY <3>1, <3>3 DEF IInv, TypeOK, IdExact
  <2>5. CASE CallJoins
    <3>1. UNCHANGED id
      BY <2>5 DEF CallJoins
    <3>2. "comm_init_rank" \in Slot
      BY DEF Slot
    <3>3. g_last_backend_result' \in Int /\ lastFailure' \in Int /\ call' \in Call
      BY <2>5, <3>2, RunsType DEF CallJoins
    <3> QED
      BY <3>1, <3>3 DEF IInv, TypeOK, IdExact
  <2> QED
    BY <1>0, <2>1, <2>2, <2>3, <2>4, <2>5, CallCases
<1>7. TypeOK'
  BY <1>0, <1>1, <1>5, <1>6 DEF TypeOK
<1> QED
  BY <1>2, <1>3, <1>4, <1>6, <1>7 DEF IInv

(* Init, finalize and diagnosis keep it. *)
LEMMA LifecycleKeepsIInv ==
  ASSUME IInv, Lifecycle
  PROVE  IInv'
<1>0. TypeOK /\ Agreement /\ TableExact /\ RefsBalanced /\ IdExact
  BY DEF IInv
<1>1. ASSUME UNCHANGED <<vtableVars, refs, apiVars, id, opened, lastFailure>>, call' \in Call
      PROVE  IInv'
  <2>1. TypeOK'
    BY <1>0, <1>1 DEF TypeOK, vtableTypeOK, vtableVars, apiVars
  <2>2. Agreement' /\ TableExact' /\ RefsBalanced' /\ IdExact'
    BY <1>0, <1>1 DEF Agreement, TableExact, RefsBalanced, IdExact, vtableVars, apiVars
  <2> QED
    BY <2>1, <2>2 DEF IInv
<1>2. ASSUME unicc_init_already PROVE IInv'
  BY <1>1, <1>2, ReturnedType, Codes DEF unicc_init_already
<1>3. ASSUME NEW env \in Envs, unicc_init_path_too_long(env) PROVE IInv'
  BY <1>1, <1>3, ReturnedType, Codes DEF unicc_init_path_too_long
<1>4. ASSUME NEW env \in Envs, NEW host \in Hosts, unicc_init_load_fails(env, host)
      PROVE  IInv'
  <2>1. call' \in Call
    BY <1>4, ReturnedType, Codes DEF unicc_init_load_fails
  <2>2. TypeOK'
    BY <1>0, <1>4, <2>1 DEF TypeOK, vtableTypeOK, vtableVars, unicc_init_load_fails
  <2>3. Agreement' /\ TableExact' /\ RefsBalanced' /\ IdExact'
    BY <1>0, <1>4
    DEF Agreement, TableExact, RefsBalanced, IdExact, vtableVars, unicc_init_load_fails
  <2> QED
    BY <2>2, <2>3 DEF IInv
<1>5. ASSUME NEW env \in Envs, NEW host \in Hosts,
             g_state = UNICC_STATE_UNINIT, NEW lib \in Loads(env, host)
      PROVE  /\ lib.lib \in Lib /\ lib.opened \in Name /\ lib.reported \in Name
             /\ unicc = EmptyTable /\ s \in [Static -> Pointer \cup {NULL}]
             /\ refs \in [Lib -> Nat] /\ refs = [l \in Lib |-> 0]
  <2>1. unicc_loader_detect_backend(env) \in Name
    BY DetectType, ApiAssumption
  <2>2. lib.lib \in Lib /\ lib.opened \in Name /\ lib.reported \in Name
    BY <2>1, LoadType, ApiAssumption DEF Loads
  <2>3. g_handle = NULL /\ unicc = EmptyTable
    BY <1>0, <1>5 DEF Agreement, UNICC_STATE_INIT, UNICC_STATE_UNINIT
  <2>4. refs = [l \in Lib |-> 0]
    BY <1>0, <2>3, NullAssumption DEF RefsBalanced
  <2> QED
    BY <1>0, <2>2, <2>3, <2>4 DEF TypeOK, vtableTypeOK
<1>6. ASSUME NEW env \in Envs, NEW host \in Hosts, unicc_init_vtable_fails(env, host)
      PROVE  IInv'
  <2>1. PICK lib \in Loads(env, host) :
          /\ unicc_vtable_init_rc(lib.lib) # UNICC_OK
          /\ unicc_vtable_init(lib.lib)
          /\ refs' = unicc_platform_dlclose(unicc_platform_dlopen(refs, lib.lib), lib.lib)
          /\ g_lib_path' = ""
          /\ call' = Returned("unicc_init", unicc_vtable_init_rc(lib.lib), NULL)
          /\ UNCHANGED <<g_state, g_handle, g_last_backend_result, id, opened, lastFailure>>
    BY <1>6 DEF unicc_init_vtable_fails
  <2>2. g_state = UNICC_STATE_UNINIT
    BY <1>6 DEF unicc_init_vtable_fails, CanLoad
  <2>3. /\ lib.lib \in Lib /\ unicc = EmptyTable
        /\ s \in [Static -> Pointer \cup {NULL}] /\ refs \in [Lib -> Nat]
    BY <1>5, <2>2
  <2>4. /\ UNCHANGED <<unicc, g_backend_type, g_backend_handle>>
        /\ s' \in [Static -> Pointer \cup {NULL}]
    BY <2>1, <2>3, InitFails
  <2>5. refs' = refs
    BY <2>1, <2>3, OpenClose
  <2>6. call' \in Call
    BY <2>1, ReturnedType, Codes
  <2>7. TypeOK'
    BY <1>0, <2>1, <2>4, <2>5, <2>6 DEF TypeOK, vtableTypeOK
  <2>8. Agreement' /\ RefsBalanced' /\ IdExact'
    BY <1>0, <2>1, <2>4, <2>5 DEF Agreement, RefsBalanced, IdExact
  <2>9. TableExact'
    BY <2>1, <2>2 DEF TableExact, UNICC_STATE_INIT, UNICC_STATE_UNINIT
  <2> QED
    BY <2>7, <2>8, <2>9 DEF IInv
<1>7. ASSUME NEW env \in Envs, NEW host \in Hosts, unicc_init_succeeds(env, host)
      PROVE  IInv'
  <2>1. PICK lib \in Loads(env, host) :
          /\ unicc_vtable_init_rc(lib.lib) = UNICC_OK
          /\ unicc_vtable_init(lib.lib)
          /\ refs' = unicc_platform_dlopen(refs, lib.lib)
          /\ g_lib_path' = lib.reported
          /\ g_last_backend_result' = 0
          /\ g_handle' = lib.lib
          /\ g_state' = UNICC_STATE_INIT
          /\ opened' = lib.opened
          /\ lastFailure' = 0
          /\ call' = Returned("unicc_init", UNICC_OK, NULL)
          /\ UNCHANGED id
    BY <1>7 DEF unicc_init_succeeds
  <2>2. g_state = UNICC_STATE_UNINIT
    BY <1>7 DEF unicc_init_succeeds, CanLoad
  <2>3. /\ lib.lib \in Lib /\ lib.opened \in Name /\ lib.reported \in Name
        /\ unicc = EmptyTable /\ s \in [Static -> Pointer \cup {NULL}]
        /\ refs = [l \in Lib |-> 0]
    BY <1>5, <2>2
  <2> DEFINE type == unicc_loader_identify_backend(lib.lib)
             d    == family_of(type)
  <2>4. /\ type \in Family
        /\ g_backend_type' = type
        /\ g_backend_handle' = lib.lib
        /\ CoreResolves(lib.lib, d)
        /\ s' \in [Static -> Pointer \cup {NULL}]
        /\ unicc' \in [Slot -> SlotValue]
        /\ unicc' = BoundTable(lib.lib, d)
        /\ \A slot \in BoundSlot(d) :
             s'[SlotStatic(d, slot)] = dlsym(lib.lib, d.name, SlotSymbol[slot])
    BY <2>1, <2>3, InitBinds
  <2>5. refs' = [l \in Lib |-> IF lib.lib = l THEN 1 ELSE 0]
    BY <2>1, <2>3 DEF unicc_platform_dlopen
  <2> HIDE DEF type, d
  <2>6. call' \in Call
    BY <2>1, ReturnedType, Codes
  <2>7. TypeOK'
    <3>1. refs' \in [Lib -> Nat]
      BY <2>5
    <3>2. vtableTypeOK'
      BY <2>3, <2>4, <3>1, Zenon DEF vtableTypeOK
    <3>3. g_last_backend_result' \in Int /\ lastFailure' \in Int
      BY <2>1
    <3> QED
      BY <1>0, <2>1, <2>3, <2>6, <3>2, <3>3, Zenon DEF TypeOK
  <2>8. Agreement'
    BY <2>1, <2>3, <2>4 DEF Agreement, type
  <2>9. TableExact'
    BY <2>1, <2>4 DEF TableExact, d
  <2>10. RefsBalanced' /\ IdExact'
    BY <1>0, <2>1, <2>5 DEF RefsBalanced, IdExact
  <2> QED
    BY <2>7, <2>8, <2>9, <2>10 DEF IInv
<1>8. ASSUME NEW env \in Envs, NEW host \in Hosts, unicc_diagnose(env, host)
      PROVE  IInv'
  <2>1. refs \in [Lib -> Nat]
    BY <1>0 DEF TypeOK, vtableTypeOK
  <2>2. refs' = refs
    BY <1>8, <2>1, OpenClose DEF unicc_diagnose, unicc_diagnose_backend
  <2>3. call' \in Call
    BY <1>8, ReturnedType, Codes DEF unicc_diagnose
  <2> QED
    BY <1>1, <1>8, <2>2, <2>3 DEF unicc_diagnose
<1>9. ASSUME unicc_finalize PROVE IInv'
  <2>1. CASE g_state # UNICC_STATE_INIT
    BY <1>1, <1>9, <2>1, ReturnedType, Codes DEF unicc_finalize
  <2>2. CASE g_state = UNICC_STATE_INIT
    <3>1. /\ unicc_vtable_cleanup
          /\ refs' = unicc_platform_dlclose(refs, g_handle)
          /\ g_handle' = NULL
          /\ g_lib_path' = ""
          /\ g_last_backend_result' = 0
          /\ g_state' = UNICC_STATE_UNINIT
          /\ opened' = ""
          /\ lastFailure' = 0
          /\ call' = Returned("unicc_finalize", UNICC_OK, NULL)
          /\ UNCHANGED id
      BY <1>9, <2>2 DEF unicc_finalize
    <3>2. g_handle \in Lib
      BY <1>0, <2>2 DEF Agreement
    <3>3. refs' = [l \in Lib |-> 0]
      <4>1. refs = [l \in Lib |-> IF g_handle = l THEN 1 ELSE 0]
        BY <1>0 DEF RefsBalanced
      <4>2. refs' = [l \in Lib |-> IF l = g_handle THEN refs[l] - 1 ELSE refs[l]]
        BY <3>1, <4>1 DEF unicc_platform_dlclose
      <4>3. \A l \in Lib : (IF l = g_handle THEN refs[l] - 1 ELSE refs[l]) = 0
        BY <4>1
      <4> QED
        BY <4>2, <4>3
    <3>4. call' \in Call
      BY <3>1, ReturnedType, Codes
    <3>5. EmptyTable \in [Slot -> SlotValue]
      BY DEF EmptyTable, SlotValue
    <3>6. TypeOK'
      <4>1. refs' \in [Lib -> Nat]
        BY <3>3
      <4>2. vtableTypeOK'
        BY <1>0, <3>1, <3>5, <4>1, Zenon DEF TypeOK, vtableTypeOK, unicc_vtable_cleanup
      <4>3. g_last_backend_result' \in Int /\ lastFailure' \in Int
        <5>1. 0 \in Int
          OBVIOUS
        <5> QED
          BY <3>1, <5>1, Zenon
      <4> QED
        BY <1>0, <3>1, <3>4, <4>2, <4>3, Zenon DEF TypeOK
    <3>7. Agreement' /\ TableExact'
      BY <3>1
      DEF Agreement, TableExact, unicc_vtable_cleanup, UNICC_STATE_INIT, UNICC_STATE_UNINIT
    <3>8. RefsBalanced' /\ IdExact'
      BY <1>0, <3>1, <3>3, NullAssumption DEF RefsBalanced, IdExact
    <3> QED
      BY <3>6, <3>7, <3>8 DEF IInv
  <2> QED
    BY <2>1, <2>2
<1> QED
  BY <1>2, <1>3, <1>4, <1>6, <1>7, <1>8, <1>9 DEF Lifecycle

(* So does a step that changes nothing. *)
LEMMA StutterKeepsIInv ==
  ASSUME IInv, UNCHANGED vars
  PROVE  IInv'
<1> USE DEF IInv, vars, apiVars
<1>1. TypeOK'
  BY DEF TypeOK, vtableTypeOK
<1>2. Agreement' /\ TableExact' /\ RefsBalanced' /\ IdExact'
  BY DEF Agreement, TableExact, RefsBalanced, IdExact
<1> QED
  BY <1>1, <1>2

(* The invariant holds in every reachable state. *)
THEOREM Inductive == Spec => []IInv
<1>1. Init => IInv
  BY InitIInv
<1>2. IInv /\ [Next]_vars => IInv'
  BY LifecycleKeepsIInv, CallsKeepIInv, StutterKeepsIInv DEF Next
<1> QED
  BY <1>1, <1>2, PTL DEF Spec

-----------------------------------------------------------------------------
(* What the invariant implies.                                             *)

(* A slot of the live family is filled exactly when its symbol is exported. *)
LEMMA ExactSlot ==
  ASSUME IInv, g_state = UNICC_STATE_INIT, NEW slot \in Slot,
         slot \in BoundSlot(family_of(g_backend_type))
  PROVE  unicc[slot] # NULL <=> <<g_backend_type, SlotSymbol[slot]>> \in exports[g_handle]
<1> DEFINE d  == family_of(g_backend_type)
           fn == dlsym(g_handle, g_backend_type, SlotSymbol[slot])
<1>1. g_handle \in Lib /\ g_backend_type \in Family
  BY DEF IInv, Agreement
<1>2. d.name = g_backend_type
  BY <1>1, RowName
<1>3. SlotStatic(d, slot) \in Static
  BY <1>1, Routing
<1>4. SlotSymbol[slot] \in Suffix
  BY SlotSymbolType
<1>5. /\ fn \in Pointer \cup {NULL}
      /\ fn # NULL <=> <<g_backend_type, SlotSymbol[slot]>> \in exports[g_handle]
  BY <1>1, <1>4, DlsymType
<1> HIDE DEF d, fn
<1>6. unicc = BoundTable(g_handle, d)
  BY DEF IInv, TableExact, d
<1>7. unicc[slot] = Install(SlotStatic(d, slot), fn)
  BY <1>2, <1>6 DEF BoundTable, d, fn
<1> QED
  BY <1>3, <1>5, <1>7, InstallType

(* Filled slots end in the live library, with the right signature. *)
LEMMA ImpliesDispatchSafe == IInv => DispatchSafe
<1> SUFFICES ASSUME IInv, NEW slot \in Slot, unicc[slot] # NULL
             PROVE  /\ g_state = UNICC_STATE_INIT
                    /\ SlotSound(slot, g_handle, g_backend_type)
  BY DEF DispatchSafe
<1>1. g_state = UNICC_STATE_INIT
  BY DEF IInv, Agreement, EmptyTable
<1>2. g_handle \in Lib /\ g_backend_type \in Family
  BY <1>1 DEF IInv, Agreement
<1>3. /\ Target(slot) = dlsym(g_handle, g_backend_type, SlotSymbol[slot])
      /\ Target(slot) # NULL
      /\ unicc[slot].through = SlotStatic(family_of(g_backend_type), slot)
  BY <1>1, LiveSlot
<1>4. refs[g_handle] > 0
  BY <1>2 DEF IInv, RefsBalanced
<1>5. StaticSignature[unicc[slot].through]
        = NativeSignature(g_backend_type, SlotSymbol[slot])
  BY <1>2, <1>3, Routing
<1> QED
  BY <1>1, <1>3, <1>4, <1>5 DEF SlotSound

(* The places that say whether a backend is live agree. *)
LEMMA ImpliesLifecycleCoherent == IInv => LifecycleCoherent
<1> SUFFICES ASSUME IInv PROVE LifecycleCoherent
  OBVIOUS
<1>1. CASE g_state = UNICC_STATE_INIT
  <2>1. g_handle \in Lib /\ g_backend_type \in Family
    BY <1>1 DEF IInv, Agreement
  <2>2. ASSUME NEW slot \in Core PROVE unicc[slot] # NULL
    <3>1. slot \in Slot /\ slot \in BoundSlot(family_of(g_backend_type))
      BY DEF Core, Slot, BoundSlot
    <3>2. dlsym(g_handle, g_backend_type, SlotSymbol[slot]) # NULL
      BY <1>1, <2>1, RowName DEF IInv, TableExact, CoreResolves
    <3>3. SlotSymbol[slot] \in Suffix
      BY <3>1, SlotSymbolType
    <3> QED
      BY <1>1, <2>1, <3>1, <3>2, <3>3, ExactSlot, DlsymType
  <2> QED
    BY <1>1, <2>2 DEF IInv, Agreement, LifecycleCoherent
<1>2. CASE g_state # UNICC_STATE_INIT
  BY <1>2 DEF IInv, Agreement, LifecycleCoherent
<1> QED
  BY <1>1, <1>2

(* The gates are the exports of the live library. *)
LEMMA ImpliesGatesTruthful == IInv => GatesTruthful
<1> SUFFICES ASSUME IInv PROVE GatesTruthful
  OBVIOUS
<1>1. ASSUME NEW slot \in Slot, slot # "comm_user_rank"
      PROVE  Available(slot) <=> Backs(slot)
  <2>1. CASE g_state # UNICC_STATE_INIT
    BY <2>1 DEF Available, Backs
  <2>2. CASE g_state = UNICC_STATE_INIT
    <3>1. slot \in BoundSlot(family_of(g_backend_type))
      BY <1>1 DEF BoundSlot
    <3>2. g_backend_type \in Family
      BY <2>2 DEF IInv, Agreement
    <3>3. unicc_backend_name = g_backend_type
      BY <2>2, <3>2, RowName DEF unicc_backend_name
    <3>4. unicc[slot] # NULL <=> <<g_backend_type, SlotSymbol[slot]>> \in exports[g_handle]
      BY <2>2, <3>1, ExactSlot
    <3> QED
      BY <2>2, <3>3, <3>4 DEF Available, Backs
  <2> QED
    BY <2>1, <2>2
<1>2. /\ Available("get_unique_id") <=> Backs("get_unique_id")
      /\ Available("comm_init_rank") <=> Backs("comm_init_rank")
      /\ Available("allreduce") <=> Backs("allreduce")
      /\ Available("broadcast") <=> Backs("broadcast")
      /\ Available("group_start") <=> Backs("group_start")
      /\ Available("group_end") <=> Backs("group_end")
  BY <1>1 DEF Slot
<1> QED
  BY <1>2
  DEF GatesTruthful, unicc_get_unique_id_available, unicc_comm_available,
      unicc_allreduce_available, unicc_broadcast_available,
      unicc_group_start_available, unicc_group_end_available

(* The highest probed row decides, so NCCL is the last resort. *)
LEMMA ImpliesNeverMisidentified == IInv => NeverMisidentifiedAsNccl
<1> SUFFICES ASSUME IInv, unicc_backend_name = "nccl"
             PROVE  \A fam \in Family \ {"nccl"} :
                      <<fam, "GetVersion">> \notin exports[g_handle]
  BY DEF NeverMisidentifiedAsNccl
<1>1. g_state = UNICC_STATE_INIT
  BY DEF unicc_backend_name, UNICC_BACKEND_UNKNOWN
<1>2. /\ g_handle \in Lib /\ g_backend_type \in Family
      /\ g_backend_type = unicc_loader_identify_backend(g_handle)
  BY <1>1 DEF IInv, Agreement
<1>3. g_backend_type = "nccl"
  BY <1>1, <1>2, RowName DEF unicc_backend_name
<1> QED
  BY <1>2, <1>3, Identification DEF UNICC_BACKEND_UNKNOWN

(* The live family's ids have the length that its adapter takes. *)
LEMMA ImpliesIdRoundTrip == IInv => IdRoundTrip
<1> SUFFICES ASSUME IInv, g_state = UNICC_STATE_INIT, id.minted = g_backend_type
             PROVE  /\ id.len = AdapterBytes(unicc["comm_init_rank"].through)
                    /\ id.len = family_of(g_backend_type).uid_bytes
  BY DEF IdRoundTrip
<1>1. g_backend_type \in Family
  BY DEF IInv, Agreement
<1>2. id.len = IdBytes(g_backend_type)
  BY <1>1 DEF IInv, IdExact
<1>3. "comm_init_rank" \in Core /\ "comm_init_rank" \in Slot
  BY DEF Core, Slot
<1>4. unicc["comm_init_rank"] # NULL
  BY <1>3, ImpliesLifecycleCoherent DEF LifecycleCoherent
<1>5. unicc["comm_init_rank"].through = SlotStatic(family_of(g_backend_type), "comm_init_rank")
  BY <1>3, <1>4, LiveSlot
<1> QED
  BY <1>1, <1>2, <1>5, IdLengths

-----------------------------------------------------------------------------
(* The theorems.                                                           *)

(* Every variable of the API, the loader and the binder keeps its type;    *)
(* in particular no library is ever closed more often than opened.         *)
THEOREM TypeCorrect == Spec => []TypeOK
<1>1. IInv => TypeOK
  BY DEF IInv
<1> QED
  BY <1>1, Inductive, PTL

(* unicc_api.c and unicc_vtable.c never disagree on the live backend.      *)
THEOREM Coherence == Spec => []LifecycleCoherent
BY ImpliesLifecycleCoherent, Inductive, PTL

(* Whatever libraries are loaded in whatever order, a call dispatched      *)
(* through the table runs the right function of the live library with the  *)
(* right signature.                                                        *)
THEOREM Dispatch_Safe == Spec => []DispatchSafe
BY ImpliesDispatchSafe, Inductive, PTL

(* Every dlopen is matched by exactly one dlclose, on every path.          *)
THEOREM Refs_Balanced == Spec => []RefsBalanced
<1>1. IInv => RefsBalanced
  BY DEF IInv
<1> QED
  BY <1>1, Inductive, PTL

(* The *_available() gates say exactly what the live library exports.      *)
THEOREM Gates_Truthful == Spec => []GatesTruthful
BY ImpliesGatesTruthful, Inductive, PTL

(* A library with another family's probe symbol is never driven as NCCL.   *)
THEOREM Never_Misidentified == Spec => []NeverMisidentifiedAsNccl
BY ImpliesNeverMisidentified, Inductive, PTL

(* The live backend's own id always has the length it insists on.          *)
THEOREM Id_Round_Trip == Spec => []IdRoundTrip
BY ImpliesIdRoundTrip, Inductive, PTL

(* A step that begins and ends with a live backend leaves the table, its   *)
(* statics, the counts, the handle and the reported path alone.            *)
THEOREM Dispatch_Stable == Spec => DispatchStable
<1> DEFINE Stable == UNCHANGED <<vtableVars, refs, g_handle, g_lib_path>>
<1>1. ASSUME IInv, [Next]_vars, unicc_is_initialized, unicc_is_initialized'
      PROVE  Stable
  <2>1. g_state = UNICC_STATE_INIT /\ g_state' = UNICC_STATE_INIT
    BY <1>1 DEF unicc_is_initialized
  <2>2. UNICC_STATE_INIT # UNICC_STATE_UNINIT
    BY DEF UNICC_STATE_INIT, UNICC_STATE_UNINIT
  <2>3. CASE UNCHANGED vars
    BY <2>3 DEF vars, vtableVars, apiVars
  <2>4. CASE Calls
    <3>1. TypeOK
      BY <1>1 DEF IInv
    <3> QED
      BY <2>4, <3>1, CallFrame DEF vtableVars
  <2>5. CASE Lifecycle
    <3>1. CASE unicc_init_already
      BY <3>1 DEF unicc_init_already, apiVars
    <3>2. CASE \E env \in Envs : unicc_init_path_too_long(env)
      BY <2>1, <2>2, <3>2 DEF unicc_init_path_too_long
    <3>3. ASSUME NEW env \in Envs, NEW host \in Hosts,
                 \/ unicc_init_load_fails(env, host)
                 \/ unicc_init_vtable_fails(env, host)
                 \/ unicc_init_succeeds(env, host)
          PROVE  FALSE
      BY <2>1, <2>2, <3>3
      DEF unicc_init_load_fails, unicc_init_vtable_fails, unicc_init_succeeds, CanLoad
    <3>4. ASSUME NEW env \in Envs, NEW host \in Hosts, unicc_diagnose(env, host)
          PROVE  Stable
      <4>1. refs \in [Lib -> Nat]
        BY <1>1 DEF IInv, TypeOK, vtableTypeOK
      <4>2. refs' = refs
        BY <3>4, <4>1, OpenClose DEF unicc_diagnose, unicc_diagnose_backend
      <4> QED
        BY <3>4, <4>2 DEF unicc_diagnose, apiVars
    <3>5. CASE unicc_finalize
      BY <2>1, <2>2, <3>5 DEF unicc_finalize
    <3> QED
      BY <2>5, <3>1, <3>2, <3>3, <3>4, <3>5 DEF Lifecycle
  <2> QED
    BY <1>1, <2>3, <2>4, <2>5 DEF Next
<1>2. IInv /\ [Next]_vars =>
        [unicc_is_initialized /\ unicc_is_initialized' => Stable]_vars
  BY <1>1
<1> QED
  BY <1>2, Inductive, PTL DEF Spec, DispatchStable

(* A lifecycle call runs no native function through the table. *)
LEMMA LifecycleCall ==
  ASSUME Lifecycle
  PROVE  \E op \in {"unicc_init", "unicc_finalize", "unicc_diagnose"} :
           \E rc : call' = Returned(op, rc, NULL)
BY DEF Lifecycle, unicc_init_already, unicc_init_path_too_long, unicc_init_load_fails,
       unicc_init_vtable_fails, unicc_init_succeeds, unicc_finalize, unicc_diagnose

(* An id of another length than the backend's own never reaches it.        *)
THEOREM Id_Never_Misread == Spec => []IdNeverMisread
<1>1. Init => IdNeverMisread
  <2>1. Init => call = Returned("unicc_finalize", UNICC_OK, NULL)
    BY Zenon DEF Init
  <2> QED
    BY <2>1 DEF IdNeverMisread, Returned
<1>2. ASSUME IInv, Lifecycle PROVE IdNeverMisread'
  BY <1>2, LifecycleCall DEF IdNeverMisread, Returned
<1>3. ASSUME IInv, Calls PROVE IdNeverMisread'
  <2>1. CASE CallRefused
    BY <2>1 DEF CallRefused, Refused, IdNeverMisread, Returned
  <2>2. CASE CallRuns
    BY <2>2 DEF CallRuns, Runs, IdNeverMisread
  <2>3. CASE CallMints
    BY <2>3 DEF CallMints, Runs, IdNeverMisread
  <2>4. CASE CallWrongLength
    BY <2>4 DEF CallWrongLength, IdNeverMisread, Returned
  <2>5. CASE CallJoins
    <3>1. PICK ok \in BOOLEAN, i \in CommId, raw \in BackendResults :
            /\ Runs("comm_init_rank", ok, i, raw)
            /\ i.len = AdapterBytes(unicc["comm_init_rank"].through)
      BY <2>5 DEF CallJoins
    <3>2. g_state = UNICC_STATE_INIT /\ unicc["comm_init_rank"] # NULL
      BY <3>1, GoesThrough DEF Runs
    <3>3. "comm_init_rank" \in Slot
      BY DEF Slot
    <3>4. /\ Target("comm_init_rank").fam = g_backend_type
          /\ unicc["comm_init_rank"].through =
               SlotStatic(family_of(g_backend_type), "comm_init_rank")
      BY <1>3, <3>2, <3>3, LiveSlot
    <3>5. g_backend_type \in Family
      BY <1>3, <3>2 DEF IInv, Agreement
    <3>6. i.len = IdBytes(g_backend_type)
      BY <3>1, <3>4, <3>5, IdLengths
    <3>7. call'.id = i /\ call'.ran = Target("comm_init_rank")
      BY <3>1 DEF Runs
    <3> QED
      BY <3>4, <3>6, <3>7 DEF IdNeverMisread
  <2>6. TypeOK
    BY <1>3 DEF IInv
  <2> QED
    BY <1>3, <2>1, <2>2, <2>3, <2>4, <2>5, <2>6, CallCases
<1>4. IdNeverMisread /\ UNCHANGED vars => IdNeverMisread'
  BY DEF IdNeverMisread, vars
<1>5. IInv /\ IdNeverMisread /\ [Next]_vars => IdNeverMisread'
  BY <1>2, <1>3, <1>4 DEF Next
<1> QED
  BY <1>1, <1>5, Inductive, PTL DEF Spec

(* Where no backend result is negative, the raw result reported by         *)
(* unicc_get_last_error is the last failure of this lifecycle.             *)
THEOREM Last_Error_Exact ==
  ASSUME BackendResults \subseteq Nat
  PROVE  Spec => []LastErrorExact
<1>1. Init => LastErrorExact
  BY DEF Init, LastErrorExact, unicc_get_last_error
<1>2. ASSUME LastErrorExact, Lifecycle PROVE LastErrorExact'
  BY <1>2
  DEF Lifecycle, unicc_init_already, unicc_init_path_too_long, unicc_init_load_fails,
      unicc_init_vtable_fails, unicc_init_succeeds, unicc_finalize, unicc_diagnose,
      LastErrorExact, unicc_get_last_error, apiVars
<1>3. ASSUME NEW op, NEW ok, NEW i, NEW raw \in BackendResults, Runs(op, ok, i, raw),
             LastErrorExact
      PROVE  LastErrorExact'
  <2>1. CASE raw = 0
    BY <1>3, <2>1 DEF Runs, map_backend_result, LastErrorExact, unicc_get_last_error
  <2>2. CASE raw # 0
    <3>1. raw > 0
      BY <2>2
    <3> QED
      BY <1>3, <2>2, <3>1 DEF Runs, map_backend_result, LastErrorExact, unicc_get_last_error
  <2> QED
    BY <2>1, <2>2
<1>4. ASSUME IInv, LastErrorExact, Calls PROVE LastErrorExact'
  <2>1. CASE CallRefused
    BY <1>4, <2>1 DEF CallRefused, Refused, LastErrorExact, unicc_get_last_error, apiVars
  <2>2. CASE CallRuns
    BY <1>3, <1>4, <2>2 DEF CallRuns
  <2>3. CASE CallMints
    BY <1>3, <1>4, <2>3 DEF CallMints
  <2>4. CASE CallWrongLength
    BY <1>4, <2>4 DEF CallWrongLength, LastErrorExact, unicc_get_last_error, apiVars
  <2>5. CASE CallJoins
    BY <1>3, <1>4, <2>5 DEF CallJoins
  <2>6. TypeOK
    BY <1>4 DEF IInv
  <2> QED
    BY <1>4, <2>1, <2>2, <2>3, <2>4, <2>5, <2>6, CallCases
<1>5. LastErrorExact /\ UNCHANGED vars => LastErrorExact'
  BY DEF LastErrorExact, unicc_get_last_error, vars, apiVars
<1>6. IInv /\ LastErrorExact /\ [Next]_vars => LastErrorExact'
  BY <1>2, <1>4, <1>5 DEF Next
<1> QED
  BY <1>1, <1>6, Inductive, PTL DEF Spec

(* Where no backend result is negative, the unified code of every call     *)
(* tells whether a backend function ran and whether it failed.             *)
THEOREM Results_Honest ==
  ASSUME BackendResults \subseteq Nat
  PROVE  Spec => []ResultsHonest
<1>1. Init => ResultsHonest
  <2>1. Init => call = Returned("unicc_finalize", UNICC_OK, NULL)
    BY Zenon DEF Init
  <2> QED
    BY <2>1 DEF ResultsHonest, Returned, Slot
<1>2. ASSUME Lifecycle PROVE ResultsHonest'
  BY <1>2, LifecycleCall DEF ResultsHonest, Returned, Slot
<1>3. UNICC_OK # UNICC_ERR_UNHANDLED_BACKEND
  BY DEF UNICC_OK, UNICC_ERR_UNHANDLED_BACKEND
<1>4. ASSUME IInv, NEW op \in Slot, NEW ok \in BOOLEAN, NEW i, NEW raw \in BackendResults,
             Runs(op, ok, i, raw)
      PROVE  ResultsHonest'
  <2>1. Target(op) # NULL
    BY <1>4, GoesThrough, LiveSlot DEF Runs
  <2>2. call' = [op |-> op, rc |-> map_backend_result(raw).code,
                 ran |-> Target(op), raw |-> raw, id |-> i]
        /\ g_last_backend_result' = map_backend_result(raw).last
    BY <1>4 DEF Runs
  <2>3. CASE raw = 0
    <3>1. map_backend_result(raw).code = UNICC_OK
      BY <2>3 DEF map_backend_result
    <3> QED
      BY <1>3, <2>1, <2>2, <2>3, <3>1 DEF ResultsHonest
  <2>4. CASE raw # 0
    <3>1. raw > 0
      BY <2>4
    <3>2. /\ map_backend_result(raw).code = UNICC_ERR_UNHANDLED_BACKEND
          /\ map_backend_result(raw).last = raw
      BY <3>1 DEF map_backend_result
    <3> QED
      BY <1>3, <2>1, <2>2, <2>4, <3>2 DEF ResultsHonest, unicc_get_last_error
  <2> QED
    BY <2>3, <2>4
<1>5. \A op, ok : Refusal(op, ok) # UNICC_ERR_UNHANDLED_BACKEND
  BY DEF Refusal, UNICC_OK, UNICC_ERR_NOT_INITIALIZED, UNICC_ERR_NOT_SUPPORTED,
         UNICC_ERR_INVALID_ARGUMENT, UNICC_ERR_UNHANDLED_BACKEND
<1>6. ASSUME IInv, Calls PROVE ResultsHonest'
  <2>1. CASE CallRefused
    BY <1>5, <2>1 DEF CallRefused, Refused, ResultsHonest, Returned
  <2>2. CASE CallRuns
    BY <1>4, <1>6, <2>2 DEF CallRuns
  <2>3. CASE CallMints
    BY <1>4, <1>6, <2>3 DEF CallMints, Slot
  <2>4. CASE CallWrongLength
    BY <2>4
    DEF CallWrongLength, ResultsHonest, Returned, UNICC_OK, UNICC_ERR_UNHANDLED_BACKEND,
        UNICC_ERR_INVALID_ARGUMENT
  <2>5. CASE CallJoins
    BY <1>4, <1>6, <2>5 DEF CallJoins, Slot
  <2>6. TypeOK
    BY <1>6 DEF IInv
  <2> QED
    BY <1>6, <2>1, <2>2, <2>3, <2>4, <2>5, <2>6, CallCases
<1>7. ResultsHonest /\ UNCHANGED vars => ResultsHonest'
  BY DEF ResultsHonest, unicc_get_last_error, vars, apiVars
<1>8. IInv /\ ResultsHonest /\ [Next]_vars => ResultsHonest'
  BY <1>2, <1>6, <1>7 DEF Next
<1> QED
  BY <1>1, <1>8, Inductive, PTL DEF Spec

(* Everywhere but on macOS, whose third fallback reports from a dead       *)
(* buffer, the reported path is the name that dlopen accepted.             *)
THEOREM Library_Path_Is_Loaded ==
  ASSUME Platform # "macos"
  PROVE  Spec => []LibraryPathIsLoaded
<1> USE DEF LibraryPathIsLoaded, unicc_get_library_path, unicc_is_initialized
<1>1. Init => LibraryPathIsLoaded
  BY Zenon DEF Init
<1>2. ASSUME NEW host, NEW path, NEW o \in unicc_loader_load(host, path)
      PROVE  o.reported = o.opened
  BY DEF unicc_loader_load, Opens
<1>3. ASSUME LibraryPathIsLoaded, IInv, Lifecycle PROVE LibraryPathIsLoaded'
  <2>1. CASE unicc_init_already \/ (\E env \in Envs : unicc_init_path_too_long(env))
    BY <1>3, <2>1 DEF unicc_init_already, unicc_init_path_too_long, apiVars
  <2>2. ASSUME NEW env \in Envs, NEW host \in Hosts,
               unicc_init_load_fails(env, host) \/ unicc_init_vtable_fails(env, host)
        PROVE  LibraryPathIsLoaded'
    <3>1. g_lib_path' = "" /\ opened' = opened /\ g_state = UNICC_STATE_UNINIT
      BY <2>2 DEF unicc_init_load_fails, unicc_init_vtable_fails, CanLoad
    <3>2. opened = ""
      BY <1>3, <3>1 DEF UNICC_STATE_UNINIT, UNICC_STATE_INIT
    <3> QED
      BY <3>1, <3>2
  <2>3. ASSUME NEW env \in Envs, NEW host \in Hosts, unicc_init_succeeds(env, host)
        PROVE  LibraryPathIsLoaded'
    BY <1>2, <2>3 DEF unicc_init_succeeds, Loads
  <2>4. ASSUME NEW env \in Envs, NEW host \in Hosts, unicc_diagnose(env, host)
        PROVE  LibraryPathIsLoaded'
    BY <1>3, <2>4 DEF unicc_diagnose, apiVars
  <2>5. CASE unicc_finalize
    BY <1>3, <2>5 DEF unicc_finalize, apiVars
  <2> QED
    BY <1>3, <2>1, <2>2, <2>3, <2>4, <2>5 DEF Lifecycle
<1>4. ASSUME LibraryPathIsLoaded, IInv, Calls PROVE LibraryPathIsLoaded'
  BY <1>4, CallFrame DEF IInv
<1>5. LibraryPathIsLoaded /\ UNCHANGED vars => LibraryPathIsLoaded'
  BY DEF vars, apiVars
<1>6. IInv /\ LibraryPathIsLoaded /\ [Next]_vars => LibraryPathIsLoaded'
  BY <1>3, <1>4, <1>5 DEF Next
<1> QED
  BY <1>1, <1>6, Inductive, PTL DEF Spec

=============================================================================
