-------------------------- MODULE UniccServiceProofs --------------------------
(***************************************************************************)
(* UniccApi implements UniccService: the table, the statics, the adapters  *)
(* and the handles together are, for a caller, one live library whose own  *)
(* functions run.  The step simulation rests on the inductive invariant of *)
(* UniccApiProofs, which ties every filled slot to the live library.       *)
(***************************************************************************)
EXTENDS UniccApiProofs

(* The abstract state, as UniccApi maps to it. *)
live == IF g_state = UNICC_STATE_INIT
        THEN [lib |-> g_handle, fam |-> g_backend_type] ELSE NULL
done == [op |-> call.op, rc |-> call.rc, ran |-> call.ran, raw |-> call.raw]

(* The static facts that both levels share are the same. *)
LEMMA SameFacts ==
  /\ Service!Family = Family /\ Service!Slot = Slot /\ Service!SlotSymbol = SlotSymbol
  /\ \A type : Service!family_of(type) = family_of(type)
  /\ \A l : Service!unicc_loader_identify_backend(l) = unicc_loader_identify_backend(l)
  /\ Service!unicc_loader_check_platform_support = unicc_loader_check_platform_support
<1>1. Service!unicc_backends = unicc_backends /\ Service!Row = Row
  BY DEF Service!unicc_backends, unicc_backends, Service!Row, Row,
         Service!UNICC_MAX_BACKENDS, UNICC_MAX_BACKENDS,
         Service!UNICC_ONECCL_UNIQUE_ID_BYTES, UNICC_ONECCL_UNIQUE_ID_BYTES
<1>2. Service!Family = Family /\ Service!Slot = Slot /\ Service!SlotSymbol = SlotSymbol
  BY DEF Service!Family, Family, Service!Slot, Slot, Service!SlotSymbol, SlotSymbol
<1>3. \A type : Service!family_of(type) = family_of(type)
  BY <1>1, Zenon DEF Service!family_of, family_of
<1>4. \A l : Service!Probed(l) = Probed(l)
  BY <1>1, Zenon DEF Service!Probed, Probed, Service!dlsym, dlsym
<1>5. ASSUME NEW l
      PROVE  Service!unicc_loader_identify_backend(l) = unicc_loader_identify_backend(l)
  <2> DEFINE Last(S) == CHOOSE i \in S : \A j \in S : j <= i
  <2>1. Service!unicc_loader_identify_backend(l) =
          IF Service!Probed(l) = {} THEN UNICC_BACKEND_UNKNOWN
          ELSE Service!unicc_backends[Last(Service!Probed(l))].name
    BY Zenon DEF Service!unicc_loader_identify_backend,
       Service!UNICC_BACKEND_UNKNOWN, UNICC_BACKEND_UNKNOWN
  <2>2. unicc_loader_identify_backend(l) =
          IF Probed(l) = {} THEN UNICC_BACKEND_UNKNOWN
          ELSE unicc_backends[Last(Probed(l))].name
    BY Zenon DEF unicc_loader_identify_backend
  <2> HIDE DEF Last
  <2> QED
    BY <1>1, <1>4, <2>1, <2>2, Zenon
<1>6. Service!unicc_loader_check_platform_support = unicc_loader_check_platform_support
  BY DEF Service!unicc_loader_check_platform_support, unicc_loader_check_platform_support,
     Service!UNICC_OK, UNICC_OK,
     Service!UNICC_ERR_BACKEND_NOT_SUPPORTED, UNICC_ERR_BACKEND_NOT_SUPPORTED
<1> QED
  BY <1>2, <1>3, <1>5, <1>6

-----------------------------------------------------------------------------
(* Under the invariant a backend is live exactly while g_state says so.    *)
LEMMA LiveType ==
  ASSUME IInv
  PROVE  /\ g_state = UNICC_STATE_INIT => /\ live # NULL
                                         /\ live \in [lib : Lib, fam : Family]
         /\ g_state # UNICC_STATE_INIT => live = NULL
BY ApiAssumption DEF IInv, Agreement, live

(* A slot is filled exactly when the live library has the operation.       *)
LEMMA SlotServed ==
  ASSUME IInv, g_state = UNICC_STATE_INIT, NEW slot \in Slot
  PROVE  unicc[slot] # NULL <=> Service!Exports(live, slot)
<1> DEFINE d == family_of(g_backend_type)
<1>1. live.lib = g_handle /\ live.fam = g_backend_type
  BY DEF live
<1>2. Service!Exports(live, slot) <=>
        /\ slot = "comm_user_rank" => d.has_comm_user_rank
        /\ <<g_backend_type, SlotSymbol[slot]>> \in exports[g_handle]
  BY <1>1, SameFacts, Zenon DEF Service!Exports
<1>3. CASE slot \in BoundSlot(d)
  BY <1>2, <1>3, ExactSlot DEF BoundSlot
<1>4. CASE slot \notin BoundSlot(d)
  <2>1. unicc[slot] = NULL
    BY <1>4 DEF IInv, TableExact, BoundTable
  <2> QED
    BY <1>2, <1>4, <2>1 DEF BoundSlot
<1> QED
  BY <1>3, <1>4

(* The core of the service is the core of the table. *)
LEMMA BoundIsUsable ==
  ASSUME NEW l \in Lib, unicc_vtable_init_rc(l) = UNICC_OK
  PROVE  LET b == [lib |-> l, fam |-> unicc_loader_identify_backend(l)]
         IN  b \in [lib : Lib, fam : Family] /\ Service!Usable(b)
<1> DEFINE type == unicc_loader_identify_backend(l)
           b    == [lib |-> l, fam |-> type]
<1>1. /\ type # UNICC_BACKEND_UNKNOWN
      /\ unicc_loader_check_platform_support = UNICC_OK
      /\ CoreResolves(l, family_of(type))
  BY DEF unicc_vtable_init_rc, UNICC_OK, UNICC_ERR_SYMBOL_NOT_FOUND
<1>2. type \in Family
  BY <1>1, Identification
<1>3. ASSUME NEW slot \in Core PROVE <<type, SlotSymbol[slot]>> \in exports[l]
  BY <1>1, <1>2, RowName, CoreSlots, SlotSymbolType, DlsymType DEF CoreResolves
<1>4. b.lib = l /\ b.fam = type /\ b \in [lib : Lib, fam : Family]
  BY <1>2
<1> HIDE DEF type, b
<1>5. ASSUME NEW slot \in Core PROVE Service!Exports(b, slot)
  BY <1>3, <1>4, SameFacts DEF Service!Exports, Core
<1>6. Service!Usable(b)
  BY <1>1, <1>2, <1>4, <1>5, SameFacts
  DEF Service!Usable, Core, type, Service!UNICC_OK, UNICC_OK
<1> QED
  BY <1>4, <1>6 DEF b, type

-----------------------------------------------------------------------------
(* Each way out of a lifecycle call is one of the service's.               *)
LEMMA LifecycleImplements ==
  ASSUME IInv, IInv', Lifecycle
  PROVE  Service!ServiceNext
<1> USE DEF live, UNICC_STATE_INIT, UNICC_STATE_UNINIT
<1>0. /\ g_state = UNICC_STATE_INIT => live # NULL
      /\ g_state # UNICC_STATE_INIT => live = NULL
  BY LiveType
<1>1. ASSUME unicc_init_already PROVE Service!StayDown
  BY <1>0, <1>1
  DEF unicc_init_already, Service!StayDown, Returned, vtableVars, apiVars,
      Service!UNICC_ERR_ALREADY_INITIALIZED, UNICC_ERR_ALREADY_INITIALIZED
<1>2. ASSUME NEW env \in Envs, unicc_init_path_too_long(env) PROVE Service!StayDown
  BY <1>0, <1>2
  DEF unicc_init_path_too_long, Service!StayDown, Returned, vtableVars, apiVars,
      Service!UNICC_ERR_INVALID_ARGUMENT, UNICC_ERR_INVALID_ARGUMENT
<1>3. ASSUME NEW env \in Envs, NEW host \in Hosts, unicc_init_load_fails(env, host)
      PROVE  Service!StayDown
  BY <1>0, <1>3
  DEF unicc_init_load_fails, CanLoad, Service!StayDown, Returned, vtableVars,
      Service!UNICC_ERR_NO_BACKEND, UNICC_ERR_NO_BACKEND,
      Service!UNICC_ERR_BACKEND_LOAD, UNICC_ERR_BACKEND_LOAD
<1>4. ASSUME NEW env \in Envs, NEW host \in Hosts, unicc_init_vtable_fails(env, host)
      PROVE  Service!StayDown
  <2>1. PICK lib \in Loads(env, host) :
          /\ unicc_vtable_init_rc(lib.lib) # UNICC_OK
          /\ call' = Returned("unicc_init", unicc_vtable_init_rc(lib.lib), NULL)
    BY <1>4 DEF unicc_init_vtable_fails
  <2>2. unicc_vtable_init_rc(lib.lib) \in
          {UNICC_ERR_SYMBOL_NOT_FOUND, UNICC_ERR_BACKEND_NOT_SUPPORTED}
    BY <2>1 DEF unicc_vtable_init_rc, unicc_loader_check_platform_support
  <2>3. /\ g_state = UNICC_STATE_UNINIT
        /\ UNCHANGED <<g_state, g_handle, g_last_backend_result>>
    BY <1>4 DEF unicc_init_vtable_fails, CanLoad
  <2>4. live = NULL /\ live' = NULL
    BY <1>0, <2>3
  <2> HIDE DEF live
  <2> QED
    BY <2>1, <2>2, <2>3, <2>4
    DEF Service!StayDown, Returned, live,
        Service!UNICC_ERR_SYMBOL_NOT_FOUND, UNICC_ERR_SYMBOL_NOT_FOUND,
        Service!UNICC_ERR_BACKEND_NOT_SUPPORTED, UNICC_ERR_BACKEND_NOT_SUPPORTED
<1>5. ASSUME NEW env \in Envs, NEW host \in Hosts, unicc_init_succeeds(env, host)
      PROVE  Service!GoLive
  <2>1. PICK lib \in Loads(env, host) :
          /\ unicc_vtable_init_rc(lib.lib) = UNICC_OK
          /\ unicc_vtable_init(lib.lib)
          /\ g_handle' = lib.lib /\ g_state' = UNICC_STATE_INIT
          /\ g_last_backend_result' = 0
          /\ call' = Returned("unicc_init", UNICC_OK, NULL)
    BY <1>5 DEF unicc_init_succeeds
  <2>2. lib.lib \in Lib
    BY <1>5, <2>1, ApiAssumption, DetectType, LoadType DEF Loads
  <2>3. g_backend_type' = unicc_loader_identify_backend(lib.lib)
    BY <2>1, Zenon DEF unicc_vtable_init
  <2>4. live' = [lib |-> lib.lib, fam |-> unicc_loader_identify_backend(lib.lib)]
    BY <2>1, <2>3
  <2>5. live = NULL
    BY <1>0, <1>5 DEF unicc_init_succeeds, CanLoad
  <2>6. live' \in [lib : Lib, fam : Family] /\ Service!Usable(live')
    BY <2>1, <2>2, <2>4, BoundIsUsable
  <2> QED
    BY <2>1, <2>5, <2>6, SameFacts
    DEF Service!GoLive, Service!Done, Returned, Service!UNICC_OK, UNICC_OK
<1>6. ASSUME unicc_finalize PROVE Service!Stop
  <2>1. CASE g_state # UNICC_STATE_INIT
    <3>1. /\ UNCHANGED <<g_state, g_last_backend_result>>
          /\ call' = Returned("unicc_finalize", UNICC_ERR_NOT_INITIALIZED, NULL)
      BY <1>6, <2>1, Zenon DEF unicc_finalize, apiVars
    <3> QED
      BY <1>0, <2>1, <3>1
      DEF Service!Stop, Service!Done, Returned,
          Service!UNICC_ERR_NOT_INITIALIZED, UNICC_ERR_NOT_INITIALIZED
  <2>2. CASE g_state = UNICC_STATE_INIT
    <3>1. /\ g_state' = UNICC_STATE_UNINIT
          /\ g_last_backend_result' = 0
          /\ call' = Returned("unicc_finalize", UNICC_OK, NULL)
      BY <1>6, <2>2 DEF unicc_finalize
    <3> QED
      BY <1>0, <2>2, <3>1
      DEF Service!Stop, Service!Done, Returned, Service!UNICC_OK, UNICC_OK
  <2> QED
    BY <2>1, <2>2
<1>7. ASSUME NEW env \in Envs, NEW host \in Hosts, unicc_diagnose(env, host)
      PROVE  Service!Diagnose
  BY <1>7
  DEF unicc_diagnose, Service!Diagnose, Service!Done, Returned, vtableVars, apiVars,
      Service!UNICC_OK, UNICC_OK
<1> QED
  BY <1>1, <1>2, <1>3, <1>4, <1>5, <1>6, <1>7, Zenon DEF Lifecycle, Service!ServiceNext

(* A refused call refuses in the service, for the same reason.             *)
LEMMA RefusedImplements ==
  ASSUME IInv, NEW op \in Slot, NEW ok \in BOOLEAN, NEW i, Refused(op, ok, i)
  PROVE  Service!Refuse(op)
<1>1. UNCHANGED <<live, g_last_backend_result>>
  BY DEF Refused, vtableVars, apiVars, live
<1>2. done' = [op |-> op, rc |-> Refusal(op, ok), ran |-> NULL, raw |-> 0]
  BY DEF Refused, Returned, done
<1>3. Refusal(op, ok) =
        IF live = NULL THEN Service!UNICC_ERR_NOT_INITIALIZED
        ELSE IF ~Service!Exports(live, op) THEN Service!UNICC_ERR_NOT_SUPPORTED
             ELSE Service!UNICC_ERR_INVALID_ARGUMENT
  BY LiveType, SlotServed
  DEF Refused, Refusal, UNICC_OK,
      Service!UNICC_ERR_NOT_INITIALIZED, UNICC_ERR_NOT_INITIALIZED,
      Service!UNICC_ERR_NOT_SUPPORTED, UNICC_ERR_NOT_SUPPORTED,
      Service!UNICC_ERR_INVALID_ARGUMENT, UNICC_ERR_INVALID_ARGUMENT
<1> QED
  BY <1>1, <1>2, <1>3 DEF Service!Refuse, live, done

(* A call that runs runs the live library's own function of that name.     *)
LEMMA RunsImplement ==
  ASSUME IInv, NEW op \in Slot, NEW ok \in BOOLEAN, NEW i, NEW raw \in BackendResults,
         Runs(op, ok, i, raw)
  PROVE  Service!Serve(op)
<1>1. g_state = UNICC_STATE_INIT /\ unicc[op] # NULL
  BY GoesThrough DEF Runs
<1>2. live # NULL /\ Service!Exports(live, op)
  BY <1>1, LiveType, SlotServed
<1>3. Target(op) = [lib |-> live.lib, fam |-> live.fam, suf |-> SlotSymbol[op]]
  BY <1>1, LiveSlot DEF live, dlsym
<1>4. /\ UNCHANGED live
      /\ done' = [op |-> op, rc |-> map_backend_result(raw).code,
                  ran |-> Target(op), raw |-> raw]
      /\ g_last_backend_result' = map_backend_result(raw).last
  BY DEF Runs, vtableVars, live, done
<1>5. /\ map_backend_result(raw).code =
           CASE raw = 0 -> Service!UNICC_OK
             [] raw > 0 -> Service!UNICC_ERR_UNHANDLED_BACKEND
             [] OTHER   -> raw
      /\ map_backend_result(raw).last = IF raw > 0 THEN raw ELSE g_last_backend_result
  BY ApiAssumption
  DEF map_backend_result, Service!UNICC_OK, UNICC_OK,
      Service!UNICC_ERR_UNHANDLED_BACKEND, UNICC_ERR_UNHANDLED_BACKEND
<1> QED
  BY <1>2, <1>3, <1>4, <1>5, SameFacts DEF Service!Serve, Service!Done, live, done

(* So every call is a refusal or a service. *)
LEMMA CallsImplement ==
  ASSUME IInv, Calls
  PROVE  Service!ServiceNext
<1> USE DEF Slot
<1>0. TypeOK
  BY DEF IInv
<1>1. ASSUME NEW op \in Slot, Service!Refuse(op) \/ Service!Serve(op)
      PROVE  Service!ServiceNext
  BY <1>1, SameFacts DEF Service!ServiceNext
<1>2. CASE CallRefused
  BY <1>1, <1>2, RefusedImplements DEF CallRefused
<1>3. CASE CallRuns
  BY <1>1, <1>3, RunsImplement DEF CallRuns
<1>4. CASE CallMints
  BY <1>1, <1>4, RunsImplement DEF CallMints
<1>5. CASE CallJoins
  BY <1>1, <1>5, RunsImplement DEF CallJoins
<1>6. CASE CallWrongLength
  <2>1. live # NULL /\ Service!Exports(live, "comm_init_rank")
    BY <1>6, LiveType, SlotServed DEF CallWrongLength
  <2>2. /\ UNCHANGED <<live, g_last_backend_result>>
        /\ done' = [op |-> "comm_init_rank", rc |-> Service!UNICC_ERR_INVALID_ARGUMENT,
                    ran |-> NULL, raw |-> 0]
    BY <1>6 DEF CallWrongLength, Returned, vtableVars, apiVars, live, done,
       Service!UNICC_ERR_INVALID_ARGUMENT, UNICC_ERR_INVALID_ARGUMENT
  <2>3. Service!Refuse("comm_init_rank")
    BY <2>1, <2>2 DEF Service!Refuse, live, done
  <2> QED
    BY <1>1, <2>3
<1> QED
  BY <1>0, <1>2, <1>3, <1>4, <1>5, <1>6, CallCases

-----------------------------------------------------------------------------
(* The library implements the service: whatever libraries are found, every *)
(* init, call and finalize is one of the caller-visible steps, with the    *)
(* documented code and the live library's own function behind it.          *)
THEOREM Implements_Service == Spec => ImplementsService
<1>1. Init => Service!ServiceInit
  <2> SUFFICES ASSUME Init PROVE Service!ServiceInit
    OBVIOUS
  <2>1. /\ g_state = UNICC_STATE_UNINIT
        /\ g_last_backend_result = 0
        /\ call = Returned("unicc_finalize", UNICC_OK, NULL)
    BY Zenon DEF Init
  <2> QED
    BY <2>1 DEF Service!ServiceInit, Service!Done, Returned, UNICC_STATE_INIT,
       UNICC_STATE_UNINIT, Service!UNICC_OK, UNICC_OK
<1>2. IInv /\ IInv' /\ [Next]_vars => [Service!ServiceNext]_(Service!serviceVars)
  <2>1. ASSUME UNCHANGED vars PROVE UNCHANGED Service!serviceVars
    BY <2>1 DEF vars, apiVars, Service!serviceVars
  <2> QED
    BY <2>1, LifecycleImplements, CallsImplement DEF Next
<1> QED
  BY <1>1, <1>2, Inductive, PTL DEF Spec, ImplementsService, Service!ServiceSpec

=============================================================================
