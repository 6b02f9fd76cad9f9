----------------------------- MODULE UniccVtable -----------------------------
(***************************************************************************)
(* The dispatch table and its generic binder (src/unicc_vtable.c,          *)
(* src/backends/unicc_bind.c).                                             *)
(*                                                                         *)
(* The binder resolves each symbol into a file-scope function pointer s_*. *)
(* A slot of the table then holds either that address, copied at bind      *)
(* time, or an adapter wrap_*, which reads its s_* again at every call.    *)
(* The model keeps the difference: an adapter slot has fn = NULL and is    *)
(* only as good as the static it goes through.                             *)
(***************************************************************************)
EXTENDS UniccBackends

VARIABLES
  unicc,             (* the table: unicc[slot] is NULL or [through, fn]    *)
  s,                 (* the statics of unicc_bind.c: s[st] is an address   *)
  g_backend_type,    (* the published family                               *)
  g_backend_handle,  (* the published library handle                       *)
  refs               (* refs[l]: how often l is open, as dlopen counts it  *)

vtableVars == <<unicc, s, g_backend_type, g_backend_handle>>

-----------------------------------------------------------------------------
(* Mutant: a pasted line resolves s_group_end from GroupStart. *)
MutPastedSymbol ==
  [s_get_version |-> "GetVersion", s_allreduce |-> "AllReduce",
   s_broadcast |-> "Broadcast", s_broadcast_db |-> "Broadcast",
   s_rank_init_n128 |-> "CommInitRank", s_rank_init_s128 |-> "CommInitRank",
   s_rank_init_s4096 |-> "CommInitRank",
   s_uid_get_128 |-> "GetUniqueId", s_uid_get_4096 |-> "GetUniqueId",
   s_comm_destroy |-> "CommDestroy", s_comm_count |-> "CommCount",
   s_comm_user_rank |-> "CommUserRank",
   s_group_start |-> "GroupStart", s_group_end |-> "GroupStart"]

(* The statics, and the suffix each is resolved from. *)
StaticSymbol ==
  [s_get_version |-> "GetVersion", s_allreduce |-> "AllReduce",
   s_broadcast |-> "Broadcast", s_broadcast_db |-> "Broadcast",
   s_rank_init_n128 |-> "CommInitRank", s_rank_init_s128 |-> "CommInitRank",
   s_rank_init_s4096 |-> "CommInitRank",
   s_uid_get_128 |-> "GetUniqueId", s_uid_get_4096 |-> "GetUniqueId",
   s_comm_destroy |-> "CommDestroy", s_comm_count |-> "CommCount",
   s_comm_user_rank |-> "CommUserRank",
   s_group_start |-> "GroupStart", s_group_end |-> "GroupEnd"]

Static ==
  {"s_get_version", "s_allreduce", "s_broadcast", "s_broadcast_db",
   "s_rank_init_n128", "s_rank_init_s128", "s_rank_init_s4096",
   "s_uid_get_128", "s_uid_get_4096", "s_comm_destroy", "s_comm_count",
   "s_comm_user_rank", "s_group_start", "s_group_end"}

(* The statics that only an adapter calls. *)
Wrapped ==
  {"s_broadcast_db", "s_rank_init_n128", "s_rank_init_s128",
   "s_rank_init_s4096", "s_uid_get_128", "s_uid_get_4096"}

(* The C signature a static is cast to, where families differ: how many    *)
(* buffers a broadcast takes, how wide nranks is, and the size of the      *)
(* by-value id.  "common" where every family agrees.                       *)
StaticSignature ==
  [st \in Static |->
     CASE st = "s_broadcast"       -> "in-place"
       [] st = "s_broadcast_db"    -> "double-buffered"
       [] st = "s_rank_init_n128"  -> "int, 128"
       [] st = "s_rank_init_s128"  -> "size_t, 128"
       [] st = "s_rank_init_s4096" -> "size_t, 4096"
       [] st = "s_uid_get_128"     -> "128"
       [] st = "s_uid_get_4096"    -> "4096"
       [] OTHER                    -> "common"]

(* The signatures the vendors' libraries were compiled with. *)
NativeSignature(fam, suf) ==
  CASE suf = "Broadcast" ->
         IF fam \in {"nccl", "rccl"} THEN "in-place" ELSE "double-buffered"
    [] suf = "CommInitRank" ->
         CASE fam \in {"nccl", "rccl"} -> "int, 128"
           [] fam = "oneccl"           -> "size_t, 4096"
           [] OTHER                    -> "size_t, 128"
    [] suf = "GetUniqueId" -> IF fam = "oneccl" THEN "4096" ELSE "128"
    [] OTHER               -> "common"

(* Mutant: every family mints its id through the 128-byte adapter. *)
MutUid128(d, slot) ==
  CASE slot = "get_version"    -> "s_get_version"
    [] slot = "allreduce"      -> "s_allreduce"
    [] slot = "broadcast"      ->
         IF d.broadcast_double_buffered THEN "s_broadcast_db" ELSE "s_broadcast"
    [] slot = "comm_init_rank" ->
         IF ~d.nranks_is_size_t THEN "s_rank_init_n128"
         ELSE IF d.uid_kind = "UNICC_UID_ONECCL" THEN "s_rank_init_s4096"
                                                 ELSE "s_rank_init_s128"
    [] slot = "get_unique_id"  -> "s_uid_get_128"
    [] slot = "comm_destroy"   -> "s_comm_destroy"
    [] slot = "comm_count"     -> "s_comm_count"
    [] slot = "comm_user_rank" -> "s_comm_user_rank"
    [] slot = "group_start"    -> "s_group_start"
    [] slot = "group_end"      -> "s_group_end"

(* The static that family row d routes a slot through. *)
SlotStatic(d, slot) ==
  CASE slot = "get_version"    -> "s_get_version"
    [] slot = "allreduce"      -> "s_allreduce"
    [] slot = "broadcast"      ->
         IF d.broadcast_double_buffered THEN "s_broadcast_db" ELSE "s_broadcast"
    [] slot = "comm_init_rank" ->
         IF ~d.nranks_is_size_t THEN "s_rank_init_n128"
         ELSE IF d.uid_kind = "UNICC_UID_ONECCL" THEN "s_rank_init_s4096"
                                                 ELSE "s_rank_init_s128"
    [] slot = "get_unique_id"  ->
         IF d.uid_kind = "UNICC_UID_ONECCL" THEN "s_uid_get_4096"
                                            ELSE "s_uid_get_128"
    [] slot = "comm_destroy"   -> "s_comm_destroy"
    [] slot = "comm_count"     -> "s_comm_count"
    [] slot = "comm_user_rank" -> "s_comm_user_rank"
    [] slot = "group_start"    -> "s_group_start"
    [] slot = "group_end"      -> "s_group_end"

(* The required slots, and all the slots that binding row d assigns. *)
Core == {"get_version", "comm_init_rank", "allreduce", "broadcast"}

BoundSlot(d) ==
  {slot \in Slot : slot = "comm_user_rank" => d.has_comm_user_rank}

-----------------------------------------------------------------------------
EmptyTable == [slot \in Slot |-> NULL]

(* Mutant: an adapter is installed over an unresolved symbol. *)
MutWrapsNull(st, fn) ==
  IF st \in Wrapped THEN [through |-> st, fn |-> NULL]
  ELSE IF fn = NULL THEN NULL ELSE [through |-> st, fn |-> fn]

(* What a slot holds when its static st has just been resolved to fn. *)
Install(st, fn) ==
  IF fn = NULL THEN NULL
  ELSE [through |-> st, fn |-> IF st \in Wrapped THEN NULL ELSE fn]

(* The native function that a call through a non-NULL slot ends in. *)
Target(slot) ==
  IF unicc[slot].fn = NULL THEN s[unicc[slot].through] ELSE unicc[slot].fn

(* Mutant: any family's spelling of a core symbol will do. *)
MutAnyFamily(l, d) ==
  \A slot \in Core : \E fam \in Family : dlsym(l, fam, SlotSymbol[slot]) # NULL

CoreResolves(l, d) ==
  \A slot \in Core : dlsym(l, d.name, SlotSymbol[slot]) # NULL

(* The statics that binding row d to library l assigns: the core ones      *)
(* before validation, the optional ones only after it has succeeded.       *)
Resolved(l, d) ==
  {SlotStatic(d, slot) : slot \in IF CoreResolves(l, d) THEN BoundSlot(d)
                                                        ELSE Core}

(* Mutant: a failed bind leaves the table as it was. *)
MutNoMemset(l, d) ==
  /\ s' = [st \in Static |-> IF st \in Resolved(l, d)
                             THEN dlsym(l, d.name, StaticSymbol[st])
                             ELSE s[st]]
  /\ unicc' = IF CoreResolves(l, d)
              THEN [slot \in Slot |->
                      IF slot \in BoundSlot(d)
                      THEN Install(SlotStatic(d, slot), s'[SlotStatic(d, slot)])
                      ELSE unicc[slot]]
              ELSE unicc

(* Mutant: the slots are filled before the core is validated. *)
MutInstallsFirst(l, d) ==
  /\ s' = [st \in Static |-> IF st \in Resolved(l, d)
                             THEN dlsym(l, d.name, StaticSymbol[st])
                             ELSE s[st]]
  /\ unicc' = [slot \in Slot |->
                 IF slot \in BoundSlot(d)
                 THEN Install(SlotStatic(d, slot), s'[SlotStatic(d, slot)])
                 ELSE unicc[slot]]

(* unicc_vtable_bind for row d, and the memset that unicc_vtable_init does *)
(* when it fails.                                                          *)
unicc_vtable_bind(l, d) ==
  /\ s' = [st \in Static |-> IF st \in Resolved(l, d)
                             THEN dlsym(l, d.name, StaticSymbol[st])
                             ELSE s[st]]
  /\ unicc' = IF CoreResolves(l, d)
              THEN [slot \in Slot |->
                      IF slot \in BoundSlot(d)
                      THEN Install(SlotStatic(d, slot), s'[SlotStatic(d, slot)])
                      ELSE unicc[slot]]
              ELSE EmptyTable

(* The result of unicc_vtable_init. *)
unicc_vtable_init_rc(l) ==
  LET type == unicc_loader_identify_backend(l)
  IN  CASE type = UNICC_BACKEND_UNKNOWN -> UNICC_ERR_SYMBOL_NOT_FOUND
        [] type # UNICC_BACKEND_UNKNOWN
             /\ unicc_loader_check_platform_support # UNICC_OK ->
                                           unicc_loader_check_platform_support
        [] OTHER -> IF CoreResolves(l, family_of(type))
                    THEN UNICC_OK ELSE UNICC_ERR_SYMBOL_NOT_FOUND

(* Identify first, bind by the identified family, publish last.  When the  *)
(* library is not identified or not supported, nothing is touched.         *)
unicc_vtable_init(l) ==
  LET type == unicc_loader_identify_backend(l)
  IN  /\ IF /\ type # UNICC_BACKEND_UNKNOWN
            /\ unicc_loader_check_platform_support = UNICC_OK
         THEN unicc_vtable_bind(l, family_of(type))
         ELSE UNCHANGED <<s, unicc>>
      /\ IF unicc_vtable_init_rc(l) = UNICC_OK
         THEN g_backend_type' = type /\ g_backend_handle' = l
         ELSE UNCHANGED <<g_backend_type, g_backend_handle>>

unicc_vtable_cleanup ==
  /\ unicc' = EmptyTable
  /\ g_backend_handle' = NULL
  /\ g_backend_type' = UNICC_BACKEND_UNKNOWN
  /\ UNCHANGED s

vtableInit ==
  /\ unicc = EmptyTable
  /\ s = [st \in Static |-> NULL]
  /\ g_backend_type = UNICC_BACKEND_UNKNOWN
  /\ g_backend_handle = NULL
  /\ refs = [l \in Lib |-> 0]

(* dlopen and dlclose count references; a library is unmapped at zero. *)
unicc_platform_dlopen(counts, l) == [counts EXCEPT ![l] = @ + 1]
(* Mutant: a library is closed twice. *)
MutClosesTwice(counts, l) == [counts EXCEPT ![l] = @ - 2]
unicc_platform_dlclose(counts, l) == [counts EXCEPT ![l] = @ - 1]

-----------------------------------------------------------------------------
FilledSlot == [through : Static, fn : Pointer \cup {NULL}]
SlotValue == FilledSlot \cup {NULL}

ASSUME SlotAssumption == NULL \notin FilledSlot

vtableTypeOK ==
  /\ unicc \in [Slot -> SlotValue]
  /\ s \in [Static -> Pointer \cup {NULL}]
  /\ g_backend_type \in Family \cup {UNICC_BACKEND_UNKNOWN}
  /\ g_backend_handle \in Lib \cup {NULL}
  /\ refs \in [Lib -> Nat]

(* A call through the slot runs the very function the slot is named for:   *)
(* an exported symbol of library l, of the family fam alone, still mapped, *)
(* called with the signature it was compiled with.                         *)
SlotSound(slot, l, fam) ==
  /\ Target(slot) = dlsym(l, fam, SlotSymbol[slot])
  /\ Target(slot) # NULL
  /\ refs[l] > 0
  /\ StaticSignature[unicc[slot].through] = NativeSignature(fam, SlotSymbol[slot])

=============================================================================
