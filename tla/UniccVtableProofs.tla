-------------------------- MODULE UniccVtableProofs --------------------------
(***************************************************************************)
(* Lemmas about the backend table, the loader's pure part and the binder,  *)
(* for any libraries whatever they export: what both the API and a direct  *)
(* client of the dispatch table rest on.                                   *)
(***************************************************************************)
EXTENDS UniccVtable, TLAPS

-----------------------------------------------------------------------------
(* The backend table, the routing of slots and identification.             *)

(* The rows of the table, by family. *)
LEMMA RowNames ==
  /\ Row = {1, 2, 3, 4}
  /\ unicc_backends[1].name = "nccl"
  /\ unicc_backends[2].name = "rccl"
  /\ unicc_backends[3].name = "oneccl"
  /\ unicc_backends[4].name = "eccl"
<1>1. Row = {1, 2, 3, 4}
  BY DEF Row, UNICC_MAX_BACKENDS
<1> QED
  BY <1>1 DEF unicc_backends

(* family_of finds the row of every family. *)
LEMMA FamilyRow ==
  /\ family_of("nccl") = unicc_backends[1]
  /\ family_of("rccl") = unicc_backends[2]
  /\ family_of("oneccl") = unicc_backends[3]
  /\ family_of("eccl") = unicc_backends[4]
<1>1. \A i \in Row : unicc_backends[i].name = "nccl" <=> i = 1
  BY RowNames
<1>2. \A i \in Row : unicc_backends[i].name = "rccl" <=> i = 2
  BY RowNames
<1>3. \A i \in Row : unicc_backends[i].name = "oneccl" <=> i = 3
  BY RowNames
<1>4. \A i \in Row : unicc_backends[i].name = "eccl" <=> i = 4
  BY RowNames
<1> QED
  BY <1>1, <1>2, <1>3, <1>4, RowNames DEF family_of

(* The signature facts of the four rows. *)
LEMMA RowFacts ==
  /\ ~family_of("nccl").broadcast_double_buffered
  /\ ~family_of("rccl").broadcast_double_buffered
  /\ family_of("oneccl").broadcast_double_buffered
  /\ family_of("eccl").broadcast_double_buffered
  /\ ~family_of("nccl").nranks_is_size_t
  /\ ~family_of("rccl").nranks_is_size_t
  /\ family_of("oneccl").nranks_is_size_t
  /\ family_of("eccl").nranks_is_size_t
  /\ family_of("nccl").uid_kind = "UNICC_UID_NCCL"
  /\ family_of("rccl").uid_kind = "UNICC_UID_NCCL"
  /\ family_of("oneccl").uid_kind = "UNICC_UID_ONECCL"
  /\ family_of("eccl").uid_kind = "UNICC_UID_NCCL"
  /\ family_of("nccl").uid_bytes = 128
  /\ family_of("rccl").uid_bytes = 128
  /\ family_of("oneccl").uid_bytes = 4096
  /\ family_of("eccl").uid_bytes = 128
BY FamilyRow DEF unicc_backends, UNICC_ONECCL_UNIQUE_ID_BYTES

(* A family's row carries its own name. *)
LEMMA RowName ==
  ASSUME NEW fam \in Family
  PROVE  family_of(fam).name = fam
BY FamilyRow, RowNames DEF Family

(* The signature each static is called with. *)
LEMMA StaticSignatures ==
  /\ StaticSignature["s_broadcast"] = "in-place"
  /\ StaticSignature["s_broadcast_db"] = "double-buffered"
  /\ StaticSignature["s_rank_init_n128"] = "int, 128"
  /\ StaticSignature["s_rank_init_s128"] = "size_t, 128"
  /\ StaticSignature["s_rank_init_s4096"] = "size_t, 4096"
  /\ StaticSignature["s_uid_get_128"] = "128"
  /\ StaticSignature["s_uid_get_4096"] = "4096"
  /\ \A st \in {"s_get_version", "s_allreduce", "s_comm_destroy", "s_comm_count",
               "s_comm_user_rank", "s_group_start", "s_group_end"} :
       StaticSignature[st] = "common"
BY DEF StaticSignature, Static

(* The signature each symbol has in the libraries of a family. *)
LEMMA NativeSignatures ==
  ASSUME NEW fam \in Family
  PROVE  /\ NativeSignature(fam, "Broadcast") =
              IF fam \in {"nccl", "rccl"} THEN "in-place" ELSE "double-buffered"
         /\ fam \in {"nccl", "rccl"} => NativeSignature(fam, "CommInitRank") = "int, 128"
         /\ fam = "oneccl" => NativeSignature(fam, "CommInitRank") = "size_t, 4096"
         /\ fam = "eccl" => NativeSignature(fam, "CommInitRank") = "size_t, 128"
         /\ NativeSignature(fam, "GetUniqueId") = IF fam = "oneccl" THEN "4096" ELSE "128"
         /\ \A suf \in Suffix \ {"Broadcast", "CommInitRank", "GetUniqueId"} :
              NativeSignature(fam, suf) = "common"
BY DEF NativeSignature

(* The suffix behind each slot and each static. *)
LEMMA Symbols ==
  /\ SlotSymbol["get_version"] = "GetVersion"
  /\ SlotSymbol["comm_init_rank"] = "CommInitRank"
  /\ SlotSymbol["allreduce"] = "AllReduce"
  /\ SlotSymbol["broadcast"] = "Broadcast"
  /\ SlotSymbol["get_unique_id"] = "GetUniqueId"
  /\ SlotSymbol["comm_destroy"] = "CommDestroy"
  /\ SlotSymbol["comm_count"] = "CommCount"
  /\ SlotSymbol["comm_user_rank"] = "CommUserRank"
  /\ SlotSymbol["group_start"] = "GroupStart"
  /\ SlotSymbol["group_end"] = "GroupEnd"
  /\ StaticSymbol["s_get_version"] = "GetVersion"
  /\ StaticSymbol["s_allreduce"] = "AllReduce"
  /\ StaticSymbol["s_broadcast"] = "Broadcast"
  /\ StaticSymbol["s_broadcast_db"] = "Broadcast"
  /\ StaticSymbol["s_rank_init_n128"] = "CommInitRank"
  /\ StaticSymbol["s_rank_init_s128"] = "CommInitRank"
  /\ StaticSymbol["s_rank_init_s4096"] = "CommInitRank"
  /\ StaticSymbol["s_uid_get_128"] = "GetUniqueId"
  /\ StaticSymbol["s_uid_get_4096"] = "GetUniqueId"
  /\ StaticSymbol["s_comm_destroy"] = "CommDestroy"
  /\ StaticSymbol["s_comm_count"] = "CommCount"
  /\ StaticSymbol["s_comm_user_rank"] = "CommUserRank"
  /\ StaticSymbol["s_group_start"] = "GroupStart"
  /\ StaticSymbol["s_group_end"] = "GroupEnd"
BY DEF SlotSymbol, StaticSymbol

(* Every slot is routed through a static that is resolved from the slot's  *)
(* own symbol and cast to the signature which that symbol has in the       *)
(* family's libraries.                                                     *)
LEMMA Routing ==
  ASSUME NEW fam \in Family, NEW slot \in Slot
  PROVE  LET st == SlotStatic(family_of(fam), slot)
         IN  /\ st \in Static
             /\ StaticSymbol[st] = SlotSymbol[slot]
             /\ StaticSignature[st] = NativeSignature(fam, SlotSymbol[slot])
<1> DEFINE st == SlotStatic(family_of(fam), slot)
<1>1. CASE slot = "broadcast"
  <2>1. CASE fam \in {"nccl", "rccl"}
    <3>1. st = "s_broadcast" BY <1>1, <2>1, RowFacts DEF SlotStatic
    <3>2. NativeSignature(fam, "Broadcast") = StaticSignature[st]
      BY <2>1, <3>1, NativeSignatures, StaticSignatures
    <3> QED BY <1>1, <3>1, <3>2, Symbols DEF Static
  <2>2. CASE fam \in {"oneccl", "eccl"}
    <3>1. st = "s_broadcast_db" BY <1>1, <2>2, RowFacts DEF SlotStatic
    <3>2. NativeSignature(fam, "Broadcast") = StaticSignature[st]
      BY <2>2, <3>1, NativeSignatures, StaticSignatures
    <3> QED BY <1>1, <3>1, <3>2, Symbols DEF Static
  <2> QED BY <2>1, <2>2 DEF Family
<1>2. CASE slot = "comm_init_rank"
  <2>1. CASE fam \in {"nccl", "rccl"}
    <3>1. st = "s_rank_init_n128" BY <1>2, <2>1, RowFacts DEF SlotStatic
    <3>2. NativeSignature(fam, "CommInitRank") = StaticSignature[st]
      BY <2>1, <3>1, NativeSignatures, StaticSignatures
    <3> QED BY <1>2, <3>1, <3>2, Symbols DEF Static
  <2>2. CASE fam = "oneccl"
    <3>1. st = "s_rank_init_s4096" BY <1>2, <2>2, RowFacts DEF SlotStatic
    <3>2. NativeSignature(fam, "CommInitRank") = StaticSignature[st]
      BY <2>2, <3>1, NativeSignatures, StaticSignatures
    <3> QED BY <1>2, <3>1, <3>2, Symbols DEF Static
  <2>3. CASE fam = "eccl"
    <3>1. st = "s_rank_init_s128" BY <1>2, <2>3, RowFacts DEF SlotStatic
    <3>2. NativeSignature(fam, "CommInitRank") = StaticSignature[st]
      BY <2>3, <3>1, NativeSignatures, StaticSignatures
    <3> QED BY <1>2, <3>1, <3>2, Symbols DEF Static
  <2> QED BY <2>1, <2>2, <2>3 DEF Family
<1>3. CASE slot = "get_unique_id"
  <2>1. CASE fam = "oneccl"
    <3>1. st = "s_uid_get_4096" BY <1>3, <2>1, RowFacts DEF SlotStatic
    <3>2. NativeSignature(fam, "GetUniqueId") = StaticSignature[st]
      BY <2>1, <3>1, NativeSignatures, StaticSignatures
    <3> QED BY <1>3, <3>1, <3>2, Symbols DEF Static
  <2>2. CASE fam \in {"nccl", "rccl", "eccl"}
    <3>1. st = "s_uid_get_128" BY <1>3, <2>2, RowFacts DEF SlotStatic
    <3>2. NativeSignature(fam, "GetUniqueId") = StaticSignature[st]
      BY <2>2, <3>1, NativeSignatures, StaticSignatures
    <3> QED BY <1>3, <3>1, <3>2, Symbols DEF Static
  <2> QED BY <2>1, <2>2 DEF Family
<1>4. CASE slot \notin {"broadcast", "comm_init_rank", "get_unique_id"}
  <2>1. \A suf \in Suffix \ {"Broadcast", "CommInitRank", "GetUniqueId"} :
          NativeSignature(fam, suf) = "common"
    BY NativeSignatures
  <2>2. CASE slot = "get_version"
    <3>1. st = "s_get_version" BY <2>2 DEF SlotStatic
    <3> QED BY <2>1, <2>2, <3>1, StaticSignatures, Symbols DEF Static, Suffix
  <2>3. CASE slot = "allreduce"
    <3>1. st = "s_allreduce" BY <2>3 DEF SlotStatic
    <3> QED BY <2>1, <2>3, <3>1, StaticSignatures, Symbols DEF Static, Suffix
  <2>4. CASE slot = "comm_destroy"
    <3>1. st = "s_comm_destroy" BY <2>4 DEF SlotStatic
    <3> QED BY <2>1, <2>4, <3>1, StaticSignatures, Symbols DEF Static, Suffix
  <2>5. CASE slot = "comm_count"
    <3>1. st = "s_comm_count" BY <2>5 DEF SlotStatic
    <3> QED BY <2>1, <2>5, <3>1, StaticSignatures, Symbols DEF Static, Suffix
  <2>6. CASE slot = "comm_user_rank"
    <3>1. st = "s_comm_user_rank" BY <2>6 DEF SlotStatic
    <3> QED BY <2>1, <2>6, <3>1, StaticSignatures, Symbols DEF Static, Suffix
  <2>7. CASE slot = "group_start"
    <3>1. st = "s_group_start" BY <2>7 DEF SlotStatic
    <3> QED BY <2>1, <2>7, <3>1, StaticSignatures, Symbols DEF Static, Suffix
  <2>8. CASE slot = "group_end"
    <3>1. st = "s_group_end" BY <2>8 DEF SlotStatic
    <3> QED BY <2>1, <2>8, <3>1, StaticSignatures, Symbols DEF Static, Suffix
  <2> QED
    BY <1>4, <2>2, <2>3, <2>4, <2>5, <2>6, <2>7, <2>8 DEF Slot
<1> QED
  BY <1>1, <1>2, <1>3, <1>4

(* Every slot has a symbol suffix. *)
LEMMA SlotSymbolType == \A slot \in Slot : SlotSymbol[slot] \in Suffix
BY DEF Slot, SlotSymbol, Suffix

(* The core slots are slots. *)
LEMMA CoreSlots == Core \subseteq Slot
BY DEF Core, Slot

(* dlsym returns an address in the library it is asked about, or NULL. *)
LEMMA DlsymType ==
  ASSUME NEW l \in Lib, NEW fam \in Family, NEW suf \in Suffix
  PROVE  /\ dlsym(l, fam, suf) \in Pointer \cup {NULL}
         /\ dlsym(l, fam, suf) # NULL <=> <<fam, suf>> \in exports[l]
<1>1. [lib |-> l, fam |-> fam, suf |-> suf] \in Pointer
  BY DEF Pointer
<1>2. [lib |-> l, fam |-> fam, suf |-> suf] # NULL
  BY <1>1, NullAssumption, Zenon
<1> QED
  BY <1>1, <1>2, Zenon DEF dlsym

(* Identification names a family whose probe symbol the library exports,   *)
(* and NCCL only when it exports no other family's.                        *)
LEMMA Identification ==
  ASSUME NEW l \in Lib, unicc_loader_identify_backend(l) # UNICC_BACKEND_UNKNOWN
  PROVE  /\ unicc_loader_identify_backend(l) \in Family
         /\ unicc_loader_identify_backend(l) = "nccl" =>
              \A fam \in Family \ {"nccl"} : <<fam, "GetVersion">> \notin exports[l]
<1> DEFINE P == Probed(l)
           m == CHOOSE i \in P : \A j \in P : j <= i
<1>1. P \subseteq {1, 2, 3, 4}
  BY RowNames DEF Probed
<1>2. P # {}
  BY DEF unicc_loader_identify_backend
<1> HIDE DEF P
<1>3. \E i \in P : \A j \in P : j <= i
  <2>1. CASE 4 \in P
    <3>1. \A j \in P : j <= 4
      BY <1>1
    <3> QED
      BY <2>1, <3>1
  <2>2. CASE 4 \notin P /\ 3 \in P
    BY <2>2, <1>1
  <2>3. CASE 4 \notin P /\ 3 \notin P /\ 2 \in P
    BY <2>3, <1>1
  <2>4. CASE 4 \notin P /\ 3 \notin P /\ 2 \notin P
    <3>1. P = {1}
      BY <2>4, <1>1, <1>2
    <3> QED
      BY <3>1
  <2> QED
    BY <2>1, <2>2, <2>3, <2>4
<1>4. m \in P /\ \A j \in P : j <= m
  BY <1>3, Zenon
<1>5. unicc_loader_identify_backend(l) = unicc_backends[m].name
  BY <1>2, Zenon DEF unicc_loader_identify_backend, P
<1> HIDE DEF m
<1>6. unicc_loader_identify_backend(l) \in Family
  BY <1>1, <1>4, <1>5, RowNames DEF Family
<1>7. ASSUME unicc_loader_identify_backend(l) = "nccl"
      PROVE  \A fam \in Family \ {"nccl"} : <<fam, "GetVersion">> \notin exports[l]
  <2>1. m = 1
    BY <1>1, <1>4, <1>5, <1>7, RowNames
  <2>2. 2 \notin P /\ 3 \notin P /\ 4 \notin P
    BY <2>1, <1>4
  <2>3. /\ dlsym(l, "rccl", "GetVersion") = NULL
        /\ dlsym(l, "oneccl", "GetVersion") = NULL
        /\ dlsym(l, "eccl", "GetVersion") = NULL
    BY <2>2, RowNames DEF P, Probed
  <2>4. "GetVersion" \in Suffix
    BY DEF Suffix
  <2> QED
    BY <2>3, <2>4, DlsymType DEF Family
<1> QED
  BY <1>6, <1>7

-----------------------------------------------------------------------------
(* Binding.                                                                *)

(* The table that binding row d to library l yields from an empty one. *)
BoundTable(l, d) ==
  [slot \in Slot |-> IF slot \in BoundSlot(d)
                    THEN Install(SlotStatic(d, slot), dlsym(l, d.name, SlotSymbol[slot]))
                    ELSE NULL]

(* The same over the table as it is. *)
BoundOver(l, d) ==
  [slot \in Slot |-> IF slot \in BoundSlot(d)
                    THEN Install(SlotStatic(d, slot), dlsym(l, d.name, SlotSymbol[slot]))
                    ELSE unicc[slot]]

(* Opening a library and closing it again leaves every count as it was. *)
LEMMA OpenClose ==
  ASSUME NEW counts \in [Lib -> Nat], NEW l
  PROVE  unicc_platform_dlclose(unicc_platform_dlopen(counts, l), l) = counts
<1> DEFINE up   == unicc_platform_dlopen(counts, l)
           down == unicc_platform_dlclose(up, l)
<1>1. up = [k \in Lib |-> IF k = l THEN counts[k] + 1 ELSE counts[k]]
  BY DEF unicc_platform_dlopen
<1>2. down = [k \in Lib |-> IF k = l THEN up[k] - 1 ELSE up[k]]
  BY <1>1 DEF unicc_platform_dlclose
<1>3. \A k \in Lib : down[k] = counts[k]
  BY <1>1, <1>2
<1> QED
  BY <1>2, <1>3

(* What a slot may hold. *)
LEMMA InstallType ==
  ASSUME NEW st \in Static, NEW fn \in Pointer \cup {NULL}
  PROVE  /\ Install(st, fn) \in SlotValue
         /\ Install(st, fn) = NULL <=> fn = NULL
         /\ fn # NULL => /\ Install(st, fn).through = st
                         /\ Install(st, fn).fn = IF st \in Wrapped THEN NULL ELSE fn
<1> DEFINE r == [through |-> st, fn |-> IF st \in Wrapped THEN NULL ELSE fn]
<1>1. r \in FilledSlot
  BY DEF FilledSlot
<1>2. r # NULL
  BY <1>1, SlotAssumption, Zenon
<1>3. r.through = st /\ r.fn = IF st \in Wrapped THEN NULL ELSE fn
  OBVIOUS
<1> HIDE DEF r
<1>4. Install(st, fn) = IF fn = NULL THEN NULL ELSE r
  BY Zenon DEF Install, r
<1>5. CASE fn = NULL
  BY <1>4, <1>5 DEF SlotValue
<1>6. CASE fn # NULL
  <2>1. Install(st, fn) = r
    BY <1>4, <1>6
  <2> QED
    BY <1>1, <1>2, <1>3, <1>6, <2>1, Zenon DEF SlotValue
<1> QED
  BY <1>5, <1>6

(* A successful unicc_vtable_init fills the slots that the library's        *)
(* identified family binds, whatever the table held before.                *)
LEMMA InitRebinds ==
  ASSUME NEW l \in Lib,
         unicc \in [Slot -> SlotValue], s \in [Static -> Pointer \cup {NULL}],
         unicc_vtable_init_rc(l) = UNICC_OK, unicc_vtable_init(l)
  PROVE  LET type == unicc_loader_identify_backend(l)
             d    == family_of(type)
         IN  /\ type \in Family
             /\ g_backend_type' = type
             /\ g_backend_handle' = l
             /\ CoreResolves(l, d)
             /\ s' \in [Static -> Pointer \cup {NULL}]
             /\ unicc' \in [Slot -> SlotValue]
             /\ unicc' = BoundOver(l, d)
             /\ \A slot \in BoundSlot(d) :
                  s'[SlotStatic(d, slot)] = dlsym(l, d.name, SlotSymbol[slot])
<1> DEFINE type == unicc_loader_identify_backend(l)
           d    == family_of(type)
<1>1. /\ type # UNICC_BACKEND_UNKNOWN
      /\ unicc_loader_check_platform_support = UNICC_OK
      /\ CoreResolves(l, d)
  BY DEF unicc_vtable_init_rc, UNICC_OK, UNICC_ERR_SYMBOL_NOT_FOUND
<1>2. type \in Family
  BY <1>1, Identification
<1>3. g_backend_type' = type /\ g_backend_handle' = l /\ unicc_vtable_bind(l, d)
  BY <1>1 DEF unicc_vtable_init
<1>4. d.name = type
  BY <1>2, RowName
<1>5. BoundSlot(d) \subseteq Slot
  BY DEF BoundSlot
<1> HIDE DEF type, d
<1>6. Resolved(l, d) = {SlotStatic(d, slot) : slot \in BoundSlot(d)}
  BY <1>1, Zenon DEF Resolved
<1>7. s' = [st \in Static |-> IF st \in Resolved(l, d)
                             THEN dlsym(l, type, StaticSymbol[st]) ELSE s[st]]
  BY <1>3, <1>4 DEF unicc_vtable_bind
<1>8. \A st \in Static : StaticSymbol[st] \in Suffix
  BY DEF Static, StaticSymbol, Suffix
<1>9. \A st \in Static : dlsym(l, type, StaticSymbol[st]) \in Pointer \cup {NULL}
  BY <1>2, <1>8, DlsymType
<1>10. s' \in [Static -> Pointer \cup {NULL}]
  BY <1>7, <1>9
<1>11. ASSUME NEW slot \in BoundSlot(d)
       PROVE  /\ SlotStatic(d, slot) \in Static
              /\ s'[SlotStatic(d, slot)] = dlsym(l, type, SlotSymbol[slot])
  <2>1. /\ SlotStatic(d, slot) \in Static
        /\ StaticSymbol[SlotStatic(d, slot)] = SlotSymbol[slot]
    BY <1>2, <1>5, Routing DEF d
  <2> QED
    BY <2>1, <1>6, <1>7
<1>12. unicc' = BoundOver(l, d)
  <2>1. unicc' = [slot \in Slot |-> IF slot \in BoundSlot(d)
                    THEN Install(SlotStatic(d, slot), s'[SlotStatic(d, slot)])
                    ELSE unicc[slot]]
    BY <1>1, <1>3 DEF unicc_vtable_bind
  <2> QED
    BY <1>4, <1>11, <2>1 DEF BoundOver
<1>13. unicc' \in [Slot -> SlotValue]
  <2>1. ASSUME NEW slot \in BoundSlot(d)
        PROVE  Install(SlotStatic(d, slot), dlsym(l, type, SlotSymbol[slot])) \in SlotValue
    BY <1>2, <1>5, <1>11, SlotSymbolType, DlsymType, InstallType
  <2> QED
    BY <1>4, <1>12, <2>1 DEF BoundOver
<1> QED
  BY <1>1, <1>2, <1>3, <1>4, <1>10, <1>11, <1>12, <1>13 DEF type, d

(* From an empty table it yields exactly the bound table of that family.   *)
LEMMA InitBinds ==
  ASSUME NEW l \in Lib,
         unicc = EmptyTable, s \in [Static -> Pointer \cup {NULL}],
         unicc_vtable_init_rc(l) = UNICC_OK, unicc_vtable_init(l)
  PROVE  LET type == unicc_loader_identify_backend(l)
             d    == family_of(type)
         IN  /\ type \in Family
             /\ g_backend_type' = type
             /\ g_backend_handle' = l
             /\ CoreResolves(l, d)
             /\ s' \in [Static -> Pointer \cup {NULL}]
             /\ unicc' \in [Slot -> SlotValue]
             /\ unicc' = BoundTable(l, d)
             /\ \A slot \in BoundSlot(d) :
                  s'[SlotStatic(d, slot)] = dlsym(l, d.name, SlotSymbol[slot])
<1>1. unicc \in [Slot -> SlotValue] /\ \A slot \in Slot : unicc[slot] = NULL
  BY DEF EmptyTable, SlotValue
<1>2. \A d : BoundOver(l, d) = BoundTable(l, d)
  BY <1>1 DEF BoundOver, BoundTable
<1> QED
  BY <1>1, <1>2, InitRebinds

(* A failed unicc_vtable_init leaves an empty table empty and publishes    *)
(* nothing; the statics it may have written are addresses or NULL.         *)
LEMMA InitFails ==
  ASSUME NEW l \in Lib,
         unicc = EmptyTable, s \in [Static -> Pointer \cup {NULL}],
         unicc_vtable_init_rc(l) # UNICC_OK, unicc_vtable_init(l)
  PROVE  /\ unicc' = unicc
         /\ g_backend_type' = g_backend_type
         /\ g_backend_handle' = g_backend_handle
         /\ s' \in [Static -> Pointer \cup {NULL}]
<1> DEFINE type == unicc_loader_identify_backend(l)
           d    == family_of(type)
<1>1. g_backend_type' = g_backend_type /\ g_backend_handle' = g_backend_handle
  BY DEF unicc_vtable_init
<1>2. CASE /\ type # UNICC_BACKEND_UNKNOWN
           /\ unicc_loader_check_platform_support = UNICC_OK
  <2>1. unicc_vtable_bind(l, d)
    BY <1>2 DEF unicc_vtable_init
  <2>2. ~CoreResolves(l, d)
    BY <1>2 DEF unicc_vtable_init_rc
  <2>3. unicc' = EmptyTable
    BY <2>1, <2>2 DEF unicc_vtable_bind
  <2>4. type \in Family /\ d.name = type
    BY <1>2, Identification, RowName
  <2> HIDE DEF type, d
  <2>5. \A st \in Static : StaticSymbol[st] \in Suffix
    BY DEF Static, StaticSymbol, Suffix
  <2>6. \A st \in Static : dlsym(l, d.name, StaticSymbol[st]) \in Pointer \cup {NULL}
    BY <2>4, <2>5, DlsymType
  <2>7. s' \in [Static -> Pointer \cup {NULL}]
    BY <2>1, <2>6 DEF unicc_vtable_bind
  <2> QED
    BY <1>1, <2>3, <2>7
<1>3. CASE ~(/\ type # UNICC_BACKEND_UNKNOWN
             /\ unicc_loader_check_platform_support = UNICC_OK)
  BY <1>1, <1>3 DEF unicc_vtable_init
<1> QED
  BY <1>2, <1>3

(* The selected library has a name. *)
LEMMA DetectType ==
  ASSUME NEW env \in Env
  PROVE  unicc_loader_detect_backend(env) \in Name
<1> DEFINE lp == get_nonempty_env(env.UNICC_LIBRARY)
           be == get_nonempty_env(env.UNICC_BACKEND)
<1>1. lp \in Name \cup {NULL} /\ be \in Name \cup {NULL}
  BY DEF Env, EnvValue, get_nonempty_env
<1>2. unicc_backends[1].lib_name \in Name
  BY DEF unicc_backends, Name
<1>3. \A fam \in Family : family_of(fam).lib_name \in Name
  BY FamilyRow DEF unicc_backends, Name, Family
<1> HIDE DEF lp, be
<1>4. unicc_loader_detect_backend(env) =
        CASE lp # NULL                       -> lp
          [] lp = NULL /\ be \in Family      -> family_of(be).lib_name
          [] lp = NULL /\ be # NULL /\ be \notin Family -> be
          [] OTHER                           -> unicc_backends[1].lib_name
  BY DEF unicc_loader_detect_backend, lp, be
<1> QED
  BY <1>1, <1>2, <1>3, <1>4

(* Loading yields a library of the host and reports a name. *)
LEMMA LoadType ==
  ASSUME NEW host \in Host, NEW path \in Name, NEW o \in unicc_loader_load(host, path)
  PROVE  o.lib \in Lib /\ o.opened \in Name /\ o.reported \in Name
<1> DEFINE alt   == lib_name_alt_of(path)
           dylib == IF Platform = "macos" THEN DylibOf[path] ELSE NULL
<1>1. alt \in Name \cup {NULL}
  <2>1. \A i \in Row : unicc_backends[i].lib_name_alt \in Name \cup {NULL}
    BY RowNames DEF unicc_backends, Name
  <2> QED
    BY <2>1 DEF lib_name_alt_of
<1>2. dylib \in Name \cup {NULL}
  BY ConstantAssumption
<1>3. \A n \in Name \cup {NULL} : Opens(host, n) => n \in Name /\ host[n] \in Lib
  BY DEF Opens, Host
<1>4. Indeterminate \in Name
  BY DEF Name, Indeterminate
<1> HIDE DEF alt, dylib
<1>5. \/ /\ Opens(host, path)
         /\ o = [lib |-> host[path], opened |-> path, reported |-> path]
      \/ /\ Opens(host, alt)
         /\ o = [lib |-> host[alt], opened |-> alt, reported |-> alt]
      \/ /\ Opens(host, dylib)
         /\ \E r \in {dylib, Indeterminate} :
              o = [lib |-> host[dylib], opened |-> dylib, reported |-> r]
  BY DEF unicc_loader_load, alt, dylib
<1> QED
  BY <1>1, <1>2, <1>3, <1>4, <1>5

=============================================================================
