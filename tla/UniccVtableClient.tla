-------------------------- MODULE UniccVtableClient --------------------------
(***************************************************************************)
(* A direct client of the loader and of the dispatch table, as             *)
(* tests/test_vtable.c is: it opens any library, initialises the table     *)
(* from any open library, cleans the table up, and closes a library that   *)
(* the table does not use.  include/unicc_vtable.h exposes                 *)
(* unicc_vtable_init without asking for a cleanup first, so the client     *)
(* also initialises the table again while it is live.                      *)
(***************************************************************************)
EXTENDS UniccVtable

CONSTANT
  MAX_REFS  (* bound: how often the client opens one library               *)

ASSUME ClientAssumption == MAX_REFS \in Nat

VARIABLES
  ret,     (* the result of the last unicc_vtable_init; NULL before one
              and after a cleanup                                          *)
  rebound  (* history: that init was called on a live table                *)

clientVars == <<ret, rebound>>
vars == <<unicc, s, g_backend_type, g_backend_handle, refs, clientVars>>

Init == vtableInit /\ ret = NULL /\ rebound = FALSE

load(l) ==
  /\ refs[l] < MAX_REFS
  /\ refs' = unicc_platform_dlopen(refs, l)
  /\ UNCHANGED <<vtableVars, clientVars>>

unicc_loader_unload(l) ==
  /\ refs[l] > 0
  /\ g_backend_handle = l => refs[l] > 1
  /\ refs' = unicc_platform_dlclose(refs, l)
  /\ UNCHANGED <<vtableVars, clientVars>>

init(l) ==
  /\ refs[l] > 0
  /\ unicc_vtable_init(l)
  /\ ret' = unicc_vtable_init_rc(l)
  /\ rebound' = (g_backend_handle # NULL)
  /\ UNCHANGED refs

cleanup ==
  /\ unicc_vtable_cleanup
  /\ ret' = NULL
  /\ rebound' = FALSE
  /\ UNCHANGED refs

Next ==
  \/ \E l \in Lib : load(l) \/ unicc_loader_unload(l) \/ init(l)
  \/ cleanup

Spec == Init /\ [][Next]_vars

-----------------------------------------------------------------------------
(* Type correctness of the table, the statics, the published pair and the  *)
(* reference counts.                                                       *)
TypeOK ==
  /\ vtableTypeOK
  /\ ret \in {NULL, UNICC_OK, UNICC_ERR_SYMBOL_NOT_FOUND,
              UNICC_ERR_BACKEND_NOT_SUPPORTED}
  /\ rebound \in BOOLEAN

(* Whatever the order of initialisations, failed ones included, a slot the *)
(* published family binds is NULL or reaches that family's function in the *)
(* published, still open library.  The adapters read statics that a later  *)
(* failed bind has overwritten, so a failed bind must disarm the table     *)
(* (unicc_vtable.c, "do not leave a torn table").                          *)
BoundSlotsSound ==
  \A slot \in Slot :
    unicc[slot] # NULL =>
      /\ g_backend_type \in Family
      /\ slot \in BoundSlot(family_of(g_backend_type)) =>
           SlotSound(slot, g_backend_handle, g_backend_type)

(* Unless a live table was bound over, the whole table serves one library: *)
(* no slot outlives its family, so a hybrid library or a sequence of       *)
(* libraries never yields a mixed table (unicc_vtable.c, "never a          *)
(* mixed-family OR-set").  Binding ECCL over a live NCCL table does leave  *)
(* NCCL's comm_user_rank behind, where unicc_bind.c has "else: slot stays  *)
(* NULL".                                                                  *)
NeverMixedFamily ==
  ~rebound =>
    \A slot \in Slot :
      unicc[slot] # NULL =>
        /\ g_backend_type \in Family
        /\ SlotSound(slot, g_backend_handle, g_backend_type)

(* Unless it was called on a live table, a failed unicc_vtable_init leaves *)
(* an all-zeros table and publishes no type or handle (unicc_vtable.c, "a  *)
(* failed init restores the table to all-zeros - no torn slots, no         *)
(* dangling handle").  On a live table it does not: the old type and       *)
(* handle stay, and the table too when nothing was identified.             *)
FailedInitLeavesZeros ==
  ~rebound /\ ret \notin {NULL, UNICC_OK} =>
    /\ unicc = EmptyTable
    /\ g_backend_handle = NULL
    /\ g_backend_type = UNICC_BACKEND_UNKNOWN

=============================================================================
