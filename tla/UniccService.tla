----------------------------- MODULE UniccService -----------------------------
(***************************************************************************)
(* What UniCCL promises its callers (include/unicc.h), with nothing of how *)
(* it keeps the promise: no handle, no table, no function pointers.  At    *)
(* most one backend is live.  An operation runs the live library's own     *)
(* function of that name, or fails with the code that says why.            *)
(***************************************************************************)
EXTENDS UniccBackends

CONSTANT BackendResults  (* the native results a backend may return        *)

VARIABLES
  live,  (* the live backend [lib, fam], or NULL                           *)
  last,  (* what unicc_get_last_error gives                                *)
  done   (* the last finished call: its result and what it ran             *)

serviceVars == <<live, last, done>>

Done(op, rc, ran, raw) == [op |-> op, rc |-> rc, ran |-> ran, raw |-> raw]

ServiceInit ==
  /\ live = NULL
  /\ last = 0
  /\ done = Done("unicc_finalize", UNICC_OK, NULL, 0)

(* The library has the operation.  ECCL has no CommUserRank: a symbol of   *)
(* that name in an ECCL library is not looked for.                         *)
Exports(b, slot) ==
  /\ slot = "comm_user_rank" => family_of(b.fam).has_comm_user_rank
  /\ <<b.fam, SlotSymbol[slot]>> \in exports[b.lib]

(* A backend can go live when the platform allows it and the library has   *)
(* the probe symbol and the core of its family.                            *)
Usable(b) ==
  /\ b.fam \in Family
  /\ b.fam = unicc_loader_identify_backend(b.lib)
  /\ unicc_loader_check_platform_support = UNICC_OK
  /\ \A slot \in {"get_version", "comm_init_rank", "allreduce", "broadcast"} :
       Exports(b, slot)

(* unicc_init with success. *)
GoLive ==
  /\ live = NULL
  /\ \E b \in [lib : Lib, fam : Family] : Usable(b) /\ live' = b
  /\ last' = 0
  /\ done' = Done("unicc_init", UNICC_OK, NULL, 0)

(* unicc_init with an error, which one depending on what was selected.     *)
StayDown ==
  /\ done' \in [op : {"unicc_init"}, ran : {NULL}, raw : {0},
                rc : IF live # NULL THEN {UNICC_ERR_ALREADY_INITIALIZED}
                     ELSE {UNICC_ERR_INVALID_ARGUMENT, UNICC_ERR_NO_BACKEND,
                           UNICC_ERR_BACKEND_LOAD, UNICC_ERR_SYMBOL_NOT_FOUND,
                           UNICC_ERR_BACKEND_NOT_SUPPORTED}]
  /\ UNCHANGED <<live, last>>

(* unicc_finalize; nothing of the backend is left, its last error included. *)
Stop ==
  /\ done' = Done("unicc_finalize",
                  IF live = NULL THEN UNICC_ERR_NOT_INITIALIZED ELSE UNICC_OK, NULL, 0)
  /\ live' = NULL
  /\ last' = IF live = NULL THEN last ELSE 0

Diagnose ==
  /\ done' = Done("unicc_diagnose", UNICC_OK, NULL, 0)
  /\ UNCHANGED <<live, last>>

(* An operation that runs no native function: there is no backend, the     *)
(* backend lacks the operation, or an argument is invalid.                 *)
Refuse(slot) ==
  /\ done' \in [op : {slot}, ran : {NULL}, raw : {0},
                rc : IF live = NULL THEN {UNICC_ERR_NOT_INITIALIZED}
                     ELSE IF ~Exports(live, slot) THEN {UNICC_ERR_NOT_SUPPORTED}
                          ELSE {UNICC_ERR_INVALID_ARGUMENT}]
  /\ UNCHANGED <<live, last>>

(* An operation that runs the library's own function of the live family.   *)
(* Errors of a backend are positive; last keeps them until the next one.   *)
Serve(slot) ==
  /\ live # NULL
  /\ Exports(live, slot)
  /\ \E raw \in BackendResults :
       /\ done' = Done(slot,
                       CASE raw = 0 -> UNICC_OK
                         [] raw > 0 -> UNICC_ERR_UNHANDLED_BACKEND
                         [] OTHER   -> raw,
                       [lib |-> live.lib, fam |-> live.fam, suf |-> SlotSymbol[slot]],
                       raw)
       /\ last' = IF raw > 0 THEN raw ELSE last
  /\ UNCHANGED live

ServiceNext ==
  \/ GoLive \/ StayDown \/ Stop \/ Diagnose
  \/ \E slot \in Slot : Refuse(slot) \/ Serve(slot)

ServiceSpec == ServiceInit /\ [][ServiceNext]_serviceVars

=============================================================================
