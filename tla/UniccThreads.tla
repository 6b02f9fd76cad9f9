----------------------------- MODULE UniccThreads -----------------------------
(***************************************************************************)
(* The API of UniccApi under several threads.  A call is no longer atomic: *)
(* a thread passes the gates of src/unicc_api.c and enters the native      *)
(* function, other threads run, and only when that function returns is its *)
(* result mapped and kept in g_last_backend_result, which all threads      *)
(* share and no lock protects.                                             *)
(*                                                                         *)
(* The callers keep to docs/API.md, "Thread safety": they serialize the    *)
(* lifecycle, and no call is in progress while a lifecycle call changes    *)
(* the library's state.  The races that this excludes are not modelled.    *)
(***************************************************************************)
EXTENDS UniccApi

CONSTANTS
  Thread,   (* the threads of the process                                  *)
  Ops       (* the operations they call                                    *)

ASSUME ThreadAssumption == Ops \subseteq Slot

VARIABLES
  pending,  (* pending[t]: the native call thread t is in, or NULL         *)
  owed      (* history: the raw failure of t's last call, 0 if it was none
               or if a lifecycle has ended since                           *)

threadVars == <<pending, owed>>
tvars == <<vars, threadVars>>

(* A call on its way: the operation, the static its slot goes through, the *)
(* function it has entered, and the id it was given.                       *)
Pending == [op : Slot, through : Static, ran : Pointer, id : CommId \cup {NULL}]

ASSUME PendingAssumption == NULL \notin Pending

ThreadsInit ==
  /\ Init
  /\ pending = [t \in Thread |-> NULL]
  /\ owed = [t \in Thread |-> 0]

Idle(t) == pending[t] = NULL

-----------------------------------------------------------------------------
(* The operations that have an argument which may be invalid. *)
Checked == Slot \ {"comm_destroy", "group_start", "group_end"}

(* The bootstrap ids at hand; every other operation takes none. *)
IdArg(op) == IF op = "comm_init_rank" THEN PeerIds ELSE {NULL}

(* The adapter over the comm_init_rank slot accepts the id.                *)
Accepts(op, i) ==
  op = "comm_init_rank" => i.len = AdapterBytes(unicc["comm_init_rank"].through)

ValidArgs(op, i) == op = "comm_init_rank" => i.len # 0

(* A call that does not get as far as the native function: refused by a    *)
(* gate, or by the adapter.                                                *)
Refuse(t, op) ==
  /\ Idle(t)
  /\ \E i \in IdArg(op) :
       \/ \E argsOK \in IF op \in Checked THEN BOOLEAN ELSE {TRUE} :
            Refused(op, argsOK /\ ValidArgs(op, i), i)
       \/ /\ Refusal(op, ValidArgs(op, i)) = UNICC_OK
          /\ ~Accepts(op, i)
          /\ call' = Returned(op, UNICC_ERR_INVALID_ARGUMENT, i)
          /\ UNCHANGED <<vtableVars, refs, apiVars, id, opened, lastFailure>>
  /\ owed' = [owed EXCEPT ![t] = 0]
  /\ UNCHANGED pending

(* The gates are passed and the native function is entered. *)
Enter(t, op) ==
  /\ Idle(t)
  /\ \E i \in IdArg(op) :
       /\ Refusal(op, ValidArgs(op, i)) = UNICC_OK
       /\ Accepts(op, i)
       /\ pending' = [pending EXCEPT ![t] =
                        [op |-> op, through |-> unicc[op].through,
                         ran |-> Target(op), id |-> i]]
  /\ owed' = [owed EXCEPT ![t] = 0]
  /\ UNCHANGED vars

(* Mutant: a call that succeeds clears the last error. *)
MutForgets(t, raw) ==
  LET p == pending[t]
  IN  /\ call' = [op |-> p.op, rc |-> map_backend_result(raw).code,
                  ran |-> p.ran, raw |-> raw, id |-> p.id]
      /\ g_last_backend_result' = IF raw = 0 THEN 0 ELSE map_backend_result(raw).last
      /\ lastFailure' = IF raw # 0 THEN raw ELSE lastFailure
      /\ id' = IF p.op = "get_unique_id" /\ raw = 0
               THEN [len |-> AdapterBytes(p.through), minted |-> p.ran.fam]
               ELSE id

(* The native function returns raw; the wrapper maps it and keeps it. *)
Maps(t, raw) ==
  LET p == pending[t]
  IN  /\ call' = [op |-> p.op, rc |-> map_backend_result(raw).code,
                  ran |-> p.ran, raw |-> raw, id |-> p.id]
      /\ g_last_backend_result' = map_backend_result(raw).last
      /\ lastFailure' = IF raw # 0 THEN raw ELSE lastFailure
      /\ id' = IF p.op = "get_unique_id" /\ raw = 0
               THEN [len |-> AdapterBytes(p.through), minted |-> p.ran.fam]
               ELSE id

Return(t) ==
  /\ ~Idle(t)
  /\ \E raw \in BackendResults :
       /\ Maps(t, raw)
       /\ owed' = [owed EXCEPT ![t] =
                     IF map_backend_result(raw).code = UNICC_ERR_UNHANDLED_BACKEND
                     THEN raw ELSE 0]
  /\ pending' = [pending EXCEPT ![t] = NULL]
  /\ UNCHANGED <<vtableVars, refs, g_state, g_handle, g_lib_path, opened>>

-----------------------------------------------------------------------------
(* Mutant: the lifecycle is serialized, the calls are not waited for. *)
MutNoDrain == \E t \in Thread : Idle(t)
(* The callers' discipline. *)
Quiescent == \A t \in Thread : Idle(t)

(* Initialisation and finalization run alone; the thread that runs them    *)
(* starts a new lifecycle for all.                                         *)
Alone ==
  /\ Quiescent
  /\ \/ \E env \in Envs : unicc_init_path_too_long(env)
     \/ \E env \in Envs, host \in Hosts :
          \/ unicc_init_load_fails(env, host)
          \/ unicc_init_vtable_fails(env, host)
          \/ unicc_init_succeeds(env, host)
     \/ unicc_finalize
  /\ owed' = [t \in Thread |-> 0]
  /\ UNCHANGED pending

(* A second unicc_init and a diagnosis change nothing that calls use, and  *)
(* run beside them.                                                        *)
Beside(t) ==
  /\ Idle(t)
  /\ unicc_init_already \/ \E env \in Envs, host \in Hosts : unicc_diagnose(env, host)
  /\ UNCHANGED threadVars

ThreadsNext ==
  \/ Alone
  \/ \E t \in Thread :
       \/ Beside(t)
       \/ Return(t)
       \/ \E op \in Ops : Refuse(t, op) \/ Enter(t, op)

ThreadsSpec == ThreadsInit /\ [][ThreadsNext]_tvars

-----------------------------------------------------------------------------
(* Type correctness of the threads' own state. *)
ThreadsTypeOK ==
  /\ pending \in [Thread -> Pending \cup {NULL}]
  /\ owed \in [Thread -> Int]

(* A thread inside a native function is inside the live library, which is  *)
(* mapped, in the function its slot still leads to: neither a lifecycle    *)
(* call nor a diagnosis pulls the library out from under it (docs/API.md,  *)
(* "collective calls must not race unicc_finalize").                       *)
NoCallOutlivesItsLibrary ==
  \A t \in Thread : ~Idle(t) =>
    LET p == pending[t]
    IN  /\ g_state = UNICC_STATE_INIT
        /\ p.ran = dlsym(g_handle, g_backend_type, SlotSymbol[p.op])
        /\ p.ran = Target(p.op)
        /\ refs[g_handle] > 0

(* Concurrent calls are as good as calls made one after the other: each    *)
(* takes effect at once, when its native function returns.                 *)
CallsAreAtomic == Spec

(* While the backend lives, a failure that was reported to a thread may be *)
(* replaced by another thread's, for g_last_backend_result is one for all, *)
(* but it is never forgotten.                                              *)
FailureNotForgotten ==
  \A t \in Thread : owed[t] # 0 => unicc_get_last_error # 0

=============================================================================
