------------------------- MODULE UniccThreadsProofs -------------------------
(***************************************************************************)
(* Proofs about UniccThreads, for any number of threads, any operations,   *)
(* libraries, environments and hosts.                                      *)
(***************************************************************************)
EXTENDS UniccThreads, UniccServiceProofs

USE ThreadAssumption, PendingAssumption, ApiAssumption

-----------------------------------------------------------------------------
(* Every refusal and every completed call of a thread is a call of the     *)
(* single-threaded API, with arguments that make it so.                    *)

(* A refusal of an operation without an id. *)
LEMMA RefusedIsCall ==
  ASSUME NEW op \in Slot \ {"comm_init_rank"}, NEW ok \in BOOLEAN,
         op \notin Checked => ok, Refused(op, ok, NULL)
  PROVE  Calls
<1> DEFINE a == IF ok THEN "pointer" ELSE NULL
<1>1. a \in Arg /\ "pointer" \in Arg /\ (a # NULL <=> ok)
  BY DEF Arg
<1> HIDE DEF a
<1> USE DEF Dispatch, Refused, Refusal
<1>2. CASE op = "get_version"
  <2>1. unicc_backend_version(a)
    BY <1>1, <1>2 DEF unicc_backend_version
  <2> QED
    BY <1>1, <2>1, Zenon DEF Calls
<1>3. CASE op = "comm_count"
  <2>1. unicc_comm_count(a)
    BY <1>1, <1>3 DEF unicc_comm_count
  <2> QED
    BY <1>1, <2>1, Zenon DEF Calls
<1>4. CASE op = "comm_user_rank"
  <2>1. unicc_comm_user_rank(a)
    BY <1>1, <1>4 DEF unicc_comm_user_rank
  <2> QED
    BY <1>1, <2>1, Zenon DEF Calls
<1>5. CASE op = "get_unique_id"
  <2>1. unicc_get_unique_id(a)
    BY <1>1, <1>5 DEF unicc_get_unique_id
  <2> QED
    BY <1>1, <2>1, Zenon DEF Calls
<1>6. CASE op = "allreduce"
  <2>1. unicc_allreduce(a, "pointer", 1, 0, 3)
    BY <1>1, <1>6 DEF unicc_allreduce, unicc_dtmap_lookup_dt, unicc_dtmap_lookup_op,
                      UNICC_DT_COUNT, UNICC_OP_COUNT
  <2> QED
    BY <1>1, <2>1 DEF Calls
<1>7. CASE op = "broadcast"
  <2>1. unicc_broadcast(a, 1, 0)
    BY <1>1, <1>7 DEF unicc_broadcast, unicc_dtmap_lookup_dt, UNICC_DT_COUNT
  <2> QED
    BY <1>1, <2>1 DEF Calls
<1>8. CASE op \in {"comm_destroy", "group_start", "group_end"}
  BY <1>8 DEF Calls, Checked, unicc_comm_destroy, unicc_group_start, unicc_group_end
<1> QED
  BY <1>2, <1>3, <1>4, <1>5, <1>6, <1>7, <1>8 DEF Slot

(* A refusal of comm_init_rank by the wrapper. *)
LEMMA RefusedJoinIsCall ==
  ASSUME NEW ok \in BOOLEAN, NEW i \in PeerIds,
         Refused("comm_init_rank", ok /\ i.len # 0, i)
  PROVE  Calls
<1> DEFINE a == IF ok THEN "pointer" ELSE NULL
<1>1. a \in Arg /\ (a # NULL <=> ok)
  BY DEF Arg
<1>2. i # NULL
  OBVIOUS
<1> HIDE DEF a
<1>3. unicc_comm_init_rank(a, 1, i, 0)
  BY <1>1, <1>2 DEF unicc_comm_init_rank, Refused, Refusal
<1> QED
  BY <1>1, <1>3 DEF Calls

(* A refusal of comm_init_rank by its adapter. *)
LEMMA WrongLengthIsCall ==
  ASSUME NEW i \in PeerIds, i.len # 0, g_last_backend_result \in Int,
         Refusal("comm_init_rank", TRUE) = UNICC_OK,
         i.len # AdapterBytes(unicc["comm_init_rank"].through),
         call' = Returned("comm_init_rank", UNICC_ERR_INVALID_ARGUMENT, i),
         UNCHANGED <<vtableVars, refs, apiVars, id, opened, lastFailure>>
  PROVE  Calls
<1>1. i # NULL /\ "pointer" \in Arg
  BY DEF Arg
<1>2. /\ map_backend_result(UNICC_ERR_INVALID_ARGUMENT).code = UNICC_ERR_INVALID_ARGUMENT
      /\ map_backend_result(UNICC_ERR_INVALID_ARGUMENT).last = g_last_backend_result
  BY DEF map_backend_result, UNICC_ERR_INVALID_ARGUMENT
<1> DEFINE ok == /\ "pointer" # NULL /\ 1 >= 1 /\ 0 >= 0 /\ 0 < 1 /\ i # NULL /\ i.len # 0
<1>3. ok
  BY <1>1
<1> HIDE DEF ok
<1>4. Refusal("comm_init_rank", ok) = UNICC_OK
  BY <1>3 DEF Refusal
<1>5. unicc_comm_init_rank("pointer", 1, i, 0)
  BY <1>2, <1>4, Zenon DEF unicc_comm_init_rank, ok, apiVars
<1>6. 1 \in {0, 1, 2} /\ 0 \in {-1, 0, 1}
  OBVIOUS
<1> QED
  BY <1>1, <1>5, <1>6, Zenon DEF Calls

(* A native function that ran with good arguments was dispatched. *)
LEMMA RunDispatches ==
  ASSUME NEW op \in Slot, NEW ok, ok, NEW raw \in BackendResults,
         Runs(op, TRUE, NULL, raw), UNCHANGED id
  PROVE  Dispatch(op, ok)
<1>1. Runs(op, ok, NULL, raw)
  BY DEF Runs, Refusal
<1> QED
  BY <1>1, Zenon DEF Dispatch

(* A finished operation without an id. *)
LEMMA RunIsCall ==
  ASSUME NEW op \in Slot \ {"comm_init_rank", "get_unique_id"}, NEW raw \in BackendResults,
         Runs(op, TRUE, NULL, raw), UNCHANGED id
  PROVE  Calls
<1>1. "pointer" \in Arg /\ "pointer" # NULL
  BY DEF Arg
<1>2. \A ok : ok => Dispatch(op, ok)
  BY RunDispatches
<1>3. CASE op = "get_version"
  BY <1>1, <1>2, <1>3, Zenon DEF unicc_backend_version, Calls
<1>4. CASE op = "comm_count"
  BY <1>1, <1>2, <1>4, Zenon DEF unicc_comm_count, Calls
<1>5. CASE op = "comm_user_rank"
  BY <1>1, <1>2, <1>5, Zenon DEF unicc_comm_user_rank, Calls
<1>6. unicc_dtmap_lookup_dt(0) >= 0 /\ unicc_dtmap_lookup_op(3) >= 0 /\ 1 # 0
  BY DEF unicc_dtmap_lookup_dt, unicc_dtmap_lookup_op, UNICC_DT_COUNT, UNICC_OP_COUNT
<1>7. CASE op = "allreduce"
  <2>1. unicc_allreduce("pointer", "pointer", 1, 0, 3)
    BY <1>1, <1>2, <1>6, <1>7, Zenon DEF unicc_allreduce
  <2>2. 1 \in {0, 1} /\ 0 \in {-1, 0, 9, 10} /\ 3 \in {-1, 3, 4}
    OBVIOUS
  <2> QED
    BY <1>1, <2>1, <2>2, Zenon DEF Calls
<1>8. CASE op = "broadcast"
  <2>1. unicc_broadcast("pointer", 1, 0)
    BY <1>1, <1>2, <1>6, <1>8, Zenon DEF unicc_broadcast
  <2>2. 1 \in {0, 1} /\ 0 \in {-1, 0, 9, 10}
    OBVIOUS
  <2> QED
    BY <1>1, <2>1, <2>2, Zenon DEF Calls
<1>9. CASE op \in {"comm_destroy", "group_start", "group_end"}
  BY <1>2, <1>9 DEF Calls, unicc_comm_destroy, unicc_group_start, unicc_group_end
<1> QED
  BY <1>3, <1>4, <1>5, <1>7, <1>8, <1>9 DEF Slot

(* A finished comm_init_rank. *)
LEMMA RunJoinIsCall ==
  ASSUME NEW i \in PeerIds, i.len # 0, NEW raw \in BackendResults,
         Runs("comm_init_rank", TRUE, i, raw), UNCHANGED id,
         i.len = AdapterBytes(unicc["comm_init_rank"].through)
  PROVE  Calls
<1>1. i # NULL /\ "pointer" \in Arg
  BY DEF Arg
<1> DEFINE ok == /\ "pointer" # NULL /\ 1 >= 1 /\ 0 >= 0 /\ 0 < 1 /\ i # NULL /\ i.len # 0
<1>2. ok
  BY <1>1
<1> HIDE DEF ok
<1>3. Runs("comm_init_rank", ok, i, raw)
  BY <1>2 DEF Runs, Refusal
<1>4. unicc_comm_init_rank("pointer", 1, i, 0)
  BY <1>3, Zenon DEF unicc_comm_init_rank, ok
<1>5. 1 \in {0, 1, 2} /\ 0 \in {-1, 0, 1}
  OBVIOUS
<1> QED
  BY <1>1, <1>4, <1>5, Zenon DEF Calls

(* A finished get_unique_id. *)
LEMMA RunMintIsCall ==
  ASSUME NEW raw \in BackendResults, Runs("get_unique_id", TRUE, NULL, raw),
         id' = IF raw = 0
               THEN [len    |-> AdapterBytes(unicc["get_unique_id"].through),
                     minted |-> Target("get_unique_id").fam]
               ELSE id
  PROVE  Calls
<1>1. "pointer" \in Arg
  BY DEF Arg
<1>2. unicc_get_unique_id("pointer")
  BY <1>1 DEF unicc_get_unique_id, Runs, Refusal
<1> QED
  BY <1>1, <1>2, Zenon DEF Calls

-----------------------------------------------------------------------------
(* The inductive invariant of the threads.                                 *)

(* A thread in a native function is there through a slot which is still    *)
(* filled as it was, with arguments that the wrapper would accept again.   *)
PendingOK(t) ==
  ~Idle(t) =>
    LET p == pending[t]
    IN  /\ p.op \in Slot
        /\ Refusal(p.op, TRUE) = UNICC_OK
        /\ p.through = unicc[p.op].through
        /\ p.ran = Target(p.op)
        /\ p.id \in IdArg(p.op)
        /\ ValidArgs(p.op, p.id)
        /\ Accepts(p.op, p.id)

TInv == IInv /\ ThreadsTypeOK /\ \A t \in Thread : PendingOK(t)

(* The initial states satisfy the invariant. *)
LEMMA InitTInv == ThreadsInit => TInv
<1> SUFFICES ASSUME ThreadsInit PROVE TInv
  OBVIOUS
<1>1. IInv
  BY InitIInv DEF ThreadsInit
<1>2. ThreadsTypeOK
  BY DEF ThreadsInit, ThreadsTypeOK
<1>3. \A t \in Thread : PendingOK(t)
  BY DEF ThreadsInit, PendingOK, Idle
<1> QED
  BY <1>1, <1>2, <1>3 DEF TInv

(* Only comm_init_rank takes an id, one of a peer. *)
LEMMA IdArgs ==
  ASSUME NEW op \in Slot, NEW i \in IdArg(op)
  PROVE  /\ op = "comm_init_rank" => i \in PeerIds
         /\ op # "comm_init_rank" => i = NULL /\ ValidArgs(op, i) /\ Accepts(op, i)
         /\ i \in CommId \cup {NULL}
BY DEF IdArg, ValidArgs, Accepts

(* A thread's refusal is a call that is refused. *)
LEMMA RefuseRefines ==
  ASSUME TInv, NEW t \in Thread, NEW op \in Ops, Refuse(t, op)
  PROVE  Calls
<1>1. op \in Slot
  OBVIOUS
<1>2. PICK i \in IdArg(op) :
       \/ \E ok \in IF op \in Checked THEN BOOLEAN ELSE {TRUE} :
            Refused(op, ok /\ ValidArgs(op, i), i)
       \/ /\ Refusal(op, ValidArgs(op, i)) = UNICC_OK
          /\ ~Accepts(op, i)
          /\ call' = Returned(op, UNICC_ERR_INVALID_ARGUMENT, i)
          /\ UNCHANGED <<vtableVars, refs, apiVars, id, opened, lastFailure>>
  BY Zenon DEF Refuse
<1>3. ASSUME NEW ok \in IF op \in Checked THEN BOOLEAN ELSE {TRUE},
             Refused(op, ok /\ ValidArgs(op, i), i)
      PROVE  Calls
  <2>0. ok \in BOOLEAN /\ (op \notin Checked => ok)
    OBVIOUS
  <2>1. CASE op = "comm_init_rank"
    <3>1. i \in PeerIds
      BY <1>1, <2>1, IdArgs
    <3>2. Refused("comm_init_rank", ok /\ i.len # 0, i)
      BY <1>3, <2>1 DEF ValidArgs, Refused, Refusal
    <3> QED
      BY <2>0, <3>1, <3>2, RefusedJoinIsCall
  <2>2. CASE op # "comm_init_rank"
    <3>1. i = NULL /\ ValidArgs(op, i)
      BY <1>1, <2>2, IdArgs
    <3>2. Refused(op, ok, NULL)
      BY <1>3, <3>1 DEF Refused, Refusal
    <3> QED
      BY <1>1, <2>0, <2>2, <3>2, RefusedIsCall
  <2> QED
    BY <2>1, <2>2
<1>4. ASSUME Refusal(op, ValidArgs(op, i)) = UNICC_OK, ~Accepts(op, i),
             call' = Returned(op, UNICC_ERR_INVALID_ARGUMENT, i),
             UNCHANGED <<vtableVars, refs, apiVars, id, opened, lastFailure>>
      PROVE  Calls
  <2>1. op = "comm_init_rank" /\ i \in PeerIds
    BY <1>1, <1>4, IdArgs
  <2>2. i.len # 0 /\ Refusal("comm_init_rank", TRUE) = UNICC_OK
    BY <1>4, <2>1 DEF ValidArgs, Refusal, UNICC_OK, UNICC_ERR_NOT_INITIALIZED,
       UNICC_ERR_NOT_SUPPORTED, UNICC_ERR_INVALID_ARGUMENT
  <2>3. i.len # AdapterBytes(unicc["comm_init_rank"].through)
    BY <1>4, <2>1 DEF Accepts
  <2>4. g_last_backend_result \in Int
    BY DEF TInv, IInv, TypeOK
  <2> QED
    BY <1>4, <2>1, <2>2, <2>3, <2>4, WrongLengthIsCall
<1> QED
  BY <1>2, <1>3, <1>4

(* A thread's return is a call that runs, as a whole. *)
LEMMA ReturnRefines ==
  ASSUME TInv, NEW t \in Thread, Return(t)
  PROVE  Calls
<1> DEFINE p == pending[t]
<1>1. PICK raw \in BackendResults : Maps(t, raw)
  BY DEF Return
<1>2. /\ p.op \in Slot /\ Refusal(p.op, TRUE) = UNICC_OK
      /\ p.through = unicc[p.op].through /\ p.ran = Target(p.op)
      /\ p.id \in IdArg(p.op) /\ ValidArgs(p.op, p.id) /\ Accepts(p.op, p.id)
  BY DEF TInv, PendingOK, Return
<1>3. Runs(p.op, TRUE, p.id, raw)
  BY <1>1, <1>2 DEF Maps, Runs, Return
<1>4. id' = IF p.op = "get_unique_id" /\ raw = 0
            THEN [len |-> AdapterBytes(p.through), minted |-> p.ran.fam] ELSE id
  BY <1>1 DEF Maps
<1> HIDE DEF p
<1>5. CASE p.op = "comm_init_rank"
  <2>1. p.id \in PeerIds /\ p.id.len # 0
    BY <1>2, <1>5, IdArgs DEF ValidArgs
  <2>2. p.id.len = AdapterBytes(unicc["comm_init_rank"].through)
    BY <1>2, <1>5 DEF Accepts
  <2> QED
    BY <1>3, <1>4, <1>5, <2>1, <2>2, RunJoinIsCall
<1>6. CASE p.op = "get_unique_id"
  <2>1. p.id = NULL
    BY <1>2, <1>6, IdArgs
  <2> QED
    BY <1>2, <1>3, <1>4, <1>6, <2>1, RunMintIsCall
<1>7. CASE p.op \notin {"comm_init_rank", "get_unique_id"}
  <2>1. p.id = NULL
    BY <1>2, <1>7, IdArgs
  <2> QED
    BY <1>2, <1>3, <1>4, <1>7, <2>1, RunIsCall
<1> QED
  BY <1>5, <1>6, <1>7

(* Every step of the threads is a step of the single-threaded API, or none. *)
LEMMA StepRefines ==
  ASSUME TInv, [ThreadsNext]_tvars
  PROVE  [Next]_vars
<1>1. CASE Alone
  BY <1>1 DEF Alone, Next, Lifecycle
<1>2. ASSUME NEW t \in Thread, Beside(t) PROVE Next
  BY <1>2 DEF Beside, Next, Lifecycle
<1>3. ASSUME NEW t \in Thread, Return(t) PROVE Next
  BY <1>3, ReturnRefines DEF Next
<1>4. ASSUME NEW t \in Thread, NEW op \in Ops, Refuse(t, op) PROVE Next
  BY <1>4, RefuseRefines DEF Next
<1>5. ASSUME NEW t \in Thread, NEW op \in Ops, Enter(t, op) PROVE UNCHANGED vars
  BY <1>5 DEF Enter
<1>6. CASE UNCHANGED tvars
  BY <1>6 DEF tvars
<1> QED
  BY <1>1, <1>2, <1>3, <1>4, <1>5, <1>6 DEF ThreadsNext

(* Where table, statics and state stay, so does what is pending. *)
LEMMA PendingFrame ==
  ASSUME NEW t \in Thread, PendingOK(t), UNCHANGED <<unicc, s, g_state>>,
         pending'[t] = pending[t]
  PROVE  PendingOK(t)'
BY DEF PendingOK, Idle, Refusal, Target, Accepts, ValidArgs

(* Entering a native function keeps the invariant. *)
LEMMA EnterKeepsTInv ==
  ASSUME TInv, NEW t \in Thread, NEW op \in Ops, Enter(t, op)
  PROVE  TInv'
<1>1. UNCHANGED vars /\ op \in Slot
  BY DEF Enter
<1>2. IInv'
  BY <1>1, StutterKeepsIInv DEF TInv
<1>3. PICK i \in IdArg(op) :
        /\ Refusal(op, ValidArgs(op, i)) = UNICC_OK
        /\ Accepts(op, i)
        /\ pending' = [pending EXCEPT ![t] = [op |-> op, through |-> unicc[op].through,
                                              ran |-> Target(op), id |-> i]]
  BY Zenon DEF Enter
<1> DEFINE p == [op |-> op, through |-> unicc[op].through, ran |-> Target(op), id |-> i]
<1>4. ValidArgs(op, i) \in BOOLEAN
  BY DEF ValidArgs
<1>5. g_state = UNICC_STATE_INIT /\ unicc[op] # NULL /\ ValidArgs(op, i)
  BY <1>3, <1>4, GoesThrough
<1>6. Refusal(op, TRUE) = UNICC_OK
  BY <1>5 DEF Refusal
<1>7. unicc[op] \in FilledSlot
  BY <1>1, <1>5 DEF TInv, IInv, TypeOK, vtableTypeOK, SlotValue
<1>8. unicc[op].through \in Static
  BY <1>7 DEF FilledSlot
<1>9. Target(op) \in Pointer
  BY <1>1, <1>5, LiveSlot DEF TInv
<1>10. p \in Pending
  BY <1>1, <1>8, <1>9, IdArgs DEF Pending
<1> HIDE DEF p
<1>11. pending' = [pending EXCEPT ![t] = p] /\ pending \in [Thread -> Pending \cup {NULL}]
  BY <1>3 DEF p, TInv, ThreadsTypeOK
<1>12. ThreadsTypeOK'
  BY <1>10, <1>11 DEF Enter, TInv, ThreadsTypeOK
<1>13. pending'[t] = p
  BY <1>11
<1>14. PendingOK(t)
       /\ p.op = op /\ p.through = unicc[op].through /\ p.ran = Target(op) /\ p.id = i
  BY DEF p, TInv
<1>15. UNCHANGED <<unicc, s, g_state>>
  BY <1>1 DEF vars, apiVars
<1>16. PendingOK(t)'
  BY <1>1, <1>3, <1>5, <1>6, <1>13, <1>14, <1>15
     DEF PendingOK, Refusal, Target, Accepts
<1>17. ASSUME NEW u \in Thread, u # t PROVE PendingOK(u)'
  <2>1. pending'[u] = pending[u]
    BY <1>11, <1>17
  <2> QED
    BY <1>15, <2>1, PendingFrame DEF TInv
<1> QED
  BY <1>2, <1>12, <1>16, <1>17 DEF TInv

(* So does returning from one, *)
LEMMA ReturnKeepsTInv ==
  ASSUME TInv, NEW t \in Thread, Return(t), IInv'
  PROVE  TInv'
<1>1. pending' = [pending EXCEPT ![t] = NULL] /\ pending \in [Thread -> Pending \cup {NULL}]
  BY DEF Return, TInv, ThreadsTypeOK
<1>2. owed' \in [Thread -> Int]
  BY DEF Return, TInv, ThreadsTypeOK
<1>3. ThreadsTypeOK'
  BY <1>1, <1>2 DEF ThreadsTypeOK
<1>4. UNCHANGED <<unicc, s, g_state>>
  BY DEF Return, vtableVars
<1>5. ASSUME NEW u \in Thread PROVE PendingOK(u)'
  <2>1. CASE u = t
    BY <1>1, <2>1 DEF PendingOK, Idle
  <2>2. CASE u # t
    BY <1>1, <1>4, <2>2, PendingFrame DEF TInv
  <2> QED
    BY <2>1, <2>2
<1> QED
  BY <1>3, <1>5 DEF TInv

(* and being refused, *)
LEMMA RefuseKeepsTInv ==
  ASSUME TInv, NEW t \in Thread, NEW op \in Ops, Refuse(t, op), IInv'
  PROVE  TInv'
<1>1. UNCHANGED <<unicc, s, g_state, pending>>
  BY DEF Refuse, Refused, vtableVars, apiVars
<1>2. ThreadsTypeOK'
  BY <1>1 DEF Refuse, TInv, ThreadsTypeOK
<1>3. ASSUME NEW u \in Thread PROVE PendingOK(u)'
  BY <1>1, PendingFrame DEF TInv
<1> QED
  BY <1>2, <1>3 DEF TInv

(* and a lifecycle call, which waits for all threads. *)
LEMMA LifecycleKeepsTInv ==
  ASSUME TInv, Alone \/ \E t \in Thread : Beside(t), IInv'
  PROVE  TInv'
<1>1. CASE Alone
  <2>1. \A u \in Thread : pending'[u] = NULL
    BY <1>1 DEF Alone, Quiescent, Idle
  <2>2. ThreadsTypeOK'
    BY <1>1 DEF Alone, TInv, ThreadsTypeOK
  <2>3. \A u \in Thread : PendingOK(u)'
    BY <2>1 DEF PendingOK, Idle
  <2> QED
    BY <2>2, <2>3 DEF TInv
<1>2. CASE \E t \in Thread : Beside(t)
  <2>1. UNCHANGED <<unicc, s, g_state, pending, owed>>
    BY <1>2 DEF Beside, unicc_init_already, unicc_diagnose, vtableVars, apiVars, threadVars
  <2>2. ThreadsTypeOK'
    BY <2>1 DEF TInv, ThreadsTypeOK
  <2>3. ASSUME NEW u \in Thread PROVE PendingOK(u)'
    BY <2>1, PendingFrame DEF TInv
  <2> QED
    BY <2>2, <2>3 DEF TInv
<1> QED
  BY <1>1, <1>2

(* Every step of the threads keeps the invariant. *)
LEMMA StepKeepsTInv ==
  ASSUME TInv, [ThreadsNext]_tvars
  PROVE  TInv'
<1>1. IInv'
  BY StepRefines, LifecycleKeepsIInv, CallsKeepIInv, StutterKeepsIInv DEF TInv, Next
<1>2. CASE UNCHANGED tvars
  <2>1. UNCHANGED <<unicc, s, g_state, pending, owed>>
    BY <1>2 DEF tvars, vars, apiVars, threadVars
  <2>2. ThreadsTypeOK'
    BY <2>1 DEF TInv, ThreadsTypeOK
  <2>3. ASSUME NEW u \in Thread PROVE PendingOK(u)'
    BY <2>1, PendingFrame DEF TInv
  <2> QED
    BY <1>1, <2>2, <2>3 DEF TInv
<1> QED
  BY <1>1, <1>2, EnterKeepsTInv, ReturnKeepsTInv, RefuseKeepsTInv, LifecycleKeepsTInv
     DEF ThreadsNext

(* The invariant of the API and that of the threads hold together. *)
THEOREM ThreadsInductive == ThreadsSpec => []TInv
BY InitTInv, StepKeepsTInv, PTL DEF ThreadsSpec

-----------------------------------------------------------------------------
(* What the invariant implies.                                             *)

(* Threads keep their type. *)
THEOREM Threads_Type_Correct == ThreadsSpec => []ThreadsTypeOK
BY ThreadsInductive, PTL DEF TInv

(* For any number of threads that keep to the documented discipline: their *)
(* interleaved calls are calls made one after the other, so all that is    *)
(* proved of UniccApi holds of threads as well.                            *)
THEOREM Calls_Are_Atomic == ThreadsSpec => CallsAreAtomic
<1>1. ThreadsInit => Init
  BY DEF ThreadsInit
<1>2. TInv /\ [ThreadsNext]_tvars => [Next]_vars
  BY StepRefines
<1> QED
  BY <1>1, <1>2, ThreadsInductive, PTL DEF ThreadsSpec, CallsAreAtomic, Spec

(* For any number of threads: their interleaved calls implement the        *)
(* service: a completed call of any thread ran a function of the library   *)
(* that was live when it completed, and later calls see only that library  *)
(* and the last failure.                                                   *)
THEOREM Threads_Implement_Service == ThreadsSpec => ImplementsService
BY Calls_Are_Atomic, Implements_Service, Zenon DEF CallsAreAtomic

(* For any number of threads: what the lifecycle, the table and the loader *)
(* guarantee one thread they guarantee between the steps of several.  The  *)
(* places that say whether a backend is live agree, every slot leads to    *)
(* the live library's own function, every handle is released once, no gate *)
(* lies about the library, an id of the live backend is one it accepts,    *)
(* and no id reaches a backend that takes another length.                  *)
THEOREM Threads_Inherit_Safety ==
  ThreadsSpec => [](/\ LifecycleCoherent
                    /\ DispatchSafe
                    /\ RefsBalanced
                    /\ GatesTruthful
                    /\ IdRoundTrip
                    /\ IdNeverMisread)
<1>1. ThreadsSpec => Spec
  BY Calls_Are_Atomic DEF CallsAreAtomic
<1> QED
  BY <1>1, Coherence, Dispatch_Safe, Refs_Balanced, Gates_Truthful, Id_Round_Trip,
     Id_Never_Misread, PTL

(* For any number of threads: a thread inside a native function is inside  *)
(* the live library, which stays mapped until it has returned.             *)
THEOREM No_Call_Outlives_Its_Library == ThreadsSpec => []NoCallOutlivesItsLibrary
<1>1. TInv => NoCallOutlivesItsLibrary
  <2> SUFFICES ASSUME TInv, NEW t \in Thread, ~Idle(t)
               PROVE  /\ g_state = UNICC_STATE_INIT
                      /\ pending[t].ran = dlsym(g_handle, g_backend_type,
                                                SlotSymbol[pending[t].op])
                      /\ pending[t].ran = Target(pending[t].op)
                      /\ refs[g_handle] > 0
    BY Zenon DEF NoCallOutlivesItsLibrary
  <2>1. /\ pending[t].op \in Slot /\ Refusal(pending[t].op, TRUE) = UNICC_OK
        /\ pending[t].ran = Target(pending[t].op)
    BY DEF TInv, PendingOK
  <2>2. g_state = UNICC_STATE_INIT /\ unicc[pending[t].op] # NULL
    BY <2>1, GoesThrough
  <2>3. Target(pending[t].op) = dlsym(g_handle, g_backend_type, SlotSymbol[pending[t].op])
    BY <2>1, <2>2, LiveSlot DEF TInv
  <2>4. refs[g_handle] > 0
    BY <2>2 DEF TInv, IInv, Agreement, RefsBalanced
  <2> QED
    BY <2>1, <2>2, <2>3, <2>4
<1> QED
  BY <1>1, ThreadsInductive, PTL

(* For any number of threads, where no backend result is negative: a       *)
(* failure that was reported in this lifecycle is never cleared.           *)
THEOREM Failure_Not_Forgotten ==
  ASSUME BackendResults \subseteq Nat
  PROVE  ThreadsSpec => []FailureNotForgotten
<1>1. ThreadsInit => FailureNotForgotten
  BY DEF ThreadsInit, FailureNotForgotten
<1>2. ASSUME TInv, FailureNotForgotten, [ThreadsNext]_tvars PROVE FailureNotForgotten'
  <2> USE DEF FailureNotForgotten, unicc_get_last_error
  <2>0. owed \in [Thread -> Int]
    BY <1>2 DEF TInv, ThreadsTypeOK
  <2>1. CASE Alone
    BY <2>1 DEF Alone
  <2>2. ASSUME NEW t \in Thread, Beside(t) PROVE FailureNotForgotten'
    BY <1>2, <2>2 DEF Beside, threadVars, unicc_init_already, unicc_diagnose, apiVars
  <2>3. ASSUME NEW t \in Thread, Return(t) PROVE FailureNotForgotten'
    <3>1. PICK raw \in BackendResults :
            /\ g_last_backend_result' = map_backend_result(raw).last
            /\ owed' = [owed EXCEPT ![t] =
                          IF map_backend_result(raw).code = UNICC_ERR_UNHANDLED_BACKEND
                          THEN raw ELSE 0]
      BY <2>3, Zenon DEF Return, Maps
    <3>2. CASE raw = 0
      <4>1. /\ map_backend_result(raw).last = g_last_backend_result
            /\ map_backend_result(raw).code = UNICC_OK
        BY <3>2 DEF map_backend_result
      <4>2. owed' = [owed EXCEPT ![t] = 0]
        BY <3>1, <4>1 DEF UNICC_OK, UNICC_ERR_UNHANDLED_BACKEND
      <4> QED
        BY <1>2, <2>0, <3>1, <4>1, <4>2
    <3>3. CASE raw # 0
      <4>1. raw > 0
        BY <3>3
      <4>2. map_backend_result(raw).last = raw
        BY <4>1 DEF map_backend_result
      <4> QED
        BY <3>1, <3>3, <4>2
    <3> QED
      BY <3>2, <3>3
  <2>4. ASSUME NEW t \in Thread, NEW op \in Ops, Refuse(t, op) PROVE FailureNotForgotten'
    <3>1. UNCHANGED g_last_backend_result /\ owed' = [owed EXCEPT ![t] = 0]
      BY <2>4 DEF Refuse, Refused, apiVars
    <3> QED
      BY <1>2, <2>0, <3>1
  <2>5. ASSUME NEW t \in Thread, NEW op \in Ops, Enter(t, op) PROVE FailureNotForgotten'
    <3>1. UNCHANGED g_last_backend_result /\ owed' = [owed EXCEPT ![t] = 0]
      BY <2>5 DEF Enter, vars, apiVars
    <3> QED
      BY <1>2, <2>0, <3>1
  <2>6. CASE UNCHANGED tvars
    BY <1>2, <2>6 DEF tvars, threadVars, vars, apiVars
  <2> QED
    BY <1>2, <2>1, <2>2, <2>3, <2>4, <2>5, <2>6 DEF ThreadsNext
<1> QED
  BY <1>1, <1>2, ThreadsInductive, PTL DEF ThreadsSpec
=============================================================================
