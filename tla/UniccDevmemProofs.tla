-------------------------- MODULE UniccDevmemProofs --------------------------
(***************************************************************************)
(* Proofs about UniccDevmem, for any libraries, any functions and any      *)
(* number of names.                                                        *)
(***************************************************************************)
EXTENDS UniccDevmem, TLAPS

(* While the search runs nothing is open, and the names before i lead to   *)
(* no complete library; it ends either there, with everything tried, or    *)
(* with the pointers of the one library it has left open.                  *)
SearchInv ==
  /\ rc # 0 => refs = [l \in Lib |-> 0] /\ runtime = Indeterminate
  /\ rc = -1 => i \notin Candidate
  /\ \A c \in Candidate : c < i => ~HasAll(c)

IInv == TypeOK /\ SearchInv /\ OneOpenRuntime /\ (rc = 0 => i \in Candidate /\ runtime = prefix(i))

USE DevmemAssumption, PointerAssumption

(* Looking a function up gives its address or NULL. *)
LEMMA ResolvedType ==
  ASSUME TypeOK, Running, found[i] # NULL
  PROVE  /\ Resolved(found[i]) \in [Function -> Pointer \cup {NULL}]
         /\ \A f \in Function :
              Resolved(found[i])[f] # NULL =>
                /\ Resolved(found[i])[f] = [lib |-> found[i], sym |-> <<prefix(i), f>>]
                /\ <<prefix(i), f>> \in exports[found[i]]
         /\ HasAll(i) <=> \A f \in Function : Resolved(found[i])[f] # NULL
<1>1. found[i] \in Lib /\ prefix(i) \in Prefix
  BY DEF TypeOK, Running, prefix, Prefix
<1>2. \A f \in Function : [lib |-> found[i], sym |-> <<prefix(i), f>>] \in Pointer
  BY <1>1 DEF Pointer, Symbol
<1>3. \A f \in Function :
        Resolved(found[i])[f] = IF <<prefix(i), f>> \in exports[found[i]]
                                THEN [lib |-> found[i], sym |-> <<prefix(i), f>>] ELSE NULL
  BY DEF Resolved, dlsym
<1>4. NULL \notin Pointer
  OBVIOUS
<1> QED
  BY <1>2, <1>3, <1>4 DEF Resolved, dlsym, HasAll

(* Opening a library and closing it again changes no count. *)
LEMMA OpenClose ==
  ASSUME TypeOK, NEW l \in Lib
  PROVE  dlclose(dlopen(refs, l), l) = refs
<1>1. refs \in [Lib -> Int]
  BY DEF TypeOK
<1> DEFINE open == [refs EXCEPT ![l] = @ + 1]
           closed == [open EXCEPT ![l] = @ - 1]
<1>2. open \in [Lib -> Int] /\ open[l] = refs[l] + 1
  BY <1>1
<1>3. closed \in [Lib -> Int] /\ \A k \in Lib : closed[k] = refs[k]
  BY <1>1, <1>2
<1>4. closed = refs
  BY <1>1, <1>3
<1> QED
  BY <1>4 DEF dlclose, dlopen

(* The invariant holds at first and is kept by every turn of the loop.     *)
THEOREM Inductive == Spec => []IInv
<1>1. Init => IInv
  <2> SUFFICES ASSUME Init PROVE IInv
    OBVIOUS
  <2>1. TypeOK
    BY DEF Init, TypeOK, Candidate
  <2>2. SearchInv /\ OneOpenRuntime
    BY DEF Init, SearchInv, OneOpenRuntime, Candidate
  <2> QED
    BY <2>1, <2>2 DEF IInv, Init
<1>2. IInv /\ [Next]_vars => IInv'
  <2> SUFFICES ASSUME IInv, [Next]_vars PROVE IInv'
    OBVIOUS
  <2> USE DEF IInv
  <2>1. CASE absent
    <3>1. TypeOK'
      BY <2>1 DEF absent, TypeOK, Running, Candidate
    <3>2. \A c \in Candidate : HasAll(c)' = HasAll(c)
      BY <2>1 DEF absent, HasAll
    <3>3. ~HasAll(i)
      BY <2>1 DEF absent, HasAll
    <3>4. SearchInv'
      BY <2>1, <3>2, <3>3 DEF absent, SearchInv, TypeOK, Running, Candidate
    <3> QED
      BY <2>1, <3>1, <3>4 DEF absent, OneOpenRuntime, Running
  <2>2. CASE complete
    <3>1. found[i] \in Lib
      BY <2>2 DEF complete, TypeOK, Running
    <3>2. refs = [l \in Lib |-> 0]
      BY <2>2 DEF complete, Running, SearchInv
    <3>3. refs' = [l \in Lib |-> IF l = found[i] THEN 1 ELSE 0]
      BY <2>2, <3>1, <3>2 DEF complete, dlopen
    <3>4. api' \in [Function -> Pointer \cup {NULL}]
      BY <2>2, ResolvedType DEF complete
    <3>5. \A f \in Function : api'[f] = [lib |-> found[i], sym |-> <<runtime', f>>]
      BY <2>2, ResolvedType DEF complete
    <3>6. TypeOK'
      BY <2>2, <3>3, <3>4 DEF complete, TypeOK, prefix, Prefix
    <3>7. OneOpenRuntime'
      BY <2>2, <3>1, <3>3, <3>5 DEF complete, OneOpenRuntime
    <3>8. \A c \in Candidate : HasAll(c)' = HasAll(c)
      BY <2>2 DEF complete, HasAll
    <3>9. SearchInv'
      BY <2>2, <3>8 DEF complete, SearchInv
    <3> QED
      BY <2>2, <3>6, <3>7, <3>9 DEF complete, Running
  <2>3. CASE incomplete
    <3>1. found[i] \in Lib
      BY <2>3 DEF incomplete, TypeOK, Running
    <3>2. UNCHANGED refs
      BY <2>3, <3>1, OpenClose DEF incomplete
    <3>3. TypeOK'
      BY <2>3, <3>2, ResolvedType DEF incomplete, TypeOK, Running, Candidate
    <3>4. \A c \in Candidate : HasAll(c)' = HasAll(c)
      BY <2>3 DEF incomplete, HasAll
    <3>5. ~HasAll(i)
      BY <2>3, ResolvedType DEF incomplete
    <3>6. SearchInv'
      BY <2>3, <3>2, <3>4, <3>5 DEF incomplete, SearchInv, TypeOK, Running, Candidate
    <3> QED
      BY <2>3, <3>3, <3>6 DEF incomplete, OneOpenRuntime, Running
  <2>4. CASE no_runtime
    <3>1. TypeOK'
      BY <2>4 DEF no_runtime, TypeOK
    <3>2. \A c \in Candidate : HasAll(c)' = HasAll(c)
      BY <2>4 DEF no_runtime, HasAll
    <3>3. SearchInv'
      BY <2>4, <3>2 DEF no_runtime, SearchInv
    <3> QED
      BY <2>4, <3>1, <3>3 DEF no_runtime, OneOpenRuntime
  <2>5. CASE UNCHANGED vars
    BY <2>5 DEF vars, TypeOK, SearchInv, OneOpenRuntime, HasAll
  <2> QED
    BY <2>1, <2>2, <2>3, <2>4, <2>5 DEF Next
<1> QED
  BY <1>1, <1>2, PTL DEF Spec

(* Reference counts stay 0 or 1 and every pointer is an address, NULL or   *)
(* untouched: no library is opened twice or closed twice by the loop.      *)
THEOREM TypeCorrect == Spec => []TypeOK
BY Inductive, PTL DEF IInv

(* For any libraries: a successful load binds all functions to one open    *)
(* library under one prefix and has closed all the others.                 *)
THEOREM One_Open_Runtime == Spec => []OneOpenRuntime
BY Inductive, PTL DEF IInv

(* For any libraries: a failed load leaves nothing open, and there was     *)
(* nothing to be found.                                                    *)
THEOREM Fails_Only_Without_Runtime == Spec => []FailsOnlyWithoutRuntime
<1>1. IInv => FailsOnlyWithoutRuntime
  BY DEF IInv, SearchInv, FailsOnlyWithoutRuntime, TypeOK, Candidate
<1> QED
  BY <1>1, Inductive, PTL

(* For any libraries: HIP is chosen only where CUDA cannot be.             *)
THEOREM Cuda_Preferred == Spec => []CudaPreferred
<1>1. IInv => CudaPreferred
  <2> SUFFICES ASSUME IInv, runtime = "hip", NEW c \in Candidate, prefix(c) = "cuda"
               PROVE  ~HasAll(c)
    BY DEF CudaPreferred
  <2>1. rc = 0
    BY DEF IInv, SearchInv, Prefix
  <2>2. i \in Candidate /\ prefix(i) = "hip"
    BY <2>1 DEF IInv
  <2>3. c < i
    BY <2>2 DEF prefix, Candidate
  <2> QED
    BY <2>3 DEF IInv, SearchInv
<1> QED
  BY <1>1, Inductive, PTL
=============================================================================
