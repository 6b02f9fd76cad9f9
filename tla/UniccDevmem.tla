------------------------------ MODULE UniccDevmem ------------------------------
(***************************************************************************)
(* The device-memory helper of the integration test,                       *)
(* tests/integration/devmem.c: it tries the names of the CUDA runtime and  *)
(* then those of HIP, and takes the first library that has all the         *)
(* functions of its prefix.  One step is one turn of load_runtime's loop.  *)
(***************************************************************************)
EXTENDS Integers

CONSTANTS
  NULL,
  Indeterminate,  (* what a variable without an initializer holds          *)
  Lib,       (* library files                                              *)
  Function,  (* Malloc, Memcpy, Memset, Free, SetDevice, GetDeviceCount    *)
  cuda_libs, (* the number of names tried for CUDA (3 in the code)         *)
  hip_libs   (* the number of names tried for HIP (4 in the code)          *)

Prefix == {"cuda", "hip"}

(* The names in the order in which they are tried, CUDA first.             *)
Candidate == 1 .. cuda_libs + hip_libs
(* Mutant: the lists are swapped. *)
MutHipFirst(c) == IF c <= cuda_libs THEN "hip" ELSE "cuda"
prefix(c) == IF c <= cuda_libs THEN "cuda" ELSE "hip"

ASSUME DevmemAssumption ==
  /\ NULL \notin Lib \cup Int
  /\ Indeterminate \notin Prefix \cup {NULL}
  /\ cuda_libs \in Nat
  /\ hip_libs \in Nat

VARIABLES
  found,    (* found[c]: the library that dlopen finds as c, or NULL       *)
  exports,  (* exports[l]: the functions <<prefix, f>> that l has          *)
  i,        (* the candidate that is tried next                            *)
  rc,       (* the result of unicc_devmem_load, NULL until it returns      *)
  api,      (* api[f]: [lib, sym], where the pointer to f leads, or NULL   *)
  runtime,  (* api->runtime                                                *)
  refs      (* refs[l]: dlopen's count of l                                *)

vars == <<found, exports, i, rc, api, runtime, refs>>

Symbol == Prefix \X Function
Pointer == [lib : Lib, sym : Symbol]

ASSUME PointerAssumption == {NULL, Indeterminate} \cap Pointer = {}

(* The test hands in an api that nobody has initialized. *)
Init ==
  /\ found \in [Candidate -> Lib \cup {NULL}]
  /\ exports \in [Lib -> SUBSET Symbol]
  /\ i = 1
  /\ rc = NULL
  /\ api = [f \in Function |-> Indeterminate]
  /\ runtime = Indeterminate
  /\ refs = [l \in Lib |-> 0]

Running == rc = NULL /\ i \in Candidate

(* dlopen finds nothing under this name. *)
absent ==
  /\ Running
  /\ found[i] = NULL
  /\ i' = i + 1
  /\ UNCHANGED <<found, exports, rc, api, runtime, refs>>

dlopen(r, l) == [r EXCEPT ![l] = @ + 1]
(* Mutant: a library is not closed. *)
MutNoClose(r, l) == r
dlclose(r, l) == [r EXCEPT ![l] = @ - 1]
dlsym(l, sym) == IF sym \in exports[l] THEN [lib |-> l, sym |-> sym] ELSE NULL

(* Mutant: a pointer that an earlier candidate gave is kept. *)
MutKeepsEarlier(l) ==
  [f \in Function |-> IF api[f] \in Pointer THEN api[f] ELSE dlsym(l, <<prefix(i), f>>)]

(* Every pointer is looked up anew in the candidate that is open. *)
Resolved(l) == [f \in Function |-> dlsym(l, <<prefix(i), f>>)]

complete ==
  /\ Running
  /\ found[i] # NULL
  /\ api' = Resolved(found[i])
  /\ \A f \in Function : api'[f] # NULL
  /\ refs' = dlopen(refs, found[i])
  /\ runtime' = prefix(i)
  /\ rc' = 0
  /\ UNCHANGED <<found, exports, i>>

(* Mutant: an incomplete candidate ends the search. *)
MutGivesUp ==
  /\ Running
  /\ found[i] # NULL
  /\ api' = Resolved(found[i])
  /\ \E f \in Function : api'[f] = NULL
  /\ refs' = dlclose(dlopen(refs, found[i]), found[i])
  /\ i' = cuda_libs + hip_libs + 1
  /\ UNCHANGED <<found, exports, rc, runtime>>

incomplete ==
  /\ Running
  /\ found[i] # NULL
  /\ api' = Resolved(found[i])
  /\ \E f \in Function : api'[f] = NULL
  /\ refs' = dlclose(dlopen(refs, found[i]), found[i])
  /\ i' = i + 1
  /\ UNCHANGED <<found, exports, rc, runtime>>

(* No candidate is left; what the last one gave stays in api. *)
no_runtime ==
  /\ rc = NULL
  /\ i \notin Candidate
  /\ rc' = -1
  /\ UNCHANGED <<found, exports, i, api, runtime, refs>>

Next == absent \/ complete \/ incomplete \/ no_runtime

Spec == Init /\ [][Next]_vars

-----------------------------------------------------------------------------
(* Type correctness. *)
TypeOK ==
  /\ found \in [Candidate -> Lib \cup {NULL}]
  /\ exports \in [Lib -> SUBSET Symbol]
  /\ i \in 1 .. cuda_libs + hip_libs + 1
  /\ rc \in {NULL, 0, -1}
  /\ api \in [Function -> Pointer \cup {NULL, Indeterminate}]
  /\ runtime \in Prefix \cup {Indeterminate}
  /\ refs \in [Lib -> {0, 1}]

(* After a successful load all the functions belong to one library and one *)
(* prefix, the library is open, and every other candidate has been closed; *)
(* nothing is mixed from two runtimes or left of an incomplete candidate   *)
(* (devmem.c, "dlclose and try the next candidate name").                  *)
OneOpenRuntime ==
  rc = 0 =>
    \E l \in Lib :
      /\ \A f \in Function : api[f] = [lib |-> l, sym |-> <<runtime, f>>]
      /\ refs = [k \in Lib |-> IF k = l THEN 1 ELSE 0]

(* A failed load leaves nothing open, and is right: no name leads to a     *)
(* complete library ("try the next candidate name rather than giving up"). *)
HasAll(c) ==
  found[c] # NULL /\ \A f \in Function : <<prefix(c), f>> \in exports[found[c]]

FailsOnlyWithoutRuntime ==
  rc = -1 =>
    /\ refs = [l \in Lib |-> 0]
    /\ \A c \in Candidate : ~HasAll(c)

(* CUDA is preferred: HIP is loaded only where no CUDA name leads to a     *)
(* complete library (devmem.h, "Load CUDA (preferred) or HIP runtime").    *)
CudaPreferred ==
  runtime = "hip" => \A c \in Candidate : prefix(c) = "cuda" => ~HasAll(c)

=============================================================================
