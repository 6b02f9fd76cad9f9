--------------------------- MODULE UniccLoaderProofs ---------------------------
(***************************************************************************)
(* The loader's chain of dlopen calls, for any host and any name: it opens *)
(* at most one library, it comes to what UniccBackends says in one step,   *)
(* and it reports the first failure unless a fallback's replaced it.       *)
(***************************************************************************)
EXTENDS UniccLoader, TLAPS

alt == lib_name_alt_of(path)
dylib == IF Platform = "macos" THEN DylibOf[path] ELSE NULL

(* What has been tried by the time pc is reached. *)
Tried ==
  /\ pc # "returned" => handle = NULL /\ opens = 0 /\ loaded = path
  /\ pc \in {"alt", "dylib", "report"} => ~Opens(host, path)
  /\ pc \in {"dylib", "report"} => ~Opens(host, alt)
  /\ pc = "report" => ~Opens(host, dylib)

(* The error text that the caller will be shown, by what has been tried    *)
(* since it was captured.                                                  *)
Kept == buffer = path /\ primary_err = "buffer"
Captured ==
  /\ pc = "alt" => Kept
  /\ pc = "dylib" => Kept \/ (Platform # "windows" /\ alt # NULL)
  /\ pc = "report" => Kept \/ (Platform # "windows" /\ (alt # NULL \/ dylib # NULL))

IInv == TypeOK /\ Tried /\ LoadsAsOneStep

(* Every name that the loader tries is a name. *)
LEMMA NamesTried ==
  ASSUME TypeOK
  PROVE  /\ path \in Name /\ host \in Host
         /\ alt \in Name \cup {NULL}
         /\ dylib \in Name \cup {NULL}
         /\ Indeterminate \in Name
         /\ \A n \in Name \cup {NULL} : Opens(host, n) => n \in Name /\ host[n] \in Lib
<1>1. path \in Name /\ host \in Host
  BY LoaderAssumption DEF TypeOK
<1>2. \A k \in Row : unicc_backends[k].lib_name_alt \in Name \cup {NULL}
  BY DEF Row, UNICC_MAX_BACKENDS, unicc_backends, Name
<1>3. alt \in Name \cup {NULL}
  BY <1>2 DEF alt, lib_name_alt_of
<1>4. dylib \in Name \cup {NULL}
  BY <1>1, ConstantAssumption DEF dylib
<1>5. \A n \in Name \cup {NULL} : Opens(host, n) => n \in Name /\ host[n] \in Lib
  BY <1>1 DEF Opens, Host
<1> QED
  BY <1>1, <1>3, <1>4, <1>5 DEF Name, Indeterminate

(* The outcomes of a load, by the first name that opens. *)
LEMMA Outcomes ==
  /\ Opens(host, path) =>
       unicc_loader_load(host, path) =
         {[lib |-> host[path], opened |-> path, reported |-> path]}
  /\ ~Opens(host, path) /\ Opens(host, alt) =>
       unicc_loader_load(host, path) =
         {[lib |-> host[alt], opened |-> alt, reported |-> alt]}
  /\ ~Opens(host, path) /\ ~Opens(host, alt) /\ Opens(host, dylib) =>
       unicc_loader_load(host, path) =
         {[lib |-> host[dylib], opened |-> dylib, reported |-> r] :
            r \in {dylib, Indeterminate}}
  /\ ~Opens(host, path) /\ ~Opens(host, alt) /\ ~Opens(host, dylib) =>
       unicc_loader_load(host, path) = {}
BY DEF unicc_loader_load, alt, dylib

-----------------------------------------------------------------------------
(* The first name is the one asked for. *)
LEMMA PathKeepsIInv ==
  ASSUME IInv, open_path
  PROVE  IInv'
<1>0. TypeOK /\ Tried /\ pc = "dlopen" /\ handle = NULL /\ opens = 0 /\ loaded = path
  BY DEF IInv, Tried, open_path
<1>1. CASE Opens(host, path) /\ Succeeds(path)
  <2>1. /\ handle' = host[path] /\ opens' = 1 /\ pc' = "returned"
        /\ UNCHANGED <<host, path, loaded, buffer, primary_err, told>>
    BY <1>0, <1>1 DEF open_path, Succeeds
  <2>2. handle' \in Lib
    BY <1>0, <1>1, <2>1, NamesTried DEF Opens, Host
  <2>3. TypeOK'
    BY <1>0, <2>1, <2>2 DEF TypeOK
  <2>4. [lib |-> host[path], opened |-> path, reported |-> path]
          \in unicc_loader_load(host, path)
    BY <1>0, <1>1, Outcomes
  <2>5. LoadsAsOneStep'
    BY <1>0, <1>1, <2>1, <2>2, <2>4, NullAssumption DEF LoadsAsOneStep
  <2> QED
    BY <2>1, <2>3, <2>5 DEF IInv, Tried
<1>2. CASE /\ ~Opens(host, path)
           /\ Captures(path)
           /\ pc' = "alt"
           /\ UNCHANGED <<handle, opens, told>>
  <2>1. UNCHANGED <<host, path, loaded>> /\ buffer' = path /\ primary_err' = "buffer"
    BY <1>2 DEF open_path, Captures
  <2>2. TypeOK'
    BY <1>0, <1>2, <2>1, NamesTried DEF TypeOK
  <2> QED
    BY <1>0, <1>2, <2>1, <2>2 DEF IInv, Tried, LoadsAsOneStep, Opens
<1> QED
  BY <1>1, <1>2 DEF open_path

(* Then its fallback of the backend table. *)
LEMMA AltKeepsIInv ==
  ASSUME IInv, open_alt
  PROVE  IInv'
<1>0. /\ TypeOK /\ Tried /\ pc = "alt" /\ handle = NULL /\ opens = 0 /\ loaded = path
      /\ ~Opens(host, path)
      /\ UNCHANGED <<host, path>>
  BY DEF IInv, Tried, open_alt
<1>1. CASE /\ alt = NULL /\ pc' = "dylib"
           /\ UNCHANGED <<handle, loaded, opens, buffer, primary_err, told>>
  <2>1. TypeOK'
    BY <1>0, <1>1 DEF TypeOK
  <2> QED
    BY <1>0, <1>1, <2>1 DEF IInv, Tried, LoadsAsOneStep, Opens, alt
<1>2. CASE Opens(host, alt) /\ Succeeds(alt) /\ loaded' = alt
  <2>1. /\ handle' = host[alt] /\ opens' = 1 /\ pc' = "returned"
        /\ UNCHANGED <<buffer, primary_err, told>>
    BY <1>0, <1>2 DEF Succeeds
  <2>2. alt \in Name /\ handle' \in Lib
    BY <1>0, <1>2, <2>1, NamesTried
  <2>3. TypeOK'
    BY <1>0, <1>2, <2>1, <2>2 DEF TypeOK
  <2>4. [lib |-> host[alt], opened |-> alt, reported |-> alt]
          \in unicc_loader_load(host, path)
    BY <1>0, <1>2, Outcomes
  <2>5. LoadsAsOneStep'
    BY <1>0, <1>2, <2>1, <2>2, <2>4, NullAssumption DEF LoadsAsOneStep
  <2> QED
    BY <2>1, <2>3, <2>5 DEF IInv, Tried
<1>3. CASE /\ alt # NULL /\ ~Opens(host, alt)
           /\ Overwrites(alt)
           /\ pc' = "dylib"
           /\ UNCHANGED <<loaded, told>>
  <2>1. /\ UNCHANGED <<handle, opens>>
        /\ buffer' \in Name \cup {NULL} /\ primary_err' \in {NULL, "buffer", "stale"}
    BY <1>0, <1>3, NamesTried DEF Overwrites, TypeOK
  <2>2. TypeOK'
    BY <1>0, <1>3, <2>1 DEF TypeOK
  <2> QED
    BY <1>0, <1>3, <2>1, <2>2 DEF IInv, Tried, LoadsAsOneStep, Opens, alt
<1> QED
  BY <1>1, <1>2, <1>3, Zenon DEF open_alt, alt

(* Then the macOS spelling, where there is one. *)
LEMMA DylibKeepsIInv ==
  ASSUME IInv, open_dylib
  PROVE  IInv'
<1>0. /\ TypeOK /\ Tried /\ pc = "dylib" /\ handle = NULL /\ opens = 0 /\ loaded = path
      /\ ~Opens(host, path) /\ ~Opens(host, alt)
      /\ UNCHANGED <<host, path>>
  BY DEF IInv, Tried, open_dylib
<1>1. CASE /\ dylib = NULL /\ pc' = "report"
           /\ UNCHANGED <<handle, loaded, opens, buffer, primary_err, told>>
  <2>1. TypeOK'
    BY <1>0, <1>1 DEF TypeOK
  <2> QED
    BY <1>0, <1>1, <2>1 DEF IInv, Tried, LoadsAsOneStep, Opens, alt, dylib
<1>2. CASE Opens(host, dylib) /\ Succeeds(dylib) /\ loaded' \in {dylib, Indeterminate}
  <2>1. /\ handle' = host[dylib] /\ opens' = 1 /\ pc' = "returned"
        /\ UNCHANGED <<buffer, primary_err, told>>
    BY <1>0, <1>2 DEF Succeeds
  <2>2. dylib \in Name /\ handle' \in Lib /\ Indeterminate \in Name
    BY <1>0, <1>2, <2>1, NamesTried
  <2>3. TypeOK'
    BY <1>0, <1>2, <2>1, <2>2 DEF TypeOK
  <2>4. [lib |-> host[dylib], opened |-> dylib, reported |-> loaded']
          \in unicc_loader_load(host, path)
    BY <1>0, <1>2, Outcomes
  <2>5. LoadsAsOneStep'
    BY <1>0, <2>1, <2>2, <2>4, NullAssumption DEF LoadsAsOneStep
  <2> QED
    BY <2>1, <2>3, <2>5 DEF IInv, Tried
<1>3. CASE /\ dylib # NULL /\ ~Opens(host, dylib)
           /\ Overwrites(dylib)
           /\ pc' = "report"
           /\ UNCHANGED <<loaded, told>>
  <2>1. /\ UNCHANGED <<handle, opens>>
        /\ buffer' \in Name \cup {NULL} /\ primary_err' \in {NULL, "buffer", "stale"}
    BY <1>0, <1>3, NamesTried DEF Overwrites, TypeOK
  <2>2. TypeOK'
    BY <1>0, <1>3, <2>1 DEF TypeOK
  <2> QED
    BY <1>0, <1>3, <2>1, <2>2 DEF IInv, Tried, LoadsAsOneStep, Opens, alt, dylib
<1> QED
  BY <1>1, <1>2, <1>3, Zenon DEF open_dylib, dylib

(* A load that fails has nothing to return. *)
LEMMA ReportKeepsIInv ==
  ASSUME IInv, report
  PROVE  IInv'
<1>0. /\ TypeOK /\ Tried /\ pc = "report" /\ handle = NULL /\ opens = 0
      /\ ~Opens(host, path) /\ ~Opens(host, alt) /\ ~Opens(host, dylib)
      /\ pc' = "returned"
      /\ UNCHANGED <<host, path, handle, loaded, opens, buffer, primary_err>>
  BY DEF IInv, Tried, report
<1>1. told' \in Name \cup {NULL}
  BY <1>0, NamesTried DEF report, Text, TypeOK
<1>2. TypeOK'
  BY <1>0, <1>1 DEF TypeOK
<1>3. unicc_loader_load(host, path) = {}
  BY <1>0, Outcomes
<1> QED
  BY <1>0, <1>2, <1>3 DEF IInv, Tried, LoadsAsOneStep

(* IInv is inductive. *)
THEOREM Inductive == Spec => []IInv
<1>1. Init => IInv
  BY LoaderAssumption DEF Init, IInv, TypeOK, Tried, LoadsAsOneStep
<1>2. IInv /\ [Next]_vars => IInv'
  <2> SUFFICES ASSUME IInv, [Next]_vars PROVE IInv'
    OBVIOUS
  <2>1. CASE UNCHANGED vars
    BY <2>1 DEF vars, IInv, TypeOK, Tried, LoadsAsOneStep, Opens, alt, dylib
  <2> QED
    BY <2>1, PathKeepsIInv, AltKeepsIInv, DylibKeepsIInv, ReportKeepsIInv DEF Next
<1> QED
  BY <1>1, <1>2, PTL DEF Spec

-----------------------------------------------------------------------------
(* At most one library is opened, and all locals keep their types. *)
THEOREM TypeCorrect == Spec => []TypeOK
<1>1. IInv => TypeOK
  BY DEF IInv
<1> QED
  BY <1>1, Inductive, PTL

(* The chain of dlopen calls is the one atomic load of the API modules.    *)
THEOREM Loads_As_One_Step == Spec => []LoadsAsOneStep
<1>1. IInv => LoadsAsOneStep
  BY DEF IInv
<1> QED
  BY <1>1, Inductive, PTL

(* For any host, name and platform: the error that is reported is the      *)
(* first one, unless a fallback was tried on a POSIX platform.             *)
THEOREM Misled_Only_By_Fallback == Spec => []MisledOnlyByFallback
<1> DEFINE J == Captured /\ MisledOnlyByFallback
<1>1. Init => J
  BY DEF Init, Captured, MisledOnlyByFallback
<1>2. ASSUME IInv, J, [Next]_vars PROVE J'
  <2>1. CASE open_path
    BY <1>2, <2>1, NamesTried, NullAssumption
    DEF IInv, open_path, Succeeds, Captures, Captured, Kept, MisledOnlyByFallback, Opens
  <2>2. CASE open_alt
    <3>1. UNCHANGED path /\ UNCHANGED alt /\ alt = lib_name_alt_of(path)
      BY <2>2 DEF open_alt, alt
    <3>2. CASE alt = NULL /\ pc' = "dylib" /\ UNCHANGED <<buffer, primary_err>>
      BY <1>2, <2>2, <3>1, <3>2 DEF open_alt, Captured, Kept, MisledOnlyByFallback
    <3>3. CASE pc' = "returned" /\ handle' # NULL
      BY <3>3 DEF Captured, MisledOnlyByFallback
    <3>4. CASE alt # NULL /\ Overwrites(alt) /\ pc' = "dylib"
      BY <1>2, <2>2, <3>1, <3>4
      DEF open_alt, Overwrites, Captured, Kept, MisledOnlyByFallback
    <3> QED
      BY <2>2, <3>1, <3>2, <3>3, <3>4 DEF open_alt, Succeeds, Opens
  <2>3. CASE open_dylib
    <3>1. UNCHANGED path /\ UNCHANGED <<alt, dylib>>
      BY <2>3 DEF open_dylib, alt, dylib
    <3>2. CASE dylib = NULL /\ pc' = "report" /\ UNCHANGED <<buffer, primary_err>>
      BY <1>2, <2>3, <3>1, <3>2 DEF open_dylib, Captured, Kept, MisledOnlyByFallback
    <3>3. CASE pc' = "returned" /\ handle' # NULL
      BY <3>3 DEF Captured, MisledOnlyByFallback
    <3>4. CASE dylib # NULL /\ Overwrites(dylib) /\ pc' = "report"
      BY <1>2, <2>3, <3>1, <3>4
      DEF open_dylib, Overwrites, Captured, Kept, MisledOnlyByFallback, dylib
    <3> QED
      BY <2>3, <3>1, <3>2, <3>3, <3>4 DEF open_dylib, Succeeds, Opens, dylib
  <2>4. CASE report
    <3>1. pc = "report" /\ pc' = "returned" /\ told' \in Text /\ UNCHANGED path
      BY <2>4 DEF report
    <3>2. CASE Kept
      BY <3>1, <3>2 DEF Text, Kept, Captured, MisledOnlyByFallback
    <3>3. CASE ~Kept
      BY <1>2, <3>1, <3>3 DEF Captured, MisledOnlyByFallback, alt, dylib
    <3> QED
      BY <3>2, <3>3
  <2>5. CASE UNCHANGED vars
    BY <1>2, <2>5 DEF vars, Captured, Kept, MisledOnlyByFallback, alt, dylib
  <2> QED
    BY <1>2, <2>1, <2>2, <2>3, <2>4, <2>5 DEF Next
<1> QED
  BY <1>1, <1>2, Inductive, PTL DEF Spec

(* Where the error text is written only when it is asked for, a failed     *)
(* load always tells why the name that was asked for failed.               *)
THEOREM Primary_Reported ==
  ASSUME Platform = "windows"
  PROVE  Spec => []PrimaryReported
<1>1. MisledOnlyByFallback => PrimaryReported
  BY DEF MisledOnlyByFallback, PrimaryReported
<1> QED
  BY <1>1, Misled_Only_By_Fallback, PTL

=============================================================================
