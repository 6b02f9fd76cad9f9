------------------------------ MODULE UniccLoader ------------------------------
(***************************************************************************)
(* unicc_loader_load step by step: the preferred name, the fallback of the *)
(* table, the macOS spelling, and the report of a failure.  UniccBackends  *)
(* has the same function as one operator; here are the dlopen calls one by *)
(* one, the handles they return, and the text of dlerror, which lives in a *)
(* buffer of the platform's and is only pointed to.                        *)
(***************************************************************************)
EXTENDS UniccBackends

CONSTANTS
  Hosts,  (* what dlopen finds at one time or another                      *)
  Paths   (* the library names that are asked for                          *)

ASSUME LoaderAssumption == Hosts \subseteq Host /\ Paths \subseteq Name

VARIABLES
  pc,           (* the dlopen that comes next, or "returned"               *)
  host, path,   (* the call's surroundings and its lib_path                *)
  handle,       (* the open library, NULL when there is none               *)
  loaded,       (* the name that loaded points to, and that is reported    *)
  opens,        (* how many dlopen calls have succeeded                    *)
  buffer,       (* whose failure the platform's error text is about        *)
  primary_err,  (* where primary_err points: NULL, or "buffer" as long as
                   the text it was captured with is still there, or
                   "stale" when that text is gone                          *)
  told          (* whose failure the caller was told about, or NULL        *)

vars == <<pc, host, path, handle, loaded, opens, buffer, primary_err, told>>

Init ==
  /\ pc = "dlopen"
  /\ host \in Hosts
  /\ path \in Paths
  /\ handle = NULL
  /\ loaded = path
  /\ opens = 0
  /\ buffer = NULL
  /\ primary_err = NULL
  /\ told = NULL

-----------------------------------------------------------------------------
(* Mutant: the names that remain are tried as well. *)
MutKeepsTrying(name) ==
  /\ handle' = host[name]
  /\ opens' = opens + 1
  /\ pc' = IF pc = "dlopen" THEN "alt" ELSE "returned"
  /\ UNCHANGED <<buffer, primary_err, told>>

(* dlopen succeeds: the handle is kept and later names are not tried.      *)
Succeeds(name) ==
  /\ handle' = host[name]
  /\ opens' = opens + 1
  /\ pc' = "returned"
  /\ UNCHANGED <<buffer, primary_err, told>>

(* dlopen fails.  POSIX keeps one error text per thread: a later failure   *)
(* replaces or frees it.  On Windows the text is written only when         *)
(* unicc_platform_dlerror is called.                                       *)
Overwrites(name) ==
  /\ buffer' = IF Platform = "windows" THEN buffer ELSE name
  /\ primary_err' = IF primary_err = "buffer" /\ Platform # "windows" THEN "stale"
                                                                      ELSE primary_err
  /\ UNCHANGED <<handle, opens>>

(* Mutant: the error is captured only when it is reported. *)
MutCapturesLate(name) == buffer' = name /\ primary_err' = NULL
(* unicc_platform_dlerror right after the failure of name. *)
Captures(name) == buffer' = name /\ primary_err' = "buffer"

(* What the caller reads through primary_err. *)
Text ==
  CASE primary_err = "buffer" -> {buffer}
    [] primary_err = "stale"  -> {buffer, path, Indeterminate}
    [] OTHER                  -> {Indeterminate}

open_path ==
  /\ pc = "dlopen"
  /\ \/ Opens(host, path) /\ Succeeds(path)
     \/ /\ ~Opens(host, path)
        /\ Captures(path)
        /\ pc' = "alt"
        /\ UNCHANGED <<handle, opens, told>>
  /\ UNCHANGED <<host, path, loaded>>

open_alt ==
  LET alt == lib_name_alt_of(path)
  IN  /\ pc = "alt"
      /\ \/ alt = NULL /\ pc' = "dylib"
            /\ UNCHANGED <<handle, loaded, opens, buffer, primary_err, told>>
         \/ Opens(host, alt) /\ Succeeds(alt) /\ loaded' = alt
         \/ /\ alt # NULL /\ ~Opens(host, alt)
            /\ Overwrites(alt)
            /\ pc' = "dylib"
            /\ UNCHANGED <<loaded, told>>
      /\ UNCHANGED <<host, path>>

(* loaded is left pointing into a block that has ended. *)
open_dylib ==
  LET dylib == IF Platform = "macos" THEN DylibOf[path] ELSE NULL
  IN  /\ pc = "dylib"
      /\ \/ dylib = NULL /\ pc' = "report"
            /\ UNCHANGED <<handle, loaded, opens, buffer, primary_err, told>>
         \/ Opens(host, dylib) /\ Succeeds(dylib) /\ loaded' \in {dylib, Indeterminate}
         \/ /\ dylib # NULL /\ ~Opens(host, dylib)
            /\ Overwrites(dylib)
            /\ pc' = "report"
            /\ UNCHANGED <<loaded, told>>
      /\ UNCHANGED <<host, path>>

report ==
  /\ pc = "report"
  /\ told' \in Text
  /\ pc' = "returned"
  /\ UNCHANGED <<host, path, handle, loaded, opens, buffer, primary_err>>

Next == open_path \/ open_alt \/ open_dylib \/ report

Spec == Init /\ [][Next]_vars

-----------------------------------------------------------------------------
(* Type correctness of the call's locals and of the error text. *)
TypeOK ==
  /\ pc \in {"dlopen", "alt", "dylib", "report", "returned"}
  /\ host \in Hosts /\ path \in Paths
  /\ handle \in Lib \cup {NULL}
  /\ loaded \in Name
  /\ opens \in {0, 1}
  /\ buffer \in Name \cup {NULL}
  /\ primary_err \in {NULL, "buffer", "stale"}
  /\ told \in Name \cup {NULL}

(* However many names are tried, the caller gets the only handle that was  *)
(* opened, under the name that unicc_loader_load of UniccBackends gives:   *)
(* the atomic load that the API modules use is what these steps come to.   *)
LoadsAsOneStep ==
  pc = "returned" =>
    LET outcomes == unicc_loader_load(host, path)
    IN  IF handle = NULL
        THEN outcomes = {} /\ opens = 0
        ELSE /\ opens = 1
             /\ \E out \in outcomes : out.lib = handle /\ out.reported = loaded

(* A failed load tells why the name that was asked for failed, not why a   *)
(* fallback did (unicc_loader.c, "capture the PRIMARY failure now, before  *)
(* any fallback dlopen overwrites it, so a corrupt primary is not          *)
(* misreported as an absent fallback", F15).                               *)
PrimaryReported == pc = "returned" /\ handle = NULL => told = path

(* So it does, but for one way to go wrong: on POSIX a fallback's dlopen   *)
(* has failed in between.                                                  *)
MisledOnlyByFallback ==
  pc = "returned" /\ handle = NULL /\ told # path =>
    /\ Platform # "windows"
    /\ \/ lib_name_alt_of(path) # NULL
       \/ Platform = "macos" /\ DylibOf[path] # NULL

=============================================================================
