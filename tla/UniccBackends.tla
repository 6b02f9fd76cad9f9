---------------------------- MODULE UniccBackends ----------------------------
(***************************************************************************)
(* The static facts of UniCCL and the pure part of its loader: the backend *)
(* table unicc_backends[], the selection of a library name from the        *)
(* environment, the resolution of that name by dlopen with its fallbacks,  *)
(* and the identification of a loaded library by its exported symbols      *)
(* (src/unicc_loader.c, include/unicc_backends.h, include/unicc_errors.h). *)
(*                                                                         *)
(* A library is abstracted to the set of symbols it exports.  A symbol is  *)
(* a pair <<family, suffix>>: <<"nccl", "AllReduce">> is ncclAllReduce.    *)
(***************************************************************************)
EXTENDS Integers

CONSTANTS
  NULL,       (* the C null pointer                                        *)
  Lib,        (* the library files of the host                             *)
  exports,    (* exports[l]: the <<family, suffix>> symbols of library l   *)
  OtherName,  (* library names that are not in the table                   *)
  LongName,   (* the names that do not fit g_lib_path (strlen >= 256)      *)
  DylibOf,    (* the .dylib spelling of a name ending in .so, else NULL    *)
  Platform    (* the platform the library was compiled for                 *)

-----------------------------------------------------------------------------
(* Result codes (include/unicc_errors.h). *)
UNICC_OK == 0
UNICC_ERR_NO_BACKEND == -1
UNICC_ERR_BACKEND_LOAD == -2
UNICC_ERR_SYMBOL_NOT_FOUND == -4
UNICC_ERR_NOT_INITIALIZED == -5
UNICC_ERR_ALREADY_INITIALIZED == -6
UNICC_ERR_INVALID_ARGUMENT == -8
UNICC_ERR_NOT_SUPPORTED == -9
UNICC_ERR_UNHANDLED_BACKEND == -10
UNICC_ERR_BACKEND_NOT_SUPPORTED == -11

(* Bootstrap-id sizes in bytes. *)
UNICC_UNIQUE_ID_BYTES == 128
UNICC_ONECCL_UNIQUE_ID_BYTES == 4096

(* A family is named by its symbol prefix, which is also its backend type  *)
(* and the value of UNICC_BACKEND that selects it.                         *)
Family == {"nccl", "rccl", "oneccl", "eccl"}
UNICC_BACKEND_UNKNOWN == "unknown"

UNICC_MAX_BACKENDS == 4
Row == 1 .. UNICC_MAX_BACKENDS

(* The table, by ascending priority. *)
unicc_backends ==
  << [name |-> "nccl", lib_name |-> "libnccl.so", lib_name_alt |-> "libnccl.so.2",
      uid_bytes |-> 128, uid_kind |-> "UNICC_UID_NCCL", nranks_is_size_t |-> FALSE,
      broadcast_double_buffered |-> FALSE, has_comm_user_rank |-> TRUE],
     [name |-> "rccl", lib_name |-> "librccl.so", lib_name_alt |-> "librccl.so.1",
      uid_bytes |-> 128, uid_kind |-> "UNICC_UID_NCCL", nranks_is_size_t |-> FALSE,
      broadcast_double_buffered |-> FALSE, has_comm_user_rank |-> TRUE],
     [name |-> "oneccl", lib_name |-> "libccl.so.2", lib_name_alt |-> "libccl.so",
      uid_bytes |-> UNICC_ONECCL_UNIQUE_ID_BYTES, uid_kind |-> "UNICC_UID_ONECCL",
      nranks_is_size_t |-> TRUE,
      broadcast_double_buffered |-> TRUE, has_comm_user_rank |-> TRUE],
     [name |-> "eccl", lib_name |-> "libeccl.so", lib_name_alt |-> NULL,
      uid_bytes |-> 128, uid_kind |-> "UNICC_UID_NCCL", nranks_is_size_t |-> TRUE,
      broadcast_double_buffered |-> TRUE, has_comm_user_rank |-> FALSE] >>

(* The row of a backend type. *)
family_of(type) ==
  unicc_backends[CHOOSE i \in Row : unicc_backends[i].name = type]

-----------------------------------------------------------------------------
(* The dispatch-table slots, and the symbol suffix behind each. *)
SlotSymbol ==
  [get_version |-> "GetVersion", comm_init_rank |-> "CommInitRank",
   allreduce |-> "AllReduce", broadcast |-> "Broadcast",
   get_unique_id |-> "GetUniqueId", comm_destroy |-> "CommDestroy",
   comm_count |-> "CommCount", comm_user_rank |-> "CommUserRank",
   group_start |-> "GroupStart", group_end |-> "GroupEnd"]

Slot ==
  {"get_version", "comm_init_rank", "allreduce", "broadcast", "get_unique_id",
   "comm_destroy", "comm_count", "comm_user_rank", "group_start", "group_end"}

Suffix ==
  {"GetVersion", "CommInitRank", "AllReduce", "Broadcast", "GetUniqueId",
   "CommDestroy", "CommCount", "CommUserRank", "GroupStart", "GroupEnd"}

(* The address of an exported function. *)
Pointer == [lib : Lib, fam : Family, suf : Suffix]

dlsym(l, fam, suf) ==
  IF <<fam, suf>> \in exports[l] THEN [lib |-> l, fam |-> fam, suf |-> suf]
                                 ELSE NULL

-----------------------------------------------------------------------------
(* Library names: those of the table, a family name used as a path, any    *)
(* other, and the indeterminate contents of a dead stack buffer.           *)
Indeterminate == "indeterminate"

Name ==
  {"libnccl.so", "libnccl.so.2", "librccl.so", "librccl.so.1", "libccl.so.2",
   "libccl.so", "libeccl.so", Indeterminate} \cup Family \cup OtherName

(* A host: the library that dlopen finds under a name, NULL when it fails. *)
Host == [Name -> Lib \cup {NULL}]

(* A value of an environment variable; NULL when it is not set. *)
EnvValue == Name \cup {"", NULL}
Env == [UNICC_LIBRARY : EnvValue, UNICC_BACKEND : EnvValue]

get_nonempty_env(value) == IF value = "" THEN NULL ELSE value

(* Neither variable selects anything: the default library is only probed.  *)
NothingSelected(env) ==
  /\ get_nonempty_env(env.UNICC_BACKEND) = NULL
  /\ get_nonempty_env(env.UNICC_LIBRARY) = NULL

(* UNICC_LIBRARY, then UNICC_BACKEND (a family, or else a path), then NCCL. *)
unicc_loader_detect_backend(env) ==
  LET env_libpath == get_nonempty_env(env.UNICC_LIBRARY)
      env_backend == get_nonempty_env(env.UNICC_BACKEND)
  IN  CASE env_libpath # NULL    -> env_libpath
        [] env_libpath = NULL /\ env_backend \in Family
                                 -> family_of(env_backend).lib_name
        [] env_libpath = NULL /\ env_backend # NULL /\ env_backend \notin Family
                                 -> env_backend
        [] OTHER                 -> unicc_backends[1].lib_name

(* The fallback soname of a preferred library name, NULL when it has none. *)
lib_name_alt_of(path) ==
  IF \E i \in Row : unicc_backends[i].lib_name = path
  THEN unicc_backends[CHOOSE i \in Row : unicc_backends[i].lib_name = path].lib_name_alt
  ELSE NULL

Opens(host, name) == name # NULL /\ host[name] # NULL

(* Mutant: the requested name is reported whatever was opened. *)
MutReportsRequested(host, path) ==
  LET alt == lib_name_alt_of(path)
  IN  CASE Opens(host, path) ->
             {[lib |-> host[path], opened |-> path, reported |-> path]}
        [] ~Opens(host, path) /\ Opens(host, alt) ->
             {[lib |-> host[alt], opened |-> alt, reported |-> path]}
        [] OTHER -> {}

(* The successful outcomes of loading path: the library, the name that     *)
(* dlopen accepted and the name reported to the caller.  The empty set is  *)
(* UNICC_ERR_BACKEND_LOAD.  On macOS the reported name is read from the    *)
(* block-scoped buffer dylib[] after its block has ended, so it is either  *)
(* still the spelling or indeterminate.                                    *)
unicc_loader_load(host, path) ==
  LET alt   == lib_name_alt_of(path)
      dylib == IF Platform = "macos" THEN DylibOf[path] ELSE NULL
  IN  CASE Opens(host, path) ->
             {[lib |-> host[path], opened |-> path, reported |-> path]}
        [] ~Opens(host, path) /\ Opens(host, alt) ->
             {[lib |-> host[alt], opened |-> alt, reported |-> alt]}
        [] ~Opens(host, path) /\ ~Opens(host, alt) /\ Opens(host, dylib) ->
             {[lib |-> host[dylib], opened |-> dylib, reported |-> r] :
                 r \in {dylib, Indeterminate}}
        [] OTHER -> {}

(* The rows whose probe symbol the library exports. *)
Probed(l) == {i \in Row : dlsym(l, unicc_backends[i].name, "GetVersion") # NULL}

(* Mutant: identification walks the table from its first row up. *)
MutAscending(l) ==
  IF Probed(l) = {}
  THEN UNICC_BACKEND_UNKNOWN
  ELSE unicc_backends[CHOOSE i \in Probed(l) : \A j \in Probed(l) : i <= j].name

(* Identification walks the table from its last row down.                  *)
unicc_loader_identify_backend(l) ==
  IF Probed(l) = {}
  THEN UNICC_BACKEND_UNKNOWN
  ELSE unicc_backends[CHOOSE i \in Probed(l) : \A j \in Probed(l) : j <= i].name

(* Every backend is accepted on Linux and macOS, none anywhere else. *)
unicc_loader_check_platform_support ==
  IF Platform \in {"linux", "macos"} THEN UNICC_OK
                                     ELSE UNICC_ERR_BACKEND_NOT_SUPPORTED

-----------------------------------------------------------------------------
ASSUME NullAssumption ==
  /\ NULL \notin Lib
  /\ NULL \notin Name
  /\ NULL \notin Pointer
  /\ NULL # ""

ASSUME ConstantAssumption ==
  /\ exports \in [Lib -> SUBSET (Family \X Suffix)]
  /\ "" \notin OtherName
  /\ LongName \subseteq OtherName
  /\ DylibOf \in [Name -> Name \cup {NULL}]
  /\ Platform \in {"linux", "macos", "windows"}

=============================================================================
