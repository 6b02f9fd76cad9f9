----------------------------- MODULE MCUniccApi -----------------------------
(***************************************************************************)
(* UniccApi over small hosts.  Every library file l can be selected by the *)
(* path l itself; the family names reach their table names.                *)
(***************************************************************************)
EXTENDS UniccApi, MCUnicc

MCExports == [l \in Lib |-> Catalog[l]]

(* Library files double as names that UNICC_LIBRARY may hold. *)
MCNames == Lib

Path(p) == [UNICC_LIBRARY |-> p, UNICC_BACKEND |-> NULL]
Backend(b) == [UNICC_LIBRARY |-> "", UNICC_BACKEND |-> b]
Unset == [UNICC_LIBRARY |-> NULL, UNICC_BACKEND |-> ""]

(* Paths to every file, one name too long for g_lib_path, and nothing set. *)
MCPaths == {Path(p) : p \in Lib \cup {"long"}} \cup {Unset}
(* Selection by family name, by an unknown name, and by nothing. *)
MCBackends == {Backend(b) : b \in {"nccl", "oneccl", "eccl", "typo"}} \cup {Unset}

(* Every file is found under its own name only. *)
FilesOnly == [n \in Name |-> IF n \in Lib THEN n ELSE NULL]
(* Development names; fallback sonames; the macOS spelling; nothing. *)
DevNames == [n \in Name |-> CASE n = "libnccl.so" -> "nccl"
                              [] n = "libccl.so.2" -> "oneccl"
                              [] n = "libeccl.so" -> "eccl"
                              [] OTHER -> NULL]
Sonames == [n \in Name |-> CASE n = "libnccl.so.2" -> "nccl"
                             [] n = "libccl.so" -> "oneccl"
                             [] OTHER -> NULL]
Dylibs == [n \in Name |-> IF n = "libnccl.dylib" THEN "nccl" ELSE NULL]
Nothing == [n \in Name |-> NULL]

MCFileHosts == {FilesOnly}
MCNamedHosts == {DevNames, Sonames, Dylibs, Nothing}

MCDylibOf == [n \in Name |-> IF n = "libnccl.so" THEN "libnccl.dylib" ELSE NULL]

(* Ids of other processes: whole, of either size, and cut short. *)
MCPeerIds == {[len |-> 128, minted |-> "nccl"], [len |-> 4096, minted |-> "oneccl"],
              [len |-> 64, minted |-> UNICC_BACKEND_UNKNOWN]}

(* A backend that also returns a negative result. *)
MCNegativeResults == {-2, 0, 1}
=============================================================================
