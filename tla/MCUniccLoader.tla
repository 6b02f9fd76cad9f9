----------------------------- MODULE MCUniccLoader -----------------------------
(* UniccLoader over every host that finds NCCL and oneCCL under any of the *)
(* names that the loader tries for them.                                   *)
EXTENDS UniccLoader, MCUnicc

Tried == {"libnccl.so", "libnccl.so.2", "libnccl.dylib", "libccl.so.2", "libccl.so"}

MCExports == [l \in Lib |-> Catalog[l]]
MCDylibOf == [n \in Name |-> CASE n = "libnccl.so" -> "libnccl.dylib"
                               [] n = "libccl.so" -> "libccl.dylib"
                               [] OTHER -> NULL]
MCHosts == {[n \in Name |-> CASE n \in found \cap {"libccl.so.2", "libccl.so"} -> "oneccl"
                              [] n \in found -> "nccl"
                              [] OTHER -> NULL] : found \in SUBSET Tried}
MCPaths == {"libnccl.so", "libccl.so.2", "libeccl.so", "libccl.so", "typo"}
=============================================================================
