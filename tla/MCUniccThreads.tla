---------------------------- MODULE MCUniccThreads ----------------------------
(* UniccThreads over a complete library, one that cannot mint ids and one  *)
(* that cannot be bound.  The ids that threads pass are listed.            *)
EXTENDS UniccThreads, MCUnicc

MCExports == [l \in Lib |-> Catalog[l]]
MCDylibOf == [n \in Name |-> NULL]
MCEnvs == {[UNICC_LIBRARY |-> p, UNICC_BACKEND |-> NULL] : p \in OtherName}
MCHosts == {[n \in Name |-> IF n \in Lib THEN n ELSE NULL]}
MCPeerIds == {[len |-> 128, minted |-> "nccl"], [len |-> 4096, minted |-> "oneccl"]}
=============================================================================
