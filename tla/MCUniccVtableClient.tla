------------------------- MODULE MCUniccVtableClient -------------------------
(* UniccVtableClient over a choice of library files. *)
EXTENDS UniccVtableClient, MCUnicc

MCExports == [l \in Lib |-> Catalog[l]]
MCDylibOf == [n \in Name |-> NULL]
=============================================================================
