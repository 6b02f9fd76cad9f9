------------------------------- MODULE MCUnicc -------------------------------
(***************************************************************************)
(* The library files the models are instantiated with.  They follow the    *)
(* fixtures of tests/fake_backends: a complete library per family, and the *)
(* incomplete and hybrid ones that decide whether identification, binding  *)
(* and the availability gates are right.                                   *)
(***************************************************************************)
EXTENDS Integers

Suffixes ==
  {"GetVersion", "CommInitRank", "AllReduce", "Broadcast", "GetUniqueId",
   "CommDestroy", "CommCount", "CommUserRank", "GroupStart", "GroupEnd"}

Exports(fam, sufs) == {fam} \X sufs

(* One entry per library file that a model may put in Lib. *)
Catalog ==
  [nccl     |-> Exports("nccl", Suffixes),
   rccl     |-> Exports("rccl", Suffixes),
   oneccl   |-> Exports("oneccl", Suffixes),
   eccl     |-> Exports("eccl", Suffixes \ {"CommUserRank"}),
   (* NCCL without ncclGroupEnd, as fake_nccl_missing. *)
   ncclgap  |-> Exports("nccl", Suffixes \ {"GroupEnd"}),
   (* RCCL that also exports the nccl spelling of everything. *)
   dual     |-> Exports("rccl", Suffixes) \cup Exports("nccl", Suffixes),
   (* A complete NCCL with a lone ecclGetVersion. *)
   hybrid   |-> Exports("nccl", Suffixes) \cup Exports("eccl", {"GetVersion"}),
   (* oneCCL without an AllReduce, as an incomplete vendor build. *)
   onegap   |-> Exports("oneccl", Suffixes \ {"AllReduce"}),
   (* oneCCL that cannot mint a bootstrap id. *)
   onenoid  |-> Exports("oneccl", Suffixes \ {"GetUniqueId"}),
   (* Both RCCL and ECCL spellings. *)
   rccleccl |-> Exports("rccl", Suffixes) \cup Exports("eccl", Suffixes),
   (* Not a collective library at all. *)
   other    |-> {}]

=============================================================================
