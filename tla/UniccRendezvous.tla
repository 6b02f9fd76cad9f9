---------------------------- MODULE UniccRendezvous ----------------------------
(***************************************************************************)
(* What the bootstrap of tests/integration is for: every rank joins one    *)
(* communicator under the id that rank 0 has minted, adds its part to one  *)
(* sum, and succeeds only when all have; the script's verdict says whether *)
(* all did.  There is no file, no poll and no order in which the script    *)
(* waits.  A rank may fail at any time, and its peers may then never end.  *)
(***************************************************************************)
EXTENDS Integers

CONSTANT World  (* the number of ranks                                     *)

Rank == 0 .. World - 1

VARIABLES
  minted,       (* rank 0 has an id                                        *)
  joined,       (* the ranks that have entered the communicator            *)
  contributed,  (* the ranks whose part is in the sum                      *)
  out,          (* out[r]: "running", or how rank r has ended              *)
  verdict       (* "running", or how the script has ended                  *)

rendezvousVars == <<minted, joined, contributed, out, verdict>>

RendezvousInit ==
  /\ minted = FALSE
  /\ joined = {}
  /\ contributed = {}
  /\ out = [r \in Rank |-> "running"]
  /\ verdict = "running"

Mint ==
  /\ out[0] = "running"
  /\ minted' = TRUE
  /\ UNCHANGED <<joined, contributed, out, verdict>>

Join(r) ==
  /\ out[r] = "running"
  /\ minted
  /\ joined' = joined \cup {r}
  /\ UNCHANGED <<minted, contributed, out, verdict>>

(* The first barrier: all ranks are in. *)
Contribute(r) ==
  /\ out[r] = "running"
  /\ joined = Rank
  /\ contributed' = contributed \cup {r}
  /\ UNCHANGED <<minted, joined, out, verdict>>

(* The second barrier: the sum is complete. *)
Succeed(r) ==
  /\ out[r] = "running"
  /\ contributed = Rank
  /\ out' = [out EXCEPT ![r] = "passed"]
  /\ UNCHANGED <<minted, joined, contributed, verdict>>

Fail(r) ==
  /\ out[r] = "running"
  /\ out' = [out EXCEPT ![r] = "failed"]
  /\ UNCHANGED <<minted, joined, contributed, verdict>>

(* The verdict falls once, when no rank runs any more. *)
Judge ==
  /\ verdict = "running"
  /\ \A r \in Rank : out[r] # "running"
  /\ verdict' = IF \A r \in Rank : out[r] = "passed" THEN "passed" ELSE "failed"
  /\ UNCHANGED <<minted, joined, contributed, out>>

Interrupt ==
  /\ verdict = "running"
  /\ verdict' = "interrupted"
  /\ UNCHANGED <<minted, joined, contributed, out>>

RendezvousNext ==
  \/ Mint \/ Judge \/ Interrupt
  \/ \E r \in Rank : Join(r) \/ Contribute(r) \/ Succeed(r) \/ Fail(r)

RendezvousSpec == RendezvousInit /\ [][RendezvousNext]_rendezvousVars

=============================================================================
