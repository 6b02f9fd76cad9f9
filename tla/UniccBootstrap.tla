---------------------------- MODULE UniccBootstrap ----------------------------
(***************************************************************************)
(* The multi-process bootstrap of tests/integration/test_integration.c, as *)
(* tests/run_integration.sh launches it: rank 0 mints a bootstrap id and   *)
(* publishes it by renaming a temporary file over the shared one, the      *)
(* other ranks poll that file a bounded number of times, all ranks join    *)
(* one communicator and reduce over it, and the script waits for them.     *)
(*                                                                         *)
(* The shared file only ever holds a prefix of rank 0's id, so a file is   *)
(* its length.  The native calls (CommInitRank, AllReduce) block until     *)
(* every rank has called them.                                             *)
(***************************************************************************)
EXTENDS Integers

CONSTANTS
  World,      (* the number of ranks                                       *)
  MAX_TRIES,  (* how often a rank polls (3000 in the code)                 *)
  UidBytes,   (* the length of the backend's bootstrap id                  *)
  FAULTS      (* the faults that may happen                                *)

(* "crash": a rank is killed; "interrupt": the script is; "slow": rank 0   *)
(* takes longer than MAX_TRIES polls; each other fault makes a call of     *)
(* its name's kind fail ("flush" is fclose, whose result is not checked).  *)
Fault == {"init", "write", "flush", "rename", "device", "native",
          "crash", "interrupt", "slow"}

ASSUME BootstrapAssumption ==
  /\ World \in Nat \ {0}
  /\ MAX_TRIES \in Nat \ {0}
  /\ UidBytes \in Nat \ {0}
  /\ FAULTS \subseteq Fault

Rank == 0 .. World - 1
Absent == -1

VARIABLES
  pc,           (* pc[r]: what rank r does next                            *)
  exit,         (* exit[r]: the status rank r exited with, 0 until then    *)
  len,          (* len[r]: id.len, 0 until the rank has an id              *)
  tries,        (* tries[r]: the polls that found nothing                  *)
  uid_file,     (* the length of the shared file, or Absent                *)
  tmp_file,     (* the length of rank 0's temporary file, or Absent        *)
  joined,       (* the ranks that have called the native CommInitRank      *)
  contributed,  (* the ranks that have called the native AllReduce         *)
  waited,       (* the script: the number of ranks it has waited for       *)
  rc,           (* the script: its rc                                      *)
  status,       (* the script: "running" or how it ended                   *)
  happened      (* history: the faults that have happened                  *)

rankVars == <<pc, exit>>
idVars == <<len, tries>>
fileVars == <<uid_file, tmp_file>>
commVars == <<joined, contributed>>
scriptVars == <<waited, rc, status>>
vars == <<rankVars, idVars, fileVars, commVars, scriptVars, happened>>

(* mktemp has created the shared file, empty, before the ranks start. *)
Init ==
  /\ pc = [r \in Rank |-> "unicc_init"]
  /\ exit = [r \in Rank |-> 0]
  /\ len = [r \in Rank |-> 0]
  /\ tries = [r \in Rank |-> 0]
  /\ uid_file = 0
  /\ tmp_file = Absent
  /\ joined = {}
  /\ contributed = {}
  /\ waited = 0
  /\ rc = 0
  /\ status = "running"
  /\ happened = {}

-----------------------------------------------------------------------------
Happens(fault) == fault \in FAULTS /\ happened' = happened \cup {fault}

Goto(r, label) == pc' = [pc EXCEPT ![r] = label] /\ UNCHANGED <<exit, happened>>
Exit(r, code) ==
  /\ pc' = [pc EXCEPT ![r] = "exited"]
  /\ exit' = [exit EXCEPT ![r] = code]
Fails(r, fault) == Happens(fault) /\ Exit(r, 2)

unicc_init(r) ==
  /\ pc[r] = "unicc_init"
  /\ \/ Goto(r, IF r = 0 THEN "unicc_get_unique_id" ELSE "poll")
     \/ Fails(r, "init")
  /\ UNCHANGED <<idVars, fileVars, commVars, scriptVars>>

(* Rank 0 publishes only when it is not alone. *)
unicc_get_unique_id ==
  /\ pc[0] = "unicc_get_unique_id"
  /\ \/ /\ Goto(0, IF World > 1 THEN "fwrite" ELSE "devmem")
        /\ len' = [len EXCEPT ![0] = UidBytes]
     \/ Fails(0, "native") /\ UNCHANGED len
  /\ UNCHANGED <<tries, fileVars, commVars, scriptVars>>

(* Mutant: the id is written straight into the shared file. *)
MutWritesInPlace ==
  /\ pc[0] = "fwrite"
  /\ \/ Goto(0, "fclose") /\ tmp_file' \in 0 .. UidBytes /\ uid_file' = tmp_file'
     \/ Fails(0, "write") /\ UNCHANGED fileVars
  /\ UNCHANGED <<idVars, commVars, scriptVars>>

(* fopen and fwrite: some prefix of the id leaves the buffer of stdio; a    *)
(* failure may leave the temporary file behind.                            *)
fwrite ==
  /\ pc[0] = "fwrite"
  /\ \/ Goto(0, "fclose") /\ tmp_file' \in 0 .. UidBytes
     \/ Fails(0, "write") /\ tmp_file' \in {Absent} \cup 0 .. UidBytes - 1
  /\ UNCHANGED <<uid_file, idVars, commVars, scriptVars>>

(* fclose flushes the rest; when it cannot, nobody looks at its result.    *)
fclose ==
  /\ pc[0] = "fclose"
  /\ pc' = [pc EXCEPT ![0] = "rename"]
  /\ \/ tmp_file' = UidBytes /\ UNCHANGED happened
     \/ Happens("flush") /\ UNCHANGED tmp_file
  /\ UNCHANGED <<exit, uid_file, idVars, commVars, scriptVars>>

rename ==
  /\ pc[0] = "rename"
  /\ \/ Goto(0, "devmem") /\ uid_file' = tmp_file /\ tmp_file' = Absent
     \/ Fails(0, "rename") /\ UNCHANGED fileVars
  /\ UNCHANGED <<idVars, commVars, scriptVars>>

(* Rank 0 is still on its way to the shared file, which is still there. *)
StillToCome ==
  /\ pc[0] \in {"unicc_init", "unicc_get_unique_id", "fwrite", "fclose", "rename"}
  /\ status # "interrupted"

(* The last poll was in vain: nothing will come any more, or rank 0 is     *)
(* slower than MAX_TRIES polls.                                            *)
GivesUp(r) ==
  /\ Exit(r, 2)
  /\ IF StillToCome THEN Happens("slow") ELSE UNCHANGED happened

(* Mutant: polls are not counted. *)
MutPollsForever(r) ==
  /\ pc[r] = "poll"
  /\ \/ /\ uid_file > 0
        /\ len' = [len EXCEPT ![r] = uid_file]
        /\ Goto(r, "devmem")
        /\ UNCHANGED tries
     \/ uid_file <= 0 /\ UNCHANGED <<len, tries, rankVars, happened>>
  /\ UNCHANGED <<fileVars, commVars, scriptVars>>

(* Mutant: an empty file is taken for a failed read. *)
MutAbortsOnEmpty(r) ==
  /\ pc[r] = "poll"
  /\ IF uid_file > 0
     THEN len' = [len EXCEPT ![r] = uid_file] /\ Goto(r, "devmem")
     ELSE Exit(r, 2) /\ UNCHANGED <<len, happened>>
  /\ UNCHANGED <<tries, fileVars, commVars, scriptVars>>

(* Mutant: one poll too many. *)
MutOneMore(r) ==
  /\ pc[r] = "poll"
  /\ \/ /\ uid_file > 0
        /\ len' = [len EXCEPT ![r] = uid_file]
        /\ Goto(r, "devmem")
        /\ UNCHANGED tries
     \/ /\ uid_file <= 0
        /\ tries' = [tries EXCEPT ![r] = @ + 1]
        /\ IF tries'[r] <= MAX_TRIES THEN UNCHANGED <<rankVars, happened>>
                                     ELSE GivesUp(r)
        /\ UNCHANGED len
  /\ UNCHANGED <<fileVars, commVars, scriptVars>>

(* One turn of the loop: read what is there, or sleep and count a try, the *)
(* last of which gives up.                                                 *)
poll(r) ==
  /\ pc[r] = "poll"
  /\ \/ /\ uid_file > 0
        /\ len' = [len EXCEPT ![r] = uid_file]
        /\ Goto(r, "devmem")
        /\ UNCHANGED tries
     \/ /\ uid_file <= 0
        /\ tries' = [tries EXCEPT ![r] = @ + 1]
        /\ IF tries'[r] < MAX_TRIES THEN UNCHANGED <<rankVars, happened>>
                                    ELSE GivesUp(r)
        /\ UNCHANGED len
  /\ UNCHANGED <<fileVars, commVars, scriptVars>>

(* The device runtime is loaded and the rank's device selected. *)
devmem(r) ==
  /\ pc[r] = "devmem"
  /\ Goto(r, "unicc_comm_init_rank") \/ Fails(r, "device")
  /\ UNCHANGED <<idVars, fileVars, commVars, scriptVars>>

(* Mutant: the adapter does not compare the id's length. *)
MutTakesAnyLength(r) == TRUE
(* The adapter takes an id of the backend's own length only. *)
IdFits(r) == len[r] = UidBytes

(* Mutant: every rank joins as rank 0. *)
MutSameRank(r) ==
  /\ pc[r] = "unicc_comm_init_rank"
  /\ \/ IdFits(r) /\ joined' = joined \cup {0} /\ Goto(r, "CommInitRank")
     \/ ~IdFits(r) /\ UNCHANGED <<joined, happened>> /\ Exit(r, 2)
  /\ UNCHANGED <<contributed, idVars, fileVars, scriptVars>>

unicc_comm_init_rank(r) ==
  /\ pc[r] = "unicc_comm_init_rank"
  /\ \/ IdFits(r) /\ joined' = joined \cup {r} /\ Goto(r, "CommInitRank")
     \/ ~IdFits(r) /\ UNCHANGED <<joined, happened>> /\ Exit(r, 2)
  /\ UNCHANGED <<contributed, idVars, fileVars, scriptVars>>

CommInitRank(r) ==
  /\ pc[r] = "CommInitRank"
  /\ (joined = Rank /\ Goto(r, "unicc_allreduce")) \/ Fails(r, "native")
  /\ UNCHANGED <<idVars, fileVars, commVars, scriptVars>>

(* Buffers are filled, the reduction is enqueued. *)
unicc_allreduce(r) ==
  /\ pc[r] = "unicc_allreduce"
  /\ \/ contributed' = contributed \cup {r} /\ Goto(r, "dev_memcpy")
     \/ (Fails(r, "native") \/ Fails(r, "device")) /\ UNCHANGED contributed
  /\ UNCHANGED <<joined, idVars, fileVars, scriptVars>>

(* Mutant: the result is read before the reduction is complete. *)
MutReadsEarly(r) ==
  /\ pc[r] = "dev_memcpy"
  /\ Goto(r, "finish") \/ Fails(r, "device")
  /\ UNCHANGED <<idVars, fileVars, commVars, scriptVars>>

(* The copy back waits for the reduction.  Its own result is not checked,  *)
(* but without it the host buffer stays 0 and the sum does not match.      *)
dev_memcpy(r) ==
  /\ pc[r] = "dev_memcpy"
  /\ (contributed = Rank /\ Goto(r, "finish")) \/ Fails(r, "device")
  /\ UNCHANGED <<idVars, fileVars, commVars, scriptVars>>

(* The rank count is checked; communicator and library are released. *)
finish(r) ==
  /\ pc[r] = "finish"
  /\ (Exit(r, 0) /\ UNCHANGED happened) \/ Fails(r, "native")
  /\ UNCHANGED <<idVars, fileVars, commVars, scriptVars>>

crash(r) ==
  /\ Happens("crash")
  /\ pc[r] # "exited"
  /\ Exit(r, 137)
  /\ UNCHANGED <<idVars, fileVars, commVars, scriptVars>>

-----------------------------------------------------------------------------
(* wait "$p" || rc=1, for one rank after the other. *)
wait ==
  /\ status = "running"
  /\ waited < World
  /\ pc[waited] = "exited"
  /\ rc' = IF exit[waited] = 0 THEN rc ELSE 1
  /\ waited' = waited + 1
  /\ UNCHANGED <<status, happened, rankVars, idVars, fileVars, commVars>>

(* Mutant: the script ends after the first rank. *)
MutWaitsOnce == waited > 0
AllWaited == waited = World

(* The verdict; the trap on EXIT removes the shared file. *)
verdict ==
  /\ status = "running"
  /\ AllWaited
  /\ status' = IF rc = 0 THEN "passed" ELSE "failed"
  /\ uid_file' = Absent
  /\ UNCHANGED <<waited, rc, happened, tmp_file, rankVars, idVars, commVars>>

(* The trap runs as well when the script is interrupted, while the ranks   *)
(* in the background go on.                                                *)
interrupt ==
  /\ Happens("interrupt")
  /\ status = "running"
  /\ status' = "interrupted"
  /\ uid_file' = Absent
  /\ UNCHANGED <<waited, rc, tmp_file, rankVars, idVars, commVars>>

-----------------------------------------------------------------------------
Rank0 == unicc_get_unique_id \/ fwrite \/ fclose \/ rename

AnyRank(r) ==
  \/ unicc_init(r) \/ devmem(r) \/ unicc_comm_init_rank(r) \/ CommInitRank(r)
  \/ unicc_allreduce(r) \/ dev_memcpy(r) \/ finish(r)

Consumer(r) == r # 0 /\ poll(r)

Next ==
  \/ Rank0
  \/ \E r \in Rank : AnyRank(r) \/ Consumer(r) \/ crash(r)
  \/ wait \/ verdict \/ interrupt

WithoutFault(A) == A /\ UNCHANGED happened

(* The scheduler runs every process that can run, and a native call        *)
(* returns once every rank has made it.  No fault has to happen: a rank    *)
(* that waits for its peers may wait for ever.                             *)
Fairness ==
  /\ WF_vars(WithoutFault(Rank0))
  /\ \A r \in Rank : /\ WF_vars(WithoutFault(AnyRank(r)))
                     /\ WF_vars(WithoutFault(Consumer(r)))
  /\ WF_vars(wait) /\ WF_vars(verdict)

Spec == Init /\ [][Next]_vars /\ Fairness

-----------------------------------------------------------------------------
Label == {"unicc_init", "unicc_get_unique_id", "fwrite", "fclose", "rename", "poll",
          "devmem", "unicc_comm_init_rank", "CommInitRank", "unicc_allreduce",
          "dev_memcpy", "finish", "exited"}

(* Type correctness of the ranks, the files and the script. *)
TypeOK ==
  /\ pc \in [Rank -> Label]
  /\ exit \in [Rank -> {0, 2, 137}]
  /\ len \in [Rank -> 0 .. UidBytes]
  /\ tries \in [Rank -> 0 .. MAX_TRIES]
  /\ uid_file \in {Absent} \cup 0 .. UidBytes
  /\ tmp_file \in {Absent} \cup 0 .. UidBytes
  /\ joined \subseteq Rank
  /\ contributed \subseteq Rank
  /\ waited \in 0 .. World
  /\ rc \in {0, 1}
  /\ status \in {"running", "passed", "failed", "interrupted"}
  /\ happened \subseteq FAULTS

(* Only ranks that hold the whole id enter the native CommInitRank, also   *)
(* when the file was published short: the length travels with the bytes    *)
(* and the adapter compares it (unicc_comm_id_t, "explicit length").       *)
WholeIdOnly == \A r \in joined : len[r] = UidBytes

(* A consumer never sees a partial file (test_integration.c, "Publish      *)
(* atomically ... so a consumer can never observe a partial file", F13).   *)
NeverPartial == uid_file \in {Absent, 0, UidBytes}

(* So it is, whatever else fails, unless fclose could not flush. *)
PartialOnlyUnflushed == "flush" \notin happened => NeverPartial

(* No rank fails without a cause: neither the empty file that mktemp left, *)
(* nor the order in which the ranks run, makes one give up (F13, "could    *)
(* return 0 on the pre-created empty mktemp file and abort spuriously").   *)
FailureHasCause == (\E r \in Rank : exit[r] # 0) => happened # {}

(* A rank exits 0 only after every rank has joined and contributed, so the *)
(* script passes only when every rank has seen the sum over all ranks, and *)
(* it fails only when some rank did.                                       *)
VerdictHonest ==
  /\ \A r \in Rank : pc[r] = "exited" /\ exit[r] = 0 => contributed = Rank
  /\ status = "passed" => \A r \in Rank : pc[r] = "exited" /\ exit[r] = 0
  /\ status = "failed" => \E r \in Rank : exit[r] # 0

(* Unless the script is interrupted, the shared file is there for as long  *)
(* as any rank still runs and may poll it.                                 *)
KeptWhilePolled ==
  uid_file = Absent /\ status # "interrupted" => \A r \in Rank : pc[r] = "exited"

(* A rank inside a native call that has not been made by all. *)
Blocked(r) ==
  \/ pc[r] = "CommInitRank" /\ joined # Rank
  \/ pc[r] = "dev_memcpy" /\ contributed # Rank

(* Ranks never wait for each other in a circle: while one is blocked in a  *)
(* native call, some rank can still run on its own, or has failed.         *)
NoCircularWait ==
  \A r \in Rank : Blocked(r) =>
    \E q \in Rank : exit[q] # 0 \/ (pc[q] # "exited" /\ ~Blocked(q))

(* The steps that a rank has left at most, and those of the script. *)
Remaining ==
  [unicc_init |-> 11, unicc_get_unique_id |-> 10, fwrite |-> 9, fclose |-> 8,
   rename |-> 7, poll |-> 7, devmem |-> 6, unicc_comm_init_rank |-> 5,
   CommInitRank |-> 4, unicc_allreduce |-> 3, dev_memcpy |-> 2, finish |-> 1,
   exited |-> 0]
Left(r) == Remaining[pc[r]] + MAX_TRIES - tries[r]
ScriptLeft == World - waited + IF status = "running" THEN 1 ELSE 0

(* No step is ever undone and none goes round in a circle: each one uses   *)
(* up something of a finite supply, so every run of the test comes to rest *)
(* (test_integration.c, "so this terminates").                             *)
EveryStepAdvances ==
  [][/\ \A r \in Rank : Left(r)' \in 0 .. Left(r)
     /\ ScriptLeft' \in 0 .. ScriptLeft
     /\ ScriptLeft' # ScriptLeft \/ \E r \in Rank : Left(r)' # Left(r)]_vars

(* Files, polls and waits come to this: the ranks meet twice, in the       *)
(* communicator and in the sum, and the verdict tells whether all did.     *)
Rendezvous == INSTANCE UniccRendezvous WITH
  minted <- len[0] = UidBytes,
  out <- [r \in Rank |-> IF pc[r] # "exited" THEN "running"
                         ELSE IF exit[r] = 0 THEN "passed" ELSE "failed"],
  verdict <- status

ImplementsRendezvous == Rendezvous!RendezvousSpec

(* No rank polls for ever, whatever became of rank 0 (test_integration.c,  *)
(* "so this terminates").                                                  *)
PollEnds == \A r \in Rank : pc[r] = "poll" ~> pc[r] # "poll"

(* A rank that waits for its peers, in the poll or in a native call, waits *)
(* for ever only if some rank has failed: the test itself never deadlocks. *)
NoDeadlockOfItsOwn ==
  <>(\A r \in Rank : pc[r] = "exited") \/ <>(\E r \in Rank : exit[r] # 0)

(* If nothing fails, and rank 0 is in time, the test passes. *)
PassesWithoutFaults == <>(happened # {}) \/ <>(status = "passed")

=============================================================================
