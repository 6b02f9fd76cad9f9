------------------------- MODULE UniccBootstrapProofs -------------------------
(***************************************************************************)
(* Proofs about UniccBootstrap: its safety, its variant, and that it       *)
(* implements UniccRendezvous, for any number of ranks and tries, any      *)
(* length of the id and any faults.                                        *)
(***************************************************************************)
EXTENDS UniccBootstrap, TLAPS

USE BootstrapAssumption

(* A rank that may still poll has tries left; one that has joined holds    *)
(* the whole id and never polls again; one that is past the reduction has  *)
(* seen every rank's contribution.                                         *)
RankInv ==
  \A r \in Rank :
    /\ pc[r] \in {"unicc_init", "poll"} => tries[r] < MAX_TRIES
    /\ r \in joined => /\ len[r] = UidBytes
                       /\ pc[r] \in {"CommInitRank", "unicc_allreduce", "dev_memcpy",
                                     "finish", "exited"}
    /\ pc[r] = "finish" => contributed = Rank
    /\ pc[r] = "exited" /\ exit[r] = 0 => contributed = Rank

(* What the script knows of the ranks it has waited for. *)
ScriptInv ==
  /\ \A r \in Rank : r < waited => pc[r] = "exited"
  /\ rc = 0 => \A r \in Rank : r < waited => exit[r] = 0
  /\ rc = 1 => \E r \in Rank : r < waited /\ exit[r] # 0
  /\ status = "passed" => rc = 0 /\ waited = World
  /\ status = "failed" => rc = 1

(* The temporary file is there until it is renamed, and the shared one     *)
(* until the script ends.                                                  *)
FileInv ==
  /\ pc[0] \in {"fclose", "rename"} => tmp_file # Absent
  /\ uid_file = Absent /\ status # "interrupted" => waited = World

IInv == TypeOK /\ RankInv /\ ScriptInv /\ FileInv

-----------------------------------------------------------------------------
RankNext(r) == (r = 0 /\ Rank0) \/ AnyRank(r) \/ Consumer(r) \/ crash(r)
ScriptNext == wait \/ verdict \/ interrupt

(* Rank 0 exists. *)
LEMMA ZeroIsRank == 0 \in Rank
BY DEF Rank

(* Every step is a step of one rank or of the script. *)
LEMMA NextCases ==
  ASSUME Next
  PROVE  (\E r \in Rank : RankNext(r)) \/ ScriptNext
BY ZeroIsRank DEF Next, RankNext, ScriptNext

(* A rank goes to a label, or exits with a status. *)
LEMMA GotoType ==
  ASSUME TypeOK, NEW r \in Rank, NEW label \in Label, Goto(r, label)
  PROVE  /\ pc' \in [Rank -> Label] /\ exit' \in [Rank -> {0, 2, 137}]
         /\ pc'[r] = label /\ exit'[r] = exit[r]
         /\ \A q \in Rank \ {r} : pc'[q] = pc[q] /\ exit'[q] = exit[q]
BY DEF TypeOK, Goto

(* An exit sets the status of that rank only. *)
LEMMA ExitType ==
  ASSUME TypeOK, NEW r \in Rank, NEW code \in {0, 2, 137}, Exit(r, code)
  PROVE  /\ pc' \in [Rank -> Label] /\ exit' \in [Rank -> {0, 2, 137}]
         /\ pc'[r] = "exited" /\ exit'[r] = code
         /\ \A q \in Rank \ {r} : pc'[q] = pc[q] /\ exit'[q] = exit[q]
BY DEF TypeOK, Exit, Label

(* The ways a rank's step can go. *)
Moves(r) ==
  /\ pc' \in [Rank -> Label] /\ exit' \in [Rank -> {0, 2, 137}]
  /\ \A q \in Rank \ {r} : pc'[q] = pc[q] /\ exit'[q] = exit[q]

Failed(r) == pc'[r] = "exited" /\ exit'[r] # 0

(* Going to a label moves one rank. *)
LEMMA GotoMoves ==
  ASSUME TypeOK, NEW r \in Rank, NEW label \in Label, Goto(r, label)
  PROVE  Moves(r) /\ pc'[r] = label
BY GotoType DEF Moves

(* So does failing, which leaves a status other than 0. *)
LEMMA FailsMoves ==
  ASSUME TypeOK, NEW r \in Rank, NEW code \in {2, 137}, Exit(r, code)
  PROVE  Moves(r) /\ Failed(r)
BY ExitType DEF Moves, Failed

(* A rank's step moves that rank alone, from a label where it still runs,  *)
(* and leaves the script alone.  What else it does, by where it was:       *)
LEMMA RankStep ==
  ASSUME TypeOK, NEW r \in Rank, RankNext(r)
  PROVE  /\ pc[r] # "exited"
         /\ UNCHANGED scriptVars
         /\ Moves(r)
<1>1. CASE r = 0 /\ unicc_get_unique_id
  BY <1>1, GotoMoves, FailsMoves DEF unicc_get_unique_id, Fails, Happens, Label
<1>2. CASE r = 0 /\ fwrite
  BY <1>2, GotoMoves, FailsMoves DEF fwrite, Fails, Happens, Label
<1>3. CASE r = 0 /\ fclose
  BY <1>3 DEF fclose, TypeOK, Moves, Label, scriptVars
<1>4. CASE r = 0 /\ rename
  BY <1>4, GotoMoves, FailsMoves DEF rename, Fails, Happens, Label
<1>5. CASE unicc_init(r)
  BY <1>5, GotoMoves, FailsMoves DEF unicc_init, Fails, Happens, Label
<1>6. CASE devmem(r)
  BY <1>6, GotoMoves, FailsMoves DEF devmem, Fails, Happens, Label
<1>7. CASE unicc_comm_init_rank(r)
  BY <1>7, GotoMoves, FailsMoves DEF unicc_comm_init_rank, Label
<1>8. CASE CommInitRank(r)
  BY <1>8, GotoMoves, FailsMoves DEF CommInitRank, Fails, Happens, Label
<1>9. CASE unicc_allreduce(r)
  BY <1>9, GotoMoves, FailsMoves DEF unicc_allreduce, Fails, Happens, Label
<1>10. CASE dev_memcpy(r)
  BY <1>10, GotoMoves, FailsMoves DEF dev_memcpy, Fails, Happens, Label
<1>11. CASE finish(r)
  BY <1>11, ExitType, FailsMoves DEF finish, Fails, Moves
<1>12. CASE Consumer(r)
  <2>1. CASE UNCHANGED rankVars
    BY <1>12, <2>1 DEF Consumer, poll, rankVars, Moves, TypeOK
  <2>2. CASE Goto(r, "devmem")
    BY <1>12, <2>2, GotoMoves DEF Consumer, poll, Label
  <2>3. CASE Exit(r, 2)
    BY <1>12, <2>3, FailsMoves DEF Consumer, poll
  <2> QED
    BY <1>12, <2>1, <2>2, <2>3 DEF Consumer, poll, GivesUp
<1>13. CASE crash(r)
  BY <1>13, FailsMoves DEF crash
<1> QED
  BY <1>1, <1>2, <1>3, <1>4, <1>5, <1>6, <1>7, <1>8, <1>9, <1>10, <1>11, <1>12, <1>13
     DEF RankNext, Rank0, AnyRank

(* What has happened stays so, and only faults that may happen do. *)
LEMMA HappenedGrows ==
  ASSUME happened \subseteq FAULTS, Next
  PROVE  happened \subseteq happened' /\ happened' \subseteq FAULTS
<1>1. CASE Rank0
  BY <1>1 DEF Rank0, unicc_get_unique_id, fwrite, fclose, rename, Goto, Fails, Happens
<1>2. ASSUME NEW r \in Rank, AnyRank(r)
      PROVE  happened \subseteq happened' /\ happened' \subseteq FAULTS
  BY <1>2 DEF AnyRank, unicc_init, devmem, unicc_comm_init_rank, CommInitRank,
     unicc_allreduce, dev_memcpy, finish, Goto, Fails, Happens
<1>3. ASSUME NEW r \in Rank, Consumer(r) \/ crash(r)
      PROVE  happened \subseteq happened' /\ happened' \subseteq FAULTS
  BY <1>3 DEF Consumer, poll, GivesUp, crash, Goto, Happens
<1>4. CASE wait \/ verdict \/ interrupt
  BY <1>4 DEF wait, verdict, interrupt, Happens
<1> QED
  BY <1>1, <1>2, <1>3, <1>4 DEF Next

-----------------------------------------------------------------------------
(* The initial states satisfy the invariant. *)
LEMMA InitIInv == Init => IInv
<1> SUFFICES ASSUME Init PROVE IInv
  OBVIOUS
<1>1. TypeOK
  BY DEF Init, TypeOK, Label, Rank, Absent
<1>2. RankInv
  BY DEF Init, RankInv
<1>3. ScriptInv
  BY DEF Init, ScriptInv, Rank
<1>4. FileInv
  BY ZeroIsRank DEF Init, FileInv, Absent
<1> QED
  BY <1>1, <1>2, <1>3, <1>4 DEF IInv

(* The parts of a rank's step beyond its own pc and exit. *)
LEMMA RankKeepsType ==
  ASSUME IInv, NEW r \in Rank, RankNext(r)
  PROVE  TypeOK'
<1> USE DEF IInv
<1>1. /\ pc' \in [Rank -> Label] /\ exit' \in [Rank -> {0, 2, 137}]
      /\ waited' \in 0 .. World /\ rc' \in {0, 1}
      /\ status' \in {"running", "passed", "failed", "interrupted"}
  BY RankStep DEF Moves, TypeOK, scriptVars
<1>2. len' \in [Rank -> 0 .. UidBytes] /\ tries' \in [Rank -> 0 .. MAX_TRIES]
  <2>1. CASE r = 0 /\ unicc_get_unique_id
    BY <2>1 DEF unicc_get_unique_id, TypeOK
  <2>2. CASE Consumer(r)
    <3>1. CASE uid_file > 0 /\ len' = [len EXCEPT ![r] = uid_file] /\ UNCHANGED tries
      BY <3>1 DEF TypeOK, Absent
    <3>2. CASE /\ tries' = [tries EXCEPT ![r] = @ + 1]
               /\ UNCHANGED len
      <4>1. tries[r] < MAX_TRIES
        BY <2>2 DEF Consumer, poll, RankInv
      <4> QED
        BY <3>2, <4>1 DEF TypeOK
    <3> QED
      BY <2>2, <3>1, <3>2 DEF Consumer, poll
  <2>3. CASE UNCHANGED idVars
    BY <2>3 DEF idVars, TypeOK
  <2> QED
    BY <2>1, <2>2, <2>3
       DEF RankNext, Rank0, AnyRank, fwrite, fclose, rename, unicc_init, devmem,
           unicc_comm_init_rank, CommInitRank, unicc_allreduce, dev_memcpy, finish, crash
<1>3. /\ uid_file' \in {Absent} \cup 0 .. UidBytes
      /\ tmp_file' \in {Absent} \cup 0 .. UidBytes
  <2>1. CASE r = 0 /\ fwrite
    BY <2>1 DEF fwrite, TypeOK
  <2>2. CASE r = 0 /\ fclose
    BY <2>2 DEF fclose, TypeOK
  <2>3. CASE r = 0 /\ rename
    BY <2>3 DEF rename, TypeOK, fileVars
  <2>4. CASE UNCHANGED fileVars
    BY <2>4 DEF fileVars, TypeOK
  <2> QED
    BY <2>1, <2>2, <2>3, <2>4
       DEF RankNext, Rank0, AnyRank, unicc_get_unique_id, Consumer, poll, unicc_init, devmem,
           unicc_comm_init_rank, CommInitRank, unicc_allreduce, dev_memcpy, finish, crash
<1>4. joined' \subseteq Rank /\ contributed' \subseteq Rank
  <2>1. CASE unicc_comm_init_rank(r)
    BY <2>1 DEF unicc_comm_init_rank, TypeOK
  <2>2. CASE unicc_allreduce(r)
    BY <2>2 DEF unicc_allreduce, TypeOK
  <2>3. CASE UNCHANGED commVars
    BY <2>3 DEF commVars, TypeOK
  <2> QED
    BY <2>1, <2>2, <2>3
       DEF RankNext, Rank0, AnyRank, unicc_get_unique_id, fwrite, fclose, rename, Consumer,
           poll, unicc_init, devmem, CommInitRank, dev_memcpy, finish, crash
<1>5. happened' \subseteq FAULTS
  BY HappenedGrows DEF TypeOK, RankNext, Next
<1> QED
  BY <1>1, <1>2, <1>3, <1>4, <1>5 DEF TypeOK

(* Where a rank polls, joins, contributes and finishes. *)
LEMMA RankKeepsRankInv ==
  ASSUME IInv, NEW r \in Rank, RankNext(r)
  PROVE  RankInv'
<1> USE DEF IInv
<1> DEFINE Inv(q) ==
      /\ pc[q] \in {"unicc_init", "poll"} => tries[q] < MAX_TRIES
      /\ q \in joined => /\ len[q] = UidBytes
                         /\ pc[q] \in {"CommInitRank", "unicc_allreduce", "dev_memcpy",
                                       "finish", "exited"}
      /\ pc[q] = "finish" => contributed = Rank
      /\ pc[q] = "exited" /\ exit[q] = 0 => contributed = Rank
<1>1. \A q \in Rank : Inv(q)
  BY DEF RankInv
<1>2. contributed \subseteq contributed' /\ contributed' \subseteq Rank
  BY RankKeepsType DEF TypeOK, RankNext, Rank0, AnyRank, unicc_get_unique_id, fwrite, fclose,
     rename, Consumer, poll, unicc_init, devmem, unicc_comm_init_rank, CommInitRank,
     unicc_allreduce, dev_memcpy, finish, crash, commVars
<1>3. /\ joined \subseteq joined' /\ joined' \subseteq joined \cup {r}
      /\ \A q \in Rank \ {r} : len'[q] = len[q] /\ tries'[q] = tries[q]
  BY DEF TypeOK, RankNext, Rank0, AnyRank, unicc_get_unique_id, fwrite, fclose,
     rename, Consumer, poll, unicc_init, devmem, unicc_comm_init_rank, CommInitRank,
     unicc_allreduce, dev_memcpy, finish, crash, commVars, idVars
<1>4. ASSUME NEW q \in Rank \ {r} PROVE Inv(q)'
  BY <1>1, <1>2, <1>3, RankStep DEF Moves
<1> SUFFICES Inv(r)'
  BY <1>4 DEF RankInv
<1>5. CASE UNCHANGED idVars /\ UNCHANGED joined /\ Moves(r) /\ Failed(r)
  BY <1>1, <1>2, <1>5 DEF Failed, idVars
<1>6. CASE r = 0 /\ unicc_get_unique_id
  <2>1. r \notin joined
    BY <1>1, <1>6 DEF unicc_get_unique_id
  <2>2. pc'[r] \in {"fwrite", "devmem"} \/ Failed(r)
    BY <1>6, GotoMoves, FailsMoves DEF unicc_get_unique_id, Fails, Happens, Label
  <2> QED
    BY <1>6, <2>1, <2>2 DEF unicc_get_unique_id, Failed, commVars
<1>7. CASE r = 0 /\ (fwrite \/ fclose \/ rename)
  <2>1. r \notin joined /\ UNCHANGED joined
    BY <1>1, <1>7 DEF fwrite, fclose, rename, commVars
  <2>2. pc'[r] \in {"fclose", "rename", "devmem"} \/ Failed(r)
    BY <1>7, GotoMoves, FailsMoves DEF TypeOK, fwrite, fclose, rename, Fails, Happens, Label
  <2> QED
    BY <2>1, <2>2 DEF Failed
<1>8. CASE unicc_init(r)
  <2>1. r \notin joined /\ UNCHANGED <<joined, idVars>> /\ tries[r] < MAX_TRIES
    BY <1>1, <1>8 DEF unicc_init, commVars
  <2>2. pc'[r] \in {"unicc_get_unique_id", "poll"} \/ Failed(r)
    BY <1>8, GotoMoves, FailsMoves DEF unicc_init, Fails, Happens, Label
  <2> QED
    BY <2>1, <2>2 DEF Failed, idVars
<1>9. CASE Consumer(r)
  <2>1. r \notin joined /\ UNCHANGED joined
    BY <1>1, <1>9 DEF Consumer, poll, commVars
  <2>2. CASE Goto(r, "devmem")
    BY <2>1, <2>2, GotoMoves DEF Label
  <2>3. CASE tries' = [tries EXCEPT ![r] = @ + 1] /\ tries'[r] < MAX_TRIES /\ UNCHANGED rankVars
    BY <1>9, <2>1, <2>3 DEF rankVars, Consumer, poll
  <2>4. CASE Exit(r, 2)
    BY <2>1, <2>4, FailsMoves DEF Failed
  <2> QED
    BY <1>9, <2>2, <2>3, <2>4 DEF Consumer, poll, GivesUp
<1>10. CASE devmem(r)
  <2>1. r \notin joined /\ UNCHANGED joined
    BY <1>1, <1>10 DEF devmem, commVars
  <2>2. pc'[r] = "unicc_comm_init_rank" \/ Failed(r)
    BY <1>10, GotoMoves, FailsMoves DEF devmem, Fails, Happens, Label
  <2> QED
    BY <2>1, <2>2 DEF Failed
<1>11. CASE unicc_comm_init_rank(r)
  <2>1. CASE IdFits(r) /\ joined' = joined \cup {r} /\ Goto(r, "CommInitRank")
    <3>1. pc'[r] = "CommInitRank"
      BY <2>1, GotoMoves DEF Label
    <3> QED
      BY <1>11, <2>1, <3>1 DEF unicc_comm_init_rank, IdFits, idVars
  <2>2. CASE UNCHANGED joined /\ Exit(r, 2)
    BY <1>5, <1>11, <2>2, FailsMoves DEF unicc_comm_init_rank
  <2> QED
    BY <1>11, <2>1, <2>2 DEF unicc_comm_init_rank
<1>12. CASE CommInitRank(r) \/ unicc_allreduce(r)
  <2>1. UNCHANGED <<joined, idVars>>
    BY <1>12 DEF CommInitRank, unicc_allreduce, commVars
  <2>2. pc'[r] \in {"unicc_allreduce", "dev_memcpy"} \/ Failed(r)
    BY <1>12, GotoMoves, FailsMoves DEF CommInitRank, unicc_allreduce, Fails, Happens, Label
  <2> QED
    BY <1>1, <2>1, <2>2 DEF Failed, idVars
<1>13. CASE dev_memcpy(r)
  <2>1. UNCHANGED <<joined, idVars>>
    BY <1>13 DEF dev_memcpy, commVars
  <2>2. (contributed' = Rank /\ pc'[r] = "finish") \/ Failed(r)
    BY <1>2, <1>13, GotoMoves, FailsMoves DEF dev_memcpy, Fails, Happens, Label
  <2> QED
    BY <1>1, <2>1, <2>2 DEF Failed, idVars
<1>14. CASE finish(r)
  <2>1. UNCHANGED <<commVars, idVars>> /\ contributed = Rank
    BY <1>1, <1>14 DEF finish
  <2>2. pc'[r] = "exited"
    BY <1>14, ExitType, FailsMoves DEF finish, Fails, Failed
  <2> QED
    BY <1>1, <2>1, <2>2 DEF idVars, commVars
<1>15. CASE crash(r)
  BY <1>5, <1>15, FailsMoves DEF crash, commVars
<1> QED
  BY <1>6, <1>7, <1>8, <1>9, <1>10, <1>11, <1>12, <1>13, <1>14, <1>15
     DEF RankNext, Rank0, AnyRank

(* The script has waited only for ranks that no longer move. *)
LEMMA RankKeepsScriptInv ==
  ASSUME IInv, NEW r \in Rank, RankNext(r)
  PROVE  ScriptInv'
<1>1. pc[r] # "exited" /\ UNCHANGED scriptVars /\ Moves(r)
  BY RankStep DEF IInv
<1>2. ~(r < waited)
  BY <1>1 DEF IInv, ScriptInv
<1> QED
  BY <1>1, <1>2 DEF IInv, ScriptInv, Moves, scriptVars

(* A rank that still runs keeps the script, and so the shared file, alive. *)
LEMMA RankKeepsFileInv ==
  ASSUME IInv, NEW r \in Rank, RankNext(r)
  PROVE  FileInv'
<1> USE DEF IInv
<1>1. pc[r] # "exited" /\ UNCHANGED scriptVars /\ Moves(r)
  BY RankStep
<1>2. r # 0 => UNCHANGED <<tmp_file, uid_file>> /\ pc'[0] = pc[0]
  BY <1>1, ZeroIsRank DEF Moves, RankNext, AnyRank, Consumer, poll, unicc_init, devmem,
     unicc_comm_init_rank, CommInitRank, unicc_allreduce, dev_memcpy, finish, crash, fileVars
<1>3. CASE r # 0
  BY <1>1, <1>2, <1>3 DEF FileInv, scriptVars
<1>4. CASE r = 0 /\ fwrite
  <2>1. tmp_file' # Absent \/ pc'[0] = "exited"
    BY <1>4, GotoMoves, FailsMoves DEF fwrite, Absent, Fails, Happens, Failed
  <2> QED
    BY <1>1, <1>4, <2>1 DEF fwrite, FileInv, scriptVars
<1>5. CASE r = 0 /\ fclose
  BY <1>1, <1>5 DEF fclose, FileInv, Absent, scriptVars
<1>6. CASE r = 0 /\ rename
  <2>1. pc'[0] \in {"devmem", "exited"}
    BY <1>6, GotoMoves, FailsMoves DEF rename, Fails, Happens, Failed, Label
  <2>2. uid_file' = Absent => uid_file = Absent
    BY <1>6 DEF rename, FileInv, fileVars
  <2> QED
    BY <1>1, <2>1, <2>2 DEF FileInv, scriptVars
<1>7. CASE r = 0 /\ (unicc_get_unique_id \/ AnyRank(0) \/ crash(0))
  <2>1. UNCHANGED <<tmp_file, uid_file>>
    BY <1>7 DEF AnyRank, unicc_get_unique_id, unicc_init, devmem,
     unicc_comm_init_rank, CommInitRank, unicc_allreduce, dev_memcpy, finish, crash, fileVars
  <2>2. pc'[0] \notin {"fclose", "rename"}
    BY <1>7, GotoMoves, FailsMoves, ZeroIsRank, ExitType
       DEF AnyRank, unicc_get_unique_id, unicc_init, devmem, unicc_comm_init_rank, Failed,
           CommInitRank, unicc_allreduce, dev_memcpy, finish, crash, Fails, Happens, Label
  <2> QED
    BY <1>1, <2>1, <2>2 DEF FileInv, scriptVars
<1> QED
  BY <1>3, <1>4, <1>5, <1>6, <1>7 DEF RankNext, Rank0, Consumer

(* The steps of the script keep the invariant. *)
LEMMA ScriptKeepsIInv ==
  ASSUME IInv, ScriptNext
  PROVE  IInv'
<1> USE DEF IInv
<1>1. UNCHANGED <<rankVars, idVars, tmp_file, commVars>>
  BY DEF ScriptNext, wait, verdict, interrupt, fileVars
<1>2. TypeOK'
  <2>1. CASE wait
    BY <1>1, <2>1 DEF wait, TypeOK, rankVars, idVars, commVars, fileVars
  <2>2. CASE verdict \/ interrupt
    BY <1>1, <2>2 DEF verdict, interrupt, Happens, TypeOK, rankVars, idVars, commVars
  <2> QED
    BY <2>1, <2>2 DEF ScriptNext
<1>3. RankInv'
  BY <1>1 DEF RankInv, rankVars, idVars, commVars
<1>4. CASE wait
  <2>1. waited \in Rank /\ waited' = waited + 1 /\ status = "running" /\ UNCHANGED status
    BY <1>4 DEF wait, TypeOK, Rank
  <2>2. \A r \in Rank : r < waited' => r < waited \/ r = waited
    BY <2>1 DEF Rank
  <2>3. UNCHANGED <<pc, exit>> /\ pc[waited] = "exited"
    BY <1>1, <1>4 DEF wait, rankVars
  <2>4. rc' = IF exit[waited] = 0 THEN rc ELSE 1
    BY <1>4 DEF wait
  <2>5. \A r \in Rank : r < waited' => pc'[r] = "exited"
    BY <2>2, <2>3 DEF ScriptInv
  <2>6. rc' = 0 => \A r \in Rank : r < waited' => exit'[r] = 0
    BY <2>2, <2>3, <2>4 DEF ScriptInv
  <2>7. rc' = 1 => \E r \in Rank : r < waited' /\ exit'[r] # 0
    <3>1. \A r \in Rank : r < waited => r < waited'
      BY <2>1 DEF Rank
    <3>2. waited < waited'
      BY <2>1 DEF Rank
    <3> QED
      BY <2>1, <2>3, <2>4, <3>1, <3>2 DEF ScriptInv
  <2>8. FileInv'
    BY <1>1, <1>4, <2>1 DEF wait, FileInv, rankVars, fileVars
  <2> QED
    BY <1>2, <1>3, <2>1, <2>8, <2>5, <2>6, <2>7 DEF ScriptInv
<1>5. CASE verdict \/ interrupt
  BY <1>1, <1>2, <1>3, <1>5
     DEF verdict, interrupt, ScriptInv, FileInv, rankVars, AllWaited, TypeOK
<1> QED
  BY <1>4, <1>5 DEF ScriptNext

(* The invariant holds throughout, whatever fails. *)
THEOREM Inductive == Spec => []IInv
<1>1. ASSUME IInv, [Next]_vars PROVE IInv'
  <2>1. CASE Next
    BY <1>1, <2>1, NextCases, RankKeepsType, RankKeepsRankInv, RankKeepsScriptInv,
       RankKeepsFileInv, ScriptKeepsIInv DEF IInv
  <2>2. CASE UNCHANGED vars
    BY <1>1, <2>2 DEF IInv, TypeOK, RankInv, ScriptInv, FileInv, vars, rankVars, idVars,
       fileVars, commVars, scriptVars
  <2> QED
    BY <1>1, <2>1, <2>2
<1> QED
  BY <1>1, InitIInv, PTL DEF Spec

-----------------------------------------------------------------------------
(* Every variable keeps its type: in particular no rank polls more than    *)
(* MAX_TRIES times.                                                        *)
THEOREM TypeCorrect == Spec => []TypeOK
BY Inductive, PTL DEF IInv

(* For any faults, a short file among them: a rank enters the native       *)
(* CommInitRank only with the whole id.                                    *)
THEOREM Whole_Id_Only == Spec => []WholeIdOnly
<1>1. IInv => WholeIdOnly
  BY DEF IInv, RankInv, TypeOK, WholeIdOnly
<1> QED
  BY <1>1, Inductive, PTL

(* For any faults and any number of ranks: a rank that exits 0 has seen    *)
(* every contribution, and the script's verdict is right.                  *)
THEOREM Verdict_Honest == Spec => []VerdictHonest
<1>1. IInv => VerdictHonest
  <2> SUFFICES ASSUME IInv PROVE VerdictHonest
    OBVIOUS
  <2>1. \A r \in Rank : pc[r] = "exited" /\ exit[r] = 0 => contributed = Rank
    BY DEF IInv, RankInv
  <2>2. status = "passed" => \A r \in Rank : pc[r] = "exited" /\ exit[r] = 0
    <3>1. status = "passed" => \A r \in Rank : r < waited
      BY DEF IInv, ScriptInv, Rank
    <3> QED
      BY <3>1 DEF IInv, ScriptInv
  <2>3. status = "failed" => \E r \in Rank : exit[r] # 0
    BY DEF IInv, ScriptInv
  <2> QED
    BY <2>1, <2>2, <2>3 DEF VerdictHonest
<1> QED
  BY <1>1, Inductive, PTL

(* The shared file outlives every rank unless the script is interrupted.   *)
THEOREM Kept_While_Polled == Spec => []KeptWhilePolled
<1>1. IInv => KeptWhilePolled
  <2> SUFFICES ASSUME IInv, uid_file = Absent, status # "interrupted"
               PROVE  \A r \in Rank : pc[r] = "exited"
    BY DEF KeptWhilePolled
  <2>1. \A r \in Rank : r < waited
    BY DEF IInv, FileInv, Rank
  <2> QED
    BY <2>1 DEF IInv, ScriptInv
<1> QED
  BY <1>1, Inductive, PTL

-----------------------------------------------------------------------------
(* Until fclose fails, what is renamed, and so what is shared, is whole. *)
WholeInv ==
  "flush" \notin happened => NeverPartial /\ (pc[0] = "rename" => tmp_file = UidBytes)

(* A rank keeps the shared file whole. *)
LEMMA RankKeepsWholeInv ==
  ASSUME IInv, WholeInv, NEW r \in Rank, RankNext(r), "flush" \notin happened'
  PROVE  NeverPartial' /\ (pc'[0] = "rename" => tmp_file' = UidBytes)
<1> USE DEF IInv
<1>1. NeverPartial /\ (pc[0] = "rename" => tmp_file = UidBytes)
  BY HappenedGrows DEF TypeOK, WholeInv, RankNext, Next
<1>2. CASE r = 0 /\ fclose
  BY <1>1, <1>2 DEF fclose, NeverPartial, Happens
<1>3. CASE r = 0 /\ rename
  <2>1. pc'[0] \in {"devmem", "exited"}
    BY <1>3, GotoMoves, FailsMoves DEF rename, Fails, Happens, Failed, Label
  <2>2. uid_file' \in {uid_file, UidBytes}
    BY <1>1, <1>3 DEF rename, fileVars
  <2> QED
    BY <1>1, <2>1, <2>2 DEF NeverPartial
<1>4. CASE r = 0 /\ fwrite
  <2>1. pc'[0] \in {"fclose", "exited"}
    BY <1>4, GotoMoves, FailsMoves DEF fwrite, Fails, Happens, Failed, Label
  <2> QED
    BY <1>1, <1>4, <2>1 DEF NeverPartial, fwrite
<1>5. CASE r = 0 /\ (unicc_get_unique_id \/ AnyRank(0) \/ crash(0))
  <2>1. UNCHANGED uid_file
    BY <1>5 DEF AnyRank, unicc_get_unique_id, unicc_init, devmem, unicc_comm_init_rank,
       CommInitRank, unicc_allreduce, dev_memcpy, finish, crash, fileVars
  <2>2. pc'[0] # "rename"
    BY <1>5, GotoMoves, FailsMoves, ZeroIsRank, ExitType
       DEF AnyRank, unicc_get_unique_id, unicc_init, devmem, unicc_comm_init_rank,
           Failed, CommInitRank, unicc_allreduce, dev_memcpy, finish, crash, Fails, Label
  <2> QED
    BY <1>1, <2>1, <2>2 DEF NeverPartial
<1>6. CASE r # 0
  <2>1. UNCHANGED <<tmp_file, uid_file>> /\ pc'[0] = pc[0]
    BY <1>6, RankStep, ZeroIsRank DEF Moves, RankNext, AnyRank, Consumer, poll,
       unicc_init, devmem, unicc_comm_init_rank, CommInitRank, unicc_allreduce,
       dev_memcpy, finish, crash, fileVars
  <2> QED
    BY <1>1, <2>1 DEF NeverPartial
<1> QED
  BY <1>2, <1>3, <1>4, <1>5, <1>6 DEF RankNext, Rank0, Consumer

(* WholeInv holds throughout. *)
LEMMA WholeInductive == Spec => []WholeInv
<1>1. Init => WholeInv
  BY ZeroIsRank DEF Init, WholeInv, NeverPartial
<1>2. ASSUME IInv, WholeInv, [Next]_vars PROVE WholeInv'
  <2>1. ASSUME NEW r \in Rank, RankNext(r) PROVE WholeInv'
    BY <1>2, <2>1, RankKeepsWholeInv DEF WholeInv
  <2>2. CASE ScriptNext
    BY <1>2, <2>2 DEF WholeInv, ScriptNext, wait, verdict, interrupt, Happens, NeverPartial,
       rankVars, fileVars
  <2>3. CASE UNCHANGED vars
    BY <1>2, <2>3 DEF WholeInv, NeverPartial, vars, rankVars, fileVars
  <2> QED
    BY <1>2, <2>1, <2>2, <2>3, NextCases
<1> QED
  BY <1>1, <1>2, Inductive, PTL DEF Spec

(* No consumer ever sees a partial file, whatever else fails, unless       *)
(* fclose does: the rename publishes what fclose has completed.            *)
THEOREM Partial_Only_Unflushed == Spec => []PartialOnlyUnflushed
<1>1. WholeInv => PartialOnlyUnflushed
  BY DEF WholeInv, PartialOnlyUnflushed
<1> QED
  BY <1>1, WholeInductive, PTL

-----------------------------------------------------------------------------
(* Until the first fault, every rank past its poll holds the whole id, the *)
(* id is published once rank 0 is past the rename, and no rank has failed. *)
Clean ==
  /\ status # "interrupted"
  /\ \A r \in Rank : exit[r] = 0
  /\ \A r \in Rank : pc[r] \in {"fwrite", "fclose", "rename", "devmem",
                                "unicc_comm_init_rank"} => len[r] = UidBytes
  /\ World > 1 => \/ pc[0] \in {"unicc_init", "unicc_get_unique_id", "fwrite", "fclose",
                                "rename"}
                  \/ uid_file \in {UidBytes, Absent}

CauseInv == happened = {} => Clean

(* A rank's poll never gives up before the first fault. *)
LEMMA NoVainPoll ==
  ASSUME IInv, WholeInv, Clean, happened = {}, NEW r \in Rank \ {0}, pc[r] = "poll"
  PROVE  StillToCome \/ uid_file > 0
<1> SUFFICES ASSUME ~StillToCome PROVE uid_file > 0
  OBVIOUS
<1>1. uid_file \in {UidBytes, Absent}
  BY DEF StillToCome, Clean, Rank
<1>2. uid_file # Absent
  <2>1. uid_file = Absent => r < waited
    BY DEF IInv, FileInv, Clean, Rank
  <2> QED
    BY <2>1 DEF IInv, ScriptInv
<1> QED
  BY <1>1, <1>2

(* A rank's step before the first fault. *)
LEMMA RankKeepsClean ==
  ASSUME IInv, WholeInv, CauseInv, NEW r \in Rank, RankNext(r), happened' = {}
  PROVE  Clean'
<1> USE DEF IInv
<1>1. happened = {} /\ Clean
  BY HappenedGrows DEF TypeOK, CauseInv, RankNext, Next
<1>2. UNCHANGED scriptVars /\ Moves(r)
  BY RankStep
<1>3. \A fault : ~Happens(fault)
  BY DEF Happens
<1>4. /\ len' \in [Rank -> 0 .. UidBytes]
      /\ \A q \in Rank \ {r} : len'[q] = len[q]
  BY RankKeepsType DEF TypeOK, RankNext, Rank0, AnyRank, unicc_get_unique_id, fwrite, fclose,
     rename, Consumer, poll, unicc_init, devmem, unicc_comm_init_rank, CommInitRank,
     unicc_allreduce, dev_memcpy, finish, crash, idVars
<1> DEFINE Held(q) == pc[q] \in {"fwrite", "fclose", "rename", "devmem",
                                 "unicc_comm_init_rank"} => len[q] = UidBytes
           Early == {"unicc_init", "unicc_get_unique_id", "fwrite", "fclose", "rename"}
<1>5. exit'[r] = 0 /\ Held(r)'
  <2>1. CASE unicc_init(r)
    BY <1>1, <1>3, <2>1, GotoType DEF unicc_init, Fails, Label, Clean
  <2>2. CASE r = 0 /\ unicc_get_unique_id
    BY <1>1, <1>3, <2>2, GotoType DEF unicc_get_unique_id, Fails, Label, Clean, TypeOK
  <2>3. CASE r = 0 /\ fwrite
    BY <1>1, <1>3, <2>3, GotoType DEF fwrite, Fails, Label, Clean, idVars
  <2>4. CASE r = 0 /\ fclose
    BY <1>1, <1>3, <2>4 DEF fclose, Clean, idVars, TypeOK
  <2>5. CASE r = 0 /\ rename
    BY <1>1, <1>3, <2>5, GotoType DEF rename, Fails, Label, Clean, idVars
  <2>6. CASE Consumer(r)
    <3>1. CASE uid_file > 0
      <4>1. uid_file = UidBytes
        BY <1>1, <3>1 DEF WholeInv, NeverPartial, Absent
      <4> QED
        BY <1>1, <2>6, <3>1, <4>1, GotoType DEF Consumer, poll, Label, Clean, TypeOK
    <3>2. CASE ~(uid_file > 0)
      <4>1. pc[r] = "poll" /\ r # 0
        BY <2>6 DEF Consumer, poll
      <4>2. ~GivesUp(r)
        BY <1>1, <1>3, <3>2, <4>1, NoVainPoll DEF GivesUp
      <4>3. UNCHANGED <<pc, exit>>
        BY <2>6, <3>2, <4>2 DEF Consumer, poll, rankVars
      <4> QED
        BY <1>1, <4>1, <4>3 DEF Clean
    <3> QED
      BY <3>1, <3>2
  <2>7. CASE devmem(r)
    BY <1>1, <1>3, <2>7, GotoType DEF devmem, Fails, Label, Clean, idVars
  <2>8. CASE unicc_comm_init_rank(r)
    BY <1>1, <2>8, GotoType DEF unicc_comm_init_rank, IdFits, Label, Clean
  <2>9. CASE CommInitRank(r)
    BY <1>1, <1>3, <2>9, GotoType DEF CommInitRank, Fails, Label, Clean
  <2>10. CASE unicc_allreduce(r)
    BY <1>1, <1>3, <2>10, GotoType DEF unicc_allreduce, Fails, Label, Clean
  <2>11. CASE dev_memcpy(r)
    BY <1>1, <1>3, <2>11, GotoType DEF dev_memcpy, Fails, Label, Clean
  <2>12. CASE finish(r)
    BY <1>1, <1>3, <2>12, ExitType DEF finish, Fails
  <2>13. CASE crash(r)
    BY <1>3, <2>13 DEF crash
  <2> QED
    BY <2>1, <2>2, <2>3, <2>4, <2>5, <2>6, <2>7, <2>8, <2>9, <2>10, <2>11, <2>12, <2>13
       DEF RankNext, Rank0, AnyRank
<1>6. World > 1 => pc'[0] \in Early \/ uid_file' \in {UidBytes, Absent}
  <2>1. CASE r = 0 /\ unicc_init(0)
    BY <1>1, <1>3, <2>1, GotoType DEF unicc_init, Fails, Label
  <2>2. CASE r = 0 /\ unicc_get_unique_id
    BY <1>1, <1>3, <2>2, GotoType DEF unicc_get_unique_id, Fails, Label
  <2>3. CASE r = 0 /\ fwrite
    BY <1>1, <1>3, <2>3, GotoType DEF fwrite, Fails, Label
  <2>4. CASE r = 0 /\ fclose
    BY <1>1, <2>4 DEF fclose, TypeOK
  <2>5. CASE r = 0 /\ rename
    BY <1>1, <1>3, <2>5 DEF rename, Fails, WholeInv
  <2>6. CASE r # 0 \/ devmem(r) \/ unicc_comm_init_rank(r) \/ CommInitRank(r)
             \/ unicc_allreduce(r) \/ dev_memcpy(r) \/ finish(r)
    <3>1. UNCHANGED uid_file
      BY <2>6 DEF RankNext, AnyRank, Rank0, unicc_get_unique_id, fwrite, fclose, rename,
         Consumer, poll, unicc_init, devmem, unicc_comm_init_rank, CommInitRank,
         unicc_allreduce, dev_memcpy, finish, crash, fileVars
    <3>2. pc[0] \in Early => pc'[0] = pc[0]
      BY <1>2, <2>6, ZeroIsRank DEF Moves, devmem, unicc_comm_init_rank, CommInitRank,
         unicc_allreduce, dev_memcpy, finish
    <3> QED
      BY <1>1, <3>1, <3>2 DEF Clean
  <2>7. CASE crash(r)
    BY <1>3, <2>7 DEF crash
  <2> QED
    BY <2>1, <2>2, <2>3, <2>4, <2>5, <2>6, <2>7 DEF RankNext, Rank0, AnyRank, Consumer
<1> QED
  BY <1>1, <1>2, <1>4, <1>5, <1>6 DEF Clean, Moves, scriptVars

(* No rank gives up, or is refused, before the first fault: not for the    *)
(* empty file that mktemp has left and not for the order the ranks run in. *)
THEOREM Failure_Has_Cause == Spec => []FailureHasCause
<1>1. Init => CauseInv
  BY ZeroIsRank DEF Init, CauseInv, Clean
<1>2. ASSUME IInv, WholeInv, CauseInv, [Next]_vars PROVE CauseInv'
  <2>1. ASSUME NEW r \in Rank, RankNext(r) PROVE CauseInv'
    BY <1>2, <2>1, RankKeepsClean DEF CauseInv
  <2>2. CASE wait \/ verdict
    BY <1>2, <2>2 DEF CauseInv, Clean, wait, verdict, rankVars, idVars, fileVars
  <2>3. CASE interrupt
    BY <2>3 DEF CauseInv, interrupt, Happens
  <2>4. CASE UNCHANGED vars
    BY <1>2, <2>4 DEF CauseInv, Clean, vars, rankVars, idVars, fileVars, scriptVars
  <2> QED
    BY <1>2, <2>1, <2>2, <2>3, <2>4, NextCases DEF ScriptNext
<1>3. CauseInv => FailureHasCause
  BY DEF CauseInv, Clean, FailureHasCause
<1> QED
  BY <1>1, <1>2, <1>3, Inductive, WholeInductive, PTL DEF Spec
-----------------------------------------------------------------------------
(* Where the ranks meet: a rank in CommInitRank or beyond has joined, one  *)
(* beyond it has seen all join, and one in dev_memcpy has contributed.     *)
JoinInv ==
  \A r \in Rank :
    /\ pc[r] \in {"CommInitRank", "unicc_allreduce", "dev_memcpy", "finish"} => r \in joined
    /\ pc[r] \in {"unicc_allreduce", "dev_memcpy", "finish"} => joined = Rank
    /\ pc[r] = "dev_memcpy" => r \in contributed
    /\ r \in contributed => joined = Rank

(* Rank 0's id is the only one there is. *)
MintInv ==
  /\ len[0] \in {0, UidBytes}
  /\ pc[0] \in {"fwrite", "fclose", "rename"} => len[0] = UidBytes
  /\ tmp_file > 0 \/ uid_file > 0 => len[0] = UidBytes
  /\ \A r \in Rank : len[r] > 0 => len[0] = UidBytes

MeetInv == JoinInv /\ MintInv

(* A rank's step keeps JoinInv. *)
LEMMA RankKeepsJoinInv ==
  ASSUME IInv, JoinInv, NEW r \in Rank, RankNext(r)
  PROVE  JoinInv'
<1> USE DEF IInv
<1>1. Moves(r)
  BY RankStep
<1>2. joined' \subseteq Rank /\ contributed' \subseteq Rank
  BY RankKeepsType DEF TypeOK
<1>3. CASE unicc_comm_init_rank(r)
  <2>1. UNCHANGED contributed /\ joined \subseteq joined' /\ (joined' = joined \/ r \in joined')
    BY <1>3 DEF unicc_comm_init_rank
  <2>2. (pc'[r] = "CommInitRank" /\ r \in joined') \/ Failed(r)
    BY <1>3, GotoMoves, FailsMoves DEF unicc_comm_init_rank, Label
  <2>3. joined = Rank => joined' = Rank
    BY <1>2, <2>1
  <2> QED
    BY <1>1, <2>1, <2>2, <2>3 DEF JoinInv, Moves, Failed
<1>4. CASE unicc_allreduce(r)
  <2>1. UNCHANGED joined /\ contributed' \in {contributed, contributed \cup {r}}
    BY <1>4 DEF unicc_allreduce
  <2>2. (pc'[r] = "dev_memcpy" /\ r \in contributed') \/ Failed(r)
    BY <1>4, GotoMoves, FailsMoves DEF unicc_allreduce, Fails, Label
  <2>3. r \in joined /\ joined = Rank
    BY <1>4 DEF unicc_allreduce, JoinInv
  <2> QED
    BY <1>1, <2>1, <2>2, <2>3 DEF JoinInv, Moves, Failed
<1>5. CASE CommInitRank(r)
  <2>1. UNCHANGED commVars
    BY <1>5 DEF CommInitRank
  <2>2. (pc'[r] = "unicc_allreduce" /\ joined = Rank) \/ Failed(r)
    BY <1>5, GotoMoves, FailsMoves DEF CommInitRank, Fails, Label
  <2> QED
    BY <1>1, <2>1, <2>2 DEF JoinInv, Moves, Failed, commVars
<1>6. CASE dev_memcpy(r)
  <2>1. UNCHANGED commVars
    BY <1>6 DEF dev_memcpy
  <2>2. pc'[r] = "finish" \/ Failed(r)
    BY <1>6, GotoMoves, FailsMoves DEF dev_memcpy, Fails, Label
  <2>3. r \in joined /\ joined = Rank
    BY <1>6 DEF dev_memcpy, JoinInv
  <2> QED
    BY <1>1, <2>1, <2>2, <2>3 DEF JoinInv, Moves, Failed, commVars
<1>7. CASE /\ UNCHANGED commVars
           /\ pc'[r] \notin {"CommInitRank", "unicc_allreduce", "dev_memcpy", "finish"}
  BY <1>1, <1>7 DEF JoinInv, Moves, commVars
<1>8. ASSUME \/ r = 0 /\ Rank0
             \/ unicc_init(r) \/ devmem(r) \/ Consumer(r) \/ finish(r) \/ crash(r)
      PROVE  /\ UNCHANGED commVars
             /\ pc'[r] \notin {"CommInitRank", "unicc_allreduce", "dev_memcpy", "finish"}
  <2>1. UNCHANGED commVars
    BY <1>8 DEF Rank0, unicc_get_unique_id, fwrite, fclose, rename, Consumer, poll,
       unicc_init, devmem, finish, crash
  <2>2. CASE r = 0 /\ Rank0
    BY <2>2, GotoMoves, FailsMoves
    DEF Rank0, unicc_get_unique_id, fwrite, fclose, rename, Fails, Failed, Label, TypeOK
  <2>3. CASE unicc_init(r) \/ devmem(r)
    BY <2>3, GotoMoves, FailsMoves DEF unicc_init, devmem, Fails, Failed, Label
  <2>4. CASE Consumer(r)
    BY <2>4, GotoMoves, FailsMoves
    DEF Consumer, poll, GivesUp, Failed, Label, rankVars
  <2>5. CASE finish(r) \/ crash(r)
    BY <2>5, ExitType DEF finish, crash, Fails
  <2> QED
    BY <1>8, <2>1, <2>2, <2>3, <2>4, <2>5
<1> QED
  BY <1>3, <1>4, <1>5, <1>6, <1>7, <1>8 DEF RankNext, AnyRank

(* A rank's step keeps MintInv: an id is minted once, and copied.          *)
LEMMA RankKeepsMintInv ==
  ASSUME IInv, MintInv, NEW r \in Rank, RankNext(r)
  PROVE  MintInv'
<1> USE DEF IInv
<1>1. Moves(r) /\ 0 \in Rank
  BY RankStep, ZeroIsRank
<1>2. CASE r = 0 /\ unicc_get_unique_id
  <2>1. CASE len' = [len EXCEPT ![0] = UidBytes]
    <3>1. len'[0] = UidBytes
      BY <1>1, <2>1 DEF TypeOK
    <3> QED
      BY <3>1 DEF MintInv
  <2>2. CASE Fails(0, "native") /\ UNCHANGED len
    BY <1>1, <1>2, <2>2, FailsMoves DEF unicc_get_unique_id, Fails, MintInv, Failed, fileVars
  <2> QED
    BY <1>2, <2>1, <2>2 DEF unicc_get_unique_id
<1>3. CASE Consumer(r)
  <2>1. pc'[0] = pc[0] /\ len'[0] = len[0] /\ UNCHANGED fileVars
    BY <1>1, <1>3 DEF Consumer, poll, Moves, TypeOK
  <2>2. len' = len \/ (len' = [len EXCEPT ![r] = uid_file] /\ uid_file > 0)
    BY <1>3 DEF Consumer, poll
  <2> QED
    BY <2>1, <2>2 DEF MintInv, fileVars, TypeOK
<1>4. CASE r = 0 /\ (fwrite \/ fclose \/ rename)
  <2>1. UNCHANGED len /\ len[0] = UidBytes
    BY <1>4 DEF fwrite, fclose, rename, MintInv, idVars
  <2> QED
    BY <2>1 DEF MintInv
<1>5. CASE unicc_init(r) \/ devmem(r) \/ unicc_comm_init_rank(r) \/ CommInitRank(r)
             \/ unicc_allreduce(r) \/ dev_memcpy(r) \/ finish(r) \/ crash(r)
  <2>1. UNCHANGED <<len, fileVars>>
    BY <1>5 DEF unicc_init, devmem, unicc_comm_init_rank, CommInitRank, unicc_allreduce,
       dev_memcpy, finish, crash, idVars
  <2>2. pc'[0] \in {"fwrite", "fclose", "rename"} => pc[0] = pc'[0]
    <3>1. CASE r = 0
      BY <1>5, <3>1, GotoMoves, FailsMoves, ExitType
      DEF unicc_init, devmem, unicc_comm_init_rank, CommInitRank, unicc_allreduce,
          dev_memcpy, finish, crash, Fails, Failed, Label
    <3>2. CASE r # 0
      BY <1>1, <3>2 DEF Moves
    <3> QED
      BY <3>1, <3>2
  <2> QED
    BY <2>1, <2>2 DEF MintInv, fileVars
<1> QED
  BY <1>2, <1>3, <1>4, <1>5 DEF RankNext, Rank0, AnyRank

(* MeetInv holds throughout. *)
LEMMA MeetInductive == Spec => []MeetInv
<1>1. Init => MeetInv
  BY ZeroIsRank DEF Init, MeetInv, JoinInv, MintInv, Absent
<1>2. ASSUME IInv, MeetInv, [Next]_vars PROVE MeetInv'
  <2>1. ASSUME NEW r \in Rank, RankNext(r) PROVE MeetInv'
    BY <1>2, <2>1, RankKeepsJoinInv, RankKeepsMintInv DEF MeetInv
  <2>2. CASE ScriptNext
    BY <1>2, <2>2 DEF ScriptNext, wait, verdict, interrupt, MeetInv, JoinInv, MintInv,
       rankVars, idVars, commVars, fileVars, Absent
  <2>3. CASE UNCHANGED vars
    BY <1>2, <2>3 DEF vars, MeetInv, JoinInv, MintInv, rankVars, idVars, commVars, fileVars
  <2> QED
    BY <1>2, <2>1, <2>2, <2>3, NextCases
<1> QED
  BY <1>1, <1>2, Inductive, PTL DEF Spec

(* For any number of ranks and any faults: the waits for one another never *)
(* close a circle.  A rank blocked in CommInitRank waits for one that has  *)
(* not joined, and one blocked in the copy for one that has not            *)
(* contributed; neither of these can be blocked itself, or have succeeded. *)
THEOREM No_Circular_Wait == Spec => []NoCircularWait
<1>1. IInv /\ MeetInv => NoCircularWait
  <2> SUFFICES ASSUME IInv, MeetInv, NEW r \in Rank, Blocked(r)
               PROVE  \E q \in Rank : exit[q] # 0 \/ (pc[q] # "exited" /\ ~Blocked(q))
    BY DEF NoCircularWait
  <2> USE DEF IInv, MeetInv, JoinInv
  <2>1. \A q \in Rank : pc[q] = "exited" /\ exit[q] = 0 => contributed = Rank /\ joined = Rank
    BY ZeroIsRank DEF RankInv
  <2>2. CASE pc[r] = "CommInitRank" /\ joined # Rank
    <3>1. PICK q \in Rank : q \notin joined
      BY <2>2 DEF TypeOK
    <3>2. ~Blocked(q)
      BY <3>1 DEF Blocked
    <3> QED
      BY <2>1, <2>2, <3>2
  <2>3. CASE pc[r] = "dev_memcpy" /\ contributed # Rank
    <3>1. PICK q \in Rank : q \notin contributed
      BY <2>3 DEF TypeOK
    <3>2. ~Blocked(q)
      BY <2>3, <3>1 DEF Blocked
    <3> QED
      BY <2>1, <2>3, <3>2
  <2> QED
    BY <2>2, <2>3 DEF Blocked
<1> QED
  BY <1>1, Inductive, MeetInductive, PTL

-----------------------------------------------------------------------------
(* The variant, label by label. *)
LEMMA RemainingValues ==
  /\ Remaining["unicc_init"] = 11 /\ Remaining["unicc_get_unique_id"] = 10
  /\ Remaining["fwrite"] = 9 /\ Remaining["fclose"] = 8 /\ Remaining["rename"] = 7
  /\ Remaining["poll"] = 7 /\ Remaining["devmem"] = 6
  /\ Remaining["unicc_comm_init_rank"] = 5 /\ Remaining["CommInitRank"] = 4
  /\ Remaining["unicc_allreduce"] = 3 /\ Remaining["dev_memcpy"] = 2
  /\ Remaining["finish"] = 1 /\ Remaining["exited"] = 0
BY DEF Remaining

(* It is never negative, and 0 only at the end. *)
LEMMA RemainingBounds ==
  ASSUME NEW label \in Label
  PROVE  Remaining[label] \in Nat /\ (label # "exited" => Remaining[label] > 0)
BY RemainingValues DEF Label

(* A rank's step leaves it fewer steps, and the others as many as before.  *)
LEMMA RankAdvances ==
  ASSUME IInv, NEW r \in Rank, RankNext(r)
  PROVE  /\ \A q \in Rank : Left(q)' \in 0 .. Left(q)
         /\ Left(r)' # Left(r)
<1> USE DEF IInv
<1>1. Moves(r) /\ pc[r] # "exited"
  BY RankStep
<1>2. \A q \in Rank : pc[q] \in Label /\ pc'[q] \in Label
  BY <1>1 DEF Moves, TypeOK
<1>3. \A q \in Rank : tries[q] \in 0 .. MAX_TRIES /\ tries'[q] \in 0 .. MAX_TRIES
  BY RankKeepsType DEF TypeOK
<1>4. \A q \in Rank : /\ Remaining[pc[q]] \in Nat /\ Remaining[pc'[q]] \in Nat
                      /\ pc[q] # "exited" => Remaining[pc[q]] > 0
  BY <1>2, RemainingBounds
<1>5. ASSUME NEW q \in Rank \ {r} PROVE pc'[q] = pc[q] /\ tries'[q] = tries[q]
  BY <1>1 DEF Moves, TypeOK, RankNext, Rank0, AnyRank, unicc_get_unique_id, fwrite, fclose,
     rename, Consumer, poll, unicc_init, devmem, unicc_comm_init_rank, CommInitRank,
     unicc_allreduce, dev_memcpy, finish, crash, idVars
<1>6. \/ tries'[r] = tries[r] /\ Remaining[pc'[r]] < Remaining[pc[r]]
      \/ tries'[r] = tries[r] + 1 /\ Remaining[pc'[r]] <= Remaining[pc[r]]
  <2>1. CASE Failed(r) /\ UNCHANGED tries
    BY <1>1, <1>4, <2>1, RemainingValues DEF Failed
  <2>2. CASE Consumer(r)
    <3>1. CASE Goto(r, "devmem") /\ UNCHANGED tries
      <4>1. pc[r] = "poll" /\ pc'[r] = "devmem"
        BY <2>2, <3>1, GotoMoves DEF Consumer, poll, Label
      <4> QED
        BY <3>1, <4>1, RemainingValues
    <3>2. CASE /\ tries' = [tries EXCEPT ![r] = @ + 1]
               /\ (pc' = pc \/ Exit(r, 2))
      <4>1. tries'[r] = tries[r] + 1
        BY <3>2 DEF TypeOK
      <4>2. pc'[r] = pc[r] \/ pc'[r] = "exited"
        BY <3>2, FailsMoves DEF Failed
      <4> QED
        BY <1>4, <4>1, <4>2, RemainingValues
    <3> QED
      BY <2>2, <3>1, <3>2 DEF Consumer, poll, GivesUp, rankVars
  <2>3. CASE ~Consumer(r)
    <3>1. UNCHANGED tries
      BY <2>3 DEF RankNext, Rank0, AnyRank, unicc_get_unique_id, fwrite, fclose, rename,
         unicc_init, devmem, unicc_comm_init_rank, CommInitRank, unicc_allreduce,
         dev_memcpy, finish, crash, idVars
    <3>2. \/ <<pc[r], pc'[r]>> \in {<<"unicc_init", "unicc_get_unique_id">>,
               <<"unicc_init", "poll">>, <<"unicc_get_unique_id", "fwrite">>,
               <<"unicc_get_unique_id", "devmem">>, <<"fwrite", "fclose">>,
               <<"fclose", "rename">>, <<"rename", "devmem">>}
          \/ <<pc[r], pc'[r]>> \in {<<"devmem", "unicc_comm_init_rank">>,
               <<"unicc_comm_init_rank", "CommInitRank">>,
               <<"CommInitRank", "unicc_allreduce">>, <<"unicc_allreduce", "dev_memcpy">>,
               <<"dev_memcpy", "finish">>}
          \/ pc'[r] = "exited"
      <4>1. CASE r = 0 /\ Rank0
        BY <4>1, GotoMoves, FailsMoves
        DEF Rank0, unicc_get_unique_id, fwrite, fclose, rename, Fails, Failed, Label, TypeOK
      <4>2. CASE unicc_init(r) \/ devmem(r)
        BY <4>2, GotoMoves, FailsMoves DEF unicc_init, devmem, Fails, Failed, Label
      <4>3. CASE unicc_comm_init_rank(r) \/ CommInitRank(r)
        BY <4>3, GotoMoves, FailsMoves
        DEF unicc_comm_init_rank, CommInitRank, Fails, Failed, Label
      <4>4. CASE unicc_allreduce(r) \/ dev_memcpy(r)
        BY <4>4, GotoMoves, FailsMoves DEF unicc_allreduce, dev_memcpy, Fails, Failed, Label
      <4>5. CASE finish(r) \/ crash(r)
        BY <4>5, ExitType DEF finish, crash, Fails
      <4> QED
        BY <2>3, <4>1, <4>2, <4>3, <4>4, <4>5 DEF RankNext, AnyRank
    <3>3. CASE pc'[r] = "exited"
      BY <1>1, <1>4, <3>1, <3>3, RemainingValues
    <3>4. CASE pc'[r] # "exited"
      BY <3>1, <3>2, <3>4, RemainingValues
    <3> QED
      BY <3>3, <3>4
  <2> QED
    BY <2>2, <2>3
<1>7. MAX_TRIES \in Nat
  OBVIOUS
<1>8. Left(r)' \in 0 .. Left(r) /\ Left(r)' # Left(r)
  BY <1>3, <1>4, <1>6, <1>7 DEF Left
<1>9. \A q \in Rank \ {r} : Left(q)' \in 0 .. Left(q)
  BY <1>3, <1>4, <1>5, <1>7 DEF Left
<1> QED
  BY <1>8, <1>9

(* For any number of ranks and tries: every step uses up one of the        *)
(* MAX_TRIES + 11 steps that a rank has at most, or one of the World + 1   *)
(* of the script.  With NoCircularWait this is what the liveness that TLC  *)
(* checks rests on, apart from fairness.                                   *)
THEOREM Every_Step_Advances == Spec => EveryStepAdvances
<1> DEFINE Advance ==
      /\ \A r \in Rank : Left(r)' \in 0 .. Left(r)
      /\ ScriptLeft' \in 0 .. ScriptLeft
      /\ ScriptLeft' # ScriptLeft \/ \E r \in Rank : Left(r)' # Left(r)
<1>1. ASSUME IInv, Next PROVE Advance
  <2>1. ScriptLeft \in Nat
    BY <1>1 DEF IInv, TypeOK, ScriptLeft
  <2>2. ASSUME NEW r \in Rank, RankNext(r) PROVE Advance
    <3>1. ScriptLeft' = ScriptLeft
      BY <1>1, <2>2, RankStep DEF IInv, scriptVars, ScriptLeft
    <3> QED
      BY <1>1, <2>1, <2>2, <3>1, RankAdvances
  <2>3. CASE ScriptNext
    <3>1. UNCHANGED <<pc, tries>>
      BY <2>3 DEF ScriptNext, wait, verdict, interrupt, rankVars, idVars
    <3>2. \A r \in Rank : Left(r) \in Nat /\ Left(r)' = Left(r)
      BY <1>1, <3>1, RemainingBounds DEF Left, IInv, TypeOK
    <3>3. ScriptLeft' \in 0 .. ScriptLeft /\ ScriptLeft' # ScriptLeft
      BY <1>1, <2>3 DEF ScriptNext, wait, verdict, interrupt, IInv, TypeOK, ScriptLeft
    <3> QED
      BY <3>2, <3>3
  <2> QED
    BY <1>1, <2>2, <2>3, NextCases
<1>2. IInv /\ [Next]_vars => [Advance]_vars
  BY <1>1
<1> QED
  BY <1>2, Inductive, PTL DEF Spec, EveryStepAdvances

-----------------------------------------------------------------------------
(* How a rank has ended, as UniccRendezvous sees it. *)
outBar == [r \in Rank |-> IF pc[r] # "exited" THEN "running"
                          ELSE IF exit[r] = 0 THEN "passed" ELSE "failed"]

(* A rank that goes on changes nothing of it. *)
LEMMA OutStays ==
  ASSUME NEW r \in Rank, Moves(r), pc[r] # "exited", pc'[r] # "exited"
  PROVE  outBar' = outBar
BY DEF Moves, outBar

(* A rank that exits changes its own part. *)
LEMMA OutEnds ==
  ASSUME NEW r \in Rank, Moves(r), pc[r] # "exited", pc'[r] = "exited"
  PROVE  /\ outBar[r] = "running"
         /\ outBar' = [outBar EXCEPT ![r] = IF exit'[r] = 0 THEN "passed" ELSE "failed"]
BY DEF Moves, outBar

(* Every step of a rank is a step of the rendezvous, or none. *)
LEMMA RankMeets ==
  ASSUME IInv, MeetInv, NEW r \in Rank, RankNext(r)
  PROVE  [Rendezvous!RendezvousNext]_(Rendezvous!rendezvousVars)
<1> USE DEF IInv
<1>1. Moves(r) /\ pc[r] # "exited" /\ UNCHANGED status
  BY RankStep DEF scriptVars
<1>2. CASE Failed(r) /\ UNCHANGED <<len, joined, contributed>>
  <2>1. Rendezvous!Fail(r)
    BY <1>1, <1>2, OutEnds DEF Failed, outBar, Rendezvous!Fail
  <2> QED
    BY <2>1 DEF Rendezvous!RendezvousNext, Rendezvous!Rank, Rank
<1>3. CASE /\ pc'[r] # "exited"
           /\ UNCHANGED <<joined, contributed>>
           /\ (len[0] = UidBytes)' = (len[0] = UidBytes)
  BY <1>1, <1>3, OutStays DEF outBar, Rendezvous!rendezvousVars
<1>4. CASE r = 0 /\ unicc_get_unique_id
  <2>1. CASE Fails(0, "native") /\ UNCHANGED len
    BY <1>2, <1>4, <2>1, FailsMoves DEF unicc_get_unique_id, Fails, commVars
  <2>2. CASE /\ Goto(0, IF World > 1 THEN "fwrite" ELSE "devmem")
             /\ len' = [len EXCEPT ![0] = UidBytes]
    <3>1. pc'[r] # "exited" /\ len'[0] = UidBytes /\ UNCHANGED commVars
      BY <1>4, <2>2, GotoMoves, ZeroIsRank DEF unicc_get_unique_id, Label, TypeOK
    <3>2. Rendezvous!Mint
      BY <1>1, <1>4, <3>1, OutStays DEF outBar, commVars, Rendezvous!Mint
    <3> QED
      BY <3>2 DEF Rendezvous!RendezvousNext
  <2> QED
    BY <1>4, <2>1, <2>2 DEF unicc_get_unique_id
<1>5. CASE unicc_comm_init_rank(r)
  <2>1. CASE IdFits(r) /\ joined' = joined \cup {r} /\ Goto(r, "CommInitRank")
    <3>1. pc'[r] # "exited" /\ UNCHANGED <<len, contributed>>
      BY <1>5, <2>1, GotoMoves DEF unicc_comm_init_rank, Label, idVars
    <3>2. len[0] = UidBytes
      BY <2>1 DEF IdFits, MeetInv, MintInv
    <3>3. Rendezvous!Join(r)
      BY <1>1, <2>1, <3>1, <3>2, OutStays DEF outBar, Rendezvous!Join
    <3> QED
      BY <3>3 DEF Rendezvous!RendezvousNext, Rendezvous!Rank, Rank
  <2>2. CASE UNCHANGED <<joined, happened>> /\ Exit(r, 2)
    BY <1>2, <1>5, <2>2, FailsMoves DEF unicc_comm_init_rank, idVars
  <2> QED
    BY <1>5, <2>1, <2>2 DEF unicc_comm_init_rank
<1>6. CASE unicc_allreduce(r)
  <2>1. CASE contributed' = contributed \cup {r} /\ Goto(r, "dev_memcpy")
    <3>1. pc'[r] # "exited" /\ UNCHANGED <<len, joined>>
      BY <1>6, <2>1, GotoMoves DEF unicc_allreduce, Label, idVars
    <3>2. joined = Rank
      BY <1>6 DEF unicc_allreduce, MeetInv, JoinInv
    <3>3. Rendezvous!Contribute(r)
      BY <1>1, <2>1, <3>1, <3>2, OutStays
      DEF outBar, Rendezvous!Contribute, Rendezvous!Rank, Rank
    <3> QED
      BY <3>3 DEF Rendezvous!RendezvousNext, Rendezvous!Rank, Rank
  <2>2. CASE (Fails(r, "native") \/ Fails(r, "device")) /\ UNCHANGED contributed
    BY <1>2, <1>6, <2>2, FailsMoves DEF unicc_allreduce, Fails, idVars
  <2> QED
    BY <1>6, <2>1, <2>2 DEF unicc_allreduce
<1>7. CASE finish(r)
  <2>1. CASE Exit(r, 0)
    <3>1. pc'[r] = "exited" /\ exit'[r] = 0 /\ UNCHANGED <<len, commVars>>
      BY <1>7, <2>1, ExitType DEF finish, idVars
    <3>2. contributed = Rank
      BY <1>7 DEF finish, RankInv
    <3>3. Rendezvous!Succeed(r)
      BY <1>1, <3>1, <3>2, OutEnds
      DEF outBar, commVars, Rendezvous!Succeed, Rendezvous!Rank, Rank
    <3> QED
      BY <3>3 DEF Rendezvous!RendezvousNext, Rendezvous!Rank, Rank
  <2>2. CASE Fails(r, "native")
    BY <1>2, <1>7, <2>2, FailsMoves DEF finish, Fails, idVars, commVars
  <2> QED
    BY <1>7, <2>1, <2>2 DEF finish
<1>8. CASE Consumer(r)
  <2>1. /\ UNCHANGED <<joined, contributed>>
        /\ (len[0] = UidBytes)' = (len[0] = UidBytes)
    BY <1>8, ZeroIsRank DEF Consumer, poll, commVars, TypeOK
  <2>2. CASE Goto(r, "devmem")
    BY <1>3, <2>1, <2>2, GotoMoves DEF Label
  <2>3. CASE UNCHANGED rankVars
    BY <1>1, <1>3, <2>1, <2>3 DEF rankVars
  <2>4. CASE Exit(r, 2) /\ UNCHANGED len
    BY <1>2, <2>1, <2>4, FailsMoves
  <2> QED
    BY <1>8, <2>2, <2>3, <2>4 DEF Consumer, poll, GivesUp
<1>9. CASE \/ r = 0 /\ (fwrite \/ fclose \/ rename)
           \/ unicc_init(r) \/ devmem(r) \/ CommInitRank(r) \/ dev_memcpy(r) \/ crash(r)
  <2>1. UNCHANGED <<len, joined, contributed>>
    BY <1>9 DEF fwrite, fclose, rename, unicc_init, devmem, CommInitRank, dev_memcpy, crash,
       idVars, commVars
  <2>2. Failed(r) \/ pc'[r] # "exited"
    <3>1. CASE r = 0 /\ (fwrite \/ fclose \/ rename)
      BY <3>1, GotoMoves, FailsMoves DEF fwrite, fclose, rename, Fails, Label, TypeOK
    <3>2. CASE unicc_init(r) \/ devmem(r)
      BY <3>2, GotoMoves, FailsMoves DEF unicc_init, devmem, Fails, Label
    <3>3. CASE CommInitRank(r) \/ dev_memcpy(r) \/ crash(r)
      BY <3>3, GotoMoves, FailsMoves DEF CommInitRank, dev_memcpy, crash, Fails, Label
    <3> QED
      BY <1>9, <3>1, <3>2, <3>3
  <2> QED
    BY <1>2, <1>3, <2>1, <2>2
<1> QED
  BY <1>4, <1>5, <1>6, <1>7, <1>8, <1>9 DEF RankNext, Rank0, AnyRank

(* So is every step of the script: its wait is none, its verdict the       *)
(* rendezvous's own.                                                       *)
LEMMA ScriptMeets ==
  ASSUME IInv, ScriptNext
  PROVE  [Rendezvous!RendezvousNext]_(Rendezvous!rendezvousVars)
<1> USE DEF IInv
<1>1. UNCHANGED <<pc, exit, len, joined, contributed>>
  BY DEF ScriptNext, wait, verdict, interrupt, rankVars, idVars, commVars
<1>2. outBar' = outBar
  BY <1>1 DEF outBar
<1>3. CASE wait
  BY <1>1, <1>2, <1>3 DEF wait, outBar, Rendezvous!rendezvousVars
<1>4. CASE verdict
  <2>1. \A r \in Rank : pc[r] = "exited"
    BY <1>4 DEF verdict, AllWaited, ScriptInv, Rank
  <2>2. rc = 0 <=> \A r \in Rank : exit[r] = 0
    BY <1>4 DEF verdict, AllWaited, ScriptInv, Rank, TypeOK
  <2>3. /\ \A r \in Rank : outBar[r] # "running"
        /\ status' = IF \A r \in Rank : outBar[r] = "passed" THEN "passed" ELSE "failed"
    BY <1>4, <2>1, <2>2 DEF verdict, outBar
  <2>4. Rendezvous!Judge
    BY <1>1, <1>2, <1>4, <2>3 DEF verdict, outBar, Rendezvous!Judge, Rendezvous!Rank, Rank
  <2> QED
    BY <2>4 DEF Rendezvous!RendezvousNext
<1>5. CASE interrupt
  <2>1. Rendezvous!Interrupt
    BY <1>1, <1>2, <1>5 DEF interrupt, outBar, Rendezvous!Interrupt
  <2> QED
    BY <2>1 DEF Rendezvous!RendezvousNext
<1> QED
  BY <1>3, <1>4, <1>5 DEF ScriptNext

(* For any number of ranks, lengths of the id and faults: the test is a    *)
(* rendezvous.  Join is unicc_comm_init_rank with an id that fits,         *)
(* Contribute is unicc_allreduce, Succeed and Fail are the exits, and      *)
(* publishing, polling and waiting do not show.                            *)
THEOREM Implements_Rendezvous == Spec => ImplementsRendezvous
<1>1. Init => Rendezvous!RendezvousInit
  BY ZeroIsRank DEF Init, Rendezvous!RendezvousInit, Rendezvous!Rank, Rank
<1>2. ASSUME IInv, MeetInv, [Next]_vars
      PROVE  [Rendezvous!RendezvousNext]_(Rendezvous!rendezvousVars)
  <2>1. CASE UNCHANGED vars
    BY <2>1 DEF vars, rankVars, idVars, commVars, scriptVars, Rendezvous!rendezvousVars
  <2> QED
    BY <1>2, <2>1, RankMeets, ScriptMeets, NextCases
<1> QED
  BY <1>1, <1>2, Inductive, MeetInductive, PTL
  DEF Spec, ImplementsRendezvous, Rendezvous!RendezvousSpec

===============================================================================
