--------------------------- MODULE JobQueueProofs ---------------------------
(***************************************************************************)
(* Proofs about JobQueue for every set of jobs, workers, sweeps and        *)
(* centers, every retry ceiling, backoff and timeout.                      *)
(*                                                                         *)
(* The inductive invariant says what an open transaction may hold: its     *)
(* rows are committed as 'processing' and belong to it alone (RowsOK), its *)
(* refunds keep up with its failures (RefundsOK), and a worker's copy of   *)
(* the row it claimed is still the row (WorkersOK, OneDriver).             *)
(***************************************************************************)
EXTENDS JobQueue, FiniteSetTheorems, TLAPS

RowsOK ==
    /\ \A p \in Procs : \A j \in Rows(p) : status[j] = "processing"
    /\ \A p, q \in Procs : p # q => Rows(p) \cap Rows(q) = {}
    /\ \A p \in Procs : /\ tx[p].done \cap tx[p].failed = {}
                        /\ tx[p].done \cap tx[p].again = {}
                        /\ tx[p].failed \cap tx[p].again = {}

RefundsOK ==
    \A p \in Procs :
        /\ tx[p].refund \subseteq tx[p].failed
        /\ tx[p].pc = "refund" => tx[p].failed \subseteq tx[p].refund \cup {tx[p].job}
        /\ tx[p].pc = "refund" => tx[p].job \in tx[p].failed
        /\ tx[p].pc # "refund" => tx[p].failed \subseteq tx[p].refund

WorkersOK ==
    \A w \in Workers :
        /\ tx[w].pc # "sweep"
        /\ tx[w].pc = "idle" => tx[w] = NoTx
        /\ tx[w].pc = "generate" => Rows(w) = {}
        /\ Rows(w) \subseteq {tx[w].job}
        /\ tx[w].pc # "idle" =>
              /\ tx[w].job \in Jobs
              /\ status[tx[w].job] \notin {"absent", "pending"}
              /\ status[tx[w].job] = "processing" => retry[tx[w].job] = tx[w].retry
        /\ tx[w].again # {} => tx[w].retry < MaxRetries
        /\ tx[w].why = "max_retries_exhausted" => /\ tx[w].retry = MaxRetries
                                                  /\ tx[w].again = {}

SweepsOK ==
    \A s \in Sweepers : /\ tx[s].pc \notin {"generate", "commit"}
                        /\ tx[s].pc = "idle" => tx[s] = NoTx
                        /\ tx[s].done = {} /\ tx[s].again = {}
                        /\ tx[s].why # "max_retries_exhausted"

IInv ==
    /\ TypeOK
    /\ RowsOK
    /\ RefundsOK
    /\ WorkersOK
    /\ SweepsOK
    /\ OneDriver
    /\ RefundIffFailed
    /\ OneInflightPerSubmission
    /\ AttemptsBounded
    /\ ExhaustedClimbedTheLadder

-----------------------------------------------------------------------------
(* Lemmas on the operators of the model.                                   *)

\* The backoff of an attempt is a duration, also beyond the ladder's end.
LEMMA DelayIsNat == ASSUME NEW n \in Nat PROVE Delay(n) \in Nat
  BY JobQueueAssumption DEF Delay

TxType == [pc : {"idle", "generate", "sweep", "refund", "commit"},
           job : Jobs \cup {NoJob}, retry : 0 .. MaxRetries,
           stuck : SUBSET Jobs, done : SUBSET Jobs, again : SUBSET Jobs,
           failed : SUBSET Jobs, refund : SUBSET Jobs, why : Reasons]

\* The transaction a process has none of is well-formed.
LEMMA NoTxType == NoTx \in TxType
  BY JobQueueAssumption DEF NoTx, TxType, Reasons

\* The initial state: an empty table, an empty ledger, nothing open.
LEMMA InitOK == Init => IInv
  <1> SUFFICES ASSUME Init PROVE IInv
    OBVIOUS
  <1>1. TypeOK
    BY JobQueueAssumption, NoTxType DEF Init, TypeOK, TxType, Status, Reasons
  <1>2. RowsOK
    BY DEF Init, RowsOK, Rows, NoTx
  <1>3. RefundsOK
    BY DEF Init, RefundsOK, NoTx
  <1>4. WorkersOK /\ SweepsOK /\ OneDriver
    BY DEF Init, WorkersOK, SweepsOK, OneDriver, NoTx, Rows, Procs
  <1>5. RefundIffFailed /\ OneInflightPerSubmission
    BY DEF Init, RefundIffFailed, OneInflightPerSubmission, Inflight
  <1>6. AttemptsBounded /\ ExhaustedClimbedTheLadder
    BY DEF Init, AttemptsBounded, ExhaustedClimbedTheLadder
  <1> QED
    BY <1>1, <1>2, <1>3, <1>4, <1>5, <1>6 DEF IInv

-----------------------------------------------------------------------------
(* Steps inside one transaction: the table and the ledger stay as they are *)
(* and only tx[p] changes.                                                 *)

\* What the transaction of p alone must satisfy.
LocalOK(p) ==
    /\ \A j \in Rows(p) : status[j] = "processing"
    /\ tx[p].done \cap tx[p].failed = {}
    /\ tx[p].done \cap tx[p].again = {}
    /\ tx[p].failed \cap tx[p].again = {}
    /\ tx[p].refund \subseteq tx[p].failed
    /\ tx[p].pc = "refund" => tx[p].failed \subseteq tx[p].refund \cup {tx[p].job}
    /\ tx[p].pc = "refund" => tx[p].job \in tx[p].failed
    /\ tx[p].pc # "refund" => tx[p].failed \subseteq tx[p].refund

WorkerOK(w) ==
    /\ tx[w].pc # "sweep"
    /\ tx[w].pc = "idle" => tx[w] = NoTx
    /\ tx[w].pc = "generate" => Rows(w) = {}
    /\ Rows(w) \subseteq {tx[w].job}
    /\ tx[w].pc # "idle" =>
          /\ tx[w].job \in Jobs
          /\ status[tx[w].job] \notin {"absent", "pending"}
          /\ status[tx[w].job] = "processing" => retry[tx[w].job] = tx[w].retry
    /\ tx[w].again # {} => tx[w].retry < MaxRetries
    /\ tx[w].why = "max_retries_exhausted" => /\ tx[w].retry = MaxRetries
                                              /\ tx[w].again = {}

SweepOK(s) ==
    /\ tx[s].pc \notin {"generate", "commit"}
    /\ tx[s].pc = "idle" => tx[s] = NoTx
    /\ tx[s].done = {} /\ tx[s].again = {}
    /\ tx[s].why # "max_retries_exhausted"

\* A step of p inside its transaction keeps the invariant if it leaves p's
\* transaction well-formed, its rows its own and its job what it was.
LEMMA TxStep ==
    ASSUME IInv, NEW p \in Procs, NEW t \in TxType,
           tx' = [tx EXCEPT ![p] = t],
           UNCHANGED <<table, ledger, attempts>>,
           faults' \in 0 .. MaxFaults,
           LocalOK(p)',
           p \in Workers => WorkerOK(p)',
           p \in Sweepers => SweepOK(p)',
           \A q \in Procs \ {p} : Rows(p)' \cap Rows(q) = {},
           p \in Workers => t.job \in {tx[p].job, NoJob}
    PROVE  IInv'
  <1>1. TypeOK'
    BY DEF IInv, TypeOK, TxType, table, ledger
  <1>2. /\ \A q \in Procs : q # p => tx'[q] = tx[q]
        /\ tx'[p] = t
    BY DEF IInv, TypeOK
  <1>3. \A q \in Procs : q # p => Rows(q)' = Rows(q)
    BY <1>2 DEF Rows
  <1>4. RowsOK'
    BY <1>2, <1>3 DEF IInv, RowsOK, LocalOK, table
  <1>5. RefundsOK'
    BY <1>2 DEF IInv, RefundsOK, LocalOK
  <1>6. WorkersOK'
    BY <1>2, <1>3 DEF IInv, WorkersOK, WorkerOK, table, Procs
  <1>7. SweepsOK'
    BY <1>2 DEF IInv, SweepsOK, SweepOK, Procs
  <1>8. OneDriver'
    <2> SUFFICES ASSUME NEW v \in Workers, NEW w \in Workers, v # w,
                        tx'[v].pc # "idle"
                 PROVE  tx'[v].job # tx'[w].job
      BY DEF OneDriver
    <2>1. CASE v # p /\ w # p
      BY <2>1, <1>2 DEF IInv, OneDriver, Procs
    <2>2. CASE w = p
      BY <2>2, <1>2, JobQueueAssumption DEF IInv, OneDriver, WorkersOK, Procs
    <2>3. CASE v = p
      <3>1. tx'[p].job \in Jobs
        BY <2>3, <1>6 DEF WorkersOK
      <3>2. t.job = tx[p].job /\ tx[p].pc # "idle"
        BY <2>3, <3>1, <1>2, JobQueueAssumption DEF IInv, WorkersOK, NoTx
      <3> QED
        BY <2>3, <3>2, <1>2 DEF IInv, OneDriver, Procs
    <2> QED
      BY <2>1, <2>2, <2>3
  <1>9. /\ RefundIffFailed' /\ OneInflightPerSubmission'
        /\ AttemptsBounded' /\ ExhaustedClimbedTheLadder'
    BY DEF IInv, RefundIffFailed, OneInflightPerSubmission, Inflight,
           AttemptsBounded, ExhaustedClimbedTheLadder, table, ledger
  <1> QED
    BY <1>1, <1>4, <1>5, <1>6, <1>7, <1>8, <1>9 DEF IInv

\* A row p hits is committed as 'processing' and in no other transaction.
LEMMA HitsFree ==
    ASSUME NEW p \in Procs, NEW j \in Jobs, Hits(p, j)
    PROVE  status[j] = "processing" /\ \A q \in Procs \ {p} : j \notin Rows(q)
  BY DEF Hits

\* The handler succeeded: the row is written, or the result discarded.
LEMMA GenerateOkInv ==
    ASSUME IInv, NEW w \in Workers, GenerateOk(w) PROVE IInv'
  <1> DEFINE j == tx[w].job
             hit == [tx[w] EXCEPT !.pc = "commit", !.done = {j}]
             miss == [tx[w] EXCEPT !.pc = "commit"]
  <1> USE DEF Procs
  <1>1. tx[w] \in TxType /\ tx[w].pc = "generate" /\ Rows(w) = {} /\ j \in Jobs
    BY DEF GenerateOk, IInv, TypeOK, TxType, WorkersOK
  <1>2. /\ tx[w].done = {} /\ tx[w].again = {} /\ tx[w].failed = {}
        /\ tx[w].refund = {}
    BY <1>1 DEF Rows, IInv, RefundsOK
  <1>3. /\ UNCHANGED <<table, ledger, attempts>>
        /\ faults' \in 0 .. MaxFaults
        /\ UNCHANGED <<status, retry>>
    BY DEF GenerateOk, IInv, TypeOK, table
  <1>4. CASE Hits(w, j) /\ tx' = [tx EXCEPT ![w] = hit]
    <2>1. hit \in TxType /\ tx'[w] = hit
      BY <1>1, <1>4 DEF TxType, IInv, TypeOK
    <2>2. Rows(w)' = {j}
      BY <2>1, <1>1, <1>2 DEF Rows, TxType
    <2>3. LocalOK(w)' /\ WorkerOK(w)'
      BY <2>1, <2>2, <1>1, <1>2, <1>3, <1>4, HitsFree
      DEF LocalOK, WorkerOK, TxType, IInv, WorkersOK
    <2>4. \A q \in Procs \ {w} : Rows(w)' \cap Rows(q) = {}
      BY <2>2, <1>1, <1>4, HitsFree
    <2>5. hit.job = j
      BY <1>1 DEF TxType
    <2> HIDE DEF hit
    <2> QED
      BY <2>1, <2>3, <2>4, <2>5, <1>3, <1>4, TxStep, JobQueueAssumption
  <1>5. CASE tx' = [tx EXCEPT ![w] = miss]
    <2>1. miss \in TxType /\ tx'[w] = miss
      BY <1>1, <1>5 DEF TxType, IInv, TypeOK
    <2>2. Rows(w)' = {}
      BY <2>1, <1>1, <1>2 DEF Rows, TxType
    <2>3. LocalOK(w)' /\ WorkerOK(w)'
      BY <2>1, <2>2, <1>1, <1>2, <1>3
      DEF LocalOK, WorkerOK, TxType, IInv, WorkersOK
    <2>4. miss.job = j
      BY <1>1 DEF TxType
    <2> HIDE DEF miss
    <2> QED
      BY <2>1, <2>2, <2>3, <2>4, <1>3, <1>5, TxStep, JobQueueAssumption
  <1> QED
    BY <1>4, <1>5 DEF GenerateOk

\* A retryable failure: the row goes back to the queue, or is left alone.
LEMMA GenerateRetryInv ==
    ASSUME IInv, NEW w \in Workers, GenerateRetry(w) PROVE IInv'
  <1> DEFINE j == tx[w].job
             hit == [tx[w] EXCEPT !.pc = "commit", !.again = {j},
                             !.why = "transient_failure"]
             miss == [tx[w] EXCEPT !.pc = "commit"]
  <1> USE DEF Procs
  <1>1. tx[w] \in TxType /\ tx[w].pc = "generate" /\ Rows(w) = {} /\ j \in Jobs
    BY DEF GenerateRetry, IInv, TypeOK, TxType, WorkersOK
  <1>2. /\ tx[w].done = {} /\ tx[w].again = {} /\ tx[w].failed = {}
        /\ tx[w].refund = {}
    BY <1>1 DEF Rows, IInv, RefundsOK
  <1>3. /\ UNCHANGED <<table, ledger, attempts>>
        /\ faults' \in 0 .. MaxFaults
        /\ UNCHANGED <<status, retry>>
        /\ tx[w].retry < MaxRetries
    BY DEF GenerateRetry, RetriesLeft, IInv, TypeOK, table
  <1>4. CASE Hits(w, j) /\ tx' = [tx EXCEPT ![w] = hit]
    <2>1. hit \in TxType /\ tx'[w] = hit
      BY <1>1, <1>4 DEF TxType, IInv, TypeOK, Reasons
    <2>2. Rows(w)' = {j}
      BY <2>1, <1>1, <1>2 DEF Rows, TxType
    <2>3. LocalOK(w)' /\ WorkerOK(w)'
      BY <2>1, <2>2, <1>1, <1>2, <1>3, <1>4, HitsFree
      DEF LocalOK, WorkerOK, TxType, IInv, WorkersOK
    <2>4. \A q \in Procs \ {w} : Rows(w)' \cap Rows(q) = {}
      BY <2>2, <1>1, <1>4, HitsFree
    <2>5. hit.job = j
      BY <1>1 DEF TxType
    <2> HIDE DEF hit
    <2> QED
      BY <2>1, <2>3, <2>4, <2>5, <1>3, <1>4, TxStep, JobQueueAssumption
  <1>5. CASE tx' = [tx EXCEPT ![w] = miss]
    <2>1. miss \in TxType /\ tx'[w] = miss
      BY <1>1, <1>5 DEF TxType, IInv, TypeOK
    <2>2. Rows(w)' = {}
      BY <2>1, <1>1, <1>2 DEF Rows, TxType
    <2>3. LocalOK(w)' /\ WorkerOK(w)'
      BY <2>1, <2>2, <1>1, <1>2, <1>3
      DEF LocalOK, WorkerOK, TxType, IInv, WorkersOK
    <2>4. miss.job = j
      BY <1>1 DEF TxType
    <2> HIDE DEF miss
    <2> QED
      BY <2>1, <2>2, <2>3, <2>4, <1>3, <1>5, TxStep, JobQueueAssumption
  <1> QED
    BY <1>4, <1>5 DEF GenerateRetry

\* terminalFail of a worker or of the sweep, its first statement.
LEMMA MarkFailedInv ==
    ASSUME IInv, NEW p \in Procs, NEW j \in Jobs, NEW why \in Reasons,
           NEW rest \in SUBSET Jobs, NEW after \in {"sweep", "commit"},
           tx[p].pc \in {"generate", "sweep"},
           p \in Workers => after = "commit" /\ j = tx[p].job,
           p \in Sweepers => after = "sweep",
           why = "max_retries_exhausted" => p \in Workers /\ tx[p].retry = MaxRetries,
           MarkFailed(p, j, why, rest, after),
           UNCHANGED <<table, ledger, faults, attempts>>
    PROVE  IInv'
  <1> DEFINE hit == [tx[p] EXCEPT !.pc = "refund", !.job = j, !.stuck = rest,
                                  !.failed = @ \cup {j}, !.why = why]
             miss == [tx[p] EXCEPT !.pc = after, !.stuck = rest]
  <1>1. tx[p] \in TxType
    BY DEF IInv, TypeOK, TxType
  <1>2. /\ tx[p].done = {} /\ tx[p].again = {} /\ tx[p].failed = tx[p].refund
        /\ Rows(p) = tx[p].failed
        /\ \A i \in Rows(p) : status[i] = "processing"
        /\ \A q \in Procs \ {p} : Rows(q) \cap Rows(p) = {}
        /\ p \in Workers => Rows(p) = {}
    <2>1. p \in Workers => Rows(p) = {}
      BY DEF IInv, WorkersOK
    <2>2. tx[p].done = {} /\ tx[p].again = {}
      BY <2>1 DEF Rows, IInv, SweepsOK, Procs
    <2>3. tx[p].failed = tx[p].refund
      BY DEF IInv, RefundsOK
    <2>4. Rows(p) = tx[p].failed
      BY <2>2 DEF Rows
    <2>5. /\ \A i \in Rows(p) : status[i] = "processing"
          /\ \A q \in Procs \ {p} : Rows(q) \cap Rows(p) = {}
      BY DEF IInv, RowsOK
    <2> QED
      BY <2>1, <2>2, <2>3, <2>4, <2>5
  <1>3. /\ UNCHANGED <<table, ledger, attempts>>
        /\ faults' \in 0 .. MaxFaults
        /\ UNCHANGED <<status, retry>>
    BY DEF IInv, TypeOK, table
  <1>4. p \in Workers => p \notin Sweepers
    BY JobQueueAssumption
  <1>5. CASE Hits(p, j) /\ tx' = [tx EXCEPT ![p] = hit]
    <2>1. hit \in TxType /\ tx'[p] = hit
      BY <1>1, <1>5 DEF TxType, IInv, TypeOK
    <2>2. Rows(p)' = Rows(p) \cup {j}
      BY <2>1, <1>1, <1>2 DEF Rows, TxType
    <2>3. LocalOK(p)'
      BY <2>1, <2>2, <1>1, <1>2, <1>3, <1>5, HitsFree DEF LocalOK, TxType
    <2>4. p \in Workers => WorkerOK(p)'
      BY <2>1, <2>2, <1>1, <1>2, <1>3, <1>5, HitsFree
      DEF WorkerOK, TxType, IInv, WorkersOK
    <2>5. p \in Sweepers => SweepOK(p)'
      BY <2>1, <1>1, <1>2, <1>4 DEF SweepOK, TxType
    <2>6. \A q \in Procs \ {p} : Rows(p)' \cap Rows(q) = {}
      BY <2>2, <1>2, <1>5, HitsFree
    <2>7. p \in Workers => hit.job \in {tx[p].job, NoJob}
      BY <1>1 DEF TxType
    <2> HIDE DEF hit
    <2> QED
      BY <2>1, <2>3, <2>4, <2>5, <2>6, <2>7, <1>3, <1>5, TxStep
  <1>6. CASE Misses(j) /\ tx' = [tx EXCEPT ![p] = miss]
    <2>1. miss \in TxType /\ tx'[p] = miss
      BY <1>1, <1>6 DEF TxType, IInv, TypeOK
    <2>2. Rows(p)' = Rows(p)
      BY <2>1, <1>1 DEF Rows, TxType
    <2>3. LocalOK(p)'
      BY <2>1, <2>2, <1>1, <1>2, <1>3 DEF LocalOK, TxType
    <2>4. p \in Workers => WorkerOK(p)'
      BY <2>1, <2>2, <1>1, <1>2, <1>3 DEF WorkerOK, TxType, IInv, WorkersOK
    <2>5. p \in Sweepers => SweepOK(p)'
      BY <2>1, <1>1, <1>2, <1>4 DEF SweepOK, TxType, IInv, SweepsOK
    <2>6. miss.job = tx[p].job /\ \A q \in Procs \ {p} : Rows(p)' \cap Rows(q) = {}
      BY <2>2, <1>1, <1>2 DEF TxType
    <2> HIDE DEF miss
    <2> QED
      BY <2>1, <2>3, <2>4, <2>5, <2>6, <1>3, <1>6, TxStep
  <1>7. tx' = [tx EXCEPT ![p] = hit] \/ tx' = [tx EXCEPT ![p] = miss]
    BY DEF MarkFailed
  <1> QED
    BY <1>5, <1>6, <1>7 DEF MarkFailed

\* A worker's terminal failure.
LEMMA GenerateFailInv ==
    ASSUME IInv, NEW w \in Workers, GenerateFail(w) PROVE IInv'
  <1>1. /\ tx[w].job \in Jobs /\ w \in Procs /\ w \notin Sweepers
        /\ tx[w].retry \in 0 .. MaxRetries /\ tx[w].pc = "generate"
    BY JobQueueAssumption DEF GenerateFail, IInv, WorkersOK, TypeOK, Procs
  <1>2. UNCHANGED <<table, ledger, faults, attempts>>
    BY DEF GenerateFail
  <1>3. CASE MarkFailed(w, tx[w].job, "rejected", {}, "commit")
    BY <1>1, <1>2, <1>3, MarkFailedInv DEF Reasons
  <1>4. CASE /\ ~RetriesLeft(w)
             /\ MarkFailed(w, tx[w].job, "max_retries_exhausted", {}, "commit")
    <2>1. tx[w].retry = MaxRetries
      BY <1>1, <1>4, JobQueueAssumption DEF RetriesLeft
    <2> QED
      BY <1>1, <1>2, <1>4, <2>1, MarkFailedInv DEF Reasons
  <1> QED
    BY <1>3, <1>4 DEF GenerateFail

\* The sweep fails the next job of its snapshot.
LEMMA SweepMarkInv ==
    ASSUME IInv, NEW s \in Sweepers, NEW j \in Jobs, SweepMark(s, j) PROVE IInv'
  <1>1. /\ s \in Procs /\ s \notin Workers /\ tx[s].pc = "sweep"
        /\ tx[s].stuck \ {j} \in SUBSET Jobs
    BY JobQueueAssumption DEF SweepMark, IInv, TypeOK, Procs
  <1> QED
    BY <1>1, MarkFailedInv DEF SweepMark, Reasons

\* terminalFail, its second statement: the refunds catch up with the failures.
LEMMA RefundInv ==
    ASSUME IInv, NEW p \in Procs, Refund(p) PROVE IInv'
  <1> DEFINE t == [tx[p] EXCEPT !.pc = IF p \in Workers THEN "commit" ELSE "sweep",
                                !.refund = @ \cup {tx[p].job}]
  <1>1. /\ tx[p] \in TxType /\ tx[p].pc = "refund" /\ tx[p].job \in tx[p].failed
        /\ tx[p].failed \subseteq Jobs
    BY DEF Refund, IInv, TypeOK, TxType, RefundsOK
  <1>2. t \in TxType /\ tx'[p] = t /\ tx' = [tx EXCEPT ![p] = t]
    BY <1>1 DEF Refund, TxType, IInv, TypeOK
  <1>3. /\ UNCHANGED <<table, ledger, attempts>>
        /\ faults' \in 0 .. MaxFaults
        /\ UNCHANGED <<status, retry>>
    BY DEF Refund, IInv, TypeOK, table
  <1>4. Rows(p)' = Rows(p)
    BY <1>1, <1>2 DEF Rows, TxType
  <1>5. LocalOK(p)'
    BY <1>1, <1>2, <1>3, <1>4 DEF LocalOK, TxType, IInv, RowsOK, RefundsOK
  <1>6. p \in Workers => WorkerOK(p)'
    BY <1>1, <1>2, <1>3, <1>4 DEF WorkerOK, TxType, IInv, WorkersOK
  <1>7. p \in Sweepers => SweepOK(p)'
    BY <1>1, <1>2, JobQueueAssumption DEF SweepOK, TxType, IInv, SweepsOK
  <1>8. t.job = tx[p].job /\ \A q \in Procs \ {p} : Rows(p)' \cap Rows(q) = {}
    BY <1>1, <1>4 DEF TxType, IInv, RowsOK
  <1> HIDE DEF t
  <1> QED
    BY <1>2, <1>3, <1>5, <1>6, <1>7, <1>8, TxStep

\* The sweep takes its snapshot: nothing is written yet.
LEMMA SweepBeginInv ==
    ASSUME IInv, NEW s \in Sweepers, NEW c \in Centers, SweepBegin(s, c) PROVE IInv'
  <1> DEFINE stuck == {j \in Jobs : CenterOf[j] = c /\ Stuck(j)}
             t == [NoTx EXCEPT !.pc = "sweep", !.stuck = stuck]
  <1>1. s \in Procs /\ s \notin Workers
    BY JobQueueAssumption DEF Procs
  <1>2. t \in TxType /\ tx'[s] = t /\ tx' = [tx EXCEPT ![s] = t]
    BY <1>1, NoTxType DEF SweepBegin, TxType, IInv, TypeOK
  <1>3. /\ UNCHANGED <<table, ledger, attempts>>
        /\ faults' \in 0 .. MaxFaults
    BY DEF SweepBegin, IInv, TypeOK
  <1>4. Rows(s)' = {} /\ LocalOK(s)' /\ SweepOK(s)'
    BY <1>2 DEF Rows, LocalOK, SweepOK, NoTx
  <1> HIDE DEF t
  <1> QED
    BY <1>1, <1>2, <1>3, <1>4, TxStep

\* A rollback, whatever its cause: the transaction is forgotten.
LEMMA ResetInv ==
    ASSUME IInv, NEW p \in Procs, tx' = [tx EXCEPT ![p] = NoTx],
           UNCHANGED <<table, ledger, attempts>>,
           faults' \in 0 .. MaxFaults
    PROVE  IInv'
  <1>1. tx'[p] = NoTx
    BY DEF IInv, TypeOK
  <1>2. Rows(p)' = {} /\ LocalOK(p)' /\ SweepOK(p)'
    BY <1>1 DEF Rows, LocalOK, SweepOK, NoTx
  <1>3. WorkerOK(p)' /\ NoTx.job = NoJob
    BY <1>1, <1>2 DEF WorkerOK, NoTx
  <1> QED
    BY <1>2, <1>3, TxStep, NoTxType

\* The three causes: a month a worker cannot roll over, a failure of the process or the database,
LEMMA RollbackInv == ASSUME IInv, NEW p \in Procs, Rollback(p) PROVE IInv'
  <1>1. faults' \in 0 .. MaxFaults
    BY JobQueueAssumption DEF Rollback, IInv, TypeOK
  <1> QED
    BY <1>1, ResetInv DEF Rollback, IInv, TypeOK

LEMMA RefundFailsInv == ASSUME IInv, NEW p \in Procs, RefundFails(p) PROVE IInv'
  BY ResetInv DEF RefundFails, IInv, TypeOK

\* and PostgreSQL's choice of a victim.
LEMMA DeadlockVictimInv == ASSUME IInv, NEW p \in Procs, DeadlockVictim(p) PROVE IInv'
  BY ResetInv DEF DeadlockVictim, IInv, TypeOK

-----------------------------------------------------------------------------
(* Steps that change the table or the ledger.                              *)

\* The clock only moves the timers.
LEMMA TickInv == IInv /\ Tick => IInv'
  <1> SUFFICES ASSUME IInv, Tick PROVE IInv'
    OBVIOUS
  <1>1. TypeOK'
    <2>1. wait' \in [Jobs -> Nat]
      BY DEF Tick, IInv, TypeOK
    <2>2. age' \in [Jobs -> 0 .. StuckTimeout + 1]
      BY JobQueueAssumption DEF Tick, IInv, TypeOK
    <2> QED
      BY <2>1, <2>2 DEF Tick, IInv, TypeOK, ledger
  <1>2. UNCHANGED <<status, retry, reason, ledger, tx, attempts>>
    BY DEF Tick
  <1>3. RowsOK' /\ RefundsOK'
    BY <1>2 DEF IInv, RowsOK, RefundsOK, Rows
  <1>4. WorkersOK' /\ SweepsOK' /\ OneDriver'
    BY <1>2 DEF IInv, WorkersOK, SweepsOK, OneDriver, Rows
  <1>5. /\ RefundIffFailed' /\ OneInflightPerSubmission'
        /\ AttemptsBounded' /\ ExhaustedClimbedTheLadder'
    BY <1>2 DEF IInv, RefundIffFailed, OneInflightPerSubmission, Inflight,
                AttemptsBounded, ExhaustedClimbedTheLadder, ledger
  <1> QED
    BY <1>1, <1>3, <1>4, <1>5 DEF IInv

\* The end of a month and its reset write nothing of the queue.
LEMMA MonthInv ==
    ASSUME IInv, NEW c \in Centers, MonthEnds(c) \/ Reset(c) PROVE IInv'
  <1>1. UNCHANGED <<table, deducted, refunded, tx, faults, attempts>>
    BY DEF MonthEnds, Reset
  <1>2. due' \subseteq Centers
    BY DEF MonthEnds, Reset, IInv, TypeOK
  <1>3. TypeOK'
    BY <1>1, <1>2 DEF IInv, TypeOK, table
  <1>4. RowsOK' /\ RefundsOK' /\ WorkersOK' /\ SweepsOK' /\ OneDriver'
    BY <1>1 DEF IInv, RowsOK, RefundsOK, WorkersOK, SweepsOK, OneDriver, Rows, table
  <1>5. /\ RefundIffFailed' /\ OneInflightPerSubmission'
        /\ AttemptsBounded' /\ ExhaustedClimbedTheLadder'
    BY <1>1 DEF IInv, RefundIffFailed, OneInflightPerSubmission, Inflight,
                AttemptsBounded, ExhaustedClimbedTheLadder, table
  <1> QED
    BY <1>3, <1>4, <1>5 DEF IInv

\* A new job is in nobody's hands, and alone in flight for its submission.
LEMMA EnqueueInv == ASSUME IInv, NEW j \in Jobs, Enqueue(j) PROVE IInv'
  <1>1. /\ status[j] = "absent"
        /\ status' = [status EXCEPT ![j] = "pending"]
        /\ deducted' = deducted \cup ({j} \cap Paid)
        /\ UNCHANGED <<retry, reason, refunded, tx, attempts>>
        /\ \A i \in Jobs : i # j => status'[i] = status[i]
        /\ status'[j] = "pending"
    BY DEF Enqueue, IInv, TypeOK
  <1>2. TypeOK'
    <2>1. Cardinality({k \in Jobs : status[k] # "absent"}) \in Nat
      BY JobQueueAssumption, FS_Subset, FS_CardinalityType
    <2> QED
      BY <2>1 DEF Enqueue, IInv, TypeOK, Status
  <1>3. \A p \in Procs : Rows(p)' = Rows(p) /\ j \notin Rows(p)
    BY <1>1 DEF Rows, IInv, RowsOK
  <1>4. RowsOK' /\ RefundsOK'
    BY <1>1, <1>3 DEF IInv, RowsOK, RefundsOK, TypeOK, Rows
  <1>5. WorkersOK'
    <2> SUFFICES ASSUME NEW w \in Workers, tx[w].pc # "idle"
                 PROVE  tx[w].job # j
      BY <1>1, <1>3 DEF IInv, WorkersOK, Procs
    <2> QED
      BY <1>1 DEF IInv, WorkersOK
  <1>6. SweepsOK' /\ OneDriver'
    BY <1>1 DEF IInv, SweepsOK, OneDriver
  <1>7. RefundIffFailed'
    BY <1>1 DEF IInv, RefundIffFailed
  <1>8. OneInflightPerSubmission'
    BY <1>1 DEF Enqueue, Conflicts, IInv, OneInflightPerSubmission, Inflight
  <1>9. AttemptsBounded' /\ ExhaustedClimbedTheLadder'
    BY <1>1 DEF IInv, AttemptsBounded, ExhaustedClimbedTheLadder
  <1> QED
    BY <1>2, <1>4, <1>5, <1>6, <1>7, <1>8, <1>9 DEF IInv

\* A claimed job was pending, so that no worker had it.
LEMMA ClaimInv ==
    ASSUME IInv, NEW w \in Workers, NEW j \in Jobs, Claim(w, j) PROVE IInv'
  <1> DEFINE t == [NoTx EXCEPT !.pc = "generate", !.job = j, !.retry = retry[j]]
  <1>1. /\ status[j] = "pending" /\ tx[w].pc = "idle"
        /\ status' = [status EXCEPT ![j] = "processing"]
        /\ attempts' = [attempts EXCEPT ![j] = @ + 1]
        /\ tx' = [tx EXCEPT ![w] = t]
        /\ UNCHANGED <<retry, reason, deducted, refunded>>
    BY DEF Claim, Ready, ledger
  <1>2. /\ t \in TxType
        /\ t.pc = "generate" /\ t.job = j /\ t.retry = retry[j]
        /\ t.done = {} /\ t.again = {} /\ t.failed = {} /\ t.refund = {}
        /\ t.why = "none"
    BY NoTxType DEF TxType, NoTx, IInv, TypeOK
  <1> HIDE DEF t
  <1>3. w \in Procs /\ w \notin Sweepers
    BY JobQueueAssumption DEF Procs
  <1>4. /\ tx'[w] = t /\ \A q \in Procs : q # w => tx'[q] = tx[q]
        /\ status'[j] = "processing"
        /\ \A i \in Jobs : i # j => status'[i] = status[i]
    BY <1>1, <1>3 DEF IInv, TypeOK
  <1>5. TypeOK'
    <2>1. /\ status' \in [Jobs -> Status] /\ age' \in [Jobs -> 0 .. StuckTimeout + 1]
          /\ attempts' \in [Jobs -> Nat]
      BY <1>1, JobQueueAssumption DEF Claim, IInv, TypeOK, Status
    <2>2. tx' \in [Procs -> TxType]
      BY <1>1, <1>2 DEF IInv, TypeOK, TxType
    <2> QED
      BY <2>1, <2>2 DEF Claim, IInv, TypeOK, TxType, ledger
  <1>6. /\ Rows(w)' = {} /\ \A q \in Procs : q # w => Rows(q)' = Rows(q)
        /\ \A q \in Procs : j \notin Rows(q)
    <2>1. Rows(w)' = {}
      BY <1>2, <1>4 DEF Rows
    <2>2. \A q \in Procs : q # w => Rows(q)' = Rows(q)
      BY <1>4 DEF Rows
    <2>3. \A q \in Procs : j \notin Rows(q)
      BY <1>1 DEF IInv, RowsOK
    <2> QED
      BY <2>1, <2>2, <2>3
  <1>7. RowsOK'
    <2>1. \A q \in Procs : Rows(q) \subseteq Jobs
      BY DEF Rows, IInv, TypeOK
    <2> QED
      BY <1>2, <1>4, <1>6, <2>1 DEF IInv, RowsOK
  <1>8. RefundsOK'
    BY <1>2, <1>4 DEF IInv, RefundsOK
  <1>9. \A v \in Workers : tx[v].pc # "idle" => tx[v].job # j /\ tx[v].job \in Jobs
    BY <1>1 DEF IInv, WorkersOK
  <1>10. WorkersOK'
    <2> SUFFICES ASSUME NEW v \in Workers PROVE WorkerOK(v)'
      BY DEF WorkersOK, WorkerOK
    <2>1. CASE v = w
      BY <2>1, <1>1, <1>2, <1>4, <1>6 DEF WorkerOK
    <2>2. CASE v # w
      <3>1. WorkerOK(v) /\ v \in Procs /\ tx'[v] = tx[v] /\ Rows(v)' = Rows(v)
        BY <2>2, <1>4, <1>6 DEF WorkerOK, IInv, WorkersOK, Procs
      <3> QED
        BY <3>1, <1>1, <1>4, <1>9 DEF WorkerOK
    <2> QED
      BY <2>1, <2>2
  <1>11. SweepsOK'
    BY <1>3, <1>4 DEF IInv, SweepsOK, Procs
  <1>12. OneDriver'
    <2>1. \A v \in Workers : v # w => tx'[v].job # j
      BY <1>4, <1>9, JobQueueAssumption DEF IInv, WorkersOK, NoTx, Procs
    <2>2. tx'[w].job = j
      BY <1>2, <1>4
    <2> QED
      BY <2>1, <2>2, <1>4 DEF IInv, OneDriver, Procs
  <1>13. RefundIffFailed' /\ OneInflightPerSubmission'
    BY <1>1, <1>4 DEF IInv, RefundIffFailed, OneInflightPerSubmission, Inflight
  <1>14. AttemptsBounded' /\ ExhaustedClimbedTheLadder'
    BY <1>1, <1>4 DEF IInv, TypeOK, AttemptsBounded, ExhaustedClimbedTheLadder
  <1> QED
    BY <1>5, <1>7, <1>8, <1>10, <1>11, <1>12, <1>13, <1>14 DEF IInv

\* The outcome of a transaction reaches the table.  A committed row was
\* 'processing' until now, so no settled job changes.
LEMMA CommitInv == ASSUME IInv, NEW p \in Procs, Commit(p) PROVE IInv'
  <1> DEFINE d == tx[p].done  a == tx[p].again  f == tx[p].failed
  <1>1. /\ tx[p] \in TxType /\ d \subseteq Jobs /\ a \subseteq Jobs /\ f \subseteq Jobs
        /\ tx[p].pc \in {"commit", "sweep"}
    BY DEF Commit, CanCommit, IInv, TypeOK, TxType
  <1>2. /\ tx' = [tx EXCEPT ![p] = NoTx]
        /\ tx'[p] = NoTx
        /\ \A q \in Procs : q # p => tx'[q] = tx[q]
    BY DEF Commit, IInv, TypeOK
  <1>3. /\ Rows(p) = d \cup a \cup f
        /\ d \cap f = {} /\ d \cap a = {} /\ f \cap a = {}
        /\ \A j \in Rows(p) : status[j] = "processing"
        /\ \A q \in Procs : q # p => Rows(q) \cap Rows(p) = {}
        /\ tx[p].refund = f
    <2>1. Rows(p) = d \cup a \cup f
      BY DEF Rows
    <2>2. /\ d \cap f = {} /\ d \cap a = {} /\ f \cap a = {}
          /\ \A j \in Rows(p) : status[j] = "processing"
          /\ \A q \in Procs : q # p => Rows(q) \cap Rows(p) = {}
      BY DEF IInv, RowsOK
    <2>3. tx[p].refund = f
      BY <1>1 DEF IInv, RefundsOK
    <2> QED
      BY <2>1, <2>2, <2>3
  <1>4. \A j \in Jobs : /\ j \in d => status'[j] = "complete"
                        /\ j \in f => status'[j] = "failed"
                        /\ j \in a => status'[j] = "pending"
                        /\ j \notin Rows(p) => status'[j] = status[j]
    BY <1>3 DEF Commit
  <1>5. \A j \in Jobs : retry'[j] = IF j \in a THEN retry[j] + 1 ELSE retry[j]
    BY DEF Commit, RetryAfter
  <1>6. \A j \in Jobs : /\ j \in d => reason'[j] = "none"
                        /\ j \in f \cup a => reason'[j] = tx[p].why
                        /\ j \notin Rows(p) => reason'[j] = reason[j]
    BY <1>3 DEF Commit
  <1>7. /\ refunded' = refunded \cup (f \cap deducted)
        /\ UNCHANGED <<deducted, due, attempts, born, faults>>
    BY <1>3 DEF Commit, Refunds
  <1>8. /\ p \in Sweepers => d = {} /\ a = {} /\ tx[p].why # "max_retries_exhausted"
        /\ p \in Workers =>
              /\ tx[p].job \in Jobs /\ Rows(p) \subseteq {tx[p].job}
              /\ status[tx[p].job] = "processing" => retry[tx[p].job] = tx[p].retry
              /\ a # {} => tx[p].retry < MaxRetries
              /\ tx[p].why = "max_retries_exhausted" => tx[p].retry = MaxRetries /\ a = {}
    BY <1>1 DEF IInv, WorkersOK, SweepsOK
  <1>9. \A j \in a : retry[j] < MaxRetries
    BY <1>3, <1>8 DEF Procs
  <1> HIDE DEF d, a, f
  <1>10. TypeOK'
    <2>1. status' \in [Jobs -> Status] /\ reason' \in [Jobs -> Reasons]
      <3>1. status' = [j \in Jobs |-> status'[j]] /\ reason' = [j \in Jobs |-> reason'[j]]
        BY DEF Commit
      <3>2. \A j \in Jobs : status'[j] \in Status /\ reason'[j] \in Reasons
        BY <1>1, <1>3, <1>4, <1>6 DEF IInv, TypeOK, Status, Reasons, TxType
      <3> QED
        BY <3>1, <3>2
    <2>2. retry' \in [Jobs -> 0 .. MaxRetries]
      <3>1. retry' = [j \in Jobs |-> retry'[j]]
        BY DEF Commit
      <3>2. \A j \in Jobs : retry'[j] \in 0 .. MaxRetries
        <4> SUFFICES ASSUME NEW j \in Jobs PROVE retry'[j] \in 0 .. MaxRetries
          OBVIOUS
        <4>1. retry[j] \in 0 .. MaxRetries
          BY DEF IInv, TypeOK
        <4> QED
          BY <4>1, <1>5, <1>9, JobQueueAssumption
      <3> QED
        BY <3>1, <3>2
    <2>3. wait' \in [Jobs -> Nat]
      <3>1. tx[p].retry \in Nat
        BY <1>1, JobQueueAssumption DEF TxType
      <3>2. Delay(tx[p].retry) \in Nat
        BY <3>1, DelayIsNat
      <3> QED
        BY <3>2 DEF Commit, IInv, TypeOK
    <2>4. age' \in [Jobs -> 0 .. StuckTimeout + 1]
      BY JobQueueAssumption DEF Commit, IInv, TypeOK
    <2>5. tx' \in [Procs -> TxType]
      BY <1>2, NoTxType DEF IInv, TypeOK, TxType
    <2>6. refunded' \subseteq Jobs
      BY <1>7 DEF IInv, TypeOK
    <2> QED
      BY <1>7, <2>1, <2>2, <2>3, <2>4, <2>5, <2>6 DEF IInv, TypeOK, TxType
  <1>11. /\ Rows(p)' = {}
         /\ \A q \in Procs : q # p => Rows(q)' = Rows(q)
    BY <1>2 DEF Rows, NoTx
  <1>12. \A q \in Procs : Rows(q) \subseteq Jobs
    BY DEF Rows, IInv, TypeOK
  <1>13. RowsOK'
    <2>1. \A q \in Procs : \A j \in Rows(q)' : status'[j] = "processing"
      BY <1>3, <1>4, <1>11, <1>12 DEF IInv, RowsOK
    <2>2. \A q, r \in Procs : q # r => Rows(q)' \cap Rows(r)' = {}
      BY <1>11 DEF IInv, RowsOK
    <2>3. \A q \in Procs : /\ tx'[q].done \cap tx'[q].failed = {}
                           /\ tx'[q].done \cap tx'[q].again = {}
                           /\ tx'[q].failed \cap tx'[q].again = {}
      BY <1>2 DEF IInv, RowsOK, NoTx
    <2> QED
      BY <2>1, <2>2, <2>3 DEF RowsOK
  <1>14. RefundsOK'
    BY <1>2 DEF IInv, RefundsOK, NoTx
  <1>15. WorkersOK'
    <2> SUFFICES ASSUME NEW w \in Workers PROVE WorkerOK(w)'
      BY DEF WorkersOK, WorkerOK
    <2>1. CASE w = p
      BY <2>1, <1>2, <1>11 DEF WorkerOK, NoTx
    <2>2. CASE w # p
      <3>1. WorkerOK(w) /\ w \in Procs /\ tx'[w] = tx[w] /\ Rows(w)' = Rows(w)
        BY <2>2, <1>2, <1>11 DEF WorkerOK, IInv, WorkersOK, Procs
      <3>2. ASSUME tx[w].pc # "idle" PROVE tx[w].job \notin a
        <4>1. CASE p \in Workers
          BY <3>2, <4>1, <2>2, <1>3, <1>8 DEF IInv, OneDriver
        <4>2. CASE p \in Sweepers
          BY <4>2, <1>8
        <4> QED
          BY <4>1, <4>2 DEF Procs
      <3>3. ASSUME tx[w].pc # "idle"
            PROVE  /\ tx'[w].job \in Jobs
                   /\ status'[tx'[w].job] \notin {"absent", "pending"}
                   /\ status'[tx'[w].job] = "processing"
                         => retry'[tx'[w].job] = tx'[w].retry
        BY <3>1, <3>2, <3>3, <1>3, <1>4, <1>5 DEF WorkerOK
      <3> QED
        BY <3>1, <3>3 DEF WorkerOK
    <2> QED
      BY <2>1, <2>2
  <1>16. SweepsOK'
    <2> SUFFICES ASSUME NEW s \in Sweepers PROVE SweepOK(s)'
      BY DEF SweepsOK, SweepOK
    <2>1. CASE s = p
      BY <2>1, <1>2 DEF SweepOK, NoTx
    <2>2. CASE s # p
      BY <2>2, <1>2 DEF IInv, SweepsOK, SweepOK, Procs
    <2> QED
      BY <2>1, <2>2
  <1>17. OneDriver'
    <2> SUFFICES ASSUME NEW v \in Workers, NEW w \in Workers, v # w, tx'[v].pc # "idle"
                 PROVE  tx'[v].job # tx'[w].job
      BY DEF OneDriver
    <2>1. v # p
      BY <1>2 DEF NoTx
    <2>2. CASE w = p
      <3>1. tx'[v].job \in Jobs
        BY <1>15 DEF WorkersOK
      <3> QED
        BY <2>2, <3>1, <1>2, JobQueueAssumption DEF NoTx
    <2>3. CASE w # p
      BY <2>1, <2>3, <1>2 DEF IInv, OneDriver, Procs
    <2> QED
      BY <2>2, <2>3
  <1>18. RefundIffFailed'
    <2> SUFFICES ASSUME NEW j \in Jobs
                 PROVE  j \in refunded' <=> (j \in deducted' /\ status'[j] = "failed")
      BY DEF RefundIffFailed
    <2>1. j \in refunded <=> (j \in deducted /\ status[j] = "failed")
      BY DEF IInv, RefundIffFailed
    <2> QED
      BY <2>1, <1>3, <1>4, <1>7
  <1>19. OneInflightPerSubmission'
    <2>1. \A j \in Jobs : Inflight(j)' => Inflight(j)
      BY <1>3, <1>4 DEF Inflight
    <2> QED
      BY <2>1 DEF IInv, OneInflightPerSubmission
  <1>20. AttemptsBounded'
    <2> SUFFICES ASSUME NEW j \in Jobs
                 PROVE  attempts'[j] = retry'[j] +
                           (IF status'[j] \in {"absent", "pending"} THEN 0 ELSE 1)
      BY DEF AttemptsBounded
    <2>1. /\ attempts[j] = retry[j] +
                 (IF status[j] \in {"absent", "pending"} THEN 0 ELSE 1)
          /\ retry[j] \in Nat
      BY JobQueueAssumption DEF IInv, AttemptsBounded, TypeOK
    <2> QED
      BY <2>1, <1>3, <1>4, <1>5, <1>7
  <1>21. ExhaustedClimbedTheLadder'
    <2> SUFFICES ASSUME NEW j \in Jobs, reason'[j] = "max_retries_exhausted"
                 PROVE  status'[j] = "failed" /\ attempts'[j] = MaxRetries + 1
      BY DEF ExhaustedClimbedTheLadder
    <2>1. CASE j \notin Rows(p)
      BY <2>1, <1>4, <1>6, <1>7 DEF IInv, ExhaustedClimbedTheLadder
    <2>2. CASE j \in Rows(p)
      <3>1. tx[p].why = "max_retries_exhausted" /\ j \notin d
        BY <2>2, <1>3, <1>6
      <3>2. p \in Workers /\ a = {} /\ tx[p].retry = MaxRetries /\ j = tx[p].job
        BY <3>1, <2>2, <1>8 DEF Procs
      <3>3. j \in f /\ retry[j] = MaxRetries /\ status[j] = "processing"
        BY <2>2, <3>1, <3>2, <1>3, <1>8
      <3> QED
        BY <3>3, <1>4, <1>7, JobQueueAssumption DEF IInv, AttemptsBounded
    <2> QED
      BY <2>1, <2>2
  <1> QED
    BY <1>10, <1>13, <1>14, <1>15, <1>16, <1>17, <1>18, <1>19, <1>20, <1>21 DEF IInv

-----------------------------------------------------------------------------
(* The theorems.                                                           *)

\* Every step keeps the inductive invariant, and so does a stutter.
LEMMA StepInv == IInv /\ [Next]_vars => IInv'
  <1> SUFFICES ASSUME IInv, [Next]_vars PROVE IInv'
    OBVIOUS
  <1>1. ASSUME NEW j \in Jobs, Enqueue(j) PROVE IInv'
    BY <1>1, EnqueueInv
  <1>2. ASSUME NEW w \in Workers, WorkerStep(w) PROVE IInv'
    BY <1>2, ClaimInv, GenerateOkInv, GenerateRetryInv, GenerateFailInv
       DEF WorkerStep
  <1>3. ASSUME NEW s \in Sweepers, SweepStep(s) PROVE IInv'
    BY <1>3, SweepBeginInv, SweepMarkInv DEF SweepStep
  <1>4. ASSUME NEW p \in Procs,
               \/ Refund(p) \/ RefundFails(p)
               \/ Commit(p) \/ Rollback(p) \/ DeadlockVictim(p)
        PROVE  IInv'
    <2>1. CASE Refund(p)
      BY <2>1, RefundInv
    <2>2. CASE Commit(p)
      BY <2>2, CommitInv
    <2>3. CASE RefundFails(p) \/ Rollback(p) \/ DeadlockVictim(p)
      BY <2>3, RefundFailsInv, RollbackInv, DeadlockVictimInv
    <2> QED
      BY <1>4, <2>1, <2>2, <2>3
  <1>5. CASE Tick
    BY <1>5, TickInv
  <1>6. ASSUME NEW c \in Centers, MonthEnds(c) \/ Reset(c) PROVE IInv'
    BY <1>6, MonthInv
  <1>7. CASE UNCHANGED vars
    BY <1>7 DEF vars, table, ledger, IInv, TypeOK, RowsOK, RefundsOK, Rows,
       WorkersOK, SweepsOK, OneDriver, RefundIffFailed, OneInflightPerSubmission,
       Inflight, AttemptsBounded, ExhaustedClimbedTheLadder
  <1> QED
    BY <1>1, <1>2, <1>3, <1>4, <1>5, <1>6, <1>7 DEF Next

\* The inductive invariant holds in every reachable state.
THEOREM Inductive == Spec => []IInv
  BY InitOK, StepInv, PTL DEF Spec

\* Every reachable state is well-formed.
THEOREM TypeCorrect == Spec => []TypeOK
  <1>1. IInv => TypeOK
    BY DEF IInv
  <1> QED
    BY <1>1, Inductive, PTL

\* A charged job has its credit back if and only if it failed
\* (terminalFail, refundCredit), whatever raced or was cut.
THEOREM CreditConserved == Spec => []RefundIffFailed
  <1>1. IInv => RefundIffFailed
    BY DEF IInv
  <1> QED
    BY <1>1, Inductive, PTL

\* Never two jobs in flight, and two charges, for one submission
\* (uq_jobs_ai_grade_inflight).
THEOREM InflightUnique == Spec => []OneInflightPerSubmission
  <1>1. IInv => OneInflightPerSubmission
    BY DEF IInv
  <1> QED
    BY <1>1, Inductive, PTL

\* Never two workers on one job (claimJob), although nothing locks its row.
THEOREM DriverUnique == Spec => []OneDriver
  <1>1. IInv => OneDriver
    BY DEF IInv
  <1> QED
    BY <1>1, Inductive, PTL

\* A job was claimed once more than it was rescheduled, once it has been claimed
\* at all (claimJob, RescheduleJob).
THEOREM LadderRespected == Spec => []AttemptsBounded
  <1>1. IInv => AttemptsBounded
    BY DEF IInv
  <1> QED
    BY <1>1, Inductive, PTL

\* "Exhausted" is only said of a failed job that climbed the whole ladder
\* (handleFailure, exhaustionReason).
THEOREM ExhaustionExplained == Spec => []ExhaustedClimbedTheLadder
  <1>1. IInv => ExhaustedClimbedTheLadder
    BY DEF IInv
  <1> QED
    BY <1>1, Inductive, PTL

\* The outcome of a settled job never changes (the guards on status of
\* MarkJobComplete, MarkJobFailedTerminal and RescheduleJob).
THEOREM OutcomeFinal == Spec => TerminalIsFinal
  <1> DEFINE Final == \A j \in Jobs : status[j] \in {"complete", "failed"} =>
                          status'[j] = status[j] /\ reason'[j] = reason[j]
  <1>1. ASSUME IInv, Next PROVE Final
    <2>1. ASSUME NEW j \in Jobs, Enqueue(j) PROVE Final
      BY <1>1, <2>1 DEF Enqueue, IInv, TypeOK
    <2>2. ASSUME NEW w \in Workers, WorkerStep(w) PROVE Final
      <3>1. ASSUME NEW j \in Jobs, Claim(w, j) PROVE Final
        BY <1>1, <3>1 DEF Claim, Ready, IInv, TypeOK
      <3>2. CASE GenerateOk(w) \/ GenerateRetry(w) \/ GenerateFail(w)
        BY <3>2 DEF GenerateOk, GenerateRetry, GenerateFail, table
      <3> QED
        BY <2>2, <3>1, <3>2 DEF WorkerStep
    <2>3. ASSUME NEW s \in Sweepers, SweepStep(s) PROVE Final
      BY <2>3 DEF SweepStep, SweepBegin, SweepMark, table
    <2>4. ASSUME NEW p \in Procs, Commit(p) PROVE Final
      <3>1. \A j \in Rows(p) : status[j] = "processing"
        BY <1>1 DEF IInv, RowsOK
      <3> QED
        BY <3>1, <2>4 DEF Commit, Rows
    <2>5. ASSUME NEW p \in Procs,
                 Refund(p) \/ RefundFails(p) \/ Rollback(p) \/ DeadlockVictim(p)
          PROVE  Final
      BY <2>5 DEF Refund, RefundFails, Rollback, DeadlockVictim, table
    <2>6. CASE Tick
      BY <2>6 DEF Tick
    <2>7. ASSUME NEW c \in Centers, MonthEnds(c) \/ Reset(c) PROVE Final
      BY <2>7 DEF MonthEnds, Reset, table
    <2> QED
      BY <1>1, <2>1, <2>2, <2>3, <2>4, <2>5, <2>6, <2>7 DEF Next
  <1>2. IInv /\ [Next]_vars => [Final]_vars
    BY <1>1
  <1> QED
    BY <1>2, Inductive, PTL DEF Spec, TerminalIsFinal

-----------------------------------------------------------------------------
(* The refinement of PaidJob.                                              *)

\* PaidState is a function of the statuses, and tells no more than four of them.
LEMMA PaidOf ==
  ASSUME NEW j \in Jobs
  PROVE  /\ status[j] = "absent" => PaidState[j] = "none"
         /\ status[j] = "complete" => PaidState[j] = "delivered"
         /\ status[j] = "failed" => PaidState[j] = "failed"
         /\ Inflight(j) => PaidState[j] = "inflight"
         /\ status[j] \in Status /\ PaidState[j] = "inflight" => Inflight(j)
  BY DEF PaidState, Inflight, Status

\* The same of the next state.
LEMMA PaidNext ==
  ASSUME NEW j \in Jobs
  PROVE  /\ status'[j] = "absent" => PaidState'[j] = "none"
         /\ status'[j] = "complete" => PaidState'[j] = "delivered"
         /\ status'[j] = "failed" => PaidState'[j] = "failed"
         /\ Inflight(j)' => PaidState'[j] = "inflight"
         /\ status'[j] = status[j] => PaidState'[j] = PaidState[j]
  BY DEF PaidState, Inflight

\* What is not written is not seen.
LEMMA Unseen ==
  ASSUME UNCHANGED <<status, reason, attempts, deducted, refunded>>
  PROVE  UNCHANGED Promise!vars
  BY DEF Promise!vars, PaidState

\* An enqueue orders the job and takes its credit.
LEMMA EnqueueOrders ==
  ASSUME IInv, NEW j \in Jobs, Enqueue(j)
  PROVE  Promise!Order(j)
  <1>1. /\ status[j] = "absent" /\ ~Conflicts(j)
        /\ status' = [status EXCEPT ![j] = "pending"]
        /\ deducted' = deducted \cup ({j} \cap Paid)
        /\ UNCHANGED <<reason, refunded, attempts>>
        /\ status \in [Jobs -> Status]
    BY DEF Enqueue, IInv, TypeOK
  <1>2. PaidState[j] = "none"
    BY <1>1, PaidOf
  <1>3. \A k \in Jobs : SubOf[k] = SubOf[j] /\ SubOf[j] # NoSub => PaidState[k] # "inflight"
    <2> SUFFICES ASSUME NEW k \in Jobs, SubOf[k] = SubOf[j], SubOf[j] # NoSub
                 PROVE  PaidState[k] # "inflight"
      OBVIOUS
    <2>1. ~Inflight(k)
      BY <1>1 DEF Conflicts
    <2> QED
      BY <2>1, <1>1, PaidOf
  <1>4. PaidState' = [PaidState EXCEPT ![j] = "inflight"]
    <2>1. \A k \in Jobs : k # j => PaidState'[k] = PaidState[k]
      BY <1>1, PaidNext
    <2>2. PaidState'[j] = "inflight"
      BY <1>1, PaidNext DEF Inflight
    <2> QED
      BY <2>1, <2>2 DEF PaidState
  <1> QED
    BY <1>1, <1>2, <1>3, <1>4 DEF Promise!Order

\* A claim is a call of the provider, and one the ladder still allows.
LEMMA ClaimCalls ==
  ASSUME IInv, NEW w \in Workers, NEW j \in Jobs, Claim(w, j)
  PROVE  Promise!Call(j)
  <1>1. /\ status[j] = "pending"
        /\ status' = [status EXCEPT ![j] = "processing"]
        /\ attempts' = [attempts EXCEPT ![j] = @ + 1]
        /\ UNCHANGED <<reason, ledger>>
        /\ status \in [Jobs -> Status] /\ retry[j] \in 0 .. MaxRetries
    BY DEF Claim, Ready, IInv, TypeOK
  <1>2. PaidState[j] = "inflight"
    BY <1>1, PaidOf DEF Inflight
  <1>3. PaidState' = PaidState
    <2>1. \A k \in Jobs : k # j => PaidState'[k] = PaidState[k]
      BY <1>1, PaidNext
    <2>2. PaidState'[j] = "inflight"
      BY <1>1, PaidNext DEF Inflight
    <2> QED
      BY <2>1, <2>2, <1>2 DEF PaidState
  <1>4. attempts[j] <= MaxRetries
    BY <1>1, JobQueueAssumption DEF IInv, AttemptsBounded
  <1> QED
    BY <1>1, <1>2, <1>3, <1>4 DEF Promise!Call, ledger

\* A commit delivers one job, or gives up those it failed; a retry is not seen.
LEMMA CommitSettles ==
  ASSUME IInv, NEW p \in Procs, Commit(p)
  PROVE  \/ \E j \in Jobs : Promise!Deliver(j)
         \/ \E S \in SUBSET Jobs : \E T \in SUBSET S : Promise!GiveUp(S, T)
  <1> DEFINE d == tx[p].done  a == tx[p].again  f == tx[p].failed
             Exhausted == {j \in Jobs : reason[j] = "max_retries_exhausted"}
  <1>1. /\ d \subseteq Jobs /\ a \subseteq Jobs /\ f \subseteq Jobs
        /\ Rows(p) = d \cup a \cup f
        /\ d \cap f = {} /\ d \cap a = {} /\ f \cap a = {}
        /\ \A j \in Rows(p) : status[j] = "processing"
    <2>1. d \subseteq Jobs /\ a \subseteq Jobs /\ f \subseteq Jobs
      BY DEF IInv, TypeOK
    <2>2. Rows(p) = d \cup a \cup f
      BY DEF Rows
    <2>3. /\ d \cap f = {} /\ d \cap a = {} /\ f \cap a = {}
          /\ \A j \in Rows(p) : status[j] = "processing"
      BY DEF IInv, RowsOK
    <2> QED
      BY <2>1, <2>2, <2>3
  <1>2. tx[p].refund = f
    BY DEF IInv, RefundsOK, Commit, CanCommit
  <1>3. \A j \in Jobs : /\ j \in d => status'[j] = "complete" /\ reason'[j] = "none"
                        /\ j \in f => status'[j] = "failed" /\ reason'[j] = tx[p].why
                        /\ j \in a => status'[j] = "pending" /\ reason'[j] = tx[p].why
                        /\ j \notin Rows(p) => status'[j] = status[j] /\ reason'[j] = reason[j]
    BY <1>1 DEF Commit
  <1>4. /\ refunded' = refunded \cup (f \cap deducted)
        /\ UNCHANGED <<deducted, attempts>>
    BY <1>2 DEF Commit, Refunds
  <1>5. /\ d # {} => \E j \in Jobs : Rows(p) = {j} /\ d = {j}
        /\ a # {} => tx[p].why # "max_retries_exhausted"
    <2>1. CASE p \in Workers
      <3>1. Rows(p) \subseteq {tx[p].job}
        BY <2>1 DEF IInv, WorkersOK
      <3>2. tx[p].why = "max_retries_exhausted" => a = {}
        BY <2>1 DEF IInv, WorkersOK
      <3> QED
        BY <3>1, <3>2, <1>1
    <2>2. CASE p \in Sweepers
      BY <2>2 DEF IInv, SweepsOK
    <2> QED
      BY <2>1, <2>2 DEF Procs
  <1>6. \A j \in Rows(p) : /\ j \in Jobs /\ status[j] = "processing"
                           /\ PaidState[j] = "inflight"
                           /\ attempts[j] # 0
                           /\ reason[j] # "max_retries_exhausted"
    <2> SUFFICES ASSUME NEW j \in Rows(p)
                 PROVE  /\ j \in Jobs /\ status[j] = "processing"
                        /\ PaidState[j] = "inflight"
                        /\ attempts[j] # 0
                        /\ reason[j] # "max_retries_exhausted"
      OBVIOUS
    <2>1. j \in Jobs /\ status[j] = "processing"
      BY <1>1
    <2>2. PaidState[j] = "inflight"
      BY <2>1, PaidOf DEF Inflight
    <2>3. attempts[j] = retry[j] + 1 /\ retry[j] \in 0 .. MaxRetries
      BY <2>1 DEF IInv, AttemptsBounded, TypeOK
    <2>4. reason[j] # "max_retries_exhausted"
      BY <2>1 DEF IInv, ExhaustedClimbedTheLadder
    <2> QED
      BY <2>1, <2>2, <2>3, <2>4, JobQueueAssumption
  <1>7. ExhaustedClimbedTheLadder'
    BY CommitInv DEF IInv
  <1> HIDE DEF d, a, f
  <1>8. \A j \in Jobs : /\ j \in d => PaidState'[j] = "delivered"
                        /\ j \in f => PaidState'[j] = "failed"
                        /\ j \notin d \cup f => PaidState'[j] = PaidState[j]
    <2> SUFFICES ASSUME NEW j \in Jobs
                 PROVE  /\ j \in d => PaidState'[j] = "delivered"
                        /\ j \in f => PaidState'[j] = "failed"
                        /\ j \notin d \cup f => PaidState'[j] = PaidState[j]
      OBVIOUS
    <2>1. j \in a => PaidState'[j] = "inflight" /\ PaidState[j] = "inflight"
      BY <1>1, <1>3, <1>6, PaidNext DEF Inflight
    <2> QED
      BY <2>1, <1>1, <1>3, PaidNext
  <1>9. CASE d # {}
    <2>1. PICK j \in Jobs : Rows(p) = {j} /\ d = {j}
      BY <1>5, <1>9
    <2>2. f = {}
      BY <2>1, <1>1
    <2>3. PaidState' = [PaidState EXCEPT ![j] = "delivered"]
      BY <2>1, <2>2, <1>8 DEF PaidState
    <2>4. Exhausted' = Exhausted
      <3>1. \A k \in Jobs : reason'[k] = "max_retries_exhausted"
                               <=> reason[k] = "max_retries_exhausted"
        BY <2>1, <1>3, <1>6
      <3> QED
        BY <3>1
    <2>5. Promise!Deliver(j)
      BY <2>1, <2>2, <2>3, <2>4, <1>4, <1>6 DEF Promise!Deliver
    <2> QED
      BY <2>5
  <1>10. CASE d = {}
    <2> DEFINE T == {j \in f : tx[p].why = "max_retries_exhausted"}
    <2>1. \A j \in f : PaidState[j] = "inflight" /\ attempts[j] # 0
      BY <1>1, <1>6
    <2>2. \A j \in T : attempts[j] = MaxRetries + 1
      BY <1>1, <1>3, <1>4, <1>7 DEF ExhaustedClimbedTheLadder
    <2>3. PaidState' = [j \in Jobs |-> IF j \in f THEN "failed" ELSE PaidState[j]]
      BY <1>8, <1>10 DEF PaidState
    <2>4. Exhausted' = Exhausted \cup T
      <3>1. \A k \in Jobs : reason'[k] = "max_retries_exhausted"
                               <=> reason[k] = "max_retries_exhausted" \/ k \in T
        <4> SUFFICES ASSUME NEW k \in Jobs
                     PROVE  reason'[k] = "max_retries_exhausted"
                               <=> reason[k] = "max_retries_exhausted" \/ k \in T
          OBVIOUS
        <4>1. CASE k \in f
          BY <4>1, <1>1, <1>3, <1>6
        <4>2. CASE k \in a
          BY <4>2, <1>1, <1>3, <1>5, <1>6
        <4>3. CASE k \notin Rows(p)
          BY <4>3, <1>1, <1>3
        <4> QED
          BY <4>1, <4>2, <4>3, <1>1, <1>10
      <3>2. T \subseteq Jobs
        BY <1>1
      <3> QED
        BY <3>1, <3>2
    <2>5. PICK S \in SUBSET Jobs : S = f
      BY <1>1
    <2>6. PICK R \in SUBSET S : R = T
      BY <2>5
    <2>7. Promise!GiveUp(S, R)
      BY <2>1, <2>2, <2>3, <2>4, <2>5, <2>6, <1>4 DEF Promise!GiveUp
    <2> QED
      BY <2>7
  <1> QED
    BY <1>9, <1>10

\* Every step is one of the owner's, or none at all.
LEMMA PromiseStep ==
  ASSUME IInv, [Next]_vars
  PROVE  [Promise!Next]_(Promise!vars)
  <1> DEFINE Quiet == UNCHANGED <<status, reason, attempts, deducted, refunded>>
  <1>1. ASSUME NEW j \in Jobs, Enqueue(j) PROVE Promise!Next
    BY <1>1, EnqueueOrders DEF Promise!Next
  <1>2. ASSUME NEW w \in Workers, WorkerStep(w) PROVE Promise!Next \/ Quiet
    <2>1. ASSUME NEW j \in Jobs, Claim(w, j) PROVE Promise!Next
      BY <2>1, ClaimCalls DEF Promise!Next
    <2>2. CASE GenerateOk(w) \/ GenerateRetry(w) \/ GenerateFail(w)
      BY <2>2 DEF GenerateOk, GenerateRetry, GenerateFail, table, ledger
    <2> QED
      BY <1>2, <2>1, <2>2 DEF WorkerStep
  <1>3. ASSUME NEW s \in Sweepers, SweepStep(s) PROVE Quiet
    BY <1>3 DEF SweepStep, SweepBegin, SweepMark, table, ledger
  <1>4. ASSUME NEW p \in Procs, Commit(p) PROVE Promise!Next
    BY <1>4, CommitSettles DEF Promise!Next
  <1>5. ASSUME NEW p \in Procs,
               Refund(p) \/ RefundFails(p) \/ Rollback(p) \/ DeadlockVictim(p)
        PROVE  Quiet
    BY <1>5 DEF Refund, RefundFails, Rollback, DeadlockVictim, table, ledger
  <1>6. ASSUME Tick PROVE Quiet
    BY <1>6 DEF Tick, ledger
  <1>7. ASSUME UNCHANGED vars PROVE Quiet
    BY <1>7 DEF vars, table, ledger
  <1>8. ASSUME NEW c \in Centers, MonthEnds(c) \/ Reset(c) PROVE Quiet
    BY <1>8 DEF MonthEnds, Reset, table
  <1>9. Promise!Next \/ Quiet
    BY <1>1, <1>2, <1>3, <1>4, <1>5, <1>6, <1>7, <1>8 DEF Next
  <1>10. Quiet => UNCHANGED Promise!vars
    BY Unseen
  <1> QED
    BY <1>9, <1>10

\* The queue keeps the promise made to whoever pays for a job: one at a time for a
\* submission, at most 1 + max_retries calls of the provider, one outcome, and the
\* credit back in the step that fails it, however many workers and sweeps race and
\* wherever a transaction is cut (dispatcher.go, jobs.sql).
THEOREM Implements == Spec => ImplementsPaidJob
  <1>1. Init => Promise!Init
    BY DEF Init, PaidState, Promise!Init
  <1>2. IInv /\ [Next]_vars => [Promise!Next]_(Promise!vars)
    BY PromiseStep
  <1> QED
    BY <1>1, <1>2, Inductive, PTL DEF Spec, ImplementsPaidJob, Promise!Spec

-----------------------------------------------------------------------------
(* Which transactions can wait for each other.                             *)

\* Who waits for the credit lock does not have it already (a worker has one job, a
\* sweep one center), and nobody has it twice.
LocksOK ==
    /\ \A w \in Workers : tx[w].pc = "refund" => tx[w].refund = {}
    /\ \A s \in Sweepers : \A i, j \in tx[s].stuck \cup tx[s].failed : CenterOf[i] = CenterOf[j]
    /\ \A p, q \in Procs : \A i \in tx[p].refund, j \in tx[q].refund :
           p # q => CenterOf[i] # CenterOf[j]

\* Starting anew, or going on without touching these fields, keeps the locks apart.
LEMMA LocksKept ==
  ASSUME LocksOK, NEW p \in Procs, \A q \in Procs : q # p => tx'[q] = tx[q],
         \/ tx'[p].refund = {}
         \/ tx'[p].refund = tx[p].refund /\ (p \in Workers => tx'[p].pc # "refund"),
         p \in Sweepers =>
            \A i, j \in tx'[p].stuck \cup tx'[p].failed : CenterOf[i] = CenterOf[j]
  PROVE  LocksOK'
  <1>1. \A w \in Workers : tx'[w].pc = "refund" => tx'[w].refund = {}
    BY DEF LocksOK, Procs
  <1>2. \A s \in Sweepers : \A i, j \in tx'[s].stuck \cup tx'[s].failed :
            CenterOf[i] = CenterOf[j]
    BY DEF LocksOK, Procs
  <1>3. \A q \in Procs : tx'[q].refund \subseteq tx[q].refund
    OBVIOUS
  <1>4. \A q, r \in Procs : \A i \in tx'[q].refund, j \in tx'[r].refund :
            q # r => CenterOf[i] # CenterOf[j]
    BY <1>3 DEF LocksOK
  <1> QED
    BY <1>1, <1>2, <1>4 DEF LocksOK

LEMMA InitLocks == Init => LocksOK
  BY DEF Init, LocksOK, NoTx, Procs

LEMMA MarkFailedLocks ==
  ASSUME IInv, LocksOK, NEW p \in Procs, NEW j, NEW why, NEW rest, NEW after,
         MarkFailed(p, j, why, rest, after),
         p \in Workers => after # "refund" /\ tx[p].refund = {},
         p \in Sweepers => rest \cup {j} \subseteq tx[p].stuck
  PROVE  LocksOK'
  <1>1. /\ \A q \in Procs : q # p => tx'[q] = tx[q]
        /\ tx'[p].refund = tx[p].refund /\ tx'[p].stuck = rest
        /\ tx'[p].failed \subseteq tx[p].failed \cup {j}
    <2>1. tx \in [Procs -> TxType]
      BY DEF IInv, TypeOK, TxType
    <2> QED
      BY <2>1 DEF MarkFailed, TxType
  <1>2. p \in Workers => tx'[p].refund = {}
    BY <1>1
  <1>3. p \in Sweepers => tx'[p].stuck \cup tx'[p].failed \subseteq tx[p].stuck \cup tx[p].failed
    BY <1>1
  <1>4. p \in Sweepers =>
            \A i, k \in tx'[p].stuck \cup tx'[p].failed : CenterOf[i] = CenterOf[k]
    BY <1>3 DEF LocksOK
  <1>5. \/ tx'[p].refund = {}
        \/ tx'[p].refund = tx[p].refund /\ (p \in Workers => tx'[p].pc # "refund")
    BY <1>1, <1>2
  <1> QED
    BY <1>1, <1>4, <1>5, LocksKept

LEMMA GenerateLocks ==
  ASSUME IInv, LocksOK, NEW w \in Workers,
         GenerateOk(w) \/ GenerateRetry(w) \/ GenerateFail(w)
  PROVE  LocksOK'
  <1>1. /\ w \in Procs /\ w \notin Sweepers
        /\ tx \in [Procs -> TxType] /\ tx[w].pc = "generate"
    BY JobQueueAssumption
    DEF Procs, IInv, TypeOK, TxType, GenerateOk, GenerateRetry, GenerateFail
  <1>2. tx[w].refund = {}
    BY <1>1 DEF IInv, WorkersOK, RefundsOK, Rows
  <1>3. CASE GenerateOk(w) \/ GenerateRetry(w)
    <2>1. /\ \A q \in Procs : q # w => tx'[q] = tx[q]
          /\ tx'[w].refund = tx[w].refund
      BY <1>1, <1>3 DEF GenerateOk, GenerateRetry, TxType
    <2> QED
      BY <1>1, <1>2, <2>1, LocksKept
  <1>4. CASE GenerateFail(w)
    BY <1>1, <1>2, <1>4, MarkFailedLocks DEF GenerateFail
  <1> QED
    BY <1>3, <1>4

\* The one step that takes the credit lock, when nobody has it.
LEMMA RefundLocks ==
  ASSUME IInv, LocksOK, NEW p \in Procs, Refund(p)
  PROVE  LocksOK'
  <1> DEFINE j == tx[p].job
  <1>1. /\ tx \in [Procs -> TxType] /\ CreditFree(p, CenterOf[j])
        /\ tx' = [tx EXCEPT ![p].pc = IF p \in Workers THEN "commit" ELSE "sweep",
                            ![p].refund = @ \cup {j}]
    BY DEF IInv, TypeOK, TxType, Refund
  <1>2. /\ \A q \in Procs : q # p => tx'[q] = tx[q]
        /\ tx'[p].pc = (IF p \in Workers THEN "commit" ELSE "sweep")
        /\ tx'[p].refund = tx[p].refund \cup {j}
        /\ tx'[p].stuck = tx[p].stuck /\ tx'[p].failed = tx[p].failed
    BY <1>1 DEF TxType
  <1>3. \A q \in Procs : q # p => \A i \in tx[q].refund : CenterOf[i] # CenterOf[j]
    BY <1>1 DEF CreditFree, CreditLocked
  <1>4. \A w \in Workers : tx'[w].pc = "refund" => tx'[w].refund = {}
    BY <1>2 DEF LocksOK, Procs
  <1>5. \A s \in Sweepers : \A i, k \in tx'[s].stuck \cup tx'[s].failed :
            CenterOf[i] = CenterOf[k]
    BY <1>2 DEF LocksOK, Procs
  <1>6. \A q, r \in Procs : \A i \in tx'[q].refund, k \in tx'[r].refund :
            q # r => CenterOf[i] # CenterOf[k]
    BY <1>2, <1>3 DEF LocksOK
  <1> QED
    BY <1>4, <1>5, <1>6 DEF LocksOK

LEMMA SweepLocks ==
  ASSUME IInv, LocksOK, NEW s \in Sweepers, SweepStep(s)
  PROVE  LocksOK'
  <1>1. s \in Procs /\ s \notin Workers /\ tx \in [Procs -> TxType]
    BY JobQueueAssumption DEF Procs, IInv, TypeOK, TxType
  <1>2. ASSUME NEW c \in Centers, SweepBegin(s, c) PROVE LocksOK'
    <2> DEFINE stuck == {j \in Jobs : CenterOf[j] = c /\ Stuck(j)}
    <2>1. tx' = [tx EXCEPT ![s] = [NoTx EXCEPT !.pc = "sweep", !.stuck = stuck]]
      BY <1>2 DEF SweepBegin
    <2>2. /\ \A q \in Procs : q # s => tx'[q] = tx[q]
          /\ tx'[s].refund = {} /\ tx'[s].failed = {} /\ tx'[s].stuck = stuck
      BY <1>1, <2>1 DEF NoTx
    <2>3. \A i, j \in tx'[s].stuck \cup tx'[s].failed : CenterOf[i] = CenterOf[j]
      BY <2>2
    <2> QED
      BY <1>1, <2>2, <2>3, LocksKept
  <1>3. ASSUME NEW j \in Jobs, SweepMark(s, j) PROVE LocksOK'
    BY <1>1, <1>3, MarkFailedLocks DEF SweepMark
  <1> QED
    BY <1>2, <1>3 DEF SweepStep

LEMMA ResetLocks ==
  ASSUME IInv, LocksOK, NEW p \in Procs, NEW t \in TxType, tx' = [tx EXCEPT ![p] = t],
         t.refund = {} /\ t.stuck = {} /\ t.failed = {}
  PROVE  LocksOK'
  <1>1. \A q \in Procs : q # p => tx'[q] = tx[q]
    BY DEF IInv, TypeOK
  <1>2. tx'[p] = t
    BY DEF IInv, TypeOK
  <1> QED
    BY <1>1, <1>2, LocksKept

LEMMA LocksStep ==
  ASSUME IInv, LocksOK, [Next]_vars
  PROVE  LocksOK'
  <1>0. /\ NoTx \in TxType /\ NoTx.refund = {} /\ NoTx.stuck = {} /\ NoTx.failed = {}
    BY NoTxType DEF NoTx
  <1>1. ASSUME UNCHANGED tx PROVE LocksOK'
    BY <1>1 DEF LocksOK
  <1>2. ASSUME NEW w \in Workers, WorkerStep(w) PROVE LocksOK'
    <2>1. ASSUME NEW j \in Jobs, Claim(w, j) PROVE LocksOK'
      <3> DEFINE t == [NoTx EXCEPT !.pc = "generate", !.job = j, !.retry = retry[j]]
      <3>1. tx' = [tx EXCEPT ![w] = t]
        BY <2>1 DEF Claim
      <3>2. t \in TxType /\ t.refund = {} /\ t.stuck = {} /\ t.failed = {}
        BY <1>0 DEF NoTx, TxType, IInv, TypeOK
      <3> HIDE DEF t
      <3> QED
        BY <3>1, <3>2, ResetLocks DEF Procs
    <2> QED
      BY <1>2, <2>1, GenerateLocks DEF WorkerStep
  <1>3. ASSUME NEW p \in Procs,
               RefundFails(p) \/ Commit(p) \/ Rollback(p) \/ DeadlockVictim(p)
        PROVE  LocksOK'
    <2>1. tx' = [tx EXCEPT ![p] = NoTx]
      BY <1>3 DEF RefundFails, Commit, Rollback, DeadlockVictim
    <2> QED
      BY <1>0, <2>1, ResetLocks
  <1>4. CASE \E j \in Jobs : Enqueue(j)
    BY <1>1, <1>4 DEF Enqueue
  <1>5. CASE Tick
    BY <1>1, <1>5 DEF Tick
  <1>6. CASE UNCHANGED vars
    BY <1>1, <1>6 DEF vars
  <1>7. CASE \E c \in Centers : MonthEnds(c) \/ Reset(c)
    BY <1>1, <1>7 DEF MonthEnds, Reset
  <1> QED
    BY <1>2, <1>3, <1>4, <1>5, <1>6, <1>7, SweepLocks, RefundLocks DEF Next

\* From whoever has a row or the lock, the waits lead to a sweep that has both.
LEMMA CircleHasASweep == IInv /\ LocksOK => DeadlockNeedsASweep
  <1> SUFFICES ASSUME IInv, LocksOK, NEW C \in SUBSET Procs, C # {},
                      \A q \in C : \E r \in C \ {q} : WaitsFor(q, r)
               PROVE  \E s \in C \cap Sweepers : tx[s].pc = "sweep" /\ tx[s].refund # {}
    BY DEF DeadlockNeedsASweep
  <1>0. ASSUME NEW p \in Procs
        PROVE  /\ tx[p].refund \subseteq tx[p].failed
               /\ tx[p].pc = "refund" => tx[p].job \in tx[p].failed
               /\ tx[p].pc # "refund" => tx[p].failed \subseteq tx[p].refund
               /\ tx[p].failed \subseteq Rows(p)
    BY DEF IInv, RefundsOK, Rows
  <1>1. ASSUME NEW r \in C, tx[r].refund # {} PROVE r \in Sweepers /\ tx[r].pc = "sweep"
    <2>1. PICK h \in C \ {r} : WaitsFor(r, h)
      OBVIOUS
    <2>2. tx[r].pc \in {"refund", "generate", "sweep"}
      BY <2>1 DEF WaitsFor
    <2>3. CASE r \in Workers
      <3>1. tx[r].pc # "sweep" /\ (tx[r].pc = "generate" => Rows(r) = {})
        BY <2>3 DEF IInv, WorkersOK
      <3>2. tx[r].pc # "generate"
        BY <1>0, <1>1, <3>1
      <3>3. tx[r].pc # "refund"
        BY <1>1, <2>3 DEF LocksOK
      <3> QED
        BY <2>2, <3>1, <3>2, <3>3
    <2>4. CASE r \in Sweepers
      <3>1. tx[r].pc # "generate"
        BY <2>4 DEF IInv, SweepsOK
      <3>2. ASSUME tx[r].pc = "refund" PROVE FALSE
        <4>1. PICK i \in tx[h].refund : CenterOf[i] = CenterOf[tx[r].job]
          BY <2>1, <3>2 DEF WaitsFor, CreditLocked
        <4>2. PICK k \in tx[r].refund : TRUE
          BY <1>1
        <4>3. k \in tx[r].failed /\ tx[r].job \in tx[r].failed
          BY <1>0, <3>2, <4>2
        <4>4. CenterOf[k] = CenterOf[tx[r].job]
          BY <2>4, <4>3 DEF LocksOK
        <4>5. h \in Procs /\ r \in Procs /\ h # r
          BY <2>1
        <4> QED
          BY <4>1, <4>2, <4>4, <4>5 DEF LocksOK
      <3> QED
        BY <2>2, <2>4, <3>1, <3>2
    <2> QED
      BY <2>3, <2>4 DEF Procs
  <1>2. ASSUME NEW q \in C, tx[q].pc = "refund" PROVE \E r \in C : tx[r].refund # {}
    <2>1. PICK r \in C \ {q} : WaitsFor(q, r)
      OBVIOUS
    <2>2. tx[r].refund # {}
      BY <1>2, <2>1 DEF WaitsFor, CreditLocked
    <2> QED
      BY <2>2
  <1>3. ASSUME NEW r \in C, Rows(r) # {} PROVE \E h \in C : tx[h].refund # {}
    <2>1. tx[r].pc \in {"refund", "generate", "sweep"}
      BY DEF WaitsFor
    <2>2. CASE tx[r].pc = "refund"
      BY <1>2, <2>2
    <2>3. CASE tx[r].pc # "refund"
      <3>1. r \in Sweepers
        BY <1>3, <2>1, <2>3 DEF IInv, WorkersOK, Procs
      <3>2. tx[r].failed # {}
        BY <1>3, <3>1 DEF IInv, SweepsOK, Rows
      <3> QED
        BY <1>0, <2>3, <3>2
    <2> QED
      BY <2>2, <2>3
  <1>4. PICK q \in C : TRUE
    OBVIOUS
  <1>5. PICK r \in C \ {q} : WaitsFor(q, r)
    BY <1>4
  <1>6. tx[q].pc = "refund" \/ Rows(r) # {}
    BY <1>5 DEF WaitsFor
  <1>7. \E h \in C : tx[h].refund # {}
    BY <1>2, <1>3, <1>5, <1>6
  <1> QED
    BY <1>1, <1>7

\* Workers alone never deadlock: in every circle of waits there is a sweep that went
\* on to another row with the credit lock of its center (sweepStuck, terminalFail).
THEOREM DeadlocksExplained == Spec => []DeadlockNeedsASweep
  <1>1. IInv /\ LocksOK /\ [Next]_vars => LocksOK'
    BY LocksStep
  <1> QED
    BY <1>1, InitLocks, Inductive, CircleHasASweep, PTL DEF Spec
=============================================================================
