-------------------------- MODULE JobLeaseProofs ----------------------------
(***************************************************************************)
(* Proofs about the job queue, for any number of jobs and workers, any     *)
(* sharing of worker ids, any lease, backoff and transaction age.          *)
(*                                                                         *)
(* The ledger and the fence are not inductive alone: whether a token may   *)
(* commit depends on how tokens relate to the row (TokensAreClaims) and on *)
(* which columns a status leaves filled (LeaseColumns).                    *)
(***************************************************************************)
EXTENDS JobLease, SequenceTheorems, TLAPS

\* The lease columns are filled exactly while the job is PROCESSING.
LeaseColumns ==
    \A j \in Jobs :
        /\ job[j].status = "PROCESSING" <=> job[j].leaseLeft # Null
        /\ job[j].status = "RETRY_WAIT" <=> job[j].retryLeft # Null
        /\ job[j].status \in {"ABSENT", "PENDING"} => job[j].attempts = 0
        /\ job[j].status \notin {"ABSENT", "PENDING"} => job[j].attempts # 0

\* Every token comes from a claim: it is never newer than the row, and no two
\* processes hold tokens of one job with the same generation.
TokensAreClaims ==
    /\ \A w \in Workers : token[w] # Null =>
          /\ token[w].attempt = token[w].gen
          /\ token[w].gen <= job[token[w].job].gen
    /\ \A v, w \in Workers :
          /\ token[v] # Null
          /\ token[w] # Null
          /\ token[v].job = token[w].job
          /\ token[v].gen = token[w].gen
          => v = w

IInv ==
    /\ TypeOK
    /\ LedgerConsistent
    /\ LeaseColumns
    /\ TokensAreClaims
    /\ OneActiveJobPerVersion
    /\ RetryHasBudget

-----------------------------------------------------------------------------
(* Facts about the operators of the model.                                 *)

\* Null is neither a token, nor a time, nor a transaction age.
LEMMA NullFacts ==
    /\ Null \notin LeaseToken
    /\ Null \notin Int
    /\ Null \notin Ids
    /\ Floor \in Int
    /\ \A w \in Workers : WorkerId[w] \in Ids
BY QueueAssumption, NullIsNoToken DEF LeaseToken, Ids, Floor

\* Closing one attempt row leaves the ledger a ledger of the same length.
LEMMA SetResult ==
    ASSUME NEW rows \in Seq(AttemptRow), NEW n \in 1..Len(rows), NEW r \in Results,
           NEW s, s = [rows EXCEPT ![n].result = r]
    PROVE  /\ s \in Seq(AttemptRow)
           /\ Len(s) = Len(rows)
           /\ \A m \in 1..Len(rows) :
                /\ s[m].gen = rows[m].gen
                /\ s[m].result = IF m = n THEN r ELSE rows[m].result
<1> DEFINE e == [rows[n] EXCEPT !.result = r]
<1>1. rows[n] \in AttemptRow
  BY ElementOfSeq
<1>2. e \in AttemptRow /\ e.gen = rows[n].gen /\ e.result = r
  BY <1>1 DEF AttemptRow
<1>3. s = [rows EXCEPT ![n] = e]
  OBVIOUS
<1> HIDE DEF e
<1>4. /\ [rows EXCEPT ![n] = e] \in Seq(AttemptRow)
      /\ Len([rows EXCEPT ![n] = e]) = Len(rows)
      /\ \A m \in 1..Len(rows) :
            [rows EXCEPT ![n] = e][m] = IF m = n THEN e ELSE rows[m]
  BY <1>2, ExceptSeq
<1> QED
  BY <1>2, <1>3, <1>4

\* A reclaim closes the last row when that is the only open one.
LEMMA CloseLast ==
    ASSUME NEW rows \in Seq(AttemptRow), Len(rows) # 0,
           \A n \in 1..Len(rows) : rows[n].result = "OPEN" <=> n = Len(rows)
    PROVE  CloseLatestOpen(rows) = [rows EXCEPT ![Len(rows)].result = "LEASE_EXPIRED"]
<1> DEFINE open == {n \in 1..Len(rows) : rows[n].result = "OPEN"}
<1>1. Len(rows) \in Nat
  BY LenProperties
<1>2. open = {Len(rows)}
  BY <1>1
<1> HIDE DEF open
<1>3. (CHOOSE n \in open : \A m \in open : m <= n) = Len(rows)
  BY <1>1, <1>2
<1> QED
  BY <1>2, <1>3 DEF CloseLatestOpen, open

\* A backoff delay is a time within the configured maximum.
LEMMA DelayType == \A n : DelaySeconds(n) \subseteq 0..MaxDelay
BY DEF DelaySeconds

-----------------------------------------------------------------------------
\* The empty queue satisfies the invariant.
LEMMA InitIInv == Init => IInv
<1> SUFFICES ASSUME Init PROVE IInv
  OBVIOUS
<1>1. << >> \in Seq(AttemptRow) /\ Len(<< >>) = 0
  BY EmptySeq
<1>2. NoRow \in JobRow
  BY NullFacts DEF NoRow, JobRow, Statuses
<1>3. TypeOK
  BY <1>1, <1>2, QueueAssumption DEF Init, TypeOK, NoRow
<1>4. LedgerConsistent /\ LeaseColumns /\ RetryHasBudget
  BY <1>1, QueueAssumption DEF Init, LedgerConsistent, LeaseColumns, RetryHasBudget, NoRow
<1>5. TokensAreClaims /\ OneActiveJobPerVersion
  BY DEF Init, TokensAreClaims, OneActiveJobPerVersion, NoRow, Active
<1> QED
  BY <1>3, <1>4, <1>5 DEF IInv

-----------------------------------------------------------------------------
(* One lemma per kind of step.                                             *)

\* A producer inserts a row or asks for cancellation.
LEMMA ProducerStep ==
    ASSUME IInv, NEW j \in Jobs, CreateOrGet(j) \/ RequestCancel(j)
    PROVE  IInv'
<1> USE DEF IInv
<1>1. PICK row \in JobRow :
         /\ job' = [job EXCEPT ![j] = row]
         /\ row.gen = job[j].gen /\ row.attempts = job[j].attempts
         /\ row.leaseLeft = job[j].leaseLeft /\ row.retryLeft = job[j].retryLeft
         /\ \/ row.status = job[j].status
            \/ job[j].status = "ABSENT" /\ row.status = "PENDING" /\ VersionIsFree(j)
  <2>1. CASE CreateOrGet(j)
    <3> DEFINE r == [job[j] EXCEPT !.status = "PENDING"]
    <3>1. job[j] \in JobRow
      BY DEF TypeOK
    <3>2. r \in JobRow
      BY <3>1 DEF JobRow, Statuses
    <3> QED
      BY <2>1, <3>1, <3>2 DEF CreateOrGet, JobRow
  <2>2. CASE RequestCancel(j)
    <3> DEFINE r == [job[j] EXCEPT !.cancel = TRUE]
    <3>1. job[j] \in JobRow
      BY DEF TypeOK
    <3>2. r \in JobRow
      BY <3>1 DEF JobRow
    <3> QED
      BY <2>2, <3>1, <3>2 DEF RequestCancel, JobRow
  <2> QED
    BY <2>1, <2>2
<1>2. UNCHANGED <<attempt, token, txAge>>
  BY DEF CreateOrGet, RequestCancel
<1>3. TypeOK'
  BY <1>1, <1>2 DEF TypeOK
<1>4. LedgerConsistent'
  BY <1>1, <1>2 DEF TypeOK, LedgerConsistent, LeaseColumns
<1>5. LeaseColumns' /\ RetryHasBudget'
  <2>1. \A k \in Jobs : k # j => job'[k] = job[k]
    BY <1>1 DEF TypeOK
  <2>2. job'[j] = row
    BY <1>1 DEF TypeOK
  <2>3. MaxAttempts[j] > 0
    BY QueueAssumption
  <2>4. LeaseColumns'
    BY <1>1, <2>1, <2>2 DEF LeaseColumns
  <2>5. RetryHasBudget'
    BY <1>1, <2>1, <2>2, <2>3 DEF LeaseColumns, RetryHasBudget
  <2> QED
    BY <2>4, <2>5
<1>6. TokensAreClaims'
  BY <1>1, <1>2, NullFacts DEF TypeOK, TokensAreClaims, LeaseToken
<1>7. OneActiveJobPerVersion'
  BY <1>1 DEF TypeOK, OneActiveJobPerVersion, VersionIsFree, Active
<1> QED
  BY <1>3, <1>4, <1>5, <1>6, <1>7

\* Time passes: times move towards Floor and stay there.
LEMMA TickStep ==
    ASSUME IInv, Tick
    PROVE  IInv'
<1> USE DEF IInv
<1>1. \A t \in Times \cup {Null} :
         Elapse(t) \in Times \cup {Null} /\ (Elapse(t) = Null <=> t = Null)
  BY NullFacts, QueueAssumption DEF Elapse, Times, Floor
<1>2. \A j \in Jobs :
         /\ job[j] \in JobRow
         /\ job'[j] = [job[j] EXCEPT !.leaseLeft = Elapse(@), !.retryLeft = Elapse(@)]
  BY DEF Tick, TypeOK
<1>3. \A j \in Jobs :
         /\ job'[j] \in JobRow
         /\ job'[j].status = job[j].status
         /\ job'[j].gen = job[j].gen /\ job'[j].attempts = job[j].attempts
         /\ job'[j].leaseLeft = Null <=> job[j].leaseLeft = Null
         /\ job'[j].retryLeft = Null <=> job[j].retryLeft = Null
  <2> SUFFICES ASSUME NEW j \in Jobs
               PROVE  /\ job'[j] \in JobRow
                      /\ job'[j].status = job[j].status
                      /\ job'[j].gen = job[j].gen /\ job'[j].attempts = job[j].attempts
                      /\ job'[j].leaseLeft = Null <=> job[j].leaseLeft = Null
                      /\ job'[j].retryLeft = Null <=> job[j].retryLeft = Null
    OBVIOUS
  <2>1. job[j].leaseLeft \in Times \cup {Null} /\ job[j].retryLeft \in Times \cup {Null}
    BY <1>2 DEF JobRow
  <2>2. job'[j] = [job[j] EXCEPT !.leaseLeft = Elapse(job[j].leaseLeft),
                                 !.retryLeft = Elapse(job[j].retryLeft)]
    BY <1>2
  <2>3. /\ Elapse(job[j].leaseLeft) \in Times \cup {Null}
        /\ Elapse(job[j].retryLeft) \in Times \cup {Null}
        /\ Elapse(job[j].leaseLeft) = Null <=> job[j].leaseLeft = Null
        /\ Elapse(job[j].retryLeft) = Null <=> job[j].retryLeft = Null
    BY <1>1, <2>1
  <2> HIDE <1>1
  <2> QED
    BY <1>2, <2>2, <2>3 DEF JobRow
<1>4. job' \in [Jobs -> JobRow]
  BY <1>3 DEF Tick
<1>5. txAge' \in [Workers -> (0..MaxTxAge) \cup {Null}]
  <2>1. ASSUME NEW w \in Workers, txAge[w] # Null
        PROVE  txAge[w] + 1 \in 0..MaxTxAge
    <3>1. txAge[w] \in 0..MaxTxAge
      BY <2>1 DEF TypeOK
    <3>2. txAge[w] < MaxTxAge
      BY <2>1 DEF Tick
    <3> QED
      BY <3>1, <3>2, QueueAssumption
  <2> QED
    BY <2>1 DEF Tick
<1>6. UNCHANGED <<attempt, token>>
  BY DEF Tick
<1>7. TypeOK'
  BY <1>3, <1>4, <1>5, <1>6 DEF TypeOK
<1>8. LedgerConsistent' /\ LeaseColumns' /\ RetryHasBudget' /\ OneActiveJobPerVersion'
  BY <1>3, <1>6 DEF LedgerConsistent, LeaseColumns, RetryHasBudget, OneActiveJobPerVersion
<1>9. TokensAreClaims'
  BY <1>3, <1>6, NullFacts DEF TypeOK, TokensAreClaims, LeaseToken
<1> QED
  BY <1>7, <1>8, <1>9

\* A step that only opens or closes a transaction or drops a token.
LEMMA LocalStep ==
    ASSUME IInv, NEW w \in Workers,
           UNCHANGED <<job, attempt>>,
           token' = token \/ token' = [token EXCEPT ![w] = Null],
           txAge' = txAge \/ txAge' = [txAge EXCEPT ![w] = Null]
                          \/ txAge' = [txAge EXCEPT ![w] = 0]
    PROVE  IInv'
<1> USE DEF IInv
<1>1. TypeOK'
  <2>1. token' \in [Workers -> LeaseToken \cup {Null}]
    BY DEF TypeOK
  <2>2. 0 \in 0..MaxTxAge
    BY QueueAssumption
  <2>3. txAge' \in [Workers -> (0..MaxTxAge) \cup {Null}]
    BY <2>2 DEF TypeOK
  <2> QED
    BY <2>1, <2>3 DEF TypeOK
<1>2. TokensAreClaims'
  <2>1. \A v \in Workers : token'[v] = token[v] \/ token'[v] = Null
    BY DEF TypeOK
  <2> QED
    BY <2>1 DEF TokensAreClaims
<1>3. LedgerConsistent' /\ LeaseColumns' /\ RetryHasBudget' /\ OneActiveJobPerVersion'
  BY DEF LedgerConsistent, LeaseColumns, RetryHasBudget, OneActiveJobPerVersion
<1> QED
  BY <1>1, <1>2, <1>3

\* The owner renews its lease or reports a stage.
LEMMA RenewStep ==
    ASSUME IInv, NEW w \in Workers,
           Heartbeat(w) \/ \E stage \in Stages : AdvanceStage(w, stage)
    PROVE  IInv'
<1> USE DEF IInv
<1> DEFINE j == token[w].job
<1>1. token[w] \in LeaseToken /\ j \in Jobs /\ txAge[w] \in 0..MaxTxAge
  BY DEF Heartbeat, AdvanceStage, Fenced, TypeOK, LeaseToken
<1>2. job[j] \in JobRow /\ job[j].leaseLeft # Null /\ LeaseSeconds - txAge[w] \in Times
  <2>1. job[j] \in JobRow /\ job[j].leaseLeft # Null
    BY <1>1 DEF Heartbeat, AdvanceStage, Fenced, TypeOK
  <2>2. LeaseSeconds - txAge[w] \in Times
    BY <1>1, QueueAssumption DEF Times, Floor
  <2> QED
    BY <2>1, <2>2
<1>3. PICK row \in JobRow :
         /\ job' = [job EXCEPT ![j] = row]
         /\ row.gen = job[j].gen /\ row.attempts = job[j].attempts
         /\ row.status = job[j].status
         /\ row.leaseLeft # Null /\ row.retryLeft = job[j].retryLeft
  <2>1. CASE Heartbeat(w)
    <3> DEFINE r == [job[j] EXCEPT !.leaseLeft = LeaseSeconds - txAge[w]]
    <3>1. r \in JobRow /\ r.leaseLeft # Null
      BY <1>1, <1>2, NullFacts, QueueAssumption DEF JobRow, Times
    <3> QED
      BY <2>1, <1>2, <3>1 DEF Heartbeat, JobRow
  <2>2. ASSUME NEW stage \in Stages, AdvanceStage(w, stage)
        PROVE  \E row \in JobRow :
                 /\ job' = [job EXCEPT ![j] = row]
                 /\ row.gen = job[j].gen /\ row.attempts = job[j].attempts
                 /\ row.status = job[j].status
                 /\ row.leaseLeft # Null /\ row.retryLeft = job[j].retryLeft
    <3> DEFINE r == [job[j] EXCEPT !.stage = stage]
    <3>1. r \in JobRow
      BY <1>2 DEF JobRow
    <3> QED
      BY <2>2, <1>2, <3>1 DEF AdvanceStage, JobRow
  <2> QED
    BY <2>1, <2>2
<1>4. UNCHANGED <<attempt, token>> /\ txAge' = [txAge EXCEPT ![w] = Null]
  BY DEF Heartbeat, AdvanceStage, EndTx
<1>5. TypeOK'
  BY <1>1, <1>3, <1>4 DEF TypeOK
<1>6. LedgerConsistent'
  BY <1>1, <1>3, <1>4 DEF TypeOK, LedgerConsistent
<1>7. LeaseColumns' /\ RetryHasBudget' /\ OneActiveJobPerVersion'
  BY <1>1, <1>2, <1>3 DEF TypeOK, LeaseColumns, RetryHasBudget, OneActiveJobPerVersion
<1>8. TokensAreClaims'
  BY <1>1, <1>3, <1>4, NullFacts DEF TypeOK, TokensAreClaims, LeaseToken
<1> QED
  BY <1>5, <1>6, <1>7, <1>8

\* A worker claims a job: a new generation, a new open attempt row, and the
\* attempt of an expired owner closed.
LEMMA ClaimStep ==
    ASSUME IInv, NEW w \in Workers, NEW j \in Jobs, ClaimNext(w, j)
    PROVE  IInv'
<1> USE DEF IInv
<1> DEFINE gen == job[j].gen + 1
           num == job[j].attempts + 1
           id  == WorkerId[w]
           old == IF job[j].status = "PROCESSING"
                  THEN CloseLatestOpen(attempt[j]) ELSE attempt[j]
           new == [gen |-> gen, worker |-> id, result |-> "OPEN"]
           tok == [job |-> j, worker |-> id, gen |-> gen, attempt |-> num]
           row == [job[j] EXCEPT !.status = "PROCESSING", !.worker = id,
                                 !.gen = gen, !.attempts = num,
                                 !.leaseLeft = LeaseSeconds - txAge[w],
                                 !.retryLeft = Null]
<1>1. /\ job' = [job EXCEPT ![j] = row]
      /\ attempt' = [attempt EXCEPT ![j] = Append(old, new)]
      /\ token' = [token EXCEPT ![w] = tok]
      /\ txAge' = [txAge EXCEPT ![w] = Null]
      /\ token[w] = Null
      /\ Runnable(j, txAge[w])
  BY DEF ClaimNext, EndTx
<1>2. job[j] \in JobRow /\ attempt[j] \in Seq(AttemptRow) /\ txAge[w] \in 0..MaxTxAge
  BY DEF TypeOK, ClaimNext
<1>3. /\ job[j].status \in {"PENDING", "RETRY_WAIT", "PROCESSING"}
      /\ job[j].attempts < MaxAttempts[j]
      /\ job[j].gen \in Nat /\ job[j].attempts \in Nat /\ gen = num
      /\ Len(attempt[j]) = job[j].attempts
  BY <1>1, <1>2 DEF Runnable, JobRow, LedgerConsistent
<1>4. id \in Ids /\ new \in AttemptRow /\ tok \in LeaseToken
  BY <1>3, NullFacts DEF AttemptRow, LeaseToken, Results
<1>5. row \in JobRow
  <2>1. LeaseSeconds - txAge[w] \in Times
    BY <1>2, QueueAssumption DEF Times, Floor
  <2>2. gen \in Nat /\ num \in Nat /\ id \in Ids
    BY <1>3, <1>4
  <2> HIDE DEF gen, num, id
  <2> QED
    BY <1>2, <2>1, <2>2 DEF JobRow, Statuses
<1>6. /\ row.status = "PROCESSING" /\ row.gen = gen /\ row.attempts = num
      /\ row.leaseLeft # Null /\ row.retryLeft = Null
  <2>1. LeaseSeconds - txAge[w] # Null
    BY <1>2, NullFacts, QueueAssumption
  <2> QED
    BY <1>2, <2>1 DEF JobRow
<1>7. /\ old \in Seq(AttemptRow)
      /\ Len(old) = job[j].attempts
      /\ \A n \in 1..Len(old) :
            old[n].gen = n /\ old[n].result \in {"LEASE_EXPIRED", "RETRY_WAIT"}
  <2>1. CASE job[j].status = "PROCESSING"
    <3>1. Len(attempt[j]) # 0
      BY <1>3, <2>1 DEF LeaseColumns
    <3>2. Len(attempt[j]) \in 1..Len(attempt[j])
      BY <1>3, <3>1
    <3>3. \A n \in 1..Len(attempt[j]) :
             /\ attempt[j][n].gen = n
             /\ n # Len(attempt[j]) => attempt[j][n].result \in {"LEASE_EXPIRED", "RETRY_WAIT"}
             /\ attempt[j][n].result = "OPEN" <=> n = Len(attempt[j])
      BY <1>3, <2>1 DEF LedgerConsistent
    <3>4. old = [attempt[j] EXCEPT ![Len(attempt[j])].result = "LEASE_EXPIRED"]
      BY <1>2, <2>1, <3>1, <3>3, CloseLast
    <3>5. "LEASE_EXPIRED" \in Results
      BY DEF Results
    <3>6. /\ old \in Seq(AttemptRow)
          /\ Len(old) = Len(attempt[j])
          /\ \A m \in 1..Len(attempt[j]) :
                /\ old[m].gen = attempt[j][m].gen
                /\ old[m].result = IF m = Len(attempt[j]) THEN "LEASE_EXPIRED"
                                   ELSE attempt[j][m].result
      <4> DEFINE rows == attempt[j]
                 last == Len(attempt[j])
                 reaped == old
      <4>1. /\ rows \in Seq(AttemptRow) /\ last \in 1..Len(rows) /\ last = Len(rows)
            /\ reaped = [rows EXCEPT ![last].result = "LEASE_EXPIRED"]
        BY <1>2, <3>2, <3>4
      <4> HIDE DEF rows, last, reaped
      <4>2. /\ reaped \in Seq(AttemptRow)
            /\ Len(reaped) = Len(rows)
            /\ \A m \in 1..Len(rows) :
                  /\ reaped[m].gen = rows[m].gen
                  /\ reaped[m].result = IF m = last THEN "LEASE_EXPIRED" ELSE rows[m].result
        BY <3>5, <4>1, SetResult, SMTT(20)
      <4> QED
        BY <4>1, <4>2 DEF rows, last, reaped
    <3> QED
      BY <1>3, <3>3, <3>6
  <2>2. CASE job[j].status # "PROCESSING"
    <3>1. \A n \in 1..Len(attempt[j]) :
             /\ attempt[j][n].gen = n
             /\ n < Len(attempt[j]) => attempt[j][n].result \in {"LEASE_EXPIRED", "RETRY_WAIT"}
             /\ n = Len(attempt[j]) => attempt[j][n].result = job[j].status
      BY <2>2 DEF LedgerConsistent
    <3>2. job[j].status = "PENDING" => Len(attempt[j]) = 0
      BY <1>3 DEF LeaseColumns
    <3> QED
      BY <1>2, <1>3, <2>2, <3>1, <3>2
  <2> QED
    BY <2>1, <2>2
<1> HIDE DEF old, new, tok, row
<1>8. /\ Append(old, new) \in Seq(AttemptRow)
      /\ Len(Append(old, new)) = num
      /\ \A n \in 1..Len(old) : Append(old, new)[n] = old[n]
      /\ Append(old, new)[num] = new
  BY <1>3, <1>4, <1>7, AppendProperties
<1>9. /\ job'[j] = row
      /\ attempt'[j] = Append(old, new)
      /\ \A k \in Jobs : k # j => job'[k] = job[k] /\ attempt'[k] = attempt[k]
  BY <1>1 DEF TypeOK
<1>10. TypeOK'
  <2>1. num <= MaxAttempts[j]
    BY <1>3, QueueAssumption
  <2>2. job' \in [Jobs -> JobRow] /\ attempt' \in [Jobs -> Seq(AttemptRow)]
    BY <1>1, <1>5, <1>8 DEF TypeOK
  <2>3. /\ token' \in [Workers -> LeaseToken \cup {Null}]
        /\ txAge' \in [Workers -> (0..MaxTxAge) \cup {Null}]
    BY <1>1, <1>4 DEF TypeOK
  <2> QED
    BY <1>6, <1>9, <2>1, <2>2, <2>3 DEF TypeOK
<1>11. LedgerConsistent'
  <2>1. new.gen = num /\ new.result = "OPEN"
    BY <1>3 DEF new
  <2>2. ASSUME NEW n \in 1..Len(attempt'[j])
        PROVE  /\ attempt'[j][n].gen = n
               /\ n < Len(attempt'[j]) =>
                     attempt'[j][n].result \in {"LEASE_EXPIRED", "RETRY_WAIT"}
               /\ n = Len(attempt'[j]) => attempt'[j][n].result = "OPEN"
    <3>1. n = num \/ n \in 1..Len(old)
      BY <1>3, <1>7, <1>8, <1>9
    <3> QED
      BY <1>3, <1>7, <1>8, <1>9, <2>1, <3>1
  <2>3. /\ Len(attempt'[j]) = job'[j].attempts
        /\ job'[j].gen = job'[j].attempts
        /\ job'[j].status = "PROCESSING"
    BY <1>3, <1>6, <1>8, <1>9
  <2> SUFFICES ASSUME NEW k \in Jobs
               PROVE  /\ Len(attempt'[k]) = job'[k].attempts
                      /\ job'[k].gen = job'[k].attempts
                      /\ \A n \in 1..Len(attempt'[k]) :
                            /\ attempt'[k][n].gen = n
                            /\ n < Len(attempt'[k]) =>
                                  attempt'[k][n].result \in {"LEASE_EXPIRED", "RETRY_WAIT"}
                            /\ n = Len(attempt'[k]) =>
                                  attempt'[k][n].result =
                                     IF job'[k].status = "PROCESSING" THEN "OPEN"
                                     ELSE job'[k].status
    BY DEF LedgerConsistent
  <2>4. CASE k = j
    BY <2>2, <2>3, <2>4
  <2>5. CASE k # j
    BY <1>9, <2>5 DEF LedgerConsistent
  <2> QED
    BY <2>4, <2>5
<1>12. LeaseColumns'
  BY <1>3, <1>6, <1>9 DEF LeaseColumns
<1>13. RetryHasBudget'
  BY <1>6, <1>9 DEF RetryHasBudget
<1>14. OneActiveJobPerVersion'
  BY <1>3, <1>6, <1>9 DEF OneActiveJobPerVersion, Active
<1>15. TokensAreClaims'
  <2>1. token'[w] = tok /\ \A v \in Workers : v # w => token'[v] = token[v]
    BY <1>1 DEF TypeOK
  <2>2. tok.job = j /\ tok.gen = gen /\ tok.attempt = gen
    BY <1>3 DEF tok
  <2>3. \A v \in Workers : token[v] # Null =>
           /\ token[v].job \in Jobs /\ token[v].gen \in Nat
           /\ job[token[v].job].gen \in Nat
           /\ token[v].gen <= job'[token[v].job].gen
           /\ token[v].job = j => token[v].gen < gen
    BY <1>3, <1>6, <1>9 DEF TypeOK, TokensAreClaims, LeaseToken, JobRow
  <2>4. job'[j].gen = gen /\ gen \in Nat
    BY <1>3, <1>6, <1>9
  <2>5. \A v \in Workers : token'[v] # Null =>
           /\ token'[v].attempt = token'[v].gen
           /\ token'[v].gen <= job'[token'[v].job].gen
    BY <2>1, <2>2, <2>3, <2>4 DEF TokensAreClaims
  <2>6. \A u, v \in Workers :
           /\ token'[u] # Null
           /\ token'[v] # Null
           /\ token'[u].job = token'[v].job
           /\ token'[u].gen = token'[v].gen
           => u = v
    BY <2>1, <2>2, <2>3, <2>4 DEF TokensAreClaims
  <2> QED
    BY <2>5, <2>6 DEF TokensAreClaims
<1> QED
  BY <1>10, <1>11, <1>12, <1>13, <1>14, <1>15

\* A turn ends with an outcome: the row leaves PROCESSING, its last attempt is
\* closed with the same word.
LEMMA FinishStep ==
    ASSUME IInv, NEW w \in Workers,
           NEW status \in {"COMPLETED", "RETRY_WAIT", "FAILED", "DEAD_LETTER"},
           NEW retry \in Times \cup {Null},
           status = "RETRY_WAIT" <=> retry # Null,
           status = "RETRY_WAIT" => HasBudget(w),
           status = "DEAD_LETTER" => ~HasBudget(w),
           Finish(w, status, retry)
    PROVE  IInv'
<1> USE DEF IInv
<1> DEFINE j == token[w].job
           n == token[w].attempt
           row == [job[j] EXCEPT !.status = status, !.worker = Null,
                                 !.leaseLeft = Null, !.retryLeft = retry]
           rows == [attempt[j] EXCEPT ![n].result = status]
<1>1. /\ job' = [job EXCEPT ![j] = row]
      /\ attempt' = [attempt EXCEPT ![j] = rows]
      /\ token' = [token EXCEPT ![w] = Null]
      /\ txAge' = [txAge EXCEPT ![w] = Null]
      /\ token[w] # Null
      /\ job[j].status = "PROCESSING" /\ job[j].gen = token[w].gen
      /\ n <= Len(attempt[j])
  BY DEF Finish, EndTx, Fenced, AttemptIsOpen
<1>2. token[w] \in LeaseToken /\ j \in Jobs /\ n \in Nat \ {0} /\ token[w].gen = n
  BY <1>1 DEF TypeOK, LeaseToken, TokensAreClaims
<1>3. /\ job[j] \in JobRow /\ attempt[j] \in Seq(AttemptRow)
      /\ job[j].attempts \in Nat
      /\ Len(attempt[j]) = job[j].attempts /\ n = job[j].attempts
      /\ n \in 1..Len(attempt[j])
  BY <1>1, <1>2 DEF TypeOK, JobRow, LedgerConsistent
<1>4. /\ row \in JobRow
      /\ row.status = status /\ row.leaseLeft = Null /\ row.retryLeft = retry
      /\ row.gen = job[j].gen /\ row.attempts = job[j].attempts
  BY <1>3 DEF JobRow, Statuses
<1>5. /\ rows \in Seq(AttemptRow)
      /\ Len(rows) = Len(attempt[j])
      /\ \A m \in 1..Len(attempt[j]) :
            /\ rows[m].gen = attempt[j][m].gen
            /\ rows[m].result = IF m = n THEN status ELSE attempt[j][m].result
  <2>1. status \in Results
    BY DEF Results
  <2>2. rows = [attempt[j] EXCEPT ![n].result = status]
    OBVIOUS
  <2> HIDE DEF j, n, rows
  <2> QED
    BY <1>3, <2>1, <2>2, SetResult
<1> HIDE DEF row, rows
<1>6. /\ job'[j] = row
      /\ attempt'[j] = rows
      /\ \A k \in Jobs : k # j => job'[k] = job[k] /\ attempt'[k] = attempt[k]
  BY <1>1, <1>2 DEF TypeOK
<1>7. TypeOK'
  <2>1. job' \in [Jobs -> JobRow] /\ attempt' \in [Jobs -> Seq(AttemptRow)]
    BY <1>1, <1>2, <1>4, <1>5 DEF TypeOK
  <2>2. /\ token' \in [Workers -> LeaseToken \cup {Null}]
        /\ txAge' \in [Workers -> (0..MaxTxAge) \cup {Null}]
    BY <1>1 DEF TypeOK
  <2> QED
    BY <1>2, <1>4, <1>6, <2>1, <2>2 DEF TypeOK
<1>8. LedgerConsistent'
  <2>1. /\ Len(attempt'[j]) = job'[j].attempts
        /\ job'[j].gen = job'[j].attempts
        /\ job'[j].status = status
    BY <1>2, <1>3, <1>4, <1>5, <1>6 DEF LedgerConsistent
  <2>2. ASSUME NEW m \in 1..Len(attempt'[j])
        PROVE  /\ attempt'[j][m].gen = m
               /\ m < Len(attempt'[j]) =>
                     attempt'[j][m].result \in {"LEASE_EXPIRED", "RETRY_WAIT"}
               /\ m = Len(attempt'[j]) => attempt'[j][m].result = status
    BY <1>2, <1>3, <1>5, <1>6 DEF LedgerConsistent
  <2> SUFFICES ASSUME NEW k \in Jobs
               PROVE  /\ Len(attempt'[k]) = job'[k].attempts
                      /\ job'[k].gen = job'[k].attempts
                      /\ \A m \in 1..Len(attempt'[k]) :
                            /\ attempt'[k][m].gen = m
                            /\ m < Len(attempt'[k]) =>
                                  attempt'[k][m].result \in {"LEASE_EXPIRED", "RETRY_WAIT"}
                            /\ m = Len(attempt'[k]) =>
                                  attempt'[k][m].result =
                                     IF job'[k].status = "PROCESSING" THEN "OPEN"
                                     ELSE job'[k].status
    BY DEF LedgerConsistent
  <2>3. CASE k = j
    BY <2>1, <2>2, <2>3
  <2>4. CASE k # j
    BY <1>6, <2>4 DEF LedgerConsistent
  <2> QED
    BY <2>3, <2>4
<1>9. LeaseColumns'
  BY <1>1, <1>2, <1>3, <1>4, <1>6 DEF LeaseColumns
<1>10. RetryHasBudget'
  <2>1. /\ status = "RETRY_WAIT" => job[j].attempts < MaxAttempts[j]
        /\ status = "DEAD_LETTER" => job[j].attempts = MaxAttempts[j]
    BY <1>2, <1>3, QueueAssumption DEF HasBudget, TypeOK
  <2> QED
    BY <1>4, <1>6, <2>1 DEF RetryHasBudget
<1>11. OneActiveJobPerVersion'
  BY <1>1, <1>2, <1>4, <1>6 DEF OneActiveJobPerVersion, Active
<1>12. TokensAreClaims'
  <2>1. \A v \in Workers : token'[v] = token[v] \/ token'[v] = Null
    BY <1>1 DEF TypeOK
  <2>2. \A k \in Jobs : job'[k].gen = job[k].gen
    BY <1>4, <1>6
  <2>3. \A v \in Workers : token[v] # Null => token[v].job \in Jobs
    BY DEF TypeOK, LeaseToken
  <2> QED
    BY <2>1, <2>2, <2>3 DEF TokensAreClaims
<1> QED
  BY <1>7, <1>8, <1>9, <1>10, <1>11, <1>12

\* Every way a worker ends a turn is a Finish with a legal outcome, or drops
\* the token.
LEMMA EndTurnStep ==
    ASSUME IInv, NEW w \in Workers, EndTurn(w)
    PROVE  IInv'
<1>1. CASE Complete(w)
  <2>1. job[token[w].job].retryLeft = Null
    BY <1>1 DEF Complete, Finish, Fenced, IInv, TypeOK, LeaseToken, LeaseColumns
  <2> QED
    BY <1>1, <2>1, FinishStep DEF Complete
<1>2. CASE ScheduleRetry(w)
  <2>1. PICK d \in DelaySeconds(job[token[w].job].attempts) :
           Finish(w, "RETRY_WAIT", d - txAge[w])
    BY <1>2 DEF ScheduleRetry
  <2>2. d \in 0..MaxDelay
    BY DelayType
  <2>3. txAge[w] \in 0..MaxTxAge
    BY <1>2 DEF ScheduleRetry, Fenced, IInv, TypeOK
  <2>4. d - txAge[w] \in Times /\ d - txAge[w] # Null
    BY <2>2, <2>3, NullFacts, QueueAssumption DEF Times, Floor
  <2> QED
    BY <1>2, <2>1, <2>4, FinishStep DEF ScheduleRetry
<1>3. CASE DeadLetter(w)
  BY <1>3, FinishStep DEF DeadLetter
<1>4. CASE FailPermanently(w)
  BY <1>4, FinishStep DEF FailPermanently
<1>5. CASE Abandon(w)
  BY <1>5, LocalStep DEF Abandon, EndTx
<1> QED
  BY <1>1, <1>2, <1>3, <1>4, <1>5 DEF EndTurn

\* The invariant is inductive.
LEMMA NextIInv == IInv /\ [Next]_vars => IInv'
<1> SUFFICES ASSUME IInv, [Next]_vars PROVE IInv'
  OBVIOUS
<1>1. CASE \E j \in Jobs : CreateOrGet(j) \/ RequestCancel(j)
  BY <1>1, ProducerStep
<1>2. ASSUME NEW w \in Workers, WorkerStep(w)
      PROVE  IInv'
  <2>1. CASE BeginTx(w)
    BY <2>1, LocalStep DEF BeginTx
  <2>2. CASE Claim(w)
    BY <2>2, ClaimStep, LocalStep DEF Claim, ClaimNothing, EndTx
  <2>7. CASE AssertOwned(w)
    BY <2>7, LocalStep DEF AssertOwned, EndTx
  <2>3. CASE Heartbeat(w) \/ \E stage \in Stages : AdvanceStage(w, stage)
    BY <2>3, RenewStep
  <2>4. CASE EndTurn(w)
    BY <2>4, EndTurnStep
  <2>5. CASE Reconcile(w)
    BY <2>5, LocalStep DEF Reconcile
  <2>6. CASE Crash(w)
    BY <2>6, LocalStep DEF Crash, EndTx
  <2> QED
    BY <1>2, <2>1, <2>2, <2>3, <2>4, <2>5, <2>6, <2>7 DEF WorkerStep
<1>3. CASE Tick
  BY <1>3, TickStep
<1>4. CASE UNCHANGED vars
  BY <1>4 DEF vars, IInv, TypeOK, LedgerConsistent, LeaseColumns, TokensAreClaims,
              OneActiveJobPerVersion, RetryHasBudget
<1> QED
  BY <1>1, <1>2, <1>3, <1>4 DEF Next

\* The invariant holds in every reachable state.
THEOREM Invariance == Spec => []IInv
BY InitIInv, NextIInv, PTL DEF Spec

-----------------------------------------------------------------------------
(* The properties.                                                         *)

\* Rows, ledger, tokens and transaction ages keep their types; in particular
\* attempt_count never passes max_attempts (coordinator.claim_next).
THEOREM TypeCorrect == Spec => []TypeOK
BY Invariance, PTL DEF IInv

\* processing_attempt agrees with indexation_job in every reachable state
\* (coordinator.claim_next, _finish_attempt, retry_policy.handle).
THEOREM LedgerIsConsistent == Spec => []LedgerConsistent
BY Invariance, PTL DEF IInv

\* No two processes can pass the fence for one job (_fencing_predicate,
\* assert_owned), however their worker ids are configured.
THEOREM FenceIsExclusive == Spec => []SingleMutator
<1>1. IInv => SingleMutator
  <2> SUFFICES ASSUME IInv, NEW v \in Workers, NEW w \in Workers,
                      Fenced(v), Fenced(w), token[v].job = token[w].job
               PROVE  v = w
    BY DEF SingleMutator
  <2>1. token[v] # Null /\ token[w] # Null /\ token[v].gen = token[w].gen
    BY DEF Fenced
  <2> QED
    BY <2>1 DEF IInv, TokensAreClaims
<1> QED
  BY <1>1, Invariance, PTL

\* At most one active job per document version (the partial unique index is
\* checked on insert only, and no later transition can break it).
THEOREM VersionIsExclusive == Spec => []OneActiveJobPerVersion
BY Invariance, PTL DEF IInv

\* A waiting job always has budget left and a dead letter never has
\* (retry_policy.handle, coordinator.claim_next).
THEOREM WaitingHasBudget == Spec => []RetryHasBudget
BY Invariance, PTL DEF IInv

-----------------------------------------------------------------------------
(* What a step may never do.                                               *)

\* How a step of a worker may change the row of a job: a due claim, or a
\* commit through the fence by the holder of the current generation.
LEMMA RowChange ==
    ASSUME IInv, NEW w \in Workers, WorkerStep(w), NEW j \in Jobs,
           job'[j] # job[j] \/ attempt'[j] # attempt[j]
    PROVE  \/ ClaimNext(w, j)
           \/ Fenced(w) /\ token[w].job = j /\ job'[j].gen = job[j].gen
<1>1. CASE \E k \in Jobs : ClaimNext(w, k)
  <2>1. PICK k \in Jobs : ClaimNext(w, k)
    BY <1>1
  <2>2. k = j
    BY <2>1 DEF ClaimNext, IInv, TypeOK
  <2> QED
    BY <2>1, <2>2
<1>2. CASE Heartbeat(w)
  <2>1. token[w].job \in Jobs /\ job[token[w].job] \in JobRow
    BY <1>2 DEF Heartbeat, Fenced, IInv, TypeOK, LeaseToken
  <2>2. token[w].job = j
    BY <1>2, <2>1 DEF Heartbeat, IInv, TypeOK
  <2> QED
    BY <1>2, <2>1, <2>2 DEF Heartbeat, IInv, TypeOK, JobRow
<1>3. CASE \E stage \in Stages : AdvanceStage(w, stage)
  <2>1. PICK stage \in Stages : AdvanceStage(w, stage)
    BY <1>3
  <2>2. token[w].job \in Jobs /\ job[token[w].job] \in JobRow
    BY <2>1 DEF AdvanceStage, Fenced, IInv, TypeOK, LeaseToken
  <2>3. token[w].job = j
    BY <2>1, <2>2 DEF AdvanceStage, IInv, TypeOK
  <2> QED
    BY <2>1, <2>2, <2>3 DEF AdvanceStage, IInv, TypeOK, JobRow
<1>4. ASSUME NEW status, NEW retry, Finish(w, status, retry)
      PROVE  Fenced(w) /\ token[w].job = j /\ job'[j].gen = job[j].gen
  <2>1. token[w].job \in Jobs /\ job[token[w].job] \in JobRow
    BY <1>4 DEF Finish, Fenced, IInv, TypeOK, LeaseToken
  <2>2. token[w].job = j
    BY <1>4, <2>1 DEF Finish, IInv, TypeOK
  <2> QED
    BY <1>4, <2>1, <2>2 DEF Finish, IInv, TypeOK, JobRow
<1>5. CASE EndTurn(w)
  BY <1>4, <1>5 DEF EndTurn, Complete, ScheduleRetry, DeadLetter, FailPermanently, Abandon
<1> QED
  BY <1>1, <1>2, <1>3, <1>5
     DEF WorkerStep, Claim, ClaimNothing, BeginTx, AssertOwned, Reconcile, Crash

\* A worker's step ends no transaction but its own.
LEMMA OwnTransaction ==
    ASSUME IInv, NEW v \in Workers, WorkerStep(v), NEW w \in Workers, w # v
    PROVE  txAge'[w] = txAge[w]
<1>1. txAge' = txAge \/ \E t : txAge' = [txAge EXCEPT ![v] = t]
  <2>1. ASSUME NEW status, NEW retry, Finish(v, status, retry)
        PROVE  txAge' = [txAge EXCEPT ![v] = Null]
    BY <2>1 DEF Finish, EndTx
  <2> QED
    BY <2>1 DEF WorkerStep, Claim, ClaimNothing, ClaimNext, BeginTx, AssertOwned, Heartbeat, AdvanceStage,
              EndTurn, Complete, ScheduleRetry, DeadLetter, FailPermanently, Abandon,
              Reconcile, Crash, EndTx
<1> QED
  BY <1>1 DEF IInv, TypeOK

\* A worker's step touches no token but its own.
LEMMA OwnToken ==
    ASSUME IInv, NEW w \in Workers, WorkerStep(w)
    PROVE  \A v \in Workers \ {w} : token'[v] = token[v]
<1>1. token' = token \/ \E t : token' = [token EXCEPT ![w] = t]
  <2>1. ASSUME NEW status, NEW retry, Finish(w, status, retry)
        PROVE  token' = [token EXCEPT ![w] = Null]
    BY <2>1 DEF Finish
  <2>2. CASE EndTurn(w)
    BY <2>1, <2>2 DEF EndTurn, Complete, ScheduleRetry, DeadLetter, FailPermanently, Abandon
  <2>3. CASE Claim(w)
    BY <2>3 DEF Claim, ClaimNothing, ClaimNext
  <2> QED
    BY <2>2, <2>3 DEF WorkerStep, BeginTx, AssertOwned, Heartbeat, AdvanceStage, Reconcile, Crash
<1> QED
  BY <1>1 DEF IInv, TypeOK

\* The token a claim hands out.
LEMMA ClaimToken ==
    ASSUME IInv, NEW w \in Workers, NEW j \in Jobs, ClaimNext(w, j)
    PROVE  /\ token'[w] \in LeaseToken /\ token'[w] # Null
           /\ token'[w].job = j /\ token'[w].gen = job[j].gen + 1
           /\ job'[j].gen = job[j].gen + 1
<1>1. /\ job[j].gen + 1 \in Nat \ {0} /\ job[j].attempts + 1 \in Nat \ {0}
      /\ WorkerId[w] \in Ids /\ job[j] \in JobRow
  BY NullFacts DEF IInv, TypeOK, JobRow
<1>2. token'[w] = [job |-> j, worker |-> WorkerId[w], gen |-> job[j].gen + 1,
                   attempt |-> job[j].attempts + 1]
  BY DEF ClaimNext, IInv, TypeOK
<1>3. token'[w] \in LeaseToken /\ token'[w].job = j /\ token'[w].gen = job[j].gen + 1
  BY <1>1, <1>2 DEF LeaseToken
<1>4. job'[j].gen = job[j].gen + 1
  BY <1>1 DEF ClaimNext, IInv, TypeOK, JobRow
<1> QED
  BY <1>3, <1>4, NullFacts

\* The ways to end a turn drop the token.
LEMMA TurnDropsToken ==
    ASSUME IInv, NEW w \in Workers, EndTurn(w) \/ Crash(w) \/ Reconcile(w)
    PROVE  token'[w] = Null
<1>1. ASSUME NEW status, NEW retry, Finish(w, status, retry)
      PROVE  token' = [token EXCEPT ![w] = Null]
  BY <1>1 DEF Finish
<1>2. token' = [token EXCEPT ![w] = Null]
  BY <1>1 DEF EndTurn, Complete, ScheduleRetry, DeadLetter, FailPermanently, Abandon, Crash,
              Reconcile
<1> QED
  BY <1>2 DEF IInv, TypeOK

\* The generation of a job never goes back.
LEMMA GenGrows ==
    ASSUME IInv, [Next]_vars, NEW j \in Jobs
    PROVE  job[j].gen \in Nat /\ job'[j].gen \in Nat /\ job[j].gen <= job'[j].gen
<1>1. job[j] \in JobRow /\ job[j].gen \in Nat
  BY DEF IInv, TypeOK, JobRow
<1>2. CASE job'[j].gen = job[j].gen
  BY <1>1, <1>2
<1>3. CASE Tick \/ UNCHANGED vars
  <2>1. CASE Tick
    <3>1. job'[j].gen = job[j].gen
      BY <1>1, <2>1 DEF Tick, JobRow
    <3> QED
      BY <1>1, <3>1
  <2>2. CASE UNCHANGED vars
    BY <1>1, <2>2 DEF vars
  <2> QED
    BY <1>3, <2>1, <2>2
<1>4. ASSUME NEW k \in Jobs, CreateOrGet(k) \/ RequestCancel(k)
      PROVE  job'[j].gen = job[j].gen
  <2>1. \/ job' = [job EXCEPT ![k] = [job[k] EXCEPT !.status = "PENDING"]]
        \/ job' = [job EXCEPT ![k] = [job[k] EXCEPT !.cancel = TRUE]]
    BY <1>4 DEF CreateOrGet, RequestCancel
  <2>2. job[k] \in JobRow /\ job \in [Jobs -> JobRow]
    BY DEF IInv, TypeOK
  <2> QED
    BY <1>1, <2>1, <2>2 DEF JobRow
<1>5. ASSUME NEW w \in Workers, WorkerStep(w), job'[j] # job[j]
      PROVE  job'[j].gen = job[j].gen \/ job'[j].gen = job[j].gen + 1
  <2>1. ClaimNext(w, j) => job'[j].gen = job[j].gen + 1
    BY <1>1 DEF ClaimNext, IInv, TypeOK, JobRow
  <2> QED
    BY <1>5, <2>1, RowChange
<1> QED
  BY <1>1, <1>2, <1>3, <1>4, <1>5 DEF Next

\* A terminal job and its ledger never change again: no late worker, reclaim
\* or retry reopens it (coordinator.claim_next, complete, retry_policy.handle).
THEOREM TerminalStaysFinal == Spec => TerminalIsFinal
<1> DEFINE A == \A j \in Jobs : job[j].status \in Terminal =>
                    job'[j] = job[j] /\ attempt'[j] = attempt[j]
<1>1. ASSUME IInv, [Next]_vars PROVE [A]_vars
  <2> SUFFICES ASSUME NEW j \in Jobs, job[j].status \in Terminal
               PROVE  job'[j] = job[j] /\ attempt'[j] = attempt[j]
    OBVIOUS
  <2>1. ASSUME NEW w \in Workers, WorkerStep(w)
        PROVE  job'[j] = job[j] /\ attempt'[j] = attempt[j]
    BY <1>1, <2>1, RowChange DEF ClaimNext, Runnable, Fenced, Terminal
  <2>2. ASSUME NEW k \in Jobs, CreateOrGet(k) \/ RequestCancel(k)
        PROVE  job'[j] = job[j] /\ attempt'[j] = attempt[j]
    BY <1>1, <2>2 DEF CreateOrGet, RequestCancel, Terminal, Active, IInv, TypeOK
  <2>3. CASE Tick
    <3>1. job[j] \in JobRow /\ job[j].leaseLeft = Null /\ job[j].retryLeft = Null
      BY <1>1 DEF IInv, TypeOK, LeaseColumns, Terminal
    <3>2. job'[j] = [job[j] EXCEPT !.leaseLeft = Null, !.retryLeft = Null]
      BY <2>3, <3>1 DEF Tick, Elapse
    <3>3. \A r \in JobRow : r.leaseLeft = Null /\ r.retryLeft = Null =>
             [r EXCEPT !.leaseLeft = Null, !.retryLeft = Null] = r
      BY DEF JobRow
    <3> QED
      BY <2>3, <3>1, <3>2, <3>3 DEF Tick
  <2>4. CASE UNCHANGED vars
    BY <2>4 DEF vars
  <2> QED
    BY <1>1, <2>1, <2>2, <2>3, <2>4 DEF Next
<1> QED
  BY <1>1, Invariance, PTL DEF Spec, TerminalIsFinal

\* Only the holder of the current generation commits a change of a job row
\* (coordinator._fencing_predicate, durable_append_delivery.assert_owned).
THEOREM StaleWorkersChangeNothing == Spec => OnlyTheOwnerMutates
<1> DEFINE A == \A w \in Workers, j \in Jobs : Commits(w, j) =>
                    /\ token[w] # Null
                    /\ token[w].job = j
                    /\ token[w].attempt = Len(attempt[j])
                    /\ attempt[j][Len(attempt[j])].gen = token[w].gen
<1>1. ASSUME IInv, [Next]_vars PROVE [A]_vars
  <2> SUFFICES ASSUME NEW w \in Workers, NEW j \in Jobs, Commits(w, j)
               PROVE  /\ token[w] # Null
                      /\ token[w].job = j
                      /\ token[w].attempt = Len(attempt[j])
                      /\ attempt[j][Len(attempt[j])].gen = token[w].gen
    OBVIOUS
  <2>1. txAge'[w] # txAge[w] /\ job'[j] # job[j] /\ txAge[w] # Null /\ txAge'[w] = Null
    BY DEF Commits
  <2>2. ~Tick
    <3> SUFFICES ASSUME Tick PROVE FALSE
      OBVIOUS
    <3>1. txAge[w] \in 0..MaxTxAge /\ txAge'[w] = txAge[w] + 1
      BY <1>1, <2>1 DEF IInv, TypeOK, Tick
    <3> QED
      BY <2>1, <3>1, NullFacts
  <2>3. WorkerStep(w)
    <3>1. ~\E k \in Jobs : CreateOrGet(k) \/ RequestCancel(k)
      BY <2>1 DEF CreateOrGet, RequestCancel
    <3>2. ~UNCHANGED vars
      BY <2>1 DEF vars
    <3>3. PICK v \in Workers : WorkerStep(v)
      BY <1>1, <2>2, <3>1, <3>2 DEF Next
    <3> QED
      BY <1>1, <2>1, <3>3, OwnTransaction
  <2>4. ~ClaimNext(w, j)
    <3> SUFFICES ASSUME ClaimNext(w, j) PROVE FALSE
      OBVIOUS
    <3>1. job[j] \in JobRow
      BY <1>1 DEF IInv, TypeOK
    <3>2. job[j].gen \in Nat /\ job'[j].gen = job[j].gen + 1
      BY <1>1, <3>1 DEF ClaimNext, IInv, TypeOK, JobRow
    <3> QED
      BY <3>2 DEF Commits
  <2>5. Fenced(w) /\ token[w].job = j
    BY <1>1, <2>1, <2>3, <2>4, RowChange
  <2>6. /\ token[w] # Null /\ token[w] \in LeaseToken
        /\ token[w].attempt = token[w].gen /\ job[j].gen = token[w].gen
    BY <1>1, <2>5 DEF Fenced, IInv, TypeOK, TokensAreClaims
  <2>7. Len(attempt[j]) = job[j].gen /\ token[w].gen \in Nat \ {0}
    BY <1>1, <2>6 DEF IInv, LedgerConsistent, LeaseToken
  <2>8. Len(attempt[j]) \in 1..Len(attempt[j])
    BY <2>6, <2>7
  <2> QED
    BY <1>1, <2>5, <2>6, <2>7, <2>8 DEF IInv, LedgerConsistent
<1> QED
  BY <1>1, Invariance, PTL DEF Spec, OnlyTheOwnerMutates

\* A job changes hands only after its lease, or its retry delay, has passed by
\* the current time, although claim_next judges both by the start time of its
\* transaction.
THEOREM ClaimsAreDue == Spec => ClaimIsDue
<1> DEFINE A == \A j \in Jobs : job'[j].gen # job[j].gen =>
                    /\ job'[j].gen = job[j].gen + 1
                    /\ job[j].status = "PROCESSING" => job[j].leaseLeft < 0
                    /\ job[j].status = "RETRY_WAIT" => job[j].retryLeft <= 0
<1>1. ASSUME IInv, [Next]_vars PROVE [A]_vars
  <2> SUFFICES ASSUME NEW j \in Jobs, job'[j].gen # job[j].gen
               PROVE  /\ job'[j].gen = job[j].gen + 1
                      /\ job[j].status = "PROCESSING" => job[j].leaseLeft < 0
                      /\ job[j].status = "RETRY_WAIT" => job[j].retryLeft <= 0
    OBVIOUS
  <2>1. job[j] \in JobRow
    BY <1>1 DEF IInv, TypeOK
  <2>2. ASSUME NEW k \in Jobs, CreateOrGet(k) \/ RequestCancel(k) PROVE FALSE
    <3>1. k = j
      BY <1>1, <2>2 DEF CreateOrGet, RequestCancel, IInv, TypeOK
    <3>2. \/ job'[j] = [job[j] EXCEPT !.status = "PENDING"]
          \/ job'[j] = [job[j] EXCEPT !.cancel = TRUE]
      BY <1>1, <2>2, <3>1 DEF CreateOrGet, RequestCancel, IInv, TypeOK
    <3> QED
      BY <2>1, <3>2 DEF JobRow
  <2>3. ~Tick
    BY <2>1 DEF Tick, JobRow
  <2>4. ~UNCHANGED vars
    BY DEF vars
  <2>5. PICK w \in Workers : WorkerStep(w)
    BY <1>1, <2>2, <2>3, <2>4 DEF Next
  <2>6. ClaimNext(w, j)
    BY <1>1, <2>5, RowChange
  <2>7. job'[j].gen = job[j].gen + 1
    BY <1>1, <2>1, <2>6 DEF ClaimNext, IInv, TypeOK, JobRow
  <2>8. txAge[w] \in 0..MaxTxAge /\ Runnable(j, txAge[w])
    BY <1>1, <2>6 DEF ClaimNext, IInv, TypeOK
  <2>9. job[j].status = "PROCESSING" => job[j].leaseLeft < 0
    <3>1. job[j].leaseLeft \in Times \cup {Null}
      BY <2>1 DEF JobRow
    <3> QED
      BY <2>8, <3>1, QueueAssumption DEF Runnable, Times, Floor
  <2>10. job[j].status = "RETRY_WAIT" => job[j].retryLeft <= 0
    <3>1. job[j].status = "RETRY_WAIT" => job[j].retryLeft \in Times
      BY <1>1, <2>1 DEF JobRow, IInv, LeaseColumns
    <3> QED
      BY <2>8, <3>1, NullFacts, QueueAssumption DEF Runnable, Times, Floor
  <2> QED
    BY <2>7, <2>9, <2>10
<1> QED
  BY <1>1, Invariance, PTL DEF Spec, ClaimIsDue

-----------------------------------------------------------------------------
(* The queue implements the lifecycle it promises producers.               *)

\* A function that differs from another at one place only.
LEMMA DifferAtOne ==
    ASSUME NEW S, NEW f, NEW g, NEW j \in S, NEW x,
           f = [k \in S |-> f[k]], g = [k \in S |-> g[k]],
           f[j] = x, \A k \in S : k # j => f[k] = g[k]
    PROVE  f = [g EXCEPT ![j] = x]
OBVIOUS

\* What a producer can tell of the rows.
StatusOf == [k \in Jobs |-> job[k].status]
TriesOf  == [k \in Jobs |-> job[k].attempts]

\* A step that changes one row changes one status and one attempt count.
LEMMA OneRowChanges ==
    ASSUME NEW j \in Jobs, \A k \in Jobs : k # j => job'[k] = job[k]
    PROVE  /\ StatusOf' = [StatusOf EXCEPT ![j] = job'[j].status]
           /\ TriesOf' = [TriesOf EXCEPT ![j] = job'[j].attempts]
<1>1. /\ StatusOf' = [k \in Jobs |-> StatusOf'[k]] /\ StatusOf = [k \in Jobs |-> StatusOf[k]]
      /\ StatusOf'[j] = job'[j].status /\ \A k \in Jobs : k # j => StatusOf'[k] = StatusOf[k]
  BY DEF StatusOf
<1>2. /\ TriesOf' = [k \in Jobs |-> TriesOf'[k]] /\ TriesOf = [k \in Jobs |-> TriesOf[k]]
      /\ TriesOf'[j] = job'[j].attempts /\ \A k \in Jobs : k # j => TriesOf'[k] = TriesOf[k]
  BY DEF TriesOf
<1> QED
  BY <1>1, <1>2, DifferAtOne

\* A step that leaves every status and every attempt count alone is invisible.
LEMMA Invisible ==
    ASSUME \A k \in Jobs : /\ job'[k].status = job[k].status
                           /\ job'[k].attempts = job[k].attempts
    PROVE  UNCHANGED Lifecycle!lifecycleVars
<1>1. [k \in Jobs |-> job'[k].status] = [k \in Jobs |-> job[k].status]
  OBVIOUS
<1>2. [k \in Jobs |-> job'[k].attempts] = [k \in Jobs |-> job[k].attempts]
  OBVIOUS
<1> QED
  BY <1>1, <1>2 DEF Lifecycle!lifecycleVars

\* A producer's step submits a job whose document version is free.
LEMMA ProducerRefines ==
    ASSUME IInv, NEW j \in Jobs, CreateOrGet(j) \/ RequestCancel(j)
    PROVE  [Lifecycle!LifecycleNext]_(Lifecycle!lifecycleVars)
<1>0. TypeOK /\ job[j] \in JobRow
  BY DEF IInv, TypeOK
<1>1. CASE CreateOrGet(j)
  <2> DEFINE row == [job[j] EXCEPT !.status = "PENDING"]
  <2>1. job' = [job EXCEPT ![j] = row] /\ job[j].status = "ABSENT" /\ VersionIsFree(j)
    BY <1>1 DEF CreateOrGet
  <2>2. row.status = "PENDING" /\ row.attempts = job[j].attempts
    BY <1>0 DEF JobRow
  <2> HIDE DEF row
  <2>3. /\ StatusOf' = [StatusOf EXCEPT ![j] = "PENDING"]
        /\ TriesOf' = [TriesOf EXCEPT ![j] = job[j].attempts]
    <3>1. job'[j] = row /\ \A k \in Jobs : k # j => job'[k] = job[k]
      BY <1>0, <2>1 DEF TypeOK
    <3> QED
      BY <2>2, <3>1, OneRowChanges
  <2>4. Lifecycle!Submitted(j)
    BY <2>1, <2>3 DEF StatusOf, TriesOf, Lifecycle!Submitted, Lifecycle!Unsettled, Lifecycle!Waiting, VersionIsFree, Active
  <2> QED
    BY <2>4 DEF Lifecycle!LifecycleNext
<1>2. CASE RequestCancel(j)
  <2>1. \A k \in Jobs : job'[k].status = job[k].status /\ job'[k].attempts = job[k].attempts
    BY <1>0, <1>2 DEF RequestCancel, TypeOK, JobRow
  <2> QED
    BY <2>1, Invisible
<1> QED
  BY <1>1, <1>2

\* A claim starts an attempt within the budget.
LEMMA ClaimRefines ==
    ASSUME IInv, NEW w \in Workers, NEW j \in Jobs, ClaimNext(w, j)
    PROVE  Lifecycle!LifecycleNext
<1> DEFINE row == [job[j] EXCEPT !.status = "PROCESSING", !.worker = WorkerId[w],
                                 !.gen = job[j].gen + 1, !.attempts = job[j].attempts + 1,
                                 !.leaseLeft = LeaseSeconds - txAge[w],
                                 !.retryLeft = Null]
<1>1. job' = [job EXCEPT ![j] = row] /\ Runnable(j, txAge[w])
  BY DEF ClaimNext
<1>2. TypeOK /\ job[j] \in JobRow
  BY DEF IInv, TypeOK
<1>3. row.status = "PROCESSING" /\ row.attempts = job[j].attempts + 1
  BY <1>2 DEF JobRow
<1> HIDE DEF row
<1>4. /\ StatusOf' = [StatusOf EXCEPT ![j] = "PROCESSING"]
      /\ TriesOf' = [TriesOf EXCEPT ![j] = job[j].attempts + 1]
  <2>1. job'[j] = row /\ \A k \in Jobs : k # j => job'[k] = job[k]
    BY <1>1, <1>2 DEF TypeOK
  <2> QED
    BY <1>2, <1>3, <2>1, OneRowChanges
<1>5. Lifecycle!Started(j)
  BY <1>1, <1>4 DEF StatusOf, TriesOf, Lifecycle!Started, Lifecycle!Unsettled, Lifecycle!Waiting, Runnable
<1> QED
  BY <1>5 DEF Lifecycle!LifecycleNext

\* A finished turn ends the attempt; its verdict agrees with the budget.
LEMMA FinishRefines ==
    ASSUME IInv, NEW w \in Workers,
           NEW status \in {"COMPLETED", "RETRY_WAIT", "FAILED", "DEAD_LETTER"}, NEW retry,
           status = "RETRY_WAIT" => HasBudget(w),
           status = "DEAD_LETTER" => ~HasBudget(w),
           Finish(w, status, retry)
    PROVE  Lifecycle!LifecycleNext
<1> DEFINE j == token[w].job
           row == [job[j] EXCEPT !.status = status, !.worker = Null,
                                 !.leaseLeft = Null, !.retryLeft = retry]
<1>1. job' = [job EXCEPT ![j] = row] /\ token[w] # Null /\ job[j].status = "PROCESSING"
  BY DEF Finish, Fenced
<1>2. TypeOK /\ j \in Jobs /\ job[j] \in JobRow
  BY <1>1 DEF IInv, TypeOK, LeaseToken
<1>3. row.status = status /\ row.attempts = job[j].attempts
  BY <1>2 DEF JobRow
<1>4. /\ status = "RETRY_WAIT" => job[j].attempts < MaxAttempts[j]
      /\ status = "DEAD_LETTER" => job[j].attempts = MaxAttempts[j]
  <2>1. job[j].attempts \in Nat /\ MaxAttempts[j] \in Nat /\ job[j].attempts <= MaxAttempts[j]
    BY <1>2, QueueAssumption DEF TypeOK, JobRow
  <2> QED
    BY <2>1 DEF HasBudget
<1> HIDE DEF row, j
<1>5. /\ StatusOf' = [StatusOf EXCEPT ![j] = status]
      /\ TriesOf' = [TriesOf EXCEPT ![j] = job[j].attempts]
  <2>1. job'[j] = row /\ \A k \in Jobs : k # j => job'[k] = job[k]
    BY <1>1, <1>2 DEF TypeOK
  <2> QED
    BY <1>2, <1>3, <2>1, OneRowChanges
<1>6. Lifecycle!Ended(j, status)
  BY <1>1, <1>2, <1>4, <1>5 DEF StatusOf, TriesOf, Lifecycle!Ended
<1> QED
  BY <1>2, <1>6 DEF Lifecycle!LifecycleNext

\* Every step of the queue is one a producer was promised, or invisible.
LEMMA LifecycleStep ==
    IInv /\ [Next]_vars => [Lifecycle!LifecycleNext]_(Lifecycle!lifecycleVars)
<1> SUFFICES ASSUME IInv, [Next]_vars
             PROVE  [Lifecycle!LifecycleNext]_(Lifecycle!lifecycleVars)
  OBVIOUS
<1>1. ASSUME NEW j \in Jobs, CreateOrGet(j) \/ RequestCancel(j)
      PROVE  [Lifecycle!LifecycleNext]_(Lifecycle!lifecycleVars)
  BY <1>1, ProducerRefines
<1>2. ASSUME NEW w \in Workers, WorkerStep(w)
      PROVE  [Lifecycle!LifecycleNext]_(Lifecycle!lifecycleVars)
  <2>1. CASE \E j \in Jobs : ClaimNext(w, j)
    BY <2>1, ClaimRefines
  <2>2. CASE Complete(w)
    BY <2>2, FinishRefines DEF Complete
  <2>3. CASE ScheduleRetry(w)
    BY <2>3, FinishRefines DEF ScheduleRetry
  <2>4. CASE DeadLetter(w)
    BY <2>4, FinishRefines DEF DeadLetter
  <2>5. CASE FailPermanently(w)
    BY <2>5, FinishRefines DEF FailPermanently
  <2>6. CASE Heartbeat(w) \/ \E stage \in Stages : AdvanceStage(w, stage)
    <3>1. token[w].job \in Jobs /\ job[token[w].job] \in JobRow
      BY <2>6 DEF Heartbeat, AdvanceStage, Fenced, IInv, TypeOK, LeaseToken
    <3>2. \A k \in Jobs : job'[k].status = job[k].status /\ job'[k].attempts = job[k].attempts
      <4>1. CASE Heartbeat(w)
        BY <4>1, <3>1 DEF Heartbeat, IInv, TypeOK, JobRow
      <4>2. CASE \E stage \in Stages : AdvanceStage(w, stage)
        BY <4>2, <3>1 DEF AdvanceStage, IInv, TypeOK, JobRow
      <4> QED
        BY <2>6, <4>1, <4>2
    <3> QED
      BY <3>2, Invisible
  <2>7. CASE UNCHANGED job
    BY <2>7, Invisible
  <2> QED
    BY <1>2, <2>1, <2>2, <2>3, <2>4, <2>5, <2>6, <2>7
       DEF WorkerStep, Claim, ClaimNothing, BeginTx, AssertOwned, EndTurn, Abandon,
           Reconcile, Crash
<1>3. CASE Tick
  <2>1. \A k \in Jobs : job'[k].status = job[k].status /\ job'[k].attempts = job[k].attempts
    BY <1>3 DEF Tick, IInv, TypeOK, JobRow
  <2> QED
    BY <2>1, Invisible
<1>4. CASE UNCHANGED vars
  BY <1>4, Invisible DEF vars
<1> QED
  BY <1>1, <1>2, <1>3, <1>4 DEF Next

\* The queue implements JobLifecycle for every number of jobs and workers: a
\* producer sees a job move only along the promised edges, with the budget
\* spent exactly when it is dead-lettered (create_or_get, claim_next, complete
\* and the failure handler).
THEOREM LifecycleRefinement == Spec => LifecycleSpec
<1>1. Init => Lifecycle!LifecycleInit
  BY DEF Init, NoRow, Lifecycle!LifecycleInit
<1> QED
  BY <1>1, LifecycleStep, Invariance, PTL DEF Spec, LifecycleSpec, Lifecycle!LifecycleSpec
=============================================================================
