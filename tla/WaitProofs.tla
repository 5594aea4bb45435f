----------------------------- MODULE WaitProofs -----------------------------
(***************************************************************************)
(* Proofs about TableWaits: the lag gate and the retries of one table      *)
(* after another, for every number of tables, every budget, poll interval, *)
(* number of retries and delay.                                            *)
(***************************************************************************)
EXTENDS TableWaits, FiniteSetTheorems, TLAPS

InGate == pc \notin {"next", "end"}

(* Where the clock can be at each point of the gate, and which tables have *)
(* been decided.                                                           *)
GateInv ==
    /\ G!TypeOK
    /\ pc = "next" => remainingPasses = 0
    /\ InGate => remainingPasses > 0 /\ tables_skipped + left < Tables /\ skips + left < Tables
    /\ tables_skipped + left <= Tables /\ skips + left <= Tables
    /\ pc \in {"budget", "sleep", "observe"} => elapsed <= max_wait

(* Every wait is added to the total before its verdict is acted on.        *)
TotalsInv ==
    /\ G!TotalsHonest
    /\ verdict = "error" => pc = "end"

(* A call that is over has taken its share of a table's time at most.      *)
BudgetInv ==
    /\ InGate => tableWait <= (passes - remainingPasses) * G!Longest
    /\ tableWait <= passes * G!Longest
    /\ verdict = "skip" /\ ~InGate => elapsed >= max_wait

(* Nobody sleeps who has slept through a signal.                           *)
SignalInv ==
    /\ deaf <= 1
    /\ ~shutdown \/ pc = "sleep" => deaf = 0

(* The operation's counters, and where one begun late can be.              *)
RetryInv ==
    /\ L!TypeOK
    /\ op # "return" => pc = "next" /\ verdict = "proceed"
    /\ op \in {"op", "sleep"} => runs = attempt
    /\ op = "failed" => runs = attempt + 1
    /\ late \in 0..1
    /\ ~shutdown \/ InGate \/ op \in {"op", "sleep"} => late = 0

(* The delay after k retries, short of saturation, and the sum of those    *)
(* before it.                                                              *)
SleptThrough(k) == delay_ms = first * 2^k /\ waited = first * (2^k - 1)

(* The retry that is slept before is counted already.                      *)
DelayInv ==
    /\ op \in {"op", "failed"} => SleptThrough(attempt)
    /\ op = "sleep" => attempt > 0 /\ SleptThrough(attempt - 1)

WaitInv == GateInv /\ TotalsInv /\ BudgetInv /\ SignalInv /\ RetryInv /\ DelayInv

-----------------------------------------------------------------------------
(* Powers of two, of which the provers know nothing.                       *)

(* An interval of length n has 2^n subsets: what the library says of a      *)
(* power, and all that is needed of it.                                    *)
LEMMA PowerIsCardinality ==
  ASSUME NEW n \in Nat
  PROVE  /\ IsFiniteSet(SUBSET (1..n)) /\ Cardinality(SUBSET (1..n)) = 2^n
  <1>1. IsFiniteSet(1..n) /\ Cardinality(1..n) = n
    BY FS_Interval
  <1> QED
    BY <1>1, FS_SUBSET

(* Before the first retry the delay was doubled no time at all.            *)
LEMMA PowerOfZero == 2^0 = 1
  <1>1. SUBSET (1..0) = {{}}
    OBVIOUS
  <1>2. Cardinality({{}}) = 1
    BY FS_Singleton
  <1> QED
    BY <1>1, <1>2, PowerIsCardinality

(* One retry more doubles the delay: half the subsets of 1..n + 1 hold     *)
(* n + 1, each a subset of 1..n without it.                                *)
LEMMA PowerDoubles ==
  ASSUME NEW n \in Nat
  PROVE  2^n \in Nat /\ 2^(n + 1) = 2 * 2^n
  <1> DEFINE S == SUBSET (1..n)
             x == n + 1
             T == {s \cup {x} : s \in S}
             f == [s \in S |-> s \cup {x}]
  <1>1. IsFiniteSet(S) /\ Cardinality(S) = 2^n /\ Cardinality(S) \in Nat
    BY PowerIsCardinality, FS_CardinalityType
  <1>2. SUBSET (1..x) = S \cup T
    <2>1. ASSUME NEW s \in SUBSET (1..x) PROVE s \in S \cup T
      <3>1. CASE x \in s
        <4>1. s \ {x} \in S /\ s = (s \ {x}) \cup {x}
          BY <3>1
        <4> QED
          BY <4>1
      <3>2. CASE x \notin s
        BY <3>2
      <3> QED
        BY <3>1, <3>2
    <2>2. ASSUME NEW s \in S \cup T PROVE s \in SUBSET (1..x)
      OBVIOUS
    <2> QED
      BY <2>1, <2>2
  <1>3. S \cap T = {}
    <2>1. \A s \in T : x \in s
      OBVIOUS
    <2>2. \A s \in S : x \notin s
      OBVIOUS
    <2> QED
      BY <2>1, <2>2
  <1>4. IsFiniteSet(T) /\ Cardinality(T) = Cardinality(S)
    <2>1. f \in Bijection(S, T)
      <3>1. f \in [S -> T]
        OBVIOUS
      <3>2. ASSUME NEW s \in S, NEW t \in S, f[s] = f[t] PROVE s = t
        <4>1. x \notin s /\ x \notin t
          OBVIOUS
        <4>2. s = (s \cup {x}) \ {x} /\ t = (t \cup {x}) \ {x}
          BY <4>1
        <4>3. s \cup {x} = t \cup {x}
          BY <3>2
        <4> QED
          BY <4>2, <4>3
      <3>3. \A t \in T : \E s \in S : f[s] = t
        OBVIOUS
      <3> QED
        BY <3>1, <3>2, <3>3 DEF Bijection, Injection, Surjection, IsInjective
    <2> QED
      BY <1>1, <2>1, FS_Bijection DEF ExistsBijection
  <1>5. Cardinality(S \cup T) = Cardinality(S) + Cardinality(T) - Cardinality(S \cap T)
    BY <1>1, <1>4, FS_Union
  <1>6. Cardinality(S \cap T) = 0
    BY <1>3, FS_EmptySet
  <1>7. Cardinality(SUBSET (1..x)) = 2^x
    BY PowerIsCardinality
  <1>8. Cardinality(S \cup T) = 2 * Cardinality(S)
    <2> HIDE DEF S, T
    <2> QED
      BY <1>1, <1>4, <1>5, <1>6
  <1> QED
    BY <1>1, <1>2, <1>7, <1>8, Zenon

(* The delay before an earlier retry is no longer than before a later one. *)
LEMMA PowerGrows ==
  ASSUME NEW m \in Nat, NEW n \in Nat, m <= n
  PROVE  2^m <= 2^n
  <1>1. SUBSET (1..m) \subseteq SUBSET (1..n)
    OBVIOUS
  <1>2. Cardinality(SUBSET (1..m)) <= Cardinality(SUBSET (1..n))
    BY <1>1, PowerIsCardinality, FS_Subset
  <1> QED
    BY <1>2, PowerIsCardinality, Zenon

-----------------------------------------------------------------------------
(* The budgets, delays and numbers of retries are those the command line   *)
(* can give.                                                               *)
LEMMA Parameters ==
  /\ Budgets \subseteq Nat /\ Poll \in Nat \ {0} /\ QueryTime \in Nat
  /\ Tables \in Nat /\ PassesPerTable \subseteq Nat \ {0}
  /\ MaxRetries \in Nat /\ Retries \subseteq 0..MaxRetries
  /\ MaxDelay \in Nat \ {0} /\ Delays \subseteq 1..MaxDelay
  /\ DelayCap \in Nat /\ MaxDelay <= DelayCap
  <1>1. /\ MaxRetries \in Nat /\ MaxDelay \in Nat \ {0} /\ DelayCap \in Nat
        /\ MaxDelay * 2^MaxRetries <= DelayCap
    BY ParametersAssumption DEF L!RetryParameters
  <1>2. 1 <= 2^MaxRetries /\ 2^MaxRetries \in Nat
    <2>1. 0 <= MaxRetries
      BY <1>1
    <2>2. 2^0 <= 2^MaxRetries /\ 2^MaxRetries \in Nat
      BY <1>1, <2>1, PowerDoubles, PowerGrows
    <2> QED
      BY <2>2, PowerOfZero, Zenon
  <1>3. \A d, q \in Nat : 1 <= q => d <= d * q
    OBVIOUS
  <1>4. MaxDelay <= DelayCap
    BY <1>1, <1>2, <1>3
  <1> QED
    BY <1>4, ParametersAssumption DEF G!GateParameters, L!RetryParameters

(* No policy saturates the delay: --lock-timeout-retry-delay-ms and        *)
(* --lock-timeout-retries are both too small.                              *)
LEMMA Unsaturated ==
  ASSUME NEW d \in Delays, NEW r \in Retries, NEW k \in 0..r
  PROVE  d * 2^k <= DelayCap
  <1>1. /\ k \in Nat /\ MaxRetries \in Nat /\ k <= MaxRetries
        /\ d \in Nat /\ MaxDelay \in Nat /\ d <= MaxDelay /\ DelayCap \in Nat
    BY Parameters
  <1>2. 2^k \in Nat /\ 2^MaxRetries \in Nat /\ 2^k <= 2^MaxRetries
    BY <1>1, PowerDoubles, PowerGrows
  <1>3. \A a, b, p, q \in Nat : a <= b /\ p <= q => a * p <= b * q
    <2>1. \A a, b, p \in Nat : a <= b => a * p <= b * p
      OBVIOUS
    <2>2. \A b, p, q \in Nat : p <= q => b * p <= b * q
      OBVIOUS
    <2> QED
      BY <2>1, <2>2
  <1>4. d * 2^k <= MaxDelay * 2^MaxRetries
    BY <1>1, <1>2, <1>3
  <1>5. MaxDelay * 2^MaxRetries <= DelayCap
    BY ParametersAssumption DEF L!RetryParameters
  <1> QED
    BY <1>1, <1>2, <1>4, <1>5

(* Before the first table nothing was waited for.                          *)
LEMMA InitEstablishes == Init => WaitInv
  <1> SUFFICES ASSUME Init PROVE WaitInv
    OBVIOUS
  <1> USE Parameters DEF Init, G!Init, L!Init, InGate
  <1>1. GateInv
    <2>1. max_wait \in Nat /\ passes \in Nat
      OBVIOUS
    <2>2. elapsed \in 0..G!Longest /\ sleeping \in 0..max_wait /\ remainingPasses \in 0..passes
      BY <2>1 DEF G!Longest
    <2>3. left \in 0..Tables /\ tables_skipped \in 0..Tables /\ skips \in 0..Tables
      OBVIOUS
    <2>4. G!TypeOK
      BY <2>2, <2>3 DEF G!TypeOK, G!Verdicts
    <2> QED
      BY <2>4 DEF GateInv
  <1>2. TotalsInv /\ SignalInv
    BY DEF TotalsInv, G!TotalsHonest, SignalInv
  <1>3. BudgetInv
    <2>1. passes \in Nat /\ G!Longest \in Nat
      BY DEF G!Longest
    <2>2. 0 <= passes * G!Longest
      BY <2>1
    <2> QED
      BY <2>2 DEF BudgetInv
  <1>4. RetryInv
    <2>1. retries \in Nat /\ first \in Nat /\ first <= DelayCap
      OBVIOUS
    <2>2. attempt \in 0..retries /\ delay_ms \in first..DelayCap /\ runs \in 0..retries + 1
      BY <2>1
    <2>3. L!TypeOK
      BY <2>2 DEF L!TypeOK, L!Results
    <2> QED
      BY <2>3 DEF RetryInv
  <1>5. DelayInv
    BY DEF DelayInv
  <1> QED
    BY <1>1, <1>2, <1>3, <1>4, <1>5 DEF WaitInv

-----------------------------------------------------------------------------
(* The gate's steps.                                                       *)
LEMMA GateKeepsTypes == GateInv /\ TotalsInv /\ G!Step => GateInv'
  <1> SUFFICES ASSUME GateInv, TotalsInv, G!Step PROVE GateInv'
    OBVIOUS
  <1> USE Parameters DEF GateInv, TotalsInv, InGate, G!TypeOK, G!Longest, G!Verdicts, G!config, G!gate, G!clock, G!history
  <1>1. CASE G!NextTable
    BY <1>1 DEF G!NextTable
  <1>2. CASE G!Disabled
    BY <1>2 DEF G!Disabled, G!Return
  <1>3. CASE G!FirstLook
    BY <1>3 DEF G!FirstLook, G!Return, G!Observations
  <1>4. CASE G!Budget
    BY <1>4 DEF G!Budget, G!GiveUp, G!Waited, G!Return, G!SleepUntil, G!Least
  <1>5. CASE G!Tick
    BY <1>5 DEF G!Tick
  <1>6. CASE G!Interrupted
    BY <1>6 DEF G!Interrupted, G!Waited, G!Return
  <1>7. CASE G!Observe
    BY <1>7 DEF G!Observe, G!Waited, G!Return
  <1>8. CASE G!StillLagging
    BY <1>8 DEF G!StillLagging, G!GiveUp, G!Waited, G!Return
  <1>9. CASE G!QueryFails
    BY <1>9 DEF G!QueryFails, G!Waited, G!Return
  <1> QED
    BY <1>1, <1>2, <1>3, <1>4, <1>5, <1>6, <1>7, <1>8, <1>9 DEF G!Step

(* wait_for_replica_lag adds to the totals what it waited, and a skip when *)
(* it gives up.                                                            *)
LEMMA GateKeepsTotals == GateInv /\ TotalsInv /\ G!Step => TotalsInv'
  <1> SUFFICES ASSUME GateInv, TotalsInv, G!Step PROVE TotalsInv'
    OBVIOUS
  <1>1. elapsed \in Int /\ total_waited \in Int /\ tables_skipped \in Int /\ skips \in Int
    BY Parameters DEF GateInv, G!TypeOK, G!Longest
  <1> USE DEF TotalsInv, G!TotalsHonest, G!config, G!gate, G!clock, G!history
  <1>2. CASE G!NextTable
    BY <1>2 DEF G!NextTable
  <1>3. CASE G!Disabled
    BY <1>3 DEF G!Disabled, G!Return
  <1>4. CASE G!FirstLook
    BY <1>1, <1>4 DEF G!FirstLook, G!Return
  <1>5. CASE G!Budget
    BY <1>1, <1>5 DEF G!Budget, G!GiveUp, G!Waited, G!Return
  <1>6. CASE G!Tick
    BY <1>6 DEF G!Tick
  <1>7. CASE G!Interrupted
    BY <1>1, <1>7 DEF G!Interrupted, G!Waited, G!Return
  <1>8. CASE G!Observe
    BY <1>1, <1>8 DEF G!Observe, G!Waited, G!Return
  <1>9. CASE G!StillLagging
    BY <1>1, <1>9 DEF G!StillLagging, G!GiveUp, G!Waited, G!Return
  <1>10. CASE G!QueryFails
    BY <1>10 DEF G!QueryFails, G!Return
  <1> QED
    BY <1>2, <1>3, <1>4, <1>5, <1>6, <1>7, <1>8, <1>9, <1>10 DEF G!Step

(* wait_for_replica_lag looks at the shutdown flag every second.           *)
LEMMA GateKeepsSignal == GateInv /\ SignalInv /\ G!Step => SignalInv'
  <1> SUFFICES ASSUME GateInv, SignalInv, G!Step PROVE SignalInv'
    OBVIOUS
  <1> USE DEF SignalInv, G!history
  <1>1. CASE G!Tick
    <2>1. elapsed \in Int /\ sleeping \in Int /\ shutdown \in BOOLEAN /\ deaf = 0
      BY <1>1, Parameters DEF GateInv, G!TypeOK, G!Longest, G!Tick
    <2> QED
      BY <1>1, <2>1 DEF G!Tick, G!StillAsleep
  <1>2. CASE G!Budget
    BY <1>2 DEF G!Budget, G!GiveUp, G!Return
  <1>3. CASE UNCHANGED << deaf, shutdown >> /\ pc' # "sleep"
    BY <1>3
  <1>4. CASE G!NextTable
    BY <1>3, <1>4 DEF G!NextTable
  <1>5. CASE G!Disabled \/ G!Interrupted \/ G!QueryFails
    BY <1>3, <1>5 DEF G!Disabled, G!Interrupted, G!QueryFails, G!Return
  <1>6. CASE G!FirstLook
    BY <1>3, <1>6 DEF G!FirstLook, G!Return
  <1>7. CASE G!Observe \/ G!StillLagging
    BY <1>3, <1>7 DEF G!Observe, G!StillLagging, G!GiveUp, G!Return
  <1> QED
    BY <1>1, <1>2, <1>4, <1>5, <1>6, <1>7 DEF G!Step

(* A call adds nothing to its table's wait before it ends, and then the    *)
(* budget and a read at most.                                              *)
LEMMA CallAdds ==
  ASSUME GateInv, TotalsInv, G!Step, ~G!NextTable
  PROVE  /\ InGate /\ UNCHANGED << max_wait, passes >>
         /\ tableWait' = tableWait \/ \E w \in 0..G!Longest : tableWait' = tableWait + w
         /\ \/ UNCHANGED << tableWait, remainingPasses >>
            \/ remainingPasses' = remainingPasses - 1
            \/ ~InGate'
         /\ ~InGate' /\ verdict' = "skip" => elapsed' >= max_wait
  <1> DEFINE Goal ==
         /\ InGate /\ UNCHANGED << max_wait, passes >>
         /\ tableWait' = tableWait \/ \E w \in 0..G!Longest : tableWait' = tableWait + w
         /\ \/ UNCHANGED << tableWait, remainingPasses >>
            \/ remainingPasses' = remainingPasses - 1
            \/ ~InGate'
         /\ ~InGate' /\ verdict' = "skip" => elapsed' >= max_wait
  <1>1. /\ max_wait \in Nat /\ elapsed \in 0..G!Longest /\ tableWait \in Nat
        /\ verdict = "error" => pc = "end"
    BY Parameters DEF GateInv, G!TypeOK, TotalsInv
  <1>2. elapsed' \in 0..G!Longest'
    BY GateKeepsTypes DEF GateInv, G!TypeOK
  <1> USE DEF InGate, G!config, G!gate, G!clock, G!history
  <1>3. CASE G!Disabled
    BY <1>1, <1>3 DEF G!Disabled, G!Return
  <1>4. CASE G!FirstLook
    BY <1>1, <1>4 DEF G!FirstLook, G!Return
  <1>5. CASE G!Budget
    BY <1>1, <1>5 DEF G!Budget, G!GiveUp, G!Waited, G!Return
  <1>6. CASE G!Tick
    BY <1>1, <1>6 DEF G!Tick
  <1>7. CASE G!Interrupted
    BY <1>1, <1>7 DEF G!Interrupted, G!Waited, G!Return
  <1>8. CASE G!Observe
    <2>1. G!Longest' = G!Longest
      BY <1>8 DEF G!Observe, G!Longest
    <2> QED
      BY <1>1, <1>2, <1>8, <2>1 DEF G!Observe, G!Waited, G!Return
  <1>9. CASE G!StillLagging
    BY <1>1, <1>9 DEF G!StillLagging, G!GiveUp, G!Waited, G!Return
  <1>10. CASE G!QueryFails
    BY <1>1, <1>10 DEF G!QueryFails, G!Waited, G!Return
  <1> QED
    BY <1>3, <1>4, <1>5, <1>6, <1>7, <1>8, <1>9, <1>10 DEF G!Step

(* wait_for_replica_lag gives up at the first read after its budget.       *)
LEMMA GateKeepsBudget == GateInv /\ TotalsInv /\ BudgetInv /\ G!Step => BudgetInv'
  <1> SUFFICES ASSUME GateInv, TotalsInv, BudgetInv, G!Step PROVE BudgetInv'
    OBVIOUS
  <1>1. /\ passes \in Nat /\ remainingPasses \in 0..passes /\ G!Longest \in Nat
        /\ tableWait \in Nat /\ max_wait \in Nat
        /\ InGate => remainingPasses > 0
    BY Parameters DEF GateInv, G!TypeOK, G!Longest
  <1>2. \A a, b \in Nat : a * b \in Nat /\ (a + 1) * b = a * b + b
    OBVIOUS
  <1>3. \A a, b, c \in Nat : a <= c => a * b <= c * b
    OBVIOUS
  <1>4. CASE G!NextTable
    <2>1. UNCHANGED << passes, max_wait, verdict, elapsed >>
      BY <1>4 DEF G!NextTable, G!config, G!clock
    <2>2. (passes - passes) * G!Longest = 0 /\ 0 <= passes * G!Longest
      BY <1>1, <1>2
    <2>3. \/ ~InGate /\ ~InGate' /\ tableWait' = tableWait
          \/ InGate' /\ remainingPasses' = passes /\ tableWait' = 0
      BY <1>4 DEF G!NextTable, InGate
    <2> QED
      BY <2>1, <2>2, <2>3 DEF BudgetInv, G!Longest
  <1>5. CASE ~G!NextTable
    <2>1. /\ InGate /\ UNCHANGED << max_wait, passes >> /\ G!Longest' = G!Longest
          /\ tableWait' = tableWait \/ \E w \in 0..G!Longest : tableWait' = tableWait + w
          /\ \/ UNCHANGED << tableWait, remainingPasses >>
             \/ remainingPasses' = remainingPasses - 1
             \/ ~InGate'
          /\ ~InGate' /\ verdict' = "skip" => elapsed' >= max_wait
      BY <1>5, CallAdds DEF G!Longest
    <2> DEFINE before == (passes - remainingPasses) * G!Longest
               after == (passes - (remainingPasses - 1)) * G!Longest
    <2>2. tableWait <= before
      BY <2>1 DEF BudgetInv
    <2>3. after = before + G!Longest /\ before \in Nat
      <3>1. passes - (remainingPasses - 1) = (passes - remainingPasses) + 1
        BY <1>1
      <3> QED
        BY <1>1, <1>2, <3>1
    <2>4. after <= passes * G!Longest
      BY <1>1, <1>3, <2>1
    <2>5. tableWait' \in Nat /\ tableWait' <= before + G!Longest
      BY <1>1, <2>1, <2>2, <2>3
    <2>6. tableWait' <= passes' * G!Longest'
      BY <1>1, <1>2, <2>1, <2>3, <2>4, <2>5
    <2>7. InGate' => tableWait' <= (passes' - remainingPasses') * G!Longest'
      BY <1>1, <2>1, <2>2, <2>3, <2>5
    <2> QED
      BY <2>1, <2>6, <2>7 DEF BudgetInv
  <1> QED
    BY <1>4, <1>5

(* What the operation leaves alone.                                        *)
LEMMA GateUntouched ==
  ASSUME GateInv, TotalsInv, BudgetInv, SignalInv, UNCHANGED << gate, shutdown >>
  PROVE  GateInv' /\ TotalsInv' /\ BudgetInv' /\ SignalInv'
  <1> USE DEF gate, InGate, G!Longest
  <1>1. GateInv'
    BY DEF GateInv, G!TypeOK, G!Verdicts
  <1>2. TotalsInv' /\ SignalInv'
    BY DEF TotalsInv, G!TotalsHonest, SignalInv
  <1>3. BudgetInv'
    BY DEF BudgetInv
  <1> QED
    BY <1>1, <1>2, <1>3

(* A signal finds nobody deaf and nothing begun late.                      *)
LEMMA SignalKeeps == WaitInv /\ Signal => WaitInv'
  <1> SUFFICES ASSUME WaitInv, Signal PROVE WaitInv'
    OBVIOUS
  <1> USE DEF WaitInv, Signal, G!Signal, call, G!config, G!gate, G!clock, G!history, InGate, G!Longest
  <1>1. GateInv'
    BY DEF GateInv, G!TypeOK, G!Verdicts
  <1>2. TotalsInv' /\ SignalInv'
    BY DEF TotalsInv, G!TotalsHonest, SignalInv
  <1>3. BudgetInv'
    BY DEF BudgetInv
  <1>4. RetryInv'
    BY DEF RetryInv, L!TypeOK, L!Results
  <1>5. DelayInv'
    BY DEF DelayInv, SleptThrough
  <1> QED
    BY <1>1, <1>2, <1>3, <1>4, <1>5

-----------------------------------------------------------------------------
(* The operation's steps.                                                  *)
LEMMA OperationKeepsTypes == RetryInv /\ L!Step => L!TypeOK' /\ UNCHANGED shutdown
  <1> SUFFICES ASSUME RetryInv, L!Step PROVE L!TypeOK' /\ UNCHANGED shutdown
    OBVIOUS
  <1>1. /\ retries \in Nat /\ first \in Nat /\ DelayCap \in Nat /\ first <= DelayCap
        /\ attempt \in 0..retries /\ delay_ms \in first..DelayCap
    BY Parameters DEF RetryInv, L!TypeOK
  <1> USE DEF RetryInv, L!TypeOK, L!Results
  <1>2. CASE L!Run
    BY <1>1, <1>2 DEF L!Run
  <1>3. CASE L!GiveUp
    BY <1>3 DEF L!GiveUp
  <1>4. CASE L!Retry
    BY <1>1, <1>4 DEF L!Retry, L!Final
  <1>5. CASE L!SleepOver
    BY <1>1, <1>5 DEF L!SleepOver, L!Doubled
  <1>6. CASE L!SleepInterrupted
    BY <1>6 DEF L!SleepInterrupted
  <1> QED
    BY <1>2, <1>3, <1>4, <1>5, <1>6 DEF L!Step

(* with_lock_timeout_retry starts at most one execution after a signal.    *)
LEMMA OperationKeepsRetries == RetryInv /\ OperationStep => RetryInv'
  <1> SUFFICES ASSUME RetryInv, OperationStep PROVE RetryInv'
    OBVIOUS
  <1>1. L!TypeOK' /\ UNCHANGED << shutdown, gate >>
    BY OperationKeepsTypes DEF OperationStep
  <1>2. attempt \in Int /\ runs \in Int
    BY DEF RetryInv, L!TypeOK
  <1>3. UNCHANGED << pc, verdict >>
    BY <1>1 DEF gate
  <1> USE <1>1, <1>2, <1>3 DEF RetryInv, OperationStep, InGate
  <1>4. CASE L!Run
    <2>1. op = "op" /\ runs' = runs + 1 /\ op' \in {"return", "failed"} /\ UNCHANGED attempt
      BY <1>4 DEF L!Run
    <2>2. late = 0 /\ late' = IF shutdown THEN 1 ELSE 0
      BY <1>4, <2>1
    <2> QED
      BY <2>1, <2>2
  <1>5. CASE ~L!Run
    <2>1. UNCHANGED late
      BY <1>5
    <2>2. CASE L!GiveUp \/ L!SleepInterrupted
      BY <2>1, <2>2 DEF L!GiveUp, L!SleepInterrupted
    <2>3. CASE L!Retry
      BY <2>1, <2>3 DEF L!Retry, L!Final
    <2>4. CASE L!SleepOver
      BY <2>1, <2>4 DEF L!SleepOver
    <2> QED
      BY <1>5, <2>2, <2>3, <2>4 DEF L!Step
  <1> QED
    BY <1>4, <1>5

(* The gate starts an operation only where the flag was not yet set when   *)
(* the table's turn began.                                                 *)
LEMMA GateKeepsRetries == GateInv /\ RetryInv /\ GateStep => RetryInv'
  <1> SUFFICES ASSUME GateInv, RetryInv, GateStep PROVE RetryInv'
    OBVIOUS
  <1>1. UNCHANGED << shutdown, retries, first, late >>
    BY DEF GateStep, G!Step, G!NextTable, G!Disabled, G!FirstLook, G!Budget, G!Tick,
           G!Interrupted, G!Observe, G!StillLagging, G!QueryFails
  <1>2. pc = "next" => pc' = "end" \/ ~shutdown
    BY DEF GateStep, G!Step, G!NextTable, G!Disabled, G!FirstLook, G!Budget, G!Tick,
           G!Interrupted, G!Observe, G!StillLagging, G!QueryFails
  <1>3. InGate \/ pc = "next"
    BY DEF GateStep, G!Step, G!NextTable, G!Disabled, G!FirstLook, G!Budget, G!Tick,
           G!Interrupted, G!Observe, G!StillLagging, G!QueryFails, InGate
  <1>4. op = "return" /\ late \in 0..1
    BY DEF GateStep, RetryInv
  <1>5. ~shutdown \/ InGate' => late = 0
    BY <1>2, <1>3 DEF RetryInv, InGate
  <1>6. retries \in Nat /\ first \in Nat /\ first <= DelayCap
    BY Parameters DEF RetryInv, L!TypeOK
  <1>7. L!TypeOK
    BY DEF RetryInv
  <1>8. CASE LetThrough
    <2>1. L!Locals("op") /\ pc' = "next" /\ verdict' = "proceed" /\ late = 0
      BY <1>3, <1>8 DEF GateStep, LetThrough, RetryInv
    <2>2. L!TypeOK'
      BY <1>1, <1>6, <1>7, <2>1 DEF L!TypeOK, L!Locals, L!Results
    <2> QED
      BY <1>1, <2>1, <2>2 DEF RetryInv, L!Locals
  <1>9. CASE ~LetThrough /\ pc = "next"
    <2>1. L!Locals("return")
      BY <1>9 DEF GateStep
    <2>2. L!TypeOK'
      BY <1>1, <1>6, <1>7, <2>1 DEF L!TypeOK, L!Locals, L!Results
    <2> QED
      BY <1>1, <1>4, <1>5, <2>1, <2>2 DEF RetryInv, L!Locals, InGate
  <1>10. CASE ~LetThrough /\ pc # "next"
    <2>1. UNCHANGED call
      BY <1>10 DEF GateStep
    <2>2. L!TypeOK'
      BY <1>1, <1>7, <2>1 DEF L!TypeOK, L!Results, call
    <2> QED
      BY <1>1, <1>4, <1>5, <2>1, <2>2 DEF RetryInv, call, InGate
  <1> QED
    BY <1>8, <1>9, <1>10

(* with_lock_timeout_retry sleeps delay_ms and then doubles it.            *)
LEMMA OperationKeepsDelays == RetryInv /\ DelayInv /\ OperationStep => DelayInv'
  <1> SUFFICES ASSUME RetryInv, DelayInv, OperationStep PROVE DelayInv'
    OBVIOUS
  <1>1. /\ retries \in Retries /\ first \in Delays /\ attempt \in 0..retries
        /\ first \in Nat /\ attempt \in Nat /\ DelayCap \in Nat
    BY Parameters DEF RetryInv, L!TypeOK
  <1> USE DEF DelayInv, SleptThrough
  <1>2. CASE L!Run
    BY <1>2 DEF L!Run
  <1>3. CASE L!GiveUp \/ L!SleepInterrupted
    BY <1>3 DEF L!GiveUp, L!SleepInterrupted
  <1>4. CASE L!Retry
    <2>1. attempt' > 0 /\ attempt' - 1 = attempt
      BY <1>1, <1>4 DEF L!Retry
    <2> QED
      BY <1>4, <2>1 DEF L!Retry
  <1>5. CASE L!SleepOver
    <2> DEFINE p == 2^(attempt - 1)
               q == 2^attempt
    <2>1. /\ attempt > 0 /\ delay_ms = first * p /\ waited = first * (p - 1)
          /\ waited' = waited + delay_ms /\ delay_ms' = L!Doubled
          /\ op' = "op" /\ UNCHANGED << first, attempt >>
      BY <1>5 DEF L!SleepOver
    <2>2. p \in Nat /\ q = 2 * p
      <3>1. attempt - 1 \in Nat /\ (attempt - 1) + 1 = attempt
        BY <1>1, <2>1
      <3> QED
        BY <3>1, PowerDoubles, Zenon
    <2>3. first * q <= DelayCap
      BY <1>1, Unsaturated
    <2> HIDE DEF p, q
    <2>4. /\ first * q = 2 * (first * p) /\ first * p \in Nat
          /\ first * (q - 1) = first * (p - 1) + first * p
      BY <1>1, <2>2
    <2>5. delay_ms' = first * q
      BY <1>1, <2>1, <2>3, <2>4 DEF L!Doubled
    <2>6. waited' = first * (q - 1)
      BY <2>1, <2>4
    <2> USE DEF q
    <2> QED
      BY <2>1, <2>5, <2>6
  <1> QED
    BY <1>2, <1>3, <1>4, <1>5 DEF OperationStep, L!Step

(* A new call starts with the delay the policy gives.                      *)
LEMMA GateKeepsDelays == RetryInv /\ DelayInv /\ GateStep => DelayInv'
  <1> SUFFICES ASSUME RetryInv, DelayInv, GateStep PROVE DelayInv'
    OBVIOUS
  <1> USE DEF GateStep, DelayInv, SleptThrough
  <1>1. first \in Int
    BY Parameters DEF RetryInv, L!TypeOK
  <1>2. CASE L!Locals("op")
    <2>1. first = first * 2^0 /\ 0 = first * (2^0 - 1)
      BY <1>1, PowerOfZero
    <2> QED
      BY <1>2, <2>1 DEF L!Locals
  <1>3. CASE L!Locals("return")
    BY <1>3 DEF L!Locals
  <1>4. CASE UNCHANGED call
    BY <1>4 DEF call
  <1> QED
    BY <1>2, <1>3, <1>4

-----------------------------------------------------------------------------
(* WaitInv is inductive: what the gate, the operation or a signal does not *)
(* keep of it by itself, the other conjuncts give.                         *)
LEMMA StepKeeps == WaitInv /\ [Next]_vars => WaitInv'
  <1> SUFFICES ASSUME WaitInv, [Next]_vars PROVE WaitInv'
    OBVIOUS
  <1>1. GateInv /\ TotalsInv /\ BudgetInv /\ SignalInv /\ RetryInv /\ DelayInv
    BY DEF WaitInv
  <1>2. CASE GateStep
    <2>1. G!Step
      BY <1>2 DEF GateStep
    <2>2. GateInv' /\ TotalsInv' /\ BudgetInv' /\ SignalInv'
      BY <1>1, <2>1, GateKeepsTypes, GateKeepsTotals, GateKeepsBudget, GateKeepsSignal
    <2>3. RetryInv' /\ DelayInv'
      BY <1>1, <1>2, GateKeepsRetries, GateKeepsDelays
    <2> QED
      BY <2>2, <2>3 DEF WaitInv
  <1>3. CASE OperationStep
    <2>1. UNCHANGED << gate, shutdown >>
      BY <1>1, <1>3, OperationKeepsTypes DEF OperationStep
    <2>2. GateInv' /\ TotalsInv' /\ BudgetInv' /\ SignalInv'
      BY <1>1, <2>1, GateUntouched
    <2>3. RetryInv' /\ DelayInv'
      BY <1>1, <1>3, OperationKeepsRetries, OperationKeepsDelays
    <2> QED
      BY <2>2, <2>3 DEF WaitInv
  <1>4. CASE Signal
    BY <1>4, SignalKeeps
  <1>5. CASE UNCHANGED vars
    <2>1. GateInv' /\ TotalsInv' /\ BudgetInv' /\ SignalInv'
      BY <1>1, <1>5, GateUntouched DEF vars
    <2>2. RetryInv'
      BY <1>1, <1>5 DEF vars, gate, call, RetryInv, L!TypeOK, L!Results, InGate
    <2>3. DelayInv'
      BY <1>1, <1>5 DEF vars, call, DelayInv, SleptThrough
    <2> QED
      BY <2>1, <2>2, <2>3 DEF WaitInv
  <1> QED
    BY <1>2, <1>3, <1>4, <1>5 DEF Next, Ended

(* The invariant holds of every state of the gate and the retries of       *)
(* wait_for_replica_lag and with_lock_timeout_retry.                       *)
THEOREM Invariant == Spec => []WaitInv
  <1>1. Init => WaitInv
    BY InitEstablishes
  <1>2. WaitInv /\ [Next]_vars => WaitInv'
    BY StepKeeps
  <1> QED
    BY <1>1, <1>2, PTL DEF Spec

-----------------------------------------------------------------------------
(* A table is never in wait_for_replica_lag and in its maintenance         *)
(* statement at once, and every counter of the two keeps its range: the    *)
(* clock within budget and read, the attempts within --lock-timeout-       *)
(* retries, the delay within the width it saturates at.                    *)
THEOREM WaitsTypeCorrect == Spec => []TypeOK
  <1>1. WaitInv => TypeOK
    BY DEF WaitInv, GateInv, RetryInv, TypeOK
  <1> QED
    BY <1>1, Invariant, PTL

(* wait_for_replica_lag holds a table for --max-replica-lag-wait-seconds   *)
(* and one read at most in each of its calls, and gives none up before     *)
(* that time has passed.                                                   *)
THEOREM BudgetKept == Spec => []WithinBudget
  <1>1. WaitInv => WithinBudget
    <2> SUFFICES ASSUME WaitInv PROVE WithinBudget
      OBVIOUS
    <2>1. elapsed <= G!Longest
      BY Parameters DEF WaitInv, GateInv, G!TypeOK, G!Longest
    <2> QED
      BY <2>1 DEF WaitInv, BudgetInv, InGate, WithinBudget, G!WithinBudget
  <1> QED
    BY <1>1, Invariant, PTL

(* ReplicaLagGate's atomics, as the summary prints them, are the seconds   *)
(* waited and the tables skipped, however each wait ended.                 *)
THEOREM TotalsTrue == Spec => []TotalsHonest
  <1>1. WaitInv => TotalsHonest
    BY DEF WaitInv, TotalsInv, TotalsHonest
  <1> QED
    BY <1>1, Invariant, PTL

(* The select! of wait_for_replica_lag: a signal ends its sleep, whatever  *)
(* the poll interval, within the second it came in.                        *)
THEOREM WaitInterruptible == Spec => []SignalHeard
  <1>1. WaitInv => SignalHeard
    BY DEF WaitInv, SignalInv, SignalHeard, G!SignalHeard
  <1> QED
    BY <1>1, Invariant, PTL

(* with_lock_timeout_retry's saturating_mul(2) doubles: before its k + 1st *)
(* execution a table has been waited for first * (2^k - 1), whatever       *)
(* --lock-timeout-retries and --lock-timeout-retry-delay-ms.               *)
THEOREM DelaysAreDoubled == Spec => []DelaysDouble
  <1>1. WaitInv => DelaysDouble
    BY DEF WaitInv, RetryInv, DelayInv, SleptThrough, DelaysDouble, L!DelaysDouble
  <1> QED
    BY <1>1, Invariant, PTL

(* However many tables, retries and signals race: between them the gate    *)
(* and with_lock_timeout_retry begin one statement at most after the flag  *)
(* was set.                                                                *)
THEOREM StopsSoon == Spec => []OneLateStart
  <1>1. WaitInv => OneLateStart
    BY DEF WaitInv, RetryInv, OneLateStart
  <1> QED
    BY <1>1, Invariant, PTL
=============================================================================
