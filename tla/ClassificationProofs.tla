------------------------- MODULE ClassificationProofs -------------------------
(* Theorems about RateLimiter and Classification, for every capacity and   *)
(* rate of the buckets, every set of callers, rows and models.             *)
EXTENDS Classification, TLAPS

------------------------------------------------------------------------------
(* The operators of the limiter.                                           *)

LEMMA MinOfTwo ==
  ASSUME NEW a \in Int, NEW b \in Int
  PROVE  Min({a, b}) = IF a <= b THEN a ELSE b
<1> DEFINE m == IF a <= b THEN a ELSE b
<1>1. m \in {a, b} /\ \A y \in {a, b} : m <= y
  OBVIOUS
<1>2. \A x \in {a, b} : (\A y \in {a, b} : x <= y) => x = m
  OBVIOUS
<1>3. QED
  BY <1>1, <1>2 DEF Min

\* The delay is the least number of ticks that adds what is missing.
LEMMA CeilingDivision ==
  ASSUME NEW n \in Nat, NEW d \in Nat \ {0}
  PROVE  LET q == (n + d - 1) \div d
         IN  q \in Nat /\ q * d >= n /\ q <= n
<1> DEFINE q == (n + d - 1) \div d
           m == (n + d - 1) % d
<1>1. n + d - 1 \in Nat
  OBVIOUS
<1>2. q \in Int /\ m \in 0 .. d - 1 /\ n + d - 1 = d * q + m
  BY <1>1
<1>3. d * q >= n
  BY <1>2
<1>4. QED
  BY <1>2, <1>3

LEMMA OneMoreEverywhere ==
  ASSUME NEW S, NEW f \in [S -> Nat]
  PROVE  [k \in S |-> f[k] + 1] \in [S -> Nat]
OBVIOUS

\* What the tick adds to a bucket.
LEMMA RefillAdds ==
  ASSUME NEW b \in 0 .. Full
  PROVE  LET c == Min({Full, b + Amount})
         IN  c \in 0 .. Full /\ c >= b /\ (c = Full \/ c = b + Amount)
<1>1. Full \in Nat /\ Amount \in Nat
  BY LimiterAssumption DEF Full
<1>2. QED
  BY <1>1, MinOfTwo

------------------------------------------------------------------------------
(* Types.                                                                  *)

Stages    == Single \cup {"idle", "normalize", "classify", "disambiguate", "describe", "steps"}
Proposals == [confidence : Band, llm : Band \cup {"none"},
              by : {"none", "alias", "name", "part", "default"}]
Entries   == [state : {"pending", "processing", "proposed"}, wait : 0 .. Interval,
              owed : Limited \cup {None}, proposal : Proposals]
Attempts  == [row : Rows \cup {None}, stage : Stages, tries : {0, 1},
              model : Models \cup {Unset}, llm : Band \cup {"none"}, config : Configs]

TypeInv ==
  /\ bucket \in [Limited -> 0 .. Full]
  /\ rows   \in [Rows -> Entries]
  /\ run    \in [Callers -> Attempts]
  /\ stored \in Configs
  /\ recent \in [Limited -> [1 .. Interval + 1 -> Nat]]

LEMMA LimiterTypes ==
  /\ Full \in Nat \ {0} /\ Interval \in Nat \ {0} /\ Amount \in Nat \ {0}
  /\ Interval <= Full
BY LimiterAssumption DEF Full

LEMMA EffectiveTyped ==
  ASSUME stored \in Configs
  PROVE  Effective \in Configs
BY ConfigAssumption DEF Effective, Configs

LEMMA ResolveTyped ==
  ASSUME NEW config \in Configs, NEW stage \in Stages
  PROVE  Resolve(config, stage) \in Models \cup {Unset}
BY DEF Resolve, Tier, Configs, Stages, Single

LEMMA IdleTyped == Idle \in Attempts
BY ConfigAssumption DEF Idle, Attempts, Stages

LEMMA TypeInvInit == Init => TypeInv
<1> SUFFICES ASSUME Init PROVE TypeInv
  OBVIOUS
<1>1. bucket \in [Limited -> 0 .. Full]
  BY LimiterTypes DEF Init, BucketInit
<1>2. rows \in [Rows -> Entries]
  BY LimiterTypes DEF Init, Entries, NoProposal, Proposals, Band
<1>3. run \in [Callers -> Attempts]
  BY IdleTyped DEF Init
<1>4. stored \in Configs
  BY ConfigAssumption DEF Init, NoSettings, Configs
<1>5. recent \in [Limited -> [1 .. Interval + 1 -> Nat]]
  BY DEF Init
<1>6. QED
  BY <1>1, <1>2, <1>3, <1>4, <1>5 DEF TypeInv

LEMMA AtTyped ==
  ASSUME TypeInv, NEW c \in Callers, NEW stage \in Stages, NEW config \in Configs,
         NEW attempt \in Attempts, At(c, stage, config, attempt)
  PROVE  run' \in [Callers -> Attempts]
<1> DEFINE new == [attempt EXCEPT !.stage = stage, !.config = config, !.tries = 0,
                                  !.model = Resolve(config, stage)]
<1>1. new \in Attempts
  BY ResolveTyped DEF Attempts
<1>2. QED
  BY <1>1 DEF At, TypeInv

------------------------------------------------------------------------------
(* Routing.                                                                *)

Earned(confidence, by, llm) ==
  /\ confidence = "high" => by = "alias" \/ (by = "name" /\ llm = "high")
  /\ confidence = "medium" => by = "part" \/ (by = "name" /\ llm = "medium")

\* Whatever aliases and projects there are, an answer is not raised in
\* confidence on its way to the proposal but by an alias or a name in part.
LEMMA RouteEarned ==
  ASSUME NEW llm \in Band \cup {"none"}, NEW available \in SUBSET Projects,
         NEW hits \in SUBSET Projects, NEW a \in Answers(llm, available),
         NEW p \in Route(hits, a.guess, a.exact, a.confidence, available)
  PROVE  /\ p.confidence \in Band
         /\ p.by \in {"alias", "name", "part", "default"}
         /\ Earned(p.confidence, p.by, llm)
<1>1. /\ a.exact \in BOOLEAN
      /\ a.confidence = IF llm = "none" THEN "low" ELSE llm
  <2>1. CASE llm = "none" /\ Personal \in available
    <3>1. a = [guess |-> Personal, exact |-> TRUE, confidence |-> "low"]
      BY <2>1 DEF Answers
    <3>2. a.exact = TRUE /\ a.confidence = "low"
      BY <3>1
    <3>3. QED
      BY <2>1, <3>2
  <2>2. CASE llm = "none" /\ Personal \notin available
    BY <2>2 DEF Answers
  <2>3. CASE llm # "none"
    BY <2>3 DEF Answers
  <2>4. QED
    BY <2>1, <2>2, <2>3
<1>2. CASE hits \cap available # {}
  BY <1>2 DEF Route, Band, Earned
<1>3. CASE hits \cap available = {} /\ a.guess \in available
  BY <1>1, <1>3 DEF Route, Band, Earned
<1>4. CASE hits \cap available = {} /\ a.guess \notin available
  <2>1. p.confidence = "low" /\ p.by = "default"
    BY <1>4 DEF Route
  <2>2. QED
    BY <2>1 DEF Band, Earned
<1>5. QED
  BY <1>2, <1>3, <1>4

LEMMA OutcomeEarned ==
  ASSUME NEW llm \in Band \cup {"none"}, NEW p \in Outcomes[llm]
  PROVE  /\ [confidence |-> p.confidence, llm |-> llm, by |-> p.by] \in Proposals
         /\ Earned(p.confidence, p.by, llm)
<1>1. PICK available \in SUBSET Projects :
        \E hits \in SUBSET Projects, a \in Answers(llm, available) :
          p \in Route(hits, a.guess, a.exact, a.confidence, available)
  BY DEF Outcomes
<1>2. QED
  BY <1>1, RouteEarned DEF Proposals

------------------------------------------------------------------------------
(* What a call does to the entries of the queue: it leaves them alone, but *)
(* for the token it takes and for the proposal it may conclude with.       *)

EarnedProposal(q) == Earned(q.confidence, q.by, q.llm)

KeepsEntries(c) ==
  /\ rows' \in [Rows -> Entries]
  /\ \A r \in Rows :
       /\ rows'[r].wait = rows[r].wait
       /\ rows'[r].owed = Unowed(c)[r].owed
       /\ rows'[r].proposal = rows[r].proposal \/ EarnedProposal(rows'[r].proposal)

LEMMA UnownedKeeps ==
  ASSUME TypeInv, NEW c \in Callers, rows' = Unowed(c)
  PROVE  KeepsEntries(c)
BY DEF TypeInv, KeepsEntries, Unowed, Entries

LEMMA ConcludeKeeps ==
  ASSUME TypeInv, NEW c \in Callers, NEW llm \in Band \cup {"none"}, Conclude(c, llm)
  PROVE  KeepsEntries(c) /\ run' \in [Callers -> Attempts]
<1>1. run' \in [Callers -> Attempts]
  BY IdleTyped DEF Conclude, End, TypeInv
<1>2. CASE c # Worker
  BY <1>1, <1>2, UnownedKeeps DEF Conclude
<1>3. CASE c = Worker
  <2>1. PICK p \in Outcomes[llm] :
          rows' = [Unowed(c) EXCEPT ![run[c].row].state = "proposed",
                     ![run[c].row].proposal =
                       [confidence |-> p.confidence, llm |-> llm, by |-> p.by]]
    BY <1>3 DEF Conclude
  <2> DEFINE q == [confidence |-> p.confidence, llm |-> llm, by |-> p.by]
  <2>2. q \in Proposals /\ EarnedProposal(q)
    BY OutcomeEarned DEF EarnedProposal
  <2>3. /\ Unowed(c) \in [Rows -> Entries]
        /\ \A r \in Rows : /\ Unowed(c)[r].wait = rows[r].wait
                           /\ Unowed(c)[r].proposal = rows[r].proposal
    BY DEF TypeInv, Unowed, Entries
  <2> HIDE DEF q
  <2>4. rows' = [r \in Rows |-> IF r = run[c].row
                   THEN [Unowed(c)[r] EXCEPT !.state = "proposed", !.proposal = q]
                   ELSE Unowed(c)[r]]
    BY <2>1, <2>3 DEF q
  <2>5. rows' \in [Rows -> Entries]
    BY <2>2, <2>3, <2>4 DEF Entries
  <2>6. \A r \in Rows : /\ rows'[r].wait = Unowed(c)[r].wait
                        /\ rows'[r].owed = Unowed(c)[r].owed
                        /\ rows'[r].proposal = Unowed(c)[r].proposal \/ rows'[r].proposal = q
    BY <2>3, <2>4 DEF Entries
  <2>7. KeepsEntries(c)
    BY <2>2, <2>3, <2>5, <2>6 DEF KeepsEntries
  <2>8. QED
    BY <1>1, <2>7
<1>4. QED
  BY <1>2, <1>3

LEMMA AnsweredKeeps ==
  ASSUME TypeInv, NEW c \in Callers, Answered(c)
  PROVE  KeepsEntries(c) /\ run' \in [Callers -> Attempts]
<1>1. run[c] \in Attempts /\ run[c].config \in Configs /\ run[c].stage \in Stages
      /\ run[c].llm \in Band \cup {"none"}
  BY DEF TypeInv, Attempts
<1>2. ASSUME NEW llm \in Band, run[c].stage = "classify", rows' = Unowed(c),
             At(c, Following("classify", llm), run[c].config, [run[c] EXCEPT !.llm = llm])
      PROVE  KeepsEntries(c) /\ run' \in [Callers -> Attempts]
  <2>1. [run[c] EXCEPT !.llm = llm] \in Attempts
    BY <1>1 DEF Attempts
  <2>2. Following("classify", llm) \in Stages
    BY DEF Following, Stages
  <2>3. QED
    BY <1>1, <1>2, <2>1, <2>2, AtTyped, UnownedKeeps
<1>3. CASE /\ run[c].stage \in {"normalize", "disambiguate", "describe"}
           /\ Goto(c, Following(run[c].stage, run[c].llm))
           /\ rows' = Unowed(c)
  <2>1. Following(run[c].stage, run[c].llm) \in Stages
    BY <1>3 DEF Following, Stages
  <2>2. QED
    BY <1>1, <1>3, <2>1, AtTyped, UnownedKeeps DEF Goto
<1>4. CASE Conclude(c, run[c].llm)
  BY <1>1, <1>4, ConcludeKeeps
<1>5. CASE End(c) /\ rows' = Unowed(c)
  BY <1>5, UnownedKeeps, IdleTyped DEF End, TypeInv
<1>6. QED
  BY <1>2, <1>3, <1>4, <1>5 DEF Answered

LEMMA FailedKeeps ==
  ASSUME TypeInv, NEW c \in Callers, Failed(c)
  PROVE  KeepsEntries(c) /\ run' \in [Callers -> Attempts]
<1>1. run[c] \in Attempts /\ run[c].config \in Configs /\ run[c].stage \in Stages
      /\ run[c].llm \in Band \cup {"none"}
  BY DEF TypeInv, Attempts
<1>2. CASE ~LastTry(c) /\ run' = [run EXCEPT ![c].tries = @ + 1] /\ rows' = Unowed(c)
  <2>1. run[c].tries = 0
    BY <1>1, <1>2 DEF LastTry, Attempts
  <2>2. run' \in [Callers -> Attempts]
    <3>1. [run[c] EXCEPT !.tries = 1] \in Attempts
      BY <1>1 DEF Attempts
    <3>2. run' = [run EXCEPT ![c] = [run[c] EXCEPT !.tries = 1]]
      BY <1>2, <2>1
    <3>3. QED
      BY <3>1, <3>2 DEF TypeInv
  <2>3. QED
    BY <1>2, <2>2, UnownedKeeps
<1>3. CASE /\ run' = [run EXCEPT ![c].model = run[c].config.fallback, ![c].tries = 0]
           /\ rows' = Unowed(c)
  <2>1. run[c].config.fallback \in Models \cup {Unset}
    BY <1>1 DEF Configs
  <2>2. run' \in [Callers -> Attempts]
    BY <1>1, <1>3, <2>1 DEF TypeInv, Attempts
  <2>3. QED
    BY <1>3, <2>2, UnownedKeeps
<1>4. CASE /\ run[c].stage \in {"normalize", "disambiguate", "describe"}
           /\ Goto(c, Following(run[c].stage, run[c].llm))
           /\ rows' = Unowed(c)
  <2>1. Following(run[c].stage, run[c].llm) \in Stages
    BY <1>4 DEF Following, Stages
  <2>2. QED
    BY <1>1, <1>4, <2>1, AtTyped, UnownedKeeps DEF Goto
<1>5. CASE Conclude(c, run[c].llm)
  BY <1>1, <1>5, ConcludeKeeps
<1>6. CASE End(c) /\ rows' = Unowed(c)
  BY <1>6, UnownedKeeps, IdleTyped DEF End, TypeInv
<1>7. QED
  BY <1>2, <1>3, <1>4, <1>5, <1>6 DEF Failed

------------------------------------------------------------------------------
(* The invariants.                                                         *)
(*                                                                         *)
(* RateKept and WaitEarnsAToken are not inductive: the one must count what *)
(* is left in the bucket, the other what the rest of the wait will add.    *)

RateInv ==
  \A p \in Limited : \A k \in 1 .. Interval + 1 :
    recent[p][k] * Interval + bucket[p] <= Full + (k - 1) * Amount

WaitInv ==
  \A r \in Rows : rows[r].owed # None =>
    bucket[rows[r].owed] + rows[r].wait * Amount >= Interval

EarnedInv == \A r \in Rows : EarnedProposal(rows[r].proposal)

Inv == TypeInv /\ RateInv /\ WaitInv /\ EarnedInv

\* A call that is let through moves one token from the bucket to the count.
LEMMA CallStep ==
  ASSUME Inv, NEW c \in Callers, Answered(c) \/ Failed(c)
  PROVE  Inv'
<1>1. PICK p : p = run[c].config.provider
  OBVIOUS
<1>2. KeepsEntries(c) /\ run' \in [Callers -> Attempts] /\ UNCHANGED stored
  BY AnsweredKeeps, FailedKeeps DEF Inv, Answered, Failed
<1>3. /\ bucket \in [Limited -> 0 .. Full]
      /\ recent \in [Limited -> [1 .. Interval + 1 -> Nat]]
  BY DEF Inv, TypeInv
<1>4. \/ /\ p \notin Limited
         /\ UNCHANGED <<bucket, recent>>
      \/ /\ p \in Limited
         /\ bucket[p] >= Interval
         /\ bucket' = [bucket EXCEPT ![p] = bucket[p] - Interval]
         /\ recent' = [recent EXCEPT ![p] = [k \in 1 .. Interval + 1 |-> recent[p][k] + 1]]
  <2>1. /\ Allowed(p)
        /\ p \in Local \/ bucket' = [bucket EXCEPT ![p] = @ - Interval]
        /\ p \notin Local \/ UNCHANGED bucket
        /\ recent' = [recent EXCEPT ![p] = [k \in DOMAIN @ |-> @[k] + 1]]
    BY <1>1 DEF Answered, Failed, LetThrough, Acquire
  <2>2. CASE p \notin Limited
    BY <1>3, <2>1, <2>2
  <2>3. CASE p \in Limited
    <3>1. p \notin Local
      BY <2>3, LimiterAssumption
    <3>2. DOMAIN recent[p] = 1 .. Interval + 1
      BY <1>3, <2>3
    <3>3. recent' = [recent EXCEPT ![p] = [k \in 1 .. Interval + 1 |-> @[k] + 1]]
      BY <2>1, <3>2
    <3>4. QED
      BY <2>1, <2>3, <3>1, <3>3 DEF Allowed
  <2>4. QED
    BY <2>2, <2>3
<1>5. /\ bucket' \in [Limited -> 0 .. Full]
      /\ recent' \in [Limited -> [1 .. Interval + 1 -> Nat]]
  <2>1. CASE p \notin Limited
    BY <1>3, <1>4, <2>1
  <2>2. CASE p \in Limited
    <3>1. bucket[p] - Interval \in 0 .. Full
      BY <1>3, <1>4, <2>2, LimiterTypes
    <3>2. [k \in 1 .. Interval + 1 |-> recent[p][k] + 1] \in [1 .. Interval + 1 -> Nat]
      BY ONLY <1>3, <2>2, OneMoreEverywhere
    <3>3. QED
      BY <1>3, <1>4, <2>2, <3>1, <3>2
  <2>3. QED
    BY <2>1, <2>2
<1>6. TypeInv'
  BY <1>2, <1>5 DEF Inv, TypeInv, KeepsEntries
<1>7. RateInv'
  <2> SUFFICES ASSUME NEW q \in Limited, NEW k \in 1 .. Interval + 1
               PROVE  recent'[q][k] * Interval + bucket'[q] <= Full + (k - 1) * Amount
    BY DEF RateInv
  <2>1. recent[q][k] * Interval + bucket[q] <= Full + (k - 1) * Amount
    BY DEF Inv, RateInv
  <2>2. recent[q][k] \in Nat /\ bucket[q] \in Nat /\ Interval \in Nat
    BY <1>3, LimiterTypes
  <2>3. \/ recent'[q][k] = recent[q][k] /\ bucket'[q] = bucket[q]
        \/ recent'[q][k] = recent[q][k] + 1 /\ bucket'[q] = bucket[q] - Interval
    <3>1. CASE q = p
      BY <1>3, <1>4, <3>1
    <3>2. CASE q # p
      BY <1>3, <1>4, <3>2
    <3>3. QED
      BY <3>1, <3>2
  <2>4. (recent[q][k] + 1) * Interval = recent[q][k] * Interval + Interval
    BY <2>2
  <2>5. recent'[q][k] * Interval + bucket'[q] = recent[q][k] * Interval + bucket[q]
    BY <2>2, <2>3, <2>4
  <2>6. QED
    BY <2>1, <2>5
<1>8. WaitInv'
  <2> SUFFICES ASSUME NEW r \in Rows, rows'[r].owed # None
               PROVE  bucket'[rows'[r].owed] + rows'[r].wait * Amount >= Interval
    BY DEF WaitInv
  <2>1. /\ rows'[r].owed = IF rows[r].owed = p THEN None ELSE rows[r].owed
        /\ rows'[r].wait = rows[r].wait
    BY <1>1, <1>2 DEF KeepsEntries, Unowed, Inv, TypeInv, Entries
  <2>2. bucket[rows[r].owed] + rows[r].wait * Amount >= Interval
    BY <2>1 DEF Inv, WaitInv
  <2>3. rows[r].owed \in Limited /\ rows[r].owed # p
    BY <2>1 DEF Inv, TypeInv, Entries
  <2>4. bucket'[rows[r].owed] = bucket[rows[r].owed]
    BY <1>3, <1>4, <2>3
  <2>5. QED
    BY <2>1, <2>2, <2>3, <2>4
<1>9. EarnedInv'
  BY <1>2 DEF KeepsEntries, Inv, EarnedInv, EarnedProposal, Earned
<1>10. QED
  BY <1>6, <1>7, <1>8, <1>9 DEF Inv

\* A refusal leaves the bucket alone and makes the row wait for what is missing.
LEMMA DeniedStep ==
  ASSUME Inv, NEW c \in Callers, Denied(c)
  PROVE  Inv'
<1>1. PICK p : p = run[c].config.provider
  OBVIOUS
<1>2. p \in Limited /\ bucket[p] < Interval
  <2>1. ~Allowed(p)
    BY <1>1 DEF Denied
  <2>2. p \in Limited /\ ~(bucket[p] >= Interval)
    BY <2>1 DEF Allowed
  <2>3. bucket[p] \in 0 .. Full
    BY <2>2 DEF Inv, TypeInv
  <2>4. QED
    BY <2>2, <2>3, LimiterTypes
<1>3. bucket[p] \in Nat /\ Interval \in Nat /\ Amount \in Nat \ {0}
  BY <1>2, LimiterTypes DEF Inv, TypeInv
<1>4. PICK d : d = RetryAfter(p)
  OBVIOUS
<1>5. d \in 0 .. Interval /\ bucket[p] + d * Amount >= Interval
  <2>1. PICK n \in Nat : n = Interval - bucket[p]
    BY <1>2, <1>3
  <2>2. d = (n + Amount - 1) \div Amount
    BY <1>4, <2>1 DEF RetryAfter
  <2>3. d \in Nat /\ d * Amount >= n /\ d <= n
    BY <1>3, <2>2, CeilingDivision
  <2>4. QED
    BY <1>3, <2>1, <2>3
<1>6. /\ rows' = [r \in Rows |->
           IF r # run[c].row THEN rows[r]
           ELSE [rows[r] EXCEPT !.state = "pending", !.wait = d, !.owed = p]]
      /\ run' = [run EXCEPT ![c] = Idle]
      /\ UNCHANGED <<bucket, stored, recent>>
  BY <1>1, <1>4 DEF Denied, End
<1>7. /\ rows' \in [Rows -> Entries]
      /\ \A r \in Rows : /\ rows'[r].proposal = rows[r].proposal
                         /\ \/ rows'[r].wait = rows[r].wait /\ rows'[r].owed = rows[r].owed
                            \/ rows'[r].wait = d /\ rows'[r].owed = p
  BY <1>2, <1>5, <1>6 DEF Entries, Inv, TypeInv
<1>8. TypeInv'
  BY <1>6, <1>7, IdleTyped DEF Inv, TypeInv
<1>9. RateInv'
  BY <1>6 DEF Inv, RateInv
<1>10. WaitInv'
  BY <1>5, <1>6, <1>7 DEF Inv, WaitInv
<1>11. EarnedInv'
  BY <1>7 DEF Inv, EarnedInv, EarnedProposal, Earned
<1>12. QED
  BY <1>8, <1>9, <1>10, <1>11 DEF Inv

\* A tick adds to the bucket what it takes off the waits and off the count.
LEMMA TickStep ==
  ASSUME Inv, Tick
  PROVE  Inv'
<1>1. /\ bucket \in [Limited -> 0 .. Full] /\ bucket' \in [Limited -> 0 .. Full]
      /\ \A p \in Limited : /\ bucket'[p] >= bucket[p]
                            /\ bucket'[p] = Full \/ bucket'[p] = bucket[p] + Amount
  <2>1. bucket \in [Limited -> 0 .. Full]
    BY DEF Inv, TypeInv
  <2>2. bucket' = [p \in Limited |-> Min({Full, bucket[p] + Amount})]
    BY DEF Tick, Refill
  <2>3. \A p \in Limited : /\ bucket'[p] \in 0 .. Full
                           /\ bucket'[p] >= bucket[p]
                           /\ bucket'[p] = Full \/ bucket'[p] = bucket[p] + Amount
    BY <2>1, <2>2, RefillAdds
  <2>4. QED
    BY <2>1, <2>2, <2>3
<1>2. /\ rows' \in [Rows -> Entries]
      /\ \A r \in Rows : /\ rows'[r].wait = IF rows[r].wait = 0 THEN 0 ELSE rows[r].wait - 1
                         /\ rows'[r].owed = rows[r].owed
                         /\ rows'[r].proposal = rows[r].proposal
  <2>1. \A r \in Rows : rows[r] \in Entries /\ rows[r].wait \in 0 .. Interval
    BY DEF Inv, TypeInv, Entries
  <2>2. rows' = [r \in Rows |-> [rows[r] EXCEPT !.wait = IF @ = 0 THEN 0 ELSE @ - 1]]
    BY DEF Tick
  <2>3. \A r \in Rows :
          (IF rows[r].wait = 0 THEN 0 ELSE rows[r].wait - 1) \in 0 .. Interval
    BY <2>1, LimiterTypes
  <2>4. QED
    BY <2>1, <2>2, <2>3 DEF Entries
<1>3. /\ recent \in [Limited -> [1 .. Interval + 1 -> Nat]]
      /\ recent' = [p \in Limited |->
           [k \in 1 .. Interval + 1 |-> IF k = 1 THEN 0 ELSE recent[p][k - 1]]]
  BY DEF Inv, TypeInv, Tick
<1>4. recent' \in [Limited -> [1 .. Interval + 1 -> Nat]]
  BY <1>3, LimiterTypes
<1>5. TypeInv'
  BY <1>1, <1>2, <1>4 DEF Inv, TypeInv, Tick
<1>6. RateInv'
  <2> SUFFICES ASSUME NEW p \in Limited, NEW k \in 1 .. Interval + 1
               PROVE  recent'[p][k] * Interval + bucket'[p] <= Full + (k - 1) * Amount
    BY DEF RateInv
  <2>1. bucket'[p] \in 0 .. Full /\ bucket[p] \in 0 .. Full
        /\ (bucket'[p] = Full \/ bucket'[p] = bucket[p] + Amount)
        /\ bucket'[p] <= bucket[p] + Amount
    <3>1. bucket'[p] <= bucket[p] + Amount
      BY LimiterTypes, MinOfTwo, <1>1 DEF Tick, Refill
    <3>2. QED
      BY <1>1, <3>1
  <2>2. CASE k = 1
    <3>1. recent'[p][k] = 0
      BY <1>3, <2>2
    <3>2. QED
      BY <2>1, <2>2, <3>1, LimiterTypes
  <2>3. CASE k # 1
    <3>1. k - 1 \in 1 .. Interval + 1 /\ recent'[p][k] = recent[p][k - 1]
      BY <1>3, <2>3, LimiterTypes
    <3>2. recent[p][k - 1] * Interval + bucket[p] <= Full + (k - 1 - 1) * Amount
      BY <3>1 DEF Inv, RateInv
    <3>3. PICK a \in Int : a = recent[p][k - 1] * Interval
      BY <1>3, <3>1, LimiterTypes
    <3>4. (k - 1 - 1) * Amount + Amount = (k - 1) * Amount
      BY LimiterTypes
    <3>5. PICK b \in Int : b = (k - 1) * Amount
      BY LimiterTypes
    <3>6. (k - 1 - 1) * Amount = b - Amount
      BY <3>4, <3>5, LimiterTypes
    <3>7. QED
      BY <2>1, <3>1, <3>2, <3>3, <3>5, <3>6, LimiterTypes
  <2>4. QED
    BY <2>2, <2>3
<1>7. WaitInv'
  <2> SUFFICES ASSUME NEW r \in Rows, rows'[r].owed # None
               PROVE  bucket'[rows'[r].owed] + rows'[r].wait * Amount >= Interval
    BY DEF WaitInv
  <2>1. PICK p \in Limited : p = rows[r].owed /\ p = rows'[r].owed
    BY <1>2 DEF Inv, TypeInv, Entries
  <2>2. bucket[p] + rows[r].wait * Amount >= Interval
    BY <1>2, <2>1 DEF Inv, WaitInv
  <2>3. rows[r].wait \in 0 .. Interval
    BY DEF Inv, TypeInv, Entries
  <2>4. bucket[p] \in Nat /\ bucket'[p] \in Nat /\ bucket'[p] >= bucket[p]
        /\ (bucket'[p] = Full \/ bucket'[p] = bucket[p] + Amount)
    BY <1>1, LimiterTypes
  <2>5. CASE rows[r].wait = 0
    <3>1. rows'[r].wait * Amount = 0 /\ rows[r].wait * Amount = 0
      BY <1>2, <2>5, LimiterTypes
    <3>2. QED
      BY <2>1, <2>2, <2>4, <3>1, LimiterTypes
  <2>6. CASE rows[r].wait # 0
    <3>1. PICK d \in Nat : d = rows'[r].wait /\ rows[r].wait = d + 1
      BY <1>2, <2>3, <2>6
    <3>2. rows[r].wait * Amount = d * Amount + Amount /\ d * Amount \in Nat
      BY <3>1, LimiterTypes
    <3>3. QED
      BY <2>1, <2>2, <2>4, <3>1, <3>2, LimiterTypes
  <2>7. QED
    BY <2>5, <2>6
<1>8. EarnedInv'
  BY <1>2 DEF Inv, EarnedInv, EarnedProposal, Earned
<1>9. QED
  BY <1>5, <1>6, <1>7, <1>8 DEF Inv

\* Claims, requests and the settings touch neither buckets nor waits.
LEMMA OtherStep ==
  ASSUME Inv,
         \/ \E r \in Rows : Claim(r)
         \/ \E c \in Requests, stage \in Single \cup {"normalize"} : Request(c, stage)
         \/ SaveSettings \/ ResetSettings
  PROVE  Inv'
<1>1. /\ UNCHANGED <<bucket, recent>>
      /\ rows' \in [Rows -> Entries]
      /\ \A r \in Rows : /\ rows'[r].wait = rows[r].wait
                         /\ rows'[r].owed = rows[r].owed
                         /\ rows'[r].proposal = rows[r].proposal
  <2>1. ASSUME NEW r \in Rows, Claim(r)
        PROVE  <1>1
    <3>1. rows' = [rows EXCEPT ![r].state = "processing"] /\ UNCHANGED <<bucket, recent>>
      BY <2>1 DEF Claim
    <3>2. [rows[r] EXCEPT !.state = "processing"] \in Entries
      BY DEF Inv, TypeInv, Entries
    <3>3. rows' = [rows EXCEPT ![r] = [rows[r] EXCEPT !.state = "processing"]]
      BY <3>1
    <3>4. rows' \in [Rows -> Entries]
      BY <3>2, <3>3 DEF Inv, TypeInv
    <3>5. ASSUME NEW q \in Rows
          PROVE  /\ rows'[q].wait = rows[q].wait
                 /\ rows'[q].owed = rows[q].owed
                 /\ rows'[q].proposal = rows[q].proposal
      <4>1. rows[q] \in Entries
        BY DEF Inv, TypeInv
      <4>2. CASE q = r
        BY <3>3, <4>1, <4>2 DEF Inv, TypeInv, Entries
      <4>3. CASE q # r
        BY <3>3, <4>3 DEF Inv, TypeInv
      <4>4. QED
        BY <4>2, <4>3
    <3>6. QED
      BY <3>1, <3>4, <3>5
  <2>2. CASE UNCHANGED <<bucket, recent, rows>>
    BY <2>2 DEF Inv, TypeInv
  <2>3. QED
    BY <2>1, <2>2 DEF Request, SaveSettings, ResetSettings
<1>2. stored' \in Configs
  BY ConfigAssumption
     DEF Claim, Request, SaveSettings, ResetSettings, Inv, TypeInv, NoSettings, Configs
<1>3. run' \in [Callers -> Attempts]
  <2>1. Effective \in Configs
    BY EffectiveTyped DEF Inv, TypeInv
  <2>2. ASSUME NEW r \in Rows, Claim(r)
        PROVE  run' \in [Callers -> Attempts]
    <3>1. [Idle EXCEPT !.row = r] \in Attempts
      BY IdleTyped DEF Attempts
    <3>2. "normalize" \in Stages /\ Worker \in Callers
      BY DEF Stages, Callers
    <3>3. QED
      BY <2>1, <2>2, <3>1, <3>2, AtTyped DEF Claim, Inv
  <2>3. ASSUME NEW c \in Requests, NEW stage \in Single \cup {"normalize"}, Request(c, stage)
        PROVE  run' \in [Callers -> Attempts]
    <3>1. stage \in Stages /\ c \in Callers
      BY DEF Stages, Callers
    <3>2. QED
      BY <2>1, <2>3, <3>1, IdleTyped, AtTyped DEF Request, Inv
  <2>4. CASE SaveSettings \/ ResetSettings
    BY <2>4 DEF SaveSettings, ResetSettings, Inv, TypeInv
  <2>5. QED
    BY <2>2, <2>3, <2>4
<1>4. TypeInv'
  BY <1>1, <1>2, <1>3 DEF Inv, TypeInv
<1>5. RateInv' /\ WaitInv' /\ EarnedInv'
  BY <1>1 DEF Inv, RateInv, WaitInv, EarnedInv, EarnedProposal, Earned
<1>6. QED
  BY <1>4, <1>5 DEF Inv

LEMMA InvInit == Init => Inv
<1> SUFFICES ASSUME Init PROVE Inv
  OBVIOUS
<1>1. TypeInv
  BY TypeInvInit
<1>2. RateInv
  <2> SUFFICES ASSUME NEW p \in Limited, NEW k \in 1 .. Interval + 1
               PROVE  recent[p][k] * Interval + bucket[p] <= Full + (k - 1) * Amount
    BY DEF RateInv
  <2>1. recent[p][k] = 0 /\ bucket[p] = Full
    BY DEF Init, BucketInit
  <2>2. (k - 1) * Amount >= 0
    BY LimiterTypes
  <2>3. QED
    BY <2>1, <2>2, LimiterTypes
<1>3. WaitInv /\ EarnedInv
  BY DEF Init, WaitInv, EarnedInv, EarnedProposal, Earned, NoProposal
<1>4. QED
  BY <1>1, <1>2, <1>3 DEF Inv

LEMMA InvStep == Inv /\ [Next]_vars => Inv'
<1>1. Inv /\ UNCHANGED vars => Inv'
  BY DEF Inv, TypeInv, RateInv, WaitInv, EarnedInv, EarnedProposal, Earned, vars
<1>2. QED
  BY <1>1, CallStep, DeniedStep, TickStep, OtherStep DEF Next, Call

LEMMA AlwaysInv == Spec => []Inv
BY InvInit, InvStep, PTL DEF Spec

\* Type correctness of the classification (TypeOK): a bucket never overflows
\* or goes below zero, a wait is never longer than the time of a whole token.
THEOREM TypeCorrect == Spec => []TypeOK
<1>1. Inv => TypeOK
  BY DEF Inv, TypeInv, TypeOK, Entries, Attempts
<1>2. QED
  BY <1>1, AlwaysInv, PTL

\* No provider gets more calls of a process than a full bucket and what is
\* added to it (RateKept), for any number of callers, any capacity and rate.
THEOREM CallsAreLimited == Spec => []RateKept
<1>1. Inv => RateKept
  <2> SUFFICES ASSUME Inv, NEW p \in Limited, NEW k \in DOMAIN recent[p]
               PROVE  recent[p][k] * Interval <= Full + (k - 1) * Amount
    BY DEF RateKept
  <2>1. k \in 1 .. Interval + 1 /\ bucket[p] \in Nat /\ recent[p][k] \in Nat
    BY LimiterTypes DEF Inv, TypeInv
  <2>2. recent[p][k] * Interval + bucket[p] <= Full + (k - 1) * Amount
    BY <2>1 DEF Inv, RateInv
  <2>3. recent[p][k] * Interval \in Nat /\ (k - 1) * Amount \in Nat
    BY <2>1, LimiterTypes
  <2>4. QED
    BY <2>1, <2>2, <2>3, LimiterTypes
<1>2. QED
  BY <1>1, AlwaysInv, PTL

\* The delay of a refused task is long enough (WaitEarnsAToken): when it is
\* over there is a token, unless another caller has taken one since.
THEOREM WaitIsLongEnough == Spec => []WaitEarnsAToken
<1>1. Inv => WaitEarnsAToken
  <2> SUFFICES ASSUME Inv, NEW r \in Rows, rows[r].wait = 0, rows[r].owed # None
               PROVE  Allowed(rows[r].owed)
    BY DEF WaitEarnsAToken
  <2>1. bucket[rows[r].owed] + rows[r].wait * Amount >= Interval
    BY DEF Inv, WaitInv
  <2>2. rows[r].wait * Amount = 0
    BY LimiterTypes
  <2>3. rows[r].owed \in Limited /\ bucket[rows[r].owed] \in Nat
    BY LimiterTypes DEF Inv, TypeInv, Entries
  <2>4. QED
    BY <2>1, <2>2, <2>3 DEF Allowed
<1>2. QED
  BY <1>1, AlwaysInv, PTL

\* Confidence is not made up on the way from the LLM to the proposal
\* (ConfidenceIsEarned), for any projects, aliases and failures.
THEOREM ProposalsEarnConfidence == Spec => []ConfidenceIsEarned
<1>1. Inv => ConfidenceIsEarned
  BY DEF Inv, EarnedInv, EarnedProposal, Earned, ConfidenceIsEarned
<1>2. QED
  BY <1>1, AlwaysInv, PTL

==============================================================================
