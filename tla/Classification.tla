---------------------------- MODULE Classification ----------------------------
(***************************************************************************)
(* The classification of a task by the LLM: the pipeline of calls with its *)
(* retries, fallback model and fallback answers (llm_service.py), the      *)
(* routing to a project (classification_service.py with                    *)
(* project_routing_service.py), the model settings that an attempt reads   *)
(* (model_settings_service.py), and the worker that puts a task back in    *)
(* the queue when the rate limiter refuses a call (processing_worker.py).  *)
(*                                                                         *)
(* The buckets belong to a process, and a behaviour is that of one: the    *)
(* public process runs the worker and the drafts of the Mini App, the admin *)
(* panel reclassifies, rewrites titles and describes projects.  Every call *)
(* runs in a thread, so that the others go on between any two.             *)
(* Classification reads projects and aliases when it starts; since nothing *)
(* writes them here they are chosen when they are used.  Nobody passes it  *)
(* prompt versions, so that there are no custom instructions and one pass. *)
(***************************************************************************)
EXTENDS RateLimiter, Sequences

CONSTANTS
  Rows,        \* entries of the processing queue
  Requests,    \* requests to the process that call the LLM
  Worker,      \* the worker
  Projects,    \* numbered in the order of their names
  Personal,    \* the project with the slug "personal"
  Models,
  EnvConfig,   \* the model settings of the environment
  Settings,    \* the model settings an admin stores
  MaxRequests, \* bound: requests made
  MaxSaves     \* bound: changes of the model settings

Unset == 0
None  == 0

\* Model settings, of the environment or stored.
Configs == [provider : Limited \cup Local \cup {Unset}, model : Models \cup {Unset},
            fast : Models \cup {Unset}, quality : Models \cup {Unset},
            fallback : Models \cup {Unset}, auto : BOOLEAN]

ASSUME ConfigAssumption == EnvConfig \in Configs /\ Settings \subseteq Configs

ASSUME ClassificationAssumption ==
  /\ Worker \notin Requests
  /\ Projects \subseteq Nat \ {0} /\ Personal \in Nat
  /\ Unset \notin Models /\ Unset \notin Limited \cup Local
  /\ MaxRequests \in Nat /\ MaxSaves \in Nat

Callers == Requests \cup {Worker}
Band    == {"low", "medium", "high"}

VARIABLES
  process, \* the process: "public" or "admin"
  rows,    \* queue entries: their state, the ticks until not_before, whether
           \* the token they wait for is theirs, how the proposal came about
  run,     \* the attempt of each caller
  stored,  \* the model settings in the database
  recent,  \* calls of each limited provider let through in the latest k ticks
  used     \* consumed bounds

vars == <<process, bucket, rows, run, stored, recent, used>>

Idle == [row |-> None, stage |-> "idle", tries |-> 0, model |-> Unset, llm |-> "none",
         config |-> EnvConfig]

NoProposal == [confidence |-> "low", llm |-> "none", by |-> "none"]

\* Nothing is stored: everything is as in the environment.
NoSettings == [EnvConfig EXCEPT !.provider = Unset, !.model = Unset, !.fast = Unset,
                                !.quality = Unset, !.fallback = Unset]

Init ==
  /\ process \in {"public", "admin"}
  /\ BucketInit
  /\ rows   = [r \in Rows |-> [state |-> "pending", wait |-> 0, owed |-> None,
                               proposal |-> NoProposal]]
  /\ run    = [c \in Callers |-> Idle]
  /\ stored = NoSettings
  /\ recent = [p \in Limited |-> [k \in 1 .. Interval + 1 |-> 0]]
  /\ used   = [requests |-> 0, saves |-> 0]

------------------------------------------------------------------------------
(* Model settings.                                                         *)

\* get_effective_llm_config: what is stored, and where that is empty the
\* environment.
Effective ==
  [f \in DOMAIN EnvConfig |->
     IF f = "auto" \/ stored[f] # Unset THEN stored[f] ELSE EnvConfig[f]]

\* _resolve_model
Tier(stage) == IF stage \in {"normalize", "rewrite"} THEN "fast" ELSE "quality"

Resolve(config, stage) ==
  IF config.auto /\ stage # "draft" /\ config[Tier(stage)] # Unset
  THEN config[Tier(stage)] ELSE config.model

SaveSettings ==
  /\ used.saves < MaxSaves /\ used' = [used EXCEPT !.saves = @ + 1]
  /\ stored' \in Settings \ {stored}
  /\ UNCHANGED <<process, bucket, rows, run, recent>>

ResetSettings ==
  /\ stored # NoSettings
  /\ used.saves < MaxSaves /\ used' = [used EXCEPT !.saves = @ + 1]
  /\ stored' = NoSettings
  /\ UNCHANGED <<process, bucket, rows, run, recent>>

------------------------------------------------------------------------------
(* Attempts.                                                               *)

At(c, stage, config, attempt) ==
  run' = [run EXCEPT ![c] = [attempt EXCEPT !.stage = stage, !.config = config, !.tries = 0,
                                            !.model = Resolve(config, stage)]]

Goto(c, stage) == At(c, stage, run[c].config, run[c])

End(c) == run' = [run EXCEPT ![c] = Idle]

\* claim_next, and the settings of this attempt
Claim(r) ==
  /\ process = "public" /\ run[Worker] = Idle
  /\ rows[r].state = "pending" /\ rows[r].wait = 0
  /\ rows' = [rows EXCEPT ![r].state = "processing"]
  /\ At(Worker, "normalize", Effective, [Idle EXCEPT !.row = r])
  /\ UNCHANGED <<process, bucket, stored, recent, used>>

\* Requests of one call, made once more when it fails.
Single == {"draft", "rewrite", "project"}

\* generate_draft; reclassify, rewrite and generate-description
Request(c, stage) ==
  /\ run[c] = Idle
  /\ stage \in IF process = "public" THEN {"draft"} ELSE {"normalize", "rewrite", "project"}
  /\ used.requests < MaxRequests /\ used' = [used EXCEPT !.requests = @ + 1]
  /\ At(c, stage, Effective, Idle)
  /\ UNCHANGED <<process, bucket, rows, stored, recent>>

------------------------------------------------------------------------------
(* Routing.  "hits" are the projects with an alias in the text, "guess" is *)
(* the project the LLM names, whose name it meets exactly or in part.      *)

\* Mutant: the LLM's confidence goes with a name met in part.
RouteTrusting(hits, guess, exact, confidence, available) ==
  IF hits \cap available # {}
  THEN [project : hits \cap available, confidence : {"high"}, by : {"alias"}]
  ELSE IF guess \in available
  THEN {[project |-> guess, confidence |-> confidence, by |-> IF exact THEN "name" ELSE "part"]}
  ELSE IF Personal \in available
  THEN {[project |-> Personal, confidence |-> "low", by |-> "default"]}
  ELSE [project : IF available = {} THEN {None} ELSE {Min(available)},
        confidence : {"low"}, by : {"default"}]

\* route: the alias met first, in the order the table gives them; the name; a
\* name met in part; the default; the first project there is.
Route(hits, guess, exact, confidence, available) ==
  IF hits \cap available # {}
  THEN [project : hits \cap available, confidence : {"high"}, by : {"alias"}]
  ELSE IF guess \in available
  THEN {[project |-> guess, confidence |-> IF exact THEN confidence ELSE "medium",
         by |-> IF exact THEN "name" ELSE "part"]}
  ELSE IF Personal \in available
  THEN {[project |-> Personal, confidence |-> "low", by |-> "default"]}
  ELSE [project : IF available = {} THEN {None} ELSE {Min(available)},
        confidence : {"low"}, by : {"default"}]

\* The answer to classify, or _fallback_pipeline, which names the project with
\* the slug "personal", or else the word, which may be met in another name.
Answers(llm, available) ==
  IF llm = "none" /\ Personal \in available
  THEN {[guess |-> Personal, exact |-> TRUE, confidence |-> "low"]}
  ELSE IF llm = "none"
  THEN [guess : Projects \cup {None}, exact : {FALSE}, confidence : {"low"}]
  ELSE [guess : Projects \cup {None}, exact : BOOLEAN, confidence : {llm}]

\* A token that another caller takes is no longer there for a row that waits.
Unowed(c) ==
  [r \in Rows |-> IF rows[r].owed = run[c].config.provider
                  THEN [rows[r] EXCEPT !.owed = None] ELSE rows[r]]

\* What can come of an answer, for the projects and aliases that are read.
Outcomes ==
  [llm \in Band \cup {"none"} |->
     UNION {UNION {Route(hits, a.guess, a.exact, a.confidence, available) :
              hits \in SUBSET Projects, a \in Answers(llm, available)} : available \in SUBSET Projects}]

\* _route_project, then the commit of the proposal; a reclassification by the
\* admin writes only a revision.
Conclude(c, llm) ==
  /\ \/ /\ c = Worker
        /\ \E p \in Outcomes[llm] :
             rows' = [Unowed(c) EXCEPT ![run[c].row].state = "proposed",
                        ![run[c].row].proposal =
                          [confidence |-> p.confidence, llm |-> llm, by |-> p.by]]
     \/ c # Worker /\ rows' = Unowed(c)
  /\ End(c)

------------------------------------------------------------------------------
(* Calls (_call_llm_sync, _try_call_and_parse, _call_and_parse).           *)

LetThrough(c) ==
  LET p == run[c].config.provider
  IN  /\ run[c].stage # "idle"
      /\ Acquire(p)
      /\ recent' = [recent EXCEPT ![p] = [k \in DOMAIN @ |-> @[k] + 1]]

\* What follows each stage of run_pipeline; "low" asks for a disambiguation,
\* whose answer nobody uses.
Following(stage, llm) ==
  CASE stage = "normalize"    -> "classify"
    [] stage = "classify"     -> IF llm = "low" THEN "disambiguate" ELSE "describe"
    [] stage = "disambiguate" -> "describe"
    [] stage = "describe"     -> "steps"

\* The call returns JSON that fits the schema.
Answered(c) ==
  /\ LetThrough(c)
  /\ \/ /\ run[c].stage = "classify"
        /\ \E llm \in Band :
             At(c, Following("classify", llm), run[c].config, [run[c] EXCEPT !.llm = llm])
        /\ rows' = Unowed(c)
     \/ /\ run[c].stage \in {"normalize", "disambiguate", "describe"}
        /\ Goto(c, Following(run[c].stage, run[c].llm))
        /\ rows' = Unowed(c)
     \/ run[c].stage = "steps" /\ Conclude(c, run[c].llm)
     \/ run[c].stage \in Single /\ End(c) /\ rows' = Unowed(c)
  /\ UNCHANGED <<process, stored, used>>

\* Mutant: the fallback model is tried as often as it fails.
FallbackLeftFromAnywhere(c) ==
  /\ run[c].stage \notin Single
  /\ run[c].config.fallback # Unset

\* The fallback model is another one, and is not in use yet.
FallbackLeft(c) ==
  LET config == run[c].config
  IN  /\ run[c].stage \notin Single
      /\ config.fallback \notin {Unset, Resolve(config, run[c].stage)}
      /\ run[c].model # config.fallback

LastTry(c) == run[c].tries = 1 \/ run[c].model # Resolve(run[c].config, run[c].stage)

\* The call raises or its answer cannot be used: a second attempt, then one
\* with the fallback model, then the step's own fallback.
Failed(c) ==
  /\ LetThrough(c)
  /\ \/ /\ ~LastTry(c)
        /\ run' = [run EXCEPT ![c].tries = @ + 1] /\ rows' = Unowed(c)
     \/ /\ LastTry(c) /\ FallbackLeft(c)
        /\ run' = [run EXCEPT ![c].model = run[c].config.fallback, ![c].tries = 0]
        /\ rows' = Unowed(c)
     \/ /\ LastTry(c) /\ ~FallbackLeft(c)
        /\ \/ run[c].stage \in {"classify", "steps"} /\ Conclude(c, run[c].llm)
           \/ /\ run[c].stage \in {"normalize", "disambiguate", "describe"}
              /\ Goto(c, Following(run[c].stage, run[c].llm)) /\ rows' = Unowed(c)
           \/ run[c].stage \in Single /\ End(c) /\ rows' = Unowed(c)
  /\ UNCHANGED <<process, stored, used>>

\* Mutant: it is handled as any other error.
DeniedForGood(c) ==
  LET p == run[c].config.provider
  IN  /\ run[c].stage # "idle" /\ ~Allowed(p)
      /\ rows' = [r \in Rows |-> IF r = run[c].row THEN [rows[r] EXCEPT !.state = "failed"]
                                ELSE rows[r]]
      /\ End(c)
      /\ UNCHANGED <<process, bucket, stored, recent, used>>

\* RateLimitError: nothing of the attempt is kept; the worker puts its row
\* back with not_before, a request ends with an error.
Denied(c) ==
  LET p == run[c].config.provider
  IN  /\ run[c].stage # "idle" /\ ~Allowed(p)
      /\ rows' = [r \in Rows |->
           IF r # run[c].row THEN rows[r]
           ELSE [rows[r] EXCEPT !.state = "pending", !.wait = RetryAfter(p), !.owed = p]]
      /\ End(c)
      /\ UNCHANGED <<process, bucket, stored, recent, used>>

Call(c) == Answered(c) \/ Failed(c) \/ Denied(c)

------------------------------------------------------------------------------

\* Time passes.
Tick ==
  /\ Refill
  /\ rows'   = [r \in Rows |-> [rows[r] EXCEPT !.wait = IF @ = 0 THEN 0 ELSE @ - 1]]
  /\ recent' = [p \in Limited |->
                  [k \in DOMAIN recent[p] |-> IF k = 1 THEN 0 ELSE recent[p][k - 1]]]
  /\ UNCHANGED <<process, run, stored, used>>

Next ==
  \/ \E r \in Rows : Claim(r)
  \/ \E c \in Requests, stage \in Single \cup {"normalize"} : Request(c, stage)
  \/ \E c \in Callers : Call(c)
  \/ SaveSettings \/ ResetSettings \/ Tick

Spec == Init /\ [][Next]_vars

\* The clock runs, a call returns (the client has a timeout), and the scheduler
\* goes on starting the worker, which takes the oldest row that is due.
Fairness ==
  /\ WF_vars(Tick)
  /\ \A c \in Callers : WF_vars(Call(c))
  /\ \A r \in Rows : SF_vars(Claim(r))

FairSpec == Spec /\ Fairness

------------------------------------------------------------------------------
(* Properties.                                                             *)

TypeOK ==
  /\ \A p \in Limited : bucket[p] \in 0 .. Full
  /\ \A r \in Rows : rows[r].wait \in 0 .. Interval
  /\ \A c \in Callers : run[c].tries \in {0, 1} /\ run[c].model \in Models \cup {Unset}

\* Whoever calls and however the calls interleave, a provider gets no more
\* calls of a process in any stretch of time than a full bucket and what is
\* added to it; two processes have two buckets.
RateKept ==
  \A p \in Limited : \A k \in DOMAIN recent[p] :
    recent[p][k] * Interval <= Full + (k - 1) * Amount

\* A task that was put back finds a token when its wait is over, unless somebody
\* else has taken it: the delay is long enough (retry_after_seconds).
WaitEarnsAToken ==
  \A r \in Rows : rows[r].wait = 0 /\ rows[r].owed # None => Allowed(rows[r].owed)

\* A task is proposed with more confidence than the LLM put in its answer only
\* because an alias is in its text or a project's name was met in part; without
\* an answer it is otherwise proposed with low confidence, whichever calls
\* failed before.
ConfidenceIsEarned ==
  \A r \in Rows :
    LET p == rows[r].proposal
    IN  /\ p.confidence = "high" => p.by = "alias" \/ (p.by = "name" /\ p.llm = "high")
        /\ p.confidence = "medium" => p.by = "part" \/ (p.by = "name" /\ p.llm = "medium")

\* Every attempt ends, whatever fails: in a proposal, an answer, or back in the
\* queue.
EveryAttemptEnds == \A c \in Callers : run[c].stage # "idle" ~> run[c].stage = "idle"

\* The queue is served once the calls are not limited: a task that was refused
\* and put back, however often, is neither lost nor bound to the provider that
\* refused it.
ServedWhenLocal ==
  process = "public" /\ <>[](Effective.provider \in Local) => \A r \in Rows : <>(rows[r].state = "proposed")

==============================================================================
