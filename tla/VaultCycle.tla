----------------------------- MODULE VaultCycle -----------------------------
(***************************************************************************)
(* The vault's server: threads that ask for a cycle or for a learning pass *)
(* share one vault behind a lock that turns the second away; the state is  *)
(* read without it.  A cycle goes stage by stage, days may pass while the  *)
(* model answers, and a stage that raises either ends the cycle or only    *)
(* leaves its error behind.                                                *)
(***************************************************************************)
EXTENDS Integers, Sequences, FiniteSets

CONSTANTS
    Runners,      \* threads of the server that post a run or a learning pass
    Horizons,     \* days until a call is due
    MaxMade,      \* bound on the calls
    MaxDay        \* bound on the calendar

ASSUME VaultAssumption ==
    /\ Horizons \subseteq Nat \ {0}
    /\ MaxMade \in Nat \ {0} /\ MaxDay \in Nat

VARIABLES
    vDay,
    vCalls,      \* the journal: [due, basis, after, resolved, informed]
    vSeries,     \* what is loaded: "none", "live" or "fixture"
    vFixtures,   \* use_fixtures
    vLock,       \* _run_lock is held
    vStage,      \* stage
    vPredictor,  \* learning passes adopted
    vAt          \* where each thread is, and what it holds

vaultVars == <<vDay, vCalls, vSeries, vFixtures, vLock, vStage, vPredictor, vAt>>

Resting == [at |-> "idle", failed |-> FALSE, due |-> {}, score |-> {}, scored |-> FALSE,
            informed |-> FALSE, head |-> 0, basis |-> "none", answered |-> "not asked"]

Resolved == {i \in DOMAIN vCalls : vCalls[i].resolved # "no"}
Due == {i \in DOMAIN vCalls : vCalls[i].due <= vDay}

-----------------------------------------------------------------------------

\* Mutant of After: the scoreboard before the old calls are graded.
AfterUngraded(stage) ==
    CASE stage = "scan" -> "score" [] stage = "score" -> "resolve" [] stage = "resolve" -> "macro"
      [] stage = "macro" -> "flow" [] stage = "flow" -> "bias" [] stage = "bias" -> "gate"
      [] OTHER -> "idle"

\* run: the order of the stages; the old calls are graded before a new one is made.
After(stage) ==
    CASE stage = "scan" -> "resolve" [] stage = "resolve" -> "score" [] stage = "score" -> "macro"
      [] stage = "macro" -> "flow" [] stage = "flow" -> "bias" [] stage = "bias" -> "gate"
      [] OTHER -> "idle"

\* The thread goes on to a stage, whose name is set when it starts; the last one lets go.
GoTo(t, mine, stage) ==
    /\ vAt' = [vAt EXCEPT ![t] = IF stage = "idle" THEN Resting ELSE [mine EXCEPT !.at = stage]]
    /\ vLock' = (vLock /\ stage # "idle")

Failing(mine) == [mine EXCEPT !.failed = TRUE]

\* Mutant of Acquire: a run does not ask for the lock.
AcquireNever == TRUE
\* acquire(blocking=False): the one who comes second is told so and goes away.
Acquire == ~vLock

Ask(t) ==
    /\ vAt[t].at = "idle" /\ Acquire
    /\ \E wants \in {"scan", "learn"} : vAt' = [vAt EXCEPT ![t].at = wants]
    /\ vLock' = TRUE
    /\ UNCHANGED <<vDay, vCalls, vSeries, vFixtures, vStage, vPredictor>>

\* scan: without one live series, fixtures from then on.
Loaded(answers) ==
    IF vFixtures \/ ~answers THEN vSeries' = "fixture" /\ vFixtures' = TRUE
    ELSE vSeries' = "live" /\ UNCHANGED vFixtures

Scan(t) ==
    /\ vAt[t].at = "scan"
    /\ \/ \E answers \in BOOLEAN : Loaded(answers) /\ GoTo(t, vAt[t], After("scan")) /\ vStage' = "scan"
       \/ GoTo(t, vAt[t], "idle") /\ vStage' = "idle" /\ UNCHANGED <<vSeries, vFixtures>>
    /\ UNCHANGED <<vDay, vCalls, vPredictor>>

\* The open calls up to one of them have their outcome, on the prices that are loaded.
Graded(open, upTo) ==
    [i \in DOMAIN vCalls |->
        IF i \in open /\ i <= upTo THEN [vCalls[i] EXCEPT !.resolved = vSeries] ELSE vCalls[i]]

\* resolve: what is due is graded, and what has lost its stop; an append that raises
\* leaves the rest as they were.
ResolveStage(t) ==
    /\ vAt[t].at = "resolve"
    /\ vStage' = "resolve"
    /\ \E stopped \in SUBSET (DOMAIN vCalls \ (Resolved \cup Due)) :
           LET open == (Due \ Resolved) \cup stopped
           IN  \/ vCalls' = Graded(open, Len(vCalls)) /\ GoTo(t, [vAt[t] EXCEPT !.due = Due], After("resolve"))
               \/ \E i \in open : vCalls' = Graded(open, i - 1)
                                  /\ GoTo(t, Failing([vAt[t] EXCEPT !.due = Due]), After("resolve"))
    /\ UNCHANGED <<vDay, vSeries, vFixtures, vPredictor>>

\* score: the calls with an outcome; when it raises the cycle goes on without a score.
ScoreStage(t) ==
    /\ vAt[t].at = "score"
    /\ vStage' = "score"
    /\ \/ GoTo(t, [vAt[t] EXCEPT !.score = Resolved, !.scored = TRUE], After("score"))
       \/ GoTo(t, Failing(vAt[t]), After("score"))
    /\ UNCHANGED <<vDay, vCalls, vSeries, vFixtures, vPredictor>>

\* classify and brief: without them there is no cycle.
MacroStage(t) ==
    /\ vAt[t].at = "macro"
    /\ \/ vStage' = "flow" /\ GoTo(t, vAt[t], After("macro"))
       \/ vStage' = "idle" /\ GoTo(t, vAt[t], "idle")
    /\ UNCHANGED <<vDay, vCalls, vSeries, vFixtures, vPredictor>>

\* The signals and the prior; the cycle goes on without them.
FlowStage(t) ==
    /\ vAt[t].at = "flow"
    /\ vStage' = "bias"
    /\ GoTo(t, vAt[t], After("flow")) \/ GoTo(t, Failing(vAt[t]), After("flow"))
    /\ UNCHANGED <<vDay, vCalls, vSeries, vFixtures, vPredictor>>

-----------------------------------------------------------------------------
(* generate: the prompt is made, the model answers, the call is committed. *)

\* Without credentials the cycle ends here; the prompt has the score and today's prices.
AskModel(t) ==
    /\ vAt[t].at = "bias" /\ vAt[t].answered = "not asked"
    /\ \/ /\ GoTo(t, [vAt[t] EXCEPT !.answered = "no", !.basis = vSeries, !.due = {}, !.score = {},
                                   !.informed = vAt[t].failed \/ vAt[t].due \subseteq vAt[t].score], "bias")
          /\ UNCHANGED vStage
       \/ vStage' = "idle" /\ GoTo(t, vAt[t], "idle")
    /\ UNCHANGED <<vDay, vCalls, vSeries, vFixtures, vPredictor>>

\* A refusal, an answer that does not parse, an abstention: no call, and no error of the
\* cycle's.  A call about an asset without a price is not committed but goes on to the
\* gate.  Else the record is made, after the one that is last now.
ModelAnswers(t) ==
    /\ vAt[t].at = "bias" /\ vAt[t].answered = "no"
    /\ \/ GoTo(t, vAt[t], After("bias"))
       \/ GoTo(t, [vAt[t] EXCEPT !.answered = "unpriced"], After("bias"))
       \/ GoTo(t, [vAt[t] EXCEPT !.answered = "call", !.head = Len(vCalls)], "bias")
    /\ vStage' = IF vAt'[t].at = "gate" THEN "gate" ELSE vStage
    /\ UNCHANGED <<vDay, vCalls, vSeries, vFixtures, vPredictor>>

\* The line is appended; or it could not be, and the cycle ends.
CommitCall(t) ==
    LET mine == vAt[t] IN
    /\ mine.at = "bias" /\ mine.answered = "call"
    /\ \/ /\ Len(vCalls) < MaxMade
          /\ \E days \in Horizons :
                 vCalls' = Append(vCalls, [due |-> vDay + days, basis |-> mine.basis, after |-> mine.head,
                                           resolved |-> "no", informed |-> mine.informed])
          /\ vStage' = "gate" /\ GoTo(t, mine, After("bias"))
       \/ vStage' = "idle" /\ GoTo(t, mine, "idle") /\ UNCHANGED vCalls
    /\ UNCHANGED <<vDay, vSeries, vFixtures, vPredictor>>

\* The gate sizes what the model called, if there is a score.
GateStage(t) ==
    /\ vAt[t].at = "gate"
    /\ vStage' = "idle" /\ GoTo(t, vAt[t], "idle")
    /\ UNCHANGED <<vDay, vCalls, vSeries, vFixtures, vPredictor>>

\* learn: behind the same lock; the predictor is replaced by one that was fitted whole.
LearnPass(t) ==
    /\ vAt[t].at = "learn"
    /\ IF vSeries = "none" THEN \E answers \in BOOLEAN : Loaded(answers) ELSE UNCHANGED <<vSeries, vFixtures>>
    /\ vPredictor' = 1 \/ UNCHANGED vPredictor
    /\ vStage' = "idle" /\ GoTo(t, vAt[t], "idle")
    /\ UNCHANGED <<vDay, vCalls>>

\* snapshot, for the page and for every listener: it scores first, if there are calls.
Snapshot ==
    /\ vStage' = IF vCalls # << >> THEN "score" ELSE vStage
    /\ UNCHANGED <<vDay, vCalls, vSeries, vFixtures, vLock, vPredictor, vAt>>

Midnight ==
    /\ vDay < MaxDay
    /\ vDay' = vDay + 1
    /\ UNCHANGED <<vCalls, vSeries, vFixtures, vLock, vStage, vPredictor, vAt>>

\* cmd_serve scans before the server listens.
VaultInit ==
    /\ vDay = 0 /\ vCalls = << >>
    /\ vFixtures \in BOOLEAN /\ vSeries = IF vFixtures THEN "fixture" ELSE "live"
    /\ vLock = FALSE /\ vStage = "scan" /\ vPredictor = 0
    /\ vAt = [t \in Runners |-> Resting]

Cycle(t) ==
    \/ Scan(t) \/ ResolveStage(t) \/ ScoreStage(t) \/ MacroStage(t) \/ FlowStage(t)
    \/ AskModel(t) \/ ModelAnswers(t) \/ CommitCall(t) \/ GateStage(t) \/ LearnPass(t)

VaultNext == (\E t \in Runners : Ask(t) \/ Cycle(t)) \/ Snapshot \/ Midnight

-----------------------------------------------------------------------------

\* "RESOLVE BEFORE BIAS": a cycle in which nothing failed told the model the outcome of
\* every call that was due, however long it took and whatever else the server did.
ModelKnowsEveryOutcome ==
    \A i \in DOMAIN vCalls : vCalls[i].informed

\* Two cycles never make the same call twice or side by side: each is chained to the one
\* before it, whatever threads ask for a cycle and when.  Code: the lock of the server.
CallsFormOneLine ==
    \A i \in DOMAIN vCalls : vCalls[i].after = i - 1

\* fixtures.py: "nothing downstream can mistake it for the real thing".  A call made on
\* real prices is graded on synthetic ones once a scan has found no source.
RealCallsAreGradedOnRealPrices ==
    \A i \in DOMAIN vCalls : vCalls[i].basis = "live" => vCalls[i].resolved \in {"no", "live"}

\* "Full state for the HUD": the page shows no stage of a cycle that is not running.  But
\* a snapshot of a journal that is not empty sets the stage before it reads it.
StageIsTheCycles == vStage = "score" => \E t \in Runners : vAt[t].at \in {"macro", "score"}
=============================================================================
