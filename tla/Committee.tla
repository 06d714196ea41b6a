----------------------------- MODULE Committee ------------------------------
(***************************************************************************)
(* What one run asks of the model and does with the answers: the agents of *)
(* app/agents, complete and complete_json of app/llm.py, and the handling  *)
(* of their exceptions in app/orchestrator.py.  Persistence, crashes and   *)
(* the approval itself are in Runner; here the gate opens or denies.       *)
(*                                                                         *)
(* The provider is a global of the process: the calls of other runs change *)
(* it while this run awaits an answer, or between two of its calls.        *)
(***************************************************************************)
EXTENDS Risk, FiniteSets

CONSTANTS Plans,            \* the agents of a plan, the verifier last
          AgentScores,      \* the scores a live Safety agent may answer
          Texts,            \* which markers the texts of a run may name
          MaxStepRetries,   \* MAX_STEP_RETRIES
          NoRisk            \* the plan has not been assessed

ASSUME PlansAssumption ==
  \A p \in Plans : /\ p \in Seq({"planner", "browser", "coder", "verifier"})
                   /\ p # <<>> /\ p[Len(p)] = "verifier"
ASSUME ScoresAssumption == AgentScores \subseteq 0 .. 100
ASSUME TextsAssumption ==
  Texts \subseteq SUBSET {"planner", "safety", "verifier", "query", "code"}
ASSUME CommitteeRetriesAssumption == MaxStepRetries \in Nat
ASSUME NoRiskAssumption == NoRisk \notin RiskAssessment

VARIABLES
  settings,   \* is a live provider configured, and LLM_FALLBACK_TO_DEMO?
  named,      \* the ATLAS_JSON_ markers that goal, outputs or memory themselves name
  provider,   \* _provider, "live" or "demo"
  lastError,  \* is _last_error set?
  place,      \* what the run is about to ask for, or how it ended
  awaiting,   \* a live call is under way
  strict,     \* complete_json asks for the second time
  plan, found, risk,          \* the plan, the signals in its text, its risk
  step, attempt, round,       \* the step, its attempt, the round
  error,      \* step.error and task.error: the provider whose answer was of no
              \* use, or what else was raised
  answers     \* history: where answers came from: "live", "demo", "error"

given == <<settings, named>>
process == <<given, provider, lastError>>
inquiry == <<awaiting, strict, answers>>
proposal == <<plan, found, risk>>
progress == <<step, attempt, round, error>>
vars == <<process, place, inquiry, proposal, progress>>

TotalAttempts == MaxStepRetries + 1
MaxRounds == 2
Ended == {"completed", "failed", "denied"}
Asking == {"planning", "assessing", "step", "synthesizing"}

Agent == plan[step]
Tools == {"browser", "coder"}     \* the agents that use the answer with a tool

\* What _parse_json and the agent's contract make of an answer: it is JSON of
\* the right shape, JSON of another shape, or holds no JSON.
Reply == {"good", "misshapen", "junk"}

\* The calls that want JSON; the planner's steps and the report are text.
WantsJson ==
  \/ place \in {"planning", "assessing"}
  \/ place = "step" /\ Agent # "planner"

\* detect_provider: FORCE_DEMO or no key, else the configured one.
Init ==
  /\ settings \in [live : BOOLEAN, fallback : BOOLEAN]
  /\ named \in Texts
  /\ provider = IF settings.live THEN "live" ELSE "demo"
  /\ lastError = FALSE
  /\ place = "planning"
  /\ awaiting = FALSE /\ strict = FALSE
  /\ plan = <<>> /\ found = {} /\ risk = NoRisk
  /\ step = 1 /\ attempt = 1 /\ round = 1 /\ error = "none"
  /\ answers = {}

-----------------------------------------------------------------------------
(* What becomes of an answer.                                              *)

MoveTo(next) ==
  /\ place' = next
  /\ step' = 1 /\ attempt' = 1

\* Planner.plan: whatever the agents of a plan, the verifier is added last.
\* Without a model the plan begins with the planner.
AcceptPlan(from) ==
  /\ place = "planning"
  /\ plan' \in {p \in Plans : from = "demo" => p[1] = "planner"}
  /\ found' \in SUBSET Signals
  /\ MoveTo("assessing")
  /\ UNCHANGED <<risk, round, error>>

DemoScores == {8, 75}

\* Safety.assess.
AcceptRisk(from) ==
  /\ place = "assessing"
  /\ \E score \in IF from = "demo" THEN DemoScores ELSE AgentScores :
       risk' = Merge(found, score)
  /\ MoveTo("gate")
  /\ UNCHANGED <<plan, found, round, error>>

\* The answer of a worker that has no tool, or whose tool succeeds.
AcceptStep ==
  /\ place = "step" /\ Agent # "verifier"
  /\ step' = step + 1 /\ attempt' = 1
  /\ error' = "none"
  /\ UNCHANGED <<place, round, proposal>>

\* The verdict ends the round: the report, a rework round, or failure.
AcceptVerdict(from) ==
  /\ place = "step" /\ Agent = "verifier"
  /\ \/ MoveTo("synthesizing") /\ error' = "none" /\ UNCHANGED round
     \/ /\ from = "live" /\ round < MaxRounds
        /\ MoveTo("step") /\ error' = "none" /\ round' = round + 1
     \/ /\ from = "live" /\ round = MaxRounds
        /\ MoveTo("failed") /\ error' = "verdict" /\ UNCHANGED round
  /\ UNCHANGED proposal

AcceptReport ==
  /\ place = "synthesizing"
  /\ MoveTo("completed")
  /\ UNCHANGED <<round, error, proposal>>

Accept(from) ==
  /\ AcceptPlan(from) \/ AcceptRisk(from) \/ AcceptStep \/ AcceptVerdict(from)
       \/ AcceptReport
  /\ strict' = FALSE

\* Mutant: a failed attempt is repeated for ever.
RaiseForever(failure) ==
  /\ error' = failure
  /\ strict' = FALSE
  /\ IF place = "step" THEN UNCHANGED place ELSE place' = "failed"
  /\ UNCHANGED <<step, attempt, round, proposal>>

\* Mutant: one attempt too many.
RaiseOnceMore(failure) ==
  /\ error' = failure
  /\ strict' = FALSE
  /\ IF place = "step" /\ attempt <= TotalAttempts
       THEN attempt' = attempt + 1 /\ UNCHANGED place
       ELSE place' = "failed" /\ UNCHANGED attempt
  /\ UNCHANGED <<step, round, proposal>>

\* An exception other than ProviderError: a step is tried again, a plan, a
\* risk or a report is not.
Raise(failure) ==
  /\ error' = failure
  /\ strict' = FALSE
  /\ IF place = "step" /\ attempt < TotalAttempts
       THEN attempt' = attempt + 1 /\ UNCHANGED place
       ELSE place' = "failed" /\ UNCHANGED attempt
  /\ UNCHANGED <<step, round, proposal>>

\* A provider error ends the step, and the run, at any attempt.
RaiseProviderError ==
  /\ place' = "failed" /\ error' = "provider"
  /\ strict' = FALSE
  /\ UNCHANGED <<step, attempt, round, proposal>>

\* complete_json asks once more when the answer is not JSON; the agent then
\* validates it, and its tool, if it has one, may raise.
Take(reply, from) ==
  \/ /\ WantsJson /\ reply = "junk" /\ ~strict
     /\ strict' = TRUE
     /\ UNCHANGED <<place, proposal, progress>>
  \/ WantsJson /\ reply = "junk" /\ strict /\ Raise(from)
  \/ WantsJson /\ reply = "misshapen" /\ Raise(from)
  \/ (reply = "good" \/ ~WantsJson) /\ Accept(from)
  \/ /\ reply = "good" /\ place = "step" /\ Agent \in Tools
     /\ Raise("tool")

-----------------------------------------------------------------------------
(* Asking: complete.                                                       *)

\* Who asks, in the calls that want JSON.
Asker == CASE place = "planning" -> "planner"
           [] place = "assessing" -> "safety"
           [] OTHER -> Agent

\* Mutant: the browser's prompt and _demo do not agree on the marker.
PromptOfSearch == [planner |-> "planner", safety |-> "safety", verifier |-> "verifier",
                   browser |-> "search", coder |-> "code"]

\* The marker in the prompt of each agent, ...
Prompt == [planner |-> "planner", safety |-> "safety", verifier |-> "verifier",
           browser |-> "query", coder |-> "code"]

\* ... what the agent validates the answer as, ...
Contract == [planner |-> {"steps"}, safety |-> {"score", "factors"},
             verifier |-> {"passed", "notes"}, browser |-> {"query"}, coder |-> {"code"}]

\* ... and the markers _demo looks for, in this order, with the fields it answers.
DemoTable == << [marker |-> "safety",   fields |-> {"score", "factors"}],
                [marker |-> "verifier", fields |-> {"passed", "notes"}],
                [marker |-> "query",    fields |-> {"query"}],
                [marker |-> "code",     fields |-> {"code"}] >>

\* _demo looks in all of the prompt, the texts that it quotes included, and the
\* first marker it finds counts; without one it answers in prose.
DemoReply(quoted) ==
  LET hits == {i \in DOMAIN DemoTable :
                 DemoTable[i].marker \in quoted \union {Prompt[Asker]}}
      first == CHOOSE i \in hits : \A j \in hits : i <= j
  IN IF hits = {} THEN "junk"
     ELSE IF Contract[Asker] \subseteq DemoTable[first].fields
            THEN "good" ELSE "misshapen"

\* The demo provider's answer to a prompt that quotes some of the texts.
TakeDemo == \E quoted \in SUBSET named : Take(DemoReply(quoted), "demo")

\* Planner.plan and synthesize ask is_demo first and then ask no model.
WithoutModel ==
  /\ place \in {"planning", "synthesizing"} /\ ~awaiting /\ ~strict
  /\ provider = "demo"
  /\ Accept("demo")
  /\ answers' = answers \union {"demo"}
  /\ UNCHANGED <<process, awaiting>>

\* The demo provider answers at once; a plan gets here with its strict retry.
AskDemo ==
  /\ place \in {"assessing", "step"} \/ (place = "planning" /\ strict)
  /\ ~awaiting
  /\ provider = "demo"
  /\ TakeDemo
  /\ answers' = answers \union {"demo"}
  /\ UNCHANGED <<process, awaiting>>

AskLive ==
  /\ place \in Asking /\ ~awaiting
  /\ provider = "live"
  /\ awaiting' = TRUE
  /\ UNCHANGED <<process, place, strict, answers, proposal, progress>>

\* Mutant: a call that succeeds makes its provider the one in use again.
SucceededReturns == provider' = "live" /\ lastError' = FALSE

\* The end of a live call that succeeds; the provider is left alone.
Succeeded == lastError' = FALSE /\ provider' = provider

LiveAnswers(reply) ==
  /\ awaiting
  /\ awaiting' = FALSE
  /\ Succeeded
  /\ Take(reply, "live")
  /\ answers' = answers \union {"live"}
  /\ UNCHANGED given

\* Mutant: the demo provider takes over whatever the settings say.
FallsBackAlways == TRUE

FallsBack == settings.fallback

\* A live call fails or times out: the demo provider answers in its place,
\* now and for good, or the error is raised.
LiveFails ==
  /\ awaiting
  /\ awaiting' = FALSE
  /\ lastError' = TRUE
  /\ \/ /\ FallsBack
        /\ provider' = "demo"
        /\ TakeDemo
        /\ answers' = answers \union {"demo"}
     \/ /\ ~FallsBack
        /\ provider' = provider
        /\ RaiseProviderError
        /\ answers' = answers \union {"error"}
  /\ UNCHANGED given

\* The gate: a run that needs approval gets it or is denied.
Gate ==
  /\ place = "gate"
  /\ MoveTo("step") \/ (risk.requires_approval /\ MoveTo("denied"))
  /\ UNCHANGED <<process, awaiting, strict, answers, round, error, proposal>>

\* A live call of another run of this process ends.
OtherAnswered ==
  /\ settings.live
  /\ Succeeded
  /\ UNCHANGED <<given, place, inquiry, proposal, progress>>

OtherFailed ==
  /\ settings.live
  /\ lastError' = TRUE
  /\ provider' = IF FallsBack THEN "demo" ELSE provider
  /\ UNCHANGED <<given, place, inquiry, proposal, progress>>

Run ==
  \/ WithoutModel \/ AskDemo \/ AskLive
  \/ \E reply \in Reply : LiveAnswers(reply)
  \/ LiveFails \/ Gate

Next == Run \/ OtherAnswered \/ OtherFailed

\* The run goes on: a call of the model, or of a tool, returns or times out.
Spec == Init /\ [][Next]_vars /\ WF_vars(Run)
-----------------------------------------------------------------------------
(* Properties.                                                             *)

\* The type invariant of a run and the provider.
TypeOK ==
  /\ settings \in [live : BOOLEAN, fallback : BOOLEAN] /\ named \in Texts
  /\ provider \in {"live", "demo"} /\ lastError \in BOOLEAN
  /\ place \in Asking \union Ended \union {"gate"}
  /\ awaiting \in BOOLEAN /\ strict \in BOOLEAN
  /\ answers \subseteq {"live", "demo", "error"}
  /\ plan \in Plans \union {<<>>} /\ found \subseteq Signals
  /\ risk \in RiskAssessment \union {NoRisk}
  /\ place = "step" => step \in DOMAIN plan
  /\ attempt \in 1 .. TotalAttempts /\ round \in 1 .. MaxRounds
  /\ error \in {"none", "live", "demo", "tool", "provider", "verdict"}

\* "The task then fails visibly instead of quietly finishing with made-up
\* output" (llm.py): without the fallback nothing made up enters a run of a
\* live provider, and the first failed call is its last.
FailsVisibly ==
  settings.live /\ ~settings.fallback =>
    /\ "demo" \notin answers
    /\ "error" \in answers => place = "failed"

\* Would _demo find marker m in a prompt of the agent before the agent's own?
Shadows(m, agent) ==
  \E i, j \in DOMAIN DemoTable :
    i < j /\ DemoTable[i].marker = m /\ DemoTable[j].marker = Prompt[agent]

\* An answer of the demo provider makes an agent fail only where a text of the run
\* names a marker that _demo looks for before the agent's own; the Safety agent,
\* whose marker is the first, never, and the planner always: a run that falls back
\* while it plans fails (_demo, and the prompts of safety.py, verifier.py,
\* browser.py, coder.py and planner.py).
DemoServesAll ==
  error = "demo" =>
    plan = <<>> \/ (risk # NoRisk /\ \E m \in named : Shadows(m, Agent))

\* Once it got a made-up answer a run asks no live model again: answers of the
\* two kinds do not alternate, whatever other runs do to _provider (complete).
NoMixing == awaiting => "demo" \notin answers

\* The risk of a run is not below the heaviest signal in goal and plan, and two
\* signals weigh more than either, whatever the Safety agent answered
\* (heuristic_score, merge).
FloorKept ==
  risk # NoRisk =>
    \A s \in found :
      risk.score >= AtMost(100, Weights[s] + IF Cardinality(found) > 1 THEN 8 ELSE 0)

\* One signal more in the text would never have made the run less risky, whatever
\* its place in the table (heuristic_score applies the signals in order).
SignalNeverLowers ==
  risk # NoRisk =>
    \A s \in Signals :
      Merge(found \union {s}, risk.agent_score).score >= risk.score

\* Every run ends, whatever the model answers (_run, complete_json).
Ends == <>(place \in Ended)
=============================================================================
