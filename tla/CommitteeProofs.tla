-------------------------- MODULE CommitteeProofs ---------------------------
(***************************************************************************)
(* Proofs about modules Risk and Committee, for every threshold, set of    *)
(* plans, set of agent scores and number of retries.  The first part shows *)
(* what the chain of _HEURISTICS computes for every set of signals; the    *)
(* second that a run keeps its types, where made-up answers may come from, *)
(* and that its risk is what the first part says.                          *)
(***************************************************************************)
EXTENDS Committee, FiniteSetTheorems, TLAPS

-----------------------------------------------------------------------------
(* The score.                                                              *)

\* The score once signal n, of weight w, has been looked for.
Then(n, w, score, signals) == IF n \in signals THEN Raised(score, w) ELSE score

After1(signals) == Then(1, 95, 0, signals)
After2(signals) == Then(2, 62, After1(signals), signals)
After3(signals) == Then(3, 72, After2(signals), signals)
After4(signals) == Then(4, 76, After3(signals), signals)
After5(signals) == Then(5, 38, After4(signals), signals)
After6(signals) == Then(6, 32, After5(signals), signals)
After7(signals) == Then(7, 65, After6(signals), signals)

\* The table of weights, one by one.
LEMMA TableFacts ==
  /\ Len(Weights) = 7 /\ Signals = 1 .. 7
  /\ Weights[1] = 95 /\ Weights[2] = 62 /\ Weights[3] = 72 /\ Weights[4] = 76
  /\ Weights[5] = 38 /\ Weights[6] = 32 /\ Weights[7] = 65
BY DEF Weights, Signals

\* The recursive function of HeuristicScore is the chain of its seven steps.
LEMMA ScoreIsChain ==
  ASSUME NEW signals
  PROVE  HeuristicScore(signals) = After7(signals)
<1> DEFINE Next7(g) == [n \in 0 .. 7 |->
             IF n = 0 THEN 0
             ELSE IF n \in signals THEN Raised(g[n - 1], Weights[n])
             ELSE g[n - 1]]
           chain == [n \in 0 .. 7 |->
             IF n = 0 THEN 0
             ELSE IF n = 1 THEN After1(signals)
             ELSE IF n = 2 THEN After2(signals)
             ELSE IF n = 3 THEN After3(signals)
             ELSE IF n = 4 THEN After4(signals)
             ELSE IF n = 5 THEN After5(signals)
             ELSE IF n = 6 THEN After6(signals)
             ELSE After7(signals)]
           after == CHOOSE g : g = Next7(g)
<1>1. chain = Next7(chain)
  <2> SUFFICES ASSUME NEW n \in 0 .. 7
               PROVE  chain[n] = Next7(chain)[n]
    OBVIOUS
  <2>1. CASE n \in {0, 1, 2, 3}
    BY <2>1, TableFacts DEF Then, After1, After2, After3
  <2>2. CASE n \in {4, 5}
    BY <2>2, TableFacts DEF Then, After4, After5
  <2>3. CASE n \in {6, 7}
    BY <2>3, TableFacts DEF Then, After6, After7
  <2> QED BY <2>1, <2>2, <2>3
<1>2. after = Next7(after)
  <2> HIDE DEF Next7, chain
  <2> QED BY <1>1
<1>3. HeuristicScore(signals) = after[7]
  BY TableFacts DEF HeuristicScore
<1> HIDE DEF after
<1>4. /\ after[0] = 0
      /\ \A n \in 1 .. 7 : after[n] = Then(n, Weights[n], after[n - 1], signals)
  BY <1>2 DEF Then
<1>5. after[1] = After1(signals)
  BY <1>4, TableFacts DEF After1
<1>6. after[2] = After2(signals) /\ after[3] = After3(signals)
  BY <1>4, <1>5, TableFacts DEF After2, After3
<1>7. after[4] = After4(signals) /\ after[5] = After5(signals)
  BY <1>4, <1>6, TableFacts DEF After4, After5
<1>8. after[6] = After6(signals) /\ after[7] = After7(signals)
  BY <1>4, <1>7, TableFacts DEF After6, After7
<1> QED BY <1>3, <1>8

\* The score is one of 0 .. 100, not below the weight of any signal that was
\* found, and 8 above it, up to 100, when there is another.
LEMMA ScoreFloor ==
  ASSUME NEW signals
  PROVE  /\ HeuristicScore(signals) \in 0 .. 100
         /\ \A s \in signals \cap Signals :
              /\ HeuristicScore(signals) >= Weights[s]
              /\ \A t \in signals \cap Signals : t # s =>
                   HeuristicScore(signals) >= AtMost(100, Weights[s] + 8)
<1> DEFINE a1 == After1(signals)
           a2 == After2(signals)
           a3 == After3(signals)
           a4 == After4(signals)
           a5 == After5(signals)
           a6 == After6(signals)
           a7 == After7(signals)
           Risen(n, w, low, high) ==
             /\ high \in 0 .. 100 /\ high >= low
             /\ n \in signals => /\ high >= w
                                 /\ low > 0 => /\ high >= AtMost(100, low + 8)
                                               /\ high >= AtMost(100, w + 8)
<1>1. Risen(1, 95, 0, a1)
  BY DEF After1, Then, Raised, AtLeast, AtMost
<1> HIDE DEF a1
<1>2. Risen(2, 62, a1, a2)
  BY <1>1 DEF After2, Then, Raised, AtLeast, AtMost, a1
<1> HIDE DEF a2
<1>3. Risen(3, 72, a2, a3)
  BY <1>2 DEF After3, Then, Raised, AtLeast, AtMost, a2
<1> HIDE DEF a3
<1>4. Risen(4, 76, a3, a4)
  BY <1>3 DEF After4, Then, Raised, AtLeast, AtMost, a3
<1> HIDE DEF a4
<1>5. Risen(5, 38, a4, a5)
  BY <1>4 DEF After5, Then, Raised, AtLeast, AtMost, a4
<1> HIDE DEF a5
<1>6. Risen(6, 32, a5, a6)
  BY <1>5 DEF After6, Then, Raised, AtLeast, AtMost, a5
<1> HIDE DEF a6
<1>7. Risen(7, 65, a6, a7)
  BY <1>6 DEF After7, Then, Raised, AtLeast, AtMost, a6
<1>8. HeuristicScore(signals) = a7
  BY ScoreIsChain
<1> HIDE DEF a7
<1>9. ASSUME NEW s \in signals \cap Signals
      PROVE  /\ a7 >= Weights[s]
             /\ \A t \in signals \cap Signals : t # s =>
                  a7 >= AtMost(100, Weights[s] + 8)
  BY <1>1, <1>2, <1>3, <1>4, <1>5, <1>6, <1>7, <1>9, TableFacts DEF AtMost
<1> QED BY <1>7, <1>8, <1>9

\* More signals give no lower score.
LEMMA ScoreIsMonotone ==
  ASSUME NEW fewer, NEW more, fewer \subseteq more
  PROVE  HeuristicScore(fewer) <= HeuristicScore(more)
<1> DEFINE In(x) == x \in 0 .. 100
<1>1. In(After1(fewer)) /\ In(After1(more)) /\ After1(fewer) <= After1(more)
  BY DEF After1, Then, Raised, AtLeast, AtMost
<1>2. In(After2(fewer)) /\ In(After2(more)) /\ After2(fewer) <= After2(more)
  BY <1>1 DEF After2, Then, Raised, AtLeast, AtMost
<1>3. In(After3(fewer)) /\ In(After3(more)) /\ After3(fewer) <= After3(more)
  BY <1>2 DEF After3, Then, Raised, AtLeast, AtMost
<1>4. In(After4(fewer)) /\ In(After4(more)) /\ After4(fewer) <= After4(more)
  BY <1>3 DEF After4, Then, Raised, AtLeast, AtMost
<1>5. In(After5(fewer)) /\ In(After5(more)) /\ After5(fewer) <= After5(more)
  BY <1>4 DEF After5, Then, Raised, AtLeast, AtMost
<1>6. In(After6(fewer)) /\ In(After6(more)) /\ After6(fewer) <= After6(more)
  BY <1>5 DEF After6, Then, Raised, AtLeast, AtMost
<1>7. After7(fewer) <= After7(more)
  BY <1>6 DEF After7, Then, Raised, AtLeast, AtMost
<1> QED BY <1>7, ScoreIsChain

\* What merge makes of the signals and of an agent's score.
LEMMA MergeFacts ==
  ASSUME NEW signals, NEW agent \in 0 .. 100
  PROVE  /\ Merge(signals, agent) \in RiskAssessment
         /\ Merge(signals, agent).agent_score = agent
         /\ Merge(signals, agent).score = AtLeast(HeuristicScore(signals), agent)
<1>1. Clamped(agent) = agent
  BY DEF Clamped, AtLeast, AtMost
<1>2. HeuristicScore(signals) \in 0 .. 100
  BY ScoreFloor
<1>3. MergedScore(HeuristicScore(signals), agent) \in 0 .. 100
  BY <1>1, <1>2 DEF MergedScore, AtLeast
<1>4. \A score : Level(score) \in {"low", "medium", "high", "critical"}
  BY DEF Level
<1> QED BY <1>1, <1>2, <1>3, <1>4 DEF Merge, MergedScore, RiskAssessment
-----------------------------------------------------------------------------
(* The run.                                                                *)

\* Where the run is tells what it has; only a place that asks awaits.
PlaceInv ==
  /\ place = "planning" => plan = <<>> /\ risk = NoRisk
  /\ place \in {"assessing", "gate", "step", "synthesizing"} => plan \in Plans
  /\ place = "assessing" => risk = NoRisk
  /\ place \in {"gate", "step"} => risk # NoRisk
  /\ awaiting => place \in Asking
  /\ round \in Nat /\ attempt \in Nat

\* Where made-up answers may come from: none before the provider is the demo
\* one, and none into a live call that is under way.
OriginInv ==
  /\ "demo" \in answers => provider = "demo" /\ ~awaiting
  /\ settings.live /\ ~settings.fallback => provider = "live"
  /\ "error" \in answers => place = "failed"

\* A text of the run names a marker that _demo finds before the one of the agent
\* that asks in this step.
Shadowed == \E m \in named : Shadows(m, Agent)

\* A made-up answer fails the planner, or an agent whose marker it missed.
DemoInv ==
  error = "demo" =>
    \/ place = "failed" /\ plan = <<>>
    \/ place \in {"step", "failed"} /\ risk # NoRisk /\ Shadowed

\* The risk is what merge made of the signals and some agent's score.
RiskInv == risk # NoRisk => \E score \in 0 .. 100 : risk = Merge(found, score)

IInv == TypeOK /\ PlaceInv /\ OriginInv /\ DemoInv /\ RiskInv

\* A plan has a verifier, and has it at its end only.
LEMMA PlanFacts ==
  ASSUME NEW p \in Plans
  PROVE  /\ Len(p) \in Nat /\ Len(p) >= 1 /\ DOMAIN p = 1 .. Len(p)
         /\ p # <<>>
         /\ \A i \in DOMAIN p : p[i] # "verifier" => i + 1 \in DOMAIN p
<1>1. p \in Seq({"planner", "browser", "coder", "verifier"}) /\ p # <<>>
      /\ p[Len(p)] = "verifier"
  BY PlansAssumption
<1>2. Len(p) \in Nat /\ DOMAIN p = 1 .. Len(p)
  BY <1>1
<1>3. Len(p) # 0
  BY <1>1, <1>2
<1> QED BY <1>1, <1>2, <1>3

\* The invariant holds of a run that has just begun.
LEMMA InitIInv == Init => IInv
<1> SUFFICES ASSUME Init PROVE IInv
  OBVIOUS
<1>1. TypeOK
  <2>1. 1 \in 1 .. TotalAttempts /\ 1 \in 1 .. MaxRounds
    BY CommitteeRetriesAssumption DEF TotalAttempts, MaxRounds
  <2>2. /\ settings \in [live : BOOLEAN, fallback : BOOLEAN] /\ named \in Texts
        /\ provider \in {"live", "demo"} /\ lastError \in BOOLEAN
        /\ awaiting \in BOOLEAN /\ strict \in BOOLEAN
    BY DEF Init
  <2> QED BY <2>1, <2>2 DEF Init, TypeOK, Asking
<1>2. PlaceInv /\ OriginInv /\ DemoInv /\ RiskInv
  BY DEF Init, PlaceInv, OriginInv, DemoInv, RiskInv, Asking
<1> QED BY <1>1, <1>2 DEF IInv

-----------------------------------------------------------------------------
(* What becomes of an answer: Accept and Raise keep the progress of a run. *)

\* The part of the invariant that is about place, plan, risk and progress.
ProgressOK ==
  /\ place \in Asking \union Ended \union {"gate"}
  /\ strict \in BOOLEAN
  /\ plan \in Plans \union {<<>>} /\ found \subseteq Signals
  /\ risk \in RiskAssessment \union {NoRisk}
  /\ place = "step" => step \in DOMAIN plan
  /\ attempt \in 1 .. TotalAttempts /\ round \in 1 .. MaxRounds
  /\ error \in {"none", "live", "demo", "tool", "provider", "verdict"}
  /\ place = "planning" => plan = <<>> /\ risk = NoRisk
  /\ place \in {"assessing", "gate", "step", "synthesizing"} => plan \in Plans
  /\ place = "assessing" => risk = NoRisk
  /\ place \in {"gate", "step"} => risk # NoRisk
  /\ DemoInv
  /\ RiskInv

\* The other part: settings, provider and answers.
OriginOK ==
  /\ settings \in [live : BOOLEAN, fallback : BOOLEAN] /\ named \in Texts
  /\ provider \in {"live", "demo"} /\ lastError \in BOOLEAN /\ awaiting \in BOOLEAN
  /\ answers \subseteq {"live", "demo", "error"}
  /\ awaiting => place \in Asking
  /\ "demo" \in answers => provider = "demo" /\ ~awaiting
  /\ settings.live /\ ~settings.fallback => provider = "live"
  /\ "error" \in answers => place = "failed"

\* The two parts make up the invariant.
LEMMA Parts == IInv <=> ProgressOK /\ OriginOK
<1>1. ASSUME IInv PROVE ProgressOK /\ OriginOK
  BY <1>1 DEF IInv, TypeOK, PlaceInv, OriginInv, ProgressOK, OriginOK
<1>2. ASSUME ProgressOK, OriginOK PROVE IInv
  BY <1>2, CommitteeRetriesAssumption
     DEF IInv, TypeOK, PlaceInv, OriginInv, ProgressOK, OriginOK, TotalAttempts, MaxRounds
<1> QED BY <1>1, <1>2

\* Whom a made-up answer failed stays so.
LEMMA DemoKept ==
  ASSUME DemoInv, UNCHANGED <<place, plan, step, risk, error, named>>
  PROVE  DemoInv'
BY DEF DemoInv, Shadowed, Shadows, Agent

\* The risk stays what it was made of.
LEMMA RiskKept ==
  ASSUME RiskInv, UNCHANGED <<found, risk>>
  PROVE  RiskInv'
BY DEF RiskInv

Errors == {"none", "live", "demo", "tool", "provider", "verdict"}

\* A step that leaves plan and risk alone and goes on to the gate or beyond.
LEMMA Onward ==
  ASSUME ProgressOK, UNCHANGED <<plan, found, risk>>, strict' \in BOOLEAN,
         place' \in {"gate", "step", "synthesizing"} \union Ended,
         place' \in {"gate", "step", "synthesizing"} => plan \in Plans,
         place' = "step" => step' \in DOMAIN plan,
         attempt' \in 1 .. TotalAttempts, round' \in 1 .. MaxRounds,
         place' \in {"gate", "step"} => risk # NoRisk,
         error' \in Errors, DemoInv'
  PROVE  ProgressOK'
<1>1. (/\ plan \in Plans \union {<<>>} /\ found \subseteq Signals
       /\ risk \in RiskAssessment \union {NoRisk})'
  BY DEF ProgressOK
<1>2. RiskInv'
  BY RiskKept DEF ProgressOK
<1>3. /\ (place \in Asking \union Ended \union {"gate"})'
      /\ (place = "planning" => plan = <<>> /\ risk = NoRisk)'
      /\ (place \in {"assessing", "gate", "step", "synthesizing"} => plan \in Plans)'
      /\ (place = "assessing" => risk = NoRisk)'
      /\ (place \in {"gate", "step"} => risk # NoRisk)'
  BY DEF Asking, Ended
<1>4. (place = "step" => step \in DOMAIN plan)'
  OBVIOUS
<1> QED BY <1>1, <1>2, <1>3, <1>4 DEF ProgressOK, Errors

\* They do so in the next state.
LEMMA PartsAgain ==
  ASSUME ProgressOK', OriginOK'
  PROVE  IInv'
BY CommitteeRetriesAssumption
   DEF IInv, TypeOK, PlaceInv, OriginInv, ProgressOK, OriginOK, TotalAttempts, MaxRounds

\* A useful answer moves the run on.
LEMMA AcceptKeeps ==
  ASSUME ProgressOK, NEW from, place \in Asking, Accept(from)
  PROVE  ProgressOK' /\ place' \in Asking \union Ended \union {"gate"}
<1> USE CommitteeRetriesAssumption DEF Asking, Ended, TotalAttempts, MaxRounds, proposal
<1>1. CASE AcceptPlan(from)
  <2>1. plan' \in Plans
    BY <1>1 DEF AcceptPlan
  <2> QED
    <3>1. /\ place' = "assessing" /\ step' = 1 /\ attempt' = 1 /\ strict' = FALSE
          /\ UNCHANGED <<risk, round, error>> /\ place = "planning" /\ found' \subseteq Signals
      BY <1>1 DEF Accept, AcceptPlan, MoveTo
    <3>2. risk' = NoRisk /\ 1 \in 1 .. TotalAttempts /\ error # "demo"
      BY <3>1 DEF ProgressOK, DemoInv
    <3>3. RiskInv' /\ DemoInv'
      BY <3>1, <3>2 DEF RiskInv, DemoInv
    <3> QED BY <2>1, <3>1, <3>2, <3>3 DEF ProgressOK
<1>2. CASE AcceptRisk(from)
  <2>1. PICK score \in 0 .. 100 : risk' = Merge(found, score)
    BY <1>2, ScoresAssumption DEF AcceptRisk, DemoScores
  <2>2. risk' \in RiskAssessment
    BY <2>1, MergeFacts
  <2>3. RiskInv'
    BY <1>2, <2>1 DEF RiskInv, AcceptRisk
  <2> QED
    <3>1. /\ place' = "gate" /\ step' = 1 /\ attempt' = 1 /\ strict' = FALSE
          /\ UNCHANGED <<plan, found, round, error>> /\ place = "assessing"
      BY <1>2 DEF Accept, AcceptRisk, MoveTo
    <3>2. plan \in Plans /\ 1 \in 1 .. TotalAttempts /\ error # "demo"
      BY <3>1 DEF ProgressOK, DemoInv
    <3>3. risk' # NoRisk /\ DemoInv'
      BY <2>2, <3>1, <3>2, NoRiskAssumption DEF DemoInv
    <3> QED BY <2>2, <2>3, <3>1, <3>2, <3>3 DEF ProgressOK
<1>3. CASE AcceptStep
  <2>1. (step + 1) \in DOMAIN plan
    BY <1>3, PlanFacts DEF AcceptStep, Agent, ProgressOK
  <2> QED
    <3>1. /\ UNCHANGED <<place, round, plan, found, risk>> /\ place = "step"
          /\ step' = step + 1 /\ attempt' = 1 /\ error' = "none" /\ strict' = FALSE
      BY <1>3 DEF Accept, AcceptStep
    <3>2. /\ round \in 1 .. MaxRounds /\ plan \in Plans /\ 1 \in 1 .. TotalAttempts
          /\ risk # NoRisk
      BY <3>1 DEF ProgressOK
    <3>3. DemoInv'
      BY <3>1 DEF DemoInv
    <3> QED BY <3>1, <3>2, <3>3, <2>1, Onward DEF Errors
<1>4. CASE AcceptVerdict(from)
  <2>1. /\ UNCHANGED <<plan, found, risk>> /\ place = "step" /\ strict' = FALSE
        /\ step' = 1 /\ attempt' = 1
        /\ place' \in {"synthesizing", "step", "failed"} /\ error' \in {"none", "verdict"}
        /\ round' = round \/ (round < MaxRounds /\ round' = round + 1)
    BY <1>4 DEF Accept, AcceptVerdict, MoveTo
  <2>2. /\ plan \in Plans /\ round' \in 1 .. MaxRounds /\ 1 \in 1 .. TotalAttempts
        /\ risk # NoRisk
    BY <2>1 DEF ProgressOK
  <2>3. 1 \in DOMAIN plan
    BY <2>2, PlanFacts
  <2>4. DemoInv'
    BY <2>1 DEF DemoInv
  <2> QED BY <2>1, <2>2, <2>3, <2>4, Onward DEF Errors
<1>5. CASE AcceptReport
  <2>1. /\ UNCHANGED <<plan, found, risk, round, error>> /\ place = "synthesizing"
        /\ strict' = FALSE /\ step' = 1 /\ attempt' = 1 /\ place' = "completed"
    BY <1>5 DEF Accept, AcceptReport, MoveTo
  <2>2. /\ round \in 1 .. MaxRounds /\ 1 \in 1 .. TotalAttempts
        /\ error \in Errors /\ error # "demo"
    BY <2>1 DEF ProgressOK, DemoInv, Errors
  <2>3. DemoInv'
    BY <2>1, <2>2 DEF DemoInv
  <2> QED BY <2>1, <2>2, <2>3, Onward
<1> QED BY <1>1, <1>2, <1>3, <1>4, <1>5 DEF Accept

\* A useless one is counted, or ends the run.
LEMMA RaiseKeeps ==
  ASSUME ProgressOK, NEW failure, place \in Asking, Raise(failure), named' = named,
         \/ failure \in {"live", "tool"}
         \/ failure = "demo" /\ (place = "planning" \/ (place = "step" /\ Shadowed))
  PROVE  ProgressOK'
<1>1. /\ UNCHANGED <<plan, found, risk, step, round>> /\ error' = failure
      /\ strict' = FALSE
      /\ \/ place = "step" /\ place' = place /\ attempt < TotalAttempts
            /\ attempt' = attempt + 1
         \/ place' = "failed" /\ attempt' = attempt
  BY DEF Raise, proposal
<1>2. /\ round \in 1 .. MaxRounds /\ attempt \in 1 .. TotalAttempts
      /\ place = "step" => plan \in Plans /\ step \in DOMAIN plan
      /\ place = "planning" => plan = <<>>
      /\ place = "step" => risk # NoRisk
  BY DEF ProgressOK
<1>3. attempt' \in 1 .. TotalAttempts
  BY <1>1, <1>2, CommitteeRetriesAssumption DEF TotalAttempts
<1>4. failure \in Errors
  BY DEF Errors
<1>5. DemoInv'
  <2>1. Shadowed => Shadowed'
    BY <1>1 DEF Shadowed, Shadows, Agent
  <2> QED BY <1>1, <1>2, <2>1 DEF DemoInv
<1> QED BY <1>1, <1>2, <1>3, <1>4, <1>5, Onward DEF Ended

\* The markers fit: what the demo provider answers is of use to whoever asks but
\* the planner, unless the prompt quotes a marker that comes before the asker's.
LEMMA MarkersFit ==
  ASSUME NEW quoted, Asker \in {"safety", "verifier", "browser", "coder"},
         DemoReply(quoted) # "good"
  PROVE  Asker # "safety" /\ \E m \in quoted : Shadows(m, Asker)
<1> DEFINE hits == {i \in DOMAIN DemoTable :
                      DemoTable[i].marker \in quoted \union {Prompt[Asker]}}
           first == CHOOSE i \in hits : \A j \in hits : i <= j
           own == CASE Asker = "safety" -> 1 [] Asker = "verifier" -> 2
                    [] Asker = "browser" -> 3 [] Asker = "coder" -> 4
<1>1. /\ DOMAIN DemoTable = 1 .. 4 /\ own \in 1 .. 4 /\ (own = 1 => Asker = "safety")
      /\ Asker = "safety" => own = 1
  BY DEF DemoTable
<1>2. DemoTable[own].marker = Prompt[Asker] /\ DemoTable[own].fields = Contract[Asker]
  <2>1. CASE Asker = "safety"
    BY <2>1 DEF DemoTable, Prompt, Contract
  <2>2. CASE Asker = "verifier"
    BY <2>2 DEF DemoTable, Prompt, Contract
  <2>3. CASE Asker = "browser"
    BY <2>3 DEF DemoTable, Prompt, Contract
  <2>4. CASE Asker = "coder"
    BY <2>4 DEF DemoTable, Prompt, Contract
  <2> QED BY <2>1, <2>2, <2>3, <2>4
<1> HIDE DEF own
<1>3. own \in hits /\ hits \subseteq 1 .. 4
  BY <1>1, <1>2
<1>4. first \in hits /\ \A j \in hits : first <= j
  <2> HIDE DEF hits
  <2>1. \E i \in hits : \A j \in hits : i <= j
    BY <1>3
  <2> QED BY <2>1
<1>5. DemoReply(quoted) =
        IF hits = {} THEN "junk"
        ELSE IF Contract[Asker] \subseteq DemoTable[first].fields
               THEN "good" ELSE "misshapen"
  BY DEF DemoReply
<1> HIDE DEF first
<1>6. first # own /\ first < own
  <2>1. hits # {} /\ first \in 1 .. 4 /\ first <= own
    BY <1>3, <1>4
  <2>2. first # own
    BY <1>2, <1>5, <2>1
  <2> QED BY <1>1, <2>1, <2>2
<1>7. DemoTable[first].marker # Prompt[Asker]
  BY <1>1, <1>2, <1>3, <1>4, <1>6 DEF DemoTable
<1>8. DemoTable[first].marker \in quoted
  BY <1>4, <1>7
<1>9. Shadows(DemoTable[first].marker, Asker)
  BY <1>1, <1>2, <1>3, <1>4, <1>6 DEF Shadows
<1> QED BY <1>1, <1>3, <1>4, <1>6, <1>8, <1>9

\* Taking an answer keeps the progress; it adds no error to the answers.
LEMMA TakeKeeps ==
  ASSUME ProgressOK, place \in Asking, named' = named,
         NEW reply, NEW from \in {"live", "demo"},
         from = "demo" => \E quoted \in SUBSET named : reply = DemoReply(quoted),
         Take(reply, from)
  PROVE  ProgressOK'
<1>1. CASE WantsJson /\ reply = "junk" /\ ~strict /\ strict' = TRUE
           /\ UNCHANGED <<place, proposal, progress>>
  BY <1>1, DemoKept DEF ProgressOK, RiskInv, proposal, progress
<1>2. CASE WantsJson /\ reply \in {"junk", "misshapen"} /\ Raise(from)
  <2>1. ASSUME from = "demo", place # "planning" PROVE place = "step" /\ Shadowed
    <3>1. PICK quoted \in SUBSET named : reply = DemoReply(quoted)
      BY <2>1
    <3>2. \/ place = "assessing" /\ Asker = "safety"
          \/ place = "step" /\ Asker = Agent /\ Agent \in {"browser", "coder", "verifier"}
      <4>1. CASE place = "assessing"
        BY <4>1 DEF Asker
      <4>2. CASE place = "step"
        <5>1. plan \in Plans /\ step \in DOMAIN plan /\ Agent # "planner"
          BY <1>2, <4>2 DEF ProgressOK, WantsJson
        <5>2. Agent \in {"planner", "browser", "coder", "verifier"}
          BY <5>1, PlansAssumption DEF Agent
        <5> QED BY <4>2, <5>1, <5>2 DEF Asker
      <4> QED BY <1>2, <2>1, <4>1, <4>2 DEF WantsJson
    <3>3. reply # "good"
      BY <1>2
    <3>4. Asker # "safety" /\ \E m \in quoted : Shadows(m, Asker)
      BY <3>1, <3>2, <3>3, MarkersFit
    <3> QED BY <3>2, <3>4 DEF Shadowed
  <2> QED BY <1>2, <2>1, RaiseKeeps
<1>3. CASE Accept(from)
  BY <1>3, AcceptKeeps
<1>4. CASE Raise("tool")
  BY <1>4, RaiseKeeps
<1> QED BY <1>1, <1>2, <1>3, <1>4 DEF Take

-----------------------------------------------------------------------------
(* The steps.                                                              *)

\* A run that is about to ask has no error among its answers.
LEMMA NoErrorYet == ProgressOK /\ OriginOK /\ place \in Asking => "error" \notin answers
BY DEF OriginOK, Asking

\* An answer of the demo provider is taken.
LEMMA DemoStep ==
  ASSUME IInv, WithoutModel \/ AskDemo
  PROVE  IInv'
<1>1. ProgressOK /\ OriginOK
  BY Parts
<1>2. /\ place \in Asking /\ provider = "demo" /\ ~awaiting
      /\ UNCHANGED <<settings, named, provider, lastError, awaiting>>
      /\ answers' = answers \union {"demo"}
  BY DEF WithoutModel, AskDemo, Asking, process, given
<1>3. ProgressOK'
  BY <1>1, <1>2, AcceptKeeps, TakeKeeps DEF WithoutModel, AskDemo, TakeDemo
<1>4. OriginOK'
  BY <1>1, <1>2, NoErrorYet DEF OriginOK
<1> QED BY <1>3, <1>4, PartsAgain

\* A live model is asked.
LEMMA AskLiveStep ==
  ASSUME IInv, AskLive
  PROVE  IInv'
<1>1. ProgressOK /\ OriginOK
  BY Parts
<1>2. /\ place \in Asking /\ provider = "live" /\ awaiting' = TRUE
      /\ UNCHANGED <<settings, named, provider, lastError, place, strict, answers,
                     plan, found, risk, step, attempt, round, error>>
  BY DEF AskLive, process, given, proposal, progress
<1>3. ProgressOK'
  BY <1>1, <1>2, RiskKept, DemoKept DEF ProgressOK
<1>4. OriginOK'
  BY <1>1, <1>2 DEF OriginOK
<1> QED BY <1>3, <1>4, PartsAgain

\* It answers: the answer is its own, whatever became of the provider meanwhile.
LEMMA LiveAnswersStep ==
  ASSUME IInv, NEW reply \in Reply, LiveAnswers(reply)
  PROVE  IInv'
<1>1. ProgressOK /\ OriginOK
  BY Parts
<1>2. /\ awaiting /\ awaiting' = FALSE /\ Take(reply, "live") /\ lastError' = FALSE
      /\ answers' = answers \union {"live"} /\ UNCHANGED <<settings, named, provider>>
  BY DEF LiveAnswers, Succeeded, given
<1>3. place \in Asking
  BY <1>1, <1>2 DEF OriginOK
<1>4. ProgressOK'
  BY <1>1, <1>2, <1>3, TakeKeeps
<1>5. OriginOK'
  BY <1>1, <1>2, <1>3, NoErrorYet DEF OriginOK
<1> QED BY <1>4, <1>5, PartsAgain

\* It fails: the demo provider answers instead, or the run is over.
LEMMA LiveFailsStep ==
  ASSUME IInv, LiveFails
  PROVE  IInv'
<1>1. ProgressOK /\ OriginOK
  BY Parts
<1>2. awaiting /\ awaiting' = FALSE /\ lastError' = TRUE /\ UNCHANGED <<settings, named>>
  BY DEF LiveFails, given
<1>3. place \in Asking
  BY <1>1, <1>2 DEF OriginOK
<1>4. CASE FallsBack /\ provider' = "demo" /\ TakeDemo
           /\ answers' = answers \union {"demo"}
  <2>1. ProgressOK'
    BY <1>1, <1>2, <1>3, <1>4, TakeKeeps DEF TakeDemo
  <2>2. OriginOK'
    BY <1>1, <1>2, <1>3, <1>4, NoErrorYet DEF OriginOK, FallsBack
  <2> QED BY <2>1, <2>2, PartsAgain
<1>5. CASE ~FallsBack /\ provider' = provider /\ RaiseProviderError
           /\ answers' = answers \union {"error"}
  <2>1. /\ UNCHANGED <<plan, found, risk, step, attempt, round>> /\ strict' = FALSE
        /\ place' = "failed" /\ error' = "provider"
    BY <1>5 DEF RaiseProviderError, proposal
  <2>2. attempt \in 1 .. TotalAttempts /\ round \in 1 .. MaxRounds
    BY <1>1 DEF ProgressOK
  <2>3. ProgressOK'
    <3>1. DemoInv'
      BY <2>1 DEF DemoInv
    <3> QED BY <1>1, <2>1, <2>2, <3>1, Onward DEF Ended, Errors
  <2>4. OriginOK'
    BY <1>1, <1>2, <1>5, <2>1 DEF OriginOK
  <2> QED BY <2>3, <2>4, PartsAgain
<1> QED BY <1>4, <1>5 DEF LiveFails

\* The gate opens or denies.
LEMMA GateStep ==
  ASSUME IInv, Gate
  PROVE  IInv'
<1>1. ProgressOK /\ OriginOK
  BY Parts
<1>2. /\ place = "gate" /\ place' \in {"step", "denied"} /\ step' = 1 /\ attempt' = 1
      /\ UNCHANGED <<settings, named, provider, lastError, awaiting, strict, answers,
                     round, error, plan, found, risk>>
  BY DEF Gate, MoveTo, process, given, proposal
<1>3. /\ plan \in Plans /\ strict \in BOOLEAN /\ round \in 1 .. MaxRounds
      /\ error \in Errors /\ error # "demo" /\ attempt \in 1 .. TotalAttempts
      /\ risk # NoRisk
  BY <1>1, <1>2 DEF ProgressOK, DemoInv, Errors
<1>4. 1 \in DOMAIN plan /\ 1 \in 1 .. TotalAttempts
  <2>1. 1 \in DOMAIN plan
    BY <1>3, PlanFacts
  <2>2. 1 \in 1 .. TotalAttempts
    BY CommitteeRetriesAssumption DEF TotalAttempts
  <2> QED BY <2>1, <2>2
<1>5. ProgressOK'
  <2>1. DemoInv'
    BY <1>2, <1>3 DEF DemoInv
  <2> QED BY <1>1, <1>2, <1>3, <1>4, <2>1, Onward DEF Ended
<1>6. OriginOK'
  BY <1>1, <1>2 DEF OriginOK, Asking
<1> QED BY <1>5, <1>6, PartsAgain

\* Other runs change the provider, or nothing happens.
LEMMA OtherStep ==
  ASSUME IInv, OtherAnswered \/ OtherFailed \/ UNCHANGED vars
  PROVE  IInv'
<1>1. ProgressOK /\ OriginOK
  BY Parts
<1>2. /\ UNCHANGED <<settings, named, place, awaiting, strict, answers, plan, found, risk,
                     step, attempt, round, error>>
      /\ provider' \in {"live", "demo"} /\ lastError' \in BOOLEAN
      /\ provider = "demo" => provider' = "demo"
      /\ provider' # provider => settings.fallback
  BY <1>1 DEF OtherAnswered, OtherFailed, Succeeded, FallsBack, vars, process, given, inquiry,
     proposal, progress, OriginOK
<1>3. ProgressOK'
  BY <1>1, <1>2, RiskKept, DemoKept DEF ProgressOK
<1>4. OriginOK'
  <2>1. "demo" \in answers => provider' = "demo" /\ ~awaiting
    BY <1>1, <1>2 DEF OriginOK
  <2>2. settings.live /\ ~settings.fallback => provider' = "live"
    BY <1>1, <1>2 DEF OriginOK
  <2> QED BY <1>1, <1>2, <2>1, <2>2 DEF OriginOK
<1> QED BY <1>3, <1>4, PartsAgain

\* IInv is an invariant of the specification.
THEOREM Inductive == Spec => []IInv
<1>1. IInv /\ [Next]_vars => IInv'
  BY DemoStep, AskLiveStep, LiveAnswersStep, LiveFailsStep, GateStep, OtherStep
     DEF Next, Run
<1> QED BY <1>1, InitIInv, PTL DEF Spec

-----------------------------------------------------------------------------
(* The theorems.                                                           *)

\* The types of the run and of the provider, for every set of plans.
THEOREM TypeCorrect == Spec => []TypeOK
<1>1. IInv => TypeOK
  BY DEF IInv
<1> QED BY <1>1, Inductive, PTL

\* Without the fallback nothing made up enters a run of a live provider
\* (complete, is_demo).
THEOREM NothingMadeUp == Spec => []FailsVisibly
<1>1. IInv => FailsVisibly
  BY DEF IInv, OriginInv, FailsVisibly
<1> QED BY <1>1, Inductive, PTL

\* The markers of _demo and of the agents' prompts fit: no made-up answer fails an
\* agent but the planner, unless a text of the run names an earlier marker (_demo).
THEOREM DemoServes == Spec => []DemoServesAll
<1>1. IInv => DemoServesAll
  BY DEF IInv, DemoInv, Shadowed, DemoServesAll
<1> QED BY <1>1, Inductive, PTL

\* A run that got a made-up answer asks no live model again (complete).
THEOREM NeverMixed == Spec => []NoMixing
<1>1. IInv => NoMixing
  BY DEF IInv, OriginInv, NoMixing
<1> QED BY <1>1, Inductive, PTL

\* The deterministic floor of the risk holds whatever the Safety agent says
\* (merge).
THEOREM FloorHolds == Spec => []FloorKept
<1>1. ASSUME IInv, risk # NoRisk, NEW s \in found
      PROVE  risk.score >=
               AtMost(100, Weights[s] + IF Cardinality(found) > 1 THEN 8 ELSE 0)
  <2>1. PICK agent \in 0 .. 100 : risk = Merge(found, agent)
    BY <1>1 DEF IInv, RiskInv
  <2>2. found \subseteq Signals /\ s \in found \cap Signals
    BY <1>1 DEF IInv, TypeOK
  <2>3. risk.score = AtLeast(HeuristicScore(found), agent)
    BY <2>1, MergeFacts
  <2>4. HeuristicScore(found) \in 0 .. 100 /\ HeuristicScore(found) >= Weights[s]
    BY <2>2, ScoreFloor
  <2>5. Weights[s] \in 1 .. 99
    BY <2>2, TableFacts
  <2>6. CASE \E t \in found : t # s
    <3>1. HeuristicScore(found) >= AtMost(100, Weights[s] + 8)
      BY <2>2, <2>6, ScoreFloor
    <3> QED BY <2>3, <2>4, <2>5, <3>1 DEF AtLeast, AtMost
  <2>7. CASE \A t \in found : t = s
    <3>1. found = {s}
      BY <1>1, <2>7
    <3>2. Cardinality(found) = 1
      BY <3>1, FS_Singleton
    <3> QED BY <2>3, <2>4, <2>5, <3>2 DEF AtLeast, AtMost
  <2> QED BY <2>6, <2>7
<1>2. IInv => FloorKept
  BY <1>1 DEF FloorKept
<1> QED BY <1>2, Inductive, PTL

\* One signal more never makes a run less risky, whatever its place in the
\* table (heuristic_score).
THEOREM MoreIsNotLess == Spec => []SignalNeverLowers
<1>1. ASSUME IInv, risk # NoRisk, NEW s \in Signals
      PROVE  Merge(found \union {s}, risk.agent_score).score >= risk.score
  <2>1. PICK agent \in 0 .. 100 : risk = Merge(found, agent)
    BY <1>1 DEF IInv, RiskInv
  <2>2. risk.agent_score = agent /\ risk.score = AtLeast(HeuristicScore(found), agent)
    BY <2>1, MergeFacts
  <2>3. Merge(found \union {s}, agent).score = AtLeast(HeuristicScore(found \union {s}), agent)
    BY MergeFacts
  <2>4. HeuristicScore(found) <= HeuristicScore(found \union {s})
    BY ScoreIsMonotone
  <2>5. HeuristicScore(found) \in 0 .. 100 /\ HeuristicScore(found \union {s}) \in 0 .. 100
    BY ScoreFloor
  <2> QED BY <2>2, <2>3, <2>4, <2>5 DEF AtLeast
<1>2. IInv => SignalNeverLowers
  BY <1>1 DEF SignalNeverLowers
<1> QED BY <1>2, Inductive, PTL
=============================================================================
