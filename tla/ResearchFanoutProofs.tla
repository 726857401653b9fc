-------------------------- MODULE ResearchFanoutProofs --------------------------
(***************************************************************************)
(* Proofs about ResearchFanout, for any scopes, sources, number of         *)
(* fan-outs and attempts.                                                  *)
(***************************************************************************)
EXTENDS ResearchFanout, FiniteSetTheorems, TLAPS

--------------------------------------------------------------------------------
(* Types *)

USE BoundsAssumption, ScopesAssumption

ThreadTypeOK ==
    /\ extra \subseteq Scopes \cup Gates \cup {"research"}
    /\ parts \in [Scopes -> Part]
    /\ ids \in [{"law", "synthesis"} -> SUBSET (Sources \cup {LawSlot})]
    /\ output \in Output
    /\ case \in Case

\* An answer of any agent has the fields of an answer.
LEMMA AnswerType ==
    ASSUME NEW a \in Agents, NEW r \in Answer(a)
    PROVE  /\ r \in UNION {Answer(b) : b \in Agents}
           /\ r.ok \in BOOLEAN /\ r.cites \subseteq Sources /\ r.found \subseteq Sources
  BY DEF Answer, Searches

\* So has the answer of an attempt.
LEMMA AttemptType ==
    ASSUME NEW x \in Attempt
    PROVE  /\ x.answer.ok \in BOOLEAN
           /\ x.answer.cites \subseteq Sources /\ x.answer.found \subseteq Sources
           /\ x.stage \in {"idle", "calling", "streaming", "done"} /\ x.attempt \in 0 .. MaxAttempts
  <1>1. PICK a \in Agents : x.answer \in Answer(a)
    BY DEF Attempt
  <1> QED
    BY <1>1, AnswerType DEF Attempt

\* An attempt that has not begun is one.
LEMMA FreshType == Idle \in Attempt /\ Fresh \in Attempt
  <1>1. "law" \in Agents
    BY DEF Agents
  <1>2. NoAnswer \in Answer("law")
    BY DEF NoAnswer, Answer, Searches
  <1>3. NoAnswer \in UNION {Answer(a) : a \in Agents}
    BY <1>1, <1>2
  <1>4. Idle \in Attempt
    BY <1>3 DEF Idle, Attempt
  <1>5. Fresh \in Attempt
    BY <1>3 DEF Fresh, Attempt
  <1> QED
    BY <1>4, <1>5

\* Calling agents gives each a fresh attempt.
LEMMA CallType == ASSUME NEW S, Call(S) PROVE agents' \in [Agents -> Attempt]
  BY FreshType DEF Call

\* The steps of an agent leave everything else alone, or fail the run.
LEMMA AgentShape ==
    ASSUME agents \in [Agents -> Attempt], NEW a \in Agents, Agent(a)
    PROVE  /\ agents' \in [Agents -> Attempt]
           /\ at' \in {at, "failed"}
           /\ UNCHANGED <<fan, since, targets, thread, pause2, saved, rows, found>>
  <1> DEFINE other == <<fan, since, targets, thread, pause2, saved, rows, found>>
  <1>1. ASSUME NEW x \in Attempt, Step(a, x)
        PROVE  agents' \in [Agents -> Attempt] /\ at' = at /\ UNCHANGED other
    BY <1>1 DEF Step
  <1>2. ASSUME Raise
        PROVE  agents' \in [Agents -> Attempt] /\ at' = "failed" /\ UNCHANGED other
    BY <1>2, FreshType DEF Raise
  <1>3. agents[a] \in Attempt
    OBVIOUS
  <1>4. ASSUME NEW r \in Answer(a)
        PROVE  [agents[a] EXCEPT !.stage = "done", !.answer = r] \in Attempt
    <2>1. r \in UNION {Answer(b) : b \in Agents}
      BY AnswerType
    <2> QED
      BY <1>3, <2>1 DEF Attempt
  <1>5. ASSUME agents[a].attempt < MaxAttempts
        PROVE  [Fresh EXCEPT !.attempt = agents[a].attempt + 1] \in Attempt
    BY <1>3, <1>5, FreshType DEF Attempt
  <1>6. ASSUME AttemptFails(a)
        PROVE  /\ agents' \in [Agents -> Attempt] /\ at' \in {at, "failed"} /\ UNCHANGED other
    BY <1>1, <1>2, <1>5, <1>6 DEF AttemptFails
  <1>7. CASE FirstChunk(a)
    <2>1. [agents[a] EXCEPT !.stage = "streaming"] \in Attempt
      BY <1>3 DEF Attempt
    <2> QED
      BY <1>1, <1>7, <2>1 DEF FirstChunk
  <1>8. CASE StreamEnds(a)
    BY <1>1, <1>4, <1>8 DEF StreamEnds
  <1>9. CASE StreamFails(a)
    BY <1>1, <1>4, <1>6, <1>9 DEF StreamFails, FallBack
  <1> QED
    BY <1>7, <1>8, <1>9 DEF Agent

\* A scope's answer makes a part.
LEMMA NewPartType ==
    ASSUME agents \in [Agents -> Attempt], fan \in Tags, NEW s \in Scopes
    PROVE  NewPart(s) \in Part
  <1>1. s \in Agents
    BY DEF Agents
  <1> QED
    BY <1>1, AttemptType DEF NewPart, Part

\* What was retrieved are sources.
LEMMA FoundType ==
    ASSUME agents \in [Agents -> Attempt], NEW S \in SUBSET Agents
    PROVE  FoundBy(S) \subseteq Sources
  BY AttemptType DEF FoundBy

\* The types hold at first.
LEMMA InitTyped == Init => TypeOK
  <1> SUFFICES ASSUME Init PROVE TypeOK
    OBVIOUS
  <1>1. NoPart \in Part
    BY DEF NoPart, Part, Tags
  <1>2. NoParts \in [Scopes -> Part] /\ NoCase \in Case /\ NoOutput \in Output
    BY <1>1 DEF NoParts, NoCase, NoOutput, Case, Output, Tags
  <1>3. ids \in [{"law", "synthesis"} -> SUBSET (Sources \cup {LawSlot})]
    BY DEF Init
  <1>4. /\ extra = {} /\ parts \in [Scopes -> Part] /\ output \in Output /\ case \in Case
        /\ fan = 0 /\ since = 1 /\ targets = {} /\ saved = FALSE /\ found = {} /\ at = "idle"
        /\ agents = [a \in Agents |-> Idle]
    BY <1>2 DEF Init
  <1>5. pause2 \in [extra : SUBSET (Scopes \cup Gates \cup {"research"}),
                   parts : [Scopes -> Part],
                   ids : [{"law", "synthesis"} -> SUBSET (Sources \cup {LawSlot})],
                   output : Output, case : Case]
    BY <1>3, <1>4 DEF Init
  <1>6. rows \in [research : [Scopes \ {"law"} -> SUBSET Tags],
                 rules : SUBSET Sources, arguments : SUBSET Tags]
    BY DEF Init
  <1>7. agents \in [Agents -> Attempt]
    BY <1>4, FreshType
  <1>8. fan \in Tags /\ since \in 1 .. MaxFans + 1
    BY <1>4 DEF Tags
  <1> QED
    BY <1>3, <1>4, <1>5, <1>6, <1>7, <1>8 DEF TypeOK

\* A dispatch targets scopes.
LEMMA DispatchType ==
    ASSUME TypeOK, NEW x, Dispatch(x)
    PROVE  /\ at' = "research" /\ fan' \in Tags /\ targets' \subseteq Scopes
           /\ agents' \in [Agents -> Attempt]
  BY CallType DEF Dispatch, TypeOK, Tags, TargetScopes

\* The later of two answers is an answer.
LEMMA MergedType ==
    ASSUME NEW x \in Tags, NEW y \in Tags PROVE Merged(x, y) \in Tags
  BY DEF Merged

\* The join makes an output of the parts.
LEMMA FromPartsType ==
    ASSUME TypeOK
    PROVE  FromParts \in Output
  <1>1. parts["law"] \in Part /\ parts \in [Scopes -> Part]
    BY DEF TypeOK
  <1>2. parts["law"].cites \subseteq Sources
    BY <1>1 DEF Part
  <1>3. FromParts.kept \subseteq Sources
    BY <1>2 DEF FromParts, Supported
  <1> QED
    BY <1>1, <1>3 DEF FromParts, Output

\* Mirroring an answer leaves a case.
LEMMA MirrorType ==
    ASSUME TypeOK, NEW field \in Fields, NEW a \in Agents, Mirror(field, a)
    PROVE  case' \in Case
  <1>1. case.fields \in [Fields -> Tags] /\ case.rules \subseteq Sources /\ fan \in Tags
    BY DEF TypeOK, Case
  <1>2. (IF agents[a].answer.ok THEN fan ELSE 0) \in Tags
    BY <1>1 DEF Tags
  <1>3. Merged(case.fields[field], IF agents[a].answer.ok THEN fan ELSE 0) \in Tags
    BY <1>1, <1>2, MergedType
  <1>4. case' = [case EXCEPT !.fields =
                    [case.fields EXCEPT ![field] =
                       Merged(case.fields[field], IF agents[a].answer.ok THEN fan ELSE 0)]]
    BY DEF Mirror, TypeOK, Case
  <1> QED
    BY <1>1, <1>3, <1>4 DEF Case, TypeOK

\* The rows written from a case.
LEMMA RowsType ==
    ASSUME case \in Case
    PROVE  /\ ResearchRows(case) \in [Scopes \ {"law"} -> SUBSET Tags]
           /\ LawRows(case) \subseteq Sources
           /\ ArgumentRows(case) \subseteq Tags
  BY DEF Case, ResearchRows, LawRows, ArgumentRows, RowsOf, Fields

\* A step keeps the types.
LEMMA TypeStep == TypeOK /\ [Next]_vars => TypeOK'
  <1> SUFFICES ASSUME TypeOK, [Next]_vars PROVE TypeOK'
    OBVIOUS
  <1>0. /\ {"intake", "synthesis", "audit"} \subseteq Agents /\ Scopes \subseteq Agents
        /\ targets \subseteq Agents /\ agents \in [Agents -> Attempt] /\ fan \in Tags
    BY DEF Agents, Phases, TypeOK
  <1>1. CASE StartGraph
    <2>1. NoOutput \in Output
      BY DEF NoOutput, NoParts, NoPart, Output, Part, Tags
    <2>2. agents' \in [Agents -> Attempt] /\ since' \in 1 .. MaxFans + 1
      BY <1>1, CallType DEF StartGraph, TypeOK, Tags
    <2> QED
      BY <1>1, <2>1, <2>2 DEF StartGraph, TypeOK, Running
  <1>2. CASE Advance
    <2>1. /\ UNCHANGED <<since, thread, pause2, saved, rows, found>>
          /\ agents' \in [Agents -> Attempt] /\ fan' \in Tags /\ targets' \subseteq Scopes
          /\ at' \in Running \cup {"end"}
      BY <1>0, <1>2, DispatchType, CallType
         DEF Advance, Stay, NextPhase, thread, Running, TypeOK
    <2> QED
      BY <2>1 DEF TypeOK, thread
  <1>3. CASE Rerun
    <2>1. /\ UNCHANGED <<since, parts, ids, output, case, pause2, saved, rows, found>>
          /\ agents' \in [Agents -> Attempt] /\ fan' \in Tags /\ targets' \subseteq Scopes
          /\ at' \in Running /\ extra' \subseteq Scopes \cup Gates \cup {"research"}
      BY <1>0, <1>3, DispatchType, CallType
         DEF Rerun, Stay, NextPhase, Noted, Running, TypeOK, Gates
    <2> QED
      BY <2>1 DEF TypeOK
  <1>4. CASE SendBack
    <2>1. /\ agents' \in [Agents -> Attempt] /\ fan' \in Tags /\ targets' \subseteq Scopes
          /\ at' = "research"
      BY <1>4, DispatchType DEF SendBack
    <2>2. UNCHANGED <<since, pause2, saved, rows, found>>
      BY <1>4 DEF SendBack
    <2>3. /\ extra' \subseteq Scopes \cup Gates \cup {"research"}
          /\ parts' \in [Scopes -> Part] /\ output' \in Output /\ case' \in Case
          /\ ids' \in [{"law", "synthesis"} -> SUBSET (Sources \cup {LawSlot})]
      BY <1>4 DEF SendBack, TypeOK
    <2> QED
      BY <2>1, <2>2, <2>3 DEF TypeOK, Running
  <1>5. CASE Halt
    BY <1>5 DEF Halt, Stay, TypeOK
  <1>6. ASSUME NEW a \in Agents, Agent(a) PROVE TypeOK'
    BY <1>0, <1>6, AgentShape DEF TypeOK, thread
  <1>7. CASE IntakeEnds
    BY <1>7, CallType DEF IntakeEnds, TypeOK, thread, Gates
  <1>8. CASE ResearchEnds
    <2>1. parts' \in [Scopes -> Part]
      BY <1>0, <1>8, NewPartType DEF ResearchEnds, MergeParts, TypeOK
    <2>2. FoundBy(targets) \subseteq Sources
      BY <1>0, FoundType
    <2>3. ids' \in [{"law", "synthesis"} -> SUBSET (Sources \cup {LawSlot})]
      BY <1>8 DEF ResearchEnds, LawIds, TypeOK
    <2>4. agents' \in [Agents -> Attempt] /\ at' \in Running /\ found' \subseteq Sources
          /\ UNCHANGED <<fan, since, targets, extra, output, case, pause2, saved, rows>>
      BY <1>8, <2>2, CallType DEF ResearchEnds, TypeOK, Running
    <2> QED
      BY <2>1, <2>3, <2>4 DEF TypeOK
  <1>9. CASE Join
    <2>1. output' \in Output /\ output'.kept \subseteq Sources
      BY <1>9, FromPartsType DEF Join, Output
    <2>2. ASSUME NEW f \in Fields
          PROVE  (IF f \in Scopes /\ parts[f].ok THEN Merged(case.fields[f], parts[f].tag)
                  ELSE case.fields[f]) \in Tags
      BY MergedType DEF TypeOK, Case, Part
    <2>3. case' \in Case
      <3>1. MergedRules(case.rules, FromParts.kept) \subseteq Sources
        BY <1>9, <2>1 DEF MergedRules, TypeOK, Case, Join
      <3> QED
        BY <1>9, <2>2, <3>1 DEF Join, Case
    <2>4. UNCHANGED <<agents, fan, since, targets, extra, parts, ids, rows, found>>
      BY <1>9 DEF Join
    <2>5. pause2' \in [extra : SUBSET (Scopes \cup Gates \cup {"research"}),
                   parts : [Scopes -> Part],
                   ids : [{"law", "synthesis"} -> SUBSET (Sources \cup {LawSlot})],
                   output : Output, case : Case]
      BY <1>9, <2>1, <2>3 DEF Join, TypeOK
    <2>6. at' \in Gates /\ saved' = FALSE
      BY <1>9 DEF Join, Gates
    <2> QED
      BY <2>1, <2>3, <2>4, <2>5, <2>6 DEF TypeOK
  <1>10. CASE SynthesisEnds
    <2>1. case' \in Case
      BY <1>0, <1>10, MirrorType DEF SynthesisEnds, Fields
    <2>2. FoundBy({"synthesis"}) \subseteq Sources
      BY <1>0, FoundType
    <2>3. ids' \in [{"law", "synthesis"} -> SUBSET (Sources \cup {LawSlot})]
      BY <1>10, <2>2 DEF SynthesisEnds, TypeOK
    <2>4. agents' \in [Agents -> Attempt] /\ at' \in Gates /\ found' \subseteq Sources
          /\ saved' = FALSE
          /\ UNCHANGED <<fan, since, targets, extra, parts, output, pause2, rows>>
      BY <1>10, <2>2, CallType DEF SynthesisEnds, TypeOK, Gates
    <2> QED
      BY <2>1, <2>3, <2>4 DEF TypeOK
  <1>11. CASE AuditEnds
    <2>1. case' \in Case
      BY <1>0, <1>11, MirrorType DEF AuditEnds, Fields
    <2> QED
      BY <1>11, <2>1, CallType DEF AuditEnds, TypeOK, Gates
  <1>12. CASE SavePause
    <2>1. rows' \in [research : [Scopes \ {"law"} -> SUBSET Tags],
                    rules : SUBSET Sources, arguments : SUBSET Tags]
      BY <1>12, RowsType DEF SavePause, ReplaceRows, TypeOK
    <2> QED
      BY <1>12, <2>1 DEF SavePause, TypeOK, thread
  <1>13. CASE RunFails
    BY <1>13, FreshType DEF RunFails, Raise, TypeOK, thread
  <1>14. CASE UNCHANGED vars
    BY <1>14 DEF vars, thread, TypeOK
  <1> QED
    BY <1>1, <1>2, <1>3, <1>4, <1>5, <1>6, <1>7, <1>8, <1>9, <1>10, <1>11, <1>12, <1>13, <1>14
       DEF Next, Fold

\* Attempts, parts, retrieved ids, the case and the tables keep their types.
THEOREM ResearchTypeCorrect == Spec => []TypeOK
  BY InitTyped, TypeStep, PTL DEF Spec

--------------------------------------------------------------------------------
(* Provenance of citations *)

USE SourcesAssumption

\* What the check lets through was found, as no document has the name of a slot.
LEMMA SupportedIsFound ==
    ASSUME TypeOK, KnownIds(ids), NEW cites, cites \subseteq Sources
    PROVE  Supported(cites) \subseteq found
  <1>1. DOMAIN ids = {"law", "synthesis"}
    BY DEF TypeOK
  <1>2. Supported(cites) \subseteq cites \cap (ids["law"] \cup ids["synthesis"])
    BY <1>1 DEF Supported
  <1> QED
    BY <1>2 DEF KnownIds

\* A step carries no source that was not retrieved.
LEMMA SourcesStep == TypeOK /\ SourcesKnown /\ [Next]_vars => SourcesKnown'
  <1> SUFFICES ASSUME TypeOK, SourcesKnown, [Next]_vars PROVE SourcesKnown'
    OBVIOUS
  <1> USE DEF SourcesKnown, NothingInvented, KnownIds
  <1>1. CASE StartGraph
    BY <1>1 DEF StartGraph, NoOutput
  <1>2. CASE Advance \/ Rerun \/ Halt
    BY <1>2 DEF Advance, Rerun, Halt, Stay
  <1>3. CASE SendBack
    BY <1>3 DEF SendBack
  <1>4. ASSUME NEW a \in Agents, Agent(a) PROVE SourcesKnown'
    <2>1. UNCHANGED <<thread, pause2, rows, found>>
      BY <1>4, AgentShape DEF TypeOK
    <2> QED
      BY <2>1 DEF thread
  <1>5. CASE IntakeEnds
    BY <1>5 DEF IntakeEnds, thread
  <1>6. CASE ResearchEnds
    <2>1. ids' = [ids EXCEPT !["law"] = LawIds] /\ found \subseteq found'
      BY <1>6 DEF ResearchEnds
    <2>2. ids'["law"] \subseteq found' \cup {LawSlot} /\ ids'["synthesis"] = ids["synthesis"]
      BY <2>1 DEF LawIds, TypeOK
    <2>3. UNCHANGED <<output, case, pause2, rows>>
      BY <1>6 DEF ResearchEnds
    <2> QED
      BY <2>1, <2>2, <2>3
  <1>7. CASE Join
    <2>1. parts["law"].cites \subseteq Sources
      BY DEF TypeOK, Part
    <2>2. FromParts.kept \subseteq found
      BY <2>1, SupportedIsFound DEF FromParts
    <2>3. output' = FromParts /\ case'.rules = MergedRules(case.rules, FromParts.kept)
          /\ pause2'.ids = ids /\ pause2'.output = output' /\ pause2'.case = case'
          /\ UNCHANGED <<ids, rows, found>>
      BY <1>7 DEF Join
    <2> QED
      BY <2>2, <2>3 DEF MergedRules
  <1>8. CASE SynthesisEnds
    <2>1. case'.rules = case.rules
      BY <1>8 DEF SynthesisEnds, Mirror, TypeOK, Case
    <2>2. found \subseteq found' /\ ids'["law"] = ids["law"] /\ ids'["synthesis"] \subseteq found'
          /\ UNCHANGED <<output, pause2, rows>>
      BY <1>8 DEF SynthesisEnds, TypeOK
    <2> QED
      BY <2>1, <2>2
  <1>9. CASE AuditEnds
    <2>1. case'.rules = case.rules /\ UNCHANGED <<ids, output, pause2, rows, found>>
      BY <1>9 DEF AuditEnds, Mirror, TypeOK, Case
    <2> QED
      BY <2>1
  <1>10. CASE SavePause
    BY <1>10 DEF SavePause, ReplaceRows, LawRows, thread
  <1>11. CASE RunFails
    BY <1>11 DEF RunFails, Raise, thread
  <1>12. CASE UNCHANGED vars
    BY <1>12 DEF vars, thread
  <1> QED
    BY <1>1, <1>2, <1>3, <1>4, <1>5, <1>6, <1>7, <1>8, <1>9, <1>10, <1>11, <1>12 DEF Next, Fold

\* No source is carried at first.
LEMMA SourcesInit == Init => SourcesKnown
  BY DEF Init, SourcesKnown, NothingInvented, KnownIds, NoOutput, NoCase

\* No citation reaches the judge, the case or the tables that no search of the
\* thread returned, although the law agent's slot holds a key where source ids
\* are expected.
THEOREM NothingIsInvented == Spec => []NothingInvented
  <1>1. TypeOK /\ SourcesKnown /\ [Next]_vars => (TypeOK /\ SourcesKnown)'
    BY TypeStep, SourcesStep
  <1>2. SourcesKnown => NothingInvented
    BY DEF SourcesKnown
  <1> QED
    BY InitTyped, SourcesInit, <1>1, <1>2, PTL DEF Spec

--------------------------------------------------------------------------------
(* Fan-outs and restarts *)

\* There are no parts at first.
LEMMA PartsInit == Init => PartsPlaced
  BY DEF Init, PartsPlaced, Answered, NoParts, NoPart

\* The scopes a fan-out leaves out are those of an earlier one of the same run.
LEMMA DispatchPlaced ==
    ASSUME TypeOK, NEW x, Dispatch(x), since' = since, since <= fan + 1,
           UNCHANGED pause2, Answered(parts'), Answered(pause2.parts),
           x \cap Scopes = {} \/ OfThisRun(Scopes, parts')
    PROVE  PartsPlaced'
  <1>1. at' = "research" /\ fan' = fan + 1 /\ targets' = TargetScopes(x)
    BY DEF Dispatch
  <1>2. OfThisRun(Scopes \ targets', parts')
    BY <1>1 DEF OfThisRun, TargetScopes
  <1> QED
    BY <1>1, <1>2 DEF PartsPlaced, OfThisRun, Answered, TypeOK, Tags

\* A step keeps each part the newest answer of its scope in this run.
LEMMA PartsStep == TypeOK /\ PartsPlaced /\ [Next]_vars => PartsPlaced'
  <1> SUFFICES ASSUME TypeOK, PartsPlaced, [Next]_vars PROVE PartsPlaced'
    OBVIOUS
  <1>0. fan \in Nat /\ since \in Nat /\ Scopes \cap {"gate1", "gate2", "research"} = {}
    BY DEF TypeOK, Tags, Gates
  <1>1. CASE StartGraph
    BY <1>0, <1>1 DEF StartGraph, PartsPlaced, Answered
  <1>2. CASE Advance
    <2>1. CASE Paused("gate1") /\ Dispatch(extra)
      BY <1>2, <2>1, DispatchPlaced DEF Paused, Advance, Stay, PartsPlaced
    <2>2. CASE ~ Paused("gate1")
      BY <1>2, <2>2 DEF Paused, Advance, Stay, NextPhase, PartsPlaced, OfThisRun, Answered
    <2> QED
      BY <1>2, <2>1, <2>2 DEF Advance, Paused
  <1>3. CASE Rerun
    <2>1. CASE Paused("gate2") /\ Dispatch(extra')
      BY <1>3, <2>1, DispatchPlaced DEF Paused, Rerun, Stay, PartsPlaced, OfThisRun
    <2>2. CASE Paused("gate1") /\ NextPhase("intake")
      <3>1. extra' \cap Scopes = {}
        BY <1>0, <1>3, <2>2 DEF Paused, Rerun, Noted, PartsPlaced
      <3> QED
        BY <1>3, <2>2, <3>1 DEF Rerun, Stay, NextPhase, PartsPlaced, Answered
    <2>3. CASE Paused("gate3") \/ Paused("gate4")
      BY <1>3, <2>3 DEF Paused, Rerun, Stay, NextPhase, PartsPlaced, OfThisRun, Answered
    <2> QED
      BY <1>3, <2>1, <2>2, <2>3 DEF Rerun
  <1>4. CASE SendBack
    BY <1>4, DispatchPlaced DEF SendBack, Paused, PartsPlaced, OfThisRun, Answered
  <1>5. CASE Halt
    BY <1>5 DEF Halt, Stay, PartsPlaced, Answered
  <1>6. ASSUME NEW a \in Agents, Agent(a) PROVE PartsPlaced'
    <2>1. at' \in {at, "failed"} /\ UNCHANGED <<fan, since, targets, thread, pause2>>
      BY <1>6, AgentShape DEF TypeOK
    <2> QED
      BY <2>1 DEF thread, PartsPlaced, OfThisRun, Answered
  <1>7. CASE IntakeEnds
    BY <1>7 DEF IntakeEnds, thread, PartsPlaced, Answered
  <1>8. CASE ResearchEnds
    <2>1. parts' = MergeParts(parts, targets) /\ UNCHANGED <<fan, since, targets, extra, pause2>>
          /\ at = "research" /\ at' = "join"
      BY <1>8 DEF ResearchEnds
    <2>2. since <= fan
      BY <2>1 DEF PartsPlaced
    <2>3. fan > 0
      BY <2>2 DEF TypeOK, Tags
    <2>4. Answered(parts') /\ OfThisRun(Scopes, parts')
      BY <2>1, <2>2, <2>3 DEF MergeParts, NewPart, Answered, OfThisRun, PartsPlaced, TypeOK, Tags
    <2>5. \A s \in targets : parts'[s].tag = fan
      BY <2>1 DEF MergeParts, NewPart, TypeOK
    <2> QED
      BY <2>1, <2>2, <2>4, <2>5 DEF PartsPlaced, Answered, OfThisRun
  <1>9. CASE Join
    BY <1>9 DEF Join, FromParts, PartsPlaced, OfThisRun, Answered
  <1>10. CASE SynthesisEnds
    BY <1>10 DEF SynthesisEnds, PartsPlaced, OfThisRun, Answered
  <1>11. CASE AuditEnds
    BY <1>11 DEF AuditEnds, PartsPlaced, OfThisRun, Answered
  <1>12. CASE SavePause
    BY <1>12 DEF SavePause, thread, PartsPlaced, OfThisRun, Answered
  <1>13. CASE RunFails
    BY <1>13 DEF RunFails, Raise, thread, PartsPlaced, Answered
  <1>14. CASE UNCHANGED vars
    BY <1>14 DEF vars, thread, PartsPlaced, OfThisRun, Answered
  <1> QED
    BY <1>1, <1>2, <1>3, <1>4, <1>5, <1>6, <1>7, <1>8, <1>9, <1>10, <1>11, <1>12, <1>13, <1>14
       DEF Next, Fold

\* At gate2 every scope that was asked again shows its new answer.
THEOREM FanOutsLand == Spec => []FanOutLands
  <1>1. TypeOK /\ PartsPlaced /\ [Next]_vars => (TypeOK /\ PartsPlaced)'
    BY TypeStep, PartsStep
  <1>2. PartsPlaced => FanOutLands
    BY DEF PartsPlaced, FanOutLands
  <1> QED
    BY InitTyped, PartsInit, <1>1, <1>2, PTL DEF Spec

\* No part of an earlier run reaches a judge at gate2, although a restart leaves
\* them all in the thread.
THEOREM PartsAreOfTheRun == Spec => []NoPartOutlivesItsRun
  <1>1. TypeOK /\ PartsPlaced /\ [Next]_vars => (TypeOK /\ PartsPlaced)'
    BY TypeStep, PartsStep
  <1>2. PartsPlaced => NoPartOutlivesItsRun
    BY DEF PartsPlaced, NoPartOutlivesItsRun, OfThisRun
  <1> QED
    BY InitTyped, PartsInit, <1>1, <1>2, PTL DEF Spec

--------------------------------------------------------------------------------
(* The tables *)

\* A step keeps the saved rows those of the case that was saved.
LEMMA RowsStep == TypeOK /\ PartsPlaced /\ RowsPlaced /\ [Next]_vars => RowsPlaced'
  <1> SUFFICES ASSUME TypeOK, PartsPlaced, RowsPlaced, [Next]_vars PROVE RowsPlaced'
    OBVIOUS
  <1>1. CASE StartGraph \/ Advance \/ Rerun \/ SendBack \/ Halt
    <2>1. at' # "gate2"
      BY <1>1 DEF StartGraph, Advance, Rerun, SendBack, Halt, Dispatch, NextPhase
    <2> QED
      BY <2>1 DEF RowsPlaced, Paused
  <1>2. ASSUME NEW a \in Agents, Agent(a) PROVE RowsPlaced'
    <2>1. at' \in {at, "failed"} /\ UNCHANGED <<thread, saved, rows>>
      BY <1>2, AgentShape DEF TypeOK
    <2> QED
      BY <2>1 DEF thread, RowsPlaced, Paused, ResearchRows
  <1>3. CASE IntakeEnds \/ ResearchEnds \/ SynthesisEnds \/ AuditEnds \/ RunFails
    <2>1. at' # "gate2"
      BY <1>3 DEF IntakeEnds, ResearchEnds, SynthesisEnds, AuditEnds, RunFails, Raise
    <2> QED
      BY <2>1 DEF RowsPlaced, Paused
  <1>4. CASE Join
    <2>1. ASSUME NEW s \in Scopes \ {"law"}, parts[s].ok
          PROVE  case'.fields[s] = parts[s].tag
      <3>1. s \in Fields /\ parts[s].tag # 0
        BY <2>1 DEF Fields, PartsPlaced, Answered, TypeOK, Part, Tags
      <3> QED
        BY <1>4, <2>1, <3>1 DEF Join, Merged
    <2>2. saved' = FALSE /\ parts' = parts
      BY <1>4 DEF Join
    <2> QED
      BY <2>1, <2>2 DEF RowsPlaced, Paused
  <1>5. CASE SavePause
    BY <1>5 DEF SavePause, ReplaceRows, RowsPlaced, thread, ResearchRows
  <1>6. CASE UNCHANGED vars
    BY <1>6 DEF vars, thread, RowsPlaced, Paused, ResearchRows
  <1> QED
    BY <1>1, <1>2, <1>3, <1>4, <1>5, <1>6 DEF Next, Fold

\* At gate2 the rows follow from what they were written from.
LEMMA RowsAgree == TypeOK /\ PartsPlaced /\ RowsPlaced => RowsFollowOutput
  <1> SUFFICES ASSUME TypeOK, PartsPlaced, RowsPlaced, Paused("gate2"), NEW s \in Scopes \ {"law"}
               PROVE  /\ Cardinality(rows.research[s]) <= 1
                      /\ output.parts[s].ok => rows.research[s] = {output.parts[s].tag}
    BY DEF RowsFollowOutput
  <1>1. rows.research[s] = RowsOf(case.fields[s]) /\ output.parts = parts
    BY DEF RowsPlaced, PartsPlaced, Paused, ResearchRows
  <1>2. Cardinality(rows.research[s]) <= 1
    <2>1. Cardinality({}) = 0 /\ Cardinality({case.fields[s]}) = 1
      BY FS_EmptySet, FS_Singleton
    <2> QED
      BY <1>1, <2>1 DEF RowsOf
  <1>3. ASSUME parts[s].ok PROVE rows.research[s] = {parts[s].tag}
    BY <1>1, <1>3 DEF RowsPlaced, PartsPlaced, Paused, Answered, RowsOf, TypeOK, Part, Tags
  <1> QED
    BY <1>1, <1>2, <1>3

\* Once a pause at gate2 is saved the tables hold what the judge is shown.
THEOREM RowsAreTheOutput == Spec => []RowsFollowOutput
  <1>1. Init => RowsPlaced
    BY DEF Init, RowsPlaced, Paused
  <1>2. TypeOK /\ PartsPlaced /\ RowsPlaced /\ [Next]_vars => (TypeOK /\ PartsPlaced /\ RowsPlaced)'
    BY TypeStep, PartsStep, RowsStep
  <1> QED
    BY InitTyped, PartsInit, RowsAgree, <1>1, <1>2, PTL DEF Spec

================================================================================
