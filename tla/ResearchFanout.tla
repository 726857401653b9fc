-------------------------- MODULE ResearchFanout --------------------------
(***************************************************************************)
(* What the pipeline of one case computes, and what of it survives: the    *)
(* agents of each phase with their streams, fallbacks and retries, the     *)
(* fan-out of the research phase and its join, the reducers that fold the  *)
(* answers into the LangGraph thread, the citation check, and the tables   *)
(* the case is written to at every pause.                                  *)
(*                                                                         *)
(* The content of an answer is abstracted to the fan-out it was computed   *)
(* in (its tag) and, for the law scope, to the sources its citations name  *)
(* and the sources its searches found.  GateReview models who may decide   *)
(* at a gate and when; here every decision the gate offers may come, once  *)
(* the pause has been saved.                                               *)
(***************************************************************************)
EXTENDS Naturals, FiniteSets

CONSTANTS
    Scopes,         \* the research scopes, "law" among them
    Sources,        \* documents a search can return
    MaxFans,        \* bound: fan-outs of the thread
    MaxAttempts     \* _FRONTIER_RETRY.max_attempts

ASSUME BoundsAssumption == MaxFans \in Nat /\ MaxAttempts \in Nat \ {0}

Phases == {"intake", "synthesis", "audit"}
Agents == Scopes \cup Phases
Gates  == {"gate1", "gate2", "gate3", "gate4"}
Tags   == 0 .. MaxFans

\* What CaseState holds apart from the law: one field per scope, and the two
\* fields the phases mirror their outputs to.
Fields == (Scopes \ {"law"}) \cup {"arguments", "fairness"}

\* The key the law agent files its source ids under (phase_or_scope).
LawSlot == "research-law"

\* Neither a gate nor the research phase is the name of a scope, and no document
\* has the name of a slot.
ASSUME ScopesAssumption == /\ "law" \in Scopes /\ IsFiniteSet(Scopes)
                           /\ Scopes \cap (Gates \cup {"research"}) = {}
ASSUME SourcesAssumption == LawSlot \notin Sources

VARIABLES
    at,         \* the node the thread stands at
    agents,     \* agent -> the attempt it is in
    fan,        \* fan-outs so far
    since,      \* the first fan-out of the current run
    targets,    \* the scopes of the current fan-out
    extra,      \* the keys of extra_instructions
    parts,      \* research_parts
    ids,        \* retrieved_source_ids
    output,     \* research_output
    case,       \* the analysis fields of CaseState
    pause2,     \* the thread as it was checkpointed at gate2
    saved,      \* the pause has been written to the tables
    rows,       \* the tables: the generations of their rows
    found       \* history: every source a search of the thread returned

thread == <<extra, parts, ids, output, case>>
vars == <<at, agents, fan, since, targets, thread, pause2, saved, rows, found>>

-----------------------------------------------------------------------------
(* Values.                                                                 *)

Part == [tag : Tags, ok : BOOLEAN, cites : SUBSET Sources]
NoPart == [tag |-> 0, ok |-> FALSE, cites |-> {}]

\* The searches of an agent: only law and synthesis are given search tools.
Searches(a) == IF a \in {"law", "synthesis"} THEN SUBSET Sources ELSE {{}}

\* What a run of an agent returns: the structured response may be missing, and
\* only the law scope's carries citations.
Answer(a) ==
    {r \in [ok : BOOLEAN,
            cites : IF a = "law" THEN SUBSET Sources ELSE {{}},
            found : Searches(a)] :
        r.ok \/ r.cites = {}}

NoAnswer == [ok |-> FALSE, cites |-> {}, found |-> {}]

Attempt == [stage : {"idle", "calling", "streaming", "done"},
            attempt : 0 .. MaxAttempts,
            answer : UNION {Answer(a) : a \in Agents}]

Idle  == [stage |-> "idle", attempt |-> 0, answer |-> NoAnswer]
Fresh == [stage |-> "calling", attempt |-> 1, answer |-> NoAnswer]

Case   == [fields : [Fields -> Tags], rules : SUBSET Sources]
Output == [parts : [Scopes -> Part], kept : SUBSET Sources, partial : BOOLEAN]

NoParts  == [s \in Scopes |-> NoPart]
NoCase   == [fields |-> [f \in Fields |-> 0], rules |-> {}]
NoOutput == [parts |-> NoParts, kept |-> {}, partial |-> TRUE]

Init ==
    /\ at = "idle"
    /\ agents = [a \in Agents |-> Idle]
    /\ fan = 0 /\ since = 1
    /\ targets = {}
    /\ extra = {}
    /\ parts = NoParts
    /\ ids = [slot \in {"law", "synthesis"} |-> {}]
    /\ output = NoOutput
    /\ case = NoCase
    /\ pause2 = [extra |-> extra, parts |-> parts, ids |-> ids,
                 output |-> output, case |-> case]
    /\ saved = FALSE
    /\ rows = [research |-> [s \in Scopes \ {"law"} |-> {}], rules |-> {}, arguments |-> {}]
    /\ found = {}

-----------------------------------------------------------------------------
(* The agents.                                                             *)

Active == {a \in Agents : agents[a].stage # "idle"}
Running == {"intake", "research", "join", "synthesis", "audit"}

Call(S) == agents' = [a \in Agents |-> IF a \in S THEN Fresh ELSE Idle]

\* The run of the graph raises: nothing of the unfinished step is kept.
Raise ==
    /\ at' = "failed"
    /\ agents' = [a \in Agents |-> Idle]
    /\ UNCHANGED <<fan, since, targets, thread, pause2, saved, rows, found>>

Step(a, record) ==
    /\ agents' = [agents EXCEPT ![a] = record]
    /\ UNCHANGED <<at, fan, since, targets, thread, pause2, saved, rows, found>>

\* Mutant: the retry policy has no last attempt.
RetryForEver(a) ==
    \/ Step(a, [Fresh EXCEPT !.attempt = agents[a].attempt + 1])
    \/ Raise

\* An exception leaves the node: LangGraph calls it again while the policy
\* allows, for the exceptions it considers transient.
AttemptFails(a) ==
    \/ /\ agents[a].attempt < MaxAttempts
       /\ Step(a, [Fresh EXCEPT !.attempt = agents[a].attempt + 1])
    \/ Raise

\* The first chunk or values payload of astream: from here on tools may have run.
FirstChunk(a) ==
    /\ agents[a].stage = "calling"
    /\ Step(a, [agents[a] EXCEPT !.stage = "streaming"])

StreamEnds(a) ==
    /\ agents[a].stage = "streaming"
    /\ \E r \in Answer(a) :
          Step(a, [agents[a] EXCEPT !.stage = "done", !.answer = r])

\* Nothing was seen of the stream: the agent is invoked once more, at once.
FallBack(a) ==
    \/ \E r \in Answer(a) : Step(a, [agents[a] EXCEPT !.stage = "done", !.answer = r])
    \/ AttemptFails(a)

\* A stream that fails falls back before the first chunk and raises after it.
StreamFails(a) ==
    \/ agents[a].stage = "calling" /\ FallBack(a)
    \/ agents[a].stage = "streaming" /\ AttemptFails(a)

AllDone == \A a \in Active : agents[a].stage = "done"

-----------------------------------------------------------------------------
(* Entering the phases.                                                    *)

\* Mutant: a restart does not clear extra_instructions.
StartKeepsNotes ==
    /\ at \in {"idle", "failed", "end"}
    /\ at' = "intake"
    /\ Call({"intake"})
    /\ output' = NoOutput
    /\ since' = fan + 1
    /\ UNCHANGED <<fan, targets, extra, parts, ids, case, pause2, saved, rows, found>>

\* A fresh run of the thread.  extra_instructions and research_output are
\* assigned, research_parts and retrieved_source_ids are merged with nothing,
\* and a CaseState without results leaves the ones of the thread in place.
StartGraph ==
    /\ at \in {"idle", "failed", "end"}
    /\ at' = "intake"
    /\ Call({"intake"})
    /\ extra' = {}
    /\ output' = NoOutput
    /\ since' = fan + 1
    /\ UNCHANGED <<fan, targets, parts, ids, case, pause2, saved, rows, found>>

\* route_to_research_subagents: the scopes named in extra_instructions, if any.
TargetScopes(x) == IF x \cap Scopes # {} THEN x \cap Scopes ELSE Scopes

Dispatch(x) ==
    /\ fan < MaxFans
    /\ at' = "research"
    /\ fan' = fan + 1
    /\ targets' = TargetScopes(x)
    /\ Call(TargetScopes(x))

-----------------------------------------------------------------------------
(* Folding the answers into the thread.                                    *)

IntakeEnds ==
    /\ at = "intake" /\ AllDone
    /\ at' = "gate1"
    /\ Call({})
    /\ saved' = FALSE
    /\ UNCHANGED <<fan, since, targets, thread, pause2, rows, found>>

NewPart(s) == [tag |-> fan, ok |-> agents[s].answer.ok, cites |-> agents[s].answer.cites]

\* Mutant: a scope keeps the first answer it was given.
MergePartsBackwards(base, S) ==
    [s \in Scopes |-> IF s \in S /\ base[s] = NoPart THEN NewPart(s) ELSE base[s]]

\* {**base, **update}: the scopes that ran replace theirs, the others stay.
MergeParts(base, S) == [s \in Scopes |-> IF s \in S THEN NewPart(s) ELSE base[s]]

\* The source ids of the documents in the tool messages of a set of agents.
FoundBy(S) == UNION {agents[a].answer.found : a \in S}

\* The wrapper of a research agent lists the keys of the dictionary the agent
\* filed its source ids in, not the ids; an agent that found none writes nothing.
LawIds == IF FoundBy(targets) # {} THEN {LawSlot} ELSE ids["law"]

ResearchEnds ==
    /\ at = "research" /\ AllDone
    /\ at' = "join"
    /\ Call({})
    /\ parts' = MergeParts(parts, targets)
    /\ ids' = [ids EXCEPT !["law"] = LawIds]
    /\ found' = found \cup FoundBy(targets)
    /\ UNCHANGED <<fan, since, targets, extra, output, case, pause2, saved, rows>>

\* Mutant: the citations are not checked against the retrieved set.
KeepAll(cites) == cites

\* validate_law_citations, against everything filed under any slot.
Supported(cites) == cites \cap UNION {ids[slot] : slot \in DOMAIN ids}

FromParts ==
    [parts |-> parts,
     kept |-> IF parts["law"].ok THEN Supported(parts["law"].cites) ELSE {},
     partial |-> (\E s \in Scopes : parts[s].tag = 0) \/ ~ parts["law"].ok]

\* _merge_case on one field: an empty update leaves what was there.
Merged(base, update) == IF update = 0 THEN base ELSE update
MergedRules(base, update) == IF update = {} THEN base ELSE update

\* The joined research is mirrored onto the case the tables are written from.
Join ==
    /\ at = "join"
    /\ at' = "gate2"
    /\ saved' = FALSE
    /\ output' = FromParts
    /\ case' =
         [fields |-> [f \in Fields |->
             IF f \in Scopes /\ parts[f].ok THEN Merged(case.fields[f], parts[f].tag)
             ELSE case.fields[f]],
          rules |-> MergedRules(case.rules, FromParts.kept)]
    /\ pause2' = [extra |-> extra, parts |-> parts, ids |-> ids,
                  output |-> output', case |-> case']
    /\ UNCHANGED <<agents, fan, since, targets, extra, parts, ids, rows, found>>

Mirror(field, a) ==
    case' = [case EXCEPT !.fields[field] =
                 Merged(@, IF agents[a].answer.ok THEN fan ELSE 0)]

SynthesisEnds ==
    /\ at = "synthesis" /\ AllDone
    /\ at' = "gate3"
    /\ Call({})
    /\ saved' = FALSE
    /\ Mirror("arguments", "synthesis")
    /\ LET new == FoundBy({"synthesis"}) IN
          /\ ids' = [ids EXCEPT !["synthesis"] = IF new # {} THEN new ELSE @]
          /\ found' = found \cup new
    /\ UNCHANGED <<fan, since, targets, extra, parts, output, pause2, rows>>

AuditEnds ==
    /\ at = "audit" /\ AllDone
    /\ at' = "gate4"
    /\ Call({})
    /\ saved' = FALSE
    /\ Mirror("fairness", "audit")
    /\ UNCHANGED <<fan, since, targets, extra, parts, ids, output, pause2, rows, found>>

-----------------------------------------------------------------------------
(* The tables.                                                             *)

RowsOf(tag) == IF tag = 0 THEN {} ELSE {tag}

\* evidence, facts and witnesses: the items of the analysis.
ResearchRows(c) == [s \in Scopes \ {"law"} |-> RowsOf(c.fields[s])]

\* legal_rules and precedents: the citations that were kept.
LawRows(c) == c.rules

\* arguments, with the hearing analysis.
ArgumentRows(c) == RowsOf(c.fields["arguments"])

\* Mutant: the old rows of the case are not deleted.
AppendRows ==
    rows' = [research |-> [s \in Scopes \ {"law"} |-> rows.research[s] \cup ResearchRows(case)[s]],
             rules |-> rows.rules \cup LawRows(case),
             arguments |-> rows.arguments \cup ArgumentRows(case)]

\* The rows of the case are deleted and written again, in one transaction.
ReplaceRows ==
    rows' = [research |-> ResearchRows(case), rules |-> LawRows(case),
             arguments |-> ArgumentRows(case)]

SavePause ==
    /\ at \in Gates /\ ~ saved
    /\ ReplaceRows
    /\ saved' = TRUE
    /\ UNCHANGED <<at, agents, fan, since, targets, thread, pause2, found>>

\* The transaction is rolled back, or the job is lost; the case is failed.
RunFails ==
    /\ at \in Running \/ (at \in Gates /\ ~ saved)
    /\ Raise

-----------------------------------------------------------------------------
(* The judge's decisions.                                                  *)

Paused(gate) == at = gate /\ saved

\* A note reaches extra_instructions under the name of the gate or of the
\* targeted scope; without one the old instructions stay.
Noted(keys) == {extra} \cup {{k} : k \in keys}

NextPhase(phase) ==
    /\ at' = phase
    /\ Call({phase})
    /\ UNCHANGED <<fan, targets>>

Stay == UNCHANGED <<since, parts, ids, output, case, pause2, saved, rows, found>>

Advance ==
    /\ \/ Paused("gate1") /\ Dispatch(extra)
       \/ Paused("gate2") /\ NextPhase("synthesis")
       \/ Paused("gate3") /\ NextPhase("audit")
       \/ Paused("gate4") /\ at' = "end" /\ UNCHANGED <<agents, fan, targets>>
    /\ UNCHANGED extra /\ Stay

Rerun ==
    /\ \/ Paused("gate1") /\ extra' \in Noted({"gate1"}) /\ NextPhase("intake")
       \/ Paused("gate2") /\ extra' \in Noted({"gate2"} \cup Scopes) /\ Dispatch(extra')
       \/ Paused("gate3") /\ extra' \in Noted({"gate3"}) /\ NextPhase("synthesis")
       \/ Paused("gate4") /\ extra' \in Noted({"gate4"}) /\ NextPhase("audit")
    /\ Stay

\* The judge returns the case from gate4 to the research: the thread goes back
\* to its checkpoint at gate2, the note under the name of the phase.
SendBack ==
    /\ Paused("gate4")
    /\ extra' \in {pause2.extra, {"research"}}
    /\ parts' = pause2.parts /\ ids' = pause2.ids
    /\ output' = pause2.output /\ case' = pause2.case
    /\ Dispatch(extra')
    /\ UNCHANGED <<since, pause2, saved, rows, found>>

Halt ==
    /\ at \in Gates /\ saved
    /\ at' = "end"
    /\ UNCHANGED <<agents, fan, targets, extra>> /\ Stay

-----------------------------------------------------------------------------

Agent(a) == FirstChunk(a) \/ StreamEnds(a) \/ StreamFails(a)

Fold == IntakeEnds \/ ResearchEnds \/ Join \/ SynthesisEnds \/ AuditEnds \/ SavePause

Next ==
    \/ StartGraph \/ Advance \/ Rerun \/ SendBack \/ Halt
    \/ \E a \in Agents : Agent(a)
    \/ Fold \/ RunFails

Spec == Init /\ [][Next]_vars

-----------------------------------------------------------------------------
(* Properties.                                                             *)

\* Every variable has its type.
TypeOK ==
    /\ at \in {"idle", "failed", "end"} \cup Running \cup Gates
    /\ agents \in [Agents -> Attempt]
    /\ fan \in Tags /\ since \in 1 .. MaxFans + 1
    /\ targets \subseteq Scopes
    /\ extra \subseteq Scopes \cup Gates \cup {"research"}
    /\ parts \in [Scopes -> Part]
    /\ ids \in [{"law", "synthesis"} -> SUBSET (Sources \cup {LawSlot})]
    /\ output \in Output
    /\ case \in Case
    /\ pause2 \in [extra : SUBSET (Scopes \cup Gates \cup {"research"}),
                   parts : [Scopes -> Part],
                   ids : [{"law", "synthesis"} -> SUBSET (Sources \cup {LawSlot})],
                   output : Output, case : Case]
    /\ saved \in BOOLEAN
    /\ rows \in [research : [Scopes \ {"law"} -> SUBSET Tags],
                 rules : SUBSET Sources, arguments : SUBSET Tags]
    /\ found \subseteq Sources

\* No citation reaches the judge, the case or the tables that no search of the
\* thread returned, whatever was rerun, sent back or restarted
\* (validate_law_citations, research_join_node).
NothingInvented == output.kept \cup case.rules \cup rows.rules \subseteq found

\* At gate2 every scope that was asked again shows its new answer, whatever its
\* older ones were (the dict-keyed accumulator and the join).
FanOutLands ==
    at = "gate2" => \A s \in targets : output.parts[s].tag = fan

\* Although a restart leaves the parts of earlier runs in the thread, none of
\* them reaches a judge at gate2 as part of the new run: targeting ends with the
\* run that asked for it (_build_initial_state).
NoPartOutlivesItsRun ==
    at = "gate2" => \A s \in Scopes : output.parts[s].tag >= since

\* Once a pause at gate2 is saved, the tables hold one generation of rows per
\* scope: the one the judge is shown, unless the scope's answer was missing
\* (_merge_case, persist_case_results).
RowsFollowOutput ==
    Paused("gate2") =>
        \A s \in Scopes \ {"law"} :
            /\ Cardinality(rows.research[s]) <= 1
            /\ output.parts[s].ok => rows.research[s] = {output.parts[s].tag}

-----------------------------------------------------------------------------
(* The inductive strengthening the proofs use (see ResearchFanoutProofs).  *)

\* Every source id the thread holds was returned by a search, but for the key
\* the law agent's slot may hold.
KnownIds(i) == i["synthesis"] \subseteq found /\ i["law"] \subseteq found \cup {LawSlot}

SourcesKnown ==
    /\ KnownIds(ids) /\ KnownIds(pause2.ids)
    /\ pause2.output.kept \cup pause2.case.rules \subseteq found
    /\ NothingInvented

\* No scope is named by the instructions of a run before its first fan-out, so
\* that one asks them all; later ones replace what they ask for.
Answered(p) == \A s \in Scopes : p[s].ok => p[s].tag > 0
OfThisRun(S, p) == \A s \in S : p[s].tag >= since

PartsPlaced ==
    /\ since <= fan + 1
    /\ Answered(parts) /\ Answered(pause2.parts)
    /\ at \in {"intake", "gate1"} => extra \cap Scopes = {}
    /\ at = "research" => since <= fan /\ OfThisRun(Scopes \ targets, parts)
    /\ at \in {"join", "gate2", "synthesis", "gate3", "audit", "gate4"} =>
          OfThisRun(Scopes, parts)
    /\ at \in {"gate2", "synthesis", "gate3", "audit", "gate4"} =>
          OfThisRun(Scopes, pause2.parts)
    /\ at \in {"join", "gate2"} => \A s \in targets : parts[s].tag = fan
    /\ at = "gate2" => output.parts = parts

\* The fields of the case are those of the parts at gate2, and the tables those
\* of the case.
RowsPlaced ==
    /\ at = "gate2" => \A s \in Scopes \ {"law"} :
          parts[s].ok => case.fields[s] = parts[s].tag
    /\ Paused("gate2") => rows.research = ResearchRows(case)

IInv == TypeOK /\ SourcesKnown /\ PartsPlaced /\ RowsPlaced
=============================================================================
