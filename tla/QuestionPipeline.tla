-------------------------- MODULE QuestionPipeline --------------------------
(***************************************************************************)
(* One execution of the recommended-questions graph: which signals of the  *)
(* corpus survive each node, and which questions come out, whatever the    *)
(* language model answers or fails to answer at each call.                 *)
(*                                                                         *)
(* internal/perception/question_graph/nodes.py, graph.py, state.py.        *)
(*                                                                         *)
(* A signal stands for its id; what its title and excerpt decide is its    *)
(* topic (topic_key) and its class.  Texts, personas, research snippets    *)
(* and products only decorate a candidate and are left out.                *)
(***************************************************************************)
EXTENDS Naturals, FiniteSets, Sequences, SequencesExt

CONSTANTS
    Corpus,       \* list_top_signals: the newest first
    Topic(_),     \* topic_key of a signal's title
    Fake,         \* an id no signal has
    Preselect,    \* SCREEN_PRESELECT
    ShortMax,     \* SHORTLIST_MAX
    ShortMin,     \* SHORTLIST_MIN
    ResearchMax,  \* RESEARCH_MAX
    DeepMax,      \* DEEP_MAX
    Ask,          \* questions wanted: 5
    Cap,          \* questions kept: 7
    MaxRaw        \* bound on the questions the model composes

ASSUME PipelineAssumption ==
    /\ Corpus \in Seq(Range(Corpus)) /\ Fake \notin Range(Corpus)
    /\ {Preselect, ShortMax, ShortMin, ResearchMax, DeepMax, Ask, Cap, MaxRaw} \subseteq Nat
    /\ ShortMin \in 1..ShortMax /\ Ask <= Cap

VARIABLES
    at,         \* the node that is next
    class,      \* per signal, how its title meets the company's keywords
    list,       \* the candidates so far, in order
    rejected,   \* topics the model left out of the shortlist
    orgs,       \* signals that name another organisation
    recent,     \* what was served lately: signals and topics
    questions   \* the refs of each question

pipelineVars == <<at, class, list, rejected, orgs, recent, questions>>

Signals == Range(Corpus)

(* bridged: the title holds a keyword (_keyword_score > 0).  famous: it    *)
(* holds none and looks like an IP or a celebrity.                         *)
Classes == {"bridged", "plain", "famous"}
Bridged(s) == class[s] = "bridged"

Nodes == {"screen", "research", "filter", "deep", "compose", "done"}

Topics(refs) == {Topic(s) : s \in refs}
Take(s, n) == SubSeq(s, 1, IF n < Len(s) THEN n ELSE Len(s))

----------------------------------------------------------------------------
(* Screening.                                                              *)

(* A list extended by those elements of more that may be added, in order,  *)
(* while it has fewer than n.                                              *)
Extended(s, more, May(_, _), n) ==
    FoldLeft(LAMBDA acc, x : IF Len(acc) < n /\ May(acc, x) THEN Append(acc, x) ELSE acc,
             s, more)

(* The elements of s that are in S, in order.                              *)
Among(s, S) == Extended(<<>>, s, LAMBDA acc, x : x \in S, Len(s))

NewTopic(acc, s) == Topic(s) \notin Topics(Range(acc))

(* _cluster_cap: the first signal of each topic.                           *)
ClusterCapNone(s) == s
ClusterCap(s) == Extended(<<>>, s, NewTopic, Len(s))

(* The corpus by score; sorted is stable.                                  *)
BridgedSignals == {s \in Signals : Bridged(s)}
Scored == Among(Corpus, BridgedSignals) \o Among(Corpus, Signals \ BridgedSignals)
Preselected == Take(ClusterCap(Scored), Preselect)

(* Too short a list is topped up with bridged signals of new topics that   *)
(* the model did not reject.                                               *)
TopUpRestoring(kept, out) ==
    Extended(kept, Scored, LAMBDA acc, s : NewTopic(acc, s) /\ Bridged(s), ShortMin)
TopUp(kept, out) ==
    Extended(kept, Scored,
             LAMBDA acc, s : NewTopic(acc, s) /\ Bridged(s) /\ Topic(s) \notin out, ShortMin)

(* An empty list falls back on the corpus, except famous names.            *)
OrFallback(kept) ==
    IF kept # <<>> THEN kept
    ELSE LET first == Take(ClusterCap(Scored), ShortMax)
         IN  Take(Among(first, {s \in Signals : class[s] # "famous"}), ShortMin)

Shortlist(kept, out) ==
    /\ list' = Take(OrFallback(TopUp(kept, out)), ShortMax)
    /\ rejected' = out
    /\ at' = "research"
    /\ UNCHANGED <<class, orgs, recent, questions>>

(* No keywords, known or inferred: diversity.                              *)
ScreenCold ==
    /\ at = "screen" /\ \A s \in Signals : ~Bridged(s)
    /\ list' = Take(ClusterCap(Corpus), ShortMax)
    /\ at' = "research"
    /\ UNCHANGED <<class, rejected, orgs, recent, questions>>

(* No model, an error, or an answer that keeps nothing valid.              *)
ScreenHeuristic ==
    /\ at = "screen"
    /\ Shortlist(Among(Preselected, BridgedSignals), {})

(* The model keeps some of what it was shown.                              *)
ScreenByModel ==
    /\ at = "screen"
    /\ \E keep \in (SUBSET Range(Preselected)) \ {{}} :
         Shortlist(Among(Preselected, keep),
                   Topics(Range(Preselected)) \ Topics(keep))

(* shallow_research: a snippet or none for each; nobody is dropped.        *)
Research ==
    /\ at = "research"
    /\ list' = Take(list, ResearchMax)
    /\ at' = "filter"
    /\ UNCHANGED <<class, rejected, orgs, recent, questions>>

----------------------------------------------------------------------------
(* Filtering.                                                              *)

(* Deterministic first: other organisations, and famous names without a    *)
(* bridge to the company.                                                  *)
AllowedButFamous(s, named) == s \notin named
Allowed(s, named) == s \notin named /\ class[s] # "famous"

(* Then the model's rows, when it gave any; their ids may be anything.     *)
Filter ==
    /\ at = "filter"
    /\ \E named \in SUBSET Range(list), keep \in SUBSET (Range(list) \cup {Fake}) :
         /\ orgs' = named
         /\ list' = Among(list, {s \in Range(list) : /\ Allowed(s, named)
                                                     /\ keep # {} => s \in keep})
    /\ at' = "deep"
    /\ UNCHANGED <<class, rejected, recent, questions>>

(* deep_research and product_match: notes and products for each.           *)
Deep ==
    /\ at = "deep"
    /\ list' = Take(list, DeepMax)
    /\ at' = "compose"
    /\ UNCHANGED <<class, rejected, orgs, recent, questions>>

----------------------------------------------------------------------------
(* Composing.                                                              *)

Used(qs) == Topics(UNION Range(qs))

(* A question of the model: its refs to candidates, when it has any, none  *)
(* of them served lately, and all of topics neither served lately nor used.*)
AcceptedAnyTopic(qs, refs, old) ==
    refs # {} /\ refs \cap old.signals = {} /\ Topics(refs) \cap old.topics = {}
Accepted(qs, refs, old) ==
    /\ refs # {}
    /\ refs \cap old.signals = {}
    /\ Topics(refs) \cap (Used(qs) \cup old.topics) = {}

FromModel(raw, old) ==
    FoldLeft(LAMBDA qs, refs :
               IF Accepted(qs, refs \cap Range(list), old)
               THEN Append(qs, refs \cap Range(list)) ELSE qs,
             <<>>, raw)

(* _pad_questions: a template for each candidate in turn.  (A template's   *)
(* text that was served lately has its signal among those served lately.)  *)
PadOnlyFirst(qs, old) ==
    IF list # <<>> /\ Len(qs) < Ask /\ Accepted(qs, {list[1]}, old)
    THEN Append(qs, {list[1]}) ELSE qs
Pad(qs, old) ==
    FoldLeft(LAMBDA acc, s : IF Len(acc) < Ask /\ Accepted(acc, {s}, old)
                             THEN Append(acc, {s}) ELSE acc, qs, list)

(* What the model returns, if it is asked and answers.                     *)
RawQuestions ==
    IF list = <<>> THEN {<<>>}
    ELSE UNION {[1..n -> {r \in SUBSET (Range(list) \cup {Fake}) : Cardinality(r) \in 1..2}] :
                n \in 0..MaxRaw}

Compose ==
    /\ at = "compose"
    /\ \E raw \in RawQuestions, sig \in SUBSET Range(list),
          top \in SUBSET Topics(Range(list)) :
         LET old == [signals |-> sig, topics |-> top]
         IN  /\ recent' = old
             /\ questions' = Take(Pad(FromModel(raw, old), old), Cap)
    /\ at' = "done"
    /\ UNCHANGED <<class, list, rejected, orgs>>

----------------------------------------------------------------------------
PipelineInit ==
    /\ at = "screen"
    /\ class \in [Signals -> Classes]
    /\ list = <<>>
    /\ rejected = {}
    /\ orgs = {}
    /\ recent = [signals |-> {}, topics |-> {}]
    /\ questions = <<>>

PipelineNext == ScreenCold \/ ScreenHeuristic \/ ScreenByModel \/ Research \/ Filter
                \/ Deep \/ Compose

PipelineSpec == PipelineInit /\ [][PipelineNext]_pipelineVars

----------------------------------------------------------------------------
(* Properties.                                                             *)

(* Types, the limits of the lists, and one candidate per topic.            *)
PipelineTypeOK ==
    /\ at \in Nodes
    /\ class \in [Signals -> Classes]
    /\ Range(list) \subseteq Signals /\ Len(list) <= ShortMax
    /\ \A i, j \in DOMAIN list : Topic(list[i]) = Topic(list[j]) => i = j
    /\ rejected \subseteq Topics(Signals)
    /\ orgs \subseteq Signals
    /\ recent.signals \subseteq Signals /\ recent.topics \subseteq Topics(Signals)
    /\ Range(questions) \subseteq SUBSET Signals /\ Len(questions) <= Cap

(* ADR 0018, nodes.py "no round-robin fake refs", "Do not restore          *)
(* LLM-rejected IP clusters or no-bridge celeb", "Deterministic named-org  *)
(* block first": a question refers to real candidates, none of which names *)
(* another organisation, is famous without a bridge, or is of a topic that *)
(* the model rejected.                                                     *)
AskedIsAllowed ==
    \A refs \in Range(questions) :
        /\ refs # {} /\ refs \subseteq Signals
        /\ refs \cap orgs = {}
        /\ \A s \in refs : class[s] # "famous"
        /\ Topics(refs) \cap rejected = {}

(* "dedupe vs recent serves": no two questions share a topic, whether the  *)
(* model or a template wrote them, and none repeats what was just served.  *)
TopicsApart ==
    /\ \A i, j \in DOMAIN questions :
         i # j => Topics(questions[i]) \cap Topics(questions[j]) = {}
    /\ \A refs \in Range(questions) :
         refs \cap recent.signals = {} /\ Topics(refs) \cap recent.topics = {}

(* "must not wipe the landing": with fewer questions than wanted, every    *)
(* candidate's topic is asked about or was just served.                    *)
NoFreshCandidateLeft ==
    (at = "done" /\ Len(questions) < Ask) =>
        \A s \in Range(list) : \/ s \in recent.signals
                               \/ Topic(s) \in recent.topics \cup Used(questions)
=============================================================================
