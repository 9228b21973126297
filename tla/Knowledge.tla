----------------------------- MODULE Knowledge ------------------------------
(***************************************************************************)
(* The knowledge platform: the tool an agent calls, its retrieval profile, *)
(* the two backends, the ranking and the limit. Scores are hundredths. A   *)
(* chunk is a record of what decides: whether it is of the asked type and  *)
(* passes the filters (fits), its document is in its validity window       *)
(* (inForce), it has an id and some content (whole), how relevant the      *)
(* backend finds it, its authority and the date its document takes effect  *)
(* (0: none). Wording, provenance and the audit record are left out.       *)
(*                                                                         *)
(* Source: app/tools/knowledge_tools.py, app/knowledge/service.py,         *)
(* ranking.py, policies/retrieval_policy.py, backends/in_memory.py,        *)
(* backends/google_search.py.                                              *)
(***************************************************************************)
EXTENDS Integers, Sequences, FiniteSets, Ranking

CONSTANTS
  Missing,   \* the service gave no relevance, or no known authority
  Unasked, Refused, Failed, \* instead of results
  Corpora,   \* the sequences of chunks to search
  Requests,  \* [agent, type, blank]: who asks, for what, and whether the query is empty
  Freshness, \* whether policies prefer the most recent document
  TopK, MaxContextItems, MinRelevance \* of every policy

ASSUME LimitAssumption ==
  TopK \in Nat \ {0} /\ MaxContextItems \in Nat \ {0} /\ MinRelevance \in 0..100 /\ Freshness \in BOOLEAN

Types ==
  {"architecture_pattern", "coding_standard", "security_policy", "compliance", "testing_standard",
   "deployment_standard", "technology_standard", "historical_project", "troubleshooting",
   "operations", "incident"}

\* AGENT_RETRIEVAL_PROFILES
Profiles ==
  [planning_agent |-> {"architecture_pattern", "compliance", "technology_standard", "historical_project"},
   architecture_agent |->
     {"architecture_pattern", "security_policy", "compliance", "technology_standard", "deployment_standard"},
   codegen_agent |-> {"coding_standard", "security_policy", "technology_standard", "architecture_pattern"},
   testing_agent |-> {"testing_standard", "coding_standard", "troubleshooting", "incident"},
   deployment_agent |-> {"deployment_standard", "security_policy", "compliance", "operations"},
   monitoring_agent |-> {"operations", "deployment_standard", "troubleshooting"},
   detecting_agent |-> {"operations", "troubleshooting", "incident"},
   incident_resolution_agent |->
     {"incident", "troubleshooting", "operations", "architecture_pattern", "deployment_standard"}]

\* get_retrieval_policy: an agent without a profile may ask for anything.
Allowed(agent) == IF agent \in DOMAIN Profiles THEN Profiles[agent] ELSE Types

Bonus ==
  [official_policy |-> 15, approved_standard |-> 12, reference_architecture |-> 10,
   team_documentation |-> 5, historical |-> 0, unverified |-> -5]

FreshnessBonus == 8

\* What a backend may hold. Only the Discovery Engine leaves something out.
Chunks ==
  [fits : BOOLEAN, inForce : BOOLEAN, whole : BOOLEAN, relevance : Int \cup {Missing},
   authority : DOMAIN Bonus \cup {Missing}, from : Nat]

ASSUME CorpusAssumption == Corpora \subseteq Seq(Chunks) /\ Missing \notin Int

-----------------------------------------------------------------------------
VARIABLES
  corpus,   \* what the backend in use could answer with
  backend,  \* "memory", "google", or "none" when no gateway is configured
  request,
  answer    \* the results, best first, or Unasked, Refused, Failed

searchVars == <<corpus, backend, request, answer>>

Clamp(x) == IF x < 0 THEN 0 ELSE IF x > 100 THEN 100 ELSE x

\* The chunks at the given positions, the most relevant first.
MostRelevant(chunks, at) ==
  Pick(chunks, at, Downwards(at, [i \in DOMAIN chunks |-> chunks[i].relevance]))

\* fault: the validity window is forgotten
MatchesAnyTime(c) == c.fits /\ c.relevance > 0

\* InMemoryRetrievalBackend.search: a chunk none of whose words match is no candidate.
MemoryMatches(c) == c.fits /\ c.inForce /\ c.relevance > 0

MemorySearch(chunks) ==
  MostRelevant(chunks, {i \in DOMAIN chunks : MemoryMatches(chunks[i])})

\* _map_chunk_result; the service itself applies the filter it is sent (_build_filter),
\* which knows nothing of validity windows.
FromGoogle(c) ==
  [c EXCEPT !.relevance = IF c.relevance = Missing THEN 50 ELSE Clamp(c.relevance),
            !.authority = IF c.authority = Missing THEN "unverified" ELSE c.authority]

\* GoogleSearchRetrievalBackend.search
GoogleMatches(c) == c.fits /\ c.whole

GoogleSearch(chunks) ==
  MostRelevant([i \in DOMAIN chunks |-> FromGoogle(chunks[i])],
               {i \in DOMAIN chunks : GoogleMatches(chunks[i])})

\* The positions of what reaches the least relevance.
Candidates(found) == {i \in DOMAIN found : found[i].relevance >= MinRelevance}

Freshest(found, c) ==
  c.from # 0 /\ \A i \in Candidates(found) : found[i].from <= c.from

\* _raw_score. The technology, service and environment bonuses depend on the request
\* alone, so they are the same for every result and are left out.
RawScore(found, c) ==
  c.relevance + Bonus[c.authority] + (IF Freshness /\ Freshest(found, c) THEN FreshnessBonus ELSE 0)

Scores(found) == [i \in DOMAIN found |-> RawScore(found, found[i])]

\* apply_enterprise_ranking: sorted by the raw score; the clamped one is shown.
Ranked(found) ==
  LET at == InOrder(Candidates(found), Downwards(Candidates(found), Scores(found)))
  IN  [n \in DOMAIN at |->
         [chunk |-> found[at[n]], rank |-> n, shown |-> Clamp(Scores(found)[at[n]])]]

Limit == IF TopK < MaxContextItems THEN TopK ELSE MaxContextItems

\* fault: the limit is applied before the ranking
ResultsCutFirst(found) == Ranked(First(found, Limit))

\* LocalKnowledgeService.search, from the backend's results.
Results(found) == First(Ranked(found), Limit)

-----------------------------------------------------------------------------
SearchInit ==
  /\ corpus \in Corpora
  /\ backend \in {"memory", "google", "none"}
  /\ backend = "memory" => \A i \in DOMAIN corpus : corpus[i].relevance \in 0..100 /\ corpus[i].authority # Missing
  /\ request \in Requests
  /\ answer = Unasked

\* query_enterprise_knowledge: no gateway is no failure; an unknown type, one outside
\* the agent's profile or an empty query is refused before anything is searched.
Ask ==
  /\ answer = Unasked
  /\ answer' =
       IF backend = "none" THEN <<>>
       ELSE IF request.type \notin Types \cap Allowed(request.agent) \/ request.blank THEN Refused
       ELSE Results(IF backend = "memory" THEN MemorySearch(corpus) ELSE GoogleSearch(corpus))
  /\ UNCHANGED <<corpus, backend, request>>

\* Discovery Engine answers with an error, or with what _map_chunk_result cannot read.
SearchFails ==
  /\ answer = Unasked /\ backend = "google"
  /\ request.type \in Types \cap Allowed(request.agent) /\ ~request.blank
  /\ answer' = Failed
  /\ UNCHANGED <<corpus, backend, request>>

SearchNext == Ask \/ SearchFails

SearchSpec == SearchInit /\ [][SearchNext]_searchVars

-----------------------------------------------------------------------------
Answered == answer \notin {Unasked, Refused, Failed}

Shown == IF Answered THEN {answer[n].chunk : n \in DOMAIN answer} ELSE {}

Found == IF backend = "memory" THEN MemorySearch(corpus) ELSE GoogleSearch(corpus)

\* The most that authority and freshness can be worth between two results.
Spread == 20 + (IF Freshness THEN FreshnessBonus ELSE 0)

\* a is at least as good as b on equal terms.
NoWorse(a, b) ==
  /\ b.relevance - a.relevance <= Spread
  /\ b.relevance = a.relevance /\ b.from = a.from => Bonus[b.authority] <= Bonus[a.authority]

\* ranking.py: "relevance is the dominant term". A result never comes after one that is
\* less relevant by more than all bonuses together, nor after an equally relevant one
\* of the same date and lower authority; what the limit cuts off is not better, in that
\* sense, than what is shown; and the shown scores do not increase.
RelevanceLeads ==
  Answered =>
    /\ \A m, n \in DOMAIN answer : m < n =>
         NoWorse(answer[m].chunk, answer[n].chunk) /\ answer[n].shown <= answer[m].shown
    /\ \A i \in Candidates(Found), s \in Shown : Found[i] \in Shown \/ NoWorse(s, Found[i])

\* What an agent is given was asked for within its profile, fits the filters, has
\* content and reaches the least relevance; from memory it is also in force. And
\* everything of that kind is given as long as the limit allows.
AnswerGrounded ==
  (Answered /\ backend # "none") =>
    LET given(c) == IF backend = "memory" THEN c ELSE FromGoogle(c)
        good(c) == c.fits /\ (IF backend = "memory" THEN c.inForce /\ c.relevance > 0 ELSE c.whole)
        there == Cardinality({i \in DOMAIN corpus :
                   good(corpus[i]) /\ given(corpus[i]).relevance >= MinRelevance})
    IN  /\ request.type \in Allowed(request.agent)
        /\ \A c \in Shown : good(c) /\ c.relevance >= MinRelevance
        /\ Len(answer) = (IF there < Limit THEN there ELSE Limit)
=============================================================================
