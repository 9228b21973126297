----------------------------- MODULE MCPlatform -----------------------------
(***************************************************************************)
(* The two services every agent reads from, checked in one run: a          *)
(* behaviour uses either a repository or the knowledge platform (they      *)
(* share nothing). Documents: 1 and 3 share a key and a time, 2 shares its *)
(* other fields with 3. Chunks: up to three, with relevances less and more *)
(* than all bonuses apart, the best and the worst authority, two dates,    *)
(* and one of each kind that is dropped, repaired or clamped on the way.   *)
(***************************************************************************)
EXTENDS Repositories, Knowledge

CONSTANT Nobody \* asks nothing: a behaviour that uses a repository

MCKeyOf == [i \in Ids |-> IF i = 2 THEN "k2" ELSE "k1"]
MCKindOf == [i \in Ids |-> IF i = 1 THEN "x" ELSE "y"]
MCTimeOf == [i \in Ids |-> IF i = 2 THEN 1 ELSE 2]

Plain(r, a, f) ==
  [fits |-> TRUE, inForce |-> TRUE, whole |-> TRUE, relevance |-> r, authority |-> a, from |-> f]

Kinds ==
  {Plain(r, a, 0) : r \in {45, 60, 80}, a \in {"official_policy", "unverified"}}
    \cup {Plain(45, "historical", 1), Plain(60, "historical", 2), Plain(80, "team_documentation", 1)}
    \cup {Plain(0, "unverified", 0), Plain(Missing, Missing, 0), Plain(120, "approved_standard", 0),
          [Plain(80, "official_policy", 0) EXCEPT !.fits = FALSE],
          [Plain(80, "official_policy", 1) EXCEPT !.inForce = FALSE],
          [Plain(60, "reference_architecture", 0) EXCEPT !.whole = FALSE]}

MCCorpora == UNION {[1..n -> Kinds] : n \in 0..3}

Ask1(agent, type, blank) == [agent |-> agent, type |-> type, blank |-> blank]

MCRequests ==
  {Ask1("planning_agent", "compliance", FALSE), Ask1("planning_agent", "operations", FALSE),
   Ask1("unlisted_agent", "incident", FALSE), Ask1("detecting_agent", "no_such_type", FALSE),
   Ask1("detecting_agent", "incident", TRUE)}

NoSearch == corpus = <<>> /\ backend = "none" /\ request = Nobody /\ answer = Refused

NoStore ==
  /\ repo = [memory |-> MemoryDecision, firestore |-> FirestoreDecision]
  /\ order = <<>> /\ mem = <<>> /\ index = <<>> /\ docs = <<>>
  /\ answers = <<None, None>>

Init == (StoreInit /\ NoSearch) \/ (SearchInit /\ NoStore)

Next ==
  \/ request = Nobody /\ StoreNext /\ UNCHANGED searchVars
  \/ SearchNext /\ UNCHANGED storeVars

Spec == Init /\ [][Next]_<<storeVars, searchVars>>
=============================================================================
