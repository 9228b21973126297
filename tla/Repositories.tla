---------------------------- MODULE Repositories ----------------------------
(***************************************************************************)
(* The ten repositories and their two backends: the dictionaries the tests *)
(* and the local runtime use, and the Firestore collections of production. *)
(* One repository is used through its interface, one call at a time, and   *)
(* each call is applied to both backends; `answers` keeps what they said   *)
(* last. (Two callers at once are in Workflow, FeatureReview and           *)
(* RemediationVerification.) Copying, (de)serialization and failed         *)
(* Firestore calls are left out.                                           *)
(*                                                                         *)
(* A document lives at an address <<workflow, id>>; <<Top, id>> in the     *)
(* collections that belong to no workflow. What it is about - the field it *)
(* is found by, what the filters test, its time - is fixed when it is made *)
(* and so a function of the address; its status and version change.        *)
(*                                                                         *)
(* Source: app/persistence/memory/repositories.py,                         *)
(* app/persistence/firestore/repositories.py, app/persistence/errors.py.   *)
(***************************************************************************)
EXTENDS Naturals, Sequences, FiniteSets, Functions, Ranking

CONSTANTS
  Top, None,
  Workflows, Ids,    \* Ids is a set of numbers: Firestore orders documents by name
  KeyOf, KindOf, TimeOf, \* per id: what it is found by, its other fields, its time
  Statuses,
  MaxVersion, MaxDocs, \* bounds: versions of a document, documents held
  Duplicate, NotFound, Conflict \* the structured errors

ASSUME IdsAssumption == Ids \subseteq Nat /\ Workflows \subseteq Nat /\ Top \notin Workflows
ASSUME TimeAssumption == TimeOf \in [Ids -> Nat]
ASSUME StoreBounds == MaxVersion \in Nat /\ MaxDocs \in Nat

-----------------------------------------------------------------------------
(* What each class offers: the calls that write, the field it can be found *)
(* by and which of several matches it answers, the fields a query filters. *)

Class(scoped, writes, find, first, filters, lists) ==
  [scoped |-> scoped, writes |-> writes, find |-> find, first |-> first,
   filters |-> filters, lists |-> lists]

MemoryWorkflow == Class(FALSE, {"create", "update", "delete", "update_if_version"}, "", "", {"status"}, "recent")
MemoryArtifact == Class(TRUE, {"save"}, "artifact_id", "oldest workflow", {}, "workflow")
MemoryExecution == Class(TRUE, {"create", "update"}, "", "", {}, "workflow")
MemoryDecision == Class(TRUE, {"save"}, "", "", {}, "workflow")
MemoryIncident == Class(TRUE, {"save"}, "", "", {}, "workflow")
MemorySignal ==
  Class(FALSE, {"save"}, "fingerprint", "last saved",
        {"signal_type", "source", "service_name", "environment", "severity", "status"}, "query")
MemoryDetection ==
  Class(FALSE, {"save"}, "fingerprint", "last saved",
        {"detection_type", "domain", "service_name", "environment"}, "query")
MemoryResolution ==
  Class(FALSE, {"save"}, "fingerprint", "last saved", {"detection_id", "remediation_strategy", "risk"}, "query")
MemoryFeatureReview ==
  Class(FALSE, {"create", "update_if_version"}, "detection_id", "last saved", {"status"}, "query")
MemoryVerification ==
  Class(FALSE, {"create", "update_if_version"}, "idempotency_key", "last saved", {"outcome", "status"}, "query")

FirestoreWorkflow == Class(FALSE, {"create", "update", "delete", "update_if_version"}, "", "", {"status"}, "recent")
FirestoreArtifact == Class(TRUE, {"save"}, "artifact_id", "by name", {}, "workflow")
FirestoreExecution == Class(TRUE, {"create", "update"}, "", "", {}, "workflow")
FirestoreDecision == Class(TRUE, {"save"}, "", "", {}, "workflow")
FirestoreIncident == Class(TRUE, {"save"}, "", "", {}, "workflow")
FirestoreSignal ==
  Class(FALSE, {"save"}, "fingerprint", "by name",
        {"signal_type", "source", "service_name", "environment", "severity", "status"}, "query")
FirestoreDetection ==
  Class(FALSE, {"save"}, "fingerprint", "by name",
        {"detection_type", "domain", "service_name", "environment"}, "query")
FirestoreResolution ==
  Class(FALSE, {"save"}, "fingerprint", "by name", {"detection_id", "remediation_strategy", "risk"}, "query")
FirestoreFeatureReview ==
  Class(FALSE, {"create", "update_if_version"}, "detection_id", "by name", {"status"}, "query")
FirestoreVerification ==
  Class(FALSE, {"create", "update_if_version"}, "idempotency_key", "by name", {"outcome", "status"}, "query")

Repositories ==
  {[memory |-> MemoryWorkflow, firestore |-> FirestoreWorkflow],
   [memory |-> MemoryArtifact, firestore |-> FirestoreArtifact],
   [memory |-> MemoryExecution, firestore |-> FirestoreExecution],
   [memory |-> MemoryDecision, firestore |-> FirestoreDecision],
   [memory |-> MemoryIncident, firestore |-> FirestoreIncident],
   [memory |-> MemorySignal, firestore |-> FirestoreSignal],
   [memory |-> MemoryDetection, firestore |-> FirestoreDetection],
   [memory |-> MemoryResolution, firestore |-> FirestoreResolution],
   [memory |-> MemoryFeatureReview, firestore |-> FirestoreFeatureReview],
   [memory |-> MemoryVerification, firestore |-> FirestoreVerification]}

-----------------------------------------------------------------------------
VARIABLES
  repo,     \* the repository in use
  order,    \* the addresses in the order the memory dictionaries keep them
  mem,      \* address -> document, memory
  index,    \* key -> address: _by_fingerprint, _by_detection_id, _by_idempotency_key
  docs,     \* address -> document, Firestore
  answers   \* what <<memory, Firestore>> answered to the last write

storeVars == <<repo, order, mem, index, docs, answers>>

\* A call of the interface both classes offer.
Offered(call) == call \in repo.memory.writes /\ call \in repo.firestore.writes

Addresses == IF repo.memory.scoped THEN Workflows \X Ids ELSE {Top} \X Ids

\* What callers write: a document starts at version 1, and only update_if_version
\* gives it another.
Documents == [status : Statuses, version : {1}]

Put(f, x, y) == [z \in DOMAIN f \cup {x} |-> IF z = x THEN y ELSE f[z]]

\* fault: the index is kept by updates instead of by what makes documents
MemPutUpdateIndexed(a, d, indexed) ==
  /\ mem' = Put(mem, a, d)
  /\ order' = IF a \in DOMAIN mem THEN order ELSE Append(order, a)
  /\ index' = IF repo.memory.first = "last saved" /\ ~indexed THEN Put(index, KeyOf[a[2]], a) ELSE index

\* Assigning to a dictionary: a new key goes to the end, an old one keeps its place.
MemPut(a, d, indexed) ==
  /\ mem' = Put(mem, a, d)
  /\ order' = IF a \in DOMAIN mem THEN order ELSE Append(order, a)
  /\ index' = IF indexed /\ repo.memory.first = "last saved" THEN Put(index, KeyOf[a[2]], a) ELSE index

MemKeep == UNCHANGED <<mem, order, index>>

\* save: create or replace, no check.
Save(a, d) ==
  /\ Offered("save")
  /\ MemPut(a, d, TRUE)
  /\ docs' = Put(docs, a, d)
  /\ answers' = <<d, d>>

MemCreate(a, d) ==
  IF a \in DOMAIN mem THEN MemKeep ELSE MemPut(a, d, TRUE)

FireCreate(a, d) ==
  docs' = IF a \in DOMAIN docs THEN docs ELSE Put(docs, a, d)

Create(a, d) ==
  /\ Offered("create")
  /\ MemCreate(a, d)
  /\ FireCreate(a, d)
  /\ answers' = <<IF a \in DOMAIN mem THEN Duplicate ELSE d, IF a \in DOMAIN docs THEN Duplicate ELSE d>>

MemUpdate(a, d) ==
  IF a \in DOMAIN mem THEN MemPut(a, d, FALSE) ELSE MemKeep

\* fault: update creates what is not there
FireUpdateAnyway(a, d) == docs' = Put(docs, a, d)

FireUpdate(a, d) ==
  docs' = IF a \in DOMAIN docs THEN Put(docs, a, d) ELSE docs

\* update: unconditional, of a document that must exist.
Update(a, d) ==
  /\ Offered("update")
  /\ MemUpdate(a, d)
  /\ FireUpdate(a, d)
  /\ answers' = <<IF a \in DOMAIN mem THEN d ELSE NotFound, IF a \in DOMAIN docs THEN d ELSE NotFound>>

Kept(a) == {i \in DOMAIN order : order[i] # a}

MemDelete(a) ==
  /\ mem' = [b \in DOMAIN mem \ {a} |-> mem[b]]
  /\ order' = Pick(order, Kept(a), Upwards(Kept(a)))
  /\ UNCHANGED index

FireDelete(a) == docs' = [b \in DOMAIN docs \ {a} |-> docs[b]]

Delete(a) ==
  /\ Offered("delete")
  /\ MemDelete(a)
  /\ FireDelete(a)
  /\ answers' = <<IF a \in DOMAIN mem THEN None ELSE NotFound, IF a \in DOMAIN docs THEN None ELSE NotFound>>

\* The outcome of update_if_version against the stored documents: an error, or the
\* document that is written.
Versioned(stored, a, expected, d) ==
  IF a \notin DOMAIN stored THEN NotFound
  ELSE IF stored[a].version # expected THEN Conflict
  ELSE [d EXCEPT !.version = expected + 1]

MemUpdateIfVersion(a, expected, d) ==
  LET out == Versioned(mem, a, expected, d)
  IN  IF out \in {NotFound, Conflict} THEN MemKeep ELSE MemPut(a, out, FALSE)

FireUpdateIfVersion(a, expected, d) ==
  LET out == Versioned(docs, a, expected, d)
  IN  docs' = IF out \in {NotFound, Conflict} THEN docs ELSE Put(docs, a, out)

UpdateIfVersion(a, expected, d) ==
  /\ Offered("update_if_version")
  /\ MemUpdateIfVersion(a, expected, d)
  /\ FireUpdateIfVersion(a, expected, d)
  /\ answers' = <<Versioned(mem, a, expected, d), Versioned(docs, a, expected, d)>>

-----------------------------------------------------------------------------
(* Reads. *)

\* The order of document names, and Firestore's ties when it orders downwards.
Before(a, b) == (a[1] # b[1] /\ a[1] < b[1]) \/ (a[1] = b[1] /\ a[2] < b[2])

Field(a, d, f) == IF f = "status" THEN d.status ELSE KindOf[a[2]]

\* The filters of a query, all of which must hold; a backend tests those it knows.
Matches(q, filters, a, d) ==
  /\ \A f \in DOMAIN q.where \cap filters : Field(a, d, f) = q.where[f]
  /\ q.since # None => TimeOf[a[2]] >= q.since
  /\ q.until # None => TimeOf[a[2]] <= q.until

\* query, memory: a stable sort, newest first.
MemHits(q) == {i \in DOMAIN order : Matches(q, repo.memory.filters, order[i], mem[order[i]])}
MemQuery(q) ==
  LET times == [i \in DOMAIN order |-> TimeOf[order[i][2]]]
  IN  First(Pick(order, MemHits(q), Downwards(MemHits(q), times)), q.limit)

FireHits(q) == {a \in DOMAIN docs : Matches(q, repo.firestore.filters, a, docs[a])}
NewestFirst(hits) ==
  {p \in hits \X hits : \/ TimeOf[p[1][2]] > TimeOf[p[2][2]]
                        \/ TimeOf[p[1][2]] = TimeOf[p[2][2]] /\ Before(p[2], p[1])}
FireQuery(q) == First(InOrder(FireHits(q), NewestFirst(FireHits(q))), q.limit)

\* find_by_fingerprint, find_by_detection_id, find_by_idempotency_key.
MemFind(k) == IF k \in DOMAIN index THEN index[k] ELSE None

FireFind(k) ==
  LET hits == {a \in DOMAIN docs : KeyOf[a[2]] = k}
  IN  IF hits = {} THEN None ELSE CHOOSE a \in hits : \A b \in hits \ {a} : Before(a, b)

\* find_owning_workflow_id: memory looks in the workflows' dictionaries in the order
\* they were made, Firestore takes the first path of the collection group.
MemOwner(id) ==
  LET at == {i \in DOMAIN order : <<order[i][1], id>> \in DOMAIN mem}
  IN  IF at = {} THEN None ELSE order[CHOOSE i \in at : \A j \in at : i <= j][1]

FireOwner(id) ==
  LET hits == {w \in Workflows : <<w, id>> \in DOMAIN docs}
  IN  IF hits = {} THEN None ELSE CHOOSE w \in hits : \A x \in hits : w <= x

ByName(addresses) == {p \in addresses \X addresses : Before(p[1], p[2])}

\* list_for_workflow
MemOf(w) == {i \in DOMAIN order : order[i][1] = w}
FireOf(w) == {a \in DOMAIN docs : a[1] = w}
MemList(w) == Pick(order, MemOf(w), Upwards(MemOf(w)))
FireList(w) == InOrder(FireOf(w), ByName(FireOf(w)))

\* list_recent: memory the last made first, Firestore by name.
MemWith(status) == {i \in DOMAIN order : status = None \/ mem[order[i]].status = status}
FireWith(status) == {a \in DOMAIN docs : status = None \/ docs[a].status = status}
MemRecent(status, limit) == First(Pick(order, MemWith(status), Backwards(MemWith(status))), limit)
FireRecent(status, limit) == First(InOrder(FireWith(status), ByName(FireWith(status))), limit)

-----------------------------------------------------------------------------
StoreInit ==
  /\ repo \in Repositories
  /\ order = <<>> /\ mem = <<>> /\ index = <<>> /\ docs = <<>>
  /\ answers = <<None, None>>

StoreNext ==
  /\ UNCHANGED repo
  /\ \E a \in {b \in Addresses : b \in DOMAIN mem \/ Len(order) < MaxDocs} :
       \/ \E d \in Documents : Save(a, d) \/ Create(a, d) \/ Update(a, d)
       \/ Delete(a)
       \/ \E d \in Documents, v \in 1..MaxVersion : v < MaxVersion /\ UpdateIfVersion(a, v, d)

StoreSpec == StoreInit /\ [][StoreNext]_storeVars

-----------------------------------------------------------------------------
(* Queries worth asking: one filter, or one together with the status. *)

Values == Statuses \cup {KindOf[i] : i \in Ids}

Queries ==
  LET names == repo.memory.filters \cup repo.firestore.filters
      tested == {{}} \cup {{f} : f \in names} \cup {{f, "status"} : f \in names}
      times == {None} \cup {TimeOf[i] : i \in Ids}
  IN  {[where |-> w, since |-> s, until |-> u, limit |-> n] :
         w \in UNION {[fs -> Values] : fs \in {t \in tested : t \subseteq names}},
         s \in times, u \in times, n \in 1..2}

\* After the same calls the two backends hold the same documents, and they gave the
\* same answer, or raised the same error, to the last one: what passes against the
\* dictionaries passes against Firestore.
SameAnswers == docs = mem /\ answers[1] = answers[2]

\* A limited query answers the newest matching documents, from either backend; they
\* may differ only in which of several equally new ones they pick.
QueriesAgree ==
  repo.memory.lists = "query" =>
    \A q \in Queries :
      LET m == MemQuery(q)
          f == FireQuery(q)
          hits == {a \in DOMAIN mem : \A x \in DOMAIN q.where : Field(a, mem[a], x) = q.where[x]}
          inWindow == {a \in hits : (q.since = None \/ TimeOf[a[2]] >= q.since)
                                    /\ (q.until = None \/ TimeOf[a[2]] <= q.until)}
      IN  /\ Len(m) = Len(f)
          /\ \A i \in DOMAIN m : TimeOf[m[i][2]] = TimeOf[f[i][2]]
          /\ \A s \in {m, f} :
               /\ Range(s) \subseteq inWindow
               /\ Cardinality(Range(s)) = (IF Cardinality(inWindow) < q.limit THEN Cardinality(inWindow) ELSE q.limit)
               /\ \A a \in Range(s), b \in inWindow \ Range(s) : TimeOf[a[2]] >= TimeOf[b[2]]

\* A lookup by key finds a document exactly when there is one, of that key, and when
\* there is only one both backends find it: nothing is lost behind a stale index entry.
\* With two of one key they may differ: memory answers the last saved, Firestore the
\* first by name. The listing of a workflow, or of all when they fit, is the same set.
LookupsAgree ==
  /\ repo.memory.first = "last saved" =>
       \A k \in {KeyOf[i] : i \in Ids} :
         LET holders == {a \in DOMAIN mem : KeyOf[a[2]] = k}
         IN  IF holders = {} THEN MemFind(k) = None /\ FireFind(k) = None
             ELSE {MemFind(k), FireFind(k)} \subseteq holders
  /\ repo.memory.first = "oldest workflow" =>
       \A i \in Ids :
         LET owners == {w \in Workflows : <<w, i>> \in DOMAIN mem}
         IN  IF owners = {} THEN MemOwner(i) = None /\ FireOwner(i) = None
             ELSE {MemOwner(i), FireOwner(i)} \subseteq owners
  /\ \A w \in Workflows : Range(MemList(w)) = Range(FireList(w))
  /\ repo.memory.lists = "recent" =>
       \A s \in Statuses \cup {None}, n \in 1..MaxDocs :
         LET m == MemRecent(s, n)
             f == FireRecent(s, n)
         IN  Len(m) = Len(f) /\ (Len(m) < n => Range(m) = Range(f))

\* Whatever a caller reads, a limited query, a lookup by key or a listing, it would
\* have read from the other backend as well, as far as the two ever agree.
ReadsAgree == QueriesAgree /\ LookupsAgree
=============================================================================
