----------------------------- MODULE KnowledgeWorker -----------------------------
(* The worker processes that index the versions of KnowledgeVersions           *)
(* (knowledge_worker.py), the vector index they write to (knowledge_index.py)  *)
(* and a search that reads both (knowledge_search.py). The index is another    *)
(* system: a vector may be written after the worker lost its lease, or though  *)
(* the call failed.                                                            *)
EXTENDS KnowledgeVersions

VARIABLES index,     \* the version that the vectors of a content are tagged with
          worker,    \* the local state of each worker process
          search     \* the local state of a search request

workerVars == <<index, worker>>
vars == <<knowledgeVars, index, worker, search>>

NoDocument == [enabled |-> FALSE, current |-> 0]

Idle == [pc |-> "idle", job |-> NoVersion, seen |-> NoDocument]

Working(w) == worker[w].pc \notin {"idle", "down"}

At(w, pc, v) == worker[w].pc = pc /\ worker[w].job = v

Go(w, pc) == worker' = [worker EXCEPT ![w].pc = pc]

Leave(w) == worker' = [worker EXCEPT ![w] = Idle]

Unstored == UNCHANGED knowledgeVars

(* The document, as the session that claimed the version has it                *)
Remembered(w) == worker[w].seen

--------------------------------------------------------------------------------
(* run_once. Every transaction of a run uses the session that claimed.         *)

Take(w, v) ==
  /\ worker[w].pc = "idle"
  /\ Claim(w, v)
  /\ worker' = [worker EXCEPT ![w] = [pc |-> "claimed", job |-> v, seen |-> document[v[1]]]]
  /\ UNCHANGED <<index, search>>

TakeNothing(w) ==
  /\ worker[w].pc = "idle"
  /\ ClaimNothing
  /\ UNCHANGED <<workerVars, search>>

(* Renewed, then parse_and_chunk                                               *)
Parse(w, v) ==
  /\ At(w, "claimed", v)
  /\ Renewable(w, v)
  /\ Go(w, "parsed")
  /\ Unstored /\ UNCHANGED <<index, search>>

(* Renewed, embed_documents, renewed again                                     *)
Embed(w, v) ==
  /\ At(w, "parsed", v)
  /\ Renewable(w, v)
  /\ Go(w, "indexing")
  /\ Unstored /\ UNCHANGED <<index, search>>

(* Mutant: the vectors are written after the version serves.                   *)
SkipIndex(w, v) ==
  /\ At(w, "indexing", v)
  /\ Go(w, "indexed")
  /\ Unstored /\ UNCHANGED <<index, search>>

(* MilvusKnowledgeIndex.upsert, by the id of the chunk                         *)
UpsertIndex(w, v) ==
  /\ At(w, "indexing", v)
  /\ index' = [index EXCEPT ![Content(v)] = v]
  /\ Go(w, "indexed")
  /\ Unstored /\ UNCHANGED search

(* Renewed, then upsert_knowledge_chunks                                       *)
StoreChunks(w, v) ==
  /\ At(w, "indexed", v)
  /\ UpsertChunks(w, v)
  /\ Go(w, "stored")
  /\ UNCHANGED <<index, search>>

(* Renewed, then activate_knowledge_version                                    *)
Finish(w, v) ==
  /\ At(w, "stored", v)
  /\ \/ Activate(w, v, Remembered(w))
     \/ Supersede(w, v, Remembered(w))
  /\ Leave(w)
  /\ UNCHANGED <<index, search>>

(* The document was disabled before this worker took the version: the version  *)
(* keeps the lease until it lapses.                                            *)
FindDisabled(w, v) ==
  /\ At(w, "stored", v)
  /\ ~Remembered(w).enabled
  /\ Leave(w)
  /\ Unstored /\ UNCHANGED <<index, search>>

(* LeaseLostError                                                              *)
LoseLease(w, v) ==
  /\ worker[w].pc \in {"claimed", "parsed", "indexed", "stored"}
  /\ worker[w].job = v
  /\ ~Owns(w, v)
  /\ Leave(w)
  /\ Unstored /\ UNCHANGED <<index, search>>

LoseAuthority(w, v) ==
  /\ worker[w].pc \in {"claimed", "parsed", "indexed", "stored"}
  /\ worker[w].job = v
  /\ AuthorizationChanged(w, v)
  /\ Leave(w)
  /\ UNCHANGED <<index, search>>

(* A KnowledgeDependencyError of the model, or of the index: then the vectors  *)
(* may have been written all the same.                                         *)
DependencyFails(w, v) ==
  /\ \/ At(w, "parsed", v) /\ UNCHANGED index
     \/ At(w, "indexing", v) /\ index' \in {index, [index EXCEPT ![Content(v)] = v]}
  /\ Go(w, "retrying")
  /\ Unstored /\ UNCHANGED search

(* A KnowledgeContentError while the file is read and parsed, the chunk of     *)
(* another version, or any other exception                                     *)
Break(w) ==
  /\ Working(w)
  /\ worker[w].pc \notin {"retrying", "failing"}
  /\ Go(w, "failing")
  /\ Unstored /\ UNCHANGED <<index, search>>

(* _retry_or_fail and _fail_terminal, in a session of their own                *)
Retry(w, v) ==
  /\ At(w, "retrying", v)
  /\ \/ ReturnForRetry(w, v)
     \/ ~Owns(w, v) /\ Unstored
  /\ Leave(w)
  /\ UNCHANGED <<index, search>>

GiveUp(w, v) ==
  /\ At(w, "failing", v)
  /\ \/ Fail(w, v)
     \/ ~Owns(w, v) /\ Unstored
  /\ Leave(w)
  /\ UNCHANGED <<index, search>>

Crash(w) ==
  /\ Working(w)
  /\ worker' = [worker EXCEPT ![w] = [Idle EXCEPT !.pc = "down"]]
  /\ Unstored /\ UNCHANGED <<index, search>>

Restart(w) ==
  /\ worker[w].pc = "down"
  /\ Leave(w)
  /\ Unstored /\ UNCHANGED <<index, search>>

--------------------------------------------------------------------------------
(* search_active_knowledge. Whatever its documents are, one request is enough: *)
(* requests do not write.                                                      *)

NoSearch == [pc |-> "idle", versions |-> {}, hits |-> {}]

SearchStarts ==
  /\ search.pc = "idle"
  /\ Serving # {}
  /\ search' = [NoSearch EXCEPT !.pc = "searching", !.versions = Serving]
  /\ Unstored /\ UNCHANGED workerVars

(* dense_search and sparse_search, filtered by version                         *)
SearchIndex ==
  /\ search.pc = "searching"
  /\ search' = [search EXCEPT !.pc = "reading",
                              !.hits = {c \in Contents : index[c] \in search.versions}]
  /\ Unstored /\ UNCHANGED workerVars

(* Mutant: the rows of the hits are read whatever became of their version.     *)
CitedWhenever == {chunk[c] : c \in search.hits} \cap search.versions

(* _canonical_chunks: what is cited, if the text of the hits is read now       *)
Cited == {chunk[c] : c \in search.hits} \cap search.versions \cap Serving

(* The text is read and the request is answered.                               *)
SearchReads ==
  /\ search.pc = "reading"
  /\ search' = NoSearch
  /\ Unstored /\ UNCHANGED workerVars

(* The model or the index is not available                                     *)
SearchFails ==
  /\ search.pc = "searching"
  /\ search' = NoSearch
  /\ Unstored /\ UNCHANGED workerVars

--------------------------------------------------------------------------------
Init ==
  /\ KnowledgeInit
  /\ index = [c \in Contents |-> NoVersion]
  /\ worker = [w \in Workers |-> Idle]
  /\ search = NoSearch

RunOnce(w) == TakeNothing(w) \/ \E v \in Versions : Take(w, v)

Progress(w) ==
  \E v \in Versions :
    \/ Parse(w, v) \/ Embed(w, v) \/ UpsertIndex(w, v) \/ StoreChunks(w, v)
    \/ Finish(w, v) \/ FindDisabled(w, v) \/ LoseLease(w, v) \/ LoseAuthority(w, v)
    \/ DependencyFails(w, v) \/ Retry(w, v) \/ GiveUp(w, v)

Next ==
  \/ \E d \in Documents, c \in Contents :
       /\ UploadChecked(d, c) \/ UploadStored(d, c) \/ UploadRefused(d, c)
       /\ UNCHANGED <<workerVars, search>>
  \/ \E d \in Documents : Disable(d) /\ UNCHANGED <<workerVars, search>>
  \/ Demote /\ UNCHANGED <<workerVars, search>>
  \/ \E v \in Versions : LeaseLapses(v) /\ UNCHANGED <<workerVars, search>>
  \/ \E w \in Workers : RunOnce(w) \/ Progress(w) \/ Break(w) \/ Crash(w) \/ Restart(w)
  \/ SearchStarts \/ SearchIndex \/ SearchReads \/ SearchFails

Spec == Init /\ [][Next]_vars

--------------------------------------------------------------------------------
(* Properties.                                                                 *)

Process == [pc : {"idle", "claimed", "parsed", "indexing", "indexed", "stored",
                  "retrying", "failing", "down"},
            job : Versions \cup {NoVersion},
            seen : [enabled : BOOLEAN, current : 0..MaxVersions]]

(* A version has an owner exactly while it is processed, as the constraint     *)
(* ck_knowledge_document_versions_lease_state demands.                         *)
KnowledgeTypeOK ==
  /\ document \in [Documents -> [enabled : BOOLEAN, current : 0..MaxVersions]]
  /\ version \in [Versions -> Row]
  /\ chunk \in [Contents -> Versions \cup {NoVersion}]
  /\ uploading \subseteq Documents \X Contents
  /\ authorized \in BOOLEAN
  /\ index \in [Contents -> Versions \cup {NoVersion}]
  /\ worker \in [Workers -> Process]
  /\ search \in [pc : {"idle", "searching", "reading"}, versions : SUBSET Versions,
                 hits : SUBSET Contents]
  /\ \A v \in Versions : version[v].owner # NoWorker <=> Status(v) = "processing"
  /\ \A w \in Workers : worker[w].job # NoVersion <=> Working(w)

(* What serves can be found: the vectors of the current version of an enabled  *)
(* document are in the index under that version, and its text in the database. *)
(* No order of crashes, lapsed leases, retries and late writes to the index    *)
(* activates a version before both are there (knowledge_worker.py:108-165).    *)
ServedIsFound ==
  \A v \in Serving : index[Content(v)] = v /\ chunk[Content(v)] = v

(* A search cites, of what served when it began, what still serves when the    *)
(* text is read: nothing of a document disabled or replaced meanwhile, and     *)
(* nothing of what serves throughout is missing (knowledge_search.py:178-256). *)
SearchIsExact ==
  search.pc = "reading" => Cited = search.versions \cap Serving

(* Failed and disabled versions never come back, and an active one can only be *)
(* disabled: not even a worker that lost its lease long ago can take a version *)
(* out of service or put one back (knowledge_runs.py, _owned_lease).           *)
EndedForGood ==
  [][\A v \in Versions :
       /\ Status(v) \in {"failed", "disabled"} => version'[v] = version[v]
       /\ Status(v) = "active" => Status(v)' \in {"active", "disabled"}]_vars

(* A newer version is never replaced by an older one.                          *)
CurrentNeverGoesBack ==
  [][\A d \in Documents : document'[d].current # 0 =>
                            document'[d].current >= document[d].current]_vars

================================================================================
