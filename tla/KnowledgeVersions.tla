---------------------------- MODULE KnowledgeVersions ----------------------------
(* Documents of the knowledge base and their versions: the transactions of     *)
(* knowledge_runs.py and the endpoints of routes.py that upload and disable.   *)
(* A version is accepted, taken by a worker under a lease, and made the        *)
(* current version of its document once it is indexed; the version it replaces *)
(* is disabled. Two contents never have a chunk in common: the id of a chunk   *)
(* is derived from the SHA-256 of the file it comes from, so one chunk stands  *)
(* for all the chunks of a content.                                            *)
EXTENDS Naturals, FiniteSets

CONSTANTS Documents,
          Contents,      \* the files that may be uploaded, by their SHA-256
          NoContent,
          Workers,       \* lease_owner of each worker
          NoWorker,
          MaxVersions,   \* versions of a document, a bound of the instance
          MaxAttempts    \* 3 in the code

ASSUME KnowledgeAssumption ==
  /\ NoWorker \notin Workers
  /\ NoContent \notin Contents
  /\ MaxVersions \in Nat \ {0}
  /\ MaxAttempts \in Nat \ {0}

Numbers == 1..MaxVersions

Versions == Documents \X Numbers

NoVersion == <<>>

VARIABLES document,    \* knowledge_documents: enabled, and 0 or the number of the current version
          version,     \* knowledge_document_versions, by document and number
          chunk,       \* knowledge_chunks: the version that has the chunk of a content
          uploading,   \* uploads that passed the checks of the endpoint and are not stored yet
          authorized   \* the uploader is an active administrator of operations

knowledgeVars == <<document, version, chunk, uploading, authorized>>

Statuses == {"absent", "accepted", "processing", "active", "failed", "disabled"}

Row == [status : Statuses, content : Contents \cup {NoContent}, attempts : 0..MaxAttempts,
        owner : Workers \cup {NoWorker}, lapsed : BOOLEAN]

Status(v) == version[v].status

Content(v) == version[v].content

Stored(d) == {n \in Numbers : Status(<<d, n>>) # "absent"}

Known(d, c) == \E n \in Stored(d) : Content(<<d, n>>) = c

(* _active_version_ids: enabled documents, by their current version            *)
Serving == {v \in Versions : /\ document[v[1]].enabled
                             /\ document[v[1]].current = v[2]
                             /\ Status(v) = "active"}

Unheld(row, status) == [row EXCEPT !.status = status, !.owner = NoWorker, !.lapsed = FALSE]

--------------------------------------------------------------------------------
(* Uploads. A new document gets its first version in one transaction; for a    *)
(* known one the endpoint first looks at the document and at its versions, and *)
(* stores the file.                                                            *)

UploadChecked(d, c) ==
  /\ authorized
  /\ IF Stored(d) = {} THEN \A e \in Contents : <<d, e>> \notin uploading
                       ELSE document[d].enabled /\ ~Known(d, c)
  /\ Cardinality(Stored(d)) < MaxVersions
  /\ uploading' = uploading \cup {<<d, c>>}
  /\ UNCHANGED <<document, version, chunk, authorized>>

(* create_document_version: the next number, unless the content is known by    *)
(* now. Of two inserts at once a unique constraint refuses one.                *)
UploadStored(d, c) ==
  /\ <<d, c>> \in uploading
  /\ authorized
  /\ ~Known(d, c)
  /\ \E n \in Numbers :
       /\ Stored(d) = 1..(n - 1)
       /\ version' = [version EXCEPT ![<<d, n>>] = [@ EXCEPT !.status = "accepted", !.content = c]]
  /\ uploading' = uploading \ {<<d, c>>}
  /\ UNCHANGED <<document, chunk, authorized>>

(* The content is known, the actor is refused or the write fails: the file is  *)
(* removed again.                                                              *)
UploadRefused(d, c) ==
  /\ <<d, c>> \in uploading
  /\ uploading' = uploading \ {<<d, c>>}
  /\ UNCHANGED <<document, version, chunk, authorized>>

(* disable_knowledge_document                                                  *)
Disable(d) ==
  /\ Stored(d) # {}
  /\ document' = [document EXCEPT ![d] = [enabled |-> FALSE, current |-> 0]]
  /\ version' = [v \in Versions |->
                   IF v[1] = d /\ Status(v) \in {"accepted", "processing", "active"}
                   THEN Unheld(version[v], "disabled") ELSE version[v]]
  /\ UNCHANGED <<chunk, uploading, authorized>>

(* The uploader is deactivated, demoted or moved to another department.        *)
Demote ==
  /\ authorized
  /\ authorized' = FALSE
  /\ UNCHANGED <<document, version, chunk, uploading>>

--------------------------------------------------------------------------------
(* The lease.                                                                  *)

Expired(v) == Status(v) = "processing" /\ version[v].lapsed

(* Mutant: attempts are not limited.                                           *)
AlwaysClaimable(v) == Status(v) = "accepted" \/ Expired(v)

Claimable(v) == /\ Status(v) = "accepted" \/ Expired(v)
                /\ version[v].attempts < MaxAttempts

Exhausted == {v \in Versions : Expired(v) /\ version[v].attempts >= MaxAttempts}

Swept == [v \in Versions |-> IF v \in Exhausted THEN Unheld(version[v], "failed") ELSE version[v]]

Held(row, w) == [row EXCEPT !.status = "processing", !.owner = w, !.lapsed = FALSE,
                            !.attempts = @ + 1]

(* claim_next_knowledge_version: rows that others have locked are skipped.     *)
Claim(w, v) ==
  /\ Claimable(v)
  /\ version' = [Swept EXCEPT ![v] = Held(@, w)]
  /\ UNCHANGED <<document, chunk, uploading, authorized>>

ClaimNothing ==
  /\ Exhausted # {}
  /\ version' = Swept
  /\ UNCHANGED <<document, chunk, uploading, authorized>>

LeaseLapses(v) ==
  /\ Status(v) = "processing"
  /\ ~version[v].lapsed
  /\ version' = [version EXCEPT ![v].lapsed = TRUE]
  /\ UNCHANGED <<document, chunk, uploading, authorized>>

(* _owned_lease                                                                *)
Owns(w, v) == Status(v) = "processing" /\ version[v].owner = w /\ ~version[v].lapsed

(* renew_knowledge_lease, whose only lasting effect is that it finds the lease *)
(* live and the uploader authorized.                                           *)
Renewable(w, v) == Owns(w, v) /\ authorized

Ends(v, status) == /\ version' = [version EXCEPT ![v] = Unheld(@, status)]
                   /\ UNCHANGED <<document, chunk, uploading, authorized>>

(* _authorized_version: KNOWLEDGE_AUTHORIZATION_CHANGED                        *)
AuthorizationChanged(w, v) ==
  /\ Owns(w, v)
  /\ ~authorized
  /\ Ends(v, "failed")

(* return_version_for_retry                                                    *)
ReturnForRetry(w, v) ==
  /\ Owns(w, v)
  /\ Ends(v, IF version[v].attempts < MaxAttempts THEN "accepted" ELSE "failed")

(* Mutant: the lease is not looked at.                                         *)
FailUnfenced(w, v) == Ends(v, "failed")

(* fail_knowledge_version                                                      *)
Fail(w, v) == Owns(w, v) /\ Ends(v, "failed")

(* The primary key of knowledge_chunks is the id of the chunk: another version *)
(* may have it.                                                                *)
ChunkFree(v) == chunk[Content(v)] \in {NoVersion, v}

(* upsert_knowledge_chunks                                                     *)
UpsertChunks(w, v) ==
  /\ Renewable(w, v)
  /\ ChunkFree(v)
  /\ chunk' = [chunk EXCEPT ![Content(v)] = v]
  /\ UNCHANGED <<document, version, uploading, authorized>>

(* activate_knowledge_version with the document as the session of the worker   *)
(* has it. The SELECT ... FOR UPDATE locks the row, but the session            *)
(* (expire_on_commit=False in database.py) already holds the document it read  *)
(* when it claimed the version, and does not refresh it.                       *)
Activate(w, v, seen) ==
  LET old == <<v[1], seen.current>> IN
  /\ seen.enabled
  /\ Renewable(w, v)
  /\ seen.current < v[2]
  /\ version' = [u \in Versions |->
                   CASE u = v -> Unheld(version[v], "active")
                     [] u = old /\ Status(u) = "active" -> Unheld(version[u], "disabled")
                     [] OTHER -> version[u]]
  /\ document' = [document EXCEPT ![v[1]].current = v[2]]
  /\ UNCHANGED <<chunk, uploading, authorized>>

(* KNOWLEDGE_VERSION_SUPERSEDED                                                *)
Supersede(w, v, seen) ==
  /\ seen.enabled
  /\ Renewable(w, v)
  /\ seen.current > v[2]
  /\ Ends(v, "disabled")

KnowledgeInit ==
  /\ document = [d \in Documents |-> [enabled |-> TRUE, current |-> 0]]
  /\ version = [v \in Versions |-> [status |-> "absent", content |-> NoContent, attempts |-> 0,
                                    owner |-> NoWorker, lapsed |-> FALSE]]
  /\ chunk = [c \in Contents |-> NoVersion]
  /\ uploading = {}
  /\ authorized = TRUE

================================================================================
