-------------------------- MODULE KnowledgeWorkerProofs --------------------------
(* Machine-checked proofs about KnowledgeWorker, for any documents, contents   *)
(* and workers, any number of versions and any attempt limit.                  *)
EXTENDS KnowledgeWorker, TLAPS

(* A version has an owner exactly while it is processed, and a content once it *)
(* is stored.                                                                  *)
Sound(row) == /\ row \in Row
              /\ row.owner # NoWorker <=> row.status = "processing"
              /\ row.status # "absent" => row.content \in Contents

RowsOK == /\ version \in [Versions -> Row]
          /\ \A v \in Versions : Sound(version[v])

(* What may become of a row in one step.                                       *)
Comes(old, new) ==
  /\ Sound(new)
  /\ old.status # "absent" => new.status # "absent" /\ new.content = old.content
  /\ old.status \in {"failed", "disabled"} => new = old
  /\ old.status = "active" => new.status \in {"active", "disabled"}

VersionStep == /\ version' \in [Versions -> Row]
               /\ \A v \in Versions : Comes(version[v], version'[v])

NoneActivated == \A v \in Versions : Status(v)' = "active" => Status(v) = "active"

--------------------------------------------------------------------------------
(* Rows.                                                                       *)

LEMMA VersionIsSomething == \A v \in Versions : v # NoVersion
BY DEF Versions, NoVersion

LEMMA SameComes == ASSUME NEW row, Sound(row) PROVE Comes(row, row)
BY DEF Comes

LEMMA UnheldComes ==
  ASSUME NEW row, Sound(row), row.status \in {"accepted", "processing"},
         NEW status \in {"accepted", "active", "failed", "disabled"}
  PROVE  Comes(row, Unheld(row, status)) /\ Unheld(row, status).status = status
BY DEF Comes, Sound, Unheld, Row, Statuses

LEMMA DisabledComes ==
  ASSUME NEW row, Sound(row), row.status = "active"
  PROVE  Comes(row, Unheld(row, "disabled")) /\ Unheld(row, "disabled").status = "disabled"
BY DEF Comes, Sound, Unheld, Row, Statuses

LEMMA HeldComes ==
  ASSUME NEW row, Sound(row), row.status \in {"accepted", "processing"}, NEW w \in Workers,
         row.attempts < MaxAttempts
  PROVE  Comes(row, Held(row, w)) /\ Held(row, w).status = "processing"
<1> DEFINE n == row.attempts + 1
<1>1. n \in 0..MaxAttempts
  BY KnowledgeAssumption DEF Sound, Row
<1>2. Held(row, w) = [row EXCEPT !.status = "processing", !.owner = w, !.lapsed = FALSE,
                                 !.attempts = n]
  BY DEF Held
<1> HIDE DEF n
<1>3. /\ Held(row, w) \in Row /\ Held(row, w).status = "processing" /\ Held(row, w).owner = w
      /\ Held(row, w).content = row.content
  BY <1>1, <1>2 DEF Sound, Row, Statuses
<1>4. QED
  BY <1>3, KnowledgeAssumption DEF Comes, Sound

(* One row changes.                                                            *)
LEMMA OneRow ==
  ASSUME RowsOK, NEW v \in Versions, NEW row, Comes(version[v], row),
         version' = [version EXCEPT ![v] = row]
  PROVE  /\ VersionStep
         /\ (row.status # "active" \/ Status(v) = "active") => NoneActivated
<1>1. version'[v] = row /\ \A u \in Versions \ {v} : version'[u] = version[u]
  BY DEF RowsOK
<1>2. row \in Row
  BY DEF Comes, Sound
<1>3. QED
  BY <1>1, <1>2, SameComes DEF RowsOK, VersionStep, NoneActivated, Status

LEMMA SweptRows ==
  ASSUME RowsOK
  PROVE  /\ Swept \in [Versions -> Row]
         /\ \A v \in Versions : /\ Comes(version[v], Swept[v])
                                /\ Swept[v].status = "active" => Status(v) = "active"
         /\ \A v \in Versions \ Exhausted : Swept[v] = version[v]
<1>1. \A v \in Versions : v \in Exhausted =>
        Comes(version[v], Unheld(version[v], "failed")) /\ Unheld(version[v], "failed").status = "failed"
  BY UnheldComes DEF RowsOK, Exhausted, Expired, Status
<1>2. \A v \in Versions : v \notin Exhausted => Comes(version[v], version[v])
  BY SameComes DEF RowsOK
<1>3. \A v \in Versions : Swept[v] = IF v \in Exhausted THEN Unheld(version[v], "failed") ELSE version[v]
  BY DEF Swept
<1>4. \A v \in Versions : Swept[v] \in Row
  BY <1>1, <1>2, <1>3 DEF Comes, Sound
<1>5. Swept \in [Versions -> Row]
  BY <1>3, <1>4 DEF Swept
<1>6. QED
  BY <1>1, <1>2, <1>3, <1>5 DEF Status

--------------------------------------------------------------------------------
(* What each transaction does to the rows.                                     *)

LEMMA UploadRows ==
  ASSUME RowsOK, NEW d \in Documents, NEW c \in Contents, UploadStored(d, c)
  PROVE  VersionStep /\ NoneActivated
<1>1. PICK n \in Numbers : /\ Stored(d) = 1..(n - 1)
                           /\ version' = [version EXCEPT ![<<d, n>>] =
                                            [@ EXCEPT !.status = "accepted", !.content = c]]
  BY DEF UploadStored
<1> DEFINE v == <<d, n>>
<1> DEFINE row == [version[v] EXCEPT !.status = "accepted", !.content = c]
<1>2. v \in Versions /\ n \notin Stored(d)
  BY <1>1 DEF Versions, Numbers
<1>3. Status(v) = "absent"
  BY <1>2 DEF Stored
<1>4. Comes(version[v], row) /\ row.status = "accepted"
  <2>1. Sound(version[v])
    BY <1>2 DEF RowsOK
  <2>2. QED
    BY <1>3, <2>1 DEF Comes, Sound, Row, Statuses, Status
<1>5. version' = [version EXCEPT ![v] = row]
  BY <1>1
<1> HIDE DEF v, row
<1>6. QED
  BY <1>2, <1>4, <1>5, OneRow

LEMMA DisableRows ==
  ASSUME RowsOK, NEW d \in Documents, Disable(d)
  PROVE  VersionStep /\ NoneActivated
<1> DEFINE gone == {v \in Versions : v[1] = d /\ Status(v) \in {"accepted", "processing", "active"}}
<1>1. version' = [v \in Versions |-> IF v \in gone THEN Unheld(version[v], "disabled") ELSE version[v]]
  BY DEF Disable
<1>2. \A v \in Versions : v \in gone => /\ Comes(version[v], Unheld(version[v], "disabled"))
                                        /\ Unheld(version[v], "disabled").status = "disabled"
  BY UnheldComes, DisabledComes DEF RowsOK, Status
<1> HIDE DEF gone
<1>3. \A v \in Versions : Comes(version[v], version'[v]) /\ (v \notin gone => version'[v] = version[v])
                          /\ (v \in gone => version'[v].status = "disabled")
  BY <1>1, <1>2, SameComes DEF RowsOK
<1>4. \A v \in Versions : version'[v] \in Row
  BY <1>3 DEF Comes, Sound
<1>5. QED
  BY <1>1, <1>3, <1>4 DEF VersionStep, NoneActivated, Status

LEMMA ClaimRows ==
  ASSUME RowsOK, NEW w \in Workers, NEW v \in Versions, Claim(w, v)
  PROVE  VersionStep /\ NoneActivated
<1> DEFINE row == Held(version[v], w)
<1>1. v \notin Exhausted /\ Status(v) \in {"accepted", "processing"} /\ version[v].attempts < MaxAttempts
  BY KnowledgeAssumption DEF Claim, Claimable, Expired, Exhausted, RowsOK, Sound, Row
<1>2. Comes(version[v], row) /\ row.status = "processing"
  BY <1>1, HeldComes DEF RowsOK, Status
<1>3. version' = [Swept EXCEPT ![v] = row]
  BY <1>1, SweptRows DEF Claim
<1> HIDE DEF row
<1>4. version'[v] = row /\ \A u \in Versions \ {v} : version'[u] = Swept[u]
  BY <1>3, SweptRows
<1>5. version' \in [Versions -> Row]
  BY <1>2, <1>3, SweptRows DEF Comes, Sound
<1>6. QED
  BY <1>2, <1>4, <1>5, SweptRows DEF VersionStep, NoneActivated, Status

LEMMA ClaimNothingRows == ASSUME RowsOK, ClaimNothing PROVE VersionStep /\ NoneActivated
BY SweptRows DEF ClaimNothing, VersionStep, NoneActivated, Status

LEMMA LapseRows ==
  ASSUME RowsOK, NEW v \in Versions, LeaseLapses(v)
  PROVE  VersionStep /\ NoneActivated
<1> DEFINE row == [version[v] EXCEPT !.lapsed = TRUE]
<1>1. Comes(version[v], row) /\ row.status = "processing"
  BY DEF RowsOK, LeaseLapses, Comes, Sound, Row, Status
<1>2. version' = [version EXCEPT ![v] = row]
  BY DEF LeaseLapses
<1> HIDE DEF row
<1>3. QED
  BY <1>1, <1>2, OneRow

LEMMA EndsRows ==
  ASSUME RowsOK, NEW w \in Workers, NEW v \in Versions, Owns(w, v),
         NEW status \in {"accepted", "failed", "disabled"}, Ends(v, status)
  PROVE  VersionStep /\ NoneActivated
<1> DEFINE row == Unheld(version[v], status)
<1>1. Comes(version[v], row) /\ row.status = status
  BY UnheldComes DEF RowsOK, Owns, Status
<1>2. version' = [version EXCEPT ![v] = row]
  BY DEF Ends
<1> HIDE DEF row
<1>3. QED
  BY <1>1, <1>2, OneRow

(* Nothing but the version that is activated becomes active.                   *)
LEMMA ActivateRows ==
  ASSUME RowsOK, NEW w \in Workers, NEW v \in Versions, NEW seen, Activate(w, v, seen)
  PROVE  VersionStep /\ \A u \in Versions \ {v} : Status(u)' = "active" => Status(u) = "active"
<1> DEFINE old == <<v[1], seen.current>>
<1>1. Status(v) = "processing"
  BY DEF Activate, Renewable, Owns
<1>2. /\ version' = [u \in Versions |-> CASE u = v -> Unheld(version[v], "active")
                       [] u = old /\ Status(u) = "active" -> Unheld(version[u], "disabled")
                       [] OTHER -> version[u]]
  BY DEF Activate
<1> HIDE DEF old
<1>3. /\ version'[v] = Unheld(version[v], "active")
      /\ \A u \in Versions \ {v} :
           version'[u] = IF u = old /\ Status(u) = "active" THEN Unheld(version[u], "disabled")
                                                            ELSE version[u]
  <2>1. version'[v] = Unheld(version[v], "active")
    BY <1>1, <1>2
  <2>2. ASSUME NEW u \in Versions \ {v}
        PROVE  version'[u] = IF u = old /\ Status(u) = "active" THEN Unheld(version[u], "disabled")
                                                                ELSE version[u]
    <3>1. CASE u = old /\ Status(u) = "active"
      BY <1>2, <3>1
    <3>2. CASE ~(u = old /\ Status(u) = "active")
      BY <1>2, <3>2
    <3>3. QED
      BY <3>1, <3>2
  <2>3. QED
    BY <2>1, <2>2
<1>4. Comes(version[v], version'[v])
  BY <1>1, <1>3, UnheldComes DEF RowsOK, Status
<1>5. \A u \in Versions \ {v} : /\ Comes(version[u], version'[u])
                                /\ version'[u].status = "active" => Status(u) = "active"
  BY <1>3, DisabledComes, SameComes DEF RowsOK, Status
<1>6. \A u \in Versions : Comes(version[u], version'[u])
  BY <1>4, <1>5
<1>7. \A u \in Versions : version'[u] \in Row
  BY <1>6 DEF Comes, Sound
<1>8. QED
  BY <1>2, <1>5, <1>6, <1>7 DEF VersionStep, Status

--------------------------------------------------------------------------------
(* Types.                                                                      *)

TablesOK ==
  /\ document \in [Documents -> [enabled : BOOLEAN, current : 0..MaxVersions]]
  /\ chunk \in [Contents -> Versions \cup {NoVersion}]
  /\ uploading \subseteq Documents \X Contents
  /\ authorized \in BOOLEAN
  /\ index \in [Contents -> Versions \cup {NoVersion}]

ProcessesOK ==
  /\ worker \in [Workers -> Process]
  /\ \A w \in Workers : worker[w].job # NoVersion <=> Working(w)

SearchOK ==
  search \in [pc : {"idle", "searching", "reading"}, versions : SUBSET Versions,
              hits : SUBSET Contents]

(* Only stored versions are worked on.                                         *)
JobsStored == \A w \in Workers : Working(w) => Status(worker[w].job) # "absent"

(* A document has no content twice.                                            *)
ApartWithin ==
  \A d \in Documents : \A n, m \in Stored(d) : Content(<<d, n>>) = Content(<<d, m>>) => n = m

(* No two versions, be they of one document or of two, have the same content.  *)
ContentsApart ==
  \A u, v \in Versions :
    Status(u) # "absent" /\ Status(v) # "absent" /\ Content(u) = Content(v) => u = v

LEMMA TypeParts == KnowledgeTypeOK /\ RowsOK <=> RowsOK /\ TablesOK /\ ProcessesOK /\ SearchOK
BY DEF KnowledgeTypeOK, RowsOK, TablesOK, ProcessesOK, SearchOK, Sound, Status

LEMMA NumberIsCurrent == \A v \in Versions : v[2] \in 0..MaxVersions /\ v[1] \in Documents
BY KnowledgeAssumption DEF Versions, Numbers

LEMMA InitTypes == Init => RowsOK /\ TablesOK /\ ProcessesOK /\ SearchOK /\ JobsStored
<1> SUFFICES ASSUME Init PROVE RowsOK /\ TablesOK /\ ProcessesOK /\ SearchOK /\ JobsStored
  OBVIOUS
<1> DEFINE row == [status |-> "absent", content |-> NoContent, attempts |-> 0,
                   owner |-> NoWorker, lapsed |-> FALSE]
<1>1. Sound(row)
  BY KnowledgeAssumption DEF Sound, Row, Statuses
<1>2. version = [v \in Versions |-> row]
  BY DEF Init, KnowledgeInit
<1> HIDE DEF row
<1>3. RowsOK
  BY <1>1, <1>2 DEF RowsOK, Sound
<1>4. Idle \in Process /\ Idle.pc = "idle" /\ Idle.job = NoVersion
  BY KnowledgeAssumption DEF Idle, NoDocument, Process
<1>5. ProcessesOK /\ JobsStored
  BY <1>4 DEF Init, ProcessesOK, JobsStored, Working
<1>6. TablesOK
  BY KnowledgeAssumption DEF Init, KnowledgeInit, TablesOK
<1>7. SearchOK
  BY DEF Init, SearchOK, NoSearch
<1>8. QED
  BY <1>3, <1>5, <1>6, <1>7

(* One worker changes.                                                         *)
LEMMA OneProcess ==
  ASSUME ProcessesOK, NEW w \in Workers, NEW s \in Process,
         worker' = [worker EXCEPT ![w] = s], s.job # NoVersion <=> s.pc \notin {"idle", "down"}
  PROVE  /\ ProcessesOK'
         /\ worker'[w] = s /\ \A u \in Workers \ {w} : worker'[u] = worker[u]
<1>1. worker'[w] = s /\ \A u \in Workers \ {w} : worker'[u] = worker[u]
  BY DEF ProcessesOK
<1>2. \A u \in Workers : worker'[u].job # NoVersion <=> Working(u)'
  BY <1>1 DEF ProcessesOK, Working
<1>3. QED
  BY <1>1, <1>2 DEF ProcessesOK

Busy == {"claimed", "parsed", "indexing", "indexed", "stored", "retrying", "failing"}

LEMMA GoKeeps ==
  ASSUME ProcessesOK, NEW w \in Workers, Working(w), NEW pc \in Busy, Go(w, pc)
  PROVE  /\ ProcessesOK' /\ worker'[w].pc = pc /\ worker'[w].job = worker[w].job
         /\ \A u \in Workers \ {w} : worker'[u] = worker[u]
<1> DEFINE s == [worker[w] EXCEPT !.pc = pc]
<1>1. s \in Process /\ s.pc = pc /\ s.job = worker[w].job
  BY DEF ProcessesOK, Process, Busy
<1>2. worker' = [worker EXCEPT ![w] = s] /\ s.job # NoVersion
  BY <1>1 DEF Go, ProcessesOK
<1> HIDE DEF s
<1>3. QED
  BY <1>1, <1>2, OneProcess DEF Busy

LEMMA StopKeeps ==
  ASSUME ProcessesOK, NEW w \in Workers,
         Leave(w) \/ worker' = [worker EXCEPT ![w] = [Idle EXCEPT !.pc = "down"]]
  PROVE  /\ ProcessesOK' /\ worker'[w].pc \in {"idle", "down"}
         /\ \A u \in Workers \ {w} : worker'[u] = worker[u]
<1>1. \A pc \in {"idle", "down"} :
        LET s == [Idle EXCEPT !.pc = pc] IN s \in Process /\ s.pc = pc /\ s.job = NoVersion
  <2>1. Idle \in Process /\ Idle.job = NoVersion
    BY KnowledgeAssumption DEF Idle, NoDocument, Process
  <2>2. QED
    BY <2>1 DEF Process
<1>2. Idle = [Idle EXCEPT !.pc = "idle"]
  BY DEF Idle
<1>3. PICK pc \in {"idle", "down"} : worker' = [worker EXCEPT ![w] = [Idle EXCEPT !.pc = pc]]
  BY <1>2 DEF Leave
<1> DEFINE s == [Idle EXCEPT !.pc = pc]
<1>4. s \in Process /\ s.pc = pc /\ s.job = NoVersion
  BY <1>1
<1>5. worker' = [worker EXCEPT ![w] = s]
  BY <1>3
<1> HIDE DEF s
<1>6. QED
  BY <1>4, <1>5, OneProcess

--------------------------------------------------------------------------------
(* The actions.                                                                *)

TypeInv == RowsOK /\ TablesOK /\ ProcessesOK /\ SearchOK /\ JobsStored

(* The transactions on versions that leave everything else alone.              *)
LeaseWork(w, v) == AuthorizationChanged(w, v) \/ ReturnForRetry(w, v) \/ Fail(w, v)

LEMMA LeaseWorkRows ==
  ASSUME RowsOK, NEW w \in Workers, NEW v \in Versions,
         LeaseWork(w, v) \/ \E seen : Supersede(w, v, seen)
  PROVE  VersionStep /\ NoneActivated /\ UNCHANGED <<document, chunk, uploading, authorized>>
<1>1. PICK status \in {"accepted", "failed", "disabled"} : Owns(w, v) /\ Ends(v, status)
  BY DEF LeaseWork, AuthorizationChanged, ReturnForRetry, Fail, Supersede, Renewable
<1>2. QED
  BY <1>1, EndsRows DEF Ends

LEMMA SameRows == ASSUME RowsOK, version' = version PROVE VersionStep /\ NoneActivated
BY SameComes DEF RowsOK, VersionStep, NoneActivated, Status

(* What a step of the program does to versions and processes: at most one      *)
(* process moves, the others rest.                                             *)
OthersRest(w) == \A u \in Workers \ {w} : worker'[u] = worker[u]

Rests == index' = index /\ worker' = worker

LEMMA RequestSteps ==
  ASSUME TypeInv,
         \/ \E d \in Documents, c \in Contents :
              UploadChecked(d, c) \/ UploadStored(d, c) \/ UploadRefused(d, c)
         \/ \E d \in Documents : Disable(d)
         \/ Demote
         \/ \E v \in Versions : LeaseLapses(v)
  PROVE  VersionStep /\ NoneActivated /\ chunk' = chunk
<1> RowsOK
  BY DEF TypeInv
<1>1. QED
  BY SameRows, UploadRows, DisableRows, LapseRows
     DEF UploadChecked, UploadStored, UploadRefused, Disable, Demote, LeaseLapses

LEMMA RequestTables ==
  ASSUME TypeInv, index' = index,
         \/ \E d \in Documents, c \in Contents :
              UploadChecked(d, c) \/ UploadStored(d, c) \/ UploadRefused(d, c)
         \/ \E d \in Documents : Disable(d)
         \/ Demote
         \/ \E v \in Versions : LeaseLapses(v)
  PROVE  TablesOK'
<1>1. ASSUME NEW d \in Documents, NEW c \in Contents,
             UploadChecked(d, c) \/ UploadStored(d, c) \/ UploadRefused(d, c)
      PROVE  TablesOK'
  <2>1. uploading' \subseteq uploading \cup {<<d, c>>} /\ UNCHANGED <<document, chunk, authorized>>
    BY <1>1 DEF UploadChecked, UploadStored, UploadRefused
  <2>2. QED
    BY <2>1 DEF TypeInv, TablesOK
<1>2. ASSUME NEW d \in Documents, Disable(d) PROVE TablesOK'
  <2>1. [enabled |-> FALSE, current |-> 0] \in [enabled : BOOLEAN, current : 0..MaxVersions]
    BY KnowledgeAssumption
  <2>2. QED
    BY <1>2, <2>1 DEF Disable, TypeInv, TablesOK
<1>3. ASSUME Demote \/ \E v \in Versions : LeaseLapses(v) PROVE TablesOK'
  BY <1>3 DEF Demote, LeaseLapses, TypeInv, TablesOK
<1>4. QED
  BY <1>1, <1>2, <1>3

(* Everything a worker does.                                                   *)
WorkerStep(w) == RunOnce(w) \/ Progress(w) \/ Break(w) \/ Crash(w) \/ Restart(w)

(* A process that stops, goes on, or takes a version.                          *)
Stops(w) == worker'[w].pc \in {"idle", "down"}

GoesOn(w, pc) == Working(w) /\ worker'[w].pc = pc /\ worker'[w].job = worker[w].job

(* Nothing is written but rows of versions, and the process is about to do     *)
(* nothing that rests on what it wrote.                                        *)
Plain(w) ==
  /\ VersionStep /\ NoneActivated
  /\ UNCHANGED <<document, chunk, uploading, authorized, index>>
  /\ \/ Stops(w)
     \/ \E pc \in Busy \ {"indexed", "stored"} : GoesOn(w, pc)
     \/ worker'[w].pc = "claimed" /\ version'[worker'[w].job].status # "absent"
     \/ worker' = worker

Indexes(w, v) ==
  /\ At(w, "indexing", v)
  /\ index' = [index EXCEPT ![Content(v)] = v]
  /\ \E pc \in {"indexed", "retrying"} : GoesOn(w, pc)
  /\ UNCHANGED knowledgeVars

Stores(w, v) ==
  /\ At(w, "indexed", v)
  /\ chunk' = [chunk EXCEPT ![Content(v)] = v]
  /\ GoesOn(w, "stored")
  /\ UNCHANGED <<document, version, uploading, authorized, index>>

Activates(w, v) ==
  /\ At(w, "stored", v)
  /\ VersionStep /\ \A u \in Versions \ {v} : Status(u)' = "active" => Status(u) = "active"
  /\ document' = [document EXCEPT ![v[1]].current = v[2]]
  /\ Stops(w)
  /\ UNCHANGED <<chunk, uploading, authorized, index>>

Moves(w, v) == Plain(w) \/ Indexes(w, v) \/ Stores(w, v) \/ Activates(w, v)

LEMMA TakeMoves ==
  ASSUME TypeInv, NEW w \in Workers, NEW v \in Versions, Take(w, v)
  PROVE  Plain(w) /\ ProcessesOK' /\ OthersRest(w) /\ search' = search
<1> DEFINE s == [pc |-> "claimed", job |-> v, seen |-> document[v[1]]]
<1>1. s \in Process /\ s.pc = "claimed" /\ s.job = v /\ v # NoVersion
  BY NumberIsCurrent, VersionIsSomething DEF TypeInv, TablesOK, Process
<1>2. worker' = [worker EXCEPT ![w] = s] /\ search' = search /\ index' = index
  BY DEF Take
<1> HIDE DEF s
<1>3. ProcessesOK' /\ worker'[w] = s /\ OthersRest(w)
  BY <1>1, <1>2, OneProcess DEF TypeInv, OthersRest
<1>4. VersionStep /\ NoneActivated /\ UNCHANGED <<document, chunk, uploading, authorized>>
  BY ClaimRows DEF Take, Claim, TypeInv
<1>5. Status(v)' # "absent"
  BY <1>4 DEF Take, Claim, Claimable, Expired, VersionStep, Comes, Status
<1>6. version'[worker'[w].job].status # "absent"
  BY <1>1, <1>3, <1>5 DEF Status
<1>7. QED
  BY <1>1, <1>2, <1>3, <1>4, <1>6 DEF Plain

LEMMA StopMoves ==
  ASSUME TypeInv, NEW w \in Workers, UNCHANGED <<index, search>>, Leave(w),
         VersionStep, NoneActivated, UNCHANGED <<document, chunk, uploading, authorized>>
  PROVE  Plain(w) /\ ProcessesOK' /\ OthersRest(w) /\ search' = search
BY StopKeeps DEF TypeInv, Plain, Stops, OthersRest

(* Nothing is stored, and the process goes on.                                 *)
LEMMA GoMoves ==
  ASSUME TypeInv, NEW w \in Workers, Working(w), NEW pc \in Busy \ {"indexed", "stored"}, Go(w, pc),
         Unstored, UNCHANGED <<index, search>>
  PROVE  Plain(w) /\ ProcessesOK' /\ OthersRest(w) /\ search' = search
<1>1. GoesOn(w, pc) /\ ProcessesOK' /\ OthersRest(w)
  BY GoKeeps DEF TypeInv, GoesOn, OthersRest
<1>2. VersionStep /\ NoneActivated
  BY SameRows DEF TypeInv, Unstored, knowledgeVars
<1>3. QED
  BY <1>1, <1>2 DEF Plain, Unstored, knowledgeVars

LEMMA LeaveMoves ==
  ASSUME TypeInv, NEW w \in Workers, NEW v \in Versions,
         \/ FindDisabled(w, v) \/ LoseLease(w, v) \/ LoseAuthority(w, v)
         \/ Retry(w, v) \/ GiveUp(w, v)
         \/ Finish(w, v) /\ ~Activate(w, v, Remembered(w))
  PROVE  Plain(w) /\ ProcessesOK' /\ OthersRest(w) /\ search' = search
<1>1. Leave(w) /\ UNCHANGED <<index, search>>
  BY DEF FindDisabled, LoseLease, LoseAuthority, Retry, GiveUp, Finish
<1>2. Unstored \/ LeaseWork(w, v) \/ Supersede(w, v, Remembered(w))
  BY DEF FindDisabled, LoseLease, LoseAuthority, Retry, GiveUp, Finish, LeaseWork
<1>3. VersionStep /\ NoneActivated /\ UNCHANGED <<document, chunk, uploading, authorized>>
  BY <1>2, SameRows, LeaseWorkRows DEF TypeInv, Unstored, knowledgeVars
<1>4. QED
  BY <1>1, <1>3, StopMoves

LEMMA WritingMoves ==
  ASSUME TypeInv, NEW w \in Workers, NEW v \in Versions,
         UpsertIndex(w, v) \/ StoreChunks(w, v) \/ Finish(w, v) \/ DependencyFails(w, v)
  PROVE  Moves(w, v) /\ ProcessesOK' /\ OthersRest(w) /\ search' = search
<1> USE DEF Moves
<1>1. CASE UpsertIndex(w, v)
  <2>1. Go(w, "indexed") /\ Working(w) /\ "indexed" \in Busy
    BY <1>1 DEF UpsertIndex, At, Working, Busy
  <2>2. GoesOn(w, "indexed") /\ ProcessesOK' /\ OthersRest(w)
    BY <2>1, GoKeeps DEF TypeInv, GoesOn, OthersRest
  <2>3. QED
    BY <1>1, <2>2 DEF UpsertIndex, Indexes, Unstored
<1>2. CASE StoreChunks(w, v)
  <2>1. Go(w, "stored") /\ Working(w) /\ "stored" \in Busy
    BY <1>2 DEF StoreChunks, At, Working, Busy
  <2>2. GoesOn(w, "stored") /\ ProcessesOK' /\ OthersRest(w)
    BY <2>1, GoKeeps DEF TypeInv, GoesOn, OthersRest
  <2>3. QED
    BY <1>2, <2>2 DEF StoreChunks, UpsertChunks, Stores
<1>3. CASE Finish(w, v) /\ Activate(w, v, Remembered(w))
  <2>1. Stops(w) /\ ProcessesOK' /\ OthersRest(w)
    BY <1>3, StopKeeps DEF Finish, TypeInv, Stops, OthersRest
  <2>2. VersionStep /\ \A u \in Versions \ {v} : Status(u)' = "active" => Status(u) = "active"
    BY <1>3, ActivateRows DEF TypeInv
  <2>3. QED
    BY <1>3, <2>1, <2>2 DEF Finish, Activate, Activates
<1>4. CASE Finish(w, v) /\ ~Activate(w, v, Remembered(w))
  BY <1>4, LeaveMoves
<1>5. CASE DependencyFails(w, v)
  <2>1. Go(w, "retrying") /\ Working(w) /\ "retrying" \in Busy \ {"indexed", "stored"}
    BY <1>5 DEF DependencyFails, At, Working, Busy
  <2>2. CASE index' = index
    BY <1>5, <2>1, <2>2, GoMoves DEF DependencyFails
  <2>3. CASE index' # index
    <3>1. At(w, "indexing", v) /\ index' = [index EXCEPT ![Content(v)] = v]
      BY <1>5, <2>3 DEF DependencyFails
    <3>2. GoesOn(w, "retrying") /\ ProcessesOK' /\ OthersRest(w)
      BY <2>1, GoKeeps DEF TypeInv, GoesOn, OthersRest
    <3>3. QED
      BY <1>5, <3>1, <3>2 DEF DependencyFails, Indexes, Unstored
  <2>4. QED
    BY <2>2, <2>3
<1>6. QED
  BY <1>1, <1>2, <1>3, <1>4, <1>5

LEMMA WorkerMoves ==
  ASSUME TypeInv, NEW w \in Workers, WorkerStep(w)
  PROVE  /\ Plain(w) \/ \E v \in Versions : Moves(w, v)
         /\ ProcessesOK' /\ OthersRest(w) /\ search' = search
<1>1. CASE TakeNothing(w)
  BY <1>1, ClaimNothingRows
     DEF TakeNothing, ClaimNothing, TypeInv, Plain, workerVars, OthersRest, ProcessesOK, Working
<1>2. ASSUME NEW v \in Versions, Parse(w, v) \/ Embed(w, v) PROVE Plain(w) /\ ProcessesOK' /\ OthersRest(w) /\ search' = search
  BY <1>2, GoMoves DEF Parse, Embed, At, Working, Busy
<1>3. CASE Break(w)
  BY <1>3, GoMoves DEF Break, Busy
<1>4. CASE Crash(w)
  <2>1. ProcessesOK' /\ Stops(w) /\ OthersRest(w)
    BY <1>4, StopKeeps DEF Crash, TypeInv, Stops, OthersRest
  <2>2. QED
    BY <1>4, <2>1, SameRows DEF Crash, TypeInv, Unstored, knowledgeVars, Plain
<1>5. CASE Restart(w)
  BY <1>5, StopMoves, SameRows DEF Restart, TypeInv, Unstored, knowledgeVars
<1>6. CASE Progress(w)
  <2>1. PICK v \in Versions :
          \/ Parse(w, v) \/ Embed(w, v) \/ UpsertIndex(w, v) \/ StoreChunks(w, v)
          \/ Finish(w, v) \/ FindDisabled(w, v) \/ LoseLease(w, v) \/ LoseAuthority(w, v)
          \/ DependencyFails(w, v) \/ Retry(w, v) \/ GiveUp(w, v)
    BY <1>6 DEF Progress
  <2>2. QED
    BY <1>2, <2>1, LeaveMoves, WritingMoves
<1>7. QED
  BY <1>1, <1>3, <1>4, <1>5, <1>6, TakeMoves DEF WorkerStep, RunOnce

--------------------------------------------------------------------------------
(* The invariants.                                                             *)

(* What is finished was written to the index, and then to the database.        *)
Written ==
  /\ \A w \in Workers : LET v == worker[w].job IN
       /\ worker[w].pc \in {"indexed", "stored"} => index[Content(v)] = v
       /\ worker[w].pc = "stored" => chunk[Content(v)] = v
  /\ \A v \in Versions : Status(v) = "active" => index[Content(v)] = v /\ chunk[Content(v)] = v

(* What a search looks for was in service, and is found as long as it is.      *)
Sought ==
  search.pc # "idle" =>
    \A v \in search.versions :
      /\ Status(v) \in {"active", "disabled"}
      /\ search.pc = "reading" /\ Status(v) = "active" => Content(v) \in search.hits

KnowledgeInv == TypeInv /\ ApartWithin /\ (ContentsApart => Written /\ Sought)

SearchStep == SearchStarts \/ SearchIndex \/ SearchReads \/ SearchFails

LEMMA MovesVersions ==
  ASSUME TypeInv, NEW w \in Workers, NEW v \in Versions, Moves(w, v)
  PROVE  VersionStep /\ TablesOK'
<1>1. VersionStep
  BY SameRows DEF Moves, Plain, Indexes, Stores, Activates, TypeInv, knowledgeVars
<1>2. CASE Plain(w)
  BY <1>1, <1>2 DEF Plain, TypeInv, TablesOK
<1>3. CASE Indexes(w, v)
  BY <1>1, <1>3 DEF Indexes, TypeInv, TablesOK, knowledgeVars
<1>4. CASE Stores(w, v)
  BY <1>1, <1>4 DEF Stores, TypeInv, TablesOK
<1>5. CASE Activates(w, v)
  <2>1. v[2] \in 0..MaxVersions
    BY NumberIsCurrent
  <2>2. document' \in [Documents -> [enabled : BOOLEAN, current : 0..MaxVersions]]
    <3>1. document[v[1]] \in [enabled : BOOLEAN, current : 0..MaxVersions]
      BY NumberIsCurrent DEF TypeInv, TablesOK
    <3>2. [document[v[1]] EXCEPT !.current = v[2]] \in [enabled : BOOLEAN, current : 0..MaxVersions]
      BY <2>1, <3>1
    <3>3. QED
      BY <1>5, <3>2 DEF Activates, TypeInv, TablesOK
  <2>3. QED
    BY <1>1, <1>5, <2>2 DEF Activates, TypeInv, TablesOK
<1>6. QED
  BY <1>1, <1>2, <1>3, <1>4, <1>5 DEF Moves

(* Jobs stay stored.                                                           *)
LEMMA MovesJobs ==
  ASSUME TypeInv, NEW w \in Workers, NEW v \in Versions, Moves(w, v), OthersRest(w), ProcessesOK'
  PROVE  JobsStored'
<1>1. \A u \in Workers : Working(u) => worker[u].job \in Versions /\ Status(worker[u].job) # "absent"
  BY DEF TypeInv, ProcessesOK, JobsStored, Process
<1>2. \A u \in Versions : Status(u) # "absent" => Status(u)' # "absent"
  BY MovesVersions DEF VersionStep, Comes, Status
<1>3. \A u \in Workers : Working(u) => version'[worker[u].job].status # "absent"
  BY <1>1, <1>2 DEF Status
<1>4. \A u \in Workers : Working(u)' => version'[worker'[u].job].status # "absent"
  BY <1>3 DEF Moves, Plain, Indexes, Stores, Activates, Stops, GoesOn, OthersRest, Working
<1>5. QED
  BY <1>4 DEF JobsStored, Status

LEMMA RequestTypes ==
  ASSUME TypeInv, UNCHANGED <<workerVars, search>>,
         \/ \E d \in Documents, c \in Contents :
              UploadChecked(d, c) \/ UploadStored(d, c) \/ UploadRefused(d, c)
         \/ \E d \in Documents : Disable(d)
         \/ Demote
         \/ \E v \in Versions : LeaseLapses(v)
  PROVE  TypeInv'
<1>1. VersionStep /\ TablesOK'
  BY RequestSteps, RequestTables DEF workerVars
<1>2. ProcessesOK' /\ SearchOK'
  BY DEF TypeInv, ProcessesOK, SearchOK, workerVars, Working
<1>3. RowsOK'
  BY <1>1 DEF VersionStep, Comes, RowsOK
<1>4. \A u \in Workers : Working(u) => worker[u].job \in Versions /\ Status(worker[u].job) # "absent"
  BY DEF TypeInv, ProcessesOK, JobsStored, Process
<1>5. \A u \in Versions : Status(u) # "absent" => Status(u)' # "absent"
  BY <1>1 DEF VersionStep, Comes, Status
<1>6. \A u \in Workers : Working(u) => version'[worker[u].job].status # "absent"
  BY <1>4, <1>5 DEF Status
<1>7. JobsStored'
  BY <1>6 DEF JobsStored, Status, Working, workerVars
<1>8. QED
  BY <1>1, <1>2, <1>3, <1>7 DEF TypeInv

LEMMA WorkerTypes ==
  ASSUME TypeInv, NEW w \in Workers, NEW v \in Versions, Moves(w, v),
         ProcessesOK', OthersRest(w), search' = search
  PROVE  TypeInv'
<1>1. VersionStep /\ TablesOK' /\ JobsStored'
  BY MovesVersions, MovesJobs
<1>2. RowsOK' /\ SearchOK'
  BY <1>1 DEF VersionStep, Comes, RowsOK, TypeInv, SearchOK
<1>3. QED
  BY <1>1, <1>2 DEF TypeInv

LEMMA SearchTypes == ASSUME TypeInv, SearchStep PROVE TypeInv'
<1>1. UNCHANGED <<knowledgeVars, workerVars>>
  BY DEF SearchStep, SearchStarts, SearchIndex, SearchReads, SearchFails, Unstored
<1> DEFINE hits == {c \in Contents : index[c] \in search.versions}
<1>2. Serving \in SUBSET Versions /\ hits \in SUBSET Contents
  BY DEF Serving
<1>3. SearchOK'
  <2>1. CASE SearchStarts
    BY <1>2, <2>1 DEF SearchStarts, SearchOK, NoSearch
  <2>2. CASE SearchIndex
    <3>1. search' = [search EXCEPT !.pc = "reading", !.hits = hits]
      BY <2>2 DEF SearchIndex
    <3> HIDE DEF hits
    <3>2. QED
      BY <1>2, <3>1 DEF TypeInv, SearchOK
  <2>3. CASE SearchReads \/ SearchFails
    BY <2>3 DEF SearchReads, SearchFails, SearchOK, NoSearch
  <2>4. QED
    BY <2>1, <2>2, <2>3 DEF SearchStep
<1>4. QED
  BY <1>1, <1>3
     DEF TypeInv, RowsOK, TablesOK, ProcessesOK, JobsStored, Working, Status, knowledgeVars, workerVars

--------------------------------------------------------------------------------
(* Contents.                                                                   *)

LEMMA ApartBefore ==
  ASSUME TypeInv, VersionStep, ContentsApart'
  PROVE  ContentsApart
<1>1. \A v \in Versions : Status(v) # "absent" => Status(v)' # "absent" /\ Content(v)' = Content(v)
  BY DEF VersionStep, Comes, Status, Content
<1>2. QED
  BY <1>1 DEF ContentsApart

(* One transaction stores a version, and its document has not known it.        *)
LEMMA UploadApart ==
  ASSUME TypeInv, ApartWithin, NEW d \in Documents, NEW c \in Contents, UploadStored(d, c)
  PROVE  ApartWithin'
<1>1. PICK n \in Numbers : /\ Stored(d) = 1..(n - 1)
                           /\ version' = [version EXCEPT ![<<d, n>>] =
                                            [@ EXCEPT !.status = "accepted", !.content = c]]
  BY DEF UploadStored
<1> DEFINE row == [version[<<d, n>>] EXCEPT !.status = "accepted", !.content = c]
<1>2. <<d, n>> \in Versions
  BY DEF Versions
<1>3. row.content = c
  BY <1>2 DEF TypeInv, RowsOK, Row
<1>4. version' = [version EXCEPT ![<<d, n>>] = row]
  BY <1>1
<1> HIDE DEF row
<1>5. Content(<<d, n>>)' = c
  BY <1>2, <1>3, <1>4 DEF TypeInv, RowsOK, Content
<1>6. \A e \in Documents, m \in Numbers : <<e, m>> # <<d, n>> => version'[<<e, m>>] = version[<<e, m>>]
  BY <1>4 DEF TypeInv, RowsOK, Versions
<1>7. \A e \in Documents : Stored(e)' \subseteq Numbers /\ Stored(e) \subseteq Numbers
  BY DEF Stored
<1>8. \A m \in Stored(d) : Content(<<d, m>>) # c
  BY DEF UploadStored, Known
<1>9. \A e \in Documents, m \in Numbers :
        <<e, m>> # <<d, n>> /\ m \in Stored(e)' =>
           m \in Stored(e) /\ Content(<<e, m>>)' = Content(<<e, m>>)
  BY <1>6 DEF Stored, Status, Content
<1>10. QED
  BY <1>5, <1>7, <1>8, <1>9 DEF ApartWithin

LEMMA KeptApart ==
  ASSUME TypeInv, ApartWithin, VersionStep, \A v \in Versions : Status(v)' # "absent" => Status(v) # "absent"
  PROVE  ApartWithin'
<1>1. \A e \in Documents, m \in Numbers : <<e, m>> \in Versions
  BY DEF Versions
<1>2. \A e \in Documents, m \in Numbers :
        m \in Stored(e)' => m \in Stored(e) /\ Content(<<e, m>>)' = Content(<<e, m>>)
  BY <1>1 DEF Stored, VersionStep, Comes, Status, Content
<1>3. \A e \in Documents : Stored(e)' \subseteq Numbers
  BY DEF Stored
<1>4. QED
  BY <1>2, <1>3 DEF ApartWithin

(* No version appears but by an upload.                                        *)
LEMMA NoneAppears ==
  ASSUME TypeInv,
         \/ \E d \in Documents, c \in Contents : UploadChecked(d, c) \/ UploadRefused(d, c)
         \/ \E d \in Documents : Disable(d)
         \/ Demote
         \/ \E v \in Versions : LeaseLapses(v)
  PROVE  \A v \in Versions : Status(v)' # "absent" => Status(v) # "absent"
<1>1. ASSUME NEW d \in Documents, Disable(d), NEW v \in Versions
      PROVE  Status(v)' # "absent" => Status(v) # "absent"
  BY <1>1 DEF Disable, Status
<1>2. ASSUME NEW u \in Versions, LeaseLapses(u), NEW v \in Versions
      PROVE  Status(v)' # "absent" => Status(v) # "absent"
  BY <1>2 DEF LeaseLapses, Status, TypeInv, RowsOK
<1>3. QED
  BY <1>1, <1>2 DEF UploadChecked, UploadRefused, Demote, Status

LEMMA RequestApart ==
  ASSUME TypeInv, ApartWithin,
         \/ \E d \in Documents, c \in Contents :
              UploadChecked(d, c) \/ UploadStored(d, c) \/ UploadRefused(d, c)
         \/ \E d \in Documents : Disable(d)
         \/ Demote
         \/ \E v \in Versions : LeaseLapses(v)
  PROVE  ApartWithin'
BY RequestSteps, NoneAppears, KeptApart, UploadApart

LEMMA WorkerNoneAppears ==
  ASSUME TypeInv, NEW w \in Workers, WorkerStep(w)
  PROVE  \A v \in Versions : Status(v)' # "absent" => Status(v) # "absent"
<1> RowsOK
  BY DEF TypeInv
<1>1. \A u \in Versions : u \in Exhausted => Status(u) = "processing"
  BY DEF Exhausted, Expired
<1>2. \A u \in Versions : Swept[u].status # "absent" => Status(u) # "absent"
  BY <1>1, SweptRows DEF Status
<1>3. ASSUME NEW u \in Versions, Claim(w, u), NEW v \in Versions
      PROVE  Status(v)' # "absent" => Status(v) # "absent"
  <2>1. Status(u) # "absent"
    BY <1>3 DEF Claim, Claimable, Expired
  <2>2. v # u => version'[v] = Swept[v]
    BY <1>3, SweptRows DEF Claim
  <2>3. QED
    BY <1>2, <2>1, <2>2 DEF Status
<1>4. ASSUME ClaimNothing, NEW v \in Versions PROVE Status(v)' # "absent" => Status(v) # "absent"
  BY <1>2, <1>4 DEF ClaimNothing, Status
<1>5. ASSUME NEW u \in Versions, NEW status, Owns(w, u), Ends(u, status), NEW v \in Versions
      PROVE  Status(v)' # "absent" => Status(v) # "absent"
  BY <1>5 DEF Owns, Ends, Status, RowsOK
<1>6. ASSUME NEW u \in Versions, NEW seen, Activate(w, u, seen), NEW v \in Versions
      PROVE  Status(v)' # "absent" => Status(v) # "absent"
  <2>1. Status(u) # "absent"
    BY <1>6 DEF Activate, Renewable, Owns
  <2>2. v # u => version'[v] = version[v] \/ Status(v) = "active"
    BY <1>6 DEF Activate
  <2>3. QED
    BY <2>1, <2>2 DEF Status
<1>7. ASSUME version' = version, NEW v \in Versions PROVE Status(v)' # "absent" => Status(v) # "absent"
  BY <1>7 DEF Status
<1>8. ASSUME NEW u \in Versions, LeaseWork(w, u) \/ Finish(w, u), NEW v \in Versions
      PROVE  Status(v)' # "absent" => Status(v) # "absent"
  BY <1>5, <1>6, <1>8 DEF LeaseWork, AuthorizationChanged, ReturnForRetry, Fail, Finish, Supersede, Renewable
<1>9. \/ version' = version \/ ClaimNothing
      \/ \E u \in Versions : Claim(w, u) \/ LeaseWork(w, u) \/ Finish(w, u)
  BY DEF WorkerStep, RunOnce, TakeNothing, Take, Progress, Break, Crash, Restart, Unstored, Parse, Embed,
         UpsertIndex, StoreChunks, UpsertChunks, FindDisabled, LoseLease, LoseAuthority, DependencyFails,
         Retry, GiveUp, LeaseWork, knowledgeVars
<1>10. QED
  BY <1>3, <1>4, <1>7, <1>8, <1>9

--------------------------------------------------------------------------------
(* What is in service was written.                                             *)

(* The index and the tables keep what is written of all stored versions but    *)
(* that which is written now.                                                  *)
LEMMA ContentKept ==
  ASSUME TypeInv, VersionStep, NEW v \in Versions, Status(v) # "absent"
  PROVE  Content(v)' = Content(v) /\ Content(v) \in Contents /\ Status(v)' # "absent"
BY DEF VersionStep, Comes, Status, Content, TypeInv, RowsOK, Sound

LEMMA JobIsStored ==
  ASSUME TypeInv, NEW w \in Workers, Working(w)
  PROVE  worker[w].job \in Versions /\ Status(worker[w].job) # "absent"
BY DEF TypeInv, ProcessesOK, JobsStored, Process

(* Written for one process, and for one version.                               *)
WrittenBy(w) ==
  LET v == worker[w].job IN
  /\ worker[w].pc \in {"indexed", "stored"} => index[Content(v)] = v
  /\ worker[w].pc = "stored" => chunk[Content(v)] = v

WrittenOf(v) == Status(v) = "active" => index[Content(v)] = v /\ chunk[Content(v)] = v

LEMMA WrittenParts ==
  Written <=> (\A w \in Workers : WrittenBy(w)) /\ (\A v \in Versions : WrittenOf(v))
BY DEF Written, WrittenBy, WrittenOf

(* What was written stays, for every stored version.                           *)
Unspoiled ==
  \A v \in Versions : Status(v) # "absent" =>
    /\ index[Content(v)] = v => index'[Content(v)] = v
    /\ chunk[Content(v)] = v => chunk'[Content(v)] = v

LEMMA RestingWritten ==
  ASSUME TypeInv, VersionStep, Unspoiled, NEW u \in Workers, WrittenBy(u), worker'[u] = worker[u]
  PROVE  WrittenBy(u)'
<1>1. CASE ~Working(u)
  BY <1>1 DEF WrittenBy, Working
<1>2. CASE Working(u)
  <2> DEFINE v == worker[u].job
  <2>1. v \in Versions /\ Status(v) # "absent"
    BY <1>2, JobIsStored
  <2>2. version'[v].content = version[v].content
    BY <2>1, ContentKept DEF Content
  <2>3. QED
    BY <2>1, <2>2 DEF WrittenBy, Unspoiled, Content
<1>3. QED
  BY <1>1, <1>2

LEMMA ServingWritten ==
  ASSUME TypeInv, VersionStep, Unspoiled, NEW v \in Versions, WrittenOf(v),
         Status(v)' = "active" => Status(v) = "active"
  PROVE  WrittenOf(v)'
<1>1. CASE Status(v) = "active"
  <2>1. Content(v)' = Content(v)
    BY <1>1, ContentKept
  <2>2. QED
    BY <1>1, <2>1 DEF WrittenOf, Unspoiled
<1>2. CASE Status(v) # "active"
  BY <1>2 DEF WrittenOf
<1>3. QED
  BY <1>1, <1>2

(* A write to the index or to the database is about one content, and only one  *)
(* version has that content.                                                   *)
LEMMA WritesUnspoiled ==
  ASSUME TypeInv, ContentsApart, NEW v \in Versions, Status(v) # "absent",
         index' \in {index, [index EXCEPT ![Content(v)] = v]},
         chunk' \in {chunk, [chunk EXCEPT ![Content(v)] = v]}
  PROVE  Unspoiled
<1>1. ASSUME NEW u \in Versions, Status(u) # "absent"
      PROVE  /\ index[Content(u)] = u => index'[Content(u)] = u
             /\ chunk[Content(u)] = u => chunk'[Content(u)] = u
  <2>1. (Content(u) = Content(v) => u = v) /\ Content(u) \in Contents
    BY <1>1 DEF ContentsApart, TypeInv, RowsOK, Sound, Status, Content
  <2>2. QED
    BY <2>1 DEF TypeInv, TablesOK
<1>2. QED
  BY <1>1 DEF Unspoiled

LEMMA IndexesWrites ==
  ASSUME TypeInv, ContentsApart, NEW w \in Workers, NEW v \in Versions, WrittenBy(w),
         Indexes(w, v) \/ Stores(w, v)
  PROVE  Unspoiled /\ NoneActivated /\ WrittenBy(w)'
<1>1. worker[w].job = v /\ Working(w) /\ version' = version
  BY DEF Indexes, Stores, At, Working, knowledgeVars
<1>2. Status(v) # "absent" /\ Content(v) \in Contents
  BY <1>1, JobIsStored DEF TypeInv, RowsOK, Sound, Status, Content
<1>3. Unspoiled
  BY <1>2, WritesUnspoiled DEF Indexes, Stores, knowledgeVars
<1>4. NoneActivated
  BY <1>1 DEF NoneActivated, Status
<1>5. version'[v].content = version[v].content /\ version[v].content \in Contents
  BY <1>1, <1>2 DEF Content
<1>6. CASE Indexes(w, v)
  <2>1. index'[version[v].content] = v
    BY <1>2, <1>6 DEF Indexes, Content, TypeInv, TablesOK
  <2>2. worker'[w].job = v /\ worker'[w].pc \in {"indexed", "retrying"}
    BY <1>1, <1>6 DEF Indexes, GoesOn
  <2>3. QED
    BY <1>3, <1>4, <1>5, <2>1, <2>2 DEF WrittenBy, Content
<1>7. CASE Stores(w, v)
  <2>1. chunk'[version[v].content] = v
    BY <1>2, <1>7 DEF Stores, Content, TypeInv, TablesOK
  <2>2. index'[version[v].content] = v
    BY <1>1, <1>7 DEF Stores, WrittenBy, Content, At
  <2>3. worker'[w].job = v /\ worker'[w].pc = "stored"
    BY <1>1, <1>7 DEF Stores, GoesOn
  <2>4. QED
    BY <1>3, <1>4, <1>5, <2>1, <2>2, <2>3 DEF WrittenBy, Content
<1>8. QED
  BY <1>3, <1>4, <1>6, <1>7

LEMMA WorkerWritten ==
  ASSUME TypeInv, ContentsApart, Written, NEW w \in Workers, NEW v \in Versions, Moves(w, v),
         OthersRest(w)
  PROVE  Written'
<1>1. VersionStep /\ WrittenBy(w)
  BY MovesVersions, WrittenParts
<1>2. Unspoiled
  BY IndexesWrites, <1>1 DEF Moves, Plain, Activates, Unspoiled
<1>3. \A u \in Workers \ {w} : WrittenBy(u)'
  BY <1>1, <1>2, RestingWritten, WrittenParts DEF OthersRest
<1>4. WrittenBy(w)'
  <2>1. CASE Plain(w)
    <3>1. CASE worker' = worker
      BY <1>1, <1>2, <3>1, RestingWritten
    <3>2. CASE worker'[w].pc \notin {"indexed", "stored"}
      BY <3>2 DEF WrittenBy
    <3>3. QED
      BY <2>1, <3>1, <3>2 DEF Plain, Stops, GoesOn
  <2>2. CASE Activates(w, v)
    BY <2>2 DEF Activates, Stops, WrittenBy
  <2>3. QED
    BY <1>1, <2>1, <2>2, IndexesWrites DEF Moves
<1>5. ASSUME NEW u \in Versions PROVE WrittenOf(u)'
  <2>1. WrittenOf(u)
    BY WrittenParts
  <2>2. CASE Status(u)' = "active" => Status(u) = "active"
    BY <1>1, <1>2, <2>1, <2>2, ServingWritten
  <2>3. CASE Activates(w, v) /\ u = v
    <3>1. worker[w].job = v /\ worker[w].pc = "stored" /\ Working(w)
      BY <2>3 DEF Activates, At, Working
    <3>2. index[Content(v)] = v /\ chunk[Content(v)] = v /\ Content(v)' = Content(v)
      BY <1>1, <3>1, JobIsStored, ContentKept DEF WrittenBy
    <3>3. QED
      BY <2>3, <3>2 DEF Activates, WrittenOf
  <2>4. QED
    BY <1>1, <2>2, <2>3, IndexesWrites DEF Moves, Plain, Activates, NoneActivated
<1>6. QED
  BY <1>3, <1>4, <1>5 DEF Written, WrittenBy, WrittenOf

LEMMA RestWritten ==
  ASSUME TypeInv, Written, VersionStep, NoneActivated, UNCHANGED <<chunk, index, worker>>
  PROVE  Written'
<1>1. Unspoiled
  BY DEF Unspoiled
<1>2. (\A u \in Workers : WrittenBy(u)') /\ (\A v \in Versions : WrittenOf(v)')
  BY <1>1, RestingWritten, ServingWritten, WrittenParts DEF NoneActivated
<1>3. QED
  BY <1>2 DEF Written, WrittenBy, WrittenOf

--------------------------------------------------------------------------------
(* Searches.                                                                   *)

LEMMA RestSought ==
  ASSUME TypeInv, Sought, VersionStep, search' = search
  PROVE  Sought'
<1>1. CASE search.pc = "idle"
  BY <1>1 DEF Sought
<1>2. ASSUME search.pc # "idle", NEW v \in search.versions
      PROVE  /\ Status(v)' \in {"active", "disabled"}
             /\ search.pc = "reading" /\ Status(v)' = "active" => Content(v)' \in search.hits
  <2>1. v \in Versions /\ Status(v) \in {"active", "disabled"}
    BY <1>2 DEF TypeInv, SearchOK, Sought
  <2>2. Status(v)' \in {"active", "disabled"} /\ (Status(v)' = "active" => Status(v) = "active")
    BY <2>1 DEF VersionStep, Comes, Status
  <2>3. Content(v)' = Content(v)
    BY <2>1, ContentKept
  <2>4. QED
    BY <1>2, <2>2, <2>3 DEF Sought
<1>3. QED
  BY <1>1, <1>2 DEF Sought

LEMMA SearchSought == ASSUME TypeInv, Written, Sought, SearchStep PROVE Sought' /\ Written'
<1>1. UNCHANGED <<knowledgeVars, index, worker>>
  BY DEF SearchStep, SearchStarts, SearchIndex, SearchReads, SearchFails, Unstored, workerVars
<1>2. Written'
  BY <1>1 DEF Written, Content, Status, knowledgeVars
<1>3. CASE SearchStarts
  <2>1. search'.pc = "searching" /\ search'.versions = Serving
    BY <1>3 DEF SearchStarts, NoSearch
  <2>2. QED
    BY <1>1, <1>2, <2>1 DEF Sought, Serving, Status, knowledgeVars
<1>4. CASE SearchIndex
  <2> DEFINE hits == {c \in Contents : index[c] \in search.versions}
  <2>1. search' = [search EXCEPT !.pc = "reading", !.hits = hits]
    BY <1>4 DEF SearchIndex
  <2> HIDE DEF hits
  <2>2. search'.versions = search.versions /\ search'.hits = hits /\ search.pc # "idle"
    BY <1>4, <2>1 DEF TypeInv, SearchOK, SearchIndex
  <2>3. ASSUME NEW v \in search.versions
        PROVE  /\ Status(v) \in {"active", "disabled"}
               /\ Status(v) = "active" => Content(v) \in hits
    <3>1. v \in Versions /\ Status(v) \in {"active", "disabled"}
      BY <2>2, <2>3 DEF TypeInv, SearchOK, Sought
    <3>2. Content(v) \in Contents
      BY <3>1 DEF TypeInv, RowsOK, Sound, Status, Content
    <3>3. Status(v) = "active" => index[Content(v)] = v
      BY <3>1 DEF Written
    <3>4. QED
      BY <2>3, <3>1, <3>2, <3>3 DEF hits
  <2>4. QED
    BY <1>1, <1>2, <2>2, <2>3 DEF Sought, Status, Content, knowledgeVars
<1>5. CASE SearchReads \/ SearchFails
  BY <1>2, <1>5 DEF SearchReads, SearchFails, NoSearch, Sought
<1>6. QED
  BY <1>2, <1>3, <1>4, <1>5 DEF SearchStep

--------------------------------------------------------------------------------
(* The invariant.                                                              *)

(* What requests and the clock do to versions.                                 *)
RequestStep ==
  \/ \E d \in Documents, c \in Contents :
       UploadChecked(d, c) \/ UploadStored(d, c) \/ UploadRefused(d, c)
  \/ \E d \in Documents : Disable(d)
  \/ Demote
  \/ \E v \in Versions : LeaseLapses(v)

LEMMA StepsOfTheProgram ==
  [Next]_vars => \/ RequestStep /\ UNCHANGED <<workerVars, search>>
                 \/ \E w \in Workers : WorkerStep(w)
                 \/ SearchStep
                 \/ UNCHANGED vars
BY DEF Next, RequestStep, WorkerStep, SearchStep

LEMMA InitKnowledgeInv == Init => KnowledgeInv
<1> SUFFICES ASSUME Init PROVE KnowledgeInv
  OBVIOUS
<1>1. TypeInv
  BY InitTypes DEF TypeInv
<1>2. \A v \in Versions : Status(v) = "absent"
  BY DEF Init, KnowledgeInit, Status
<1>3. ApartWithin
  BY <1>2 DEF ApartWithin, Stored, Versions
<1>4. \A w \in Workers : worker[w].pc = "idle"
  BY DEF Init, Idle
<1>5. Written /\ Sought
  BY <1>2, <1>4 DEF Written, Sought, Init, NoSearch
<1>6. QED
  BY <1>1, <1>3, <1>5 DEF KnowledgeInv

LEMMA RequestKnowledgeInv ==
  ASSUME KnowledgeInv, RequestStep, UNCHANGED <<workerVars, search>>
  PROVE  KnowledgeInv' /\ VersionStep
<1>1. TypeInv' /\ ApartWithin'
  BY RequestTypes, RequestApart DEF KnowledgeInv, RequestStep
<1>2. VersionStep /\ NoneActivated /\ UNCHANGED <<chunk, index, worker, search>>
  BY RequestSteps DEF KnowledgeInv, RequestStep, workerVars
<1>3. ContentsApart' => Written' /\ Sought'
  BY <1>2, ApartBefore, RestWritten, RestSought DEF KnowledgeInv
<1>4. QED
  BY <1>1, <1>2, <1>3 DEF KnowledgeInv

(* Without documents nothing is ever worked on.                                *)
LEMMA NoVersions ==
  ASSUME Versions = {}, TypeInv, RowsOK', TablesOK', ProcessesOK', SearchOK'
  PROVE  KnowledgeInv'
<1>1. \A w \in Workers : worker'[w].pc \in {"idle", "down"}
  BY DEF ProcessesOK, Process, Working
<1>2. JobsStored'
  BY <1>1 DEF JobsStored, Working
<1>3. Written' /\ Sought'
  BY <1>1 DEF Written, Sought, SearchOK
<1>4. ApartWithin'
  BY DEF ApartWithin, Stored, Versions
<1>5. QED
  BY <1>2, <1>3, <1>4 DEF KnowledgeInv, TypeInv

LEMMA WorkerKnowledgeInv ==
  ASSUME KnowledgeInv, NEW w \in Workers, WorkerStep(w)
  PROVE  KnowledgeInv' /\ VersionStep
<1> TypeInv
  BY DEF KnowledgeInv
<1>1. /\ Plain(w) \/ \E v \in Versions : Moves(w, v)
      /\ ProcessesOK' /\ OthersRest(w) /\ search' = search
  BY WorkerMoves
<1>2. CASE Versions = {}
  <2>1. VersionStep /\ TablesOK'
    BY <1>1, <1>2 DEF Plain, TypeInv, TablesOK
  <2>2. RowsOK' /\ SearchOK'
    BY <1>1, <2>1 DEF VersionStep, Comes, RowsOK, TypeInv, SearchOK
  <2>3. QED
    BY <1>1, <1>2, <2>1, <2>2, NoVersions
<1>3. CASE Versions # {}
  <2>1. PICK v \in Versions : Moves(w, v)
    BY <1>1, <1>3 DEF Moves
  <2>2. VersionStep /\ TypeInv'
    BY <1>1, <2>1, MovesVersions, WorkerTypes
  <2>3. ApartWithin'
    BY <2>2, KeptApart, WorkerNoneAppears DEF KnowledgeInv
  <2>4. ContentsApart' => Written' /\ Sought'
    BY <1>1, <2>1, <2>2, ApartBefore, WorkerWritten, RestSought DEF KnowledgeInv
  <2>5. QED
    BY <2>2, <2>3, <2>4 DEF KnowledgeInv
<1>4. QED
  BY <1>2, <1>3

LEMMA SearchKnowledgeInv ==
  ASSUME KnowledgeInv, SearchStep
  PROVE  KnowledgeInv' /\ VersionStep
<1>1. UNCHANGED knowledgeVars
  BY DEF SearchStep, SearchStarts, SearchIndex, SearchReads, SearchFails, Unstored
<1>2. TypeInv' /\ VersionStep
  BY <1>1, SearchTypes, SameRows DEF KnowledgeInv, TypeInv, knowledgeVars
<1>3. ApartWithin' /\ (ContentsApart' => ContentsApart)
  BY <1>1 DEF KnowledgeInv, ApartWithin, ContentsApart, Stored, Status, Content, knowledgeVars
<1>4. ContentsApart' => Written' /\ Sought'
  BY <1>3, SearchSought DEF KnowledgeInv
<1>5. QED
  BY <1>2, <1>3, <1>4 DEF KnowledgeInv

LEMMA NextKnowledgeInv ==
  ASSUME KnowledgeInv, [Next]_vars
  PROVE  KnowledgeInv' /\ VersionStep
<1>1. CASE UNCHANGED vars
  <2>1. UNCHANGED <<document, version, chunk, uploading, authorized, index, worker, search>>
    BY <1>1 DEF vars, knowledgeVars
  <2>2. VersionStep
    BY <2>1, SameRows DEF KnowledgeInv, TypeInv
  <2>3. QED
    BY <2>1, <2>2
       DEF KnowledgeInv, TypeInv, RowsOK, TablesOK, ProcessesOK, SearchOK, JobsStored, Working, ApartWithin,
           ContentsApart, Written, Sought, Stored, Status, Content
<1>2. QED
  BY <1>1, StepsOfTheProgram, RequestKnowledgeInv, WorkerKnowledgeInv, SearchKnowledgeInv

--------------------------------------------------------------------------------
(* Theorems.                                                                   *)

(* What is true of the program at every moment: the types, that no document    *)
(* has a content twice, that processes work on stored versions only and, as    *)
(* long as no two versions share a content, that what is in service and what a *)
(* worker goes on from was written (knowledge_runs.py, knowledge_worker.py).   *)
THEOREM KnowledgeInvariance == Spec => []KnowledgeInv
<1>1. KnowledgeInv /\ [Next]_vars => KnowledgeInv'
  BY NextKnowledgeInv
<1>2. QED
  BY InitKnowledgeInv, <1>1, PTL DEF Spec

(* The tables have their types, and a version has an owner exactly while it is *)
(* processed, as the constraint ck_knowledge_document_versions_lease_state     *)
(* demands of the rows that knowledge_runs.py writes.                          *)
THEOREM KnowledgeTypeCorrect == Spec => []KnowledgeTypeOK
<1>1. KnowledgeInv => KnowledgeTypeOK
  BY TypeParts DEF KnowledgeInv, TypeInv
<1>2. QED
  BY KnowledgeInvariance, <1>1, PTL

(* No uploads, retries, late workers or lapsed leases bring back a version     *)
(* that failed or was disabled, or take an active one out of service otherwise *)
(* than by disabling it (knowledge_runs.py, _owned_lease).                     *)
THEOREM EndedForGoodHolds == Spec => EndedForGood
<1>1. KnowledgeInv /\ [Next]_vars =>
        \A v \in Versions :
          /\ Status(v) \in {"failed", "disabled"} => version'[v] = version[v]
          /\ Status(v) = "active" => Status(v)' \in {"active", "disabled"}
  BY NextKnowledgeInv DEF VersionStep, Comes, Status
<1>2. QED
  BY KnowledgeInvariance, <1>1, PTL DEF Spec, EndedForGood

LEMMA FoundIfWritten == KnowledgeInv => (ContentsApart => ServedIsFound)
BY DEF KnowledgeInv, Written, ServedIsFound, Serving

LEMMA ExactIfWritten == KnowledgeInv => (ContentsApart => SearchIsExact)
<1> SUFFICES ASSUME KnowledgeInv, ContentsApart, search.pc = "reading",
                    NEW v \in search.versions \cap Serving
             PROVE  v \in {chunk[c] : c \in search.hits}
  BY DEF SearchIsExact, Cited
<1>1. v \in Versions /\ Status(v) = "active"
  BY DEF Serving
<1>2. Content(v) \in search.hits
  BY <1>1 DEF KnowledgeInv, Sought
<1>3. chunk[Content(v)] = v
  BY <1>1 DEF KnowledgeInv, Written
<1>4. QED
  BY <1>2, <1>3

(* What serves can be found, in every state in which no two documents have the *)
(* same content: late writes to the index, crashes and retries alone never     *)
(* spoil what is in service (knowledge_worker.py:108-165).                     *)
THEOREM ServedIsFoundUnlessShared == Spec => [](ContentsApart => ServedIsFound)
BY KnowledgeInvariance, FoundIfWritten, PTL

(* A search cites exactly what served when it began and still serves, in every *)
(* state in which no two documents have the same content                       *)
(* (knowledge_search.py:178-256).                                              *)
THEOREM SearchIsExactUnlessShared == Spec => [](ContentsApart => SearchIsExact)
BY KnowledgeInvariance, ExactIfWritten, PTL

(* One document is enough for that: create_document_version refuses a content  *)
(* the document has already.                                                   *)
LEMMA OneDocumentApart ==
  ASSUME \A d, e \in Documents : d = e
  PROVE  KnowledgeInv => ContentsApart
<1> SUFFICES ASSUME KnowledgeInv, NEW u \in Versions, NEW v \in Versions,
                    Status(u) # "absent", Status(v) # "absent", Content(u) = Content(v)
             PROVE  u = v
  BY DEF ContentsApart
<1>1. PICK d \in Documents, n \in Numbers, m \in Numbers : u = <<d, n>> /\ v = <<d, m>>
  BY DEF Versions
<1>2. n \in Stored(d) /\ m \in Stored(d)
  BY <1>1 DEF Stored
<1>3. QED
  BY <1>1, <1>2 DEF KnowledgeInv, ApartWithin

(* For one document, with as many versions and workers as one likes, what      *)
(* serves can always be found.                                                 *)
THEOREM ServedIsFoundHolds ==
  ASSUME \A d, e \in Documents : d = e
  PROVE  Spec => []ServedIsFound
<1>1. KnowledgeInv => ServedIsFound
  BY OneDocumentApart, FoundIfWritten
<1>2. QED
  BY KnowledgeInvariance, <1>1, PTL

(* For one document searches are always exact.                                 *)
THEOREM SearchIsExactHolds ==
  ASSUME \A d, e \in Documents : d = e
  PROVE  Spec => []SearchIsExact
<1>1. KnowledgeInv => SearchIsExact
  BY OneDocumentApart, ExactIfWritten
<1>2. QED
  BY KnowledgeInvariance, <1>1, PTL

================================================================================
