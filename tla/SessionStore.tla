--------------------------- MODULE SessionStore ---------------------------
(* The store of responses and SDK sessions (internal/sessionstore), with the   *)
(* turns that pin, save and resume as internal/copilotgw drives them, client   *)
(* deletes, retention, and crashes between any two writes.                     *)
(*                                                                             *)
(* Each element of Responses is a request and the response it stores. All but  *)
(* the file system's single operations and lock-free reads happen under s.mu;  *)
(* an operation that writes more than once holds op until its last write, so   *)
(* that a crash, a failure or a lock-free reader may come in between.          *)
EXTENDS FiniteSets, Naturals

CONSTANTS
    Responses,       \* response ids; a request mints its own
    Sessions,        \* SDK session ids
    None,            \* no session, no record, no operation
    Tombstone,       \* the record a deleted response leaves
    MaxFaults,       \* bound on crashes and on operations that fail half way
    IndexMayVanish   \* may the link index disappear under a running server?

\* The steps of an operation that writes more than once.
Steps == {"record", "moved", "unlink", "cleanup", "rmdir", "rmlinks", "pruned"}

ASSUME StoreAssumption ==
    /\ None \notin Sessions /\ Tombstone \notin Sessions /\ None # Tombstone
    /\ Responses \cap Sessions = {}
    /\ None \notin Responses
    /\ None \notin [step : Steps, r : Responses \cup Sessions \cup {None}, s : Sessions]
    /\ MaxFaults \in Nat
    /\ IndexMayVanish \in BOOLEAN

VARIABLES
    \* on disk
    record,          \* record[r]: the live record's session, Tombstone or None
    index,           \* does the link index exist?
    link,            \* the links <<session, response>> in it
    dirs,            \* session directories
    \* in memory
    up,              \* is the server running?
    op,              \* the operation that holds s.mu between two writes
    deletedIDs,
    orphanSessions,
    prune,           \* the retention pass: its step, snapshots and plan
    touched,         \* records rewritten since prune read their times
    \* the requests
    pc,              \* where each request is
    at,              \* the session it runs on
    holds,           \* the responses and sessions it has pinned
    \* history
    minted,          \* session ids that were ever used
    published,       \* responses that ever had a live record
    moved,           \* responses that were saved again under another session
    owed,            \* sessions whose last response a client has deleted
    crashes, failures

disk    == <<record, index, link, dirs>>
memory  == <<up, op, deletedIDs, orphanSessions, prune, touched>>
request == <<pc, at, holds>>
history == <<minted, published, moved, owed, crashes, failures>>
vars    == <<disk, memory, request, history>>

Stages == {"idle", "prev", "loaded", "sess", "failed", "fresh", "open", "own",
           "ending", "done"}

NoPrune == [step |-> "idle", files |-> {}, links |-> {}, dirs |-> {},
            known |-> FALSE, plan |-> {}]

Pinned(x)   == \E r \in Responses : x \in holds[r]
Live(r)     == record[r] \in Sessions
LinksOf(s)  == {r \in Responses : <<s, r>> \in link}

Lock(step, r, s) == op' = [step |-> step, r |-> r, s |-> s]
Unlock           == op' = None
Free             == up /\ op = None

\* ensureRetentionLinksLocked: an absent index is rebuilt from the records
\* and renamed into place; a present one is taken as complete.
IndexLinks == IF index THEN link
              ELSE {<<record[r], r>> : r \in {q \in Responses : Live(q)}}

Init ==
    \* the store may be that of an earlier version: records without an index
    /\ record \in [Responses -> Sessions \cup {None}]
    /\ pc = [r \in Responses |-> IF Live(r) THEN "done" ELSE "idle"]
    /\ published = {r \in Responses : Live(r)}
    /\ dirs = {record[r] : r \in published}
    /\ minted = dirs
    /\ index = FALSE /\ link = {}
    /\ up = FALSE /\ op = None /\ deletedIDs = {} /\ orphanSessions = {}
    /\ prune = NoPrune /\ touched = {}
    /\ at = [r \in Responses |-> None]
    /\ holds = [r \in Responses |-> {}]
    /\ moved = {} /\ owed = {} /\ crashes = 0 /\ failures = 0

-----------------------------------------------------------------------------
(* The process. *)

\* The lifecycle lock keeps the server and the prune command apart.
Ensure ==
    /\ ~up /\ prune = NoPrune
    /\ up' = TRUE
    /\ index' = TRUE
    /\ link' = IndexLinks
    /\ UNCHANGED <<record, dirs, op, deletedIDs, orphanSessions, prune, touched,
                   request, history>>

\* What was written stays; what was in memory, and every request, is lost.
Crash ==
    /\ crashes + failures < MaxFaults
    /\ up \/ prune # NoPrune
    /\ crashes' = crashes + 1
    /\ up' = FALSE /\ op' = None /\ deletedIDs' = {} /\ orphanSessions' = {}
    /\ prune' = NoPrune /\ touched' = {} /\ owed' = {}
    /\ pc' = [r \in Responses |-> IF pc[r] = "idle" THEN "idle" ELSE "done"]
    /\ at' = [r \in Responses |-> None]
    /\ holds' = [r \in Responses |-> {}]
    /\ UNCHANGED <<disk, minted, published, moved, failures>>

LoseIndex ==
    /\ index /\ op = None
    /\ up \/ prune # NoPrune => IndexMayVanish
    /\ index' = FALSE /\ link' = {}
    /\ UNCHANGED <<record, dirs, memory, request, history>>

\* A write fails: the operation returns its error where it is, and what it
\* has written stays.
OpFails ==
    /\ op # None
    /\ crashes + failures < MaxFaults
    /\ failures' = failures + 1
    /\ Unlock
    /\ owed' = {}
    /\ UNCHANGED <<disk, up, deletedIDs, orphanSessions, prune, touched, request,
                   minted, published, moved, crashes>>

-----------------------------------------------------------------------------
(* A request: pins, the session it runs on, its record. *)

Goto(r, stage) == pc' = [pc EXCEPT ![r] = stage]
On(r, s)       == at' = [at EXCEPT ![r] = s]
Pin(r, x)      == holds' = [holds EXCEPT ![r] = @ \cup {x}]

\* PinResponse(previous_response_id), whether or not it exists.
PinPrevious(r, p) ==
    /\ Free /\ pc[r] = "idle" /\ p # r
    /\ Pin(r, p)
    /\ Goto(r, "prev")
    /\ UNCHANGED <<disk, memory, at, history>>

\* LoadResponseForContinuation reads without the lock.
LoadPrevious(r) ==
    /\ up /\ pc[r] = "prev"
    /\ \E p \in holds[r] :
         IF Live(p) THEN On(r, record[p]) /\ Goto(r, "loaded")
                    ELSE UNCHANGED at /\ Goto(r, "ending")
    /\ UNCHANGED <<disk, memory, holds, history>>

PinSession(r) ==
    /\ Free /\ pc[r] = "loaded"
    /\ Pin(r, at[r])
    /\ Goto(r, "sess")
    /\ UNCHANGED <<disk, memory, at, history>>

\* EnsureSession makes the directory again if it is gone, also when the SDK
\* then refuses to resume.
EnsureSession(s) ==
    /\ dirs' = dirs \cup {s}
    /\ owed' = owed \ {s}
    /\ UNCHANGED <<record, index, link, minted, published, moved, crashes, failures>>

ResumeSession(r) ==
    /\ up /\ pc[r] = "sess"
    /\ EnsureSession(at[r])
    /\ Goto(r, "open") \/ Goto(r, "failed")
    /\ UNCHANGED <<memory, at, holds>>

\* A first turn, a resume that failed, or a synthetic continuation.
PinFresh(r, s) ==
    /\ Free /\ pc[r] \in {"idle", "sess", "failed"}
    /\ s \notin minted
    /\ minted' = minted \cup {s}
    /\ On(r, s)
    /\ Pin(r, s)
    /\ Goto(r, "fresh")
    /\ UNCHANGED <<disk, memory, published, moved, owed, crashes, failures>>

CreateSession(r) ==
    /\ up /\ pc[r] = "fresh"
    /\ EnsureSession(at[r])
    /\ \/ Goto(r, "open") /\ UNCHANGED at
       \/ Goto(r, "ending") /\ On(r, None)
    /\ UNCHANGED <<memory, holds>>

\* The runner pins the response it will store; the pins of the preparation
\* are released afterwards.
PinOwn(r) ==
    /\ Free /\ pc[r] = "open"
    /\ Pin(r, r)
    /\ Goto(r, "own")
    /\ UNCHANGED <<disk, memory, at, history>>

\* The turn is over, or the request is refused or fails before it runs.
EndTurn(r) ==
    /\ up /\ pc[r] \in {"loaded", "sess", "fresh", "open", "own"}
    /\ op # None => op.r # r
    /\ Goto(r, "ending")
    /\ On(r, None)
    /\ UNCHANGED <<disk, memory, holds, history>>

\* pinPath's release. The last release of a response forgets its delete mark,
\* and that of a session which lost its responses cleans it up.
Release(r, x) ==
    /\ Free /\ x \in holds[r]
    /\ pc[r] = "ending" \/ (pc[r] = "own" /\ x \notin {r, at[r]})
    /\ holds' = [holds EXCEPT ![r] = @ \ {x}]
    /\ Goto(r, IF holds'[r] = {} THEN "done" ELSE pc[r])
    /\ deletedIDs' = IF \E q \in Responses : x \in holds'[q]
                     THEN deletedIDs ELSE deletedIDs \ {x}
    /\ IF x \in orphanSessions THEN Lock("cleanup", None, x) ELSE Unlock
    /\ UNCHANGED <<disk, up, orphanSessions, prune, touched, at, history>>

-----------------------------------------------------------------------------
(* SaveResponse: the link, the record, then the link of a session it left. *)

\* Mutant: only a mark refuses a late save, not the tombstone on disk.
Refused_MarkOnly(r) == r \in deletedIDs

\* A response the client has deleted stays deleted.
Refused(r) == r \in deletedIDs \/ record[r] = Tombstone

WriteLink(r, s) ==
    /\ index' = TRUE                    \* MkdirAll makes the index, too
    /\ link' = link \cup {<<s, r>>}

\* A request saves under the session it runs on; the store also lets a record
\* move from another session, which the request has pinned and which exists.
SaveResponse(r, s) ==
    /\ Free /\ pc[r] = "own" /\ s \in {at[r]} \cup (holds[r] \cap dirs)
    /\ IF Refused(r)
         THEN /\ deletedIDs' = deletedIDs \cup (IF Pinned(r) THEN {r} ELSE {})
              /\ UNCHANGED <<index, link, op>>
         ELSE /\ WriteLink(r, s)
              /\ Lock("record", r, s)
              /\ UNCHANGED deletedIDs
    /\ UNCHANGED <<record, dirs, up, orphanSessions, prune, touched, request, history>>

Rewrite(r, value) ==
    /\ record' = [record EXCEPT ![r] = value]
    /\ touched' = touched \cup ({r} \cap (prune.files \cup prune.plan))

SaveRecord ==
    /\ op # None /\ op.step = "record"
    /\ Rewrite(op.r, op.s)
    /\ published' = published \cup {op.r}
    /\ owed' = owed \ {op.s}
    /\ IF Live(op.r) /\ record[op.r] # op.s
         THEN Lock("moved", op.r, record[op.r]) /\ moved' = moved \cup {op.r}
         ELSE Unlock /\ UNCHANGED moved
    /\ UNCHANGED <<index, link, dirs, up, deletedIDs, orphanSessions, prune, request,
                   minted, crashes, failures>>

RemoveLink(r, s) == link' = link \ {<<s, r>>}

SaveMoved ==
    /\ op # None /\ op.step = "moved"
    /\ RemoveLink(op.r, op.s)
    /\ Unlock
    /\ UNCHANGED <<record, index, dirs, up, deletedIDs, orphanSessions, prune, touched,
                   request, history>>

\* A later turn records that the input a warm response buffered is delivered:
\* read and written back under the lock.
ClearInputPending(r) ==
    /\ Free /\ Live(r) /\ prune # NoPrune
    /\ Rewrite(r, record[r])
    /\ UNCHANGED <<index, link, dirs, up, op, deletedIDs, orphanSessions, prune, request,
                   history>>

-----------------------------------------------------------------------------
(* DeleteResponse: the tombstone, the link, the mark, the session. *)

DeleteResponse(r) ==
    /\ Free /\ Live(r)
    /\ Rewrite(r, Tombstone)
    /\ Lock("unlink", r, record[r])
    /\ owed' = IF LinksOf(record[r]) = {r} THEN owed \cup {record[r]} ELSE owed
    /\ UNCHANGED <<index, link, dirs, up, deletedIDs, orphanSessions, prune, request,
                   minted, published, moved, crashes, failures>>

\* Mutant: the link of a deleted response stays.
DeleteLink_Keeps ==
    /\ op # None /\ op.step = "unlink"
    /\ deletedIDs' = deletedIDs \cup (IF Pinned(op.r) THEN {op.r} ELSE {})
    /\ Lock("cleanup", None, op.s)
    /\ UNCHANGED <<disk, up, orphanSessions, prune, touched, request, history>>

DeleteLink ==
    /\ op # None /\ op.step = "unlink"
    /\ RemoveLink(op.r, op.s)
    /\ deletedIDs' = deletedIDs \cup (IF Pinned(op.r) THEN {op.r} ELSE {})
    /\ Lock("cleanup", None, op.s)
    /\ UNCHANGED <<record, index, dirs, up, orphanSessions, prune, touched, request,
                   history>>

\* liveSessionRefsLocked counts the links whose record file exists, tombstone or
\* not, and drops the others.
Stale(s, links)    == {<<s, r>> : r \in {q \in Responses : record[q] = None}} \cap links
LiveRefs(s, links) == {r \in Responses : <<s, r>> \in links /\ record[r] # None}

\* Mutant: a pinned session is left alone and nobody remembers it.
Cleanup_Forgets ==
    /\ op # None /\ op.step = "cleanup"
    /\ IF Pinned(op.s)
         THEN Unlock /\ UNCHANGED <<index, link, orphanSessions>>
         ELSE /\ index' = TRUE
              /\ link' = IndexLinks \ Stale(op.s, IndexLinks)
              /\ IF LiveRefs(op.s, IndexLinks) = {}
                   THEN Lock("rmdir", None, op.s) /\ UNCHANGED orphanSessions
                   ELSE Unlock /\ orphanSessions' = orphanSessions \ {op.s}
    /\ UNCHANGED <<record, dirs, up, deletedIDs, prune, touched, request, history>>

\* cleanupSessionIfUnreferencedLocked
Cleanup ==
    /\ op # None /\ op.step = "cleanup"
    /\ IF Pinned(op.s)
         THEN /\ orphanSessions' = orphanSessions \cup {op.s}
              /\ Unlock
              /\ UNCHANGED <<index, link>>
         ELSE /\ index' = TRUE
              /\ link' = IndexLinks \ Stale(op.s, IndexLinks)
              /\ IF LiveRefs(op.s, IndexLinks) = {}
                   THEN Lock("rmdir", None, op.s) /\ UNCHANGED orphanSessions
                   ELSE Unlock /\ orphanSessions' = orphanSessions \ {op.s}
    /\ UNCHANGED <<record, dirs, up, deletedIDs, prune, touched, request, history>>

\* Shared by the clean-up and by retention, whose operation names itself in r.
RemoveDir ==
    /\ op # None /\ op.step = "rmdir"
    /\ dirs' = dirs \ {op.s}
    /\ Lock("rmlinks", op.r, op.s)
    /\ UNCHANGED <<record, index, link, up, deletedIDs, orphanSessions, prune, touched,
                   request, history>>

RemoveLinks ==
    /\ op # None /\ op.step = "rmlinks"
    /\ link' = {l \in link : l[1] # op.s}
    /\ orphanSessions' = IF op.r = None THEN orphanSessions \ {op.s} ELSE orphanSessions
    /\ Unlock
    /\ UNCHANGED <<record, index, dirs, up, deletedIDs, prune, touched, request, history>>

-----------------------------------------------------------------------------
(* Prune: build the index, scan without the lock, plan, delete path by path. *)
(* It runs in the server, and as a command of its own while none runs.         *)

PruneTo(step) == prune.step = step /\ op = None

\* A build that fails leaves a pass that spares every session.
PruneBegins ==
    /\ PruneTo("idle")
    /\ \/ index' = TRUE /\ link' = IndexLinks
          /\ prune' = [prune EXCEPT !.step = "files", !.known = TRUE]
       \/ ~index /\ UNCHANGED <<index, link>>
          /\ prune' = [prune EXCEPT !.step = "files"]
    /\ touched' = {}
    /\ UNCHANGED <<record, dirs, up, op, deletedIDs, orphanSessions, request, history>>

\* Records first: a record seen here has its link in place when the links are
\* read.
ScanResponses ==
    /\ prune.step = "files"
    /\ prune' = [prune EXCEPT !.step = "links",
                              !.files = {r \in Responses : record[r] # None}]
    /\ touched' = {}
    /\ UNCHANGED <<disk, up, op, deletedIDs, orphanSessions, request, history>>

ScanLinks ==
    /\ prune.step = "links"
    /\ prune' = [prune EXCEPT !.step = "dirs", !.links = link,
                              !.known = @ /\ index]
    /\ UNCHANGED <<disk, up, op, deletedIDs, orphanSessions, touched, request, history>>

ScanSessions ==
    /\ prune.step = "dirs"
    /\ prune' = [prune EXCEPT !.step = "plan", !.dirs = dirs]
    /\ UNCHANGED <<disk, up, op, deletedIDs, orphanSessions, touched, request, history>>

\* The quotas and the quarantine may choose any unpinned records; a session
\* only if all its references are among them, and none unless the index is known.
Collectable(chosen) ==
    {s \in prune.dirs : /\ prune.known /\ ~Pinned(s)
                        /\ \A r \in Responses : <<s, r>> \in prune.links => r \in chosen}

PlanPrune ==
    /\ PruneTo("plan")
    /\ \E chosen \in SUBSET {r \in prune.files : ~Pinned(r)} :
         \E sessions \in SUBSET Collectable(chosen) :
           prune' = [prune EXCEPT !.step = "apply", !.plan = chosen \cup sessions,
                                  !.files = {}, !.dirs = {},
                                  !.links = {l \in @ : l[2] \in chosen}]
    /\ UNCHANGED <<disk, up, op, deletedIDs, orphanSessions, touched, request, history>>

\* Mutant: the pins of the plan are good enough.
StillDue_AsPlanned(r) == record[r] # None /\ r \notin touched

\* removeRetainedLocked for a record: still unpinned, not rewritten since.
StillDue(r) == ~Pinned(r) /\ record[r] # None /\ r \notin touched

PruneResponse(r) ==
    /\ PruneTo("apply") /\ r \in prune.plan
    /\ prune' = [prune EXCEPT !.plan = @ \ {r}]
    /\ IF StillDue(r)
         THEN /\ record' = [record EXCEPT ![r] = None]
              /\ \/ \E s \in Sessions : <<s, r>> \in prune.links /\ Lock("pruned", r, s)
                 \/ (\A s \in Sessions : <<s, r>> \notin prune.links) /\ UNCHANGED op
         ELSE UNCHANGED <<record, op>>
    /\ UNCHANGED <<index, link, dirs, up, deletedIDs, orphanSessions, touched, request,
                   history>>

PruneLink ==
    /\ op # None /\ op.step = "pruned"
    /\ RemoveLink(op.r, op.s)
    /\ Unlock
    /\ UNCHANGED <<record, index, dirs, up, deletedIDs, orphanSessions, prune, touched,
                   request, history>>

\* Mutant: so are its references.
Unreferenced_AsPlanned(s) == ~Pinned(s) /\ index

\* ... and for a session, after every record of the plan: still unpinned and,
\* counted again under the lock, without references.
Unreferenced(s) == ~Pinned(s) /\ index /\ LiveRefs(s, link) = {}

PruneSession(s) ==
    /\ PruneTo("apply") /\ s \in prune.plan /\ prune.plan \cap Responses = {}
    /\ prune' = [prune EXCEPT !.plan = @ \ {s}]
    /\ link' = IF Pinned(s) THEN link ELSE link \ Stale(s, link)
    /\ IF Unreferenced(s) THEN Lock("rmdir", s, s) ELSE UNCHANGED op
    /\ UNCHANGED <<record, index, dirs, up, deletedIDs, orphanSessions, touched, request,
                   history>>

PruneEnds ==
    /\ PruneTo("apply") /\ prune.plan = {}
    /\ prune' = NoPrune
    /\ touched' = {}
    /\ UNCHANGED <<disk, up, op, deletedIDs, orphanSessions, request, history>>

-----------------------------------------------------------------------------
Request(r) ==
    \/ LoadPrevious(r) \/ PinSession(r) \/ ResumeSession(r) \/ CreateSession(r)
    \/ PinOwn(r) \/ EndTurn(r)
    \/ \E p \in Responses : PinPrevious(r, p)
    \/ \E s \in Sessions : PinFresh(r, s) \/ SaveResponse(r, s)
    \/ \E x \in Responses \cup Sessions : Release(r, x)

Write == SaveRecord \/ SaveMoved \/ DeleteLink \/ Cleanup \/ RemoveDir \/ RemoveLinks
         \/ PruneLink \/ OpFails

Prune ==
    \/ PruneBegins \/ ScanResponses \/ ScanLinks \/ ScanSessions \/ PlanPrune \/ PruneEnds
    \/ \E r \in Responses : PruneResponse(r)
    \/ \E s \in Sessions : PruneSession(s)

Next == \/ \E r \in Responses : Request(r) \/ DeleteResponse(r) \/ ClearInputPending(r)
        \/ Write \/ Prune
        \/ Ensure \/ Crash \/ LoseIndex

Spec == Init /\ [][Next]_vars

-----------------------------------------------------------------------------
(* Properties. *)

TypeOK ==
    /\ record \in [Responses -> Sessions \cup {None, Tombstone}]
    /\ index \in BOOLEAN /\ up \in BOOLEAN
    /\ link \subseteq Sessions \X Responses
    /\ dirs \subseteq Sessions /\ minted \subseteq Sessions /\ owed \subseteq Sessions
    /\ orphanSessions \subseteq Sessions
    /\ deletedIDs \subseteq Responses /\ touched \subseteq Responses
    /\ published \subseteq Responses /\ moved \subseteq Responses
    /\ op \in [step : Steps, r : Responses \cup Sessions \cup {None}, s : Sessions] \cup {None}
    /\ prune \in [step : {"idle", "files", "links", "dirs", "plan", "apply"},
                  files : SUBSET Responses, links : SUBSET (Sessions \X Responses),
                  dirs : SUBSET Sessions, known : BOOLEAN,
                  plan : SUBSET (Responses \cup Sessions)]
    /\ pc \in [Responses -> Stages]
    /\ at \in [Responses -> Sessions \cup {None}]
    /\ holds \in [Responses -> SUBSET (Responses \cup Sessions)]
    /\ crashes \in 0..MaxFaults /\ failures \in 0..MaxFaults

\* The session a stored response is resumed from exists, at every moment and
\* after every crash, failed write, delete and retention pass.
SessionKept == \A r \in Responses : Live(r) => record[r] \in dirs

\* A present index names every live record, so that a count of zero means
\* "no response references this session" (retention plans from it alone).
Indexed == index => \A r \in Responses : Live(r) => <<record[r], r>> \in link

\* While no write has failed and no process has crashed, an idle store has no
\* link without its live record: whatever order saves, deletes and a prune that
\* scanned long ago come in, no reference is left that would pin a session.
\* (A record that changed its session may leave one, if prune saw both links.)
LinksAreLive ==
    op = None /\ crashes = 0 /\ failures = 0 =>
        \A l \in link : l[2] \notin moved => record[l[2]] = l[1]

\* A client that deletes the last response of a session gets rid of the
\* session: at once, or when the last request that has it pinned lets it go.
DeletedSessionGoes ==
    op = None => \A s \in owed : Pinned(s) \/ s \notin dirs

\* What a request has pinned is neither pruned nor cleaned up under it, however
\* old the scan that chose it.
PinnedStays ==
    [][/\ \A r \in Responses : Pinned(r) /\ record[r] # None => record'[r] # None
       /\ \A s \in dirs : Pinned(s) => s \in dirs']_vars

\* Published once, deleted for good, resumable while stored.
Life == INSTANCE ResponseLife WITH
    life <- [r \in Responses |->
               IF Live(r) THEN "live"
               ELSE IF record[r] = Tombstone THEN "deleted"
               ELSE IF r \in published THEN "gone" ELSE "new"],
    home <- [r \in Responses |-> IF Live(r) THEN record[r] ELSE None],
    open <- dirs

ImplementsResponseLife == Life!Spec
=============================================================================
