------------------------ MODULE SessionStoreProofs ------------------------
(* Proofs about SessionStore: what holds for any number of requests, sessions  *)
(* and faults.                                                                 *)
EXTENDS SessionStore, TLAPS

----------------------------------------------------------------------------
(* The inductive invariant.                                                  *)

\* What a request has pinned at each of its stages.
RequestOK(r) ==
    /\ pc[r] \in {"loaded", "sess", "failed", "fresh", "open", "own"} => at[r] \in Sessions
    /\ pc[r] \in {"sess", "failed", "fresh", "open", "own"} => at[r] \in holds[r]
    /\ pc[r] \in {"open", "own"} => at[r] \in dirs
    /\ pc[r] = "own" => r \in holds[r]
    /\ holds[r] # {} => up

\* A record is its own request's work, and only what was published is stored.
RecordOK(r) ==
    /\ pc[r] \in Stages \ {"own", "ending", "done"} => r \notin published
    /\ record[r] # None => r \in published
    /\ pc[r] = "own" /\ r \in published => record[r] # None

\* What the operation that holds s.mu has established and still relies on.
OpOK ==
    op # None =>
      /\ op.step = "record" => /\ op.r \in Responses /\ pc[op.r] = "own"
                               /\ op.s \in dirs /\ op.s \in holds[op.r]
                               /\ <<op.s, op.r>> \in link /\ index
                               /\ record[op.r] # Tombstone
      /\ op.step = "moved" => op.r \in Responses /\ record[op.r] # op.s
      /\ op.step \in {"unlink", "pruned"} => op.r \in Responses /\ record[op.r] \notin Sessions
      /\ op.step \in {"rmdir", "rmlinks"} => /\ \A r \in Responses : record[r] # op.s
                                             /\ ~Pinned(op.s)

IndexWhileUp == up => index

StoreInv ==
    /\ TypeOK
    /\ SessionKept /\ Indexed /\ IndexWhileUp
    /\ \A r \in Responses : RequestOK(r) /\ RecordOK(r)
    /\ OpOK

USE DEF vars, disk, memory, request, history, Free, Lock, Unlock, Goto, On, Pin, Live, Stages

\* The operation's parts, and what makes one.
LEMMA OpParts ==
  ASSUME TypeOK, op # None
  PROVE  op.step \in Steps /\ op.r \in Responses \cup Sessions \cup {None} /\ op.s \in Sessions
  BY DEF TypeOK

LEMMA OpMade ==
  ASSUME NEW step \in Steps, NEW r \in Responses \cup Sessions \cup {None}, NEW s \in Sessions
  PROVE  /\ [step |-> step, r |-> r, s |-> s] \in
              [step : Steps, r : Responses \cup Sessions \cup {None}, s : Sessions] \cup {None}
         /\ [step |-> step, r |-> r, s |-> s] # None
  BY StoreAssumption

LEMMA IndexLinksType == TypeOK => IndexLinks \subseteq Sessions \X Responses
  BY DEF TypeOK, IndexLinks

LEMMA TypeInit == Init => TypeOK
  <1> SUFFICES ASSUME Init PROVE TypeOK
    OBVIOUS
  <1>1. /\ record \in [Responses -> Sessions \cup {None, Tombstone}]
        /\ published \subseteq Responses /\ dirs \subseteq Sessions /\ minted \subseteq Sessions
    BY StoreAssumption DEF Init
  <1>2. /\ pc \in [Responses -> Stages] /\ at \in [Responses -> Sessions \cup {None}]
        /\ holds \in [Responses -> SUBSET (Responses \cup Sessions)]
    BY StoreAssumption DEF Init
  <1>3. /\ op = None /\ prune = NoPrune /\ index = FALSE /\ up = FALSE /\ link = {}
        /\ deletedIDs = {} /\ orphanSessions = {} /\ touched = {} /\ moved = {} /\ owed = {}
        /\ crashes \in 0..MaxFaults /\ failures \in 0..MaxFaults
    BY StoreAssumption DEF Init
  <1> QED
    BY <1>1, <1>2, <1>3 DEF TypeOK, NoPrune

LEMMA TypeNext == StoreInv /\ [Next]_vars => TypeOK'
  <1> SUFFICES ASSUME TypeOK, \A r \in Responses : RequestOK(r), OpOK, [Next]_vars
               PROVE  TypeOK'
    BY DEF StoreInv
  <1> USE StoreAssumption DEF Steps
  <1>1. ASSUME NEW r \in Responses, NEW p \in Responses, PinPrevious(r, p) PROVE TypeOK'
    BY <1>1 DEF PinPrevious, TypeOK
  <1>2. ASSUME NEW r \in Responses, LoadPrevious(r) PROVE TypeOK'
    BY <1>2 DEF LoadPrevious, TypeOK
  <1>3. ASSUME NEW r \in Responses, PinSession(r) PROVE TypeOK'
    <2>1. at[r] \in Sessions
      BY <1>3 DEF PinSession, RequestOK
    <2> QED
      BY <1>3, <2>1 DEF PinSession, TypeOK
  <1>4. ASSUME NEW r \in Responses, ResumeSession(r) PROVE TypeOK'
    <2>1. at[r] \in Sessions
      BY <1>4 DEF ResumeSession, RequestOK
    <2> QED
      BY <1>4, <2>1 DEF ResumeSession, EnsureSession, TypeOK
  <1>5. ASSUME NEW r \in Responses, CreateSession(r) PROVE TypeOK'
    <2>1. at[r] \in Sessions
      BY <1>5 DEF CreateSession, RequestOK
    <2> QED
      BY <1>5, <2>1 DEF CreateSession, EnsureSession, TypeOK
  <1>6. ASSUME NEW r \in Responses, PinOwn(r) PROVE TypeOK'
    BY <1>6 DEF PinOwn, TypeOK
  <1>7. ASSUME NEW r \in Responses, EndTurn(r) PROVE TypeOK'
    BY <1>7 DEF EndTurn, TypeOK
  <1>8. ASSUME NEW r \in Responses, NEW s \in Sessions, PinFresh(r, s) PROVE TypeOK'
    BY <1>8 DEF PinFresh, TypeOK
  <1>9. ASSUME NEW r \in Responses, NEW s \in Sessions, SaveResponse(r, s) PROVE TypeOK'
    <2>1. [step |-> "record", r |-> r, s |-> s] \in
             [step : Steps, r : Responses \cup Sessions \cup {None}, s : Sessions]
      OBVIOUS
    <2>2. op' = op \/ op' = [step |-> "record", r |-> r, s |-> s]
      BY <1>9 DEF SaveResponse
    <2>3. index' \in BOOLEAN /\ link' \subseteq link \cup {<<s, r>>}
      BY <1>9 DEF SaveResponse, WriteLink, TypeOK
    <2>4. deletedIDs' \subseteq Responses
      BY <1>9 DEF SaveResponse, TypeOK
    <2> QED
      BY <1>9, <2>1, <2>2, <2>3, <2>4 DEF SaveResponse, TypeOK
  <1>10. ASSUME NEW r \in Responses, NEW x \in Responses \cup Sessions, Release(r, x) PROVE TypeOK'
    BY <1>10 DEF Release, TypeOK
  <1>11. ASSUME NEW r \in Responses, DeleteResponse(r) PROVE TypeOK'
    BY <1>11 DEF DeleteResponse, Rewrite, TypeOK
  <1>12. ASSUME NEW r \in Responses, ClearInputPending(r) PROVE TypeOK'
    BY <1>12 DEF ClearInputPending, Rewrite, TypeOK
  <1>13. ASSUME SaveRecord PROVE TypeOK'
    <2>1. op.r \in Responses /\ op.s \in Sessions
      BY <1>13, OpParts DEF SaveRecord, OpOK
    <2>2. record' \in [Responses -> Sessions \cup {None, Tombstone}] /\ touched' \subseteq Responses
      BY <1>13, <2>1 DEF SaveRecord, Rewrite, TypeOK
    <2>3. \/ op' = None
          \/ Live(op.r) /\ op' = [step |-> "moved", r |-> op.r, s |-> record[op.r]]
      <3>1. CASE Live(op.r) /\ record[op.r] # op.s
        BY <1>13, <3>1 DEF SaveRecord
      <3>2. CASE ~(Live(op.r) /\ record[op.r] # op.s)
        BY <1>13, <3>2 DEF SaveRecord
      <3> QED
        BY <3>1, <3>2
    <2>4. op' \in [step : Steps, r : Responses \cup Sessions \cup {None}, s : Sessions] \cup {None}
      BY <2>1, <2>3
    <2>5. moved' \subseteq Responses /\ owed' \subseteq Sessions /\ published' \subseteq Responses
      BY <1>13, <2>1 DEF SaveRecord, TypeOK
    <2> QED
      BY <1>13, <2>2, <2>4, <2>5 DEF SaveRecord, TypeOK
  <1>14. ASSUME SaveMoved PROVE TypeOK'
    BY <1>14 DEF SaveMoved, RemoveLink, TypeOK
  <1>15. ASSUME DeleteLink PROVE TypeOK'
    <2>1. op.r \in Responses /\ op.s \in Sessions
      BY <1>15, OpParts DEF DeleteLink, OpOK
    <2> QED
      BY <1>15, <2>1 DEF DeleteLink, RemoveLink, TypeOK
  <1>16. ASSUME Cleanup PROVE TypeOK'
    <2>1. op.s \in Sessions
      BY <1>16, OpParts DEF Cleanup
    <2>2. op' = None \/ op' = [step |-> "rmdir", r |-> None, s |-> op.s]
      BY <1>16 DEF Cleanup
    <2>3. op' \in [step : Steps, r : Responses \cup Sessions \cup {None}, s : Sessions] \cup {None}
      BY <2>1, <2>2
    <2>4. link' \subseteq Sessions \X Responses /\ index' \in BOOLEAN
      <3>1. (link' = link /\ index' = index) \/ (link' \subseteq IndexLinks /\ index' = TRUE)
        BY <1>16 DEF Cleanup
      <3>2. CASE link' = link /\ index' = index
        BY <3>2 DEF TypeOK
      <3>3. CASE link' \subseteq IndexLinks /\ index' = TRUE
        BY <3>3, IndexLinksType
      <3> QED
        BY <3>1, <3>2, <3>3
    <2>5. orphanSessions' \subseteq Sessions
      BY <1>16, <2>1 DEF Cleanup, TypeOK
    <2> QED
      BY <1>16, <2>3, <2>4, <2>5 DEF Cleanup, TypeOK
  <1>17. ASSUME RemoveDir PROVE TypeOK'
    BY <1>17 DEF RemoveDir, TypeOK
  <1>18. ASSUME RemoveLinks PROVE TypeOK'
    BY <1>18 DEF RemoveLinks, TypeOK
  <1>19. ASSUME PruneLink PROVE TypeOK'
    BY <1>19 DEF PruneLink, RemoveLink, TypeOK
  <1>20. ASSUME OpFails PROVE TypeOK'
    BY <1>20 DEF OpFails, TypeOK
  <1>21. ASSUME PruneBegins PROVE TypeOK'
    <2>1. link' \subseteq Sessions \X Responses /\ index' \in BOOLEAN
      BY <1>21, IndexLinksType DEF PruneBegins, TypeOK
    <2>2. prune' = [prune EXCEPT !.step = "files", !.known = TRUE]
          \/ prune' = [prune EXCEPT !.step = "files"]
      BY <1>21 DEF PruneBegins
    <2>3. prune' \in [step : {"idle", "files", "links", "dirs", "plan", "apply"},
                       files : SUBSET Responses, links : SUBSET (Sessions \X Responses),
                       dirs : SUBSET Sessions, known : BOOLEAN,
                       plan : SUBSET (Responses \cup Sessions)]
      <3>1. CASE prune' = [prune EXCEPT !.step = "files", !.known = TRUE]
        BY <3>1 DEF TypeOK
      <3>2. CASE prune' = [prune EXCEPT !.step = "files"]
        BY <3>2 DEF TypeOK
      <3> QED
        BY <2>2, <3>1, <3>2
    <2> QED
      BY <1>21, <2>1, <2>3 DEF PruneBegins, TypeOK
  <1>22. ASSUME ScanResponses PROVE TypeOK'
    BY <1>22 DEF ScanResponses, TypeOK
  <1>23. ASSUME ScanLinks PROVE TypeOK'
    BY <1>23 DEF ScanLinks, TypeOK
  <1>24. ASSUME ScanSessions PROVE TypeOK'
    BY <1>24 DEF ScanSessions, TypeOK
  <1>25. ASSUME PlanPrune PROVE TypeOK'
    <2>1. PICK chosen \in SUBSET {r \in prune.files : ~Pinned(r)} :
            \E sessions \in SUBSET Collectable(chosen) :
              prune' = [prune EXCEPT !.step = "apply", !.plan = chosen \cup sessions,
                                     !.files = {}, !.dirs = {},
                                     !.links = {l \in @ : l[2] \in chosen}]
      BY <1>25 DEF PlanPrune
    <2>2. PICK sessions \in SUBSET Collectable(chosen) :
            prune' = [prune EXCEPT !.step = "apply", !.plan = chosen \cup sessions,
                                   !.files = {}, !.dirs = {},
                                   !.links = {l \in @ : l[2] \in chosen}]
      BY <2>1
    <2>3. chosen \subseteq Responses /\ sessions \subseteq Sessions
      BY DEF Collectable, TypeOK
    <2> QED
      BY <1>25, <2>2, <2>3 DEF PlanPrune, TypeOK
  <1>26. ASSUME PruneEnds PROVE TypeOK'
    BY <1>26 DEF PruneEnds, PruneTo, NoPrune, TypeOK
  <1>27. ASSUME NEW r \in Responses, PruneResponse(r) PROVE TypeOK'
    <2>1. op' = op \/ \E s \in Sessions : op' = [step |-> "pruned", r |-> r, s |-> s]
      BY <1>27 DEF PruneResponse
    <2>2. op' \in [step : Steps, r : Responses \cup Sessions \cup {None}, s : Sessions] \cup {None}
      BY <2>1 DEF TypeOK
    <2>3. record' \in [Responses -> Sessions \cup {None, Tombstone}]
      BY <1>27 DEF PruneResponse, TypeOK
    <2>4. prune' = [prune EXCEPT !.plan = @ \ {r}]
      BY <1>27 DEF PruneResponse
    <2> QED
      BY <1>27, <2>2, <2>3, <2>4 DEF PruneResponse, TypeOK
  <1>28. ASSUME NEW s \in Sessions, PruneSession(s) PROVE TypeOK'
    BY <1>28 DEF PruneSession, PruneTo, Unreferenced, Stale, TypeOK
  <1>29. ASSUME Ensure PROVE TypeOK'
    BY <1>29 DEF Ensure, IndexLinks, TypeOK
  <1>30. ASSUME Crash PROVE TypeOK'
    <2>1. pc' \in [Responses -> Stages] /\ at' \in [Responses -> Sessions \cup {None}]
          /\ holds' \in [Responses -> SUBSET (Responses \cup Sessions)]
      BY <1>30 DEF Crash
    <2>2. crashes' \in 0..MaxFaults
      BY <1>30 DEF Crash, TypeOK
    <2> QED
      BY <1>30, <2>1, <2>2 DEF Crash, NoPrune, TypeOK
  <1>31. ASSUME LoseIndex PROVE TypeOK'
    BY <1>31 DEF LoseIndex, TypeOK
  <1>32. ASSUME UNCHANGED vars PROVE TypeOK'
    BY <1>32 DEF TypeOK
  <1> QED
    BY <1>1, <1>2, <1>3, <1>4, <1>5, <1>6, <1>7, <1>8, <1>9, <1>10, <1>11, <1>12, <1>13, <1>14, <1>15, <1>16, <1>17, <1>18, <1>19, <1>20, <1>21, <1>22, <1>23, <1>24, <1>25, <1>26, <1>27, <1>28, <1>29, <1>30, <1>31, <1>32 DEF Next, Request, Write, Prune


----------------------------------------------------------------------------
(* The requests.                                                             *)

\* What a request has pinned is its own doing, but for RemoveDir and a crash.
LEMMA RequestNext == StoreInv /\ [Next]_vars => \A q \in Responses : RequestOK(q)'
  <1> SUFFICES ASSUME TypeOK, OpOK, [Next]_vars, NEW q \in Responses, RequestOK(q)
               PROVE  RequestOK(q)'
    BY DEF StoreInv
  <1> USE DEF RequestOK
  <1>1. ASSUME NEW r \in Responses, NEW p \in Responses, PinPrevious(r, p) PROVE RequestOK(q)'
    BY <1>1 DEF PinPrevious, TypeOK
  <1>2. ASSUME NEW r \in Responses, LoadPrevious(r) PROVE RequestOK(q)'
    BY <1>2 DEF LoadPrevious, TypeOK
  <1>3. ASSUME NEW r \in Responses, PinSession(r) PROVE RequestOK(q)'
    BY <1>3 DEF PinSession, TypeOK
  <1>4. ASSUME NEW r \in Responses, ResumeSession(r) PROVE RequestOK(q)'
    BY <1>4 DEF ResumeSession, EnsureSession, TypeOK
  <1>5. ASSUME NEW r \in Responses, CreateSession(r) PROVE RequestOK(q)'
    BY <1>5 DEF CreateSession, EnsureSession, TypeOK
  <1>6. ASSUME NEW r \in Responses, PinOwn(r) PROVE RequestOK(q)'
    BY <1>6 DEF PinOwn, TypeOK
  <1>7. ASSUME NEW r \in Responses, EndTurn(r) PROVE RequestOK(q)'
    BY <1>7 DEF EndTurn, TypeOK
  <1>8. ASSUME NEW r \in Responses, NEW s \in Sessions, PinFresh(r, s) PROVE RequestOK(q)'
    BY <1>8 DEF PinFresh, TypeOK
  <1>9. ASSUME NEW r \in Responses, NEW x \in Responses \cup Sessions, Release(r, x)
        PROVE  RequestOK(q)'
    BY <1>9 DEF Release, TypeOK
  <1>10. CASE RemoveDir
    <2>1. op.s \notin holds[q] /\ dirs' = dirs \ {op.s} /\ UNCHANGED <<pc, at, holds, up>>
      BY <1>10 DEF RemoveDir, OpOK, Pinned
    <2> QED
      BY <2>1
  <1>11. CASE Crash
    BY <1>11 DEF Crash
  <1>12. CASE Ensure
    BY <1>12 DEF Ensure
  <1>13. ASSUME UNCHANGED <<pc, at, holds, up, dirs>> PROVE RequestOK(q)'
    BY <1>13
  <1>14. ASSUME NEW r \in Responses, \/ DeleteResponse(r) \/ ClearInputPending(r) \/ PruneResponse(r)
                                     \/ \E s \in Sessions : SaveResponse(r, s)
         PROVE  RequestOK(q)'
    BY <1>13, <1>14 DEF DeleteResponse, ClearInputPending, PruneResponse, SaveResponse
  <1>15. CASE \/ SaveRecord \/ SaveMoved \/ DeleteLink \/ Cleanup \/ RemoveLinks
              \/ PruneLink \/ OpFails
    BY <1>13, <1>15 DEF SaveRecord, SaveMoved, DeleteLink, Cleanup, RemoveLinks, PruneLink, OpFails
  <1>16. CASE \/ PruneBegins \/ ScanResponses \/ ScanLinks \/ ScanSessions \/ PlanPrune
              \/ PruneEnds \/ \E s \in Sessions : PruneSession(s)
    BY <1>13, <1>16 DEF PruneBegins, ScanResponses, ScanLinks, ScanSessions, PlanPrune, PruneEnds,
                        PruneSession
  <1>17. CASE LoseIndex \/ UNCHANGED vars
    BY <1>13, <1>17 DEF LoseIndex
  <1> QED
    BY <1>1, <1>2, <1>3, <1>4, <1>5, <1>6, <1>7, <1>8, <1>9, <1>10, <1>11, <1>12, <1>14, <1>15,
       <1>16, <1>17 DEF Next, Request, Write, Prune

LEMMA RecordNext == StoreInv /\ [Next]_vars => \A q \in Responses : RecordOK(q)'
  <1> SUFFICES ASSUME TypeOK, OpOK, [Next]_vars, NEW q \in Responses, RecordOK(q), RequestOK(q)
               PROVE  RecordOK(q)'
    BY DEF StoreInv
  <1> USE StoreAssumption DEF RecordOK
  <1>1. ASSUME UNCHANGED <<record, published>>, pc'[q] = pc[q] \/ pc'[q] \in {"ending", "done"}
        PROVE  RecordOK(q)'
    BY <1>1
  <1>2. ASSUME NEW r \in Responses, \/ PinSession(r) \/ LoadPrevious(r) \/ ResumeSession(r)
                                    \/ CreateSession(r) \/ PinOwn(r) \/ EndTurn(r)
                                    \/ \E p \in Responses : PinPrevious(r, p)
                                    \/ \E s \in Sessions : PinFresh(r, s)
        PROVE  RecordOK(q)'
    BY <1>2 DEF PinSession, LoadPrevious, ResumeSession, CreateSession, EnsureSession, PinOwn,
                EndTurn, PinPrevious, PinFresh, TypeOK
  <1>3. ASSUME NEW r \in Responses, NEW x \in Responses \cup Sessions, Release(r, x)
        PROVE  RecordOK(q)'
    BY <1>1, <1>3 DEF Release, TypeOK
  <1>4. CASE SaveRecord
    <2>1. op.r \in Responses /\ op.s \in Sessions /\ pc[op.r] = "own"
      BY <1>4, OpParts DEF SaveRecord, OpOK
    <2>2. record' = [record EXCEPT ![op.r] = op.s] /\ published' = published \cup {op.r} /\ pc' = pc
      BY <1>4 DEF SaveRecord, Rewrite
    <2> QED
      BY <2>1, <2>2 DEF TypeOK
  <1>5. ASSUME NEW r \in Responses, DeleteResponse(r) \/ ClearInputPending(r) PROVE RecordOK(q)'
    BY <1>5 DEF DeleteResponse, ClearInputPending, Rewrite, TypeOK
  <1>6. ASSUME NEW r \in Responses, PruneResponse(r) PROVE RecordOK(q)'
    <2>1. record' = record \/ (record' = [record EXCEPT ![r] = None] /\ ~Pinned(r))
      BY <1>6 DEF PruneResponse, StillDue
    <2>2. pc' = pc /\ published' = published
      BY <1>6 DEF PruneResponse
    <2> QED
      BY <2>1, <2>2 DEF RequestOK, Pinned, TypeOK
  <1>7. CASE Crash
    BY <1>7 DEF Crash
  <1>8. ASSUME NEW r \in Responses, NEW s \in Sessions, SaveResponse(r, s) PROVE RecordOK(q)'
    BY <1>1, <1>8 DEF SaveResponse
  <1>9. CASE \/ SaveMoved \/ DeleteLink \/ Cleanup \/ RemoveDir \/ RemoveLinks \/ PruneLink \/ OpFails
    BY <1>1, <1>9 DEF SaveMoved, DeleteLink, Cleanup, RemoveDir, RemoveLinks, PruneLink, OpFails
  <1>10. CASE \/ PruneBegins \/ ScanResponses \/ ScanLinks \/ ScanSessions \/ PlanPrune
              \/ PruneEnds \/ \E s \in Sessions : PruneSession(s)
    BY <1>1, <1>10 DEF PruneBegins, ScanResponses, ScanLinks, ScanSessions, PlanPrune, PruneEnds,
                       PruneSession
  <1>11. CASE Ensure \/ LoseIndex \/ UNCHANGED vars
    BY <1>1, <1>11 DEF Ensure, LoseIndex
  <1> QED
    BY <1>2, <1>3, <1>4, <1>5, <1>6, <1>7, <1>8, <1>9, <1>10, <1>11 DEF Next, Request, Write, Prune

----------------------------------------------------------------------------
(* The index.                                                                *)

\* An absent index that is rebuilt names every live record, as a present one.
LEMMA IndexLinksComplete ==
  ASSUME Indexed, NEW r \in Responses, Live(r)
  PROVE  <<record[r], r>> \in IndexLinks
  BY DEF Indexed, IndexLinks

\* A session that no link with a record refers to is no live record's session.
LEMMA NoRefsNoRecord ==
  ASSUME Indexed, NEW s \in Sessions, NEW links, links = IndexLinks \/ (index /\ links = link),
         LiveRefs(s, links) = {}, TypeOK
  PROVE  \A r \in Responses : record[r] # s
  <1> SUFFICES ASSUME NEW r \in Responses, record[r] = s PROVE FALSE
    OBVIOUS
  <1>1. Live(r) /\ record[r] # None
    BY StoreAssumption DEF Live
  <1>2. <<s, r>> \in links
    BY <1>1, IndexLinksComplete DEF Indexed
  <1> QED
    BY <1>1, <1>2 DEF LiveRefs

LEMMA IndexNext ==
  ASSUME IndexMayVanish = FALSE
  PROVE  StoreInv /\ [Next]_vars => (Indexed /\ IndexWhileUp)'
  <1> SUFFICES ASSUME StoreInv, [Next]_vars PROVE (Indexed /\ IndexWhileUp)'
    OBVIOUS
  <1> USE StoreAssumption DEF IndexWhileUp
  <1>1. TypeOK /\ Indexed /\ IndexWhileUp /\ OpOK
    BY DEF StoreInv
  <1>2. ASSUME NEW links, links \subseteq IndexLinks, UNCHANGED record, index', link' = IndexLinks \ links,
               \A l \in links : record[l[2]] # l[1]
        PROVE  (Indexed /\ IndexWhileUp)'
    BY <1>1, <1>2, IndexLinksComplete DEF Indexed
  <1>3. ASSUME UNCHANGED <<record, index, link>>, up' => up PROVE (Indexed /\ IndexWhileUp)'
    BY <1>1, <1>3 DEF Indexed
  <1>4. ASSUME UNCHANGED <<record, index>>, up' => up,
               \A l \in link \ link' : record[l[2]] # l[1]
        PROVE  (Indexed /\ IndexWhileUp)'
    BY <1>1, <1>4 DEF Indexed
  <1>5. CASE Ensure
    BY <1>2, <1>5 DEF Ensure
  <1>6. CASE Cleanup
    <2>1. \A l \in Stale(op.s, IndexLinks) : record[l[2]] # l[1]
      BY <1>1, <1>6, OpParts DEF Cleanup, Stale
    <2>2. CASE Pinned(op.s)
      BY <1>3, <1>6, <2>2 DEF Cleanup
    <2>3. CASE ~Pinned(op.s)
      BY <1>2, <1>6, <2>1, <2>3 DEF Cleanup, Stale
    <2> QED
      BY <2>2, <2>3
  <1>7. CASE PruneBegins
    BY <1>2, <1>3, <1>7 DEF PruneBegins
  <1>8. CASE LoseIndex
    BY <1>1, <1>8 DEF LoseIndex, Indexed
  <1>9. ASSUME NEW r \in Responses, NEW s \in Sessions, SaveResponse(r, s)
        PROVE  (Indexed /\ IndexWhileUp)'
    BY <1>1, <1>9 DEF SaveResponse, WriteLink, Indexed, RequestOK, StoreInv
  <1>10. CASE SaveRecord
    <2>1. op.r \in Responses /\ index /\ <<op.s, op.r>> \in link
      BY <1>1, <1>10 DEF SaveRecord, OpOK
    <2> QED
      BY <1>1, <1>10, <2>1 DEF SaveRecord, Rewrite, Indexed, TypeOK
  <1>11. CASE SaveMoved \/ DeleteLink \/ PruneLink
    <2>1. link' = link \ {<<op.s, op.r>>} /\ record[op.r] # op.s /\ UNCHANGED <<record, index, up>>
      BY <1>1, <1>11, OpParts DEF SaveMoved, DeleteLink, PruneLink, RemoveLink, OpOK
    <2> QED
      BY <1>4, <2>1
  <1>12. CASE RemoveLinks
    <2>1. link' = {l \in link : l[1] # op.s} /\ UNCHANGED <<record, index, up>>
      BY <1>12 DEF RemoveLinks
    <2>2. \A l \in link \ link' : record[l[2]] # l[1]
      BY <1>1, <1>12, <2>1 DEF RemoveLinks, OpOK, TypeOK
    <2> QED
      BY <1>4, <2>1, <2>2
  <1>13. ASSUME NEW s \in Sessions, PruneSession(s) PROVE (Indexed /\ IndexWhileUp)'
    <2>1. UNCHANGED <<record, index, up>> /\ link \ link' \subseteq Stale(s, link)
      BY <1>13 DEF PruneSession
    <2> QED
      BY <1>4, <2>1 DEF Stale
  <1>14. ASSUME NEW r \in Responses, DeleteResponse(r) \/ ClearInputPending(r) \/ PruneResponse(r)
         PROVE  (Indexed /\ IndexWhileUp)'
    <2>1. UNCHANGED <<index, link, up>>
      BY <1>14 DEF DeleteResponse, ClearInputPending, PruneResponse
    <2>2. \A q \in Responses : record'[q] \in Sessions => record'[q] = record[q]
      BY <1>1, <1>14 DEF DeleteResponse, ClearInputPending, PruneResponse, Rewrite, TypeOK
    <2> QED
      BY <1>1, <2>1, <2>2 DEF Indexed
  <1>15. ASSUME NEW r \in Responses, NEW x \in Responses \cup Sessions, Release(r, x)
         PROVE  (Indexed /\ IndexWhileUp)'
    BY <1>3, <1>15 DEF Release
  <1>16. ASSUME NEW r \in Responses, \/ PinSession(r) \/ LoadPrevious(r) \/ ResumeSession(r)
                                     \/ CreateSession(r) \/ PinOwn(r) \/ EndTurn(r)
                                     \/ \E p \in Responses : PinPrevious(r, p)
                                     \/ \E s \in Sessions : PinFresh(r, s)
         PROVE  (Indexed /\ IndexWhileUp)'
    BY <1>3, <1>16 DEF PinSession, LoadPrevious, ResumeSession, CreateSession, EnsureSession,
                       PinOwn, EndTurn, PinPrevious, PinFresh
  <1>17. CASE RemoveDir \/ OpFails \/ Crash \/ UNCHANGED vars
    BY <1>3, <1>17 DEF RemoveDir, OpFails, Crash
  <1>18. CASE ScanResponses \/ ScanLinks \/ ScanSessions \/ PlanPrune \/ PruneEnds
    <2>1. UNCHANGED <<record, index, link, up>>
      BY <1>18 DEF ScanResponses, ScanLinks, ScanSessions, PlanPrune, PruneEnds
    <2> QED
      BY <1>3, <2>1
  <1> QED
    BY <1>5, <1>6, <1>7, <1>8, <1>9, <1>10, <1>11, <1>12, <1>13, <1>14, <1>15, <1>16, <1>17,
       <1>18 DEF Next, Request, Write, Prune

----------------------------------------------------------------------------
(* The sessions of stored responses.                                         *)

\* Only RemoveDir takes a directory, and only SaveRecord gives a record a
\* session that it did not have.
LEMMA KeptNext == StoreInv /\ [Next]_vars => SessionKept'
  <1> SUFFICES ASSUME StoreInv, [Next]_vars PROVE SessionKept'
    OBVIOUS
  <1>1. TypeOK /\ SessionKept /\ OpOK
    BY DEF StoreInv
  <1>2. ASSUME dirs \subseteq dirs', \A q \in Responses : record'[q] \in Sessions => record'[q] = record[q]
        PROVE  SessionKept'
    BY <1>1, <1>2 DEF SessionKept
  <1>3. CASE SaveRecord
    <2>1. op.r \in Responses /\ op.s \in dirs
      BY <1>1, <1>3 DEF SaveRecord, OpOK
    <2> QED
      BY <1>1, <1>3, <2>1 DEF SaveRecord, Rewrite, SessionKept, TypeOK
  <1>4. CASE RemoveDir
    BY <1>1, <1>4 DEF RemoveDir, OpOK, SessionKept
  <1>5. ASSUME NEW r \in Responses, DeleteResponse(r) \/ ClearInputPending(r) \/ PruneResponse(r)
        PROVE  SessionKept'
    BY <1>1, <1>2, <1>5, StoreAssumption
       DEF DeleteResponse, ClearInputPending, PruneResponse, Rewrite, TypeOK
  <1>6. ASSUME NEW r \in Responses, Request(r) PROVE SessionKept'
    BY <1>2, <1>6 DEF Request, PinSession, LoadPrevious, ResumeSession, CreateSession,
                      EnsureSession, PinOwn, EndTurn, PinPrevious, PinFresh, SaveResponse, Release
  <1>7. CASE \/ SaveMoved \/ DeleteLink \/ Cleanup \/ RemoveLinks \/ PruneLink \/ OpFails
             \/ PruneBegins \/ ScanResponses \/ ScanLinks \/ ScanSessions \/ PlanPrune \/ PruneEnds
             \/ Ensure \/ Crash \/ LoseIndex \/ UNCHANGED vars
    BY <1>2, <1>7 DEF SaveMoved, DeleteLink, Cleanup, RemoveLinks, PruneLink, OpFails, PruneBegins,
                      ScanResponses, ScanLinks, ScanSessions, PlanPrune, PruneEnds, Ensure, Crash,
                      LoseIndex
  <1>8. ASSUME NEW s \in Sessions, PruneSession(s) PROVE SessionKept'
    BY <1>2, <1>8 DEF PruneSession
  <1> QED
    BY <1>3, <1>4, <1>5, <1>6, <1>7, <1>8 DEF Next, Write, Prune

----------------------------------------------------------------------------
(* The operation under the lock.                                             *)

\* What an operation has checked stays true until its last write: what may
\* happen in between takes no lock, pins nothing and writes no record.
LEMMA OpNext == StoreInv /\ [Next]_vars => OpOK'
  <1> SUFFICES ASSUME StoreInv, [Next]_vars PROVE OpOK'
    OBVIOUS
  <1> USE StoreAssumption DEF OpOK
  <1>1. TypeOK /\ Indexed /\ OpOK /\ \A r \in Responses : RequestOK(r) /\ RecordOK(r)
    BY DEF StoreInv
  <1>2. ASSUME op' = None PROVE OpOK'
    BY <1>2
  <1>3. ASSUME op' = op, dirs \subseteq dirs', UNCHANGED <<holds, record, index, link>>,
               op # None /\ op.r \in Responses /\ pc[op.r] = "own" => pc'[op.r] = "own"
        PROVE  OpOK'
    BY <1>1, <1>3 DEF Pinned
  <1>4. CASE SaveRecord
    <2>1. op.r \in Responses /\ op.s \in Sessions
      BY <1>1, <1>4, OpParts DEF SaveRecord
    <2>2. CASE Live(op.r) /\ record[op.r] # op.s
      <3>1. op' = [step |-> "moved", r |-> op.r, s |-> record[op.r]]
        BY <1>4, <2>2 DEF SaveRecord
      <3>2. record'[op.r] = op.s
        BY <1>1, <1>4, <2>1 DEF SaveRecord, Rewrite, TypeOK
      <3> QED
        BY <2>1, <2>2, <3>1, <3>2
    <2>3. CASE ~(Live(op.r) /\ record[op.r] # op.s)
      BY <1>2, <1>4, <2>3 DEF SaveRecord
    <2> QED
      BY <2>2, <2>3
  <1>5. ASSUME NEW r \in Responses, NEW s \in Sessions, SaveResponse(r, s) PROVE OpOK'
    <2>1. CASE Refused(r)
      BY <1>2, <1>5, <2>1 DEF SaveResponse
    <2>2. CASE ~Refused(r)
      <3>1. op' = [step |-> "record", r |-> r, s |-> s]
        BY <1>5, <2>2 DEF SaveResponse
      <3>2. /\ index' /\ link' = link \cup {<<s, r>>} /\ UNCHANGED <<record, dirs, pc, holds>>
            /\ pc[r] = "own" /\ record[r] # Tombstone
        BY <1>5, <2>2 DEF SaveResponse, WriteLink, Refused
      <3>3. s \in dirs /\ s \in holds[r]
        BY <1>1, <1>5 DEF SaveResponse, RequestOK
      <3> QED
        BY <3>1, <3>2, <3>3
    <2> QED
      BY <2>1, <2>2
  <1>6. ASSUME NEW r \in Responses, DeleteResponse(r) PROVE OpOK'
    <2>1. op' = [step |-> "unlink", r |-> r, s |-> record[r]]
      BY <1>6 DEF DeleteResponse
    <2>2. record'[r] = Tombstone
      BY <1>1, <1>6 DEF DeleteResponse, Rewrite, TypeOK
    <2> QED
      BY <2>1, <2>2
  <1>7. ASSUME NEW r \in Responses, NEW x \in Responses \cup Sessions, Release(r, x) PROVE OpOK'
    <2>1. op' = None \/ op' = [step |-> "cleanup", r |-> None, s |-> x]
      BY <1>7 DEF Release
    <2> QED
      BY <2>1
  <1>8. CASE DeleteLink
    <2>1. op' = [step |-> "cleanup", r |-> None, s |-> op.s]
      BY <1>8 DEF DeleteLink
    <2> QED
      BY <2>1
  <1>9. CASE Cleanup
    <2>1. op.s \in Sessions /\ UNCHANGED <<record, holds>>
      BY <1>1, <1>9, OpParts DEF Cleanup
    <2>2. CASE ~Pinned(op.s) /\ LiveRefs(op.s, IndexLinks) = {}
      <3>1. op' = [step |-> "rmdir", r |-> None, s |-> op.s]
        BY <1>9, <2>2 DEF Cleanup
      <3>2. \A r \in Responses : record[r] # op.s
        BY <1>1, <2>1, <2>2, NoRefsNoRecord
      <3> QED
        BY <2>1, <2>2, <3>1, <3>2 DEF Pinned
    <2>3. CASE ~(~Pinned(op.s) /\ LiveRefs(op.s, IndexLinks) = {})
      BY <1>2, <1>9, <2>3 DEF Cleanup
    <2> QED
      BY <2>2, <2>3
  <1>10. CASE RemoveDir
    <2>1. op' = [step |-> "rmlinks", r |-> op.r, s |-> op.s] /\ UNCHANGED <<record, holds>>
      BY <1>10 DEF RemoveDir
    <2>2. ~Pinned(op.s) /\ \A r \in Responses : record[r] # op.s
      BY <1>1, <1>10 DEF RemoveDir
    <2> QED
      BY <2>1, <2>2 DEF Pinned
  <1>11. ASSUME NEW r \in Responses, PruneResponse(r) PROVE OpOK'
    <2>1. CASE ~StillDue(r)
      BY <1>2, <1>11, <2>1 DEF PruneResponse, PruneTo
    <2>2. CASE StillDue(r)
      <3>1. record' = [record EXCEPT ![r] = None]
        BY <1>11, <2>2 DEF PruneResponse
      <3>2. op' = None \/ \E s \in Sessions : op' = [step |-> "pruned", r |-> r, s |-> s]
        BY <1>11, <2>2 DEF PruneResponse, PruneTo
      <3> QED
        BY <1>1, <3>1, <3>2 DEF TypeOK
    <2> QED
      BY <2>1, <2>2
  <1>12. ASSUME NEW s \in Sessions, PruneSession(s) PROVE OpOK'
    <2>1. UNCHANGED <<record, holds>>
      BY <1>12 DEF PruneSession
    <2>2. CASE Unreferenced(s)
      <3>1. op' = [step |-> "rmdir", r |-> s, s |-> s]
        BY <1>12, <2>2 DEF PruneSession
      <3>2. \A r \in Responses : record[r] # s
        BY <1>1, <2>2, NoRefsNoRecord DEF Unreferenced
      <3> QED
        BY <2>1, <2>2, <3>1, <3>2 DEF Unreferenced, Pinned
    <2>3. CASE ~Unreferenced(s)
      BY <1>2, <1>12, <2>3 DEF PruneSession, PruneTo
    <2> QED
      BY <2>2, <2>3
  <1>13. CASE Crash \/ OpFails \/ SaveMoved \/ RemoveLinks \/ PruneLink
    BY <1>2, <1>13 DEF Crash, OpFails, SaveMoved, RemoveLinks, PruneLink
  <1>14. ASSUME NEW r \in Responses, \/ PinSession(r) \/ PinOwn(r) \/ ClearInputPending(r)
                                     \/ \E p \in Responses : PinPrevious(r, p)
                                     \/ \E s \in Sessions : PinFresh(r, s)
         PROVE  OpOK'
    BY <1>2, <1>14 DEF PinSession, PinOwn, ClearInputPending, PinPrevious, PinFresh
  <1>15. ASSUME NEW r \in Responses, LoadPrevious(r) \/ ResumeSession(r) \/ CreateSession(r) \/ EndTurn(r)
         PROVE  OpOK'
    BY <1>1, <1>3, <1>15 DEF LoadPrevious, ResumeSession, CreateSession, EnsureSession, EndTurn, TypeOK
  <1>16. CASE LoseIndex \/ PruneBegins \/ PlanPrune \/ PruneEnds
    <2>1. op' = None
      BY <1>16 DEF LoseIndex, PruneBegins, PlanPrune, PruneEnds, PruneTo
    <2> QED
      BY <1>2, <2>1
  <1>17. CASE ScanResponses \/ ScanLinks \/ ScanSessions \/ UNCHANGED vars
    <2>1. UNCHANGED <<op, dirs, holds, record, index, link, pc>>
      BY <1>17 DEF ScanResponses, ScanLinks, ScanSessions
    <2> QED
      BY <1>3, <2>1
  <1>18. CASE Ensure
    <2>1. UNCHANGED <<op, record, holds>> /\ ~up
      BY <1>18 DEF Ensure
    <2>2. op = None \/ op.step # "record"
      BY <1>1, <2>1 DEF RequestOK
    <2> QED
      BY <1>1, <2>1, <2>2 DEF Pinned
  <1> QED
    BY <1>4, <1>5, <1>6, <1>7, <1>8, <1>9, <1>10, <1>11, <1>12, <1>13, <1>14, <1>15, <1>16, <1>17,
       <1>18 DEF Next, Request, Write, Prune

----------------------------------------------------------------------------
(* The theorems.                                                             *)

LEMMA InvInit == Init => StoreInv
  <1> SUFFICES ASSUME Init PROVE StoreInv
    OBVIOUS
  <1>1. SessionKept /\ Indexed /\ IndexWhileUp
    BY StoreAssumption DEF Init, SessionKept, Indexed, IndexWhileUp
  <1>2. ASSUME NEW r \in Responses PROVE RequestOK(r) /\ RecordOK(r)
    BY StoreAssumption, <1>2 DEF Init, RequestOK, RecordOK
  <1>3. OpOK
    BY DEF Init, OpOK
  <1> QED
    BY <1>1, <1>2, <1>3, TypeInit DEF StoreInv

LEMMA InvNext ==
  ASSUME IndexMayVanish = FALSE
  PROVE  StoreInv /\ [Next]_vars => StoreInv'
  BY TypeNext, RequestNext, RecordNext, IndexNext, KeptNext, OpNext DEF StoreInv

LEMMA StoreInvariant ==
  ASSUME IndexMayVanish = FALSE
  PROVE  Spec => []StoreInv
  BY InvInit, InvNext, PTL DEF Spec

\* The store's state has its type (the fields of Store, what the handlers pin,
\* what is on disk), whatever requests, deletes, prunes and crashes do.
THEOREM TypeCorrect ==
  ASSUME IndexMayVanish = FALSE
  PROVE  Spec => []TypeOK
  BY StoreInvariant, PTL DEF StoreInv

\* A stored response can be resumed: the session its record names exists at
\* every moment, through late saves, client deletes, clean-ups, retention passes
\* that planned long ago, failed writes and crashes (saveResponseLocked,
\* cleanupSessionIfUnreferencedLocked, removeRetainedLocked) - as long as the
\* link index does not disappear under a running process.
THEOREM SessionsAreKept ==
  ASSUME IndexMayVanish = FALSE
  PROVE  Spec => []SessionKept
  BY StoreInvariant, PTL DEF StoreInv

\* The link index, when there is one, names every live record: no references
\* counted means no references (ensureRetentionLinksLocked and every writer).
THEOREM IndexIsComplete ==
  ASSUME IndexMayVanish = FALSE
  PROVE  Spec => []Indexed
  BY StoreInvariant, PTL DEF StoreInv

\* Nothing pinned is removed: no record that a request has pinned disappears,
\* and no session directory, in any step of any operation (pinPath,
\* removeRetainedLocked, cleanupSessionIfUnreferencedLocked).
THEOREM PinnedIsKept ==
  ASSUME IndexMayVanish = FALSE
  PROVE  Spec => PinnedStays
  <1> DEFINE Stays == /\ \A r \in Responses : Pinned(r) /\ record[r] # None => record'[r] # None
                      /\ \A s \in dirs : Pinned(s) => s \in dirs'
  <1>1. StoreInv /\ [Next]_vars => [Stays]_vars
    <2> SUFFICES ASSUME StoreInv, Next PROVE Stays
      OBVIOUS
    <2>1. TypeOK /\ OpOK
      BY DEF StoreInv
    <2>2. ASSUME dirs \subseteq dirs', UNCHANGED record PROVE Stays
      BY <2>2
    <2>3. CASE SaveRecord
      BY <2>1, <2>3, StoreAssumption, OpParts DEF SaveRecord, Rewrite, OpOK, TypeOK
    <2>4. CASE RemoveDir
      BY <2>1, <2>4 DEF RemoveDir, OpOK
    <2>5. ASSUME NEW r \in Responses, DeleteResponse(r) \/ ClearInputPending(r) PROVE Stays
      BY <2>1, <2>5, StoreAssumption DEF DeleteResponse, ClearInputPending, Rewrite, TypeOK
    <2>6. ASSUME NEW r \in Responses, PruneResponse(r) PROVE Stays
      <3>1. record' = record \/ (record' = [record EXCEPT ![r] = None] /\ ~Pinned(r))
        BY <2>6 DEF PruneResponse, StillDue
      <3>2. dirs' = dirs
        BY <2>6 DEF PruneResponse
      <3> QED
        BY <2>1, <3>1, <3>2 DEF TypeOK
    <2>7. ASSUME NEW r \in Responses, Request(r) PROVE Stays
      BY <2>2, <2>7 DEF Request, PinSession, LoadPrevious, ResumeSession, CreateSession,
                        EnsureSession, PinOwn, EndTurn, PinPrevious, PinFresh, SaveResponse, Release
    <2>8. CASE \/ SaveMoved \/ DeleteLink \/ Cleanup \/ RemoveLinks \/ PruneLink \/ OpFails
               \/ Ensure \/ Crash \/ LoseIndex
      BY <2>2, <2>8 DEF SaveMoved, DeleteLink, Cleanup, RemoveLinks, PruneLink, OpFails, Ensure,
                        Crash, LoseIndex
    <2>9. CASE PruneBegins \/ ScanResponses \/ ScanLinks \/ ScanSessions \/ PlanPrune \/ PruneEnds
      <3>1. UNCHANGED <<record, dirs>>
        BY <2>9 DEF PruneBegins, ScanResponses, ScanLinks, ScanSessions, PlanPrune, PruneEnds
      <3> QED
        BY <2>2, <3>1
    <2>10. ASSUME NEW s \in Sessions, PruneSession(s) PROVE Stays
      BY <2>2, <2>10 DEF PruneSession
    <2> QED
      BY <2>3, <2>4, <2>5, <2>6, <2>7, <2>8, <2>9, <2>10 DEF Next, Write, Prune
  <1> QED
    BY <1>1, StoreInvariant, PTL DEF Spec, PinnedStays, Stays

\* The mapped state of a response.
LifeOf(r) == IF Live(r) THEN "live"
             ELSE IF record[r] = Tombstone THEN "deleted"
             ELSE IF r \in published THEN "gone" ELSE "new"

HomeOf(r) == IF Live(r) THEN record[r] ELSE None

life == [r \in Responses |-> LifeOf(r)]
home == [r \in Responses |-> HomeOf(r)]

\* Where one response's record changes, the others' mapped state stays.
LEMMA LifeChanges ==
  ASSUME TypeOK, NEW r \in Responses, NEW value,
         record' = [record EXCEPT ![r] = value],
         \A q \in Responses \ {r} : q \in published' <=> q \in published
  PROVE  /\ life' = [life EXCEPT ![r] = LifeOf(r)']
         /\ home' = [home EXCEPT ![r] = HomeOf(r)']
  <1>1. \A q \in Responses \ {r} : record'[q] = record[q]
    BY DEF TypeOK
  <1>2. \A q \in Responses \ {r} : HomeOf(q)' = HomeOf(q)
    BY <1>1 DEF HomeOf, Live
  <1>3. \A q \in Responses \ {r} : LifeOf(q)' = LifeOf(q)
    BY <1>1 DEF LifeOf, Live
  <1> QED
    BY <1>2, <1>3 DEF life, home

\* The detailed store is a ResponseLife: a response is published once and on an
\* open session, moved only to another, never comes back after a client deleted
\* it or retention dropped it, and only a session that no live response needs is
\* removed (Store's operations, step by step under s.mu).
THEOREM StoreImplementsLife ==
  ASSUME IndexMayVanish = FALSE
  PROVE  Spec => ImplementsResponseLife
  <1>1. Init => Life!Init
    BY StoreAssumption DEF Init, Life!Init, Life!Kept
  <1>2. StoreInv /\ [Next]_vars => [Life!Next]_<<life, home, dirs>>
    <2> SUFFICES ASSUME StoreInv, [Next]_vars
                 PROVE  Life!Next \/ UNCHANGED <<life, home, dirs>>
      OBVIOUS
    <2>1. /\ TypeOK /\ SessionKept /\ OpOK
          /\ \A r \in Responses : RequestOK(r) /\ RecordOK(r)
      BY DEF StoreInv
    <2>2. ASSUME UNCHANGED <<record, published>> PROVE UNCHANGED <<life, home>>
      BY <2>2 DEF life, home, LifeOf, HomeOf
    <2>3. ASSUME NEW r \in Responses, ResumeSession(r) \/ CreateSession(r) PROVE Life!Next
      <3>1. at[r] \in Sessions /\ dirs' = dirs \cup {at[r]} /\ UNCHANGED <<record, published>>
        BY <2>1, <2>3 DEF ResumeSession, CreateSession, EnsureSession, RequestOK
      <3>2. Life!Open(at[r])
        BY <2>2, <3>1 DEF Life!Open, life, home, LifeOf, HomeOf
      <3> QED
        BY <3>1, <3>2 DEF Life!Next
    <2>4. CASE SaveRecord
      <3>1. /\ op.r \in Responses /\ op.s \in Sessions /\ op.s \in dirs
            /\ record[op.r] # Tombstone /\ pc[op.r] = "own"
        BY <2>1, <2>4, OpParts DEF SaveRecord, OpOK
      <3>2. record' = [record EXCEPT ![op.r] = op.s] /\ published' = published \cup {op.r} /\ dirs' = dirs
        BY <2>4 DEF SaveRecord, Rewrite
      <3>3. LifeOf(op.r) \in {"new", "live"}
        BY <2>1, <3>1, StoreAssumption DEF LifeOf, RecordOK, TypeOK
      <3>4. record'[op.r] = op.s
        BY <2>1, <3>1, <3>2 DEF TypeOK
      <3>5. life' = [life EXCEPT ![op.r] = "live"] /\ home' = [home EXCEPT ![op.r] = op.s]
        BY <2>1, <3>1, <3>2, <3>4 DEF life, home, LifeOf, HomeOf, TypeOK
      <3>6. PICK r \in Responses, s \in Sessions : r = op.r /\ s = op.s
        BY <3>1
      <3>7. Life!Publish(r, s)
        BY <3>1, <3>2, <3>3, <3>5, <3>6 DEF Life!Publish, life, home, LifeOf, HomeOf
      <3> QED
        BY <3>7 DEF Life!Next
    <2>5. ASSUME NEW r \in Responses, DeleteResponse(r) PROVE Life!Next
      <3>1. record' = [record EXCEPT ![r] = Tombstone] /\ UNCHANGED <<published, dirs>> /\ Live(r)
        BY <2>5 DEF DeleteResponse, Rewrite
      <3>2. record'[r] = Tombstone
        BY <2>1, <3>1 DEF TypeOK
      <3>3. life' = [life EXCEPT ![r] = "deleted"] /\ home' = [home EXCEPT ![r] = None]
        BY <2>1, <3>1, <3>2, LifeChanges, StoreAssumption DEF LifeOf, HomeOf
      <3>4. Life!Delete(r)
        BY <3>1, <3>3 DEF Life!Delete, life, home, LifeOf, HomeOf
      <3> QED
        BY <3>4 DEF Life!Next
    <2>6. ASSUME NEW r \in Responses, ClearInputPending(r) PROVE UNCHANGED <<life, home, dirs>>
      BY <2>1, <2>2, <2>6 DEF ClearInputPending, Rewrite, TypeOK
    <2>7. ASSUME NEW r \in Responses, PruneResponse(r) PROVE Life!Next \/ UNCHANGED <<life, home, dirs>>
      <3>1. UNCHANGED <<published, dirs>>
        BY <2>7 DEF PruneResponse
      <3>2. CASE ~StillDue(r)
        BY <2>2, <2>7, <3>1, <3>2 DEF PruneResponse
      <3>3. CASE StillDue(r)
        <4>1. record' = [record EXCEPT ![r] = None] /\ record[r] # None
          BY <2>7, <3>3 DEF PruneResponse, StillDue
        <4>2. record'[r] = None /\ r \in published
          BY <2>1, <4>1 DEF TypeOK, RecordOK
        <4>3. life' = [life EXCEPT ![r] = "gone"] /\ home' = [home EXCEPT ![r] = None]
          BY <2>1, <3>1, <4>1, <4>2, LifeChanges, StoreAssumption DEF LifeOf, HomeOf
        <4>4. LifeOf(r) \in {"live", "deleted"}
          BY <2>1, <4>1 DEF LifeOf, TypeOK
        <4>5. Life!Retire(r)
          BY <3>1, <4>3, <4>4 DEF Life!Retire, life, home, LifeOf, HomeOf
        <4> QED
          BY <4>5 DEF Life!Next
      <3> QED
        BY <3>2, <3>3
    <2>8. CASE RemoveDir
      <3>1. /\ op.s \in Sessions /\ dirs' = dirs \ {op.s} /\ UNCHANGED <<record, published>>
            /\ \A r \in Responses : record[r] # op.s
        BY <2>1, <2>8, OpParts DEF RemoveDir, OpOK
      <3>2. Life!Close(op.s)
        BY <2>2, <3>1 DEF Life!Close, life, home, LifeOf, HomeOf
      <3> QED
        BY <3>1, <3>2 DEF Life!Next
    <2>9. ASSUME NEW r \in Responses,
                 \/ LoadPrevious(r) \/ PinSession(r) \/ PinOwn(r) \/ EndTurn(r)
                 \/ \E p \in Responses : PinPrevious(r, p)
                 \/ \E s \in Sessions : PinFresh(r, s) \/ SaveResponse(r, s)
                 \/ \E x \in Responses \cup Sessions : Release(r, x)
          PROVE  UNCHANGED <<life, home, dirs>>
      BY <2>2, <2>9 DEF LoadPrevious, PinSession, PinOwn, EndTurn, PinPrevious, PinFresh,
                        SaveResponse, Release
    <2>10. ASSUME \/ SaveMoved \/ DeleteLink \/ Cleanup \/ RemoveLinks \/ PruneLink \/ OpFails
                  \/ Ensure \/ Crash \/ LoseIndex \/ UNCHANGED vars
           PROVE  UNCHANGED <<life, home, dirs>>
      BY <2>2, <2>10 DEF SaveMoved, DeleteLink, Cleanup, RemoveLinks, PruneLink, OpFails, Ensure,
                         Crash, LoseIndex
    <2>11. ASSUME \/ PruneBegins \/ ScanResponses \/ ScanLinks \/ ScanSessions \/ PlanPrune
                  \/ PruneEnds \/ \E s \in Sessions : PruneSession(s)
           PROVE  UNCHANGED <<life, home, dirs>>
      <3>1. UNCHANGED <<record, published, dirs>>
        BY <2>11 DEF PruneBegins, ScanResponses, ScanLinks, ScanSessions, PlanPrune, PruneEnds,
                     PruneSession
      <3> QED
        BY <2>2, <3>1
    <2> QED
      BY <2>3, <2>4, <2>5, <2>6, <2>7, <2>8, <2>9, <2>10, <2>11 DEF Next, Request, Write, Prune
  <1> QED
    BY <1>1, <1>2, StoreInvariant, PTL
       DEF Spec, ImplementsResponseLife, Life!Spec, Life!vars, life, home, LifeOf, HomeOf

----------------------------------------------------------------------------
(* References and the records they are for.                                  *)

\* No write has failed and no process has crashed.
Clean == crashes = 0 /\ failures = 0

\* The operation under the lock is at one of these steps for r and s.
OpOn(s, r, steps) == op # None /\ op.step \in steps /\ op.r = r /\ op.s = s

\* Without an index there are no links, and what only the server does finds it
\* running.
NoIndex == ~index => link = {}
OpUp    == op # None /\ op.step \in {"record", "moved", "unlink", "cleanup"} => up

\* A link is its record's, or the operation is about to write the record or to
\* remove the link.
LinksFollow ==
    Clean => \A s \in Sessions, r \in Responses \ moved :
               <<s, r>> \in link => record[r] = s \/ OpOn(s, r, {"record", "unlink", "pruned"})

\* A record that prune may still remove: scanned, and not written since.
Seen(r) == r \in prune.files \cup prune.plan /\ r \notin touched \cup moved

\* Of such a record prune knows the link, and no other.
PlanKnows(r) ==
    /\ index => <<record[r], r>> \in prune.links
    /\ Clean => \A s \in Sessions : <<s, r>> \in prune.links =>
                  record[r] = s \/ (op # None /\ op.step = "record" /\ op.r = r)
PlanFollows ==
    prune.step \in {"dirs", "plan", "apply"} =>
      \A r \in Responses : Seen(r) /\ Live(r) => PlanKnows(r)

RefInv == NoIndex /\ OpUp /\ LinksFollow /\ PlanFollows

\* What requests do before and after a save leaves records and links alone.
RefQuiet == UNCHANGED <<record, index, link, up, op, prune, touched, moved, crashes, failures>>

LEMMA RequestsAreQuiet ==
  ASSUME NEW r \in Responses, \/ PinSession(r) \/ LoadPrevious(r) \/ ResumeSession(r)
                              \/ CreateSession(r) \/ PinOwn(r) \/ EndTurn(r)
                              \/ \E p \in Responses : PinPrevious(r, p)
                              \/ \E s \in Sessions : PinFresh(r, s)
  PROVE  RefQuiet
  BY DEF PinSession, LoadPrevious, ResumeSession, CreateSession, EnsureSession, PinOwn, EndTurn,
         PinPrevious, PinFresh, RefQuiet

\* A fault ends the clean time.
LEMMA FaultsStain == TypeOK /\ (Crash \/ OpFails) => ~Clean'
  BY StoreAssumption DEF TypeOK, Crash, OpFails, Clean

LEMMA UpNext == StoreInv /\ OpUp /\ NoIndex /\ [Next]_vars => (OpUp /\ NoIndex)'
  <1> SUFFICES ASSUME StoreInv, OpUp, NoIndex, [Next]_vars PROVE (OpUp /\ NoIndex)'
    OBVIOUS
  <1> USE DEF OpUp, NoIndex
  <1>1. ASSUME op' = op \/ op' = None \/ up', up => up', index' = index, link' \subseteq link
        PROVE  (OpUp /\ NoIndex)'
    BY <1>1
  <1>2. ASSUME op' = op \/ op' = None, up => up', index' PROVE (OpUp /\ NoIndex)'
    BY <1>2
  <1>3. ASSUME NEW r \in Responses, \/ PinSession(r) \/ LoadPrevious(r) \/ ResumeSession(r)
                                    \/ CreateSession(r) \/ PinOwn(r) \/ EndTurn(r)
                                    \/ \E p \in Responses : PinPrevious(r, p)
                                    \/ \E s \in Sessions : PinFresh(r, s)
        PROVE  (OpUp /\ NoIndex)'
    BY <1>1, <1>3, RequestsAreQuiet DEF RefQuiet
  <1>4. ASSUME NEW r \in Responses, NEW x \in Responses \cup Sessions, Release(r, x)
        PROVE  (OpUp /\ NoIndex)'
    BY <1>1, <1>4 DEF Release
  <1>5. ASSUME NEW r \in Responses, NEW s \in Sessions, SaveResponse(r, s)
        PROVE  (OpUp /\ NoIndex)'
    BY <1>5 DEF SaveResponse, WriteLink
  <1>6. ASSUME NEW r \in Responses, DeleteResponse(r) \/ ClearInputPending(r)
        PROVE  (OpUp /\ NoIndex)'
    BY <1>1, <1>6 DEF DeleteResponse, ClearInputPending
  <1>7. CASE SaveRecord \/ SaveMoved
    BY <1>1, <1>7 DEF SaveRecord, SaveMoved, RemoveLink
  <1>8. CASE DeleteLink \/ PruneLink \/ RemoveLinks
    BY <1>1, <1>8 DEF DeleteLink, PruneLink, RemoveLinks, RemoveLink
  <1>9. CASE Cleanup
    <2>1. up' = up /\ up
      BY <1>9 DEF Cleanup
    <2>2. index' \/ (index' = index /\ link' = link)
      BY <1>9 DEF Cleanup
    <2> QED
      BY <2>1, <2>2
  <1>10. CASE RemoveDir
    BY <1>10 DEF RemoveDir
  <1>11. CASE OpFails
    BY <1>1, <1>11 DEF OpFails
  <1>12. CASE PruneBegins
    BY <1>1, <1>2, <1>12 DEF PruneBegins
  <1>13. CASE ScanResponses \/ ScanLinks \/ ScanSessions \/ PlanPrune \/ PruneEnds
    <2>1. UNCHANGED <<index, link, up, op>>
      BY <1>13 DEF ScanResponses, ScanLinks, ScanSessions, PlanPrune, PruneEnds
    <2> QED
      BY <1>1, <2>1
  <1>14. ASSUME NEW r \in Responses, PruneResponse(r) PROVE (OpUp /\ NoIndex)'
    <2>1. UNCHANGED <<index, link, up>> /\ (op' = op \/ \E s \in Sessions : op' = [step |-> "pruned", r |-> r, s |-> s])
      BY <1>14 DEF PruneResponse
    <2> QED
      BY <2>1
  <1>15. ASSUME NEW s \in Sessions, PruneSession(s) PROVE (OpUp /\ NoIndex)'
    <2>1. UNCHANGED <<index, up>> /\ link' \subseteq link
      BY <1>15 DEF PruneSession
    <2>2. op' = op \/ op' = [step |-> "rmdir", r |-> s, s |-> s]
      BY <1>15 DEF PruneSession
    <2> QED
      BY <2>1, <2>2
  <1>16. CASE Ensure
    BY <1>2, <1>16 DEF Ensure
  <1>17. CASE Crash \/ LoseIndex
    BY <1>17 DEF Crash, LoseIndex
  <1>18. CASE UNCHANGED vars
    BY <1>1, <1>18
  <1> QED
    BY <1>3, <1>4, <1>5, <1>6, <1>7, <1>8, <1>9, <1>10, <1>11, <1>12, <1>13, <1>14, <1>15, <1>16,
       <1>17, <1>18 DEF Next, Request, Write, Prune

\* Every write makes its link before the record and drops it after; a removal
\* by prune knows the link from its scan.
LEMMA LinksNext ==
  StoreInv /\ RefInv /\ [Next]_vars => LinksFollow'
  <1> SUFFICES ASSUME StoreInv, RefInv, [Next]_vars, Clean',
                      NEW s \in Sessions, NEW r \in Responses, r \notin moved',
                      <<s, r>> \in link'
               PROVE  record'[r] = s \/ OpOn(s, r, {"record", "unlink", "pruned"})'
    BY DEF LinksFollow
  <1> DEFINE Follows == record'[r] = s \/ OpOn(s, r, {"record", "unlink", "pruned"})'
  <1> USE StoreAssumption DEF OpOn
  <1>1. TypeOK /\ OpOK /\ NoIndex /\ OpUp /\ PlanFollows
    BY DEF StoreInv, RefInv
  <1>2. ~Crash /\ ~OpFails
    BY <1>1, FaultsStain
  <1>3. Clean => (r \notin moved /\ <<s, r>> \in link
                    => record[r] = s \/ OpOn(s, r, {"record", "unlink", "pruned"}))
    BY DEF RefInv, LinksFollow
  <1>4. ASSUME UNCHANGED <<crashes, failures, moved, record>>, link' \subseteq link,
               op' = op \/ op = None \/ op.step \notin {"record", "unlink", "pruned"}
        PROVE  Follows
    BY <1>3, <1>4 DEF Clean
  <1>5. ASSUME UNCHANGED <<crashes, failures, moved, record>>, link' \subseteq IndexLinks,
               op' = op \/ op = None \/ op.step \notin {"record", "unlink", "pruned"}
        PROVE  Follows
    <2>1. <<s, r>> \in link \/ record[r] = s
      BY <1>5 DEF IndexLinks
    <2> QED
      BY <1>3, <1>5, <2>1 DEF Clean
  <1>6. ASSUME NEW q \in Responses, \/ PinSession(q) \/ LoadPrevious(q) \/ ResumeSession(q)
                                    \/ CreateSession(q) \/ PinOwn(q) \/ EndTurn(q)
                                    \/ \E p \in Responses : PinPrevious(q, p)
                                    \/ \E t \in Sessions : PinFresh(q, t)
        PROVE  Follows
    <2>1. RefQuiet
      BY <1>6, RequestsAreQuiet
    <2> QED
      BY <1>4, <2>1 DEF RefQuiet
  <1>7. ASSUME NEW q \in Responses, NEW x \in Responses \cup Sessions, Release(q, x) PROVE Follows
    BY <1>4, <1>7 DEF Release
  <1>8. ASSUME NEW q \in Responses, NEW t \in Sessions, SaveResponse(q, t) PROVE Follows
    <2>1. op = None /\ UNCHANGED <<crashes, failures, moved, record>>
      BY <1>8 DEF SaveResponse
    <2>2. CASE Refused(q)
      <3>1. link' = link
        BY <1>8, <2>2 DEF SaveResponse
      <3> QED
        BY <1>4, <2>1, <3>1
    <2>3. CASE ~Refused(q)
      <3>1. link' = link \cup {<<t, q>>} /\ op' = [step |-> "record", r |-> q, s |-> t]
        BY <1>8, <2>3 DEF SaveResponse, WriteLink
      <3>2. op' # None
        BY <3>1, OpMade DEF Steps
      <3>3. CASE <<s, r>> \in link
        BY <1>3, <2>1, <3>3 DEF Clean
      <3>4. CASE s = t /\ r = q
        BY <3>1, <3>4, <3>2
      <3> QED
        BY <3>1, <3>3, <3>4
    <2> QED
      BY <2>2, <2>3
  <1>9. CASE SaveRecord
    <2>1. /\ op # None /\ op.step = "record" /\ op.r \in Responses
          /\ record' = [record EXCEPT ![op.r] = op.s]
          /\ UNCHANGED <<crashes, failures, link>> /\ moved \subseteq moved'
      BY <1>1, <1>9 DEF SaveRecord, Rewrite, OpOK
    <2>2. record[r] = s \/ (op.r = r /\ op.s = s)
      BY <1>3, <2>1 DEF Clean
    <2>3. CASE op.r = r /\ op.s # s
      <3>1. op.r \in moved'
        BY <1>9, <2>2, <2>3 DEF SaveRecord
      <3> QED
        BY <2>3, <3>1
    <2>4. CASE op.r # r \/ op.s = s
      BY <1>1, <2>1, <2>2, <2>4 DEF TypeOK
    <2> QED
      BY <2>3, <2>4
  <1>10. CASE SaveMoved
    BY <1>4, <1>10 DEF SaveMoved, RemoveLink
  <1>11. CASE DeleteLink \/ PruneLink
    <2>1. /\ link' = link \ {<<op.s, op.r>>}
          /\ UNCHANGED <<crashes, failures, moved, record>>
      BY <1>11 DEF DeleteLink, PruneLink, RemoveLink
    <2> QED
      BY <1>3, <2>1 DEF Clean
  <1>12. CASE RemoveLinks
    BY <1>4, <1>12 DEF RemoveLinks
  <1>13. CASE RemoveDir
    BY <1>4, <1>13 DEF RemoveDir
  <1>14. CASE Cleanup
    <2>1. /\ op.step \notin {"record", "unlink", "pruned"}
          /\ UNCHANGED <<crashes, failures, moved, record>>
      BY <1>14 DEF Cleanup
    <2>2. link' = link \/ link' \subseteq IndexLinks
      BY <1>14 DEF Cleanup
    <2> QED
      BY <1>4, <1>5, <2>1, <2>2
  <1>15. ASSUME NEW q \in Responses, ClearInputPending(q) PROVE Follows
    <2>1. record' = record
      BY <1>1, <1>15 DEF ClearInputPending, Rewrite, TypeOK
    <2> QED
      BY <1>4, <1>15, <2>1 DEF ClearInputPending
  <1>16. ASSUME NEW q \in Responses, DeleteResponse(q) PROVE Follows
    <2>1. /\ op = None /\ op' = [step |-> "unlink", r |-> q, s |-> record[q]]
          /\ record' = [record EXCEPT ![q] = Tombstone]
          /\ UNCHANGED <<crashes, failures, moved, link>>
      BY <1>16 DEF DeleteResponse, Rewrite
    <2>2. record[r] = s
      BY <1>3, <2>1 DEF Clean
    <2>3. q = r => op' # None
      BY <2>1, <2>2, OpMade DEF Steps
    <2> QED
      BY <1>1, <2>1, <2>2, <2>3 DEF TypeOK
  <1>17. ASSUME NEW q \in Responses, PruneResponse(q) PROVE Follows
    <2>1. /\ op = None /\ prune.step = "apply" /\ q \in prune.plan
          /\ UNCHANGED <<crashes, failures, moved, link>>
      BY <1>17 DEF PruneResponse, PruneTo
    <2>2. record[r] = s
      BY <1>3, <2>1 DEF Clean
    <2>3. CASE ~(q = r /\ StillDue(q))
      <3>1. record'[r] = record[r]
        BY <1>1, <1>17, <2>3 DEF PruneResponse, TypeOK
      <3> QED
        BY <2>2, <3>1
    <2>4. CASE q = r /\ StillDue(q)
      <3>1. Seen(r) /\ Live(r) /\ index
        BY <1>1, <2>1, <2>2, <2>4 DEF Seen, StillDue, NoIndex
      <3>2. <<s, r>> \in prune.links
            /\ \A t \in Sessions : <<t, r>> \in prune.links => record[r] = t
        BY <1>1, <2>1, <2>2, <3>1 DEF PlanFollows, PlanKnows, Clean
      <3>3. op' = [step |-> "pruned", r |-> r, s |-> s]
        BY <1>17, <2>2, <2>4, <3>2 DEF PruneResponse
      <3>4. op' # None
        BY <3>3, OpMade DEF Steps
      <3> QED
        BY <3>3, <3>4
    <2> QED
      BY <2>3, <2>4
  <1>18. ASSUME NEW t \in Sessions, PruneSession(t) PROVE Follows
    <2>1. link' \subseteq link /\ op = None /\ UNCHANGED <<crashes, failures, moved, record>>
      BY <1>18 DEF PruneSession, PruneTo
    <2> QED
      BY <1>4, <2>1
  <1>19. CASE PruneBegins
    <2>1. link' \subseteq IndexLinks \/ link' = link
      BY <1>19 DEF PruneBegins
    <2>2. op = None /\ UNCHANGED <<crashes, failures, moved, record>>
      BY <1>19 DEF PruneBegins, PruneTo
    <2> QED
      BY <1>4, <1>5, <2>1, <2>2
  <1>20. CASE ScanResponses \/ ScanLinks \/ ScanSessions \/ PlanPrune \/ PruneEnds
    <2>1. UNCHANGED <<crashes, failures, moved, record, link, op>>
      BY <1>20 DEF ScanResponses, ScanLinks, ScanSessions, PlanPrune, PruneEnds
    <2> QED
      BY <1>4, <2>1
  <1>21. CASE Ensure
    BY <1>5, <1>21 DEF Ensure
  <1>22. CASE LoseIndex
    BY <1>22 DEF LoseIndex
  <1>23. CASE UNCHANGED vars
    BY <1>4, <1>23
  <1> QED
    BY <1>2, <1>6, <1>7, <1>8, <1>9, <1>10, <1>11, <1>12, <1>13, <1>14, <1>15, <1>16, <1>17, <1>18,
       <1>19, <1>20, <1>21, <1>22, <1>23 DEF Next, Request, Write, Prune

\* What prune has seen stays true of the records nobody writes; the others are
\* marked (modificationUnchanged).
LEMMA PlanNext ==
  StoreInv /\ RefInv /\ [Next]_vars => PlanFollows'
  <1> SUFFICES ASSUME StoreInv, RefInv, [Next]_vars, prune'.step \in {"dirs", "plan", "apply"},
                      NEW r \in Responses, Seen(r)', Live(r)'
               PROVE  PlanKnows(r)'
    BY DEF PlanFollows
  <1> USE StoreAssumption DEF Seen
  <1>1. TypeOK /\ OpOK /\ NoIndex /\ OpUp /\ Indexed /\ IndexWhileUp
    BY DEF StoreInv, RefInv
  <1>2. prune.step \in {"dirs", "plan", "apply"} /\ Seen(r) /\ Live(r) => PlanKnows(r)
    BY DEF RefInv, PlanFollows
  <1>3. ASSUME prune.step \in {"dirs", "plan", "apply"}, Seen(r), record'[r] = record[r],
               index' => index, Clean' => Clean, prune'.links \subseteq prune.links,
               <<record[r], r>> \in prune.links => <<record[r], r>> \in prune'.links,
               Clean' => op' = op \/ op = None \/ op.step # "record" \/ op.r # r
        PROVE  PlanKnows(r)'
    BY <1>2, <1>3 DEF PlanKnows
  <1>4. ASSUME UNCHANGED <<record, prune, moved, crashes, failures>>, index' => index,
               touched \subseteq touched', op' = op \/ op = None \/ op.step # "record"
        PROVE  PlanKnows(r)'
    BY <1>3, <1>4 DEF Clean
  <1>5. ASSUME NEW q \in Responses, NEW value, Rewrite(q, value), UNCHANGED <<prune, index, crashes, failures>>,
               moved \subseteq moved', op # None => op.r = q
        PROVE  PlanKnows(r)'
    <2>1. q # r /\ Seen(r) /\ record'[r] = record[r]
      BY <1>1, <1>5 DEF Rewrite, TypeOK
    <2> QED
      BY <1>3, <1>5, <2>1 DEF Clean
  <1>6. ASSUME NEW q \in Responses, \/ PinSession(q) \/ LoadPrevious(q) \/ ResumeSession(q)
                                    \/ CreateSession(q) \/ PinOwn(q) \/ EndTurn(q)
                                    \/ \E p \in Responses : PinPrevious(q, p)
                                    \/ \E t \in Sessions : PinFresh(q, t)
        PROVE  PlanKnows(r)'
    <2>1. RefQuiet
      BY <1>6, RequestsAreQuiet
    <2> QED
      BY <1>4, <2>1 DEF RefQuiet
  <1>7. ASSUME NEW q \in Responses, NEW x \in Responses \cup Sessions, Release(q, x)
        PROVE  PlanKnows(r)'
    BY <1>4, <1>7 DEF Release
  <1>8. ASSUME NEW q \in Responses, NEW t \in Sessions, SaveResponse(q, t) PROVE PlanKnows(r)'
    <2>1. op = None /\ index /\ UNCHANGED <<record, prune, touched, moved, crashes, failures>>
      BY <1>1, <1>8 DEF SaveResponse, IndexWhileUp
    <2> QED
      BY <1>4, <2>1
  <1>9. CASE SaveRecord
    <2>1. op.r \in Responses /\ Rewrite(op.r, op.s) /\ UNCHANGED <<prune, index, crashes, failures>>
          /\ moved \subseteq moved'
      BY <1>1, <1>9 DEF SaveRecord, OpOK
    <2> QED
      BY <1>5, <2>1
  <1>10. ASSUME NEW q \in Responses, DeleteResponse(q) PROVE PlanKnows(r)'
    BY <1>5, <1>10 DEF DeleteResponse
  <1>11. ASSUME NEW q \in Responses, ClearInputPending(q) PROVE PlanKnows(r)'
    BY <1>5, <1>11 DEF ClearInputPending
  <1>12. CASE SaveMoved \/ DeleteLink \/ PruneLink \/ RemoveDir \/ RemoveLinks
    BY <1>4, <1>12 DEF SaveMoved, DeleteLink, PruneLink, RemoveDir, RemoveLinks
  <1>13. CASE Cleanup
    <2>1. op.step = "cleanup" /\ index
      BY <1>1, <1>13 DEF Cleanup, OpUp, IndexWhileUp
    <2>2. UNCHANGED <<record, prune, touched, moved, crashes, failures>>
      BY <1>13 DEF Cleanup
    <2> QED
      BY <1>4, <2>1, <2>2
  <1>14. CASE OpFails
    <2>1. ~Clean' /\ UNCHANGED <<record, prune, index, touched, moved>>
      BY <1>1, <1>14, FaultsStain DEF OpFails
    <2> QED
      BY <1>3, <2>1
  <1>15. CASE PruneBegins \/ ScanResponses \/ PruneEnds \/ Crash
    <2>1. PruneBegins => prune'.step = "files"
      BY <1>1 DEF PruneBegins, TypeOK
    <2>2. ScanResponses => prune'.step = "links"
      BY <1>1 DEF ScanResponses, TypeOK
    <2>3. PruneEnds \/ Crash => prune'.step = "idle"
      BY DEF PruneEnds, Crash, NoPrune
    <2> QED
      BY <1>15, <2>1, <2>2, <2>3
  <1>16. CASE ScanLinks
    <2>1. /\ prune'.links = link /\ UNCHANGED <<record, index, link, op, moved, crashes, failures>>
          /\ r \notin moved
      BY <1>1, <1>16 DEF ScanLinks, TypeOK
    <2>2. index => <<record[r], r>> \in link
      BY <1>1, <2>1 DEF Indexed
    <2>3. ASSUME Clean, NEW s \in Sessions, <<s, r>> \in link
          PROVE  record[r] = s \/ (op # None /\ op.step = "record" /\ op.r = r)
      <3>1. record[r] = s \/ OpOn(s, r, {"record", "unlink", "pruned"})
        BY <2>1, <2>3 DEF RefInv, LinksFollow
      <3> QED
        BY <1>1, <2>1, <3>1 DEF OpOn, OpOK
    <2> QED
      BY <2>1, <2>2, <2>3 DEF PlanKnows, Clean
  <1>17. CASE ScanSessions
    <2>1. /\ prune' = [prune EXCEPT !.step = "plan", !.dirs = dirs] /\ prune.step = "dirs"
          /\ UNCHANGED <<record, index, op, touched, moved, crashes, failures>>
      BY <1>17 DEF ScanSessions
    <2>2. prune'.links = prune.links /\ prune'.files = prune.files /\ prune'.plan = prune.plan
      BY <1>1, <2>1 DEF TypeOK
    <2> QED
      BY <1>3, <2>1, <2>2 DEF Clean
  <1>18. CASE PlanPrune
    <2>1. PICK chosen \in SUBSET {q \in prune.files : ~Pinned(q)} :
            \E sessions \in SUBSET Collectable(chosen) :
              prune' = [prune EXCEPT !.step = "apply", !.plan = chosen \cup sessions,
                                     !.files = {}, !.dirs = {},
                                     !.links = {l \in @ : l[2] \in chosen}]
      BY <1>18 DEF PlanPrune
    <2>2. PICK sessions \in SUBSET Collectable(chosen) :
            prune' = [prune EXCEPT !.step = "apply", !.plan = chosen \cup sessions,
                                   !.files = {}, !.dirs = {},
                                   !.links = {l \in @ : l[2] \in chosen}]
      BY <2>1
    <2>3. prune'.files = {} /\ prune'.plan = chosen \cup sessions
          /\ prune'.links = {l \in prune.links : l[2] \in chosen}
      BY <1>1, <2>2 DEF TypeOK
    <2>4. sessions \subseteq Sessions /\ chosen \subseteq prune.files
      BY <1>1 DEF Collectable, TypeOK
    <2>5. r \in chosen
      BY <2>3, <2>4
    <2>6. prune.step = "plan" /\ UNCHANGED <<record, index, op, touched, moved, crashes, failures>>
      BY <1>18 DEF PlanPrune, PruneTo
    <2> QED
      BY <1>3, <2>3, <2>4, <2>5, <2>6 DEF Clean
  <1>19. ASSUME NEW q \in Responses, PruneResponse(q) PROVE PlanKnows(r)'
    <2>1. /\ prune.step = "apply" /\ op = None /\ prune' = [prune EXCEPT !.plan = @ \ {q}]
          /\ UNCHANGED <<index, touched, moved, crashes, failures>>
      BY <1>19 DEF PruneResponse, PruneTo
    <2>2. prune'.files = prune.files /\ prune'.links = prune.links /\ prune'.plan \subseteq prune.plan
      BY <1>1, <2>1 DEF TypeOK
    <2>3. record' = record \/ record' = [record EXCEPT ![q] = None]
      BY <1>19 DEF PruneResponse
    <2>4. record'[r] = record[r]
      BY <1>1, <2>3 DEF TypeOK
    <2> QED
      BY <1>3, <2>1, <2>2, <2>4 DEF Clean
  <1>20. ASSUME NEW t \in Sessions, PruneSession(t) PROVE PlanKnows(r)'
    <2>1. /\ prune.step = "apply" /\ op = None /\ prune' = [prune EXCEPT !.plan = @ \ {t}]
          /\ UNCHANGED <<record, index, touched, moved, crashes, failures>>
      BY <1>20 DEF PruneSession, PruneTo
    <2>2. prune'.files = prune.files /\ prune'.links = prune.links /\ prune'.plan \subseteq prune.plan
      BY <1>1, <2>1 DEF TypeOK
    <2> QED
      BY <1>3, <2>1, <2>2 DEF Clean
  <1>21. CASE Ensure
    BY <1>21 DEF Ensure, NoPrune
  <1>22. CASE LoseIndex \/ UNCHANGED vars
    BY <1>4, <1>22 DEF LoseIndex
  <1> QED
    BY <1>6, <1>7, <1>8, <1>9, <1>10, <1>11, <1>12, <1>13, <1>14, <1>15, <1>16, <1>17, <1>18,
       <1>19, <1>20, <1>21, <1>22 DEF Next, Request, Write, Prune

----------------------------------------------------------------------------
(* The sessions that lost their last response to a client.                   *)

\* They are owed only while the server runs, have no link but the one being
\* removed (or given back), and are on their way out: pinned and remembered as
\* orphans, or in the hands of the operation under the lock.
OwedUp    == owed # {} => up
OwedLinks == \A s \in owed, r \in Responses :
               <<s, r>> \in link => OpOn(s, r, {"record", "unlink"})
Going(s)  == \/ s \notin dirs
             \/ Pinned(s) /\ s \in orphanSessions
             \/ op # None /\ op.s = s /\ op.step \in {"unlink", "cleanup", "rmdir"}
OwedGoing == \A s \in owed : Going(s)

OwedInv == OwedUp /\ OwedLinks /\ OwedGoing

LEMMA OwedUpNext == StoreInv /\ OwedInv /\ [Next]_vars => OwedUp'
  <1> SUFFICES ASSUME OwedUp, [Next]_vars PROVE OwedUp'
    BY DEF OwedInv
  <1> USE DEF OwedUp
  <1>1. ASSUME owed' \subseteq owed, up => up' PROVE OwedUp'
    BY <1>1
  <1>2. ASSUME NEW r \in Responses, Request(r) PROVE OwedUp'
    BY <1>1, <1>2 DEF Request, PinSession, LoadPrevious, ResumeSession, CreateSession,
                      EnsureSession, PinOwn, EndTurn, PinPrevious, PinFresh, SaveResponse, Release
  <1>3. ASSUME NEW r \in Responses, DeleteResponse(r) \/ ClearInputPending(r) PROVE OwedUp'
    BY <1>1, <1>3 DEF DeleteResponse, ClearInputPending
  <1>4. CASE Crash
    BY <1>4 DEF Crash
  <1>5. CASE \/ SaveRecord \/ SaveMoved \/ DeleteLink \/ Cleanup \/ RemoveDir \/ RemoveLinks
             \/ PruneLink \/ OpFails \/ Ensure \/ LoseIndex \/ UNCHANGED vars
    BY <1>1, <1>5 DEF SaveRecord, SaveMoved, DeleteLink, Cleanup, RemoveDir, RemoveLinks, PruneLink,
                      OpFails, Ensure, LoseIndex
  <1>6. CASE Prune
    BY <1>1, <1>6 DEF Prune, PruneBegins, ScanResponses, ScanLinks, ScanSessions, PlanPrune,
                      PruneEnds, PruneResponse, PruneSession
  <1> QED
    BY <1>2, <1>3, <1>4, <1>5, <1>6 DEF Next, Write

LEMMA OwedLinksNext == StoreInv /\ RefInv /\ OwedInv /\ [Next]_vars => OwedLinks'
  <1> SUFFICES ASSUME StoreInv, RefInv, OwedInv, [Next]_vars,
                      NEW s \in owed', NEW r \in Responses, <<s, r>> \in link'
               PROVE  OpOn(s, r, {"record", "unlink"})'
    BY DEF OwedLinks
  <1> DEFINE Handled == OpOn(s, r, {"record", "unlink"})'
  <1> USE DEF OpOn
  <1>1. TypeOK /\ OpOK /\ OpUp /\ IndexWhileUp
    BY DEF StoreInv, RefInv
  <1>2. s \in owed /\ <<s, r>> \in link => OpOn(s, r, {"record", "unlink"})
    BY DEF OwedInv, OwedLinks
  <1>3. owed # {} => index /\ IndexLinks = link
    BY DEF OwedInv, OwedUp, IndexWhileUp, StoreInv, IndexLinks
  <1>4. ASSUME owed' \subseteq owed, link' \subseteq link,
               op' = op \/ op = None \/ op.step \notin {"record", "unlink"}
        PROVE  Handled
    BY <1>2, <1>4
  <1>5. ASSUME NEW q \in Responses, \/ PinSession(q) \/ LoadPrevious(q) \/ ResumeSession(q)
                                    \/ CreateSession(q) \/ PinOwn(q) \/ EndTurn(q)
                                    \/ \E p \in Responses : PinPrevious(q, p)
                                    \/ \E t \in Sessions : PinFresh(q, t)
        PROVE  Handled
    <2>1. RefQuiet
      BY <1>5, RequestsAreQuiet
    <2>2. owed' \subseteq owed
      BY <1>5 DEF PinSession, LoadPrevious, ResumeSession, CreateSession, EnsureSession, PinOwn,
                  EndTurn, PinPrevious, PinFresh
    <2> QED
      BY <1>4, <2>1, <2>2 DEF RefQuiet
  <1>6. ASSUME NEW q \in Responses, NEW x \in Responses \cup Sessions, Release(q, x) PROVE Handled
    BY <1>4, <1>6 DEF Release
  <1>7. ASSUME NEW q \in Responses, NEW t \in Sessions, SaveResponse(q, t) PROVE Handled
    <2>1. op = None /\ owed' = owed
      BY <1>7 DEF SaveResponse
    <2>2. CASE Refused(q)
      <3>1. link' = link
        BY <1>7, <2>2 DEF SaveResponse
      <3> QED
        BY <1>4, <2>1, <3>1
    <2>3. CASE ~Refused(q)
      <3>1. link' = link \cup {<<t, q>>} /\ op' = [step |-> "record", r |-> q, s |-> t]
        BY <1>7, <2>3 DEF SaveResponse, WriteLink
      <3>2. op' # None
        BY <3>1, OpMade DEF Steps
      <3>3. s = t /\ r = q
        BY <1>2, <2>1, <3>1
      <3> QED
        BY <3>1, <3>2, <3>3
    <2> QED
      BY <2>2, <2>3
  <1>8. CASE SaveRecord
    BY <1>2, <1>8 DEF SaveRecord
  <1>9. ASSUME NEW q \in Responses, DeleteResponse(q) PROVE Handled
    <2>1. /\ op = None /\ link' = link /\ record[q] \in Sessions
          /\ op' = [step |-> "unlink", r |-> q, s |-> record[q]]
      BY <1>9 DEF DeleteResponse
    <2>2. op' # None
      BY <2>1, OpMade DEF Steps
    <2>3. s = record[q] /\ LinksOf(record[q]) = {q}
      BY <1>2, <1>9, <2>1 DEF DeleteResponse
    <2>4. r = q
      BY <2>1, <2>3 DEF LinksOf
    <2> QED
      BY <2>1, <2>2, <2>3, <2>4
  <1>10. CASE DeleteLink
    BY <1>2, <1>10 DEF DeleteLink, RemoveLink
  <1>11. CASE SaveMoved \/ PruneLink
    BY <1>4, <1>11 DEF SaveMoved, PruneLink, RemoveLink
  <1>12. CASE RemoveDir \/ RemoveLinks
    BY <1>4, <1>12 DEF RemoveDir, RemoveLinks
  <1>13. CASE Cleanup
    <2>1. owed' = owed /\ op.step \notin {"record", "unlink"}
      BY <1>13 DEF Cleanup
    <2>2. link' \subseteq link
      BY <1>3, <1>13, <2>1 DEF Cleanup
    <2> QED
      BY <1>4, <2>1, <2>2
  <1>14. ASSUME NEW q \in Responses, ClearInputPending(q) \/ PruneResponse(q) PROVE Handled
    <2>1. op = None /\ link' = link /\ owed' = owed
      BY <1>14 DEF ClearInputPending, PruneResponse, PruneTo
    <2> QED
      BY <1>4, <2>1
  <1>15. ASSUME NEW t \in Sessions, PruneSession(t) PROVE Handled
    <2>1. op = None /\ link' \subseteq link /\ owed' = owed
      BY <1>15 DEF PruneSession, PruneTo
    <2> QED
      BY <1>4, <2>1
  <1>16. CASE PruneBegins
    <2>1. op = None /\ owed' = owed /\ (link' = link \/ link' = IndexLinks)
      BY <1>16 DEF PruneBegins, PruneTo
    <2> QED
      BY <1>3, <1>4, <2>1
  <1>17. CASE ScanResponses \/ ScanLinks \/ ScanSessions \/ PlanPrune \/ PruneEnds
    <2>1. UNCHANGED <<owed, link, op>>
      BY <1>17 DEF ScanResponses, ScanLinks, ScanSessions, PlanPrune, PruneEnds
    <2> QED
      BY <1>4, <2>1
  <1>18. CASE Ensure
    BY <1>3, <1>4, <1>18 DEF Ensure
  <1>19. CASE OpFails \/ Crash \/ LoseIndex
    BY <1>19 DEF OpFails, Crash, LoseIndex
  <1>20. CASE UNCHANGED vars
    BY <1>4, <1>20
  <1> QED
    BY <1>5, <1>6, <1>7, <1>8, <1>9, <1>10, <1>11, <1>12, <1>13, <1>14, <1>15, <1>16, <1>17,
       <1>18, <1>19, <1>20 DEF Next, Request, Write, Prune

LEMMA OwedGoingNext == StoreInv /\ RefInv /\ OwedInv /\ [Next]_vars => OwedGoing'
  <1> SUFFICES ASSUME StoreInv, RefInv, OwedInv, [Next]_vars, NEW s \in owed'
               PROVE  Going(s)'
    BY DEF OwedGoing
  <1> USE DEF Going
  <1>1. TypeOK /\ OpOK /\ OpUp /\ IndexWhileUp /\ s \in Sessions'
    BY TypeNext DEF StoreInv, RefInv, TypeOK
  <1>2. s \in owed => Going(s)
    BY DEF OwedInv, OwedGoing
  <1>3. ASSUME s \in owed, s \in dirs' => s \in dirs, \A q \in Responses : holds[q] \subseteq holds'[q],
               orphanSessions \subseteq orphanSessions', op' = op \/ op = None
                 \/ op.step \notin {"unlink", "cleanup", "rmdir"}
        PROVE  Going(s)'
    BY <1>2, <1>3 DEF Pinned
  <1>4. ASSUME NEW r \in Responses, \/ PinSession(r) \/ LoadPrevious(r) \/ PinOwn(r) \/ EndTurn(r)
                                    \/ \E p \in Responses : PinPrevious(r, p)
                                    \/ \E t \in Sessions : PinFresh(r, t)
        PROVE  Going(s)'
    <2>1. UNCHANGED <<owed, dirs, orphanSessions, op>>
      BY <1>4 DEF PinSession, LoadPrevious, PinOwn, EndTurn, PinPrevious, PinFresh
    <2>2. \A q \in Responses : holds[q] \subseteq holds'[q]
      BY <1>1, <1>4 DEF PinSession, LoadPrevious, PinOwn, EndTurn, PinPrevious, PinFresh, TypeOK
    <2> QED
      BY <1>3, <2>1, <2>2
  <1>5. ASSUME NEW r \in Responses, ResumeSession(r) \/ CreateSession(r) PROVE Going(s)'
    <2>1. owed' = owed \ {at[r]} /\ dirs' = dirs \cup {at[r]} /\ UNCHANGED <<holds, orphanSessions, op>>
      BY <1>5 DEF ResumeSession, CreateSession, EnsureSession
    <2> QED
      BY <1>3, <2>1
  <1>6. ASSUME NEW r \in Responses, NEW x \in Responses \cup Sessions, Release(r, x)
        PROVE  Going(s)'
    <2>1. /\ op = None /\ UNCHANGED <<dirs, orphanSessions, owed>>
          /\ holds' = [holds EXCEPT ![r] = @ \ {x}]
      BY <1>6 DEF Release
    <2>2. CASE s \in dirs /\ s = x
      <3>1. s \in orphanSessions
        BY <1>2, <2>1, <2>2
      <3>2. op' = [step |-> "cleanup", r |-> None, s |-> s]
        BY <1>6, <2>2, <3>1 DEF Release
      <3>3. op' # None
        BY <1>1, <3>2, OpMade DEF Steps
      <3> QED
        BY <3>2, <3>3
    <2>3. CASE s \in dirs /\ s # x
      <3>1. Pinned(s) /\ s \in orphanSessions
        BY <1>2, <2>1, <2>3
      <3>2. Pinned(s)'
        BY <1>1, <2>1, <2>3, <3>1 DEF Pinned, TypeOK
      <3> QED
        BY <2>1, <3>1, <3>2
    <2>4. CASE s \notin dirs
      BY <2>1, <2>4
    <2> QED
      BY <2>2, <2>3, <2>4
  <1>7. ASSUME NEW r \in Responses, \/ ClearInputPending(r) \/ PruneResponse(r)
                                    \/ \E t \in Sessions : SaveResponse(r, t)
        PROVE  Going(s)'
    <2>1. op = None /\ UNCHANGED <<dirs, orphanSessions, owed, holds>>
      BY <1>7 DEF ClearInputPending, PruneResponse, PruneTo, SaveResponse
    <2> QED
      BY <1>3, <2>1
  <1>8. ASSUME NEW r \in Responses, DeleteResponse(r) PROVE Going(s)'
    <2>1. /\ op = None /\ UNCHANGED <<dirs, orphanSessions, holds>> /\ record[r] \in Sessions
          /\ op' = [step |-> "unlink", r |-> r, s |-> record[r]]
          /\ owed' \subseteq owed \cup {record[r]}
      BY <1>8 DEF DeleteResponse
    <2>2. op' # None
      BY <2>1, OpMade DEF Steps
    <2>3. CASE s = record[r]
      BY <2>1, <2>2, <2>3
    <2>4. CASE s \in owed
      BY <1>3, <2>1, <2>4
    <2> QED
      BY <2>1, <2>3, <2>4
  <1>9. CASE SaveRecord
    <2>1. owed' \subseteq owed /\ op.step = "record" /\ UNCHANGED <<dirs, orphanSessions, holds>>
      BY <1>9 DEF SaveRecord
    <2> QED
      BY <1>3, <2>1
  <1>10. CASE SaveMoved \/ PruneLink
    <2>1. /\ owed' = owed /\ op.step \in {"moved", "pruned"}
          /\ UNCHANGED <<dirs, orphanSessions, holds>>
      BY <1>10 DEF SaveMoved, PruneLink
    <2> QED
      BY <1>3, <2>1
  <1>11. CASE DeleteLink
    <2>1. /\ op # None /\ op.s \in Sessions /\ UNCHANGED <<dirs, orphanSessions, holds, owed>>
          /\ op' = [step |-> "cleanup", r |-> None, s |-> op.s]
      BY <1>1, <1>11, OpParts DEF DeleteLink
    <2>2. op' # None
      BY <2>1, OpMade DEF Steps
    <2>3. CASE s = op.s
      BY <2>1, <2>2, <2>3
    <2>4. CASE s # op.s
      BY <1>2, <2>1, <2>4 DEF Pinned
    <2> QED
      BY <2>3, <2>4
  <1>12. CASE Cleanup
    <2>1. /\ op # None /\ op.step = "cleanup" /\ op.s \in Sessions
          /\ UNCHANGED <<dirs, holds, owed>>
      BY <1>1, <1>12, OpParts DEF Cleanup
    <2>2. CASE s # op.s
      <3>1. s \in orphanSessions => s \in orphanSessions'
        BY <1>12, <2>2 DEF Cleanup
      <3> QED
        BY <1>2, <2>1, <2>2, <3>1 DEF Pinned
    <2>3. CASE s = op.s /\ Pinned(s)
      <3>1. s \in orphanSessions' /\ Pinned(s)'
        BY <1>12, <2>1, <2>3 DEF Cleanup, Pinned
      <3> QED
        BY <3>1
    <2>4. CASE s = op.s /\ ~Pinned(s)
      <3>1. IndexLinks = link
        BY <1>1, <2>1 DEF OpUp, IndexWhileUp, IndexLinks
      <3>2. LiveRefs(s, IndexLinks) = {}
        BY <2>1, <3>1 DEF LiveRefs, OwedInv, OwedLinks, OpOn
      <3>3. op' = [step |-> "rmdir", r |-> None, s |-> s]
        BY <1>12, <2>4, <3>2 DEF Cleanup
      <3>4. op' # None
        BY <1>1, <3>3, OpMade DEF Steps
      <3> QED
        BY <3>3, <3>4
    <2> QED
      BY <2>2, <2>3, <2>4
  <1>13. CASE RemoveDir
    <2>1. op # None /\ dirs' = dirs \ {op.s} /\ UNCHANGED <<orphanSessions, holds, owed>>
      BY <1>13 DEF RemoveDir
    <2>2. CASE s = op.s
      BY <2>1, <2>2
    <2>3. CASE s # op.s
      BY <1>2, <2>1, <2>3 DEF Pinned
    <2> QED
      BY <2>2, <2>3
  <1>14. CASE RemoveLinks
    <2>1. /\ op # None /\ op.step = "rmlinks" /\ UNCHANGED <<dirs, holds, owed>>
          /\ orphanSessions \ {op.s} \subseteq orphanSessions' /\ ~Pinned(op.s)
      BY <1>1, <1>14 DEF RemoveLinks, OpOK
    <2> QED
      BY <1>2, <2>1 DEF Pinned
  <1>15. ASSUME NEW t \in Sessions, PruneSession(t) PROVE Going(s)'
    <2>1. op = None /\ UNCHANGED <<dirs, orphanSessions, holds, owed>>
      BY <1>15 DEF PruneSession, PruneTo
    <2> QED
      BY <1>3, <2>1
  <1>16. CASE PruneBegins \/ ScanResponses \/ ScanLinks \/ ScanSessions \/ PlanPrune \/ PruneEnds
    <2>1. UNCHANGED <<op, dirs, orphanSessions, holds, owed>>
      BY <1>16 DEF PruneBegins, ScanResponses, ScanLinks, ScanSessions, PlanPrune, PruneEnds
    <2> QED
      BY <1>3, <2>1
  <1>17. CASE Ensure \/ LoseIndex \/ UNCHANGED vars
    <2>1. UNCHANGED <<op, dirs, orphanSessions, holds, owed>>
      BY <1>17 DEF Ensure, LoseIndex
    <2> QED
      BY <1>3, <2>1
  <1>18. CASE OpFails \/ Crash
    BY <1>18 DEF OpFails, Crash
  <1> QED
    BY <1>4, <1>5, <1>6, <1>7, <1>8, <1>9, <1>10, <1>11, <1>12, <1>13, <1>14, <1>15, <1>16, <1>17,
       <1>18 DEF Next, Request, Write, Prune

----------------------------------------------------------------------------
(* The theorems about references and deletes.                                *)

FullInv == StoreInv /\ RefInv /\ OwedInv

LEMMA FullInit == Init => FullInv
  <1> SUFFICES ASSUME Init PROVE FullInv
    OBVIOUS
  <1>1. op = None /\ link = {} /\ prune.step = "idle" /\ owed = {}
    BY DEF Init, NoPrune
  <1>2. RefInv
    BY <1>1 DEF RefInv, NoIndex, OpUp, LinksFollow, PlanFollows
  <1>3. OwedInv
    BY <1>1 DEF OwedInv, OwedUp, OwedLinks, OwedGoing
  <1> QED
    BY <1>2, <1>3, InvInit DEF FullInv

LEMMA FullInvariant ==
  ASSUME IndexMayVanish = FALSE
  PROVE  Spec => []FullInv
  <1>1. FullInv /\ [Next]_vars => RefInv'
    BY UpNext, LinksNext, PlanNext DEF FullInv, RefInv
  <1>2. FullInv /\ [Next]_vars => OwedInv'
    BY OwedUpNext, OwedLinksNext, OwedGoingNext DEF FullInv, OwedInv
  <1>3. FullInv /\ [Next]_vars => FullInv'
    BY <1>1, <1>2, InvNext DEF FullInv
  <1> QED
    BY FullInit, <1>3, PTL DEF Spec

\* Nothing but a fault leaves a reference behind: an idle store whose writes all
\* succeeded has, for every link, the live record it counts (saveResponseLocked
\* writes the link first; DeleteResponse, removeRetainedLocked and the clean-up
\* remove the one they know), so that no session is kept for a response that is
\* gone.
THEOREM LinksFollowRecords ==
  ASSUME IndexMayVanish = FALSE
  PROVE  Spec => []LinksAreLive
  <1>1. FullInv => LinksAreLive
    <2> SUFFICES ASSUME FullInv, op = None, Clean, NEW l \in link, l[2] \notin moved
                 PROVE  record[l[2]] = l[1]
      BY DEF LinksAreLive, Clean
    <2>1. l[1] \in Sessions /\ l[2] \in Responses /\ l = <<l[1], l[2]>>
      BY DEF FullInv, StoreInv, TypeOK
    <2> QED
      BY <2>1 DEF FullInv, RefInv, LinksFollow, OpOn
  <1> QED
    BY <1>1, FullInvariant, PTL

\* The last response deleted, the session goes: no interleaving of deletes,
\* releases, late saves and retention forgets it while no write fails
\* (DeleteResponse, cleanupSessionIfUnreferencedLocked, the release of pinPath).
THEOREM DeletesTakeSessions ==
  ASSUME IndexMayVanish = FALSE
  PROVE  Spec => []DeletedSessionGoes
  <1>1. FullInv => DeletedSessionGoes
    BY DEF FullInv, OwedInv, OwedGoing, Going, DeletedSessionGoes
  <1> QED
    BY <1>1, FullInvariant, PTL
=============================================================================
