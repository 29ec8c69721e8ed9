-------------------------- MODULE ToolBrokerProofs --------------------------
(* Proofs about ToolBroker, for any number of turns, handlers, clients,      *)
(* batches and ids: its invariants; then what a shutdown leaves behind, that *)
(* a call has one id, and that the broker implements PendingBatch.           *)
EXTENDS ToolBroker, TLAPS

USE DEF Threads, TurnOf

\* A goroutine between taking a batch and returning.
Busy == {"configure", "ensure", "bind", "check", "insert", "cancel", "arm", "wait"}

\* Local variables point to what the code dereferences.
Locals ==
    /\ \A t \in Threads : pc[t] \in Busy => bat[t] \in Batches /\ owner[bat[t]] \in Turns
    /\ \A r \in Turns : pc[r] # "wait"
    /\ \A r \in Turns : current[r] # None => owner[current[r]] \in Turns
    /\ \A c \in Clients : cpc[c] \in {"complete", "deliver", "forget"} => cbat[c] \in Batches
    /\ \A b \in hasAbort : owner[b] \in Turns
    /\ \A b \in Batches : closing[b] = "abort" => b \in hasAbort

TypeInv == TypeOK /\ Locals

LEMMA TypeInvInit == Init => TypeInv
  <1> SUFFICES ASSUME Init PROVE TypeInv
    OBVIOUS
  <1>1. TypeOK
    BY DEF Init, TypeOK
  <1>2. Locals
    BY <1>1 DEF Init, TypeOK, Locals, Busy
  <1> QED
    BY <1>1, <1>2 DEF TypeInv

\* The shared halves of the actions keep the types of what they assign.
LEMMA StartCloseType ==
  ASSUME TypeOK, NEW b \in Batches, NEW runAbort \in BOOLEAN, StartClose(b, runAbort)
  PROVE  /\ expired' \subseteq Batches
         /\ timer' \in [Batches -> {"unset", "armed", "spent"}]
         /\ outcome' \in [CallIds -> {"pending", "output", "taken", "failed"}]
         /\ closing' \in [Batches -> {"no", "abort", "forget", "done"}]
         /\ \A x \in Batches : closing'[x] = "abort" => closing[x] = "abort" \/ x \in hasAbort
  <1>1. CASE Open(b)
    <2>1. expired' \subseteq Batches
      BY <1>1 DEF StartClose, TypeOK
    <2>2. timer' \in [Batches -> {"unset", "armed", "spent"}]
      <3>1. timer' = [timer EXCEPT ![b] = IF timer[b] = "armed" THEN "spent" ELSE timer[b]]
        BY <1>1 DEF StartClose
      <3>2. \A x \in Batches : timer[x] \in {"unset", "armed", "spent"}
        BY DEF TypeOK
      <3> QED
        BY <3>1, <3>2 DEF TypeOK
    <2>3. outcome' \in [CallIds -> {"pending", "output", "taken", "failed"}]
      <3>1. outcome' = [k \in CallIds |-> IF k \in calls[b] /\ outcome[k] = "pending"
                                         THEN "failed" ELSE outcome[k]]
        BY <1>1 DEF StartClose
      <3>2. \A k \in CallIds : outcome[k] \in {"pending", "output", "taken", "failed"}
        BY DEF TypeOK
      <3> QED
        BY <3>1, <3>2
    <2>4. closing' \in [Batches -> {"no", "abort", "forget", "done"}]
      BY <1>1 DEF StartClose, TypeOK
    <2>5. \A x \in Batches : closing'[x] = "abort" => closing[x] = "abort" \/ x \in hasAbort
      BY <1>1 DEF StartClose, TypeOK
    <2> QED
      BY <2>1, <2>2, <2>3, <2>4, <2>5
  <1>2. CASE ~Open(b)
    BY <1>2 DEF StartClose, TypeOK
  <1> QED
    BY <1>1, <1>2

LEMMA RemoveType ==
  ASSUME TypeOK, NEW b \in Batches, Remove(b)
  PROVE  batches' \subseteq Batches /\ byCall' \in [CallIds -> Batches \cup {None}]
  BY DEF Remove, TypeOK

\* What taking rt.mu and a batch leaves behind.
BatchTaken(t) ==
    /\ current' \in [Turns -> Batches \cup {None}]
    /\ owner' \in [Batches -> Turns \cup {None}]
    /\ bat' \in [Threads -> Batches \cup {None}]
    /\ bat'[t] \in Batches
    /\ \A u \in Threads : u # t => bat'[u] = bat[u]
    /\ owner'[bat'[t]] \in Turns
    /\ \A b \in Batches : owner[b] \in Turns => owner'[b] = owner[b]
    /\ \A r \in Turns : current'[r] # None => owner'[current'[r]] \in Turns

LEMMA TakeBatchType ==
  ASSUME TypeInv, NEW t \in Threads, UseOpenBatch(t) \/ NewBatch(t)
  PROVE  BatchTaken(t)
  <1> USE DEF BatchTaken
  <1> DEFINE r == TurnOf(t)
  <1>1. r \in Turns
    BY InvokedByAssumption
  <1>2. CASE UseOpenBatch(t)
    <2>1. current[r] \in Batches /\ bat' = [bat EXCEPT ![t] = current[r]]
      BY <1>1, <1>2 DEF UseOpenBatch, TypeInv, TypeOK
    <2>2. current' = current /\ owner' = owner
      BY <1>2 DEF UseOpenBatch
    <2> QED
      BY <1>1, <2>1, <2>2, NoneAssumption DEF TypeInv, TypeOK, Locals
  <1>3. CASE NewBatch(t)
    <2>1. PICK b \in Batches : /\ owner[b] = None
                               /\ owner' = [owner EXCEPT ![b] = r]
                               /\ current' = [current EXCEPT ![r] = b]
                               /\ bat' = [bat EXCEPT ![t] = b]
      BY <1>3 DEF NewBatch
    <2> QED
      BY <1>1, <2>1, NoneAssumption DEF TypeInv, TypeOK, Locals
  <1> QED
    BY <1>2, <1>3

LEMMA EnsureCallType ==
  ASSUME TypeInv, NEW t \in Threads, NEW s \in SdkIds, EnsureCall(t, s)
  PROVE  /\ calls' \in [Batches -> SUBSET CallIds]
         /\ bySDKID' \in [Batches -> [SdkIds -> CallIds \cup {None}]]
         /\ reserved' \in [Turns -> [SdkIds -> CallIds \cup {None}]]
         /\ minted' \subseteq CallIds
         /\ mine' \in [Threads -> SUBSET CallIds]
  <1> DEFINE r == TurnOf(t)
             b == bat[t]
  <1>1. r \in Turns /\ b \in Batches
    BY InvokedByAssumption DEF EnsureCall, TypeInv, Locals, Busy
  <1>2. CASE FindCall(t, s)
    BY <1>1, <1>2 DEF FindCall, TypeInv, TypeOK
  <1>3. CASE MintCall(t, s)
    <2>1. PICK k \in CallIds : /\ minted' = minted \cup {k}
                               /\ reserved' = [reserved EXCEPT ![r][s] = None]
                               /\ calls' = [calls EXCEPT ![b] = @ \cup {k}]
                               /\ bySDKID' = [bySDKID EXCEPT ![b][s] = IF s = EmptyId THEN None ELSE k]
                               /\ mine' = [mine EXCEPT ![t] = @ \cup {k}]
      BY <1>3 DEF MintCall
    <2>2. calls' \in [Batches -> SUBSET CallIds] /\ minted' \subseteq CallIds
      BY <1>1, <2>1 DEF TypeInv, TypeOK
    <2>3. bySDKID' \in [Batches -> [SdkIds -> CallIds \cup {None}]]
      BY <1>1, <2>1 DEF TypeInv, TypeOK
    <2>4. reserved' \in [Turns -> [SdkIds -> CallIds \cup {None}]]
      BY <1>1, <2>1 DEF TypeInv, TypeOK
    <2>5. mine' \in [Threads -> SUBSET CallIds]
      BY <1>1, <2>1 DEF TypeInv, TypeOK
    <2> QED
      BY <2>2, <2>3, <2>4, <2>5
  <1> QED
    BY <1>2, <1>3 DEF EnsureCall

LEMMA TypeInvNext == TypeInv /\ [Next]_vars => TypeInv'
  <1> SUFFICES ASSUME TypeInv, [Next]_vars PROVE TypeInv'
    OBVIOUS
  <1> USE InvokedByAssumption, NoneAssumption, ThreadsAssumption DEF TypeInv, Busy
  <1>1. ASSUME NEW r \in Turns, NEW s \in SdkIds, ReserveStreamingCall(r, s) PROVE TypeInv'
    BY <1>1 DEF TypeOK, Locals, ReserveStreamingCall, batchVars, brokerVars, threadVars, clientVars
  <1>2. ASSUME NEW r \in Turns, CaptureRequests(r) PROVE TypeInv'
    <2>1. UseOpenBatch(r) \/ NewBatch(r)
      BY <1>2 DEF CaptureRequests
    <2>2. hasAbort' = hasAbort \/ hasAbort' = hasAbort \cup {bat'[r]}
      BY <1>2 DEF CaptureRequests
    <2>3. pc' = [pc EXCEPT ![r] = "configure"] \/ pc' = [pc EXCEPT ![r] = "ensure"]
      BY <1>2 DEF CaptureRequests
    <2>4. lock' = [lock EXCEPT ![r] = r]
      BY <1>2 DEF CaptureRequests, Acquire
    <2>5. UNCHANGED <<reserved, aborted, calls, bySDKID, expired, completed, timer, late, bound,
                      closing, outcome, batches, byCall, closed, toCancel, minted, offered, mine,
                      cpc, cids, cbat, cstale, acked>>
      BY <1>2 DEF CaptureRequests, brokerVars, clientVars
    <2>. BatchTaken(r)
      BY <2>1, TakeBatchType
    <2>6. TypeOK'
      BY <2>2, <2>3, <2>4, <2>5 DEF TypeOK, BatchTaken
    <2>7. Locals'
      BY <2>2, <2>3, <2>5 DEF TypeOK, Locals, BatchTaken
    <2> QED
      BY <2>6, <2>7
  <1>3. ASSUME NEW r \in Turns, Configure(r) PROVE TypeInv'
    BY <1>3 DEF TypeOK, Locals, Configure, rtVars, brokerVars, clientVars
  <1>4. ASSUME NEW r \in Turns, ReleaseReservations(r) PROVE TypeInv'
    BY <1>4 DEF TypeOK, Locals, ReleaseReservations, batchVars, brokerVars, clientVars
  <1>5. ASSUME NEW r \in Turns, CancelCurrent(r) PROVE TypeInv'
    BY <1>5 DEF TypeOK, Locals, CancelCurrent, CancelTurn, batchVars, brokerVars, threadVars, clientVars
  <1>6. ASSUME NEW t \in Threads, NEW s \in SdkIds, EnsureCall(t, s) PROVE TypeInv'
    <2>1. TypeOK'
      BY <1>6, EnsureCallType DEF TypeOK, EnsureCall, brokerVars, clientVars
    <2>2. Locals'
      BY <1>6 DEF TypeOK, Locals, EnsureCall, brokerVars, clientVars
    <2> QED
      BY <2>1, <2>2
  <1>7. ASSUME NEW t \in Threads, RejectRequest(t) PROVE TypeInv'
    BY <1>7 DEF TypeOK, Locals, RejectRequest, Return, batchVars, brokerVars, clientVars
  <1>8. ASSUME NEW t \in Threads, Bind(t) PROVE TypeInv'
    <2>1. bat[t] \in Batches
      BY <1>8 DEF Bind, Locals
    <2>2. /\ batches' \subseteq Batches /\ byCall' \in [CallIds -> Batches \cup {None}]
          /\ bound' \subseteq Batches
          /\ pc' = [pc EXCEPT ![t] = "check"] \/ pc' = [pc EXCEPT ![t] = "arm"]
      BY <1>8, <2>1, RemoveType DEF Bind, TypeOK
    <2>3. TypeOK'
      BY <1>8, <2>2 DEF TypeOK, Bind, rtVars, clientVars
    <2>4. Locals'
      BY <1>8, <2>2 DEF TypeOK, Locals, Bind, rtVars, clientVars
    <2> QED
      BY <2>3, <2>4
  <1>9. ASSUME NEW t \in Threads, CheckOpen(t) PROVE TypeInv'
    BY <1>9 DEF TypeOK, Locals, CheckOpen, rtVars, batchVars, brokerVars, clientVars
  <1>10. ASSUME NEW t \in Threads, Insert(t) PROVE TypeInv'
    <2>1. bat[t] \in Batches
      BY <1>10 DEF Insert, Locals
    <2>2. /\ batches' \subseteq Batches
          /\ pc' = [pc EXCEPT ![t] = "cancel"] \/ pc' = [pc EXCEPT ![t] = "arm"]
      BY <1>10, <2>1 DEF Insert, TypeOK
    <2>3. byCall' \in [CallIds -> Batches \cup {None}]
      BY <1>10, <2>1 DEF Insert, TypeOK
    <2>4. UNCHANGED <<rtVars, batchVars, closed, toCancel, minted, offered, bat, mine, clientVars>>
      BY <1>10 DEF Insert
    <2>a. pc' \in [Threads -> {"idle", "configure", "ensure", "bind", "check", "insert",
                              "cancel", "arm", "wait", "answered", "failed", "ended"}]
      BY <2>2 DEF TypeOK
    <2>5. TypeOK'
      BY <2>2, <2>3, <2>4, <2>a DEF TypeOK, rtVars, batchVars, clientVars
    <2>6. Locals'
      BY <1>10, <2>2, <2>4 DEF TypeOK, Locals, Insert, rtVars, batchVars, clientVars
    <2> QED
      BY <2>5, <2>6
  <1>11. ASSUME NEW t \in Threads, CancelUnregistered(t) PROVE TypeInv'
    <2>1. StartClose(bat[t], FALSE)
      BY <1>11 DEF CancelUnregistered
    <2> QED
      BY <1>11, <2>1, StartCloseType DEF TypeOK, Locals, CancelUnregistered, rtVars, brokerVars, clientVars
  <1>12. ASSUME NEW t \in Threads, StartTimer(t) PROVE TypeInv'
    <2>1. bat[t] \in Batches /\ TurnOf(t) \in Turns
      BY <1>12 DEF StartTimer, Locals
    <2>2. /\ timer' = [timer EXCEPT ![bat[t]] = IF @ = "unset" THEN "armed" ELSE @]
          /\ lock' = [lock EXCEPT ![TurnOf(t)] = None]
          /\ UNCHANGED <<current, reserved, aborted, owner, calls, bySDKID, expired, completed,
                         late, bound, hasAbort, closing, outcome, batches, byCall, closed, toCancel,
                         minted, cpc, cids, cbat, cstale, acked>>
      BY <1>12 DEF StartTimer, brokerVars, clientVars
    <2>3. CASE t \in Turns /\ Return(t, "idle") /\ offered' = offered \cup mine[t]
      BY <2>1, <2>2, <2>3 DEF TypeOK, Locals, Return
    <2>4. CASE t \in Handlers /\ pc' = [pc EXCEPT ![t] = "wait"] /\ UNCHANGED <<offered, bat, mine>>
      BY <1>12, <2>1, <2>2, <2>4 DEF TypeOK, Locals, StartTimer
    <2> QED
      BY <1>12, <2>3, <2>4 DEF StartTimer
  <1>13. ASSUME NEW h \in Handlers, HandleInvocation(h) PROVE TypeInv'
    <2>1. UseOpenBatch(h) \/ NewBatch(h)
      BY <1>13 DEF HandleInvocation
    <2>. BatchTaken(h)
      BY <2>1, TakeBatchType
    <2>2. TypeOK'
      BY <1>13 DEF TypeOK, BatchTaken, HandleInvocation, Acquire, brokerVars, clientVars
    <2>3. Locals'
      BY <1>13 DEF TypeOK, Locals, BatchTaken, HandleInvocation, Acquire, brokerVars, clientVars
    <2> QED
      BY <2>2, <2>3
  <1>14. ASSUME NEW h \in Handlers, WaitAnswered(h) PROVE TypeInv'
    BY <1>14 DEF TypeOK, Locals, WaitAnswered, Return, rtVars, brokerVars, clientVars
  <1>15. ASSUME NEW h \in Handlers, WaitFails(h) PROVE TypeInv'
    BY <1>15 DEF TypeOK, Locals, WaitFails, Return, rtVars, batchVars, brokerVars, clientVars
  <1>16. ASSUME NEW b \in Batches, Deadline(b) PROVE TypeInv'
    BY <1>16 DEF TypeOK, Locals, Deadline, rtVars, brokerVars, threadVars, clientVars
  <1>17. ASSUME NEW b \in Batches, TimerFires(b) PROVE TypeInv'
    <2>1. StartClose(b, TRUE)
      BY <1>17 DEF TimerFires
    <2> QED
      BY <1>17, <2>1, StartCloseType DEF TypeOK, Locals, TimerFires, rtVars, brokerVars, threadVars, clientVars
  <1>18. ASSUME NEW b \in Batches, CloseAborts(b) PROVE TypeInv'
    <2>1. closing' = [closing EXCEPT ![b] = "forget"]
      BY <1>18 DEF CloseAborts
    <2>2. owner[b] \in Turns
      BY <1>18 DEF CloseAborts, Locals
    <2>a. \/ UNCHANGED <<aborted, reserved, toCancel>>
          \/ /\ aborted' = aborted \cup {owner[b]}
             /\ reserved' = [reserved EXCEPT ![owner[b]] = [s \in SdkIds |-> None]]
             /\ toCancel' = toCancel \cup ({current[owner[b]]} \ {None})
      BY <1>18 DEF CloseAborts, CancelTurn
    <2>c. current[owner[b]] \in Batches \cup {None}
      BY <2>2 DEF TypeOK
    <2>d. reserved' \in [Turns -> [SdkIds -> CallIds \cup {None}]]
      BY <2>2, <2>a DEF TypeOK
    <2>3. aborted' \subseteq Turns /\ toCancel' \subseteq Batches
      BY <2>2, <2>a, <2>c DEF TypeOK
    <2>4. UNCHANGED <<current, lock, owner, calls, bySDKID, expired, completed, timer, late, bound,
                      hasAbort, outcome, brokerVars, minted, offered, threadVars, clientVars>>
      BY <1>18 DEF CloseAborts
    <2> QED
      BY <2>1, <2>3, <2>4, <2>d DEF TypeOK, Locals, brokerVars, threadVars, clientVars
  <1>19. ASSUME NEW b \in Batches, CloseForgets(b) PROVE TypeInv'
    BY <1>19 DEF TypeOK, Locals, CloseForgets, Remove, rtVars, threadVars, clientVars
  <1>20. ASSUME NEW b \in Batches, CancelNext(b) PROVE TypeInv'
    <2>1. StartClose(b, FALSE)
      BY <1>20 DEF CancelNext
    <2> QED
      BY <1>20, <2>1, StartCloseType DEF TypeOK, Locals, CancelNext, rtVars, brokerVars, threadVars, clientVars
  <1>21. ASSUME NEW c \in Clients, NEW ids \in (SUBSET offered) \ {{}}, FindByCallIDs(c, ids) PROVE TypeInv'
    <2>1. /\ cids' \in [Clients -> SUBSET CallIds]
          /\ cpc' = [cpc EXCEPT ![c] = "complete"] \/ cpc' = [cpc EXCEPT ![c] = "sweep"]
      BY <1>21 DEF FindByCallIDs, TypeOK
    <2>2. \/ cpc' = [cpc EXCEPT ![c] = "sweep"] /\ cbat' = cbat
          \/ \E b \in Batches : cbat' = [cbat EXCEPT ![c] = b]
      BY <1>21 DEF FindByCallIDs
    <2>3. \/ cstale' = cstale
          \/ \E k \in ids : byCall[k] # None /\ cstale' = [cstale EXCEPT ![c] = {byCall[k]}]
      BY <1>21 DEF FindByCallIDs, Stale
    <2>4. cstale' \in [Clients -> SUBSET Batches]
      <3>1. CASE cstale' = cstale
        BY <3>1 DEF TypeOK
      <3>2. ASSUME NEW k \in ids, byCall[k] # None, cstale' = [cstale EXCEPT ![c] = {byCall[k]}]
            PROVE  cstale' \in [Clients -> SUBSET Batches]
        <4>1. byCall[k] \in Batches
          BY <3>2 DEF TypeOK
        <4>2. {byCall[k]} \in SUBSET Batches
          BY <4>1
        <4> QED
          BY <3>2, <4>2 DEF TypeOK
      <3> QED
        BY <2>3, <3>1, <3>2
    <2>5. UNCHANGED <<rtVars, batchVars, brokerVars, toCancel, minted, offered, threadVars, acked>>
      BY <1>21 DEF FindByCallIDs
    <2>a. cpc' \in [Clients -> {"idle", "sweep", "findAny", "sweepAny", "complete",
                               "deliver", "forget", "done"}]
      BY <2>1 DEF TypeOK
    <2>b. cbat' \in [Clients -> Batches \cup {None}]
      <3>1. CASE cbat' = cbat
        BY <3>1 DEF TypeOK
      <3>2. ASSUME NEW b \in Batches, cbat' = [cbat EXCEPT ![c] = b] PROVE cbat' \in [Clients -> Batches \cup {None}]
        BY <3>2 DEF TypeOK
      <3> QED
        BY <2>2, <3>1, <3>2
    <2>6. TypeOK'
      BY <2>1, <2>4, <2>5, <2>a, <2>b DEF TypeOK, rtVars, batchVars, brokerVars, threadVars
    <2>c. UNCHANGED <<current, owner, bat, pc, closing, hasAbort, lock, expired, acked>>
      BY <2>5 DEF rtVars, batchVars, threadVars
    <2>d. cpc'[c] \in {"complete", "sweep"} /\ (cpc'[c] = "complete" => cbat'[c] \in Batches)
      BY <1>21 DEF FindByCallIDs, TypeOK
    <2>e. \A d \in Clients \ {c} : cpc'[d] = cpc[d] /\ cbat'[d] = cbat[d]
      BY <2>1, <2>2 DEF TypeOK
    <2>7. Locals'
      BY <2>c, <2>d, <2>e DEF Locals
    <2> QED
      BY <2>6, <2>7
  <1>22. ASSUME NEW c \in Clients, RemoveStale(c) PROVE TypeInv'
    <2>1. TypeOK'
      BY <1>22 DEF TypeOK, RemoveStale, GiveUp, rtVars, batchVars, threadVars
    <2>2. Locals'
      BY <1>22 DEF TypeOK, Locals, RemoveStale, GiveUp, rtVars, batchVars, threadVars
    <2> QED
      BY <2>1, <2>2
  <1>23. ASSUME NEW c \in Clients, FindByAnyCallIDs(c) PROVE TypeInv'
    <2> DEFINE live == {byCall[k] : k \in {j \in cids[c] : Live(j)}}
    <2>1. live \subseteq Batches
      BY DEF Live, TypeOK
    <2>2. live # {} => (CHOOSE b \in live : TRUE) \in Batches
      BY <2>1
    <2> HIDE DEF live
    <2>3. cids' \in [Clients -> SUBSET CallIds]
      BY <1>23 DEF FindByAnyCallIDs, GiveUp, TypeOK
    <2>c. \E x \in Batches \cup {None} : cbat' = cbat \/ cbat' = [cbat EXCEPT ![c] = x]
      BY <1>23, <2>2 DEF FindByAnyCallIDs, live
    <2>4. cbat' \in [Clients -> Batches \cup {None}]
      BY <2>c DEF TypeOK
    <2> DEFINE stale == {byCall[k] : k \in {j \in cids[c] : Stale(j)}}
    <2>a. stale \subseteq Batches
      BY DEF Stale, TypeOK
    <2>b. cstale' = cstale \/ cstale' = [cstale EXCEPT ![c] = stale]
      BY <1>23 DEF FindByAnyCallIDs
    <2> HIDE DEF stale
    <2>5. cstale' \in [Clients -> SUBSET Batches]
      BY <2>a, <2>b DEF TypeOK
    <2>6. /\ cpc' = [cpc EXCEPT ![c] = "done"] \/ cpc' = [cpc EXCEPT ![c] = "sweepAny"]
          /\ \A d \in Clients : d # c => cbat'[d] = cbat[d]
      BY <1>23 DEF FindByAnyCallIDs, GiveUp, TypeOK
    <2>7. TypeOK'
      BY <1>23, <2>3, <2>4, <2>5, <2>6
      DEF TypeOK, FindByAnyCallIDs, rtVars, batchVars, brokerVars, threadVars
    <2>d. UNCHANGED <<current, owner, bat, pc, closing, hasAbort, lock, expired, acked>>
      BY <1>23 DEF FindByAnyCallIDs, rtVars, batchVars, threadVars
    <2>e. cpc'[c] \in {"done", "sweepAny"} /\ \A d \in Clients \ {c} : cpc'[d] = cpc[d] /\ cbat'[d] = cbat[d]
      BY <2>6 DEF TypeOK
    <2>8. Locals'
      BY <2>d, <2>e DEF Locals
    <2> QED
      BY <2>7, <2>8
  <1>24. ASSUME NEW c \in Clients, Complete(c) PROVE TypeInv'
    BY <1>24 DEF TypeOK, Locals, Complete, rtVars, brokerVars, threadVars
  <1>25. ASSUME NEW c \in Clients, RefuseOutputs(c) PROVE TypeInv'
    <2>1. CASE cbat[c] \in late
      <3>1. StartClose(cbat[c], TRUE)
        BY <1>25, <2>1 DEF RefuseOutputs
      <3> QED
        BY <1>25, <3>1, StartCloseType DEF TypeOK, Locals, RefuseOutputs, GiveUp, rtVars, brokerVars, threadVars
    <2>2. CASE cbat[c] \notin late
      BY <1>25, <2>2 DEF TypeOK, Locals, RefuseOutputs, GiveUp, rtVars, brokerVars, threadVars
    <2> QED
      BY <2>1, <2>2
  <1>26. ASSUME NEW c \in Clients, Deliver(c) PROVE TypeInv'
    BY <1>26 DEF TypeOK, Locals, Deliver, rtVars, brokerVars, threadVars
  <1>27. ASSUME NEW c \in Clients, Discard(c) PROVE TypeInv'
    <2>1. StartClose(cbat[c], FALSE)
      BY <1>27 DEF Discard
    <2> QED
      BY <1>27, <2>1, StartCloseType DEF TypeOK, Locals, Discard, rtVars, brokerVars, threadVars
  <1>28. ASSUME NEW c \in Clients, ForgetBatch(c) PROVE TypeInv'
    <2>1. batches' \subseteq Batches /\ byCall' \in [CallIds -> Batches \cup {None}]
      BY <1>28, RemoveType DEF ForgetBatch, Locals
    <2>2. /\ cpc' = [cpc EXCEPT ![c] = "done"]
          /\ \/ UNCHANGED <<cids, cbat>>
             \/ cids' = [cids EXCEPT ![c] = {}] /\ cbat' = [cbat EXCEPT ![c] = None]
      BY <1>28 DEF ForgetBatch, GiveUp
    <2>3. UNCHANGED <<rtVars, batchVars, closed, toCancel, minted, offered, threadVars, cstale, acked>>
      BY <1>28 DEF ForgetBatch
    <2> QED
      BY <2>1, <2>2, <2>3 DEF TypeOK, Locals, rtVars, batchVars, threadVars
  <1>29. CASE CancelAll
    BY <1>29 DEF TypeOK, Locals, CancelAll, rtVars, batchVars, threadVars, clientVars
  <1>30. CASE UNCHANGED vars
    BY <1>30 DEF TypeOK, Locals, vars, rtVars, batchVars, brokerVars, threadVars, clientVars
  <1> QED
    BY <1>1, <1>2, <1>3, <1>4, <1>5, <1>6, <1>7, <1>8, <1>9, <1>10, <1>11, <1>12, <1>13, <1>14, <1>15,
       <1>16, <1>17, <1>18, <1>19, <1>20, <1>21, <1>22, <1>23, <1>24, <1>25, <1>26, <1>27, <1>28,
       <1>29, <1>30
    DEF Next, TurnStep, LockedStep, HandlerStep, BatchStep, ClientStep

\* The core's type invariant: every variable keeps its type, whatever the
\* goroutines of Broker, Batch and RequestTools do.
THEOREM TypeCorrect == Spec => []TypeOK
  <1>1. Spec => []TypeInv
    BY TypeInvInit, TypeInvNext, PTL DEF Spec
  <1>2. TypeInv => TypeOK
    BY DEF TypeInv
  <1> QED
    BY <1>1, <1>2, PTL

----------------------------------------------------------------------------
(* Call ids: LookupSound is inductive once it is known that an id is minted  *)
(* once, so that it is reserved at most once and never after it has a call.  *)

Fresh ==
    /\ \A b \in Batches : calls[b] \subseteq minted
    /\ \A r \in Turns, s \in SdkIds :
          reserved[r][s] # None =>
              /\ reserved[r][s] \in minted
              /\ \A b \in Batches : reserved[r][s] \notin calls[b]
    /\ \A r, q \in Turns, s, u \in SdkIds :
          reserved[r][s] # None /\ reserved[r][s] = reserved[q][u] => r = q /\ s = u

IdInv == Fresh /\ LookupSound

(* Delivery: what a client was told is settled by the two closed flags being *)
(* exclusive and by calls failing only with a batch that expired.            *)
Settled(c) == cpc[c] = "deliver" \/ c \in acked

Delivery ==
    /\ expired \cap completed = {}
    /\ \A k \in CallIds : outcome[k] # "pending" => \E b \in Batches : k \in calls[b]
    /\ \A k \in CallIds : outcome[k] = "failed" => \E b \in expired : k \in calls[b]
    /\ \A c \in Clients : Settled(c) => cbat[c] \in completed /\ cids[c] \subseteq calls[cbat[c]]
    /\ \A c \in acked : cpc[c] \in {"forget", "done"}
    /\ \A c, d \in Clients : c # d /\ Settled(c) /\ Settled(d) => cbat[c] # cbat[d]
    /\ \A c \in acked : \A k \in cids[c] : outcome[k] \in {"output", "taken"}

LEMMA IdInvInit == Init => IdInv
  BY DEF Init, IdInv, Fresh, LookupSound

\* Reservations may only disappear.
LEMMA IdFrame ==
  ASSUME TypeInv, IdInv, UNCHANGED <<calls, minted, byCall, batches>>,
         \A r \in Turns, s \in SdkIds : reserved'[r][s] \in {reserved[r][s], None}
  PROVE  IdInv'
  BY DEF IdInv, Fresh, LookupSound

LEMMA RemoveKeepsIds ==
  ASSUME TypeInv, IdInv, NEW b \in Batches, Remove(b), UNCHANGED <<calls, minted, reserved>>
  PROVE  IdInv'
  <1>1. Fresh'
    BY DEF IdInv, Fresh
  <1>2. \A k \in CallIds : byCall'[k] # None => byCall'[k] = byCall[k] /\ byCall[k] # b
    BY DEF Remove, IdInv, LookupSound
  <1>3. LookupSound'
    BY <1>2 DEF Remove, IdInv, LookupSound
  <1> QED
    BY <1>1, <1>3 DEF IdInv

LEMMA MintKeepsIds ==
  ASSUME TypeInv, IdInv, NEW t \in Threads, NEW s \in SdkIds, pc[t] = "ensure", MintCall(t, s),
         UNCHANGED <<byCall, batches>>
  PROVE  IdInv'
  <1> DEFINE r == TurnOf(t)
             b == bat[t]
  <1>1. r \in Turns /\ b \in Batches
    BY InvokedByAssumption DEF TypeInv, Locals, Busy
  <1>2. PICK k \in CallIds : /\ IF reserved[r][s] # None THEN k = reserved[r][s] ELSE k \notin minted
                             /\ minted' = minted \cup {k}
                             /\ reserved' = [reserved EXCEPT ![r][s] = None]
                             /\ calls' = [calls EXCEPT ![b] = @ \cup {k}]
    BY DEF MintCall
  <1> HIDE DEF r, b
  <1>3. \A x \in Batches : k \notin calls[x]
    BY <1>1, <1>2 DEF IdInv, Fresh
  <1>4. \A q \in Turns, u \in SdkIds : reserved'[q][u] = IF q = r /\ u = s THEN None ELSE reserved[q][u]
    BY <1>1, <1>2 DEF TypeInv, TypeOK
  <1>5. \A x \in Batches : calls'[x] = IF x = b THEN calls[x] \cup {k} ELSE calls[x]
    BY <1>1, <1>2 DEF TypeInv, TypeOK
  <1>6. \A q \in Turns, u \in SdkIds : reserved'[q][u] # k
    BY <1>1, <1>2, <1>4, NoneAssumption DEF IdInv, Fresh
  <1>7. Fresh'
    BY <1>2, <1>4, <1>5, <1>6 DEF IdInv, Fresh
  <1>8. ASSUME NEW j \in CallIds, byCall[j] # None PROVE j \in calls'[byCall[j]] /\ byCall[j] \in batches
    <2>1. byCall[j] \in Batches /\ j \in calls[byCall[j]] /\ byCall[j] \in batches
      BY <1>8 DEF IdInv, LookupSound, TypeInv, TypeOK
    <2> QED
      BY <1>5, <2>1
  <1>9. ASSUME NEW x \in Batches, NEW y \in Batches, x # y PROVE calls'[x] \cap calls'[y] = {}
    <2>1. calls[x] \cap calls[y] = {}
      BY <1>9 DEF IdInv, LookupSound
    <2> QED
      BY <1>3, <1>5, <1>9, <2>1
  <1> QED
    BY <1>7, <1>8, <1>9 DEF IdInv, LookupSound

LEMMA IdInvNext == TypeInv /\ IdInv /\ [Next]_vars => IdInv'
  <1> SUFFICES ASSUME TypeInv, IdInv, [Next]_vars PROVE IdInv'
    OBVIOUS
  <1> USE InvokedByAssumption, NoneAssumption, ThreadsAssumption
  <1>1. ASSUME NEW r \in Turns, NEW s \in SdkIds, ReserveStreamingCall(r, s) PROVE IdInv'
    <2>1. PICK k \in CallIds \ minted : /\ reserved' = [reserved EXCEPT ![r][s] = k]
                                        /\ minted' = minted \cup {k}
      BY <1>1 DEF ReserveStreamingCall
    <2>2. UNCHANGED <<calls, byCall, batches>>
      BY <1>1 DEF ReserveStreamingCall, batchVars, brokerVars
    <2>3. \A q \in Turns, u \in SdkIds : reserved'[q][u] = IF q = r /\ u = s THEN k ELSE reserved[q][u]
      BY <2>1 DEF TypeInv, TypeOK
    <2>4. \A b \in Batches : k \notin calls[b]
      BY <2>1 DEF IdInv, Fresh
    <2>5. \A q \in Turns, u \in SdkIds : reserved[q][u] # k
      BY <2>1, NoneAssumption DEF IdInv, Fresh
    <2>6. Fresh'
      BY <2>1, <2>2, <2>3, <2>4, <2>5 DEF IdInv, Fresh
    <2>7. LookupSound'
      BY <2>2 DEF IdInv, LookupSound
    <2> QED
      BY <2>6, <2>7 DEF IdInv
  <1>2. ASSUME NEW r \in Turns, CaptureRequests(r) PROVE IdInv'
    BY <1>2, IdFrame DEF CaptureRequests, brokerVars
  <1>3. ASSUME NEW r \in Turns, Configure(r) PROVE IdInv'
    BY <1>3, IdFrame DEF Configure, rtVars, brokerVars
  <1>4. ASSUME NEW r \in Turns, ReleaseReservations(r) PROVE IdInv'
    BY <1>4, IdFrame DEF ReleaseReservations, batchVars, brokerVars, TypeInv, TypeOK
  <1>5. ASSUME NEW r \in Turns, CancelCurrent(r) PROVE IdInv'
    BY <1>5, IdFrame DEF CancelCurrent, CancelTurn, batchVars, brokerVars, TypeInv, TypeOK
  <1>6. ASSUME NEW t \in Threads, NEW s \in SdkIds, EnsureCall(t, s) PROVE IdInv'
    <2>1. pc[t] = "ensure" /\ UNCHANGED <<byCall, batches>>
      BY <1>6 DEF EnsureCall, brokerVars
    <2>2. CASE FindCall(t, s)
      BY <2>1, <2>2, IdFrame DEF FindCall
    <2>3. CASE MintCall(t, s)
      BY <2>1, <2>3, MintKeepsIds
    <2> QED
      BY <1>6, <2>2, <2>3 DEF EnsureCall
  <1>7. ASSUME NEW t \in Threads, RejectRequest(t) PROVE IdInv'
    BY <1>7, IdFrame DEF RejectRequest, batchVars, brokerVars
  <1>8. ASSUME NEW t \in Threads, Bind(t) PROVE IdInv'
    <2>1. bat[t] \in Batches /\ UNCHANGED <<calls, minted, reserved>>
      BY <1>8 DEF Bind, rtVars, TypeInv, Locals, Busy
    <2>2. CASE UNCHANGED <<batches, byCall>>
      BY <2>1, <2>2, IdFrame
    <2>3. CASE Remove(bat[t])
      BY <2>1, <2>3, RemoveKeepsIds
    <2> QED
      BY <1>8, <2>2, <2>3 DEF Bind
  <1>9. ASSUME NEW t \in Threads, CheckOpen(t) PROVE IdInv'
    BY <1>9, IdFrame DEF CheckOpen, rtVars, batchVars, brokerVars
  <1>10. ASSUME NEW t \in Threads, Insert(t) PROVE IdInv'
    <2>1. bat[t] \in Batches /\ UNCHANGED <<calls, minted, reserved>>
      BY <1>10 DEF Insert, rtVars, batchVars, TypeInv, Locals, Busy
    <2>2. CASE UNCHANGED <<batches, byCall>>
      BY <2>1, <2>2, IdFrame
    <2>3. CASE /\ batches' = batches \cup {bat[t]}
               /\ byCall' = [k \in CallIds |-> IF k \in calls[bat[t]] THEN bat[t] ELSE byCall[k]]
      BY <2>1, <2>3 DEF IdInv, Fresh, LookupSound
    <2> QED
      BY <1>10, <2>2, <2>3 DEF Insert
  <1>11. ASSUME NEW t \in Threads, CancelUnregistered(t) PROVE IdInv'
    BY <1>11, IdFrame DEF CancelUnregistered, rtVars, brokerVars
  <1>12. ASSUME NEW t \in Threads, StartTimer(t) PROVE IdInv'
    BY <1>12, IdFrame DEF StartTimer, brokerVars
  <1>13. ASSUME NEW h \in Handlers, HandlerStep(h) PROVE IdInv'
    BY <1>13, IdFrame DEF HandlerStep, HandleInvocation, WaitAnswered, WaitFails, rtVars, batchVars, brokerVars
  <1>14. ASSUME NEW b \in Batches, Deadline(b) \/ TimerFires(b) \/ CancelNext(b) PROVE IdInv'
    BY <1>14, IdFrame DEF Deadline, TimerFires, CancelNext, rtVars, brokerVars
  <1>15. ASSUME NEW b \in Batches, CloseAborts(b) PROVE IdInv'
    <2>1. UNCHANGED <<calls, minted, byCall, batches>>
      BY <1>15 DEF CloseAborts, brokerVars
    <2>2. reserved' = reserved \/ reserved' = [reserved EXCEPT ![owner[b]] = [s \in SdkIds |-> None]]
      BY <1>15 DEF CloseAborts, CancelTurn
    <2>3. \A r \in Turns, s \in SdkIds : reserved'[r][s] \in {reserved[r][s], None}
      BY <2>2 DEF TypeInv, TypeOK
    <2> QED
      BY <2>1, <2>3, IdFrame
  <1>16. ASSUME NEW b \in Batches, CloseForgets(b) PROVE IdInv'
    <2>1. UNCHANGED <<calls, minted, reserved>>
      BY <1>16 DEF CloseForgets, rtVars
    <2>2. CASE Remove(b)
      BY <2>1, <2>2, RemoveKeepsIds
    <2>3. CASE UNCHANGED <<batches, byCall>>
      BY <2>1, <2>3, IdFrame
    <2> QED
      BY <1>16, <2>2, <2>3 DEF CloseForgets
  <1>17. ASSUME NEW c \in Clients, RemoveStale(c) PROVE IdInv'
    <2>1. UNCHANGED <<calls, minted, reserved>>
      BY <1>17 DEF RemoveStale, rtVars, batchVars
    <2>2. /\ batches' = batches \ cstale[c]
          /\ byCall' = [k \in CallIds |->
                IF \E b \in cstale[c] : k \in calls[b] /\ byCall[k] = b THEN None ELSE byCall[k]]
      BY <1>17 DEF RemoveStale
    <2>3. \A k \in CallIds : byCall'[k] # None => byCall'[k] = byCall[k] /\ byCall[k] \notin cstale[c]
      BY <2>2 DEF IdInv, LookupSound
    <2>4. LookupSound'
      BY <2>1, <2>2, <2>3 DEF IdInv, LookupSound
    <2> QED
      BY <2>1, <2>4 DEF IdInv, Fresh
  <1>18. ASSUME NEW c \in Clients, NEW ids \in (SUBSET offered) \ {{}}, FindByCallIDs(c, ids) PROVE IdInv'
    BY <1>18, IdFrame DEF FindByCallIDs, rtVars, batchVars, brokerVars
  <1>19. ASSUME NEW c \in Clients,
                FindByAnyCallIDs(c) \/ Complete(c) \/ RefuseOutputs(c) \/ Deliver(c) \/ Discard(c)
         PROVE IdInv'
    BY <1>19, IdFrame
    DEF FindByAnyCallIDs, Complete, RefuseOutputs, Deliver, Discard, rtVars, batchVars, brokerVars
  <1>20. ASSUME NEW c \in Clients, ForgetBatch(c) PROVE IdInv'
    <2>1. cbat[c] \in Batches /\ Remove(cbat[c]) /\ UNCHANGED <<calls, minted, reserved>>
      BY <1>20 DEF ForgetBatch, rtVars, batchVars, TypeInv, Locals
    <2> QED
      BY <2>1, RemoveKeepsIds
  <1>21. CASE CancelAll
    BY <1>21 DEF CancelAll, rtVars, batchVars, IdInv, Fresh, LookupSound
  <1>22. CASE UNCHANGED vars
    BY <1>22, IdFrame DEF vars, rtVars, batchVars, brokerVars
  <1> QED
    BY <1>1, <1>2, <1>3, <1>4, <1>5, <1>6, <1>7, <1>8, <1>9, <1>10, <1>11, <1>12, <1>13, <1>14, <1>15,
       <1>16, <1>17, <1>18, <1>19, <1>20, <1>21, <1>22
    DEF Next, TurnStep, LockedStep, BatchStep, ClientStep

\* A lookup never crosses from one request's batch to another's: LookupSound
\* holds of every reachable state, for any number of turns and batches.
THEOREM LookupIsSound == Spec => []LookupSound
  <1>1. TypeInv /\ IdInv /\ [Next]_vars => (TypeInv /\ IdInv)'
    BY TypeInvNext, IdInvNext
  <1>2. Spec => [](TypeInv /\ IdInv)
    BY TypeInvInit, IdInvInit, <1>1, PTL DEF Spec
  <1>3. IdInv => LookupSound
    BY DEF IdInv
  <1> QED
    BY <1>2, <1>3, PTL

----------------------------------------------------------------------------

LEMMA CompletedNeverFails ==
  ASSUME TypeInv, IdInv, Delivery
  PROVE  \A b \in completed : \A k \in calls[b] : outcome[k] # "failed"
  <1> SUFFICES ASSUME NEW b \in completed, NEW k \in calls[b], outcome[k] = "failed" PROVE FALSE
    OBVIOUS
  <1>1. b \in Batches /\ k \in CallIds
    BY DEF TypeInv, TypeOK
  <1>2. PICK a \in expired : k \in calls[a]
    BY <1>1 DEF Delivery
  <1>3. a \in Batches /\ a # b
    BY <1>2 DEF Delivery, TypeInv, TypeOK
  <1> QED
    BY <1>1, <1>2, <1>3 DEF IdInv, LookupSound

LEMMA DeliveryInit == Init => Delivery
  BY DEF Init, Delivery, Settled

\* Steps that close nothing, complete nothing and leave settled clients alone.
LEMMA DeliveryFrame ==
  ASSUME TypeInv, Delivery,
         UNCHANGED <<calls, expired, completed, outcome, acked>>,
         \A c \in Clients : /\ cpc'[c] = "deliver" => cpc[c] = "deliver"
                            /\ Settled(c) => cbat'[c] = cbat[c] /\ cids'[c] = cids[c]
                            /\ c \in acked => cpc'[c] \in {"forget", "done"}
  PROVE  Delivery'
  <1>1. \A c \in Clients : Settled(c)' => Settled(c)
    BY DEF Settled
  <1> QED
    BY <1>1 DEF Delivery, TypeInv, TypeOK, Settled

\* Closing a batch: its calls fail, and no completed batch shares them.
LEMMA DeliveryClose ==
  ASSUME TypeInv, IdInv, Delivery, NEW b \in Batches, NEW runAbort \in BOOLEAN,
         StartClose(b, runAbort), UNCHANGED <<calls, completed, acked>>,
         \A c \in Clients : /\ cpc'[c] = "deliver" => cpc[c] = "deliver"
                            /\ Settled(c) => cbat'[c] = cbat[c] /\ cids'[c] = cids[c]
                            /\ c \in acked => cpc'[c] \in {"forget", "done"}
  PROVE  Delivery'
  <1>1. CASE ~Open(b)
    BY <1>1, DeliveryFrame DEF StartClose
  <1>2. CASE Open(b)
    <2>1. /\ expired' = expired \cup {b}
          /\ b \notin completed
          /\ \A k \in CallIds : outcome'[k] = IF k \in calls[b] /\ outcome[k] = "pending"
                                              THEN "failed" ELSE outcome[k]
      BY <1>2 DEF StartClose, Open
    <2>2. expired' \cap completed' = {}
      BY <2>1 DEF Delivery
    <2>3. \A k \in CallIds : /\ outcome'[k] # "pending" => \E x \in Batches : k \in calls'[x]
                             /\ outcome'[k] = "failed" => \E x \in expired' : k \in calls'[x]
      BY <2>1 DEF Delivery
    <2>4. \A x \in completed : \A k \in calls[x] : k \in CallIds /\ k \notin calls[b]
      <3>1. \A x \in completed : x \in Batches /\ x # b /\ calls[x] \subseteq CallIds
        BY <2>1 DEF TypeInv, TypeOK
      <3>2. \A x, y \in Batches : x # y => calls[x] \cap calls[y] = {}
        BY DEF IdInv, LookupSound
      <3> QED
        BY <3>1, <3>2
    <2>5. \A x \in completed : \A k \in calls[x] : outcome'[k] = outcome[k]
      BY <2>1, <2>4
    <2>6. \A c \in Clients : Settled(c)' => Settled(c)
      BY DEF Settled
    <2>7. \A c \in acked : \A k \in cids[c] : outcome'[k] = outcome[k]
      BY <2>5 DEF Delivery, Settled, TypeInv, TypeOK
    <2> QED
      BY <2>1, <2>2, <2>3, <2>6, <2>7 DEF Delivery, Settled, TypeInv, TypeOK
  <1> QED
    BY <1>1, <1>2

LEMMA DeliveryNext == TypeInv /\ IdInv /\ Delivery /\ [Next]_vars => Delivery'
  <1> SUFFICES ASSUME TypeInv, IdInv, Delivery, [Next]_vars PROVE Delivery'
    OBVIOUS
  <1> USE InvokedByAssumption, NoneAssumption, ThreadsAssumption
  <1> DEFINE ClientsAlone == UNCHANGED <<cpc, cids, cbat, acked>>
             Quiet == UNCHANGED <<calls, expired, completed, outcome>>
  <1>a. ASSUME Quiet, ClientsAlone PROVE Delivery'
    BY <1>a, DeliveryFrame DEF Delivery
  <1>1. ASSUME NEW r \in Turns, TurnStep(r) PROVE Delivery'
    BY <1>1, <1>a
    DEF TurnStep, ReserveStreamingCall, CaptureRequests, Configure, ReleaseReservations, CancelCurrent,
        batchVars, clientVars
  <1>2. ASSUME NEW t \in Threads, NEW s \in SdkIds, EnsureCall(t, s) PROVE Delivery'
    <2>1. UNCHANGED <<expired, completed, outcome>> /\ ClientsAlone
      BY <1>2 DEF EnsureCall, clientVars
    <2>2. CASE FindCall(t, s)
      BY <2>1, <2>2, <1>a DEF FindCall
    <2>3. CASE MintCall(t, s)
      <3>1. bat[t] \in Batches /\ TurnOf(t) \in Turns
        BY <1>2 DEF EnsureCall, TypeInv, Locals, Busy
      <3>2. PICK k \in CallIds : /\ IF reserved[TurnOf(t)][s] # None
                                    THEN k = reserved[TurnOf(t)][s] ELSE k \notin minted
                                 /\ calls' = [calls EXCEPT ![bat[t]] = @ \cup {k}]
        BY <2>3 DEF MintCall
      <3>3. \A b \in Batches : k \notin calls[b]
        BY <3>1, <3>2 DEF IdInv, Fresh
      <3>4. \A b \in Batches : calls[b] \subseteq calls'[b] /\ calls'[b] \subseteq calls[b] \cup {k}
        BY <3>1, <3>2 DEF TypeInv, TypeOK
      <3>5. outcome[k] = "pending"
        BY <3>3 DEF Delivery
      <3>6. \A c \in Clients : Settled(c)' <=> Settled(c)
        BY <2>1 DEF Settled
      <3> QED
        BY <2>1, <3>4, <3>5, <3>6 DEF Delivery, TypeInv, TypeOK
    <2> QED
      BY <1>2, <2>2, <2>3 DEF EnsureCall
  <1>3. ASSUME NEW t \in Threads, RejectRequest(t) \/ Bind(t) \/ CheckOpen(t) \/ Insert(t) \/ StartTimer(t)
        PROVE Delivery'
    BY <1>3, <1>a DEF RejectRequest, Bind, CheckOpen, Insert, StartTimer, batchVars, clientVars
  <1>4. ASSUME NEW t \in Threads, CancelUnregistered(t) PROVE Delivery'
    <2>1. /\ bat[t] \in Batches /\ StartClose(bat[t], FALSE)
          /\ UNCHANGED <<calls, completed>> /\ ClientsAlone
      BY <1>4 DEF CancelUnregistered, clientVars, TypeInv, Locals, Busy
    <2> QED
      BY <2>1, DeliveryClose DEF Delivery
  <1>5. ASSUME NEW h \in Handlers, HandleInvocation(h) \/ WaitFails(h) PROVE Delivery'
    BY <1>5, <1>a DEF HandleInvocation, WaitFails, batchVars, clientVars
  <1>6. ASSUME NEW h \in Handlers, WaitAnswered(h) PROVE Delivery'
    <2>1. PICK k \in mine[h] : outcome[k] = "output" /\ outcome' = [outcome EXCEPT ![k] = "taken"]
      BY <1>6 DEF WaitAnswered
    <2>2. UNCHANGED <<calls, expired, completed>> /\ ClientsAlone
      BY <1>6 DEF WaitAnswered, clientVars
    <2>3. \A j \in CallIds : outcome'[j] = outcome[j] \/ (outcome[j] = "output" /\ outcome'[j] = "taken")
      BY <2>1 DEF TypeInv, TypeOK
    <2>4. \A c \in Clients : Settled(c)' <=> Settled(c)
      BY <2>2 DEF Settled
    <2>5. \A d \in acked : \A j \in cids[d] : outcome'[j] \in {"output", "taken"}
      BY <2>3 DEF Delivery, TypeInv, TypeOK
    <2>6. \A j \in CallIds : /\ outcome'[j] # "pending" => outcome[j] # "pending"
                             /\ outcome'[j] = "failed" => outcome[j] = "failed"
      BY <2>3
    <2> QED
      BY <2>2, <2>4, <2>5, <2>6 DEF Delivery
  <1>7. ASSUME NEW b \in Batches, Deadline(b) \/ CloseAborts(b) \/ CloseForgets(b) PROVE Delivery'
    BY <1>7, <1>a DEF Deadline, CloseAborts, CloseForgets, clientVars
  <1>8. ASSUME NEW b \in Batches, TimerFires(b) \/ CancelNext(b) PROVE Delivery'
    <2>1. /\ StartClose(b, TRUE) \/ StartClose(b, FALSE)
          /\ UNCHANGED <<calls, completed>> /\ ClientsAlone
      BY <1>8 DEF TimerFires, CancelNext, clientVars
    <2> QED
      BY <2>1, DeliveryClose DEF Delivery
  <1>9. ASSUME NEW c \in Clients, ~Settled(c), cpc'[c] # "deliver", c \notin acked,
               UNCHANGED acked, \A d \in Clients : d # c => cpc'[d] = cpc[d] /\ cids'[d] = cids[d] /\ cbat'[d] = cbat[d]
        PROVE \A d \in Clients : /\ cpc'[d] = "deliver" => cpc[d] = "deliver"
                                 /\ Settled(d) => cbat'[d] = cbat[d] /\ cids'[d] = cids[d]
                                 /\ d \in acked => cpc'[d] \in {"forget", "done"}
    BY <1>9 DEF Delivery
  <1>10. ASSUME NEW c \in Clients, NEW ids \in (SUBSET offered) \ {{}}, FindByCallIDs(c, ids) PROVE Delivery'
    <2>1. Quiet /\ UNCHANGED acked
      BY <1>10 DEF FindByCallIDs, batchVars
    <2>2. /\ ~Settled(c) /\ c \notin acked /\ cpc'[c] # "deliver"
          /\ \A d \in Clients : d # c => cpc'[d] = cpc[d] /\ cids'[d] = cids[d] /\ cbat'[d] = cbat[d]
      <3>1. cpc[c] = "idle"
        BY <1>10 DEF FindByCallIDs
      <3>2. ~Settled(c) /\ c \notin acked
        BY <3>1 DEF Delivery, Settled
      <3>3. /\ cids' = [cids EXCEPT ![c] = ids]
            /\ cpc' = [cpc EXCEPT ![c] = "complete"] \/ cpc' = [cpc EXCEPT ![c] = "sweep"]
            /\ cbat' = cbat \/ \E b \in Batches : cbat' = [cbat EXCEPT ![c] = b]
        BY <1>10 DEF FindByCallIDs
      <3>4. cpc'[c] # "deliver" /\ \A d \in Clients : d # c => cpc'[d] = cpc[d] /\ cids'[d] = cids[d]
        BY <3>3 DEF TypeInv, TypeOK
      <3>5. \A d \in Clients : d # c => cbat'[d] = cbat[d]
        BY <3>3 DEF TypeInv, TypeOK
      <3> QED
        BY <3>2, <3>4, <3>5
    <2> QED
      BY <1>9, <2>1, <2>2, DeliveryFrame
  <1>11. ASSUME NEW c \in Clients, RemoveStale(c) \/ FindByAnyCallIDs(c) PROVE Delivery'
    <2>1. Quiet /\ UNCHANGED acked
      BY <1>11 DEF RemoveStale, FindByAnyCallIDs, batchVars
    <2>2. /\ ~Settled(c) /\ c \notin acked /\ cpc'[c] # "deliver"
          /\ \A d \in Clients : d # c => cpc'[d] = cpc[d] /\ cids'[d] = cids[d] /\ cbat'[d] = cbat[d]
      <3>1. cpc[c] \in {"sweep", "sweepAny", "findAny"}
        BY <1>11 DEF RemoveStale, FindByAnyCallIDs
      <3>2. \A d \in Clients : d # c => cpc'[d] = cpc[d] /\ cids'[d] = cids[d] /\ cbat'[d] = cbat[d]
        <4>1. CASE RemoveStale(c)
          BY <4>1 DEF RemoveStale, GiveUp, TypeInv, TypeOK
        <4>2. CASE FindByAnyCallIDs(c)
          BY <4>2 DEF FindByAnyCallIDs, GiveUp, TypeInv, TypeOK
        <4> QED
          BY <1>11, <4>1, <4>2
      <3>3. cpc'[c] # "deliver"
        BY <1>11 DEF RemoveStale, FindByAnyCallIDs, GiveUp, TypeInv, TypeOK
      <3> QED
        BY <3>1, <3>2, <3>3 DEF Delivery, Settled
    <2> QED
      BY <1>9, <2>1, <2>2, DeliveryFrame
  <1>12. ASSUME NEW c \in Clients, Complete(c) PROVE Delivery'
    <2> DEFINE b == cbat[c]
    <2>1. /\ b \in Batches /\ Open(b) /\ cids[c] = calls[b] /\ cpc[c] = "complete"
          /\ completed' = completed \cup {b}
          /\ cpc' = [cpc EXCEPT ![c] = "deliver"]
          /\ UNCHANGED <<calls, expired, outcome, cids, cbat, acked>>
      BY <1>12 DEF Complete, TypeInv, Locals
    <2> QED
      BY <2>1 DEF Delivery, Settled, Open, TypeInv, TypeOK
  <1>13. ASSUME NEW c \in Clients, Deliver(c) PROVE Delivery'
    <2>1. /\ cpc[c] = "deliver"
          /\ cpc' = [cpc EXCEPT ![c] = "forget"]
          /\ acked' = acked \cup {c}
          /\ \A k \in CallIds : outcome'[k] = IF k \in cids[c] /\ outcome[k] = "pending"
                                              THEN "output" ELSE outcome[k]
          /\ UNCHANGED <<calls, expired, completed, cids, cbat>>
      BY <1>13 DEF Deliver
    <2>2. cbat[c] \in completed /\ cids[c] \subseteq calls[cbat[c]] /\ cids[c] \subseteq CallIds
      BY <2>1 DEF Delivery, Settled, TypeInv, TypeOK
    <2>3. \A k \in cids[c] : outcome'[k] \in {"output", "taken"}
      BY <2>1, <2>2, CompletedNeverFails DEF TypeInv, TypeOK
    <2>4. \A d \in acked : \A k \in cids[d] : outcome'[k] \in {"output", "taken"}
      BY <2>1 DEF Delivery, TypeInv, TypeOK
    <2>5. \A k \in CallIds : /\ outcome'[k] # "pending" => \E x \in Batches : k \in calls[x]
                             /\ outcome'[k] = "failed" => outcome[k] = "failed"
      BY <2>1, <2>2 DEF Delivery, TypeInv, TypeOK
    <2>6. \A d \in Clients : Settled(d)' <=> Settled(d)
      BY <2>1 DEF Settled, TypeInv, TypeOK
    <2>7. \A d \in acked' : cpc'[d] \in {"forget", "done"}
      BY <2>1 DEF Delivery, TypeInv, TypeOK
    <2> QED
      BY <2>1, <2>3, <2>4, <2>5, <2>6, <2>7 DEF Delivery
  <1>14. ASSUME NEW c \in Clients, RefuseOutputs(c) \/ Discard(c) PROVE Delivery'
    <2>1. cpc[c] = "complete" /\ cbat[c] \in Batches /\ UNCHANGED <<calls, completed, acked>>
      BY <1>14 DEF RefuseOutputs, Discard, TypeInv, Locals
    <2>2. /\ ~Settled(c) /\ c \notin acked
          /\ cpc'[c] # "deliver"
          /\ \A d \in Clients : d # c => cpc'[d] = cpc[d] /\ cids'[d] = cids[d] /\ cbat'[d] = cbat[d]
      <3>1. ASSUME RefuseOutputs(c)
            PROVE  /\ cpc'[c] # "deliver"
                   /\ \A d \in Clients : d # c => /\ cpc'[d] = cpc[d]
                                                 /\ cids'[d] = cids[d] /\ cbat'[d] = cbat[d]
        BY <3>1 DEF RefuseOutputs, GiveUp, TypeInv, TypeOK
      <3>2. ASSUME Discard(c)
            PROVE  /\ cpc'[c] # "deliver"
                   /\ \A d \in Clients : d # c => /\ cpc'[d] = cpc[d]
                                                 /\ cids'[d] = cids[d] /\ cbat'[d] = cbat[d]
        BY <3>2 DEF Discard, TypeInv, TypeOK
      <3>3. ~Settled(c) /\ c \notin acked
        BY <2>1 DEF Delivery, Settled
      <3> QED
        BY <1>14, <3>1, <3>2, <3>3
    <2>3. \/ StartClose(cbat[c], TRUE) \/ StartClose(cbat[c], FALSE)
          \/ UNCHANGED <<expired, outcome>>
      BY <1>14 DEF RefuseOutputs, Discard
    <2> QED
      BY <1>9, <2>1, <2>2, <2>3, DeliveryFrame, DeliveryClose
  <1>15. ASSUME NEW c \in Clients, ForgetBatch(c) PROVE Delivery'
    <2>1. Quiet /\ UNCHANGED acked /\ cpc' = [cpc EXCEPT ![c] = "done"]
      BY <1>15 DEF ForgetBatch, GiveUp, batchVars
    <2>2. CASE c \in acked
      <3>1. UNCHANGED <<cids, cbat>>
        BY <1>15, <2>2 DEF ForgetBatch
      <3> QED
        BY <2>1, <3>1, DeliveryFrame DEF Delivery, TypeInv, TypeOK
    <2>3. CASE c \notin acked
      <3>1. /\ ~Settled(c) /\ cpc'[c] # "deliver"
            /\ \A d \in Clients : d # c => cpc'[d] = cpc[d] /\ cids'[d] = cids[d] /\ cbat'[d] = cbat[d]
        BY <1>15, <2>1, <2>3 DEF ForgetBatch, GiveUp, Settled, TypeInv, TypeOK
      <3> QED
        BY <1>9, <2>1, <2>3, <3>1, DeliveryFrame
    <2> QED
      BY <2>2, <2>3
  <1>16. CASE CancelAll
    BY <1>16, <1>a DEF CancelAll, batchVars, clientVars
  <1>17. CASE UNCHANGED vars
    BY <1>17, <1>a DEF vars, batchVars, clientVars
  <1> QED
    BY <1>1, <1>2, <1>3, <1>4, <1>5, <1>6, <1>7, <1>8, <1>10, <1>11, <1>12, <1>13, <1>14, <1>15, <1>16, <1>17
    DEF Next, LockedStep, HandlerStep, BatchStep, ClientStep

\* A client whose outputs were accepted is never let down, however its request
\* races with the batch's TTL, an abort, a shutdown or another continuation.
THEOREM AckedIsDelivered == Spec => []AckedMeansDelivered
  <1>1. TypeInv /\ IdInv /\ Delivery /\ [Next]_vars => (TypeInv /\ IdInv /\ Delivery)'
    BY TypeInvNext, IdInvNext, DeliveryNext
  <1>2. Spec => [](TypeInv /\ IdInv /\ Delivery)
    BY TypeInvInit, IdInvInit, DeliveryInit, <1>1, PTL DEF Spec
  <1>3. TypeInv /\ Delivery => AckedMeansDelivered
    BY DEF Delivery, Settled, AckedMeansDelivered, TypeInv, TypeOK
  <1> QED
    BY <1>2, <1>3, PTL

----------------------------------------------------------------------------
(* Reachability: whatever takes a lookup entry away belongs to a batch that  *)
(* is closed, and a turn announces its calls after it has indexed them.      *)

Gone ==
    /\ \A b \in Batches : closing[b] \in {"abort", "forget"} => b \in expired
    /\ \A c \in Clients : cpc[c] = "forget" => ~Open(cbat[c])
    /\ \A c \in Clients : \A b \in cstale[c] : ~Open(b)

Handed ==
    /\ \A k \in offered : \E b \in Batches : k \in calls[b]
    /\ \A b \in Batches, s \in SdkIds : bySDKID[b][s] # None => bySDKID[b][s] \in calls[b]
    /\ \A t \in Threads : IF pc[t] \in Busy THEN mine[t] \subseteq calls[bat[t]] ELSE mine[t] = {}

\* A turn that is about to announce its calls has them in the lookup.
Indexed ==
    \A r \in Turns : pc[r] = "arm" /\ ~closed /\ Open(bat[r]) =>
        \A k \in mine[r] : byCall[k] = bat[r]

LEMMA GoneInit == Init => Gone
  BY DEF Init, Gone

LEMMA HandedInit == Init => Handed
  BY DEF Init, Handed, Busy

LEMMA IndexedInit == Init => Indexed /\ OfferedReachable
  BY DEF Init, Indexed, OfferedReachable

\* A closed batch is never opened again.
LEMMA StaysClosed ==
  ASSUME [Next]_vars
  PROVE  expired \subseteq expired' /\ completed \subseteq completed'
  <1>1. ASSUME NEW r \in Turns, TurnStep(r) PROVE UNCHANGED <<expired, completed>>
    BY <1>1 DEF TurnStep, ReserveStreamingCall, CaptureRequests, Configure, ReleaseReservations,
                CancelCurrent, batchVars
  <1>2. ASSUME NEW t \in Threads, LockedStep(t) PROVE expired \subseteq expired' /\ completed' = completed
    BY <1>2 DEF LockedStep, EnsureCall, RejectRequest, Bind, CheckOpen, Insert, CancelUnregistered,
                StartTimer, StartClose, batchVars
  <1>3. ASSUME NEW h \in Handlers, HandlerStep(h) PROVE UNCHANGED <<expired, completed>>
    BY <1>3 DEF HandlerStep, HandleInvocation, WaitAnswered, WaitFails, batchVars
  <1>4. ASSUME NEW b \in Batches, BatchStep(b) PROVE expired \subseteq expired' /\ completed' = completed
    BY <1>4 DEF BatchStep, Deadline, TimerFires, CloseAborts, CloseForgets, CancelNext, StartClose
  <1>5. ASSUME NEW c \in Clients, ClientStep(c)
        PROVE  expired \subseteq expired' /\ completed \subseteq completed'
    <2>1. CASE Discard(c) \/ RefuseOutputs(c)
      BY <2>1 DEF Discard, RefuseOutputs, StartClose
    <2>2. CASE ~(Discard(c) \/ RefuseOutputs(c))
      BY <1>5, <2>2 DEF ClientStep, FindByCallIDs, RemoveStale, FindByAnyCallIDs, Complete, Deliver,
                        ForgetBatch, batchVars
    <2> QED
      BY <2>1, <2>2
  <1> QED
    BY <1>1, <1>2, <1>3, <1>4, <1>5 DEF Next, CancelAll, batchVars, vars

LEMMA GoneNext == TypeInv /\ Delivery /\ Gone /\ [Next]_vars => Gone'
  <1> SUFFICES ASSUME TypeInv, Delivery, Gone, [Next]_vars PROVE Gone'
    OBVIOUS
  <1>a. \A b : Open(b)' => Open(b)
    BY StaysClosed DEF Open
  <1>b. expired \subseteq expired'
    BY StaysClosed
  <1>c. ASSUME \A b \in Batches : closing'[b] \in {"abort", "forget"} =>
                 closing[b] \in {"abort", "forget"} \/ b \in expired',
               \A c \in Clients : /\ cpc'[c] = "forget" =>
                                        \/ cpc[c] = "forget" /\ cbat'[c] = cbat[c]
                                        \/ ~Open(cbat[c])'
                                  /\ cstale'[c] \subseteq cstale[c]
        PROVE  Gone'
    BY <1>a, <1>b, <1>c DEF Gone
  <1>d. ASSUME NEW b \in Batches, NEW run \in BOOLEAN, StartClose(b, run)
        PROVE  /\ \A x \in Batches : closing'[x] \in {"abort", "forget"} =>
                    closing[x] \in {"abort", "forget"} \/ x \in expired'
               /\ ~Open(b)'
    <2>1. CASE Open(b)
      BY <1>d, <2>1 DEF StartClose, Open, TypeInv, TypeOK
    <2>2. CASE ~Open(b)
      BY <1>a, <1>d, <2>2 DEF StartClose
    <2> QED
      BY <2>1, <2>2
  <1>1. ASSUME NEW r \in Turns, TurnStep(r) PROVE Gone'
    <2>1. UNCHANGED <<closing, cpc, cbat, cstale>>
      BY <1>1 DEF TurnStep, ReserveStreamingCall, CaptureRequests, Configure, ReleaseReservations,
                  CancelCurrent, batchVars, clientVars
    <2> QED
      BY <1>c, <2>1
  <1>2. ASSUME NEW t \in Threads, LockedStep(t) PROVE Gone'
    <2>1. CASE CancelUnregistered(t)
      <3>1. bat[t] \in Batches /\ StartClose(bat[t], FALSE) /\ UNCHANGED <<cpc, cbat, cstale>>
        BY <2>1 DEF CancelUnregistered, clientVars, TypeInv, Locals, Busy
      <3> QED
        BY <1>c, <1>d, <3>1
    <2>2. CASE ~CancelUnregistered(t)
      <3>1. UNCHANGED <<closing, cpc, cbat, cstale>>
        BY <1>2, <2>2 DEF LockedStep, EnsureCall, RejectRequest, Bind, CheckOpen, Insert, StartTimer,
                          batchVars, clientVars
      <3> QED
        BY <1>c, <3>1
    <2> QED
      BY <2>1, <2>2
  <1>3. ASSUME NEW h \in Handlers, HandlerStep(h) PROVE Gone'
    <2>1. UNCHANGED <<closing, cpc, cbat, cstale>>
      BY <1>3 DEF HandlerStep, HandleInvocation, WaitAnswered, WaitFails, batchVars, clientVars
    <2> QED
      BY <1>c, <2>1
  <1>4. ASSUME NEW b \in Batches, BatchStep(b) PROVE Gone'
    <2>1. CASE TimerFires(b) \/ CancelNext(b)
      <3>1. (StartClose(b, TRUE) \/ StartClose(b, FALSE)) /\ UNCHANGED <<cpc, cbat, cstale>>
        BY <2>1 DEF TimerFires, CancelNext, clientVars
      <3> QED
        BY <1>c, <1>d, <3>1
    <2>2. CASE Deadline(b) \/ CloseAborts(b) \/ CloseForgets(b)
      <3>1. UNCHANGED <<cpc, cbat, cstale>>
        BY <2>2 DEF Deadline, CloseAborts, CloseForgets, clientVars
      <3>2. \A x \in Batches : closing'[x] \in {"abort", "forget"} => closing[x] \in {"abort", "forget"}
        BY <2>2 DEF Deadline, CloseAborts, CloseForgets, TypeInv, TypeOK
      <3> QED
        BY <1>c, <3>1, <3>2
    <2> QED
      BY <1>4, <2>1, <2>2 DEF BatchStep
  <1>5. ASSUME NEW c \in Clients, NEW ids \in (SUBSET offered) \ {{}}, FindByCallIDs(c, ids) PROVE Gone'
    <2>1. UNCHANGED <<closing, expired, completed>> /\ \A d \in Clients : cpc'[d] = "forget" =>
                                   cpc[d] = "forget" /\ cbat'[d] = cbat[d]
      BY <1>5 DEF FindByCallIDs, batchVars, TypeInv, TypeOK
    <2>2. cstale' = cstale \/ \E k \in ids : Stale(k) /\ cstale' = [cstale EXCEPT ![c] = {byCall[k]}]
      BY <1>5 DEF FindByCallIDs
    <2>3. \A d \in Clients : \A b \in cstale'[d] : ~Open(b)
      <3>1. CASE cstale' = cstale
        BY <3>1 DEF Gone
      <3>2. ASSUME NEW k \in ids, Stale(k), cstale' = [cstale EXCEPT ![c] = {byCall[k]}]
            PROVE  \A d \in Clients : \A b \in cstale'[d] : ~Open(b)
        <4>1. cstale'[c] = {byCall[k]} /\ \A d \in Clients \ {c} : cstale'[d] = cstale[d]
          BY <3>2 DEF TypeInv, TypeOK
        <4> QED
          BY <3>2, <4>1 DEF Gone, Stale
      <3> QED
        BY <2>2, <3>1, <3>2
    <2> QED
      BY <1>a, <1>b, <2>1, <2>3 DEF Gone
  <1>6. ASSUME NEW c \in Clients, RemoveStale(c) PROVE Gone'
    <2>1. UNCHANGED closing /\ \A d \in Clients : /\ cpc'[d] = "forget" => cpc[d] = "forget" /\ cbat'[d] = cbat[d]
                                                  /\ cstale'[d] \subseteq cstale[d]
      BY <1>6 DEF RemoveStale, GiveUp, batchVars, TypeInv, TypeOK
    <2> QED
      BY <1>c, <2>1
  <1>7. ASSUME NEW c \in Clients, FindByAnyCallIDs(c) PROVE Gone'
    <2> DEFINE stale == {byCall[k] : k \in {j \in cids[c] : Stale(j)}}
    <2>1. UNCHANGED <<closing, expired, completed>>
      BY <1>7 DEF FindByAnyCallIDs, batchVars
    <2>2. \A b \in stale : ~Open(b)
      BY DEF Stale
    <2>3. cstale' = cstale \/ cstale' = [cstale EXCEPT ![c] = stale]
      BY <1>7 DEF FindByAnyCallIDs
    <2>4. \A d \in Clients : cpc'[d] = "forget" => cpc[d] = "forget" /\ cbat'[d] = cbat[d]
      BY <1>7 DEF FindByAnyCallIDs, TypeInv, TypeOK
    <2> HIDE DEF stale
    <2>5. \A d \in Clients : \A b \in cstale'[d] : ~Open(b)
      BY <2>2, <2>3 DEF Gone, TypeInv, TypeOK
    <2> QED
      BY <1>a, <1>b, <2>1, <2>4, <2>5 DEF Gone
  <1>8. ASSUME NEW c \in Clients, Complete(c) PROVE Gone'
    <2>1. UNCHANGED <<closing, cbat, cstale>> /\ cpc' = [cpc EXCEPT ![c] = "deliver"]
      BY <1>8 DEF Complete
    <2> QED
      BY <1>c, <2>1 DEF TypeInv, TypeOK
  <1>9. ASSUME NEW c \in Clients, Deliver(c) PROVE Gone'
    <2>1. UNCHANGED <<closing, cbat, cstale, completed>> /\ cpc' = [cpc EXCEPT ![c] = "forget"]
      BY <1>9 DEF Deliver
    <2>2. cbat[c] \in completed
      BY <1>9 DEF Deliver, Delivery, Settled
    <2> QED
      BY <1>c, <2>1, <2>2 DEF TypeInv, TypeOK, Open
  <1>10. ASSUME NEW c \in Clients, RefuseOutputs(c) PROVE Gone'
    <2>1. /\ cbat[c] \in Batches /\ UNCHANGED cstale
          /\ StartClose(cbat[c], TRUE) \/ UNCHANGED closing
      BY <1>10 DEF RefuseOutputs, TypeInv, Locals
    <2>2. \A d \in Clients : cpc'[d] = "forget" => cpc[d] = "forget" /\ cbat'[d] = cbat[d]
      BY <1>10 DEF RefuseOutputs, GiveUp, TypeInv, TypeOK
    <2> QED
      BY <1>c, <1>d, <2>1, <2>2
  <1>11. ASSUME NEW c \in Clients, Discard(c) PROVE Gone'
    <2>1. /\ cbat[c] \in Batches /\ StartClose(cbat[c], FALSE) /\ UNCHANGED <<cbat, cstale>>
          /\ cpc' = [cpc EXCEPT ![c] = "forget"]
      BY <1>11 DEF Discard, TypeInv, Locals
    <2> QED
      BY <1>c, <1>d, <2>1 DEF TypeInv, TypeOK
  <1>12. ASSUME NEW c \in Clients, ForgetBatch(c) PROVE Gone'
    <2>1. UNCHANGED <<closing, cstale>>
      BY <1>12 DEF ForgetBatch, batchVars
    <2>2. \A d \in Clients : cpc'[d] = "forget" => cpc[d] = "forget" /\ cbat'[d] = cbat[d]
      BY <1>12 DEF ForgetBatch, GiveUp, TypeInv, TypeOK
    <2> QED
      BY <1>c, <2>1, <2>2
  <1>13. CASE CancelAll \/ UNCHANGED vars
    <2>1. UNCHANGED <<closing, cpc, cbat, cstale>>
      BY <1>13 DEF CancelAll, vars, batchVars, clientVars
    <2> QED
      BY <1>c, <2>1
  <1> QED
    BY <1>1, <1>2, <1>3, <1>4, <1>5, <1>6, <1>7, <1>8, <1>9, <1>10, <1>11, <1>12, <1>13
    DEF Next, ClientStep

LEMMA HandedNext == TypeInv /\ Handed /\ [Next]_vars => Handed'
  <1> SUFFICES ASSUME TypeInv, Handed, [Next]_vars PROVE Handed'
    OBVIOUS
  <1> USE InvokedByAssumption, NoneAssumption, ThreadsAssumption
  <1>a. ASSUME UNCHANGED <<calls, bySDKID, offered>>,
               \A t \in Threads : /\ pc'[t] \in Busy => pc[t] \in Busy /\ bat'[t] = bat[t] /\ mine'[t] = mine[t]
                                  /\ pc'[t] \notin Busy => mine'[t] = {} \/ (pc[t] \notin Busy /\ mine'[t] = mine[t])
        PROVE  Handed'
    BY <1>a DEF Handed
  <1>b. ASSUME UNCHANGED <<calls, bySDKID, offered, threadVars>> PROVE Handed'
    BY <1>b DEF Handed, threadVars
  <1>1. ASSUME NEW r \in Turns, NEW s \in SdkIds, ReserveStreamingCall(r, s) PROVE Handed'
    BY <1>1, <1>b DEF ReserveStreamingCall, batchVars
  <1>2. ASSUME NEW t \in Threads, CaptureRequests(t) \/ HandleInvocation(t), UNCHANGED offered PROVE Handed'
    <2>1. /\ pc[t] = "idle" /\ UNCHANGED <<calls, bySDKID, offered, mine>>
          /\ \A u \in Threads : u # t => pc'[u] = pc[u] /\ bat'[u] = bat[u]
      <3>1. pc[t] = "idle" /\ UNCHANGED <<calls, bySDKID, mine>>
        BY <1>2 DEF CaptureRequests, HandleInvocation
      <3>2. \A u \in Threads : u # t => pc'[u] = pc[u]
        BY <1>2 DEF CaptureRequests, HandleInvocation, TypeInv, TypeOK
      <3>3. UseOpenBatch(t) \/ NewBatch(t)
        BY <1>2 DEF CaptureRequests, HandleInvocation
      <3>4. \A u \in Threads : u # t => bat'[u] = bat[u]
        BY <3>3, TakeBatchType DEF BatchTaken
      <3> QED
        BY <1>2, <3>1, <3>2, <3>4
    <2>2. mine[t] = {}
      BY <2>1 DEF Handed, Busy
    <2> QED
      BY <2>1, <2>2 DEF Handed
  <1>3. ASSUME NEW r \in Turns, Configure(r) \/ ReleaseReservations(r) PROVE Handed'
    BY <1>3, <1>a DEF Configure, ReleaseReservations, batchVars, Busy, TypeInv, TypeOK
  <1>4. ASSUME NEW r \in Turns, CancelCurrent(r) PROVE Handed'
    BY <1>4, <1>b DEF CancelCurrent, batchVars
  <1>5. ASSUME NEW t \in Threads, NEW s \in SdkIds, EnsureCall(t, s) PROVE Handed'
    <2>1. /\ bat[t] \in Batches /\ pc[t] \in Busy /\ UNCHANGED <<offered, bat>>
          /\ \A u \in Threads : pc'[u] \in Busy <=> pc[u] \in Busy
      BY <1>5 DEF EnsureCall, TypeInv, TypeOK, Locals, Busy
    <2>2. mine[t] \subseteq calls[bat[t]]
      BY <2>1 DEF Handed
    <2>3. CASE FindCall(t, s)
      <3>1. /\ UNCHANGED <<calls, bySDKID>> /\ bySDKID[bat[t]][s] \in calls[bat[t]]
            /\ mine' = [mine EXCEPT ![t] = @ \cup {bySDKID[bat[t]][s]}]
        BY <2>1, <2>3 DEF FindCall, Handed
      <3> QED
        BY <2>1, <2>2, <3>1 DEF Handed, TypeInv, TypeOK
    <2>4. CASE MintCall(t, s)
      <3>1. PICK k \in CallIds :
              /\ calls' = [calls EXCEPT ![bat[t]] = @ \cup {k}]
              /\ bySDKID' = [bySDKID EXCEPT ![bat[t]][s] = IF s = EmptyId THEN None ELSE k]
              /\ mine' = [mine EXCEPT ![t] = @ \cup {k}]
        BY <2>4 DEF MintCall
      <3>2. \A b \in Batches : calls[b] \subseteq calls'[b]
        BY <2>1, <3>1 DEF TypeInv, TypeOK
      <3>3. k \in calls'[bat[t]]
        BY <2>1, <3>1 DEF TypeInv, TypeOK
      <3>4. \A j \in offered' : \E b \in Batches : j \in calls'[b]
        BY <2>1, <3>2 DEF Handed
      <3>5. \A b \in Batches, u \in SdkIds : bySDKID'[b][u] # None => bySDKID'[b][u] \in calls'[b]
        <4> TAKE b \in Batches, u \in SdkIds
        <4>1. CASE b = bat[t] /\ u = s
          BY <2>1, <3>1, <3>3, <4>1 DEF TypeInv, TypeOK
        <4>2. CASE ~(b = bat[t] /\ u = s)
          <5>1. bySDKID'[b][u] = bySDKID[b][u]
            BY <2>1, <3>1, <4>2 DEF TypeInv, TypeOK
          <5> QED
            BY <3>2, <5>1 DEF Handed
        <4> QED
          BY <4>1, <4>2
      <3>6. \A u \in Threads : IF pc'[u] \in Busy THEN mine'[u] \subseteq calls'[bat'[u]] ELSE mine'[u] = {}
        <4> TAKE u \in Threads
        <4>1. CASE u = t
          BY <2>1, <2>2, <3>1, <3>2, <3>3, <4>1 DEF TypeInv, TypeOK
        <4>2. CASE u # t
          <5>1. mine'[u] = mine[u] /\ bat'[u] = bat[u] /\ (pc'[u] \in Busy <=> pc[u] \in Busy)
            BY <2>1, <3>1, <4>2 DEF TypeInv, TypeOK
          <5>2. pc[u] \in Busy => bat[u] \in Batches
            BY DEF TypeInv, Locals
          <5> QED
            BY <3>2, <5>1, <5>2 DEF Handed
        <4> QED
          BY <4>1, <4>2
      <3> QED
        BY <3>4, <3>5, <3>6 DEF Handed
    <2> QED
      BY <1>5, <2>3, <2>4 DEF EnsureCall
  <1>6. ASSUME NEW t \in Threads, RejectRequest(t) PROVE Handed'
    BY <1>6, <1>a DEF RejectRequest, Return, batchVars, Busy, TypeInv, TypeOK
  <1>7. ASSUME NEW t \in Threads, Bind(t) \/ CheckOpen(t) \/ Insert(t) \/ CancelUnregistered(t) PROVE Handed'
    <2>1. UNCHANGED <<calls, bySDKID, offered, bat, mine>>
      BY <1>7 DEF Bind, CheckOpen, Insert, CancelUnregistered, batchVars
    <2>2. \A u \in Threads : pc'[u] \in Busy <=> pc[u] \in Busy
      <3>1. pc[t] \in {"bind", "check", "insert", "cancel"}
        BY <1>7 DEF Bind, CheckOpen, Insert, CancelUnregistered
      <3>2. \E x \in {"check", "insert", "cancel", "arm"} : pc' = [pc EXCEPT ![t] = x]
        BY <1>7 DEF Bind, CheckOpen, Insert, CancelUnregistered
      <3> QED
        BY <3>1, <3>2 DEF Busy, TypeInv, TypeOK
    <2> QED
      BY <1>a, <2>1, <2>2
  <1>8. ASSUME NEW t \in Threads, StartTimer(t) PROVE Handed'
    <2>1. bat[t] \in Batches /\ mine[t] \subseteq calls[bat[t]] /\ UNCHANGED <<calls, bySDKID>>
      BY <1>8 DEF StartTimer, Handed, TypeInv, Locals, Busy
    <2>2. CASE t \in Turns /\ Return(t, "idle") /\ offered' = offered \cup mine[t]
      BY <2>1, <2>2 DEF Return, Handed, Busy, TypeInv, TypeOK
    <2>3. CASE t \in Handlers /\ pc' = [pc EXCEPT ![t] = "wait"] /\ UNCHANGED <<offered, bat, mine>>
      BY <1>8, <1>a, <2>1, <2>3 DEF StartTimer, Busy, TypeInv, TypeOK
    <2> QED
      BY <1>8, <2>2, <2>3 DEF StartTimer
  <1>9. ASSUME NEW h \in Handlers, WaitAnswered(h) \/ WaitFails(h) PROVE Handed'
    BY <1>9, <1>a DEF WaitAnswered, WaitFails, Return, batchVars, Busy, TypeInv, TypeOK
  <1>10. ASSUME NEW b \in Batches, BatchStep(b) PROVE Handed'
    BY <1>10, <1>b DEF BatchStep, Deadline, TimerFires, CloseAborts, CloseForgets, CancelNext
  <1>11. ASSUME NEW c \in Clients, ClientStep(c) PROVE Handed'
    BY <1>11, <1>b DEF ClientStep, FindByCallIDs, RemoveStale, FindByAnyCallIDs, Complete, RefuseOutputs,
                       Deliver, Discard, ForgetBatch, batchVars
  <1>12. CASE CancelAll \/ UNCHANGED vars
    BY <1>12, <1>b DEF CancelAll, vars, batchVars
  <1>13. ASSUME NEW r \in Turns, CaptureRequests(r) PROVE Handed'
    BY <1>13, <1>2 DEF CaptureRequests
  <1>14. ASSUME NEW h \in Handlers, HandleInvocation(h) PROVE Handed'
    BY <1>14, <1>2 DEF HandleInvocation
  <1> QED
    BY <1>1, <1>3, <1>4, <1>5, <1>6, <1>7, <1>8, <1>9, <1>10, <1>11, <1>12, <1>13, <1>14
    DEF Next, TurnStep, LockedStep, HandlerStep

\* Nothing takes the entry of a call away while its batch stays open.
LEMMA EntryStays ==
  ASSUME TypeInv, IdInv, Gone, [Next]_vars, ~closed',
         NEW b \in Batches, NEW k \in calls[b], byCall[k] = b, Open(b)'
  PROVE  byCall'[k] = b
  <1>a. Open(b) /\ k \in CallIds
    BY StaysClosed DEF Open, TypeInv, TypeOK
  <1>b. \A a \in Batches : a # b => k \notin calls[a]
    BY <1>a DEF IdInv, LookupSound
  <1>c. ASSUME NEW a \in Batches, Remove(a), ~Open(a) PROVE byCall'[k] = b
    BY <1>a, <1>c DEF Remove
  <1>1. ASSUME NEW r \in Turns, TurnStep(r) PROVE byCall' = byCall
    BY <1>1 DEF TurnStep, ReserveStreamingCall, CaptureRequests, Configure, ReleaseReservations,
                CancelCurrent, brokerVars
  <1>2. ASSUME NEW t \in Threads, Bind(t) PROVE byCall'[k] = b
    <2>1. bat[t] \in Batches
      BY <1>2 DEF Bind, TypeInv, Locals, Busy
    <2> QED
      BY <1>2, <1>c, <2>1 DEF Bind, Open
  <1>3. ASSUME NEW t \in Threads, Insert(t) PROVE byCall'[k] = b
    <2>1. bat[t] \in Batches
      BY <1>3 DEF Insert, TypeInv, Locals, Busy
    <2> QED
      BY <1>3, <1>a, <1>b, <2>1 DEF Insert
  <1>4. ASSUME NEW t \in Threads, \/ RejectRequest(t) \/ CheckOpen(t) \/ CancelUnregistered(t) \/ StartTimer(t)
                                  \/ \E s \in SdkIds : EnsureCall(t, s)
        PROVE  byCall' = byCall
    BY <1>4 DEF EnsureCall, RejectRequest, CheckOpen, CancelUnregistered, StartTimer, brokerVars
  <1>5. ASSUME NEW h \in Handlers, HandlerStep(h) PROVE byCall' = byCall
    BY <1>5 DEF HandlerStep, HandleInvocation, WaitAnswered, WaitFails, brokerVars
  <1>6. ASSUME NEW a \in Batches, CloseForgets(a) PROVE byCall'[k] = b
    BY <1>6, <1>c DEF CloseForgets, Gone, Open
  <1>7. ASSUME NEW a \in Batches, Deadline(a) \/ TimerFires(a) \/ CloseAborts(a) \/ CancelNext(a)
        PROVE  byCall' = byCall
    BY <1>7 DEF Deadline, TimerFires, CloseAborts, CancelNext, brokerVars
  <1>8. ASSUME NEW c \in Clients, RemoveStale(c) PROVE byCall'[k] = b
    BY <1>8, <1>a DEF RemoveStale, Gone
  <1>9. ASSUME NEW c \in Clients, ForgetBatch(c) PROVE byCall'[k] = b
    <2>1. cbat[c] \in Batches /\ Remove(cbat[c]) /\ ~Open(cbat[c])
      BY <1>9 DEF ForgetBatch, Gone, TypeInv, Locals
    <2> QED
      BY <1>c, <2>1
  <1>10. ASSUME NEW c \in Clients, \/ FindByAnyCallIDs(c) \/ Complete(c) \/ RefuseOutputs(c) \/ Deliver(c)
                                   \/ Discard(c) \/ \E ids \in (SUBSET offered) \ {{}} : FindByCallIDs(c, ids)
         PROVE  byCall' = byCall
    BY <1>10 DEF FindByCallIDs, FindByAnyCallIDs, Complete, RefuseOutputs, Deliver, Discard, brokerVars
  <1>11. ~CancelAll
    BY DEF CancelAll
  <1>12. CASE UNCHANGED vars
    BY <1>12 DEF vars, brokerVars
  <1> QED
    BY <1>1, <1>2, <1>3, <1>4, <1>5, <1>6, <1>7, <1>8, <1>9, <1>10, <1>11, <1>12
    DEF Next, LockedStep, BatchStep, ClientStep

LEMMA IndexedNext ==
  TypeInv /\ IdInv /\ Gone /\ Handed /\ Indexed /\ OfferedReachable /\ [Next]_vars
    => (Indexed /\ OfferedReachable)'
  <1> SUFFICES ASSUME TypeInv, IdInv, Gone, Handed, Indexed, OfferedReachable, [Next]_vars
               PROVE  (Indexed /\ OfferedReachable)'
    OBVIOUS
  <1> USE InvokedByAssumption, NoneAssumption, ThreadsAssumption
  <1>a. \A b : Open(b)' => Open(b)
    BY StaysClosed DEF Open
  <1>b. closed => closed'
    BY DEF Next, TurnStep, LockedStep, HandlerStep, BatchStep, ClientStep, ReserveStreamingCall,
           CaptureRequests, Configure, ReleaseReservations, CancelCurrent, EnsureCall, RejectRequest,
           Bind, CheckOpen, Insert, CancelUnregistered, StartTimer, HandleInvocation, WaitAnswered,
           WaitFails, Deadline, TimerFires, CloseAborts, CloseForgets, CancelNext, FindByCallIDs,
           RemoveStale, FindByAnyCallIDs, Complete, RefuseOutputs, Deliver, Discard, ForgetBatch,
           CancelAll, vars, brokerVars
  <1>c. ASSUME ~closed', NEW b \in Batches, NEW k \in calls[b], byCall[k] = b, Open(b)'
        PROVE  byCall'[k] = b
    BY <1>c, EntryStays
  \* What was announced before the step, and the batch it is in.
  <1>d. ASSUME UNCHANGED <<calls, offered>> PROVE OfferedReachable'
    BY <1>a, <1>b, <1>c, <1>d DEF OfferedReachable
  \* A turn that was and stays about to announce.
  <1>e. ASSUME NEW r \in Turns, pc[r] = "arm", mine'[r] = mine[r], bat'[r] = bat[r], ~closed', Open(bat[r])'
        PROVE  \A k \in mine'[r] : byCall'[k] = bat'[r]
    <2>1. bat[r] \in Batches /\ mine[r] \subseteq calls[bat[r]]
      BY <1>e DEF Handed, TypeInv, Locals, Busy
    <2>2. \A k \in mine[r] : byCall[k] = bat[r]
      BY <1>a, <1>b, <1>e, <2>1 DEF Indexed
    <2> QED
      BY <1>c, <1>e, <2>1, <2>2
  <1>f. ASSUME \A r \in Turns : pc'[r] = "arm" => pc[r] = "arm" /\ mine'[r] = mine[r] /\ bat'[r] = bat[r]
        PROVE  Indexed'
    BY <1>e, <1>f DEF Indexed
  <1>g. ASSUME UNCHANGED <<calls, offered>>,
               \A r \in Turns : pc'[r] = "arm" => pc[r] = "arm" /\ mine'[r] = mine[r] /\ bat'[r] = bat[r]
        PROVE  (Indexed /\ OfferedReachable)'
    BY <1>d, <1>f, <1>g
  <1>1. ASSUME NEW r \in Turns, NEW s \in SdkIds, ReserveStreamingCall(r, s) PROVE (Indexed /\ OfferedReachable)'
    BY <1>1, <1>g DEF ReserveStreamingCall, batchVars, threadVars
  <1>2. ASSUME NEW t \in Threads, CaptureRequests(t) \/ HandleInvocation(t), UNCHANGED offered
        PROVE  (Indexed /\ OfferedReachable)'
    <2>1. UseOpenBatch(t) \/ NewBatch(t)
      BY <1>2 DEF CaptureRequests, HandleInvocation
    <2>2. \A u \in Threads : u # t => bat'[u] = bat[u]
      BY <2>1, TakeBatchType DEF BatchTaken
    <2>3. UNCHANGED <<calls, mine>> /\ pc'[t] # "arm" /\ \A u \in Threads : u # t => pc'[u] = pc[u]
      BY <1>2 DEF CaptureRequests, HandleInvocation, TypeInv, TypeOK
    <2> QED
      BY <1>2, <1>g, <2>2, <2>3
  <1>3. ASSUME NEW r \in Turns, Configure(r) \/ ReleaseReservations(r) \/ CancelCurrent(r)
        PROVE  (Indexed /\ OfferedReachable)'
    BY <1>3, <1>g DEF Configure, ReleaseReservations, CancelCurrent, batchVars, threadVars, TypeInv, TypeOK
  <1>4. ASSUME NEW t \in Threads, NEW s \in SdkIds, EnsureCall(t, s) PROVE (Indexed /\ OfferedReachable)'
    <2>1. /\ bat[t] \in Batches /\ TurnOf(t) \in Turns /\ pc[t] = "ensure" /\ pc'[t] # "arm"
          /\ UNCHANGED <<bat, offered, byCall>> /\ \A u \in Threads : u # t => pc'[u] = pc[u]
      BY <1>4 DEF EnsureCall, brokerVars, TypeInv, TypeOK, Locals, Busy
    <2>2. \A u \in Threads : u # t => mine'[u] = mine[u]
      BY <1>4 DEF EnsureCall, FindCall, MintCall, TypeInv, TypeOK
    <2>3. Indexed'
      BY <1>f, <2>1, <2>2
    <2>4. CASE FindCall(t, s)
      BY <1>d, <2>1, <2>3, <2>4 DEF FindCall
    <2>5. CASE MintCall(t, s)
      <3>1. PICK k \in CallIds :
              /\ IF reserved[TurnOf(t)][s] # None THEN k = reserved[TurnOf(t)][s] ELSE k \notin minted
              /\ calls' = [calls EXCEPT ![bat[t]] = @ \cup {k}]
        BY <2>5 DEF MintCall
      <3>2. \A b \in Batches : k \notin calls[b]
        BY <2>1, <3>1 DEF IdInv, Fresh
      <3>3. k \notin offered
        BY <3>2 DEF Handed
      <3>4. ASSUME NEW b \in Batches PROVE calls'[b] \cap offered' = calls[b] \cap offered
        <4>1. bat[t] \in Batches /\ calls \in [Batches -> SUBSET CallIds]
          BY <2>1 DEF TypeInv, TypeOK
        <4>2. CASE b = bat[t]
          <5>1. calls'[b] = calls[b] \cup {k}
            BY <3>1, <4>1, <4>2
          <5> QED
            BY <2>1, <3>3, <5>1
        <4>3. CASE b # bat[t]
          <5>1. calls'[b] = calls[b]
            BY <3>1, <4>1, <4>3
          <5> QED
            BY <2>1, <5>1
        <4> QED
          BY <4>2, <4>3
      <3>5. OfferedReachable'
        BY <1>a, <1>b, <2>1, <3>4 DEF OfferedReachable
      <3> QED
        BY <2>3, <3>5
    <2> QED
      BY <1>4, <2>4, <2>5 DEF EnsureCall
  <1>5. ASSUME NEW t \in Threads, RejectRequest(t) PROVE (Indexed /\ OfferedReachable)'
    BY <1>5, <1>g DEF RejectRequest, Return, batchVars, TypeInv, TypeOK
  <1>6. ASSUME NEW t \in Threads, \/ Bind(t) \/ CheckOpen(t) \/ Insert(t) \/ CancelUnregistered(t)
        PROVE  (Indexed /\ OfferedReachable)'
    <2>1. /\ bat[t] \in Batches /\ mine[t] \subseteq calls[bat[t]]
          /\ UNCHANGED <<calls, offered, bat, mine>> /\ \A u \in Threads : u # t => pc'[u] = pc[u]
      BY <1>6 DEF Bind, CheckOpen, Insert, CancelUnregistered, batchVars, Handed, TypeInv, TypeOK, Locals, Busy
    <2>2. pc'[t] = "arm" /\ ~closed' /\ Open(bat[t])' => \A k \in mine[t] : byCall'[k] = bat[t]
      <3>1. CASE Bind(t)
        BY <2>1, <3>1, <1>a DEF Bind, Open, TypeInv, TypeOK
      <3>2. CASE CheckOpen(t)
        BY <2>1, <3>2, <1>a DEF CheckOpen, TypeInv, TypeOK
      <3>3. CASE Insert(t)
        <4>1. CASE closed
          BY <1>b, <4>1
        <4>2. CASE ~closed
          BY <2>1, <3>3, <4>2 DEF Insert, TypeInv, TypeOK
        <4> QED
          BY <4>1, <4>2
      <3>4. CASE CancelUnregistered(t)
        <4>1. ~Open(bat[t])'
          BY <2>1, <3>4, <1>a DEF CancelUnregistered, StartClose, Open
        <4> QED
          BY <2>1, <4>1
      <3> QED
        BY <1>6, <3>1, <3>2, <3>3, <3>4
    <2>3. ASSUME NEW r \in Turns, pc'[r] = "arm", ~closed', Open(bat[r])'
          PROVE  \A k \in mine'[r] : byCall'[k] = bat'[r]
      <3>1. CASE r = t
        BY <2>1, <2>2, <2>3, <3>1
      <3>2. CASE r # t
        BY <1>e, <2>1, <2>3, <3>2
      <3> QED
        BY <3>1, <3>2
    <2>4. Indexed'
      BY <2>3 DEF Indexed
    <2> QED
      BY <1>d, <2>1, <2>4
  <1>7. ASSUME NEW t \in Threads, StartTimer(t) PROVE (Indexed /\ OfferedReachable)'
    <2>1. /\ pc[t] = "arm" /\ bat[t] \in Batches /\ mine[t] \subseteq calls[bat[t]]
          /\ UNCHANGED <<calls, byCall, closed, expired, completed>>
          /\ \A u \in Threads : u # t => pc'[u] = pc[u] /\ bat'[u] = bat[u] /\ mine'[u] = mine[u]
          /\ pc'[t] # "arm"
      BY <1>7 DEF StartTimer, Return, brokerVars, Handed, TypeInv, TypeOK, Locals, Busy
    <2>2. Indexed'
      BY <1>f, <2>1
    <2>3. offered' = offered \/ (t \in Turns /\ offered' = offered \cup mine[t])
      BY <1>7 DEF StartTimer
    <2>4. ASSUME NEW b \in Batches, NEW k \in calls[b] \cap mine[t], t \in Turns, Open(b), ~closed
          PROVE  byCall[k] = b
      BY <2>1, <2>4 DEF Indexed, IdInv, LookupSound, Open
    <2> QED
      BY <2>1, <2>2, <2>3, <2>4 DEF OfferedReachable, Open
  <1>8. ASSUME NEW h \in Handlers, WaitAnswered(h) \/ WaitFails(h) PROVE (Indexed /\ OfferedReachable)'
    BY <1>8, <1>g DEF WaitAnswered, WaitFails, Return, batchVars, TypeInv, TypeOK
  <1>9. ASSUME NEW b \in Batches, BatchStep(b) PROVE (Indexed /\ OfferedReachable)'
    BY <1>9, <1>g DEF BatchStep, Deadline, TimerFires, CloseAborts, CloseForgets, CancelNext, threadVars
  <1>10. ASSUME NEW c \in Clients, ClientStep(c) PROVE (Indexed /\ OfferedReachable)'
    <2>1. UNCHANGED <<calls, offered, pc, bat, mine>>
      BY <1>10 DEF ClientStep, FindByCallIDs, RemoveStale, FindByAnyCallIDs, Complete, RefuseOutputs,
                   Deliver, Discard, ForgetBatch, batchVars, threadVars
    <2> QED
      BY <1>g, <2>1
  <1>11. CASE CancelAll \/ UNCHANGED vars
    BY <1>11, <1>g DEF CancelAll, vars, batchVars, threadVars
  <1>12. ASSUME NEW r \in Turns, CaptureRequests(r) PROVE (Indexed /\ OfferedReachable)'
    BY <1>12, <1>2 DEF CaptureRequests
  <1>13. ASSUME NEW h \in Handlers, HandleInvocation(h) PROVE (Indexed /\ OfferedReachable)'
    BY <1>13, <1>2 DEF HandleInvocation
  <1> QED
    BY <1>1, <1>3, <1>4, <1>5, <1>6, <1>7, <1>8, <1>9, <1>10, <1>11, <1>12, <1>13
    DEF Next, TurnStep, LockedStep, HandlerStep

\* A call the client was handed leads to its batch for as long as that is open,
\* whatever is swept, expires, is captured again or closed beside it (Register,
\* Remove, findByCallIDs).
THEOREM OfferedIsReachable == Spec => []OfferedReachable
  <1> DEFINE I == TypeInv /\ IdInv /\ Delivery /\ Gone /\ Handed /\ Indexed /\ OfferedReachable
  <1>1. Init => I
    BY TypeInvInit, IdInvInit, DeliveryInit, GoneInit, HandedInit, IndexedInit
  <1>2. I /\ [Next]_vars => I'
    BY TypeInvNext, IdInvNext, DeliveryNext, GoneNext, HandedNext, IndexedNext
  <1> QED
    BY <1>1, <1>2, PTL DEF Spec

----------------------------------------------------------------------------
(* Ownership: a batch nobody created is untouched, and what the maps and the *)
(* goroutines point to was created, by the turn that uses it.                *)

Untouched(b) ==
    /\ calls[b] = {} /\ \A s \in SdkIds : bySDKID[b][s] = None
    /\ Open(b) /\ timer[b] = "unset"

Owned ==
    /\ \A b \in Batches : owner[b] = None => Untouched(b)
    /\ \A b \in batches \cup toCancel : owner[b] # None
    /\ \A c \in Clients : cbat[c] # None => owner[cbat[c]] # None
    /\ \A r \in Turns : current[r] # None => owner[current[r]] = r
    /\ \A t \in Threads : pc[t] \in Busy => owner[bat[t]] = TurnOf(t)

LEMMA OwnedInit == Init => Owned
  BY DEF Init, Owned, Untouched, Open, Busy

\* Steps that create no batch.
LEMMA OwnedFrame ==
  ASSUME TypeInv, Owned, UNCHANGED <<owner, current>>,
         \A b \in Batches : owner[b] = None /\ Untouched(b) => Untouched(b)',
         \A b \in batches' \cup toCancel' : b \in batches \cup toCancel \/ owner[b] # None,
         \A c \in Clients : cbat'[c] \in {cbat[c], None} \/ owner[cbat'[c]] # None,
         \A t \in Threads : pc'[t] \in Busy => pc[t] \in Busy /\ bat'[t] = bat[t]
  PROVE  Owned'
  <1>1. \A b \in Batches : owner'[b] = None => Untouched(b)'
    BY DEF Owned
  <1>2. \A b \in batches' \cup toCancel' : owner'[b] # None
    BY DEF Owned
  <1>3. \A c \in Clients : cbat'[c] # None => owner'[cbat'[c]] # None
    BY DEF Owned
  <1>4. \A r \in Turns : current'[r] # None => owner'[current'[r]] = r
    BY DEF Owned
  <1>5. \A t \in Threads : pc'[t] \in Busy => owner'[bat'[t]] = TurnOf(t)
    BY DEF Owned
  <1> QED
    BY <1>1, <1>2, <1>3, <1>4, <1>5 DEF Owned

\* The steps of goroutines that neither touch a batch nor move a pointer.
LEMMA OwnedQuiet ==
  ASSUME TypeInv, Owned, UNCHANGED <<owner, current, calls, bySDKID, expired, completed, timer, toCancel, cbat>>,
         \A b \in batches' : b \in batches \/ owner[b] # None,
         \A t \in Threads : pc'[t] \in Busy => pc[t] \in Busy /\ bat'[t] = bat[t]
  PROVE  Owned'
  <1>1. \A b \in Batches : Untouched(b) => Untouched(b)'
    BY DEF Untouched, Open
  <1> QED
    BY <1>1, OwnedFrame

\* Closing a batch somebody created.
LEMMA OwnedClose ==
  ASSUME TypeInv, Owned, NEW b \in Batches, owner[b] # None, NEW runAbort \in BOOLEAN,
         StartClose(b, runAbort) \/ UNCHANGED <<expired, timer>>,
         UNCHANGED <<owner, current, calls, bySDKID, completed, batches>>,
         toCancel' \subseteq toCancel,
         \A c \in Clients : cbat'[c] \in {cbat[c], None},
         \A t \in Threads : pc'[t] \in Busy => pc[t] \in Busy /\ bat'[t] = bat[t]
  PROVE  Owned'
  <1>1. \A a \in Batches : owner[a] = None /\ Untouched(a) => Untouched(a)'
    <2> SUFFICES ASSUME NEW a \in Batches, owner[a] = None, Untouched(a) PROVE Untouched(a)'
      OBVIOUS
    <2>1. a # b
      OBVIOUS
    <2>2. (a \in expired' => a \in expired) /\ timer'[a] = timer[a]
      BY <2>1 DEF StartClose, TypeInv, TypeOK
    <2> QED
      BY <2>2 DEF Untouched, Open
  <1> QED
    BY <1>1, OwnedFrame

\* A call is minted in the batch the goroutine holds.
LEMMA OwnedEnsure ==
  ASSUME TypeInv, Owned, NEW t \in Threads, NEW s \in SdkIds, EnsureCall(t, s)
  PROVE  Owned'
  <1> USE InvokedByAssumption, NoneAssumption, ThreadsAssumption
  <1>1. /\ pc[t] = "ensure" /\ bat[t] \in Batches /\ owner[bat[t]] # None
        /\ UNCHANGED <<owner, current, expired, completed, timer, batches, toCancel, cbat, bat>>
        /\ \A u \in Threads : pc'[u] \in Busy => pc[u] \in Busy
    <2>1. /\ pc[t] = "ensure" /\ pc' = [pc EXCEPT ![t] = IF t \in Turns THEN "ensure" ELSE "bind"]
          /\ UNCHANGED <<owner, current, expired, completed, timer, batches, toCancel, cbat, bat>>
      BY DEF EnsureCall, brokerVars, clientVars
    <2>2. bat[t] \in Batches /\ owner[bat[t]] # None
      BY <2>1 DEF TypeInv, Locals, Busy
    <2>3. \A u \in Threads : pc'[u] \in Busy => pc[u] \in Busy
      BY <2>1 DEF TypeInv, TypeOK, Busy
    <2> QED
      BY <2>1, <2>2, <2>3
  <1>2. \A b \in Batches : b # bat[t] => calls'[b] = calls[b] /\ bySDKID'[b] = bySDKID[b]
    <2>1. CASE FindCall(t, s)
      BY <2>1 DEF FindCall
    <2>2. CASE MintCall(t, s)
      <3>1. PICK k \in CallIds :
              /\ calls' = [calls EXCEPT ![bat[t]] = @ \cup {k}]
              /\ bySDKID' = [bySDKID EXCEPT ![bat[t]][s] = IF s = EmptyId THEN None ELSE k]
        BY <2>2 DEF MintCall
      <3> QED
        BY <1>1, <3>1 DEF TypeInv, TypeOK
    <2> QED
      BY <2>1, <2>2 DEF EnsureCall
  <1>3. \A b \in Batches : owner[b] = None /\ Untouched(b) => Untouched(b)'
    BY <1>1, <1>2 DEF Untouched, Open
  <1> QED
    BY <1>1, <1>3, OwnedFrame

\* A batch is taken: the turn's open one or a new one.
LEMMA OwnedTake ==
  ASSUME TypeInv, Owned, NEW t \in Threads, UseOpenBatch(t) \/ NewBatch(t),
         UNCHANGED <<calls, bySDKID, expired, completed, timer, batches, toCancel, cbat>>,
         \A u \in Threads : u # t /\ pc'[u] \in Busy => pc[u] \in Busy
  PROVE  Owned'
  <1> USE InvokedByAssumption, NoneAssumption, ThreadsAssumption
  <1> DEFINE r == TurnOf(t)
  <1>0. r \in Turns
    OBVIOUS
  <1>1. /\ bat'[t] \in Batches /\ owner'[bat'[t]] = r /\ \A u \in Threads : u # t => bat'[u] = bat[u]
        /\ \A b \in Batches : owner[b] # None => owner'[b] = owner[b]
        /\ \A q \in Turns : current'[q] = current[q] \/ (q = r /\ current'[q] = bat'[t])
    <2>1. CASE UseOpenBatch(t)
      <3>1. current[r] \in Batches /\ owner[current[r]] = r /\ bat' = [bat EXCEPT ![t] = current[r]]
            /\ UNCHANGED <<current, owner>>
        BY <1>0, <2>1 DEF UseOpenBatch, Owned, TypeInv, TypeOK
      <3> QED
        BY <3>1 DEF TypeInv, TypeOK
    <2>2. CASE NewBatch(t)
      <3>1. PICK b \in Batches : /\ owner[b] = None
                                 /\ owner' = [owner EXCEPT ![b] = r]
                                 /\ current' = [current EXCEPT ![r] = b]
                                 /\ bat' = [bat EXCEPT ![t] = b]
        BY <2>2 DEF NewBatch
      <3> QED
        BY <1>0, <3>1 DEF TypeInv, TypeOK
    <2> QED
      BY <2>1, <2>2
  <1> HIDE DEF r
  <1>2. \A b \in Batches : owner'[b] = None => owner[b] = None
    BY <1>1
  <1>3. \A b \in Batches : owner'[b] = None => Untouched(b)'
    BY <1>2 DEF Owned, Untouched, Open
  <1>4. \A b \in batches' \cup toCancel' : owner'[b] # None
    <2>1. \A b \in batches \cup toCancel : b \in Batches /\ owner[b] # None
      BY DEF Owned, TypeInv, TypeOK
    <2> QED
      BY <1>2, <2>1
  <1>5. \A c \in Clients : cbat'[c] # None => owner'[cbat'[c]] # None
    <2>1. \A c \in Clients : cbat[c] # None => cbat[c] \in Batches /\ owner[cbat[c]] # None
      BY DEF Owned, TypeInv, TypeOK
    <2> QED
      BY <1>2, <2>1
  <1>6. \A q \in Turns : current'[q] # None => owner'[current'[q]] = q
    <2>1. \A q \in Turns : current[q] # None => current[q] \in Batches /\ owner[current[q]] = q /\ q # None
      BY DEF Owned, TypeInv, TypeOK
    <2> QED
      BY <1>1, <2>1
  <1>7. \A u \in Threads : pc'[u] \in Busy => owner'[bat'[u]] = TurnOf(u)
    <2>1. \A u \in Threads : pc[u] \in Busy => bat[u] \in Batches /\ owner[bat[u]] = TurnOf(u) /\ TurnOf(u) # None
      BY DEF Owned, TypeInv, Locals
    <2> QED
      BY <1>1, <2>1 DEF r
  <1> QED
    BY <1>3, <1>4, <1>5, <1>6, <1>7 DEF Owned

LEMMA OwnedNext == TypeInv /\ IdInv /\ Owned /\ [Next]_vars => Owned'
  <1> SUFFICES ASSUME TypeInv, IdInv, Owned, [Next]_vars PROVE Owned'
    OBVIOUS
  <1> USE InvokedByAssumption, NoneAssumption, ThreadsAssumption
  <1>1. ASSUME NEW r \in Turns, CancelTurn(r), UNCHANGED <<owner, current, batchVars, brokerVars, threadVars, clientVars>>
        PROVE  Owned'
    <2>1. \A b \in toCancel' : b \in toCancel \/ owner[b] # None
      BY <1>1 DEF CancelTurn, Owned
    <2>2. \A b \in Batches : Untouched(b) => Untouched(b)'
      BY <1>1 DEF Untouched, Open, batchVars
    <2> QED
      BY <1>1, <2>1, <2>2, OwnedFrame DEF brokerVars, threadVars, clientVars
  <1>2. ASSUME NEW r \in Turns, TurnStep(r) PROVE Owned'
    <2>1. CASE CaptureRequests(r)
      BY <1>2, <2>1, OwnedTake DEF CaptureRequests, brokerVars, clientVars, TypeInv, TypeOK
    <2>2. CASE Configure(r)
      BY <2>2, OwnedQuiet DEF Configure, rtVars, brokerVars, clientVars, Busy, TypeInv, TypeOK
    <2>3. CASE ReleaseReservations(r)
      BY <2>3, OwnedQuiet DEF ReleaseReservations, batchVars, brokerVars, clientVars, Busy, TypeInv, TypeOK
    <2>4. CASE CancelCurrent(r)
      BY <1>1, <2>4 DEF CancelCurrent, batchVars
    <2>5. CASE \E s \in SdkIds : ReserveStreamingCall(r, s)
      BY <2>5, OwnedQuiet DEF ReserveStreamingCall, batchVars, brokerVars, threadVars, clientVars
    <2> QED
      BY <1>2, <2>1, <2>2, <2>3, <2>4, <2>5 DEF TurnStep
  <1>3. ASSUME NEW t \in Threads, LockedStep(t) PROVE Owned'
    <2>1. CASE \E s \in SdkIds : EnsureCall(t, s)
      BY <2>1, OwnedEnsure
    <2>2. CASE RejectRequest(t)
      BY <2>2, OwnedQuiet DEF RejectRequest, Return, batchVars, brokerVars, clientVars, Busy, TypeInv, TypeOK
    <2>3. CASE Bind(t)
      <3>1. \A u \in Threads : pc'[u] \in Busy => pc[u] \in Busy /\ bat'[u] = bat[u]
        BY <2>3 DEF Bind, Busy, TypeInv, TypeOK
      <3> QED
        BY <2>3, <3>1, OwnedQuiet DEF Bind, Remove, rtVars, clientVars
    <2>4. CASE CheckOpen(t)
      BY <2>4, OwnedQuiet DEF CheckOpen, rtVars, batchVars, brokerVars, clientVars, Busy, TypeInv, TypeOK
    <2>5. CASE Insert(t)
      <3>1. \A u \in Threads : pc'[u] \in Busy => pc[u] \in Busy /\ bat'[u] = bat[u]
        BY <2>5 DEF Insert, Busy, TypeInv, TypeOK
      <3>2. owner[bat[t]] # None
        BY <2>5 DEF Insert, Busy, Owned
      <3> QED
        BY <2>5, <3>1, <3>2, OwnedQuiet DEF Insert, rtVars, batchVars, clientVars
    <2>6. CASE CancelUnregistered(t)
      <3>1. \A u \in Threads : pc'[u] \in Busy => pc[u] \in Busy /\ bat'[u] = bat[u]
        BY <2>6 DEF CancelUnregistered, Busy, TypeInv, TypeOK
      <3>2. bat[t] \in Batches /\ owner[bat[t]] # None
        BY <2>6 DEF CancelUnregistered, Busy, Owned, TypeInv, Locals
      <3> QED
        BY <2>6, <3>1, <3>2, OwnedClose DEF CancelUnregistered, rtVars, brokerVars, clientVars
    <2>7. CASE StartTimer(t)
      <3>1. /\ UNCHANGED <<owner, current, calls, bySDKID, expired, completed, batches, toCancel, cbat>>
            /\ timer' = [timer EXCEPT ![bat[t]] = IF @ = "unset" THEN "armed" ELSE @]
        BY <2>7 DEF StartTimer, brokerVars, clientVars
      <3>2. \A u \in Threads : pc'[u] \in Busy => pc[u] \in Busy /\ bat'[u] = bat[u]
        BY <2>7 DEF StartTimer, Return, Busy, TypeInv, TypeOK
      <3>3. owner[bat[t]] # None
        BY <2>7 DEF StartTimer, Busy, Owned
      <3>4. \A b \in Batches : owner[b] = None /\ Untouched(b) => Untouched(b)'
        BY <3>1, <3>3 DEF Untouched, Open, TypeInv, TypeOK
      <3> QED
        BY <3>1, <3>2, <3>4, OwnedFrame
    <2> QED
      BY <1>3, <2>1, <2>2, <2>3, <2>4, <2>5, <2>6, <2>7 DEF LockedStep
  <1>4. ASSUME NEW h \in Handlers, HandlerStep(h) PROVE Owned'
    <2>1. CASE HandleInvocation(h)
      BY <2>1, OwnedTake DEF HandleInvocation, brokerVars, clientVars, TypeInv, TypeOK
    <2>2. CASE WaitAnswered(h)
      BY <2>2, OwnedQuiet DEF WaitAnswered, Return, rtVars, brokerVars, clientVars, Busy, TypeInv, TypeOK
    <2>3. CASE WaitFails(h)
      BY <2>3, OwnedQuiet DEF WaitFails, Return, rtVars, batchVars, brokerVars, clientVars, Busy, TypeInv, TypeOK
    <2> QED
      BY <1>4, <2>1, <2>2, <2>3 DEF HandlerStep
  <1>5. ASSUME NEW b \in Batches, BatchStep(b) PROVE Owned'
    <2>1. CASE Deadline(b)
      BY <2>1, OwnedQuiet DEF Deadline, rtVars, brokerVars, threadVars, clientVars
    <2>2. CASE TimerFires(b)
      <3>1. owner[b] # None
        BY <2>2 DEF TimerFires, Owned, Untouched
      <3> QED
        BY <2>2, <3>1, OwnedClose DEF TimerFires, rtVars, brokerVars, threadVars, clientVars
    <2>3. CASE CloseAborts(b)
      <3>1. CASE UNCHANGED <<aborted, reserved, toCancel>>
        BY <2>3, <3>1, OwnedQuiet DEF CloseAborts, brokerVars, threadVars, clientVars
      <3>2. CASE CancelTurn(owner[b])
        <4>1. owner[b] \in Turns
          BY <2>3 DEF CloseAborts, TypeInv, Locals
        <4>2. \A x \in toCancel' : x \in toCancel \/ owner[x] # None
          BY <3>2, <4>1 DEF CancelTurn, Owned
        <4>3. UNCHANGED <<owner, current, calls, bySDKID, expired, completed, timer, batches, cbat, pc, bat>>
          BY <2>3 DEF CloseAborts, brokerVars, threadVars, clientVars
        <4>4. \A a \in Batches : Untouched(a) => Untouched(a)'
          BY <4>3 DEF Untouched, Open
        <4> QED
          BY <4>2, <4>3, <4>4, OwnedFrame
      <3> QED
        BY <2>3, <3>1, <3>2 DEF CloseAborts
    <2>4. CASE CloseForgets(b)
      BY <2>4, OwnedQuiet DEF CloseForgets, Remove, rtVars, threadVars, clientVars
    <2>5. CASE CancelNext(b)
      <3>1. owner[b] # None /\ toCancel' \subseteq toCancel
        BY <2>5 DEF CancelNext, Owned
      <3> QED
        BY <2>5, <3>1, OwnedClose DEF CancelNext, rtVars, brokerVars, threadVars, clientVars
    <2> QED
      BY <1>5, <2>1, <2>2, <2>3, <2>4, <2>5 DEF BatchStep
  <1>6. ASSUME NEW c \in Clients, ClientStep(c) PROVE Owned'
    <2>1. CASE \E ids \in (SUBSET offered) \ {{}} : FindByCallIDs(c, ids)
      <3>1. PICK ids \in (SUBSET offered) \ {{}} : FindByCallIDs(c, ids)
        BY <2>1
      <3>2. UNCHANGED <<owner, current, calls, bySDKID, expired, completed, timer, batches, toCancel, pc, bat>>
        BY <3>1 DEF FindByCallIDs, rtVars, batchVars, brokerVars, threadVars
      <3>3. \/ cbat' = cbat
            \/ \E b \in Batches : cbat' = [cbat EXCEPT ![c] = b] /\ \A k \in ids : byCall[k] = b
        BY <3>1 DEF FindByCallIDs
      <3>4. PICK k \in ids : k \in CallIds
        BY DEF TypeInv, TypeOK
      <3>5. \A d \in Clients : cbat'[d] = cbat[d] \/ (cbat'[d] \in Batches /\ cbat'[d] = byCall[k])
        BY <3>3 DEF TypeInv, TypeOK
      <3>6. byCall[k] # None => owner[byCall[k]] # None
        BY <3>4 DEF IdInv, LookupSound, Owned
      <3>7. \A b \in Batches : Untouched(b) => Untouched(b)'
        BY <3>2 DEF Untouched, Open
      <3> QED
        BY <3>2, <3>5, <3>6, <3>7, OwnedFrame
    <2>2. CASE FindByAnyCallIDs(c)
      <3> DEFINE live == {byCall[k] : k \in {j \in cids[c] : Live(j)}}
      <3>1. UNCHANGED <<owner, current, calls, bySDKID, expired, completed, timer, batches, toCancel, pc, bat>>
        BY <2>2 DEF FindByAnyCallIDs, rtVars, batchVars, brokerVars, threadVars
      <3>2. \A b \in live : owner[b] # None
        <4>1. \A k \in CallIds : byCall[k] # None => owner[byCall[k]] # None
          BY DEF IdInv, LookupSound, Owned
        <4>2. cids[c] \subseteq CallIds
          BY DEF TypeInv, TypeOK
        <4> QED
          BY <4>1, <4>2 DEF Live
      <3>3. live # {} => (CHOOSE b \in live : TRUE) \in live
        OBVIOUS
      <3>4. cbat' = cbat \/ cbat' = [cbat EXCEPT ![c] = IF live = {} THEN None ELSE CHOOSE b \in live : TRUE]
        BY <2>2 DEF FindByAnyCallIDs
      <3> HIDE DEF live
      <3>5. \A d \in Clients : cbat'[d] \in {cbat[d], None} \/ owner[cbat'[d]] # None
        BY <3>2, <3>3, <3>4 DEF TypeInv, TypeOK
      <3>6. \A b \in Batches : Untouched(b) => Untouched(b)'
        BY <3>1 DEF Untouched, Open
      <3> QED
        BY <3>1, <3>5, <3>6, OwnedFrame
    <2>3. CASE RemoveStale(c)
      <3>1. /\ UNCHANGED <<owner, current, calls, bySDKID, expired, completed, timer, toCancel, pc, bat>>
            /\ batches' \subseteq batches
        BY <2>3 DEF RemoveStale, rtVars, batchVars, threadVars
      <3>2. \A d \in Clients : cbat'[d] \in {cbat[d], None}
        BY <2>3 DEF RemoveStale, GiveUp, TypeInv, TypeOK
      <3>3. \A b \in Batches : Untouched(b) => Untouched(b)'
        BY <3>1 DEF Untouched, Open
      <3> QED
        BY <3>1, <3>2, <3>3, OwnedFrame
    <2>4. CASE Complete(c)
      <3>1. /\ UNCHANGED <<owner, current, calls, bySDKID, expired, batches, toCancel, cbat, pc, bat>>
            /\ completed' = completed \cup {cbat[c]}
            /\ timer' = [timer EXCEPT ![cbat[c]] = IF @ = "armed" THEN "spent" ELSE @]
        BY <2>4 DEF Complete, rtVars, brokerVars, threadVars
      <3>2. owner[cbat[c]] # None
        BY <2>4 DEF Complete, Owned, TypeInv, Locals
      <3>3. \A b \in Batches : owner[b] = None /\ Untouched(b) => Untouched(b)'
        BY <3>1, <3>2 DEF Untouched, Open, TypeInv, TypeOK
      <3> QED
        BY <3>1, <3>3, OwnedFrame
    <2>5. CASE RefuseOutputs(c) \/ Discard(c)
      <3>1. cbat[c] \in Batches /\ owner[cbat[c]] # None
        <4>1. cpc[c] = "complete"
          BY <2>5 DEF RefuseOutputs, Discard
        <4>2. cbat[c] \in Batches
          BY <4>1 DEF TypeInv, Locals
        <4> QED
          BY <4>2 DEF Owned
      <3>2. \A d \in Clients : cbat'[d] \in {cbat[d], None}
        BY <2>5 DEF RefuseOutputs, Discard, GiveUp, TypeInv, TypeOK
      <3>3. \/ StartClose(cbat[c], TRUE) \/ StartClose(cbat[c], FALSE)
            \/ UNCHANGED <<expired, timer>>
        BY <2>5 DEF RefuseOutputs, Discard
      <3>4. UNCHANGED <<owner, current, calls, bySDKID, completed, batches, toCancel, pc, bat>>
        BY <2>5 DEF RefuseOutputs, Discard, rtVars, brokerVars, threadVars
      <3> QED
        BY <3>1, <3>2, <3>3, <3>4, OwnedClose
    <2>6. CASE Deliver(c)
      BY <2>6, OwnedQuiet DEF Deliver, rtVars, brokerVars, threadVars
    <2>7. CASE ForgetBatch(c)
      <3>1. /\ UNCHANGED <<owner, current, calls, bySDKID, expired, completed, timer, toCancel, pc, bat>>
            /\ batches' \subseteq batches
        BY <2>7 DEF ForgetBatch, Remove, rtVars, batchVars, threadVars
      <3>2. \A d \in Clients : cbat'[d] \in {cbat[d], None}
        BY <2>7 DEF ForgetBatch, GiveUp, TypeInv, TypeOK
      <3>3. \A b \in Batches : Untouched(b) => Untouched(b)'
        BY <3>1 DEF Untouched, Open
      <3> QED
        BY <3>1, <3>2, <3>3, OwnedFrame
    <2> QED
      BY <1>6, <2>1, <2>2, <2>3, <2>4, <2>5, <2>6, <2>7 DEF ClientStep
  <1>7. CASE CancelAll
    <2>1. /\ UNCHANGED <<owner, current, calls, bySDKID, expired, completed, timer, cbat, pc, bat>>
          /\ batches' = {} /\ toCancel' = toCancel \cup batches
      BY <1>7 DEF CancelAll, rtVars, batchVars, threadVars, clientVars
    <2>2. \A b \in Batches : Untouched(b) => Untouched(b)'
      BY <2>1 DEF Untouched, Open
    <2> QED
      BY <2>1, <2>2, OwnedFrame
  <1>8. CASE UNCHANGED vars
    BY <1>8, OwnedQuiet DEF vars, rtVars, batchVars, brokerVars, threadVars, clientVars
  <1> QED
    BY <1>2, <1>3, <1>4, <1>5, <1>6, <1>7, <1>8 DEF Next

----------------------------------------------------------------------------
(* Shutdown: an open batch that was bound is in the broker's map, or is about *)
(* to be cancelled, or is in the middle of Register, which will notice.       *)

Registers(b) == \E t \in Threads : bat[t] = b /\ pc[t] \in {"check", "insert", "cancel"}

Tracked ==
    \A b \in bound : Open(b) => \/ ~closed /\ b \in batches
                                \/ b \in toCancel
                                \/ Registers(b)

LEMMA TrackedInit == Init => Tracked
  BY DEF Init, Tracked

\* Steps after which whatever kept track of a batch still does.
LEMMA TrackedFrame ==
  ASSUME TypeInv, Tracked, bound' = bound,
         \A b \in Batches : Open(b)' => Open(b),
         \A b \in Batches : Open(b)' /\ ~closed /\ b \in batches =>
             b \in toCancel' \/ (~closed' /\ b \in batches'),
         \A b \in Batches : Open(b)' /\ b \in toCancel => b \in toCancel',
         \A b \in Batches : Open(b)' /\ Registers(b) => Registers(b)' \/ (~closed' /\ b \in batches')
  PROVE  Tracked'
  BY DEF Tracked, TypeInv, TypeOK

\* A goroutine that is not in Register neither enters nor leaves it.
LEMMA RegistersStays ==
  ASSUME \A t \in Threads : pc[t] \in {"check", "insert", "cancel"} => pc'[t] = pc[t] /\ bat'[t] = bat[t]
  PROVE  \A b \in Batches : Registers(b) => Registers(b)'
  BY DEF Registers

LEMMA TrackedNext == TypeInv /\ IdInv /\ Gone /\ Owned /\ Tracked /\ [Next]_vars => Tracked'
  <1> SUFFICES ASSUME TypeInv, IdInv, Gone, Owned, Tracked, [Next]_vars PROVE Tracked'
    OBVIOUS
  <1> USE InvokedByAssumption, NoneAssumption, ThreadsAssumption
  <1>a. \A b \in Batches : Open(b)' => Open(b)
    BY StaysClosed DEF Open
  <1>b. ASSUME UNCHANGED <<bound, batches, closed>>, toCancel \subseteq toCancel',
               \A t \in Threads : pc[t] \in {"check", "insert", "cancel"} => pc'[t] = pc[t] /\ bat'[t] = bat[t]
        PROVE  Tracked'
    BY <1>a, <1>b, RegistersStays, TrackedFrame
  \* What leaves the map is closed.
  <1>c. ASSUME UNCHANGED <<bound, closed, toCancel, pc, bat>>, \A b \in batches : Open(b) => b \in batches'
        PROVE  Tracked'
    BY <1>a, <1>c, RegistersStays, TrackedFrame
  <1>1. ASSUME NEW r \in Turns, TurnStep(r) PROVE Tracked'
    <2>1. UNCHANGED <<bound, batches, closed>> /\ toCancel \subseteq toCancel'
      BY <1>1 DEF TurnStep, ReserveStreamingCall, CaptureRequests, Configure, ReleaseReservations,
                  CancelCurrent, CancelTurn, batchVars, brokerVars
    <2>2. CASE CaptureRequests(r)
      <3>1. pc[r] = "idle" /\ (UseOpenBatch(r) \/ NewBatch(r))
        BY <2>2 DEF CaptureRequests
      <3>2. \A u \in Threads : u # r => bat'[u] = bat[u] /\ pc'[u] = pc[u]
        BY <2>2, <3>1, TakeBatchType DEF BatchTaken, CaptureRequests, TypeInv, TypeOK
      <3> QED
        BY <1>b, <2>1, <3>1, <3>2
    <2>3. CASE Configure(r) \/ ReleaseReservations(r)
      BY <1>b, <2>1, <2>3 DEF Configure, ReleaseReservations, TypeInv, TypeOK
    <2>4. CASE CancelCurrent(r) \/ \E s \in SdkIds : ReserveStreamingCall(r, s)
      BY <1>b, <2>1, <2>4 DEF CancelCurrent, ReserveStreamingCall, threadVars
    <2> QED
      BY <1>1, <2>2, <2>3, <2>4 DEF TurnStep
  <1>2. ASSUME NEW t \in Threads, LockedStep(t) PROVE Tracked'
    <2>1. CASE RejectRequest(t) \/ StartTimer(t) \/ \E s \in SdkIds : EnsureCall(t, s)
      <3>1. UNCHANGED <<bound, batches, closed, toCancel>>
        BY <2>1 DEF RejectRequest, StartTimer, EnsureCall, batchVars, brokerVars
      <3>2. pc[t] \in {"ensure", "arm"} /\ \A u \in Threads : u # t => pc'[u] = pc[u] /\ bat'[u] = bat[u]
        BY <2>1 DEF RejectRequest, StartTimer, EnsureCall, Return, TypeInv, TypeOK
      <3> QED
        BY <1>b, <3>1, <3>2
    <2>2. CASE Bind(t)
      <3>1. UNCHANGED <<closed, toCancel, bat, expired, completed>>
            /\ \A u \in Threads : u # t => pc'[u] = pc[u]
        BY <2>2 DEF Bind, TypeInv, TypeOK
      <3>2. pc[t] = "bind" /\ \A b \in batches : Open(b) => b \in batches'
        BY <2>2 DEF Bind, Remove, Open
      <3>3. bound' = bound \/ (bound' = bound \cup {bat[t]} /\ pc'[t] = "check")
        BY <2>2 DEF Bind, TypeInv, TypeOK
      <3>4. \A b \in Batches : Registers(b) => Registers(b)'
        BY <3>1, <3>2, RegistersStays
      <3>5. ASSUME NEW b \in bound', Open(b)' PROVE (~closed' /\ b \in batches') \/ b \in toCancel' \/ Registers(b)'
        <4>1. Open(b)
          BY <3>1, <3>5 DEF Open
        <4>2. CASE b \in bound
          BY <3>1, <3>2, <3>4, <4>1, <4>2 DEF Tracked, TypeInv, TypeOK
        <4>3. CASE b \notin bound
          BY <3>1, <3>3, <3>5, <4>3 DEF Registers
        <4> QED
          BY <4>2, <4>3
      <3> QED
        BY <3>5 DEF Tracked
    <2>3. CASE CheckOpen(t)
      <3>1. /\ UNCHANGED <<bound, batches, closed, toCancel, bat, expired, completed>>
            /\ \A u \in Threads : u # t => pc'[u] = pc[u]
            /\ pc'[t] = IF Open(bat[t]) THEN "insert" ELSE "arm"
        BY <2>3 DEF CheckOpen, batchVars, brokerVars, TypeInv, TypeOK
      <3>2. ASSUME NEW b \in Batches, Open(b)', Registers(b) PROVE Registers(b)'
        BY <1>a, <3>1, <3>2 DEF Registers
      <3> QED
        BY <1>a, <3>1, <3>2, TrackedFrame
    <2>4. CASE Insert(t)
      <3>1. /\ UNCHANGED <<bound, closed, toCancel, bat, expired, completed>>
            /\ batches \subseteq batches'
            /\ \A u \in Threads : u # t => pc'[u] = pc[u]
            /\ pc'[t] = "cancel" \/ (~closed /\ bat[t] \in batches')
        BY <2>4 DEF Insert, batchVars, TypeInv, TypeOK
      <3>2. ASSUME NEW b \in Batches, Registers(b) PROVE Registers(b)' \/ (~closed' /\ b \in batches')
        BY <3>1, <3>2 DEF Registers
      <3> QED
        BY <1>a, <3>1, <3>2, TrackedFrame
    <2>5. CASE CancelUnregistered(t)
      <3>1. /\ UNCHANGED <<bound, batches, closed, toCancel, bat>>
            /\ \A u \in Threads : u # t => pc'[u] = pc[u]
            /\ ~Open(bat[t])'
        BY <2>5 DEF CancelUnregistered, StartClose, Open, brokerVars, TypeInv, TypeOK
      <3>2. ASSUME NEW b \in Batches, Open(b)', Registers(b) PROVE Registers(b)'
        BY <3>1, <3>2 DEF Registers
      <3> QED
        BY <1>a, <3>1, <3>2, TrackedFrame
    <2> QED
      BY <1>2, <2>1, <2>2, <2>3, <2>4, <2>5 DEF LockedStep
  <1>3. ASSUME NEW h \in Handlers, HandlerStep(h) PROVE Tracked'
    <2>1. UNCHANGED <<bound, batches, closed, toCancel>> /\ pc[h] \in {"idle", "wait"}
      BY <1>3 DEF HandlerStep, HandleInvocation, WaitAnswered, WaitFails, batchVars, brokerVars
    <2>2. \A u \in Threads : u # h => pc'[u] = pc[u] /\ bat'[u] = bat[u]
      <3>1. CASE HandleInvocation(h)
        BY <3>1, TakeBatchType DEF HandleInvocation, BatchTaken, TypeInv, TypeOK
      <3>2. CASE WaitAnswered(h) \/ WaitFails(h)
        BY <3>2 DEF WaitAnswered, WaitFails, Return, TypeInv, TypeOK
      <3> QED
        BY <1>3, <3>1, <3>2 DEF HandlerStep
    <2> QED
      BY <1>b, <2>1, <2>2
  <1>4. ASSUME NEW b \in Batches, BatchStep(b) PROVE Tracked'
    <2>1. CASE Deadline(b) \/ TimerFires(b) \/ CloseAborts(b)
      BY <1>b, <2>1 DEF Deadline, TimerFires, CloseAborts, CancelTurn, brokerVars, threadVars
    <2>2. CASE CloseForgets(b)
      <3>1. UNCHANGED <<bound, closed, toCancel, pc, bat>> /\ batches' \in {batches, batches \ {b}} /\ b \in expired
        BY <2>2 DEF CloseForgets, Remove, threadVars, Gone
      <3> QED
        BY <1>c, <3>1 DEF Open
    <2>3. CASE CancelNext(b)
      <3>1. UNCHANGED <<bound, batches, closed, pc, bat>> /\ toCancel' = toCancel \ {b} /\ ~Open(b)'
        BY <2>3 DEF CancelNext, StartClose, Open, brokerVars, threadVars
      <3> QED
        BY <1>a, <3>1, RegistersStays, TrackedFrame
    <2> QED
      BY <1>4, <2>1, <2>2, <2>3 DEF BatchStep
  <1>5. ASSUME NEW c \in Clients, ClientStep(c) PROVE Tracked'
    <2>1. UNCHANGED <<bound, closed, toCancel, pc, bat>>
      BY <1>5 DEF ClientStep, FindByCallIDs, RemoveStale, FindByAnyCallIDs, Complete, RefuseOutputs,
                  Deliver, Discard, ForgetBatch, batchVars, brokerVars, threadVars
    <2>2. CASE RemoveStale(c)
      BY <1>c, <2>1, <2>2 DEF RemoveStale, Gone
    <2>3. CASE ForgetBatch(c)
      BY <1>c, <2>1, <2>3 DEF ForgetBatch, Remove, Gone
    <2>4. CASE ~RemoveStale(c) /\ ~ForgetBatch(c)
      <3>1. batches' = batches
        BY <1>5, <2>4 DEF ClientStep, FindByCallIDs, FindByAnyCallIDs, Complete, RefuseOutputs,
                          Deliver, Discard, brokerVars
      <3> QED
        BY <1>c, <2>1, <3>1
    <2> QED
      BY <2>2, <2>3, <2>4
  <1>6. CASE CancelAll
    <2>1. UNCHANGED <<bound, pc, bat>> /\ toCancel' = toCancel \cup batches
      BY <1>6 DEF CancelAll, batchVars, threadVars
    <2> QED
      BY <1>a, <2>1, RegistersStays, TrackedFrame
  <1>7. CASE UNCHANGED vars
    BY <1>b, <1>7 DEF vars, batchVars, brokerVars, threadVars
  <1> QED
    BY <1>1, <1>2, <1>3, <1>4, <1>5, <1>6, <1>7 DEF Next

----------------------------------------------------------------------------
(* One id per call: while an id is reserved for an SDK call the open batch   *)
(* has none for it. Minting a call under the SDK id spends the reservation,  *)
(* a new batch has no calls, and nobody reserves what is published.          *)

LEMMA NoSplitInit == Init => NoSplitIdentity
  BY DEF Init, NoSplitIdentity

\* Reservations only disappear, batches only close, their identities stay.
LEMMA NoSplitFrame ==
  ASSUME TypeInv, NoSplitIdentity, UNCHANGED <<bySDKID, current>>,
         \A b \in Batches : Open(b)' => Open(b),
         \A r \in Turns, s \in SdkIds : reserved'[r][s] \in {reserved[r][s], None}
  PROVE  NoSplitIdentity'
  BY DEF NoSplitIdentity, TypeInv, TypeOK

LEMMA NoSplitNext ==
  TypeInv /\ IdInv /\ Gone /\ Owned /\ NoSplitIdentity /\ [Next]_vars => NoSplitIdentity'
  <1> SUFFICES ASSUME TypeInv, IdInv, Gone, Owned, NoSplitIdentity, [Next]_vars PROVE NoSplitIdentity'
    OBVIOUS
  <1> USE InvokedByAssumption, NoneAssumption, ThreadsAssumption
  <1>a. \A b \in Batches : Open(b)' => Open(b)
    BY StaysClosed DEF Open
  <1>b. ASSUME UNCHANGED <<bySDKID, current, reserved>> PROVE NoSplitIdentity'
    BY <1>a, <1>b, NoSplitFrame
  <1>c. ASSUME NEW r \in Turns, CancelTurn(r), UNCHANGED <<bySDKID, current>> PROVE NoSplitIdentity'
    <2>1. \A q \in Turns, s \in SdkIds : reserved'[q][s] \in {reserved[q][s], None}
      BY <1>c DEF CancelTurn, TypeInv, TypeOK
    <2> QED
      BY <1>a, <1>c, <2>1, NoSplitFrame
  <1>d. ASSUME NEW t \in Threads, UseOpenBatch(t) \/ NewBatch(t), UNCHANGED <<bySDKID, reserved, expired, completed>>
        PROVE  NoSplitIdentity'
    <2>1. CASE UseOpenBatch(t)
      BY <1>b, <1>d, <2>1 DEF UseOpenBatch
    <2>2. CASE NewBatch(t)
      <3>1. PICK b \in Batches : owner[b] = None /\ current' = [current EXCEPT ![TurnOf(t)] = b]
        BY <2>2 DEF NewBatch
      <3>2. \A s \in SdkIds : bySDKID[b][s] = None
        BY <3>1 DEF Owned, Untouched
      <3>3. \A r \in Turns : current'[r] = current[r] \/ current'[r] = b
        BY <3>1 DEF TypeInv, TypeOK
      <3> QED
        BY <1>d, <3>2, <3>3 DEF NoSplitIdentity, Open
    <2> QED
      BY <1>d, <2>1, <2>2
  <1>1. ASSUME NEW r \in Turns, TurnStep(r) PROVE NoSplitIdentity'
    <2>1. CASE CaptureRequests(r)
      BY <1>d, <2>1 DEF CaptureRequests
    <2>2. CASE Configure(r)
      BY <1>b, <2>2 DEF Configure, rtVars
    <2>3. CASE ReleaseReservations(r)
      <3>1. \A q \in Turns, s \in SdkIds : reserved'[q][s] \in {reserved[q][s], None}
        BY <2>3 DEF ReleaseReservations, TypeInv, TypeOK
      <3> QED
        BY <1>a, <2>3, <3>1, NoSplitFrame DEF ReleaseReservations, batchVars
    <2>4. CASE CancelCurrent(r)
      BY <1>c, <2>4 DEF CancelCurrent, batchVars
    <2>5. ASSUME NEW s \in SdkIds, ReserveStreamingCall(r, s) PROVE NoSplitIdentity'
      <3>1. PICK k \in CallIds : reserved' = [reserved EXCEPT ![r][s] = k]
        BY <2>5 DEF ReserveStreamingCall
      <3>2. \A q \in Turns, u \in SdkIds : (q # r \/ u # s) => reserved'[q][u] = reserved[q][u]
        BY <3>1 DEF TypeInv, TypeOK
      <3>3. UNCHANGED <<current, bySDKID, expired, completed>>
        BY <2>5 DEF ReserveStreamingCall, batchVars
      <3>4. ~(current[r] # None /\ Open(current[r]) /\ bySDKID[current[r]][s] # None)
        BY <2>5 DEF ReserveStreamingCall
      <3> QED
        BY <3>2, <3>3, <3>4 DEF NoSplitIdentity, Open
    <2> QED
      BY <1>1, <2>1, <2>2, <2>3, <2>4, <2>5 DEF TurnStep
  <1>2. ASSUME NEW t \in Threads, LockedStep(t) PROVE NoSplitIdentity'
    <2>1. ASSUME NEW s \in SdkIds, EnsureCall(t, s) PROVE NoSplitIdentity'
      <3>1. UNCHANGED <<current, expired, completed>> /\ pc[t] = "ensure"
        BY <2>1 DEF EnsureCall
      <3>2. CASE FindCall(t, s)
        BY <1>b, <3>1, <3>2 DEF FindCall
      <3>3. CASE MintCall(t, s)
        <4> DEFINE r == TurnOf(t)
        <4>1. r \in Turns /\ bat[t] \in Batches /\ owner[bat[t]] = r
          BY <3>1 DEF Owned, Busy, TypeInv, Locals
        <4>2. \A q \in Turns, u \in SdkIds : reserved'[q][u] = IF q = r /\ u = s THEN None ELSE reserved[q][u]
          BY <3>3, <4>1 DEF MintCall, TypeInv, TypeOK
        <4>3. \A b \in Batches, u \in SdkIds : (b # bat[t] \/ u # s) => bySDKID'[b][u] = bySDKID[b][u]
          BY <3>3, <4>1 DEF MintCall, TypeInv, TypeOK
        <4>4. \A q \in Turns : current[q] = bat[t] => q = r
          BY <4>1 DEF Owned
        <4>5. \A q \in Turns : current[q] # None => current[q] \in Batches
          BY DEF TypeInv, TypeOK
        <4> HIDE DEF r
        <4> QED
          BY <1>a, <3>1, <4>2, <4>3, <4>4, <4>5 DEF NoSplitIdentity
      <3> QED
        BY <2>1, <3>2, <3>3 DEF EnsureCall
    <2>2. CASE ~\E s \in SdkIds : EnsureCall(t, s)
      BY <1>2, <1>b, <2>2 DEF LockedStep, RejectRequest, Bind, CheckOpen, Insert, CancelUnregistered,
                              StartTimer, rtVars, batchVars
    <2> QED
      BY <2>1, <2>2
  <1>3. ASSUME NEW h \in Handlers, HandlerStep(h) PROVE NoSplitIdentity'
    <2>1. CASE HandleInvocation(h)
      BY <1>d, <2>1 DEF HandleInvocation
    <2>2. CASE WaitAnswered(h) \/ WaitFails(h)
      BY <1>b, <2>2 DEF WaitAnswered, WaitFails, rtVars, batchVars
    <2> QED
      BY <1>3, <2>1, <2>2 DEF HandlerStep
  <1>4. ASSUME NEW b \in Batches, BatchStep(b) PROVE NoSplitIdentity'
    <2>1. CASE CloseAborts(b)
      <3>1. owner[b] \in Turns /\ UNCHANGED <<bySDKID, current>>
        BY <2>1 DEF CloseAborts, TypeInv, Locals
      <3>2. UNCHANGED reserved \/ CancelTurn(owner[b])
        BY <2>1 DEF CloseAborts
      <3> QED
        BY <1>b, <1>c, <3>1, <3>2
    <2>2. CASE ~CloseAborts(b)
      BY <1>4, <1>b, <2>2 DEF BatchStep, Deadline, TimerFires, CloseForgets, CancelNext, rtVars
    <2> QED
      BY <2>1, <2>2
  <1>5. ASSUME NEW c \in Clients, ClientStep(c) PROVE NoSplitIdentity'
    BY <1>5, <1>b DEF ClientStep, FindByCallIDs, RemoveStale, FindByAnyCallIDs, Complete, RefuseOutputs,
                      Deliver, Discard, ForgetBatch, rtVars, batchVars
  <1>6. CASE CancelAll \/ UNCHANGED vars
    BY <1>6, <1>b DEF CancelAll, vars, rtVars, batchVars
  <1> QED
    BY <1>1, <1>2, <1>3, <1>4, <1>5, <1>6 DEF Next

----------------------------------------------------------------------------
(* Answers: a call is answered only with its whole batch, and a client that  *)
(* is about to deliver finds every call of the batch pending.                *)

Answers ==
    /\ \A k \in CallIds : outcome[k] \in {"output", "taken"} => \E b \in completed : k \in calls[b]
    /\ \A c \in Clients : cpc[c] = "deliver" => \A k \in cids[c] : outcome[k] = "pending"

LEMMA AnswersInit == Init => Answers
  BY DEF Init, Answers

LEMMA OpenIsPending ==
  ASSUME TypeInv, IdInv, Delivery, Answers, NEW b \in Batches, Open(b)
  PROVE  \A k \in calls[b] : outcome[k] = "pending"
  <1> SUFFICES ASSUME NEW k \in calls[b], outcome[k] # "pending" PROVE FALSE
    OBVIOUS
  <1>1. k \in CallIds /\ outcome[k] \in {"output", "taken", "failed"}
    BY DEF TypeInv, TypeOK
  <1>2. PICK a \in expired \cup completed : k \in calls[a]
    BY <1>1 DEF Delivery, Answers
  <1>3. a \in Batches /\ a # b
    BY DEF Open, TypeInv, TypeOK
  <1> QED
    BY <1>2, <1>3 DEF IdInv, LookupSound

\* The calls of a client that is about to deliver are in no other batch.
LEMMA DeliveredApart ==
  ASSUME TypeInv, IdInv, Delivery, NEW c \in Clients, Settled(c)
  PROVE  /\ cbat[c] \in completed /\ cbat[c] \in Batches /\ cids[c] \subseteq calls[cbat[c]]
         /\ \A b \in Batches : b # cbat[c] => cids[c] \cap calls[b] = {}
  <1>1. cbat[c] \in completed /\ cbat[c] \in Batches /\ cids[c] \subseteq calls[cbat[c]]
    BY DEF Delivery, TypeInv, TypeOK
  <1> QED
    BY <1>1 DEF IdInv, LookupSound

LEMMA AnswersFrame ==
  ASSUME TypeInv, Answers, UNCHANGED outcome, completed \subseteq completed',
         \A b \in Batches : calls[b] \subseteq calls'[b],
         \A c \in Clients : cpc'[c] = "deliver" => cpc[c] = "deliver" /\ cids'[c] = cids[c]
  PROVE  Answers'
  <1>1. completed \subseteq Batches
    BY DEF TypeInv, TypeOK
  <1> QED
    BY <1>1 DEF Answers

LEMMA AnswersClose ==
  ASSUME TypeInv, IdInv, Delivery, Answers, NEW b \in Batches, NEW runAbort \in BOOLEAN,
         StartClose(b, runAbort), UNCHANGED <<calls, completed>>,
         \A c \in Clients : cpc'[c] = "deliver" => cpc[c] = "deliver" /\ cids'[c] = cids[c]
  PROVE  Answers'
  <1>1. CASE ~Open(b)
    <2>1. outcome' = outcome
      BY <1>1 DEF StartClose
    <2> QED
      BY <2>1, AnswersFrame
  <1>2. CASE Open(b)
    <2>1. \A k \in CallIds : outcome'[k] = IF k \in calls[b] /\ outcome[k] = "pending"
                                          THEN "failed" ELSE outcome[k]
      BY <1>2 DEF StartClose
    <2>2. \A k \in CallIds : outcome'[k] \in {"output", "taken"} => \E x \in completed' : k \in calls'[x]
      BY <2>1 DEF Answers
    <2>3. ASSUME NEW c \in Clients, cpc'[c] = "deliver", NEW k \in cids'[c] PROVE outcome'[k] = "pending"
      <3>1. Settled(c) /\ cpc[c] = "deliver" /\ k \in cids[c] /\ k \in CallIds
        BY <2>3 DEF Settled, TypeInv, TypeOK
      <3>2. cbat[c] # b
        BY <1>2, <3>1, DeliveredApart DEF Open
      <3>3. k \notin calls[b]
        BY <3>1, <3>2, DeliveredApart
      <3> QED
        BY <2>1, <3>1, <3>3 DEF Answers
    <2> QED
      BY <2>2, <2>3 DEF Answers
  <1> QED
    BY <1>1, <1>2

LEMMA AnswersNext == TypeInv /\ IdInv /\ Delivery /\ Answers /\ [Next]_vars => Answers'
  <1> SUFFICES ASSUME TypeInv, IdInv, Delivery, Answers, [Next]_vars PROVE Answers'
    OBVIOUS
  <1> USE InvokedByAssumption, NoneAssumption, ThreadsAssumption
  <1>a. ASSUME UNCHANGED <<calls, completed, outcome, cpc, cids>> PROVE Answers'
    BY <1>a, AnswersFrame
  <1>1. ASSUME NEW r \in Turns, TurnStep(r) PROVE Answers'
    BY <1>1, <1>a DEF TurnStep, ReserveStreamingCall, CaptureRequests, Configure, ReleaseReservations,
                      CancelCurrent, batchVars, clientVars
  <1>2. ASSUME NEW t \in Threads, LockedStep(t) PROVE Answers'
    <2>1. ASSUME NEW s \in SdkIds, EnsureCall(t, s) PROVE Answers'
      <3>1. bat[t] \in Batches /\ UNCHANGED <<completed, outcome, cpc, cids>>
        BY <2>1 DEF EnsureCall, clientVars, Busy, TypeInv, Locals
      <3>2. \A b \in Batches : calls[b] \subseteq calls'[b]
        <4>1. calls' = calls \/ \E k \in CallIds : calls' = [calls EXCEPT ![bat[t]] = calls[bat[t]] \cup {k}]
          BY <2>1 DEF EnsureCall, FindCall, MintCall
        <4>2. ASSUME NEW k \in CallIds, calls' = [calls EXCEPT ![bat[t]] = calls[bat[t]] \cup {k}],
                     NEW b \in Batches
              PROVE  calls[b] \subseteq calls'[b]
          BY <3>1, <4>2 DEF TypeInv, TypeOK
        <4> QED
          BY <4>1, <4>2
      <3> QED
        BY <3>1, <3>2, AnswersFrame
    <2>2. CASE CancelUnregistered(t)
      <3>1. bat[t] \in Batches
        BY <2>2 DEF CancelUnregistered, Busy, TypeInv, Locals
      <3> QED
        BY <2>2, <3>1, AnswersClose DEF CancelUnregistered, clientVars
    <2>3. CASE ~CancelUnregistered(t) /\ ~\E s \in SdkIds : EnsureCall(t, s)
      BY <1>2, <1>a, <2>3 DEF LockedStep, RejectRequest, Bind, CheckOpen, Insert, StartTimer, batchVars, clientVars
    <2> QED
      BY <2>1, <2>2, <2>3
  <1>3. ASSUME NEW h \in Handlers, HandlerStep(h) PROVE Answers'
    <2>1. CASE WaitAnswered(h)
      <3>1. PICK k \in mine[h] : outcome[k] = "output" /\ outcome' = [outcome EXCEPT ![k] = "taken"]
        BY <2>1 DEF WaitAnswered
      <3>2. k \in CallIds /\ UNCHANGED <<calls, completed, cpc, cids>>
        BY <2>1 DEF WaitAnswered, clientVars, TypeInv, TypeOK
      <3>3. outcome'[k] = "taken" /\ \A j \in CallIds : j # k => outcome'[j] = outcome[j]
        BY <3>1, <3>2 DEF TypeInv, TypeOK
      <3>4. \A c \in Clients : cids[c] \subseteq CallIds
        BY DEF TypeInv, TypeOK
      <3> QED
        BY <3>1, <3>2, <3>3, <3>4 DEF Answers
    <2>2. CASE HandleInvocation(h) \/ WaitFails(h)
      BY <1>a, <2>2 DEF HandleInvocation, WaitFails, batchVars, clientVars
    <2> QED
      BY <1>3, <2>1, <2>2 DEF HandlerStep
  <1>4. ASSUME NEW b \in Batches, BatchStep(b) PROVE Answers'
    <2>1. CASE TimerFires(b) \/ CancelNext(b)
      BY <2>1, AnswersClose DEF TimerFires, CancelNext, clientVars
    <2>2. CASE Deadline(b) \/ CloseAborts(b) \/ CloseForgets(b)
      BY <1>a, <2>2 DEF Deadline, CloseAborts, CloseForgets, clientVars
    <2> QED
      BY <1>4, <2>1, <2>2 DEF BatchStep
  <1>5. ASSUME NEW c \in Clients, ClientStep(c) PROVE Answers'
    <2>1. CASE Complete(c)
      <3>1. /\ cbat[c] \in Batches /\ Open(cbat[c]) /\ cids[c] = calls[cbat[c]]
            /\ completed' = completed \cup {cbat[c]} /\ UNCHANGED <<calls, outcome, cids>>
            /\ \A d \in Clients : d # c => cpc'[d] = cpc[d]
        BY <2>1 DEF Complete, TypeInv, Locals, TypeOK
      <3>2. \A k \in cids[c] : outcome[k] = "pending"
        BY <3>1, OpenIsPending
      <3> QED
        BY <3>1, <3>2 DEF Answers
    <2>2. CASE Deliver(c)
      <3>1. /\ cpc[c] = "deliver" /\ cpc'[c] # "deliver" /\ UNCHANGED <<calls, completed, cids>>
            /\ \A d \in Clients : d # c => cpc'[d] = cpc[d]
            /\ \A k \in CallIds : outcome'[k] = IF k \in cids[c] /\ outcome[k] = "pending"
                                                THEN "output" ELSE outcome[k]
        BY <2>2 DEF Deliver, TypeInv, TypeOK
      <3>2. Settled(c)
        BY <3>1 DEF Settled
      <3>3. ASSUME NEW k \in CallIds, outcome'[k] \in {"output", "taken"} PROVE \E b \in completed : k \in calls[b]
        <4>1. CASE k \in cids[c]
          BY <3>2, <4>1, DeliveredApart
        <4>2. CASE k \notin cids[c]
          BY <3>1, <3>3, <4>2 DEF Answers
        <4> QED
          BY <4>1, <4>2
      <3>4. ASSUME NEW d \in Clients, cpc'[d] = "deliver", NEW k \in cids[d] PROVE outcome'[k] = "pending"
        <4>1. d # c /\ cpc[d] = "deliver" /\ Settled(d)
          BY <3>1, <3>4 DEF Settled
        <4>2. cbat[d] # cbat[c]
          BY <3>2, <4>1 DEF Delivery
        <4>3. k \notin cids[c] /\ k \in CallIds
          BY <3>2, <4>1, <4>2, DeliveredApart DEF TypeInv, TypeOK
        <4> QED
          BY <3>1, <4>1, <4>3 DEF Answers
      <3> QED
        BY <3>1, <3>3, <3>4 DEF Answers
    <2>3. CASE RefuseOutputs(c) \/ Discard(c)
      <3>1. /\ cbat[c] \in Batches /\ UNCHANGED <<calls, completed>>
            /\ \A d \in Clients : cpc'[d] = "deliver" => cpc[d] = "deliver" /\ cids'[d] = cids[d]
        <4>1. /\ cpc[c] = "complete" /\ UNCHANGED <<calls, completed>>
              /\ \/ cpc' = [cpc EXCEPT ![c] = "done"] /\ cids' = [cids EXCEPT ![c] = {}]
                 \/ cpc' = [cpc EXCEPT ![c] = "forget"] /\ cids' = cids
          BY <2>3 DEF RefuseOutputs, Discard, GiveUp
        <4>2. cbat[c] \in Batches
          BY <4>1 DEF TypeInv, Locals
        <4>3. \A d \in Clients : cpc'[d] = "deliver" => cpc[d] = "deliver" /\ cids'[d] = cids[d]
          BY <4>1 DEF TypeInv, TypeOK
        <4> QED
          BY <4>1, <4>2, <4>3
      <3>2. StartClose(cbat[c], TRUE) \/ StartClose(cbat[c], FALSE) \/ UNCHANGED outcome
        BY <2>3 DEF RefuseOutputs, Discard
      <3> QED
        BY <3>1, <3>2, AnswersFrame, AnswersClose
    <2>4. CASE ~Complete(c) /\ ~Deliver(c) /\ ~RefuseOutputs(c) /\ ~Discard(c)
      <3>1. UNCHANGED <<calls, completed, outcome>>
        BY <1>5, <2>4 DEF ClientStep, FindByCallIDs, RemoveStale, FindByAnyCallIDs, ForgetBatch, batchVars
      <3>2. \A d \in Clients : cpc'[d] = "deliver" => cpc[d] = "deliver" /\ cids'[d] = cids[d]
        BY <1>5, <2>4 DEF ClientStep, FindByCallIDs, RemoveStale, FindByAnyCallIDs, ForgetBatch, GiveUp,
                          TypeInv, TypeOK
      <3> QED
        BY <3>1, <3>2, AnswersFrame
    <2> QED
      BY <2>1, <2>2, <2>3, <2>4
  <1>6. CASE CancelAll \/ UNCHANGED vars
    BY <1>6, <1>a DEF CancelAll, vars, batchVars, clientVars
  <1> QED
    BY <1>1, <1>2, <1>3, <1>4, <1>5, <1>6 DEF Next

----------------------------------------------------------------------------
(* The refinement of PendingBatch.                                           *)

BrokerInv == TypeInv /\ IdInv /\ Delivery /\ Gone /\ Owned /\ Tracked /\ NoSplitIdentity /\ Answers

LEMMA BrokerInvInit == Init => BrokerInv
  BY TypeInvInit, IdInvInit, DeliveryInit, GoneInit, OwnedInit, TrackedInit, NoSplitInit, AnswersInit
  DEF BrokerInv

LEMMA BrokerInvNext == BrokerInv /\ [Next]_vars => BrokerInv'
  BY TypeInvNext, IdInvNext, DeliveryNext, GoneNext, OwnedNext, TrackedNext, NoSplitNext, AnswersNext
  DEF BrokerInv

\* What the mapping makes of a batch and of the outputs supplied for it.
LEMMA StatusIs ==
  ASSUME NEW b \in Batches
  PROVE  /\ owner[b] = None => batchStatus[b] = "absent"
         /\ owner[b] # None /\ b \in expired => batchStatus[b] = "expired"
         /\ owner[b] # None /\ b \notin expired /\ b \in completed => batchStatus[b] = "completed"
         /\ owner[b] # None /\ Open(b) => batchStatus[b] = "open"
  BY DEF batchStatus, Open

LEMMA SuppliedIs ==
  ASSUME NEW b \in Batches
  PROVE  \A k : k \in suppliedFor[b] <=> \E c \in Clients : Settled(c) /\ cbat[c] = b /\ k \in cids[c]
  BY DEF suppliedFor, Settled

SettledAlone ==
    \A c \in Clients : /\ Settled(c)' <=> Settled(c)
                       /\ Settled(c) => cbat'[c] = cbat[c] /\ cids'[c] = cids[c]

LEMMA SuppliedStays ==
  ASSUME SettledAlone
  PROVE  suppliedFor' = suppliedFor
  <1>1. ASSUME NEW b \in Batches PROVE suppliedFor'[b] = suppliedFor[b]
    <2>1. \A k : k \in suppliedFor[b] <=> \E c \in Clients : Settled(c) /\ cbat[c] = b /\ k \in cids[c]
      BY SuppliedIs
    <2>2. \A k : k \in suppliedFor'[b] <=> \E c \in Clients : Settled(c)' /\ cbat'[c] = b /\ k \in cids'[c]
      BY DEF suppliedFor, Settled
    <2>3. \A k : k \in suppliedFor'[b] <=> k \in suppliedFor[b]
      BY <2>1, <2>2 DEF SettledAlone
    <2> QED
      BY <2>3
  <1> QED
    BY <1>1 DEF suppliedFor

\* Steps that neither create, close nor complete a batch, nor change an outcome.
LEMMA ContractStutters ==
  ASSUME UNCHANGED <<owner, expired, completed, calls, outcome>>, SettledAlone
  PROVE  UNCHANGED <<batchStatus, calls, suppliedFor, callResult>>
  BY SuppliedStays DEF batchStatus, callResult

\* Closing a batch is Expire if it is open, and nothing if it is not.
LEMMA ContractCloses ==
  ASSUME BrokerInv, NEW b \in Batches, owner[b] # None, NEW runAbort \in BOOLEAN, StartClose(b, runAbort),
         UNCHANGED <<owner, completed, calls>>, SettledAlone
  PROVE  Contract!Next \/ UNCHANGED <<batchStatus, calls, suppliedFor, callResult>>
  <1>1. CASE ~Open(b)
    BY <1>1, ContractStutters DEF StartClose
  <1>2. CASE Open(b)
    <2>1. /\ expired' = expired \cup {b}
          /\ outcome' = [k \in CallIds |-> IF k \in calls[b] /\ outcome[k] = "pending"
                                           THEN "failed" ELSE outcome[k]]
      BY <1>2 DEF StartClose
    <2>2. \A k \in calls[b] : outcome[k] = "pending"
      BY <1>2, OpenIsPending DEF BrokerInv
    <2>3. batchStatus[b] = "open"
      BY <1>2, StatusIs
    <2>4. batchStatus' = [batchStatus EXCEPT ![b] = "expired"]
      BY <2>1 DEF batchStatus
    <2>5. callResult' = [k \in CallIds |-> IF k \in calls[b] THEN "failed" ELSE callResult[k]]
      BY <2>1, <2>2 DEF callResult
    <2>6. Contract!Expire(b)
      BY <2>3, <2>4, <2>5, SuppliedStays DEF Contract!Expire
    <2> QED
      BY <2>6 DEF Contract!Next
  <1> QED
    BY <1>1, <1>2

\* A batch is taken: a new one begins, an open one is as it was.
LEMMA ContractTakes ==
  ASSUME BrokerInv, NEW t \in Threads, UseOpenBatch(t) \/ NewBatch(t),
         UNCHANGED <<expired, completed, calls, outcome>>, SettledAlone
  PROVE  Contract!Next \/ UNCHANGED <<batchStatus, calls, suppliedFor, callResult>>
  <1>1. CASE UseOpenBatch(t)
    BY <1>1, ContractStutters DEF UseOpenBatch
  <1>2. CASE NewBatch(t)
    <2> DEFINE r == TurnOf(t)
    <2>1. PICK b \in Batches : owner[b] = None /\ owner' = [owner EXCEPT ![b] = r]
      BY <1>2 DEF NewBatch
    <2>2. r \in Turns /\ r # None
      BY InvokedByAssumption, NoneAssumption, ThreadsAssumption
    <2> HIDE DEF r
    <2>3. b \notin expired /\ b \notin completed
      BY <2>1 DEF BrokerInv, Owned, Untouched, Open
    <2>4. batchStatus[b] = "absent"
      BY <2>1, StatusIs
    <2>5. batchStatus' = [batchStatus EXCEPT ![b] = "open"]
      BY <2>1, <2>2, <2>3 DEF batchStatus, BrokerInv, TypeInv, TypeOK
    <2>6. callResult' = callResult
      BY DEF callResult
    <2>7. Contract!Begin(b)
      BY <2>4, <2>5, <2>6, SuppliedStays DEF Contract!Begin
    <2> QED
      BY <2>7 DEF Contract!Next
  <1> QED
    BY <1>1, <1>2

\* A call is minted for the batch the goroutine holds: nobody else has it.
LEMMA ContractAnnounces ==
  ASSUME BrokerInv, NEW t \in Threads, NEW s \in SdkIds, EnsureCall(t, s)
  PROVE  Contract!Next \/ UNCHANGED <<batchStatus, calls, suppliedFor, callResult>>
  <1>1. /\ bat[t] \in Batches /\ owner[bat[t]] \in Turns /\ owner[bat[t]] # None /\ TurnOf(t) \in Turns
        /\ UNCHANGED <<owner, expired, completed, outcome>> /\ SettledAlone
    BY InvokedByAssumption, NoneAssumption, ThreadsAssumption
    DEF EnsureCall, clientVars, Busy, BrokerInv, TypeInv, Locals, SettledAlone, Settled
  <1>2. CASE FindCall(t, s)
    BY <1>1, <1>2, ContractStutters DEF FindCall
  <1>3. CASE MintCall(t, s)
    <2>1. PICK k \in CallIds :
             /\ IF reserved[TurnOf(t)][s] # None THEN k = reserved[TurnOf(t)][s] ELSE k \notin minted
             /\ calls' = [calls EXCEPT ![bat[t]] = @ \cup {k}]
      BY <1>3 DEF MintCall
    <2>2. \A b \in Batches : k \notin calls[b]
      BY <1>1, <2>1 DEF BrokerInv, IdInv, Fresh
    <2>3. batchStatus[bat[t]] # "absent"
      BY <1>1 DEF batchStatus
    <2>4. batchStatus' = batchStatus /\ callResult' = callResult
      BY <1>1 DEF batchStatus, callResult
    <2>5. Contract!Announce(bat[t], k)
      BY <1>1, <2>1, <2>2, <2>3, <2>4, SuppliedStays DEF Contract!Announce
    <2> QED
      BY <1>1, <2>5 DEF Contract!Next
  <1> QED
    BY <1>2, <1>3 DEF EnsureCall

\* The client supplied what the batch owes, and nobody else can settle it.
LEMMA ContractCompletes ==
  ASSUME BrokerInv, NEW c \in Clients, Complete(c)
  PROVE  Contract!Next
  <1> DEFINE b == cbat[c]
  <1>1. /\ b \in Batches /\ Open(b) /\ cids[c] = calls[b] /\ owner[b] # None
        /\ completed' = completed \cup {b}
        /\ UNCHANGED <<owner, expired, calls, outcome, cids, cbat, acked>>
    BY NoneAssumption DEF Complete, BrokerInv, TypeInv, Locals, Owned
  <1>2. /\ cpc[c] = "complete" /\ cpc'[c] = "deliver" /\ \A d \in Clients : d # c => cpc'[d] = cpc[d]
    BY DEF Complete, BrokerInv, TypeInv, TypeOK
  <1>3. ~Settled(c) /\ Settled(c)' /\ \A d \in Clients : d # c => (Settled(d)' <=> Settled(d))
    BY <1>1, <1>2 DEF Settled, BrokerInv, Delivery
  <1>4. \A d \in Clients : Settled(d) => cbat[d] # b
    BY <1>1 DEF BrokerInv, Delivery, Open
  <1>5. batchStatus[b] = "open"
    BY <1>1, StatusIs
  <1>6. batchStatus' = [batchStatus EXCEPT ![b] = "completed"]
    BY <1>1 DEF batchStatus, Open
  <1>7. suppliedFor' = [suppliedFor EXCEPT ![b] = calls[b]]
    <2>1. ASSUME NEW a \in Batches PROVE suppliedFor'[a] = IF a = b THEN calls[b] ELSE suppliedFor[a]
      <3>1. \A k : k \in suppliedFor[a] <=> \E d \in Clients : Settled(d) /\ cbat[d] = a /\ k \in cids[d]
        BY SuppliedIs
      <3>2. \A k : k \in suppliedFor'[a] <=> \E d \in Clients : Settled(d)' /\ cbat[d] = a /\ k \in cids[d]
        BY <1>1 DEF suppliedFor, Settled
      <3>3. CASE a = b
        <4>1. \A k : k \in suppliedFor'[a] <=> k \in calls[b]
          BY <1>1, <1>3, <1>4, <3>2, <3>3
        <4> QED
          BY <3>3, <4>1
      <3>4. CASE a # b
        <4>1. \A k : k \in suppliedFor'[a] <=> k \in suppliedFor[a]
          BY <1>3, <3>1, <3>2, <3>4
        <4> QED
          BY <3>4, <4>1
      <3> QED
        BY <3>3, <3>4
    <2> QED
      BY <2>1 DEF suppliedFor
  <1>8. callResult' = callResult
    BY <1>1 DEF callResult
  <1>9. Contract!Complete(b)
    BY <1>1, <1>5, <1>6, <1>7, <1>8 DEF Contract!Complete
  <1> QED
    BY <1>1, <1>9 DEF Contract!Next

\* The outputs reach every call of the batch: nobody else has touched them.
LEMMA ContractAnswers ==
  ASSUME BrokerInv, NEW c \in Clients, Deliver(c)
  PROVE  Contract!Next
  <1> DEFINE b == cbat[c]
  <1>1. /\ cpc[c] = "deliver" /\ cpc'[c] = "forget" /\ acked' = acked \cup {c}
        /\ \A d \in Clients : d # c => cpc'[d] = cpc[d]
        /\ outcome' = [k \in CallIds |-> IF k \in cids[c] /\ outcome[k] = "pending"
                                         THEN "output" ELSE outcome[k]]
        /\ UNCHANGED <<owner, expired, completed, calls, cids, cbat>>
    BY DEF Deliver, BrokerInv, TypeInv, TypeOK
  <1>2. Settled(c) /\ SettledAlone
    BY <1>1 DEF Settled, SettledAlone
  <1>3. b \in Batches /\ b \in completed /\ b \notin expired /\ owner[b] # None
    BY <1>2, NoneAssumption DEF BrokerInv, Delivery, Owned, TypeInv, TypeOK
  <1>4. suppliedFor[b] = cids[c]
    <2>1. \A k : k \in suppliedFor[b] <=> \E d \in Clients : Settled(d) /\ cbat[d] = b /\ k \in cids[d]
      BY <1>3, SuppliedIs
    <2>2. \A d \in Clients : d # c /\ Settled(d) => cbat[d] # b
      BY <1>2 DEF BrokerInv, Delivery
    <2>3. \A k : k \in suppliedFor[b] <=> k \in cids[c]
      BY <1>2, <2>1, <2>2
    <2> QED
      BY <2>3
  <1>5. \A k \in cids[c] : k \in CallIds /\ outcome[k] = "pending"
    BY <1>1 DEF BrokerInv, Answers, TypeInv, TypeOK
  <1>6. batchStatus[b] = "completed" /\ batchStatus' = batchStatus
    BY <1>1, <1>3 DEF batchStatus
  <1>7. \A k \in suppliedFor[b] : callResult[k] = "pending"
    BY <1>4, <1>5 DEF callResult
  <1>8. callResult' = [k \in CallIds |-> IF k \in suppliedFor[b] THEN "answered" ELSE callResult[k]]
    <2>1. ASSUME NEW k \in CallIds
          PROVE  callResult'[k] = IF k \in suppliedFor[b] THEN "answered" ELSE callResult[k]
      BY <1>1, <1>4, <1>5 DEF callResult
    <2> QED
      BY <2>1 DEF callResult
  <1>9. Contract!Answer(b)
    BY <1>1, <1>2, <1>6, <1>7, <1>8, SuppliedStays DEF Contract!Answer
  <1> QED
    BY <1>3, <1>9 DEF Contract!Next

LEMMA ContractNext ==
  ASSUME BrokerInv, [Next]_vars
  PROVE  Contract!Next \/ UNCHANGED <<batchStatus, calls, suppliedFor, callResult>>
  <1> DEFINE Goal == Contract!Next \/ UNCHANGED <<batchStatus, calls, suppliedFor, callResult>>
  <1> USE InvokedByAssumption, NoneAssumption, ThreadsAssumption
  <1>a. ASSUME UNCHANGED <<cpc, cids, cbat, acked>> PROVE SettledAlone
    BY <1>a DEF SettledAlone, Settled
  <1>b. ASSUME UNCHANGED <<owner, expired, completed, calls, outcome, cpc, cids, cbat, acked>> PROVE Goal
    BY <1>a, <1>b, ContractStutters
  <1> HIDE DEF Goal
  <1>1. ASSUME NEW r \in Turns, TurnStep(r) PROVE Goal
    <2>1. CASE CaptureRequests(r)
      BY <1>a, <2>1, ContractTakes DEF CaptureRequests, clientVars, Goal
    <2>2. CASE ~CaptureRequests(r)
      BY <1>1, <1>b, <2>2 DEF TurnStep, ReserveStreamingCall, Configure, ReleaseReservations, CancelCurrent,
                              rtVars, batchVars, clientVars
    <2> QED
      BY <2>1, <2>2
  <1>2. ASSUME NEW t \in Threads, LockedStep(t) PROVE Goal
    <2>1. CASE \E s \in SdkIds : EnsureCall(t, s)
      BY <2>1, ContractAnnounces DEF Goal
    <2>2. CASE CancelUnregistered(t)
      <3>1. bat[t] \in Batches /\ owner[bat[t]] # None
        BY <2>2 DEF CancelUnregistered, Busy, BrokerInv, TypeInv, Locals
      <3> QED
        BY <1>a, <2>2, <3>1, ContractCloses DEF CancelUnregistered, clientVars, Goal
    <2>3. CASE ~CancelUnregistered(t) /\ ~\E s \in SdkIds : EnsureCall(t, s)
      BY <1>2, <1>b, <2>3 DEF LockedStep, RejectRequest, Bind, CheckOpen, Insert, StartTimer, batchVars, clientVars
    <2> QED
      BY <2>1, <2>2, <2>3
  <1>3. ASSUME NEW h \in Handlers, HandlerStep(h) PROVE Goal
    <2>1. CASE HandleInvocation(h)
      BY <1>a, <2>1, ContractTakes DEF HandleInvocation, clientVars, Goal
    <2>2. CASE WaitAnswered(h)
      <3>1. /\ \E k \in CallIds : outcome[k] = "output" /\ outcome' = [outcome EXCEPT ![k] = "taken"]
            /\ UNCHANGED <<owner, expired, completed, calls>> /\ SettledAlone
        BY <1>a, <2>2 DEF WaitAnswered, clientVars, BrokerInv, TypeInv, TypeOK
      <3>2. callResult' = callResult
        <4>1. \A j \in CallIds : outcome'[j] = outcome[j] \/ (outcome[j] = "output" /\ outcome'[j] = "taken")
          BY <3>1 DEF BrokerInv, TypeInv, TypeOK
        <4>2. \A j \in CallIds : callResult'[j] = callResult[j]
          BY <4>1 DEF callResult
        <4> QED
          BY <4>2 DEF callResult
      <3>3. batchStatus' = batchStatus
        BY <3>1 DEF batchStatus
      <3> QED
        BY <3>1, <3>2, <3>3, SuppliedStays DEF Goal
    <2>3. CASE WaitFails(h)
      BY <1>b, <2>3 DEF WaitFails, batchVars, clientVars
    <2> QED
      BY <1>3, <2>1, <2>2, <2>3 DEF HandlerStep
  <1>4. ASSUME NEW b \in Batches, BatchStep(b) PROVE Goal
    <2>1. CASE TimerFires(b)
      <3>1. owner[b] # None
        BY <2>1 DEF TimerFires, BrokerInv, Owned, Untouched
      <3> QED
        BY <1>a, <2>1, <3>1, ContractCloses DEF TimerFires, clientVars, Goal
    <2>2. CASE CancelNext(b)
      <3>1. owner[b] # None
        BY <2>2 DEF CancelNext, BrokerInv, Owned
      <3> QED
        BY <1>a, <2>2, <3>1, ContractCloses DEF CancelNext, clientVars, Goal
    <2>3. CASE Deadline(b) \/ CloseAborts(b) \/ CloseForgets(b)
      BY <1>b, <2>3 DEF Deadline, CloseAborts, CloseForgets, clientVars
    <2> QED
      BY <1>4, <2>1, <2>2, <2>3 DEF BatchStep
  <1>5. ASSUME NEW c \in Clients, ClientStep(c) PROVE Goal
    <2>0. c \in acked => cpc[c] \in {"forget", "done"}
      BY DEF BrokerInv, Delivery
    <2>1. CASE Complete(c)
      BY <2>1, ContractCompletes DEF Goal
    <2>2. CASE Deliver(c)
      BY <2>2, ContractAnswers DEF Goal
    <2>3. CASE RefuseOutputs(c) \/ Discard(c)
      <3>1. cbat[c] \in Batches /\ owner[cbat[c]] # None /\ cpc[c] = "complete" /\ c \notin acked
        <4>1. cpc[c] = "complete"
          BY <2>3 DEF RefuseOutputs, Discard
        <4> QED
          BY <2>0, <4>1 DEF BrokerInv, TypeInv, Locals, Owned
      <3>2. SettledAlone
        <4>1. /\ acked' = acked
              /\ \/ /\ cpc' = [cpc EXCEPT ![c] = "done"] /\ cids' = [cids EXCEPT ![c] = {}]
                    /\ cbat' = [cbat EXCEPT ![c] = None]
                 \/ cpc' = [cpc EXCEPT ![c] = "forget"] /\ UNCHANGED <<cids, cbat>>
          BY <2>3 DEF RefuseOutputs, Discard, GiveUp
        <4>2. ~Settled(c) /\ ~Settled(c)'
          BY <3>1, <4>1 DEF Settled, BrokerInv, TypeInv, TypeOK
        <4>3. \A d \in Clients : d # c => cpc'[d] = cpc[d] /\ cids'[d] = cids[d] /\ cbat'[d] = cbat[d]
          BY <4>1 DEF BrokerInv, TypeInv, TypeOK
        <4> QED
          BY <4>1, <4>2, <4>3 DEF SettledAlone, Settled
      <3>3. /\ UNCHANGED <<owner, completed, calls>>
            /\ \/ StartClose(cbat[c], TRUE)
               \/ StartClose(cbat[c], FALSE)
               \/ UNCHANGED <<expired, outcome>>
        BY <2>3 DEF RefuseOutputs, Discard
      <3> QED
        BY <3>1, <3>2, <3>3, ContractCloses, ContractStutters DEF Goal
    <2>4. CASE ~Complete(c) /\ ~Deliver(c) /\ ~RefuseOutputs(c) /\ ~Discard(c)
      <3>1. UNCHANGED <<owner, expired, completed, calls, outcome, acked>>
        BY <1>5, <2>4 DEF ClientStep, FindByCallIDs, RemoveStale, FindByAnyCallIDs, ForgetBatch, batchVars
      <3>2. SettledAlone
        BY <1>5, <2>0, <2>4 DEF ClientStep, FindByCallIDs, RemoveStale, FindByAnyCallIDs, ForgetBatch, GiveUp,
                                SettledAlone, Settled, BrokerInv, TypeInv, TypeOK
      <3> QED
        BY <3>1, <3>2, ContractStutters DEF Goal
    <2> QED
      BY <2>1, <2>2, <2>3, <2>4
  <1>6. ASSUME CancelAll \/ UNCHANGED vars PROVE Goal
    BY <1>6, <1>b DEF CancelAll, vars, batchVars, clientVars
  <1> QED
    BY <1>1, <1>2, <1>3, <1>4, <1>5, <1>6 DEF Next, Goal

----------------------------------------------------------------------------
(* The theorems.                                                             *)

LEMMA BrokerInvHolds == Spec => []BrokerInv
  <1>1. BrokerInv /\ [Next]_vars => BrokerInv'
    BY BrokerInvNext
  <1> QED
    BY BrokerInvInit, <1>1, PTL DEF Spec

\* Once the gateway has stopped, no batch the broker ever took stays open: the
\* ones CancelAll saw are cancelled, and Register refuses and cancels the rest,
\* wherever between its sections the shutdown caught it (CancelAll, Register).
THEOREM StopIsClean == Spec => []StopLeavesNoOpenBatch
  <1>1. BrokerInv => StopLeavesNoOpenBatch
    BY DEF BrokerInv, Tracked, Registers, StopLeavesNoOpenBatch, Registering
  <1> QED
    BY BrokerInvHolds, <1>1, PTL

\* While an id is on the wire for an SDK call, the open batch has no call under
\* that SDK id, whichever of the announcement and the invocation comes first
\* (ReserveStreamingCall, ensureCall).
THEOREM IdentityIsNotSplit == Spec => []NoSplitIdentity
  <1>1. BrokerInv => NoSplitIdentity
    BY DEF BrokerInv
  <1> QED
    BY BrokerInvHolds, <1>1, PTL

\* Every history of the broker is one of PendingBatch: a batch is completed with
\* an output for each call it has, all of which are then answered, or closed once
\* for another reason, and its calls fail with it (CompleteToolOutputsWithSetup,
\* closeBatch, Call.deliver, Call.fail).
THEOREM BrokerImplementsContract == Spec => ImplementsPendingBatch
  <1>1. Init => Contract!Init
    <2> SUFFICES ASSUME Init PROVE Contract!Init
      OBVIOUS
    <2>1. \A c \in Clients : ~Settled(c)
      BY DEF Init, Settled
    <2>2. suppliedFor = [b \in Batches |-> {}]
      <3>1. \A b \in Batches : suppliedFor[b] = {}
        BY <2>1, SuppliedIs
      <3> QED
        BY <3>1 DEF suppliedFor
    <2>3. batchStatus = [b \in Batches |-> "absent"] /\ callResult = [k \in CallIds |-> "pending"]
      BY DEF Init, batchStatus, callResult
    <2> QED
      BY <2>2, <2>3 DEF Init, Contract!Init
  <1>2. BrokerInv /\ [Next]_vars => [Contract!Next]_<<batchStatus, calls, suppliedFor, callResult>>
    BY ContractNext
  <1> QED
    BY BrokerInvHolds, <1>1, <1>2, PTL DEF Spec, ImplementsPendingBatch, Contract!Spec, Contract!vars
=============================================================================
