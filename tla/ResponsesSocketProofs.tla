----------------------- MODULE ResponsesSocketProofs -----------------------
(* Proofs about ResponsesSocket, for any number of creates on the connection *)
(* (and so also for those that overlap).                                     *)
EXTENDS ResponsesSocket, FiniteSetTheorems, TLAPS

USE DEF vars, connVars, stateVars, reqVars, warmVars, serverVars

\* The handlers the wait group counts.
Busy == {c \in Creates : h[c] \notin {"idle", "done"}}

Counted == IsFiniteSet(Busy) /\ wg = Cardinality(Busy)

TypeInv == TypeOK /\ Counted

LEMMA TypeInvInit == Init => TypeInv
  <1> SUFFICES ASSUME Init PROVE TypeInv
    OBVIOUS
  <1>1. TypeOK
    BY DEF Init, TypeOK
  <1>2. Busy = {}
    BY DEF Init, Busy
  <1>3. Counted
    BY <1>2, FS_EmptySet DEF Init, Counted
  <1> QED
    BY <1>1, <1>3 DEF TypeInv

\* A step of a handler that runs on, or a step of somebody else.
LEMMA CountFrame ==
  ASSUME Counted, UNCHANGED wg, Busy' = Busy
  PROVE  Counted'
  BY DEF Counted

LEMMA CountStep ==
  ASSUME TypeInv, NEW c \in Creates, NEW step, h[c] \notin {"idle", "done"}, step \notin {"idle", "done"},
         Goto(c, step), UNCHANGED wg
  PROVE  Counted'
  <1>1. Busy' = Busy
    BY DEF Busy, Goto, TypeInv, TypeOK
  <1> QED
    BY <1>1, CountFrame DEF TypeInv

LEMMA CountReceive ==
  ASSUME TypeInv, NEW c \in Creates, h[c] = "idle", Goto(c, "prepare"), wg' = wg + 1
  PROVE  Counted'
  <1>1. Busy' = Busy \cup {c} /\ c \notin Busy
    BY DEF Busy, Goto, TypeInv, TypeOK
  <1>2. IsFiniteSet(Busy) /\ wg = Cardinality(Busy)
    BY DEF TypeInv, Counted
  <1>3. IsFiniteSet(Busy') /\ Cardinality(Busy') = Cardinality(Busy) + 1
    BY <1>1, <1>2, FS_AddElement
  <1> QED
    BY <1>2, <1>3 DEF Counted

LEMMA CountFinish ==
  ASSUME TypeInv, NEW c \in Creates, h[c] = "finish", Goto(c, "done"), wg' = wg - 1
  PROVE  Counted' /\ wg' \in Nat
  <1>1. Busy' = Busy \ {c} /\ c \in Busy
    BY DEF Busy, Goto, TypeInv, TypeOK
  <1>2. IsFiniteSet(Busy) /\ wg = Cardinality(Busy)
    BY DEF TypeInv, Counted
  <1>3. IsFiniteSet(Busy') /\ Cardinality(Busy') = Cardinality(Busy) - 1
    BY <1>1, <1>2, FS_RemoveElement
  <1>4. Cardinality(Busy') \in Nat
    BY <1>3, FS_CardinalityType
  <1> QED
    BY <1>2, <1>3, <1>4 DEF Counted

LEMMA HandlerStepType ==
  ASSUME TypeInv, NEW c \in Creates, HandlerStep(c) \/ RelayResult(c)
  PROVE  TypeInv'
  <1> USE NoneAssumption DEF Generating
  <1>1. CASE PrepareFails(c)
    <2>1. TypeOK'
      BY <1>1 DEF PrepareFails, Fail, Goto, TypeInv, TypeOK
    <2>2. Counted'
      BY <1>1, CountStep DEF PrepareFails, Fail
    <2> QED
      BY <2>1, <2>2 DEF TypeInv
  <1>2. CASE PrepareWarm(c)
    <2>1. TypeOK'
      BY <1>2 DEF PrepareWarm, ReplaceWarm, Disconnect, Goto, TypeInv, TypeOK
    <2>2. Counted'
      BY <1>2, CountStep DEF PrepareWarm
    <2> QED
      BY <2>1, <2>2 DEF TypeInv
  <1>3. CASE WarmResponse(c)
    <2>1. TypeOK'
      BY <1>3 DEF WarmResponse, Goto, TypeInv, TypeOK
    <2>2. Counted'
      BY <1>3, CountStep DEF WarmResponse
    <2> QED
      BY <2>1, <2>2 DEF TypeInv
  <1>4. CASE WarmFails(c)
    <2>1. TypeOK'
      BY <1>4 DEF WarmFails, Fail, Goto, TypeInv, TypeOK
    <2>2. Counted'
      BY <1>4, CountStep DEF WarmFails, Fail
    <2> QED
      BY <2>1, <2>2 DEF TypeInv
  <1>5. CASE SaveFails(c)
    <2>1. TypeOK'
      BY <1>5 DEF SaveFails, Disconnect, Fail, Goto, TypeInv, TypeOK
    <2>2. Counted'
      BY <1>5, CountStep DEF SaveFails, Fail
    <2> QED
      BY <2>1, <2>2 DEF TypeInv
  <1>6. CASE TrackWarmSession(c)
    <2>1. TypeOK'
      BY <1>6 DEF TrackWarmSession, Disconnect, Fail, Goto, TypeInv, TypeOK
    <2>2. Counted'
      BY <1>6, CountStep DEF TrackWarmSession, Fail
    <2> QED
      BY <2>1, <2>2 DEF TypeInv
  <1>7. CASE Install(c)
    <2>1. TypeOK'
      BY <1>7 DEF Install, ReplaceWarm, Disconnect, Goto, TypeInv, TypeOK
    <2>2. Counted'
      BY <1>7, CountStep DEF Install
    <2> QED
      BY <2>1, <2>2 DEF TypeInv
  <1>8. CASE TakeWarm(c)
    <2>1. TypeOK'
      BY <1>8 DEF TakeWarm, ReplaceWarm, Disconnect, Goto, TypeInv, TypeOK
    <2>2. Counted'
      BY <1>8, CountStep DEF TakeWarm
    <2> QED
      BY <2>1, <2>2 DEF TypeInv
  <1>9. CASE DropWarm(c)
    <2>1. TypeOK'
      BY <1>9 DEF DropWarm, ReplaceWarm, Disconnect, Goto, TypeInv, TypeOK
    <2>2. Counted'
      BY <1>9, CountStep DEF DropWarm
    <2> QED
      BY <2>1, <2>2 DEF TypeInv
  <1>10. CASE StreamFails(c)
    <2>1. TypeOK'
      BY <1>10 DEF StreamFails, Disconnect, Fail, Goto, TypeInv, TypeOK
    <2>2. Counted'
      BY <1>10, CountStep DEF StreamFails, Fail
    <2> QED
      BY <2>1, <2>2 DEF TypeInv
  <1>11. CASE StreamContinues(c)
    <2>1. TypeOK'
      BY <1>11 DEF StreamContinues, Goto, TypeInv, TypeOK
    <2>2. Counted'
      BY <1>11, CountStep DEF StreamContinues
    <2> QED
      BY <2>1, <2>2 DEF TypeInv
  <1>12. CASE UseWarm(c)
    <2>1. TypeOK'
      BY <1>12 DEF UseWarm, Goto, TypeInv, TypeOK
    <2>2. Counted'
      BY <1>12, CountStep DEF UseWarm
    <2> QED
      BY <2>1, <2>2 DEF TypeInv
  <1>13. CASE SkipWarm(c)
    <2>1. TypeOK'
      BY <1>13 DEF SkipWarm, Disconnect, Goto, TypeInv, TypeOK
    <2>2. Counted'
      BY <1>13, CountStep DEF SkipWarm
    <2> QED
      BY <2>1, <2>2 DEF TypeInv
  <1>14. CASE OpenSession(c)
    <2>1. TypeOK'
      BY <1>14 DEF OpenSession, Goto, TypeInv, TypeOK
    <2>2. Counted'
      BY <1>14, CountStep DEF OpenSession
    <2> QED
      BY <2>1, <2>2 DEF TypeInv
  <1>15. CASE OpenFails(c)
    <2>1. TypeOK'
      BY <1>15 DEF OpenFails, Fail, Goto, TypeInv, TypeOK
    <2>2. Counted'
      BY <1>15, CountStep DEF OpenFails, Fail
    <2> QED
      BY <2>1, <2>2 DEF TypeInv
  <1>16. CASE StartRunner(c)
    <2>1. TypeOK'
      BY <1>16 DEF StartRunner, Fail, Goto, TypeInv, TypeOK
    <2>2. Counted'
      BY <1>16, CountStep DEF StartRunner, Fail
    <2> QED
      BY <2>1, <2>2 DEF TypeInv
  <1>17. CASE RelayCancelled(c)
    <2>1. TypeOK'
      BY <1>17 DEF RelayCancelled, Goto, TypeInv, TypeOK
    <2>2. Counted'
      BY <1>17, CountStep DEF RelayCancelled
    <2> QED
      BY <2>1, <2>2 DEF TypeInv
  <1>18. CASE EarlyFrameFails(c)
    <2>1. TypeOK'
      BY <1>18 DEF EarlyFrameFails, Goto, TypeInv, TypeOK
    <2>2. Counted'
      BY <1>18, CountStep DEF EarlyFrameFails
    <2> QED
      BY <2>1, <2>2 DEF TypeInv
  <1>19. CASE ReleaseSlot(c)
    <2>1. TypeOK'
      <3>1. active' \in BOOLEAN
        BY <1>19, Zenon DEF ReleaseSlot
      <3> QED
        BY <1>19, <3>1 DEF ReleaseSlot, Goto, TypeInv, TypeOK
    <2>2. Counted'
      BY <1>19, CountStep DEF ReleaseSlot
    <2> QED
      BY <2>1, <2>2 DEF TypeInv
  <1>20. CASE WriteFrame(c)
    <2>1. TypeOK'
      BY <1>20 DEF WriteFrame, Goto, TypeInv, TypeOK
    <2>2. Counted'
      BY <1>20, CountStep DEF WriteFrame
    <2> QED
      BY <2>1, <2>2 DEF TypeInv
  <1>21. CASE WriteFails(c)
    <2>1. TypeOK'
      BY <1>21 DEF WriteFails, Goto, TypeInv, TypeOK
    <2>2. Counted'
      BY <1>21, CountStep DEF WriteFails
    <2> QED
      BY <2>1, <2>2 DEF TypeInv
  <1>22. CASE HandlerClosed(c)
    <2>1. TypeOK'
      BY <1>22 DEF HandlerClosed, ReplaceWarm, Disconnect, Goto, TypeInv, TypeOK
    <2>2. Counted'
      BY <1>22, CountStep DEF HandlerClosed
    <2> QED
      BY <2>1, <2>2 DEF TypeInv
  <1>23. CASE Finish(c)
    <2>1. TypeOK'
      <3>1. active' \in BOOLEAN
        BY <1>23, Zenon DEF Finish
      <3>2. wg' \in Nat
        BY <1>23, CountFinish DEF Finish
      <3> QED
        BY <1>23, <3>1, <3>2 DEF Finish, Goto, TypeInv, TypeOK
    <2>2. Counted'
      BY <1>23, CountFinish DEF Finish
    <2> QED
      BY <2>1, <2>2 DEF TypeInv
  <1>24. CASE RelayResult(c)
    <2>1. TypeOK'
      BY <1>24 DEF RelayResult, Fail, Goto, TypeInv, TypeOK
    <2>2. Counted'
      BY <1>24, CountStep DEF RelayResult, Fail
    <2> QED
      BY <2>1, <2>2 DEF TypeInv
  <1> QED
    BY <1>1, <1>2, <1>3, <1>4, <1>5, <1>6, <1>7, <1>8, <1>9, <1>10, <1>11, <1>12, <1>13, <1>14,
       <1>15, <1>16, <1>17, <1>18, <1>19, <1>20, <1>21, <1>22, <1>23, <1>24 DEF HandlerStep

LEMMA TypeInvNext == TypeInv /\ [Next]_vars => TypeInv'
  <1> SUFFICES ASSUME TypeInv, [Next]_vars PROVE TypeInv'
    OBVIOUS
  <1> USE NoneAssumption DEF Generating
  <1>1. ASSUME NEW c \in Creates, NEW g \in BOOLEAN, NEW p \in Known(c), Receive(c, g, p) PROVE TypeInv'
    <2>1. p \in Creates \cup {None}
      BY DEF Known, TypeInv, TypeOK
    <2>2. TypeOK'
      BY <1>1, <2>1 DEF Receive, Goto, TypeInv, TypeOK
    <2>3. Counted'
      BY <1>1, CountReceive DEF Receive
    <2> QED
      BY <2>2, <2>3 DEF TypeInv
  <1>2. ASSUME NEW c \in Creates, HandlerStep(c) \/ RelayResult(c) PROVE TypeInv'
    BY <1>2, HandlerStepType
  <1>3. ASSUME NEW c \in Creates, RunnerEnds(c) PROVE TypeInv'
    BY <1>3 DEF RunnerEnds, TypeInv, TypeOK, Counted, Busy
  <1>4. ASSUME NEW c \in Creates, StopDisconnects(c) PROVE TypeInv'
    BY <1>4 DEF StopDisconnects, Disconnect, TypeInv, TypeOK, Counted, Busy
  <1>5. ASSUME NEW c \in Creates, StopAborts(c) PROVE TypeInv'
    BY <1>5 DEF StopAborts, TypeInv, TypeOK, Counted, Busy
  <1>6. CASE PeerLeaves
    <2>1. broken' \in BOOLEAN
      BY <1>6, Zenon DEF PeerLeaves, TypeInv, TypeOK
    <2> QED
      BY <1>6, <2>1 DEF PeerLeaves, TypeInv, TypeOK, Counted, Busy
  <1>7. CASE ReadFails
    BY <1>7 DEF ReadFails, TypeInv, TypeOK, Counted, Busy
  <1>8. CASE ReaderReturns
    BY <1>8 DEF ReaderReturns, Disconnect, TypeInv, TypeOK, Counted, Busy
  <1>9. CASE CloseWith
    BY <1>9 DEF CloseWith, TypeInv, TypeOK, Counted, Busy
  <1>10. CASE PingFails
    BY <1>10 DEF PingFails, TypeInv, TypeOK, Counted, Busy
  <1>11. CASE IdleTimeout
    BY <1>11 DEF IdleTimeout, TypeInv, TypeOK, Counted, Busy
  <1>12. CASE CloseReturns
    BY <1>12 DEF CloseReturns, TypeInv, TypeOK, Counted, Busy
  <1>13. CASE Shutdown
    BY <1>13 DEF Shutdown, TypeInv, TypeOK, Counted, Busy
  <1>14. CASE StopWarm
    BY <1>14 DEF StopWarm, TypeInv, TypeOK, Counted, Busy
  <1>15. CASE StopActive
    BY <1>15 DEF StopActive, TypeInv, TypeOK, Counted, Busy
  <1>16. CASE Stopped
    BY <1>16 DEF Stopped, TypeInv, TypeOK, Counted, Busy
  <1>17. CASE WriteTimesOut
    BY <1>17 DEF WriteTimesOut, TypeInv, TypeOK, Counted, Busy
  <1>18. CASE UNCHANGED vars
    BY <1>18 DEF TypeInv, TypeOK, Counted, Busy
  <1> QED
    BY <1>1, <1>2, <1>3, <1>4, <1>5, <1>6, <1>7, <1>8, <1>9, <1>10, <1>11, <1>12, <1>13, <1>14,
       <1>15, <1>16, <1>17, <1>18 DEF Next

\* The types, and the wait group as the number of handlers that run
\* (responsesWebSocketState.active and wg).
THEOREM TypeCorrect == Spec => []TypeOK
  <1>1. Init => TypeInv
    BY TypeInvInit
  <1>2. TypeInv /\ [Next]_vars => TypeInv'
    BY TypeInvNext
  <1>3. TypeInv => TypeOK
    BY DEF TypeInv
  <1> QED
    BY <1>1, <1>2, <1>3, PTL DEF Spec

----------------------------------------------------------------------------
(* What each holder of a warm session may assume of it.                      *)

\* The handler has not given the session it makes to anybody.
Early == {"idle", "prepare", "warming", "tracking", "install"}

Unborn ==
    \A c \in Creates :
        /\ h[c] \in Early => warm # c /\ \A d \in Creates : hold[d] # c
        /\ h[c] \in {"idle", "prepare", "warming"} => sess[c] = "none"
        /\ h[c] = "tracking" => sess[c] = "live"
        /\ h[c] \in Early \ {"install"} => c \notin tracked \cup stopping

\* The registries' snapshots: a registry is closed in the step that takes its
\* snapshot, and admits nothing afterwards.
Snapshots ==
    /\ stopping # {} => server = "warm"
    /\ warmClosed <=> server \in {"warm", "active", "stopped"}
    /\ warmClosed => tracked = {}
    /\ server \in {"active", "stopped"} => activeClosed
    /\ activeClosed => \A c \in Creates : run[c] = "running" => c \in aborting
    /\ server = "stopped" => aborting = {}

LEMMA SnapshotsNext ==
  ASSUME TypeOK, Snapshots, [Next]_vars
  PROVE  Snapshots'
  <1> USE NoneAssumption DEF Generating, TypeOK, Snapshots
  <1>1. ASSUME NEW c \in Creates, HandlerStep(c) \/ RelayResult(c) PROVE Snapshots'
    <2>1. CASE PrepareFails(c) \/ WarmFails(c) \/ StreamContinues(c) \/ OpenFails(c)
               \/ RelayCancelled(c) \/ EarlyFrameFails(c) \/ ReleaseSlot(c) \/ WriteFrame(c)
               \/ WriteFails(c) \/ Finish(c) \/ RelayResult(c)
      BY <1>1, <2>1 DEF PrepareFails, Fail, Goto, WarmFails, StreamContinues, OpenFails,
         RelayCancelled, EarlyFrameFails, ReleaseSlot, WriteFrame, WriteFails, Finish, RelayResult
    <2>2. CASE WarmResponse(c) \/ OpenSession(c) \/ UseWarm(c)
      BY <1>1, <2>2 DEF WarmResponse, Goto, OpenSession, UseWarm
    <2>3. CASE StartRunner(c)
      BY <1>1, <2>3 DEF StartRunner, Fail, Goto
    <2>4. CASE TrackWarmSession(c)
      BY <1>1, <2>4 DEF TrackWarmSession, Disconnect, Fail, Goto
    <2>5. CASE SaveFails(c) \/ StreamFails(c) \/ SkipWarm(c)
      BY <1>1, <2>5 DEF SaveFails, Disconnect, Fail, Goto, StreamFails, SkipWarm
    <2>6. CASE PrepareWarm(c) \/ Install(c) \/ DropWarm(c)
      BY <1>1, <2>6 DEF PrepareWarm, ReplaceWarm, Disconnect, Goto, Install, DropWarm
    <2>7. CASE TakeWarm(c)
      BY <1>1, <2>7 DEF TakeWarm, ReplaceWarm, Disconnect, Goto
    <2>8. CASE HandlerClosed(c)
      BY <1>1, <2>8 DEF HandlerClosed, ReplaceWarm, Disconnect, Goto
    <2> QED
      BY <1>1, <2>1, <2>2, <2>3, <2>4, <2>5, <2>6, <2>7, <2>8 DEF HandlerStep
  <1>2. ASSUME NEW c \in Creates, NEW g \in BOOLEAN, NEW p \in Known(c), Receive(c, g, p) PROVE Snapshots'
    BY <1>2 DEF Receive, Goto
  <1>3. CASE PeerLeaves
    <2>1. UNCHANGED <<stateVars, h, hold, warmVars, run, serverVars>> /\ UNCHANGED conn /\ (broken => broken')
      BY <1>3, Zenon DEF PeerLeaves, TypeOK
    <2> QED
      BY <2>1
  <1>4. CASE ReadFails \/ CloseWith \/ PingFails \/ WriteTimesOut \/ IdleTimeout \/ CloseReturns
    BY <1>4 DEF ReadFails, CloseWith, PingFails, WriteTimesOut, IdleTimeout, CloseReturns
  <1>5. CASE Shutdown
    BY <1>5 DEF Shutdown
  <1>6. CASE ReaderReturns
    BY <1>6 DEF ReaderReturns, Disconnect
  <1>7. ASSUME NEW c \in Creates, RunnerEnds(c) \/ StopAborts(c) PROVE Snapshots'
    BY <1>7 DEF RunnerEnds, StopAborts
  <1>8. ASSUME NEW c \in Creates, StopDisconnects(c) PROVE Snapshots'
    BY <1>8 DEF StopDisconnects, Disconnect
  <1>9. CASE StopWarm
    BY <1>9 DEF StopWarm
  <1>10. CASE StopActive
    BY <1>10 DEF StopActive
  <1>11. CASE Stopped
    BY <1>11 DEF Stopped
  <1>12. CASE UNCHANGED vars
    BY <1>12
  <1> QED
    BY <1>1, <1>2, <1>3, <1>4, <1>5, <1>6, <1>7, <1>8, <1>9, <1>10, <1>11, <1>12 DEF Next

LEMMA UnbornNext ==
  ASSUME TypeOK, Unborn, [Next]_vars
  PROVE  Unborn'
  <1> USE NoneAssumption DEF Generating, TypeOK, Unborn, Early
  <1>1. ASSUME NEW c \in Creates, HandlerStep(c) \/ RelayResult(c) PROVE Unborn'
    <2>1. CASE PrepareFails(c) \/ WarmFails(c) \/ StreamContinues(c) \/ OpenFails(c)
               \/ RelayCancelled(c)
      BY <1>1, <2>1 DEF PrepareFails, Fail, Goto, WarmFails, StreamContinues, OpenFails,
         RelayCancelled
    <2>2. CASE EarlyFrameFails(c) \/ ReleaseSlot(c) \/ WriteFrame(c) \/ WriteFails(c)
               \/ RelayResult(c)
      BY <1>1, <2>2 DEF EarlyFrameFails, Goto, ReleaseSlot, WriteFrame, WriteFails, RelayResult,
         Fail
    <2>3. CASE Finish(c)
      BY <1>1, <2>3 DEF Finish, Goto
    <2>4. CASE WarmResponse(c) \/ OpenSession(c)
      BY <1>1, <2>4 DEF WarmResponse, Goto, OpenSession
    <2>5. CASE UseWarm(c)
      BY <1>1, <2>5 DEF UseWarm, Goto
    <2>6. CASE StartRunner(c)
      BY <1>1, <2>6 DEF StartRunner, Fail, Goto
    <2>7. CASE TrackWarmSession(c)
      BY <1>1, <2>7 DEF TrackWarmSession, Disconnect, Fail, Goto
    <2>8. CASE SaveFails(c)
      BY <1>1, <2>8 DEF SaveFails, Disconnect, Fail, Goto
    <2>9. CASE StreamFails(c) \/ SkipWarm(c)
      BY <1>1, <2>9 DEF StreamFails, Disconnect, Fail, Goto, SkipWarm
    <2>10. CASE PrepareWarm(c)
      BY <1>1, <2>10 DEF PrepareWarm, ReplaceWarm, Disconnect, Goto
    <2>11. CASE Install(c)
      BY <1>1, <2>11 DEF Install, ReplaceWarm, Disconnect, Goto
    <2>12. CASE DropWarm(c)
      BY <1>1, <2>12 DEF DropWarm, ReplaceWarm, Disconnect, Goto
    <2>13. CASE TakeWarm(c)
      BY <1>1, <2>13 DEF TakeWarm, ReplaceWarm, Disconnect, Goto
    <2>14. CASE HandlerClosed(c)
      BY <1>1, <2>14 DEF HandlerClosed, ReplaceWarm, Disconnect, Goto
    <2> QED
      BY <1>1, <2>1, <2>2, <2>3, <2>4, <2>5, <2>6, <2>7, <2>8, <2>9, <2>10, <2>11, <2>12, <2>13,
         <2>14 DEF HandlerStep
  <1>2. ASSUME NEW c \in Creates, NEW g \in BOOLEAN, NEW p \in Known(c), Receive(c, g, p) PROVE Unborn'
    BY <1>2 DEF Receive, Goto
  <1>3. CASE PeerLeaves
    <2>1. UNCHANGED <<stateVars, h, hold, warmVars, run, serverVars>> /\ UNCHANGED conn /\ (broken => broken')
      BY <1>3, Zenon DEF PeerLeaves, TypeOK
    <2> QED
      BY <2>1
  <1>4. CASE ReadFails \/ CloseWith \/ PingFails \/ WriteTimesOut \/ IdleTimeout \/ CloseReturns
    BY <1>4 DEF ReadFails, CloseWith, PingFails, WriteTimesOut, IdleTimeout, CloseReturns
  <1>5. CASE Shutdown
    BY <1>5 DEF Shutdown
  <1>6. CASE ReaderReturns
    BY <1>6 DEF ReaderReturns, Disconnect
  <1>7. ASSUME NEW c \in Creates, RunnerEnds(c) \/ StopAborts(c) PROVE Unborn'
    BY <1>7 DEF RunnerEnds, StopAborts
  <1>8. ASSUME NEW c \in Creates, StopDisconnects(c) PROVE Unborn'
    BY <1>8 DEF StopDisconnects, Disconnect
  <1>9. CASE StopWarm
    BY <1>9 DEF StopWarm
  <1>10. CASE StopActive \/ Stopped
    BY <1>10 DEF StopActive, Stopped
  <1>11. CASE UNCHANGED vars
    BY <1>11
  <1> QED
    BY <1>1, <1>2, <1>3, <1>4, <1>5, <1>6, <1>7, <1>8, <1>9, <1>10, <1>11 DEF Next

LEMMA WarmHeldNext ==
  ASSUME TypeOK, WarmHeld, [Next]_vars
  PROVE  WarmHeld'
  <1> USE NoneAssumption DEF Generating, TypeOK, WarmHeld
  <1>1. ASSUME NEW c \in Creates, HandlerStep(c) \/ RelayResult(c) PROVE WarmHeld'
    <2>1. CASE PrepareFails(c) \/ WarmFails(c) \/ StreamContinues(c) \/ OpenFails(c)
               \/ RelayCancelled(c)
      BY <1>1, <2>1 DEF PrepareFails, Fail, Goto, WarmFails, StreamContinues, OpenFails,
         RelayCancelled
    <2>2. CASE EarlyFrameFails(c) \/ ReleaseSlot(c) \/ WriteFrame(c) \/ WriteFails(c)
               \/ RelayResult(c)
      BY <1>1, <2>2 DEF EarlyFrameFails, Goto, ReleaseSlot, WriteFrame, WriteFails, RelayResult,
         Fail
    <2>3. CASE Finish(c)
      BY <1>1, <2>3 DEF Finish, Goto
    <2>4. CASE WarmResponse(c) \/ OpenSession(c)
      BY <1>1, <2>4 DEF WarmResponse, Goto, OpenSession
    <2>5. CASE UseWarm(c)
      BY <1>1, <2>5 DEF UseWarm, Goto
    <2>6. CASE StartRunner(c)
      BY <1>1, <2>6 DEF StartRunner, Fail, Goto
    <2>7. CASE TrackWarmSession(c)
      BY <1>1, <2>7 DEF TrackWarmSession, Disconnect, Fail, Goto
    <2>8. CASE SaveFails(c)
      BY <1>1, <2>8 DEF SaveFails, Disconnect, Fail, Goto
    <2>9. CASE StreamFails(c) \/ SkipWarm(c)
      BY <1>1, <2>9 DEF StreamFails, Disconnect, Fail, Goto, SkipWarm
    <2>10. CASE PrepareWarm(c)
      BY <1>1, <2>10 DEF PrepareWarm, ReplaceWarm, Disconnect, Goto
    <2>11. CASE Install(c)
      BY <1>1, <2>11 DEF Install, ReplaceWarm, Disconnect, Goto
    <2>12. CASE DropWarm(c)
      BY <1>1, <2>12 DEF DropWarm, ReplaceWarm, Disconnect, Goto
    <2>13. CASE TakeWarm(c)
      BY <1>1, <2>13 DEF TakeWarm, ReplaceWarm, Disconnect, Goto
    <2>14. CASE HandlerClosed(c)
      BY <1>1, <2>14 DEF HandlerClosed, ReplaceWarm, Disconnect, Goto
    <2> QED
      BY <1>1, <2>1, <2>2, <2>3, <2>4, <2>5, <2>6, <2>7, <2>8, <2>9, <2>10, <2>11, <2>12, <2>13,
         <2>14 DEF HandlerStep
  <1>2. ASSUME NEW c \in Creates, NEW g \in BOOLEAN, NEW p \in Known(c), Receive(c, g, p) PROVE WarmHeld'
    BY <1>2 DEF Receive, Goto
  <1>3. CASE PeerLeaves
    <2>1. UNCHANGED <<stateVars, h, hold, warmVars, run, serverVars>> /\ UNCHANGED conn /\ (broken => broken')
      BY <1>3, Zenon DEF PeerLeaves, TypeOK
    <2> QED
      BY <2>1
  <1>4. CASE ReadFails \/ CloseWith \/ PingFails \/ WriteTimesOut \/ IdleTimeout \/ CloseReturns
    BY <1>4 DEF ReadFails, CloseWith, PingFails, WriteTimesOut, IdleTimeout, CloseReturns
  <1>5. CASE Shutdown
    BY <1>5 DEF Shutdown
  <1>6. CASE ReaderReturns
    BY <1>6 DEF ReaderReturns, Disconnect
  <1>7. ASSUME NEW c \in Creates, RunnerEnds(c) \/ StopAborts(c) PROVE WarmHeld'
    BY <1>7 DEF RunnerEnds, StopAborts
  <1>8. ASSUME NEW c \in Creates, StopDisconnects(c) PROVE WarmHeld'
    BY <1>8 DEF StopDisconnects, Disconnect
  <1>9. CASE StopWarm
    BY <1>9 DEF StopWarm
  <1>10. CASE StopActive \/ Stopped
    BY <1>10 DEF StopActive, Stopped
  <1>11. CASE UNCHANGED vars
    BY <1>11
  <1> QED
    BY <1>1, <1>2, <1>3, <1>4, <1>5, <1>6, <1>7, <1>8, <1>9, <1>10, <1>11 DEF Next

LEMMA WarmAccountedNext ==
  ASSUME TypeOK, Unborn, Snapshots, WarmAccounted, [Next]_vars
  PROVE  WarmAccounted'
  <1> USE NoneAssumption DEF Generating, TypeOK, Unborn, Early, Snapshots, WarmAccounted
  <1>1. ASSUME NEW c \in Creates, HandlerStep(c) \/ RelayResult(c) PROVE WarmAccounted'
    <2>1. CASE PrepareFails(c) \/ WarmFails(c) \/ StreamContinues(c) \/ OpenFails(c)
               \/ RelayCancelled(c)
      BY <1>1, <2>1 DEF PrepareFails, Fail, Goto, WarmFails, StreamContinues, OpenFails,
         RelayCancelled
    <2>2. CASE EarlyFrameFails(c) \/ ReleaseSlot(c) \/ WriteFrame(c) \/ WriteFails(c)
               \/ RelayResult(c)
      BY <1>1, <2>2 DEF EarlyFrameFails, Goto, ReleaseSlot, WriteFrame, WriteFails, RelayResult,
         Fail
    <2>3. CASE Finish(c)
      BY <1>1, <2>3 DEF Finish, Goto
    <2>4. CASE WarmResponse(c) \/ OpenSession(c)
      BY <1>1, <2>4 DEF WarmResponse, Goto, OpenSession
    <2>5. CASE UseWarm(c)
      BY <1>1, <2>5 DEF UseWarm, Goto
    <2>6. CASE StartRunner(c)
      BY <1>1, <2>6 DEF StartRunner, Fail, Goto
    <2>7. CASE TrackWarmSession(c)
      BY <1>1, <2>7 DEF TrackWarmSession, Disconnect, Fail, Goto
    <2>8. CASE SaveFails(c)
      BY <1>1, <2>8 DEF SaveFails, Disconnect, Fail, Goto
    <2>9. CASE StreamFails(c) \/ SkipWarm(c)
      BY <1>1, <2>9 DEF StreamFails, Disconnect, Fail, Goto, SkipWarm
    <2>10. CASE PrepareWarm(c)
      BY <1>1, <2>10 DEF PrepareWarm, ReplaceWarm, Disconnect, Goto
    <2>11. CASE Install(c)
      BY <1>1, <2>11 DEF Install, ReplaceWarm, Disconnect, Goto
    <2>12. CASE DropWarm(c)
      BY <1>1, <2>12 DEF DropWarm, ReplaceWarm, Disconnect, Goto
    <2>13. CASE TakeWarm(c)
      BY <1>1, <2>13 DEF TakeWarm, ReplaceWarm, Disconnect, Goto
    <2>14. CASE HandlerClosed(c)
      BY <1>1, <2>14 DEF HandlerClosed, ReplaceWarm, Disconnect, Goto
    <2> QED
      BY <1>1, <2>1, <2>2, <2>3, <2>4, <2>5, <2>6, <2>7, <2>8, <2>9, <2>10, <2>11, <2>12, <2>13,
         <2>14 DEF HandlerStep
  <1>2. ASSUME NEW c \in Creates, NEW g \in BOOLEAN, NEW p \in Known(c), Receive(c, g, p) PROVE WarmAccounted'
    BY <1>2 DEF Receive, Goto
  <1>3. CASE PeerLeaves
    <2>1. UNCHANGED <<stateVars, h, hold, warmVars, run, serverVars>> /\ UNCHANGED conn /\ (broken => broken')
      BY <1>3, Zenon DEF PeerLeaves, TypeOK
    <2> QED
      BY <2>1
  <1>4. CASE ReadFails \/ CloseWith \/ PingFails \/ WriteTimesOut \/ IdleTimeout \/ CloseReturns
    BY <1>4 DEF ReadFails, CloseWith, PingFails, WriteTimesOut, IdleTimeout, CloseReturns
  <1>5. CASE Shutdown
    BY <1>5 DEF Shutdown
  <1>6. CASE ReaderReturns
    BY <1>6 DEF ReaderReturns, Disconnect
  <1>7. ASSUME NEW c \in Creates, RunnerEnds(c) \/ StopAborts(c) PROVE WarmAccounted'
    BY <1>7 DEF RunnerEnds, StopAborts
  <1>8. ASSUME NEW c \in Creates, StopDisconnects(c) PROVE WarmAccounted'
    BY <1>8 DEF StopDisconnects, Disconnect
  <1>9. CASE StopWarm
    BY <1>9 DEF StopWarm
  <1>10. CASE StopActive \/ Stopped
    BY <1>10 DEF StopActive, Stopped
  <1>11. CASE UNCHANGED vars
    BY <1>11
  <1> QED
    BY <1>1, <1>2, <1>3, <1>4, <1>5, <1>6, <1>7, <1>8, <1>9, <1>10, <1>11 DEF Next

LEMMA SlotFreedNext ==
  ASSUME TypeOK, SlotFreedWithFrame, [Next]_vars
  PROVE  SlotFreedWithFrame'
  <1> USE NoneAssumption DEF Generating, TypeOK, SlotFreedWithFrame
  <1>1. ASSUME NEW c \in Creates, HandlerStep(c) \/ RelayResult(c) PROVE SlotFreedWithFrame'
    <2>1. CASE PrepareFails(c) \/ WarmFails(c) \/ StreamContinues(c) \/ OpenFails(c)
               \/ RelayCancelled(c)
      BY <1>1, <2>1 DEF PrepareFails, Fail, Goto, WarmFails, StreamContinues, OpenFails,
         RelayCancelled
    <2>2. CASE EarlyFrameFails(c) \/ ReleaseSlot(c) \/ WriteFrame(c) \/ WriteFails(c)
               \/ RelayResult(c)
      BY <1>1, <2>2 DEF EarlyFrameFails, Goto, ReleaseSlot, WriteFrame, WriteFails, RelayResult,
         Fail
    <2>3. CASE Finish(c)
      BY <1>1, <2>3 DEF Finish, Goto
    <2>4. CASE WarmResponse(c) \/ OpenSession(c)
      BY <1>1, <2>4 DEF WarmResponse, Goto, OpenSession
    <2>5. CASE UseWarm(c)
      BY <1>1, <2>5 DEF UseWarm, Goto
    <2>6. CASE StartRunner(c)
      BY <1>1, <2>6 DEF StartRunner, Fail, Goto
    <2>7. CASE TrackWarmSession(c)
      BY <1>1, <2>7 DEF TrackWarmSession, Disconnect, Fail, Goto
    <2>8. CASE SaveFails(c)
      BY <1>1, <2>8 DEF SaveFails, Disconnect, Fail, Goto
    <2>9. CASE StreamFails(c) \/ SkipWarm(c)
      BY <1>1, <2>9 DEF StreamFails, Disconnect, Fail, Goto, SkipWarm
    <2>10. CASE PrepareWarm(c)
      BY <1>1, <2>10 DEF PrepareWarm, ReplaceWarm, Disconnect, Goto
    <2>11. CASE Install(c)
      BY <1>1, <2>11 DEF Install, ReplaceWarm, Disconnect, Goto
    <2>12. CASE DropWarm(c)
      BY <1>1, <2>12 DEF DropWarm, ReplaceWarm, Disconnect, Goto
    <2>13. CASE TakeWarm(c)
      BY <1>1, <2>13 DEF TakeWarm, ReplaceWarm, Disconnect, Goto
    <2>14. CASE HandlerClosed(c)
      BY <1>1, <2>14 DEF HandlerClosed, ReplaceWarm, Disconnect, Goto
    <2> QED
      BY <1>1, <2>1, <2>2, <2>3, <2>4, <2>5, <2>6, <2>7, <2>8, <2>9, <2>10, <2>11, <2>12, <2>13,
         <2>14 DEF HandlerStep
  <1>2. ASSUME NEW c \in Creates, NEW g \in BOOLEAN, NEW p \in Known(c), Receive(c, g, p) PROVE SlotFreedWithFrame'
    BY <1>2 DEF Receive, Goto
  <1>3. CASE PeerLeaves
    <2>1. UNCHANGED <<stateVars, h, hold, warmVars, run, serverVars>> /\ UNCHANGED conn /\ (broken => broken')
      BY <1>3, Zenon DEF PeerLeaves, TypeOK
    <2> QED
      BY <2>1
  <1>4. CASE ReadFails \/ CloseWith \/ PingFails \/ WriteTimesOut \/ IdleTimeout \/ CloseReturns
    BY <1>4 DEF ReadFails, CloseWith, PingFails, WriteTimesOut, IdleTimeout, CloseReturns
  <1>5. CASE Shutdown
    BY <1>5 DEF Shutdown
  <1>6. CASE ReaderReturns
    BY <1>6 DEF ReaderReturns, Disconnect
  <1>7. ASSUME NEW c \in Creates, RunnerEnds(c) \/ StopAborts(c) PROVE SlotFreedWithFrame'
    BY <1>7 DEF RunnerEnds, StopAborts
  <1>8. ASSUME NEW c \in Creates, StopDisconnects(c) PROVE SlotFreedWithFrame'
    BY <1>8 DEF StopDisconnects, Disconnect
  <1>9. CASE StopWarm
    BY <1>9 DEF StopWarm
  <1>10. CASE StopActive \/ Stopped
    BY <1>10 DEF StopActive, Stopped
  <1>11. CASE UNCHANGED vars
    BY <1>11
  <1> QED
    BY <1>1, <1>2, <1>3, <1>4, <1>5, <1>6, <1>7, <1>8, <1>9, <1>10, <1>11 DEF Next

----------------------------------------------------------------------------
(* The end of the connection.                                                *)

LEMMA NobodyBusy ==
  ASSUME TypeInv, wg = 0
  PROVE  \A c \in Creates : h[c] \in {"idle", "done"}
  <1>1. IsFiniteSet(Busy) /\ Cardinality(Busy) = 0
    BY DEF TypeInv, Counted
  <1>2. Busy = {}
    BY <1>1, FS_EmptySet
  <1> QED
    BY <1>2 DEF Busy

\* A handler step is the step of a handler that runs.
LEMMA StepIsBusy ==
  ASSUME NEW c \in Creates, HandlerStep(c) \/ RelayResult(c)
  PROVE  h[c] \notin {"idle", "done"}
  BY DEF HandlerStep, PrepareFails, PrepareWarm, WarmResponse, WarmFails, SaveFails,
     TrackWarmSession, Install,
         TakeWarm, DropWarm, StreamFails, StreamContinues, UseWarm, SkipWarm, OpenSession, OpenFails, StartRunner,
         RelayResult, RelayCancelled, EarlyFrameFails, ReleaseSlot, WriteFrame, WriteFails, HandlerClosed, Finish

\* Only the read loop itself moves its program counter.
LEMMA ReaderFrame ==
  ASSUME NEW c \in Creates, HandlerStep(c) \/ RelayResult(c)
  PROVE  reader' = reader
  BY DEF HandlerStep, PrepareFails, PrepareWarm, WarmResponse, WarmFails, SaveFails,
     TrackWarmSession, Install,
         TakeWarm, DropWarm, StreamFails, StreamContinues, UseWarm, SkipWarm, OpenSession, OpenFails, StartRunner,
         RelayResult, RelayCancelled, EarlyFrameFails, ReleaseSlot, WriteFrame, WriteFails, HandlerClosed, Finish

LEMMA ReturnIsFinalNext ==
  ASSUME TypeInv, WarmHeld, ReturnIsFinal, [Next]_vars
  PROVE  ReturnIsFinal'
  <1> USE NoneAssumption DEF ReturnIsFinal, TypeInv, TypeOK
  <1>1. ASSUME NEW c \in Creates, HandlerStep(c) \/ RelayResult(c) PROVE ReturnIsFinal'
    <2>1. reader # "returned"
      BY <1>1, StepIsBusy
    <2> QED
      BY <1>1, <2>1, ReaderFrame
  <1>2. CASE ReaderReturns
    <2>1. \A c \in Creates : h[c] \in {"idle", "done"}
      BY <1>2, NobodyBusy DEF ReaderReturns
    <2>2. \A c \in Creates : sess[c] = "live" => warm = c
      BY <2>1 DEF WarmHeld
    <2>3. \A c \in Creates : sess'[c] # "live"
      BY <1>2, <2>2 DEF ReaderReturns, Disconnect
    <2> QED
      BY <1>2, <2>1, <2>3 DEF ReaderReturns
  <1>3. ASSUME NEW c \in Creates, NEW g \in BOOLEAN, NEW p \in Known(c), Receive(c, g, p) PROVE ReturnIsFinal'
    BY <1>3 DEF Receive
  <1>4. CASE PeerLeaves \/ ReadFails
    BY <1>4 DEF PeerLeaves, ReadFails
  <1>5. CASE CloseWith \/ PingFails \/ WriteTimesOut \/ IdleTimeout \/ CloseReturns \/ Shutdown
    BY <1>5 DEF CloseWith, PingFails, WriteTimesOut, IdleTimeout, CloseReturns, Shutdown
  <1>6. ASSUME NEW c \in Creates, RunnerEnds(c) \/ StopAborts(c) PROVE ReturnIsFinal'
    BY <1>6 DEF RunnerEnds, StopAborts
  <1>7. ASSUME NEW c \in Creates, StopDisconnects(c) PROVE ReturnIsFinal'
    BY <1>7 DEF StopDisconnects, Disconnect
  <1>8. CASE StopWarm \/ StopActive \/ Stopped
    BY <1>8 DEF StopWarm, StopActive, Stopped
  <1>9. CASE UNCHANGED vars
    BY <1>9
  <1> QED
    BY <1>1, <1>2, <1>3, <1>4, <1>5, <1>6, <1>7, <1>8, <1>9 DEF Next

----------------------------------------------------------------------------
(* The theorems.                                                             *)

IInv == TypeInv /\ Snapshots /\ Unborn /\ WarmHeld /\ WarmAccounted /\ ReturnIsFinal

LEMMA Inductive == Spec => []IInv
  <1>1. Init => IInv
    <2> SUFFICES ASSUME Init PROVE IInv
      OBVIOUS
    <2>1. TypeInv
      BY TypeInvInit
    <2>2. Snapshots /\ Unborn
      BY NoneAssumption DEF Init, Snapshots, Unborn, Early
    <2>3. WarmHeld /\ WarmAccounted /\ ReturnIsFinal
      BY DEF Init, WarmHeld, WarmAccounted, ReturnIsFinal
    <2> QED
      BY <2>1, <2>2, <2>3 DEF IInv
  <1>2. IInv /\ [Next]_vars => IInv'
    <2> SUFFICES ASSUME IInv, [Next]_vars PROVE IInv'
      OBVIOUS
    <2>1. TypeInv' /\ TypeOK
      BY TypeInvNext DEF IInv, TypeInv
    <2>2. Snapshots' /\ Unborn'
      BY <2>1, SnapshotsNext, UnbornNext DEF IInv
    <2>3. WarmHeld' /\ WarmAccounted'
      BY <2>1, WarmHeldNext, WarmAccountedNext DEF IInv
    <2>4. ReturnIsFinal'
      BY ReturnIsFinalNext DEF IInv
    <2> QED
      BY <2>1, <2>2, <2>3, <2>4 DEF IInv
  <1> QED
    BY <1>1, <1>2, PTL DEF Spec

\* The connection never loses a warm session it has primed (replaceWarm,
\* takeWarm, close, and the handlers between them).
THEOREM WarmIsHeld == Spec => []WarmHeld
  <1>1. IInv => WarmHeld
    BY DEF IInv
  <1> QED
    BY <1>1, Inductive, PTL

\* Nor does the gateway: a live one is in the registry or in Stop's snapshot, and
\* one a runner has is in neither (warmSessionRegistry.add, release, drain).
THEOREM WarmIsAccounted == Spec => []WarmAccounted
  <1>1. IInv => WarmAccounted
    BY DEF IInv
  <1> QED
    BY <1>1, Inductive, PTL

\* When responsesWebSocket returns none of its handlers runs, and it leaves no
\* warm session behind (state.shutdown).
THEOREM ReturnCleansUp == Spec => []ReturnIsFinal
  <1>1. IInv => ReturnIsFinal
    BY DEF IInv
  <1> QED
    BY <1>1, Inductive, PTL

\* When RealGateway.Stop is done no runner runs and no warm session lives that
\* its maker will not end.
THEOREM StopIsComplete == Spec => []StopEndsAll
  <1>1. IInv => StopEndsAll
    BY DEF IInv, TypeInv, TypeOK, Snapshots, WarmAccounted, StopEndsAll
  <1> QED
    BY <1>1, Inductive, PTL

\* The client never sees the last frame of a response before the slot is free
\* (webSocketEventSink's beforeTerminal, and finish).
THEOREM SlotFreed == Spec => []SlotFreedWithFrame
  <1>1. Init => SlotFreedWithFrame
    BY DEF Init, SlotFreedWithFrame
  <1>2. TypeOK /\ SlotFreedWithFrame /\ [Next]_vars => SlotFreedWithFrame'
    BY SlotFreedNext
  <1> QED
    BY <1>1, <1>2, TypeCorrect, PTL DEF Spec

----------------------------------------------------------------------------
(* The warm session the client is told of.                                   *)

\* As long as no create was accepted too early, only the last one generates.
OnlyLast == ~overlap => \A c \in Creates : h[c] \in Generating => c = last

SeenDone == \A c \in seen : h[c] \in {"finish", "done"}

\* Which requests reach the relay, and what ended them there.
KindOK ==
    \A c \in Creates :
        /\ h[c] \in {"start", "drop", "resume", "started", "relay"} => generate[c]
        /\ h[c] = "closing" => generate[c] \/ broken

OpenWhileRead == closed => reader = "returned"

\* Once the last create's terminal frame is being written, or was, no other one
\* writes, and none that made a warm session waits for closeWith.
LastWrites ==
    ~overlap /\ last # None =>
        \A c \in Creates \ {last} :
            /\ h[last] = "write" \/ last \in seen => h[c] # "write"
            /\ last \in seen /\ h[c] = "closing" => generate[c]

OrderInv == OnlyLast /\ SeenDone /\ KindOK /\ OpenWhileRead /\ LastWrites

\* The warm session is in place before its frame can go out.
FramedInPlace ==
    /\ last # None /\ ~generate[last] /\ out[last] = "completed" /\ ~overlap
    /\ reader = "reading"
    /\ last \in seen \/ (h[last] \in {"frame", "write"} /\ ~broken)
    => warm = last

LEMMA OrderNext ==
  ASSUME TypeOK, OrderInv, [Next]_vars
  PROVE  OrderInv'
  <1> USE NoneAssumption DEF Generating, TypeOK, OrderInv, OnlyLast, SeenDone, KindOK, OpenWhileRead, LastWrites
  <1>1. ASSUME NEW c \in Creates, HandlerStep(c) \/ RelayResult(c) PROVE OrderInv'
    <2>1. CASE PrepareFails(c) \/ WarmFails(c) \/ OpenFails(c)
      BY <2>1 DEF PrepareFails, WarmFails, OpenFails, Fail, Goto
    <2>2. CASE WarmResponse(c) \/ OpenSession(c)
      BY <2>2 DEF WarmResponse, OpenSession, Goto
    <2>3. CASE StreamContinues(c) \/ UseWarm(c)
      BY <2>3 DEF StreamContinues, UseWarm, Goto
    <2>4. CASE SaveFails(c) \/ TrackWarmSession(c)
      BY <2>4 DEF SaveFails, TrackWarmSession, Disconnect, Fail, Goto
    <2>5. CASE StreamFails(c) \/ SkipWarm(c)
      BY <2>5 DEF StreamFails, SkipWarm, Disconnect, Fail, Goto
    <2>6. CASE StartRunner(c)
      BY <2>6 DEF StartRunner, Fail, Goto
    <2>7. CASE RelayResult(c)
      BY <2>7 DEF RelayResult, Fail, Goto
    <2>8. CASE PrepareWarm(c)
      BY <2>8 DEF PrepareWarm, ReplaceWarm, Goto
    <2>9. CASE Install(c)
      BY <2>9 DEF Install, ReplaceWarm, Goto
    <2>10. CASE DropWarm(c)
      BY <2>10 DEF DropWarm, ReplaceWarm, Goto
    <2>11. CASE TakeWarm(c)
      BY <2>11 DEF TakeWarm, ReplaceWarm, Goto
    <2>12. CASE RelayCancelled(c)
      BY <2>12 DEF RelayCancelled, Goto
    <2>13. CASE EarlyFrameFails(c)
      BY <2>13 DEF EarlyFrameFails, Goto
    <2>14. CASE ReleaseSlot(c)
      BY <2>14 DEF ReleaseSlot, Goto
    <2>15. CASE WriteFrame(c)
      BY <2>15 DEF WriteFrame, Goto
    <2>16. CASE WriteFails(c)
      BY <2>16 DEF WriteFails, Goto
    <2>17. CASE HandlerClosed(c)
      BY <2>17 DEF HandlerClosed, ReplaceWarm, Goto
    <2>18. CASE Finish(c)
      BY <2>18 DEF Finish, Goto
    <2> QED
      BY <1>1, <2>1, <2>2, <2>3, <2>4, <2>5, <2>6, <2>7, <2>8, <2>9, <2>10, <2>11, <2>12, <2>13,
         <2>14, <2>15, <2>16, <2>17, <2>18 DEF HandlerStep
  <1>2. ASSUME NEW c \in Creates, NEW g \in BOOLEAN, NEW p \in Known(c), Receive(c, g, p)
        PROVE  OrderInv'
    BY <1>2 DEF Receive, Goto
  <1>3. ASSUME UNCHANGED <<h, generate, out, seen, last, overlap, warm, closed>>, broken => broken',
               reader' = reader \/ (reader' = "closing" /\ reader = "reading")
        PROVE  OrderInv'
    BY <1>3
  <1>4. CASE ReaderReturns
    BY <1>4 DEF ReaderReturns
  <1>5. CASE PeerLeaves
    <2>1. broken => broken'
      BY <1>5, Zenon DEF PeerLeaves
    <2> QED
      BY <1>3, <1>5, <2>1 DEF PeerLeaves
  <1>6. CASE ReadFails \/ CloseWith \/ PingFails \/ WriteTimesOut \/ IdleTimeout \/ CloseReturns \/ Shutdown
    BY <1>3, <1>6 DEF ReadFails, CloseWith, PingFails, WriteTimesOut, IdleTimeout, CloseReturns, Shutdown
  <1>7. ASSUME NEW c \in Creates, RunnerEnds(c) \/ StopAborts(c) \/ StopDisconnects(c)
        PROVE  OrderInv'
    BY <1>3, <1>7 DEF RunnerEnds, StopAborts, StopDisconnects
  <1>8. CASE StopWarm \/ StopActive \/ Stopped
    BY <1>3, <1>8 DEF StopWarm, StopActive, Stopped
  <1>9. CASE UNCHANGED vars
    BY <1>3, <1>9
  <1> QED
    BY <1>1, <1>2, <1>4, <1>5, <1>6, <1>7, <1>8, <1>9 DEF Next

\* What would take it away is the work of another create, or follows a frame that
\* did not go out.
LEMMA FramedInPlaceNext ==
  ASSUME TypeOK, OrderInv, FramedInPlace, [Next]_vars
  PROVE  FramedInPlace'
  <1> USE NoneAssumption DEF Generating, TypeOK, OrderInv, OnlyLast, SeenDone, KindOK, OpenWhileRead, LastWrites, FramedInPlace
  <1>1. ASSUME NEW c \in Creates, HandlerStep(c) \/ RelayResult(c) PROVE FramedInPlace'
    <2>1. CASE PrepareFails(c) \/ WarmFails(c) \/ OpenFails(c)
      BY <2>1 DEF PrepareFails, WarmFails, OpenFails, Fail, Goto
    <2>2. CASE WarmResponse(c) \/ OpenSession(c)
      BY <2>2 DEF WarmResponse, OpenSession, Goto
    <2>3. CASE StreamContinues(c) \/ UseWarm(c)
      BY <2>3 DEF StreamContinues, UseWarm, Goto
    <2>4. CASE SaveFails(c) \/ TrackWarmSession(c)
      BY <2>4 DEF SaveFails, TrackWarmSession, Disconnect, Fail, Goto
    <2>5. CASE StreamFails(c) \/ SkipWarm(c)
      BY <2>5 DEF StreamFails, SkipWarm, Disconnect, Fail, Goto
    <2>6. CASE StartRunner(c)
      BY <2>6 DEF StartRunner, Fail, Goto
    <2>7. CASE RelayResult(c)
      BY <2>7 DEF RelayResult, Fail, Goto
    <2>8. CASE PrepareWarm(c)
      BY <2>8 DEF PrepareWarm, ReplaceWarm, Goto
    <2>9. CASE Install(c)
      BY <2>9 DEF Install, ReplaceWarm, Goto
    <2>10. CASE DropWarm(c)
      BY <2>10 DEF DropWarm, ReplaceWarm, Goto
    <2>11. CASE TakeWarm(c)
      BY <2>11 DEF TakeWarm, ReplaceWarm, Goto
    <2>12. CASE RelayCancelled(c)
      BY <2>12 DEF RelayCancelled, Goto
    <2>13. CASE EarlyFrameFails(c)
      BY <2>13 DEF EarlyFrameFails, Goto
    <2>14. CASE ReleaseSlot(c)
      BY <2>14 DEF ReleaseSlot, Goto
    <2>15. CASE WriteFrame(c)
      BY <2>15 DEF WriteFrame, Goto
    <2>16. CASE WriteFails(c)
      BY <2>16 DEF WriteFails, Goto
    <2>17. CASE HandlerClosed(c)
      BY <2>17 DEF HandlerClosed, ReplaceWarm, Goto
    <2>18. CASE Finish(c)
      BY <2>18 DEF Finish, Goto
    <2> QED
      BY <1>1, <2>1, <2>2, <2>3, <2>4, <2>5, <2>6, <2>7, <2>8, <2>9, <2>10, <2>11, <2>12, <2>13,
         <2>14, <2>15, <2>16, <2>17, <2>18 DEF HandlerStep
  <1>2. ASSUME NEW c \in Creates, NEW g \in BOOLEAN, NEW p \in Known(c), Receive(c, g, p)
        PROVE  FramedInPlace'
    BY <1>2 DEF Receive, Goto
  <1>3. ASSUME UNCHANGED <<h, generate, out, seen, last, overlap, warm, closed>>, broken => broken',
               reader' = reader \/ (reader' = "closing" /\ reader = "reading")
        PROVE  FramedInPlace'
    BY <1>3
  <1>4. CASE ReaderReturns
    BY <1>4 DEF ReaderReturns
  <1>5. CASE PeerLeaves
    <2>1. broken => broken'
      BY <1>5, Zenon DEF PeerLeaves
    <2> QED
      BY <1>3, <1>5, <2>1 DEF PeerLeaves
  <1>6. CASE ReadFails \/ CloseWith \/ PingFails \/ WriteTimesOut \/ IdleTimeout \/ CloseReturns \/ Shutdown
    BY <1>3, <1>6 DEF ReadFails, CloseWith, PingFails, WriteTimesOut, IdleTimeout, CloseReturns, Shutdown
  <1>7. ASSUME NEW c \in Creates, RunnerEnds(c) \/ StopAborts(c) \/ StopDisconnects(c)
        PROVE  FramedInPlace'
    BY <1>3, <1>7 DEF RunnerEnds, StopAborts, StopDisconnects
  <1>8. CASE StopWarm \/ StopActive \/ Stopped
    BY <1>3, <1>8 DEF StopWarm, StopActive, Stopped
  <1>9. CASE UNCHANGED vars
    BY <1>3, <1>9
  <1> QED
    BY <1>1, <1>2, <1>4, <1>5, <1>6, <1>7, <1>8, <1>9 DEF Next

\* A client that reads the last frame of a warm response finds the warm session
\* in place, and it stays until the next create (Install before the terminal
\* frame; takeWarm; the clean-up behind a frame that failed).
THEOREM WarmIsInPlace == Spec => []WarmInPlace
  <1>1. Init => OrderInv /\ FramedInPlace
    BY DEF Init, OrderInv, OnlyLast, SeenDone, KindOK, OpenWhileRead, LastWrites, FramedInPlace,
           Generating
  <1>2. TypeOK /\ (OrderInv /\ FramedInPlace) /\ [Next]_vars => (OrderInv /\ FramedInPlace)'
    BY OrderNext, FramedInPlaceNext
  <1>3. FramedInPlace => WarmInPlace
    BY DEF FramedInPlace, WarmInPlace
  <1> QED
    BY <1>1, <1>2, <1>3, TypeCorrect, PTL DEF Spec
=============================================================================
