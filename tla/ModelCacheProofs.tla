-------------------------- MODULE ModelCacheProofs --------------------------
(* Proofs about ModelCache, for any finite set of callers and any models.    *)
EXTENDS ModelCache, FiniteSetTheorems, WellFoundedInduction, TLAPS

USE DEF vars

Places == {"new", "ensure", "join", "fetch", "lookup", "missed", "found", "missing", "error"}

Requests == [at : Places, id : Models \cup {None}, force : BOOLEAN, done : Channels \cup {None},
             renewed : BOOLEAN, checked : BOOLEAN]

Caches == [models : (SUBSET Models) \cup {None}, fresh : BOOLEAN, refreshing : Channels \cup {None}]

Fetches == [by : Callers \cup {None, "background"},
            phase : {"running", "answered", "failed", "closed", "left open"}, catalog : SUBSET Models]

TypeOK ==
    /\ cache \in Caches
    /\ recent \in BOOLEAN
    /\ fetch \in [Channels -> Fetches]
    /\ req \in [Callers -> Requests]
    /\ cancelled \subseteq Callers

\* A request that waits has a channel to wait for, and no other has one.
Waits == \A c \in Callers : req[c].at = "join" <=> req[c].done # None

\* What a request remembers of the fetches that succeeded: one that was renewed
\* was checked, and a forced look ends only with a fetch.
Remembers ==
    \A c \in Callers :
        /\ req[c].renewed => req[c].checked
        /\ req[c].force /\ req[c].at = "lookup" => req[c].checked

\* No channel is ever left open: the fetch that ends is the registered one.
AllClose == \A d \in Channels : fetch[d].phase # "left open"

Active(d) == fetch[d].phase \in {"running", "answered", "failed"}

\* A request whose own fetch is in flight waits for that one.
Fetching == \A d \in Channels, c \in Callers : Active(d) /\ fetch[d].by = c => req[c].at = "fetch"

CacheInv == TypeOK /\ Waits /\ Remembers /\ AllClose /\ Fetching /\ RefreshOwned

----------------------------------------------------------------------------
(* Channels.                                                                 *)

LEMMA NoneIsNoChannel == None \notin Channels
  <1>1. Channels \subseteq Nat
    BY CallersAssumption, FS_CardinalityType DEF Channels
  <1> QED
    BY <1>1, CallersAssumption

\* There are enough channels: when no refresh is in flight one can be begun. The
\* bound on Channels never holds up a fetch the code would issue.
LEMMA ChannelIsFree ==
  ASSUME CacheInv, cache.refreshing = None
  PROVE  \E d \in FreeChannels : \A e \in FreeChannels : d <= e
  <1> DEFINE n == Cardinality(Callers) + 1
  <1>1. n \in Nat /\ Cardinality(Callers) \in Nat /\ Channels = 1 .. n
    BY CallersAssumption, FS_CardinalityType DEF Channels
  <1>2. \A d \in Channels : fetch[d].phase = "closed"
    BY NoneIsNoChannel DEF CacheInv, TypeOK, Fetches, AllClose, RefreshOwned
  <1>3. FreeChannels # {}
    <2> SUFFICES ASSUME FreeChannels = {} PROVE FALSE
      OBVIOUS
    <2>1. \A d \in Channels : \E c \in Callers : req[c].done = d
      BY <1>2 DEF FreeChannels
    <2> DEFINE f == [c \in Callers |-> IF req[c].done = None THEN 1 ELSE req[c].done]
    <2>2. f \in [Callers -> Channels]
      <3>1. \A c \in Callers : req[c].done \in Channels \cup {None}
        BY DEF CacheInv, TypeOK, Requests
      <3>2. 1 \in Channels
        BY <1>1
      <3> QED
        BY <3>1, <3>2
    <2>3. \A d \in Channels : \E c \in Callers : f[c] = d
      BY <2>1, NoneIsNoChannel
    <2>4. f \in Surjection(Callers, Channels)
      BY <2>2, <2>3 DEF Surjection
    <2> HIDE DEF f
    <2>5. Cardinality(Channels) <= Cardinality(Callers)
      BY <2>4, CallersAssumption, FS_Surjection
    <2>6. Cardinality(Channels) = n
      <3>1. Cardinality(1 .. n) = IF 1 > n THEN 0 ELSE n - 1 + 1
        BY <1>1, FS_Interval
      <3> QED
        BY <1>1, <3>1
    <2> QED
      BY <1>1, <2>5, <2>6
  <1>4. FreeChannels \subseteq Nat
    BY <1>1 DEF FreeChannels
  <1>5. PICK d \in FreeChannels : \A e \in FreeChannels : <<e, d>> \notin OpToRel(<, Nat)
    BY <1>3, <1>4, NatLessThanWellFounded, WFMin
  <1>6. \A e \in FreeChannels : ~(e < d)
    BY <1>4, <1>5 DEF OpToRel
  <1> QED
    BY <1>4, <1>6

----------------------------------------------------------------------------
(* The inductive invariant.                                                  *)

LEMMA CacheInit == Init => CacheInv
  <1> SUFFICES ASSUME Init PROVE CacheInv
    OBVIOUS
  <1> USE NoneIsNoChannel, CallersAssumption
  <1>1. TypeOK
    <2>1. cache \in Caches /\ recent \in BOOLEAN /\ cancelled \subseteq Callers
      BY DEF Init, Caches
    <2>2. Unused \in Fetches /\ Request("new") \in Requests
      BY DEF Unused, Request, Fetches, Requests, Places
    <2>3. fetch \in [Channels -> Fetches] /\ req \in [Callers -> Requests]
      BY <2>2 DEF Init
    <2> QED
      BY <2>1, <2>3 DEF TypeOK
  <1>2. Waits /\ Remembers /\ AllClose /\ Fetching /\ RefreshOwned
    BY DEF Init, Request, Unused, Waits, Remembers, AllClose, Fetching, Active, RefreshOwned
  <1> QED
    BY <1>1, <1>2 DEF CacheInv

\* What becomes of a request whose place alone changes.
LEMMA GoToKeeps ==
  ASSUME CacheInv, NEW c \in Callers, NEW place \in Places, GoTo(c, place)
  PROVE  /\ req' \in [Callers -> Requests]
         /\ \A x \in Callers \ {c} : req'[x] = req[x]
         /\ req'[c].at = place /\ req'[c].force = req[c].force /\ req'[c].done = req[c].done
         /\ req'[c].renewed = req[c].renewed /\ req'[c].checked = req[c].checked
  BY DEF CacheInv, TypeOK, GoTo, Requests

LEMMA ReturnKeeps ==
  ASSUME CacheInv, NEW c \in Callers, NEW place \in Places \ {"join"}, Return(c, place)
  PROVE  /\ req' \in [Callers -> Requests]
         /\ \A x \in Callers \ {c} : req'[x] = req[x]
         /\ req'[c].at = place /\ req'[c].done = None /\ ~req'[c].force /\ ~req'[c].renewed
  BY DEF CacheInv, TypeOK, Return, Request, Requests

\* A fetch that begins is the only one.
LEMMA BeginKeeps ==
  ASSUME CacheInv, cache.refreshing = None, NEW d \in Channels, NEW by \in Callers \cup {"background"},
         Begin(d, by)
  PROVE  /\ cache' \in Caches /\ fetch' \in [Channels -> Fetches]
         /\ cache'.refreshing = d /\ fetch'[d].phase = "running" /\ fetch'[d].by = by
         /\ \A e \in Channels \ {d} : fetch'[e] = fetch[e] /\ ~Active(e)
         /\ \A c \in Callers : req[c].done # d
  <1>1. cache' \in Caches /\ cache'.refreshing = d
    BY DEF Begin, CacheInv, TypeOK, Caches
  <1>2. fetch' \in [Channels -> Fetches] /\ fetch'[d].phase = "running" /\ fetch'[d].by = by
    BY DEF Begin, CacheInv, TypeOK, Fetches
  <1>3. \A e \in Channels \ {d} : fetch'[e] = fetch[e]
    BY DEF Begin, CacheInv, TypeOK
  <1>4. \A e \in Channels : ~Active(e)
    BY NoneIsNoChannel DEF CacheInv, RefreshOwned, Active
  <1>5. \A c \in Callers : req[c].done # d
    BY DEF Begin, FreeChannels
  <1> QED
    BY <1>1, <1>2, <1>3, <1>4, <1>5

\* A step of one request that leaves every fetch and the registered one as they
\* are: the request keeps its channel, gets the registered one or gets none.
LEMMA CacheFrame ==
  ASSUME CacheInv, TypeOK', cache'.refreshing = cache.refreshing, UNCHANGED fetch,
         NEW c \in Callers, \A x \in Callers \ {c} : req'[x] = req[x],
         req[c].at # "fetch",
         req'[c].at = "join" <=> req'[c].done # None,
         req'[c].done \in {req[c].done, cache.refreshing, None},
         req'[c].renewed => req'[c].checked,
         req'[c].force /\ req'[c].at = "lookup" => req'[c].checked
  PROVE  CacheInv'
  <1>1. Waits'
    BY DEF CacheInv, Waits
  <1>2. Remembers'
    BY DEF CacheInv, Remembers
  <1>3. AllClose'
    BY DEF CacheInv, AllClose
  <1>5. Fetching'
    BY DEF CacheInv, Fetching, Active
  <1>4. RefreshOwned'
    <2>1. \A d \in Channels : fetch'[d].phase \in {"running", "answered", "failed"} <=> cache'.refreshing = d
      BY DEF CacheInv, RefreshOwned
    <2>2. \A x \in Callers : req'[x].at = "join" =>
            req'[x].done = cache'.refreshing \/ fetch'[req'[x].done].phase = "closed"
      <3> SUFFICES ASSUME NEW x \in Callers, req'[x].at = "join", req'[x].done # cache'.refreshing
                   PROVE  fetch'[req'[x].done].phase = "closed"
        OBVIOUS
      <3>1. req'[x].done = req[x].done /\ req[x].done # None
        BY <1>1 DEF Waits
      <3>2. req[x].at = "join" /\ req[x].done \in Channels
        BY <3>1 DEF CacheInv, Waits, TypeOK, Requests
      <3> QED
        BY <3>1, <3>2 DEF CacheInv, RefreshOwned
    <2> QED
      BY <2>1, <2>2 DEF RefreshOwned
  <1> QED
    BY <1>1, <1>2, <1>3, <1>4, <1>5 DEF CacheInv

\* A request that begins a fetch: no other was registered, and nobody waits for
\* the channel it takes.
LEMMA BeginKeepsAll ==
  ASSUME CacheInv, cache.refreshing = None, NEW d \in Channels, NEW by \in Callers \cup {"background"},
         Begin(d, by), UNCHANGED <<recent, cancelled>>,
         NEW c \in Callers, NEW place \in {"lookup", "fetch"}, GoTo(c, place),
         req[c].at = "ensure", place = "lookup" => ~req[c].force, by \in Callers => by = c /\ place = "fetch"
  PROVE  CacheInv'
  <1> USE NoneIsNoChannel, CallersAssumption
  <1>1. /\ req' \in [Callers -> Requests]
        /\ \A x \in Callers \ {c} : req'[x] = req[x]
        /\ req'[c].at = place /\ req'[c].force = req[c].force /\ req'[c].done = req[c].done
        /\ req'[c].renewed = req[c].renewed /\ req'[c].checked = req[c].checked
    BY GoToKeeps DEF Places
  <1>2. /\ cache' \in Caches /\ fetch' \in [Channels -> Fetches]
        /\ cache'.refreshing = d /\ fetch'[d].phase = "running" /\ fetch'[d].by = by
        /\ \A e \in Channels \ {d} : fetch'[e] = fetch[e] /\ ~Active(e)
        /\ \A x \in Callers : req[x].done # d
    BY BeginKeeps
  <1>3. TypeOK'
    BY <1>1, <1>2 DEF CacheInv, TypeOK
  <1>4. Waits' /\ Remembers'
    BY <1>1 DEF CacheInv, Waits, Remembers
  <1>5. AllClose'
    BY <1>2 DEF CacheInv, AllClose
  <1>6. Fetching'
    <2>1. \A e \in Channels : Active(e)' => e = d
      BY <1>2 DEF Active
    <2>2. \A x \in Callers : by = x => x = c /\ place = "fetch"
      OBVIOUS
    <2> QED
      BY <1>1, <1>2, <2>1, <2>2 DEF Fetching
  <1>7. RefreshOwned'
    <2>1. \A e \in Channels : fetch'[e].phase \in {"running", "answered", "failed"} <=> cache'.refreshing = e
      BY <1>2 DEF Active
    <2>2. \A x \in Callers : req'[x].at = "join" =>
            req'[x].done = cache'.refreshing \/ fetch'[req'[x].done].phase = "closed"
      <3> SUFFICES ASSUME NEW x \in Callers, req'[x].at = "join"
                   PROVE  fetch'[req'[x].done].phase = "closed"
        OBVIOUS
      <3>1. x # c /\ req'[x] = req[x] /\ req[x].at = "join"
        BY <1>1
      <3>2. req[x].done \in Channels \ {d} /\ req[x].done # cache.refreshing
        BY <1>2, <3>1 DEF CacheInv, Waits, TypeOK, Requests
      <3> QED
        BY <1>2, <3>1, <3>2 DEF CacheInv, RefreshOwned
    <2> QED
      BY <2>1, <2>2 DEF RefreshOwned
  <1> QED
    BY <1>3, <1>4, <1>5, <1>6, <1>7 DEF CacheInv

----------------------------------------------------------------------------
(* The steps.                                                                *)

LEMMA CallerSteps ==
  ASSUME CacheInv, NEW c \in Callers, Step(c) \/ Cancel(c) \/ \E id \in Models \cup {None} : Ask(c, id)
  PROVE  CacheInv'
  <1> USE NoneIsNoChannel DEF Places
  <1>0. /\ req[c] \in Requests /\ cache.refreshing \in Channels \cup {None}
        /\ (req[c].at = "join" <=> req[c].done # None)
        /\ (req[c].renewed => req[c].checked)
        /\ (req[c].force /\ req[c].at = "lookup" => req[c].checked)
    BY DEF CacheInv, TypeOK, Caches, Waits, Remembers
  <1>1. ASSUME NEW id \in Models \cup {None}, Ask(c, id) PROVE CacheInv'
    <2>1. /\ req' \in [Callers -> Requests]
          /\ \A x \in Callers \ {c} : req'[x] = req[x]
          /\ req'[c].at = "ensure" /\ req'[c].done = req[c].done
          /\ req'[c].renewed = req[c].renewed /\ req'[c].checked = req[c].checked
      <3>1. req' = [req EXCEPT ![c] = [req[c] EXCEPT !.at = "ensure", !.id = id]]
        BY <1>1 DEF Ask
      <3>2. [req[c] EXCEPT !.at = "ensure", !.id = id] \in Requests
        BY <1>0 DEF Requests
      <3> QED
        BY <1>0, <3>1, <3>2 DEF CacheInv, TypeOK, Requests
    <2>2. req[c].at = "new" /\ UNCHANGED <<cache, recent, fetch, cancelled>>
      BY <1>1 DEF Ask
    <2>3. TypeOK'
      BY <2>1, <2>2 DEF CacheInv, TypeOK
    <2> QED
      BY <1>0, <2>1, <2>2, <2>3, CacheFrame
  <1>2. CASE Cancel(c)
    BY <1>0, <1>2, CacheFrame DEF Cancel, CacheInv, TypeOK
  <1>3. CASE UseFresh(c)
    BY <1>0, <1>3, GoToKeeps, CacheFrame DEF UseFresh, Ensures, CacheInv, TypeOK
  <1>4. CASE UseStale(c)
    <2>1. /\ req[c].at = "ensure" /\ ~req[c].force /\ GoTo(c, "lookup") /\ UNCHANGED <<recent, cancelled>>
      BY <1>4 DEF UseStale, Ensures, Stale
    <2>2. CASE cache.refreshing = None
      <3>1. PICK d \in Channels : Begin(d, "background")
        BY <1>4, <2>2 DEF UseStale
      <3> QED
        BY <2>1, <2>2, <3>1, CallersAssumption, BeginKeepsAll
    <2>3. CASE cache.refreshing # None
      <3>1. UNCHANGED <<cache, fetch>>
        BY <1>4, <2>3 DEF UseStale
      <3> QED
        BY <1>0, <2>1, <3>1, GoToKeeps, CacheFrame DEF CacheInv, TypeOK
    <2> QED
      BY <2>2, <2>3
  <1>5. CASE JoinRefresh(c)
    <2>1. /\ req' \in [Callers -> Requests]
          /\ \A x \in Callers \ {c} : req'[x] = req[x]
          /\ req'[c].at = "join" /\ req'[c].done = cache.refreshing
          /\ req'[c].renewed = req[c].renewed /\ req'[c].checked = req[c].checked
      BY <1>0, <1>5 DEF JoinRefresh, CacheInv, TypeOK, Requests
    <2> QED
      BY <1>0, <1>5, <2>1, CacheFrame DEF JoinRefresh, MustFetch, Ensures, CacheInv, TypeOK
  <1>6. CASE FetchOwn(c)
    <2>1. /\ req[c].at = "ensure" /\ cache.refreshing = None /\ GoTo(c, "fetch")
          /\ UNCHANGED <<recent, cancelled>>
      BY <1>6 DEF FetchOwn, MustFetch, Ensures
    <2>2. PICK d \in Channels : Begin(d, c)
      BY <1>6 DEF FetchOwn
    <2> QED
      BY <2>1, <2>2, CallersAssumption, BeginKeepsAll
  <1>7. CASE Joined(c)
    <2>1. /\ req' \in [Callers -> Requests]
          /\ \A x \in Callers \ {c} : req'[x] = req[x]
          /\ req'[c].done = None /\ ~req'[c].renewed /\ req'[c].checked = req[c].checked
          /\ req'[c].at = IF req[c].renewed THEN "lookup" ELSE "ensure"
      BY <1>7 DEF Joined, AfterJoin, CacheInv, TypeOK, Requests
    <2> QED
      BY <1>0, <1>7, <2>1, CacheFrame DEF Joined, CacheInv, TypeOK
  <1>8. CASE JoinCancelled(c)
    <2>1. /\ Return(c, "error") /\ UNCHANGED <<cache, recent, fetch>> /\ cancelled' \subseteq Callers
          /\ req[c].at = "join"
      BY <1>8 DEF JoinCancelled, CacheInv, TypeOK
    <2> QED
      BY <1>0, <2>1, ReturnKeeps, CacheFrame DEF CacheInv, TypeOK
  <1>9. CASE Found(c)
    BY <1>0, <1>9, ReturnKeeps, CacheFrame DEF Found, CacheInv, TypeOK
  <1>10. CASE Missed(c)
    BY <1>0, <1>10, GoToKeeps, CacheFrame DEF Missed, CacheInv, TypeOK
  <1>11. CASE LookAgain(c)
    <2>1. /\ req' \in [Callers -> Requests]
          /\ \A x \in Callers \ {c} : req'[x] = req[x]
          /\ req'[c].at = "ensure" /\ req'[c].done = req[c].done
          /\ req'[c].renewed = req[c].renewed /\ req'[c].checked = req[c].checked
      <3>1. req' = [req EXCEPT ![c] = [req[c] EXCEPT !.at = "ensure", !.force = TRUE]]
        BY <1>11 DEF LookAgain
      <3>2. [req[c] EXCEPT !.at = "ensure", !.force = TRUE] \in Requests
        BY <1>0 DEF Requests
      <3> QED
        BY <1>0, <3>1, <3>2 DEF CacheInv, TypeOK, Requests
    <2>2. recent' \in BOOLEAN /\ req[c].at = "missed" /\ UNCHANGED <<cache, fetch, cancelled>>
      BY <1>11 DEF LookAgain
    <2> QED
      BY <1>0, <2>1, <2>2, CacheFrame DEF CacheInv, TypeOK
  <1>12. CASE Missing(c)
    BY <1>0, <1>12, ReturnKeeps, CacheFrame DEF Missing, CacheInv, TypeOK
  <1> QED
    BY <1>1, <1>2, <1>3, <1>4, <1>5, <1>6, <1>7, <1>8, <1>9, <1>10, <1>11, <1>12 DEF Step

\* A fetch that ends closes its channel, and the requests hear of it.
LEMMA FinishStep == ASSUME CacheInv, NEW d \in Channels, FinishModelRefresh(d) PROVE CacheInv'
  <1> USE NoneIsNoChannel DEF Places
  <1>1. cache.refreshing = d /\ fetch[d].phase \in {"answered", "failed"}
    BY DEF FinishModelRefresh, CacheInv, RefreshOwned
  <1>2. /\ cache' \in Caches /\ cache'.refreshing = None
        /\ UNCHANGED <<recent, cancelled>>
    <2>1. cache' = Finished(d) /\ fetch[d].catalog \in SUBSET Models /\ UNCHANGED <<recent, cancelled>>
      BY DEF FinishModelRefresh, CacheInv, TypeOK, Fetches
    <2>2. CASE fetch[d].phase = "failed"
      BY <1>1, <2>1, <2>2 DEF Finished, CacheInv, TypeOK, Caches
    <2>3. CASE fetch[d].phase # "failed"
      BY <1>1, <2>1, <2>3 DEF Finished, CacheInv, TypeOK, Caches
    <2> QED
      BY <2>1, <2>2, <2>3
  <1>3. /\ fetch' \in [Channels -> Fetches] /\ fetch'[d].phase = "closed"
        /\ \A e \in Channels \ {d} : fetch'[e] = fetch[e]
    <2>1. fetch' = [fetch EXCEPT ![d] = [by |-> None, phase |-> "closed", catalog |-> {}]]
      <3>1. [Unused EXCEPT !.phase = "closed"] = [by |-> None, phase |-> "closed", catalog |-> {}]
        BY DEF Unused
      <3>2. fetch' = [fetch EXCEPT ![d] = [Unused EXCEPT !.phase = "closed"]]
        BY <1>1 DEF FinishModelRefresh
      <3> QED
        BY <3>1, <3>2
    <2> QED
      BY <2>1 DEF CacheInv, TypeOK, Fetches
  <1>4. req' \in [Callers -> Requests]
    <2> SUFFICES \A c \in Callers : req'[c] \in Requests
      BY DEF FinishModelRefresh
    <2> TAKE c \in Callers
    <2>1. req[c] \in Requests
      BY DEF CacheInv, TypeOK
    <2>2. CASE fetch[d].phase = "failed"
      BY <2>1, <2>2 DEF FinishModelRefresh, Request, Requests
    <2>3. CASE fetch[d].phase # "failed"
      BY <2>1, <2>3 DEF FinishModelRefresh, Requests
    <2> QED
      BY <2>2, <2>3
  <1>5. ASSUME NEW c \in Callers
        PROVE  /\ req'[c].at = "join" => req[c].at = "join" /\ req'[c].done = req[c].done
               /\ req'[c].at = "join" <=> req'[c].done # None
               /\ req'[c].renewed => req'[c].checked
               /\ req'[c].force /\ req'[c].at = "lookup" => req'[c].checked
    <2>1. /\ req[c] \in Requests
          /\ (req[c].at = "join" <=> req[c].done # None)
          /\ (req[c].renewed => req[c].checked)
          /\ (req[c].force /\ req[c].at = "lookup" => req[c].checked)
          /\ (fetch[d].by = c => req[c].at = "fetch")
      BY <1>1 DEF CacheInv, TypeOK, Waits, Remembers, Fetching, Active
    <2>2. CASE fetch[d].phase = "failed"
      BY <2>1, <2>2 DEF FinishModelRefresh, Request, Requests
    <2>3. CASE fetch[d].phase # "failed" /\ ~Asking(c)
      BY <2>1, <2>3 DEF FinishModelRefresh
    <2>4. CASE fetch[d].phase # "failed" /\ Asking(c)
      BY <2>1, <2>4 DEF FinishModelRefresh, Requests
    <2> QED
      BY <2>2, <2>3, <2>4
  <1>6. ASSUME NEW c \in Callers, req[c].at = "fetch", fetch[d].by # c PROVE req'[c].at = "fetch"
    <2>1. req[c] \in Requests
      BY DEF CacheInv, TypeOK
    <2> QED
      BY <1>6, <2>1 DEF FinishModelRefresh, Requests, Asking
  <1>7. \A e \in Channels : ~Active(e)'
    BY <1>1, <1>3 DEF CacheInv, RefreshOwned, Active
  <1>8. Waits' /\ Remembers'
    BY <1>5 DEF Waits, Remembers
  <1>9. AllClose' /\ Fetching'
    BY <1>3, <1>7 DEF CacheInv, AllClose, Fetching
  <1>10. RefreshOwned'
    <2>1. \A e \in Channels : fetch'[e].phase \in {"running", "answered", "failed"} <=> cache'.refreshing = e
      BY <1>2, <1>7 DEF Active
    <2>2. \A c \in Callers : req'[c].at = "join" => fetch'[req'[c].done].phase = "closed"
      <3> SUFFICES ASSUME NEW c \in Callers, req'[c].at = "join" PROVE fetch'[req'[c].done].phase = "closed"
        OBVIOUS
      <3>1. req[c].at = "join" /\ req'[c].done = req[c].done /\ req[c].done \in Channels
        BY <1>5 DEF CacheInv, TypeOK, Requests, Waits
      <3> QED
        BY <1>1, <1>3, <3>1 DEF CacheInv, RefreshOwned
    <2> QED
      BY <2>1, <2>2 DEF RefreshOwned
  <1> QED
    BY <1>2, <1>3, <1>4, <1>8, <1>9, <1>10 DEF CacheInv, TypeOK

\* The runtime's answer, and time, change no request and end no fetch.
LEMMA QuietSteps ==
  ASSUME CacheInv, Expire \/ IntervalPasses \/ UNCHANGED vars \/ \E d \in Channels : Answered(d) \/ Failed(d)
  PROVE  CacheInv'
  <1>1. UNCHANGED <<req, cancelled>> /\ recent' \in BOOLEAN
    BY DEF Expire, IntervalPasses, Answered, Failed, CacheInv, TypeOK
  <1>2. cache' \in Caches /\ cache'.refreshing = cache.refreshing
    BY DEF Expire, IntervalPasses, Answered, Failed, CacheInv, TypeOK, Caches
  <1>3. /\ fetch' \in [Channels -> Fetches]
        /\ \A e \in Channels : /\ fetch'[e].by = fetch[e].by
                               /\ \/ fetch'[e].phase = fetch[e].phase
                                  \/ fetch[e].phase = "running" /\ fetch'[e].phase \in {"answered", "failed"}
    <2>1. CASE fetch' = fetch
      BY <2>1 DEF CacheInv, TypeOK
    <2>2. ASSUME NEW d \in Channels, NEW catalog \in SUBSET Models, NEW phase \in {"answered", "failed"},
                 fetch[d].phase = "running",
                 \/ fetch' = [fetch EXCEPT ![d].phase = phase, ![d].catalog = catalog]
                 \/ fetch' = [fetch EXCEPT ![d].phase = phase]
          PROVE  /\ fetch' \in [Channels -> Fetches]
                 /\ \A e \in Channels :
                      /\ fetch'[e].by = fetch[e].by
                      /\ \/ fetch'[e].phase = fetch[e].phase
                         \/ fetch[e].phase = "running" /\ fetch'[e].phase \in {"answered", "failed"}
      <3>1. CASE fetch' = [fetch EXCEPT ![d].phase = phase, ![d].catalog = catalog]
        <4>1. [fetch[d] EXCEPT !.phase = phase, !.catalog = catalog] \in Fetches
          BY DEF CacheInv, TypeOK, Fetches
        <4>2. fetch' = [fetch EXCEPT ![d] = [fetch[d] EXCEPT !.phase = phase, !.catalog = catalog]]
          BY <3>1 DEF CacheInv, TypeOK
        <4> QED
          BY <2>2, <4>1, <4>2 DEF CacheInv, TypeOK, Fetches
      <3>2. CASE fetch' = [fetch EXCEPT ![d].phase = phase]
        BY <2>2, <3>2 DEF CacheInv, TypeOK, Fetches
      <3> QED
        BY <2>2, <3>1, <3>2
    <2>3. \/ fetch' = fetch
          \/ \E d \in Channels : Answered(d) \/ Failed(d)
      BY DEF Expire, IntervalPasses
    <2>4. ASSUME NEW d \in Channels, Answered(d) \/ Failed(d)
          PROVE  \E phase \in {"answered", "failed"}, catalog \in SUBSET Models :
                   /\ fetch[d].phase = "running"
                   /\ \/ fetch' = [fetch EXCEPT ![d].phase = phase, ![d].catalog = catalog]
                      \/ fetch' = [fetch EXCEPT ![d].phase = phase]
      BY <2>4 DEF Answered, Failed
    <2> QED
      BY <2>1, <2>2, <2>3, <2>4
  <1>4. TypeOK'
    BY <1>1, <1>2, <1>3 DEF CacheInv, TypeOK
  <1>5. Waits' /\ Remembers' /\ AllClose' /\ Fetching'
    <2>1. Waits' /\ Remembers'
      BY <1>1 DEF CacheInv, Waits, Remembers
    <2>2. AllClose'
      BY <1>3 DEF CacheInv, AllClose
    <2>3. \A d \in Channels : Active(d)' <=> Active(d)
      BY <1>3 DEF Active
    <2>4. Fetching'
      BY <1>1, <1>3, <2>3 DEF CacheInv, Fetching
    <2> QED
      BY <2>1, <2>2, <2>4
  <1>6. RefreshOwned'
    <2>1. \A c \in Callers : req[c].at = "join" => req[c].done \in Channels
      BY DEF CacheInv, TypeOK, Requests, Waits
    <2> QED
      BY <1>1, <1>2, <1>3, <2>1 DEF CacheInv, RefreshOwned
  <1> QED
    BY <1>4, <1>5, <1>6 DEF CacheInv

LEMMA CacheNext == CacheInv /\ [Next]_vars => CacheInv'
  BY CallerSteps, FinishStep, QuietSteps DEF Next

----------------------------------------------------------------------------
(* The theorems.                                                             *)

LEMMA CacheAlways == Spec => []CacheInv
  <1>1. Init => CacheInv
    BY CacheInit
  <1>2. CacheInv /\ [Next]_vars => CacheInv'
    BY CacheNext
  <1> QED
    BY <1>1, <1>2, PTL DEF Spec

\* Every variable keeps its type (the catalog, the fetches behind the channels,
\* the requests).
THEOREM TypeCorrect == Spec => []TypeOK
  BY CacheAlways, PTL DEF CacheInv

\* At most one fetch of the catalog is in flight, it is the registered one, and
\* whoever waits does so for it or for one that has ended, for any number of
\* callers (ensureModels, finishModelRefresh).
THEOREM FetchesAreSingle == Spec => []RefreshOwned
  BY CacheAlways, PTL DEF CacheInv

\* The channel of every fetch is closed when it ends: finishModelRefresh never
\* finds another refresh registered, and no caller waits for a channel forever
\* because nobody is left to close it.
THEOREM ChannelsClose == Spec => []AllClose
  BY CacheAlways, PTL DEF CacheInv

\* A fetch can begin whenever none is in flight: the channels the model has are
\* enough for any number of callers, so its bound holds nothing up.
THEOREM ChannelsSuffice ==
  Spec => [](cache.refreshing = None => \E d \in FreeChannels : \A e \in FreeChannels : d <= e)
  BY CacheAlways, ChannelIsFree, PTL

\* A caller fails because its own context ended or its own fetch failed, never
\* because the refresh it had joined did (ensureModels).
THEOREM FailuresAreOwn == Spec => ErrorsAreOwn
  <1> DEFINE Own == \A c \in Callers :
                      req[c].at # "error" /\ req'[c].at = "error" =>
                        c \in cancelled \/ \E d \in Channels : fetch[d].by = c /\ fetch[d].phase = "failed"
  <1>1. CacheInv /\ [Next]_vars => Own
    <2> SUFFICES ASSUME CacheInv, [Next]_vars, NEW c \in Callers,
                        req[c].at # "error", req'[c].at = "error", c \notin cancelled
                 PROVE  \E d \in Channels : fetch[d].by = c /\ fetch[d].phase = "failed"
      OBVIOUS
    <2>1. req \in [Callers -> Requests]
      BY DEF CacheInv, TypeOK
    <2>2. ASSUME NEW x \in Callers, Step(x) \/ Cancel(x) \/ \E id \in Models \cup {None} : Ask(x, id) PROVE FALSE
      BY <2>1, <2>2
      DEF Step, Cancel, Ask, UseFresh, UseStale, JoinRefresh, FetchOwn, Joined, AfterJoin, JoinCancelled,
          Found, Missed, LookAgain, Missing, GoTo, Return, Request, Requests
    <2>3. ASSUME NEW d \in Channels, FinishModelRefresh(d) PROVE fetch[d].by = c /\ fetch[d].phase = "failed"
      BY <2>1, <2>3 DEF FinishModelRefresh, Requests
    <2>4. req' # req
      OBVIOUS
    <2> QED
      BY <2>2, <2>3, <2>4 DEF Next, Expire, IntervalPasses, Answered, Failed
  <1> QED
    BY <1>1, CacheAlways, PTL DEF Spec, ErrorsAreOwn

\* A model is reported missing only after a catalog was fetched since the
\* request asked, or within the interval of a forced look with none in flight
\* (findModel, shouldForceModelRefresh).
THEOREM MissesAreChecked == Spec => MissIsChecked
  <1> DEFINE Checked == \A c \in Callers :
                          req[c].at # "missing" /\ req'[c].at = "missing" =>
                            req[c].checked \/ (recent /\ cache.refreshing = None)
  <1>1. CacheInv /\ [Next]_vars => Checked
    <2> SUFFICES ASSUME CacheInv, [Next]_vars, NEW c \in Callers, req[c].at # "missing", req'[c].at = "missing"
                 PROVE  req[c].checked \/ (recent /\ cache.refreshing = None)
      OBVIOUS
    <2>1. req \in [Callers -> Requests]
      BY DEF CacheInv, TypeOK
    <2>2. ASSUME NEW x \in Callers, Missing(x) PROVE x = c
      BY <2>1, <2>2 DEF Missing, Return
    <2>3. CASE Missing(c)
      BY <2>3 DEF Missing, ShouldForce, CacheInv, Remembers, TypeOK
    <2>4. ASSUME NEW x \in Callers, Step(x) \/ Cancel(x) \/ \E id \in Models \cup {None} : Ask(x, id), ~Missing(x)
          PROVE  FALSE
      BY <2>1, <2>4
      DEF Step, Cancel, Ask, UseFresh, UseStale, JoinRefresh, FetchOwn, Joined, AfterJoin, JoinCancelled,
          Found, Missed, LookAgain, GoTo, Return, Request, Requests
    <2>5. ASSUME NEW d \in Channels, FinishModelRefresh(d) PROVE FALSE
      BY <2>1, <2>5 DEF FinishModelRefresh, Request, Requests
    <2>6. req' # req
      OBVIOUS
    <2> QED
      BY <2>2, <2>3, <2>4, <2>5, <2>6 DEF Next, Expire, IntervalPasses, Answered, Failed
  <1> QED
    BY <1>1, CacheAlways, PTL DEF Spec, MissIsChecked
=============================================================================
