----------------------------- MODULE ModelCache -----------------------------
(* The catalog of models (internal/copilotgw/models.go) and the requests     *)
(* that ask it whether their model exists (findModel in images.go). A stale  *)
(* catalog answers at once and is refreshed in the background; without one   *)
(* a request fetches, and the others join its fetch; a model that is missing *)
(* is looked up once more in a new catalog, but not too often.               *)
(*                                                                           *)
(* A channel is the done channel of a fetch; one that is closed and that     *)
(* nobody waits for is used again. What the code learns by comparing the time *)
(* of the last fetch with an earlier one is kept as renewed: a fetch has     *)
(* succeeded since the request joined.                                       *)
EXTENDS Naturals, FiniteSets

CONSTANTS
    Callers,    \* requests, one question each
    Models,
    None

ASSUME CallersAssumption ==
    /\ IsFiniteSet(Callers) /\ "background" \notin Callers
    /\ None \notin Callers \cup Models \cup {"background"} \cup Nat

Channels == 1..(Cardinality(Callers) + 1)

VARIABLES
    cache,      \* models (None: never fetched), fresh (within the ttl),
                \* refreshing: the channel of the refresh in flight, or None
    recent,     \* lastForcedRefresh is less than modelMissRefreshInterval ago
    fetch,      \* the fetch behind each channel: who, how far, with what
    req,        \* the requests: where, what for, whether the look is forced, the
                \* channel joined, renewed, checked (a fetch succeeded since it asked)
    cancelled   \* those that wait and whose context has ended

vars == <<cache, recent, fetch, req, cancelled>>

Unused == [by |-> None, phase |-> "closed", catalog |-> {}]

Request(place) == [at |-> place, id |-> None, force |-> FALSE, done |-> None, renewed |-> FALSE, checked |-> FALSE]

Init ==
    /\ cache = [models |-> None, fresh |-> FALSE, refreshing |-> None]
    /\ recent = FALSE
    /\ fetch = [d \in Channels |-> Unused]
    /\ req = [c \in Callers |-> Request("new")]
    /\ cancelled = {}

Known == IF cache.models = None THEN {} ELSE cache.models

GoTo(c, place) == req' = [req EXCEPT ![c].at = place]
Return(c, place) == req' = [req EXCEPT ![c] = Request(place)]

Asking(c) == req[c].at \in {"ensure", "join", "fetch", "lookup", "missed"}

\* findModel, or ListModels, which names no model. (findModel refuses an empty id
\* before it looks at the cache.)
Ask(c, id) ==
    /\ req[c].at = "new"
    /\ req' = [req EXCEPT ![c].at = "ensure", ![c].id = id]
    /\ UNCHANGED <<cache, recent, fetch, cancelled>>

-----------------------------------------------------------------------------
(* ensureModels: one pass of its loop, under the mutex                       *)

Ensures(c) == req[c].at = "ensure"

UseFresh(c) ==
    /\ Ensures(c) /\ ~req[c].force /\ cache.models # None /\ cache.fresh
    /\ GoTo(c, "lookup")
    /\ UNCHANGED <<cache, recent, fetch, cancelled>>

Stale(c) == ~req[c].force /\ ~(cache.models # None /\ cache.fresh) /\ Known # {}

FreeChannels == {d \in Channels : fetch[d].phase = "closed" /\ \A c \in Callers : req[c].done # d}

\* The refresh that is registered under a new channel.
Begin(d, by) ==
    /\ d \in FreeChannels /\ \A e \in FreeChannels : d <= e
    /\ fetch' = [fetch EXCEPT ![d] = [by |-> by, phase |-> "running", catalog |-> {}]]
    /\ cache' = [cache EXCEPT !.refreshing = d]

UseStale(c) ==
    /\ Ensures(c) /\ Stale(c)
    /\ GoTo(c, "lookup")
    /\ IF cache.refreshing = None THEN \E d \in Channels : Begin(d, "background")
                                  ELSE UNCHANGED <<cache, fetch>>
    /\ UNCHANGED <<recent, cancelled>>

MustFetch(c) ==
    /\ Ensures(c)
    /\ req[c].force \/ (Known = {} /\ ~(cache.models # None /\ cache.fresh))

JoinRefresh(c) ==
    /\ MustFetch(c) /\ cache.refreshing # None
    /\ req' = [req EXCEPT ![c].at = "join", ![c].done = cache.refreshing]
    /\ UNCHANGED <<cache, recent, fetch, cancelled>>

\* Fault: the refresh in flight is not looked at.
FetchOwnAnyway(c) ==
    /\ MustFetch(c)
    /\ \E d \in Channels : Begin(d, c)
    /\ GoTo(c, "fetch")
    /\ UNCHANGED <<recent, cancelled>>

FetchOwn(c) ==
    /\ MustFetch(c) /\ cache.refreshing = None
    /\ \E d \in Channels : Begin(d, c)
    /\ GoTo(c, "fetch")
    /\ UNCHANGED <<recent, cancelled>>

\* Fault: the error of the joined refresh is the caller's.
AfterJoinFails(c, renewed) == IF renewed THEN "lookup" ELSE "error"

\* A joined refresh that failed is not the caller's answer.
AfterJoin(c, renewed) == IF renewed THEN "lookup" ELSE "ensure"

Joined(c) ==
    /\ req[c].at = "join" /\ fetch[req[c].done].phase = "closed"
    /\ req' = [req EXCEPT ![c].done = None, ![c].renewed = FALSE,
                          ![c].at = AfterJoin(c, req[c].renewed)]
    /\ UNCHANGED <<cache, recent, fetch, cancelled>>

JoinCancelled(c) ==
    /\ req[c].at = "join" /\ c \in cancelled
    /\ Return(c, "error")
    /\ cancelled' = cancelled \ {c}
    /\ UNCHANGED <<cache, recent, fetch>>

-----------------------------------------------------------------------------
(* A fetch, of a caller or of refreshModelsInBackground                      *)

\* fetchModels: the runtime answers with its catalog of the moment.
Answered(d) ==
    /\ fetch[d].phase = "running"
    /\ \E catalog \in SUBSET Models :
         fetch' = [fetch EXCEPT ![d].phase = "answered", ![d].catalog = catalog]
    /\ UNCHANGED <<cache, recent, req, cancelled>>

\* It fails, or the context of the fetch ends: the caller's, or the timeout of
\* the background.
Failed(d) ==
    /\ fetch[d].phase = "running"
    /\ fetch' = [fetch EXCEPT ![d].phase = "failed"]
    /\ UNCHANGED <<cache, recent, req, cancelled>>

\* Fault: a failed refresh stays registered.
RefreshAfterErrorKept(d) ==
    IF fetch[d].phase = "failed" THEN cache
    ELSE [models |-> fetch[d].catalog, fresh |-> TRUE,
          refreshing |-> IF cache.refreshing = d THEN None ELSE cache.refreshing]

Finished(d) ==
    IF fetch[d].phase = "failed" THEN [cache EXCEPT !.refreshing = IF @ = d THEN None ELSE @]
    ELSE [models |-> fetch[d].catalog, fresh |-> TRUE,
          refreshing |-> IF cache.refreshing = d THEN None ELSE cache.refreshing]

\* finishModelRefresh; a channel that is no longer registered is not closed.
FinishModelRefresh(d) ==
    /\ fetch[d].phase \in {"answered", "failed"}
    /\ cache' = Finished(d)
    /\ fetch' = [fetch EXCEPT ![d] = [Unused EXCEPT !.phase = IF cache.refreshing = d THEN "closed" ELSE "left open"]]
    /\ req' = [c \in Callers |->
                 IF fetch[d].phase = "failed" THEN IF fetch[d].by = c THEN Request("error") ELSE req[c]
                 ELSE IF ~Asking(c) THEN req[c]
                 ELSE [req[c] EXCEPT !.checked = TRUE, !.renewed = @ \/ req[c].at = "join",
                                     !.at = IF fetch[d].by = c THEN "lookup" ELSE @]]
    /\ UNCHANGED <<recent, cancelled>>

-----------------------------------------------------------------------------
(* findModel: the lookup, and the second one                                 *)

Has(c) == req[c].id = None \/ req[c].id \in Known

Found(c) ==
    /\ req[c].at = "lookup" /\ Has(c)
    /\ Return(c, "found")
    /\ UNCHANGED <<cache, recent, fetch, cancelled>>

Missed(c) ==
    /\ req[c].at = "lookup" /\ ~Has(c) /\ ~req[c].force
    /\ GoTo(c, "missed")
    /\ UNCHANGED <<cache, recent, fetch, cancelled>>

\* Fault: a refresh in flight is no reason to wait.
ShouldForceRarely == ~recent

\* shouldForceModelRefresh: join one in flight, or claim the interval.
ShouldForce == cache.refreshing # None \/ ~recent

LookAgain(c) ==
    /\ req[c].at = "missed" /\ ShouldForce
    /\ req' = [req EXCEPT ![c].at = "ensure", ![c].force = TRUE]
    /\ recent' = (recent \/ cache.refreshing = None)
    /\ UNCHANGED <<cache, fetch, cancelled>>

Missing(c) ==
    /\ \/ req[c].at = "lookup" /\ ~Has(c) /\ req[c].force
       \/ req[c].at = "missed" /\ ~ShouldForce
    /\ Return(c, "missing")
    /\ UNCHANGED <<cache, recent, fetch, cancelled>>

-----------------------------------------------------------------------------

\* Time passes: the ttl of the catalog, and the interval between forced refreshes.
Expire ==
    /\ cache.fresh
    /\ cache' = [cache EXCEPT !.fresh = FALSE]
    /\ UNCHANGED <<recent, fetch, req, cancelled>>

IntervalPasses ==
    /\ recent
    /\ recent' = FALSE
    /\ UNCHANGED <<cache, fetch, req, cancelled>>

\* A context ends; it is looked at in a join, and by the caller's own fetch.
Cancel(c) ==
    /\ c \notin cancelled /\ req[c].at = "join"
    /\ cancelled' = cancelled \cup {c}
    /\ UNCHANGED <<cache, recent, fetch, req>>

Step(c) ==
    \/ UseFresh(c) \/ UseStale(c) \/ JoinRefresh(c) \/ FetchOwn(c) \/ Joined(c) \/ JoinCancelled(c)
    \/ Found(c) \/ Missed(c) \/ LookAgain(c) \/ Missing(c)

Next ==
    \/ \E c \in Callers : (\E id \in Models \cup {None} : Ask(c, id)) \/ Step(c) \/ Cancel(c)
    \/ \E d \in Channels : Answered(d) \/ Failed(d) \/ FinishModelRefresh(d)
    \/ Expire \/ IntervalPasses

\* The scheduler runs goroutines; a fetch ends, for the runtime answers it or
\* its context ends.
Fairness ==
    /\ \A c \in Callers : WF_vars(Step(c))
    /\ \A d \in Channels : WF_vars(Answered(d) \/ Failed(d)) /\ WF_vars(FinishModelRefresh(d))

Spec == Init /\ [][Next]_vars /\ Fairness

-----------------------------------------------------------------------------
(* Properties                                                                *)

\* Fetches are single: the refresh in flight is the one that is registered, so a
\* catalog is never overwritten by an older fetch, and who waits does so for it
\* or for one that has ended (refreshing and refreshDone, finishModelRefresh).
RefreshOwned ==
    /\ \A d \in Channels : fetch[d].phase \in {"running", "answered", "failed"} <=> cache.refreshing = d
    /\ \A c \in Callers : req[c].at = "join" => req[c].done = cache.refreshing \/ fetch[req[c].done].phase = "closed"

\* A caller fails for its own reasons: its context ended or its own fetch
\* failed, never because the refresh of another, cancelled perhaps, did
\* (ensureModels: "loop so this caller issues its own fetch").
ErrorsAreOwn ==
    [][\A c \in Callers :
         req[c].at # "error" /\ req'[c].at = "error" =>
           c \in cancelled \/ \E d \in Channels : fetch[d].by = c /\ fetch[d].phase = "failed"]_vars

\* A model is reported missing only when a catalog was fetched since the request
\* asked, or when a forced refresh began within the interval and none is in
\* flight that might bring it (findModel, shouldForceModelRefresh).
MissIsChecked ==
    [][\A c \in Callers :
         req[c].at # "missing" /\ req'[c].at = "missing" =>
           req[c].checked \/ (recent /\ cache.refreshing = None)]_vars

\* Everybody who asks is answered, whatever fails and whoever gives up.
CallersReturn ==
    \A c \in Callers : req[c].at = "ensure" ~> req[c].at \in {"found", "missing", "error"}
=============================================================================
