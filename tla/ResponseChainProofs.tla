------------------------ MODULE ResponseChainProofs ------------------------
(* Proofs about ResponseChain, for any number of responses and any chain     *)
(* limit, in three layers:                                                   *)
(*   IInv  where every warmed input is: none is lost (Kept, Resettled).      *)
(*   SInv  the stored lines and what each record, request and journal says:  *)
(*         every rebuilt history is sound (HistoryIsSound).                  *)
(*   KInv  what the sessions know of the line they stand for: when warmed    *)
(*         sessions can be hydrated and no warmed run is longer than the     *)
(*         limit, every turn knows its chain (TurnsKnowTheirChain).          *)
EXTENDS ResponseChain, SequenceTheorems, WellFoundedInduction, TLAPS

----------------------------------------------------------------------------
(* Sequences.                                                                *)

LEMMA RangeOfConcat ==
  ASSUME NEW S, NEW s \in Seq(S), NEW t \in Seq(S)
  PROVE  s \o t \in Seq(S) /\ Range(s) \subseteq Range(s \o t) /\ Range(t) \subseteq Range(s \o t)
  <1>1. /\ s \o t \in Seq(S) /\ Len(s \o t) = Len(s) + Len(t)
        /\ \A i \in 1 .. Len(s) + Len(t) : (s \o t)[i] = IF i <= Len(s) THEN s[i] ELSE t[i - Len(s)]
    BY ConcatProperties
  <1>2. Len(s) \in Nat /\ Len(t) \in Nat /\ DOMAIN s = 1 .. Len(s) /\ DOMAIN t = 1 .. Len(t)
        /\ DOMAIN (s \o t) = 1 .. Len(s) + Len(t)
    BY <1>1, LenProperties
  <1>3. ASSUME NEW i \in DOMAIN s PROVE s[i] = (s \o t)[i] /\ i \in DOMAIN (s \o t)
    BY <1>1, <1>2
  <1>4. ASSUME NEW i \in DOMAIN t PROVE t[i] = (s \o t)[Len(s) + i] /\ Len(s) + i \in DOMAIN (s \o t)
    <2>1. Len(s) + i \in 1 .. Len(s) + Len(t) /\ ~(Len(s) + i <= Len(s)) /\ Len(s) + i - Len(s) = i
      BY <1>2
    <2> QED
      BY <2>1, <1>1, <1>2
  <1>5. Range(s) \subseteq Range(s \o t)
    BY <1>3 DEF Range
  <1>6. Range(t) \subseteq Range(s \o t)
    BY <1>4 DEF Range
  <1> QED
    BY <1>1, <1>5, <1>6

LEMMA NatMinimum ==
  ASSUME NEW T \in SUBSET Nat, T # {}
  PROVE  \E x \in T : \A y \in T : x <= y
  <1> DEFINE R == OpToRel(<, Nat)
  <1>1. IsWellFoundedOn(R, Nat)
    BY NatLessThanWellFounded
  <1>2. \A x, y \in Nat : y < x => <<y, x>> \in R
    BY DEF OpToRel
  <1> HIDE DEF R
  <1>3. PICK x \in T : \A y \in T : ~ (<<y, x>> \in R)
    BY <1>1, WFMin
  <1>4. ASSUME NEW y \in T PROVE x <= y
    <2>1. x \in Nat /\ y \in Nat
      OBVIOUS
    <2>2. ~ (y < x)
      BY <2>1, <1>2, <1>3
    <2> QED
      BY <2>1, <2>2
  <1> QED
    BY <1>4

----------------------------------------------------------------------------
(* The first invariant. Of the records that hold a history (base) it says    *)
(* only that the field is there: SInv and KInv speak of what it tells.       *)

RequestFields == {"phase", "kind", "prev", "session", "base", "prompt", "claims", "input",
                  "answers", "added", "streaming"}

Shape ==
  /\ DOMAIN rec = Responses /\ DOMAIN sdk = Responses /\ DOMAIN req = Responses /\ DOMAIN warm = Responses
  /\ \A r \in Responses :
       /\ DOMAIN rec[r] = {"kind", "session", "line", "pending", "input", "answers", "added", "output"}
       /\ DOMAIN sdk[r] = {"base", "sent"}
       /\ DOMAIN req[r] = RequestFields
       /\ DOMAIN warm[r] = {"held", "session", "base", "prompt", "claims"}

RecordsOK ==
  \A r \in Responses :
    /\ rec[r].line \in Seq(Responses)
    /\ rec[r].kind \in {"warm", "turn"} => rec[r].session \in Responses
    /\ rec[r].pending => rec[r].kind = "warm"

SentOK == \A r \in Responses : sdk[r].sent \in Seq(Entry)

\* A prompt on its way to a session carries the input of the records it claims.
Carries(claims, session, prompt) ==
  /\ session \in Responses /\ prompt \in Seq(Entry)
  /\ \A id \in claims :
       /\ id \in Responses /\ rec[id].kind # "none"
       /\ rec[id].kind = "warm" => rec[id].session = session /\ Input(id) \in Range(prompt)

ReadyOK ==
  \A r \in Responses :
    req[r].phase = "ready" =>
      /\ Carries(req[r].claims, req[r].session, req[r].prompt)
      /\ Input(r) \in Range(req[r].prompt) \/ req[r].kind # "warm"

WarmOK ==
  \A r \in Responses : warm[r].held => Carries(warm[r].claims, warm[r].session, warm[r].prompt)

Delivered(id) == Input(id) \in Range(sdk[rec[id].session].sent)

ClaimsOK ==
  \A r \in Responses :
    req[r].phase \in {"sent", "saved"} =>
      /\ req[r].session \in Responses
      /\ \A id \in req[r].claims :
           id \in Responses /\ rec[id].kind # "none" /\ (rec[id].kind = "warm" => Delivered(id))

Unsaved ==
  \A r \in Responses :
    /\ req[r].prev \in Responses \cup {None}
    /\ req[r].phase \in {"new", "ready", "sent"} => rec[r].kind = "none"

IInv ==
  /\ Shape /\ RecordsOK /\ SentOK /\ ReadyOK /\ WarmOK /\ ClaimsOK /\ Unsaved
  /\ PendingUntilDelivered

----------------------------------------------------------------------------
(* What a prompt carries.                                                    *)

LEMMA InputIsEntry == \A r \in Responses : Input(r) \in Entry /\ <<Input(r)>> \in Seq(Entry)
                                            /\ Input(r) \in Range(<<Input(r)>>)
  <1> SUFFICES ASSUME NEW r \in Responses
               PROVE  Input(r) \in Entry /\ <<Input(r)>> \in Seq(Entry) /\ Input(r) \in Range(<<Input(r)>>)
    OBVIOUS
  <1>1. Input(r) \in Entry
    BY DEF Input, Entry, What
  <1>2. <<Input(r)>> \in Seq(Entry)
    BY <1>1
  <1>3. 1 \in DOMAIN <<Input(r)>> /\ <<Input(r)>>[1] = Input(r)
    OBVIOUS
  <1> QED
    BY <1>1, <1>2, <1>3 DEF Range

LEMMA CarriesMore ==
  ASSUME NEW c, NEW session, NEW prompt, NEW t \in Seq(Entry), Carries(c, session, prompt)
  PROVE  Carries(c, session, prompt \o t) /\ Range(t) \subseteq Range(prompt \o t)
  <1>1. prompt \in Seq(Entry)
    BY DEF Carries
  <1>2. prompt \o t \in Seq(Entry) /\ Range(prompt) \subseteq Range(prompt \o t)
        /\ Range(t) \subseteq Range(prompt \o t)
    BY <1>1, RangeOfConcat
  <1> QED
    BY <1>2 DEF Carries

\* pendingInputForSession: what it names is in what it collects.
LEMMA PendingRunCarries ==
  ASSUME IInv, NEW p \in Responses, Present(p)
  PROVE  Carries(PendingIds(p), rec[p].session, PendingPrompt(p))
  <1> DEFINE l == rec[p].line  T == PendingStarts(p)  run == PendingRun(p)
  <1>1. l \in Seq(Responses) /\ Len(l) \in Nat /\ rec[p].session \in Responses
    BY LenProperties DEF IInv, RecordsOK, Present
  <1>2. T \in SUBSET Nat
    BY <1>1 DEF PendingStarts
  <1>3. Len(l) + 1 \in T
    BY <1>1, LimitAssumption DEF PendingStarts
  <1>4. \E i \in T : \A j \in T : i <= j
    BY <1>2, <1>3, NatMinimum
  <1>5. PICK m \in T : run = SubSeq(l, m, Len(l))
    <2> DEFINE m == CHOOSE i \in T : \A j \in T : i <= j
    <2>1. m \in T
      BY <1>4
    <2>2. run = SubSeq(l, m, Len(l))
      BY DEF PendingRun, From
    <2> QED
      BY <2>1, <2>2
  <1>6. m \in 1 .. Len(l) + 1 /\ \A j \in m .. Len(l) : rec[l[j]].pending /\ rec[l[j]].session = rec[p].session
    BY <1>1, <1>5 DEF PendingStarts
  <1>7. \A j \in m .. Len(l) : l[j] \in Responses
    BY <1>1, <1>6, ElementOfSeq
  <1>8. /\ run \in Seq(Responses) /\ Len(run) = IF m <= Len(l) THEN Len(l) - m + 1 ELSE 0
        /\ \A i \in 1 .. Len(l) - m + 1 : run[i] = l[m + i - 1]
    BY <1>1, <1>5, <1>6, <1>7, SubSeqProperties
  <1> HIDE DEF run
  <1>9. DOMAIN run = 1 .. Len(run) /\ Len(run) \in Nat
    BY <1>8, LenProperties
  <1>10. ASSUME NEW i \in DOMAIN run
         PROVE  run[i] \in Responses /\ rec[run[i]].pending /\ rec[run[i]].session = rec[p].session
    <2>1. i \in 1 .. Len(l) - m + 1 /\ m + i - 1 \in m .. Len(l)
      BY <1>1, <1>6, <1>8, <1>9
    <2> QED
      BY <2>1, <1>6, <1>7, <1>8
  <1>11. PendingPrompt(p) = [i \in 1 .. Len(run) |-> Input(run[i])] /\ \A i \in 1 .. Len(run) : Input(run[i]) \in Entry
    BY <1>9, <1>10, InputIsEntry DEF PendingPrompt, run
  <1>12. PendingPrompt(p) \in Seq(Entry)
    <2>1. PendingPrompt(p) \in [1 .. Len(run) -> Entry]
      BY <1>11
    <2> QED
      BY <2>1, <1>9, SeqDef
  <1>13. PendingIds(p) = {run[i] : i \in DOMAIN run}
    BY DEF PendingIds, run
  <1>14. ASSUME NEW id \in PendingIds(p)
         PROVE  id \in Responses /\ rec[id].kind = "warm" /\ rec[id].session = rec[p].session
                /\ Input(id) \in Range(PendingPrompt(p))
    <2>1. PICK i \in DOMAIN run : id = run[i]
      BY <1>13
    <2>2. i \in DOMAIN PendingPrompt(p) /\ PendingPrompt(p)[i] = Input(id)
      BY <2>1, <1>9, <1>11
    <2>3. Input(id) \in Range(PendingPrompt(p))
      BY <2>2 DEF Range
    <2> QED
      BY <2>1, <2>3, <1>10 DEF IInv, RecordsOK
  <1> QED
    BY <1>1, <1>12, <1>14 DEF Carries

----------------------------------------------------------------------------
(* Steps.                                                                    *)

\* Records stay what they are, or are deleted; sessions only hear more.
RecordsKept ==
  \A id \in Responses :
    rec[id].kind # "none" =>
      /\ rec'[id].kind # "none"
      /\ rec'[id].kind = "warm" => rec[id].kind = "warm" /\ rec'[id].session = rec[id].session

SessionsGrow == \A q \in Responses : Range(sdk[q].sent) \subseteq Range(sdk'[q].sent)

LEMMA CarriesStays ==
  ASSUME RecordsKept
  PROVE  \A c, session, prompt : Carries(c, session, prompt) => Carries(c, session, prompt)'
  BY DEF RecordsKept, Carries, Input

LEMMA DeliveredStays ==
  ASSUME IInv, RecordsKept, SessionsGrow, NEW id \in Responses,
         rec[id].kind # "none", rec[id].kind = "warm" => Delivered(id)
  PROVE  rec'[id].kind # "none" /\ (rec'[id].kind = "warm" => Delivered(id)')
  <1> USE DEF Input
  <1>1. rec'[id].kind # "none" /\ (rec'[id].kind = "warm" => rec[id].kind = "warm" /\ rec'[id].session = rec[id].session)
    BY DEF RecordsKept
  <1>2. rec'[id].kind = "warm" => rec[id].session \in Responses
    BY <1>1 DEF IInv, RecordsOK
  <1>3. rec'[id].kind = "warm" => Range(sdk[rec[id].session].sent) \subseteq Range(sdk'[rec'[id].session].sent)
    BY <1>1, <1>2 DEF SessionsGrow
  <1> QED
    BY <1>1, <1>3 DEF Delivered

\* A request gets its prompt; nothing else that matters changes.
LEMMA PrepareKeepsInv ==
  ASSUME IInv, NEW r \in Responses, req[r].phase = "new", rec' = rec,
         DOMAIN req' = Responses, \A q \in Responses : q # r => req'[q] = req[q],
         DOMAIN req'[r] = RequestFields, req'[r].phase = "ready", req'[r].prev \in Responses \cup {None},
         Carries(req'[r].claims, req'[r].session, req'[r].prompt),
         Input(r) \in Range(req'[r].prompt) \/ req'[r].kind # "warm",
         DOMAIN sdk' = Responses,
         \A q \in Responses : DOMAIN sdk'[q] = {"base", "sent"} /\ sdk'[q].sent = sdk[q].sent,
         DOMAIN warm' = Responses, \A q \in Responses : warm'[q] \in {warm[q], NoWarm}
  PROVE  IInv'
  <1> USE DEF Input
  <1>1. RecordsKept /\ SessionsGrow
    BY DEF RecordsKept, SessionsGrow
  <1>2. Shape'
    BY DEF IInv, Shape, NoWarm, RequestFields
  <1>3. RecordsOK' /\ SentOK'
    BY DEF IInv, RecordsOK, SentOK
  <1>4. ReadyOK'
    <2> SUFFICES ASSUME NEW q \in Responses, req'[q].phase = "ready"
                 PROVE  /\ Carries(req[q].claims, req[q].session, req[q].prompt)'
                        /\ Input(q) \in Range(req'[q].prompt) \/ req'[q].kind # "warm"
      BY DEF ReadyOK
    <2>1. Carries(req'[q].claims, req'[q].session, req'[q].prompt)
          /\ (Input(q) \in Range(req'[q].prompt) \/ req'[q].kind # "warm")
      BY DEF IInv, ReadyOK
    <2> QED
      BY <2>1 DEF Carries
  <1>5. WarmOK'
    BY DEF IInv, WarmOK, Carries, NoWarm
  <1>6. ClaimsOK'
    <2> SUFFICES ASSUME NEW q \in Responses, req'[q].phase \in {"sent", "saved"}
                 PROVE  /\ req'[q].session \in Responses
                        /\ \A id \in req'[q].claims :
                             id \in Responses /\ rec'[id].kind # "none" /\ (rec'[id].kind = "warm" => Delivered(id)')
      BY DEF ClaimsOK
    <2>1. req'[q] = req[q]
      OBVIOUS
    <2> QED
      BY <2>1, <1>1, DeliveredStays DEF IInv, ClaimsOK
  <1>7. Unsaved'
    BY DEF IInv, Unsaved
  <1>8. PendingUntilDelivered'
    BY DEF IInv, PendingUntilDelivered, RecordsOK
  <1> QED
    BY <1>2, <1>3, <1>4, <1>5, <1>6, <1>7, <1>8 DEF IInv

LEMMA PlainRequest ==
  ASSUME NEW r, NEW kind, NEW prev, NEW session, NEW streaming
  PROVE  LET x == Plain(r, kind, prev, session, streaming) IN
         /\ DOMAIN x = RequestFields
         /\ x.kind = kind /\ x.prev = prev /\ x.session = session
         /\ x.prompt = <<Input(r)>> /\ x.claims = {} /\ x.base = <<>>
  BY DEF Plain, NewRequest, RequestFields

LEMMA StartFreshKeepsInv ==
  ASSUME IInv, NEW r \in Responses, NEW kind, NEW streaming, StartFresh(r, kind, streaming)
  PROVE  IInv'
  <1> DEFINE x == Plain(r, kind, None, r, streaming)
  <1>1. /\ DOMAIN x = RequestFields /\ x.prev = None /\ x.session = r /\ x.prompt = <<Input(r)>> /\ x.claims = {}
    BY PlainRequest
  <1> HIDE DEF x
  <1>2. req[r].phase = "new" /\ req' = [req EXCEPT ![r] = [x EXCEPT !.phase = "ready"]] /\ UNCHANGED <<rec, sdk, warm>>
    BY DEF StartFresh, Arrives, Ready, x
  <1>3. /\ DOMAIN req' = Responses /\ \A q \in Responses : q # r => req'[q] = req[q]
        /\ req'[r] = [x EXCEPT !.phase = "ready"]
    BY <1>2 DEF IInv, Shape
  <1>4. /\ DOMAIN req'[r] = RequestFields /\ req'[r].phase = "ready" /\ req'[r].prev = None
        /\ req'[r].session = r /\ req'[r].prompt = <<Input(r)>> /\ req'[r].claims = {}
    BY <1>1, <1>3 DEF RequestFields
  <1>5. Carries(req'[r].claims, req'[r].session, req'[r].prompt) /\ Input(r) \in Range(req'[r].prompt)
    BY <1>4, InputIsEntry DEF Carries
  <1> QED
    BY <1>2, <1>3, <1>4, <1>5, PrepareKeepsInv DEF IInv, Shape, SentOK

LEMMA UseWarmKeepsInv ==
  ASSUME IInv, NEW r \in Responses, NEW p \in Responses, UseWarm(r, p)
  PROVE  IInv'
  <1> DEFINE x == Plain(r, "turn", p, warm[p].session, TRUE)
  <1>1. /\ DOMAIN x = RequestFields /\ x.kind = "turn" /\ x.prev = p /\ x.session = warm[p].session
        /\ x.prompt = <<Input(r)>>
    BY DEF Plain, NewRequest, RequestFields
  <1> HIDE DEF x
  <1>2. /\ req[r].phase = "new" /\ warm[p].held
        /\ req' = [req EXCEPT ![r] = [[x EXCEPT !.base = warm[p].base, !.prompt = warm[p].prompt \o @,
                                                !.claims = warm[p].claims] EXCEPT !.phase = "ready"]]
        /\ warm' = [warm EXCEPT ![p] = NoWarm] /\ UNCHANGED <<rec, sdk>>
    BY DEF UseWarm, Arrives, Ready, x
  <1>3. DOMAIN req' = Responses /\ \A q \in Responses : q # r => req'[q] = req[q]
    BY <1>2 DEF IInv, Shape
  <1>4. /\ DOMAIN req'[r] = RequestFields /\ req'[r].phase = "ready" /\ req'[r].kind = "turn" /\ req'[r].prev = p
        /\ req'[r].session = warm[p].session /\ req'[r].prompt = warm[p].prompt \o <<Input(r)>>
        /\ req'[r].claims = warm[p].claims
    BY <1>1, <1>2 DEF IInv, Shape, RequestFields
  <1>5. Carries(warm[p].claims, warm[p].session, warm[p].prompt)
    BY <1>2 DEF IInv, WarmOK
  <1>6. Carries(req'[r].claims, req'[r].session, req'[r].prompt)
    BY <1>4, <1>5, InputIsEntry, CarriesMore
  <1>7. DOMAIN warm' = Responses /\ \A q \in Responses : warm'[q] \in {warm[q], NoWarm}
    BY <1>2 DEF IInv, Shape
  <1> QED
    BY <1>2, <1>3, <1>4, <1>6, <1>7, PrepareKeepsInv DEF IInv, Shape, SentOK

LEMMA DiscardsWarm ==
  ASSUME IInv, NEW kind, NEW p \in Responses, NEW streaming, Discards(kind, p, streaming)
  PROVE  DOMAIN warm' = Responses /\ \A q \in Responses : warm'[q] \in {warm[q], NoWarm}
  BY DEF IInv, Shape, Discards

LEMMA ResumeKeepsInv ==
  ASSUME IInv, NEW r \in Responses, NEW kind, NEW p \in Responses, NEW streaming, Resume(r, kind, p, streaming)
  PROVE  IInv'
  <1> DEFINE x == Plain(r, kind, p, rec[p].session, streaming)
  <1>1. /\ DOMAIN x = RequestFields /\ x.prev = p /\ x.session = rec[p].session /\ x.prompt = <<Input(r)>>
    BY PlainRequest
  <1> HIDE DEF x
  <1>2. /\ req[r].phase = "new" /\ Present(p)
        /\ req' = [req EXCEPT ![r] = [[x EXCEPT !.prompt = PendingPrompt(p) \o @, !.claims = PendingIds(p)]
                                       EXCEPT !.phase = "ready"]]
        /\ Discards(kind, p, streaming) /\ UNCHANGED <<rec, sdk>>
    BY DEF Resume, Arrives, Ready, x
  <1>3. DOMAIN req' = Responses /\ \A q \in Responses : q # r => req'[q] = req[q]
    BY <1>2 DEF IInv, Shape
  <1>4. /\ DOMAIN req'[r] = RequestFields /\ req'[r].phase = "ready" /\ req'[r].prev = p
        /\ req'[r].session = rec[p].session /\ req'[r].prompt = PendingPrompt(p) \o <<Input(r)>>
        /\ req'[r].claims = PendingIds(p)
    BY <1>1, <1>2 DEF IInv, Shape, RequestFields
  <1>5. /\ Carries(req'[r].claims, req'[r].session, req'[r].prompt)
        /\ Input(r) \in Range(req'[r].prompt)
    BY <1>2, <1>4, InputIsEntry, PendingRunCarries, CarriesMore
  <1>6. DOMAIN warm' = Responses /\ \A q \in Responses : warm'[q] \in {warm[q], NoWarm}
    BY <1>2, DiscardsWarm
  <1> QED
    BY <1>2, <1>3, <1>4, <1>5, <1>6, PrepareKeepsInv DEF IInv, Shape, SentOK

LEMMA SynthesizeKeepsInv ==
  ASSUME IInv, NEW r \in Responses, NEW kind, NEW p \in Responses, NEW streaming, NEW hydrated,
         Synthesize(r, kind, p, streaming, hydrated)
  PROVE  IInv'
  <1> DEFINE x == Plain(r, kind, p, r, streaming)
             b == IF hydrated THEN <<>> ELSE Transcript(Chain(p))
             h == IF hydrated THEN History(Chain(p)) ELSE <<>>
  <1>1. /\ DOMAIN x = RequestFields /\ x.prev = p /\ x.session = r /\ x.prompt = <<Input(r)>> /\ x.claims = {}
    BY PlainRequest
  <1> HIDE DEF x
  <1>2. /\ req[r].phase = "new"
        /\ req' = [req EXCEPT ![r] = [[x EXCEPT !.base = b] EXCEPT !.phase = "ready"]]
        /\ sdk' = [sdk EXCEPT ![r].base = h]
        /\ Discards(kind, p, streaming) /\ UNCHANGED rec
    BY DEF Synthesize, Rebuild, Arrives, Ready, x
  <1> HIDE DEF b, h
  <1>3. DOMAIN req' = Responses /\ \A q \in Responses : q # r => req'[q] = req[q]
    BY <1>2 DEF IInv, Shape
  <1>4. /\ DOMAIN req'[r] = RequestFields /\ req'[r].phase = "ready" /\ req'[r].prev = p
        /\ req'[r].session = r /\ req'[r].prompt = <<Input(r)>> /\ req'[r].claims = {}
    BY <1>1, <1>2 DEF IInv, Shape, RequestFields
  <1>5. Carries(req'[r].claims, req'[r].session, req'[r].prompt) /\ Input(r) \in Range(req'[r].prompt)
    BY <1>4, InputIsEntry DEF Carries
  <1>6. DOMAIN warm' = Responses /\ \A q \in Responses : warm'[q] \in {warm[q], NoWarm}
    BY <1>2, DiscardsWarm
  <1>7. DOMAIN sdk' = Responses /\ \A q \in Responses : DOMAIN sdk'[q] = {"base", "sent"} /\ sdk'[q].sent = sdk[q].sent
    BY <1>2 DEF IInv, Shape
  <1> QED
    BY <1>2, <1>3, <1>4, <1>5, <1>6, <1>7, PrepareKeepsInv

LEMMA ToldIsSeq ==
  ASSUME NEW result \in What, NEW p \in Responses, NEW r \in Responses, NEW added
  PROVE  Told(result, p, r, added) \in Seq(Entry)
  <1>1. <<<<result, p>>>> \in Seq(Entry)
    BY DEF Entry
  <1>2. (IF added THEN <<Input(r)>> ELSE <<>>) \in Seq(Entry)
    BY InputIsEntry, EmptySeq
  <1> QED
    BY <1>1, <1>2, ConcatProperties DEF Told

LEMMA AnswerFromRecordKeepsInv ==
  ASSUME IInv, NEW r \in Responses, NEW p \in Responses, NEW added, NEW hydrated,
         AnswerFromRecord(r, p, added, hydrated)
  PROVE  IInv'
  <1> DEFINE t == Told("told result", p, r, added)
             x == [Answers(r, p, r, added) EXCEPT !.input = t, !.prompt = t]
             b == IF hydrated THEN <<>> ELSE Transcript(Chain(p))
             h == IF hydrated THEN History(Chain(p)) ELSE <<>>
  <1>1. t \in Seq(Entry)
    BY ToldIsSeq DEF What
  <1> HIDE DEF t
  <1>2. /\ DOMAIN x = RequestFields /\ x.prev = p /\ x.session = r /\ x.kind = "turn" /\ x.prompt = t
        /\ x.claims = {}
    BY DEF Answers, NewRequest, RequestFields
  <1>3. /\ req[r].phase = "new"
        /\ req' = [req EXCEPT ![r] = [[x EXCEPT !.base = b] EXCEPT !.phase = "ready"]]
        /\ sdk' = [sdk EXCEPT ![r].base = h]
        /\ UNCHANGED <<rec, warm>>
    BY DEF AnswerFromRecord, Rebuild, Arrives, Ready, t
  <1> HIDE DEF x, b, h
  <1>4. DOMAIN req' = Responses /\ \A q \in Responses : q # r => req'[q] = req[q]
    BY <1>3 DEF IInv, Shape
  <1>5. /\ DOMAIN req'[r] = RequestFields /\ req'[r].phase = "ready" /\ req'[r].prev = p /\ req'[r].kind = "turn"
        /\ req'[r].session = r /\ req'[r].prompt = t /\ req'[r].claims = {}
    BY <1>2, <1>3 DEF IInv, Shape, RequestFields
  <1>6. Carries(req'[r].claims, req'[r].session, req'[r].prompt)
    BY <1>1, <1>5 DEF Carries
  <1>7. DOMAIN sdk' = Responses /\ \A q \in Responses : DOMAIN sdk'[q] = {"base", "sent"} /\ sdk'[q].sent = sdk[q].sent
    BY <1>3 DEF IInv, Shape
  <1> QED
    BY <1>3, <1>4, <1>5, <1>6, <1>7, PrepareKeepsInv DEF IInv, Shape

----------------------------------------------------------------------------
(* Steps that only spend a request, or take a warm session.                  *)

\* Claims that a session has heard are still heard, and nothing is claimed anew.
LEMMA ClaimsStay ==
  ASSUME IInv, RecordsKept, SessionsGrow,
         \A q \in Responses :
           req'[q].phase \in {"sent", "saved"} =>
             /\ req'[q].session \in Responses
             /\ \/ req'[q].claims = {}
                \/ req[q].phase \in {"sent", "saved"} /\ req'[q].claims \subseteq req[q].claims
  PROVE  ClaimsOK'
  <1> SUFFICES ASSUME NEW q \in Responses, req'[q].phase \in {"sent", "saved"}
               PROVE  /\ req'[q].session \in Responses
                      /\ \A id \in req'[q].claims :
                           id \in Responses /\ rec'[id].kind # "none" /\ (rec'[id].kind = "warm" => Delivered(id)')
    BY DEF ClaimsOK
  <1>1. \A id \in req'[q].claims : id \in Responses /\ rec[id].kind # "none" /\ (rec[id].kind = "warm" => Delivered(id))
    BY DEF IInv, ClaimsOK
  <1> QED
    BY <1>1, DeliveredStays

\* Prompts that wait still carry their claims.
LEMMA PromptsStay ==
  ASSUME IInv, RecordsKept,
         \A q \in Responses : req'[q].phase = "ready" => req'[q] = req[q],
         \A q \in Responses : warm'[q].held => warm'[q] = warm[q]
  PROVE  ReadyOK' /\ WarmOK'
  <1> USE DEF Input
  <1>1. ASSUME NEW q \in Responses, req'[q].phase = "ready"
        PROVE  /\ Carries(req[q].claims, req[q].session, req[q].prompt)'
               /\ Input(q) \in Range(req'[q].prompt) \/ req'[q].kind # "warm"
    <2>1. req'[q] = req[q] /\ Carries(req[q].claims, req[q].session, req[q].prompt)
          /\ (Input(q) \in Range(req[q].prompt) \/ req[q].kind # "warm")
      BY <1>1 DEF IInv, ReadyOK
    <2> QED
      BY <2>1 DEF Carries, RecordsKept
  <1>2. ASSUME NEW q \in Responses, warm'[q].held
        PROVE  Carries(warm[q].claims, warm[q].session, warm[q].prompt)'
    <2>1. warm'[q] = warm[q] /\ Carries(warm[q].claims, warm[q].session, warm[q].prompt)
      BY <1>2 DEF IInv, WarmOK
    <2> QED
      BY <2>1 DEF Carries, RecordsKept
  <1> QED
    BY <1>1, <1>2 DEF ReadyOK, WarmOK

\* No record stops claiming.
LEMMA PendingStays ==
  ASSUME IInv, RecordsKept, SessionsGrow,
         \A q \in Responses : rec'[q].kind = "warm" => rec'[q].pending \/ (rec[q].kind = "warm" /\ ~rec[q].pending)
                                                      \/ Delivered(q)'
  PROVE  PendingUntilDelivered'
  <1> USE DEF Input
  <1> SUFFICES ASSUME NEW q \in Responses, rec'[q].kind = "warm", ~rec'[q].pending
               PROVE  Delivered(q)'
    BY DEF PendingUntilDelivered, Delivered
  <1>1. CASE rec[q].kind = "warm" /\ ~rec[q].pending
    <2>1. Delivered(q)
      BY <1>1 DEF IInv, PendingUntilDelivered, Delivered
    <2> QED
      BY <1>1, <2>1, DeliveredStays
  <1> QED
    BY <1>1

LEMMA SaveWarmKeepsInv ==
  ASSUME IInv, NEW r \in Responses, SaveWarm(r)
  PROVE  IInv'
  <1> USE DEF Input
  <1> DEFINE w == [held |-> TRUE, session |-> req[r].session, base |-> req[r].base,
                   prompt |-> req[r].prompt, claims |-> req[r].claims \cup {r}]
             n == Saved(r, "warm", TRUE, "none")
  <1>1. /\ req[r].phase = "ready" /\ req[r].kind = "warm"
        /\ rec' = [rec EXCEPT ![r] = n]
        /\ warm' = [warm EXCEPT ![r] = w]
        /\ req' = [req EXCEPT ![r] = [NewRequest EXCEPT !.phase = "done"]]
        /\ UNCHANGED sdk
    BY DEF SaveWarm, Done
  <1>2. /\ n.kind = "warm" /\ n.session = req[r].session /\ n.pending = TRUE
        /\ n.line = Append(IF req[r].prev = None THEN <<>> ELSE rec[req[r].prev].line, r)
        /\ DOMAIN n = {"kind", "session", "line", "pending", "input", "answers", "added", "output"}
    BY DEF Saved
  <1> HIDE DEF n
  <1>3. /\ rec'[r] = n /\ \A q \in Responses : q # r => rec'[q] = rec[q] /\ req'[q] = req[q] /\ warm'[q] = warm[q]
        /\ req'[r] = [NewRequest EXCEPT !.phase = "done"] /\ warm'[r] = w
    BY <1>1 DEF IInv, Shape
  <1>4. /\ rec[r].kind = "none"
        /\ Carries(req[r].claims, req[r].session, req[r].prompt) /\ Input(r) \in Range(req[r].prompt)
    BY <1>1 DEF IInv, Unsaved, ReadyOK
  <1>5. RecordsKept /\ SessionsGrow
    BY <1>1, <1>3, <1>4 DEF RecordsKept, SessionsGrow
  <1>6. n.line \in Seq(Responses)
    BY <1>2 DEF IInv, Unsaved, RecordsOK
  <1>7. Shape'
    BY <1>1, <1>2, <1>3 DEF IInv, Shape, NewRequest, RequestFields
  <1>8. RecordsOK' /\ SentOK' /\ Unsaved'
    <2>1. RecordsOK'
      <3>1. n.session \in Responses
        BY <1>2, <1>4 DEF Carries
      <3> SUFFICES ASSUME NEW q \in Responses
                   PROVE  /\ rec'[q].line \in Seq(Responses)
                          /\ rec'[q].kind \in {"warm", "turn"} => rec'[q].session \in Responses
                          /\ rec'[q].pending => rec'[q].kind = "warm"
        BY DEF RecordsOK
      <3>2. CASE q = r
        BY <3>1, <3>2, <1>2, <1>3, <1>6
      <3>3. CASE q # r
        BY <3>3, <1>3 DEF IInv, RecordsOK
      <3> QED
        BY <3>2, <3>3
    <2>2. SentOK' /\ Unsaved'
      BY <1>1, <1>3 DEF IInv, SentOK, Unsaved, NewRequest
    <2> QED
      BY <2>1, <2>2
  <1>9. ReadyOK'
    <2> SUFFICES ASSUME NEW q \in Responses, req'[q].phase = "ready"
                 PROVE  /\ Carries(req[q].claims, req[q].session, req[q].prompt)'
                        /\ Input(q) \in Range(req'[q].prompt) \/ req'[q].kind # "warm"
      BY DEF ReadyOK
    <2>1. q # r /\ req'[q] = req[q]
      BY <1>3 DEF NewRequest
    <2>2. Carries(req[q].claims, req[q].session, req[q].prompt)
          /\ (Input(q) \in Range(req[q].prompt) \/ req[q].kind # "warm")
      BY <2>1 DEF IInv, ReadyOK
    <2> QED
      BY <2>1, <2>2, <1>5 DEF Carries, RecordsKept
  <1>10. WarmOK'
    <2>1. /\ req[r].session \in Responses /\ req[r].prompt \in Seq(Entry)
          /\ \A id \in req[r].claims \cup {r} :
               /\ id \in Responses /\ rec'[id].kind # "none"
               /\ rec'[id].kind = "warm" => rec'[id].session = req[r].session /\ Input(id) \in Range(req[r].prompt)
      <3>1. rec'[r].kind = "warm" /\ rec'[r].session = req[r].session
        BY <1>2, <1>3
      <3>2. \A id \in req[r].claims : id # r /\ id \in Responses /\ rec'[id] = rec[id]
        BY <1>3, <1>4 DEF Carries
      <3> QED
        BY <3>1, <3>2, <1>4 DEF Carries
    <2> SUFFICES ASSUME NEW q \in Responses, warm'[q].held
                 PROVE  Carries(warm[q].claims, warm[q].session, warm[q].prompt)'
      BY DEF WarmOK
    <2>2. CASE q = r
      <3>1. warm'[q].claims = req[r].claims \cup {r} /\ warm'[q].session = req[r].session /\ warm'[q].prompt = req[r].prompt
        BY <2>2, <1>3
      <3> QED
        BY <3>1, <2>1 DEF Carries
    <2>3. CASE q # r
      <3>1. warm'[q] = warm[q] /\ Carries(warm[q].claims, warm[q].session, warm[q].prompt)
        BY <2>3, <1>3 DEF IInv, WarmOK
      <3> QED
        BY <3>1, <1>5 DEF Carries, RecordsKept
    <2> QED
      BY <2>2, <2>3
  <1>11. ClaimsOK'
    <2>1. \A q \in Responses :
            req'[q].phase \in {"sent", "saved"} =>
              /\ req'[q].session \in Responses
              /\ req[q].phase \in {"sent", "saved"} /\ req'[q].claims \subseteq req[q].claims
      BY <1>3 DEF NewRequest, IInv, ClaimsOK
    <2> QED
      BY <2>1, <1>5, ClaimsStay
  <1>12. PendingUntilDelivered'
    BY <1>2, <1>3, <1>5, PendingStays
  <1> QED
    BY <1>7, <1>8, <1>9, <1>10, <1>11, <1>12 DEF IInv

\* Steps that touch neither records nor sessions.
LEMMA QuietKeepsInv ==
  ASSUME IInv, rec' = rec, sdk' = sdk,
         DOMAIN req' = Responses, DOMAIN warm' = Responses,
         \A q \in Responses : warm'[q] \in {warm[q], NoWarm},
         \A q \in Responses :
           \/ req'[q] = req[q]
           \/ /\ DOMAIN req'[q] = RequestFields /\ req'[q].prev \in Responses \cup {None}
              /\ \/ req'[q].phase = "done"
                 \/ req[q].phase = "sent" /\ req'[q].phase = "saved" /\ req'[q].session = req[q].session
                    /\ req'[q].claims = req[q].claims
  PROVE  IInv'
  <1>1. RecordsKept /\ SessionsGrow
    BY DEF RecordsKept, SessionsGrow
  <1>2. Shape'
    BY DEF IInv, Shape, NoWarm
  <1>3. RecordsOK' /\ SentOK'
    BY DEF IInv, RecordsOK, SentOK
  <1>4. ReadyOK' /\ WarmOK'
    <2>1. \A q \in Responses : req'[q].phase = "ready" => req'[q] = req[q]
      OBVIOUS
    <2>2. \A q \in Responses : warm'[q].held => warm'[q] = warm[q]
      BY DEF NoWarm
    <2> QED
      BY <2>1, <2>2, <1>1, PromptsStay
  <1>5. ClaimsOK'
    <2>1. \A q \in Responses :
            req'[q].phase \in {"sent", "saved"} =>
              /\ req'[q].session \in Responses
              /\ req[q].phase \in {"sent", "saved"} /\ req'[q].claims \subseteq req[q].claims
      BY DEF IInv, ClaimsOK
    <2> QED
      BY <2>1, <1>1, ClaimsStay
  <1>6. Unsaved'
    BY DEF IInv, Unsaved
  <1>7. PendingUntilDelivered'
    BY DEF IInv, PendingUntilDelivered, Input
  <1> QED
    BY <1>2, <1>3, <1>4, <1>5, <1>6, <1>7 DEF IInv

LEMMA SendKeepsInv ==
  ASSUME IInv, NEW r \in Responses, Send(r)
  PROVE  IInv'
  <1> DEFINE s == req[r].session
  <1>1. /\ req[r].phase = "ready" /\ req[r].kind = "turn"
        /\ sdk' = [sdk EXCEPT ![s] = [base |-> @.base \o req[r].base, sent |-> @.sent \o req[r].prompt]]
        /\ req' = [req EXCEPT ![r].phase = "sent"]
        /\ UNCHANGED <<rec, warm>>
    BY DEF Send
  <1>2. Carries(req[r].claims, s, req[r].prompt)
    BY <1>1 DEF IInv, ReadyOK
  <1>3. s \in Responses /\ req[r].prompt \in Seq(Entry) /\ sdk[s].sent \in Seq(Entry)
    BY <1>2 DEF Carries, IInv, SentOK
  <1>4. /\ sdk[s].sent \o req[r].prompt \in Seq(Entry)
        /\ Range(sdk[s].sent) \subseteq Range(sdk[s].sent \o req[r].prompt)
        /\ Range(req[r].prompt) \subseteq Range(sdk[s].sent \o req[r].prompt)
    BY <1>3, RangeOfConcat
  <1>5. /\ sdk'[s].sent = sdk[s].sent \o req[r].prompt /\ DOMAIN sdk'[s] = {"base", "sent"} /\ DOMAIN sdk' = Responses
        /\ \A q \in Responses : q # s => sdk'[q] = sdk[q]
    BY <1>1, <1>3 DEF IInv, Shape
  <1>6. /\ DOMAIN req' = Responses /\ DOMAIN req'[r] = RequestFields
        /\ req'[r].phase = "sent" /\ req'[r].prev = req[r].prev /\ req'[r].session = s /\ req'[r].claims = req[r].claims
        /\ \A q \in Responses : q # r => req'[q] = req[q]
    BY <1>1 DEF IInv, Shape, RequestFields
  <1> HIDE DEF s
  <1>7. RecordsKept /\ SessionsGrow
    BY <1>1, <1>4, <1>5 DEF RecordsKept, SessionsGrow
  <1>8. Shape'
    BY <1>1, <1>5, <1>6 DEF IInv, Shape
  <1>9. RecordsOK' /\ SentOK' /\ Unsaved'
    <2>1. RecordsOK' /\ SentOK'
      BY <1>1, <1>4, <1>5 DEF IInv, RecordsOK, SentOK
    <2>2. Unsaved'
      BY <1>1, <1>6 DEF IInv, Unsaved
    <2> QED
      BY <2>1, <2>2
  <1>10. ReadyOK' /\ WarmOK'
    BY <1>1, <1>6, <1>7, PromptsStay
  <1>11. ClaimsOK'
    <2> SUFFICES ASSUME NEW q \in Responses, req'[q].phase \in {"sent", "saved"}
                 PROVE  /\ req'[q].session \in Responses
                        /\ \A id \in req'[q].claims :
                             id \in Responses /\ rec'[id].kind # "none" /\ (rec'[id].kind = "warm" => Delivered(id)')
      BY DEF ClaimsOK
    <2>1. CASE q = r
      <3> SUFFICES ASSUME NEW id \in req[r].claims
                   PROVE  id \in Responses /\ rec'[id].kind # "none" /\ (rec'[id].kind = "warm" => Delivered(id)')
        BY <2>1, <1>3, <1>6
      <3>1. id \in Responses /\ rec[id].kind # "none"
            /\ (rec[id].kind = "warm" => rec[id].session = s /\ Input(id) \in Range(req[r].prompt))
        BY <1>2 DEF Carries
      <3> QED
        BY <3>1, <1>1, <1>4, <1>5 DEF Delivered, Input
    <2>2. CASE q # r
      <3>1. req'[q] = req[q] /\ \A id \in req[q].claims : id \in Responses /\ rec[id].kind # "none"
                                                        /\ (rec[id].kind = "warm" => Delivered(id))
        BY <2>2, <1>6 DEF IInv, ClaimsOK
      <3>2. req'[q].session \in Responses
        BY <3>1 DEF IInv, ClaimsOK
      <3> QED
        BY <3>1, <3>2, <1>7, DeliveredStays
    <2> QED
      BY <2>1, <2>2
  <1>12. PendingUntilDelivered'
    BY <1>1, <1>7, PendingStays
  <1> QED
    BY <1>8, <1>9, <1>10, <1>11, <1>12 DEF IInv

LEMMA ClearInputPendingKeepsInv ==
  ASSUME IInv, NEW r \in Responses, NEW id \in Responses, NEW fails, ClearInputPending(r, id, fails)
  PROVE  IInv'
  <1>1. /\ req[r].phase \in {"sent", "saved"} /\ id \in req[r].claims
        /\ req' = [req EXCEPT ![r].claims = @ \ {id}]
        /\ rec' = rec \/ rec' = [rec EXCEPT ![id].pending = FALSE]
        /\ UNCHANGED <<sdk, warm>>
    BY DEF ClearInputPending
  <1>2. /\ DOMAIN req' = Responses /\ DOMAIN req'[r] = RequestFields
        /\ req'[r].phase = req[r].phase /\ req'[r].prev = req[r].prev /\ req'[r].session = req[r].session
        /\ req'[r].claims \subseteq req[r].claims
        /\ \A q \in Responses : q # r => req'[q] = req[q]
    BY <1>1 DEF IInv, Shape, RequestFields
  <1>3. /\ DOMAIN rec' = Responses
        /\ \A q \in Responses : /\ DOMAIN rec'[q] = DOMAIN rec[q] /\ rec'[q].kind = rec[q].kind
                                 /\ rec'[q].session = rec[q].session /\ rec'[q].line = rec[q].line
        /\ rec'[id].pending \in {rec[id].pending, FALSE}
        /\ \A q \in Responses : q # id => rec'[q] = rec[q]
    <2>1. CASE rec' = rec
      BY <2>1 DEF IInv, Shape
    <2>2. CASE rec' = [rec EXCEPT ![id].pending = FALSE]
      <3>1. /\ DOMAIN rec' = Responses /\ rec'[id] = [rec[id] EXCEPT !.pending = FALSE]
            /\ \A q \in Responses : q # id => rec'[q] = rec[q]
        BY <2>2 DEF IInv, Shape
      <3>2. /\ DOMAIN rec'[id] = DOMAIN rec[id] /\ rec'[id].kind = rec[id].kind
            /\ rec'[id].session = rec[id].session /\ rec'[id].line = rec[id].line
            /\ rec'[id].pending = FALSE
        BY <3>1 DEF IInv, Shape
      <3> QED
        BY <3>1, <3>2
    <2> QED
      BY <1>1, <2>1, <2>2
  <1>4. RecordsKept /\ SessionsGrow
    <2>1. RecordsKept
      BY <1>3 DEF RecordsKept
    <2>2. SessionsGrow
      BY <1>1 DEF SessionsGrow
    <2> QED
      BY <2>1, <2>2
  <1>5. Shape'
    BY <1>1, <1>2, <1>3 DEF IInv, Shape
  <1>6. RecordsOK' /\ SentOK' /\ Unsaved'
    <2>1. RecordsOK'
      <3> SUFFICES ASSUME NEW q \in Responses
                   PROVE  /\ rec'[q].line \in Seq(Responses)
                          /\ rec'[q].kind \in {"warm", "turn"} => rec'[q].session \in Responses
                          /\ rec'[q].pending => rec'[q].kind = "warm"
        BY DEF RecordsOK
      <3>1. /\ rec[q].line \in Seq(Responses)
            /\ rec[q].kind \in {"warm", "turn"} => rec[q].session \in Responses
            /\ rec[q].pending => rec[q].kind = "warm"
        BY DEF IInv, RecordsOK
      <3>2. CASE q = id
        BY <3>1, <3>2, <1>3
      <3>3. CASE q # id
        BY <3>1, <3>3, <1>3
      <3> QED
        BY <3>2, <3>3
    <2>2. SentOK'
      BY <1>1 DEF IInv, SentOK
    <2>3. Unsaved'
      BY <1>2, <1>3 DEF IInv, Unsaved
    <2> QED
      BY <2>1, <2>2, <2>3
  <1>7. ReadyOK' /\ WarmOK'
    BY <1>1, <1>2, <1>4, PromptsStay
  <1>8. ClaimsOK'
    <2>1. \A q \in Responses :
            req'[q].phase \in {"sent", "saved"} =>
              /\ req'[q].session \in Responses
              /\ req[q].phase \in {"sent", "saved"} /\ req'[q].claims \subseteq req[q].claims
      BY <1>2 DEF IInv, ClaimsOK
    <2> QED
      BY <2>1, <1>4, ClaimsStay
  <1>9. PendingUntilDelivered'
    <2>1. rec[id].kind = "warm" => Delivered(id)
      BY <1>1 DEF IInv, ClaimsOK
    <2>2. rec'[id].kind = "warm" => Delivered(id)'
      <3>1. rec'[id].kind = rec[id].kind /\ rec'[id].session = rec[id].session /\ sdk' = sdk
        BY <1>1, <1>3
      <3> QED
        BY <2>1, <3>1 DEF Delivered, Input
    <2>3. \A q \in Responses : rec'[q].kind = "warm" => rec'[q].pending \/ (rec[q].kind = "warm" /\ ~rec[q].pending)
                                                        \/ Delivered(q)'
      <3> SUFFICES ASSUME NEW q \in Responses, rec'[q].kind = "warm"
                   PROVE  rec'[q].pending \/ (rec[q].kind = "warm" /\ ~rec[q].pending) \/ Delivered(q)'
        OBVIOUS
      <3>1. CASE q = id
        BY <3>1, <2>2
      <3>2. CASE q # id
        BY <3>2, <1>3
      <3> QED
        BY <3>1, <3>2
    <2> QED
      BY <2>3, <1>4, PendingStays
  <1> QED
    BY <1>5, <1>6, <1>7, <1>8, <1>9 DEF IInv

LEMMA DeleteResponseKeepsInv ==
  ASSUME IInv, NEW p \in Responses, DeleteResponse(p)
  PROVE  IInv'
  <1> DEFINE n == [NoRecord EXCEPT !.kind = "deleted", !.session = rec[p].session, !.line = rec[p].line]
  <1>1. Present(p) /\ rec' = [rec EXCEPT ![p] = n] /\ UNCHANGED <<sdk, req, warm>>
    BY DEF DeleteResponse
  <1>2. /\ n.kind = "deleted" /\ n.line = rec[p].line /\ n.pending = FALSE
        /\ DOMAIN n = {"kind", "session", "line", "pending", "input", "answers", "added", "output"}
    BY DEF NoRecord
  <1> HIDE DEF n
  <1>3. rec'[p] = n /\ DOMAIN rec' = Responses /\ \A q \in Responses : q # p => rec'[q] = rec[q]
    BY <1>1 DEF IInv, Shape
  <1>4. RecordsKept /\ SessionsGrow
    BY <1>1, <1>2, <1>3 DEF RecordsKept, SessionsGrow
  <1>5. Shape'
    BY <1>1, <1>2, <1>3 DEF IInv, Shape
  <1>6. RecordsOK'
    BY <1>2, <1>3 DEF IInv, RecordsOK
  <1>7. SentOK' /\ Unsaved'
    <2>1. rec[p].kind # "none"
      BY <1>1 DEF Present
    <2> QED
      BY <2>1, <1>1, <1>3 DEF IInv, SentOK, Unsaved
  <1>8. ReadyOK' /\ WarmOK'
    BY <1>1, <1>4, PromptsStay
  <1>9. ClaimsOK'
    <2>1. \A q \in Responses :
            req'[q].phase \in {"sent", "saved"} =>
              /\ req'[q].session \in Responses
              /\ req[q].phase \in {"sent", "saved"} /\ req'[q].claims \subseteq req[q].claims
      BY <1>1 DEF IInv, ClaimsOK
    <2> QED
      BY <2>1, <1>4, ClaimsStay
  <1>10. PendingUntilDelivered'
    <2>1. \A q \in Responses : rec'[q].kind = "warm" => q # p /\ rec'[q] = rec[q]
      BY <1>2, <1>3
    <2> QED
      BY <2>1, <1>4, PendingStays
  <1> QED
    BY <1>5, <1>6, <1>7, <1>8, <1>9, <1>10 DEF IInv

\* A session hears more, and a request is spent on it.
LEMMA HearsMore ==
  ASSUME IInv, NEW s \in Responses, NEW t \in Seq(Entry), sdk' = [sdk EXCEPT ![s].sent = @ \o t]
  PROVE  /\ SessionsGrow /\ SentOK'
         /\ DOMAIN sdk' = Responses /\ \A q \in Responses : DOMAIN sdk'[q] = {"base", "sent"}
  <1>1. sdk[s].sent \in Seq(Entry)
    BY DEF IInv, SentOK
  <1>2. sdk[s].sent \o t \in Seq(Entry) /\ Range(sdk[s].sent) \subseteq Range(sdk[s].sent \o t)
    BY <1>1, RangeOfConcat
  <1>3. /\ sdk'[s].sent = sdk[s].sent \o t /\ DOMAIN sdk'[s] = {"base", "sent"} /\ DOMAIN sdk' = Responses
        /\ \A q \in Responses : q # s => sdk'[q] = sdk[q]
    BY DEF IInv, Shape
  <1> QED
    BY <1>2, <1>3 DEF SessionsGrow, SentOK, IInv, Shape

LEMMA GenerateKeepsInv ==
  ASSUME IInv, NEW r \in Responses, NEW output, Generate(r, output)
  PROVE  IInv'
  <1> DEFINE s == req[r].session
             n == Saved(r, "turn", FALSE, output)
             t == <<<<"answer", r>>>> \o (IF output = "text" THEN <<>> ELSE <<<<"call", r>>>>)
  <1>1. /\ req[r].phase = "sent"
        /\ rec' = [rec EXCEPT ![r] = n]
        /\ sdk' = [sdk EXCEPT ![s].sent = @ \o t]
        /\ req' = [req EXCEPT ![r].phase = "saved"]
        /\ UNCHANGED warm
    BY DEF Generate
  <1>2. /\ n.kind = "turn" /\ n.session = s /\ n.pending = FALSE
        /\ n.line = Append(IF req[r].prev = None THEN <<>> ELSE rec[req[r].prev].line, r)
        /\ DOMAIN n = {"kind", "session", "line", "pending", "input", "answers", "added", "output"}
    BY DEF Saved
  <1> HIDE DEF n
  <1>3. rec'[r] = n /\ DOMAIN rec' = Responses /\ \A q \in Responses : q # r => rec'[q] = rec[q]
    BY <1>1 DEF IInv, Shape
  <1>4. rec[r].kind = "none" /\ s \in Responses /\ sdk[s].sent \in Seq(Entry)
    BY <1>1 DEF IInv, Unsaved, ClaimsOK, SentOK
  <1>5. t \in Seq(Entry)
    <2>1. <<"answer", r>> \in Entry /\ <<"call", r>> \in Entry
      BY DEF Entry, What
    <2>2. <<<<"answer", r>>>> \in Seq(Entry) /\ <<<<"call", r>>>> \in Seq(Entry) /\ <<>> \in Seq(Entry)
      BY <2>1
    <2> QED
      BY <2>2, ConcatProperties
  <1> HIDE DEF t
  <1>6. /\ SessionsGrow /\ SentOK'
        /\ DOMAIN sdk' = Responses /\ \A q \in Responses : DOMAIN sdk'[q] = {"base", "sent"}
    BY <1>1, <1>4, <1>5, HearsMore
  <1>7. RecordsKept
    BY <1>3, <1>4 DEF RecordsKept
  <1>8. /\ DOMAIN req' = Responses /\ DOMAIN req'[r] = RequestFields
        /\ req'[r].phase = "saved" /\ req'[r].prev = req[r].prev /\ req'[r].session = s /\ req'[r].claims = req[r].claims
        /\ \A q \in Responses : q # r => req'[q] = req[q]
    BY <1>1 DEF IInv, Shape, RequestFields
  <1>9. Shape'
    BY <1>1, <1>2, <1>3, <1>6, <1>8 DEF IInv, Shape
  <1>10. RecordsOK'
    <2>1. n.line \in Seq(Responses)
      BY <1>2 DEF IInv, Unsaved, RecordsOK
    <2> SUFFICES ASSUME NEW q \in Responses
                 PROVE  /\ rec'[q].line \in Seq(Responses)
                        /\ rec'[q].kind \in {"warm", "turn"} => rec'[q].session \in Responses
                        /\ rec'[q].pending => rec'[q].kind = "warm"
      BY DEF RecordsOK
    <2>2. CASE q = r
      BY <2>1, <2>2, <1>2, <1>3, <1>4
    <2>3. CASE q # r
      BY <2>3, <1>3 DEF IInv, RecordsOK
    <2> QED
      BY <2>2, <2>3
  <1>11. Unsaved'
    BY <1>3, <1>8 DEF IInv, Unsaved
  <1>12. ReadyOK' /\ WarmOK'
    BY <1>1, <1>7, <1>8, PromptsStay
  <1>13. ClaimsOK'
    <2>1. \A q \in Responses :
            req'[q].phase \in {"sent", "saved"} =>
              /\ req'[q].session \in Responses
              /\ req[q].phase \in {"sent", "saved"} /\ req'[q].claims \subseteq req[q].claims
      BY <1>1, <1>4, <1>8 DEF IInv, ClaimsOK
    <2> QED
      BY <2>1, <1>6, <1>7, ClaimsStay
  <1>14. PendingUntilDelivered'
    <2>1. \A q \in Responses : rec'[q].kind = "warm" => q # r /\ rec'[q] = rec[q]
      BY <1>2, <1>3
    <2> QED
      BY <2>1, <1>6, <1>7, PendingStays
  <1> QED
    BY <1>6, <1>9, <1>10, <1>11, <1>12, <1>13, <1>14 DEF IInv

LEMMA AnswerLiveKeepsInv ==
  ASSUME IInv, NEW r \in Responses, NEW p \in Responses, NEW added, AnswerLive(r, p, added)
  PROVE  IInv'
  <1> DEFINE s == rec[p].session
             x == Answers(r, p, s, added)
             t == Told("result", p, r, added)
  <1>1. /\ req[r].phase = "new" /\ Present(p)
        /\ req' = [req EXCEPT ![r] = [x EXCEPT !.phase = "sent"]]
        /\ sdk' = [sdk EXCEPT ![s].sent = @ \o t]
        /\ UNCHANGED <<rec, warm>>
    BY DEF AnswerLive, Arrives
  <1>2. DOMAIN x = RequestFields /\ x.prev = p /\ x.session = s /\ x.claims = {}
    BY DEF Answers, NewRequest, RequestFields
  <1>3. t \in Seq(Entry) /\ s \in Responses
    BY <1>1, ToldIsSeq DEF What, IInv, RecordsOK, Present
  <1> HIDE DEF x, t
  <1>4. /\ SessionsGrow /\ SentOK'
        /\ DOMAIN sdk' = Responses /\ \A q \in Responses : DOMAIN sdk'[q] = {"base", "sent"}
    BY <1>1, <1>3, HearsMore
  <1> HIDE DEF s
  <1>5. RecordsKept
    BY <1>1 DEF RecordsKept
  <1>6. /\ DOMAIN req' = Responses /\ DOMAIN req'[r] = RequestFields
        /\ req'[r].phase = "sent" /\ req'[r].prev = p /\ req'[r].session = s /\ req'[r].claims = {}
        /\ \A q \in Responses : q # r => req'[q] = req[q]
    BY <1>1, <1>2 DEF IInv, Shape, RequestFields
  <1>7. Shape'
    BY <1>1, <1>4, <1>6 DEF IInv, Shape
  <1>8. RecordsOK' /\ Unsaved'
    BY <1>1, <1>6 DEF IInv, RecordsOK, Unsaved
  <1>9. ReadyOK' /\ WarmOK'
    BY <1>1, <1>5, <1>6, PromptsStay
  <1>10. ClaimsOK'
    <2>1. \A q \in Responses :
            req'[q].phase \in {"sent", "saved"} =>
              /\ req'[q].session \in Responses
              /\ \/ req'[q].claims = {}
                 \/ req[q].phase \in {"sent", "saved"} /\ req'[q].claims \subseteq req[q].claims
      BY <1>3, <1>6 DEF IInv, ClaimsOK
    <2> QED
      BY <2>1, <1>4, <1>5, ClaimsStay
  <1>11. PendingUntilDelivered'
    BY <1>1, <1>4, <1>5, PendingStays
  <1> QED
    BY <1>4, <1>7, <1>8, <1>9, <1>10, <1>11 DEF IInv

----------------------------------------------------------------------------

\* Every state satisfies the invariant (response_session.go, responses.go,
\* warm_response.go).
THEOREM Invariant == Spec => []IInv
  <1>1. Init => IInv
    <2> SUFFICES ASSUME Init PROVE IInv
      OBVIOUS
    <2>1. Shape
      BY DEF Init, Shape, NoRecord, NewRequest, NoWarm, RequestFields
    <2>2. RecordsOK /\ SentOK /\ PendingUntilDelivered
      BY EmptySeq DEF Init, RecordsOK, SentOK, PendingUntilDelivered, NoRecord
    <2>3. ReadyOK /\ WarmOK /\ ClaimsOK /\ Unsaved
      BY DEF Init, ReadyOK, WarmOK, ClaimsOK, Unsaved, NewRequest, NoWarm, NoRecord
    <2> QED
      BY <2>1, <2>2, <2>3 DEF IInv
  <1>2. IInv /\ [Next]_vars => IInv'
    <2> SUFFICES ASSUME IInv, [Next]_vars PROVE IInv'
      OBVIOUS
    <2>1. ASSUME NEW r \in Responses, Prepare(r) PROVE IInv'
      BY <2>1, StartFreshKeepsInv, ResumeKeepsInv, SynthesizeKeepsInv, UseWarmKeepsInv, AnswerLiveKeepsInv,
         AnswerFromRecordKeepsInv DEF Prepare
    <2>2. ASSUME NEW r \in Responses, DropWarm(r) PROVE IInv'
      <3>1. warm' = [warm EXCEPT ![r] = NoWarm] /\ UNCHANGED <<rec, sdk, req>>
        BY <2>2 DEF DropWarm
      <3> QED
        BY <3>1, QuietKeepsInv DEF IInv, Shape
    <2>3. ASSUME NEW r \in Responses, Fails(r) PROVE IInv'
      <3>1. /\ req[r].phase \in {"ready", "sent"}
            /\ req' = [req EXCEPT ![r].phase = IF @ = "ready" THEN "done" ELSE "saved"]
            /\ UNCHANGED <<rec, sdk, warm>>
        BY <2>3 DEF Fails
      <3>2. /\ DOMAIN req' = Responses /\ DOMAIN req'[r] = RequestFields /\ req'[r].prev = req[r].prev
            /\ req'[r].phase = (IF req[r].phase = "ready" THEN "done" ELSE "saved")
            /\ req'[r].session = req[r].session /\ req'[r].claims = req[r].claims
            /\ \A q \in Responses : q # r => req'[q] = req[q]
        BY <3>1 DEF IInv, Shape, RequestFields
      <3> QED
        BY <3>1, <3>2, QuietKeepsInv DEF IInv, Shape, Unsaved
    <2>4. ASSUME Crash PROVE IInv'
      <3> DEFINE d == [NewRequest EXCEPT !.phase = "done"]
      <3>1. /\ DOMAIN req' = Responses /\ DOMAIN warm' = Responses /\ rec' = rec /\ sdk' = sdk
            /\ \A q \in Responses : warm'[q] = NoWarm /\ (req'[q] = req[q] \/ req'[q] = d)
        BY <2>4 DEF Crash
      <3>2. DOMAIN d = RequestFields /\ d.prev = None /\ d.phase = "done"
        BY DEF NewRequest, RequestFields
      <3> HIDE DEF d
      <3> QED
        BY <3>1, <3>2, QuietKeepsInv
    <2>5. ASSUME UNCHANGED <<rec, sdk, req, warm>> PROVE IInv'
      BY <2>5, QuietKeepsInv DEF IInv, Shape
    <2>6. ASSUME NEW p \in Responses, BatchGone(p) PROVE IInv'
      BY <2>5, <2>6 DEF BatchGone
    <2>7. CASE UNCHANGED vars
      BY <2>5, <2>7 DEF vars
    <2>8. CASE Next
      BY <2>1, <2>2, <2>3, <2>4, <2>6, <2>8, SaveWarmKeepsInv, SendKeepsInv, ClearInputPendingKeepsInv,
         GenerateKeepsInv, DeleteResponseKeepsInv DEF Next
    <2> QED
      BY <2>7, <2>8
  <1> QED
    BY <1>1, <1>2, PTL DEF Spec

\* No warmed input is lost (markPendingInputDelivered, pendingInputForSession):
\* however many warm records are chained, whichever sends fail, whenever the
\* process dies and whoever races, a record that no longer claims its input has
\* it in its SDK session.
THEOREM WarmedInputDelivered == Spec => []PendingUntilDelivered
  <1>1. IInv => PendingUntilDelivered
    BY DEF IInv
  <1> QED
    BY <1>1, Invariant, PTL

----------------------------------------------------------------------------
(* Induction, flattening and subsequences.                                   *)

\* Induction up to a number, over a set.
LEMMA UpTo ==
  ASSUME NEW n \in Nat, NEW T, 0 \in T, \A k \in 1 .. n : k - 1 \in T => k \in T
  PROVE  \A k \in 0 .. n : k \in T
  <1> DEFINE C == {k \in 0 .. n : k \notin T}
  <1>1. SUFFICES ASSUME C # {} PROVE FALSE
    OBVIOUS
  <1>2. C \in SUBSET Nat
    OBVIOUS
  <1>3. PICK m \in C : \A y \in C : m <= y
    BY <1>1, <1>2, NatMinimum
  <1>4. m \in 1 .. n /\ m - 1 \in 0 .. n /\ ~(m <= m - 1)
    BY <1>3
  <1>5. m - 1 \in T
    BY <1>3, <1>4
  <1> QED
    BY <1>3, <1>4, <1>5

\* FlattenSeq by its prefixes.
Flattens(h, seqs, n) ==
  /\ h[0] = <<>> /\ FlattenSeq(seqs) = h[n]
  /\ \A k \in 1 .. n : h[k] = h[k - 1] \o seqs[k]

LEMMA Flattened ==
  ASSUME NEW S, NEW seqs, NEW n \in Nat, seqs \in [1 .. n -> Seq(S)]
  PROVE  \E h \in [0 .. n -> Seq(S)] : Flattens(h, seqs, n)
  <1> DEFINE Eq(f, k) == \A i \in 1 .. k : f[i] = IF i = 1 THEN seqs[i] ELSE f[i - 1] \o seqs[i]
             T == {k \in 0 .. n : \E f \in [1 .. k -> Seq(S)] : Eq(f, k)}
             F == CHOOSE flatten : flatten = [i \in 1 .. n |-> IF i = 1 THEN seqs[i] ELSE flatten[i - 1] \o seqs[i]]
  <1>0. Len(seqs) = n
    OBVIOUS
  <1>1. 0 \in T
    <2>1. [i \in 1 .. 0 |-> <<>>] \in [1 .. 0 -> Seq(S)] /\ Eq([i \in 1 .. 0 |-> <<>>], 0)
      OBVIOUS
    <2> HIDE DEF Eq
    <2>2. \E f \in [1 .. 0 -> Seq(S)] : Eq(f, 0)
      BY <2>1
    <2>3. \A k \in 0 .. n : (\E f \in [1 .. k -> Seq(S)] : Eq(f, k)) => k \in T
      OBVIOUS
    <2>4. 0 \in 0 .. n
      OBVIOUS
    <2> HIDE DEF T
    <2> QED
      BY <2>2, <2>3, <2>4
  <1>2. ASSUME NEW k \in 1 .. n, k - 1 \in T PROVE k \in T
    <2>1. PICK f \in [1 .. k - 1 -> Seq(S)] : Eq(f, k - 1)
      BY <1>2
    <2> DEFINE g == [i \in 1 .. k |-> IF i < k THEN f[i] ELSE IF k = 1 THEN seqs[k] ELSE f[k - 1] \o seqs[k]]
    <2>2. \A i \in 1 .. k : i < k => i \in 1 .. k - 1
      OBVIOUS
    <2>3. g \in [1 .. k -> Seq(S)]
      <3>1. k # 1 => f[k - 1] \in Seq(S)
        BY <2>1
      <3>2. seqs[k] \in Seq(S)
        OBVIOUS
      <3>3. k # 1 => f[k - 1] \o seqs[k] \in Seq(S)
        BY <3>1, <3>2, ConcatProperties
      <3> QED
        BY <3>2, <3>3, <2>2
    <2>4. Eq(g, k)
      <3> SUFFICES ASSUME NEW i \in 1 .. k PROVE g[i] = IF i = 1 THEN seqs[i] ELSE g[i - 1] \o seqs[i]
        OBVIOUS
      <3>1. CASE i < k
        <4>1. i \in 1 .. k - 1 /\ g[i] = f[i] /\ (i # 1 => i - 1 \in 1 .. k /\ g[i - 1] = f[i - 1])
          BY <3>1
        <4> QED
          BY <4>1, <2>1
      <3>2. CASE i = k
        <4>1. k # 1 => k - 1 \in 1 .. k /\ g[k - 1] = f[k - 1]
          OBVIOUS
        <4> QED
          BY <4>1, <3>2
      <3> QED
        BY <3>1, <3>2
    <2> HIDE DEF g, Eq
    <2>5. \E x \in [1 .. k -> Seq(S)] : Eq(x, k)
      BY <2>3, <2>4
    <2> QED
      BY <2>5
  <1>3. n \in T
    <2> HIDE DEF T
    <2>1. \A k \in 0 .. n : k \in T
      BY <1>1, <1>2, UpTo
    <2> QED
      BY <2>1
  <1>4. PICK f \in [1 .. n -> Seq(S)] : Eq(f, n)
    BY <1>3
  <1>5. f = [i \in 1 .. n |-> IF i = 1 THEN seqs[i] ELSE f[i - 1] \o seqs[i]]
    BY <1>4
  <1>6. F = [i \in 1 .. n |-> IF i = 1 THEN seqs[i] ELSE F[i - 1] \o seqs[i]]
    BY <1>5
  <1>7. FlattenSeq(seqs) = IF n = 0 THEN seqs ELSE F[n]
    BY <1>0 DEF FlattenSeq
  <1> HIDE DEF F
  <1> DEFINE h == [k \in 0 .. n |-> IF k = 0 THEN <<>> ELSE F[k]]
             U == {k \in 0 .. n : h[k] \in Seq(S)}
  <1>8. \A k \in 1 .. n : h[k] = IF k = 1 THEN seqs[k] ELSE h[k - 1] \o seqs[k]
    <2> SUFFICES ASSUME NEW k \in 1 .. n PROVE h[k] = IF k = 1 THEN seqs[k] ELSE h[k - 1] \o seqs[k]
      OBVIOUS
    <2>1. h[k] = F[k] /\ (k # 1 => h[k - 1] = F[k - 1])
      OBVIOUS
    <2>2. F[k] = IF k = 1 THEN seqs[k] ELSE F[k - 1] \o seqs[k]
      BY <1>6
    <2> QED
      BY <2>1, <2>2
  <1>9. h[0] = <<>> /\ (n = 0 => seqs = <<>>)
    OBVIOUS
  <1>10. FlattenSeq(seqs) = h[n]
    BY <1>7, <1>9
  <1> HIDE DEF h
  <1>11. \A k \in 0 .. n : k \in U
    <2>1. 0 \in U
      <3>1. <<>> \in Seq(S) /\ 0 \in 0 .. n
        BY EmptySeq
      <3>2. h[0] \in Seq(S)
        BY <3>1, <1>9
      <3> QED
        BY <3>1, <3>2
    <2>2. ASSUME NEW k \in 1 .. n, k - 1 \in U PROVE k \in U
      <3>1. h[k - 1] \in Seq(S) /\ seqs[k] \in Seq(S)
        BY <2>2
      <3>2. h[k - 1] \o seqs[k] \in Seq(S)
        BY <3>1, ConcatProperties
      <3>3. h[k] \in Seq(S)
        BY <3>1, <3>2, <1>8
      <3> QED
        BY <3>3
    <2> HIDE DEF U
    <2> QED
      BY <2>1, <2>2, UpTo
  <1>12. \A k \in 0 .. n : h[k] \in Seq(S)
    BY <1>11
  <1>13. \A k \in 1 .. n : h[k] = h[k - 1] \o seqs[k]
    <2> SUFFICES ASSUME NEW k \in 1 .. n PROVE h[k] = h[k - 1] \o seqs[k]
      OBVIOUS
    <2>1. CASE k = 1
      <3>1. seqs[1] \in Seq(S)
        BY <2>1
      <3> QED
        BY <2>1, <3>1, <1>8, <1>9, ConcatEmptySeq
    <2>2. CASE k # 1
      BY <2>2, <1>8
    <2> QED
      BY <2>1, <2>2
  <1>14. h \in [0 .. n -> Seq(S)]
    BY <1>12 DEF h
  <1>15. Flattens(h, seqs, n)
    BY <1>9, <1>10, <1>13 DEF Flattens
  <1> QED
    BY <1>14, <1>15

\* Every entry of a is in b, in the same order.
Embeds(a, b) ==
  \E f \in [1 .. Len(a) -> 1 .. Len(b)] :
    /\ \A i \in 1 .. Len(a) : a[i] = b[f[i]]
    /\ \A i, j \in 1 .. Len(a) : i < j => f[i] < f[j]

\* The greedy match of Within finds a subsequence that is there.
LEMMA EmbedsIsWithin ==
  ASSUME NEW S, NEW a \in Seq(S), NEW b \in Seq(S), Embeds(a, b)
  PROVE  Within(a, b)
  <1> DEFINE n == Len(b)
             Next1(m, k) == IF m < Len(a) /\ a[m + 1] = b[k] THEN m + 1 ELSE m
             Eq(f, k) == \A i \in 0 .. k : f[i] = IF i = 0 THEN 0 ELSE Next1(f[i - 1], i)
             T == {k \in 0 .. n : \E f \in [0 .. k -> Nat] : Eq(f, k)}
             F == CHOOSE matched : matched = [i \in 0 .. n |-> IF i = 0 THEN 0 ELSE Next1(matched[i - 1], i)]
  <1>0. n \in Nat /\ Len(a) \in Nat
    BY LenProperties
  <1> HIDE DEF n
  <1>1. 0 \in T
    <2>1. [i \in 0 .. 0 |-> 0] \in [0 .. 0 -> Nat] /\ Eq([i \in 0 .. 0 |-> 0], 0)
      OBVIOUS
    <2> HIDE DEF Eq
    <2>2. \E f \in [0 .. 0 -> Nat] : Eq(f, 0)
      BY <2>1
    <2>3. \A k \in 0 .. n : (\E f \in [0 .. k -> Nat] : Eq(f, k)) => k \in T
      OBVIOUS
    <2>4. 0 \in 0 .. n
      BY <1>0
    <2> HIDE DEF T
    <2> QED
      BY <2>2, <2>3, <2>4
  <1>2. ASSUME NEW k \in 1 .. n, k - 1 \in T PROVE k \in T
    <2>1. PICK f \in [0 .. k - 1 -> Nat] : Eq(f, k - 1)
      BY <1>2
    <2> DEFINE g == [i \in 0 .. k |-> IF i < k THEN f[i] ELSE Next1(f[k - 1], k)]
    <2>2. k \in Nat /\ k - 1 \in 0 .. k - 1 /\ \A i \in 0 .. k : i < k => i \in 0 .. k - 1
      BY <1>0
    <2>3. g \in [0 .. k -> Nat]
      <3>1. f[k - 1] \in Nat
        BY <2>1, <2>2
      <3> QED
        BY <3>1, <2>2
    <2>4. Eq(g, k)
      <3> SUFFICES ASSUME NEW i \in 0 .. k PROVE g[i] = IF i = 0 THEN 0 ELSE Next1(g[i - 1], i)
        OBVIOUS
      <3>1. CASE i < k
        <4>1. i \in 0 .. k - 1 /\ g[i] = f[i] /\ (i # 0 => i - 1 \in 0 .. k /\ i - 1 < k /\ g[i - 1] = f[i - 1])
          BY <3>1, <2>2
        <4> HIDE DEF g
        <4>2. f[i] = IF i = 0 THEN 0 ELSE Next1(f[i - 1], i)
          BY <4>1, <2>1
        <4> QED
          BY <4>1, <4>2
      <3>2. CASE i = k
        <4>1. k # 0 /\ k - 1 \in 0 .. k /\ k - 1 < k /\ g[k - 1] = f[k - 1] /\ g[k] = Next1(f[k - 1], k)
          BY <2>2
        <4> HIDE DEF g
        <4> QED
          BY <4>1, <3>2
      <3> QED
        BY <3>1, <3>2, <2>2
    <2> HIDE DEF g, Eq
    <2>5. \E x \in [0 .. k -> Nat] : Eq(x, k)
      BY <2>3, <2>4
    <2>6. \A q \in 0 .. n : (\E f1 \in [0 .. q -> Nat] : Eq(f1, q)) => q \in T
      OBVIOUS
    <2>7. k \in 0 .. n
      BY <1>0
    <2> HIDE DEF T
    <2> QED
      BY <2>5, <2>6, <2>7
  <1>3. n \in T
    <2> HIDE DEF T
    <2>1. \A k \in 0 .. n : k \in T
      BY <1>0, <1>1, <1>2, UpTo
    <2> QED
      BY <2>1, <1>0
  <1>4. PICK h \in [0 .. n -> Nat] : Eq(h, n)
    BY <1>3
  <1>5. h = [i \in 0 .. n |-> IF i = 0 THEN 0 ELSE Next1(h[i - 1], i)]
    BY <1>4
  <1>6. F = [i \in 0 .. n |-> IF i = 0 THEN 0 ELSE Next1(F[i - 1], i)]
    BY <1>5
  <1>7. Within(a, b) <=> F[n] = Len(a)
    BY DEF Within, n
  <1>8. /\ F[0] = 0
        /\ \A k \in 1 .. n : F[k] = IF F[k - 1] < Len(a) /\ a[F[k - 1] + 1] = b[k] THEN F[k - 1] + 1 ELSE F[k - 1]
    <2>1. 0 \in 0 .. n /\ \A k \in 1 .. n : k \in 0 .. n /\ k # 0
      BY <1>0
    <2> HIDE DEF F
    <2>2. \A k \in 0 .. n : F[k] = IF k = 0 THEN 0 ELSE Next1(F[k - 1], k)
      BY <1>6
    <2> QED
      BY <2>1, <2>2
  <1> HIDE DEF F
  <1>9. \A k \in 0 .. n : F[k] \in 0 .. Len(a)
    <2> DEFINE U == {k \in 0 .. n : F[k] \in 0 .. Len(a)}
    <2>1. 0 \in U
      BY <1>0, <1>8
    <2>2. ASSUME NEW k \in 1 .. n, k - 1 \in U PROVE k \in U
      <3>1. F[k - 1] \in 0 .. Len(a)
        BY <2>2
      <3>2. F[k] = IF F[k - 1] < Len(a) /\ a[F[k - 1] + 1] = b[k] THEN F[k - 1] + 1 ELSE F[k - 1]
        BY <1>8
      <3>3. F[k] = F[k - 1] \/ (F[k - 1] < Len(a) /\ F[k] = F[k - 1] + 1)
        BY <3>2
      <3>4. F[k] \in 0 .. Len(a)
        BY <3>1, <3>3, <1>0
      <3>5. k \in 0 .. n
        BY <1>0
      <3> QED
        BY <3>4, <3>5
    <2>3. \A k \in 0 .. n : k \in U
      <3> HIDE DEF U
      <3> QED
        BY <2>1, <2>2, <1>0, UpTo
    <2> QED
      BY <2>3
  <1>10. PICK e \in [1 .. Len(a) -> 1 .. Len(b)] :
           /\ \A i \in 1 .. Len(a) : a[i] = b[e[i]]
           /\ \A i, j \in 1 .. Len(a) : i < j => e[i] < e[j]
    BY DEF Embeds
  <1>11. \A i \in 1 .. Len(a) : e[i] \in 1 .. n
    BY DEF n
  <1>12. \A k \in 1 .. n : F[k - 1] <= F[k] /\ F[k - 1] \in 0 .. Len(a) /\ F[k] \in 0 .. Len(a)
    <2> SUFFICES ASSUME NEW k \in 1 .. n
                 PROVE F[k - 1] <= F[k] /\ F[k - 1] \in 0 .. Len(a) /\ F[k] \in 0 .. Len(a)
      OBVIOUS
    <2>1. k \in 0 .. n /\ k - 1 \in 0 .. n
      BY <1>0
    <2>2. F[k - 1] \in 0 .. Len(a) /\ F[k] \in 0 .. Len(a)
      BY <2>1, <1>9
    <2>3. F[k] = F[k - 1] + 1 \/ F[k] = F[k - 1]
      BY <1>8
    <2> QED
      BY <2>2, <2>3, <1>0
  \* The match never loses what it has.
  <1>13. \A i \in 0 .. Len(a), k \in 0 .. n : (i # 0 => e[i] <= k) => F[k] >= i
    <2> DEFINE U == {k \in 0 .. n : \A i \in 0 .. Len(a) : (i # 0 => e[i] <= k) => F[k] >= i}
    <2>1. 0 \in U
      <3>1. 0 \in 0 .. n
        BY <1>0
      <3> SUFFICES ASSUME NEW i \in 0 .. Len(a), i # 0 => e[i] <= 0 PROVE F[0] >= i
        BY <3>1
      <3>2. i = 0
        BY <1>0, <1>11
      <3> QED
        BY <3>2, <1>8
    <2>2. ASSUME NEW k \in 1 .. n, k - 1 \in U PROVE k \in U
      <3>1. k \in Nat /\ k \in 0 .. n /\ k - 1 \in 0 .. n
        BY <1>0
      <3>2. \A i \in 0 .. Len(a) : (i # 0 => e[i] <= k - 1) => F[k - 1] >= i
        BY <2>2
      <3> SUFFICES ASSUME NEW i \in 0 .. Len(a), i # 0 => e[i] <= k PROVE F[k] >= i
        BY <3>1
      <3>3. F[k - 1] <= F[k] /\ F[k - 1] \in Nat /\ F[k] \in Nat /\ i \in Nat
        BY <1>0, <1>12
      <3>4. CASE i = 0
        BY <3>3, <3>4
      <3>5. CASE i # 0 /\ e[i] <= k - 1
        BY <3>2, <3>3, <3>5
      <3>6. CASE i # 0 /\ ~(e[i] <= k - 1)
        <4>1. i \in 1 .. Len(a) /\ i - 1 \in 0 .. Len(a) /\ e[i] \in Nat
          BY <3>6, <1>0, <1>11
        <4>2. e[i] = k
          BY <4>1, <3>1, <3>6
        <4>3. i - 1 # 0 => e[i - 1] <= k - 1
          <5>1. i - 1 # 0 => i - 1 \in 1 .. Len(a) /\ i - 1 < i
            BY <4>1
          <5>2. i - 1 # 0 => e[i - 1] < e[i] /\ e[i - 1] \in Nat
            BY <5>1, <4>1, <1>10, <1>11
          <5> QED
            BY <5>2, <4>2, <3>1
        <4>4. F[k - 1] >= i - 1
          BY <4>1, <4>3, <3>2
        <4>5. CASE F[k - 1] >= i
          BY <4>5, <3>3
        <4>6. CASE F[k - 1] = i - 1
          <5>1. F[k - 1] < Len(a) /\ F[k - 1] + 1 = i
            BY <4>6, <4>1, <3>3, <1>0
          <5>2. a[F[k - 1] + 1] = b[k]
            BY <5>1, <4>1, <4>2, <1>10
          <5>3. F[k] = F[k - 1] + 1
            BY <5>1, <5>2, <1>8
          <5> QED
            BY <5>1, <5>3, <3>3
        <4> QED
          BY <4>4, <4>5, <4>6, <3>3
      <3> QED
        BY <3>4, <3>5, <3>6
    <2>3. \A k \in 0 .. n : k \in U
      <3> HIDE DEF U
      <3> QED
        BY <2>1, <2>2, <1>0, UpTo
    <2> QED
      BY <2>3
  <1>14. F[n] >= Len(a)
    <2>1. Len(a) \in 0 .. Len(a) /\ n \in 0 .. n
      BY <1>0
    <2>2. Len(a) # 0 => e[Len(a)] <= n
      BY <1>0, <1>11
    <2> QED
      BY <2>1, <2>2, <1>13
  <1>15. F[n] \in 0 .. Len(a)
    BY <1>0, <1>9
  <1> QED
    BY <1>0, <1>7, <1>14, <1>15

LEMMA EmbedsSelf ==
  ASSUME NEW S, NEW a \in Seq(S)
  PROVE  Embeds(a, a)
  <1> DEFINE f == [i \in 1 .. Len(a) |-> i]
  <1>1. /\ f \in [1 .. Len(a) -> 1 .. Len(a)]
        /\ \A i \in 1 .. Len(a) : a[i] = a[f[i]]
        /\ \A i, j \in 1 .. Len(a) : i < j => f[i] < f[j]
    OBVIOUS
  <1> HIDE DEF f
  <1> QED
    BY <1>1 DEF Embeds

LEMMA EmbedsNothing == ASSUME NEW b PROVE Embeds(<<>>, b)
  <1> DEFINE f == [i \in 1 .. 0 |-> 1]
  <1>1. /\ Len(<<>>) = 0 /\ f \in [1 .. 0 -> 1 .. Len(b)]
        /\ \A i \in 1 .. 0 : <<>>[i] = b[f[i]]
        /\ \A i, j \in 1 .. 0 : i < j => f[i] < f[j]
    OBVIOUS
  <1> HIDE DEF f
  <1>2. f \in [1 .. Len(<<>>) -> 1 .. Len(b)]
    BY <1>1
  <1>3. \A i, j \in 1 .. Len(<<>>) : i < j => f[i] < f[j]
    BY <1>1
  <1>4. \A i \in 1 .. Len(<<>>) : <<>>[i] = b[f[i]]
    BY <1>1
  <1> QED
    BY <1>2, <1>3, <1>4, Zenon DEF Embeds

LEMMA EmbedsIn ==
  ASSUME NEW S, NEW a \in Seq(S), NEW b \in Seq(S), NEW c \in Seq(S), Embeds(a, b), Embeds(b, c)
  PROVE  Embeds(a, c)
  <1>1. PICK f \in [1 .. Len(a) -> 1 .. Len(b)] :
          /\ \A i \in 1 .. Len(a) : a[i] = b[f[i]]
          /\ \A i, j \in 1 .. Len(a) : i < j => f[i] < f[j]
    BY DEF Embeds
  <1>2. PICK g \in [1 .. Len(b) -> 1 .. Len(c)] :
          /\ \A i \in 1 .. Len(b) : b[i] = c[g[i]]
          /\ \A i, j \in 1 .. Len(b) : i < j => g[i] < g[j]
    BY DEF Embeds
  <1> DEFINE h == [i \in 1 .. Len(a) |-> g[f[i]]]
  <1>3. /\ h \in [1 .. Len(a) -> 1 .. Len(c)]
        /\ \A i \in 1 .. Len(a) : a[i] = c[h[i]]
        /\ \A i, j \in 1 .. Len(a) : i < j => h[i] < h[j]
    BY <1>1, <1>2
  <1> HIDE DEF h
  <1> QED
    BY <1>3 DEF Embeds

LEMMA EmbedsConcat ==
  ASSUME NEW S, NEW a \in Seq(S), NEW b \in Seq(S), NEW c \in Seq(S), NEW d \in Seq(S),
         Embeds(a, b), Embeds(c, d)
  PROVE  Embeds(a \o c, b \o d)
  <1>1. PICK f \in [1 .. Len(a) -> 1 .. Len(b)] :
          /\ \A i \in 1 .. Len(a) : a[i] = b[f[i]]
          /\ \A i, j \in 1 .. Len(a) : i < j => f[i] < f[j]
    BY DEF Embeds
  <1>2. PICK g \in [1 .. Len(c) -> 1 .. Len(d)] :
          /\ \A i \in 1 .. Len(c) : c[i] = d[g[i]]
          /\ \A i, j \in 1 .. Len(c) : i < j => g[i] < g[j]
    BY DEF Embeds
  <1>3. /\ Len(a) \in Nat /\ Len(b) \in Nat /\ Len(c) \in Nat /\ Len(d) \in Nat
        /\ a \o c \in Seq(S) /\ b \o d \in Seq(S)
        /\ Len(a \o c) = Len(a) + Len(c) /\ Len(b \o d) = Len(b) + Len(d)
        /\ \A i \in 1 .. Len(a) + Len(c) : (a \o c)[i] = IF i <= Len(a) THEN a[i] ELSE c[i - Len(a)]
        /\ \A i \in 1 .. Len(b) + Len(d) : (b \o d)[i] = IF i <= Len(b) THEN b[i] ELSE d[i - Len(b)]
    BY ConcatProperties, LenProperties
  <1> DEFINE h == [i \in 1 .. Len(a) + Len(c) |-> IF i <= Len(a) THEN f[i] ELSE Len(b) + g[i - Len(a)]]
  <1>4. \A i \in 1 .. Len(a) + Len(c) : \/ i <= Len(a) /\ i \in 1 .. Len(a)
                                        \/ ~(i <= Len(a)) /\ i - Len(a) \in 1 .. Len(c)
    BY <1>3
  <1>5. \A i \in 1 .. Len(a) + Len(c) : IF i <= Len(a) THEN h[i] = f[i] /\ h[i] \in 1 .. Len(b)
                                        ELSE h[i] = Len(b) + g[i - Len(a)] /\ g[i - Len(a)] \in 1 .. Len(d)
    BY <1>1, <1>2, <1>4
  <1> HIDE DEF h
  <1>6. \A i \in 1 .. Len(a) + Len(c) : h[i] \in 1 .. Len(b) + Len(d)
    BY <1>3, <1>5
  <1>7. ASSUME NEW i \in 1 .. Len(a) + Len(c) PROVE (a \o c)[i] = (b \o d)[h[i]]
    <2>1. CASE i <= Len(a)
      <3>1. h[i] = f[i] /\ f[i] \in 1 .. Len(b) /\ h[i] \in 1 .. Len(b) + Len(d) /\ i \in 1 .. Len(a)
        BY <2>1, <1>1, <1>4, <1>5, <1>6
      <3> QED
        BY <3>1, <2>1, <1>1, <1>3
    <2>2. CASE ~(i <= Len(a))
      <3>1. /\ h[i] = Len(b) + g[i - Len(a)] /\ g[i - Len(a)] \in 1 .. Len(d) /\ i - Len(a) \in 1 .. Len(c)
            /\ h[i] \in 1 .. Len(b) + Len(d)
        BY <2>2, <1>4, <1>5, <1>6
      <3>2. ~(h[i] <= Len(b)) /\ h[i] - Len(b) = g[i - Len(a)]
        BY <3>1, <1>3
      <3> QED
        BY <3>1, <3>2, <2>2, <1>2, <1>3
    <2> QED
      BY <2>1, <2>2
  <1>8. ASSUME NEW i \in 1 .. Len(a) + Len(c), NEW j \in 1 .. Len(a) + Len(c), i < j PROVE h[i] < h[j]
    <2>1. CASE j <= Len(a)
      <3>1. i <= Len(a) /\ i \in 1 .. Len(a) /\ j \in 1 .. Len(a)
        BY <2>1, <1>3, <1>8
      <3> QED
        BY <3>1, <2>1, <1>1, <1>5, <1>8
    <2>2. CASE i <= Len(a) /\ ~(j <= Len(a))
      <3>1. h[i] \in 1 .. Len(b) /\ h[j] = Len(b) + g[j - Len(a)] /\ g[j - Len(a)] \in 1 .. Len(d)
        BY <2>2, <1>5
      <3> QED
        BY <3>1, <1>3
    <2>3. CASE ~(i <= Len(a))
      <3>1. ~(j <= Len(a)) /\ i - Len(a) \in 1 .. Len(c) /\ j - Len(a) \in 1 .. Len(c) /\ i - Len(a) < j - Len(a)
        BY <2>3, <1>3, <1>4, <1>8
      <3>2. g[i - Len(a)] < g[j - Len(a)]
        BY <3>1, <1>2
      <3>3. h[i] = Len(b) + g[i - Len(a)] /\ h[j] = Len(b) + g[j - Len(a)]
            /\ g[i - Len(a)] \in Nat /\ g[j - Len(a)] \in Nat
        BY <3>1, <2>3, <1>5
      <3> QED
        BY <3>2, <3>3, <1>3
    <2> QED
      BY <2>1, <2>2, <2>3
  <1>9. h \in [1 .. Len(a \o c) -> 1 .. Len(b \o d)]
    BY <1>3, <1>6 DEF h
  <1> QED
    BY <1>3, <1>7, <1>8, <1>9 DEF Embeds

\* What is in a text is in it when more comes before, after or in between.
LEMMA EmbedsMore ==
  ASSUME NEW S, NEW a \in Seq(S), NEW b \in Seq(S), NEW c \in Seq(S), NEW d \in Seq(S)
  PROVE  /\ Embeds(a, b) => Embeds(a, b \o c) /\ Embeds(a, c \o b)
         /\ Embeds(a, b \o d) => Embeds(a, b \o (c \o d))
  <1>1. b \o c \in Seq(S) /\ c \o b \in Seq(S) /\ c \o d \in Seq(S) /\ b \o d \in Seq(S) /\ b \o (c \o d) \in Seq(S)
        /\ <<>> \in Seq(S)
    BY ConcatProperties, EmptySeq
  <1>2. /\ <<>> \o b = b /\ b \o <<>> = b /\ <<>> \o d = d /\ a \o <<>> = a /\ <<>> \o a = a
    BY ConcatEmptySeq
  <1>3. Embeds(<<>>, c)
    BY EmbedsNothing
  <1>4. Embeds(a, b) => Embeds(a, b \o c) /\ Embeds(a, c \o b)
    <2> SUFFICES ASSUME Embeds(a, b) PROVE Embeds(a, b \o c) /\ Embeds(a, c \o b)
      OBVIOUS
    <2>1. Embeds(a \o <<>>, b \o c)
      BY <1>1, <1>3, EmbedsConcat
    <2>2. Embeds(<<>> \o a, c \o b)
      BY <1>1, <1>3, EmbedsConcat
    <2> QED
      BY <2>1, <2>2, <1>2
  <1>5. Embeds(b \o d, b \o (c \o d))
    <2>1. Embeds(b, b) /\ Embeds(d, d)
      BY EmbedsSelf
    <2>2. Embeds(<<>> \o d, c \o d)
      BY <2>1, <1>1, <1>3, EmbedsConcat
    <2> QED
      BY <2>1, <2>2, <1>1, <1>2, EmbedsConcat
  <1>6. Embeds(a, b \o d) => Embeds(a, b \o (c \o d))
    BY <1>1, <1>5, EmbedsIn
  <1> QED
    BY <1>4, <1>6

Associates(a, b, c) == (a \o b) \o c = a \o (b \o c)

LEMMA ConcatAssociates ==
  ASSUME NEW S, NEW a \in Seq(S), NEW b \in Seq(S), NEW c \in Seq(S)
  PROVE  Associates(a, b, c)
  BY DEF Associates

LEMMA FlattenSplit ==
  ASSUME NEW S, NEW n \in Nat, NEW A \in [1 .. n -> Seq(S)], NEW m \in 0 .. n
  PROVE  LET P == [i \in 1 .. m |-> A[i]]
             Q == [i \in 1 .. n - m |-> A[m + i]]
         IN /\ FlattenSeq(P) \in Seq(S) /\ FlattenSeq(Q) \in Seq(S) /\ FlattenSeq(A) \in Seq(S)
            /\ FlattenSeq(A) = FlattenSeq(P) \o FlattenSeq(Q)
  <1> DEFINE P == [i \in 1 .. m |-> A[i]]
             Q == [i \in 1 .. n - m |-> A[m + i]]
  <1>1. /\ P \in [1 .. m -> Seq(S)] /\ Q \in [1 .. n - m -> Seq(S)] /\ m \in Nat /\ n - m \in Nat
        /\ \A i \in 1 .. m : P[i] = A[i]
        /\ \A i \in 1 .. n - m : Q[i] = A[m + i] /\ m + i \in 1 .. n
    OBVIOUS
  <1> HIDE DEF P, Q
  <1>2p. PICK h \in [0 .. n -> Seq(S)] : Flattens(h, A, n)
    BY Flattened
  <1>2. h[0] = <<>> /\ FlattenSeq(A) = h[n] /\ \A k \in 1 .. n : h[k] = h[k - 1] \o A[k]
    BY <1>2p DEF Flattens
  <1>3p. PICK p \in [0 .. m -> Seq(S)] : Flattens(p, P, m)
    BY <1>1, Flattened
  <1>3. p[0] = <<>> /\ FlattenSeq(P) = p[m] /\ \A k \in 1 .. m : p[k] = p[k - 1] \o P[k]
    BY <1>3p DEF Flattens
  <1>4p. PICK q \in [0 .. n - m -> Seq(S)] : Flattens(q, Q, n - m)
    BY <1>1, Flattened
  <1>4. q[0] = <<>> /\ FlattenSeq(Q) = q[n - m] /\ \A k \in 1 .. n - m : q[k] = q[k - 1] \o Q[k]
    BY <1>4p DEF Flattens
  <1>5. \A k \in 0 .. m : p[k] = h[k]
    <2> DEFINE T == {k \in 0 .. m : p[k] = h[k]}
    <2>1. 0 \in T
      BY <1>1, <1>2, <1>3
    <2>2. ASSUME NEW k \in 1 .. m, k - 1 \in T PROVE k \in T
      <3>1. k \in 0 .. m /\ k \in 1 .. n /\ p[k - 1] = h[k - 1] /\ P[k] = A[k]
        BY <1>1, <2>2
      <3> QED
        BY <3>1, <1>2, <1>3
    <2>3. \A k \in 0 .. m : k \in T
      <3> HIDE DEF T
      <3> QED
        BY <2>1, <2>2, <1>1, UpTo
    <2> QED
      BY <2>3
  <1>6. \A k \in 0 .. n - m : h[m + k] = p[m] \o q[k]
    <2> DEFINE T == {k \in 0 .. n - m : h[m + k] = p[m] \o q[k]}
    <2>0. p[m] = h[m] /\ p[m] \in Seq(S)
      BY <1>1, <1>3, <1>5
    <2>1. 0 \in T
      <3>1. 0 \in 0 .. n - m /\ m + 0 = m
        BY <1>1
      <3>2. p[m] \o q[0] = p[m]
        BY <2>0, <1>4, ConcatEmptySeq
      <3> QED
        BY <3>1, <3>2, <2>0
    <2>2. ASSUME NEW k \in 1 .. n - m, k - 1 \in T PROVE k \in T
      <3>1. k \in 0 .. n - m /\ k - 1 \in 0 .. n - m /\ m + k \in 1 .. n /\ m + k - 1 = m + (k - 1) /\ Q[k] = A[m + k]
        BY <1>1
      <3>2. h[m + (k - 1)] = p[m] \o q[k - 1]
        BY <2>2
      <3>3. h[m + k] = (p[m] \o q[k - 1]) \o Q[k]
        <4>1. PICK j \in 1 .. n : j = m + k
          BY <3>1
        <4>2. h[j] = h[j - 1] \o A[j]
          BY <1>2
        <4>3. j - 1 = m + (k - 1)
          BY <4>1
        <4>4. h[j - 1] = p[m] \o q[k - 1] /\ A[j] = Q[k]
          BY <3>1, <3>2, <4>1, <4>3
        <4>5. h[j] = (p[m] \o q[k - 1]) \o Q[k]
          BY <4>2, <4>4
        <4> QED
          BY <4>1, <4>5
      <3>4. q[k - 1] \in Seq(S) /\ Q[k] \in Seq(S)
        BY <3>1, <1>1, <1>4
      <3>5. (p[m] \o q[k - 1]) \o Q[k] = p[m] \o (q[k - 1] \o Q[k])
        <4> DEFINE a == p[m]
                   b == q[k - 1]
                   c == Q[k]
        <4>1. a \in Seq(S) /\ b \in Seq(S) /\ c \in Seq(S)
          BY <3>4, <2>0
        <4> HIDE DEF a, b, c
        <4>2. Associates(a, b, c)
          BY <4>1, ConcatAssociates
        <4> QED
          BY <4>2 DEF a, b, c, Associates
      <3>6. q[k] = q[k - 1] \o Q[k]
        BY <1>4
      <3>7. h[m + k] = p[m] \o q[k]
        BY <3>3, <3>5, <3>6
      <3> QED
        BY <3>1, <3>7
    <2>3. \A k \in 0 .. n - m : k \in T
      <3> HIDE DEF T
      <3> QED
        BY <2>1, <2>2, <1>1, UpTo
    <2> QED
      BY <2>3
  <1>7. h[n] = p[m] \o q[n - m]
    <2>1. n - m \in 0 .. n - m /\ m + (n - m) = n
      BY <1>1
    <2> QED
      BY <2>1, <1>6
  <1>8. n \in 0 .. n /\ m \in 0 .. m /\ n - m \in 0 .. n - m
    BY <1>1
  <1>9. h[n] \in Seq(S) /\ p[m] \in Seq(S) /\ q[n - m] \in Seq(S)
    BY <1>8, <1>2, <1>3, <1>4
  <1>10. FlattenSeq(P) \in Seq(S) /\ FlattenSeq(Q) \in Seq(S) /\ FlattenSeq(A) \in Seq(S)
         /\ FlattenSeq(A) = FlattenSeq(P) \o FlattenSeq(Q)
    BY <1>2, <1>3, <1>4, <1>7, <1>9
  <1> QED
    BY <1>10 DEF P, Q

LEMMA FlattenOne ==
  ASSUME NEW S, NEW s \in Seq(S)
  PROVE  FlattenSeq([i \in 1 .. 1 |-> s]) = s
  <1>1. [i \in 1 .. 1 |-> s] \in [1 .. 1 -> Seq(S)]
    OBVIOUS
  <1>2p. PICK h \in [0 .. 1 -> Seq(S)] : Flattens(h, [i \in 1 .. 1 |-> s], 1)
    BY <1>1, Flattened
  <1>2. /\ h[0] = <<>> /\ FlattenSeq([i \in 1 .. 1 |-> s]) = h[1]
        /\ \A k \in 1 .. 1 : h[k] = h[k - 1] \o [i \in 1 .. 1 |-> s][k]
    BY <1>2p DEF Flattens
  <1>3. h[1] = <<>> \o s
    <2>1. 1 \in 1 .. 1 /\ 1 - 1 = 0
      OBVIOUS
    <2> QED
      BY <2>1, <1>2
  <1> QED
    BY <1>2, <1>3, ConcatEmptySeq

LEMMA FlattenNone == FlattenSeq(<<>>) = <<>>
  BY DEF FlattenSeq

\* Sequences of one each.
LEMMA FlattenSingles ==
  ASSUME NEW S, NEW n \in Nat, NEW x \in [1 .. n -> S]
  PROVE  FlattenSeq([i \in 1 .. n |-> <<x[i]>>]) = x
  <1> DEFINE A == [i \in 1 .. n |-> <<x[i]>>]
  <1>1. A \in [1 .. n -> Seq(S)] /\ \A i \in 1 .. n : A[i] = <<x[i]>>
    OBVIOUS
  <1> HIDE DEF A
  <1>2p. PICK h \in [0 .. n -> Seq(S)] : Flattens(h, A, n)
    BY <1>1, Flattened
  <1>2. h[0] = <<>> /\ FlattenSeq(A) = h[n] /\ \A k \in 1 .. n : h[k] = h[k - 1] \o A[k]
    BY <1>2p DEF Flattens
  <1> DEFINE T == {k \in 0 .. n : h[k] = [i \in 1 .. k |-> x[i]]}
  <1>3. 0 \in T
    <2>1. <<>> = [i \in 1 .. 0 |-> x[i]]
      OBVIOUS
    <2> QED
      BY <2>1, <1>2
  <1>4. ASSUME NEW k \in 1 .. n, k - 1 \in T PROVE k \in T
    <2>1. k \in 0 .. n /\ h[k - 1] = [i \in 1 .. k - 1 |-> x[i]] /\ k - 1 \in Nat
      BY <1>4
    <2> DEFINE p == [i \in 1 .. k - 1 |-> x[i]]
    <2>2. p \in Seq(S) /\ Len(p) = k - 1 /\ <<x[k]>> \in Seq(S) /\ Len(<<x[k]>>) = 1
      <3>1. p \in [1 .. k - 1 -> S]
        OBVIOUS
      <3> QED
        BY <3>1, <2>1, SeqDef, LenProperties
    <2>3. \A i \in 1 .. k - 1 : p[i] = x[i]
      OBVIOUS
    <2> HIDE DEF p
    <2>4. /\ p \o <<x[k]>> \in Seq(S) /\ Len(p \o <<x[k]>>) = k
          /\ \A i \in 1 .. k : (p \o <<x[k]>>)[i] = IF i <= k - 1 THEN p[i] ELSE <<x[k]>>[i - (k - 1)]
      BY <2>2, ConcatProperties
    <2>5. \A i \in 1 .. k : (p \o <<x[k]>>)[i] = x[i]
      <3> SUFFICES ASSUME NEW i \in 1 .. k PROVE (p \o <<x[k]>>)[i] = x[i]
        OBVIOUS
      <3>1. CASE i <= k - 1
        BY <3>1, <2>3, <2>4
      <3>2. CASE i = k
        <4>1. ~(i <= k - 1) /\ i - (k - 1) = 1
          BY <3>2
        <4> QED
          BY <4>1, <3>2, <2>4
      <3>3. i <= k - 1 \/ i = k
        OBVIOUS
      <3> QED
        BY <3>1, <3>2, <3>3
    <2>6. p \o <<x[k]>> = [i \in 1 .. k |-> x[i]]
      BY <2>4, <2>5, LenProperties
    <2>7. h[k] = p \o <<x[k]>>
      BY <2>1, <1>1, <1>2 DEF p
    <2>8. h[k] = [i \in 1 .. k |-> x[i]]
      BY <2>6, <2>7
    <2> QED
      BY <2>1, <2>8
  <1>5. \A k \in 0 .. n : k \in T
    <2> HIDE DEF T
    <2> QED
      BY <1>3, <1>4, UpTo
  <1>6. h[n] = [i \in 1 .. n |-> x[i]]
    BY <1>5
  <1>7. [i \in 1 .. n |-> x[i]] = x
    OBVIOUS
  <1> QED
    BY <1>2, <1>6, <1>7 DEF A

LEMMA FlattenEmbeds ==
  ASSUME NEW S, NEW n \in Nat, NEW A \in [1 .. n -> Seq(S)], NEW B \in [1 .. n -> Seq(S)],
         \A k \in 1 .. n : Embeds(A[k], B[k])
  PROVE  Embeds(FlattenSeq(A), FlattenSeq(B))
  <1>1p. PICK g \in [0 .. n -> Seq(S)] : Flattens(g, A, n)
    BY Flattened
  <1>1. g[0] = <<>> /\ FlattenSeq(A) = g[n] /\ \A k \in 1 .. n : g[k] = g[k - 1] \o A[k]
    BY <1>1p DEF Flattens
  <1>2p. PICK h \in [0 .. n -> Seq(S)] : Flattens(h, B, n)
    BY Flattened
  <1>2. h[0] = <<>> /\ FlattenSeq(B) = h[n] /\ \A k \in 1 .. n : h[k] = h[k - 1] \o B[k]
    BY <1>2p DEF Flattens
  <1> DEFINE T == {k \in 0 .. n : Embeds(g[k], h[k])}
  <1>3. 0 \in T
    BY <1>1, <1>2, EmbedsNothing
  <1>4. ASSUME NEW k \in 1 .. n, k - 1 \in T PROVE k \in T
    <2>1. k \in 0 .. n /\ k - 1 \in 0 .. n /\ Embeds(g[k - 1], h[k - 1])
      BY <1>4
    <2>2. g[k - 1] \in Seq(S) /\ h[k - 1] \in Seq(S) /\ A[k] \in Seq(S) /\ B[k] \in Seq(S)
      BY <2>1
    <2>3. Embeds(g[k - 1] \o A[k], h[k - 1] \o B[k])
      BY <2>1, <2>2, EmbedsConcat
    <2>4. Embeds(g[k], h[k])
      BY <2>3, <1>1, <1>2
    <2> QED
      BY <2>1, <2>4
  <1>5. \A k \in 0 .. n : k \in T
    <2> HIDE DEF T
    <2> QED
      BY <1>3, <1>4, UpTo
  <1> QED
    BY <1>1, <1>2, <1>5

\* Where the entries of a flattened sequence come from: off[k] entries come
\* before those of the k-th.
Places(off, A, n) ==
  /\ off[0] = 0 /\ off[n] = Len(FlattenSeq(A))
  /\ \A k \in 1 .. n : off[k] = off[k - 1] + Len(A[k])
  /\ \A k \in 1 .. n : off[k] <= off[n]
  /\ \A k \in 1 .. n : \A o \in 1 .. Len(A[k]) : FlattenSeq(A)[off[k - 1] + o] = A[k][o]
  /\ \A i \in 1 .. Len(FlattenSeq(A)) : \E k \in 1 .. n : \E o \in 1 .. Len(A[k]) : i = off[k - 1] + o

LEMMA FlattenPlaces ==
  ASSUME NEW S, NEW n \in Nat, NEW A \in [1 .. n -> Seq(S)]
  PROVE  /\ FlattenSeq(A) \in Seq(S)
         /\ \E off \in [0 .. n -> Nat] : Places(off, A, n)
  <1>1p. PICK h \in [0 .. n -> Seq(S)] : Flattens(h, A, n)
    BY Flattened
  <1>1. h[0] = <<>> /\ FlattenSeq(A) = h[n] /\ \A k \in 1 .. n : h[k] = h[k - 1] \o A[k]
    BY <1>1p DEF Flattens
  <1> DEFINE off == [k \in 0 .. n |-> Len(h[k])]
  <1>2. /\ off \in [0 .. n -> Nat] /\ \A k \in 0 .. n : off[k] = Len(h[k])
    BY <1>1, LenProperties
  <1> HIDE DEF off
  <1>3. \A k \in 1 .. n : /\ h[k - 1] \in Seq(S) /\ A[k] \in Seq(S) /\ k \in 0 .. n /\ k - 1 \in 0 .. n
                          /\ off[k] = off[k - 1] + Len(A[k]) /\ Len(A[k]) \in Nat /\ off[k - 1] \in Nat
                          /\ \A i \in 1 .. off[k] : h[k][i] = IF i <= off[k - 1] THEN h[k - 1][i] ELSE A[k][i - off[k - 1]]
    <2> SUFFICES ASSUME NEW k \in 1 .. n
                 PROVE  /\ h[k - 1] \in Seq(S) /\ A[k] \in Seq(S) /\ k \in 0 .. n /\ k - 1 \in 0 .. n
                        /\ off[k] = off[k - 1] + Len(A[k]) /\ Len(A[k]) \in Nat /\ off[k - 1] \in Nat
                        /\ \A i \in 1 .. off[k] : h[k][i] = IF i <= off[k - 1] THEN h[k - 1][i] ELSE A[k][i - off[k - 1]]
      OBVIOUS
    <2>1. k \in 0 .. n /\ k - 1 \in 0 .. n /\ h[k - 1] \in Seq(S) /\ A[k] \in Seq(S) /\ h[k] = h[k - 1] \o A[k]
      <3>1. k \in 0 .. n /\ k - 1 \in 0 .. n
        OBVIOUS
      <3>2. h \in [0 .. n -> Seq(S)] /\ A \in [1 .. n -> Seq(S)]
        OBVIOUS
      <3>3. h[k - 1] \in Seq(S) /\ A[k] \in Seq(S)
        BY <3>1, <3>2
      <3> QED
        BY <3>1, <3>3, <1>1
    <2>2. off[k] = Len(h[k]) /\ off[k - 1] = Len(h[k - 1])
      BY <2>1, <1>2
    <2> QED
      BY <2>1, <2>2, ConcatProperties, LenProperties
  <1> DEFINE T == {m \in 0 .. n :
                     /\ \A k \in 1 .. m : off[k] <= off[m]
                     /\ \A k \in 1 .. m : \A o \in 1 .. Len(A[k]) : h[m][off[k - 1] + o] = A[k][o]
                     /\ \A i \in 1 .. off[m] : \E k \in 1 .. m : \E o \in 1 .. Len(A[k]) : i = off[k - 1] + o}
  <1>4. 0 \in T
    <2>1. off[0] = 0
      BY <1>1, <1>2
    <2> QED
      BY <2>1
  <1>5. ASSUME NEW m \in 1 .. n, m - 1 \in T PROVE m \in T
    <2>1. /\ \A k \in 1 .. m - 1 : off[k] <= off[m - 1]
          /\ \A k \in 1 .. m - 1 : \A o \in 1 .. Len(A[k]) : h[m - 1][off[k - 1] + o] = A[k][o]
          /\ \A i \in 1 .. off[m - 1] : \E k \in 1 .. m - 1 : \E o \in 1 .. Len(A[k]) : i = off[k - 1] + o
      BY <1>5
    <2>2. m \in 0 .. n /\ off[m] = off[m - 1] + Len(A[m]) /\ off[m - 1] \in Nat /\ Len(A[m]) \in Nat
      BY <1>3
    <2>3. ASSUME NEW k \in 1 .. m PROVE off[k] <= off[m]
      <3>1. CASE k = m
        BY <3>1, <1>2, <2>2
      <3>2. CASE k # m
        <4>1. k \in 1 .. m - 1 /\ k \in 0 .. n
          BY <3>2
        <4>2. off[k] <= off[m - 1] /\ off[k] \in Nat
          BY <4>1, <2>1, <1>2
        <4> QED
          BY <4>2, <2>2
      <3> QED
        BY <3>1, <3>2
    <2>4. ASSUME NEW k \in 1 .. m, NEW o \in 1 .. Len(A[k]) PROVE h[m][off[k - 1] + o] = A[k][o]
      <3>0. k \in 1 .. n /\ off[k - 1] \in Nat /\ Len(A[k]) \in Nat /\ off[k] = off[k - 1] + Len(A[k]) /\ off[k] <= off[m]
        <4>1. k \in 1 .. n
          OBVIOUS
        <4> QED
          BY <4>1, <1>3, <2>3
      <3>1. off[k - 1] + o \in 1 .. off[m] /\ off[k - 1] + o <= off[k]
        <4> DEFINE a == off[k - 1]
                   b == Len(A[k])
                   c == off[m]
        <4>1. a \in Nat /\ b \in Nat /\ c \in Nat /\ off[k] = a + b /\ a + b <= c /\ o \in 1 .. b
          <5>1. a \in Nat /\ b \in Nat /\ off[k] = a + b
            BY <3>0
          <5>2. c \in Nat
            <6>1. m \in 0 .. n
              BY <2>2
            <6> QED
              BY <6>1, <1>2
          <5>3. off[k] <= c
            BY <3>0
          <5>4. o \in 1 .. b
            OBVIOUS
          <5> QED
            BY <5>1, <5>2, <5>3, <5>4
        <4> HIDE DEF a, b, c
        <4>2. a + o \in 1 .. c /\ a + o <= a + b
          BY <4>1
        <4> QED
          BY <4>1, <4>2 DEF a, b, c
      <3>2. CASE k = m
        <4>0. PICK i \in 1 .. off[m] : i = off[k - 1] + o
          BY <3>1
        <4>2. ~(i <= off[m - 1]) /\ i - off[m - 1] = o
          <5> DEFINE d == off[m - 1]
          <5>1. d \in Nat
            BY <2>2
          <5>2. o \in Nat /\ 1 <= o
            BY <3>0
          <5>3. i = d + o
            BY <4>0, <3>2
          <5> HIDE DEF d
          <5>4. ~(i <= d) /\ i - d = o
            BY <5>1, <5>2, <5>3
          <5> QED
            BY <5>4 DEF d
        <4>3. h[m][i] = A[m][i - off[m - 1]]
          BY <4>2, <1>3
        <4> QED
          BY <4>0, <4>2, <4>3, <3>2
      <3>3. CASE k # m
        <4>1. k \in 1 .. m - 1
          BY <3>3
        <4>2. off[k - 1] + o <= off[m - 1]
          <5>1. off[k] <= off[m - 1]
            BY <4>1, <2>1
          <5> DEFINE a == off[k - 1]
                     b == Len(A[k])
                     c == off[m - 1]
          <5>2. a \in Nat /\ b \in Nat /\ c \in Nat /\ a + b <= c /\ o \in 1 .. b
            BY <5>1, <3>0, <2>2
          <5> HIDE DEF a, b, c
          <5>3. a + o <= c
            BY <5>2
          <5> QED
            BY <5>3 DEF a, c
        <4>3. h[m][off[k - 1] + o] = h[m - 1][off[k - 1] + o]
          BY <3>1, <4>2, <1>3
        <4> QED
          BY <4>1, <4>3, <2>1
      <3> QED
        BY <3>2, <3>3
    <2>5. ASSUME NEW i \in 1 .. off[m] PROVE \E k \in 1 .. m : \E o \in 1 .. Len(A[k]) : i = off[k - 1] + o
      <3>1. CASE i <= off[m - 1]
        <4>0. i \in 1 .. off[m - 1]
          BY <3>1, <2>2
        <4>1. PICK k \in 1 .. m - 1 : \E o \in 1 .. Len(A[k]) : i = off[k - 1] + o
          BY <4>0, <2>1
        <4> QED
          BY <4>1
      <3>2. CASE ~(i <= off[m - 1])
        <4>1. i - off[m - 1] \in 1 .. Len(A[m]) /\ i = off[m - 1] + (i - off[m - 1])
          <5> DEFINE a == off[m - 1]
                     b == Len(A[m])
          <5>1. a \in Nat /\ b \in Nat /\ i \in 1 .. a + b /\ ~(i <= a)
            BY <3>2, <2>2
          <5> HIDE DEF a, b
          <5>2. i - a \in 1 .. b /\ i = a + (i - a)
            BY <5>1
          <5> QED
            BY <5>2 DEF a, b
        <4> QED
          BY <4>1
      <3> QED
        BY <3>1, <3>2
    <2> QED
      BY <2>2, <2>3, <2>4, <2>5
  <1>6. \A m \in 0 .. n : m \in T
    <2> HIDE DEF T
    <2> QED
      BY <1>4, <1>5, UpTo
  <1>7. n \in T
    BY <1>6
  <1>8. FlattenSeq(A) = h[n] /\ h[n] \in Seq(S) /\ off[n] = Len(h[n]) /\ off[0] = 0
    BY <1>1, <1>2
  <1>9. \A k \in 1 .. n : off[k] = off[k - 1] + Len(A[k])
    BY <1>3
  <1>10. /\ \A k \in 1 .. n : off[k] <= off[n]
         /\ \A k \in 1 .. n : \A o \in 1 .. Len(A[k]) : h[n][off[k - 1] + o] = A[k][o]
         /\ \A i \in 1 .. off[n] : \E k \in 1 .. n : \E o \in 1 .. Len(A[k]) : i = off[k - 1] + o
    BY <1>7
  <1> HIDE DEF T
  <1>11. Places(off, A, n)
    BY <1>8, <1>9, <1>10 DEF Places
  <1> QED
    BY <1>2, <1>8, <1>11

----------------------------------------------------------------------------
(* What records and requests are, and how they hang together.                *)

\* x says what its own client said: its input, or the outputs it brings.
Speaks(x, r) ==
  /\ x.answers \in Responses \cup {None} /\ x.input \in Seq(Entry)
  /\ x.answers = None => x.input = <<Input(r)>> /\ ~x.added
  /\ x.answers # None => x.input \in {<<>>, Told("told result", x.answers, r, x.added)}

\* A line ends with its own id, and the lines of those on it are its beginnings.
LinesOK ==
  \A r \in Responses :
    /\ rec[r].kind \in {"none", "warm", "turn", "deleted"}
    /\ rec[r].kind # "none" =>
         /\ Len(rec[r].line) > 0 /\ rec[r].line[Len(rec[r].line)] = r
         /\ \A i \in 1 .. Len(rec[r].line) :
              /\ rec[rec[r].line[i]].kind # "none"
              /\ rec[rec[r].line[i]].line = SubSeq(rec[r].line, 1, i)

RecordsSpeak ==
  \A r \in Responses :
    Present(r) =>
      /\ Speaks(rec[r], r)
      /\ rec[r].answers # None =>
           Len(rec[r].line) > 1 /\ rec[r].line[Len(rec[r].line) - 1] = rec[r].answers
      /\ rec[r].kind = "warm" => rec[r].answers = None /\ rec[r].output = "none"
      /\ rec[r].kind = "turn" => rec[r].output \in {"text", "function", "custom"}

RequestSpeaks(R, x, r) ==
  /\ Speaks(x, r)
  /\ x.prev # None => R[x.prev].kind # "none"
  /\ x.answers # None => x.answers = x.prev
  /\ x.kind \in {"warm", "turn"} /\ (x.kind = "warm" => x.answers = None)

RequestsSpeak == \A r \in Responses : req[r].phase \in {"ready", "sent"} => RequestSpeaks(rec, req[r], r)

LiveOK == \A p \in live : p \in Responses /\ rec[p].kind \in {"turn", "deleted"}

WarmRecords ==
  \A p \in Responses : warm[p].held => p \in warm[p].claims /\ rec[p].kind \in {"warm", "deleted"}

SInv == LinesOK /\ RecordsSpeak /\ RequestsSpeak /\ LiveOK /\ WarmRecords

\* What a step may do to the records: leave them, settle or delete them, add one.
RecordStays(x) ==
  /\ rec'[x].kind # "none" /\ rec'[x].line = rec[x].line
  /\ \/ rec'[x].kind = "deleted"
     \/ /\ rec'[x].kind = rec[x].kind /\ rec'[x].session = rec[x].session /\ rec'[x].input = rec[x].input
        /\ rec'[x].answers = rec[x].answers /\ rec'[x].added = rec[x].added /\ rec'[x].output = rec[x].output

LineBefore(r) == IF req[r].prev = None THEN <<>> ELSE rec[req[r].prev].line

RecordJoins(x) ==
  /\ req[x].phase \in {"ready", "sent"}
  /\ rec'[x].line = Append(LineBefore(x), x) /\ rec'[x].session = req[x].session
  /\ rec'[x].input = req[x].input /\ rec'[x].answers = req[x].answers /\ rec'[x].added = req[x].added
  /\ \/ rec'[x].kind = "warm" /\ req[x].kind = "warm" /\ rec'[x].output = "none"
     \/ rec'[x].kind = "turn" /\ rec'[x].output \in {"text", "function", "custom"}

RecordStep ==
  \A x \in Responses :
    IF rec[x].kind # "none" THEN RecordStays(x) ELSE rec'[x].kind = "none" \/ RecordJoins(x)

LEMMA LinesStay ==
  ASSUME IInv, SInv, RecordStep
  PROVE  LinesOK'
  <1> SUFFICES ASSUME NEW r \in Responses
               PROVE  /\ rec'[r].kind \in {"none", "warm", "turn", "deleted"}
                      /\ rec'[r].kind # "none" =>
                           /\ Len(rec'[r].line) > 0 /\ rec'[r].line[Len(rec'[r].line)] = r
                           /\ \A i \in 1 .. Len(rec'[r].line) :
                                /\ rec'[rec'[r].line[i]].kind # "none"
                                /\ rec'[rec'[r].line[i]].line = SubSeq(rec'[r].line, 1, i)
    BY DEF LinesOK
  <1>1. \A x \in Responses : rec[x].kind # "none" => rec'[x].kind # "none" /\ rec'[x].line = rec[x].line
    BY DEF RecordStep, RecordStays
  <1>2. rec'[r].kind \in {"none", "warm", "turn", "deleted"}
    BY DEF RecordStep, RecordStays, RecordJoins, SInv, LinesOK
  <1>3. CASE rec[r].kind # "none"
    <2>1. rec[r].line \in Seq(Responses)
      BY DEF IInv, RecordsOK
    <2>2. \A i \in 1 .. Len(rec[r].line) : rec[r].line[i] \in Responses
      BY <2>1, ElementOfSeq
    <2>3. /\ Len(rec[r].line) > 0 /\ rec[r].line[Len(rec[r].line)] = r
          /\ \A i \in 1 .. Len(rec[r].line) :
               /\ rec[rec[r].line[i]].kind # "none"
               /\ rec[rec[r].line[i]].line = SubSeq(rec[r].line, 1, i)
      BY <1>3 DEF SInv, LinesOK
    <2>4. rec'[r].line = rec[r].line
      BY <1>1, <1>3
    <2> DEFINE l == rec[r].line
    <2>5. \A i \in 1 .. Len(l) : rec'[l[i]].kind # "none" /\ rec'[l[i]].line = SubSeq(l, 1, i)
      <3>1. \A i \in 1 .. Len(l) : l[i] \in Responses /\ rec[l[i]].kind # "none" /\ rec[l[i]].line = SubSeq(l, 1, i)
        BY <2>2, <2>3
      <3> HIDE DEF l
      <3> QED
        BY <3>1, <1>1
    <2> QED
      BY <2>3, <2>4, <2>5, <1>2
  <1>4. CASE rec[r].kind = "none" /\ rec'[r].kind # "none"
    <2> DEFINE l == LineBefore(r)
    <2>1. rec'[r].line = Append(l, r) /\ req[r].phase \in {"ready", "sent"}
      BY <1>4 DEF RecordStep, RecordJoins
    <2>2. l \in Seq(Responses) /\ \A i \in 1 .. Len(l) : rec[l[i]].kind # "none" /\ rec[l[i]].line = SubSeq(l, 1, i)
      <3>1. req[r].prev # None => req[r].prev \in Responses /\ rec[req[r].prev].kind # "none"
        BY <2>1 DEF IInv, Unsaved, SInv, RequestsSpeak, RequestSpeaks
      <3>2. CASE req[r].prev = None
        BY <3>2, EmptySeq DEF LineBefore
      <3>3. CASE req[r].prev # None
        <4>1. l = rec[req[r].prev].line
          BY <3>3 DEF LineBefore
        <4>2. l \in Seq(Responses)
          BY <3>1, <3>3, <4>1 DEF IInv, RecordsOK
        <4>3. \A i \in 1 .. Len(l) : rec[l[i]].kind # "none" /\ rec[l[i]].line = SubSeq(l, 1, i)
          <5> DEFINE q == req[r].prev
          <5>1. q \in Responses /\ rec[q].kind # "none" /\ l = rec[q].line
            BY <3>1, <3>3, <4>1
          <5> HIDE DEF q, l
          <5> QED
            BY <5>1 DEF SInv, LinesOK
        <4> QED
          BY <4>2, <4>3
      <3> QED
        BY <3>2, <3>3
    <2> HIDE DEF l
    <2>3. Len(l) \in Nat /\ \A i \in 1 .. Len(l) : l[i] \in Responses
      BY <2>2, LenProperties, ElementOfSeq
    <2>4. /\ Len(Append(l, r)) = Len(l) + 1 /\ Append(l, r)[Len(l) + 1] = r
          /\ \A i \in 1 .. Len(l) : Append(l, r)[i] = l[i] /\ SubSeq(Append(l, r), 1, i) = SubSeq(l, 1, i)
          /\ SubSeq(Append(l, r), 1, Len(l) + 1) = Append(l, r)
      BY <2>2
    <2>5. ASSUME NEW i \in 1 .. Len(l) + 1
          PROVE  rec'[Append(l, r)[i]].kind # "none" /\ rec'[Append(l, r)[i]].line = SubSeq(Append(l, r), 1, i)
      <3>1. CASE i = Len(l) + 1
        BY <3>1, <2>1, <2>4, <1>4
      <3>2. CASE i # Len(l) + 1
        <4>1. i \in 1 .. Len(l)
          BY <3>2, <2>3
        <4> QED
          BY <4>1, <2>2, <2>3, <2>4, <1>1
      <3> QED
        BY <3>1, <3>2
    <2> QED
      BY <2>1, <2>3, <2>4, <2>5, <1>2
  <1> QED
    BY <1>2, <1>3, <1>4

LEMMA RecordsSpeakOn ==
  ASSUME IInv, SInv, RecordStep
  PROVE  RecordsSpeak'
  <1> SUFFICES ASSUME NEW r \in Responses, Present(r)'
               PROVE  /\ Speaks(rec'[r], r)
                      /\ rec'[r].answers # None =>
                           Len(rec'[r].line) > 1 /\ rec'[r].line[Len(rec'[r].line) - 1] = rec'[r].answers
                      /\ rec'[r].kind = "warm" => rec'[r].answers = None /\ rec'[r].output = "none"
                      /\ rec'[r].kind = "turn" => rec'[r].output \in {"text", "function", "custom"}
    BY DEF RecordsSpeak, Speaks, Input, Told
  <1>0. rec'[r].kind \in {"warm", "turn"}
    BY DEF Present
  <1>1. CASE rec[r].kind # "none"
    <2>1. /\ rec'[r].line = rec[r].line
          /\ rec'[r].kind = rec[r].kind /\ rec'[r].session = rec[r].session /\ rec'[r].input = rec[r].input
          /\ rec'[r].answers = rec[r].answers /\ rec'[r].added = rec[r].added /\ rec'[r].output = rec[r].output
      BY <1>0, <1>1 DEF RecordStep, RecordStays
    <2>2. Present(r)
      BY <2>1, <1>0 DEF Present
    <2> QED
      BY <2>1, <2>2 DEF SInv, RecordsSpeak, Speaks
  <1>2. CASE rec[r].kind = "none"
    <2>1. RecordJoins(r)
      BY <1>0, <1>2 DEF RecordStep
    <2>2. RequestSpeaks(rec, req[r], r)
      BY <2>1 DEF RecordJoins, SInv, RequestsSpeak
    <2>3. Speaks(rec'[r], r)
      BY <2>1, <2>2 DEF RecordJoins, RequestSpeaks, Speaks
    <2>4. ASSUME rec'[r].answers # None
          PROVE  Len(rec'[r].line) > 1 /\ rec'[r].line[Len(rec'[r].line) - 1] = rec'[r].answers
      <3> DEFINE p == req[r].prev
      <3>1. rec'[r].answers = p /\ p # None /\ p \in Responses /\ rec[p].kind # "none"
        BY <2>1, <2>2, <2>4 DEF RecordJoins, RequestSpeaks, IInv, Unsaved
      <3>2. rec[p].line \in Seq(Responses) /\ Len(rec[p].line) > 0 /\ rec[p].line[Len(rec[p].line)] = p
        BY <3>1 DEF IInv, RecordsOK, SInv, LinesOK
      <3>3. rec'[r].line = Append(rec[p].line, r)
        BY <2>1, <3>1 DEF RecordJoins, LineBefore
      <3> HIDE DEF p
      <3> QED
        BY <3>1, <3>2, <3>3, LenProperties
    <2> QED
      BY <2>1, <2>2, <2>3, <2>4 DEF RecordJoins, RequestSpeaks
  <1> QED
    BY <1>1, <1>2

\* The requests that stay are no less right; new ones have to be.
LEMMA StaticStays ==
  ASSUME IInv, SInv, RecordStep,
         \A q \in Responses :
           req'[q].phase \in {"ready", "sent"} =>
             \/ RequestSpeaks(rec', req'[q], q)
             \/ /\ req[q].phase \in {"ready", "sent"}
                /\ req'[q].kind = req[q].kind /\ req'[q].prev = req[q].prev /\ req'[q].input = req[q].input
                /\ req'[q].answers = req[q].answers /\ req'[q].added = req[q].added,
         \A p \in live' : p \in live \/ (p \in Responses /\ rec'[p].kind = "turn"),
         \A q \in Responses : warm'[q].held => warm'[q] = warm[q] \/ (q \in warm'[q].claims /\ rec'[q].kind = "warm")
  PROVE  SInv'
  <1>1. RequestsSpeak'
    <2> SUFFICES ASSUME NEW q \in Responses, req'[q].phase \in {"ready", "sent"}
                 PROVE  RequestSpeaks(rec', req'[q], q)
      BY DEF RequestsSpeak
    <2>1. CASE /\ req[q].phase \in {"ready", "sent"}
               /\ req'[q].kind = req[q].kind /\ req'[q].prev = req[q].prev /\ req'[q].input = req[q].input
               /\ req'[q].answers = req[q].answers /\ req'[q].added = req[q].added
      <3>1. RequestSpeaks(rec, req[q], q)
        BY <2>1 DEF SInv, RequestsSpeak
      <3>2. req[q].prev # None => rec'[req[q].prev].kind # "none"
        BY <3>1 DEF RequestSpeaks, IInv, Unsaved, RecordStep, RecordStays
      <3> QED
        BY <2>1, <3>1, <3>2 DEF RequestSpeaks, Speaks
    <2> QED
      BY <2>1
  <1>2. LiveOK'
    <2>1. ASSUME NEW p \in live PROVE p \in Responses /\ rec'[p].kind \in {"turn", "deleted"}
      BY DEF SInv, LiveOK, RecordStep, RecordStays
    <2> QED
      BY <2>1 DEF LiveOK
  <1>3. WarmRecords'
    <2> SUFFICES ASSUME NEW q \in Responses, warm'[q].held
                 PROVE  q \in warm'[q].claims /\ rec'[q].kind \in {"warm", "deleted"}
      BY DEF WarmRecords
    <2>1. CASE warm'[q] = warm[q]
      <3>1. q \in warm[q].claims /\ rec[q].kind \in {"warm", "deleted"}
        BY <2>1 DEF SInv, WarmRecords
      <3> QED
        BY <2>1, <3>1 DEF RecordStep, RecordStays
    <2> QED
      BY <2>1
  <1> QED
    BY <1>1, <1>2, <1>3, LinesStay, RecordsSpeakOn DEF SInv

LEMMA SameRecords ==
  ASSUME IInv, SInv, rec' = rec
  PROVE  RecordStep
  BY DEF RecordStep, RecordStays

\* A request that is prepared, from the request it starts as.
LEMMA PreparedSpeaks ==
  ASSUME IInv, SInv, NEW r \in Responses, rec' = rec, live' \subseteq live,
         DOMAIN req' = Responses, \A q \in Responses : q # r => req'[q] = req[q],
         \A q \in Responses : warm'[q] \in {warm[q], NoWarm},
         RequestSpeaks(rec', req'[r], r)
  PROVE  SInv'
  <1>1. RecordStep
    BY SameRecords
  <1>2. ASSUME NEW q \in Responses, req'[q].phase \in {"ready", "sent"}
        PROVE  \/ RequestSpeaks(rec', req'[q], q)
               \/ /\ req[q].phase \in {"ready", "sent"}
                  /\ req'[q].kind = req[q].kind /\ req'[q].prev = req[q].prev /\ req'[q].input = req[q].input
                  /\ req'[q].answers = req[q].answers /\ req'[q].added = req[q].added
    BY <1>2
  <1>3. \A q \in Responses : warm'[q].held => warm'[q] = warm[q]
    BY DEF NoWarm
  <1>4. \A p \in live' : p \in live \/ (p \in Responses /\ rec'[p].kind = "turn")
    OBVIOUS
  <1>5. \A q \in Responses : warm'[q].held => warm'[q] = warm[q] \/ (q \in warm'[q].claims /\ rec'[q].kind = "warm")
    BY <1>3
  <1> QED
    BY <1>1, <1>2, <1>4, <1>5, StaticStays

LEMMA PlainSpeaks ==
  ASSUME IInv, SInv, NEW r \in Responses, NEW kind \in {"warm", "turn"}, NEW prev,
         rec' = rec, prev # None => prev \in Responses /\ rec[prev].kind # "none",
         req'[r].kind = kind, req'[r].prev = prev, req'[r].input = <<Input(r)>>, req'[r].answers = None,
         req'[r].added = FALSE
  PROVE  RequestSpeaks(rec', req'[r], r)
  <1>1. Speaks(req'[r], r)
    BY InputIsEntry DEF Speaks
  <1> QED
    BY <1>1 DEF RequestSpeaks

LEMMA StartFreshStatic ==
  ASSUME IInv, SInv, NEW r \in Responses, NEW kind \in {"turn", "warm"}, NEW streaming, StartFresh(r, kind, streaming)
  PROVE  SInv'
  <1> DEFINE x == Plain(r, kind, None, r, streaming)
  <1>1. /\ req' = [req EXCEPT ![r] = [x EXCEPT !.phase = "ready"]] /\ UNCHANGED <<rec, live>>
    BY DEF StartFresh, Ready
  <1>5. \A q \in Responses : warm'[q] \in {warm[q], NoWarm}
    BY DEF StartFresh
  <1>2. /\ DOMAIN x = RequestFields
        /\ x.kind = kind /\ x.prev = None /\ x.input = <<Input(r)>> /\ x.answers = None /\ x.added = FALSE
    BY DEF Plain, NewRequest, RequestFields
  <1> HIDE DEF x
  <1>3. /\ DOMAIN req' = Responses /\ \A q \in Responses : q # r => req'[q] = req[q]
        /\ req'[r].kind = kind /\ req'[r].prev = None /\ req'[r].input = <<Input(r)>>
        /\ req'[r].answers = None /\ req'[r].added = FALSE
    BY <1>1, <1>2 DEF IInv, Shape, RequestFields
  <1>4. RequestSpeaks(rec', req'[r], r)
    BY <1>1, <1>3, PlainSpeaks
  <1> QED
    BY <1>1, <1>3, <1>4, <1>5, PreparedSpeaks

LEMMA UseWarmStatic ==
  ASSUME IInv, SInv, NEW r \in Responses, NEW p \in Responses, UseWarm(r, p)
  PROVE  SInv'
  <1> DEFINE x == Plain(r, "turn", p, warm[p].session, TRUE)
  <1>1. /\ req' = [req EXCEPT ![r] = [[x EXCEPT !.base = warm[p].base, !.prompt = warm[p].prompt \o @,
                                                !.claims = warm[p].claims] EXCEPT !.phase = "ready"]]
        /\ UNCHANGED <<rec, live>>
    BY DEF UseWarm, Ready
  <1>5. \A q \in Responses : warm'[q] \in {warm[q], NoWarm}
    BY DEF UseWarm, IInv, Shape
  <1>6. rec[p].kind # "none"
    BY DEF UseWarm, SInv, WarmRecords
  <1>2. /\ DOMAIN x = RequestFields
        /\ x.kind = "turn" /\ x.prev = p /\ x.input = <<Input(r)>> /\ x.answers = None /\ x.added = FALSE
    BY DEF Plain, NewRequest, RequestFields
  <1> HIDE DEF x
  <1>3. /\ DOMAIN req' = Responses /\ \A q \in Responses : q # r => req'[q] = req[q]
        /\ req'[r].kind = "turn" /\ req'[r].prev = p /\ req'[r].input = <<Input(r)>>
        /\ req'[r].answers = None /\ req'[r].added = FALSE
    BY <1>1, <1>2 DEF IInv, Shape, RequestFields
  <1>4. RequestSpeaks(rec', req'[r], r)
    BY <1>1, <1>3, <1>6, PlainSpeaks
  <1> QED
    BY <1>1, <1>3, <1>4, <1>5, PreparedSpeaks

LEMMA ResumeStatic ==
  ASSUME IInv, SInv, NEW r \in Responses, NEW kind \in {"turn", "warm"}, NEW p \in Responses, NEW streaming,
         Resume(r, kind, p, streaming)
  PROVE  SInv'
  <1> DEFINE x == Plain(r, kind, p, rec[p].session, streaming)
  <1>1. /\ req' = [req EXCEPT ![r] = [[x EXCEPT !.prompt = PendingPrompt(p) \o @, !.claims = PendingIds(p)]
                                       EXCEPT !.phase = "ready"]]
        /\ UNCHANGED <<rec, live>> /\ rec[p].kind # "none"
    BY DEF Resume, Ready, Present
  <1>5. \A q \in Responses : warm'[q] \in {warm[q], NoWarm}
    BY DiscardsWarm DEF Resume
  <1>2. /\ DOMAIN x = RequestFields
        /\ x.kind = kind /\ x.prev = p /\ x.input = <<Input(r)>> /\ x.answers = None /\ x.added = FALSE
    BY DEF Plain, NewRequest, RequestFields
  <1> HIDE DEF x
  <1>3. /\ DOMAIN req' = Responses /\ \A q \in Responses : q # r => req'[q] = req[q]
        /\ req'[r].kind = kind /\ req'[r].prev = p /\ req'[r].input = <<Input(r)>>
        /\ req'[r].answers = None /\ req'[r].added = FALSE
    BY <1>1, <1>2 DEF IInv, Shape, RequestFields
  <1>4. RequestSpeaks(rec', req'[r], r)
    BY <1>1, <1>3, PlainSpeaks
  <1> QED
    BY <1>1, <1>3, <1>4, <1>5, PreparedSpeaks

LEMMA SynthesizeStatic ==
  ASSUME IInv, SInv, NEW r \in Responses, NEW kind \in {"turn", "warm"}, NEW p \in Responses, NEW streaming,
         NEW hydrated, Synthesize(r, kind, p, streaming, hydrated)
  PROVE  SInv'
  <1> DEFINE x == Plain(r, kind, p, r, streaming)
             b == IF hydrated THEN <<>> ELSE Transcript(Chain(p))
  <1>1. /\ req' = [req EXCEPT ![r] = [[x EXCEPT !.base = b] EXCEPT !.phase = "ready"]]
        /\ UNCHANGED <<rec, live>> /\ rec[p].kind # "none"
    BY DEF Synthesize, Rebuild, Ready, Present
  <1>5. \A q \in Responses : warm'[q] \in {warm[q], NoWarm}
    BY DiscardsWarm DEF Synthesize
  <1>2. /\ DOMAIN x = RequestFields
        /\ x.kind = kind /\ x.prev = p /\ x.input = <<Input(r)>> /\ x.answers = None /\ x.added = FALSE
    BY DEF Plain, NewRequest, RequestFields
  <1> HIDE DEF x, b
  <1>3. /\ DOMAIN req' = Responses /\ \A q \in Responses : q # r => req'[q] = req[q]
        /\ req'[r].kind = kind /\ req'[r].prev = p /\ req'[r].input = <<Input(r)>>
        /\ req'[r].answers = None /\ req'[r].added = FALSE
    BY <1>1, <1>2 DEF IInv, Shape, RequestFields
  <1>4. RequestSpeaks(rec', req'[r], r)
    BY <1>1, <1>3, PlainSpeaks
  <1> QED
    BY <1>1, <1>3, <1>4, <1>5, PreparedSpeaks

LEMMA AnswerSpeaks ==
  ASSUME IInv, SInv, NEW r \in Responses, NEW p \in Responses, NEW added \in BOOLEAN, NEW input,
         rec' = rec, rec[p].kind # "none", input \in {<<>>, Told("told result", p, r, added)},
         req'[r].kind = "turn", req'[r].prev = p, req'[r].input = input, req'[r].answers = p, req'[r].added = added
  PROVE  RequestSpeaks(rec', req'[r], r)
  <1>1. input \in Seq(Entry)
    <2>1. "told result" \in What
      BY DEF What
    <2>2. Told("told result", p, r, added) \in Seq(Entry)
      BY <2>1, ToldIsSeq
    <2> QED
      BY <2>2, EmptySeq
  <1>2. p # None
    BY ResponsesAssumption
  <1>3. Speaks(req'[r], r)
    BY <1>1, <1>2 DEF Speaks
  <1>4. rec'[p].kind # "none"
    OBVIOUS
  <1> QED
    BY <1>3, <1>4 DEF RequestSpeaks

LEMMA AnswerLiveStatic ==
  ASSUME IInv, SInv, NEW r \in Responses, NEW p \in Responses, NEW added \in BOOLEAN, AnswerLive(r, p, added)
  PROVE  SInv'
  <1> DEFINE x == Answers(r, p, rec[p].session, added)
  <1>1. /\ req' = [req EXCEPT ![r] = [x EXCEPT !.phase = "sent"]]
        /\ rec' = rec /\ live' \subseteq live /\ rec[p].kind # "none"
    BY DEF AnswerLive, Present
  <1>5. \A q \in Responses : warm'[q] \in {warm[q], NoWarm}
    BY DEF AnswerLive
  <1>2. DOMAIN x = RequestFields /\ x.kind = "turn" /\ x.prev = p /\ x.input = <<>> /\ x.answers = p /\ x.added = added
    BY DEF Answers, NewRequest, RequestFields
  <1> HIDE DEF x
  <1>3. /\ DOMAIN req' = Responses /\ \A q \in Responses : q # r => req'[q] = req[q]
        /\ req'[r].kind = "turn" /\ req'[r].prev = p /\ req'[r].input = <<>>
        /\ req'[r].answers = p /\ req'[r].added = added
    BY <1>1, <1>2 DEF IInv, Shape, RequestFields
  <1>4. RequestSpeaks(rec', req'[r], r)
    BY <1>1, <1>2, <1>3, AnswerSpeaks
  <1> QED
    BY <1>1, <1>3, <1>4, <1>5, PreparedSpeaks

LEMMA AnswerFromRecordStatic ==
  ASSUME IInv, SInv, NEW r \in Responses, NEW p \in Responses, NEW added \in BOOLEAN, NEW hydrated,
         AnswerFromRecord(r, p, added, hydrated)
  PROVE  SInv'
  <1> DEFINE t == Told("told result", p, r, added)
             x == [Answers(r, p, r, added) EXCEPT !.input = t, !.prompt = t]
             b == IF hydrated THEN <<>> ELSE Transcript(Chain(p))
  <1>1. /\ req' = [req EXCEPT ![r] = [[x EXCEPT !.base = b] EXCEPT !.phase = "ready"]]
        /\ rec' = rec /\ live' \subseteq live /\ rec[p].kind # "none"
    BY DEF AnswerFromRecord, Rebuild, Ready, Present
  <1>5. \A q \in Responses : warm'[q] \in {warm[q], NoWarm}
    BY DEF AnswerFromRecord
  <1>2. DOMAIN x = RequestFields /\ x.kind = "turn" /\ x.prev = p /\ x.input = t /\ x.answers = p /\ x.added = added
    BY DEF Answers, NewRequest, RequestFields
  <1> HIDE DEF x, b
  <1>3. /\ DOMAIN req' = Responses /\ \A q \in Responses : q # r => req'[q] = req[q]
        /\ req'[r].kind = "turn" /\ req'[r].prev = p /\ req'[r].input = t
        /\ req'[r].answers = p /\ req'[r].added = added
    BY <1>1, <1>2 DEF IInv, Shape, RequestFields
  <1>4. RequestSpeaks(rec', req'[r], r)
    BY <1>1, <1>2, <1>3, AnswerSpeaks
  <1> QED
    BY <1>1, <1>3, <1>4, <1>5, PreparedSpeaks

\* The records that a step leaves, settles, deletes or adds.
LEMMA OthersStay ==
  ASSUME IInv, SInv, NEW r \in Responses, \A q \in Responses : q # r => rec'[q] = rec[q],
         IF rec[r].kind # "none" THEN RecordStays(r) ELSE rec'[r].kind = "none" \/ RecordJoins(r)
  PROVE  RecordStep
  <1> SUFFICES ASSUME NEW x \in Responses
               PROVE  IF rec[x].kind # "none" THEN RecordStays(x) ELSE rec'[x].kind = "none" \/ RecordJoins(x)
    BY DEF RecordStep
  <1>1. CASE x = r
    BY <1>1
  <1>2. CASE x # r
    BY <1>2 DEF RecordStays
  <1> QED
    BY <1>1, <1>2

LEMMA SaveWarmStatic ==
  ASSUME IInv, SInv, NEW r \in Responses, SaveWarm(r)
  PROVE  /\ SInv' /\ RecordStep /\ RecordJoins(r) /\ rec[r].kind = "none"
         /\ rec'[r].pending = TRUE /\ rec'[r].kind = "warm"
         /\ \A q \in Responses : q # r => rec'[q] = rec[q]
  <1> DEFINE w == [held |-> TRUE, session |-> req[r].session, base |-> req[r].base,
                   prompt |-> req[r].prompt, claims |-> req[r].claims \cup {r}]
             n == Saved(r, "warm", TRUE, "none")
  <1>1. /\ req[r].phase = "ready" /\ req[r].kind = "warm"
        /\ rec' = [rec EXCEPT ![r] = n]
        /\ warm' = [warm EXCEPT ![r] = w]
        /\ req' = [req EXCEPT ![r] = [NewRequest EXCEPT !.phase = "done"]]
        /\ UNCHANGED <<sdk, live>>
    BY DEF SaveWarm, Done
  <1>2. /\ n.kind = "warm" /\ n.session = req[r].session /\ n.pending = TRUE /\ n.output = "none"
        /\ n.line = Append(LineBefore(r), r) /\ n.input = req[r].input /\ n.answers = req[r].answers
        /\ n.added = req[r].added
    BY DEF Saved, LineBefore
  <1> HIDE DEF n
  <1>3. /\ rec'[r] = n /\ \A q \in Responses : q # r => rec'[q] = rec[q] /\ req'[q] = req[q] /\ warm'[q] = warm[q]
        /\ req'[r] = [NewRequest EXCEPT !.phase = "done"] /\ warm'[r] = w
    BY <1>1 DEF IInv, Shape
  <1>4. rec[r].kind = "none"
    BY <1>1 DEF IInv, Unsaved
  <1>5. RecordJoins(r)
    BY <1>1, <1>2, <1>3 DEF RecordJoins
  <1>6. RecordStep
    BY <1>3, <1>4, <1>5, OthersStay
  <1>7. ASSUME NEW q \in Responses, req'[q].phase \in {"ready", "sent"} PROVE req'[q] = req[q]
    BY <1>3, <1>7 DEF NewRequest
  <1>8. \A q \in Responses : warm'[q].held => warm'[q] = warm[q] \/ (q \in warm'[q].claims /\ rec'[q].kind = "warm")
    <2>1. warm'[r].claims = req[r].claims \cup {r}
      BY <1>3
    <2> QED
      BY <2>1, <1>2, <1>3
  <1>9. SInv'
    BY <1>1, <1>6, <1>7, <1>8, StaticStays
  <1> QED
    BY <1>2, <1>3, <1>4, <1>5, <1>6, <1>9

LEMMA GenerateStatic ==
  ASSUME IInv, SInv, NEW r \in Responses, NEW output \in {"text", "function", "custom"}, Generate(r, output)
  PROVE  /\ SInv' /\ RecordStep /\ RecordJoins(r) /\ rec[r].kind = "none"
         /\ rec'[r].kind = "turn" /\ rec'[r].output = output
         /\ \A q \in Responses : q # r => rec'[q] = rec[q]
  <1> DEFINE n == Saved(r, "turn", FALSE, output)
  <1>1. /\ req[r].phase = "sent"
        /\ rec' = [rec EXCEPT ![r] = n]
        /\ req' = [req EXCEPT ![r].phase = "saved"]
        /\ live' \subseteq live \cup {r}
        /\ UNCHANGED warm
    BY DEF Generate
  <1>2. /\ n.kind = "turn" /\ n.session = req[r].session /\ n.output = output
        /\ n.line = Append(LineBefore(r), r) /\ n.input = req[r].input /\ n.answers = req[r].answers
        /\ n.added = req[r].added
    BY DEF Saved, LineBefore
  <1> HIDE DEF n
  <1>3. /\ rec'[r] = n /\ \A q \in Responses : q # r => rec'[q] = rec[q] /\ req'[q] = req[q]
        /\ req'[r].phase = "saved"
    BY <1>1 DEF IInv, Shape, RequestFields
  <1>4. rec[r].kind = "none"
    BY <1>1 DEF IInv, Unsaved
  <1>5. RecordJoins(r)
    BY <1>1, <1>2, <1>3 DEF RecordJoins
  <1>6. RecordStep
    BY <1>3, <1>4, <1>5, OthersStay
  <1>7. ASSUME NEW q \in Responses, req'[q].phase \in {"ready", "sent"} PROVE req'[q] = req[q]
    BY <1>3, <1>7
  <1>8. \A p \in live' : p \in live \/ (p \in Responses /\ rec'[p].kind = "turn")
    BY <1>1, <1>2, <1>3
  <1>9. SInv'
    BY <1>1, <1>6, <1>7, <1>8, StaticStays
  <1> QED
    BY <1>2, <1>3, <1>4, <1>5, <1>6, <1>9

LEMMA ClearInputPendingStatic ==
  ASSUME IInv, SInv, NEW r \in Responses, NEW id \in Responses, NEW fails, ClearInputPending(r, id, fails)
  PROVE  /\ SInv' /\ RecordStep
         /\ \A q \in Responses : rec'[q].kind = rec[q].kind
         /\ \A q \in Responses : q # id => rec'[q] = rec[q]
  <1>1. /\ req' = [req EXCEPT ![r].claims = @ \ {id}]
        /\ rec' = rec \/ rec' = [rec EXCEPT ![id].pending = FALSE]
        /\ UNCHANGED <<warm, live>>
    BY DEF ClearInputPending
  <1>2. /\ rec'[id].kind = rec[id].kind /\ rec'[id].line = rec[id].line /\ rec'[id].session = rec[id].session
        /\ rec'[id].input = rec[id].input /\ rec'[id].answers = rec[id].answers /\ rec'[id].added = rec[id].added
        /\ rec'[id].output = rec[id].output
        /\ \A q \in Responses : q # id => rec'[q] = rec[q]
    <2>1. CASE rec' = rec
      BY <2>1
    <2>2. CASE rec' = [rec EXCEPT ![id].pending = FALSE]
      <3>1. /\ rec'[id] = [rec[id] EXCEPT !.pending = FALSE] /\ \A q \in Responses : q # id => rec'[q] = rec[q]
        BY <2>2 DEF IInv, Shape
      <3> QED
        BY <3>1 DEF IInv, Shape
    <2> QED
      BY <1>1, <2>1, <2>2
  <1>3. RecordStep
    BY <1>2, OthersStay DEF RecordStays
  <1>4. ASSUME NEW q \in Responses, req'[q].phase \in {"ready", "sent"}
        PROVE  /\ req[q].phase \in {"ready", "sent"}
               /\ req'[q].kind = req[q].kind /\ req'[q].prev = req[q].prev /\ req'[q].input = req[q].input
               /\ req'[q].answers = req[q].answers /\ req'[q].added = req[q].added
    BY <1>1, <1>4 DEF IInv, Shape, RequestFields
  <1>5. SInv'
    BY <1>1, <1>3, <1>4, StaticStays
  <1> QED
    BY <1>2, <1>3, <1>5

LEMMA DeleteResponseStatic ==
  ASSUME IInv, SInv, NEW p \in Responses, DeleteResponse(p)
  PROVE  SInv' /\ RecordStep /\ rec'[p].kind = "deleted" /\ \A q \in Responses : q # p => rec'[q] = rec[q]
  <1>1. /\ rec' = [rec EXCEPT ![p] = [NoRecord EXCEPT !.kind = "deleted", !.session = rec[p].session, !.line = rec[p].line]]
        /\ UNCHANGED <<req, warm, live>> /\ rec[p].kind # "none"
    BY DEF DeleteResponse, Present
  <1>2. /\ rec'[p].kind = "deleted" /\ rec'[p].line = rec[p].line
        /\ \A q \in Responses : q # p => rec'[q] = rec[q]
    BY <1>1 DEF IInv, Shape, NoRecord
  <1>3. RecordStep
    BY <1>1, <1>2, OthersStay DEF RecordStays
  <1>4. SInv'
    BY <1>1, <1>3, StaticStays
  <1> QED
    BY <1>2, <1>3, <1>4

\* Steps that leave the records, and of the requests only spend some.
LEMMA QuietStatic ==
  ASSUME IInv, SInv, rec' = rec, live' \subseteq live,
         \A q \in Responses : warm'[q] \in {warm[q], NoWarm},
         \A q \in Responses :
           req'[q].phase \in {"ready", "sent"} =>
             /\ req[q].phase \in {"ready", "sent"}
             /\ req'[q].kind = req[q].kind /\ req'[q].prev = req[q].prev /\ req'[q].input = req[q].input
             /\ req'[q].answers = req[q].answers /\ req'[q].added = req[q].added
  PROVE  SInv'
  <1>1. \A q \in Responses : warm'[q].held => warm'[q] = warm[q]
    BY DEF NoWarm
  <1> QED
    BY <1>1, SameRecords, StaticStays

\* Every state satisfies the invariant of lines, records and requests.
THEOREM Lines == Spec => []SInv
  <1>1. Init => SInv
    BY DEF Init, SInv, LinesOK, RecordsSpeak, RequestsSpeak, LiveOK, WarmRecords, Present, NoRecord, NewRequest, NoWarm
  <1>2. IInv /\ SInv /\ [Next]_vars => SInv'
    <2> SUFFICES ASSUME IInv, SInv, [Next]_vars PROVE SInv'
      OBVIOUS
    <2>1. ASSUME NEW r \in Responses, Prepare(r) PROVE SInv'
      <3>1. \A kind \in {"turn", "warm"}, streaming \in BOOLEAN : StartFresh(r, kind, streaming) => SInv'
        BY StartFreshStatic
      <3>2. \A kind \in {"turn", "warm"}, streaming \in BOOLEAN, p \in Responses : Resume(r, kind, p, streaming) => SInv'
        BY ResumeStatic
      <3>3. \A kind \in {"turn", "warm"}, streaming \in BOOLEAN, p \in Responses, hydrated \in BOOLEAN :
              Synthesize(r, kind, p, streaming, hydrated) => SInv'
        BY SynthesizeStatic
      <3>4. \A p \in Responses, added \in BOOLEAN : AnswerLive(r, p, added) => SInv'
        BY AnswerLiveStatic
      <3>5. \A p \in Responses, added, hydrated \in BOOLEAN : AnswerFromRecord(r, p, added, hydrated) => SInv'
        BY AnswerFromRecordStatic
      <3>6. \A p \in Responses : UseWarm(r, p) => SInv'
        BY UseWarmStatic
      <3> QED
        BY <2>1, <3>1, <3>2, <3>3, <3>4, <3>5, <3>6 DEF Prepare
    <2>2. ASSUME NEW r \in Responses, DropWarm(r) PROVE SInv'
      BY <2>2, QuietStatic DEF DropWarm, IInv, Shape
    <2>3. ASSUME NEW r \in Responses, Fails(r) \/ Send(r) PROVE SInv'
      <3>1. \A q \in Responses :
              req'[q].phase \in {"ready", "sent"} =>
                /\ req[q].phase \in {"ready", "sent"}
                /\ req'[q].kind = req[q].kind /\ req'[q].prev = req[q].prev /\ req'[q].input = req[q].input
                /\ req'[q].answers = req[q].answers /\ req'[q].added = req[q].added
        BY <2>3 DEF Fails, Send, IInv, Shape, RequestFields
      <3>2. rec' = rec /\ live' = live /\ warm' = warm
        BY <2>3 DEF Fails, Send
      <3> QED
        BY <3>1, <3>2, QuietStatic
    <2>4. ASSUME Crash PROVE SInv'
      <3>1. /\ rec' = rec /\ live' \subseteq live /\ \A q \in Responses : warm'[q] = NoWarm
            /\ \A q \in Responses : req'[q].phase \in {"new", "done"}
        BY <2>4 DEF Crash, NewRequest
      <3> QED
        BY <3>1, QuietStatic
    <2>5. ASSUME NEW p \in Responses, BatchGone(p) PROVE SInv'
      BY <2>5, QuietStatic DEF BatchGone
    <2>6. CASE UNCHANGED vars
      BY <2>6, QuietStatic DEF vars
    <2>7. ASSUME NEW r \in Responses, SaveWarm(r) PROVE SInv'
      BY <2>7, SaveWarmStatic
    <2>8. ASSUME NEW r \in Responses, NEW output \in {"text", "function", "custom"}, Generate(r, output) PROVE SInv'
      BY <2>8, GenerateStatic
    <2>9. ASSUME NEW r \in Responses, NEW id \in Responses, NEW fails \in BOOLEAN, ClearInputPending(r, id, fails) PROVE SInv'
      BY <2>9, ClearInputPendingStatic
    <2>10. ASSUME NEW p \in Responses, DeleteResponse(p) PROVE SInv'
      BY <2>10, DeleteResponseStatic
    <2>11. CASE Next
      BY <2>1, <2>2, <2>3, <2>4, <2>5, <2>7, <2>8, <2>9, <2>10, <2>11 DEF Next
    <2> QED
      BY <2>6, <2>11
  <1> QED
    BY <1>1, <1>2, Invariant, PTL DEF Spec

----------------------------------------------------------------------------
(* What a record tells, in a text, whatever function holds the records.      *)

TellsOf(R, text, x) ==
  /\ \A i \in DOMAIN R[x].input : R[x].input[i] \in Range(text)
  /\ R[x].kind = "turn" => <<"answer", x>> \in Range(text)
  /\ R[x].output \in {"function", "custom"} => {<<"call", x>>, <<"told call", x>>} \cap Range(text) # {}
  /\ R[x].answers # None =>
       {<<"result", R[x].answers>>, <<"told result", R[x].answers>>} \cap Range(text) # {}
  /\ R[x].added => Input(x) \in Range(text)

LEMMA TellsOfRecord ==
  ASSUME NEW text, NEW x, TellsOf(rec, text, x)
  PROVE  TellsRecord(text, x)
  <1>1. \A what \in What : \A y : ({<<what, y>>, <<InProse(what), y>>} \cap Range(text) # {}) => Tells(text, what, y)
    BY DEF Tells, Range
  <1>2. InProse("answer") = "answer" /\ InProse("call") = "told call" /\ InProse("result") = "told result" /\ InProse("input") = "input"
    BY DEF InProse
  <1>3. rec[x].kind = "turn" => Tells(text, "answer", x)
    BY <1>1, <1>2 DEF TellsOf, What
  <1>4. Calls(x) => Tells(text, "call", x)
    BY <1>1, <1>2 DEF TellsOf, What, Calls
  <1>5. rec[x].answers # None => Tells(text, "result", rec[x].answers)
    BY <1>1, <1>2 DEF TellsOf, What
  <1>6. rec[x].added => Tells(text, "input", x)
    BY <1>1, <1>2 DEF TellsOf, What, Input
  <1> QED
    BY <1>3, <1>4, <1>5, <1>6 DEF TellsRecord, TellsOf

LEMMA TellsMore ==
  ASSUME NEW R, NEW x, NEW t, NEW u, TellsOf(R, t, x), Range(t) \subseteq Range(u)
  PROVE  TellsOf(R, u, x)
  BY DEF TellsOf

\* A chain is the end of the line of its record, as far as the limit goes and
\* the records are there.
LEMMA ChainIs ==
  ASSUME IInv, SInv, NEW p \in Responses, Present(p)
  PROVE  LET l == rec[p].line IN
         /\ l \in Seq(Responses) /\ Len(l) \in Nat \ {0} /\ l[Len(l)] = p
         /\ \E m \in 1 .. Len(l) :
              /\ Chain(p) = SubSeq(l, m, Len(l)) /\ m + ChainLimit > Len(l)
              /\ \A j \in m .. Len(l) : Present(l[j])
  <1> DEFINE l == rec[p].line  T == ChainStarts(l)
  <1>1. l \in Seq(Responses) /\ Len(l) \in Nat \ {0} /\ l[Len(l)] = p
    BY LenProperties DEF IInv, RecordsOK, SInv, LinesOK, Present
  <1>2. T \in SUBSET Nat
    BY <1>1 DEF ChainStarts
  <1>3. Len(l) \in T
    BY <1>1, LimitAssumption DEF ChainStarts
  <1>4. \E i \in T : \A j \in T : i <= j
    BY <1>2, <1>3, NatMinimum
  <1>5. PICK m \in T : Chain(p) = SubSeq(l, m, Len(l))
    <2> DEFINE m == CHOOSE i \in T : \A j \in T : i <= j
    <2>1. m \in T
      BY <1>4
    <2>2. Chain(p) = SubSeq(l, m, Len(l))
      BY DEF Chain, From
    <2> QED
      BY <2>1, <2>2
  <1>6. m \in 1 .. Len(l) /\ m + ChainLimit > Len(l) /\ \A j \in m .. Len(l) - 1 : Present(l[j])
    BY <1>5 DEF ChainStarts
  <1>7. \A j \in m .. Len(l) : Present(l[j])
    <2> SUFFICES ASSUME NEW j \in m .. Len(l) PROVE Present(l[j])
      OBVIOUS
    <2>1. j = Len(l) \/ j \in m .. Len(l) - 1
      BY <1>1, <1>6
    <2> QED
      BY <2>1, <1>1, <1>6
  <1> QED
    BY <1>1, <1>5, <1>6, <1>7

\* Each of a chain answers none of it, or the one before it.
LEMMA ChainElements ==
  ASSUME IInv, SInv, NEW p \in Responses, Present(p)
  PROVE  LET chain == Chain(p) IN
         /\ Len(chain) \in Nat \ {0} /\ chain \in [1 .. Len(chain) -> Responses]
         /\ \A k \in 1 .. Len(chain) : Present(chain[k])
         /\ \A j, k \in 1 .. Len(chain) : rec[chain[k]].answers = chain[j] => k = j + 1
  <1> DEFINE l == rec[p].line  n == Len(l)  chain == Chain(p)
  <1>1. l \in Seq(Responses) /\ n \in Nat \ {0} /\ l[n] = p
    BY ChainIs
  <1>2. PICK m \in 1 .. n : chain = SubSeq(l, m, n) /\ \A j \in m .. n : Present(l[j])
    BY ChainIs
  <1>3. /\ Len(chain) = n - m + 1 /\ Len(chain) \in Nat \ {0}
        /\ chain \in [1 .. Len(chain) -> Responses]
        /\ \A k \in 1 .. Len(chain) : chain[k] = l[m + k - 1] /\ m + k - 1 \in m .. n /\ m + k - 1 \in 1 .. n
    <2>1. \A j \in m .. n : l[j] \in Responses
      BY <1>1, ElementOfSeq
    <2>2. /\ chain \in Seq(Responses) /\ Len(chain) = n - m + 1
          /\ \A i \in 1 .. n - m + 1 : chain[i] = l[m + i - 1]
      BY <1>1, <1>2, <2>1, SubSeqProperties
    <2> HIDE DEF chain, l
    <2>3. chain \in [1 .. Len(chain) -> Responses]
      BY <2>2, LenProperties
    <2> QED
      BY <2>2, <2>3, <1>1
  <1>4. \A i \in 1 .. n : l[i] \in Responses /\ rec[l[i]].line = SubSeq(l, 1, i) /\ Len(SubSeq(l, 1, i)) = i
                          /\ \A j \in 1 .. i : SubSeq(l, 1, i)[j] = l[j]
    <2>1. \A i \in 1 .. n : rec[l[i]].line = SubSeq(l, 1, i)
      BY DEF SInv, LinesOK, Present
    <2>2. \A i \in 1 .. n : l[i] \in Responses
      BY <1>1, ElementOfSeq
    <2> QED
      BY <2>1, <2>2, <1>1
  <1> HIDE DEF chain, l
  <1>5. ASSUME NEW j \in 1 .. Len(chain), NEW k \in 1 .. Len(chain), rec[chain[k]].answers = chain[j]
        PROVE  k = j + 1
    <2> DEFINE a == m + k - 1  b == m + j - 1
    <2>1. a \in 1 .. n /\ b \in 1 .. n /\ chain[k] = l[a] /\ chain[j] = l[b] /\ Present(l[a]) /\ l[b] \in Responses
      <3>1. a \in m .. n /\ a \in 1 .. n /\ chain[k] = l[a]
        BY <1>3
      <3>2. b \in 1 .. n /\ chain[j] = l[b]
        BY <1>3
      <3> HIDE DEF a, b
      <3>3. Present(l[a])
        BY <3>1, <1>2
      <3>4. l[b] \in Responses
        BY <3>2, <1>4
      <3> QED
        BY <3>1, <3>2, <3>3, <3>4
    <2> HIDE DEF a, b
    <2>2. l[b] # None
      BY <2>1, ResponsesAssumption
    <2>3. a > 1 /\ rec[l[a]].line[a - 1] = l[b]
      <3> DEFINE q == l[a]
      <3>1. q \in Responses /\ Present(q) /\ rec[q].answers = l[b] /\ Len(rec[q].line) = a
        BY <2>1, <1>4, <1>5
      <3> HIDE DEF q
      <3>2. Len(rec[q].line) > 1 /\ rec[q].line[Len(rec[q].line) - 1] = rec[q].answers
        BY <3>1, <2>2 DEF SInv, RecordsSpeak
      <3> QED
        BY <3>1, <3>2 DEF q
    <2>4. l[a - 1] = l[b] /\ a - 1 \in 1 .. n
      <3>1. a - 1 \in 1 .. n /\ a - 1 \in 1 .. a
        BY <2>1, <2>3, <1>1
      <3>2. rec[l[a]].line = SubSeq(l, 1, a) /\ SubSeq(l, 1, a)[a - 1] = l[a - 1]
        BY <2>1, <3>1, <1>4
      <3> QED
        BY <2>3, <3>1, <3>2
    <2>5. a - 1 = b
      <3>1. Len(rec[l[a - 1]].line) = a - 1 /\ Len(rec[l[b]].line) = b
        BY <2>1, <2>4, <1>4
      <3> QED
        BY <3>1, <2>4
    <2> QED
      BY <2>5, <1>3 DEF a, b
  <1> QED
    BY <1>2, <1>3, <1>5 DEF chain

\* Sequences of entries that are neither calls nor results.
Quiet(s) == \A i \in 1 .. Len(s) : s[i][1] # "result" /\ s[i][1] # "call"

LEMMA QuietConcat ==
  ASSUME NEW a \in Seq(Entry), NEW b \in Seq(Entry), Quiet(a), Quiet(b)
  PROVE  a \o b \in Seq(Entry) /\ Quiet(a \o b)
  <1>1. /\ a \o b \in Seq(Entry) /\ Len(a \o b) = Len(a) + Len(b)
        /\ \A i \in 1 .. Len(a) + Len(b) : (a \o b)[i] = IF i <= Len(a) THEN a[i] ELSE b[i - Len(a)]
    BY ConcatProperties
  <1>2. Len(a) \in Nat /\ Len(b) \in Nat
    BY LenProperties
  <1>3. ASSUME NEW i \in 1 .. Len(a) + Len(b) PROVE (a \o b)[i][1] # "result" /\ (a \o b)[i][1] # "call"
    <2>1. CASE i <= Len(a)
      BY <2>1, <1>1, <1>2 DEF Quiet
    <2>2. CASE ~(i <= Len(a))
      <3>1. i - Len(a) \in 1 .. Len(b)
        BY <2>2, <1>2
      <3> QED
        BY <2>2, <3>1, <1>1 DEF Quiet
    <2> QED
      BY <2>1, <2>2
  <1> QED
    BY <1>1, <1>3 DEF Quiet

LEMMA OneEntry ==
  ASSUME NEW S, NEW e \in S
  PROVE  <<e>> \in Seq(S) /\ Len(<<e>>) = 1 /\ <<e>>[1] = e
  OBVIOUS

LEMMA TwoEntries ==
  ASSUME NEW S, NEW e \in S, NEW f \in S
  PROVE  /\ <<e>> \o <<f>> \in Seq(S) /\ Len(<<e>> \o <<f>>) = 2
         /\ (<<e>> \o <<f>>)[1] = e /\ (<<e>> \o <<f>>)[2] = f
  OBVIOUS

LEMMA QuietOne ==
  ASSUME NEW e \in Entry, e[1] # "result", e[1] # "call"
  PROVE  Quiet(<<e>>)
  BY OneEntry DEF Quiet

LEMMA ToldIsQuiet ==
  ASSUME NEW p \in Responses, NEW r \in Responses, NEW added
  PROVE  Quiet(Told("told result", p, r, added))
  <1> DEFINE e == <<"told result", p>>
  <1>0. e \in Entry /\ e[1] = "told result"
    BY DEF Entry, What
  <1>1. <<e>> \in Seq(Entry) /\ (IF added THEN <<Input(r)>> ELSE <<>>) \in Seq(Entry)
    BY <1>0, OneEntry, InputIsEntry, EmptySeq
  <1>2. Quiet(<<e>>)
    <2> HIDE DEF e
    <2> QED
      BY <1>0, QuietOne
  <1>3. Quiet(IF added THEN <<Input(r)>> ELSE <<>>)
    <2>1. Quiet(<<Input(r)>>)
      BY InputIsEntry, QuietOne DEF Input
    <2>2. Quiet(<<>>)
      BY DEF Quiet
    <2> QED
      BY <2>1, <2>2
  <1>4. Told("told result", p, r, added) = <<e>> \o (IF added THEN <<Input(r)>> ELSE <<>>)
    BY DEF Told
  <1> HIDE DEF e
  <1>5. Quiet(<<e>> \o (IF added THEN <<Input(r)>> ELSE <<>>))
    BY <1>1, <1>2, <1>3, QuietConcat
  <1> QED
    BY <1>4, <1>5

\* The parts of what a record tells.
Middle(x) == rec[x].input \o Answer(x)
Result(chain, x) == Outputs(x, IF rec[x].answers \in Declared(chain) THEN "result" ELSE "told result")
Call(chain, x) == IF Calls(x) THEN <<<<IF x \in Declared(chain) THEN "call" ELSE "told call", x>>>> ELSE <<>>

LEMMA RecordParts ==
  ASSUME IInv, SInv, NEW x \in Responses, Present(x), NEW what \in What
  PROVE  /\ rec[x].input \in Seq(Entry) /\ Answer(x) \in Seq(Entry) /\ Middle(x) \in Seq(Entry) /\ Quiet(Middle(x))
         /\ Outputs(x, what) \in Seq(Entry)
         /\ IF rec[x].answers = None THEN Outputs(x, what) = <<>>
            ELSE /\ Len(Outputs(x, what)) \in {1, 2} /\ Outputs(x, what)[1] = <<what, rec[x].answers>>
                 /\ Len(Outputs(x, what)) = 2 => Outputs(x, what)[2] = Input(x)
         /\ rec[x].added => Len(Outputs(x, what)) = 2 /\ rec[x].answers # None
  <1>1. /\ rec[x].answers \in Responses \cup {None} /\ rec[x].input \in Seq(Entry)
        /\ rec[x].answers = None => rec[x].input = <<Input(x)>> /\ ~rec[x].added
        /\ rec[x].answers # None => rec[x].input \in {<<>>, Told("told result", rec[x].answers, x, rec[x].added)}
    BY DEF SInv, RecordsSpeak, Speaks
  <1>2. Answer(x) \in Seq(Entry) /\ Quiet(Answer(x))
    <2>1. <<"answer", x>> \in Entry
      BY DEF Entry, What
    <2>2. <<<<"answer", x>>>> \in Seq(Entry) /\ <<>> \in Seq(Entry)
      BY <2>1
    <2>3. Quiet(<<<<"answer", x>>>>) /\ Quiet(<<>>)
      BY DEF Quiet
    <2> QED
      BY <2>2, <2>3 DEF Answer
  <1>3. Quiet(rec[x].input)
    <2>1. Quiet(<<>>) /\ Quiet(<<Input(x)>>)
      BY DEF Quiet, Input
    <2> QED
      BY <2>1, <1>1, ToldIsQuiet
  <1>4. CASE rec[x].answers = None
    <2>1. Outputs(x, what) = <<>>
      BY <1>4 DEF Outputs
    <2> QED
      BY <2>1, <1>1, <1>2, <1>3, <1>4, QuietConcat, EmptySeq DEF Middle
  <1>5. CASE rec[x].answers # None
    <2> DEFINE e == <<what, rec[x].answers>>
    <2>1. e \in Entry /\ Input(x) \in Entry
      BY <1>1, <1>5, InputIsEntry DEF Entry
    <2>2. Outputs(x, what) = <<e>> \o (IF rec[x].added THEN <<Input(x)>> ELSE <<>>)
      BY <1>5 DEF Outputs
    <2> HIDE DEF e
    <2>0. e = <<what, rec[x].answers>>
      BY DEF e
    <2>5. Middle(x) \in Seq(Entry) /\ Quiet(Middle(x))
      BY <1>1, <1>2, <1>3, QuietConcat DEF Middle
    <2>3. CASE rec[x].added
      <3>1. Outputs(x, what) = <<e>> \o <<Input(x)>>
        BY <2>2, <2>3
      <3>2. /\ Outputs(x, what) \in Seq(Entry) /\ Len(Outputs(x, what)) = 2
            /\ Outputs(x, what)[1] = e /\ Outputs(x, what)[2] = Input(x)
        BY <3>1, <2>1, TwoEntries
      <3> QED
        BY <3>2, <2>0, <2>5, <1>1, <1>2, <1>5
    <2>4. CASE ~rec[x].added
      <3>1. Outputs(x, what) = <<e>>
        <4>1. <<e>> \in Seq(Entry)
          BY <2>1, OneEntry
        <4> QED
          BY <2>2, <2>4, <4>1, ConcatEmptySeq
      <3>2. Outputs(x, what) \in Seq(Entry) /\ Len(Outputs(x, what)) = 1 /\ Outputs(x, what)[1] = e
        BY <3>1, <2>1, OneEntry
      <3>3. Len(Outputs(x, what)) \in {1, 2} /\ Len(Outputs(x, what)) # 2
        BY <3>2
      <3>4. rec[x].input \in Seq(Entry) /\ Answer(x) \in Seq(Entry)
        BY <1>1, <1>2
      <3> QED
        BY <3>2, <3>3, <3>4, <2>0, <2>4, <2>5, <1>5
    <2> QED
      BY <2>3, <2>4
  <1> QED
    BY <1>4, <1>5

LEMMA CallIs ==
  ASSUME NEW chain, NEW x \in Responses
  PROVE  /\ Call(chain, x) \in Seq(Entry)
         /\ IF Calls(x) THEN Len(Call(chain, x)) = 1 /\ Call(chain, x)[1] = <<IF x \in Declared(chain) THEN "call" ELSE "told call", x>>
            ELSE Call(chain, x) = <<>>
  <1> DEFINE e == <<IF x \in Declared(chain) THEN "call" ELSE "told call", x>>
  <1>1. e \in Entry
    BY DEF Entry, What
  <1>2. Call(chain, x) = IF Calls(x) THEN <<e>> ELSE <<>>
    BY DEF Call
  <1> HIDE DEF e
  <1>3. CASE Calls(x)
    <2>1. <<e>> \in Seq(Entry) /\ Len(<<e>>) = 1 /\ <<e>>[1] = e
      BY <1>1, OneEntry
    <2>2. Call(chain, x) = <<e>>
      BY <1>2, <1>3
    <2>3. Call(chain, x) \in Seq(Entry) /\ Len(Call(chain, x)) = 1 /\ Call(chain, x)[1] = e
      BY <2>1, <2>2
    <2> QED
      BY <2>3, <1>3 DEF e
  <1>4. CASE ~Calls(x)
    BY <1>2, <1>4, EmptySeq
  <1> QED
    BY <1>3, <1>4

LEMMA RecordHistoryIs ==
  ASSUME IInv, SInv, NEW x \in Responses, Present(x), NEW chain
  PROVE  LET o == Result(chain, x)  m == Middle(x)  c == Call(chain, x) IN
         /\ o \in Seq(Entry) /\ m \in Seq(Entry) /\ c \in Seq(Entry) /\ o \o m \in Seq(Entry) /\ Quiet(m)
         /\ RecordHistory(chain, x) = (o \o m) \o c /\ RecordHistory(chain, x) \in Seq(Entry)
  <1> DEFINE o == Result(chain, x)  i == rec[x].input  a == Answer(x)  c == Call(chain, x)
             what == IF rec[x].answers \in Declared(chain) THEN "result" ELSE "told result"
  <1>1. what \in What
    BY DEF What
  <1>2. o = Outputs(x, what)
    BY DEF Result
  <1>3. RecordHistory(chain, x) = ((o \o i) \o a) \o c
    BY DEF RecordHistory, Result, Call
  <1> HIDE DEF what
  <1>4. o \in Seq(Entry) /\ i \in Seq(Entry) /\ a \in Seq(Entry) /\ c \in Seq(Entry)
        /\ Middle(x) \in Seq(Entry) /\ Quiet(Middle(x))
    BY <1>1, <1>2, RecordParts, CallIs
  <1>5. Middle(x) = i \o a
    BY DEF Middle
  <1> HIDE DEF o, i, a, c
  <1>6. Associates(o, i, a)
    BY <1>4, ConcatAssociates
  <1>7. (o \o i) \o a = o \o Middle(x)
    BY <1>5, <1>6 DEF Associates
  <1>8. o \o Middle(x) \in Seq(Entry)
    BY <1>4, ConcatProperties
  <1>9. (o \o Middle(x)) \o c \in Seq(Entry)
    BY <1>4, <1>8, ConcatProperties
  <1> QED
    BY <1>3, <1>4, <1>7, <1>8, <1>9 DEF o, c

\* Results come first in what a record tells, calls last.
LEMMA HistoryMarks ==
  ASSUME IInv, SInv, NEW x \in Responses, Present(x), NEW chain
  PROVE  LET e == RecordHistory(chain, x) IN
         /\ \A i \in 1 .. Len(e) :
              /\ e[i][1] = "result" => i = 1 /\ rec[x].answers \in Declared(chain) /\ rec[x].answers # None
                                       /\ e[i] = <<"result", rec[x].answers>>
              /\ e[i][1] = "call" => i = Len(e) /\ x \in Declared(chain) /\ e[i] = <<"call", x>>
         /\ rec[x].answers \in Declared(chain) /\ rec[x].answers # None => 1 \in 1 .. Len(e) /\ e[1] = <<"result", rec[x].answers>>
         /\ x \in Declared(chain) => Len(e) \in 1 .. Len(e) /\ e[Len(e)] = <<"call", x>>
  <1> DEFINE o == Result(chain, x)  m == Middle(x)  c == Call(chain, x)  e == RecordHistory(chain, x)
             what == IF rec[x].answers \in Declared(chain) THEN "result" ELSE "told result"
             mark == IF x \in Declared(chain) THEN "call" ELSE "told call"
  <1>0. what \in What /\ what \in {"result", "told result"} /\ mark \in {"call", "told call"}
        /\ (what = "result" <=> rec[x].answers \in Declared(chain)) /\ (mark = "call" <=> x \in Declared(chain))
    BY DEF What
  <1>1. o = Outputs(x, what)
    BY DEF Result
  <1>2. /\ o \in Seq(Entry) /\ m \in Seq(Entry) /\ c \in Seq(Entry) /\ o \o m \in Seq(Entry) /\ Quiet(m)
        /\ e = (o \o m) \o c /\ e \in Seq(Entry)
    BY RecordHistoryIs
  <1>3. IF Calls(x) THEN Len(c) = 1 /\ c[1] = <<mark, x>> ELSE c = <<>>
    BY CallIs
  <1>4. x \in Declared(chain) => Calls(x)
    BY DEF Declared, Calls
  <1> HIDE DEF what
  <1>5. IF rec[x].answers = None THEN o = <<>>
        ELSE /\ Len(o) \in {1, 2} /\ o[1] = <<what, rec[x].answers>>
             /\ Len(o) = 2 => o[2] = Input(x)
    BY <1>0, <1>1, RecordParts
  <1> HIDE DEF mark, o, m, c, e
  <1>6. /\ Len(o) \in Nat /\ Len(m) \in Nat /\ Len(c) \in Nat
        /\ Len(o \o m) = Len(o) + Len(m) /\ Len(e) = Len(o) + Len(m) + Len(c)
        /\ \A i \in 1 .. Len(o) + Len(m) : (o \o m)[i] = IF i <= Len(o) THEN o[i] ELSE m[i - Len(o)]
        /\ \A i \in 1 .. Len(o) + Len(m) + Len(c) :
             e[i] = IF i <= Len(o) + Len(m) THEN (o \o m)[i] ELSE c[i - (Len(o) + Len(m))]
    <2>1. Len(o) \in Nat /\ Len(m) \in Nat /\ Len(c) \in Nat
      BY <1>2, LenProperties
    <2>2. /\ Len(o \o m) = Len(o) + Len(m)
          /\ \A i \in 1 .. Len(o) + Len(m) : (o \o m)[i] = IF i <= Len(o) THEN o[i] ELSE m[i - Len(o)]
      BY <1>2, ConcatProperties
    <2> DEFINE b == o \o m
    <2> HIDE DEF b
    <2>3. b \in Seq(Entry) /\ e = b \o c /\ Len(b) = Len(o) + Len(m)
      BY <1>2, <2>2 DEF b
    <2>4. /\ Len(b \o c) = Len(b) + Len(c)
          /\ \A i \in 1 .. Len(b) + Len(c) : (b \o c)[i] = IF i <= Len(b) THEN b[i] ELSE c[i - Len(b)]
      <3>1. b \in Seq(Entry) /\ c \in Seq(Entry)
        BY <1>2, <2>3
      <3> QED
        BY <3>1, ConcatProperties
    <2> QED
      BY <2>1, <2>2, <2>3, <2>4 DEF b
  <1>7. ASSUME NEW i \in 1 .. Len(o) PROVE /\ o[i][1] # "call"
                                           /\ o[i][1] = "result" => i = 1 /\ what = "result" /\ rec[x].answers # None
                                                                    /\ o[i] = <<"result", rec[x].answers>>
    <2> DEFINE y == rec[x].answers
    <2>1. y # None
      <3>1. CASE y = None
        <4>1. Len(o) = 0
          BY <3>1, <1>5
        <4> QED
          BY <4>1
      <3> QED
        BY <3>1
    <2>2. Len(o) \in {1, 2} /\ o[1] = <<what, y>> /\ (Len(o) = 2 => o[2] = Input(x))
      BY <2>1, <1>5
    <2> HIDE DEF y
    <2>3. CASE i = 1
      <3>1. o[i][1] = what /\ o[i] = <<what, y>>
        BY <2>2, <2>3
      <3> QED
        BY <3>1, <2>1, <2>3, <1>0 DEF y
    <2>4. CASE i # 1
      <3>1. i = 2 /\ Len(o) = 2
        <4>1. CASE Len(o) = 1
          BY <4>1, <2>4
        <4>2. CASE Len(o) = 2
          BY <4>2, <2>4
        <4> QED
          BY <4>1, <4>2, <2>2
      <3>2. o[i] = Input(x) /\ Input(x)[1] = "input"
        BY <3>1, <2>2 DEF Input
      <3> QED
        BY <3>2
    <2> QED
      BY <2>3, <2>4
  <1>8. ASSUME NEW i \in 1 .. Len(c) PROVE /\ c[i][1] # "result"
                                           /\ c[i][1] = "call" => i = Len(c) /\ x \in Declared(chain) /\ c[i] = <<"call", x>>
    <2>1. Len(c) # 0
      BY <1>6
    <2>2. Len(c) = 1 /\ c[1] = <<mark, x>>
      <3>1. c # <<>>
        BY <2>1
      <3> QED
        BY <3>1, <1>3
    <2>3. i = 1 /\ c[i] = <<mark, x>> /\ c[i][1] = mark
      BY <2>2
    <2> QED
      BY <2>2, <2>3, <1>0
  <1>9. ASSUME NEW i \in 1 .. Len(e)
        PROVE  /\ e[i][1] = "result" => i = 1 /\ rec[x].answers \in Declared(chain) /\ rec[x].answers # None
                                        /\ e[i] = <<"result", rec[x].answers>>
               /\ e[i][1] = "call" => i = Len(e) /\ x \in Declared(chain) /\ e[i] = <<"call", x>>
    <2>1. CASE i <= Len(o)
      <3>1. i \in 1 .. Len(o) /\ i \in 1 .. Len(o) + Len(m) /\ e[i] = o[i]
        BY <2>1, <1>6
      <3> QED
        BY <3>1, <1>0, <1>7
    <2>2. CASE ~(i <= Len(o)) /\ i <= Len(o) + Len(m)
      <3>1. i - Len(o) \in 1 .. Len(m) /\ e[i] = m[i - Len(o)]
        BY <2>2, <1>6
      <3> QED
        BY <3>1, <1>2 DEF Quiet
    <2>3. CASE ~(i <= Len(o) + Len(m))
      <3>1. /\ i - (Len(o) + Len(m)) \in 1 .. Len(c) /\ e[i] = c[i - (Len(o) + Len(m))]
            /\ (i - (Len(o) + Len(m)) = Len(c) => i = Len(e))
        BY <2>3, <1>6
      <3> QED
        BY <3>1, <1>8
    <2> QED
      BY <2>1, <2>2, <2>3
  <1>10. ASSUME rec[x].answers \in Declared(chain), rec[x].answers # None
         PROVE  1 \in 1 .. Len(e) /\ e[1] = <<"result", rec[x].answers>>
    <2>1. Len(o) \in {1, 2} /\ o[1] = <<"result", rec[x].answers>>
      BY <1>0, <1>5, <1>10
    <2> QED
      BY <2>1, <1>6
  <1>11. ASSUME x \in Declared(chain) PROVE Len(e) \in 1 .. Len(e) /\ e[Len(e)] = <<"call", x>>
    <2>1. Len(c) = 1 /\ c[1] = <<"call", x>>
      BY <1>0, <1>3, <1>4, <1>11
    <2>2. Len(e) \in 1 .. Len(e) /\ ~(Len(e) <= Len(o) + Len(m)) /\ Len(e) - (Len(o) + Len(m)) = 1
      BY <2>1, <1>6
    <2> QED
      BY <2>1, <2>2, <1>6
  <1> QED
    BY <1>9, <1>10, <1>11 DEF e

LEMMA RangeHas ==
  ASSUME NEW S, NEW s \in Seq(S), NEW i \in 1 .. Len(s)
  PROVE  s[i] \in Range(s)
  BY LenProperties DEF Range

LEMMA RangeHasFirst ==
  ASSUME NEW S, NEW s \in Seq(S), Len(s) \in {1, 2}
  PROVE  s[1] \in Range(s) /\ (Len(s) = 2 => s[2] \in Range(s))
  <1>1. 1 \in 1 .. Len(s) /\ (Len(s) = 2 => 2 \in 1 .. Len(s))
    OBVIOUS
  <1> QED
    BY <1>1, RangeHas

\* What a record tells, it tells of itself.
LEMMA PartsTell ==
  ASSUME IInv, SInv, NEW x \in Responses, Present(x), NEW chain, NEW what \in {"result", "told result"}, NEW text,
         Range(rec[x].input) \subseteq Range(text), Range(Answer(x)) \subseteq Range(text),
         Range(Outputs(x, what)) \subseteq Range(text), Range(Call(chain, x)) \subseteq Range(text)
  PROVE  TellsOf(rec, text, x)
  <1>0. what \in What
    BY DEF What
  <1>1. \A i \in DOMAIN rec[x].input : rec[x].input[i] \in Range(text)
    BY DEF Range
  <1>2. rec[x].kind = "turn" => <<"answer", x>> \in Range(text)
    <2> DEFINE a == <<"answer", x>>
    <2>1. a \in Entry
      BY DEF Entry, What
    <2>2. rec[x].kind = "turn" => Answer(x) = <<a>>
      BY DEF Answer
    <2> HIDE DEF a
    <2>3. rec[x].kind = "turn" => a \in Range(Answer(x))
      <3>1. <<a>> \in Seq(Entry) /\ Len(<<a>>) = 1 /\ <<a>>[1] = a
        BY <2>1, OneEntry
      <3>2. <<a>>[1] \in Range(<<a>>)
        BY <3>1, RangeHasFirst
      <3> QED
        BY <2>2, <3>1, <3>2
    <2> QED
      BY <2>3 DEF a
  <1>3. Calls(x) => {<<"call", x>>, <<"told call", x>>} \cap Range(text) # {}
    <2>1. ASSUME Calls(x) PROVE Call(chain, x)[1] \in Range(Call(chain, x))
      <3>1. Call(chain, x) \in Seq(Entry) /\ Len(Call(chain, x)) = 1
        BY <2>1, CallIs
      <3> QED
        BY <3>1, RangeHasFirst
    <2>2. Calls(x) => Call(chain, x)[1] \in {<<"call", x>>, <<"told call", x>>}
      BY CallIs
    <2> QED
      BY <2>1, <2>2
  <1>4. rec[x].answers # None =>
          {<<"result", rec[x].answers>>, <<"told result", rec[x].answers>>} \cap Range(text) # {}
    <2>1. ASSUME rec[x].answers # None PROVE Outputs(x, what)[1] \in Range(Outputs(x, what))
      <3>1. Outputs(x, what) \in Seq(Entry) /\ Len(Outputs(x, what)) \in {1, 2}
        BY <1>0, <2>1, RecordParts
      <3> QED
        BY <3>1, RangeHasFirst
    <2>2. rec[x].answers # None => Outputs(x, what)[1] = <<what, rec[x].answers>>
      BY <1>0, RecordParts
    <2> QED
      BY <2>1, <2>2
  <1>5. rec[x].added => Input(x) \in Range(text)
    <2>1. ASSUME rec[x].added PROVE Input(x) \in Range(Outputs(x, what))
      <3>1. Len(Outputs(x, what)) = 2 /\ rec[x].answers # None
        BY <1>0, <2>1, RecordParts
      <3>2. Outputs(x, what) \in Seq(Entry) /\ Outputs(x, what)[2] = Input(x)
        BY <3>1, <1>0, RecordParts
      <3>3. Outputs(x, what)[2] \in Range(Outputs(x, what))
        BY <3>1, <3>2, RangeHasFirst
      <3> QED
        BY <3>2, <3>3
    <2> QED
      BY <2>1
  <1> QED
    BY <1>1, <1>2, <1>3, <1>4, <1>5 DEF TellsOf, Calls

LEMMA HistoryTells ==
  ASSUME IInv, SInv, NEW x \in Responses, Present(x), NEW chain
  PROVE  TellsOf(rec, RecordHistory(chain, x), x)
  <1> DEFINE o == Result(chain, x)  m == Middle(x)  c == Call(chain, x)  e == RecordHistory(chain, x)
             what == IF rec[x].answers \in Declared(chain) THEN "result" ELSE "told result"
  <1>1. what \in {"result", "told result"} /\ o = Outputs(x, what) /\ m = rec[x].input \o Answer(x)
        /\ what \in What
    BY DEF Result, Middle, What
  <1> HIDE DEF what
  <1>2. rec[x].input \in Seq(Entry) /\ Answer(x) \in Seq(Entry)
    BY <1>1, RecordParts
  <1>3. Range(rec[x].input) \subseteq Range(m) /\ Range(Answer(x)) \subseteq Range(m)
    BY <1>1, <1>2, RangeOfConcat
  <1>4. o \in Seq(Entry) /\ m \in Seq(Entry) /\ c \in Seq(Entry) /\ o \o m \in Seq(Entry) /\ e = (o \o m) \o c
    BY RecordHistoryIs
  <1> HIDE DEF o, m, c, e
  <1>5. Range(o) \subseteq Range(o \o m) /\ Range(m) \subseteq Range(o \o m)
    BY <1>4, RangeOfConcat
  <1>6. Range(o \o m) \subseteq Range(e) /\ Range(c) \subseteq Range(e)
    BY <1>4, RangeOfConcat
  <1>7. TellsOf(rec, e, x)
    <2>1. Range(Outputs(x, what)) \subseteq Range(e)
      BY <1>1, <1>5, <1>6
    <2>2. Range(rec[x].input) \subseteq Range(e) /\ Range(Answer(x)) \subseteq Range(e)
      BY <1>3, <1>5, <1>6
    <2>3. Range(Call(chain, x)) \subseteq Range(e)
      BY <1>6 DEF c
    <2> QED
      BY <1>1, <2>1, <2>2, <2>3, PartsTell
  <1> QED
    BY <1>7 DEF e

\* What a part of a flattened sequence holds, the whole holds.
LEMMA PlacesHold ==
  ASSUME NEW S, NEW n \in Nat, NEW A \in [1 .. n -> Seq(S)], NEW k \in 1 .. n
  PROVE  Range(A[k]) \subseteq Range(FlattenSeq(A))
  <1>1. FlattenSeq(A) \in Seq(S)
    BY FlattenPlaces
  <1>2. PICK off \in [0 .. n -> Nat] : Places(off, A, n)
    BY FlattenPlaces
  <1>3. off[k] = off[k - 1] + Len(A[k]) /\ off[k] <= off[n] /\ off[n] = Len(FlattenSeq(A))
        /\ \A o \in 1 .. Len(A[k]) : FlattenSeq(A)[off[k - 1] + o] = A[k][o]
    BY <1>2 DEF Places
  <1>4. A[k] \in Seq(S) /\ Len(A[k]) \in Nat /\ DOMAIN A[k] = 1 .. Len(A[k]) /\ off[k - 1] \in Nat /\ off[n] \in Nat
    <2>1. k - 1 \in 0 .. n /\ n \in 0 .. n
      OBVIOUS
    <2> QED
      BY <2>1, LenProperties
  <1>5. ASSUME NEW o \in 1 .. Len(A[k]) PROVE A[k][o] \in Range(FlattenSeq(A))
    <2>1. off[k - 1] + o \in 1 .. Len(FlattenSeq(A))
      BY <1>3, <1>4
    <2> QED
      BY <2>1, <1>1, <1>3, RangeHas
  <1> QED
    BY <1>4, <1>5 DEF Range

\* A chain can always be written as session events that a resumed session takes
\* (responseContinuationHistory, BuildChatHistoryJSONL): a result stands right
\* behind its call, and nothing of the chain is left out.
THEOREM HistoryIsSound == Spec => []HistorySound
  <1>1. IInv /\ SInv => HistorySound
    <2> SUFFICES ASSUME IInv, SInv, NEW p \in Responses, Present(p)
                 PROVE  LET chain == Chain(p) h == History(chain) IN
                        /\ \A i \in DOMAIN h :
                             /\ h[i][1] = "result" => \E j \in 1 .. (i - 1) : h[j] = <<"call", h[i][2]>>
                             /\ h[i][1] = "call" => \E j \in (i + 1) .. Len(h) :
                                  /\ h[j] = <<"result", h[i][2]>>
                                  /\ \A k \in i .. j : h[k][1] # "answer"
                        /\ \A i \in DOMAIN chain : TellsRecord(h, chain[i])
      BY DEF HistorySound
    <2> DEFINE chain == Chain(p)  n == Len(chain)  h == History(chain)  A == [k \in 1 .. n |-> RecordHistory(chain, chain[k])]
    <2>1. /\ n \in Nat \ {0} /\ chain \in [1 .. n -> Responses]
          /\ \A k \in 1 .. n : chain[k] \in Responses /\ Present(chain[k])
          /\ \A j, k \in 1 .. n : rec[chain[k]].answers = chain[j] => k = j + 1
      BY ChainElements
    <2>2. Declared(chain) \subseteq {chain[k] : k \in 1 .. n}
          /\ \A x \in Declared(chain) : \E k \in 1 .. n : rec[chain[k]].answers = x
      BY <2>1 DEF Declared, Range
    <2> HIDE DEF chain
    <2>3. A \in [1 .. n -> Seq(Entry)] /\ \A k \in 1 .. n : A[k] = RecordHistory(chain, chain[k])
      BY <2>1, RecordHistoryIs
    <2>4. h = FlattenSeq(A)
      <3>1. [i \in DOMAIN chain |-> RecordHistory(chain, chain[i])] = A
        BY <2>1
      <3> QED
        BY <3>1 DEF History
    <2> HIDE DEF A, h
    <2>5. h \in Seq(Entry) /\ Len(h) \in Nat /\ DOMAIN h = 1 .. Len(h)
      BY <2>1, <2>3, <2>4, FlattenPlaces, LenProperties
    <2>6. PICK off \in [0 .. n -> Nat] : Places(off, A, n)
      BY <2>1, <2>3, FlattenPlaces
    <2>7. /\ off[0] = 0 /\ off[n] = Len(h)
          /\ \A k \in 1 .. n : off[k] = off[k - 1] + Len(A[k])
          /\ \A k \in 1 .. n : off[k] <= off[n]
          /\ \A k \in 1 .. n : \A o \in 1 .. Len(A[k]) : h[off[k - 1] + o] = A[k][o]
          /\ \A i \in 1 .. Len(h) : \E k \in 1 .. n : \E o \in 1 .. Len(A[k]) : i = off[k - 1] + o
      BY <2>4, <2>6 DEF Places
    <2>8. \A k \in 1 .. n : /\ k - 1 \in 0 .. n /\ off[k - 1] \in Nat /\ off[k] \in Nat /\ Len(A[k]) \in Nat
                            /\ off[k] = off[k - 1] + Len(A[k]) /\ off[k] <= Len(h)
      <3> SUFFICES ASSUME NEW k \in 1 .. n
                   PROVE  /\ k - 1 \in 0 .. n /\ off[k - 1] \in Nat /\ off[k] \in Nat /\ Len(A[k]) \in Nat
                          /\ off[k] = off[k - 1] + Len(A[k]) /\ off[k] <= Len(h)
        OBVIOUS
      <3>1. k - 1 \in 0 .. n /\ k \in 0 .. n
        BY <2>1
      <3>2. A[k] \in Seq(Entry)
        BY <2>3
      <3> QED
        BY <3>1, <3>2, <2>7, LenProperties
    <2>9. \A k \in 1 .. n :
            /\ \A i \in 1 .. Len(A[k]) :
                 /\ A[k][i][1] = "result" =>
                      i = 1 /\ rec[chain[k]].answers \in Declared(chain) /\ A[k][i] = <<"result", rec[chain[k]].answers>>
                 /\ A[k][i][1] = "call" => i = Len(A[k]) /\ chain[k] \in Declared(chain) /\ A[k][i] = <<"call", chain[k]>>
            /\ rec[chain[k]].answers \in Declared(chain) =>
                 1 \in 1 .. Len(A[k]) /\ A[k][1] = <<"result", rec[chain[k]].answers>>
            /\ chain[k] \in Declared(chain) => Len(A[k]) \in 1 .. Len(A[k]) /\ A[k][Len(A[k])] = <<"call", chain[k]>>
      <3>1. None \notin Declared(chain)
        BY <2>1, <2>2, ResponsesAssumption
      <3> QED
        BY <3>1, <2>1, <2>3, HistoryMarks
    <2>10. ASSUME NEW k \in 1 .. n, chain[k] \in Declared(chain)
           PROVE  off[k] \in 1 .. Len(h) /\ h[off[k]] = <<"call", chain[k]>>
      <3>1. Len(A[k]) \in 1 .. Len(A[k]) /\ A[k][Len(A[k])] = <<"call", chain[k]>>
        BY <2>9, <2>10
      <3>2. h[off[k - 1] + Len(A[k])] = A[k][Len(A[k])]
        BY <3>1, <2>7
      <3> QED
        BY <3>1, <3>2, <2>8
    <2>11. ASSUME NEW k \in 1 .. n, rec[chain[k]].answers \in Declared(chain)
           PROVE  off[k - 1] + 1 \in 1 .. Len(h) /\ h[off[k - 1] + 1] = <<"result", rec[chain[k]].answers>>
      <3>1. 1 \in 1 .. Len(A[k]) /\ A[k][1] = <<"result", rec[chain[k]].answers>>
        BY <2>9, <2>11
      <3>2. h[off[k - 1] + 1] = A[k][1]
        BY <3>1, <2>7
      <3>3. off[k - 1] + 1 \in 1 .. Len(h)
        BY <3>1, <2>8
      <3> QED
        BY <3>1, <3>2, <3>3
    <2>12. ASSUME NEW i \in 1 .. Len(h), h[i][1] = "result"
           PROVE  \E j \in 1 .. (i - 1) : h[j] = <<"call", h[i][2]>>
      <3>0. PICK k \in 1 .. n : \E o \in 1 .. Len(A[k]) : i = off[k - 1] + o
        BY <2>7
      <3>1. PICK o \in 1 .. Len(A[k]) : i = off[k - 1] + o
        BY <3>0
      <3>2. h[i] = A[k][o]
        BY <3>1, <2>7
      <3>3. o = 1 /\ rec[chain[k]].answers \in Declared(chain) /\ h[i] = <<"result", rec[chain[k]].answers>>
        BY <3>2, <2>9, <2>12
      <3>4. PICK m \in 1 .. n : chain[m] = rec[chain[k]].answers
        BY <3>3, <2>2
      <3>5. k = m + 1
        BY <3>4, <2>1
      <3>6. off[m] \in 1 .. Len(h) /\ h[off[m]] = <<"call", chain[m]>> /\ k - 1 = m
        BY <3>3, <3>4, <3>5, <2>10
      <3>7. i = off[m] + 1 /\ off[m] \in 1 .. i - 1
        BY <3>1, <3>3, <3>6
      <3>8. h[i][2] = chain[m]
        BY <3>3, <3>4
      <3> QED
        BY <3>6, <3>7, <3>8
    <2>13. ASSUME NEW i \in 1 .. Len(h), h[i][1] = "call"
           PROVE  \E j \in (i + 1) .. Len(h) : h[j] = <<"result", h[i][2]>> /\ \A k \in i .. j : h[k][1] # "answer"
      <3>0. PICK k \in 1 .. n : \E o \in 1 .. Len(A[k]) : i = off[k - 1] + o
        BY <2>7
      <3>1. PICK o \in 1 .. Len(A[k]) : i = off[k - 1] + o
        BY <3>0
      <3>2. h[i] = A[k][o]
        BY <3>1, <2>7
      <3>3. o = Len(A[k]) /\ chain[k] \in Declared(chain) /\ h[i] = <<"call", chain[k]>>
        BY <3>2, <2>9, <2>13
      <3>4. PICK m \in 1 .. n : rec[chain[m]].answers = chain[k]
        BY <3>3, <2>2
      <3>5. m = k + 1 /\ m - 1 = k
        BY <3>4, <2>1
      <3>6. off[m - 1] + 1 \in 1 .. Len(h) /\ h[off[m - 1] + 1] = <<"result", chain[k]>>
        BY <3>3, <3>4, <2>11
      <3>7. i = off[m - 1]
        BY <3>1, <3>3, <3>5, <2>8
      <3>8. i + 1 \in (i + 1) .. Len(h) /\ h[i + 1] = <<"result", chain[k]>>
        BY <3>6, <3>7
      <3>9. h[i + 1] = <<"result", h[i][2]>>
        BY <3>3, <3>8
      <3>10. \A q \in i .. i + 1 : h[q][1] # "answer"
        <4> SUFFICES ASSUME NEW q \in i .. i + 1 PROVE h[q][1] # "answer"
          OBVIOUS
        <4>1. q = i \/ q = i + 1
          OBVIOUS
        <4> QED
          BY <4>1, <3>3, <3>8
      <3> QED
        BY <3>8, <3>9, <3>10
    <2>14. ASSUME NEW i \in DOMAIN chain PROVE TellsRecord(h, chain[i])
      <3>1. i \in 1 .. n
        BY <2>1
      <3>2. TellsOf(rec, A[i], chain[i])
        BY <3>1, <2>1, <2>3, HistoryTells
      <3>3. Range(A[i]) \subseteq Range(h)
        BY <3>1, <2>1, <2>3, <2>4, PlacesHold
      <3>4. TellsOf(rec, h, chain[i])
        BY <3>2, <3>3, TellsMore
      <3> QED
        BY <3>4, TellsOfRecord
    <2> QED
      BY <2>5, <2>12, <2>13, <2>14 DEF chain, h
  <1> QED
    BY <1>1, Invariant, Lines, PTL

----------------------------------------------------------------------------
(* What a text knows of a part of a line: it tells of each record there, and *)
(* has what was said in the order in which it was said.                      *)

Shown(R, x) == R[x].kind \in {"warm", "turn"}

Says(R, x) == OwnInput(R[x].input, x) \o (IF R[x].kind = "turn" THEN <<<<"answer", x>>>> ELSE <<>>)

Said(R, l, a, b) == FlattenSeq([i \in 1 .. b - a + 1 |-> Says(R, l[a + i - 1])])

KnowsPart(R, text, l, a, b, own) ==
  /\ \A i \in a .. b : TellsOf(R, text, l[i])
  /\ Embeds(Said(R, l, a, b) \o own, text)

\* The starts of the chains that end at place b of a line.
Open(R, l, b) == {a \in 1 .. b + 1 : a + ChainLimit > b /\ \A j \in a .. b : Shown(R, l[j])}

Knows(R, text, l, b, own) == \A a \in Open(R, l, b) : KnowsPart(R, text, l, a, b, own)

LEMMA OwnInputIs ==
  ASSUME NEW x \in Responses, NEW input
  PROVE  OwnInput(input, x) \in Seq(Entry)
  BY InputIsEntry, EmptySeq DEF OwnInput

LEMMA SaysIs ==
  ASSUME NEW R, NEW x \in Responses
  PROVE  Says(R, x) \in Seq(Entry)
  <1> DEFINE e == <<"answer", x>>
  <1>1. e \in Entry
    BY DEF Entry, What
  <1> HIDE DEF e
  <1>2. (IF R[x].kind = "turn" THEN <<e>> ELSE <<>>) \in Seq(Entry)
    BY <1>1, OneEntry, EmptySeq
  <1>3. OwnInput(R[x].input, x) \in Seq(Entry)
    BY OwnInputIs
  <1>4. OwnInput(R[x].input, x) \o (IF R[x].kind = "turn" THEN <<e>> ELSE <<>>) \in Seq(Entry)
    BY <1>2, <1>3, ConcatProperties
  <1> QED
    BY <1>4 DEF Says, e

LEMMA SaidSplit ==
  ASSUME NEW R, NEW l \in Seq(Responses), NEW b \in 0 .. Len(l), NEW a \in 1 .. b + 1, NEW m \in a - 1 .. b
  PROVE  /\ Said(R, l, a, m) \in Seq(Entry) /\ Said(R, l, m + 1, b) \in Seq(Entry) /\ Said(R, l, a, b) \in Seq(Entry)
         /\ Said(R, l, a, b) = Said(R, l, a, m) \o Said(R, l, m + 1, b)
  <1> DEFINE n == b - a + 1  k == m - a + 1
             A == [i \in 1 .. n |-> Says(R, l[a + i - 1])]
             P == [i \in 1 .. k |-> A[i]]
             Q == [i \in 1 .. n - k |-> A[k + i]]
  <1>0. Len(l) \in Nat /\ \A i \in 1 .. Len(l) : l[i] \in Responses
    BY LenProperties, ElementOfSeq
  <1>1. n \in Nat /\ k \in 0 .. n /\ n - k = b - (m + 1) + 1
    BY <1>0
  <1>2. A \in [1 .. n -> Seq(Entry)]
    <2> SUFFICES ASSUME NEW i \in 1 .. n PROVE Says(R, l[a + i - 1]) \in Seq(Entry)
      OBVIOUS
    <2>1. a + i - 1 \in 1 .. Len(l)
      BY <1>0
    <2> QED
      BY <2>1, <1>0, SaysIs
  <1>3. P = [i \in 1 .. m - a + 1 |-> Says(R, l[a + i - 1])]
    BY <1>1
  <1>4. Q = [i \in 1 .. b - (m + 1) + 1 |-> Says(R, l[m + 1 + i - 1])]
    <2>1. \A i \in 1 .. n - k : k + i \in 1 .. n /\ a + (k + i) - 1 = m + 1 + i - 1
      BY <1>1
    <2> QED
      BY <2>1, <1>1
  <1>5. Said(R, l, a, b) = FlattenSeq(A)
    BY DEF Said
  <1>6. Said(R, l, a, m) = FlattenSeq(P)
    BY <1>3 DEF Said
  <1>7. Said(R, l, m + 1, b) = FlattenSeq(Q)
    BY <1>4 DEF Said
  <1> HIDE DEF A, n, k
  <1>8. /\ FlattenSeq(P) \in Seq(Entry) /\ FlattenSeq(Q) \in Seq(Entry) /\ FlattenSeq(A) \in Seq(Entry)
        /\ FlattenSeq(A) = FlattenSeq(P) \o FlattenSeq(Q)
    <2>1. n \in Nat /\ k \in 0 .. n /\ A \in [1 .. n -> Seq(Entry)]
      BY <1>1, <1>2
    <2> QED
      BY <2>1, FlattenSplit, ZenonT(60)
  <1> QED
    BY <1>5, <1>6, <1>7, <1>8

LEMMA SaidNothing ==
  ASSUME NEW R, NEW l, NEW a \in Int
  PROVE  Said(R, l, a, a - 1) = <<>>
  <1>1. [i \in 1 .. (a - 1) - a + 1 |-> Says(R, l[a + i - 1])] = <<>>
    <2>1. (a - 1) - a + 1 = 0
      OBVIOUS
    <2> QED
      BY <2>1
  <1> QED
    BY <1>1, FlattenNone DEF Said

LEMMA SaidOne ==
  ASSUME NEW R, NEW l, NEW b \in Int, l[b] \in Responses
  PROVE  Said(R, l, b, b) = Says(R, l[b])
  <1> DEFINE s == Says(R, l[b])
  <1>1. s \in Seq(Entry)
    BY SaysIs
  <1>2. [i \in 1 .. b - b + 1 |-> Says(R, l[b + i - 1])] = [i \in 1 .. 1 |-> s]
    <2>1. b - b + 1 = 1 /\ \A i \in 1 .. 1 : b + i - 1 = b
      OBVIOUS
    <2> QED
      BY <2>1
  <1> HIDE DEF s
  <1>3. Said(R, l, b, b) = s
    BY <1>1, <1>2, FlattenOne DEF Said
  <1> QED
    BY <1>3 DEF s

\* The records of a part are the same, or say the same.
SamePart(R, l, Q, k, a, b) ==
  \A i \in a .. b :
    /\ k[i] = l[i] /\ Q[l[i]].input = R[l[i]].input /\ Q[l[i]].kind = R[l[i]].kind
    /\ Q[l[i]].answers = R[l[i]].answers /\ Q[l[i]].added = R[l[i]].added /\ Q[l[i]].output = R[l[i]].output

LEMMA KnowsSame ==
  ASSUME NEW R, NEW Q, NEW l, NEW k, NEW a \in Int, NEW b \in Int, NEW text, NEW own,
         SamePart(R, l, Q, k, a, b), KnowsPart(R, text, l, a, b, own)
  PROVE  KnowsPart(Q, text, k, a, b, own)
  <1>1. \A i \in 1 .. b - a + 1 : Says(Q, k[a + i - 1]) = Says(R, l[a + i - 1])
    <2> SUFFICES ASSUME NEW i \in 1 .. b - a + 1 PROVE Says(Q, k[a + i - 1]) = Says(R, l[a + i - 1])
      OBVIOUS
    <2>1. PICK j \in a .. b : j = a + i - 1
      OBVIOUS
    <2>2. k[j] = l[j] /\ Q[l[j]].input = R[l[j]].input /\ Q[l[j]].kind = R[l[j]].kind
      BY DEF SamePart
    <2>3. Says(Q, k[j]) = Says(R, l[j])
      BY <2>2 DEF Says
    <2> QED
      BY <2>1, <2>3
  <1>2. Said(Q, k, a, b) = Said(R, l, a, b)
    <2>1. [i \in 1 .. b - a + 1 |-> Says(Q, k[a + i - 1])] = [i \in 1 .. b - a + 1 |-> Says(R, l[a + i - 1])]
      BY <1>1
    <2> QED
      BY <2>1 DEF Said
  <1>3. \A i \in a .. b : TellsOf(Q, text, k[i])
    <2> SUFFICES ASSUME NEW i \in a .. b PROVE TellsOf(Q, text, k[i])
      OBVIOUS
    <2>1. /\ k[i] = l[i] /\ Q[l[i]].input = R[l[i]].input /\ Q[l[i]].kind = R[l[i]].kind
          /\ Q[l[i]].answers = R[l[i]].answers /\ Q[l[i]].added = R[l[i]].added /\ Q[l[i]].output = R[l[i]].output
      BY DEF SamePart
    <2>2. TellsOf(R, text, l[i])
      BY DEF KnowsPart
    <2> QED
      BY <2>1, <2>2 DEF TellsOf
  <1> QED
    BY <1>2, <1>3 DEF KnowsPart

LEMMA EmbedsRange ==
  ASSUME NEW S, NEW a \in Seq(S), NEW b \in Seq(S), Embeds(a, b)
  PROVE  Range(a) \subseteq Range(b)
  <1>1. PICK f \in [1 .. Len(a) -> 1 .. Len(b)] : \A i \in 1 .. Len(a) : a[i] = b[f[i]]
    BY DEF Embeds
  <1>2. DOMAIN a = 1 .. Len(a) /\ DOMAIN b = 1 .. Len(b)
    BY LenProperties
  <1> QED
    BY <1>1, <1>2 DEF Range

LEMMA KnowsMore ==
  ASSUME NEW R, NEW l \in Seq(Responses), NEW b \in 0 .. Len(l), NEW a \in 1 .. b + 1, NEW own \in Seq(Entry),
         NEW text \in Seq(Entry), NEW text2 \in Seq(Entry), Embeds(text, text2), KnowsPart(R, text, l, a, b, own)
  PROVE  KnowsPart(R, text2, l, a, b, own)
  <1>1. Range(text) \subseteq Range(text2)
    BY EmbedsRange
  <1>2. \A i \in a .. b : TellsOf(R, text2, l[i])
    BY <1>1, TellsMore DEF KnowsPart
  <1>3. Said(R, l, a, b) \o own \in Seq(Entry)
    <2>1. b \in a - 1 .. b
      BY LenProperties
    <2>2. Said(R, l, a, b) \in Seq(Entry)
      BY <2>1, SaidSplit
    <2> QED
      BY <2>2, ConcatProperties
  <1>4. Embeds(Said(R, l, a, b) \o own, text2)
    BY <1>3, EmbedsIn DEF KnowsPart
  <1> QED
    BY <1>2, <1>4 DEF KnowsPart

\* A later start of a part that is known.
LEMMA KnowsLater ==
  ASSUME NEW R, NEW l \in Seq(Responses), NEW b \in 0 .. Len(l), NEW a \in 1 .. b + 1, NEW d \in a .. b + 1,
         NEW own \in Seq(Entry), NEW text \in Seq(Entry), KnowsPart(R, text, l, a, b, own)
  PROVE  KnowsPart(R, text, l, d, b, own)
  <1> DEFINE p == Said(R, l, a, d - 1)  q == Said(R, l, d, b)  w == Said(R, l, a, b)
  <1>0. Len(l) \in Nat
    BY LenProperties
  <1>1. d - 1 \in a - 1 .. b /\ (d - 1) + 1 = d
    BY <1>0
  <1>2. p \in Seq(Entry) /\ q \in Seq(Entry) /\ w \in Seq(Entry) /\ w = p \o q
    <2> DEFINE m == d - 1
    <2>1. m \in a - 1 .. b /\ m + 1 = d
      BY <1>1
    <2> HIDE DEF m
    <2>2. /\ Said(R, l, a, m) \in Seq(Entry) /\ Said(R, l, m + 1, b) \in Seq(Entry) /\ Said(R, l, a, b) \in Seq(Entry)
          /\ Said(R, l, a, b) = Said(R, l, a, m) \o Said(R, l, m + 1, b)
      BY <2>1, SaidSplit
    <2> QED
      BY <2>1, <2>2 DEF m
  <1>3. Embeds(w \o own, text) /\ \A i \in a .. b : TellsOf(R, text, l[i])
    BY DEF KnowsPart
  <1> HIDE DEF p, q, w
  <1>4. Embeds(q \o own, w \o own)
    <2>1. Embeds(q, q) /\ Embeds(own, own)
      BY <1>2, EmbedsSelf
    <2>2. Embeds(q, p \o q)
      BY <2>1, <1>2, EmbedsMore
    <2> QED
      BY <2>1, <2>2, <1>2, EmbedsConcat
  <1>5. q \o own \in Seq(Entry) /\ w \o own \in Seq(Entry)
    BY <1>2, ConcatProperties
  <1>6. Embeds(q \o own, text)
    BY <1>3, <1>4, <1>5, EmbedsIn
  <1>7. \A i \in d .. b : TellsOf(R, text, l[i])
    BY <1>3, <1>0
  <1> QED
    BY <1>6, <1>7 DEF KnowsPart, q

\* Without what the request itself says.
LEMMA KnowsLess ==
  ASSUME NEW R, NEW l \in Seq(Responses), NEW b \in 0 .. Len(l), NEW a \in 1 .. b + 1,
         NEW own \in Seq(Entry), NEW text \in Seq(Entry), KnowsPart(R, text, l, a, b, own)
  PROVE  KnowsPart(R, text, l, a, b, <<>>)
  <1> DEFINE w == Said(R, l, a, b)
  <1>1. w \in Seq(Entry)
    <2>1. b \in a - 1 .. b
      BY LenProperties
    <2> QED
      BY <2>1, SaidSplit
  <1>2. Embeds(w \o own, text)
    BY DEF KnowsPart
  <1> HIDE DEF w
  <1>3. Embeds(w, w)
    BY <1>1, EmbedsSelf
  <1>4. Embeds(w, w \o own) /\ w \o own \in Seq(Entry) /\ w \o <<>> = w
    BY <1>1, <1>3, EmbedsMore, ConcatProperties, ConcatEmptySeq
  <1>5. Embeds(w, text)
    BY <1>1, <1>2, <1>4, EmbedsIn
  <1>6. Embeds(w \o <<>>, text)
    BY <1>4, <1>5
  <1> QED
    BY <1>6 DEF KnowsPart, w

\* Two parts that follow each other, in two texts that do.
LEMMA KnowsJoin ==
  ASSUME NEW R, NEW l \in Seq(Responses), NEW b \in 0 .. Len(l), NEW a \in 1 .. b + 1, NEW m \in a - 1 .. b,
         NEW own \in Seq(Entry), NEW t \in Seq(Entry), NEW u \in Seq(Entry),
         KnowsPart(R, t, l, a, m, <<>>), KnowsPart(R, u, l, m + 1, b, own)
  PROVE  KnowsPart(R, t \o u, l, a, b, own)
  <1> DEFINE p == Said(R, l, a, m)  q == Said(R, l, m + 1, b)  w == Said(R, l, a, b)
  <1>0. Len(l) \in Nat
    BY LenProperties
  <1>1. p \in Seq(Entry) /\ q \in Seq(Entry) /\ w \in Seq(Entry) /\ w = p \o q
    BY SaidSplit
  <1>2. Embeds(p \o <<>>, t) /\ Embeds(q \o own, u)
    BY DEF KnowsPart
  <1> HIDE DEF p, q, w
  <1>3. p \o <<>> = p /\ q \o own \in Seq(Entry)
    BY <1>1, ConcatEmptySeq, ConcatProperties
  <1>4. Embeds(p, t)
    BY <1>2, <1>3
  <1> DEFINE e == q \o own
  <1>5. Embeds(p \o e, t \o u)
    BY <1>1, <1>2, <1>3, <1>4, EmbedsConcat
  <1>6. w \o own = p \o e
    <2>1. Associates(p, q, own)
      BY <1>1, ConcatAssociates
    <2> QED
      BY <2>1, <1>1 DEF Associates
  <1>7. Embeds(w \o own, t \o u)
    BY <1>5, <1>6
  <1>8. Range(t) \subseteq Range(t \o u) /\ Range(u) \subseteq Range(t \o u)
    BY RangeOfConcat
  <1>9. ASSUME NEW i \in a .. b PROVE TellsOf(R, t \o u, l[i])
    <2>1. CASE i \in a .. m
      <3>1. TellsOf(R, t, l[i])
        BY <2>1 DEF KnowsPart
      <3> QED
        BY <3>1, <1>8, TellsMore
    <2>2. CASE i \in m + 1 .. b
      <3>1. TellsOf(R, u, l[i])
        BY <2>2 DEF KnowsPart
      <3> QED
        BY <3>1, <1>8, TellsMore
    <2> QED
      BY <2>1, <2>2, <1>0
  <1> QED
    BY <1>7, <1>9 DEF KnowsPart, w

\* Of no records a text knows everything.
LEMMA KnowsNone ==
  ASSUME NEW R, NEW l, NEW b \in Nat, NEW own \in Seq(Entry), NEW text, Embeds(own, text)
  PROVE  KnowsPart(R, text, l, b + 1, b, own)
  <1>1. Said(R, l, b + 1, (b + 1) - 1) = <<>>
    BY SaidNothing
  <1>2. (b + 1) - 1 = b
    OBVIOUS
  <1>3. Said(R, l, b + 1, b) = <<>>
    BY <1>1, <1>2
  <1>4. <<>> \o own = own
    BY ConcatEmptySeq
  <1>5. Embeds(Said(R, l, b + 1, b) \o own, text)
    BY <1>3, <1>4
  <1>6. \A i \in b + 1 .. b : TellsOf(R, text, l[i])
    OBVIOUS
  <1> QED
    BY <1>5, <1>6 DEF KnowsPart

\* The text says own at its end.
LEMMA KnowsOwn ==
  ASSUME NEW R, NEW l \in Seq(Responses), NEW b \in 0 .. Len(l), NEW a \in 1 .. b + 1,
         NEW own \in Seq(Entry), NEW t \in Seq(Entry), NEW u \in Seq(Entry),
         KnowsPart(R, t, l, a, b, <<>>), Embeds(own, u)
  PROVE  KnowsPart(R, t \o u, l, a, b, own)
  <1>1. Len(l) \in Nat /\ b \in a - 1 .. b /\ b \in Nat
    BY LenProperties
  <1>2. KnowsPart(R, u, l, b + 1, b, own)
    BY <1>1, KnowsNone
  <1> QED
    BY <1>1, <1>2, KnowsJoin

----------------------------------------------------------------------------
(* What the gateway keeps true of requests, warm sessions and records: the   *)
(* text that each of them stands for knows the line before it.               *)

TextOf(d, base, prompt) == (d.base \o base) \o (d.sent \o prompt)

LogOf(d) == d.base \o d.sent

LineOf(R, x) == IF x.prev = None THEN <<>> ELSE R[x.prev].line

\* The whole of a line.
KnowsLine(R, text, l, own) == Knows(R, text, l, Len(l), own)

Heard(x, r, text) ==
  /\ \A i \in DOMAIN x.input : x.input[i] \in Range(text)
  /\ x.answers # None => {<<"result", x.answers>>, <<"told result", x.answers>>} \cap Range(text) # {}
  /\ x.added => Input(r) \in Range(text)

Prepared(R, x, r, text) == Heard(x, r, text) /\ KnowsLine(R, text, LineOf(R, x), OwnInput(x.input, r))

\* In another session the line is there before the request says anything.
Elsewhere(R, x, text) ==
  x.prev # None /\ Shown(R, x.prev) /\ x.session # R[x.prev].session => KnowsLine(R, text, LineOf(R, x), <<>>)

ClaimsKnow(R, claims, session, text) ==
  \A id \in claims : R[id].kind = "warm" => R[id].session = session /\ KnowsLine(R, text, R[id].line, <<>>)

ReadyOf(R, D, x, r) ==
  /\ x.base \in Seq(Entry) /\ (x.base # <<>> => x.session = r /\ x.kind = "turn")
  /\ Prepared(R, x, r, TextOf(D[x.session], x.base, x.prompt))
  /\ Elsewhere(R, x, TextOf(D[x.session], x.base, <<>>))
  /\ ClaimsKnow(R, x.claims, x.session, TextOf(D[x.session], x.base, x.prompt))

SentOf(R, D, x, r) ==
  /\ x.phase = "sent" => Prepared(R, x, r, LogOf(D[x.session]))
  /\ ClaimsKnow(R, x.claims, x.session, LogOf(D[x.session]))

WarmOf(R, D, w) == w.base = <<>> /\ ClaimsKnow(R, w.claims, w.session, TextOf(D[w.session], w.base, w.prompt))

RecordOf(R, D, p) ==
  LET l == R[p].line  n == Len(R[p].line)  text == LogOf(D[R[p].session]) IN
  /\ ~R[p].pending => KnowsLine(R, text, l, <<>>)
  /\ n > 1 /\ Shown(R, l[n - 1]) /\ R[l[n - 1]].session # R[p].session => Knows(R, text, l, n - 1, <<>>)
  /\ R[p].kind = "turn" => \A a \in Open(R, l, n - 1) : KnowsPart(R, text, l, a, n, <<>>)

SessionsKnown ==
  \A s \in Responses : sdk[s].base \in Seq(Entry) /\ (req[s].phase = "new" => sdk[s].base = <<>>)

ReadyKnown   == \A r \in Responses : req[r].phase = "ready" => ReadyOf(rec, sdk, req[r], r)
SentKnown    == \A r \in Responses : req[r].phase \in {"sent", "saved"} => SentOf(rec, sdk, req[r], r)
WarmKnown    == \A p \in Responses : warm[p].held => WarmOf(rec, sdk, warm[p])
RecordsKnown == \A p \in Responses : Shown(rec, p) => RecordOf(rec, sdk, p)

KInv == SessionsKnown /\ ReadyKnown /\ SentKnown /\ WarmKnown /\ RecordsKnown

\* Records as a step leaves them, as far as a line of them is there.
LEMMA LineThere ==
  ASSUME IInv, SInv, NEW p \in Responses, rec[p].kind # "none"
  PROVE  LET l == rec[p].line IN
         /\ l \in Seq(Responses) /\ Len(l) \in Nat \ {0} /\ l[Len(l)] = p
         /\ \A i \in 1 .. Len(l) : /\ l[i] \in Responses /\ rec[l[i]].kind # "none"
                                   /\ rec[l[i]].line = SubSeq(l, 1, i)
  <1> DEFINE l == rec[p].line
  <1>1. l \in Seq(Responses) /\ Len(l) \in Nat
    BY LenProperties DEF IInv, RecordsOK
  <1>2. \A i \in 1 .. Len(l) : l[i] \in Responses
    BY <1>1, ElementOfSeq
  <1>3. Len(l) > 0 /\ l[Len(l)] = p /\ \A i \in 1 .. Len(l) : rec[l[i]].kind # "none" /\ rec[l[i]].line = SubSeq(l, 1, i)
    BY DEF SInv, LinesOK
  <1> QED
    BY <1>1, <1>2, <1>3

\* What is known of a line stays known when the records are only settled,
\* deleted or added to, and the text only grows.
LEMMA KnowsOn ==
  ASSUME RecordStep, NEW l \in Seq(Responses), NEW b \in 0 .. Len(l), NEW a \in 1 .. b + 1, NEW own \in Seq(Entry),
         NEW text \in Seq(Entry), NEW text2 \in Seq(Entry), Embeds(text, text2),
         \A i \in a .. b : l[i] \in Responses /\ rec[l[i]].kind # "none" /\ Shown(rec', l[i]),
         KnowsPart(rec, text, l, a, b, own)
  PROVE  KnowsPart(rec', text2, l, a, b, own)
  <1>1. KnowsPart(rec, text2, l, a, b, own)
    BY KnowsMore
  <1>2. SamePart(rec, l, rec', l, a, b)
    <2> SUFFICES ASSUME NEW i \in a .. b
                 PROVE  /\ rec'[l[i]].input = rec[l[i]].input /\ rec'[l[i]].kind = rec[l[i]].kind
                        /\ rec'[l[i]].answers = rec[l[i]].answers /\ rec'[l[i]].added = rec[l[i]].added
                        /\ rec'[l[i]].output = rec[l[i]].output
      BY DEF SamePart
    <2>1. RecordStays(l[i]) /\ rec'[l[i]].kind # "deleted"
      BY DEF RecordStep, Shown
    <2> QED
      BY <2>1 DEF RecordStays
  <1> QED
    BY <1>1, <1>2, KnowsSame

\* A record that is there after a step was there before it, or joins.
LEMMA ShownBefore ==
  ASSUME RecordStep, NEW x \in Responses, rec[x].kind # "none", Shown(rec', x)
  PROVE  /\ Shown(rec, x) /\ rec'[x].line = rec[x].line /\ rec'[x].session = rec[x].session
         /\ rec'[x].kind = rec[x].kind
  BY DEF RecordStep, RecordStays, Shown

LEMMA OpenOn ==
  ASSUME RecordStep, NEW l \in Seq(Responses), NEW b \in 0 .. Len(l),
         \A i \in 1 .. b : l[i] \in Responses /\ rec[l[i]].kind # "none"
  PROVE  \A a \in Open(rec', l, b) :
           /\ a \in Open(rec, l, b) /\ a \in 1 .. b + 1
           /\ \A i \in a .. b : l[i] \in Responses /\ rec[l[i]].kind # "none" /\ Shown(rec', l[i])
  <1>0. Len(l) \in Nat
    BY LenProperties
  <1> SUFFICES ASSUME NEW a \in Open(rec', l, b)
               PROVE  /\ a \in Open(rec, l, b) /\ a \in 1 .. b + 1
                      /\ \A i \in a .. b : l[i] \in Responses /\ rec[l[i]].kind # "none" /\ Shown(rec', l[i])
    OBVIOUS
  <1>1. a \in 1 .. b + 1 /\ a + ChainLimit > b /\ \A i \in a .. b : Shown(rec', l[i])
    BY DEF Open
  <1>2. ASSUME NEW i \in a .. b PROVE l[i] \in Responses /\ rec[l[i]].kind # "none" /\ Shown(rec', l[i]) /\ Shown(rec, l[i])
    <2>1. i \in 1 .. b
      BY <1>0, <1>1
    <2> QED
      BY <2>1, <1>1, ShownBefore
  <1> QED
    BY <1>1, <1>2 DEF Open

LEMMA KnowsStays ==
  ASSUME RecordStep, NEW l \in Seq(Responses), NEW b \in 0 .. Len(l), NEW own \in Seq(Entry),
         NEW text \in Seq(Entry), NEW text2 \in Seq(Entry), Embeds(text, text2),
         \A i \in 1 .. b : l[i] \in Responses /\ rec[l[i]].kind # "none",
         Knows(rec, text, l, b, own)
  PROVE  Knows(rec', text2, l, b, own)
  <1> SUFFICES ASSUME NEW a \in Open(rec', l, b) PROVE KnowsPart(rec', text2, l, a, b, own)
    BY DEF Knows
  <1>1. /\ a \in Open(rec, l, b) /\ a \in 1 .. b + 1
        /\ \A i \in a .. b : l[i] \in Responses /\ rec[l[i]].kind # "none" /\ Shown(rec', l[i])
    BY OpenOn
  <1>2. KnowsPart(rec, text, l, a, b, own)
    BY <1>1 DEF Knows
  <1> QED
    BY <1>1, <1>2, KnowsOn

LEMMA RequestLine ==
  ASSUME IInv, SInv, NEW x, x.prev # None => x.prev \in Responses /\ rec[x.prev].kind # "none"
  PROVE  LET l == LineOf(rec, x) IN
         /\ l \in Seq(Responses) /\ Len(l) \in Nat /\ Len(l) \in 0 .. Len(l)
         /\ \A i \in 1 .. Len(l) : l[i] \in Responses /\ rec[l[i]].kind # "none" /\ rec[l[i]].line = SubSeq(l, 1, i)
         /\ x.prev # None => Len(l) > 0 /\ l[Len(l)] = x.prev
         /\ x.prev = None => l = <<>> /\ Len(l) = 0
         /\ RecordStep => LineOf(rec', x) = l
  <1>1. CASE x.prev = None
    BY <1>1, EmptySeq DEF LineOf
  <1>2. CASE x.prev # None
    <2> DEFINE l == rec[x.prev].line
    <2>1. /\ l \in Seq(Responses) /\ Len(l) \in Nat \ {0} /\ l[Len(l)] = x.prev
          /\ \A i \in 1 .. Len(l) : l[i] \in Responses /\ rec[l[i]].kind # "none" /\ rec[l[i]].line = SubSeq(l, 1, i)
      BY <1>2, LineThere
    <2>2. LineOf(rec, x) = l
      BY <1>2 DEF LineOf
    <2>3. RecordStep => LineOf(rec', x) = l
      BY <1>2 DEF LineOf, RecordStep, RecordStays
    <2> HIDE DEF l
    <2> QED
      BY <1>2, <2>1, <2>2, <2>3
  <1> QED
    BY <1>1, <1>2

LEMMA PreparedStays ==
  ASSUME IInv, SInv, RecordStep, NEW r \in Responses, NEW x, NEW y,
         x.prev # None => x.prev \in Responses /\ rec[x.prev].kind # "none",
         y.prev = x.prev, y.input = x.input, y.answers = x.answers, y.added = x.added,
         NEW text \in Seq(Entry), NEW text2 \in Seq(Entry), Embeds(text, text2), Prepared(rec, x, r, text)
  PROVE  Prepared(rec', y, r, text2)
  <1> DEFINE l == LineOf(rec, x)  own == OwnInput(x.input, r)
  <1>1. /\ l \in Seq(Responses) /\ Len(l) \in 0 .. Len(l)
        /\ \A i \in 1 .. Len(l) : l[i] \in Responses /\ rec[l[i]].kind # "none"
        /\ LineOf(rec', x) = l
    BY RequestLine
  <1>2. own \in Seq(Entry)
    BY OwnInputIs
  <1>3. Heard(x, r, text) /\ Knows(rec, text, l, Len(l), own)
    BY DEF Prepared, KnowsLine
  <1>4. LineOf(rec', y) = l /\ OwnInput(y.input, r) = own
    BY <1>1 DEF LineOf
  <1> HIDE DEF l, own
  <1>5. Knows(rec', text2, l, Len(l), own)
    BY <1>1, <1>2, <1>3, KnowsStays
  <1>6. Range(text) \subseteq Range(text2)
    BY EmbedsRange
  <1>7. Heard(y, r, text2)
    BY <1>3, <1>6 DEF Heard
  <1> QED
    BY <1>4, <1>5, <1>7 DEF Prepared, KnowsLine

LEMMA ElsewhereStays ==
  ASSUME IInv, SInv, RecordStep, NEW x,
         x.prev # None => x.prev \in Responses /\ rec[x.prev].kind # "none",
         NEW text \in Seq(Entry), NEW text2 \in Seq(Entry), Embeds(text, text2), Elsewhere(rec, x, text)
  PROVE  Elsewhere(rec', x, text2)
  <1> SUFFICES ASSUME x.prev # None, Shown(rec', x.prev), x.session # rec'[x.prev].session
               PROVE  KnowsLine(rec', text2, LineOf(rec', x), <<>>)
    BY DEF Elsewhere
  <1> DEFINE l == LineOf(rec, x)
  <1>1. /\ l \in Seq(Responses) /\ Len(l) \in 0 .. Len(l)
        /\ \A i \in 1 .. Len(l) : l[i] \in Responses /\ rec[l[i]].kind # "none"
        /\ LineOf(rec', x) = l
    BY RequestLine
  <1>2. Shown(rec, x.prev) /\ rec'[x.prev].session = rec[x.prev].session
    BY ShownBefore
  <1>3. Knows(rec, text, l, Len(l), <<>>)
    BY <1>2 DEF Elsewhere, KnowsLine
  <1> HIDE DEF l
  <1>4. Knows(rec', text2, l, Len(l), <<>>)
    BY <1>1, <1>3, EmptySeq, KnowsStays
  <1> QED
    BY <1>1, <1>4 DEF KnowsLine, l

LEMMA ClaimsKnowStays ==
  ASSUME IInv, SInv, RecordStep, NEW claims, NEW claims2 \in SUBSET claims, NEW session,
         \A id \in claims : id \in Responses /\ rec[id].kind # "none",
         NEW text \in Seq(Entry), NEW text2 \in Seq(Entry), Embeds(text, text2), ClaimsKnow(rec, claims, session, text)
  PROVE  ClaimsKnow(rec', claims2, session, text2)
  <1> SUFFICES ASSUME NEW id \in claims2, rec'[id].kind = "warm"
               PROVE  rec'[id].session = session /\ KnowsLine(rec', text2, rec'[id].line, <<>>)
    BY DEF ClaimsKnow
  <1> DEFINE l == rec[id].line
  <1>1. id \in Responses /\ rec[id].kind = "warm" /\ rec'[id].session = rec[id].session /\ rec'[id].line = l
    BY ShownBefore DEF Shown
  <1>2. /\ l \in Seq(Responses) /\ Len(l) \in Nat \ {0}
        /\ \A i \in 1 .. Len(l) : l[i] \in Responses /\ rec[l[i]].kind # "none"
    BY <1>1, LineThere
  <1>3. rec[id].session = session /\ Knows(rec, text, l, Len(l), <<>>)
    BY <1>1 DEF ClaimsKnow, KnowsLine
  <1> HIDE DEF l
  <1>4. Len(l) \in 0 .. Len(l)
    BY <1>2
  <1>5. Knows(rec', text2, l, Len(l), <<>>)
    BY <1>2, <1>3, <1>4, EmptySeq, KnowsStays
  <1> QED
    BY <1>1, <1>3, <1>5 DEF KnowsLine

\* Sessions only get more: before what was sent, or after it.
Grows(D, E) ==
  \A s \in Responses :
    /\ D[s].base \in Seq(Entry) /\ E[s].base \in Seq(Entry) /\ Embeds(D[s].base, E[s].base)
    /\ D[s].sent \in Seq(Entry) /\ E[s].sent \in Seq(Entry) /\ Embeds(D[s].sent, E[s].sent)

LEMMA TextGrows ==
  ASSUME NEW D, NEW E, NEW s \in Responses, Grows(D, E), NEW b \in Seq(Entry), NEW p \in Seq(Entry)
  PROVE  /\ TextOf(D[s], b, p) \in Seq(Entry) /\ TextOf(E[s], b, p) \in Seq(Entry)
         /\ Embeds(TextOf(D[s], b, p), TextOf(E[s], b, p))
         /\ LogOf(D[s]) \in Seq(Entry) /\ LogOf(E[s]) \in Seq(Entry) /\ Embeds(LogOf(D[s]), LogOf(E[s]))
  <1> DEFINE d == D[s].base  e == E[s].base  t == D[s].sent  u == E[s].sent
  <1>1. /\ d \in Seq(Entry) /\ e \in Seq(Entry) /\ t \in Seq(Entry) /\ u \in Seq(Entry)
        /\ Embeds(d, e) /\ Embeds(t, u)
    BY DEF Grows
  <1> HIDE DEF d, e, t, u
  <1>2. Embeds(b, b) /\ Embeds(p, p)
    BY EmbedsSelf
  <1> DEFINE db == d \o b  eb == e \o b  tp == t \o p  up == u \o p
  <1>3. db \in Seq(Entry) /\ eb \in Seq(Entry) /\ tp \in Seq(Entry) /\ up \in Seq(Entry)
    BY <1>1, ConcatProperties
  <1>4. Embeds(db, eb) /\ Embeds(tp, up)
    BY <1>1, <1>2, EmbedsConcat
  <1>5. Embeds(d \o t, e \o u) /\ d \o t \in Seq(Entry) /\ e \o u \in Seq(Entry)
    BY <1>1, EmbedsConcat, ConcatProperties
  <1> HIDE DEF db, eb, tp, up
  <1>6. Embeds(db \o tp, eb \o up) /\ db \o tp \in Seq(Entry) /\ eb \o up \in Seq(Entry)
    BY <1>3, <1>4, EmbedsConcat, ConcatProperties
  <1> QED
    BY <1>5, <1>6 DEF TextOf, LogOf, db, eb, tp, up, d, e, t, u

LEMMA RecordOfStays ==
  ASSUME IInv, SInv, RecordStep, Grows(sdk, sdk'), NEW p \in Responses, rec[p].kind # "none", Shown(rec', p),
         RecordOf(rec, sdk, p),
         ~rec'[p].pending => ~rec[p].pending \/ KnowsLine(rec, LogOf(sdk[rec[p].session]), rec[p].line, <<>>)
  PROVE  RecordOf(rec', sdk', p)
  <1> DEFINE l == rec[p].line  n == Len(l)  text == LogOf(sdk[rec[p].session])  text2 == LogOf(sdk'[rec[p].session])
  <1>1. /\ Shown(rec, p) /\ rec'[p].line = l /\ rec'[p].session = rec[p].session /\ rec'[p].kind = rec[p].kind
        /\ rec[p].session \in Responses
    BY ShownBefore DEF IInv, RecordsOK, Shown
  <1>2. /\ l \in Seq(Responses) /\ n \in Nat \ {0} /\ l[n] = p
        /\ \A i \in 1 .. n : l[i] \in Responses /\ rec[l[i]].kind # "none"
    BY LineThere
  <1>3. text \in Seq(Entry) /\ text2 \in Seq(Entry) /\ Embeds(text, text2)
    BY <1>1, EmptySeq, TextGrows
  <1>4. /\ ~rec[p].pending => Knows(rec, text, l, n, <<>>)
        /\ n > 1 /\ Shown(rec, l[n - 1]) /\ rec[l[n - 1]].session # rec[p].session => Knows(rec, text, l, n - 1, <<>>)
        /\ rec[p].kind = "turn" => \A a \in Open(rec, l, n - 1) : KnowsPart(rec, text, l, a, n, <<>>)
    BY DEF RecordOf, KnowsLine
  <1>5. ~rec'[p].pending => Knows(rec, text, l, n, <<>>)
    BY <1>4 DEF KnowsLine
  <1> HIDE DEF l, text, text2
  <1>0. n \in 0 .. n /\ n - 1 \in 0 .. n /\ \A i \in 1 .. n - 1 : l[i] \in Responses /\ rec[l[i]].kind # "none"
    BY <1>2
  <1>6. ~rec'[p].pending => Knows(rec', text2, l, n, <<>>)
    BY <1>0, <1>2, <1>3, <1>5, EmptySeq, KnowsStays
  <1>7. ASSUME n > 1, Shown(rec', l[n - 1]), rec'[l[n - 1]].session # rec'[p].session
        PROVE  Knows(rec', text2, l, n - 1, <<>>)
    <2>0. n - 1 \in 1 .. n
      BY <1>2, <1>7
    <2>1. Shown(rec, l[n - 1]) /\ rec'[l[n - 1]].session = rec[l[n - 1]].session
      BY <2>0, <1>2, <1>7, ShownBefore
    <2>2. Knows(rec, text, l, n - 1, <<>>)
      BY <2>1, <1>1, <1>4, <1>7
    <2> QED
      BY <2>2, <1>0, <1>2, <1>3, EmptySeq, KnowsStays
  <1>8. ASSUME rec'[p].kind = "turn", NEW a \in Open(rec', l, n - 1) PROVE KnowsPart(rec', text2, l, a, n, <<>>)
    <2>1. /\ a \in Open(rec, l, n - 1) /\ a \in 1 .. (n - 1) + 1
          /\ \A i \in a .. n - 1 : l[i] \in Responses /\ rec[l[i]].kind # "none" /\ Shown(rec', l[i])
      BY <1>0, <1>2, OpenOn
    <2>2. KnowsPart(rec, text, l, a, n, <<>>)
      BY <2>1, <1>1, <1>4, <1>8
    <2>3. a \in 1 .. n + 1 /\ \A i \in a .. n : i \in a .. n - 1 \/ i = n
      BY <2>1, <1>2
    <2>4. \A i \in a .. n : l[i] \in Responses /\ rec[l[i]].kind # "none" /\ Shown(rec', l[i])
      BY <2>1, <2>3, <1>2
    <2> QED
      BY <2>2, <2>3, <2>4, <1>0, <1>2, <1>3, EmptySeq, KnowsOn
  <1> QED
    BY <1>1, <1>6, <1>7, <1>8 DEF RecordOf, KnowsLine, l, text2

\* What is on its way to a session, from a request or a warm session.
LEMMA ReadyOfStays ==
  ASSUME IInv, SInv, RecordStep, Grows(sdk, sdk'), NEW r \in Responses, req[r].phase = "ready",
         ReadyOf(rec, sdk, req[r], r)
  PROVE  ReadyOf(rec', sdk', req[r], r)
  <1> DEFINE x == req[r]  s == x.session
             text == TextOf(sdk[s], x.base, x.prompt)  text2 == TextOf(sdk'[s], x.base, x.prompt)
             early == TextOf(sdk[s], x.base, <<>>)  early2 == TextOf(sdk'[s], x.base, <<>>)
  <1>1. /\ x.base \in Seq(Entry) /\ (x.base # <<>> => s = r /\ x.kind = "turn")
        /\ Prepared(rec, x, r, text) /\ Elsewhere(rec, x, early) /\ ClaimsKnow(rec, x.claims, s, text)
    BY DEF ReadyOf
  <1>2. /\ s \in Responses /\ x.prompt \in Seq(Entry) /\ \A id \in x.claims : id \in Responses /\ rec[id].kind # "none"
    BY DEF IInv, ReadyOK, Carries
  <1>3. x.prev # None => x.prev \in Responses /\ rec[x.prev].kind # "none"
    BY DEF IInv, Unsaved, SInv, RequestsSpeak, RequestSpeaks
  <1> HIDE DEF x
  <1>4. /\ text \in Seq(Entry) /\ text2 \in Seq(Entry) /\ Embeds(text, text2)
        /\ early \in Seq(Entry) /\ early2 \in Seq(Entry) /\ Embeds(early, early2)
    BY <1>1, <1>2, EmptySeq, TextGrows
  <1> HIDE DEF text, text2, early, early2
  <1>5. Prepared(rec', x, r, text2)
    BY <1>1, <1>3, <1>4, PreparedStays
  <1>6. Elsewhere(rec', x, early2)
    BY <1>1, <1>3, <1>4, ElsewhereStays
  <1>7. x.claims \in SUBSET x.claims
    OBVIOUS
  <1>8. ClaimsKnow(rec', x.claims, s, text2)
    BY <1>1, <1>2, <1>4, <1>7, ClaimsKnowStays
  <1> QED
    BY <1>1, <1>5, <1>6, <1>8 DEF ReadyOf, text2, early2, x

LEMMA SentOfStays ==
  ASSUME IInv, SInv, RecordStep, Grows(sdk, sdk'), NEW r \in Responses, req[r].phase \in {"sent", "saved"},
         SentOf(rec, sdk, req[r], r), NEW y, y.phase = "sent" => req[r].phase = "sent",
         y.session = req[r].session, y.claims \subseteq req[r].claims,
         y.phase = "sent" => /\ y.prev = req[r].prev /\ y.input = req[r].input
                             /\ y.answers = req[r].answers /\ y.added = req[r].added
  PROVE  SentOf(rec', sdk', y, r)
  <1> DEFINE x == req[r]  s == x.session  text == LogOf(sdk[s])  text2 == LogOf(sdk'[s])
  <1>1. (x.phase = "sent" => Prepared(rec, x, r, text)) /\ ClaimsKnow(rec, x.claims, s, text)
    BY DEF SentOf
  <1>2. s \in Responses /\ \A id \in x.claims : id \in Responses /\ rec[id].kind # "none"
    BY DEF IInv, ClaimsOK
  <1>3. x.phase = "sent" => (x.prev # None => x.prev \in Responses /\ rec[x.prev].kind # "none")
    BY DEF IInv, Unsaved, SInv, RequestsSpeak, RequestSpeaks
  <1>4. text \in Seq(Entry) /\ text2 \in Seq(Entry) /\ Embeds(text, text2)
    BY <1>2, EmptySeq, TextGrows
  <1>5. /\ y.session = s /\ y.claims \in SUBSET x.claims
        /\ y.phase = "sent" => /\ x.phase = "sent" /\ y.prev = x.prev /\ y.input = x.input
                               /\ y.answers = x.answers /\ y.added = x.added
    OBVIOUS
  <1> HIDE DEF x, text, text2
  <1>6. y.phase = "sent" => Prepared(rec', y, r, text2)
    BY <1>1, <1>3, <1>4, <1>5, PreparedStays
  <1>7. ClaimsKnow(rec', y.claims, s, text2)
    BY <1>1, <1>2, <1>4, <1>5, ClaimsKnowStays
  <1> QED
    BY <1>5, <1>6, <1>7 DEF SentOf, text2

LEMMA WarmOfStays ==
  ASSUME IInv, SInv, RecordStep, Grows(sdk, sdk'), NEW p \in Responses, warm[p].held, WarmOf(rec, sdk, warm[p])
  PROVE  WarmOf(rec', sdk', warm[p])
  <1> DEFINE w == warm[p]  s == w.session
             text == TextOf(sdk[s], w.base, w.prompt)  text2 == TextOf(sdk'[s], w.base, w.prompt)
  <1>1. w.base = <<>> /\ ClaimsKnow(rec, w.claims, s, text)
    BY DEF WarmOf
  <1>2. /\ s \in Responses /\ w.prompt \in Seq(Entry) /\ \A id \in w.claims : id \in Responses /\ rec[id].kind # "none"
    BY DEF IInv, WarmOK, Carries
  <1> HIDE DEF w
  <1>4. text \in Seq(Entry) /\ text2 \in Seq(Entry) /\ Embeds(text, text2)
    BY <1>1, <1>2, EmptySeq, TextGrows
  <1>5. w.claims \in SUBSET w.claims
    OBVIOUS
  <1> HIDE DEF text, text2
  <1>6. ClaimsKnow(rec', w.claims, s, text2)
    BY <1>1, <1>2, <1>4, <1>5, ClaimsKnowStays
  <1> QED
    BY <1>1, <1>6 DEF WarmOf, text2, w

SentStays(x, y) ==
  /\ x.phase \in {"sent", "saved"} /\ (y.phase = "sent" => x.phase = "sent")
  /\ y.session = x.session /\ y.claims \subseteq x.claims
  /\ y.phase = "sent" => y.prev = x.prev /\ y.input = x.input /\ y.answers = x.answers /\ y.added = x.added

\* A record is settled only when its line is known.
Settles(p) ==
  /\ rec[p].kind # "none"
  /\ ~rec'[p].pending => ~rec[p].pending \/ KnowsLine(rec, LogOf(sdk[rec[p].session]), rec[p].line, <<>>)

LEMMA KnownStays ==
  ASSUME IInv, SInv, KInv, RecordStep, Grows(sdk, sdk'),
         \A s \in Responses : req'[s].phase = "new" => sdk'[s].base = <<>>,
         \A q \in Responses : req'[q].phase = "ready" => req'[q] = req[q] \/ ReadyOf(rec', sdk', req'[q], q),
         \A q \in Responses :
           req'[q].phase \in {"sent", "saved"} => SentStays(req[q], req'[q]) \/ SentOf(rec', sdk', req'[q], q),
         \A q \in Responses : warm'[q].held => warm'[q] = warm[q] \/ WarmOf(rec', sdk', warm'[q]),
         \A p \in Responses : Shown(rec', p) => Settles(p) \/ RecordOf(rec', sdk', p)
  PROVE  KInv'
  <1>1. SessionsKnown'
    BY DEF SessionsKnown, Grows
  <1>2. ReadyKnown'
    <2> SUFFICES ASSUME NEW q \in Responses, req'[q].phase = "ready" PROVE ReadyOf(rec', sdk', req'[q], q)
      BY DEF ReadyKnown
    <2>1. CASE req'[q] = req[q]
      <3>1. req[q].phase = "ready" /\ ReadyOf(rec, sdk, req[q], q)
        BY <2>1 DEF KInv, ReadyKnown
      <3>2. ReadyOf(rec', sdk', req[q], q)
        BY <3>1, ReadyOfStays
      <3> QED
        BY <3>2, <2>1
    <2> QED
      BY <2>1
  <1>3. SentKnown'
    <2> SUFFICES ASSUME NEW q \in Responses, req'[q].phase \in {"sent", "saved"} PROVE SentOf(rec', sdk', req'[q], q)
      BY DEF SentKnown
    <2>1. CASE SentStays(req[q], req'[q])
      <3> DEFINE y == req'[q]
      <3>1. /\ req[q].phase \in {"sent", "saved"} /\ (y.phase = "sent" => req[q].phase = "sent")
            /\ y.session = req[q].session /\ y.claims \subseteq req[q].claims
            /\ y.phase = "sent" => /\ y.prev = req[q].prev /\ y.input = req[q].input
                                   /\ y.answers = req[q].answers /\ y.added = req[q].added
        BY <2>1 DEF SentStays
      <3>2. SentOf(rec, sdk, req[q], q)
        BY <3>1 DEF KInv, SentKnown
      <3> HIDE DEF y
      <3>3. SentOf(rec', sdk', y, q)
        BY <3>1, <3>2, SentOfStays
      <3> QED
        BY <3>3 DEF y
    <2> QED
      BY <2>1
  <1>4. WarmKnown'
    <2> SUFFICES ASSUME NEW q \in Responses, warm'[q].held PROVE WarmOf(rec', sdk', warm'[q])
      BY DEF WarmKnown
    <2>1. CASE warm'[q] = warm[q]
      <3>1. warm[q].held /\ WarmOf(rec, sdk, warm[q])
        BY <2>1 DEF KInv, WarmKnown
      <3>2. WarmOf(rec', sdk', warm[q])
        BY <3>1, WarmOfStays
      <3> QED
        BY <3>2, <2>1
    <2> QED
      BY <2>1
  <1>5. RecordsKnown'
    <2> SUFFICES ASSUME NEW p \in Responses, Shown(rec', p) PROVE RecordOf(rec', sdk', p)
      BY DEF RecordsKnown
    <2>1. CASE Settles(p)
      <3>1. rec[p].kind # "none" /\ Shown(rec, p)
        BY <2>1, ShownBefore DEF Settles
      <3>2. RecordOf(rec, sdk, p)
        BY <3>1 DEF KInv, RecordsKnown
      <3>3. ~rec'[p].pending => ~rec[p].pending \/ KnowsLine(rec, LogOf(sdk[rec[p].session]), rec[p].line, <<>>)
        BY <2>1 DEF Settles
      <3> QED
        BY <3>1, <3>2, <3>3, RecordOfStays
    <2> QED
      BY <2>1
  <1> QED
    BY <1>1, <1>2, <1>3, <1>4, <1>5 DEF KInv

\* Sessions that stay as they are.
LEMMA SameSessions ==
  ASSUME IInv, KInv, sdk' = sdk
  PROVE  Grows(sdk, sdk')
  <1> SUFFICES ASSUME NEW s \in Responses
               PROVE  /\ sdk[s].base \in Seq(Entry) /\ Embeds(sdk[s].base, sdk[s].base)
                      /\ sdk[s].sent \in Seq(Entry) /\ Embeds(sdk[s].sent, sdk[s].sent)
    BY DEF Grows
  <1>1. sdk[s].base \in Seq(Entry) /\ sdk[s].sent \in Seq(Entry)
    BY DEF IInv, SentOK, KInv, SessionsKnown
  <1> QED
    BY <1>1, EmbedsSelf

\* One session hears more.
LEMMA SessionGrows ==
  ASSUME IInv, KInv, NEW s \in Responses, NEW b \in Seq(Entry), NEW t \in Seq(Entry),
         \A q \in Responses : q # s => sdk'[q] = sdk[q],
         sdk'[s].base = sdk[s].base \o b, sdk'[s].sent = sdk[s].sent \o t
  PROVE  Grows(sdk, sdk')
  <1> SUFFICES ASSUME NEW q \in Responses
               PROVE  /\ sdk[q].base \in Seq(Entry) /\ sdk'[q].base \in Seq(Entry) /\ Embeds(sdk[q].base, sdk'[q].base)
                      /\ sdk[q].sent \in Seq(Entry) /\ sdk'[q].sent \in Seq(Entry) /\ Embeds(sdk[q].sent, sdk'[q].sent)
    BY DEF Grows
  <1>1. sdk[q].base \in Seq(Entry) /\ sdk[q].sent \in Seq(Entry)
    BY DEF IInv, SentOK, KInv, SessionsKnown
  <1>2. Embeds(sdk[q].base, sdk[q].base) /\ Embeds(sdk[q].sent, sdk[q].sent)
    BY <1>1, EmbedsSelf
  <1>3. CASE q # s
    BY <1>1, <1>2, <1>3
  <1>4. CASE q = s
    <2> DEFINE d == sdk[q].base  u == sdk[q].sent
    <2>1. d \in Seq(Entry) /\ u \in Seq(Entry) /\ Embeds(d, d) /\ Embeds(u, u)
      BY <1>1, <1>2
    <2>2. sdk'[q].base = d \o b /\ sdk'[q].sent = u \o t
      BY <1>4
    <2> HIDE DEF d, u
    <2>3. d \o b \in Seq(Entry) /\ u \o t \in Seq(Entry)
      BY <2>1, ConcatProperties
    <2>4. Embeds(d, d \o b) /\ Embeds(u, u \o t)
      BY <2>1, EmbedsMore
    <2> QED
      BY <2>1, <2>2, <2>3, <2>4 DEF d, u
  <1> QED
    BY <1>3, <1>4

LEMMA SameSettles ==
  ASSUME NEW p \in Responses, Shown(rec', p), rec'[p] = rec[p]
  PROVE  Settles(p)
  BY DEF Settles, Shown

\* Steps that leave the records and the sessions, and of the requests and warm
\* sessions only spend some.
LEMMA QuietKnows ==
  ASSUME IInv, SInv, KInv, rec' = rec, sdk' = sdk,
         \A q \in Responses : warm'[q].held => warm'[q] = warm[q],
         \A q \in Responses :
           /\ req'[q].phase = "new" => req[q].phase = "new"
           /\ req'[q].phase = "ready" => req'[q] = req[q]
           /\ req'[q].phase \in {"sent", "saved"} => SentStays(req[q], req'[q])
  PROVE  KInv'
  <1>1. RecordStep /\ Grows(sdk, sdk')
    BY SameRecords, SameSessions
  <1>2. \A p \in Responses : Shown(rec', p) => Settles(p)
    BY SameSettles
  <1>3. \A s \in Responses : req'[s].phase = "new" => sdk'[s].base = <<>>
    BY DEF KInv, SessionsKnown
  <1> QED
    BY <1>1, <1>2, <1>3, KnownStays

LEMMA SameSent ==
  ASSUME NEW x, x.phase \in {"sent", "saved"}
  PROVE  SentStays(x, x)
  BY DEF SentStays

LEMMA FailsKnows ==
  ASSUME IInv, SInv, KInv, NEW r \in Responses, Fails(r)
  PROVE  KInv'
  <1>1. /\ rec' = rec /\ sdk' = sdk /\ warm' = warm
        /\ req[r].phase \in {"ready", "sent"}
        /\ req' = [req EXCEPT ![r].phase = IF @ = "ready" THEN "done" ELSE "saved"]
    BY DEF Fails
  <1>2. /\ \A q \in Responses : q # r => req'[q] = req[q]
        /\ req'[r].phase = IF req[r].phase = "ready" THEN "done" ELSE "saved"
        /\ req'[r].session = req[r].session /\ req'[r].claims = req[r].claims
    BY <1>1 DEF IInv, Shape, RequestFields
  <1>3. ASSUME NEW q \in Responses
        PROVE  /\ req'[q].phase = "new" => req[q].phase = "new"
               /\ req'[q].phase = "ready" => req'[q] = req[q]
               /\ req'[q].phase \in {"sent", "saved"} => SentStays(req[q], req'[q])
    <2>1. CASE q # r
      BY <2>1, <1>2, SameSent
    <2>2. CASE q = r
      BY <2>2, <1>1, <1>2 DEF SentStays
    <2> QED
      BY <2>1, <2>2
  <1> QED
    BY <1>1, <1>3, QuietKnows

LEMMA CrashKnows ==
  ASSUME IInv, SInv, KInv, Crash
  PROVE  KInv'
  <1>1. /\ rec' = rec /\ sdk' = sdk
        /\ \A q \in Responses : warm'[q] = NoWarm
        /\ \A q \in Responses : req'[q] = IF req[q].phase = "new" THEN req[q] ELSE [NewRequest EXCEPT !.phase = "done"]
    BY DEF Crash
  <1>2. \A q \in Responses : ~warm'[q].held
    BY <1>1 DEF NoWarm
  <1>3. \A q \in Responses : req'[q].phase \in {"new", "done"} /\ (req'[q].phase = "new" => req[q].phase = "new")
    BY <1>1 DEF NewRequest
  <1> QED
    BY <1>1, <1>2, <1>3, QuietKnows

LEMMA DropWarmKnows ==
  ASSUME IInv, SInv, KInv, NEW r \in Responses, DropWarm(r)
  PROVE  KInv'
  <1>1. /\ rec' = rec /\ sdk' = sdk /\ req' = req
        /\ \A q \in Responses : warm'[q] \in {warm[q], NoWarm}
    BY DEF DropWarm, IInv, Shape
  <1>2. \A q \in Responses : warm'[q].held => warm'[q] = warm[q]
    BY <1>1 DEF NoWarm
  <1> QED
    BY <1>1, <1>2, SameSent, QuietKnows

LEMMA UnchangedKnows ==
  ASSUME IInv, SInv, KInv, rec' = rec, sdk' = sdk, req' = req, warm' = warm
  PROVE  KInv'
  BY SameSent, QuietKnows

LEMMA DeleteResponseKnows ==
  ASSUME IInv, SInv, KInv, NEW p \in Responses, DeleteResponse(p)
  PROVE  KInv'
  <1>1. RecordStep /\ rec'[p].kind = "deleted" /\ \A q \in Responses : q # p => rec'[q] = rec[q]
    BY DeleteResponseStatic
  <1>2. sdk' = sdk /\ req' = req /\ warm' = warm
    BY DEF DeleteResponse
  <1>3. Grows(sdk, sdk')
    BY <1>2, SameSessions
  <1>4. \A q \in Responses : Shown(rec', q) => Settles(q)
    <2> SUFFICES ASSUME NEW q \in Responses, Shown(rec', q) PROVE Settles(q)
      OBVIOUS
    <2>1. q # p
      BY <1>1 DEF Shown
    <2> QED
      BY <2>1, <1>1, SameSettles
  <1>5. \A s \in Responses : req'[s].phase = "new" => sdk'[s].base = <<>>
    BY <1>2 DEF KInv, SessionsKnown
  <1>6. \A q \in Responses : req'[q].phase \in {"sent", "saved"} => SentStays(req[q], req'[q])
    BY <1>2, SameSent
  <1> QED
    BY <1>1, <1>2, <1>3, <1>4, <1>5, <1>6, KnownStays

LEMMA ClearInputPendingKnows ==
  ASSUME IInv, SInv, KInv, NEW r \in Responses, NEW id \in Responses, NEW fails, ClearInputPending(r, id, fails)
  PROVE  KInv'
  <1>1. /\ RecordStep /\ \A q \in Responses : rec'[q].kind = rec[q].kind
        /\ \A q \in Responses : q # id => rec'[q] = rec[q]
    BY ClearInputPendingStatic
  <1>2. /\ sdk' = sdk /\ warm' = warm /\ req' = [req EXCEPT ![r].claims = @ \ {id}]
        /\ req[r].phase \in {"sent", "saved"} /\ id \in req[r].claims
    BY DEF ClearInputPending
  <1>3. Grows(sdk, sdk')
    BY <1>2, SameSessions
  <1>4. /\ \A q \in Responses : q # r => req'[q] = req[q]
        /\ req'[r].phase = req[r].phase /\ req'[r].session = req[r].session /\ req'[r].claims \subseteq req[r].claims
        /\ req'[r].prev = req[r].prev /\ req'[r].input = req[r].input
        /\ req'[r].answers = req[r].answers /\ req'[r].added = req[r].added
    BY <1>2 DEF IInv, Shape, RequestFields
  <1>5. ASSUME NEW q \in Responses, req'[q].phase \in {"sent", "saved"} PROVE SentStays(req[q], req'[q])
    <2>1. CASE q # r
      BY <2>1, <1>4, <1>5, SameSent
    <2>2. CASE q = r
      BY <2>2, <1>2, <1>4 DEF SentStays
    <2> QED
      BY <2>1, <2>2
  <1>6. ASSUME NEW q \in Responses, Shown(rec', q) PROVE Settles(q)
    <2>1. CASE q # id
      BY <2>1, <1>1, <1>6, SameSettles
    <2>2. CASE q = id
      <3>1. rec[id].kind \in {"warm", "turn"}
        BY <2>2, <1>1, <1>6 DEF Shown
      <3>2. CASE rec[id].kind = "turn"
        <4>1. ~rec[id].pending
          BY <3>2 DEF IInv, RecordsOK
        <4> QED
          BY <4>1, <3>1, <2>2 DEF Settles
      <3>3. CASE rec[id].kind = "warm"
        <4>1. SentOf(rec, sdk, req[r], r)
          BY <1>2 DEF KInv, SentKnown
        <4>2. rec[id].session = req[r].session /\ KnowsLine(rec, LogOf(sdk[req[r].session]), rec[id].line, <<>>)
          BY <4>1, <3>3, <1>2 DEF SentOf, ClaimsKnow
        <4>3. KnowsLine(rec, LogOf(sdk[rec[id].session]), rec[id].line, <<>>)
          BY <4>2
        <4> QED
          BY <4>3, <3>1, <2>2 DEF Settles
      <3> QED
        BY <3>1, <3>2, <3>3
    <2> QED
      BY <2>1, <2>2
  <1>7. \A s \in Responses : req'[s].phase = "new" => sdk'[s].base = <<>>
    BY <1>2, <1>4 DEF KInv, SessionsKnown
  <1>8. \A q \in Responses : req'[q].phase = "ready" => req'[q] = req[q]
    BY <1>2, <1>4
  <1> QED
    BY <1>1, <1>2, <1>3, <1>5, <1>6, <1>7, <1>8, KnownStays

LEMMA SendKnows ==
  ASSUME IInv, SInv, KInv, NEW r \in Responses, Send(r)
  PROVE  KInv'
  <1> DEFINE x == req[r]  s == x.session  d == sdk[s].base  u == sdk[s].sent
  <1>1. /\ x.phase = "ready" /\ x.kind = "turn" /\ rec' = rec /\ warm' = warm
        /\ sdk' = [sdk EXCEPT ![s] = [base |-> @.base \o x.base, sent |-> @.sent \o x.prompt]]
        /\ req' = [req EXCEPT ![r].phase = "sent"]
    BY DEF Send
  <1>2. /\ s \in Responses /\ x.prompt \in Seq(Entry) /\ \A id \in x.claims : id \in Responses /\ rec[id].kind # "none"
    BY <1>1 DEF IInv, ReadyOK, Carries
  <1>3. ReadyOf(rec, sdk, x, r)
    BY <1>1 DEF KInv, ReadyKnown
  <1>4. x.base \in Seq(Entry) /\ (x.base # <<>> => s = r)
    BY <1>3 DEF ReadyOf
  <1>5. /\ sdk'[s].base = d \o x.base /\ sdk'[s].sent = u \o x.prompt
        /\ \A q \in Responses : q # s => sdk'[q] = sdk[q]
    BY <1>1, <1>2 DEF IInv, Shape
  <1>6. Grows(sdk, sdk')
    BY <1>2, <1>4, <1>5, SessionGrows
  <1>7. /\ \A q \in Responses : q # r => req'[q] = req[q]
        /\ req'[r].phase = "sent" /\ req'[r].session = s /\ req'[r].claims = x.claims
        /\ req'[r].prev = x.prev /\ req'[r].input = x.input
        /\ req'[r].answers = x.answers /\ req'[r].added = x.added
    BY <1>1 DEF IInv, Shape, RequestFields
  <1>8. RecordStep
    BY <1>1, SameRecords
  <1>9. \A q \in Responses : Shown(rec', q) => Settles(q)
    BY <1>1, SameSettles
  <1>10. ASSUME NEW q \in Responses, req'[q].phase = "new" PROVE sdk'[q].base = <<>>
    <2>1. q # r /\ sdk[q].base = <<>>
      BY <1>7, <1>10 DEF KInv, SessionsKnown
    <2>2. CASE q # s
      BY <2>1, <2>2, <1>5
    <2>3. CASE q = s
      <3>1. x.base = <<>> /\ d = <<>>
        BY <2>1, <2>3, <1>4
      <3>2. <<>> \o <<>> = <<>>
        BY EmptySeq, ConcatEmptySeq
      <3> QED
        BY <3>1, <3>2, <2>3, <1>5
    <2> QED
      BY <2>2, <2>3
  <1>11. TextOf(sdk[s], x.base, x.prompt) = LogOf(sdk'[s])
    BY <1>5 DEF TextOf, LogOf
  <1>12. SentOf(rec', sdk', req'[r], r)
    <2> DEFINE y == req'[r]  text == LogOf(sdk'[s])
    <2>1. Prepared(rec, x, r, text) /\ ClaimsKnow(rec, x.claims, s, text)
      BY <1>3, <1>11 DEF ReadyOf
    <2>2. Prepared(rec, y, r, text)
      BY <2>1, <1>7 DEF Prepared, Heard, LineOf
    <2>3. y.session = s /\ y.claims = x.claims
      BY <1>7
    <2> HIDE DEF y, text
    <2>4. ClaimsKnow(rec, y.claims, y.session, text)
      BY <2>1, <2>3
    <2>5. SentOf(rec, sdk', y, r)
      BY <2>2, <2>3, <2>4 DEF SentOf, text
    <2> QED
      BY <2>5, <1>1 DEF y
  <1>13. \A q \in Responses : req'[q].phase = "ready" => req'[q] = req[q]
    BY <1>7
  <1>14. ASSUME NEW q \in Responses, req'[q].phase \in {"sent", "saved"}
         PROVE  SentStays(req[q], req'[q]) \/ SentOf(rec', sdk', req'[q], q)
    <2>1. CASE q # r
      BY <2>1, <1>7, <1>14, SameSent
    <2>2. CASE q = r
      BY <2>2, <1>12
    <2> QED
      BY <2>1, <2>2
  <1> QED
    BY <1>1, <1>6, <1>8, <1>9, <1>10, <1>13, <1>14, KnownStays

\* A line that a record joins, to its end.
LEMMA JoinsLine ==
  ASSUME IInv, SInv, RecordStep, NEW r \in Responses, rec[r].kind = "none", RecordJoins(r), Shown(rec', r),
         NEW text \in Seq(Entry), NEW t \in Seq(Entry), Prepared(rec, req[r], r, text),
         rec'[r].kind = "turn" => \E c \in Seq(Entry) : t = <<<<"answer", r>>>> \o c,
         rec'[r].output \in {"function", "custom"} => <<"call", r>> \in Range(t)
  PROVE  LET l == rec'[r].line  n == Len(l) IN
         /\ l \in Seq(Responses) /\ n \in Nat \ {0} /\ l[n] = r
         /\ n > 1 => req[r].prev # None /\ l[n - 1] = req[r].prev /\ rec[req[r].prev].kind # "none"
         /\ \A i \in 1 .. n - 1 : l[i] \in Responses /\ rec[l[i]].kind # "none" /\ l[i] = LineOf(rec, req[r])[i]
         /\ Len(LineOf(rec, req[r])) = n - 1
         /\ \A a \in Open(rec', l, n - 1) : KnowsPart(rec', text \o t, l, a, n, <<>>)
         /\ Knows(rec', text \o t, l, n, <<>>)
  <1> DEFINE x == req[r]  k == LineOf(rec, x)  l == rec'[r].line  n == Len(l)  own == OwnInput(x.input, r)
  <1>1. x.prev # None => x.prev \in Responses /\ rec[x.prev].kind # "none"
    BY DEF RecordJoins, IInv, Unsaved, SInv, RequestsSpeak, RequestSpeaks
  <1>2. /\ k \in Seq(Responses) /\ Len(k) \in Nat
        /\ \A i \in 1 .. Len(k) : k[i] \in Responses /\ rec[k[i]].kind # "none"
        /\ x.prev # None => Len(k) > 0 /\ k[Len(k)] = x.prev
        /\ x.prev = None => Len(k) = 0
    BY <1>1, RequestLine
  <1>3. l = Append(k, r)
    BY DEF RecordJoins, LineBefore, LineOf
  <1>3p. rec'[r].input = x.input /\ rec'[r].answers = x.answers /\ rec'[r].added = x.added /\ x.input \in Seq(Entry)
    BY DEF RecordJoins, SInv, RequestsSpeak, RequestSpeaks, Speaks
  <1> DEFINE e == <<"answer", r>>
  <1>3q. e \in Entry
    BY DEF Entry, What
  <1>3r. rec'[r].kind = "turn" => \E c \in Seq(Entry) : t = <<e>> \o c
    OBVIOUS
  <1>3s. own \in Seq(Entry)
    BY OwnInputIs
  <1>3t. Heard(x, r, text) /\ Knows(rec, text, k, Len(k), own)
    BY DEF Prepared, KnowsLine
  <1>3u. OwnInput(rec'[r].input, r) = own
    BY <1>3p
  <1>3v. Says(rec', r) = own \o (IF rec'[r].kind = "turn" THEN <<e>> ELSE <<>>)
    BY <1>3u DEF Says
  <1> HIDE DEF x, k, l, own, e
  <1>4. /\ l \in Seq(Responses) /\ n = Len(k) + 1 /\ n \in Nat \ {0} /\ n - 1 = Len(k) /\ l[n] = r
        /\ \A i \in 1 .. n - 1 : l[i] = k[i]
    <2>1. Append(k, r) \in Seq(Responses) /\ Len(Append(k, r)) = Len(k) + 1 /\ Append(k, r)[Len(k) + 1] = r
          /\ \A i \in 1 .. Len(k) : Append(k, r)[i] = k[i]
      BY <1>2
    <2> QED
      BY <2>1, <1>2, <1>3
  <1> HIDE DEF n
  <1>5. \A i \in 1 .. n - 1 : l[i] \in Responses /\ rec[l[i]].kind # "none"
    BY <1>2, <1>4
  <1>6. text \o t \in Seq(Entry) /\ Range(text) \subseteq Range(text \o t) /\ Range(t) \subseteq Range(text \o t)
    BY RangeOfConcat
  <1>7. TellsOf(rec', text \o t, r)
    <2>1. \A i \in DOMAIN x.input : x.input[i] \in Range(text \o t)
      BY <1>3t, <1>6 DEF Heard
    <2>2. rec'[r].kind = "turn" => e \in Range(text \o t)
      <3> SUFFICES ASSUME rec'[r].kind = "turn" PROVE e \in Range(text \o t)
        OBVIOUS
      <3>1. PICK c \in Seq(Entry) : t = <<e>> \o c
        BY <1>3r
      <3>2. <<e>> \in Seq(Entry) /\ Len(<<e>>) = 1 /\ <<e>>[1] = e
        BY <1>3q
      <3>3. e \in Range(<<e>>)
        BY <3>2, RangeHasFirst
      <3>4. Range(<<e>>) \subseteq Range(<<e>> \o c)
        BY <3>2, RangeOfConcat
      <3> QED
        BY <3>1, <3>3, <3>4, <1>6
    <2>3. rec'[r].output \in {"function", "custom"} => <<"call", r>> \in Range(text \o t)
      BY <1>6
    <2>4. x.answers # None => {<<"result", x.answers>>, <<"told result", x.answers>>} \cap Range(text \o t) # {}
      BY <1>3t, <1>6 DEF Heard
    <2>5. x.added => Input(r) \in Range(text \o t)
      BY <1>3t, <1>6 DEF Heard
    <2> QED
      BY <2>1, <2>2, <2>3, <2>4, <2>5, <1>3p DEF TellsOf, e
  <1> DEFINE z == IF rec'[r].kind = "turn" THEN <<e>> ELSE <<>>
  <1>8. z \in Seq(Entry) /\ Embeds(z, t)
    <2>1. CASE rec'[r].kind = "turn"
      <3>1. PICK c \in Seq(Entry) : t = <<e>> \o c
        BY <2>1, <1>3r
      <3>2. <<e>> \in Seq(Entry)
        BY <1>3q
      <3> DEFINE f == <<e>>
      <3>3. f \in Seq(Entry) /\ Embeds(f, f) /\ t = f \o c
        BY <3>1, <3>2, EmbedsSelf
      <3> HIDE DEF f
      <3>4. Embeds(f, f \o c)
        BY <3>3, EmbedsMore
      <3>5. z = f
        BY <2>1 DEF f
      <3> QED
        BY <3>3, <3>4, <3>5
    <2>2. CASE rec'[r].kind # "turn"
      <3>1. z = <<>>
        BY <2>2
      <3> QED
        BY <3>1, EmptySeq, EmbedsNothing
    <2> QED
      BY <2>1, <2>2
  <1>9. Says(rec', r) = own \o z
    BY <1>3v
  <1> HIDE DEF z
  <1>10. ASSUME NEW a \in Open(rec', l, n - 1)
         PROVE  /\ a \in 1 .. n
                /\ KnowsPart(rec', text \o t, l, a, n, <<>>)
    <2>1. a \in 1 .. (n - 1) + 1 /\ a + ChainLimit > n - 1 /\ \A i \in a .. n - 1 : Shown(rec', l[i])
      BY DEF Open
    <2>2. \A i \in a .. n - 1 : i \in 1 .. n - 1 /\ Shown(rec', k[i])
      BY <2>1, <1>4
    <2>3. a \in Open(rec', k, Len(k))
      BY <2>1, <2>2, <1>4 DEF Open
    <2>4. Len(k) \in 0 .. Len(k)
      BY <1>2
    <2>5. /\ a \in Open(rec, k, Len(k)) /\ a \in 1 .. Len(k) + 1
          /\ \A i \in a .. Len(k) : k[i] \in Responses /\ rec[k[i]].kind # "none" /\ Shown(rec', k[i])
      BY <2>3, <2>4, <1>2, OpenOn
    <2>6. KnowsPart(rec, text, k, a, Len(k), own)
      BY <2>5, <1>3t DEF Knows
    <2>7. Embeds(text, text)
      BY EmbedsSelf
    <2>8. KnowsPart(rec', text, k, a, Len(k), own)
      BY <2>4, <2>5, <2>6, <2>7, <1>2, <1>3s, KnowsOn
    <2>9. SamePart(rec', k, rec', l, a, Len(k))
      BY <2>2, <1>4 DEF SamePart
    <2>10. a \in Int /\ Len(k) \in Int
      BY <2>5, <1>2
    <2>11. KnowsPart(rec', text, l, a, n - 1, own)
      BY <2>8, <2>9, <2>10, <1>4, KnowsSame
    <2> DEFINE p == Said(rec', l, a, n - 1)  w == Said(rec', l, a, n)  q == Said(rec', l, n, n)
    <2>12. Embeds(p \o own, text) /\ \A i \in a .. n - 1 : TellsOf(rec', text, l[i])
      BY <2>11 DEF KnowsPart
    <2>13. p \in Seq(Entry) /\ w \in Seq(Entry) /\ w = p \o q
      <3> DEFINE m == n - 1
      <3>1. l \in Seq(Responses) /\ n \in 0 .. Len(l) /\ a \in 1 .. n + 1 /\ m \in a - 1 .. n /\ m + 1 = n
        BY <2>1, <1>4 DEF n
      <3> HIDE DEF m
      <3>2. /\ Said(rec', l, a, m) \in Seq(Entry) /\ Said(rec', l, m + 1, n) \in Seq(Entry) /\ Said(rec', l, a, n) \in Seq(Entry)
            /\ Said(rec', l, a, n) = Said(rec', l, a, m) \o Said(rec', l, m + 1, n)
        BY <3>1, SaidSplit
      <3> QED
        BY <3>1, <3>2 DEF m
    <2>14. q = own \o z
      <3>1. n \in Int /\ l[n] \in Responses
        BY <1>4
      <3>2. q = Says(rec', l[n])
        BY <3>1, SaidOne
      <3> QED
        BY <3>2, <1>4, <1>9
    <2> HIDE DEF p, w, q
    <2>15. w = (p \o own) \o z
      <3>1. Associates(p, own, z)
        BY <2>13, <1>3s, <1>8, ConcatAssociates
      <3> QED
        BY <3>1, <2>13, <2>14 DEF Associates
    <2>16. p \o own \in Seq(Entry)
      BY <2>13, <1>3s, ConcatProperties
    <2>17. Embeds(w, text \o t)
      <3> DEFINE g == p \o own
      <3>1. g \in Seq(Entry) /\ Embeds(g, text) /\ w = g \o z
        BY <2>12, <2>15, <2>16
      <3> HIDE DEF g
      <3>2. Embeds(g \o z, text \o t)
        BY <3>1, <1>8, EmbedsConcat
      <3> QED
        BY <3>1, <3>2
    <2>18. w \o <<>> = w
      BY <2>13, ConcatEmptySeq
    <2>19. Embeds(w \o <<>>, text \o t)
      BY <2>17, <2>18
    <2>20. ASSUME NEW i \in a .. n PROVE TellsOf(rec', text \o t, l[i])
      <3>1. CASE i = n
        BY <3>1, <1>4, <1>7
      <3>2. CASE i # n
        <4>1. i \in a .. n - 1
          BY <3>2, <2>1, <1>4
        <4>2. TellsOf(rec', text, l[i])
          BY <4>1, <2>12
        <4> QED
          BY <4>2, <1>6, TellsMore
      <3> QED
        BY <3>1, <3>2
    <2>21. KnowsPart(rec', text \o t, l, a, n, <<>>)
      BY <2>19, <2>20 DEF KnowsPart, w
    <2>22. a \in 1 .. n
      BY <2>1, <1>4
    <2> QED
      BY <2>21, <2>22
  <1>11. Knows(rec', text \o t, l, n, <<>>)
    <2> SUFFICES ASSUME NEW a \in Open(rec', l, n) PROVE KnowsPart(rec', text \o t, l, a, n, <<>>)
      BY DEF Knows
    <2>1. a \in 1 .. n + 1 /\ a + ChainLimit > n /\ \A i \in a .. n : Shown(rec', l[i])
      BY DEF Open
    <2>2. CASE a = n + 1
      <3>1. <<>> \in Seq(Entry) /\ Embeds(<<>>, text \o t) /\ n \in Nat
        BY EmptySeq, EmbedsNothing, <1>4
      <3>2. KnowsPart(rec', text \o t, l, n + 1, n, <<>>)
        BY <3>1, KnowsNone
      <3> QED
        BY <3>2, <2>2
    <2>3. CASE a # n + 1
      <3>1. a \in 1 .. (n - 1) + 1 /\ a + ChainLimit > n - 1 /\ \A i \in a .. n - 1 : Shown(rec', l[i])
        BY <2>1, <2>3, <1>4, LimitAssumption
      <3>2. a \in Open(rec', l, n - 1)
        BY <3>1 DEF Open
      <3> QED
        BY <3>2, <1>10
    <2> QED
      BY <2>2, <2>3
  <1>12. n > 1 => x.prev # None /\ l[n - 1] = x.prev /\ rec[x.prev].kind # "none"
    <2> SUFFICES ASSUME n > 1 PROVE x.prev # None /\ l[n - 1] = x.prev /\ rec[x.prev].kind # "none"
      OBVIOUS
    <2>1. Len(k) > 0 /\ x.prev # None /\ n - 1 \in 1 .. n - 1
      BY <1>2, <1>4
    <2> QED
      BY <2>1, <1>1, <1>2, <1>4
  <1>13. \A i \in 1 .. n - 1 : l[i] = k[i]
    BY <1>4
  <1> QED
    BY <1>4, <1>5, <1>10, <1>11, <1>12, <1>13 DEF l, n, k, x

\* Lines that begin alike.
LEMMA KnowsPrefix ==
  ASSUME NEW R, NEW text, NEW k, NEW l, NEW b \in Nat, NEW own, \A i \in 1 .. b : l[i] = k[i],
         Knows(R, text, k, b, own)
  PROVE  Knows(R, text, l, b, own)
  <1> SUFFICES ASSUME NEW a \in Open(R, l, b) PROVE KnowsPart(R, text, l, a, b, own)
    BY DEF Knows
  <1>1. a \in 1 .. b + 1 /\ a + ChainLimit > b /\ \A i \in a .. b : Shown(R, l[i])
    BY DEF Open
  <1>2. \A i \in a .. b : l[i] = k[i]
    BY <1>1
  <1>3. a \in Open(R, k, b)
    BY <1>1, <1>2 DEF Open
  <1>4. KnowsPart(R, text, k, a, b, own)
    BY <1>3 DEF Knows
  <1>5. SamePart(R, k, R, l, a, b)
    BY <1>2 DEF SamePart
  <1>6. a \in Int /\ b \in Int
    BY <1>1
  <1> QED
    BY <1>4, <1>5, <1>6, KnowsSame

LEMMA TextOfNothing ==
  ASSUME NEW d, d.base \in Seq(Entry), d.sent \in Seq(Entry)
  PROVE  TextOf(d, <<>>, <<>>) = LogOf(d)
  <1> DEFINE b == d.base  u == d.sent
  <1>1. b \o <<>> = b /\ u \o <<>> = u
    BY ConcatEmptySeq
  <1> HIDE DEF b, u
  <1>2. (b \o <<>>) \o (u \o <<>>) = b \o u
    BY <1>1
  <1> QED
    BY <1>2 DEF TextOf, LogOf, b, u

LEMMA SaveWarmKnows ==
  ASSUME IInv, SInv, KInv, NEW r \in Responses, SaveWarm(r)
  PROVE  KInv'
  <1> DEFINE x == req[r]  s == x.session  text == TextOf(sdk[s], x.base, x.prompt)  early == TextOf(sdk[s], x.base, <<>>)
             l == rec'[r].line  n == Len(l)  k == LineOf(rec, x)
             w == [held |-> TRUE, session |-> req[r].session, base |-> req[r].base,
                   prompt |-> req[r].prompt, claims |-> req[r].claims \cup {r}]
  <1>1. /\ RecordStep /\ RecordJoins(r) /\ rec[r].kind = "none"
        /\ rec'[r].pending = TRUE /\ rec'[r].kind = "warm"
        /\ \A q \in Responses : q # r => rec'[q] = rec[q]
    BY SaveWarmStatic
  <1>2. /\ x.phase = "ready" /\ x.kind = "warm" /\ sdk' = sdk
        /\ warm' = [warm EXCEPT ![r] = w]
        /\ req' = [req EXCEPT ![r] = [NewRequest EXCEPT !.phase = "done"]]
    BY DEF SaveWarm, Done
  <1>3. /\ s \in Responses /\ x.prompt \in Seq(Entry) /\ \A id \in x.claims : id \in Responses /\ rec[id].kind # "none"
    BY <1>2 DEF IInv, ReadyOK, Carries
  <1>4. ReadyOf(rec, sdk, x, r)
    BY <1>2 DEF KInv, ReadyKnown
  <1>5. x.base = <<>> /\ x.base \in Seq(Entry) /\ Prepared(rec, x, r, text) /\ Elsewhere(rec, x, early)
        /\ ClaimsKnow(rec, x.claims, s, text)
    BY <1>2, <1>4 DEF ReadyOf
  <1>6. Grows(sdk, sdk')
    BY <1>2, SameSessions
  <1>7. text \in Seq(Entry) /\ early \in Seq(Entry) /\ Embeds(text, text) /\ Embeds(early, early)
    <2>1. text \in Seq(Entry) /\ early \in Seq(Entry)
      BY <1>3, <1>5, <1>6, EmptySeq, TextGrows
    <2> QED
      BY <2>1, EmbedsSelf
  <1>8. /\ \A q \in Responses : q # r => req'[q] = req[q] /\ warm'[q] = warm[q]
        /\ req'[r].phase = "done" /\ warm'[r] = w
    BY <1>2 DEF IInv, Shape, NewRequest
  <1>9. early = LogOf(sdk[s])
    BY <1>3, <1>5, TextOfNothing DEF IInv, SentOK, KInv, SessionsKnown
  <1>10. x.prev # None => x.prev \in Responses /\ rec[x.prev].kind # "none"
    BY <1>1 DEF RecordJoins, IInv, Unsaved, SInv, RequestsSpeak, RequestSpeaks
  <1>11. /\ l \in Seq(Responses) /\ n \in Nat \ {0}
         /\ n > 1 => x.prev # None /\ l[n - 1] = x.prev
         /\ \A i \in 1 .. n - 1 : l[i] = k[i]
         /\ Len(k) = n - 1
         /\ Knows(rec', text, l, n, <<>>)
    <2>1. rec'[r].output = "none" /\ Shown(rec', r) /\ <<>> \in Seq(Entry)
      BY <1>1, EmptySeq DEF RecordJoins, Shown
    <2>2. text \o <<>> = text
      BY <1>7, ConcatEmptySeq
    <2>3. /\ l \in Seq(Responses) /\ n \in Nat \ {0}
          /\ n > 1 => x.prev # None /\ l[n - 1] = x.prev
          /\ \A i \in 1 .. n - 1 : l[i] = k[i]
          /\ Len(k) = n - 1
          /\ Knows(rec', text \o <<>>, l, n, <<>>)
      BY <2>1, <1>1, <1>5, <1>7, JoinsLine
    <2> QED
      BY <2>2, <2>3
  <1>12. Elsewhere(rec', x, early) /\ ClaimsKnow(rec', x.claims, s, text) /\ LineOf(rec', x) = k
    <2>1. x.claims \in SUBSET x.claims
      OBVIOUS
    <2>2. LineOf(rec', x) = k
      BY <1>1, <1>10, RequestLine
    <2>3. Elsewhere(rec', x, early)
      BY <1>1, <1>5, <1>7, <1>10, ElsewhereStays
    <2>4. ClaimsKnow(rec', x.claims, s, text)
      BY <2>1, <1>1, <1>3, <1>5, <1>7, ClaimsKnowStays
    <2> QED
      BY <2>2, <2>3, <2>4
  <1>13. WarmOf(rec', sdk', w)
    <2>1. w.base = <<>> /\ w.session = s /\ w.prompt = x.prompt /\ w.claims = x.claims \cup {r} /\ w.base = x.base
      BY <1>5
    <2>2. ASSUME NEW id \in x.claims \cup {r}, rec'[id].kind = "warm"
          PROVE  rec'[id].session = s /\ KnowsLine(rec', text, rec'[id].line, <<>>)
      <3>1. CASE id = r
        BY <3>1, <1>1, <1>11 DEF RecordJoins, KnowsLine
      <3>2. CASE id # r
        BY <3>2, <2>2, <1>12 DEF ClaimsKnow
      <3> QED
        BY <3>1, <3>2
    <2>3. ClaimsKnow(rec', x.claims \cup {r}, s, text)
      BY <2>2 DEF ClaimsKnow
    <2>4. TextOf(sdk'[w.session], w.base, w.prompt) = text
      BY <2>1, <1>2
    <2> HIDE DEF w
    <2> QED
      BY <2>1, <2>3, <2>4 DEF WarmOf
  <1>14. RecordOf(rec', sdk', r)
    <2>1. rec'[r].session = s
      BY <1>1 DEF RecordJoins
    <2>2. ASSUME n > 1, Shown(rec', l[n - 1]), rec'[l[n - 1]].session # rec'[r].session
          PROVE  Knows(rec', LogOf(sdk'[rec'[r].session]), l, n - 1, <<>>)
      <3>1. x.prev # None /\ Shown(rec', x.prev) /\ s # rec'[x.prev].session
        BY <2>1, <2>2, <1>11
      <3>2. Knows(rec', early, k, n - 1, <<>>)
        BY <3>1, <1>11, <1>12 DEF Elsewhere, KnowsLine
      <3>3. LogOf(sdk'[rec'[r].session]) = early
        BY <2>1, <1>2, <1>9
      <3>4. n - 1 \in Nat
        BY <1>11
      <3> HIDE DEF early, l, n, k
      <3>5. Knows(rec', early, l, n - 1, <<>>)
        BY <3>2, <3>4, <1>11, KnowsPrefix
      <3> QED
        BY <3>3, <3>5
    <2> QED
      BY <2>2, <1>1 DEF RecordOf
  <1>15. ASSUME NEW q \in Responses, Shown(rec', q) PROVE Settles(q) \/ RecordOf(rec', sdk', q)
    BY <1>1, <1>14, <1>15, SameSettles
  <1>16. \A q \in Responses : req'[q].phase = "new" => sdk'[q].base = <<>>
    BY <1>2, <1>8 DEF KInv, SessionsKnown
  <1>17. \A q \in Responses : warm'[q].held => warm'[q] = warm[q] \/ WarmOf(rec', sdk', warm'[q])
    BY <1>8, <1>13
  <1>18. \A q \in Responses : req'[q].phase = "ready" => req'[q] = req[q]
    BY <1>8
  <1>19. ASSUME NEW q \in Responses, req'[q].phase \in {"sent", "saved"} PROVE SentStays(req[q], req'[q])
    <2>1. q # r
      BY <1>8, <1>19
    <2> QED
      BY <2>1, <1>8, <1>19, SameSent
  <1> HIDE DEF w, text, early, l, n, k
  <1> QED
    BY <1>1, <1>6, <1>15, <1>16, <1>17, <1>18, <1>19, KnownStays

LEMMA KnowsLineLess ==
  ASSUME NEW R, NEW l \in Seq(Responses), NEW own \in Seq(Entry), NEW text \in Seq(Entry), KnowsLine(R, text, l, own)
  PROVE  KnowsLine(R, text, l, <<>>)
  <1>1. Len(l) \in 0 .. Len(l)
    BY LenProperties
  <1> SUFFICES ASSUME NEW a \in Open(R, l, Len(l)) PROVE KnowsPart(R, text, l, a, Len(l), <<>>)
    BY DEF KnowsLine, Knows
  <1>2. KnowsPart(R, text, l, a, Len(l), own) /\ a \in 1 .. Len(l) + 1
    BY DEF KnowsLine, Knows, Open
  <1> QED
    BY <1>1, <1>2, KnowsLess

LEMMA GenerateKnows ==
  ASSUME IInv, SInv, KInv, NEW r \in Responses, NEW output \in {"text", "function", "custom"}, Generate(r, output)
  PROVE  KInv'
  <1> DEFINE x == req[r]  s == x.session  text == LogOf(sdk[s])  text2 == LogOf(sdk'[s])
             l == rec'[r].line  n == Len(l)  k == LineOf(rec, x)  own == OwnInput(x.input, r)
             e == <<"answer", r>>
             c == IF output = "text" THEN <<>> ELSE <<<<"call", r>>>>
             t == <<e>> \o c
             d == sdk[s].base  u == sdk[s].sent
  <1>1. /\ RecordStep /\ RecordJoins(r) /\ rec[r].kind = "none"
        /\ rec'[r].kind = "turn" /\ rec'[r].output = output
        /\ \A q \in Responses : q # r => rec'[q] = rec[q]
    BY GenerateStatic
  <1>2. /\ x.phase = "sent" /\ warm' = warm
        /\ sdk' = [sdk EXCEPT ![s].sent = @ \o t]
        /\ req' = [req EXCEPT ![r].phase = "saved"]
    BY DEF Generate
  <1>3. c \in Seq(Entry) /\ t \in Seq(Entry) /\ (output # "text" => <<"call", r>> \in Range(t))
    <2>1. e \in Entry /\ <<"call", r>> \in Entry
      BY DEF Entry, What
    <2>2. <<e>> \in Seq(Entry) /\ <<<<"call", r>>>> \in Seq(Entry)
      BY <2>1, OneEntry
    <2>3. c \in Seq(Entry)
      BY <2>2, EmptySeq
    <2> DEFINE f == <<e>>
    <2>4. f \in Seq(Entry)
      BY <2>2
    <2> HIDE DEF f, c
    <2>5. f \o c \in Seq(Entry) /\ Range(c) \subseteq Range(f \o c)
      BY <2>3, <2>4, RangeOfConcat
    <2>6. output # "text" => <<"call", r>> \in Range(c)
      <3> DEFINE g == <<"call", r>>
      <3>1. g \in Entry
        BY <2>1
      <3>2. output # "text" => c = <<g>>
        BY DEF c
      <3> HIDE DEF g
      <3>3. <<g>> \in Seq(Entry) /\ Len(<<g>>) = 1 /\ <<g>>[1] = g
        BY <3>1
      <3>4. g \in Range(<<g>>)
        BY <3>3, RangeHasFirst
      <3> QED
        BY <3>2, <3>4 DEF g
    <2> QED
      BY <2>3, <2>5, <2>6 DEF f
  <1>4. s \in Responses
    BY <1>2 DEF IInv, ClaimsOK
  <1>5. d \in Seq(Entry) /\ u \in Seq(Entry)
    BY <1>4 DEF IInv, SentOK, KInv, SessionsKnown
  <1>3x. \E f \in Seq(Entry) : t = <<<<"answer", r>>>> \o f
    BY <1>3
  <1> HIDE DEF t
  <1>6. /\ sdk'[s].base = d /\ sdk'[s].sent = u \o t
        /\ \A q \in Responses : q # s => sdk'[q] = sdk[q]
        /\ \A q \in Responses : sdk'[q].base = sdk[q].base
    BY <1>2, <1>4 DEF IInv, Shape
  <1>7. Grows(sdk, sdk')
    <2>1. <<>> \in Seq(Entry) /\ d \o <<>> = d
      BY <1>5, EmptySeq, ConcatEmptySeq
    <2> QED
      BY <2>1, <1>3, <1>4, <1>6, SessionGrows
  <1>8. text \in Seq(Entry) /\ text2 \in Seq(Entry) /\ Embeds(text, text2)
    BY <1>4, <1>7, EmptySeq, TextGrows
  <1>9. text2 = text \o t
    <2>1. Associates(d, u, t)
      BY <1>3, <1>5, ConcatAssociates
    <2> QED
      BY <2>1, <1>6 DEF Associates, LogOf
  <1>10. SentOf(rec, sdk, x, r)
    BY <1>2 DEF KInv, SentKnown
  <1>11. Prepared(rec, x, r, text)
    BY <1>2, <1>10 DEF SentOf
  <1>12. x.prev # None => x.prev \in Responses /\ rec[x.prev].kind # "none"
    BY <1>1 DEF RecordJoins, IInv, Unsaved, SInv, RequestsSpeak, RequestSpeaks
  <1>13. /\ l \in Seq(Responses) /\ n \in Nat \ {0}
         /\ \A i \in 1 .. n - 1 : l[i] = k[i]
         /\ Len(k) = n - 1
         /\ \A a \in Open(rec', l, n - 1) : KnowsPart(rec', text2, l, a, n, <<>>)
         /\ Knows(rec', text2, l, n, <<>>)
    <2>1. Shown(rec', r)
      BY <1>1 DEF Shown
    <2>2. rec'[r].output \in {"function", "custom"} => <<"call", r>> \in Range(t)
      BY <1>1, <1>3
    <2>3. rec'[r].kind = "turn" => \E f \in Seq(Entry) : t = <<<<"answer", r>>>> \o f
      BY <1>3x
    <2>4. /\ l \in Seq(Responses) /\ n \in Nat \ {0}
          /\ \A i \in 1 .. n - 1 : l[i] = k[i]
          /\ Len(k) = n - 1
          /\ \A a \in Open(rec', l, n - 1) : KnowsPart(rec', text \o t, l, a, n, <<>>)
          /\ Knows(rec', text \o t, l, n, <<>>)
      BY <2>1, <2>2, <2>3, <1>1, <1>3, <1>8, <1>11, JoinsLine
    <2> QED
      BY <2>4, <1>9
  <1>14. Knows(rec', text2, l, n - 1, <<>>)
    <2>1. k \in Seq(Responses) /\ LineOf(rec', x) = k
      BY <1>1, <1>12, RequestLine
    <2>2. Prepared(rec', x, r, text2)
      BY <1>1, <1>8, <1>11, <1>12, PreparedStays
    <2>3. KnowsLine(rec', text2, k, own)
      BY <2>1, <2>2 DEF Prepared
    <2>4. own \in Seq(Entry)
      BY OwnInputIs
    <2> HIDE DEF k, own, text2, l, n
    <2>5. KnowsLine(rec', text2, k, <<>>)
      BY <2>1, <2>3, <2>4, <1>8, KnowsLineLess
    <2>6. Knows(rec', text2, k, n - 1, <<>>)
      BY <2>5, <1>13 DEF KnowsLine
    <2>7. n - 1 \in Nat
      BY <1>13
    <2> QED
      BY <2>6, <2>7, <1>13, KnowsPrefix
  <1>15. RecordOf(rec', sdk', r)
    <2>1. rec'[r].session = s
      BY <1>1 DEF RecordJoins
    <2> HIDE DEF s
    <2>2. LogOf(sdk'[rec'[r].session]) = text2
      BY <2>1
    <2> HIDE DEF text2
    <2> QED
      BY <2>2, <1>13, <1>14 DEF RecordOf, KnowsLine
  <1>16. ASSUME NEW q \in Responses, Shown(rec', q) PROVE Settles(q) \/ RecordOf(rec', sdk', q)
    BY <1>1, <1>15, <1>16, SameSettles
  <1>17. /\ \A q \in Responses : q # r => req'[q] = req[q]
         /\ req'[r].phase = "saved" /\ req'[r].session = s /\ req'[r].claims = x.claims
    BY <1>2 DEF IInv, Shape, RequestFields
  <1>18. \A q \in Responses : req'[q].phase = "new" => sdk'[q].base = <<>>
    BY <1>6, <1>17 DEF KInv, SessionsKnown
  <1>19. \A q \in Responses : req'[q].phase = "ready" => req'[q] = req[q]
    BY <1>17
  <1>20. ASSUME NEW q \in Responses, req'[q].phase \in {"sent", "saved"} PROVE SentStays(req[q], req'[q])
    <2>1. CASE q # r
      BY <2>1, <1>17, <1>20, SameSent
    <2>2. CASE q = r
      BY <2>2, <1>2, <1>17 DEF SentStays
    <2> QED
      BY <2>1, <2>2
  <1>21. \A q \in Responses : warm'[q].held => warm'[q] = warm[q]
    BY <1>2
  <1> HIDE DEF text, text2, l, n, k, own, e, c, d, u
  <1> QED
    BY <1>1, <1>7, <1>16, <1>18, <1>19, <1>20, <1>21, KnownStays

----------------------------------------------------------------------------
(* A request is prepared.                                                    *)

LEMMA OwnInInput ==
  ASSUME NEW r \in Responses, NEW input \in Seq(Entry)
  PROVE  Embeds(OwnInput(input, r), input)
  <1>1. CASE Input(r) \in Range(input)
    <2> DEFINE e == Input(r)
    <2>1. PICK i \in 1 .. Len(input) : input[i] = e
      BY <1>1, LenProperties DEF Range
    <2>2. OwnInput(input, r) = <<e>>
      BY <1>1 DEF OwnInput
    <2> HIDE DEF e
    <2> DEFINE o == <<e>>  f == [j \in 1 .. 1 |-> i]
    <2>3. /\ Len(o) = 1 /\ o[1] = e /\ f \in [1 .. 1 -> 1 .. Len(input)] /\ f[1] = i
      OBVIOUS
    <2> HIDE DEF o, f
    <2>4. \A j \in 1 .. 1 : o[j] = input[f[j]]
      BY <2>1, <2>3
    <2>5. \A j, q \in 1 .. 1 : j < q => f[j] < f[q]
      OBVIOUS
    <2>6. Embeds(o, input)
      BY <2>3, <2>4, <2>5 DEF Embeds
    <2> QED
      BY <2>2, <2>6 DEF o
  <1>2. CASE Input(r) \notin Range(input)
    <2>1. OwnInput(input, r) = <<>>
      BY <1>2 DEF OwnInput
    <2> QED
      BY <2>1, EmbedsNothing
  <1> QED
    BY <1>1, <1>2

LEMMA PreparedBy ==
  ASSUME IInv, SInv, NEW r \in Responses, NEW x,
         x.prev # None => x.prev \in Responses /\ rec[x.prev].kind # "none",
         NEW t \in Seq(Entry), NEW u \in Seq(Entry), x.input \in Seq(Entry), Embeds(x.input, u),
         KnowsLine(rec, t, LineOf(rec, x), <<>>),
         x.answers # None => {<<"result", x.answers>>, <<"told result", x.answers>>} \cap Range(u) # {},
         x.added => Input(r) \in Range(u)
  PROVE  Prepared(rec, x, r, t \o u)
  <1> DEFINE l == LineOf(rec, x)  own == OwnInput(x.input, r)
  <1>1. l \in Seq(Responses) /\ Len(l) \in 0 .. Len(l)
    BY RequestLine
  <1>2. own \in Seq(Entry) /\ Embeds(own, x.input)
    BY OwnInputIs, OwnInInput
  <1> HIDE DEF own
  <1>3. Embeds(own, u)
    BY <1>2, EmbedsIn
  <1>4. Range(x.input) \subseteq Range(u) /\ Range(u) \subseteq Range(t \o u)
    BY EmbedsRange, RangeOfConcat
  <1>5. Heard(x, r, t \o u)
    <2>1. \A i \in DOMAIN x.input : x.input[i] \in Range(t \o u)
      <3>1. \A i \in DOMAIN x.input : x.input[i] \in Range(x.input)
        BY DEF Range
      <3> QED
        BY <3>1, <1>4
    <2> QED
      BY <2>1, <1>4 DEF Heard
  <1> HIDE DEF l
  <1>6. ASSUME NEW a \in Open(rec, l, Len(l)) PROVE KnowsPart(rec, t \o u, l, a, Len(l), own)
    <2>1. KnowsPart(rec, t, l, a, Len(l), <<>>)
      BY DEF KnowsLine, Knows, l
    <2>2. a \in 1 .. Len(l) + 1
      BY DEF Open
    <2> QED
      BY <2>1, <2>2, <1>1, <1>2, <1>3, KnowsOwn
  <1> QED
    BY <1>5, <1>6 DEF Prepared, KnowsLine, Knows, l, own

LEMMA TextOfMore ==
  ASSUME NEW d, d.base \in Seq(Entry), d.sent \in Seq(Entry), NEW b \in Seq(Entry), NEW p \in Seq(Entry), NEW u \in Seq(Entry)
  PROVE  TextOf(d, b, p \o u) = TextOf(d, b, p) \o u /\ TextOf(d, b, p) \in Seq(Entry)
  <1> DEFINE c == d.base  v == d.sent
  <1>1. c \in Seq(Entry) /\ v \in Seq(Entry)
    OBVIOUS
  <1> HIDE DEF c, v
  <1> DEFINE g == c \o b  h == v \o p
  <1>2. g \in Seq(Entry) /\ h \in Seq(Entry)
    BY <1>1, ConcatProperties
  <1>3. Associates(v, p, u)
    BY <1>1, ConcatAssociates
  <1>4. v \o (p \o u) = h \o u
    BY <1>3 DEF Associates
  <1> HIDE DEF g, h
  <1>5. Associates(g, h, u)
    BY <1>2, ConcatAssociates
  <1>6. g \o (h \o u) = (g \o h) \o u /\ g \o h \in Seq(Entry)
    BY <1>2, <1>5, ConcatProperties DEF Associates
  <1>7. TextOf(d, b, p) = g \o h
    BY DEF TextOf, g, h, c, v
  <1>8. TextOf(d, b, p \o u) = g \o (v \o (p \o u))
    BY DEF TextOf, g, c, v
  <1> QED
    BY <1>4, <1>6, <1>7, <1>8

\* A new request is ready, or sent at once.
LEMMA PreparedKnows ==
  ASSUME IInv, SInv, KInv, NEW r \in Responses, rec' = rec, Grows(sdk, sdk'),
         \A q \in Responses : q # r => req'[q] = req[q] /\ sdk'[q].base = sdk[q].base,
         \A q \in Responses : warm'[q] \in {warm[q], NoWarm},
         \/ req'[r].phase = "ready" /\ ReadyOf(rec, sdk', req'[r], r)
         \/ req'[r].phase = "sent" /\ SentOf(rec, sdk', req'[r], r)
  PROVE  KInv'
  <1>1. RecordStep
    BY SameRecords
  <1>2. \A p \in Responses : Shown(rec', p) => Settles(p)
    BY SameSettles
  <1>3. \A s \in Responses : req'[s].phase = "new" => sdk'[s].base = <<>>
    BY DEF KInv, SessionsKnown
  <1>4. \A q \in Responses : warm'[q].held => warm'[q] = warm[q]
    BY DEF NoWarm
  <1>5. \A q \in Responses : req'[q].phase = "ready" => req'[q] = req[q] \/ ReadyOf(rec', sdk', req'[q], q)
    OBVIOUS
  <1>6. ASSUME NEW q \in Responses, req'[q].phase \in {"sent", "saved"}
        PROVE  SentStays(req[q], req'[q]) \/ SentOf(rec', sdk', req'[q], q)
    <2>1. CASE q # r
      BY <2>1, <1>6, SameSent
    <2>2. CASE q = r
      BY <2>2, <1>6
    <2> QED
      BY <2>1, <2>2
  <1> QED
    BY <1>1, <1>2, <1>3, <1>4, <1>5, <1>6, KnownStays

LEMMA StartFreshKnows ==
  ASSUME IInv, SInv, KInv, NEW r \in Responses, NEW kind \in {"turn", "warm"}, NEW streaming, StartFresh(r, kind, streaming)
  PROVE  KInv'
  <1> DEFINE x == Plain(r, kind, None, r, streaming)  y == req'[r]  i == <<Input(r)>>
  <1>1. /\ req' = [req EXCEPT ![r] = [x EXCEPT !.phase = "ready"]]
        /\ rec' = rec /\ sdk' = sdk /\ warm' = warm
    BY DEF StartFresh, Ready
  <1>2. /\ DOMAIN x = RequestFields
        /\ x.prev = None /\ x.input = i /\ x.answers = None /\ x.added = FALSE
        /\ x.session = r /\ x.base = <<>> /\ x.prompt = i /\ x.claims = {}
    BY DEF Plain, NewRequest, RequestFields
  <1> HIDE DEF x
  <1>3. \A q \in Responses : q # r => req'[q] = req[q]
    BY <1>1 DEF IInv, Shape
  <1>4. /\ y.phase = "ready" /\ y.prev = None /\ y.input = i /\ y.answers = None /\ y.added = FALSE
        /\ y.session = r /\ y.base = <<>> /\ y.prompt = i /\ y.claims = {}
    BY <1>1, <1>2 DEF IInv, Shape, RequestFields
  <1>5. Grows(sdk, sdk')
    BY <1>1, SameSessions
  <1>6. i \in Seq(Entry) /\ Embeds(i, i) /\ <<>> \o i = i
    <2>1. i \in Seq(Entry)
      BY InputIsEntry
    <2> HIDE DEF i
    <2> QED
      BY <2>1, EmbedsSelf, ConcatEmptySeq
  <1> HIDE DEF y, i
  <1> DEFINE t == TextOf(sdk[r], <<>>, <<>>)
  <1>7. t \in Seq(Entry) /\ TextOf(sdk[r], <<>>, i) = t \o i
    <2>1. TextOf(sdk[r], <<>>, <<>> \o i) = TextOf(sdk[r], <<>>, <<>>) \o i /\ TextOf(sdk[r], <<>>, <<>>) \in Seq(Entry)
      BY <1>6, EmptySeq, TextOfMore DEF IInv, SentOK, KInv, SessionsKnown
    <2> QED
      BY <2>1, <1>6
  <1> HIDE DEF t
  <1>8. LineOf(rec, y) = <<>> /\ KnowsLine(rec, t, <<>>, <<>>)
    <2>1. LineOf(rec, y) = <<>>
      BY <1>4 DEF LineOf
    <2>2. Embeds(<<>>, t) /\ <<>> \in Seq(Entry)
      BY EmbedsNothing, EmptySeq
    <2>3. KnowsPart(rec, t, <<>>, 0 + 1, 0, <<>>)
      BY <2>2, KnowsNone
    <2>4. \A a \in Open(rec, <<>>, 0) : a = 0 + 1
      BY DEF Open
    <2>5. Knows(rec, t, <<>>, 0, <<>>)
      BY <2>3, <2>4 DEF Knows
    <2>6. Len(<<>>) = 0
      OBVIOUS
    <2> QED
      BY <2>1, <2>5, <2>6 DEF KnowsLine
  <1>9. Prepared(rec, y, r, t \o i)
    BY <1>4, <1>6, <1>7, <1>8, PreparedBy
  <1>10. Elsewhere(rec, y, TextOf(sdk[r], <<>>, <<>>)) /\ ClaimsKnow(rec, {}, r, TextOf(sdk[r], <<>>, i))
    BY <1>4 DEF Elsewhere, ClaimsKnow
  <1>11. ReadyOf(rec, sdk, y, r)
    BY <1>4, <1>7, <1>9, <1>10, EmptySeq DEF ReadyOf
  <1> QED
    <2>1. req'[r].phase = "ready" /\ ReadyOf(rec, sdk', req'[r], r)
      BY <1>1, <1>4, <1>11 DEF y
    <2>2. /\ \A q \in Responses : q # r => req'[q] = req[q] /\ sdk'[q].base = sdk[q].base
          /\ \A q \in Responses : warm'[q] \in {warm[q], NoWarm}
      BY <1>1, <1>3
    <2> QED
      BY <2>1, <2>2, <1>1, <1>5, PreparedKnows

LEMMA UseWarmKnows ==
  ASSUME IInv, SInv, KInv, NEW r \in Responses, NEW p \in Responses, UseWarm(r, p)
  PROVE  KInv'
  <1> DEFINE w == warm[p]  x == Plain(r, "turn", p, w.session, TRUE)  y == req'[r]  i == <<Input(r)>>
  <1>1. /\ req' = [req EXCEPT ![r] = [[x EXCEPT !.base = w.base, !.prompt = w.prompt \o @,
                                                !.claims = w.claims] EXCEPT !.phase = "ready"]]
        /\ rec' = rec /\ sdk' = sdk /\ w.held
    BY DEF UseWarm, Ready
  <1>0. \A q \in Responses : warm'[q] \in {warm[q], NoWarm}
    BY DEF UseWarm, IInv, Shape
  <1>2. /\ DOMAIN x = RequestFields
        /\ x.prev = p /\ x.input = i /\ x.answers = None /\ x.added = FALSE
        /\ x.session = w.session /\ x.prompt = i
    BY DEF Plain, NewRequest, RequestFields
  <1> HIDE DEF x
  <1>3. \A q \in Responses : q # r => req'[q] = req[q]
    BY <1>1 DEF IInv, Shape
  <1>4. /\ y.phase = "ready" /\ y.prev = p /\ y.input = i /\ y.answers = None /\ y.added = FALSE
        /\ y.session = w.session /\ y.base = w.base /\ y.prompt = w.prompt \o i /\ y.claims = w.claims
    BY <1>1, <1>2 DEF IInv, Shape, RequestFields
  <1>5. Grows(sdk, sdk')
    BY <1>1, SameSessions
  <1>6. i \in Seq(Entry) /\ Embeds(i, i)
    <2>1. i \in Seq(Entry)
      BY InputIsEntry
    <2> HIDE DEF i
    <2> QED
      BY <2>1, EmbedsSelf
  <1> DEFINE s == w.session  t == TextOf(sdk[s], <<>>, w.prompt)
  <1>7. /\ w.base = <<>> /\ ClaimsKnow(rec, w.claims, s, t) /\ s \in Responses /\ w.prompt \in Seq(Entry)
        /\ \A id \in w.claims : id \in Responses /\ rec[id].kind # "none"
    <2>1. WarmOf(rec, sdk, w)
      BY <1>1 DEF KInv, WarmKnown
    <2> QED
      BY <2>1, <1>1 DEF WarmOf, IInv, WarmOK, Carries
  <1>8. p \in w.claims /\ rec[p].kind \in {"warm", "deleted"}
    BY <1>1 DEF SInv, WarmRecords
  <1> HIDE DEF y, i, w
  <1>9. t \in Seq(Entry) /\ TextOf(sdk[s], <<>>, w.prompt \o i) = t \o i
    <2>1. sdk[s].base \in Seq(Entry) /\ sdk[s].sent \in Seq(Entry)
      BY <1>7 DEF IInv, SentOK, KInv, SessionsKnown
    <2> HIDE DEF s
    <2> QED
      <3> DEFINE v == w.prompt  o == <<>>  d == sdk[s]
      <3>1. v \in Seq(Entry) /\ i \in Seq(Entry) /\ o \in Seq(Entry) /\ d.base \in Seq(Entry) /\ d.sent \in Seq(Entry)
        BY <2>1, <1>6, <1>7, EmptySeq
      <3> HIDE DEF v, o, d
      <3>2. TextOf(d, o, v \o i) = TextOf(d, o, v) \o i /\ TextOf(d, o, v) \in Seq(Entry)
        BY <3>1, TextOfMore
      <3> QED
        BY <3>2 DEF t, v, o, d
  <1> HIDE DEF t
  <1> DEFINE l == rec[p].line  n == Len(l)
  <1>10. l \in Seq(Responses) /\ n \in Nat \ {0} /\ l[n] = p
    BY <1>8, LineThere
  <1>11. LineOf(rec, y) = l
    BY <1>4, ResponsesAssumption DEF LineOf
  <1> HIDE DEF l
  <1>12. KnowsLine(rec, t, l, <<>>)
    <2>1. CASE rec[p].kind = "warm"
      BY <2>1, <1>7, <1>8 DEF ClaimsKnow, l
    <2>2. CASE rec[p].kind = "deleted"
      <3> SUFFICES ASSUME NEW a \in Open(rec, l, n) PROVE KnowsPart(rec, t, l, a, n, <<>>)
        BY DEF KnowsLine, Knows
      <3>1. a \in 1 .. n + 1 /\ \A j \in a .. n : Shown(rec, l[j])
        BY DEF Open
      <3>2. ~Shown(rec, l[n])
        BY <2>2, <1>10 DEF Shown
      <3>3. a = n + 1
        BY <3>1, <3>2, <1>10
      <3>4. n \in Nat /\ <<>> \in Seq(Entry) /\ Embeds(<<>>, t)
        BY <1>10, EmptySeq, EmbedsNothing
      <3> HIDE DEF n
      <3>5. KnowsPart(rec, t, l, n + 1, n, <<>>)
        BY <3>4, KnowsNone
      <3> QED
        BY <3>3, <3>5
    <2> QED
      BY <2>1, <2>2, <1>8
  <1>13. Prepared(rec, y, r, t \o i)
    <2>1. y.prev # None => y.prev \in Responses /\ rec[y.prev].kind # "none"
      BY <1>4, <1>8
    <2> QED
      BY <2>1, <1>4, <1>6, <1>9, <1>11, <1>12, PreparedBy
  <1>14. Elsewhere(rec, y, TextOf(sdk[s], <<>>, <<>>))
    <2>1. Shown(rec, p) => rec[p].session = s
      BY <1>7, <1>8 DEF Shown, ClaimsKnow
    <2> QED
      BY <2>1, <1>4 DEF Elsewhere
  <1>15. ClaimsKnow(rec, w.claims, s, t \o i)
    <2>1. Embeds(t, t \o i) /\ t \o i \in Seq(Entry)
      <3>1. Embeds(t, t)
        BY <1>9, EmbedsSelf
      <3> QED
        BY <3>1, <1>6, <1>9, EmbedsMore, ConcatProperties
    <2>2. RecordStep /\ w.claims \in SUBSET w.claims
      BY <1>1, SameRecords
    <2>3. ClaimsKnow(rec', w.claims, s, t \o i)
      BY <2>1, <2>2, <1>7, <1>9, ClaimsKnowStays
    <2> QED
      BY <2>3, <1>1
  <1>16. ReadyOf(rec, sdk, y, r)
    BY <1>4, <1>7, <1>9, <1>13, <1>14, <1>15, EmptySeq DEF ReadyOf
  <1> QED
    <2>1. req'[r].phase = "ready" /\ ReadyOf(rec, sdk', req'[r], r)
      BY <1>1, <1>4, <1>16 DEF y
    <2>2. \A q \in Responses : q # r => req'[q] = req[q] /\ sdk'[q].base = sdk[q].base
      BY <1>1, <1>3
    <2> QED
      BY <2>1, <2>2, <1>0, <1>1, <1>5, PreparedKnows

LEMMA ToldTells ==
  ASSUME NEW what \in What, NEW p \in Responses, NEW r \in Responses, NEW added
  PROVE  LET t == Told(what, p, r, added) IN
         t \in Seq(Entry) /\ <<what, p>> \in Range(t) /\ (added => Input(r) \in Range(t))
  <1> DEFINE e == <<what, p>>  i == Input(r)  b == IF added THEN <<i>> ELSE <<>>  a == <<e>>
  <1>1. e \in Entry /\ i \in Entry
    BY InputIsEntry DEF Entry
  <1>2. Told(what, p, r, added) = a \o b
    BY DEF Told
  <1> HIDE DEF e, i
  <1>3. a \in Seq(Entry) /\ e \in Range(a)
    <2>1. a \in Seq(Entry) /\ Len(a) = 1 /\ a[1] = e
      BY <1>1
    <2> HIDE DEF a
    <2> QED
      BY <2>1, RangeHasFirst
  <1>4. b \in Seq(Entry) /\ (added => i \in Range(b))
    <2>1. CASE added
      <3> DEFINE c == <<i>>
      <3>1. c \in Seq(Entry) /\ Len(c) = 1 /\ c[1] = i /\ b = c
        BY <1>1, <2>1
      <3> HIDE DEF c, b
      <3> QED
        BY <3>1, RangeHasFirst
    <2>2. CASE ~added
      BY <2>2, EmptySeq
    <2> QED
      BY <2>1, <2>2
  <1> HIDE DEF a, b
  <1>5. a \o b \in Seq(Entry) /\ Range(a) \subseteq Range(a \o b) /\ Range(b) \subseteq Range(a \o b)
    BY <1>3, <1>4, RangeOfConcat
  <1> QED
    BY <1>2, <1>3, <1>4, <1>5 DEF e, i

LEMMA AnswerLiveKnows ==
  ASSUME IInv, SInv, KInv, NEW r \in Responses, NEW p \in Responses, NEW added \in BOOLEAN, AnswerLive(r, p, added)
  PROVE  KInv'
  <1> DEFINE s == rec[p].session  x == Answers(r, p, s, added)  y == req'[r]  t == Told("result", p, r, added)
             d == sdk[s].base  u == sdk[s].sent  c == LogOf(sdk[s])  l == rec[p].line
  <1>1. /\ req' = [req EXCEPT ![r] = [x EXCEPT !.phase = "sent"]]
        /\ sdk' = [sdk EXCEPT ![s].sent = @ \o t]
        /\ rec' = rec /\ warm' = warm /\ p \in live /\ rec[p].kind \in {"warm", "turn"}
    BY DEF AnswerLive, Present
  <1>2. /\ DOMAIN x = RequestFields
        /\ x.prev = p /\ x.input = <<>> /\ x.answers = p /\ x.added = added /\ x.session = s /\ x.claims = {}
    BY DEF Answers, NewRequest, RequestFields
  <1> HIDE DEF x
  <1>3. \A q \in Responses : q # r => req'[q] = req[q]
    BY <1>1 DEF IInv, Shape
  <1>4. /\ y.phase = "sent" /\ y.prev = p /\ y.input = <<>> /\ y.answers = p /\ y.added = added
        /\ y.session = s /\ y.claims = {}
    BY <1>1, <1>2 DEF IInv, Shape, RequestFields
  <1>5. s \in Responses
    BY <1>1 DEF IInv, RecordsOK
  <1>6. d \in Seq(Entry) /\ u \in Seq(Entry)
    BY <1>5 DEF IInv, SentOK, KInv, SessionsKnown
  <1>7. t \in Seq(Entry) /\ <<"result", p>> \in Range(t) /\ (added => Input(r) \in Range(t))
    BY ToldTells DEF What
  <1>8. /\ sdk'[s].base = d /\ sdk'[s].sent = u \o t
        /\ \A q \in Responses : q # s => sdk'[q] = sdk[q]
        /\ \A q \in Responses : sdk'[q].base = sdk[q].base
    BY <1>1, <1>5 DEF IInv, Shape
  <1> HIDE DEF t, y
  <1>9. Grows(sdk, sdk')
    <2>1. <<>> \in Seq(Entry) /\ d \o <<>> = d
      BY <1>6, EmptySeq, ConcatEmptySeq
    <2> QED
      BY <2>1, <1>5, <1>7, <1>8, SessionGrows
  <1>10. c \in Seq(Entry)
    BY <1>5, <1>9, EmptySeq, TextGrows
  <1>11. LogOf(sdk'[s]) = c \o t
    <2>1. Associates(d, u, t)
      BY <1>6, <1>7, ConcatAssociates
    <2> QED
      BY <2>1, <1>8 DEF Associates, LogOf
  <1>12. KnowsLine(rec, c, l, <<>>)
    <2>1. rec[p].kind = "turn" /\ ~rec[p].pending /\ Shown(rec, p)
      BY <1>1 DEF SInv, LiveOK, IInv, RecordsOK, Shown
    <2>2. RecordOf(rec, sdk, p)
      BY <2>1 DEF KInv, RecordsKnown
    <2> QED
      BY <2>1, <2>2 DEF RecordOf
  <1>13. LineOf(rec, y) = l
    BY <1>4, ResponsesAssumption DEF LineOf
  <1> HIDE DEF c, l
  <1>14. Prepared(rec, y, r, c \o t)
    <2>1. y.prev # None => y.prev \in Responses /\ rec[y.prev].kind # "none"
      BY <1>1, <1>4
    <2>2. y.input \in Seq(Entry) /\ Embeds(y.input, t)
      BY <1>4, EmptySeq, EmbedsNothing
    <2> QED
      BY <2>1, <2>2, <1>4, <1>7, <1>10, <1>12, <1>13, PreparedBy
  <1>15. SentOf(rec, sdk', y, r)
    BY <1>4, <1>11, <1>14 DEF SentOf, ClaimsKnow
  <1>16. req'[r].phase = "sent" /\ SentOf(rec, sdk', req'[r], r)
    BY <1>4, <1>15 DEF y
  <1>17. /\ \A q \in Responses : q # r => req'[q] = req[q] /\ sdk'[q].base = sdk[q].base
         /\ \A q \in Responses : warm'[q] \in {warm[q], NoWarm}
    BY <1>1, <1>3, <1>8
  <1> QED
    BY <1>1, <1>9, <1>16, <1>17, PreparedKnows

----------------------------------------------------------------------------
(* A session is resumed: what waits for it is replayed.                      *)

\* Nobody is on a line twice, and pending records are warm ones.
LEMMA LineDistinct ==
  ASSUME IInv, SInv, NEW p \in Responses, rec[p].kind # "none",
         NEW i \in 1 .. Len(rec[p].line), NEW j \in 1 .. Len(rec[p].line), rec[p].line[i] = rec[p].line[j]
  PROVE  i = j
  <1> DEFINE l == rec[p].line
  <1>1. /\ l \in Seq(Responses) /\ Len(l) \in Nat \ {0}
        /\ \A q \in 1 .. Len(l) : rec[l[q]].line = SubSeq(l, 1, q)
    BY LineThere
  <1> HIDE DEF l
  <1>2. \A q \in 1 .. Len(l) : Len(SubSeq(l, 1, q)) = q
    BY <1>1
  <1>3. i \in 1 .. Len(l) /\ j \in 1 .. Len(l) /\ l[i] = l[j]
    BY DEF l
  <1>4. rec[l[i]].line = rec[l[j]].line
    BY <1>3
  <1> QED
    BY <1>1, <1>2, <1>3, <1>4

\* The run of records that wait, and the record before it.
LEMMA PendingRunIs ==
  ASSUME IInv, SInv, NEW p \in Responses, Present(p), BufferedCollected
  PROVE  LET l == rec[p].line  n == Len(l) IN
         \E m \in 1 .. n + 1 :
           /\ PendingPrompt(p) = [i \in 1 .. n - m + 1 |-> Input(l[m + i - 1])]
           /\ PendingIds(p) = {l[j] : j \in m .. n}
           /\ \A j \in m .. n : rec[l[j]].pending /\ rec[l[j]].session = rec[p].session
           /\ m > 1 => ~(rec[l[m - 1]].pending /\ rec[l[m - 1]].session = rec[p].session)
  <1> DEFINE l == rec[p].line  n == Len(l)  T == PendingStarts(p)  run == PendingRun(p)
  <1>1. l \in Seq(Responses) /\ n \in Nat \ {0} /\ l[n] = p /\ \A i \in 1 .. n : l[i] \in Responses
    BY LineThere DEF Present
  <1>2. T \in SUBSET Nat
    BY <1>1 DEF PendingStarts
  <1>3. n + 1 \in T
    BY <1>1, LimitAssumption DEF PendingStarts
  <1>4. \E i \in T : \A j \in T : i <= j
    BY <1>2, <1>3, NatMinimum
  <1>5. PICK m \in T : run = SubSeq(l, m, n)
    <2> DEFINE m == CHOOSE i \in T : \A j \in T : i <= j
    <2>1. m \in T
      BY <1>4
    <2>2. run = SubSeq(l, m, n)
      BY DEF PendingRun, From
    <2> QED
      BY <2>1, <2>2
  <1>6. m \in 1 .. n + 1 /\ \A j \in m .. n : rec[l[j]].pending /\ rec[l[j]].session = rec[p].session
    BY <1>1, <1>5 DEF PendingStarts
  <1>7. \A j \in m .. n : l[j] \in Responses
    BY <1>1, <1>6
  <1>8p. /\ run \in Seq(Responses) /\ Len(run) = IF m <= n THEN n - m + 1 ELSE 0
         /\ \A i \in 1 .. n - m + 1 : run[i] = l[m + i - 1]
    BY <1>1, <1>5, <1>6, <1>7, SubSeqProperties
  <1>8. /\ run \in Seq(Responses) /\ Len(run) = n - m + 1
        /\ \A i \in 1 .. n - m + 1 : run[i] = l[m + i - 1]
    BY <1>1, <1>6, <1>8p
  <1> HIDE DEF run, l
  <1>9. DOMAIN run = 1 .. n - m + 1
    BY <1>8, LenProperties
  <1>10. PendingPrompt(p) = [i \in 1 .. n - m + 1 |-> Input(l[m + i - 1])]
    BY <1>8, <1>9 DEF PendingPrompt, run
  <1>11. PendingIds(p) = {l[j] : j \in m .. n}
    <2>0. PendingIds(p) = {run[i] : i \in 1 .. n - m + 1}
      BY <1>9 DEF PendingIds, run
    <2>1. \A i \in 1 .. n - m + 1 : \E j \in m .. n : run[i] = l[j]
      <3> SUFFICES ASSUME NEW i \in 1 .. n - m + 1 PROVE \E j \in m .. n : run[i] = l[j]
        OBVIOUS
      <3>1. PICK j \in m .. n : j = m + i - 1
        BY <1>1, <1>6
      <3> QED
        BY <3>1, <1>8
    <2>2. \A j \in m .. n : \E i \in 1 .. n - m + 1 : run[i] = l[j]
      <3> SUFFICES ASSUME NEW j \in m .. n PROVE \E i \in 1 .. n - m + 1 : run[i] = l[j]
        OBVIOUS
      <3>1. PICK i \in 1 .. n - m + 1 : i = j - m + 1
        BY <1>1, <1>6
      <3>2. m + i - 1 = j
        BY <3>1, <1>6
      <3> QED
        BY <3>2, <1>8
    <2> QED
      BY <2>0, <2>1, <2>2
  <1>12. ASSUME m > 1, rec[l[m - 1]].pending, rec[l[m - 1]].session = rec[p].session PROVE FALSE
    <2>1. m - 1 \in 1 .. n
      BY <1>6, <1>12
    <2>2. \A j \in m - 1 .. n : rec[l[j]].pending /\ rec[l[j]].session = rec[p].session
      <3> SUFFICES ASSUME NEW j \in m - 1 .. n PROVE rec[l[j]].pending /\ rec[l[j]].session = rec[p].session
        OBVIOUS
      <3>1. j = m - 1 \/ j \in m .. n
        BY <1>6
      <3> QED
        BY <3>1, <1>6, <1>12
    <2>3. DOMAIN l = 1 .. n
      BY <1>1, LenProperties
    <2>4. l[m - 1] \in PendingIds(p)
      BY <2>1, <2>2, <2>3 DEF BufferedCollected, l
    <2>5. PICK j \in m .. n : l[m - 1] = l[j]
      BY <2>4, <1>11
    <2>6. j \in 1 .. n /\ j # m - 1
      BY <1>6
    <2> QED
      BY <2>1, <2>5, <2>6, LineDistinct DEF l, Present
  <1> QED
    BY <1>6, <1>10, <1>11, <1>12 DEF l

\* A record that waits says its input, and nothing else.
LEMMA WaitingSays ==
  ASSUME IInv, SInv, NEW x \in Responses, rec[x].pending
  PROVE  /\ Shown(rec, x) /\ Says(rec, x) = <<Input(x)>>
         /\ \A text : Input(x) \in Range(text) => TellsOf(rec, text, x)
  <1>1. rec[x].kind = "warm" /\ Present(x)
    BY DEF IInv, RecordsOK, Present
  <1>2. rec[x].answers = None /\ rec[x].output = "none" /\ rec[x].input = <<Input(x)>> /\ ~rec[x].added
    BY <1>1 DEF SInv, RecordsSpeak, Speaks
  <1>3. Says(rec, x) = <<Input(x)>>
    <2> DEFINE i == <<Input(x)>>
    <2>1. i \in Seq(Entry) /\ Input(x) \in Range(i)
      BY InputIsEntry
    <2>2. OwnInput(rec[x].input, x) = i
      BY <1>2, <2>1 DEF OwnInput
    <2> HIDE DEF i
    <2>3. i \o <<>> = i
      BY <2>1, ConcatEmptySeq
    <2>4. Says(rec, x) = i \o <<>>
      BY <2>2, <1>1 DEF Says
    <2> QED
      BY <2>3, <2>4 DEF i
  <1>4. ASSUME NEW text, Input(x) \in Range(text) PROVE TellsOf(rec, text, x)
    <2>1. \A i \in DOMAIN rec[x].input : rec[x].input[i] \in Range(text)
      BY <1>2, <1>4
    <2> QED
      BY <2>1, <1>1, <1>2 DEF TellsOf
  <1> QED
    BY <1>1, <1>3, <1>4 DEF Shown

LEMMA IsSequence == ASSUME NEW S, NEW n \in Nat, NEW f \in [1 .. n -> S] PROVE f \in Seq(S)
  BY SeqDef

\* The prompt that is replayed knows the run.
LEMMA RunKnown ==
  ASSUME IInv, SInv, NEW l \in Seq(Responses), NEW n \in 0 .. Len(l), NEW m \in 1 .. n + 1, NEW prompt,
         prompt = [i \in 1 .. n - m + 1 |-> Input(l[m + i - 1])],
         \A j \in m .. n : rec[l[j]].pending, NEW k \in m - 1 .. n
  PROVE  prompt \in Seq(Entry) /\ KnowsPart(rec, prompt, l, m, k, <<>>)
  <1> DEFINE N == n - m + 1
  <1>0. Len(l) \in Nat /\ N \in Nat /\ \A i \in 1 .. Len(l) : l[i] \in Responses
    BY LenProperties, ElementOfSeq
  <1>1. \A i \in 1 .. N : m + i - 1 \in m .. n /\ l[m + i - 1] \in Responses /\ rec[l[m + i - 1]].pending
    <2> SUFFICES ASSUME NEW i \in 1 .. N
                 PROVE  m + i - 1 \in m .. n /\ l[m + i - 1] \in Responses /\ rec[l[m + i - 1]].pending
      OBVIOUS
    <2>1. PICK j \in m .. n : j = m + i - 1
      BY <1>0
    <2>2. j \in 1 .. Len(l)
      BY <1>0
    <2>3. l[j] \in Responses /\ rec[l[j]].pending
      BY <2>2, <1>0
    <2> QED
      BY <2>1, <2>3
  <1>2. prompt \in [1 .. N -> Entry]
    BY <1>1, InputIsEntry
  <1>3. prompt \in Seq(Entry)
    <2> HIDE DEF N
    <2>1. N \in Nat /\ prompt \in [1 .. N -> Entry]
      BY <1>0, <1>2
    <2> QED
      BY <2>1, IsSequence
  <1>4. Said(rec, l, m, n) = prompt
    <2>1. \A i \in 1 .. N : Says(rec, l[m + i - 1]) = <<prompt[i]>>
      BY <1>1, WaitingSays
    <2>2. [i \in 1 .. N |-> Says(rec, l[m + i - 1])] = [i \in 1 .. N |-> <<prompt[i]>>]
      BY <2>1
    <2>3. FlattenSeq([i \in 1 .. N |-> <<prompt[i]>>]) = prompt
      BY <1>0, <1>2, FlattenSingles
    <2> QED
      BY <2>2, <2>3 DEF Said
  <1>5. Embeds(Said(rec, l, m, k) \o <<>>, prompt)
    <2> DEFINE p == Said(rec, l, m, k)  q == Said(rec, l, k + 1, n)
    <2>1. p \in Seq(Entry) /\ q \in Seq(Entry) /\ prompt = p \o q
      BY <1>4, SaidSplit
    <2> HIDE DEF p, q
    <2>2. Embeds(p, p) /\ p \o <<>> = p
      BY <2>1, EmbedsSelf, ConcatEmptySeq
    <2>3. Embeds(p, p \o q)
      BY <2>1, <2>2, EmbedsMore
    <2>4. Embeds(p \o <<>>, prompt)
      BY <2>1, <2>2, <2>3
    <2> QED
      BY <2>4 DEF p
  <1>6. ASSUME NEW j \in m .. k PROVE TellsOf(rec, prompt, l[j])
    <2>1. PICK i \in 1 .. N : m + i - 1 = j
      <3>1. j - m + 1 \in 1 .. N /\ m + (j - m + 1) - 1 = j
        BY <1>0
      <3> QED
        BY <3>1
    <2>2. prompt[i] = Input(l[j]) /\ l[j] \in Responses /\ rec[l[j]].pending
      BY <2>1, <1>1
    <2>3. prompt[i] \in Range(prompt)
      BY <1>2 DEF Range
    <2> QED
      BY <2>2, <2>3, WaitingSays
  <1> QED
    BY <1>3, <1>5, <1>6 DEF KnowsPart

\* What was sent to a session, and what waits for it, know the line.
LEMMA ResumedKnows ==
  ASSUME IInv, SInv, KInv, NEW p \in Responses, Present(p), BufferedCollected
  PROVE  LET t == TextOf(sdk[rec[p].session], <<>>, PendingPrompt(p)) IN
         /\ t \in Seq(Entry) /\ PendingPrompt(p) \in Seq(Entry)
         /\ KnowsLine(rec, t, rec[p].line, <<>>)
         /\ ClaimsKnow(rec, PendingIds(p), rec[p].session, t)
  <1> DEFINE l == rec[p].line  n == Len(l)  s == rec[p].session  prompt == PendingPrompt(p)
             d == sdk[s].base  u == sdk[s].sent  log == LogOf(sdk[s])  t == TextOf(sdk[s], <<>>, prompt)
  <1>1. /\ l \in Seq(Responses) /\ n \in Nat \ {0} /\ l[n] = p
        /\ \A i \in 1 .. n : l[i] \in Responses /\ rec[l[i]].line = SubSeq(l, 1, i)
    BY LineThere DEF Present
  <1>2. PICK m \in 1 .. n + 1 :
          /\ prompt = [i \in 1 .. n - m + 1 |-> Input(l[m + i - 1])]
          /\ PendingIds(p) = {l[j] : j \in m .. n}
          /\ \A j \in m .. n : rec[l[j]].pending /\ rec[l[j]].session = s
          /\ m > 1 => ~(rec[l[m - 1]].pending /\ rec[l[m - 1]].session = s)
    BY PendingRunIs
  <1>3. s \in Responses /\ Shown(rec, p)
    BY DEF IInv, RecordsOK, Present, Shown
  <1>4. d \in Seq(Entry) /\ u \in Seq(Entry)
    BY <1>3 DEF IInv, SentOK, KInv, SessionsKnown
  <1> HIDE DEF l, prompt
  <1>5. n \in 0 .. Len(l) /\ \A j \in m .. n : rec[l[j]].pending
    BY <1>1, <1>2
  <1>6. \A k \in m - 1 .. n : prompt \in Seq(Entry) /\ KnowsPart(rec, prompt, l, m, k, <<>>)
    BY <1>1, <1>2, <1>5, RunKnown
  <1>7. prompt \in Seq(Entry)
    <2>1. n \in m - 1 .. n
      BY <1>1, <1>2
    <2> QED
      BY <2>1, <1>6
  <1>8. log \in Seq(Entry) /\ t = log \o prompt /\ t \in Seq(Entry)
    <2> DEFINE o == <<>>
    <2>1. o \in Seq(Entry) /\ d \o o = d /\ o \o prompt = prompt
      BY <1>4, <1>7, EmptySeq, ConcatEmptySeq
    <2> HIDE DEF o
    <2>2. Associates(d, u, prompt)
      BY <1>4, <1>7, ConcatAssociates
    <2>3. t = (d \o o) \o (u \o prompt)
      BY DEF TextOf, o
    <2>4. log = d \o u
      BY DEF LogOf
    <2> HIDE DEF d, u, t, log
    <2>5. t = log \o prompt
      BY <2>1, <2>2, <2>3, <2>4 DEF Associates
    <2>6. log \in Seq(Entry)
      BY <2>4, <1>4, ConcatProperties
    <2> QED
      BY <2>5, <2>6, <1>7, ConcatProperties
  <1> HIDE DEF t, log, s
  <1>9. ASSUME m > 1, Shown(rec, l[m - 1]), m <= n \/ rec[l[m - 1]].session = s
        PROVE  Knows(rec, log, l, m - 1, <<>>)
    <2> DEFINE x == l[m - 1]  k == SubSeq(l, 1, m - 1)
    <2>1. m - 1 \in 1 .. n /\ x \in Responses /\ rec[x].line = k /\ m - 1 \in Nat
      BY <1>1, <1>2, <1>9
    <2>2. k \in Seq(Responses) /\ Len(k) = m - 1 /\ \A i \in 1 .. m - 1 : l[i] = k[i]
      BY <2>1, <1>1
    <2>3. RecordOf(rec, sdk, x)
      BY <2>1, <1>9 DEF KInv, RecordsKnown
    <2>4. CASE rec[x].session = s
      <3>1. ~rec[x].pending
        BY <2>4, <1>2, <1>9
      <3>2. KnowsLine(rec, log, k, <<>>)
        BY <3>1, <2>1, <2>3, <2>4 DEF RecordOf, log
      <3> HIDE DEF k
      <3>3. Knows(rec, log, k, m - 1, <<>>)
        BY <3>2, <2>2 DEF KnowsLine
      <3> QED
        BY <3>3, <2>1, <2>2, KnowsPrefix
    <2>5. CASE rec[x].session # s
      <3> DEFINE y == l[m]  g == SubSeq(l, 1, m)
      <3>1. m \in m .. n /\ m \in 1 .. n
        BY <2>5, <1>1, <1>2, <1>9
      <3>2. y \in Responses /\ rec[y].line = g /\ rec[y].pending /\ rec[y].session = s
        BY <3>1, <1>1, <1>2
      <3>3. g \in Seq(Responses) /\ Len(g) = m /\ \A i \in 1 .. m : g[i] = l[i]
        BY <3>1, <1>1
      <3>4. Shown(rec, y)
        BY <3>2 DEF IInv, RecordsOK, Shown
      <3>5. RecordOf(rec, sdk, y)
        BY <3>2, <3>4 DEF KInv, RecordsKnown
      <3>6. g[m - 1] = x
        BY <2>1, <3>1, <3>3
      <3> HIDE DEF g, y, x, k
      <3>7. Len(g) > 1 /\ Shown(rec, g[Len(g) - 1]) /\ rec[g[Len(g) - 1]].session # rec[y].session
        BY <3>2, <3>3, <3>6, <2>5, <1>9 DEF x
      <3>8. Knows(rec, LogOf(sdk[rec[y].session]), rec[y].line, Len(rec[y].line) - 1, <<>>)
        BY <3>2, <3>5, <3>7 DEF RecordOf
      <3>9. Knows(rec, log, g, m - 1, <<>>)
        BY <3>2, <3>3, <3>8 DEF log
      <3>10. \A i \in 1 .. m - 1 : l[i] = g[i]
        BY <3>1, <3>3
      <3> QED
        BY <3>9, <3>10, <2>1, KnowsPrefix
    <2> QED
      BY <2>4, <2>5
  <1>10. ASSUME NEW k \in m - 1 .. n, k >= m \/ k = n PROVE Knows(rec, t, l, k, <<>>)
    <2> SUFFICES ASSUME NEW a \in Open(rec, l, k) PROVE KnowsPart(rec, t, l, a, k, <<>>)
      BY DEF Knows
    <2>1. a \in 1 .. k + 1 /\ a + ChainLimit > k /\ \A j \in a .. k : Shown(rec, l[j])
      BY DEF Open
    <2>2. k \in 0 .. Len(l) /\ k \in Nat /\ <<>> \in Seq(Entry)
      BY <1>1, <1>2, <1>10, EmptySeq
    <2>3. KnowsPart(rec, prompt, l, m, k, <<>>)
      BY <1>6
    <2>4. CASE a >= m
      <3>1. a \in m .. k + 1 /\ m \in 1 .. k + 1
        BY <2>1, <2>4, <1>2
      <3>2. KnowsPart(rec, prompt, l, a, k, <<>>)
        BY <3>1, <2>2, <2>3, <1>1, <1>7, KnowsLater
      <3>3. Embeds(prompt, log \o prompt)
        <4>1. Embeds(prompt, prompt)
          BY <1>7, EmbedsSelf
        <4> QED
          BY <4>1, <1>7, <1>8, EmbedsMore
      <3>4. KnowsPart(rec, log \o prompt, l, a, k, <<>>)
        BY <3>2, <3>3, <2>1, <2>2, <1>1, <1>7, <1>8, KnowsMore
      <3> QED
        BY <3>4, <1>8
    <2>5. CASE a < m
      <3>1. m > 1 /\ m - 1 \in a .. k /\ a \in 1 .. (m - 1) + 1 /\ a + ChainLimit > m - 1
        BY <2>1, <2>5, <1>2, LimitAssumption
      <3>2. Shown(rec, l[m - 1])
        BY <3>1, <2>1
      <3>3. m <= n \/ rec[l[m - 1]].session = s
        <4>1. CASE m <= n
          BY <4>1
        <4>2. CASE m > n
          <5>1. m - 1 = n
            BY <4>2, <1>1, <1>2
          <5> QED
            BY <5>1, <1>1 DEF s
        <4> QED
          BY <4>1, <4>2, <1>1, <1>2
      <3>4. Knows(rec, log, l, m - 1, <<>>)
        BY <3>1, <3>2, <3>3, <1>9
      <3>5. a \in Open(rec, l, m - 1)
        BY <3>1, <2>1 DEF Open
      <3>6. KnowsPart(rec, log, l, a, m - 1, <<>>)
        BY <3>4, <3>5 DEF Knows
      <3> DEFINE b == m - 1
      <3>7. b \in a - 1 .. k /\ b + 1 = m
        BY <3>1, <1>2
      <3> HIDE DEF b
      <3>8. KnowsPart(rec, log, l, a, b, <<>>) /\ KnowsPart(rec, prompt, l, b + 1, k, <<>>)
        BY <3>6, <3>7, <2>3 DEF b
      <3>9. KnowsPart(rec, log \o prompt, l, a, k, <<>>)
        BY <3>7, <3>8, <2>1, <2>2, <1>1, <1>7, <1>8, KnowsJoin
      <3> QED
        BY <3>9, <1>8
    <2> QED
      BY <2>1, <2>4, <2>5, <1>2
  <1>11. KnowsLine(rec, t, l, <<>>)
    <2>1. n \in m - 1 .. n
      BY <1>1, <1>2
    <2> QED
      BY <2>1, <1>10 DEF KnowsLine
  <1>12. ClaimsKnow(rec, PendingIds(p), s, t)
    <2> SUFFICES ASSUME NEW id \in PendingIds(p)
                 PROVE  rec[id].session = s /\ KnowsLine(rec, t, rec[id].line, <<>>)
      BY DEF ClaimsKnow
    <2>1. PICK j \in m .. n : id = l[j]
      BY <1>2
    <2>2. j \in 1 .. n /\ j \in m - 1 .. n /\ j >= m /\ j \in Nat
      BY <1>1, <1>2
    <2>3. Knows(rec, t, l, j, <<>>)
      BY <2>2, <1>10
    <2> DEFINE k == SubSeq(l, 1, j)
    <2>4. rec[id].line = k /\ Len(k) = j /\ \A i \in 1 .. j : k[i] = l[i]
      BY <2>1, <2>2, <1>1
    <2> HIDE DEF k
    <2>5. Knows(rec, t, k, j, <<>>)
      BY <2>2, <2>3, <2>4, KnowsPrefix
    <2> QED
      BY <2>1, <2>4, <2>5, <1>2 DEF KnowsLine
  <1> QED
    BY <1>7, <1>8, <1>11, <1>12 DEF t, l, s, prompt

TextSplits(d, b, p, u) == TextOf(d, b, p \o u) = TextOf(d, b, p) \o u /\ TextOf(d, b, p) \in Seq(Entry)

LEMMA TextSplit ==
  ASSUME NEW d, d.base \in Seq(Entry), d.sent \in Seq(Entry), NEW b \in Seq(Entry), NEW p \in Seq(Entry), NEW u \in Seq(Entry)
  PROVE  TextSplits(d, b, p, u)
  <1>1. TextOf(d, b, p \o u) = TextOf(d, b, p) \o u /\ TextOf(d, b, p) \in Seq(Entry)
    BY TextOfMore
  <1> QED
    BY <1>1 DEF TextSplits

LEMMA ResumeKnows ==
  ASSUME IInv, SInv, KInv, BufferedCollected, NEW r \in Responses, NEW kind \in {"turn", "warm"}, NEW p \in Responses,
         NEW streaming, Resume(r, kind, p, streaming)
  PROVE  KInv'
  <1> DEFINE s == rec[p].session  x == Plain(r, kind, p, s, streaming)  y == req'[r]  i == <<Input(r)>>
             v == PendingPrompt(p)  c == PendingIds(p)  l == rec[p].line
  <1>1. /\ req' = [req EXCEPT ![r] = [[x EXCEPT !.prompt = v \o @, !.claims = c] EXCEPT !.phase = "ready"]]
        /\ rec' = rec /\ sdk' = sdk /\ Present(p) /\ Discards(kind, p, streaming)
    BY DEF Resume, Ready
  <1>0. \A q \in Responses : warm'[q] \in {warm[q], NoWarm}
    BY <1>1, DiscardsWarm
  <1>2. /\ DOMAIN x = RequestFields
        /\ x.prev = p /\ x.input = i /\ x.answers = None /\ x.added = FALSE
        /\ x.session = s /\ x.prompt = i /\ x.base = <<>>
    BY DEF Plain, NewRequest, RequestFields
  <1> HIDE DEF x, v, c
  <1>3. \A q \in Responses : q # r => req'[q] = req[q]
    BY <1>1 DEF IInv, Shape
  <1>4. /\ y.phase = "ready" /\ y.prev = p /\ y.input = i /\ y.answers = None /\ y.added = FALSE
        /\ y.session = s /\ y.base = <<>> /\ y.prompt = v \o i /\ y.claims = c
    BY <1>1, <1>2 DEF IInv, Shape, RequestFields
  <1>5. Grows(sdk, sdk')
    BY <1>1, SameSessions
  <1>6. i \in Seq(Entry) /\ Embeds(i, i)
    <2>1. i \in Seq(Entry)
      BY InputIsEntry
    <2> HIDE DEF i
    <2> QED
      BY <2>1, EmbedsSelf
  <1> DEFINE t == TextOf(sdk[s], <<>>, v)
  <1>7. t \in Seq(Entry) /\ v \in Seq(Entry) /\ KnowsLine(rec, t, l, <<>>) /\ ClaimsKnow(rec, c, s, t)
    BY <1>1, ResumedKnows DEF v, c
  <1>8. s \in Responses /\ rec[p].kind # "none"
    BY <1>1 DEF IInv, RecordsOK, Present
  <1>9. TextOf(sdk[s], <<>>, v \o i) = t \o i
    <2>1. sdk[s].base \in Seq(Entry) /\ sdk[s].sent \in Seq(Entry)
      BY <1>8 DEF IInv, SentOK, KInv, SessionsKnown
    <2> DEFINE o == <<>>  d == sdk[s]
    <2>2. v \in Seq(Entry) /\ i \in Seq(Entry) /\ o \in Seq(Entry) /\ d.base \in Seq(Entry) /\ d.sent \in Seq(Entry)
      BY <2>1, <1>6, <1>7, EmptySeq
    <2> HIDE DEF o, d, i, s, l, t, y
    <2>3. TextSplits(d, o, v, i)
      BY <2>2, TextSplit
    <2> QED
      BY <2>3 DEF TextSplits, t, o, d
  <1>10. \A id \in c : id \in Responses /\ rec[id].kind # "none"
    BY <1>1, PendingRunCarries DEF Carries, c
  <1>11. LineOf(rec, y) = l
    BY <1>4, ResponsesAssumption DEF LineOf
  <1> HIDE DEF t, l, s, y, i
  <1>12. Prepared(rec, y, r, t \o i)
    <2>1. y.prev # None => y.prev \in Responses /\ rec[y.prev].kind # "none"
      BY <1>4, <1>8
    <2> QED
      BY <2>1, <1>4, <1>6, <1>7, <1>11, PreparedBy
  <1>13. Elsewhere(rec, y, TextOf(sdk[s], <<>>, <<>>))
    BY <1>4 DEF Elsewhere, s
  <1>14. ClaimsKnow(rec, c, s, t \o i)
    <2>1. Embeds(t, t \o i) /\ t \o i \in Seq(Entry)
      <3>1. Embeds(t, t)
        BY <1>7, EmbedsSelf
      <3> QED
        BY <3>1, <1>6, <1>7, EmbedsMore, ConcatProperties
    <2>2. RecordStep /\ c \in SUBSET c
      BY <1>1, SameRecords
    <2>3. ClaimsKnow(rec', c, s, t \o i)
      BY <2>1, <2>2, <1>7, <1>10, ClaimsKnowStays
    <2> QED
      BY <2>3, <1>1
  <1>15. ReadyOf(rec, sdk, y, r)
    BY <1>4, <1>9, <1>12, <1>13, <1>14, EmptySeq DEF ReadyOf
  <1> QED
    <2>1. req'[r].phase = "ready" /\ ReadyOf(rec, sdk', req'[r], r)
      BY <1>1, <1>4, <1>15 DEF y
    <2>2. \A q \in Responses : q # r => req'[q] = req[q] /\ sdk'[q].base = sdk[q].base
      BY <1>1, <1>3
    <2> QED
      BY <2>1, <2>2, <1>0, <1>1, <1>5, PreparedKnows

----------------------------------------------------------------------------
(* A chain is rebuilt.                                                       *)

\* The chain starts at the first place it may.
LEMMA ChainFromStart ==
  ASSUME IInv, SInv, NEW p \in Responses, Present(p)
  PROVE  LET l == rec[p].line  n == Len(l) IN
         /\ l \in Seq(Responses) /\ n \in Nat \ {0} /\ l[n] = p /\ \A i \in 1 .. n : l[i] \in Responses
         /\ \E m \in 1 .. n :
              /\ Chain(p) = SubSeq(l, m, n) /\ m \in Open(rec, l, n) /\ \A a \in Open(rec, l, n) : m <= a
              /\ Len(SubSeq(l, m, n)) = n - m + 1 /\ \A i \in 1 .. n - m + 1 : SubSeq(l, m, n)[i] = l[m + i - 1]
              /\ \A i \in m .. n : Shown(rec, l[i])
  <1> DEFINE l == rec[p].line  n == Len(l)  T == ChainStarts(l)
  <1>1. l \in Seq(Responses) /\ n \in Nat \ {0} /\ l[n] = p /\ \A i \in 1 .. n : l[i] \in Responses
    BY LineThere DEF Present
  <1>2. T \in SUBSET Nat
    BY <1>1 DEF ChainStarts
  <1>3. n \in T
    BY <1>1, LimitAssumption DEF ChainStarts
  <1>4. \E i \in T : \A j \in T : i <= j
    BY <1>2, <1>3, NatMinimum
  <1>5. PICK m \in T : Chain(p) = SubSeq(l, m, n) /\ \A j \in T : m <= j
    <2> DEFINE m == CHOOSE i \in T : \A j \in T : i <= j
    <2>1. m \in T /\ \A j \in T : m <= j
      BY <1>4
    <2>2. Chain(p) = SubSeq(l, m, n)
      BY DEF Chain, From
    <2> QED
      BY <2>1, <2>2
  <1>6. m \in 1 .. n /\ m + ChainLimit > n /\ \A j \in m .. n - 1 : Present(l[j])
    BY <1>5 DEF ChainStarts
  <1>7. \A j \in m .. n : Shown(rec, l[j])
    <2> SUFFICES ASSUME NEW j \in m .. n PROVE Shown(rec, l[j])
      OBVIOUS
    <2>1. j = n \/ j \in m .. n - 1
      BY <1>1, <1>6
    <2> QED
      BY <2>1, <1>1, <1>6 DEF Present, Shown
  <1>8. m \in Open(rec, l, n)
    BY <1>1, <1>6, <1>7 DEF Open
  <1>9. ASSUME NEW a \in Open(rec, l, n) PROVE m <= a
    <2>1. a \in 1 .. n + 1 /\ a + ChainLimit > n /\ \A j \in a .. n : Shown(rec, l[j])
      BY DEF Open
    <2>2. CASE a = n + 1
      BY <2>2, <1>1, <1>6
    <2>3. CASE a # n + 1
      <3>1. a \in 1 .. n /\ \A j \in a .. n - 1 : Present(l[j])
        BY <2>1, <2>3, <1>1 DEF Present, Shown
      <3>2. a \in T
        BY <3>1, <2>1 DEF ChainStarts
      <3> QED
        BY <3>2, <1>5
    <2> QED
      BY <2>2, <2>3
  <1> HIDE DEF l
  <1>10. Len(SubSeq(l, m, n)) = n - m + 1 /\ \A i \in 1 .. n - m + 1 : SubSeq(l, m, n)[i] = l[m + i - 1]
    BY <1>1, <1>6
  <1> QED
    BY <1>1, <1>5, <1>6, <1>7, <1>8, <1>9, <1>10 DEF l

\* The chain in parts, each of which tells of its record what it said.
LEMMA RebuiltKnows ==
  ASSUME IInv, SInv, NEW p \in Responses, Present(p), NEW n \in Nat, n = Len(Chain(p)), NEW B \in [1 .. n -> Seq(Entry)],
         \A i \in 1 .. n : TellsOf(rec, B[i], Chain(p)[i]) /\ Embeds(Says(rec, Chain(p)[i]), B[i])
  PROVE  FlattenSeq(B) \in Seq(Entry) /\ KnowsLine(rec, FlattenSeq(B), rec[p].line, <<>>)
  <1> DEFINE l == rec[p].line  k == Len(l)  text == FlattenSeq(B)
  <1>1. l \in Seq(Responses) /\ k \in Nat \ {0} /\ \A i \in 1 .. k : l[i] \in Responses
    BY ChainFromStart
  <1>2. PICK m \in 1 .. k :
          /\ Chain(p) = SubSeq(l, m, k) /\ m \in Open(rec, l, k) /\ \A a \in Open(rec, l, k) : m <= a
          /\ Len(SubSeq(l, m, k)) = k - m + 1 /\ \A i \in 1 .. k - m + 1 : SubSeq(l, m, k)[i] = l[m + i - 1]
          /\ \A i \in m .. k : Shown(rec, l[i])
    BY ChainFromStart
  <1>3. n = k - m + 1 /\ \A i \in 1 .. n : Chain(p)[i] = l[m + i - 1]
    BY <1>2
  <1>4. text \in Seq(Entry)
    BY FlattenPlaces
  <1>5. ASSUME NEW j \in m .. k PROVE TellsOf(rec, text, l[j])
    <2>1. PICK i \in 1 .. n : m + i - 1 = j
      <3>1. j - m + 1 \in 1 .. n /\ m + (j - m + 1) - 1 = j
        BY <1>1, <1>2, <1>3
      <3> QED
        BY <3>1
    <2>2. TellsOf(rec, B[i], l[j])
      BY <2>1, <1>3
    <2>3. Range(B[i]) \subseteq Range(text)
      BY PlacesHold
    <2> QED
      BY <2>2, <2>3, TellsMore
  <1>6. Embeds(Said(rec, l, m, k) \o <<>>, text)
    <2> DEFINE A == [i \in 1 .. k - m + 1 |-> Says(rec, l[m + i - 1])]  w == Said(rec, l, m, k)
    <2>1. A \in [1 .. n -> Seq(Entry)]
      <3> SUFFICES ASSUME NEW i \in 1 .. n PROVE Says(rec, l[m + i - 1]) \in Seq(Entry)
        BY <1>3
      <3>1. m + i - 1 \in 1 .. k
        BY <1>1, <1>3
      <3> QED
        BY <3>1, <1>1, SaysIs
    <2>2. \A i \in 1 .. n : Embeds(A[i], B[i])
      BY <1>3
    <2>3. w = FlattenSeq(A)
      BY DEF Said
    <2> HIDE DEF A, w
    <2>4. Embeds(w, text)
      BY <2>1, <2>2, <2>3, FlattenEmbeds
    <2>5. w \in Seq(Entry)
      BY <2>1, <2>3, FlattenPlaces
    <2>6. w \o <<>> = w
      BY <2>5, ConcatEmptySeq
    <2>7. Embeds(w \o <<>>, text)
      BY <2>4, <2>6
    <2> QED
      BY <2>7 DEF w
  <1>7. KnowsPart(rec, text, l, m, k, <<>>)
    BY <1>5, <1>6 DEF KnowsPart
  <1> HIDE DEF text, l, k
  <1>8. ASSUME NEW a \in Open(rec, l, k) PROVE KnowsPart(rec, text, l, a, k, <<>>)
    <2>1. a \in 1 .. k + 1 /\ m <= a
      BY <1>2 DEF Open
    <2>2. a \in m .. k + 1 /\ m \in 1 .. k + 1 /\ k \in 0 .. Len(l) /\ <<>> \in Seq(Entry)
      BY <2>1, <1>1, <1>2, EmptySeq DEF k
    <2> QED
      BY <2>2, <1>1, <1>4, <1>7, KnowsLater
  <1> QED
    BY <1>4, <1>8 DEF KnowsLine, Knows, text, k, l

LEMMA EmbedsParts ==
  ASSUME NEW a \in Seq(Entry), NEW b \in Seq(Entry), NEW c \in Seq(Entry), NEW s \in Seq(Entry), Embeds(s, b)
  PROVE  Embeds(s, (a \o b) \o c)
  <1>1. a \o b \in Seq(Entry) /\ Embeds(s, a \o b)
    BY EmbedsMore, ConcatProperties
  <1> DEFINE d == a \o b
  <1>2. d \in Seq(Entry) /\ Embeds(s, d)
    BY <1>1
  <1> HIDE DEF d
  <1>3. Embeds(s, d \o c)
    BY <1>2, EmbedsMore
  <1> QED
    BY <1>3 DEF d

\* The input and the answer of a record stand together.
LEMMA SaysInMiddle ==
  ASSUME IInv, SInv, NEW x \in Responses, Present(x)
  PROVE  Middle(x) \in Seq(Entry) /\ Says(rec, x) \in Seq(Entry) /\ Embeds(Says(rec, x), Middle(x))
  <1> DEFINE i == rec[x].input  o == OwnInput(i, x)  a == Answer(x)
  <1>1. i \in Seq(Entry) /\ a \in Seq(Entry) /\ Middle(x) \in Seq(Entry)
    <2>1. "result" \in What
      BY DEF What
    <2> QED
      BY <2>1, RecordParts
  <1>2. o \in Seq(Entry) /\ Embeds(o, i)
    BY <1>1, OwnInputIs, OwnInInput
  <1>3. Embeds(a, a)
    BY <1>1, EmbedsSelf
  <1>4. Says(rec, x) = o \o a /\ Middle(x) = i \o a
    BY DEF Says, Answer, Middle
  <1>5. Says(rec, x) \in Seq(Entry)
    BY SaysIs
  <1> HIDE DEF i, o, a
  <1>6. Embeds(o \o a, i \o a)
    BY <1>1, <1>2, <1>3, EmbedsConcat
  <1> QED
    BY <1>1, <1>4, <1>5, <1>6

LEMMA HistorySays ==
  ASSUME IInv, SInv, NEW x \in Responses, Present(x), NEW chain
  PROVE  RecordHistory(chain, x) \in Seq(Entry) /\ Embeds(Says(rec, x), RecordHistory(chain, x))
  <1> DEFINE o == Result(chain, x)  m == Middle(x)  c == Call(chain, x)  s == Says(rec, x)
  <1>1. /\ o \in Seq(Entry) /\ m \in Seq(Entry) /\ c \in Seq(Entry)
        /\ RecordHistory(chain, x) = (o \o m) \o c /\ RecordHistory(chain, x) \in Seq(Entry)
    BY RecordHistoryIs
  <1>2. s \in Seq(Entry) /\ Embeds(s, m)
    BY SaysInMiddle
  <1> HIDE DEF o, m, c, s
  <1>3. Embeds(s, (o \o m) \o c)
    BY <1>1, <1>2, EmbedsParts
  <1> QED
    BY <1>1, <1>3 DEF s

\* In prose: nothing is declared, and the outputs come last.
LEMMA TranscriptSays ==
  ASSUME IInv, SInv, NEW x \in Responses, Present(x)
  PROVE  /\ RecordTranscript(x) \in Seq(Entry) /\ Embeds(Says(rec, x), RecordTranscript(x))
         /\ TellsOf(rec, RecordTranscript(x), x)
  <1> DEFINE o == Outputs(x, "told result")  i == rec[x].input  a == Answer(x)  m == Middle(x)
             c == Call(<<>>, x)  s == Says(rec, x)  e == RecordTranscript(x)
  <1>0. "told result" \in What
    BY DEF What
  <1>1. o \in Seq(Entry) /\ m \in Seq(Entry) /\ i \in Seq(Entry) /\ a \in Seq(Entry) /\ m = i \o a
    BY <1>0, RecordParts DEF Middle
  <1>2. c \in Seq(Entry)
    BY CallIs
  <1>3. e = (m \o c) \o o
    <2>1. x \notin Declared(<<>>)
      BY DEF Declared, Range
    <2> DEFINE f == <<"told call", x>>
    <2>2. c = IF Calls(x) THEN <<f>> ELSE <<>>
      BY <2>1 DEF Call
    <2>3. e = ((i \o a) \o (IF Calls(x) THEN <<f>> ELSE <<>>)) \o o
      BY DEF RecordTranscript
    <2> HIDE DEF f, c, o, e, m, i, a
    <2> QED
      BY <2>2, <2>3, <1>1
  <1>4. s \in Seq(Entry) /\ Embeds(s, m)
    BY SaysInMiddle
  <1> HIDE DEF o, m, c, s, i, a
  <1>5. m \o c \in Seq(Entry) /\ Embeds(s, m \o c) /\ Range(m) \subseteq Range(m \o c) /\ Range(c) \subseteq Range(m \o c)
    BY <1>1, <1>2, <1>4, EmbedsMore, RangeOfConcat
  <1> DEFINE d == m \o c
  <1>6. d \in Seq(Entry) /\ Embeds(s, d) /\ e = d \o o /\ Range(m) \subseteq Range(d) /\ Range(c) \subseteq Range(d)
    BY <1>3, <1>5
  <1> HIDE DEF d, e
  <1>7. e \in Seq(Entry) /\ Embeds(s, e) /\ Range(d) \subseteq Range(e) /\ Range(o) \subseteq Range(e)
    <2>1. Embeds(s, d \o o)
      BY <1>1, <1>4, <1>6, EmbedsMore
    <2>2. d \o o \in Seq(Entry) /\ Range(d) \subseteq Range(d \o o) /\ Range(o) \subseteq Range(d \o o)
      BY <1>1, <1>6, RangeOfConcat
    <2> QED
      BY <2>1, <2>2, <1>6
  <1>8. Range(i) \subseteq Range(m) /\ Range(a) \subseteq Range(m)
    BY <1>1, RangeOfConcat
  <1>9. Range(i) \subseteq Range(e) /\ Range(a) \subseteq Range(e) /\ Range(c) \subseteq Range(e)
    BY <1>6, <1>7, <1>8
  <1>10. TellsOf(rec, e, x)
    BY <1>7, <1>9, PartsTell DEF i, a, c, o
  <1> QED
    BY <1>7, <1>10 DEF s, e

LEMMA HistoryKnows ==
  ASSUME IInv, SInv, NEW p \in Responses, Present(p)
  PROVE  /\ History(Chain(p)) \in Seq(Entry) /\ KnowsLine(rec, History(Chain(p)), rec[p].line, <<>>)
         /\ Transcript(Chain(p)) \in Seq(Entry) /\ KnowsLine(rec, Transcript(Chain(p)), rec[p].line, <<>>)
  <1> DEFINE chain == Chain(p)  n == Len(chain)
             A == [i \in 1 .. n |-> RecordHistory(chain, chain[i])]  B == [i \in 1 .. n |-> RecordTranscript(chain[i])]
  <1>1. n \in Nat /\ chain \in [1 .. n -> Responses] /\ \A i \in 1 .. n : chain[i] \in Responses /\ Present(chain[i])
    BY ChainElements
  <1>2. History(chain) = FlattenSeq(A) /\ Transcript(chain) = FlattenSeq(B)
    <2>1. DOMAIN chain = 1 .. n
      BY <1>1
    <2> QED
      BY <2>1 DEF History, Transcript
  <1> HIDE DEF chain
  <1>3. A \in [1 .. n -> Seq(Entry)]
        /\ \A i \in 1 .. n : TellsOf(rec, A[i], chain[i]) /\ Embeds(Says(rec, chain[i]), A[i])
    BY <1>1, HistorySays, HistoryTells
  <1>4. B \in [1 .. n -> Seq(Entry)]
        /\ \A i \in 1 .. n : TellsOf(rec, B[i], chain[i]) /\ Embeds(Says(rec, chain[i]), B[i])
    BY <1>1, TranscriptSays
  <1> HIDE DEF A, B
  <1>5. FlattenSeq(A) \in Seq(Entry) /\ KnowsLine(rec, FlattenSeq(A), rec[p].line, <<>>)
    BY <1>1, <1>3, RebuiltKnows DEF chain
  <1>6. FlattenSeq(B) \in Seq(Entry) /\ KnowsLine(rec, FlattenSeq(B), rec[p].line, <<>>)
    BY <1>1, <1>4, RebuiltKnows DEF chain
  <1> QED
    BY <1>2, <1>5, <1>6 DEF chain

\* A request in a session of its own, which begins with the chain: as its
\* history, or as what the request sends first.
RebuildStep(r, p, hydrated, i) ==
  /\ rec' = rec /\ req[r].phase = "new"
  /\ sdk' = [sdk EXCEPT ![r].base = IF hydrated THEN History(Chain(p)) ELSE <<>>]
  /\ \A q \in Responses : q # r => req'[q] = req[q]
  /\ \A q \in Responses : warm'[q] \in {warm[q], NoWarm}
  /\ req'[r].phase = "ready" /\ req'[r].prev = p /\ req'[r].session = r /\ req'[r].claims = {}
  /\ req'[r].base = IF hydrated THEN <<>> ELSE Transcript(Chain(p))
  /\ ~hydrated => req'[r].kind = "turn"
  /\ req'[r].input = i /\ req'[r].prompt = i
  /\ req'[r].answers # None =>
       {<<"result", req'[r].answers>>, <<"told result", req'[r].answers>>} \cap Range(i) # {}
  /\ req'[r].added => Input(r) \in Range(i)

LEMMA RebuiltReady ==
  ASSUME IInv, SInv, KInv, NEW r \in Responses, NEW p \in Responses, Present(p), NEW hydrated \in BOOLEAN,
         NEW i \in Seq(Entry), RebuildStep(r, p, hydrated, i)
  PROVE  KInv'
  <1> DEFINE y == req'[r]  l == rec[p].line  h == IF hydrated THEN History(Chain(p)) ELSE <<>>
             b == IF hydrated THEN <<>> ELSE Transcript(Chain(p))  u == sdk[r].sent  o == <<>>
             k == IF hydrated THEN History(Chain(p)) ELSE Transcript(Chain(p))  e == TextOf(sdk'[r], b, o)
  <1>1. /\ k \in Seq(Entry) /\ h \in Seq(Entry) /\ b \in Seq(Entry) /\ o \in Seq(Entry)
        /\ KnowsLine(rec, k, l, o) /\ (h = k \/ b = k) /\ u \in Seq(Entry)
    BY HistoryKnows, EmptySeq DEF IInv, SentOK
  <1>2. sdk[r].base = o
    BY DEF KInv, SessionsKnown, RebuildStep
  <1>3. sdk'[r].base = h /\ sdk'[r].sent = u /\ \A q \in Responses : q # r => sdk'[q] = sdk[q]
    BY DEF IInv, Shape, RebuildStep
  <1>4. y.prev = p /\ y.session = r /\ y.claims = {} /\ y.base = b /\ y.input = i /\ y.prompt = i
    BY DEF RebuildStep
  <1>5. b # o => y.kind = "turn"
    BY DEF RebuildStep
  <1>6. LineOf(rec, y) = l
    BY <1>4, ResponsesAssumption DEF LineOf
  <1>7. l \in Seq(Responses) /\ Len(l) \in 0 .. Len(l)
    <2> DEFINE n == Len(l)
    <2>1. l \in Seq(Responses) /\ n \in Nat \ {0}
      BY LineThere DEF Present
    <2> HIDE DEF n
    <2>2. n \in 0 .. n
      BY <2>1
    <2> QED
      BY <2>1, <2>2 DEF n
  <1> HIDE DEF y, h, b, k, u, l
  <1>8. Grows(sdk, sdk')
    <2>1. o \o h = h /\ u \o o = u
      BY <1>1, ConcatEmptySeq
    <2>2. sdk'[r].base = sdk[r].base \o h /\ sdk'[r].sent = sdk[r].sent \o o
      BY <2>1, <1>2, <1>3 DEF u
    <2> HIDE DEF o
    <2> QED
      BY <2>2, <1>1, <1>3, SessionGrows
  <1>9. e = (h \o b) \o u /\ e \in Seq(Entry) /\ Embeds(k, e)
    <2>1. u \o o = u
      BY <1>1, ConcatEmptySeq
    <2>2. e = (h \o b) \o u
      BY <2>1, <1>3 DEF TextOf
    <2>3. Embeds(k, k)
      BY <1>1, EmbedsSelf
    <2>4. Embeds(k, h \o b) /\ h \o b \in Seq(Entry)
      <3>1. CASE h = k
        BY <3>1, <2>3, <1>1, EmbedsMore, ConcatProperties
      <3>2. CASE b = k
        BY <3>2, <2>3, <1>1, EmbedsMore, ConcatProperties
      <3> QED
        BY <3>1, <3>2, <1>1
    <2> DEFINE c == h \o b
    <2>5. c \in Seq(Entry) /\ Embeds(k, c) /\ e = c \o u
      BY <2>2, <2>4
    <2> HIDE DEF c, e
    <2>6. c \o u \in Seq(Entry) /\ Embeds(k, c \o u)
      BY <2>5, <1>1, EmbedsMore, ConcatProperties
    <2> QED
      BY <2>2, <2>5, <2>6
  <1>10. TextOf(sdk'[r], b, i) = e \o i
    <2>1. o \o i = i
      BY ConcatEmptySeq
    <2> DEFINE d == sdk'[r]
    <2>2. d.base \in Seq(Entry) /\ d.sent \in Seq(Entry)
      BY <1>1, <1>3
    <2> HIDE DEF d, o
    <2>3. TextSplits(d, b, o, i)
      BY <2>2, <1>1, TextSplit
    <2> QED
      BY <2>1, <2>3 DEF TextSplits, d
  <1> HIDE DEF e, o
  <1>11. KnowsLine(rec, e, l, o)
    <2> SUFFICES ASSUME NEW a \in Open(rec, l, Len(l)) PROVE KnowsPart(rec, e, l, a, Len(l), o)
      BY DEF KnowsLine, Knows
    <2>1. KnowsPart(rec, k, l, a, Len(l), o)
      BY <1>1 DEF KnowsLine, Knows
    <2>2. a \in 1 .. Len(l) + 1
      BY DEF Open
    <2> QED
      BY <2>1, <2>2, <1>1, <1>7, <1>9, KnowsMore
  <1>12. Prepared(rec, y, r, e \o i)
    <2>1. y.prev # None => y.prev \in Responses /\ rec[y.prev].kind # "none"
      BY <1>4 DEF Present
    <2>2. KnowsLine(rec, e, LineOf(rec, y), <<>>)
      BY <1>6, <1>11 DEF o
    <2>3. Embeds(i, i)
      BY EmbedsSelf
    <2>4. /\ y.answers # None => {<<"result", y.answers>>, <<"told result", y.answers>>} \cap Range(i) # {}
          /\ y.added => Input(r) \in Range(i)
      BY DEF y, RebuildStep
    <2> QED
      BY <2>1, <2>2, <2>3, <2>4, <1>4, <1>9, PreparedBy
  <1>13. ReadyOf(rec, sdk', y, r)
    <2>1. Elsewhere(rec, y, TextOf(sdk'[r], b, <<>>))
      BY <1>6, <1>11 DEF Elsewhere, e, o
    <2>2. ClaimsKnow(rec, y.claims, y.session, TextOf(sdk'[r], b, i))
      BY <1>4 DEF ClaimsKnow
    <2> QED
      BY <2>1, <2>2, <1>1, <1>4, <1>5, <1>10, <1>12 DEF ReadyOf, o
  <1> QED
    <2>1. req'[r].phase = "ready" /\ ReadyOf(rec, sdk', req'[r], r)
      BY <1>13 DEF y, RebuildStep
    <2>2. \A q \in Responses : q # r => req'[q] = req[q] /\ sdk'[q].base = sdk[q].base
      BY <1>3 DEF RebuildStep
    <2>3. rec' = rec /\ \A q \in Responses : warm'[q] \in {warm[q], NoWarm}
      BY DEF RebuildStep
    <2> QED
      BY <2>1, <2>2, <2>3, <1>8, PreparedKnows

LEMMA SynthesizeKnows ==
  ASSUME IInv, SInv, KInv, WarmHydrationFails = FALSE, NEW r \in Responses, NEW kind \in {"turn", "warm"},
         NEW p \in Responses, NEW streaming, NEW hydrated \in BOOLEAN, Synthesize(r, kind, p, streaming, hydrated)
  PROVE  KInv'
  <1> DEFINE x == Plain(r, kind, p, r, streaming)  i == <<Input(r)>>
             b == IF hydrated THEN <<>> ELSE Transcript(Chain(p))
  <1>1. /\ req' = [req EXCEPT ![r] = [[x EXCEPT !.base = b] EXCEPT !.phase = "ready"]]
        /\ sdk' = [sdk EXCEPT ![r].base = IF hydrated THEN History(Chain(p)) ELSE <<>>]
        /\ rec' = rec /\ Present(p) /\ req[r].phase = "new" /\ (~hydrated => kind = "turn")
    BY DEF Synthesize, Rebuild, Ready, Arrives
  <1>2. \A q \in Responses : warm'[q] \in {warm[q], NoWarm}
    BY DiscardsWarm DEF Synthesize
  <1>3. /\ DOMAIN x = RequestFields /\ x.kind = kind /\ x.prev = p /\ x.input = i /\ x.prompt = i
        /\ x.answers = None /\ x.added = FALSE /\ x.session = r /\ x.claims = {}
    BY DEF Plain, NewRequest, RequestFields
  <1>4. i \in Seq(Entry)
    BY InputIsEntry
  <1> HIDE DEF x, b, i
  <1>5. /\ \A q \in Responses : q # r => req'[q] = req[q]
        /\ req'[r].phase = "ready" /\ req'[r].prev = p /\ req'[r].session = r /\ req'[r].claims = {}
        /\ req'[r].base = b /\ req'[r].kind = kind /\ req'[r].input = i /\ req'[r].prompt = i
        /\ req'[r].answers = None /\ req'[r].added = FALSE
    BY <1>1, <1>3 DEF IInv, Shape, RequestFields
  <1>6. req'[r].base = IF hydrated THEN <<>> ELSE Transcript(Chain(p))
    BY <1>5 DEF b
  <1> QED
    BY <1>1, <1>2, <1>4, <1>5, <1>6, RebuiltReady DEF RebuildStep

LEMMA AnswerFromRecordKnows ==
  ASSUME IInv, SInv, KInv, NEW r \in Responses, NEW p \in Responses, NEW added \in BOOLEAN, NEW hydrated \in BOOLEAN,
         AnswerFromRecord(r, p, added, hydrated)
  PROVE  KInv'
  <1> DEFINE i == Told("told result", p, r, added)
             x == [Answers(r, p, r, added) EXCEPT !.input = i, !.prompt = i]
             b == IF hydrated THEN <<>> ELSE Transcript(Chain(p))
  <1>1. /\ req' = [req EXCEPT ![r] = [[x EXCEPT !.base = b] EXCEPT !.phase = "ready"]]
        /\ sdk' = [sdk EXCEPT ![r].base = IF hydrated THEN History(Chain(p)) ELSE <<>>]
        /\ rec' = rec /\ Present(p) /\ req[r].phase = "new" /\ warm' = warm
    BY DEF AnswerFromRecord, Rebuild, Ready, Arrives
  <1>2. \A q \in Responses : warm'[q] \in {warm[q], NoWarm}
    BY <1>1
  <1>3. i \in Seq(Entry) /\ <<"told result", p>> \in Range(i) /\ (added => Input(r) \in Range(i))
    BY ToldTells DEF What
  <1> HIDE DEF i
  <1>4. /\ DOMAIN x = RequestFields /\ x.kind = "turn" /\ x.prev = p /\ x.input = i /\ x.prompt = i
        /\ x.answers = p /\ x.added = added /\ x.session = r /\ x.claims = {}
    BY DEF Answers, NewRequest, RequestFields
  <1> HIDE DEF x, b
  <1>5. /\ \A q \in Responses : q # r => req'[q] = req[q]
        /\ req'[r].phase = "ready" /\ req'[r].prev = p /\ req'[r].session = r /\ req'[r].claims = {}
        /\ req'[r].base = b /\ req'[r].kind = "turn" /\ req'[r].input = i /\ req'[r].prompt = i
        /\ req'[r].answers = p /\ req'[r].added = added
    BY <1>1, <1>4 DEF IInv, Shape, RequestFields
  <1>6. req'[r].base = IF hydrated THEN <<>> ELSE Transcript(Chain(p))
    BY <1>5 DEF b
  <1>7. {<<"result", req'[r].answers>>, <<"told result", req'[r].answers>>} \cap Range(i) # {}
    BY <1>3, <1>5
  <1>8. req'[r].added => Input(r) \in Range(i)
    BY <1>3, <1>5
  <1> QED
    BY <1>1, <1>2, <1>3, <1>5, <1>6, <1>7, <1>8, RebuiltReady DEF RebuildStep

----------------------------------------------------------------------------
(* Every turn knows its chain.                                               *)

LEMMA KnowsInit == Init => KInv
  <1> SUFFICES ASSUME Init PROVE KInv
    OBVIOUS
  <1>1. SessionsKnown
    BY EmptySeq DEF Init, SessionsKnown
  <1>2. ReadyKnown /\ SentKnown /\ WarmKnown /\ RecordsKnown
    BY DEF Init, ReadyKnown, SentKnown, WarmKnown, RecordsKnown, NewRequest, NoWarm, NoRecord, Shown
  <1> QED
    BY <1>1, <1>2 DEF KInv

LEMMA KnowsNext ==
  ASSUME IInv, SInv, KInv, BufferedCollected, WarmHydrationFails = FALSE, [Next]_vars
  PROVE  KInv'
  <1>1. ASSUME NEW r \in Responses, Prepare(r) PROVE KInv'
    <2>1. \A kind \in {"turn", "warm"}, streaming \in BOOLEAN : StartFresh(r, kind, streaming) => KInv'
      BY StartFreshKnows
    <2>2. \A kind \in {"turn", "warm"}, streaming \in BOOLEAN, p \in Responses : Resume(r, kind, p, streaming) => KInv'
      BY ResumeKnows
    <2>3. \A kind \in {"turn", "warm"}, streaming \in BOOLEAN, p \in Responses, hydrated \in BOOLEAN :
            Synthesize(r, kind, p, streaming, hydrated) => KInv'
      BY SynthesizeKnows
    <2>4. \A p \in Responses, added \in BOOLEAN : AnswerLive(r, p, added) => KInv'
      BY AnswerLiveKnows
    <2>5. \A p \in Responses, added, hydrated \in BOOLEAN : AnswerFromRecord(r, p, added, hydrated) => KInv'
      BY AnswerFromRecordKnows
    <2>6. \A p \in Responses : UseWarm(r, p) => KInv'
      BY UseWarmKnows
    <2> QED
      BY <1>1, <2>1, <2>2, <2>3, <2>4, <2>5, <2>6 DEF Prepare
  <1>2. ASSUME NEW r \in Responses, DropWarm(r) PROVE KInv'
    BY <1>2, DropWarmKnows
  <1>3. ASSUME NEW r \in Responses, Send(r) PROVE KInv'
    BY <1>3, SendKnows
  <1>4. ASSUME NEW r \in Responses, Fails(r) PROVE KInv'
    BY <1>4, FailsKnows
  <1>5. ASSUME Crash PROVE KInv'
    BY <1>5, CrashKnows
  <1>6. ASSUME NEW p \in Responses, BatchGone(p) PROVE KInv'
    BY <1>6, UnchangedKnows DEF BatchGone
  <1>7. CASE UNCHANGED vars
    BY <1>7, UnchangedKnows DEF vars
  <1>8. ASSUME NEW r \in Responses, SaveWarm(r) PROVE KInv'
    BY <1>8, SaveWarmKnows
  <1>9. ASSUME NEW r \in Responses, NEW output \in {"text", "function", "custom"}, Generate(r, output) PROVE KInv'
    BY <1>9, GenerateKnows
  <1>10. ASSUME NEW r \in Responses, NEW id \in Responses, NEW fails \in BOOLEAN, ClearInputPending(r, id, fails) PROVE KInv'
    BY <1>10, ClearInputPendingKnows
  <1>11. ASSUME NEW p \in Responses, DeleteResponse(p) PROVE KInv'
    BY <1>11, DeleteResponseKnows
  <1>12. CASE Next
    BY <1>1, <1>2, <1>3, <1>4, <1>5, <1>6, <1>8, <1>9, <1>10, <1>11, <1>12 DEF Next
  <1> QED
    BY <1>7, <1>12

LEMMA AppendIs ==
  ASSUME NEW S, NEW s \in Seq(S), NEW x \in S, NEW n \in Nat, Len(s) = n
  PROVE  /\ DOMAIN Append(s, x) = 1 .. n + 1 /\ Append(s, x)[n + 1] = x
         /\ \A i \in 1 .. n : Append(s, x)[i] = s[i]
  OBVIOUS

\* The chain that a turn continued is the end of its line.
LEMMA ContinuedIs ==
  ASSUME IInv, SInv, NEW r \in Responses, rec[r].kind = "turn"
  PROVE  LET l == rec[r].line  n == Len(l) IN
         \E a \in Open(rec, l, n - 1) :
           DOMAIN Continued(r) = 1 .. n - a + 1 /\ \A i \in 1 .. n - a + 1 : Continued(r)[i] = l[a + i - 1]
  <1> DEFINE l == rec[r].line  n == Len(l)  before == Front(l)
  <1>1. /\ l \in Seq(Responses) /\ n \in Nat \ {0} /\ l[n] = r
        /\ \A i \in 1 .. n : l[i] \in Responses /\ rec[l[i]].kind # "none" /\ rec[l[i]].line = SubSeq(l, 1, i)
    BY LineThere
  <1> HIDE DEF l
  <1>2. CASE before # <<>> /\ Present(Last(before))
    <2> DEFINE q == l[n - 1]  k == SubSeq(l, 1, n - 1)  chain == Chain(q)
    <2>1. n > 1 /\ n - 1 \in 1 .. n /\ before = k
      <3>1. before = k
        BY DEF Front
      <3>2. n = 1 => k = <<>>
        BY <1>1
      <3> QED
        BY <3>1, <3>2, <1>1, <1>2
    <2>2. /\ k \in Seq(Responses) /\ Len(k) = n - 1 /\ \A i \in 1 .. n - 1 : k[i] = l[i]
      BY <1>1, <2>1
    <2>3. Last(before) = q
      BY <2>1, <2>2 DEF Last
    <2>4. q \in Responses /\ Present(q) /\ rec[q].line = k
      BY <1>1, <1>2, <2>1, <2>3
    <2>5. Continued(r) = Append(chain, r)
      BY <1>2, <2>3 DEF Continued, l
    <2> HIDE DEF q, k, chain, before
    <2>6. PICK m \in 1 .. Len(k) :
            /\ chain = SubSeq(k, m, Len(k)) /\ m \in Open(rec, k, Len(k)) /\ \A a \in Open(rec, k, Len(k)) : m <= a
            /\ Len(SubSeq(k, m, Len(k))) = Len(k) - m + 1
            /\ \A i \in 1 .. Len(k) - m + 1 : SubSeq(k, m, Len(k))[i] = k[m + i - 1]
            /\ \A i \in m .. Len(k) : Shown(rec, k[i])
      BY <2>4, ChainFromStart DEF chain
    <2>7. m \in Open(rec, l, n - 1)
      <3>1. m + ChainLimit > n - 1 /\ m \in 1 .. (n - 1) + 1
        BY <2>2, <2>6 DEF Open
      <3>2. \A j \in m .. n - 1 : Shown(rec, l[j])
        BY <1>1, <2>2, <2>6
      <3> QED
        BY <3>1, <3>2 DEF Open
    <2>8. chain \in Seq(Responses) /\ Len(chain) = n - m /\ \A i \in 1 .. n - m : chain[i] = l[m + i - 1]
      <3>1. chain \in [1 .. Len(chain) -> Responses] /\ Len(chain) \in Nat
        BY <2>4, ChainElements DEF chain
      <3>2. chain \in Seq(Responses)
        BY <3>1, IsSequence
      <3>3. Len(chain) = n - m
        BY <1>1, <2>2, <2>6
      <3>4. ASSUME NEW i \in 1 .. n - m PROVE chain[i] = l[m + i - 1]
        <4>1. i \in 1 .. Len(k) - m + 1
          BY <1>1, <2>2
        <4>2. chain[i] = k[m + i - 1]
          BY <4>1, <2>6
        <4>3. PICK j \in 1 .. n - 1 : j = m + i - 1
          BY <1>1, <2>2, <2>6
        <4> QED
          BY <4>2, <4>3, <2>2
      <3> QED
        BY <3>2, <3>3, <3>4
    <2>9. DOMAIN Append(chain, r) = 1 .. n - m + 1 /\ \A i \in 1 .. n - m + 1 : Append(chain, r)[i] = l[m + i - 1]
      <3> DEFINE w == n - m
      <3>1. w \in Nat /\ w = n - m /\ m + (w + 1) - 1 = n
        BY <1>1, <2>2, <2>6
      <3> HIDE DEF w
      <3>2. DOMAIN Append(chain, r) = 1 .. w + 1 /\ Append(chain, r)[w + 1] = r /\ \A i \in 1 .. w : Append(chain, r)[i] = chain[i]
        <4>1. chain \in Seq(Responses) /\ Len(chain) = w /\ w \in Nat
          BY <3>1, <2>8
        <4> QED
          BY <4>1, AppendIs
      <3>3. \A i \in 1 .. w + 1 : i = w + 1 \/ i \in 1 .. w
        BY <3>1
      <3>4. ASSUME NEW i \in 1 .. w + 1 PROVE Append(chain, r)[i] = l[m + i - 1]
        <4>1. CASE i = w + 1
          BY <4>1, <3>1, <3>2, <1>1
        <4>2. CASE i \in 1 .. w
          BY <4>2, <3>1, <3>2, <2>8
        <4> QED
          BY <4>1, <4>2, <3>3
      <3> QED
        BY <3>1, <3>2, <3>4
    <2> QED
      BY <2>5, <2>7, <2>9 DEF l
  <1>3. CASE ~(before # <<>> /\ Present(Last(before)))
    <2>1. Continued(r) = <<r>>
      BY <1>3 DEF Continued, l
    <2>2. n \in Open(rec, l, n - 1)
      BY <1>1, LimitAssumption DEF Open
    <2>3. n - n + 1 = 1 /\ DOMAIN <<r>> = 1 .. 1 /\ \A i \in 1 .. 1 : <<r>>[i] = l[n + i - 1]
      BY <1>1
    <2> QED
      BY <2>1, <2>2, <2>3 DEF l
  <1> QED
    BY <1>2, <1>3

\* Who knows its chain, from the first record that the chain could reach, told of
\* each of them, in order.
LEMMA ContextFollows ==
  ASSUME IInv, SInv, KInv
  PROVE  ContextComplete
  <1> SUFFICES ASSUME NEW r \in Responses, rec[r].kind = "turn"
               PROVE  LET chain == Continued(r) log == Log(rec[r].session) IN
                      /\ \A i \in DOMAIN chain : TellsRecord(log, chain[i])
                      /\ Within(Spoken(chain), log)
    BY DEF ContextComplete
  <1> DEFINE l == rec[r].line  n == Len(l)  chain == Continued(r)  s == rec[r].session  log == Log(s)
  <1>1. n \in Nat \ {0} /\ l \in Seq(Responses)
    BY LineThere
  <1>2. PICK a \in Open(rec, l, n - 1) :
          DOMAIN chain = 1 .. n - a + 1 /\ \A i \in 1 .. n - a + 1 : chain[i] = l[a + i - 1]
    BY ContinuedIs
  <1>3. KnowsPart(rec, log, l, a, n, <<>>)
    <2>1. RecordOf(rec, sdk, r)
      BY DEF KInv, RecordsKnown, Shown
    <2> QED
      BY <2>1, <1>2 DEF RecordOf, Log, LogOf
  <1>4. a \in 1 .. n
    BY <1>1, <1>2 DEF Open
  <1>5. log \in Seq(Entry)
    <2>1. s \in Responses
      BY DEF IInv, RecordsOK
    <2>2. sdk[s].base \in Seq(Entry) /\ sdk[s].sent \in Seq(Entry)
      BY <2>1 DEF IInv, SentOK, KInv, SessionsKnown
    <2> QED
      BY <2>2, ConcatProperties DEF Log
  <1>6. ASSUME NEW i \in DOMAIN chain PROVE TellsRecord(log, chain[i])
    <2>1. PICK j \in a .. n : j = a + i - 1
      BY <1>1, <1>2, <1>4
    <2>2. TellsOf(rec, log, l[j])
      BY <1>3 DEF KnowsPart
    <2>3. chain[i] = l[j]
      BY <2>1, <1>2
    <2> QED
      BY <2>2, <2>3, TellsOfRecord
  <1>7. Within(Spoken(chain), log)
    <2> DEFINE w == Said(rec, l, a, n)
    <2>1. Spoken(chain) = w
      <3>1. \A i \in 1 .. n - a + 1 :
              OwnInput(rec[chain[i]].input, chain[i]) \o Answer(chain[i]) = Says(rec, l[a + i - 1])
        BY <1>2 DEF Says, Answer
      <3>2. [i \in DOMAIN chain |-> OwnInput(rec[chain[i]].input, chain[i]) \o Answer(chain[i])]
            = [i \in 1 .. n - a + 1 |-> Says(rec, l[a + i - 1])]
        BY <3>1, <1>2
      <3> QED
        BY <3>2 DEF Spoken, Said
    <2>2. w \in Seq(Entry)
      <3>1. n \in 0 .. Len(l) /\ a \in 1 .. n + 1 /\ n \in a - 1 .. n
        BY <1>1, <1>4
      <3> HIDE DEF n
      <3> QED
        BY <3>1, <1>1, SaidSplit
    <2>3. Embeds(w \o <<>>, log)
      BY <1>3 DEF KnowsPart
    <2> HIDE DEF w, log
    <2>4. Embeds(w, log)
      BY <2>2, <2>3, ConcatEmptySeq
    <2>5. Within(w, log)
      BY <2>2, <2>4, <1>5, EmbedsIsWithin
    <2> QED
      BY <2>1, <2>5
  <1> QED
    BY <1>6, <1>7

\* What requests, warm sessions and records stand for is known, as long as the
\* walk for buffered input reaches all of it and warm sessions can be hydrated.
THEOREM Known ==
  ASSUME WarmHydrationFails = FALSE
  PROVE  Spec /\ []BufferedCollected => []KInv
  <1>1. IInv /\ SInv /\ KInv /\ BufferedCollected /\ [Next]_vars => KInv'
    BY KnowsNext
  <1> QED
    BY <1>1, KnowsInit, Invariant, Lines, PTL DEF Spec

\* As many records as the walk visits, at most, wait for a session in a row.
ShortRuns ==
  \A p \in Responses :
    Present(p) =>
      LET l == rec[p].line IN
      \A i \in DOMAIN l :
        (\A j \in i .. Len(l) : rec[l[j]].pending /\ rec[l[j]].session = rec[p].session) => i + ChainLimit > Len(l)

\* The limit is the only reason for which input that waits for a session is not
\* collected (pendingInputForSession): up to it, whatever was delivered, deleted
\* or moved to another session, none is left behind.
THEOREM CollectedUpToLimit == Spec => [](ShortRuns => BufferedCollected)
  <1>1. IInv /\ SInv => (ShortRuns => BufferedCollected)
    <2> SUFFICES ASSUME IInv, SInv, ShortRuns, NEW p \in Responses, Present(p), NEW i \in DOMAIN rec[p].line,
                        \A j \in i .. Len(rec[p].line) :
                          rec[rec[p].line[j]].pending /\ rec[rec[p].line[j]].session = rec[p].session
                 PROVE  rec[p].line[i] \in PendingIds(p)
      BY DEF BufferedCollected
    <2> DEFINE l == rec[p].line  n == Len(l)  T == PendingStarts(p)  run == PendingRun(p)
    <2>1. /\ l \in Seq(Responses) /\ n \in Nat \ {0} /\ \A j \in 1 .. n : l[j] \in Responses
      BY LineThere DEF Present
    <2>2. i \in 1 .. n
      BY <2>1, LenProperties
    <2>3. i + ChainLimit > n
      BY DEF ShortRuns
    <2>4. i \in T /\ T \in SUBSET Nat
      BY <2>1, <2>2, <2>3 DEF PendingStarts
    <2>5. \E m \in T : \A j \in T : m <= j
      BY <2>4, NatMinimum
    <2>6. PICK m \in T : run = SubSeq(l, m, n) /\ m <= i
      <3> DEFINE m == CHOOSE d \in T : \A j \in T : d <= j
      <3>1. m \in T /\ m <= i
        BY <2>4, <2>5
      <3>2. run = SubSeq(l, m, n)
        BY DEF PendingRun, From
      <3> QED
        BY <3>1, <3>2
    <2>7. m \in 1 .. n + 1
      BY <2>1, <2>6 DEF PendingStarts
    <2> HIDE DEF l, run
    <2>8. \A j \in m .. n : l[j] \in Responses
      BY <2>1, <2>7
    <2>9. /\ run \in Seq(Responses) /\ Len(run) = IF m <= n THEN n - m + 1 ELSE 0
          /\ \A j \in 1 .. n - m + 1 : run[j] = l[m + j - 1]
      BY <2>1, <2>6, <2>7, <2>8, SubSeqProperties
    <2>10. i - m + 1 \in 1 .. n - m + 1 /\ i - m + 1 \in 1 .. Len(run) /\ m + (i - m + 1) - 1 = i
      BY <2>1, <2>2, <2>6, <2>7, <2>9
    <2>11. run[i - m + 1] = l[i] /\ i - m + 1 \in DOMAIN run
      BY <2>9, <2>10, LenProperties
    <2> QED
      BY <2>11 DEF PendingIds, run, l
  <1> QED
    BY <1>1, Invariant, Lines, PTL

\* The model generates a saved turn knowing its chain (prepareResponseTurn,
\* WarmResponse): whichever way its session was come by, whatever was deleted,
\* lost, settled late or not at all, and however requests interleave, the log of
\* the session tells all of the records it continues, in the order they were
\* said. For any number of responses and any limit, if warm sessions can be
\* hydrated and no more inputs wait for a session in a row than the walk visits.
THEOREM TurnsKnowTheirChain ==
  ASSUME WarmHydrationFails = FALSE
  PROVE  Spec /\ []ShortRuns => []ContextComplete
  <1>1. IInv /\ SInv /\ KInv => ContextComplete
    BY ContextFollows
  <1> QED
    BY <1>1, Known, CollectedUpToLimit, Invariant, Lines, PTL
=============================================================================
