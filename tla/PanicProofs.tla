----------------------------- MODULE PanicProofs -------------------------------
(***************************************************************************)
(* What keeps the handlers of Converter from panicking, for every value of *)
(* the constants.                                                          *)
(***************************************************************************)
EXTENDS SyncProofs

(* A state of a source that no handler panics on: a dashboard, whose handler
   makes the annotation map before it copies into it, or a state that carries
   no annotations; and a notification channel says its type.               *)
HarmlessState(s, x) ==
    /\ KindOf[s] = "GrafanaDashboard" \/ x.annotations = {}
    /\ ~ ConversionPanics(s, x)

(* The sources as they are in the cluster: what their authors have to take care
   of.                                                                      *)
HarmlessSources ==
    \A s \in Sources : sources[s] # Absent => HarmlessState(s, sources[s])

(* What follows for stores, events and jobs. *)
HarmlessStores ==
    \A w \in Workers, s \in Sources :
        cache[w][s] # Absent => HarmlessState(s, cache[w][s])

HarmlessEvents ==
    \A w \in Workers : \A i \in DOMAIN queue[w] :
        HarmlessState(queue[w][i].source, queue[w][i].new)

HarmlessJobs ==
    \A w \in Workers : \A i \in DOMAIN hand[w].todo :
        hand[w].todo[i].guarded \/ hand[w].todo[i].annotations = {}

Harmless == HarmlessStores /\ HarmlessEvents /\ HarmlessJobs

LEMMA InitHarmless == Init => Harmless /\ NoPanic
<1>1. DOMAIN <<>> = {}
    OBVIOUS
<1> QED BY <1>1 DEF Init, Harmless, HarmlessStores, HarmlessEvents, HarmlessJobs,
                    NoPanic, Idle

-----------------------------------------------------------------------------
(* Nothing harmful is in hand, and nothing harmful waits. *)

LEMMA CallsDoNotPanic ==
    ASSUME TypeOK, Harmless, NEW w \in Workers
    PROVE  ~ GetPanics(w)
<1> SUFFICES ASSUME GetPanics(w) PROVE FALSE
    OBVIOUS
<1>1. hand[w].pc # "idle" /\ hand[w].todo # <<>>
    BY DEF GetPanics, GetsManaged, At, TypeOK, WellFormed
<1>2. CurrentJob(w) = hand[w].todo[1] /\ 1 \in DOMAIN hand[w].todo
    BY <1>1, TodoIndices
<1>3. CurrentJob(w).guarded \/ CurrentJob(w).annotations = {}
    BY <1>2 DEF Harmless, HarmlessJobs
<1> QED BY <1>3 DEF GetPanics, MergePanics

LEMMA HandlersDoNotPanic ==
    ASSUME TypeOK, Harmless, NEW w \in Workers
    PROVE  ~ HandlePanic(w)
<1> SUFFICES ASSUME HandlePanic(w) PROVE FALSE
    OBVIOUS
<1>1. queue[w] \in Seq(Event) /\ queue[w] # <<>>
    BY DEF HandlePanic, CanTake, TypeOK
<1>2. Head(queue[w]) = queue[w][1] /\ 1 \in DOMAIN queue[w]
    BY <1>1, TailIndices
<1>3. HarmlessState(Head(queue[w]).source, Head(queue[w]).new)
    BY <1>2 DEF Harmless, HarmlessEvents
<1> QED BY <1>3 DEF HandlePanic, HarmlessState

-----------------------------------------------------------------------------
(* Stores, events and jobs stay harmless while the sources are. *)

(* A step that brings in no state of a source, and no job. *)
LEMMA NothingNew ==
    ASSUME Harmless,
           \A w \in Workers, s \in Sources :
             cache'[w][s] = Absent \/ cache'[w][s] = cache[w][s],
           \A w \in Workers : \A i \in DOMAIN queue'[w] :
             \E j \in DOMAIN queue[w] : queue'[w][i] = queue[w][j],
           \A w \in Workers : \A i \in DOMAIN hand'[w].todo :
             \E j \in DOMAIN hand[w].todo : hand'[w].todo[i] = hand[w].todo[j]
    PROVE  Harmless'
<1>1. HarmlessStores'
    BY DEF Harmless, HarmlessStores, HarmlessState, ConversionPanics
<1>2. HarmlessEvents'
    BY DEF Harmless, HarmlessEvents, HarmlessState, ConversionPanics
<1>3. HarmlessJobs'
    BY DEF Harmless, HarmlessJobs
<1> QED BY <1>1, <1>2, <1>3 DEF Harmless

LEMMA EnqueueHarmless ==
    ASSUME TypeOK, HarmlessEvents, NEW w \in Workers, NEW s \in Sources,
           NEW old \in Source \cup {Absent}, NEW new \in Source,
           Enqueue(w, s, old, new), HarmlessState(s, new)
    PROVE  HarmlessEvents'
<1>1. PICK n \in Nat :
        /\ DOMAIN queue[w] = 1 .. n
        /\ DOMAIN queue'[w] = 1 .. n + 1
        /\ queue'[w][n + 1] = [source |-> s, old |-> old, new |-> new]
        /\ \A i \in 1 .. n : queue'[w][i] = queue[w][i]
    BY EnqueueIndices
<1>2. \A v \in Workers : v # w => queue'[v] = queue[v]
    BY EnqueueIndices
<1> SUFFICES ASSUME NEW v \in Workers, NEW i \in DOMAIN queue'[v]
             PROVE  HarmlessState(queue'[v][i].source, queue'[v][i].new)
    BY DEF HarmlessEvents, HarmlessState, ConversionPanics
<1>3. CASE v # w
    BY <1>2, <1>3 DEF HarmlessEvents
<1>4. CASE v = w /\ i = n + 1
    BY <1>1, <1>4
<1>5. CASE v = w /\ i # n + 1
  <2>1. i \in DOMAIN queue[w] /\ queue'[w][i] = queue[w][i]
      BY <1>1, <1>5
  <2> QED BY <1>5, <2>1 DEF HarmlessEvents
<1> QED BY <1>3, <1>4, <1>5

LEMMA InformersKeepHarmless ==
    ASSUME TypeOK, HarmlessSources, Harmless, NEW w \in Workers, NEW s \in Sources,
           Observe(w, s) \/ Resync(w, s)
    PROVE  Harmless'
<1>1. cache[w][s] \in Source \cup {Absent} /\ sources[s] \in Source \cup {Absent}
    BY DEF TypeOK
<1>2. hand' = hand /\ HarmlessJobs'
    BY DEF Observe, Resync, Harmless, HarmlessJobs
<1>3. CASE Observe(w, s)
  <2>1. \A v \in Workers, r \in Sources :
          cache'[v][r] = IF v = w /\ r = s THEN sources[s] ELSE cache[v][r]
      BY <1>3 DEF Observe, TypeOK
  <2>2. HarmlessStores'
      BY <2>1 DEF Harmless, HarmlessStores, HarmlessSources, HarmlessState,
                  ConversionPanics
  <2>3. CASE sources[s] = Absent
      BY <1>2, <1>3, <2>2, <2>3
         DEF Observe, Harmless, HarmlessEvents, HarmlessState, ConversionPanics
  <2>4. CASE sources[s] # Absent
    <3>1. Enqueue(w, s, cache[w][s], sources[s]) /\ HarmlessState(s, sources[s])
        BY <1>3, <2>4 DEF Observe, HarmlessSources
    <3> QED BY <1>1, <1>2, <2>2, <2>4, <3>1, EnqueueHarmless DEF Harmless
  <2> QED BY <2>3, <2>4
<1>4. CASE Resync(w, s)
  <2>1. /\ cache[w][s] # Absent /\ cache' = cache
        /\ Enqueue(w, s, cache[w][s], cache[w][s])
      BY <1>4 DEF Resync
  <2>2. HarmlessState(s, cache[w][s])
      BY <2>1 DEF Harmless, HarmlessStores
  <2>3. HarmlessStores'
      BY <2>1 DEF Harmless, HarmlessStores, HarmlessState, ConversionPanics
  <2> QED BY <1>1, <1>2, <2>1, <2>2, <2>3, EnqueueHarmless DEF Harmless
<1> QED BY <1>3, <1>4

LEMMA HandlersKeepHarmless ==
    ASSUME TypeOK, Pipelines, Harmless, NEW w \in Workers,
           HandleIgnored(w) \/ HandleConverted(w)
    PROVE  Harmless' /\ status' = status
<1> DEFINE event == Head(queue[w])
           jobs == Convert(event.source, event.new, conf[w[1]])
<1>1. CanTake(w) /\ Take(w) /\ UNCHANGED <<status, cache>>
    BY ConvertedHand DEF HandleIgnored
<1>2. \A v \in Workers : \A i \in DOMAIN queue'[v] :
          \E j \in DOMAIN queue[v] : queue'[v][i] = queue[v][j]
    BY <1>1, TakeIndices
<1>3. CASE HandleIgnored(w)
  <2>1. hand' = hand
      BY <1>3 DEF HandleIgnored
  <2> QED BY <1>1, <1>2, <2>1, NothingNew
<1>4. CASE HandleConverted(w)
  <2>1. hand'[w].todo = jobs /\ \A v \in Workers : v # w => hand'[v] = hand[v]
      BY <1>4, ConvertedHand
  <2>2. Head(queue[w]) = queue[w][1] /\ 1 \in DOMAIN queue[w]
      BY <1>1, TakeIndices
  <2>3. HarmlessState(event.source, event.new)
      BY <2>2 DEF Harmless, HarmlessEvents
  <2>4. \A i \in DOMAIN jobs : jobs[i].guarded \/ jobs[i].annotations = {}
      BY <2>3 DEF Convert, HarmlessState
  <2> HIDE DEF jobs
  <2>5. HarmlessJobs'
      BY <2>1, <2>4 DEF Harmless, HarmlessJobs
  <2>6. HarmlessStores' /\ HarmlessEvents'
      BY <1>1, <1>2 DEF Harmless, HarmlessStores, HarmlessEvents, HarmlessState,
                        ConversionPanics
  <2> QED BY <1>1, <2>5, <2>6 DEF Harmless
<1> QED BY <1>3, <1>4

LEMMA StepKeepsHarmless ==
    ASSUME TypeOK, Pipelines, HarmlessSources, Harmless, NoPanic, [Next]_vars
    PROVE  Harmless' /\ NoPanic'
<1>1. ASSUME UNCHANGED <<status, cache, queue, hand>> PROVE Harmless' /\ NoPanic'
    BY <1>1, NothingNew DEF NoPanic
<1>2. ASSUME NEW p \in Procs, Start(p) PROVE Harmless' /\ NoPanic'
    BY <1>2, NothingNew DEF Start, TypeOK, NoPanic, pipeline
<1>3. ASSUME NEW p \in Procs, Stop(p) PROVE Harmless' /\ NoPanic'
  <2>1. DOMAIN Idle.todo = {} /\ DOMAIN <<>> = {}
      BY DEF Idle
  <2>2. \A w \in Workers :
          /\ hand'[w] = hand[w] \/ hand'[w] = Idle
          /\ queue'[w] = queue[w] \/ queue'[w] = <<>>
          /\ \A s \in Sources : cache'[w][s] = cache[w][s] \/ cache'[w][s] = Absent
      BY <1>3 DEF Stop, EndWith
  <2>3. NoPanic'
      BY <1>3 DEF Stop, EndWith, TypeOK, NoPanic
  <2> QED BY <2>1, <2>2, <2>3, NothingNew
<1>4. ASSUME NEW w \in Workers, NEW s \in Sources, Observe(w, s) \/ Resync(w, s)
      PROVE  Harmless' /\ NoPanic'
    BY <1>4, InformersKeepHarmless DEF Observe, Resync, NoPanic
<1>5. ASSUME NEW w \in Workers, Handle(w) PROVE Harmless' /\ NoPanic'
    BY <1>5, HandlersDoNotPanic, HandlersKeepHarmless DEF Handle, NoPanic
<1>6. ASSUME NEW w \in Workers, Call(w) \/ CallFails(w) PROVE Harmless' /\ NoPanic'
  <2>1. /\ hand[w].pc # "idle" /\ UNCHANGED <<status, cache, queue>>
        /\ \A v \in Workers : v # w => hand'[v] = hand[v]
        /\ Finish(w) \/ hand'[w].todo = hand[w].todo
      BY <1>6, CallsDoNotPanic, CallShape
  <2>2. ASSUME NEW i \in DOMAIN hand'[w].todo
        PROVE  \E j \in DOMAIN hand[w].todo : hand'[w].todo[i] = hand[w].todo[j]
      BY <2>1, FinishIndices
  <2>3. \A v \in Workers : \A i \in DOMAIN hand'[v].todo :
           \E j \in DOMAIN hand[v].todo : hand'[v].todo[i] = hand[v].todo[j]
      BY <2>1, <2>2
  <2> QED BY <2>1, <2>3, NothingNew DEF NoPanic
<1> QED BY <1>1, <1>2, <1>3, <1>4, <1>5, <1>6
        DEF Next, Environment, EditSource, ForeignWrite, ForeignDelete, vars, pipeline

-----------------------------------------------------------------------------
(* As long as the sources are harmless no handler panics, whatever the copies,
   the other writers and the other processes do.  Neither half of the
   condition can be dropped: runs folder_panic and channel_panic.          *)
THEOREM HarmlessSourcesNoPanic == Spec /\ []HarmlessSources => []NoPanic
<1> DEFINE Inv == TypeOK /\ Pipelines /\ Harmless /\ NoPanic
<1>1. Init => Inv
    BY InitType, InitPipelines, InitHarmless
<1>2. Inv /\ HarmlessSources /\ [Next]_vars => Inv'
    BY StepType, StepKeepsPipelines, StepKeepsHarmless
<1>3. Inv => NoPanic
    OBVIOUS
<1> QED BY <1>1, <1>2, <1>3, PTL DEF Spec

(* A converter that has only dashboards to convert never panics. *)
THEOREM DashboardsDoNotPanic ==
    ASSUME \A s \in Sources : KindOf[s] = "GrafanaDashboard"
    PROVE  Spec => []NoPanic
<1>1. HarmlessSources
    BY DEF HarmlessSources, HarmlessState, ConversionPanics
<1> QED BY <1>1, HarmlessSourcesNoPanic, PTL
=============================================================================
