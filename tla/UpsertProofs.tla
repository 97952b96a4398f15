---------------------------- MODULE UpsertProofs ------------------------------
(***************************************************************************)
(* Converter implements Upsert, for every value of the constants.          *)
(***************************************************************************)
EXTENDS ConverterProofs

-----------------------------------------------------------------------------
(* A process that does not run knows nothing; so a new configuration cannot
   change the jobs that are due.                                            *)
Forgotten ==
    \A w \in Workers : ~ Running(w) =>
        /\ cache[w] = [s \in Sources |-> Absent]
        /\ queue[w] = <<>>
        /\ hand[w].todo = <<>>

LEMMA InitForgotten == Init => Forgotten
BY DEF Init, Forgotten, Idle

LEMMA EndWithForgets ==
    ASSUME TypeOK, Forgotten, NEW p \in Procs, NEW ending \in {"down", "panicked"},
           EndWith(p, ending)
    PROVE  Forgotten'
BY DEF TypeOK, Forgotten, EndWith, Running, Idle, Workers

(* Steps of a running worker leave the others alone. *)
LEMMA OwnStepForgets ==
    ASSUME TypeOK, Forgotten, NEW w \in Workers, Running(w),
           status' = status,
           \A v \in Workers : v # w => /\ cache'[v] = cache[v]
                                       /\ queue'[v] = queue[v]
                                       /\ hand'[v] = hand[v]
    PROVE  Forgotten'
BY DEF TypeOK, Forgotten, Running, Workers

LEMMA StepForgets == TypeOK /\ Forgotten /\ [Next]_vars => Forgotten'
<1> SUFFICES ASSUME TypeOK, Forgotten, [Next]_vars PROVE Forgotten'
    OBVIOUS
<1>1. CASE UNCHANGED vars
    BY <1>1 DEF vars, Forgotten, Running
<1>2. ASSUME NEW p \in Procs, Start(p) PROVE Forgotten'
    BY <1>2 DEF Start, Forgotten, Running, TypeOK, pipeline, Workers
<1>3. ASSUME NEW w \in Workers, NEW s \in Sources, Observe(w, s) \/ Resync(w, s)
      PROVE  Forgotten'
  <2>1. Running(w) /\ status' = status /\ hand' = hand
      BY <1>3 DEF Observe, Resync
  <2>2. \A v \in Workers : v # w => cache'[v] = cache[v] /\ queue'[v] = queue[v]
      BY <1>3 DEF Observe, Resync, Enqueue, TypeOK
  <2> QED BY <2>1, <2>2, OwnStepForgets
<1>4. ASSUME NEW w \in Workers, Panic(w) PROVE Forgotten'
    BY <1>4, EndWithForgets DEF Panic, Workers
<1>5. ASSUME NEW w \in Workers, HandleIgnored(w) \/ HandleConverted(w)
      PROVE  Forgotten'
  <2>1. Running(w) /\ status' = status /\ cache' = cache
      BY <1>5 DEF HandleIgnored, HandleConverted, CanTake
  <2>2. \A v \in Workers : v # w => hand'[v] = hand[v] /\ queue'[v] = queue[v]
      BY <1>5 DEF HandleIgnored, HandleConverted, Take, TypeOK
  <2> QED BY <2>1, <2>2, OwnStepForgets
<1>6. ASSUME NEW w \in Workers, Call(w) \/ CallFails(w), ~ GetPanics(w)
      PROVE  Forgotten'
  <2>1. Running(w) /\ status' = status /\ cache' = cache /\ queue' = queue
      BY <1>6 DEF Call, CallFails, Create, Recreate, GetNotFound, GetForeign,
                  GetEqual, GetDiffers, GetsManaged, Update, UpdateConflict,
                  UpdateInvalid, At, Done, Lose, Rest, pipeline
  <2>2. \A v \in Workers : v # w => hand'[v] = hand[v]
      BY <1>6 DEF Call, CallFails, Create, Recreate, GetNotFound, GetForeign,
                  GetEqual, GetDiffers, GetsManaged, Update, UpdateConflict,
                  UpdateInvalid, At, Done, Lose, Goto, Finish, TypeOK
  <2> QED BY <2>1, <2>2, OwnStepForgets
<1>7. ASSUME NEW s \in Sources, EditSource(s) PROVE Forgotten'
    BY <1>7 DEF EditSource, Forgotten, Running, pipeline
<1>8. ASSUME NEW t \in Targets, ForeignWrite(t) \/ ForeignDelete(t) PROVE Forgotten'
    BY <1>8 DEF ForeignWrite, ForeignDelete, Forgotten, Running, pipeline
<1>9. ASSUME NEW p \in Procs, Stop(p) PROVE Forgotten'
    BY <1>9, EndWithForgets DEF Stop
<1> QED BY <1>1, <1>2, <1>3, <1>4, <1>5, <1>6, <1>7, <1>8, <1>9
        DEF Next, Environment, Handle, Call, HandlePanic, GetPanics

-----------------------------------------------------------------------------
(* The jobs that are due. *)

(* A worker whose knowledge does not grow, and whose jobs in hand were due,
   adds no job.                                                             *)
LEMMA FewerJobs ==
    ASSUME NEW w \in Workers,
           Known(w)' \subseteq Known(w),
           conf'[w[1]] = conf[w[1]],
           Elements(hand'[w].todo) \subseteq JobsAt(w)
    PROVE  JobsAt(w)' \subseteq JobsAt(w)
BY DEF JobsAt

LEMMA FewerDue ==
    ASSUME \A w \in Workers : JobsAt(w)' \subseteq JobsAt(w)
    PROVE  Due' \subseteq Due
BY DEF Due

LEMMA TodoIsDue ==
    ASSUME NEW w \in Workers
    PROVE  Elements(hand[w].todo) \subseteq JobsAt(w)
BY DEF JobsAt

LEMMA TailElements ==
    ASSUME NEW S, NEW seq \in Seq(S), seq # <<>>
    PROVE  Elements(Tail(seq)) \subseteq Elements(seq)
<1> SUFFICES ASSUME NEW i \in DOMAIN Tail(seq)
             PROVE  Tail(seq)[i] \in Elements(seq)
    BY DEF Elements
<1>1. /\ Len(seq) \in Nat
      /\ Len(Tail(seq)) = Len(seq) - 1
      /\ Tail(seq) \in Seq(S)
      /\ \A j \in 1 .. Len(Tail(seq)) : Tail(seq)[j] = seq[j + 1]
    BY HeadTailProperties, LenProperties
<1>2. i \in 1 .. Len(Tail(seq))
    BY <1>1, LenProperties
<1>3. i + 1 \in DOMAIN seq /\ Tail(seq)[i] = seq[i + 1]
    BY <1>1, <1>2, LenProperties
<1> QED BY <1>3 DEF Elements

LEMMA AppendElements ==
    ASSUME NEW S, NEW seq \in Seq(S), NEW e \in S
    PROVE  Elements(Append(seq, e)) = Elements(seq) \cup {e}
<1>1. /\ Len(seq) \in Nat
      /\ DOMAIN seq = 1 .. Len(seq)
      /\ DOMAIN Append(seq, e) = 1 .. (Len(seq) + 1)
      /\ Append(seq, e)[Len(seq) + 1] = e
      /\ \A i \in 1 .. Len(seq) : Append(seq, e)[i] = seq[i]
    BY AppendProperties, LenProperties
<1>2. 1 .. (Len(seq) + 1) = (1 .. Len(seq)) \cup {Len(seq) + 1}
    BY <1>1
<1> QED BY <1>1, <1>2 DEF Elements

LEMMA FinishShrinks ==
    ASSUME TypeOK, NEW w \in Workers, hand[w].pc # "idle", Finish(w)
    PROVE  \A v \in Workers : Elements(hand'[v].todo) \subseteq Elements(hand[v].todo)
<1>1. hand[w].todo \in Seq(Job) /\ hand[w].todo # <<>>
    BY DEF TypeOK, WellFormed, Hand
<1>2. Elements(Tail(hand[w].todo)) \subseteq Elements(hand[w].todo)
    BY <1>1, TailElements
<1>3. Elements(NextJob(hand[w]).todo) \subseteq Elements(Tail(hand[w].todo))
    BY DEF NextJob, Begin, Idle, Elements
<1> QED BY <1>2, <1>3 DEF Finish, TypeOK

(* Steps that change a hand only. *)
LEMMA HandStepDue ==
    ASSUME UNCHANGED <<cache, queue, conf>>,
           \A v \in Workers : Elements(hand'[v].todo) \subseteq Elements(hand[v].todo)
    PROVE  Due' \subseteq Due
<1> SUFFICES ASSUME NEW v \in Workers PROVE JobsAt(v)' \subseteq JobsAt(v)
    BY FewerDue
<1>1. Known(v)' = Known(v)
    BY DEF Known
<1> QED BY <1>1, FewerJobs, TodoIsDue

LEMMA EndWithDue ==
    ASSUME TypeOK, NEW p \in Procs, NEW ending, EndWith(p, ending)
    PROVE  Due' \subseteq Due
<1> SUFFICES ASSUME NEW w \in Workers PROVE JobsAt(w)' \subseteq JobsAt(w)
    BY FewerDue
<1>1. conf' = conf
    BY DEF EndWith
<1>2. CASE w[1] = p
  <2>1. cache'[w] = [s \in Sources |-> Absent] /\ queue'[w] = <<>> /\ hand'[w] = Idle
      BY <1>2 DEF EndWith
  <2>2. Elements(<<>>) = {}
      BY DEF Elements
  <2>3. Known(w)' = {}
      BY <2>1, <2>2 DEF Known, Elements
  <2>4. Elements(hand'[w].todo) = {}
      BY <2>1, <2>2 DEF Idle
  <2> QED BY <1>1, <2>3, <2>4, FewerJobs
<1>3. CASE w[1] # p
  <2>1. cache'[w] = cache[w] /\ queue'[w] = queue[w] /\ hand'[w] = hand[w]
      BY <1>3 DEF EndWith
  <2> QED BY <1>1, <2>1, FewerJobs, TodoIsDue DEF Known, Elements
<1> QED BY <1>2, <1>3

LEMMA StartDue ==
    ASSUME TypeOK, Forgotten, NEW p \in Procs, Start(p)
    PROVE  Due' \subseteq Due
<1> SUFFICES ASSUME NEW w \in Workers PROVE JobsAt(w)' \subseteq JobsAt(w)
    BY FewerDue
<1>1. cache' = cache /\ queue' = queue /\ hand' = hand
    BY DEF Start, pipeline
<1>2. CASE w[1] = p
  <2>1. ~ Running(w)
      BY <1>2 DEF Start, Running
  <2>2. cache[w] = [s \in Sources |-> Absent] /\ queue[w] = <<>>
      BY <2>1 DEF Forgotten
  <2>3. Known(w)' = {}
      BY <1>1, <2>2 DEF Known, Elements
  <2> QED BY <1>1, <2>3 DEF JobsAt, Elements
<1>3. CASE w[1] # p
  <2>1. conf'[w[1]] = conf[w[1]]
      BY <1>3 DEF Start, TypeOK, Workers
  <2> QED BY <1>1, <2>1, FewerJobs, TodoIsDue DEF Known, Elements
<1> QED BY <1>2, <1>3

(* A handler that takes an event: its conversion was due already. *)
LEMMA HandleDue ==
    ASSUME TypeOK, NEW w \in Workers, Handle(w)
    PROVE  Due' \subseteq Due
<1>1. CASE HandlePanic(w)
  <2>1. w[1] \in Procs
      BY DEF Workers
  <2> QED BY <1>1, <2>1, EndWithDue DEF HandlePanic, Panic
<1>2. CASE HandleIgnored(w) \/ HandleConverted(w)
  <2> SUFFICES ASSUME NEW v \in Workers PROVE JobsAt(v)' \subseteq JobsAt(v)
      BY FewerDue
  <2>1. CanTake(w) /\ Take(w) /\ cache' = cache /\ conf' = conf
      BY <1>2 DEF HandleIgnored, HandleConverted
  <2>2. queue[w] \in Seq(Event) /\ queue[w] # <<>>
      BY <2>1 DEF TypeOK, CanTake
  <2>3. Elements(Tail(queue[w])) \subseteq Elements(queue[w])
      BY <2>2, TailElements
  <2>4. Elements(queue'[v]) \subseteq Elements(queue[v])
      BY <2>1, <2>3 DEF Take, TypeOK
  <2>5. Known(v)' \subseteq Known(v)
      BY <2>1, <2>4 DEF Known, Elements
  <2>6. Elements(hand'[v].todo) \subseteq JobsAt(v)
    <3>1. CASE hand'[v] = hand[v]
        BY <3>1, TodoIsDue
    <3>2. CASE HandleConverted(w) /\ v = w
      <4> DEFINE event == Head(queue[w])
                 jobs == Convert(event.source, event.new, conf[w[1]])
                 first == IF event.old = Absent THEN "create" ELSE "get"
      <4>1. event \in Elements(queue[w])
          BY <2>2, HeadTailProperties, LenProperties DEF Elements
      <4>2. [source |-> event.source, new |-> event.new] \in Known(w)
          BY <4>1 DEF Known
      <4>3. Elements(jobs) \subseteq JobsAt(w)
          BY <4>2 DEF JobsAt
      <4>4. hand'[w] = Begin(jobs, first)
          BY <3>2 DEF HandleConverted, TypeOK
      <4> HIDE DEF jobs, first
      <4>5. Elements(hand'[w].todo) \subseteq Elements(jobs)
          BY <4>4 DEF Begin, Idle, Elements
      <4> QED BY <3>2, <4>3, <4>5
    <3> QED BY <1>2, <3>1, <3>2 DEF HandleIgnored, HandleConverted, TypeOK
  <2> QED BY <2>1, <2>5, <2>6, FewerJobs
<1> QED BY <1>1, <1>2 DEF Handle

(* A remote call, whatever its answer. *)
LEMMA CallDue ==
    ASSUME TypeOK, NEW w \in Workers, Call(w) \/ CallFails(w)
    PROVE  Due' \subseteq Due
<1>1. CASE GetPanics(w)
  <2>1. w[1] \in Procs
      BY DEF Workers
  <2> QED BY <1>1, <2>1, EndWithDue DEF GetPanics, Panic
<1>2. CASE ~ GetPanics(w)
  <2>1. hand[w].pc # "idle" /\ UNCHANGED <<cache, queue, conf>>
      BY <1>2 DEF Call, CallFails, Create, Recreate, GetNotFound, GetForeign,
                  GetEqual, GetDiffers, GetsManaged, Update, UpdateConflict,
                  UpdateInvalid, At, Done, Lose, Rest, pipeline
  <2>2. \/ Finish(w)
        \/ \E pc \in {"get", "recreate"} : Goto(w, pc)
        \/ GetDiffers(w)
      BY <1>2 DEF Call, CallFails, Create, Recreate, GetNotFound, GetForeign,
                  GetEqual, Update, UpdateConflict, UpdateInvalid, Done, Lose
  <2>3. \A v \in Workers : Elements(hand'[v].todo) \subseteq Elements(hand[v].todo)
    <3>1. CASE Finish(w)
        BY <2>1, <3>1, FinishShrinks
    <3>2. CASE \E pc \in {"get", "recreate"} : Goto(w, pc)
        BY <3>2 DEF Goto, TypeOK, Hand
    <3>3. CASE GetDiffers(w)
        BY <3>3 DEF GetDiffers, TypeOK, Hand
    <3> QED BY <2>2, <3>1, <3>2, <3>3
  <2> QED BY <2>1, <2>3, HandStepDue
<1> QED BY <1>1, <1>2

(* An informer's step: what it observes is the present state of a source; a
   resync tells nothing new.                                                *)
LEMMA ResyncDue ==
    ASSUME TypeOK, NEW w \in Workers, NEW s \in Sources, Resync(w, s)
    PROVE  Due' \subseteq Due
<1> DEFINE event == [source |-> s, old |-> cache[w][s], new |-> cache[w][s]]
<1> SUFFICES ASSUME NEW v \in Workers PROVE JobsAt(v)' \subseteq JobsAt(v)
    BY FewerDue
<1>1. /\ UNCHANGED <<cache, conf, hand>>
      /\ cache[w][s] \in Source /\ cache[w][s] # Absent
      /\ queue' = [queue EXCEPT ![w] = Append(@, event)]
    BY DEF Resync, Enqueue, TypeOK
<1>2. event \in Event /\ queue[w] \in Seq(Event)
    BY <1>1 DEF Event, TypeOK
<1>3. Elements(Append(queue[w], event)) = Elements(queue[w]) \cup {event}
    BY <1>2, AppendElements
<1>4. [source |-> event.source, new |-> event.new] \in Known(w)
    BY <1>1 DEF Known
<1> HIDE DEF event
<1>5. Known(v)' \subseteq Known(v)
  <2>1. CASE v = w
    <3>1. queue'[w] = Append(queue[w], event)
        BY <1>1 DEF TypeOK
    <3>2. Elements(queue'[w]) = Elements(queue[w]) \cup {event}
        BY <1>3, <3>1
    <3>3. {[source |-> e.source, new |-> e.new] : e \in Elements(queue'[w])}
            \subseteq Known(w)
        BY <1>4, <3>2 DEF Known
    <3>4. Elements(queue[w])' = Elements(queue'[w])
        BY DEF Elements
    <3> QED BY <1>1, <2>1, <3>3, <3>4 DEF Known
  <2>2. CASE v # w
      BY <1>1, <2>2 DEF Known, TypeOK, Elements
  <2> QED BY <2>1, <2>2
<1> QED BY <1>1, <1>5, FewerJobs, TodoIsDue

LEMMA ObserveDue ==
    ASSUME TypeOK, NEW w \in Workers, NEW s \in Sources, Observe(w, s)
    PROVE  \/ Due' \subseteq Due
           \/ /\ sources[s] # Absent
              /\ Due' \subseteq Due \cup
                     Elements(Convert(s, sources[s], conf[w[1]]))
<1> DEFINE new == [source |-> s, new |-> sources[s]]
           event == [source |-> s, old |-> cache[w][s], new |-> sources[s]]
           learnt == IF sources[s] = Absent THEN {}
                     ELSE Elements(Convert(s, sources[s], conf[w[1]]))
<1>1. /\ UNCHANGED <<conf, hand>>
      /\ cache' = [cache EXCEPT ![w][s] = sources[s]]
      /\ IF sources[s] = Absent THEN queue' = queue
         ELSE queue' = [queue EXCEPT ![w] = Append(@, event)]
    BY DEF Observe, Enqueue
<1>2. \A v \in Workers : v # w => cache'[v] = cache[v] /\ queue'[v] = queue[v]
    BY <1>1 DEF TypeOK
<1>3. ASSUME NEW v \in Workers, v # w PROVE JobsAt(v)' \subseteq JobsAt(v)
    BY <1>1, <1>2, <1>3, FewerJobs, TodoIsDue DEF Known, Elements
<1>4. Elements(queue'[w]) \subseteq
        Elements(queue[w]) \cup (IF sources[s] = Absent THEN {} ELSE {event})
  <2>1. CASE sources[s] = Absent
      BY <1>1, <2>1
  <2>2. CASE sources[s] # Absent
    <3>1. event \in Event /\ queue[w] \in Seq(Event)
        BY <2>2 DEF Event, TypeOK
    <3>2. queue'[w] = Append(queue[w], event)
        BY <1>1, <2>2 DEF TypeOK
    <3> HIDE DEF event
    <3> QED BY <2>2, <3>1, <3>2, AppendElements
  <2> QED BY <2>1, <2>2
<1>5. \A u \in Sources : cache'[w][u] = IF u = s THEN sources[s] ELSE cache[w][u]
    BY <1>1 DEF TypeOK
<1>6. Known(w)' \subseteq Known(w) \cup (IF sources[s] = Absent THEN {} ELSE {new})
  <2>1. ASSUME NEW u \in Sources, cache'[w][u] # Absent
        PROVE  [source |-> u, new |-> cache'[w][u]] \in
                 Known(w) \cup (IF sources[s] = Absent THEN {} ELSE {new})
      BY <1>5, <2>1 DEF Known
  <2>2. ASSUME NEW e \in Elements(queue'[w])
        PROVE  [source |-> e.source, new |-> e.new] \in
                 Known(w) \cup (IF sources[s] = Absent THEN {} ELSE {new})
      BY <1>4, <2>2 DEF Known
  <2>3. Elements(queue[w])' = Elements(queue'[w])
      BY DEF Elements
  <2> QED BY <2>1, <2>2, <2>3 DEF Known
<1>7. JobsAt(w)' \subseteq JobsAt(w) \cup learnt
  <2>1. \A k \in Known(w)' :
          Elements(Convert(k.source, k.new, conf[w[1]])) \subseteq JobsAt(w) \cup learnt
      BY <1>6 DEF JobsAt
  <2>2. Elements(hand'[w].todo) \subseteq JobsAt(w)
      BY <1>1, TodoIsDue
  <2>3. conf' = conf
      BY <1>1
  <2>4. JobsAt(w)' =
          (UNION {Elements(Convert(k.source, k.new, conf[w[1]])) : k \in Known(w)'})
          \cup Elements(hand'[w].todo)
      BY <2>3 DEF JobsAt, Elements, Convert, CopyName
  <2> HIDE DEF learnt
  <2> QED BY <2>1, <2>2, <2>4
<1>8. Due' \subseteq Due \cup learnt
    BY <1>3, <1>7 DEF Due
<1>9. CASE sources[s] = Absent
    BY <1>8, <1>9
<1>10. CASE sources[s] # Absent
    BY <1>8, <1>10
<1> QED BY <1>9, <1>10

-----------------------------------------------------------------------------
(* An update on its way changes the spec of what was read. *)

UpdatesDiffer ==
    \A w \in Workers :
        hand[w].pc = "update" => ~ SameSpec(hand[w].got, CurrentJob(w))

LEMMA InitDiffers == Init => UpdatesDiffer
BY DEF Init, Idle, UpdatesDiffer

LEMMA StepCalm ==
    ASSUME TypeOK, [Next]_vars
    PROVE  NoneBeginsUpdate \/ \E w \in Workers : GetDiffers(w)
<1>1. CASE UNCHANGED vars
    BY <1>1 DEF vars, NoneBeginsUpdate
<1>2. CASE \E p \in Procs : Start(p)
    BY <1>2 DEF Start, NoneBeginsUpdate
<1>3. ASSUME NEW w \in Workers, NEW s \in Sources, Observe(w, s) \/ Resync(w, s)
      PROVE  NoneBeginsUpdate
    BY <1>3 DEF Observe, Resync, NoneBeginsUpdate
<1>4. ASSUME NEW w \in Workers, Call(w), ~ GetDiffers(w) PROVE NoneBeginsUpdate
    BY <1>4, FinishCalm, GotoCalm, PanicCalm
       DEF Call, Create, Recreate, GetNotFound, GetForeign, GetEqual, GetPanics,
           GetsManaged, Update, UpdateConflict, UpdateInvalid, At, Lose, Done
<1>5. ASSUME NEW w \in Workers, Handle(w) PROVE NoneBeginsUpdate
    BY <1>5, HandleCalm
<1>6. CASE \E s \in Sources : EditSource(s)
    BY <1>6 DEF EditSource, NoneBeginsUpdate
<1>7. CASE \E t \in Targets : ForeignWrite(t) \/ ForeignDelete(t)
    BY <1>7 DEF ForeignWrite, ForeignDelete, NoneBeginsUpdate
<1>8. CASE \E p \in Procs : Stop(p)
    BY <1>8, EndWithCalm DEF Stop
<1>9. CASE \E w \in Workers : CallFails(w)
    BY <1>9, FinishCalm DEF CallFails, Lose
<1> QED BY <1>1, <1>2, <1>3, <1>4, <1>5, <1>6, <1>7, <1>8, <1>9 DEF Next, Environment

LEMMA StepDiffers == TypeOK /\ UpdatesDiffer /\ [Next]_vars => UpdatesDiffer'
<1> SUFFICES ASSUME TypeOK, UpdatesDiffer, [Next]_vars PROVE UpdatesDiffer'
    OBVIOUS
<1>1. CASE NoneBeginsUpdate
    BY <1>1 DEF NoneBeginsUpdate, UpdatesDiffer, CurrentJob
<1>2. ASSUME NEW w \in Workers, GetDiffers(w) PROVE UpdatesDiffer'
  <2>1. /\ hand[w] \in Hand
        /\ ~ SameSpec(copies[CurrentJob(w).target], CurrentJob(w))
        /\ hand' = [hand EXCEPT ![w] =
              [hand[w] EXCEPT !.pc = "update",
                              !.got = copies[CurrentJob(w).target]]]
      BY <1>2 DEF GetDiffers, TypeOK
  <2>2. /\ hand'[w].got = copies[CurrentJob(w).target]
        /\ CurrentJob(w)' = CurrentJob(w)
        /\ \A v \in Workers : v # w => hand'[v] = hand[v]
      BY <2>1 DEF TypeOK, Hand, CurrentJob
  <2>3. ASSUME NEW v \in Workers, hand'[v].pc = "update"
        PROVE  ~ SameSpec(hand'[v].got, CurrentJob(v)')
    <3>1. CASE v = w
        BY <2>1, <2>2, <3>1
    <3>2. CASE v # w
        BY <2>2, <2>3, <3>2 DEF UpdatesDiffer, CurrentJob
    <3> QED BY <3>1, <3>2
  <2> QED BY <2>3 DEF UpdatesDiffer
<1> QED BY <1>1, <1>2, StepCalm

-----------------------------------------------------------------------------
(* The steps, one by one, as steps of Upsert. *)

BareCopies == [t \in Targets |-> Bare(copies[t])]
Others == budget["edits"] + budget["meddles"]

(* Spending one of the budgets of other actors, or another one. *)
LEMMA SpendOthers ==
    ASSUME TypeOK, NEW kind \in Budgets, Spend(kind)
    PROVE  IF kind \in {"edits", "meddles"}
             THEN Others \in Nat /\ Others > 0 /\ Others' = Others - 1
             ELSE Others' = Others
BY DEF TypeOK, Spend, Budgets, Others

LEMMA BareType ==
    ASSUME NEW copy \in Copy \cup {Absent}
    PROVE  /\ Bare(copy) \in BareCopy \cup {Absent}
           /\ Bare(copy) = Absent <=> copy = Absent
BY CopyStoreAssumption DEF Bare, Copy, BareCopy

LEMMA WriteContents ==
    ASSUME TypeOK, NEW t \in Targets, NEW copy, Write(t, copy)
    PROVE  BareCopies' = [BareCopies EXCEPT ![t] = Bare(copy)]
BY DEF TypeOK, Write, BareCopies

(* A store or an update is one atomic upsert of the job in hand. *)
LEMMA StoreApplies ==
    ASSUME TypeOK, NEW w \in Workers, Stores(w), Done(w), Due' \subseteq Due
    PROVE  Abstract!Apply(CurrentJob(w))
<1> DEFINE job == CurrentJob(w)
<1>1. job \in Job /\ job.target \in Targets
    BY CurrentJobType DEF Stores, Job
<1>2. job \in Due
  <2>1. hand[w].todo \in Seq(Job) /\ hand[w].todo # <<>>
      BY DEF Stores, TypeOK, WellFormed, Hand
  <2>2. job \in Elements(hand[w].todo)
      BY <2>1, HeadTailProperties, LenProperties DEF CurrentJob, Elements
  <2> QED BY <2>2, TodoIsDue DEF Due
<1>3. BareCopies[job.target] = Absent
    BY <1>1 DEF Stores, BareCopies, Bare
<1>4. BareCopies' = [BareCopies EXCEPT ![job.target] = Abstract!Applied(Absent, job)]
  <2> DEFINE copy == Stored(job, revision + 1)
  <2>1. copy \in Copy /\ copy # Absent
      BY <1>1, StoredType, CopyStoreAssumption DEF TypeOK
  <2>2. /\ copy.spec = job.spec
        /\ copy.annotations = job.annotations
        /\ copy.managed = TRUE
      BY DEF Stored
  <2>3. Write(job.target, copy)
      BY DEF Stores
  <2> HIDE DEF copy, job
  <2>4. Bare(copy) = [spec |-> job.spec, annotations |-> job.annotations,
                      managed |-> TRUE]
      BY <2>1, <2>2 DEF Bare
  <2>5. Abstract!Applied(Absent, job) = Bare(copy)
      BY <2>4 DEF Abstract!Applied
  <2> QED BY <1>1, <2>3, <2>5, WriteContents
<1>5. UNCHANGED <<sources, Others>>
    BY DEF Stores, Write, Done, Others
<1> HIDE DEF job
<1> QED BY <1>2, <1>3, <1>4, <1>5
        DEF Abstract!Apply, Abstract!MayApply, BareCopies, Others, job

LEMMA UpdateApplies ==
    ASSUME TypeOK, Locking, UpdatesDiffer, NEW w \in Workers, Update(w),
           Due' \subseteq Due
    PROVE  Abstract!Apply(CurrentJob(w))
<1> DEFINE job == CurrentJob(w)
           got == hand[w].got
           copy == [Merged(got, job) EXCEPT !.rv = revision + 1]
<1>1. /\ job \in Job
      /\ got \in Copy
      /\ copy \in Copy
      /\ Write(job.target, copy)
    BY UpdateWrites
<1>2. job.target \in Targets
    BY <1>1 DEF Job
<1>3. job \in Due
  <2>1. hand[w].todo \in Seq(Job) /\ hand[w].todo # <<>>
      BY DEF Update, At, TypeOK, WellFormed, Hand
  <2>2. job \in Elements(hand[w].todo)
      BY <2>1, HeadTailProperties, LenProperties DEF CurrentJob, Elements
  <2> QED BY <2>2, TodoIsDue DEF Due
<1>4. /\ copies[job.target] = got
      /\ got.managed
      /\ ~ SameSpec(got, job)
      /\ SelectorAccepted(got.spec.selector, job.spec.selector)
    BY DEF Update, At, Unchanged, Locking, UpdatesWhatWasRead, UpdatesDiffer
<1>5. /\ got # Absent
      /\ copy # Absent
      /\ copy.spec = job.spec
      /\ copy.annotations = got.annotations \cup job.annotations
      /\ copy.managed = TRUE
    BY <1>1, CopyStoreAssumption DEF Merged, Copy
<1>6. UNCHANGED <<sources, Others>>
    BY <1>1 DEF Update, Write, Done, Others
<1> HIDE DEF copy, got, job
<1>7. BareCopies[job.target] = Bare(got)
    BY <1>2, <1>4 DEF BareCopies
<1>8. /\ Bare(got) # Absent
      /\ Bare(got).spec = got.spec
      /\ Bare(got).annotations = got.annotations
      /\ Bare(got).managed = got.managed
    BY <1>1, <1>5, BareType DEF Bare
<1>9. Abstract!MayApply(BareCopies[job.target], job)
    BY <1>4, <1>7, <1>8
       DEF Abstract!MayApply, Abstract!SelectorAccepted, SelectorAccepted,
           Abstract!SameSpec, SameSpec
<1>10. Abstract!Applied(BareCopies[job.target], job) = Bare(copy)
    BY <1>5, <1>7, <1>8 DEF Abstract!Applied, Bare
<1>11. BareCopies' = [BareCopies EXCEPT ![job.target] = Bare(copy)]
    BY <1>1, <1>2, WriteContents
<1> QED BY <1>3, <1>6, <1>9, <1>10, <1>11
        DEF Abstract!Apply, BareCopies, Others, job

(* A step in which nothing is written and nothing is learnt. *)
LEMMA Forgets ==
    ASSUME Due' \subseteq Due, UNCHANGED <<sources, copies, Others>>
    PROVE  Abstract!Forget
BY DEF Abstract!Forget, Others

LEMMA CallImplements ==
    ASSUME TypeOK, Locking, UpdatesDiffer, NEW w \in Workers, Call(w)
    PROVE  Abstract!Next
<1>1. Due' \subseteq Due
    BY CallDue
<1>2. ASSUME Stores(w), Done(w) PROVE Abstract!Next
  <2>1. Abstract!Apply(CurrentJob(w))
      BY <1>1, <1>2, StoreApplies
  <2> QED BY <2>1 DEF Abstract!Next, Abstract!Apply
<1>3. CASE Update(w)
  <2>1. Abstract!Apply(CurrentJob(w))
      BY <1>1, <1>3, UpdateApplies
  <2> QED BY <2>1 DEF Abstract!Next, Abstract!Apply
<1>4. ASSUME UNCHANGED <<cluster, budget>> PROVE Abstract!Next
    BY <1>1, <1>4, Forgets DEF cluster, Others, Abstract!Next
<1>5. CASE Create(w)
    BY <1>2, <1>4, <1>5 DEF Create, Stores, At, Done
<1>6. CASE Recreate(w)
    BY <1>2, <1>4, <1>6 DEF Recreate, Stores, At, Done
<1>7. CASE \/ GetNotFound(w) \/ GetForeign(w) \/ GetEqual(w) \/ GetDiffers(w)
           \/ GetPanics(w) \/ UpdateConflict(w) \/ UpdateInvalid(w)
    BY <1>4, <1>7
       DEF GetNotFound, GetForeign, GetEqual, GetDiffers, GetPanics,
           UpdateConflict, UpdateInvalid, Lose, Done, Panic, EndWith
<1> QED BY <1>3, <1>5, <1>6, <1>7 DEF Call

LEMMA ObserveImplements ==
    ASSUME TypeOK, NEW w \in Workers, NEW s \in Sources, Observe(w, s)
    PROVE  Abstract!Next
<1>1. UNCHANGED <<sources, copies, budget>>
    BY DEF Observe, cluster
<1>2. CASE Due' \subseteq Due
    BY <1>1, <1>2, Forgets DEF Others, Abstract!Next
<1>3. CASE /\ sources[s] # Absent
           /\ Due' \subseteq Due \cup Elements(Convert(s, sources[s], conf[w[1]]))
  <2>1. conf[w[1]] \in Selectors
      BY DEF TypeOK, Workers
  <2>2. Abstract!JobsOf(s, sources[s], conf[w[1]])
          = Elements(Convert(s, sources[s], conf[w[1]]))
      BY DEF Abstract!JobsOf, Elements, Abstract!Convert, Convert,
             Abstract!CopyName, CopyName, Abstract!IsReencoded, IsReencoded
  <2>3. Abstract!Learn(s, conf[w[1]])
      BY <1>1, <1>3, <2>2 DEF Abstract!Learn
  <2> QED BY <2>1, <2>3 DEF Abstract!Next
<1> QED BY <1>2, <1>3, ObserveDue

(* What others do. *)
LEMMA EditImplements ==
    ASSUME TypeOK, NEW s \in Sources, EditSource(s)
    PROVE  Abstract!Next
<1>1. Others > 0 /\ Others' = Others - 1
    BY SpendOthers DEF EditSource, Budgets
<1>2. \E new \in Abstract!StatesOf(s) : sources' = [sources EXCEPT ![s] = new]
    BY DEF EditSource, SourceOf, Abstract!StatesOf
<1>3. UNCHANGED copies
    BY DEF EditSource
<1>4. UNCHANGED Due
    BY DEF EditSource, pipeline, Due, JobsAt, Known, Elements
<1> QED BY <1>1, <1>2, <1>3, <1>4
        DEF Others, Abstract!SomebodyElse, Abstract!Next

LEMMA ForeignImplements ==
    ASSUME TypeOK, NEW t \in Targets, ForeignWrite(t) \/ ForeignDelete(t)
    PROVE  Abstract!Next
<1>1. Others > 0 /\ Others' = Others - 1
    BY SpendOthers DEF ForeignWrite, ForeignDelete, Budgets
<1>2. PICK copy \in Copy \cup {Absent} : Write(t, copy)
  <2>1. revision + 1 \in Nat
      BY DEF TypeOK
  <2>2. ForeignCopy(revision + 1) \subseteq Copy
      BY <2>1 DEF ForeignCopy, Copy, CopySpec
  <2> QED BY <2>2 DEF ForeignWrite, ForeignDelete
<1>3. Bare(copy) \in BareCopy \cup {Absent}
    BY BareType
<1>4. BareCopies' = [BareCopies EXCEPT ![t] = Bare(copy)]
    BY <1>2, WriteContents
<1>5. UNCHANGED sources
    BY <1>2 DEF Write
<1>6. UNCHANGED Due
  <2>1. UNCHANGED <<cache, queue, conf, hand>>
      BY DEF ForeignWrite, ForeignDelete, pipeline
  <2> QED BY <2>1 DEF Due, JobsAt, Known, Elements
<1>7. BareCopy = Abstract!BareCopy
    BY DEF BareCopy, Abstract!BareCopy, CopySpec, Abstract!CopySpec
<1> QED BY <1>1, <1>3, <1>4, <1>5, <1>6, <1>7
        DEF Others, BareCopies, Abstract!SomebodyElse, Abstract!Next

LEMMA StepImplements ==
    TypeOK /\ Locking /\ Forgotten /\ UpdatesDiffer /\ [Next]_vars
        => [Abstract!Next]_(Abstract!vars)
<1> SUFFICES ASSUME TypeOK, Locking, Forgotten, UpdatesDiffer, [Next]_vars
             PROVE  Abstract!Next \/ UNCHANGED Abstract!vars
    OBVIOUS
<1>1. CASE UNCHANGED vars
    BY <1>1 DEF vars, Abstract!vars, Due, JobsAt, Known, Elements
<1>2. ASSUME Due' \subseteq Due, UNCHANGED <<sources, copies, Others>>
      PROVE  Abstract!Next
    BY <1>2, Forgets DEF Abstract!Next
<1>3. ASSUME NEW p \in Procs, Start(p) PROVE Abstract!Next
  <2>1. UNCHANGED <<sources, copies, Others>>
      BY <1>3, SpendOthers DEF Start, cluster, Budgets
  <2> QED BY <1>2, <1>3, <2>1, StartDue
<1>4. ASSUME NEW p \in Procs, Stop(p) PROVE Abstract!Next
  <2>1. UNCHANGED <<sources, copies, Others>>
      BY <1>4, SpendOthers DEF Stop, EndWith, cluster, Budgets
  <2> QED BY <1>2, <1>4, <2>1, EndWithDue DEF Stop
<1>5. ASSUME NEW w \in Workers, NEW s \in Sources, Resync(w, s) PROVE Abstract!Next
  <2>1. UNCHANGED <<sources, copies, budget>>
      BY <1>5 DEF Resync, cluster
  <2> QED BY <1>2, <1>5, <2>1, ResyncDue DEF Others
<1>6. ASSUME NEW w \in Workers, Handle(w) PROVE Abstract!Next
  <2>1. UNCHANGED <<sources, copies, budget>>
      BY <1>6 DEF Handle, HandleIgnored, HandlePanic, HandleConverted, Panic,
                  EndWith, cluster
  <2> QED BY <1>2, <1>6, <2>1, HandleDue DEF Others
<1>7. ASSUME NEW w \in Workers, CallFails(w) PROVE Abstract!Next
  <2>1. UNCHANGED <<sources, copies, Others>>
      BY <1>7, SpendOthers DEF CallFails, Lose, cluster, Budgets
  <2> QED BY <1>2, <1>7, <2>1, CallDue
<1> QED BY <1>1, <1>3, <1>4, <1>5, <1>6, <1>7, CallImplements, ObserveImplements,
           EditImplements, ForeignImplements DEF Next, Environment

LEMMA InitImplements == Init => Abstract!Init
<1> SUFFICES ASSUME Init PROVE Abstract!Init
    OBVIOUS
<1>1. TypeOK
    BY InitType
<1>2. \A s \in Sources : sources[s] \in Abstract!StatesOf(s)
    BY DEF Init, SourceOf, Abstract!StatesOf
<1>3. BareCopies \in [Targets -> BareCopy \cup {Absent}]
    BY <1>1, BareType DEF TypeOK, BareCopies
<1>4. Due = {}
    BY DEF Init, Idle, Due, JobsAt, Known, Elements
<1>5. Others \in Nat
    BY <1>1 DEF TypeOK, Budgets, Others
<1>6. BareCopy = Abstract!BareCopy
    BY DEF BareCopy, Abstract!BareCopy, CopySpec, Abstract!CopySpec
<1> QED BY <1>2, <1>3, <1>4, <1>5, <1>6 DEF Abstract!Init, BareCopies, Others

-----------------------------------------------------------------------------
(* Every write of the converter is one atomic upsert of a conversion that is
   due: Converter implements Upsert.                                        *)
THEOREM UpsertImplemented == Spec => ImplementsUpsert
<1> DEFINE Inv == TypeOK /\ Locking /\ Forgotten /\ UpdatesDiffer
<1>1. Init => Inv
    BY InitType, InitLocks, InitForgotten, InitDiffers
<1>2. Inv /\ [Next]_vars => Inv'
    BY StepType, StepLocks, StepForgets, StepDiffers
<1>3. Init => Abstract!Init
    BY InitImplements
<1>4. Inv /\ [Next]_vars => [Abstract!Next]_(Abstract!vars)
    BY StepImplements
<1> QED BY <1>1, <1>2, <1>3, <1>4, PTL DEF Spec, ImplementsUpsert, Abstract!Spec
=============================================================================
