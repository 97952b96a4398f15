--------------------------- MODULE ConverterProofs ----------------------------
(***************************************************************************)
(* Theorems about Converter, for every value of its constants.             *)
(***************************************************************************)
EXTENDS Converter, SequenceTheorems, TLAPS

-----------------------------------------------------------------------------
(* Typing lemmas. *)

(* The name of a copy is a target, for every kind. *)
LEMMA CopyNameType ==
    ASSUME NEW s \in Sources, NEW entry \in Entry
    PROVE  CopyName(s, entry) \in Targets
<1>1. CASE KindOf[s] = "GrafanaDataSource"
    BY <1>1, ConversionAssumption DEF CopyName, Entry
<1>2. CASE KindOf[s] # "GrafanaDataSource"
    BY <1>2, ConversionAssumption DEF CopyName
<1> QED BY <1>1, <1>2

(* The conversion of a source is a sequence of jobs. *)
LEMMA ConvertType ==
    ASSUME NEW s \in Sources, NEW source \in Source, NEW selector \in Selectors
    PROVE  Convert(s, source, selector) \in Seq(Job)
<1> DEFINE n == Len(source.spec)
<1>1. source.spec \in Seq(Entry) /\ source.annotations \in SUBSET Annotations
    BY DEF Source
<1>2. n \in Nat
    BY <1>1, LenProperties
<1>3. ASSUME NEW i \in 1 .. n
      PROVE  [target |-> CopyName(s, source.spec[i]),
              spec |-> [content |-> source.spec[i].content,
                        selector |-> selector],
              annotations |-> source.annotations,
              guarded |-> KindOf[s] = "GrafanaDashboard",
              reencoded |-> IsReencoded(s, source.spec[i])] \in Job
  <2>1. source.spec[i] \in Entry
      BY <1>1, ElementOfSeq
  <2>2. CopyName(s, source.spec[i]) \in Targets
      BY <2>1, CopyNameType
  <2>3. source.spec[i].content \in Contents
      BY <2>1 DEF Entry
  <2>4. /\ (KindOf[s] = "GrafanaDashboard") \in BOOLEAN
        /\ IsReencoded(s, source.spec[i]) \in BOOLEAN
      BY DEF IsReencoded
  <2> QED BY <1>1, <2>2, <2>3, <2>4 DEF Job, CopySpec
<1>4. Convert(s, source, selector) \in [1 .. n -> Job]
    BY <1>3 DEF Convert
<1> QED BY <1>2, <1>4, SeqDef

(* A handler begins and goes on with well-formed hands. *)
LEMMA BeginType ==
    ASSUME NEW jobs \in Seq(Job), NEW first \in {"create", "get"}
    PROVE  /\ Begin(jobs, first) \in Hand
           /\ WellFormed(Begin(jobs, first))
           /\ Begin(jobs, first).pc # "update"
BY EmptySeq DEF Begin, Hand, Idle, WellFormed

LEMMA NextJobType ==
    ASSUME NEW h \in Hand, h.todo # <<>>
    PROVE  /\ NextJob(h) \in Hand
           /\ WellFormed(NextJob(h))
           /\ NextJob(h).pc # "update"
<1>1. Tail(h.todo) \in Seq(Job) /\ h.first \in {"create", "get"}
    BY HeadTailProperties DEF Hand
<1> QED BY <1>1, BeginType DEF NextJob

(* The job in progress is a job. *)
LEMMA CurrentJobType ==
    ASSUME TypeOK, NEW w \in Workers, hand[w].pc # "idle"
    PROVE  CurrentJob(w) \in Job
BY HeadTailProperties DEF TypeOK, Hand, WellFormed, CurrentJob

LEMMA IdleType == Idle \in Hand /\ WellFormed(Idle) /\ Idle.pc # "update"
BY EmptySeq DEF Idle, Hand, WellFormed

LEMMA EventType ==
    ASSUME TypeOK, NEW w \in Workers, CanTake(w)
    PROVE  /\ Head(queue[w]) \in Event
           /\ Tail(queue[w]) \in Seq(Event)
BY HeadTailProperties DEF TypeOK, CanTake

(* What the converter writes is a copy. *)
LEMMA StoredType ==
    ASSUME NEW job \in Job, NEW n \in Nat
    PROVE  Stored(job, n) \in Copy /\ Stored(job, n).rv = n
BY DEF Stored, Job, Copy

LEMMA MergedType ==
    ASSUME NEW job \in Job, NEW got \in Copy, NEW n \in Nat
    PROVE  [Merged(got, job) EXCEPT !.rv = n] \in Copy
BY DEF Merged, Job, Copy

-----------------------------------------------------------------------------
(* TypeOK. *)

(* The parts of TypeOK that the actions change, one lemma for each common
   effect.  Replacing a hand by a well-formed one keeps the hands typed.    *)
LEMMA HandReplaced ==
    ASSUME TypeOK, NEW w \in Workers, NEW h \in Hand, WellFormed(h),
           hand' = [hand EXCEPT ![w] = h]
    PROVE  /\ hand' \in [Workers -> Hand]
           /\ \A v \in Workers : WellFormed(hand'[v])
BY DEF TypeOK, WellFormed

LEMMA FinishType ==
    ASSUME TypeOK, NEW w \in Workers, hand[w].pc # "idle", Finish(w)
    PROVE  /\ hand' \in [Workers -> Hand]
           /\ \A v \in Workers : WellFormed(hand'[v])
<1>1. hand[w] \in Hand /\ hand[w].todo # <<>>
    BY DEF TypeOK, WellFormed
<1>2. NextJob(hand[w]) \in Hand /\ WellFormed(NextJob(hand[w]))
    BY <1>1, NextJobType
<1>3. hand' = [hand EXCEPT ![w] = NextJob(hand[w])]
    BY DEF Finish
<1> QED BY <1>2, <1>3, HandReplaced

LEMMA GotoType ==
    ASSUME TypeOK, NEW w \in Workers, hand[w].pc # "idle",
           NEW pc \in {"get", "recreate"}, Goto(w, pc)
    PROVE  /\ hand' \in [Workers -> Hand]
           /\ \A v \in Workers : WellFormed(hand'[v])
<1> DEFINE h == [hand[w] EXCEPT !.pc = pc]
<1>1. hand[w] \in Hand /\ hand[w].todo # <<>>
    BY DEF TypeOK, WellFormed
<1>2. h \in Hand /\ WellFormed(h)
    BY <1>1 DEF Hand, WellFormed
<1>3. hand' = [hand EXCEPT ![w] = h]
    BY DEF Goto
<1> HIDE DEF h
<1> QED BY <1>2, <1>3, HandReplaced

LEMMA WriteType ==
    ASSUME TypeOK, NEW t \in Targets, NEW copy \in Copy \cup {Absent},
           Write(t, copy)
    PROVE  /\ copies' \in [Targets -> Copy \cup {Absent}]
           /\ revision' \in Nat
           /\ sources' \in [Sources -> Source \cup {Absent}]
BY DEF TypeOK, Write

LEMMA SpendType ==
    ASSUME TypeOK, NEW kind \in Budgets, Spend(kind)
    PROVE  budget' \in [Budgets -> Nat]
BY DEF TypeOK, Spend

LEMMA EnqueueType ==
    ASSUME TypeOK, NEW w \in Workers, NEW s \in Sources,
           NEW old \in Source \cup {Absent}, NEW new \in Source,
           Enqueue(w, s, old, new)
    PROVE  queue' \in [Workers -> Seq(Event)]
<1>1. [source |-> s, old |-> old, new |-> new] \in Event
    BY DEF Event
<1>2. queue[w] \in Seq(Event)
    BY DEF TypeOK
<1>3. Append(queue[w], [source |-> s, old |-> old, new |-> new]) \in Seq(Event)
    BY <1>1, <1>2
<1> QED BY <1>3 DEF TypeOK, Enqueue

LEMMA EndWithType ==
    ASSUME TypeOK, NEW p \in Procs, NEW ending \in {"down", "panicked"},
           EndWith(p, ending), budget' \in [Budgets -> Nat]
    PROVE  TypeOK'
<1>1. hand' \in [Workers -> Hand] /\ \A v \in Workers : WellFormed(hand'[v])
    BY IdleType DEF TypeOK, EndWith, WellFormed
<1>2. queue' \in [Workers -> Seq(Event)]
    BY EmptySeq DEF TypeOK, EndWith
<1>3. cache' \in [Workers -> [Sources -> Source \cup {Absent}]]
    BY DEF TypeOK, EndWith
<1>4. excused' \subseteq Targets
    BY DEF TypeOK, EndWith
<1>5. status' \in [Procs -> {"down", "running", "panicked"}]
    BY DEF TypeOK, EndWith
<1>6. UNCHANGED <<sources, copies, revision, conf>>
    BY DEF EndWith, cluster
<1> QED BY <1>1, <1>2, <1>3, <1>4, <1>5, <1>6 DEF TypeOK, WellFormed

(* The initial states are well typed. *)
LEMMA InitType == Init => TypeOK
<1> SUFFICES ASSUME Init PROVE TypeOK
    OBVIOUS
<1>1. sources \in [Sources -> Source \cup {Absent}]
  <2>1. \A s \in Sources : SourceOf(s) \subseteq Source
      BY ConversionAssumption DEF SourceOf, Source
  <2>2. \A s \in Sources : sources[s] \in Source \cup {Absent}
      BY <2>1 DEF Init
  <2>3. sources = [s \in Sources |-> sources[s]]
      BY DEF Init
  <2> QED BY <2>2, <2>3
<1>2. copies \in [Targets -> Copy \cup {Absent}]
  <2>1. ForeignCopy(0) \subseteq Copy
      BY DEF ForeignCopy, Copy, CopySpec
  <2> QED BY <2>1 DEF Init
<1>3. hand \in [Workers -> Hand] /\ \A w \in Workers : WellFormed(hand[w])
    BY IdleType DEF Init
<1>4. queue \in [Workers -> Seq(Event)]
    BY EmptySeq DEF Init
<1>5. cache \in [Workers -> [Sources -> Source \cup {Absent}]]
    BY DEF Init
<1>6. conf \in [Procs -> Selectors] /\ status \in [Procs -> {"down", "running", "panicked"}]
    BY CopyStoreAssumption DEF Init
<1>7. revision \in Nat /\ excused \subseteq Targets /\ budget \in [Budgets -> Nat]
    BY ConverterAssumption DEF Init
<1> QED BY <1>1, <1>2, <1>3, <1>4, <1>5, <1>6, <1>7 DEF TypeOK, WellFormed

(* Steps that touch neither a hand nor the objects' types. *)
LEMMA ProcessType ==
    ASSUME TypeOK, NEW p \in Procs, Start(p) \/ Stop(p)
    PROVE  TypeOK'
<1>1. CASE Start(p)
  <2>1. budget' \in [Budgets -> Nat]
      BY <1>1, SpendType DEF Start, Budgets
  <2> QED BY <1>1, <2>1 DEF TypeOK, Start, cluster, pipeline
<1>2. CASE Stop(p)
  <2>1. budget' \in [Budgets -> Nat]
      BY <1>2, SpendType DEF Stop, Budgets
  <2> QED BY <1>2, <2>1, EndWithType DEF Stop
<1> QED BY <1>1, <1>2

LEMMA PanicType ==
    ASSUME TypeOK, NEW w \in Workers, Panic(w)
    PROVE  TypeOK'
<1>1. w[1] \in Procs
    BY DEF Workers
<1>2. budget' \in [Budgets -> Nat]
    BY DEF Panic, TypeOK
<1> QED BY <1>1, <1>2, EndWithType DEF Panic

LEMMA InformerType ==
    ASSUME TypeOK, NEW w \in Workers, NEW s \in Sources,
           Observe(w, s) \/ Resync(w, s)
    PROVE  TypeOK'
<1>1. CASE Observe(w, s)
  <2>1. cache' \in [Workers -> [Sources -> Source \cup {Absent}]]
      BY <1>1 DEF Observe, TypeOK
  <2>2. queue' \in [Workers -> Seq(Event)]
    <3>1. CASE sources[s] = Absent
        BY <1>1, <3>1 DEF Observe, TypeOK
    <3>2. CASE sources[s] # Absent
      <4>1. sources[s] \in Source /\ cache[w][s] \in Source \cup {Absent}
          BY <3>2 DEF TypeOK
      <4> QED BY <1>1, <3>2, <4>1, EnqueueType DEF Observe
    <3> QED BY <3>1, <3>2
  <2> QED BY <1>1, <2>1, <2>2 DEF Observe, TypeOK, cluster
<1>2. CASE Resync(w, s)
  <2>1. cache[w][s] \in Source
      BY <1>2 DEF Resync, TypeOK
  <2>2. queue' \in [Workers -> Seq(Event)]
      BY <1>2, <2>1, EnqueueType DEF Resync
  <2> QED BY <1>2, <2>2 DEF Resync, TypeOK, cluster
<1> QED BY <1>1, <1>2

LEMMA HandleType ==
    ASSUME TypeOK, NEW w \in Workers, Handle(w)
    PROVE  TypeOK'
<1>1. CASE HandlePanic(w)
    BY <1>1, PanicType DEF HandlePanic
<1>2. ASSUME CanTake(w), Take(w)
      PROVE  queue' \in [Workers -> Seq(Event)]
    BY <1>2, EventType DEF Take, TypeOK
<1>3. CASE HandleIgnored(w)
    BY <1>2, <1>3 DEF HandleIgnored, TypeOK, cluster
<1>4. CASE HandleConverted(w)
  <2> DEFINE event == Head(queue[w])
             jobs == Convert(event.source, event.new, conf[w[1]])
             first == IF event.old = Absent THEN "create" ELSE "get"
  <2>1. event \in Event
      BY <1>4, EventType DEF HandleConverted
  <2>2. conf[w[1]] \in Selectors
      BY DEF TypeOK, Workers
  <2>3. jobs \in Seq(Job)
      BY <2>1, <2>2, ConvertType DEF Event
  <2>4. Begin(jobs, first) \in Hand /\ WellFormed(Begin(jobs, first))
      BY <2>3, BeginType
  <2>5. hand' = [hand EXCEPT ![w] = Begin(jobs, first)]
      BY <1>4 DEF HandleConverted
  <2> HIDE DEF jobs, first
  <2>6. /\ hand' \in [Workers -> Hand]
        /\ \A v \in Workers : WellFormed(hand'[v])
      BY <2>4, <2>5, HandReplaced
  <2>7. excused' \subseteq Targets
      BY <1>4 DEF HandleConverted, TypeOK
  <2> QED BY <1>2, <1>4, <2>6, <2>7 DEF HandleConverted, TypeOK, cluster
<1> QED BY <1>1, <1>3, <1>4 DEF Handle

(* How a job ends. *)
LEMMA EndOfJobType ==
    ASSUME TypeOK, NEW w \in Workers, hand[w].pc # "idle",
           Finish(w),
           excused' \in {excused, excused \ {CurrentJob(w).target},
                         excused \cup {CurrentJob(w).target}},
           UNCHANGED Rest,
           sources' \in [Sources -> Source \cup {Absent}],
           copies' \in [Targets -> Copy \cup {Absent}],
           revision' \in Nat,
           budget' \in [Budgets -> Nat]
    PROVE  TypeOK'
<1>1. CurrentJob(w).target \in Targets
    BY CurrentJobType DEF Job
<1>2. excused' \subseteq Targets
    BY <1>1 DEF TypeOK
<1>3. /\ hand' \in [Workers -> Hand]
      /\ \A v \in Workers : WellFormed(hand'[v])
    BY FinishType
<1> QED BY <1>2, <1>3 DEF TypeOK, Rest, pipeline

(* A call that ends without a job's end, or without a write. *)
LEMMA GotoKeepsType ==
    ASSUME TypeOK, NEW w \in Workers, hand[w].pc # "idle",
           NEW pc \in {"get", "recreate"}, Goto(w, pc),
           UNCHANGED <<Rest, cluster, excused, budget>>
    PROVE  TypeOK'
BY GotoType DEF TypeOK, Rest, cluster, pipeline

LEMMA StoreKeepsType ==
    ASSUME TypeOK, NEW w \in Workers, hand[w].pc # "idle",
           Write(CurrentJob(w).target, Stored(CurrentJob(w), revision + 1)),
           Done(w)
    PROVE  TypeOK'
<1>1. CurrentJob(w) \in Job /\ CurrentJob(w).target \in Targets
    BY CurrentJobType DEF Job
<1>2. revision + 1 \in Nat
    BY DEF TypeOK
<1>3. Stored(CurrentJob(w), revision + 1) \in Copy
    BY <1>1, <1>2, StoredType
<1>4. /\ copies' \in [Targets -> Copy \cup {Absent}]
      /\ revision' \in Nat
      /\ sources' \in [Sources -> Source \cup {Absent}]
    BY <1>1, <1>3, WriteType
<1>5. budget' \in [Budgets -> Nat]
    BY DEF Done, TypeOK
<1> QED BY <1>4, <1>5, EndOfJobType DEF Done

(* A job that ends without a write. *)
LEMMA NoWriteKeepsType ==
    ASSUME TypeOK, NEW w \in Workers, hand[w].pc # "idle",
           Finish(w),
           excused' \in {excused, excused \ {CurrentJob(w).target},
                         excused \cup {CurrentJob(w).target}},
           UNCHANGED <<Rest, cluster>>,
           budget' \in [Budgets -> Nat]
    PROVE  TypeOK'
<1>1. /\ copies' \in [Targets -> Copy \cup {Absent}]
      /\ revision' \in Nat
      /\ sources' \in [Sources -> Source \cup {Absent}]
    BY DEF TypeOK, cluster
<1> QED BY <1>1, EndOfJobType

LEMMA CallType ==
    ASSUME TypeOK, NEW w \in Workers, Call(w)
    PROVE  TypeOK'
<1>0. budget \in [Budgets -> Nat]
    BY DEF TypeOK
<1>1. CASE Create(w)
  <2>1. hand[w].pc # "idle"
      BY <1>1 DEF Create, At
  <2> QED BY <1>1, <2>1, StoreKeepsType, GotoKeepsType DEF Create
<1>2. CASE Recreate(w)
  <2>1. hand[w].pc # "idle"
      BY <1>2 DEF Recreate, At
  <2> QED BY <1>0, <1>2, <2>1, StoreKeepsType, NoWriteKeepsType DEF Recreate
<1>3. CASE GetNotFound(w)
    BY <1>3, GotoKeepsType DEF GetNotFound, At
<1>4. CASE GetForeign(w)
    BY <1>0, <1>4, NoWriteKeepsType DEF GetForeign, At, Lose
<1>5. CASE GetEqual(w)
    BY <1>0, <1>5, NoWriteKeepsType DEF GetEqual, GetsManaged, At, Done
<1>6. CASE GetDiffers(w)
  <2> DEFINE found == copies[CurrentJob(w).target]
             h == [hand[w] EXCEPT !.pc = "update", !.got = found]
  <2>1. hand[w].pc # "idle" /\ hand[w] \in Hand /\ hand[w].todo # <<>>
      BY <1>6 DEF GetDiffers, GetsManaged, At, TypeOK, WellFormed
  <2>2. found \in Copy /\ found # Absent
      BY <1>6, <2>1, CurrentJobType DEF Job, TypeOK, GetDiffers, GetsManaged
  <2>3. h \in Hand /\ WellFormed(h)
      BY <2>1, <2>2 DEF Hand, WellFormed
  <2>4. hand' = [hand EXCEPT ![w] = h]
      BY <1>6 DEF GetDiffers
  <2> HIDE DEF h
  <2>5. /\ hand' \in [Workers -> Hand]
        /\ \A v \in Workers : WellFormed(hand'[v])
      BY <2>3, <2>4, HandReplaced
  <2> QED BY <1>6, <2>5 DEF GetDiffers, TypeOK, Rest, cluster, pipeline
<1>7. CASE GetPanics(w)
    BY <1>7, PanicType DEF GetPanics
<1>8. CASE Update(w)
  <2> DEFINE job == CurrentJob(w)
             copy == [Merged(hand[w].got, job) EXCEPT !.rv = revision + 1]
  <2>1. hand[w].pc # "idle"
      BY <1>8 DEF Update, At
  <2>2. job \in Job /\ job.target \in Targets
      BY <2>1, CurrentJobType DEF Job
  <2>3. copy \in Copy \cup {Absent}
    <3>1. hand[w].got \in Copy /\ revision + 1 \in Nat
        BY <1>8 DEF Update, At, TypeOK, WellFormed, Hand
    <3> QED BY <2>2, <3>1, MergedType
  <2>4. Write(job.target, copy) /\ Done(w)
      BY <1>8 DEF Update
  <2> HIDE DEF copy
  <2>5. /\ copies' \in [Targets -> Copy \cup {Absent}]
        /\ revision' \in Nat
        /\ sources' \in [Sources -> Source \cup {Absent}]
      BY <2>2, <2>3, <2>4, WriteType
  <2> QED BY <1>0, <2>1, <2>4, <2>5, EndOfJobType DEF Done
<1>9. CASE UpdateConflict(w)
    BY <1>0, <1>9, NoWriteKeepsType DEF UpdateConflict, At
<1>10. CASE UpdateInvalid(w)
    BY <1>0, <1>10, NoWriteKeepsType DEF UpdateInvalid, At, Lose
<1> QED BY <1>1, <1>2, <1>3, <1>4, <1>5, <1>6, <1>7, <1>8, <1>9, <1>10 DEF Call

LEMMA ForeignType ==
    ASSUME TypeOK, NEW t \in Targets, ForeignWrite(t) \/ ForeignDelete(t)
    PROVE  TypeOK'
<1>1. budget' \in [Budgets -> Nat]
    BY SpendType DEF ForeignWrite, ForeignDelete, Budgets
<1>2. PICK copy \in Copy \cup {Absent} : Write(t, copy)
  <2>1. revision + 1 \in Nat
      BY DEF TypeOK
  <2>2. ForeignCopy(revision + 1) \subseteq Copy
      BY <2>1 DEF ForeignCopy, Copy, CopySpec
  <2> QED BY <2>2 DEF ForeignWrite, ForeignDelete
<1>3. /\ copies' \in [Targets -> Copy \cup {Absent}]
      /\ revision' \in Nat
      /\ sources' \in [Sources -> Source \cup {Absent}]
    BY <1>2, WriteType
<1>4. /\ excused' \subseteq Targets
      /\ UNCHANGED <<status, conf, pipeline, hand>>
    BY DEF ForeignWrite, ForeignDelete, TypeOK
<1> QED BY <1>1, <1>3, <1>4 DEF TypeOK, pipeline

LEMMA EditType ==
    ASSUME TypeOK, NEW s \in Sources, EditSource(s)
    PROVE  TypeOK'
<1>1. budget' \in [Budgets -> Nat]
    BY SpendType DEF EditSource, Budgets
<1>2. sources' \in [Sources -> Source \cup {Absent}]
  <2>1. SourceOf(s) \subseteq Source
      BY ConversionAssumption DEF SourceOf, Source
  <2> QED BY <2>1 DEF EditSource, TypeOK
<1> QED BY <1>1, <1>2 DEF EditSource, TypeOK, pipeline

LEMMA CallFailsType ==
    ASSUME TypeOK, NEW w \in Workers, CallFails(w)
    PROVE  TypeOK'
<1>1. budget' \in [Budgets -> Nat]
    BY SpendType DEF CallFails, Budgets
<1> QED BY <1>1, NoWriteKeepsType DEF CallFails, Lose

(* Every step keeps the types. *)
LEMMA StepType == TypeOK /\ [Next]_vars => TypeOK'
<1> SUFFICES ASSUME TypeOK, [Next]_vars PROVE TypeOK'
    OBVIOUS
<1>1. CASE UNCHANGED vars
    BY <1>1 DEF TypeOK, vars
<1>2. CASE Environment
    BY <1>2, EditType, ForeignType, CallFailsType, ProcessType DEF Environment
<1>3. CASE \E p \in Procs : Start(p)
    BY <1>3, ProcessType
<1>4. ASSUME NEW w \in Workers,
             \/ \E s \in Sources : Observe(w, s) \/ Resync(w, s)
             \/ Handle(w)
             \/ Call(w)
      PROVE  TypeOK'
    BY <1>4, InformerType, HandleType, CallType
<1> QED BY <1>1, <1>2, <1>3, <1>4 DEF Next

(* The variables of the converter and of the cluster keep their types: in
   particular a handler between two calls always has a job, and one about to
   update has read an object.                                               *)
THEOREM TypeCorrect == Spec => []TypeOK
BY InitType, StepType, PTL DEF Spec

-----------------------------------------------------------------------------
(* Optimistic locking.  The invariant behind NeverAdopts and NoLostEdit. *)

Locking == VersionsKnown /\ UpdatesWhatWasRead

(* No worker begins an update in this step. *)
NoneBeginsUpdate ==
    \A w \in Workers : hand'[w] = hand[w] \/ hand'[w].pc # "update"

(* A step that writes nothing. *)
LEMMA IdleStepLocks ==
    ASSUME Locking, NoneBeginsUpdate, UNCHANGED <<copies, revision>>
    PROVE  Locking'
BY DEF Locking, NoneBeginsUpdate, VersionsKnown, UpdatesWhatWasRead, CurrentJob

(* A write takes a version that no reader holds. *)
LEMMA WriteStepLocks ==
    ASSUME TypeOK, Locking, NoneBeginsUpdate,
           NEW t \in Targets, NEW copy \in Copy \cup {Absent}, Write(t, copy),
           copy # Absent => copy.rv = revision + 1
    PROVE  Locking'
<1>1. revision \in Nat /\ revision' = revision + 1
    BY DEF TypeOK, Write
<1>2. \A u \in Targets : copies'[u] = IF u = t THEN copy ELSE copies[u]
    BY DEF TypeOK, Write
<1>3. \A u \in Targets : copies[u] # Absent => copies[u].rv \in Nat
    BY DEF TypeOK, Copy
<1>4. VersionsKnown'
    BY <1>1, <1>2, <1>3 DEF Locking, VersionsKnown
<1>5. ASSUME NEW w \in Workers, hand'[w].pc = "update"
      PROVE  LET got == hand'[w].got
                 found == copies'[CurrentJob(w)'.target]
             IN  /\ got.managed
                 /\ got.rv <= revision'
                 /\ found # Absent /\ found.rv = got.rv => found = got
  <2> DEFINE got == hand[w].got
             u == CurrentJob(w).target
  <2>1. hand'[w] = hand[w] /\ hand[w].pc = "update"
      BY <1>5 DEF NoneBeginsUpdate
  <2>2. CurrentJob(w)' = CurrentJob(w)
      BY <2>1 DEF CurrentJob
  <2>3. u \in Targets
      BY <2>1, CurrentJobType DEF Job
  <2>4. got.rv \in Nat
      BY <2>1 DEF TypeOK, WellFormed, Hand, Copy
  <2>5. /\ got.managed
        /\ got.rv <= revision
        /\ copies[u] # Absent /\ copies[u].rv = got.rv => copies[u] = got
      BY <2>1 DEF Locking, UpdatesWhatWasRead
  <2>6. got.rv <= revision'
      BY <1>1, <2>4, <2>5
  <2>7. copies'[u] # Absent /\ copies'[u].rv = got.rv => copies'[u] = got
      BY <1>1, <1>2, <2>3, <2>4, <2>5
  <2> HIDE DEF u
  <2> QED BY <2>1, <2>2, <2>5, <2>6, <2>7 DEF u
<1>6. UpdatesWhatWasRead'
    BY <1>5 DEF UpdatesWhatWasRead
<1> QED BY <1>4, <1>6 DEF Locking

(* Replacing one hand by one that is not about to update. *)
LEMMA HandCalm ==
    ASSUME TypeOK, NEW w \in Workers, NEW h, h.pc # "update",
           hand' = [hand EXCEPT ![w] = h]
    PROVE  NoneBeginsUpdate
BY DEF TypeOK, NoneBeginsUpdate

LEMMA FinishCalm ==
    ASSUME TypeOK, NEW w \in Workers, hand[w].pc # "idle", Finish(w)
    PROVE  NoneBeginsUpdate
<1>1. NextJob(hand[w]).pc # "update"
    BY NextJobType DEF TypeOK, WellFormed
<1>2. hand' = [hand EXCEPT ![w] = NextJob(hand[w])]
    BY DEF Finish
<1> QED BY <1>1, <1>2, HandCalm

LEMMA GotoCalm ==
    ASSUME TypeOK, NEW w \in Workers, NEW pc \in {"get", "recreate"}, Goto(w, pc)
    PROVE  NoneBeginsUpdate
<1> DEFINE h == [hand[w] EXCEPT !.pc = pc]
<1>1. h.pc # "update"
    BY DEF TypeOK, Hand
<1>2. hand' = [hand EXCEPT ![w] = h]
    BY DEF Goto
<1> HIDE DEF h
<1> QED BY <1>1, <1>2, HandCalm

LEMMA EndWithCalm ==
    ASSUME TypeOK, NEW p \in Procs, NEW ending, EndWith(p, ending)
    PROVE  NoneBeginsUpdate /\ UNCHANGED <<copies, revision>>
BY IdleType DEF TypeOK, EndWith, NoneBeginsUpdate, cluster

LEMMA PanicCalm ==
    ASSUME TypeOK, NEW w \in Workers, Panic(w)
    PROVE  NoneBeginsUpdate /\ UNCHANGED <<copies, revision>>
<1>1. w[1] \in Procs
    BY DEF Workers
<1> QED BY <1>1, EndWithCalm DEF Panic

LEMMA HandleCalm ==
    ASSUME TypeOK, NEW w \in Workers, Handle(w)
    PROVE  NoneBeginsUpdate /\ UNCHANGED <<copies, revision>>
<1>1. CASE HandlePanic(w)
    BY <1>1, PanicCalm DEF HandlePanic
<1>2. CASE HandleIgnored(w)
    BY <1>2 DEF HandleIgnored, NoneBeginsUpdate, cluster
<1>3. CASE HandleConverted(w)
  <2> DEFINE event == Head(queue[w])
             jobs == Convert(event.source, event.new, conf[w[1]])
             first == IF event.old = Absent THEN "create" ELSE "get"
  <2>1. event \in Event
      BY <1>3, EventType DEF HandleConverted
  <2>2. conf[w[1]] \in Selectors
      BY DEF TypeOK, Workers
  <2>3. jobs \in Seq(Job)
      BY <2>1, <2>2, ConvertType DEF Event
  <2>4. Begin(jobs, first).pc # "update"
      BY <2>3, BeginType
  <2>5. hand' = [hand EXCEPT ![w] = Begin(jobs, first)]
      BY <1>3 DEF HandleConverted
  <2> HIDE DEF jobs, first
  <2> QED BY <1>3, <2>4, <2>5, HandCalm DEF HandleConverted, cluster
<1> QED BY <1>1, <1>2, <1>3 DEF Handle

(* What a job that creates its object does to the objects. *)
LEMMA StoreLocks ==
    ASSUME TypeOK, Locking, NEW w \in Workers, hand[w].pc # "idle",
           Write(CurrentJob(w).target, Stored(CurrentJob(w), revision + 1)),
           Done(w)
    PROVE  Locking'
<1>1. CurrentJob(w) \in Job /\ CurrentJob(w).target \in Targets
    BY CurrentJobType DEF Job
<1>2. Stored(CurrentJob(w), revision + 1) \in Copy
    BY <1>1, StoredType DEF TypeOK
<1>3. Stored(CurrentJob(w), revision + 1).rv = revision + 1
    BY DEF Stored
<1>4. NoneBeginsUpdate
    BY FinishCalm DEF Done
<1> QED BY <1>1, <1>2, <1>3, <1>4, WriteStepLocks

(* The object an Update sends: a copy under the next version. *)
LEMMA UpdateWrites ==
    ASSUME TypeOK, NEW w \in Workers, Update(w)
    PROVE  LET job == CurrentJob(w)
               copy == [Merged(hand[w].got, job) EXCEPT !.rv = revision + 1]
           IN  /\ job \in Job
               /\ hand[w].got \in Copy
               /\ copy \in Copy
               /\ copy.rv = revision + 1
               /\ Write(job.target, copy)
<1>1. CurrentJob(w) \in Job
    BY CurrentJobType DEF Update, At
<1>2. hand[w].got \in Copy /\ revision + 1 \in Nat
    BY DEF Update, At, TypeOK, WellFormed, Hand
<1>3. [Merged(hand[w].got, CurrentJob(w)) EXCEPT !.rv = revision + 1] \in Copy
    BY <1>1, <1>2, MergedType
<1>4. [Merged(hand[w].got, CurrentJob(w)) EXCEPT !.rv = revision + 1].rv
        = revision + 1
    BY <1>2 DEF Merged, Copy
<1> QED BY <1>1, <1>2, <1>3, <1>4 DEF Update

LEMMA CallLocks ==
    ASSUME TypeOK, Locking, NEW w \in Workers, Call(w)
    PROVE  Locking'
<1>1. CASE Create(w)
  <2>1. hand[w].pc # "idle"
      BY <1>1 DEF Create, At
  <2> QED BY <1>1, <2>1, StoreLocks, GotoCalm, IdleStepLocks DEF Create, cluster
<1>2. CASE Recreate(w)
  <2>1. hand[w].pc # "idle"
      BY <1>2 DEF Recreate, At
  <2> QED BY <1>2, <2>1, StoreLocks, FinishCalm, IdleStepLocks DEF Recreate, cluster
<1>3. CASE GetNotFound(w)
    BY <1>3, GotoCalm, IdleStepLocks DEF GetNotFound, cluster
<1>4. CASE GetForeign(w) \/ GetEqual(w) \/ UpdateConflict(w) \/ UpdateInvalid(w)
    BY <1>4, FinishCalm, IdleStepLocks
       DEF GetForeign, GetEqual, GetsManaged, UpdateConflict, UpdateInvalid,
           At, Lose, Done, cluster
<1>5. CASE GetPanics(w)
    BY <1>5, PanicCalm, IdleStepLocks DEF GetPanics
<1>6. CASE Update(w)
  <2>1. NoneBeginsUpdate
      BY <1>6, FinishCalm DEF Update, At, Done
  <2>2. CurrentJob(w).target \in Targets
      BY <1>6, UpdateWrites DEF Job
  <2> QED BY <1>6, <2>1, <2>2, UpdateWrites, WriteStepLocks
<1>7. CASE GetDiffers(w)
  <2> DEFINE found == copies[CurrentJob(w).target]
  <2>1. /\ hand[w] \in Hand
        /\ found # Absent
        /\ found.managed
        /\ hand' = [hand EXCEPT ![w] =
                      [hand[w] EXCEPT !.pc = "update", !.got = found]]
        /\ UNCHANGED <<copies, revision>>
      BY <1>7 DEF GetDiffers, GetsManaged, IsConverterManaged, TypeOK, cluster
  <2>2. CurrentJob(w).target \in Targets
      BY <1>7, CurrentJobType DEF GetDiffers, GetsManaged, At, Job
  <2>3. found.rv <= revision
      BY <2>1, <2>2 DEF Locking, VersionsKnown
  <2>4. hand'[w].got = found /\ CurrentJob(w)' = CurrentJob(w)
      BY <2>1 DEF TypeOK, Hand, CurrentJob
  <2>5. \A v \in Workers : v # w => hand'[v] = hand[v]
      BY <2>1 DEF TypeOK
  <2>6. VersionsKnown'
      BY <2>1 DEF Locking, VersionsKnown
  <2>7. UpdatesWhatWasRead'
    <3> SUFFICES ASSUME NEW v \in Workers, hand'[v].pc = "update"
                 PROVE  LET got == hand'[v].got
                            obj == copies'[CurrentJob(v)'.target]
                        IN  /\ got.managed
                            /\ got.rv <= revision'
                            /\ obj # Absent /\ obj.rv = got.rv => obj = got
        BY DEF UpdatesWhatWasRead
    <3>1. CASE v = w
        BY <2>1, <2>3, <2>4, <3>1
    <3>2. CASE v # w
        BY <2>1, <2>5, <3>2 DEF Locking, UpdatesWhatWasRead, CurrentJob
    <3> QED BY <3>1, <3>2
  <2> QED BY <2>6, <2>7 DEF Locking
<1> QED BY <1>1, <1>2, <1>3, <1>4, <1>5, <1>6, <1>7 DEF Call

LEMMA ForeignLocks ==
    ASSUME TypeOK, Locking, NEW t \in Targets, ForeignWrite(t) \/ ForeignDelete(t)
    PROVE  Locking'
<1>1. NoneBeginsUpdate
    BY DEF ForeignWrite, ForeignDelete, NoneBeginsUpdate
<1>2. CASE ForeignWrite(t)
  <2>1. \A copy \in ForeignCopy(revision + 1) :
            copy \in Copy /\ copy.rv = revision + 1
      BY DEF TypeOK, ForeignCopy, Copy, CopySpec
  <2> QED BY <1>1, <1>2, <2>1, WriteStepLocks DEF ForeignWrite
<1>3. CASE ForeignDelete(t)
    BY <1>1, <1>3, WriteStepLocks DEF ForeignDelete
<1> QED BY <1>2, <1>3

LEMMA StepLocks == TypeOK /\ Locking /\ [Next]_vars => Locking'
<1> SUFFICES ASSUME TypeOK, Locking, [Next]_vars PROVE Locking'
    OBVIOUS
<1>1. CASE UNCHANGED vars
    BY <1>1, IdleStepLocks DEF vars, NoneBeginsUpdate
<1>2. CASE \E p \in Procs : Start(p)
    BY <1>2, IdleStepLocks DEF Start, NoneBeginsUpdate, cluster
<1>3. ASSUME NEW w \in Workers, NEW s \in Sources, Observe(w, s) \/ Resync(w, s)
      PROVE  Locking'
    BY <1>3, IdleStepLocks DEF Observe, Resync, NoneBeginsUpdate, cluster
<1>4. ASSUME NEW w \in Workers, Handle(w) \/ Call(w)
      PROVE  Locking'
    BY <1>4, HandleCalm, IdleStepLocks, CallLocks
<1>5. CASE \E s \in Sources : EditSource(s)
    BY <1>5, IdleStepLocks DEF EditSource, NoneBeginsUpdate
<1>6. CASE \E t \in Targets : ForeignWrite(t) \/ ForeignDelete(t)
    BY <1>6, ForeignLocks
<1>7. CASE \E p \in Procs : Stop(p)
    BY <1>7, EndWithCalm, IdleStepLocks DEF Stop
<1>8. CASE \E w \in Workers : CallFails(w)
    BY <1>8, FinishCalm, IdleStepLocks DEF CallFails, Lose, cluster
<1> QED BY <1>1, <1>2, <1>3, <1>4, <1>5, <1>6, <1>7, <1>8 DEF Next, Environment

LEMMA InitLocks == Init => Locking
<1> SUFFICES ASSUME Init PROVE Locking
    OBVIOUS
<1>1. VersionsKnown
    BY DEF Init, VersionsKnown, ForeignCopy
<1>2. UpdatesWhatWasRead
    BY IdleType DEF Init, UpdatesWhatWasRead
<1> QED BY <1>1, <1>2 DEF Locking

(* What a handler is about to send was read with the marker, and if its
   version is still the object's version, it is still the object.          *)
THEOREM LockingHolds == Spec => []UpdatesWhatWasRead
<1>1. Init => TypeOK /\ Locking
    BY InitType, InitLocks
<1>2. TypeOK /\ Locking /\ [Next]_vars => (TypeOK /\ Locking)'
    BY StepType, StepLocks
<1>3. Locking => UpdatesWhatWasRead
    BY DEF Locking
<1> QED BY <1>1, <1>2, <1>3, PTL DEF Spec

-----------------------------------------------------------------------------
(* What the converter's steps do to the copies. *)

(* A worker stores a new object where there was none. *)
Stores(w) ==
    /\ hand[w].pc # "idle"
    /\ copies[CurrentJob(w).target] = Absent
    /\ Write(CurrentJob(w).target, Stored(CurrentJob(w), revision + 1))

(* Only Create, Recreate and Update write a copy, of all the steps that
   change a hand.                                                           *)
LEMMA ConverterWrites ==
    ASSUME TypeOK, Next, hand' # hand
    PROVE  copies' = copies \/ \E w \in Workers : Stores(w) \/ Update(w)
<1>1. CASE \E p \in Procs : Start(p)
    BY <1>1 DEF Start
<1>2. ASSUME NEW w \in Workers, NEW s \in Sources, Observe(w, s) \/ Resync(w, s)
      PROVE  copies' = copies
    BY <1>2 DEF Observe, Resync, cluster
<1>3. ASSUME NEW w \in Workers, Handle(w)
      PROVE  copies' = copies
    BY <1>3, HandleCalm
<1>4. ASSUME NEW w \in Workers, Call(w)
      PROVE  copies' = copies \/ Stores(w) \/ Update(w)
  <2>1. CASE Create(w)
      BY <2>1 DEF Create, At, Stores, cluster
  <2>2. CASE Recreate(w)
      BY <2>2 DEF Recreate, At, Stores, cluster
  <2>3. CASE GetPanics(w)
      BY <2>3, PanicCalm DEF GetPanics
  <2>4. CASE \/ GetNotFound(w) \/ GetForeign(w) \/ GetEqual(w) \/ GetDiffers(w)
             \/ UpdateConflict(w) \/ UpdateInvalid(w)
      BY <2>4 DEF GetNotFound, GetForeign, GetEqual, GetDiffers,
                  UpdateConflict, UpdateInvalid, Lose, cluster
  <2> QED BY <1>4, <2>1, <2>2, <2>3, <2>4 DEF Call
<1>5. CASE \E s \in Sources : EditSource(s)
    BY <1>5 DEF EditSource
<1>6. CASE \E t \in Targets : ForeignWrite(t) \/ ForeignDelete(t)
    BY <1>6 DEF ForeignWrite, ForeignDelete
<1>7. CASE \E p \in Procs : Stop(p)
    BY <1>7, EndWithCalm DEF Stop
<1>8. CASE \E w \in Workers : CallFails(w)
    BY <1>8 DEF CallFails, Lose, cluster
<1> QED BY <1>1, <1>2, <1>3, <1>4, <1>5, <1>6, <1>7, <1>8 DEF Next, Environment

(* An Update replaces the very object that was read by its merge. *)
LEMMA UpdateOfWhatWasRead ==
    ASSUME TypeOK, Locking, NEW w \in Workers, Update(w),
           NEW t \in Targets, copies[t] # Absent
    PROVE  \/ copies'[t] = copies[t]
           \/ /\ copies[t].managed
              /\ copies'[t] \in Copy
              /\ copies[t].annotations \subseteq copies'[t].annotations
<1> DEFINE job == CurrentJob(w)
           got == hand[w].got
           copy == [Merged(got, job) EXCEPT !.rv = revision + 1]
<1>1. /\ job \in Job
      /\ got \in Copy
      /\ copy \in Copy
      /\ Write(job.target, copy)
    BY UpdateWrites
<1>2. job.target \in Targets
    BY <1>1 DEF Job
<1>3. copies[job.target] = got /\ got.managed
    BY DEF Update, At, Unchanged, Locking, UpdatesWhatWasRead
<1>4. got.annotations \subseteq copy.annotations
    BY <1>1 DEF Merged, Copy
<1>5. CASE t # job.target
    BY <1>1, <1>5 DEF Write, TypeOK
<1>6. CASE t = job.target
  <2>1. copies'[t] = copy
      BY <1>1, <1>2, <1>6 DEF Write, TypeOK
  <2> HIDE DEF copy, got, job
  <2> QED BY <1>1, <1>3, <1>4, <1>6, <2>1
<1> QED BY <1>5, <1>6

(* A store touches no object that exists. *)
LEMMA StoreOfNothing ==
    ASSUME TypeOK, NEW w \in Workers, Stores(w), NEW t \in Targets,
           copies[t] # Absent
    PROVE  copies'[t] = copies[t]
BY CurrentJobType DEF Stores, Write, TypeOK, Job

LEMMA StepKeepsPromises ==
    ASSUME TypeOK, Locking, [Next]_vars
    PROVE  LeavesForeignAlone /\ KeepsAnnotations
<1> SUFFICES ASSUME hand' # hand, NEW t \in Targets, copies[t] # Absent
             PROVE  /\ ~ copies[t].managed => copies'[t] = copies[t]
                    /\ copies'[t] # Absent
                    /\ copies[t].annotations \subseteq copies'[t].annotations
    BY DEF LeavesForeignAlone, KeepsAnnotations
<1>1. Next
    BY DEF vars
<1>2. CASE copies' = copies
    BY <1>2
<1>3. ASSUME NEW w \in Workers, Stores(w)
      PROVE  copies'[t] = copies[t]
    BY <1>3, StoreOfNothing
<1>4. ASSUME NEW w \in Workers, Update(w)
      PROVE  \/ copies'[t] = copies[t]
             \/ /\ copies[t].managed
                /\ copies'[t] \in Copy
                /\ copies[t].annotations \subseteq copies'[t].annotations
    BY <1>4, UpdateOfWhatWasRead
<1> QED BY <1>1, <1>2, <1>3, <1>4, ConverterWrites, CopyStoreAssumption

(* The converter never changes an object without the ownership marker. *)
THEOREM OwnershipRespected == Spec => NeverAdopts
<1>1. Init => TypeOK /\ Locking
    BY InitType, InitLocks
<1>2. TypeOK /\ Locking /\ [Next]_vars => (TypeOK /\ Locking)'
    BY StepType, StepLocks
<1>3. TypeOK /\ Locking /\ [Next]_vars => [LeavesForeignAlone]_vars
    BY StepKeepsPromises
<1> QED BY <1>1, <1>2, <1>3, PTL DEF Spec, NeverAdopts

(* The converter never deletes a copy nor drops an annotation of one. *)
THEOREM EditsKept == Spec => NoLostEdit
<1>1. Init => TypeOK /\ Locking
    BY InitType, InitLocks
<1>2. TypeOK /\ Locking /\ [Next]_vars => (TypeOK /\ Locking)'
    BY StepType, StepLocks
<1>3. TypeOK /\ Locking /\ [Next]_vars => [KeepsAnnotations]_vars
    BY StepKeepsPromises
<1> QED BY <1>1, <1>2, <1>3, PTL DEF Spec, NoLostEdit
===============================================================================
