------------------------------ MODULE Converter ------------------------------
(***************************************************************************)
(* The converter at run time: informers that deliver the events of the     *)
(* sources to the create.../update... handlers, and the handlers' calls to *)
(* the API server, which other actors write to as well.                    *)
(*                                                                         *)
(* A worker is one informer of one process.  Its handler calls are         *)
(* sequential (one processorListener goroutine per handler); workers run   *)
(* concurrently.  Every remote call is one step, so anything may happen    *)
(* between a Get and the Update that follows.  Several processes run when  *)
(* a Deployment rolls over, or when leadership is lost and taken over.     *)
(***************************************************************************)
EXTENDS Conversion

CONSTANTS
    Procs,       \* converter processes
    Informers,   \* informers of a process: one per namespace and kind
    Watches,     \* [Informers -> SUBSET Sources]
    ResyncOn,    \* a resync period is configured
    Limits       \* bounds: how often each event of the environment happens

Budgets == {"edits",    \* changes of a source
            "meddles",  \* writes and deletes of a copy by somebody else
            "faults",   \* failed calls
            "starts",   \* process starts
            "stops"}    \* process terminations other than a panic

ASSUME ConverterAssumption ==
    /\ Watches \in [Informers -> SUBSET Sources]
    /\ ResyncOn \in BOOLEAN
    /\ Limits \in [Budgets -> Nat]

Workers == Procs \X Informers

VARIABLES
    sources,    \* v1alpha1 objects in the cluster
    copies,     \* v1beta1 objects in the cluster
    revision,   \* the API server's resourceVersion counter
    status,     \* status of a process
    conf,       \* instanceSelector a process was configured with
    cache,      \* informer's local store
    queue,      \* events waiting for the worker's handler
    hand,       \* the handler call in progress
    excused,    \* history: targets whose last conversion is known to be lost
    budget      \* what the environment may still do

cluster == <<sources, copies, revision>>
pipeline == <<cache, queue>>
vars == <<sources, copies, revision, status, conf, cache, queue, hand,
          excused, budget>>

(* old is Absent in the event of an Add. *)
Event == [source : Sources, old : Source \cup {Absent}, new : Source]

(* The job at the head of todo is in progress, at the call pc makes next.  A
   job starts with a Create when the event is an Add and with a Get when it
   is an Update.  got is what Get returned.                                *)
Hand == [pc : {"idle", "create", "get", "recreate", "update"},
         first : {"create", "get"},
         todo : Seq(Job),
         got : Copy \cup {Absent}]

Idle == [pc |-> "idle", first |-> "get", todo |-> <<>>, got |-> Absent]

WellFormed(h) ==
    /\ h.pc # "idle" => h.todo # <<>>
    /\ h.pc = "update" => h.got # Absent

TypeOK ==
    /\ sources \in [Sources -> Source \cup {Absent}]
    /\ copies \in [Targets -> Copy \cup {Absent}]
    /\ revision \in Nat
    /\ status \in [Procs -> {"down", "running", "panicked"}]
    /\ conf \in [Procs -> Selectors]
    /\ cache \in [Workers -> [Sources -> Source \cup {Absent}]]
    /\ queue \in [Workers -> Seq(Event)]
    /\ hand \in [Workers -> Hand]
    /\ \A w \in Workers : WellFormed(hand[w])
    /\ excused \subseteq Targets
    /\ budget \in [Budgets -> Nat]

-----------------------------------------------------------------------------

SourceOf(s) == [spec : SpecsOf[s], annotations : SUBSET Annotations]

(* What other actors write: any spec that decodes. *)
ForeignCopy(rv) ==
    [spec : [content : Contents \ (Malformed \cup Untyped), selector : Selectors],
     annotations : SUBSET Annotations,
     managed : BOOLEAN,
     rv : {rv}]

Spend(kind) ==
    /\ budget[kind] > 0
    /\ budget' = [budget EXCEPT ![kind] = @ - 1]

Init ==
    /\ sources \in [Sources -> UNION {SourceOf(s) : s \in Sources} \cup {Absent}]
    /\ \A s \in Sources : sources[s] \in SourceOf(s) \cup {Absent}
    /\ copies \in [Targets -> ForeignCopy(0) \cup {Absent}]
    /\ revision = 0
    /\ status = [p \in Procs |-> "down"]
    /\ conf = [p \in Procs |-> NoSelector]
    /\ cache = [w \in Workers |-> [s \in Sources |-> Absent]]
    /\ queue = [w \in Workers |-> <<>>]
    /\ hand = [w \in Workers |-> Idle]
    /\ excused = {}
    /\ budget = Limits

-----------------------------------------------------------------------------
(* Processes.  A process reads its configuration, then starts its informers
   with empty stores; what it had queued or in hand is lost when it ends.  *)

Running(w) == status[w[1]] = "running"

Start(p) ==
    /\ status[p] # "running"
    /\ Spend("starts")
    /\ status' = [status EXCEPT ![p] = "running"]
    /\ \E selector \in Selectors : conf' = [conf EXCEPT ![p] = selector]
    /\ UNCHANGED <<cluster, pipeline, hand, excused>>

Settled(p) ==
    /\ status[p] = "running"
    /\ \A i \in Informers :
         /\ hand[<<p, i>>].pc = "idle"
         /\ queue[<<p, i>>] = <<>>
         /\ \A s \in Watches[i] : cache[<<p, i>>][s] = sources[s]

AllSettled ==
    /\ \E p \in Procs : Settled(p)
    /\ \A p \in Procs : status[p] = "running" => Settled(p)

(* The process ends with this status.  Unless all work was done at that
   moment, it may leave any target half converted, or converted to a state
   of the source that the remaining processes never observe.               *)
EndWith(p, ending) ==
    /\ status' = [status EXCEPT ![p] = ending]
    /\ cache' = [w \in Workers |->
                    IF w[1] = p THEN [s \in Sources |-> Absent] ELSE cache[w]]
    /\ queue' = [w \in Workers |-> IF w[1] = p THEN <<>> ELSE queue[w]]
    /\ hand' = [w \in Workers |-> IF w[1] = p THEN Idle ELSE hand[w]]
    /\ excused' = IF AllSettled THEN excused ELSE Targets
    /\ UNCHANGED <<cluster, conf>>

Stop(p) ==
    /\ status[p] = "running"
    /\ Spend("stops")
    /\ EndWith(p, "down")

(* A panic in a handler ends the whole process (runtime.HandleCrash panics
   again).                                                                 *)
Panic(w) ==
    /\ EndWith(w[1], "panicked")
    /\ UNCHANGED budget

-----------------------------------------------------------------------------
(* Informers (client-go).  A watch that breaks is followed by a new list, so
   an informer may miss intermediate states of a source; it delivers the
   change from what it had to what there is.  No DeleteFunc is registered:
   a delete only removes the source from the store.                        *)

Enqueue(w, s, old, new) ==
    queue' = [queue EXCEPT ![w] =
                Append(@, [source |-> s, old |-> old, new |-> new])]

Observe(w, s) ==
    /\ Running(w)
    /\ s \in Watches[w[2]]
    /\ cache[w][s] # sources[s]
    /\ cache' = [cache EXCEPT ![w][s] = sources[s]]
    /\ IF sources[s] = Absent
         THEN UNCHANGED queue
         ELSE Enqueue(w, s, cache[w][s], sources[s])
    /\ UNCHANGED <<cluster, status, conf, hand, excused, budget>>

(* The resync timer delivers an Update from a stored object to itself.  Bound:
   no resync while events are waiting.                                     *)
Resync(w, s) ==
    /\ ResyncOn
    /\ Running(w)
    /\ s \in Watches[w[2]]
    /\ cache[w][s] # Absent
    /\ queue[w] = <<>>
    /\ Enqueue(w, s, cache[w][s], cache[w][s])
    /\ UNCHANGED <<cluster, status, conf, cache, hand, excused, budget>>

-----------------------------------------------------------------------------
(* Handlers, up to their first remote call. *)

Take(w) == queue' = [queue EXCEPT ![w] = Tail(@)]

CanTake(w) ==
    /\ Running(w)
    /\ hand[w].pc = "idle"
    /\ queue[w] # <<>>

(* Mutant: metadata is compared in place of the spec. *)
NoDiffOfMetadata(event) ==
    /\ event.old # Absent
    /\ event.old.annotations = event.new.annotations

(* update...: the specs are equal, only something else changed. *)
NoDiff(event) ==
    /\ event.old # Absent
    /\ event.old.spec = event.new.spec

(* The handler returns without a call: no difference, or the conversion
   returned an error.                                                      *)
HandleIgnored(w) ==
    /\ CanTake(w)
    /\ LET event == Head(queue[w])
       IN  NoDiff(event) \/ ConversionFails(event.source, event.new)
    /\ Take(w)
    /\ UNCHANGED <<cluster, status, conf, cache, hand, excused, budget>>

HandlePanic(w) ==
    /\ CanTake(w)
    /\ LET event == Head(queue[w])
       IN  ~ NoDiff(event) /\ ConversionPanics(event.source, event.new)
    /\ Panic(w)

Begin(jobs, first) ==
    IF jobs = <<>> THEN Idle
    ELSE [pc |-> first, first |-> first, todo |-> jobs, got |-> Absent]

(* A new conversion starts with a clean sheet: its targets are excused again
   only if it gives them up as well.                                       *)
HandleConverted(w) ==
    /\ CanTake(w)
    /\ LET event == Head(queue[w])
           jobs == Convert(event.source, event.new, conf[w[1]])
       IN  /\ ~ NoDiff(event)
           /\ ~ ConversionFails(event.source, event.new)
           /\ ~ ConversionPanics(event.source, event.new)
           /\ hand' = [hand EXCEPT ![w] =
                         Begin(jobs, IF event.old = Absent THEN "create" ELSE "get")]
           /\ excused' = excused \ {jobs[i].target : i \in DOMAIN jobs}
    /\ Take(w)
    /\ UNCHANGED <<cluster, status, conf, cache, budget>>

-----------------------------------------------------------------------------
(* Handlers, remote call by remote call. *)

At(w, pc) == Running(w) /\ hand[w].pc = pc

CurrentJob(w) == Head(hand[w].todo)

(* Mutant: return in place of continue, the rest of the list is skipped. *)
NextJobReturns(h) == Idle

(* Mutant: the loop runs once too often. *)
NextJobOverruns(h) == [h EXCEPT !.pc = h.first, !.todo = Tail(@)]

(* What follows a job, however it ended: the next datasource of the list, or
   the end of the handler.                                                 *)
NextJob(h) == Begin(Tail(h.todo), h.first)

Finish(w) == hand' = [hand EXCEPT ![w] = NextJob(@)]

Goto(w, pc) == hand' = [hand EXCEPT ![w].pc = pc]

(* The API server writes a target under the next resourceVersion (here also if
   nothing changes, which makes for more conflicts than there are).         *)
Write(t, copy) ==
    /\ copies' = [copies EXCEPT ![t] = copy]
    /\ revision' = revision + 1
    /\ UNCHANGED sources

Rest == <<status, conf, pipeline>>

(* The job reached its target (Done), or is given up for good (Lose). *)
Done(w) ==
    /\ Finish(w)
    /\ excused' = excused \ {CurrentJob(w).target}
    /\ UNCHANGED <<Rest, budget>>

Lose(w) ==
    /\ Finish(w)
    /\ excused' = excused \cup {CurrentJob(w).target}
    /\ UNCHANGED <<Rest, cluster>>

(* Mutant: an object that already exists is taken for converted. *)
CreateOnce(w) ==
    /\ At(w, "create")
    /\ LET job == CurrentJob(w)
       IN  IF copies[job.target] = Absent
             THEN Write(job.target, Stored(job, revision + 1)) /\ Done(w)
             ELSE Done(w) /\ UNCHANGED cluster

(* Mutant: the object is stored whether there is one or not. *)
CreateOverwrites(w) ==
    /\ At(w, "create")
    /\ LET job == CurrentJob(w)
       IN  Write(job.target, Stored(job, revision + 1))
    /\ Done(w)

(* Create: an AlreadyExists error hands the object to the update handler. *)
Create(w) ==
    /\ At(w, "create")
    /\ LET job == CurrentJob(w)
       IN  \/ /\ copies[job.target] = Absent
              /\ Write(job.target, Stored(job, revision + 1))
              /\ Done(w)
           \/ /\ copies[job.target] # Absent
              /\ Goto(w, "get")
              /\ UNCHANGED <<Rest, cluster, excused, budget>>

(* Mutant: an Update event never creates the copy it does not find. *)
GetNotFoundReturns(w) ==
    /\ At(w, "get")
    /\ copies[CurrentJob(w).target] = Absent
    /\ Finish(w)
    /\ UNCHANGED <<Rest, cluster, excused, budget>>

GetNotFound(w) ==
    /\ At(w, "get")
    /\ copies[CurrentJob(w).target] = Absent
    /\ Goto(w, "recreate")
    /\ UNCHANGED <<Rest, cluster, excused, budget>>

(* An object without the marker is left alone. *)
GetForeign(w) ==
    /\ At(w, "get")
    /\ LET found == copies[CurrentJob(w).target]
       IN  found # Absent /\ ~ IsConverterManaged(found)
    /\ Lose(w)
    /\ UNCHANGED budget

(* The read returned an object that carries the marker. *)
GetsManaged(w) ==
    /\ At(w, "get")
    /\ LET found == copies[CurrentJob(w).target]
       IN  found # Absent /\ IsConverterManaged(found)

GetEqual(w) ==
    /\ GetsManaged(w)
    /\ SameSpec(copies[CurrentJob(w).target], CurrentJob(w))
    /\ Done(w)
    /\ UNCHANGED cluster

GetDiffers(w) ==
    /\ GetsManaged(w)
    /\ LET job == CurrentJob(w)
           found == copies[job.target]
       IN  /\ ~ SameSpec(found, job)
           /\ ~ MergePanics(found, job)
           /\ hand' = [hand EXCEPT ![w].pc = "update", ![w].got = found]
    /\ UNCHANGED <<Rest, cluster, excused, budget>>

GetPanics(w) ==
    /\ GetsManaged(w)
    /\ LET job == CurrentJob(w)
           found == copies[job.target]
       IN  ~ SameSpec(found, job) /\ MergePanics(found, job)
    /\ Panic(w)

(* The second Create, after a Get that found nothing.  When somebody else
   has created the object in the meantime the event is given up.           *)
Recreate(w) ==
    /\ At(w, "recreate")
    /\ LET job == CurrentJob(w)
       IN  \/ /\ copies[job.target] = Absent
              /\ Write(job.target, Stored(job, revision + 1))
              /\ Done(w)
           \/ /\ copies[job.target] # Absent
              /\ Finish(w)
              /\ UNCHANGED <<Rest, cluster, excused, budget>>

(* Mutant: the Update does not carry the resourceVersion that was read. *)
Unconditional(found, got) == found # Absent

(* The API server refuses an Update of an object that has changed since it
   was read, and one that changes the selector.                            *)
Unchanged(found, got) == found # Absent /\ found.rv = got.rv

Update(w) ==
    /\ At(w, "update")
    /\ LET job == CurrentJob(w)
           got == hand[w].got
           found == copies[job.target]
       IN  /\ Unchanged(found, got)
           /\ SelectorAccepted(found.spec.selector, job.spec.selector)
           /\ Write(job.target, [Merged(got, job) EXCEPT !.rv = revision + 1])
    /\ Done(w)

UpdateConflict(w) ==
    /\ At(w, "update")
    /\ ~ Unchanged(copies[CurrentJob(w).target], hand[w].got)
    /\ Finish(w)
    /\ UNCHANGED <<Rest, cluster, excused, budget>>

UpdateInvalid(w) ==
    /\ At(w, "update")
    /\ LET job == CurrentJob(w)
           found == copies[job.target]
       IN  /\ Unchanged(found, hand[w].got)
           /\ ~ SelectorAccepted(found.spec.selector, job.spec.selector)
    /\ Lose(w)
    /\ UNCHANGED budget

(* Any call may fail for another reason.  It is logged and never retried.  A
   call that took effect and whose answer was lost ends the job as well,
   with the same effect as a success.                                      *)
CallFails(w) ==
    /\ Running(w)
    /\ hand[w].pc # "idle"
    /\ Spend("faults")
    /\ Lose(w)

-----------------------------------------------------------------------------
(* Everybody else.  Nobody but the converter re-creates a copy from its
   source, so after a foreign write a copy may be out of step until the next
   conversion of its source.                                               *)

EditSource(s) ==
    /\ Spend("edits")
    /\ \E new \in SourceOf(s) \cup {Absent} :
         /\ new # sources[s]
         /\ sources' = [sources EXCEPT ![s] = new]
    /\ UNCHANGED <<copies, revision, status, conf, pipeline, hand, excused>>

(* A write leaves the selector as it was; a status update changes nothing
   but the resourceVersion; a label edit may add or strip the marker.      *)
ForeignWrite(t) ==
    /\ Spend("meddles")
    /\ \E copy \in ForeignCopy(revision + 1) :
         /\ copies[t] # Absent =>
              SelectorAccepted(copies[t].spec.selector, copy.spec.selector)
         /\ Write(t, copy)
    /\ excused' = excused \cup {t}
    /\ UNCHANGED <<status, conf, pipeline, hand>>

ForeignDelete(t) ==
    /\ copies[t] # Absent
    /\ Spend("meddles")
    /\ Write(t, Absent)
    /\ excused' = excused \cup {t}
    /\ UNCHANGED <<status, conf, pipeline, hand>>

-----------------------------------------------------------------------------

Handle(w) == HandleIgnored(w) \/ HandlePanic(w) \/ HandleConverted(w)

Call(w) ==
    \/ Create(w) \/ Recreate(w)
    \/ GetNotFound(w) \/ GetForeign(w) \/ GetEqual(w) \/ GetDiffers(w)
    \/ GetPanics(w)
    \/ Update(w) \/ UpdateConflict(w) \/ UpdateInvalid(w)

Environment ==
    \/ \E s \in Sources : EditSource(s)
    \/ \E t \in Targets : ForeignWrite(t) \/ ForeignDelete(t)
    \/ \E p \in Procs : Stop(p)
    \/ \E w \in Workers : CallFails(w)

Next ==
    \/ \E p \in Procs : Start(p)
    \/ \E w \in Workers :
         \/ \E s \in Sources : Observe(w, s) \/ Resync(w, s)
         \/ Handle(w)
         \/ Call(w)
    \/ Environment

Spec == Init /\ [][Next]_vars

(* The scheduler runs every goroutine, watches and lists go on, the API
   server answers every call (the handlers set no deadline), the kubelet and
   the Deployment start a process that is down, the resync timer ticks.     *)
Fairness ==
    /\ \A p \in Procs : WF_vars(Start(p))
    /\ \A w \in Workers :
         /\ \A s \in Sources : WF_vars(Observe(w, s)) /\ WF_vars(Resync(w, s))
         /\ WF_vars(Handle(w) \/ Call(w))

FairSpec == Spec /\ Fairness

-----------------------------------------------------------------------------
(* What the converter promises. *)

(* An object without the ownership marker is never changed by the converter
   (README, "Resource ownership"), also when the marker is stripped, or the
   object replaced, between the Get and the Update of update....  A step of
   the converter is one that changes a hand.                               *)
LeavesForeignAlone ==
    hand' # hand =>
        \A t \in Targets :
            /\ copies[t] # Absent
            /\ ~ copies[t].managed
            => copies'[t] = copies[t]

NeverAdopts == [][LeavesForeignAlone]_vars

(* A converter write keeps every annotation that is on the copy at the moment
   of the write, whoever added it and whenever: the Get ... maps.Copy ...
   Update sequence is safe against concurrent writers.  Neither does the
   converter delete a copy.                                                *)
KeepsAnnotations ==
    hand' # hand =>
        \A t \in Targets :
            copies[t] # Absent =>
                /\ copies'[t] # Absent
                /\ copies[t].annotations \subseteq copies'[t].annotations

NoLostEdit == [][KeepsAnnotations]_vars

(* Every version in use has been given out. *)
VersionsKnown ==
    \A t \in Targets : copies[t] # Absent => copies[t].rv <= revision

(* The reason for both: an Update is only on its way for an object that was
   read with the marker, and if the resourceVersion that was read is still the
   object's, the object is still what was read.                             *)
UpdatesWhatWasRead ==
    \A w \in Workers :
        hand[w].pc = "update" =>
            LET got == hand[w].got
                found == copies[CurrentJob(w).target]
            IN  /\ got.managed
                /\ got.rv <= revision
                /\ found # Absent /\ found.rv = got.rv => found = got

-----------------------------------------------------------------------------
(* Refinement: Upsert is what all of this amounts to. *)

Elements(seq) == {seq[i] : i \in DOMAIN seq}

(* The states of sources that worker w still knows: stored, or in an event
   that waits.                                                              *)
Known(w) ==
    {[source |-> s, new |-> cache[w][s]] :
        s \in {s \in Sources : cache[w][s] # Absent}}
    \cup {[source |-> event.source, new |-> event.new] : event \in Elements(queue[w])}

(* The jobs that follow from them, and those in hand. *)
JobsAt(w) ==
    (UNION {Elements(Convert(k.source, k.new, conf[w[1]])) : k \in Known(w)})
    \cup Elements(hand[w].todo)

Due == UNION {JobsAt(w) : w \in Workers}

Abstract ==
    INSTANCE Upsert WITH contents <- [t \in Targets |-> Bare(copies[t])],
                         due <- Due,
                         others <- budget["edits"] + budget["meddles"]

(* However the remote calls of the processes, the writes of others, failures
   and crashes interleave, every write of the converter is one atomic upsert:
   of a conversion of a state its source was in while the process ran, onto
   what the copy is at that very moment.                                    *)
ImplementsUpsert == Abstract!Spec

-----------------------------------------------------------------------------
(* Convergence. *)

(* What a source with this spec asks for under target t: the last entry of that
   name wins.                                                               *)
Claimed(s, spec) == {CopyName(s, spec[i]) : i \in DOMAIN spec}

LastContent(s, t, spec) ==
    LET last == CHOOSE i \in DOMAIN spec :
                    /\ CopyName(s, spec[i]) = t
                    /\ \A j \in DOMAIN spec :
                         CopyName(s, spec[j]) = t => j <= i
    IN  spec[last].content

(* No other source ever claims t. *)
Exclusive(s, t) ==
    \A other \in Sources \ {s} :
        \A spec \in SpecsOf[other] : t \notin Claimed(other, spec)

Convertible(s, source) ==
    /\ source # Absent
    /\ ~ ConversionFails(s, source)
    /\ ~ ConversionPanics(s, source)

Converts(s) == Convertible(s, sources[s])

InSync(s, t, spec) ==
    /\ copies[t] # Absent
    /\ copies[t].spec.content = LastContent(s, t, spec)

Watched == UNION {Watches[i] : i \in Informers}

(* When every running process has nothing left to do, every source it watches
   has its copies, with the content of the source: nothing was lost to the
   order of events, to the two processes of a rollout overwriting each other
   or colliding, to a create that finds the object or an update that does
   not, nor to the failure of another entry of the same list.  The only
   targets excepted are those where the code gives a conversion up: a failed
   call, a foreign object, a refused selector, a write by another actor, or
   a process that ended while there was work to do.                        *)
SettledInSync ==
    AllSettled =>
        \A s \in Watched : Converts(s) =>
            \A t \in Claimed(s, sources[s].spec) :
                Exclusive(s, t) /\ t \notin excused =>
                    InSync(s, t, sources[s].spec)

(* The workers whose store follows source s. *)
Followers(s) == {w \in Workers : Running(w) /\ s \in Watches[w[2]]}

(* The handler has lost a race: its next call is going to be refused. *)
Beaten(w) ==
    LET found == copies[CurrentJob(w).target]
    IN  \/ hand[w].pc = "update" /\ ~ Unchanged(found, hand[w].got)
        \/ hand[w].pc = "recreate" /\ found # Absent

(* The targets that the handler may still reach. *)
Ahead(w) ==
    LET todo == hand[w].todo
    IN  {todo[i].target : i \in {i \in DOMAIN todo : Beaten(w) => i > 1}}

(* An event of s is waiting that the handler will not pass over. *)
News(w, s) ==
    \E i \in DOMAIN queue[w] : queue[w][i].source = s /\ ~ NoDiff(queue[w][i])

(* Not only at rest: whenever the stores that follow a source agree on its
   spec, every copy is in step with that spec or a worker that has not lost its
   race is still going to write it.  So a handler whose Update is refused, or
   whose second Create finds the object, and which then gives up in silence,
   leaves the copy to somebody who does not.                                *)
Converging ==
    \A s \in Sources : \A w \in Followers(s) :
        LET known == cache[w][s]
        IN  /\ Convertible(s, known)
            /\ \A v \in Followers(s) :
                 cache[v][s] # Absent /\ cache[v][s].spec = known.spec
            => \A t \in Claimed(s, known.spec) :
                 Exclusive(s, t) /\ t \notin excused =>
                    \/ InSync(s, t, known.spec)
                    \/ \E v \in Followers(s) : News(v, s) \/ t \in Ahead(v)

(* No handler panics. *)
NoPanic == \A p \in Procs : status[p] # "panicked"

-----------------------------------------------------------------------------
(* Liveness. *)

(* A process that has started and seen nothing yet. *)
Fresh(p) ==
    /\ status[p] = "running"
    /\ \A i \in Informers :
         /\ hand[<<p, i>>] = Idle
         /\ queue[<<p, i>>] = <<>>
         /\ cache[<<p, i>>] = [s \in Sources |-> Absent]

Quiet == \A kind \in {"edits", "meddles", "faults", "stops"} : budget[kind] = 0

Healed ==
    \A s \in Watched : Converts(s) =>
        \A t \in Claimed(s, sources[s].spec) : Exclusive(s, t) =>
            \/ copies[t] # Absent /\ ~ copies[t].managed
            \/ InSync(s, t, sources[s].spec)

(* Nothing is retried, but a process start repairs whatever was lost before:
   the first list delivers every source as an Add, and the Add handler turns
   a Create of an existing object into an update.  Once the environment is
   quiet, a fresh process brings every copy that is absent or managed in
   step with its source, for good, unless a handler of it panics.          *)
RestartHeals ==
    \A p \in Procs : (Fresh(p) /\ Quiet) ~> ([]Healed \/ status[p] = "panicked")

(* A source that stays gets its copies (README, "Usage", step 4). *)
EventuallyConverted ==
    \A s \in Watched :
        Converts(s) ~> \/ ~ Converts(s)
                       \/ \A t \in Claimed(s, sources[s].spec) : copies[t] # Absent
=============================================================================
