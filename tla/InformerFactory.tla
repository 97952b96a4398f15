--------------------------- MODULE InformerFactory ----------------------------
(***************************************************************************)
(* sharedInformerFactory (informers/externalversions/factory.go): several  *)
(* goroutines call InformerFor, Start, WaitForCacheSync and Shutdown of    *)
(* one factory while the informers it has started run.  The mutex is       *)
(* modelled as such: a call takes it, works in steps and releases it; the  *)
(* waiting of WaitForCacheSync and Shutdown happens without it.            *)
(***************************************************************************)
EXTENDS Integers, FiniteSets

CONSTANTS
    Types,      \* types of objects: the keys of informers
    Threads,    \* goroutines that use the factory
    Channels,   \* stop channels
    None,       \* no thread, no type, no channel
    Calls       \* bound: calls of the factory's methods

ASSUME FactoryAssumption ==
    /\ None \notin Threads \cup Types \cup Channels
    /\ Calls \in Nat

VARIABLES
    lock,              \* f.lock: the thread that holds it
    informers,         \* keys of f.informers
    startedInformers,  \* keys of f.startedInformers
    shuttingDown,      \* f.shuttingDown
    wg,                \* the counter of f.wg
    runs,              \* goroutines inside informer.Run
    hasSynced,         \* types whose informer has its first list in its store
    closed,            \* channels that are closed
    call,              \* the call each thread is in
    made, launched,    \* history: informers made and goroutines launched, by type
    need,              \* history: what a thread may rely on
    terminated,        \* history: a call of Shutdown has returned
    calls              \* calls that may still be made

shared == <<informers, startedInformers, shuttingDown, wg, made, launched>>
outside == <<runs, hasSynced, closed>>
vars == <<lock, shared, outside, call, need, terminated, calls>>

Statement == {"out",                                \* in no call
              "InformerFor", "make",                \* lock; exists?; newFunc
              "Start", "launch",                    \* lock, flag; the loop
              "Shutdown", "Wait",                   \* lock, flag; f.wg.Wait
              "WaitForCacheSync", "poll"}           \* lock, copy; the loop

(* The parameters of a call, the informers its loop has still to visit, and
   whether one of its answers was false.                                    *)
Call == [at : Statement, type : Types \cup {None}, stop : Channels \cup {None},
         todo : SUBSET Types, failed : BOOLEAN]

Out == [at |-> "out", type |-> None, stop |-> None, todo |-> {}, failed |-> FALSE]

Run == [type : Types, nth : Nat, stop : Channels]

(* Types a thread asked an informer for; those it asked for before its last
   Start; those whose caches WaitForCacheSync has reported to it as synced. *)
Need == [asked : SUBSET Types, begun : SUBSET Types, ready : SUBSET Types]

TypeOK ==
    /\ lock \in Threads \cup {None}
    /\ informers \subseteq Types
    /\ startedInformers \subseteq informers
    /\ shuttingDown \in BOOLEAN
    /\ wg \in Nat
    /\ runs \subseteq Run
    /\ hasSynced \subseteq startedInformers
    /\ closed \subseteq Channels
    /\ call \in [Threads -> Call]
    /\ made \in [Types -> Nat]
    /\ launched \in [Types -> Nat]
    /\ need \in [Threads -> Need]
    /\ terminated \in BOOLEAN
    /\ calls \in Nat

Init ==
    /\ lock = None
    /\ informers = {}
    /\ startedInformers = {}
    /\ shuttingDown = FALSE
    /\ wg = 0
    /\ runs = {}
    /\ hasSynced = {}
    /\ closed = {}
    /\ call = [th \in Threads |-> Out]
    /\ made = [t \in Types |-> 0]
    /\ launched = [t \in Types |-> 0]
    /\ need = [th \in Threads |-> [asked |-> {}, begun |-> {}, ready |-> {}]]
    /\ terminated = FALSE
    /\ calls = Calls

-----------------------------------------------------------------------------
(* Calls: a method is entered, and takes the mutex as its first statement. *)

At(th, statement) == call[th].at = statement

Enter(th) ==
    /\ At(th, "out")
    /\ calls > 0
    /\ calls' = calls - 1
    /\ \E method \in {"InformerFor", "Start", "Shutdown", "WaitForCacheSync"},
          t \in Types, ch \in Channels :
         call' = [call EXCEPT ![th] =
                    [Out EXCEPT !.at = method,
                                !.type = IF method = "InformerFor" THEN t ELSE None,
                                !.stop = IF method \in {"Start", "WaitForCacheSync"}
                                           THEN ch ELSE None]]
    /\ UNCHANGED <<lock, shared, outside, need, terminated>>

(* Mutant: a method that does not wait for the mutex. *)
FreeNoMutex == TRUE

Free == lock = None

(* A call that is over; need is what its thread knows then. *)
Return(th) == call' = [call EXCEPT ![th] = Out]

(* InformerFor: the informer that exists is returned ... *)
Found(th) ==
    /\ At(th, "InformerFor")
    /\ Free
    /\ call[th].type \in informers
    /\ Return(th)
    /\ need' = [need EXCEPT ![th].asked = @ \cup {call[th].type}]
    /\ UNCHANGED <<lock, shared, outside, terminated, calls>>

(* ... or one is made by newFunc, with the mutex held. *)
NotFound(th) ==
    /\ At(th, "InformerFor")
    /\ Free
    /\ call[th].type \notin informers
    /\ lock' = th
    /\ call' = [call EXCEPT ![th].at = "make"]
    /\ UNCHANGED <<shared, outside, need, terminated, calls>>

Make(th) ==
    /\ At(th, "make")
    /\ LET t == call[th].type
       IN  /\ informers' = informers \cup {t}
           /\ made' = [made EXCEPT ![t] = @ + 1]
           /\ need' = [need EXCEPT ![th].asked = @ \cup {t}]
    /\ lock' = None
    /\ Return(th)
    /\ UNCHANGED <<startedInformers, shuttingDown, wg, launched, outside,
                   terminated, calls>>

(* Start does nothing once the factory is shutting down. *)
StartNothing(th) ==
    /\ At(th, "Start")
    /\ Free
    /\ shuttingDown
    /\ Return(th)
    /\ UNCHANGED <<lock, shared, outside, need, terminated, calls>>

(* Mutant: the loop visits every informer there is. *)
BeginStartAll(th) ==
    /\ At(th, "Start")
    /\ Free
    /\ ~ shuttingDown
    /\ lock' = th
    /\ call' = [call EXCEPT ![th].at = "launch", ![th].todo = informers]
    /\ UNCHANGED <<shared, outside, need, terminated, calls>>

BeginStart(th) ==
    /\ At(th, "Start")
    /\ Free
    /\ ~ shuttingDown
    /\ lock' = th
    /\ call' = [call EXCEPT ![th].at = "launch",
                            ![th].todo = informers \ startedInformers]
    /\ UNCHANGED <<shared, outside, need, terminated, calls>>

(* Mutant: the goroutine is not counted. *)
LaunchUncounted(th) ==
    /\ At(th, "launch")
    /\ \E t \in call[th].todo :
         /\ launched' = [launched EXCEPT ![t] = @ + 1]
         /\ runs' = runs \cup {[type |-> t, nth |-> launched[t] + 1,
                                stop |-> call[th].stop]}
         /\ startedInformers' = startedInformers \cup {t}
         /\ call' = [call EXCEPT ![th].todo = @ \ {t}]
    /\ UNCHANGED <<lock, informers, shuttingDown, wg, made, hasSynced, closed, need,
                   terminated, calls>>

(* One iteration: the goroutine is launched and counted, and remembered as
   started.  The order of a map's iteration is any.                         *)
Launch(th) ==
    /\ At(th, "launch")
    /\ \E t \in call[th].todo :
         /\ wg' = wg + 1
         /\ launched' = [launched EXCEPT ![t] = @ + 1]
         /\ runs' = runs \cup {[type |-> t, nth |-> launched[t] + 1,
                                stop |-> call[th].stop]}
         /\ startedInformers' = startedInformers \cup {t}
         /\ call' = [call EXCEPT ![th].todo = @ \ {t}]
    /\ UNCHANGED <<lock, informers, shuttingDown, made, hasSynced, closed, need,
                   terminated, calls>>

EndStart(th) ==
    /\ At(th, "launch")
    /\ call[th].todo = {}
    /\ lock' = None
    /\ Return(th)
    /\ need' = [need EXCEPT ![th].begun = need[th].asked]
    /\ UNCHANGED <<shared, outside, terminated, calls>>

(* Mutant: the flag is not set. *)
BeginShutdownUnmarked(th) ==
    /\ At(th, "Shutdown")
    /\ Free
    /\ call' = [call EXCEPT ![th].at = "Wait"]
    /\ UNCHANGED <<lock, shared, outside, need, terminated, calls>>

BeginShutdown(th) ==
    /\ At(th, "Shutdown")
    /\ Free
    /\ shuttingDown' = TRUE
    /\ call' = [call EXCEPT ![th].at = "Wait"]
    /\ UNCHANGED <<lock, informers, startedInformers, wg, made, launched, outside,
                   need, terminated, calls>>

(* Mutant: Shutdown returns without f.wg.Wait. *)
EndShutdownAtOnce(th) ==
    /\ At(th, "Wait")
    /\ terminated' = TRUE
    /\ Return(th)
    /\ UNCHANGED <<lock, shared, outside, need, calls>>

EndShutdown(th) ==
    /\ At(th, "Wait")
    /\ wg = 0
    /\ terminated' = TRUE
    /\ Return(th)
    /\ UNCHANGED <<lock, shared, outside, need, calls>>

(* WaitForCacheSync copies what is started, with the mutex held, and waits
   for one after the other without it.                                      *)
CopyStarted(th) ==
    /\ At(th, "WaitForCacheSync")
    /\ Free
    /\ call' = [call EXCEPT ![th].at = "poll", ![th].todo = startedInformers]
    /\ UNCHANGED <<lock, shared, outside, need, terminated, calls>>

(* Mutants: nothing but the store ends the waiting, or nothing does. *)
PollStoreOnly(th) ==
    /\ At(th, "poll")
    /\ \E t \in call[th].todo \cap hasSynced :
         call' = [call EXCEPT ![th].todo = @ \ {t}]
    /\ UNCHANGED <<lock, shared, outside, need, terminated, calls>>

PollForgetful(th) ==
    /\ At(th, "poll")
    /\ \E t \in call[th].todo :
         /\ t \in hasSynced \/ call[th].stop \in closed
         /\ call' = [call EXCEPT ![th].todo = @ \ {t}]
    /\ UNCHANGED <<lock, shared, outside, need, terminated, calls>>

Poll(th) ==
    /\ At(th, "poll")
    /\ \E t \in call[th].todo :
         \/ /\ t \in hasSynced
            /\ call' = [call EXCEPT ![th].todo = @ \ {t}]
         \/ /\ call[th].stop \in closed
            /\ call' = [call EXCEPT ![th].todo = @ \ {t}, ![th].failed = TRUE]
    /\ UNCHANGED <<lock, shared, outside, need, terminated, calls>>

EndWait(th) ==
    /\ At(th, "poll")
    /\ call[th].todo = {}
    /\ Return(th)
    /\ need' = IF call[th].failed THEN need
               ELSE [need EXCEPT ![th].ready = need[th].begun]
    /\ UNCHANGED <<lock, shared, outside, terminated, calls>>

-----------------------------------------------------------------------------
(* Informers (client-go).  informer.Run fills the store, also while it is
   being stopped, and returns once its channel is closed, filled or not; the
   deferred wg.Done follows.                                                *)

Sync(run) ==
    /\ run.type \notin hasSynced
    /\ hasSynced' = hasSynced \cup {run.type}
    /\ UNCHANGED <<lock, shared, runs, closed, call, need, terminated, calls>>

End(run) ==
    /\ run.stop \in closed
    /\ runs' = runs \ {run}
    /\ wg' = wg - 1
    /\ UNCHANGED <<lock, informers, startedInformers, shuttingDown, made, launched,
                   hasSynced, closed, call, need, terminated, calls>>

Close(ch) ==
    /\ ch \notin closed
    /\ closed' = closed \cup {ch}
    /\ UNCHANGED <<lock, shared, runs, hasSynced, call, need, terminated, calls>>

-----------------------------------------------------------------------------

Proceed(th) ==
    \/ Found(th) \/ NotFound(th) \/ Make(th)
    \/ StartNothing(th) \/ BeginStart(th) \/ Launch(th) \/ EndStart(th)
    \/ BeginShutdown(th) \/ EndShutdown(th)
    \/ CopyStarted(th) \/ Poll(th) \/ EndWait(th)

Next ==
    \/ \E th \in Threads : Enter(th) \/ Proceed(th)
    \/ \E run \in runs : Sync(run) \/ End(run)
    \/ \E ch \in Channels : Close(ch)

Spec == Init /\ [][Next]_vars

(* Goroutines are scheduled, a mutex that is free again and again is got in
   the end, informers return from Run when their channel is closed.  Nobody
   is bound to close a channel or to make a call.                           *)
Fairness ==
    /\ \A th \in Threads : SF_vars(Proceed(th))
    /\ \A t \in Types : WF_vars(\E run \in runs : run.type = t /\ End(run))

FairSpec == Spec /\ Fairness

-----------------------------------------------------------------------------
(* Properties *)

(* However InformerFor and Start are interleaved, a type has one informer and
   its Run is called once ("allows Start() to be called multiple times
   safely").                                                                *)
OneInformer == \A t \in Types : made[t] <= 1 /\ launched[t] <= 1

(* Once a call of Shutdown has returned, no goroutine of the factory runs:
   neither one that was launched before it nor, by a Start that overlaps it or
   comes later, a new one.                                                  *)
NothingRunsAfterShutdown == terminated => runs = {}

(* A goroutine that asked for informers, called Start and got only true from
   WaitForCacheSync, as the comment of SharedInformerFactory says, has these
   informers' stores filled: whoever else asks, starts and stops meanwhile. *)
ReadyMeansSynced == \A th \in Threads : need[th].ready \subseteq hasSynced

(* Shutdown returns when the channels of the goroutines are closed, "either
   before Shutdown gets called or while it is waiting".                     *)
ShutdownReturns ==
    \A th \in Threads :
        (At(th, "Wait") /\ \A run \in runs : run.stop \in closed)
            ~> At(th, "out")

(* WaitForCacheSync returns when its own channel is closed, even if an
   informer's goroutine ended without having filled its store.              *)
WaitReturns ==
    \A th \in Threads :
        (At(th, "poll") /\ call[th].stop \in closed) ~> At(th, "out")
=============================================================================
