---------------------------- MODULE FactoryProofs -----------------------------
(***************************************************************************)
(* Theorems about InformerFactory: for any number of types, threads, stop  *)
(* channels and calls, its safety properties hold.                         *)
(***************************************************************************)
EXTENDS InformerFactory, FiniteSetTheorems, TLAPS

(* The counter of the wait group counts the goroutines, which are told apart
   by their numbers and belong to informers that have started.             *)
Counted ==
    /\ IsFiniteSet(runs)
    /\ wg = Cardinality(runs)
    /\ \A run \in runs : /\ run.type \in startedInformers
                         /\ run.nth <= launched[run.type]

(* Each type once, in either map. *)
Once ==
    \A t \in Types : /\ made[t] = IF t \in informers THEN 1 ELSE 0
                     /\ launched[t] = IF t \in startedInformers THEN 1 ELSE 0

(* What holds between the taking and the release of the mutex. *)
Held ==
    \A th \in Threads :
        /\ At(th, "InformerFor") => call[th].type \in Types
        /\ At(th, "make") => /\ lock = th
                             /\ call[th].type \in Types \ informers
        /\ At(th, "Start") => call[th].stop \in Channels
        /\ At(th, "launch") => /\ lock = th
                               /\ ~ shuttingDown
                               /\ call[th].stop \in Channels
                               /\ call[th].todo = informers \ startedInformers

(* The flag goes up before anybody waits, and stays. *)
Down ==
    /\ \A th \in Threads : At(th, "Wait") => shuttingDown
    /\ terminated => shuttingDown /\ runs = {}

(* What a thread knows is so, and becomes so step by step. *)
Knows ==
    \A th \in Threads :
        /\ need[th].asked \subseteq informers
        /\ need[th].begun \subseteq startedInformers
        /\ need[th].ready \subseteq hasSynced
        /\ At(th, "poll") /\ ~ call[th].failed =>
               need[th].begun \subseteq call[th].todo \cup hasSynced

(* The inductive invariant: TypeOK alone is not, nor is any of the others. *)
FactoryInv == TypeOK /\ Counted /\ Once /\ Held /\ Down /\ Knows

-----------------------------------------------------------------------------
(* One lemma for each action, one step for each part of the invariant. *)

(* A call is begun. *)
LEMMA EnterKeeps ==
    ASSUME FactoryInv, NEW th \in Threads, Enter(th)
    PROVE  FactoryInv'
<1> USE FactoryAssumption DEF FactoryInv, Enter
<1>1. TypeOK'
  <2>1. call' \in [Threads -> Call]
    <3>1. PICK m \in {"InformerFor", "Start", "Shutdown", "WaitForCacheSync"},
               t \in Types, ch \in Channels :
            call' = [call EXCEPT ![th] =
                       [Out EXCEPT !.at = m,
                                   !.type = IF m = "InformerFor" THEN t ELSE None,
                                   !.stop = IF m \in {"Start", "WaitForCacheSync"}
                                              THEN ch ELSE None]]
      OBVIOUS
    <3>2. [Out EXCEPT !.at = m,
                      !.type = IF m = "InformerFor" THEN t ELSE None,
                      !.stop = IF m \in {"Start", "WaitForCacheSync"}
                                 THEN ch ELSE None] \in Call
      BY DEF Call, Statement, Out
    <3> QED
      BY <3>1, <3>2 DEF TypeOK
  <2> QED
    BY <2>1 DEF TypeOK, At, Free, Return, Out, shared, outside, Need, Run
<1>2. Counted'
  BY DEF TypeOK, Counted, Run, At, Free, Return, Out, shared, outside
<1>3. Once'
  BY DEF TypeOK, Once, Held, Call, At, Free, Return, Out, shared, outside
<1>4. Held'
  BY DEF TypeOK, Held, Call, Statement, At, Free, Return, Out, shared, outside
<1>5. Down'
  BY DEF TypeOK, Down, Held, Call, Statement, At, Free, Return, Out, shared, outside
<1>6. Knows'
  BY DEF TypeOK, Knows, Held, Call, Need, Statement, At, Free, Return, Out, shared, outside
<1> QED
  BY <1>1, <1>2, <1>3, <1>4, <1>5, <1>6

(* InformerFor finds an informer ... *)
LEMMA FoundKeeps ==
    ASSUME FactoryInv, NEW th \in Threads, Found(th)
    PROVE  FactoryInv'
<1> USE FactoryAssumption DEF FactoryInv, Found
<1>1. TypeOK'
  BY DEF TypeOK, Held, Call, Need, Statement, Run, At, Free, Return, Out, shared, outside
<1>2. Counted'
  BY DEF TypeOK, Counted, Run, At, Free, Return, Out, shared, outside
<1>3. Once'
  BY DEF TypeOK, Once, Held, Call, At, Free, Return, Out, shared, outside
<1>4. Held'
  BY DEF TypeOK, Held, Call, Statement, At, Free, Return, Out, shared, outside
<1>5. Down'
  BY DEF TypeOK, Down, Held, Call, Statement, At, Free, Return, Out, shared, outside
<1>6. Knows'
  BY DEF TypeOK, Knows, Held, Call, Need, Statement, At, Free, Return, Out, shared, outside
<1> QED
  BY <1>1, <1>2, <1>3, <1>4, <1>5, <1>6

(* ... or none ... *)
LEMMA NotFoundKeeps ==
    ASSUME FactoryInv, NEW th \in Threads, NotFound(th)
    PROVE  FactoryInv'
<1> USE FactoryAssumption DEF FactoryInv, NotFound
<1>1. TypeOK'
  <2>1. call' \in [Threads -> Call]
    <3>1. [call[th] EXCEPT !.at = "make"] \in Call
      BY DEF TypeOK, Call, Statement
    <3> QED
      BY <3>1 DEF TypeOK
  <2> QED
    BY <2>1 DEF TypeOK, At, Free, Return, Out, shared, outside, Need, Run
<1>2. Counted'
  BY DEF TypeOK, Counted, Run, At, Free, Return, Out, shared, outside
<1>3. Once'
  BY DEF TypeOK, Once, Held, Call, At, Free, Return, Out, shared, outside
<1>4. Held'
  BY DEF TypeOK, Held, Call, Statement, At, Free, Return, Out, shared, outside
<1>5. Down'
  BY DEF TypeOK, Down, Held, Call, Statement, At, Free, Return, Out, shared, outside
<1>6. Knows'
  BY DEF TypeOK, Knows, Held, Call, Need, Statement, At, Free, Return, Out, shared, outside
<1> QED
  BY <1>1, <1>2, <1>3, <1>4, <1>5, <1>6

(* ... and makes it. *)
LEMMA MakeKeeps ==
    ASSUME FactoryInv, NEW th \in Threads, Make(th)
    PROVE  FactoryInv'
<1> USE FactoryAssumption DEF FactoryInv, Make
<1>1. TypeOK'
  BY DEF TypeOK, Held, Call, Need, Statement, Run, At, Free, Return, Out, shared, outside
<1>2. Counted'
  BY DEF TypeOK, Counted, Run, At, Free, Return, Out, shared, outside
<1>3. Once'
  BY DEF TypeOK, Once, Held, Call, At, Free, Return, Out, shared, outside
<1>4. Held'
  BY DEF TypeOK, Held, Call, Statement, At, Free, Return, Out, shared, outside
<1>5. Down'
  BY DEF TypeOK, Down, Held, Call, Statement, At, Free, Return, Out, shared, outside
<1>6. Knows'
  BY DEF TypeOK, Knows, Held, Call, Need, Statement, At, Free, Return, Out, shared, outside
<1> QED
  BY <1>1, <1>2, <1>3, <1>4, <1>5, <1>6

(* Start after Shutdown. *)
LEMMA StartNothingKeeps ==
    ASSUME FactoryInv, NEW th \in Threads, StartNothing(th)
    PROVE  FactoryInv'
<1> USE FactoryAssumption DEF FactoryInv, StartNothing
<1>1. TypeOK'
  BY DEF TypeOK, Held, Call, Need, Statement, Run, At, Free, Return, Out, shared, outside
<1>2. Counted'
  BY DEF TypeOK, Counted, Run, At, Free, Return, Out, shared, outside
<1>3. Once'
  BY DEF TypeOK, Once, Held, Call, At, Free, Return, Out, shared, outside
<1>4. Held'
  BY DEF TypeOK, Held, Call, Statement, At, Free, Return, Out, shared, outside
<1>5. Down'
  BY DEF TypeOK, Down, Held, Call, Statement, At, Free, Return, Out, shared, outside
<1>6. Knows'
  BY DEF TypeOK, Knows, Held, Call, Need, Statement, At, Free, Return, Out, shared, outside
<1> QED
  BY <1>1, <1>2, <1>3, <1>4, <1>5, <1>6

(* Start takes the mutex ... *)
LEMMA BeginStartKeeps ==
    ASSUME FactoryInv, NEW th \in Threads, BeginStart(th)
    PROVE  FactoryInv'
<1> USE FactoryAssumption DEF FactoryInv, BeginStart
<1>1. TypeOK'
  <2>1. call' \in [Threads -> Call]
    <3>1. [call[th] EXCEPT !.at = "launch", !.todo = informers \ startedInformers] \in Call
      BY DEF TypeOK, Call, Statement
    <3> QED
      BY <3>1 DEF TypeOK
  <2> QED
    BY <2>1 DEF TypeOK, At, Free, Return, Out, shared, outside, Need, Run
<1>2. Counted'
  BY DEF TypeOK, Counted, Run, At, Free, Return, Out, shared, outside
<1>3. Once'
  BY DEF TypeOK, Once, Held, Call, At, Free, Return, Out, shared, outside
<1>4. Held'
  BY DEF TypeOK, Held, Call, Statement, At, Free, Return, Out, shared, outside
<1>5. Down'
  BY DEF TypeOK, Down, Held, Call, Statement, At, Free, Return, Out, shared, outside
<1>6. Knows'
  BY DEF TypeOK, Knows, Held, Call, Need, Statement, At, Free, Return, Out, shared, outside
<1> QED
  BY <1>1, <1>2, <1>3, <1>4, <1>5, <1>6

(* ... launches a goroutine, which is none of those there are ... *)
LEMMA LaunchKeeps ==
    ASSUME FactoryInv, NEW th \in Threads, Launch(th)
    PROVE  FactoryInv'
<1> USE FactoryAssumption DEF FactoryInv, Launch
<1>1. TypeOK'
  BY DEF TypeOK, Held, Call, Need, Statement, Run, At, Free, Return, Out, shared, outside
<1>2. Counted'
  <2>1. PICK t \in call[th].todo :
            LET run == [type |-> t, nth |-> launched[t] + 1, stop |-> call[th].stop]
            IN  /\ wg' = wg + 1
                /\ launched' = [launched EXCEPT ![t] = @ + 1]
                /\ startedInformers' = startedInformers \cup {t}
                /\ runs' = runs \cup {run}
    OBVIOUS
  <2> DEFINE run == [type |-> t, nth |-> launched[t] + 1, stop |-> call[th].stop]
  <2>2. t \in Types /\ launched[t] \in Nat
    BY DEF TypeOK, Call
  <2>3. run \notin runs
    BY <2>2 DEF Counted
  <2>4. IsFiniteSet(runs \cup {run})
        /\ Cardinality(runs \cup {run}) = Cardinality(runs) + 1
    BY <2>3, FS_AddElement DEF Counted
  <2>5. ASSUME NEW r \in runs \cup {run}
        PROVE  r.nth <= launched'[r.type] /\ r.type \in startedInformers'
    BY <2>1, <2>2 DEF TypeOK, Run, Counted
  <2> QED
    BY <2>1, <2>4, <2>5 DEF Counted
<1>3. Once'
  BY DEF TypeOK, Once, Held, Call, At, Free, Return, Out, shared, outside
<1>4. Held'
  BY DEF TypeOK, Held, Call, Statement, At, Free, Return, Out, shared, outside
<1>5. Down'
  BY DEF TypeOK, Down, Held, Call, Statement, At, Free, Return, Out, shared, outside
<1>6. Knows'
  BY DEF TypeOK, Knows, Held, Call, Need, Statement, At, Free, Return, Out, shared, outside
<1> QED
  BY <1>1, <1>2, <1>3, <1>4, <1>5, <1>6

(* ... and ends: what its thread asked for is started. *)
LEMMA EndStartKeeps ==
    ASSUME FactoryInv, NEW th \in Threads, EndStart(th)
    PROVE  FactoryInv'
<1> USE FactoryAssumption DEF FactoryInv, EndStart
<1>1. TypeOK'
  BY DEF TypeOK, Held, Call, Need, Statement, Run, At, Free, Return, Out, shared, outside
<1>2. Counted'
  BY DEF TypeOK, Counted, Run, At, Free, Return, Out, shared, outside
<1>3. Once'
  BY DEF TypeOK, Once, Held, Call, At, Free, Return, Out, shared, outside
<1>4. Held'
  BY DEF TypeOK, Held, Call, Statement, At, Free, Return, Out, shared, outside
<1>5. Down'
  BY DEF TypeOK, Down, Held, Call, Statement, At, Free, Return, Out, shared, outside
<1>6. Knows'
  BY DEF TypeOK, Knows, Held, Call, Need, Statement, At, Free, Return, Out, shared, outside
<1> QED
  BY <1>1, <1>2, <1>3, <1>4, <1>5, <1>6

(* Shutdown raises the flag ... *)
LEMMA BeginShutdownKeeps ==
    ASSUME FactoryInv, NEW th \in Threads, BeginShutdown(th)
    PROVE  FactoryInv'
<1> USE FactoryAssumption DEF FactoryInv, BeginShutdown
<1>1. TypeOK'
  BY DEF TypeOK, Held, Call, Need, Statement, Run, At, Free, Return, Out, shared, outside
<1>2. Counted'
  BY DEF TypeOK, Counted, Run, At, Free, Return, Out, shared, outside
<1>3. Once'
  BY DEF TypeOK, Once, Held, Call, At, Free, Return, Out, shared, outside
<1>4. Held'
  BY DEF TypeOK, Held, Call, Statement, At, Free, Return, Out, shared, outside
<1>5. Down'
  BY DEF TypeOK, Down, Held, Call, Statement, At, Free, Return, Out, shared, outside
<1>6. Knows'
  BY DEF TypeOK, Knows, Held, Call, Need, Statement, At, Free, Return, Out, shared, outside
<1> QED
  BY <1>1, <1>2, <1>3, <1>4, <1>5, <1>6

(* ... and returns when the counter is 0, which means that nothing runs. *)
LEMMA EndShutdownKeeps ==
    ASSUME FactoryInv, NEW th \in Threads, EndShutdown(th)
    PROVE  FactoryInv'
<1> USE FactoryAssumption DEF FactoryInv, EndShutdown
<1>1. TypeOK'
  BY DEF TypeOK, Held, Call, Need, Statement, Run, At, Free, Return, Out, shared, outside
<1>2. Counted'
  BY DEF TypeOK, Counted, Run, At, Free, Return, Out, shared, outside
<1>3. Once'
  BY DEF TypeOK, Once, Held, Call, At, Free, Return, Out, shared, outside
<1>4. Held'
  BY DEF TypeOK, Held, Call, Statement, At, Free, Return, Out, shared, outside
<1>5. Down'
  <2>1. runs = {}
    BY FS_EmptySet DEF Counted
  <2>2. \A x \in Threads : At(x, "Wait")' => At(x, "Wait")
    BY DEF TypeOK, At, Return, Out
  <2> QED
    BY <2>1, <2>2 DEF Down, At, shared, outside
<1>6. Knows'
  BY DEF TypeOK, Knows, Held, Call, Need, Statement, At, Free, Return, Out, shared, outside
<1> QED
  BY <1>1, <1>2, <1>3, <1>4, <1>5, <1>6

(* WaitForCacheSync copies what is started ... *)
LEMMA CopyStartedKeeps ==
    ASSUME FactoryInv, NEW th \in Threads, CopyStarted(th)
    PROVE  FactoryInv'
<1> USE FactoryAssumption DEF FactoryInv, CopyStarted
<1>1. TypeOK'
  <2>1. call' \in [Threads -> Call]
    <3>1. [call[th] EXCEPT !.at = "poll", !.todo = startedInformers] \in Call
      BY DEF TypeOK, Call, Statement
    <3> QED
      BY <3>1 DEF TypeOK
  <2> QED
    BY <2>1 DEF TypeOK, At, Free, Return, Out, shared, outside, Need, Run
<1>2. Counted'
  BY DEF TypeOK, Counted, Run, At, Free, Return, Out, shared, outside
<1>3. Once'
  BY DEF TypeOK, Once, Held, Call, At, Free, Return, Out, shared, outside
<1>4. Held'
  BY DEF TypeOK, Held, Call, Statement, At, Free, Return, Out, shared, outside
<1>5. Down'
  BY DEF TypeOK, Down, Held, Call, Statement, At, Free, Return, Out, shared, outside
<1>6. Knows'
  BY DEF TypeOK, Knows, Held, Call, Need, Statement, At, Free, Return, Out, shared, outside
<1> QED
  BY <1>1, <1>2, <1>3, <1>4, <1>5, <1>6

(* ... waits for one informer: it is visited, and if the answer is true its
   store is filled. *)
LEMMA PollKeeps ==
    ASSUME FactoryInv, NEW th \in Threads, Poll(th)
    PROVE  FactoryInv'
<1> USE FactoryAssumption DEF FactoryInv
<1>1. UNCHANGED <<lock, shared, outside, need, terminated, calls>> /\ At(th, "poll")
  BY DEF Poll
<1>2. PICK t \in call[th].todo :
        \/ /\ t \in hasSynced
           /\ call' = [call EXCEPT ![th].todo = @ \ {t}]
        \/ call' = [call EXCEPT ![th].todo = @ \ {t}, ![th].failed = TRUE]
  BY DEF Poll
<1>3. /\ call' \in [Threads -> Call]
      /\ call'[th].at = "poll"
      /\ call'[th].todo = call[th].todo \ {t}
      /\ ~ call'[th].failed => t \in hasSynced /\ ~ call[th].failed
      /\ \A x \in Threads \ {th} : call'[x] = call[x]
  <2>0. call[th] \in Call /\ call \in [Threads -> Call]
    BY DEF TypeOK
  <2>1. CASE t \in hasSynced /\ call' = [call EXCEPT ![th].todo = @ \ {t}]
    <3>1. [call[th] EXCEPT !.todo = @ \ {t}] \in Call
      BY <2>0 DEF Call
    <3>2. call' = [call EXCEPT ![th] = [call[th] EXCEPT !.todo = @ \ {t}]]
      BY <2>0, <2>1
    <3> QED
      BY <1>1, <2>0, <2>1, <3>1, <3>2 DEF At, Call
  <2>2. CASE call' = [call EXCEPT ![th].todo = @ \ {t}, ![th].failed = TRUE]
    <3>1. [call[th] EXCEPT !.todo = @ \ {t}, !.failed = TRUE] \in Call
      BY <2>0 DEF Call
    <3>2. call' = [call EXCEPT ![th] =
                     [call[th] EXCEPT !.todo = @ \ {t}, !.failed = TRUE]]
      BY <2>0, <2>2
    <3> QED
      BY <1>1, <2>0, <3>1, <3>2 DEF At, Call
  <2> QED
    BY <1>2, <2>1, <2>2
<1>4. TypeOK'
  BY <1>1, <1>3 DEF TypeOK, Need, Run, shared, outside
<1>5. Counted' /\ Once'
  BY <1>1 DEF Counted, Once, shared, outside
<1>6. Held'
  BY <1>1, <1>3 DEF Held, At, shared, outside
<1>7. Down'
  BY <1>1, <1>3 DEF Down, At, shared, outside
<1>8. Knows'
  BY <1>1, <1>3 DEF Knows, At, shared, outside
<1> QED
  BY <1>4, <1>5, <1>6, <1>7, <1>8

(* ... and has waited for all. *)
LEMMA EndWaitKeeps ==
    ASSUME FactoryInv, NEW th \in Threads, EndWait(th)
    PROVE  FactoryInv'
<1> USE FactoryAssumption DEF FactoryInv, EndWait
<1>1. TypeOK'
  BY DEF TypeOK, Held, Call, Need, Statement, Run, At, Free, Return, Out, shared, outside
<1>2. Counted'
  BY DEF TypeOK, Counted, Run, At, Free, Return, Out, shared, outside
<1>3. Once'
  BY DEF TypeOK, Once, Held, Call, At, Free, Return, Out, shared, outside
<1>4. Held'
  BY DEF TypeOK, Held, Call, Statement, At, Free, Return, Out, shared, outside
<1>5. Down'
  BY DEF TypeOK, Down, Held, Call, Statement, At, Free, Return, Out, shared, outside
<1>6. Knows'
  BY DEF TypeOK, Knows, Held, Call, Need, Statement, At, Free, Return, Out, shared, outside
<1> QED
  BY <1>1, <1>2, <1>3, <1>4, <1>5, <1>6

(* An informer fills its store ... *)
LEMMA SyncKeeps ==
    ASSUME FactoryInv, NEW run \in runs, Sync(run)
    PROVE  FactoryInv'
<1> USE FactoryAssumption DEF FactoryInv, Sync
<1>1. TypeOK'
  BY DEF TypeOK, Counted, Held, Call, Need, Statement, Run, At, Free, Return, Out, shared, outside
<1>2. Counted'
  BY DEF TypeOK, Counted, Run, At, Free, Return, Out, shared, outside
<1>3. Once'
  BY DEF TypeOK, Once, Held, Call, At, Free, Return, Out, shared, outside
<1>4. Held'
  BY DEF TypeOK, Held, Call, Statement, At, Free, Return, Out, shared, outside
<1>5. Down'
  BY DEF TypeOK, Down, Held, Call, Statement, At, Free, Return, Out, shared, outside
<1>6. Knows'
  BY DEF TypeOK, Knows, Held, Call, Need, Statement, At, Free, Return, Out, shared, outside
<1> QED
  BY <1>1, <1>2, <1>3, <1>4, <1>5, <1>6

(* ... its goroutine ends ... *)
LEMMA EndKeeps ==
    ASSUME FactoryInv, NEW run \in runs, End(run)
    PROVE  FactoryInv'
<1> USE FactoryAssumption DEF FactoryInv, End
<1>1. TypeOK'
  <2>1. wg - 1 \in Nat
    BY FS_CardinalityType, FS_EmptySet DEF Counted
  <2> QED
    BY <2>1 DEF TypeOK
<1>2. Counted'
  <2>1. IsFiniteSet(runs \ {run}) /\ Cardinality(runs \ {run}) = Cardinality(runs) - 1
    BY FS_RemoveElement DEF Counted
  <2> QED
    BY <2>1 DEF Counted
<1>3. Once'
  BY DEF TypeOK, Once, Held, Call, At, Free, Return, Out, shared, outside
<1>4. Held'
  BY DEF TypeOK, Held, Call, Statement, At, Free, Return, Out, shared, outside
<1>5. Down'
  BY DEF TypeOK, Down, Held, Call, Statement, At, Free, Return, Out, shared, outside
<1>6. Knows'
  BY DEF TypeOK, Knows, Held, Call, Need, Statement, At, Free, Return, Out, shared, outside
<1> QED
  BY <1>1, <1>2, <1>3, <1>4, <1>5, <1>6

(* ... and a channel is closed. *)
LEMMA CloseKeeps ==
    ASSUME FactoryInv, NEW ch \in Channels, Close(ch)
    PROVE  FactoryInv'
<1> USE FactoryAssumption DEF FactoryInv, Close
<1>1. TypeOK'
  BY DEF TypeOK, Held, Call, Need, Statement, Run, At, Free, Return, Out, shared, outside
<1>2. Counted'
  BY DEF TypeOK, Counted, Run, At, Free, Return, Out, shared, outside
<1>3. Once'
  BY DEF TypeOK, Once, Held, Call, At, Free, Return, Out, shared, outside
<1>4. Held'
  BY DEF TypeOK, Held, Call, Statement, At, Free, Return, Out, shared, outside
<1>5. Down'
  BY DEF TypeOK, Down, Held, Call, Statement, At, Free, Return, Out, shared, outside
<1>6. Knows'
  BY DEF TypeOK, Knows, Held, Call, Need, Statement, At, Free, Return, Out, shared, outside
<1> QED
  BY <1>1, <1>2, <1>3, <1>4, <1>5, <1>6

-----------------------------------------------------------------------------

LEMMA FactoryStarts == Init => FactoryInv
<1> SUFFICES ASSUME Init PROVE FactoryInv
  OBVIOUS
<1> USE FactoryAssumption DEF Init
<1>1. TypeOK
  BY DEF TypeOK, Call, Need, Statement, Out
<1>2. Counted
  BY FS_EmptySet DEF Counted
<1>3. Once /\ Held /\ Down /\ Knows
  BY DEF Once, Held, Down, Knows, At, Out
<1> QED
  BY <1>1, <1>2, <1>3 DEF FactoryInv

LEMMA FactoryStep == FactoryInv /\ [Next]_vars => FactoryInv'
<1> SUFFICES ASSUME FactoryInv, [Next]_vars PROVE FactoryInv'
  OBVIOUS
<1>1. CASE UNCHANGED vars
  BY <1>1 DEF vars, shared, outside, FactoryInv, TypeOK, Counted, Once, Held, Down,
              Knows, At
<1>2. ASSUME NEW th \in Threads, Enter(th) \/ Proceed(th) PROVE FactoryInv'
  BY <1>2, EnterKeeps, FoundKeeps, NotFoundKeeps, MakeKeeps, StartNothingKeeps,
     BeginStartKeeps, LaunchKeeps, EndStartKeeps, BeginShutdownKeeps,
     EndShutdownKeeps, CopyStartedKeeps, PollKeeps, EndWaitKeeps DEF Proceed
<1>3. ASSUME NEW run \in runs, Sync(run) \/ End(run) PROVE FactoryInv'
  BY <1>3, SyncKeeps, EndKeeps
<1>4. ASSUME NEW ch \in Channels, Close(ch) PROVE FactoryInv'
  BY <1>4, CloseKeeps
<1> QED
  BY <1>1, <1>2, <1>3, <1>4 DEF Next

LEMMA FactoryInvariant == Spec => []FactoryInv
BY FactoryStarts, FactoryStep, PTL DEF Spec

(* The factory's state stays well-formed: what has started was made, stores
   are filled only by started informers, the counter does not go below 0 (the
   wait group would panic).                                                 *)
THEOREM FactoryTypeCorrect == Spec => []TypeOK
<1>1. FactoryInv => TypeOK
  BY DEF FactoryInv
<1> QED
  BY <1>1, FactoryInvariant, PTL

(* No type gets a second informer or a second goroutine. *)
THEOREM OneInformerPerType == Spec => []OneInformer
<1>1. FactoryInv => OneInformer
  BY DEF FactoryInv, Once, OneInformer
<1> QED
  BY <1>1, FactoryInvariant, PTL

(* After a Shutdown that has returned nothing runs, for ever. *)
THEOREM ShutdownIsFinal == Spec => []NothingRunsAfterShutdown
<1>1. FactoryInv => NothingRunsAfterShutdown
  BY DEF FactoryInv, Down, NothingRunsAfterShutdown
<1> QED
  BY <1>1, FactoryInvariant, PTL

(* What WaitForCacheSync reports covers what its caller started. *)
THEOREM ReadyIsSynced == Spec => []ReadyMeansSynced
<1>1. FactoryInv => ReadyMeansSynced
  BY DEF FactoryInv, Knows, ReadyMeansSynced
<1> QED
  BY <1>1, FactoryInvariant, PTL
=============================================================================
