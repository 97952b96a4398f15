----------------------------- MODULE SyncProofs -------------------------------
(***************************************************************************)
(* Converter keeps the copies in step with their sources, for every value  *)
(* of the constants: however many processes and informers follow a source, *)
(* and however their events, calls and endings interleave.                 *)
(***************************************************************************)
EXTENDS UpsertProofs

-----------------------------------------------------------------------------
(* The inductive invariant, besides Converging and Forgotten. *)

(* What informers and handlers know of a source is a state it may be in, and
   the source is one that they watch.                                       *)
Genuine ==
    /\ \A s \in Sources : sources[s] \in SourceOf(s) \cup {Absent}
    /\ \A w \in Workers, s \in Sources :
         cache[w][s] # Absent =>
            s \in Watches[w[2]] /\ cache[w][s] \in SourceOf(s)
    /\ \A w \in Workers : \A i \in DOMAIN queue[w] :
         /\ queue[w][i].source \in Watches[w[2]]
         /\ queue[w][i].new \in SourceOf(queue[w][i].source)
    /\ \A w \in Workers : \A i \in DOMAIN hand[w].todo :
         \E s \in Watches[w[2]] : \E spec \in SpecsOf[s] :
            hand[w].todo[i].target \in Claimed(s, spec)

(* A worker between two handler calls has nothing in hand. *)
IdleHands == \A w \in Workers : hand[w].pc = "idle" => hand[w].todo = <<>>

(* Event i of a queue is not the last news of its source. *)
NewsAfter(w, i) ==
    \E j \in DOMAIN queue[w] :
        /\ j > i
        /\ queue[w][j].source = queue[w][i].source
        /\ ~ NoDiff(queue[w][j])

(* The last event of a source that a handler does not pass over ends at the
   spec that the store holds.                                               *)
Chained ==
    \A w \in Workers : \A i \in DOMAIN queue[w] :
        LET known == cache[w][queue[w][i].source]
        IN  known = Absent \/ known.spec = queue[w][i].new.spec \/ NewsAfter(w, i)

(* No later job in hand has the target of job i. *)
LastJob(w, i) ==
    \A j \in DOMAIN hand[w].todo :
        hand[w].todo[j].target = hand[w].todo[i].target => j <= i

(* What a handler is going to leave at a target is what the store holds, if no
   news is waiting.                                                         *)
UpToDate ==
    \A w \in Workers : \A i \in DOMAIN hand[w].todo :
        LastJob(w, i) =>
            \A s \in Watches[w[2]] :
                Exclusive(s, hand[w].todo[i].target) =>
                    \/ cache[w][s] = Absent
                    \/ News(w, s)
                    \/ hand[w].todo[i].spec.content =
                         LastContent(s, hand[w].todo[i].target, cache[w][s].spec)

Pipelines == Genuine /\ IdleHands /\ Chained /\ UpToDate

SyncInv == Forgotten /\ Pipelines /\ Converging

-----------------------------------------------------------------------------
(* Sequences: the indices of Tail and Append. *)

LEMMA TailIndices ==
    ASSUME NEW S, NEW seq \in Seq(S), seq # <<>>
    PROVE  /\ Head(seq) = seq[1] /\ 1 \in DOMAIN seq
           /\ \A i \in DOMAIN seq : i \in Nat /\ i >= 1
           /\ \A i \in DOMAIN Tail(seq) :
                /\ i \in Nat /\ i >= 1
                /\ i + 1 \in DOMAIN seq /\ Tail(seq)[i] = seq[i + 1]
           /\ \A i \in DOMAIN seq :
                i > 1 => i - 1 \in DOMAIN Tail(seq) /\ Tail(seq)[i - 1] = seq[i]
<1>1. /\ Len(seq) \in Nat \ {0}
      /\ DOMAIN seq = 1 .. Len(seq)
      /\ Tail(seq) \in Seq(S)
      /\ Len(Tail(seq)) = Len(seq) - 1
      /\ \A i \in 1 .. Len(Tail(seq)) : Tail(seq)[i] = seq[i + 1]
    BY HeadTailProperties, LenProperties, EmptySeq
<1>2. DOMAIN Tail(seq) = 1 .. Len(seq) - 1
    BY <1>1, LenProperties
<1>3. Head(seq) = seq[1]
    OBVIOUS
<1> QED BY <1>1, <1>2, <1>3

LEMMA AppendIndices ==
    ASSUME NEW S, NEW seq \in Seq(S), NEW e \in S
    PROVE  \E n \in Nat :
              /\ DOMAIN seq = 1 .. n
              /\ DOMAIN Append(seq, e) = 1 .. n + 1
              /\ Append(seq, e)[n + 1] = e
              /\ \A i \in 1 .. n : Append(seq, e)[i] = seq[i]
<1>1. Len(seq) \in Nat /\ DOMAIN seq = 1 .. Len(seq)
    BY LenProperties
<1>2. /\ Append(seq, e) \in Seq(S)
      /\ Len(Append(seq, e)) = Len(seq) + 1
      /\ Append(seq, e)[Len(seq) + 1] = e
      /\ \A i \in 1 .. Len(seq) : Append(seq, e)[i] = seq[i]
    BY AppendProperties
<1>3. DOMAIN Append(seq, e) = 1 .. Len(seq) + 1
    BY <1>2, LenProperties
<1> QED BY <1>1, <1>2, <1>3

-----------------------------------------------------------------------------
(* Sources and what is converted from them. *)

LEMMA GenuineType ==
    ASSUME NEW s \in Sources, NEW x \in SourceOf(s)
    PROVE  x \in Source /\ x.spec \in SpecsOf[s] /\ x # Absent
BY ConversionAssumption DEF SourceOf, Source

(* What a source asks for depends on its spec alone. *)
LEMMA ConvertibleBySpec ==
    ASSUME NEW s \in Sources, NEW x \in Source, NEW y \in Source, x.spec = y.spec
    PROVE  Convertible(s, x) <=> Convertible(s, y)
BY ConversionAssumption DEF Convertible, ConversionFails, ConversionPanics

LEMMA ClaimedType ==
    ASSUME NEW s \in Sources, NEW x \in Source
    PROVE  Claimed(s, x.spec) \subseteq Targets
<1> SUFFICES ASSUME NEW i \in DOMAIN x.spec
             PROVE  CopyName(s, x.spec[i]) \in Targets
    BY DEF Claimed
<1>1. x.spec \in Seq(Entry)
    BY DEF Source
<1>2. x.spec[i] \in Entry
    BY <1>1, LenProperties, ElementOfSeq
<1> QED BY <1>2, CopyNameType

(* The jobs of a conversion, index by index. *)
LEMMA ConvertIndices ==
    ASSUME NEW s \in Sources, NEW x \in Source, NEW selector \in Selectors
    PROVE  LET jobs == Convert(s, x, selector)
           IN  /\ jobs \in Seq(Job)
               /\ DOMAIN jobs = DOMAIN x.spec
               /\ \A i \in DOMAIN jobs :
                    /\ i \in Nat
                    /\ jobs[i].target = CopyName(s, x.spec[i])
                    /\ jobs[i].spec.content = x.spec[i].content
               /\ Claimed(s, x.spec) = {jobs[i].target : i \in DOMAIN jobs}
<1>1. x.spec \in Seq(Entry)
    BY DEF Source
<1>2. Len(x.spec) \in Nat /\ DOMAIN x.spec = 1 .. Len(x.spec)
    BY <1>1, LenProperties
<1>3. Convert(s, x, selector) \in Seq(Job)
    BY ConvertType
<1>4. DOMAIN Convert(s, x, selector) = DOMAIN x.spec
    BY <1>2 DEF Convert
<1>5. \A i \in DOMAIN x.spec :
        /\ i \in Nat
        /\ Convert(s, x, selector)[i].target = CopyName(s, x.spec[i])
        /\ Convert(s, x, selector)[i].spec.content = x.spec[i].content
    BY <1>2 DEF Convert
<1>6. Claimed(s, x.spec)
        = {Convert(s, x, selector)[i].target : i \in DOMAIN Convert(s, x, selector)}
    BY <1>4, <1>5 DEF Claimed
<1> QED BY <1>3, <1>4, <1>5, <1>6

(* The last entry of a name is the one whose content counts. *)
LEMMA LastContentOf ==
    ASSUME NEW s \in Sources, NEW x \in Source, NEW t, NEW i \in DOMAIN x.spec,
           CopyName(s, x.spec[i]) = t,
           \A j \in DOMAIN x.spec : CopyName(s, x.spec[j]) = t => j <= i
    PROVE  LastContent(s, t, x.spec) = x.spec[i].content
<1> DEFINE IsLast(k) ==
              /\ CopyName(s, x.spec[k]) = t
              /\ \A j \in DOMAIN x.spec : CopyName(s, x.spec[j]) = t => j <= k
           last == CHOOSE k \in DOMAIN x.spec : IsLast(k)
<1>1. x.spec \in Seq(Entry)
    BY DEF Source
<1>2. DOMAIN x.spec \subseteq Nat
    BY <1>1, LenProperties
<1>3. last \in DOMAIN x.spec /\ IsLast(last)
    OBVIOUS
<1>4. last <= i /\ i <= last
    BY <1>3
<1>5. last = i
    BY <1>2, <1>3, <1>4
<1> QED BY <1>5 DEF LastContent

(* An exclusive target comes from its own source. *)
LEMMA ExclusiveOwner ==
    ASSUME NEW s \in Sources, NEW t, Exclusive(s, t),
           NEW other \in Sources, NEW spec \in SpecsOf[other],
           t \in Claimed(other, spec)
    PROVE  other = s
BY DEF Exclusive

-----------------------------------------------------------------------------
(* Converging, source state by source state and target by target. *)

Agreed(s, x) ==
    \A v \in Followers(s) : cache[v][s] # Absent /\ cache[v][s].spec = x.spec

Busy(v, s, t) == News(v, s) \/ t \in Ahead(v)

Promise(s, x, t) ==
    Followers(s) # {} /\ Agreed(s, x) /\ t \notin excused =>
        InSync(s, t, x.spec) \/ \E v \in Followers(s) : Busy(v, s, t)

Promises ==
    \A s \in Sources, x \in Source : \A t \in Claimed(s, x.spec) :
        Convertible(s, x) /\ Exclusive(s, t) => Promise(s, x, t)

LEMMA PromisesConverge == TypeOK => (Promises <=> Converging)
<1> SUFFICES ASSUME TypeOK PROVE Promises <=> Converging
    OBVIOUS
<1>0. \A s \in Sources, w \in Workers : cache[w][s] \in Source \cup {Absent}
    BY DEF TypeOK
<1>1. ASSUME Converging PROVE Promises
  <2> SUFFICES ASSUME NEW s \in Sources, NEW x \in Source,
                      NEW t \in Claimed(s, x.spec),
                      Convertible(s, x), Exclusive(s, t),
                      Followers(s) # {}, Agreed(s, x), t \notin excused
               PROVE  InSync(s, t, x.spec) \/ \E v \in Followers(s) : Busy(v, s, t)
      BY DEF Promises, Promise
  <2>1. PICK w \in Followers(s) : TRUE
      OBVIOUS
  <2>2. w \in Workers /\ cache[w][s] \in Source /\ cache[w][s].spec = x.spec
      BY <1>0, <2>1 DEF Followers, Agreed
  <2>3. Convertible(s, cache[w][s])
      BY <2>2, ConvertibleBySpec
  <2> QED BY <1>1, <2>1, <2>2, <2>3 DEF Converging, Agreed, Busy
<1>2. ASSUME Promises PROVE Converging
  <2> SUFFICES ASSUME NEW s \in Sources, NEW w \in Followers(s),
                      Convertible(s, cache[w][s]), Agreed(s, cache[w][s]),
                      NEW t \in Claimed(s, cache[w][s].spec),
                      Exclusive(s, t), t \notin excused
               PROVE  \/ InSync(s, t, cache[w][s].spec)
                      \/ \E v \in Followers(s) : News(v, s) \/ t \in Ahead(v)
      BY DEF Converging, Agreed
  <2>1. cache[w][s] \in Source
      BY <1>0 DEF Followers, Convertible
  <2> QED BY <1>2, <2>1 DEF Promises, Promise, Busy
<1> QED BY <1>1, <1>2

(* A step that changes no store keeps a promise, unless it takes away what the
   promise rests on.                                                        *)
LEMMA PromiseKept ==
    ASSUME NEW s, NEW x, NEW t, Promise(s, x, t),
           UNCHANGED <<status, cache>>,
           t \notin excused' =>
               /\ t \notin excused
               /\ copies'[t] = copies[t]
               /\ \A v \in Workers : Busy(v, s, t) => Busy(v, s, t)'
    PROVE  Promise(s, x, t)'
BY DEF Promise, Followers, Running, Agreed, InSync

-----------------------------------------------------------------------------
(* Queues. *)

LEMMA TakeIndices ==
    ASSUME TypeOK, NEW w \in Workers, CanTake(w), Take(w)
    PROVE  /\ \A v \in Workers : v # w => queue'[v] = queue[v]
           /\ Head(queue[w]) = queue[w][1] /\ 1 \in DOMAIN queue[w]
           /\ \A i \in DOMAIN queue[w] : i \in Nat /\ i >= 1
           /\ \A i \in DOMAIN queue'[w] :
                /\ i \in Nat /\ i >= 1
                /\ i + 1 \in DOMAIN queue[w] /\ queue'[w][i] = queue[w][i + 1]
           /\ \A i \in DOMAIN queue[w] :
                i > 1 => i - 1 \in DOMAIN queue'[w] /\ queue'[w][i - 1] = queue[w][i]
<1>1. queue[w] \in Seq(Event) /\ queue[w] # <<>>
    BY DEF TypeOK, CanTake
<1>2. queue'[w] = Tail(queue[w]) /\ \A v \in Workers : v # w => queue'[v] = queue[v]
    BY DEF TypeOK, Take
<1> QED BY <1>1, <1>2, TailIndices

(* A handler that takes an event leaves the news that follow. *)
LEMMA TakeKeepsNews ==
    ASSUME TypeOK, NEW w \in Workers, CanTake(w), Take(w), NEW s,
           NEW v \in Workers, News(v, s),
           v = w => Head(queue[w]).source # s \/ NoDiff(Head(queue[w]))
    PROVE  News(v, s)'
<1>1. PICK i \in DOMAIN queue[v] : queue[v][i].source = s /\ ~ NoDiff(queue[v][i])
    BY DEF News
<1>2. CASE v # w
    BY <1>1, <1>2, TakeIndices DEF News, NoDiff
<1>3. CASE v = w
  <2>1. i # 1
      BY <1>1, <1>3, TakeIndices
  <2>2. i > 1
      BY <1>3, <2>1, TakeIndices
  <2>3. i - 1 \in DOMAIN queue'[w] /\ queue'[w][i - 1] = queue[w][i]
      BY <1>3, <2>2, TakeIndices
  <2> QED BY <1>1, <1>3, <2>3 DEF News, NoDiff
<1> QED BY <1>2, <1>3

(* Behind an event that is not the last news of its source there are news. *)
LEMMA NewsBehindHead ==
    ASSUME TypeOK, NEW w \in Workers, CanTake(w), Take(w), NewsAfter(w, 1),
           NEW s, Head(queue[w]).source = s
    PROVE  News(w, s)'
<1>1. PICK j \in DOMAIN queue[w] :
            /\ j > 1
            /\ queue[w][j].source = queue[w][1].source
            /\ ~ NoDiff(queue[w][j])
    BY DEF NewsAfter
<1>2. j - 1 \in DOMAIN queue'[w] /\ queue'[w][j - 1] = queue[w][j]
    BY <1>1, TakeIndices
<1>3. Head(queue[w]) = queue[w][1]
    BY TakeIndices
<1> QED BY <1>1, <1>2, <1>3 DEF News, NoDiff

(* The store has what the head of the queue ends at, or there are news. *)
LEMMA HeadOrNews ==
    ASSUME TypeOK, Chained, NEW w \in Workers, CanTake(w), Take(w),
           NEW s, Head(queue[w]).source = s, cache[w][s] # Absent
    PROVE  cache[w][s].spec = Head(queue[w]).new.spec \/ News(w, s)'
<1>1. Head(queue[w]) = queue[w][1] /\ 1 \in DOMAIN queue[w]
    BY TakeIndices
<1> QED BY <1>1, NewsBehindHead DEF Chained

LEMMA TakeChains ==
    ASSUME TypeOK, Chained, NEW w \in Workers, CanTake(w), Take(w), cache' = cache
    PROVE  Chained'
<1> SUFFICES ASSUME NEW v \in Workers, NEW i \in DOMAIN queue'[v]
             PROVE  LET known == cache[v][queue'[v][i].source]
                    IN  \/ known = Absent
                        \/ known.spec = queue'[v][i].new.spec
                        \/ NewsAfter(v, i)'
    BY DEF Chained
<1>1. CASE v # w
    BY <1>1, TakeIndices DEF Chained, NewsAfter, NoDiff
<1>2. CASE v = w
  <2>1. /\ i \in Nat
        /\ i + 1 \in DOMAIN queue[w] /\ queue'[w][i] = queue[w][i + 1]
      BY <1>2, TakeIndices
  <2>2. ASSUME NewsAfter(w, i + 1) PROVE NewsAfter(w, i)'
    <3>1. PICK j \in DOMAIN queue[w] :
                /\ j > i + 1
                /\ queue[w][j].source = queue[w][i + 1].source
                /\ ~ NoDiff(queue[w][j])
        BY <2>2 DEF NewsAfter
    <3>2. j \in Nat /\ j - 1 > i /\ j > 1
        BY <2>1, <3>1, TakeIndices
    <3>3. j - 1 \in DOMAIN queue'[w] /\ queue'[w][j - 1] = queue[w][j]
        BY <3>2, TakeIndices
    <3> QED BY <2>1, <3>1, <3>2, <3>3 DEF NewsAfter, NoDiff
  <2>3. LET known == cache[w][queue[w][i + 1].source]
        IN  \/ known = Absent
            \/ known.spec = queue[w][i + 1].new.spec
            \/ NewsAfter(w, i + 1)
      BY <2>1 DEF Chained
  <2> QED BY <1>2, <2>1, <2>2, <2>3
<1> QED BY <1>1, <1>2

(* One more event. *)
LEMMA EnqueueIndices ==
    ASSUME TypeOK, NEW w \in Workers, NEW s \in Sources,
           NEW old \in Source \cup {Absent}, NEW new \in Source,
           Enqueue(w, s, old, new)
    PROVE  /\ \A v \in Workers : v # w => queue'[v] = queue[v]
           /\ \E n \in Nat :
                /\ DOMAIN queue[w] = 1 .. n
                /\ DOMAIN queue'[w] = 1 .. n + 1
                /\ queue'[w][n + 1] = [source |-> s, old |-> old, new |-> new]
                /\ \A i \in 1 .. n : queue'[w][i] = queue[w][i]
<1> DEFINE e == [source |-> s, old |-> old, new |-> new]
<1>1. e \in Event /\ queue[w] \in Seq(Event)
    BY DEF Event, TypeOK
<1>2. queue'[w] = Append(queue[w], e) /\ \A v \in Workers : v # w => queue'[v] = queue[v]
    BY DEF TypeOK, Enqueue
<1> HIDE DEF e
<1>3. \E n \in Nat :
        /\ DOMAIN queue[w] = 1 .. n
        /\ DOMAIN queue'[w] = 1 .. n + 1
        /\ queue'[w][n + 1] = e
        /\ \A i \in 1 .. n : queue'[w][i] = queue[w][i]
    BY <1>1, <1>2, AppendIndices
<1> QED BY <1>2, <1>3 DEF e

LEMMA EnqueueKeepsNews ==
    ASSUME TypeOK, NEW w \in Workers, NEW s \in Sources,
           NEW old \in Source \cup {Absent}, NEW new \in Source,
           Enqueue(w, s, old, new)
    PROVE  /\ \A v \in Workers, r \in Sources : News(v, r) => News(v, r)'
           /\ old = Absent \/ old.spec # new.spec => News(w, s)'
<1>1. PICK n \in Nat :
        /\ DOMAIN queue[w] = 1 .. n
        /\ DOMAIN queue'[w] = 1 .. n + 1
        /\ queue'[w][n + 1] = [source |-> s, old |-> old, new |-> new]
        /\ \A i \in 1 .. n : queue'[w][i] = queue[w][i]
    BY EnqueueIndices
<1>2. \A v \in Workers : v # w => queue'[v] = queue[v]
    BY EnqueueIndices
<1>3. ASSUME NEW v \in Workers, NEW r \in Sources, News(v, r) PROVE News(v, r)'
    BY <1>1, <1>2, <1>3 DEF News, NoDiff
<1>4. ASSUME old = Absent \/ old.spec # new.spec PROVE News(w, s)'
  <2>1. n + 1 \in DOMAIN queue'[w]
      BY <1>1
  <2> QED BY <1>1, <1>4, <2>1 DEF News, NoDiff
<1> QED BY <1>3, <1>4

(* The store moves on from old to new, or stays, and the event says so. *)
LEMMA EnqueueChains ==
    ASSUME TypeOK, Chained, NEW w \in Workers, NEW s \in Sources,
           cache[w][s] \in Source \cup {Absent}, NEW new \in Source,
           Enqueue(w, s, cache[w][s], new),
           cache' = [cache EXCEPT ![w][s] = new]
    PROVE  Chained'
<1>1. PICK n \in Nat :
        /\ DOMAIN queue[w] = 1 .. n
        /\ DOMAIN queue'[w] = 1 .. n + 1
        /\ queue'[w][n + 1] = [source |-> s, old |-> cache[w][s], new |-> new]
        /\ \A i \in 1 .. n : queue'[w][i] = queue[w][i]
    BY EnqueueIndices
<1>2. \A v \in Workers : v # w => queue'[v] = queue[v] /\ cache'[v] = cache[v]
    BY EnqueueIndices DEF TypeOK
<1>3. \A r \in Sources : cache'[w][r] = IF r = s THEN new ELSE cache[w][r]
    BY DEF TypeOK
<1> SUFFICES ASSUME NEW v \in Workers, NEW i \in DOMAIN queue'[v]
             PROVE  LET known == cache'[v][queue'[v][i].source]
                    IN  \/ known = Absent
                        \/ known.spec = queue'[v][i].new.spec
                        \/ NewsAfter(v, i)'
    BY DEF Chained
<1>4. CASE v # w
    BY <1>2, <1>4 DEF Chained, NewsAfter, NoDiff
<1>5. CASE v = w /\ i = n + 1
    BY <1>1, <1>3, <1>5
<1>6. CASE v = w /\ i # n + 1
  <2>1. i \in 1 .. n /\ i \in DOMAIN queue[w] /\ queue'[w][i] = queue[w][i]
      BY <1>1, <1>6
  <2>2. queue[w][i].source \in Sources
    <3>1. queue[w] \in Seq(Event)
        BY DEF TypeOK
    <3>2. queue[w][i] \in Event
        BY <2>1, <3>1, ElementOfSeq, LenProperties
    <3> QED BY <3>2 DEF Event
  <2>3. NewsAfter(w, i) => NewsAfter(w, i)'
      BY <1>1, <2>1 DEF NewsAfter, NoDiff
  <2>4. LET known == cache[w][queue[w][i].source]
        IN  \/ known = Absent
            \/ known.spec = queue[w][i].new.spec
            \/ NewsAfter(w, i)
      BY <2>1 DEF Chained
  <2>5. CASE queue[w][i].source = s /\ (cache[w][s] = Absent \/ cache[w][s].spec # new.spec)
    <3>1. ~ NoDiff(queue'[w][n + 1])
        BY <1>1, <2>5 DEF NoDiff
    <3> QED BY <1>1, <1>6, <2>1, <2>5, <3>1 DEF NewsAfter, NoDiff
  <2>6. CASE queue[w][i].source = s /\ cache[w][s] # Absent /\ cache[w][s].spec = new.spec
      BY <1>3, <1>6, <2>1, <2>3, <2>4, <2>6
  <2>7. CASE queue[w][i].source # s
      BY <1>3, <1>6, <2>1, <2>2, <2>3, <2>4, <2>7
  <2> QED BY <2>5, <2>6, <2>7
<1> QED BY <1>4, <1>5, <1>6

-----------------------------------------------------------------------------
(* Hands. *)

(* A call that does not panic touches one hand: its job stays, or ends. *)
LEMMA CallShape ==
    ASSUME TypeOK, NEW w \in Workers, Call(w) \/ CallFails(w), ~ GetPanics(w)
    PROVE  /\ Running(w) /\ hand[w].pc # "idle"
           /\ UNCHANGED <<sources, status, conf, cache, queue>>
           /\ \A v \in Workers : v # w => hand'[v] = hand[v]
           /\ \/ Finish(w)
              \/ hand'[w].todo = hand[w].todo /\ hand'[w].pc # "idle"
<1>1. /\ Running(w) /\ hand[w].pc # "idle"
      /\ UNCHANGED <<sources, status, conf, cache, queue>>
    BY DEF Call, CallFails, Create, Recreate, GetNotFound, GetForeign, GetEqual,
           GetDiffers, GetsManaged, Update, UpdateConflict, UpdateInvalid,
           At, Done, Lose, Rest, cluster, pipeline, Write
<1>2. \/ Finish(w)
      \/ \E pc \in {"get", "recreate"} : Goto(w, pc)
      \/ GetDiffers(w)
    BY DEF Call, CallFails, Create, Recreate, GetNotFound, GetForeign, GetEqual,
           Update, UpdateConflict, UpdateInvalid, Done, Lose
<1>3. CASE Finish(w)
    BY <1>1, <1>3 DEF Finish, TypeOK
<1>4. ASSUME NEW pc \in {"get", "recreate"}, Goto(w, pc)
      PROVE  /\ \A v \in Workers : v # w => hand'[v] = hand[v]
             /\ hand'[w].todo = hand[w].todo /\ hand'[w].pc # "idle"
    BY <1>4 DEF Goto, TypeOK, Hand
<1>5. CASE GetDiffers(w)
    BY <1>1, <1>5 DEF GetDiffers, TypeOK, Hand
<1> QED BY <1>1, <1>2, <1>3, <1>4, <1>5

LEMMA TodoIndices ==
    ASSUME TypeOK, NEW w \in Workers, hand[w].todo # <<>>
    PROVE  /\ CurrentJob(w) = hand[w].todo[1] /\ 1 \in DOMAIN hand[w].todo
           /\ \A i \in DOMAIN hand[w].todo : i \in Nat /\ i >= 1
<1>1. hand[w].todo \in Seq(Job)
    BY DEF TypeOK, Hand
<1> QED BY <1>1, TailIndices DEF CurrentJob

LEMMA BeginFields ==
    ASSUME NEW jobs, NEW first
    PROVE  /\ Begin(jobs, first).todo = jobs
           /\ jobs = <<>> => Begin(jobs, first).pc = "idle"
           /\ jobs # <<>> => Begin(jobs, first).pc = first
<1>1. CASE jobs = <<>>
    BY <1>1 DEF Begin, Idle
<1>2. CASE jobs # <<>>
    BY <1>2 DEF Begin
<1> QED BY <1>1, <1>2

LEMMA FinishIndices ==
    ASSUME TypeOK, NEW w \in Workers, hand[w].pc # "idle", Finish(w)
    PROVE  /\ \A v \in Workers : v # w => hand'[v] = hand[v]
           /\ hand'[w].pc \in {"idle", "create", "get"}
           /\ hand'[w].pc = "idle" => hand'[w].todo = <<>>
           /\ CurrentJob(w) = hand[w].todo[1] /\ 1 \in DOMAIN hand[w].todo
           /\ \A i \in DOMAIN hand[w].todo : i \in Nat /\ i >= 1
           /\ \A i \in DOMAIN hand'[w].todo :
                /\ i \in Nat /\ i >= 1
                /\ i + 1 \in DOMAIN hand[w].todo
                /\ hand'[w].todo[i] = hand[w].todo[i + 1]
           /\ \A i \in DOMAIN hand[w].todo :
                i > 1 => /\ i - 1 \in DOMAIN hand'[w].todo
                         /\ hand'[w].todo[i - 1] = hand[w].todo[i]
<1>1. /\ hand[w] \in Hand
      /\ hand[w].todo \in Seq(Job) /\ hand[w].todo # <<>>
      /\ hand[w].first \in {"create", "get"}
    BY DEF TypeOK, WellFormed, Hand
<1>2. hand'[w] = NextJob(hand[w]) /\ \A v \in Workers : v # w => hand'[v] = hand[v]
    BY DEF Finish, TypeOK
<1>3. hand'[w].todo = Tail(hand[w].todo)
    BY <1>2, BeginFields DEF NextJob
<1>4. /\ hand'[w].pc \in {"idle", "create", "get"}
      /\ hand'[w].pc = "idle" => hand'[w].todo = <<>>
    BY <1>1, <1>2, <1>3, BeginFields DEF NextJob
<1> DEFINE todo == hand[w].todo
<1>5. /\ Head(todo) = todo[1] /\ 1 \in DOMAIN todo
      /\ \A i \in DOMAIN todo : i \in Nat /\ i >= 1
      /\ \A i \in DOMAIN Tail(todo) :
           /\ i \in Nat /\ i >= 1
           /\ i + 1 \in DOMAIN todo /\ Tail(todo)[i] = todo[i + 1]
      /\ \A i \in DOMAIN todo :
           i > 1 => i - 1 \in DOMAIN Tail(todo) /\ Tail(todo)[i - 1] = todo[i]
  <2> HIDE DEF todo
  <2> QED BY <1>1, TailIndices DEF todo
<1> QED BY <1>2, <1>3, <1>4, <1>5 DEF CurrentJob

(* Calls keep all that is known of hands. *)
LEMMA CallKeepsHands ==
    ASSUME TypeOK, Pipelines, NEW w \in Workers, Call(w) \/ CallFails(w), ~ GetPanics(w)
    PROVE  Pipelines'
<1>1. /\ hand[w].pc # "idle"
      /\ UNCHANGED <<sources, status, conf, cache, queue>>
      /\ \A v \in Workers : v # w => hand'[v] = hand[v]
      /\ Finish(w) \/ (hand'[w].todo = hand[w].todo /\ hand'[w].pc # "idle")
    BY CallShape
<1>2. Chained'
  <2>1. \A v \in Workers : \A i \in DOMAIN queue[v] : NewsAfter(v, i)' <=> NewsAfter(v, i)
      BY <1>1 DEF NewsAfter, NoDiff
  <2> QED BY <1>1, <2>1 DEF Pipelines, Chained
<1>3. IdleHands'
    BY <1>1, FinishIndices DEF Pipelines, IdleHands
<1>4. Genuine'
  <2>1. ASSUME NEW v \in Workers, NEW i \in DOMAIN hand'[v].todo
        PROVE  \E s \in Watches[v[2]] : \E spec \in SpecsOf[s] :
                 hand'[v].todo[i].target \in Claimed(s, spec)
    <3>1. CASE v = w /\ Finish(w)
      <4>1. i + 1 \in DOMAIN hand[w].todo /\ hand'[w].todo[i] = hand[w].todo[i + 1]
          BY <1>1, <3>1, FinishIndices
      <4> QED BY <3>1, <4>1 DEF Pipelines, Genuine
    <3>2. CASE hand'[v].todo = hand[v].todo
        BY <3>2 DEF Pipelines, Genuine
    <3> QED BY <1>1, <3>1, <3>2
  <2> QED BY <1>1, <2>1 DEF Pipelines, Genuine
<1>5. UpToDate'
  <2> SUFFICES ASSUME NEW v \in Workers, NEW i \in DOMAIN hand'[v].todo,
                      LastJob(v, i)', NEW s \in Watches[v[2]],
                      Exclusive(s, hand'[v].todo[i].target)
               PROVE  \/ cache[v][s] = Absent
                      \/ News(v, s)
                      \/ hand'[v].todo[i].spec.content =
                           LastContent(s, hand'[v].todo[i].target, cache[v][s].spec)
      BY <1>1 DEF UpToDate, News, NoDiff
  <2>1. CASE hand'[v].todo = hand[v].todo
    <3>1. LastJob(v, i)
        BY <2>1 DEF LastJob
    <3> QED BY <2>1, <3>1 DEF Pipelines, UpToDate
  <2>2. CASE v = w /\ Finish(w)
    <3>1. /\ i \in Nat /\ i + 1 \in DOMAIN hand[w].todo
          /\ hand'[w].todo[i] = hand[w].todo[i + 1]
        BY <1>1, <2>2, FinishIndices
    <3>2. ASSUME NEW j \in DOMAIN hand[w].todo,
                 hand[w].todo[j].target = hand[w].todo[i + 1].target
          PROVE  j <= i + 1
      <4>1. j \in Nat /\ j >= 1
          BY <1>1, <2>2, FinishIndices
      <4>2. CASE j = 1
          BY <3>1, <4>2
      <4>3. CASE j > 1
        <5>1. j - 1 \in DOMAIN hand'[w].todo /\ hand'[w].todo[j - 1] = hand[w].todo[j]
            BY <1>1, <2>2, <4>3, FinishIndices
        <5>2. j - 1 <= i
            BY <2>2, <3>1, <3>2, <5>1 DEF LastJob
        <5> QED BY <3>1, <4>1, <5>2
      <4> QED BY <4>1, <4>2, <4>3
    <3>3. LastJob(w, i + 1)
        BY <3>2 DEF LastJob
    <3> QED BY <2>2, <3>1, <3>3 DEF Pipelines, UpToDate
  <2> QED BY <1>1, <2>1, <2>2
<1> QED BY <1>2, <1>3, <1>4, <1>5 DEF Pipelines

(* Steps that change none of it. *)
LEMMA NoChangeKeepsPipelines ==
    ASSUME Pipelines, UNCHANGED <<cache, queue, hand>>,
           \A s \in Sources : sources'[s] \in SourceOf(s) \cup {Absent}
    PROVE  Pipelines'
<1>1. Genuine' /\ IdleHands'
    BY DEF Pipelines, Genuine, IdleHands
<1>2. Chained'
    BY DEF Pipelines, Chained, NewsAfter, NoDiff
<1>3. UpToDate'
    BY DEF Pipelines, UpToDate, LastJob, News, NoDiff
<1> QED BY <1>1, <1>2, <1>3 DEF Pipelines

(* Workers either keep what they have or lose all of it. *)
LEMMA EndWithKeepsPipelines ==
    ASSUME TypeOK, Pipelines, NEW p \in Procs, NEW ending, EndWith(p, ending)
    PROVE  Pipelines'
<1>1. /\ sources' = sources
      /\ \A v \in Workers :
           \/ cache'[v] = cache[v] /\ queue'[v] = queue[v] /\ hand'[v] = hand[v]
           \/ /\ cache'[v] = [s \in Sources |-> Absent]
              /\ queue'[v] = <<>> /\ hand'[v] = Idle
    BY DEF EndWith, cluster
<1>2. DOMAIN <<>> = {} /\ Idle.todo = <<>>
    BY DEF Idle
<1>3. IdleHands'
    BY <1>1, <1>2 DEF Pipelines, IdleHands
<1>4. Genuine'
    BY <1>1, <1>2 DEF Pipelines, Genuine
<1>5. Chained'
    BY <1>1, <1>2 DEF Pipelines, Chained, NewsAfter, NoDiff
<1>6. UpToDate'
    BY <1>1, <1>2 DEF Pipelines, UpToDate, LastJob, News, NoDiff
<1> QED BY <1>3, <1>4, <1>5, <1>6 DEF Pipelines

(* An informer's step: stores and queues change as Enqueue has it, or the
   source has gone.                                                         *)
LEMMA InformerKeepsPipelines ==
    ASSUME TypeOK, Pipelines, NEW w \in Workers, NEW s \in Sources,
           Observe(w, s) \/ Resync(w, s)
    PROVE  Pipelines'
<1>1. /\ UNCHANGED <<sources, hand>>
      /\ s \in Watches[w[2]]
      /\ \A v \in Workers, r \in Sources : v # w \/ r # s => cache'[v][r] = cache[v][r]
    BY DEF Observe, Resync, cluster, TypeOK
<1>2. cache[w][s] \in Source \cup {Absent}
    BY DEF TypeOK
<1>3. \/ cache'[w][s] = Absent /\ queue' = queue
      \/ \E new \in SourceOf(s) :
           /\ cache' = [cache EXCEPT ![w][s] = new]
           /\ Enqueue(w, s, cache[w][s], new)
  <2>1. CASE Observe(w, s) /\ sources[s] = Absent
      BY <2>1 DEF Observe, TypeOK
  <2>2. CASE Observe(w, s) /\ sources[s] # Absent
      BY <2>2 DEF Observe, Pipelines, Genuine
  <2>3. CASE Resync(w, s)
    <3>1. cache[w][s] \in SourceOf(s)
        BY <2>3 DEF Resync, Pipelines, Genuine
    <3>2. cache' = [cache EXCEPT ![w][s] = cache[w][s]]
        BY <2>3 DEF Resync, TypeOK
    <3> QED BY <2>3, <3>1, <3>2 DEF Resync
  <2> QED BY <2>1, <2>2, <2>3
<1>4. IdleHands'
    BY <1>1 DEF Pipelines, IdleHands
<1>5. CASE cache'[w][s] = Absent /\ queue' = queue
  <2>1. Genuine'
      BY <1>1, <1>5 DEF Pipelines, Genuine
  <2>2. Chained'
    <3> SUFFICES ASSUME NEW v \in Workers, NEW i \in DOMAIN queue[v]
                 PROVE  LET known == cache'[v][queue[v][i].source]
                        IN  \/ known = Absent
                            \/ known.spec = queue[v][i].new.spec
                            \/ NewsAfter(v, i)'
        BY <1>5 DEF Chained
    <3>1. queue[v][i].source \in Sources
      <4>1. queue[v] \in Seq(Event)
          BY DEF TypeOK
      <4>2. queue[v][i] \in Event
          BY <4>1, ElementOfSeq, LenProperties
      <4> QED BY <4>2 DEF Event
    <3>2. NewsAfter(v, i) => NewsAfter(v, i)'
        BY <1>5 DEF NewsAfter, NoDiff
    <3>3. LET known == cache[v][queue[v][i].source]
          IN  \/ known = Absent
              \/ known.spec = queue[v][i].new.spec
              \/ NewsAfter(v, i)
        BY DEF Pipelines, Chained
    <3> QED BY <1>1, <1>5, <3>1, <3>2, <3>3
  <2>3. UpToDate'
    <3>1. \A v \in Workers, r \in Sources :
            cache'[v][r] = Absent \/ cache'[v][r] = cache[v][r]
        BY <1>1, <1>5
    <3>2. \A i \in Informers : Watches[i] \subseteq Sources
        BY ConverterAssumption
    <3> QED BY <1>1, <1>5, <3>1, <3>2
            DEF Pipelines, UpToDate, LastJob, News, NoDiff, Workers
  <2> QED BY <1>4, <2>1, <2>2, <2>3 DEF Pipelines
<1>6. ASSUME NEW new \in SourceOf(s),
             cache' = [cache EXCEPT ![w][s] = new],
             Enqueue(w, s, cache[w][s], new)
      PROVE  Pipelines'
  <2>1. new \in Source /\ new # Absent /\ cache'[w][s] = new
      BY <1>6, GenuineType DEF TypeOK
  <2>2. Chained'
      BY <1>2, <1>6, <2>1, EnqueueChains DEF Pipelines
  <2>3. PICK n \in Nat :
          /\ DOMAIN queue[w] = 1 .. n
          /\ DOMAIN queue'[w] = 1 .. n + 1
          /\ queue'[w][n + 1] = [source |-> s, old |-> cache[w][s], new |-> new]
          /\ \A i \in 1 .. n : queue'[w][i] = queue[w][i]
      BY <1>2, <1>6, <2>1, EnqueueIndices
  <2>4. \A v \in Workers : v # w => queue'[v] = queue[v]
      BY <1>2, <1>6, <2>1, EnqueueIndices
  <2>5. Genuine'
    <3>1. ASSUME NEW v \in Workers, NEW i \in DOMAIN queue'[v]
          PROVE  /\ queue'[v][i].source \in Watches[v[2]]
                 /\ queue'[v][i].new \in SourceOf(queue'[v][i].source)
      <4>1. CASE v = w /\ i = n + 1
          BY <1>1, <1>6, <2>3, <4>1
      <4>2. CASE v = w /\ i # n + 1
        <5>1. i \in 1 .. n /\ i \in DOMAIN queue[w] /\ queue'[w][i] = queue[w][i]
            BY <2>3, <4>2
        <5> QED BY <4>2, <5>1 DEF Pipelines, Genuine
      <4>3. CASE v # w
          BY <2>4, <4>3 DEF Pipelines, Genuine
      <4> QED BY <4>1, <4>2, <4>3
    <3>2. ASSUME NEW v \in Workers, NEW r \in Sources, cache'[v][r] # Absent
          PROVE  r \in Watches[v[2]] /\ cache'[v][r] \in SourceOf(r)
      <4>1. CASE v = w /\ r = s
          BY <1>1, <2>1, <4>1
      <4>2. CASE ~ (v = w /\ r = s)
          BY <1>1, <3>2, <4>2 DEF Pipelines, Genuine
      <4> QED BY <4>1, <4>2
    <3> QED BY <1>1, <3>1, <3>2 DEF Pipelines, Genuine
  <2>6. UpToDate'
    <3> SUFFICES ASSUME NEW v \in Workers, NEW i \in DOMAIN hand[v].todo,
                        LastJob(v, i), NEW r \in Watches[v[2]],
                        Exclusive(r, hand[v].todo[i].target)
                 PROVE  \/ cache'[v][r] = Absent
                        \/ News(v, r)'
                        \/ hand[v].todo[i].spec.content =
                             LastContent(r, hand[v].todo[i].target, cache'[v][r].spec)
        BY <1>1 DEF UpToDate, LastJob
    <3>1. r \in Sources
        BY ConverterAssumption DEF Workers
    <3>2. \/ cache[v][r] = Absent
          \/ News(v, r)
          \/ hand[v].todo[i].spec.content =
               LastContent(r, hand[v].todo[i].target, cache[v][r].spec)
        BY DEF Pipelines, UpToDate
    <3>3. News(v, r) => News(v, r)'
        BY <1>2, <1>6, <2>1, <3>1, EnqueueKeepsNews
    <3>4. CASE v = w /\ r = s /\ (cache[w][s] = Absent \/ cache[w][s].spec # new.spec)
        BY <1>2, <1>6, <2>1, <3>4, EnqueueKeepsNews
    <3>5. CASE v = w /\ r = s /\ cache[w][s] # Absent /\ cache[w][s].spec = new.spec
        BY <2>1, <3>2, <3>3, <3>5
    <3>6. CASE v # w \/ r # s
        BY <1>1, <3>1, <3>2, <3>3, <3>6
    <3> QED BY <3>4, <3>5, <3>6
  <2> QED BY <1>4, <2>2, <2>5, <2>6 DEF Pipelines
<1> QED BY <1>3, <1>5, <1>6

(* A handler that begins: its event was genuine, and is the last news of its
   source or has news behind it.                                            *)
LEMMA HandledEvent ==
    ASSUME TypeOK, Pipelines, NEW w \in Workers, CanTake(w), Take(w)
    PROVE  LET event == Head(queue[w])
           IN  /\ event.source \in Watches[w[2]] /\ event.source \in Sources
               /\ event.new \in SourceOf(event.source)
               /\ event.new \in Source /\ event.new.spec \in SpecsOf[event.source]
               /\ event.old \in Source \cup {Absent}
               /\ hand[w].todo = <<>> /\ DOMAIN hand[w].todo = {}
<1>1. Head(queue[w]) = queue[w][1] /\ 1 \in DOMAIN queue[w]
    BY TakeIndices
<1>2. Head(queue[w]) \in Event
    BY EventType
<1>3. hand[w].todo = <<>> /\ DOMAIN <<>> = {}
    BY DEF CanTake, Pipelines, IdleHands
<1>4. /\ Head(queue[w]).source \in Watches[w[2]]
      /\ Head(queue[w]).new \in SourceOf(Head(queue[w]).source)
    BY <1>1 DEF Pipelines, Genuine
<1> QED BY <1>2, <1>3, <1>4, GenuineType DEF Event

LEMMA TakeKeepsGenuine ==
    ASSUME TypeOK, Pipelines, NEW w \in Workers, CanTake(w), Take(w),
           UNCHANGED <<sources, cache>>,
           \A v \in Workers : \A i \in DOMAIN hand'[v].todo :
             \E s \in Watches[v[2]] : \E spec \in SpecsOf[s] :
               hand'[v].todo[i].target \in Claimed(s, spec)
    PROVE  Genuine'
<1>1. ASSUME NEW v \in Workers, NEW i \in DOMAIN queue'[v]
      PROVE  \E j \in DOMAIN queue[v] : queue'[v][i] = queue[v][j]
    BY TakeIndices
<1> QED BY <1>1 DEF Pipelines, Genuine

LEMMA HandleIgnoredKeepsPipelines ==
    ASSUME TypeOK, Pipelines, NEW w \in Workers, HandleIgnored(w)
    PROVE  Pipelines'
<1>1. CanTake(w) /\ Take(w) /\ UNCHANGED <<sources, cache, hand>>
    BY DEF HandleIgnored, cluster
<1>2. Genuine'
    BY <1>1, TakeKeepsGenuine DEF Pipelines, Genuine
<1>3. IdleHands'
    BY <1>1 DEF Pipelines, IdleHands
<1>4. Chained'
    BY <1>1, TakeChains DEF Pipelines
<1>5. UpToDate'
  <2>1. \A v \in Workers : v # w => queue'[v] = queue[v]
      BY <1>1, TakeIndices
  <2>2. DOMAIN hand'[w].todo = {}
      BY <1>1, HandledEvent
  <2> QED BY <1>1, <2>1, <2>2 DEF Pipelines, UpToDate, LastJob, News, NoDiff
<1> QED BY <1>2, <1>3, <1>4, <1>5 DEF Pipelines

(* What a handler that converts has in hand. *)
LEMMA ConvertedHand ==
    ASSUME TypeOK, Pipelines, NEW w \in Workers, HandleConverted(w)
    PROVE  LET event == Head(queue[w])
               jobs == Convert(event.source, event.new, conf[w[1]])
           IN  /\ CanTake(w) /\ Take(w)
               /\ UNCHANGED <<sources, copies, status, conf, cache>>
               /\ ~ NoDiff(event)
               /\ excused' = excused \ Claimed(event.source, event.new.spec)
               /\ \A v \in Workers : v # w => hand'[v] = hand[v]
               /\ hand'[w].todo = jobs
               /\ hand'[w].pc \in {"idle", "create", "get"}
               /\ jobs = <<>> <=> hand'[w].pc = "idle"
<1> DEFINE event == Head(queue[w])
           jobs == Convert(event.source, event.new, conf[w[1]])
           first == IF event.old = Absent THEN "create" ELSE "get"
<1>1. /\ CanTake(w) /\ Take(w) /\ ~ NoDiff(event)
      /\ UNCHANGED <<sources, copies, status, conf, cache>>
      /\ hand' = [hand EXCEPT ![w] = Begin(jobs, first)]
      /\ excused' = excused \ {jobs[i].target : i \in DOMAIN jobs}
    BY DEF HandleConverted, cluster
<1>2. event.source \in Sources /\ event.new \in Source
    BY <1>1, HandledEvent
<1>3. conf[w[1]] \in Selectors
    BY DEF TypeOK, Workers
<1>4. Claimed(event.source, event.new.spec) = {jobs[i].target : i \in DOMAIN jobs}
    BY <1>2, <1>3, ConvertIndices
<1>5. hand'[w] = Begin(jobs, first) /\ \A v \in Workers : v # w => hand'[v] = hand[v]
    BY <1>1 DEF TypeOK
<1>6. first \in {"create", "get"} /\ first # "idle"
    OBVIOUS
<1> HIDE DEF jobs, first
<1>7. /\ hand'[w].todo = jobs
      /\ hand'[w].pc \in {"idle", "create", "get"}
      /\ jobs = <<>> <=> hand'[w].pc = "idle"
    BY <1>5, <1>6, BeginFields
<1> QED BY <1>1, <1>4, <1>5, <1>7 DEF jobs

LEMMA HandleConvertedKeepsPipelines ==
    ASSUME TypeOK, Pipelines, NEW w \in Workers, HandleConverted(w)
    PROVE  Pipelines'
<1> DEFINE event == Head(queue[w])
           jobs == Convert(event.source, event.new, conf[w[1]])
<1>1. /\ CanTake(w) /\ Take(w)
      /\ UNCHANGED <<sources, cache>>
      /\ \A v \in Workers : v # w => hand'[v] = hand[v]
      /\ hand'[w].todo = jobs
      /\ jobs = <<>> <=> hand'[w].pc = "idle"
    BY ConvertedHand
<1>2. /\ event.source \in Watches[w[2]] /\ event.source \in Sources
      /\ event.new \in Source /\ event.new.spec \in SpecsOf[event.source]
    BY <1>1, HandledEvent
<1>3. conf[w[1]] \in Selectors
    BY DEF TypeOK, Workers
<1>4. /\ DOMAIN jobs = DOMAIN event.new.spec
      /\ \A i \in DOMAIN jobs :
           /\ i \in Nat
           /\ jobs[i].target = CopyName(event.source, event.new.spec[i])
           /\ jobs[i].spec.content = event.new.spec[i].content
      /\ Claimed(event.source, event.new.spec) = {jobs[i].target : i \in DOMAIN jobs}
    BY <1>2, <1>3, ConvertIndices
<1> HIDE DEF jobs
<1>5. Genuine'
  <2>1. ASSUME NEW v \in Workers, NEW i \in DOMAIN hand'[v].todo
        PROVE  \E s \in Watches[v[2]] : \E spec \in SpecsOf[s] :
                 hand'[v].todo[i].target \in Claimed(s, spec)
    <3>1. CASE v = w
      <4>1. jobs[i].target \in Claimed(event.source, event.new.spec)
          BY <1>1, <1>4, <3>1
      <4> QED BY <1>1, <1>2, <3>1, <4>1
    <3>2. CASE v # w
        BY <1>1, <3>2 DEF Pipelines, Genuine
    <3> QED BY <3>1, <3>2
  <2> QED BY <1>1, <2>1, TakeKeepsGenuine
<1>6. IdleHands'
    BY <1>1 DEF Pipelines, IdleHands
<1>7. Chained'
    BY <1>1, TakeChains DEF Pipelines
<1>8. UpToDate'
  <2> SUFFICES ASSUME NEW v \in Workers, NEW i \in DOMAIN hand'[v].todo,
                      LastJob(v, i)', NEW s \in Watches[v[2]],
                      Exclusive(s, hand'[v].todo[i].target)
               PROVE  \/ cache[v][s] = Absent
                      \/ News(v, s)'
                      \/ hand'[v].todo[i].spec.content =
                           LastContent(s, hand'[v].todo[i].target, cache[v][s].spec)
      BY <1>1 DEF UpToDate
  <2>1. CASE v # w
    <3>1. queue'[v] = queue[v] /\ hand'[v] = hand[v]
        BY <1>1, <2>1, TakeIndices
    <3> QED BY <3>1 DEF Pipelines, UpToDate, LastJob, News, NoDiff
  <2>2. CASE v = w
    <3>1. s \in Sources
        BY ConverterAssumption DEF Workers
    <3>2. jobs[i].target \in Claimed(event.source, event.new.spec)
        BY <1>1, <1>4, <2>2
    <3>3. event.source = s
        BY <1>1, <1>2, <2>2, <3>1, <3>2, ExclusiveOwner
    <3>4. i \in DOMAIN event.new.spec /\ jobs[i].target = CopyName(s, event.new.spec[i])
        BY <1>1, <1>4, <2>2, <3>3
    <3>5. \A j \in DOMAIN event.new.spec :
             CopyName(s, event.new.spec[j]) = jobs[i].target => j <= i
        BY <1>1, <1>4, <2>2, <3>3 DEF LastJob
    <3>6. LastContent(s, jobs[i].target, event.new.spec) = event.new.spec[i].content
      <4> DEFINE t == jobs[i].target
      <4> HIDE DEF t
      <4> QED BY <1>2, <3>1, <3>4, <3>5, LastContentOf DEF t
    <3>7. \/ cache[w][s] = Absent
          \/ cache[w][s].spec = event.new.spec
          \/ News(w, s)'
        BY <1>1, <3>3, HeadOrNews DEF Pipelines
    <3> QED BY <1>1, <1>4, <2>2, <3>4, <3>6, <3>7
  <2> QED BY <2>1, <2>2
<1> QED BY <1>5, <1>6, <1>7, <1>8 DEF Pipelines

LEMMA StepKeepsPipelines == TypeOK /\ Pipelines /\ [Next]_vars => Pipelines'
<1> SUFFICES ASSUME TypeOK, Pipelines, [Next]_vars PROVE Pipelines'
    OBVIOUS
<1>1. CASE sources' = sources /\ UNCHANGED <<cache, queue, hand>>
    BY <1>1, NoChangeKeepsPipelines DEF Pipelines, Genuine
<1>2. ASSUME NEW s \in Sources, EditSource(s) PROVE Pipelines'
  <2>1. \A r \in Sources : sources'[r] \in SourceOf(r) \cup {Absent}
      BY <1>2 DEF EditSource, TypeOK, Pipelines, Genuine
  <2> QED BY <1>2, <2>1, NoChangeKeepsPipelines DEF EditSource, pipeline
<1>3. ASSUME NEW p \in Procs, NEW ending, EndWith(p, ending) PROVE Pipelines'
    BY <1>3, EndWithKeepsPipelines
<1>4. ASSUME NEW w \in Workers, Handle(w) PROVE Pipelines'
    BY <1>3, <1>4, HandleIgnoredKeepsPipelines, HandleConvertedKeepsPipelines
       DEF Handle, HandlePanic, Panic, Workers
<1>5. ASSUME NEW w \in Workers, Call(w) \/ CallFails(w) PROVE Pipelines'
    BY <1>3, <1>5, CallKeepsHands DEF GetPanics, Panic, Workers
<1> QED BY <1>1, <1>2, <1>3, <1>4, <1>5, InformerKeepsPipelines
        DEF Next, Environment, Start, Stop, ForeignWrite, ForeignDelete, Write,
            vars, cluster, pipeline

LEMMA InitPipelines == Init => Pipelines
<1> SUFFICES ASSUME Init PROVE Pipelines
    OBVIOUS
<1>1. DOMAIN <<>> = {} /\ Idle.todo = <<>>
    BY DEF Idle
<1>2. \A w \in Workers :
        /\ queue[w] = <<>> /\ hand[w].todo = <<>>
        /\ \A s \in Sources : cache[w][s] = Absent
    BY <1>1 DEF Init
<1>3. Genuine
    BY <1>1, <1>2 DEF Genuine, Init
<1> QED BY <1>1, <1>2, <1>3 DEF Pipelines, IdleHands, Chained, UpToDate

-----------------------------------------------------------------------------
(* Steps keep promises: the calls. *)

(* A handler keeps its targets while nobody else touches them. *)
LEMMA HandKeepsAhead ==
    ASSUME TypeOK, NEW v \in Workers, hand'[v] = hand[v],
           NEW t, copies'[t] = copies[t], t \in Ahead(v)
    PROVE  (t \in Ahead(v))'
<1>1. PICK i \in DOMAIN hand[v].todo :
            hand[v].todo[i].target = t /\ (Beaten(v) => i > 1)
    BY DEF Ahead
<1>2. hand[v].todo # <<>>
    BY <1>1
<1>3. CurrentJob(v) = hand[v].todo[1] /\ i \in Nat /\ i >= 1
    BY <1>1, <1>2, TodoIndices
<1>4. CASE i > 1
    BY <1>1, <1>4 DEF Ahead
<1>5. CASE i = 1
  <2>1. ~ Beaten(v) /\ CurrentJob(v).target = t
      BY <1>1, <1>3, <1>5
  <2>2. ~ Beaten(v)'
      BY <2>1 DEF Beaten, CurrentJob
  <2> QED BY <1>1, <2>2 DEF Ahead
<1> QED BY <1>3, <1>4, <1>5

(* A handler that ends a job keeps the targets of the later ones. *)
LEMMA FinishKeepsAhead ==
    ASSUME TypeOK, NEW w \in Workers, hand[w].pc # "idle", Finish(w),
           NEW t, NEW i \in DOMAIN hand[w].todo, i > 1, hand[w].todo[i].target = t
    PROVE  (t \in Ahead(w))'
<1>1. i - 1 \in DOMAIN hand'[w].todo /\ hand'[w].todo[i - 1] = hand[w].todo[i]
    BY FinishIndices
<1>2. ~ Beaten(w)'
    BY FinishIndices DEF Beaten
<1> QED BY <1>1, <1>2 DEF Ahead

(* The four ways a call may go: the job goes on with a call that nothing has
   refused yet; the handler has lost a race and gives up; the target is given
   up for good; or the target now is what the job asks for.                 *)
Stays(w) ==
    /\ UNCHANGED <<copies, excused>>
    /\ hand'[w].todo = hand[w].todo
    /\ ~ Beaten(w)'

GivesUp(w) == Beaten(w) /\ Finish(w) /\ UNCHANGED <<copies, excused>>

Loses(w) ==
    /\ Finish(w)
    /\ UNCHANGED copies
    /\ excused' = excused \cup {CurrentJob(w).target}

Reaches(w) ==
    LET job == CurrentJob(w)
    IN  /\ Finish(w)
        /\ excused' = excused \ {job.target}
        /\ \A t : t # job.target => copies'[t] = copies[t]
        /\ copies'[job.target] # Absent
        /\ copies'[job.target].spec.content = job.spec.content

LEMMA StoreReaches ==
    ASSUME TypeOK, NEW w \in Workers, hand[w].pc # "idle",
           Write(CurrentJob(w).target, Stored(CurrentJob(w), revision + 1)),
           Done(w)
    PROVE  Reaches(w)
<1> DEFINE job == CurrentJob(w)
<1>1. job \in Job /\ job.target \in Targets
    BY CurrentJobType DEF Job
<1>2. Stored(job, revision + 1) \in Copy /\ Stored(job, revision + 1).spec = job.spec
    BY <1>1, StoredType DEF TypeOK, Stored
<1>3. Stored(job, revision + 1) # Absent
    BY <1>2, CopyStoreAssumption
<1>4. /\ copies'[job.target] = Stored(job, revision + 1)
      /\ \A t : t # job.target => copies'[t] = copies[t]
    BY <1>1 DEF TypeOK, Write
<1> QED BY <1>2, <1>3, <1>4 DEF Reaches, Done

LEMMA UpdateReaches ==
    ASSUME TypeOK, NEW w \in Workers, Update(w)
    PROVE  Reaches(w)
<1> DEFINE job == CurrentJob(w)
           copy == [Merged(hand[w].got, job) EXCEPT !.rv = revision + 1]
<1>1. /\ job \in Job /\ job.target \in Targets
      /\ hand[w].got \in Copy /\ copy \in Copy
      /\ Write(job.target, copy)
    BY UpdateWrites DEF Job
<1>2. copy.spec = job.spec
    BY <1>1 DEF Merged, Copy
<1>3. copy # Absent
    BY <1>1, CopyStoreAssumption
<1> HIDE DEF copy
<1>4. /\ copies'[job.target] = copy
      /\ \A t : t # job.target => copies'[t] = copies[t]
    BY <1>1 DEF TypeOK, Write
<1> QED BY <1>2, <1>3, <1>4 DEF Reaches, Done, Update

LEMMA CallOutcome ==
    ASSUME TypeOK, NEW w \in Workers, Call(w) \/ CallFails(w), ~ GetPanics(w)
    PROVE  Stays(w) \/ GivesUp(w) \/ Loses(w) \/ Reaches(w)
<1> DEFINE found == copies[CurrentJob(w).target]
<1>0. hand[w].pc # "idle" /\ hand[w] \in Hand
    BY CallShape DEF TypeOK
<1>1. ASSUME NEW pc \in {"get", "recreate"}, Goto(w, pc),
             pc = "recreate" => found = Absent, UNCHANGED <<copies, excused>>
      PROVE  Stays(w)
  <2>1. hand'[w] = [hand[w] EXCEPT !.pc = pc]
      BY <1>1 DEF Goto, TypeOK
  <2>2. hand'[w].todo = hand[w].todo /\ hand'[w].pc = pc
      BY <1>0, <2>1 DEF Hand
  <2> QED BY <1>1, <2>2 DEF Stays, Beaten, CurrentJob
<1>2. CASE Create(w)
    BY <1>0, <1>1, <1>2, StoreReaches DEF Create, cluster
<1>3. CASE Recreate(w)
  <2>1. CASE found = Absent
      BY <1>0, <1>3, <2>1, StoreReaches DEF Recreate
  <2>2. CASE found # Absent
      BY <1>3, <2>2 DEF Recreate, At, GivesUp, Beaten, cluster
  <2> QED BY <2>1, <2>2
<1>4. CASE GetNotFound(w)
    BY <1>1, <1>4 DEF GetNotFound, cluster
<1>5. CASE GetForeign(w) \/ UpdateInvalid(w) \/ CallFails(w)
    BY <1>5 DEF GetForeign, UpdateInvalid, CallFails, Lose, Loses, cluster
<1>6. CASE GetEqual(w)
    BY <1>6 DEF GetEqual, GetsManaged, SameSpec, Done, Reaches, cluster
<1>7. CASE GetDiffers(w)
  <2>1. found # Absent /\ UNCHANGED <<copies, excused>>
      BY <1>7 DEF GetDiffers, GetsManaged, cluster
  <2>2. hand'[w] = [hand[w] EXCEPT !.pc = "update", !.got = found]
      BY <1>7 DEF GetDiffers, TypeOK
  <2>3. /\ hand'[w].todo = hand[w].todo
        /\ hand'[w].pc = "update" /\ hand'[w].got = found
      BY <1>0, <2>2 DEF Hand
  <2> QED BY <2>1, <2>3 DEF Stays, Beaten, CurrentJob, Unchanged
<1>8. CASE Update(w)
    BY <1>8, UpdateReaches
<1>9. CASE UpdateConflict(w)
    BY <1>9 DEF UpdateConflict, At, GivesUp, Beaten, cluster
<1> QED BY <1>2, <1>3, <1>4, <1>5, <1>6, <1>7, <1>8, <1>9 DEF Call

(* Whoever has a target of s in hand follows s. *)
LEMMA OwnerFollows ==
    ASSUME TypeOK, Pipelines, NEW w \in Workers, Running(w),
           NEW s \in Sources, NEW t, Exclusive(s, t),
           NEW i \in DOMAIN hand[w].todo, hand[w].todo[i].target = t
    PROVE  w \in Followers(s)
<1>1. PICK r \in Watches[w[2]] : \E spec \in SpecsOf[r] : t \in Claimed(r, spec)
    BY DEF Pipelines, Genuine
<1>2. r \in Sources
    BY ConverterAssumption DEF Workers
<1>3. r = s
    BY <1>1, <1>2, ExclusiveOwner
<1> QED BY <1>1, <1>3 DEF Followers

(* A job that ends at its target leaves it in step, unless there is more to
   come.                                                                    *)
LEMMA ReachesKeepsPromise ==
    ASSUME TypeOK, Pipelines, NEW w \in Workers, Running(w), hand[w].pc # "idle",
           Reaches(w), UNCHANGED <<status, cache, queue>>,
           NEW s \in Sources, NEW x \in Source, NEW t, Exclusive(s, t),
           CurrentJob(w).target = t, Agreed(s, x)
    PROVE  InSync(s, t, x.spec)' \/ \E v \in Followers(s) : Busy(v, s, t)'
<1>1. /\ Finish(w)
      /\ copies'[t] # Absent
      /\ copies'[t].spec.content = CurrentJob(w).spec.content
    BY DEF Reaches
<1>2. /\ CurrentJob(w) = hand[w].todo[1] /\ 1 \in DOMAIN hand[w].todo
      /\ \A i \in DOMAIN hand[w].todo : i \in Nat /\ i >= 1
    BY <1>1, FinishIndices
<1>3. w \in Followers(s)
    BY <1>2, OwnerFollows
<1>4. s \in Watches[w[2]] /\ cache[w][s] # Absent /\ cache[w][s].spec = x.spec
    BY <1>3 DEF Followers, Agreed
<1>5. CASE LastJob(w, 1)
  <2>1. \/ News(w, s)
        \/ hand[w].todo[1].spec.content = LastContent(s, t, x.spec)
      BY <1>2, <1>4, <1>5 DEF Pipelines, UpToDate
  <2>2. CASE News(w, s)
    <3>1. News(w, s)'
        BY <2>2 DEF News, NoDiff
    <3> QED BY <1>3, <3>1 DEF Busy
  <2>3. CASE hand[w].todo[1].spec.content = LastContent(s, t, x.spec)
      BY <1>1, <1>2, <2>3 DEF InSync
  <2> QED BY <2>1, <2>2, <2>3
<1>6. CASE ~ LastJob(w, 1)
  <2>1. PICK j \in DOMAIN hand[w].todo : hand[w].todo[j].target = t /\ ~ (j <= 1)
      BY <1>2, <1>6 DEF LastJob
  <2>2. j > 1
      BY <1>2, <2>1
  <2>3. (t \in Ahead(w))'
      BY <1>1, <2>1, <2>2, FinishKeepsAhead
  <2> QED BY <1>3, <2>3 DEF Busy
<1> QED BY <1>5, <1>6

LEMMA CallKeepsPromise ==
    ASSUME TypeOK, Pipelines, NEW w \in Workers, Call(w) \/ CallFails(w), ~ GetPanics(w),
           NEW s \in Sources, NEW x \in Source, NEW t, Exclusive(s, t), Promise(s, x, t)
    PROVE  Promise(s, x, t)'
<1>1. /\ Running(w) /\ hand[w].pc # "idle"
      /\ UNCHANGED <<sources, status, conf, cache, queue>>
      /\ \A v \in Workers : v # w => hand'[v] = hand[v]
    BY CallShape
<1>2. \A v \in Workers : News(v, s) => News(v, s)'
    BY <1>1 DEF News, NoDiff
<1>3. ASSUME NEW v \in Workers, v # w, copies'[t] = copies[t], t \in Ahead(v)
      PROVE  (t \in Ahead(v))'
    BY <1>1, <1>3, HandKeepsAhead
<1>4. ASSUME Finish(w), t \in Ahead(w), CurrentJob(w).target # t \/ Beaten(w)
      PROVE  (t \in Ahead(w))'
  <2>1. PICK i \in DOMAIN hand[w].todo :
              hand[w].todo[i].target = t /\ (Beaten(w) => i > 1)
      BY <1>4 DEF Ahead
  <2>2. i > 1
      BY <1>1, <1>4, <2>1, FinishIndices
  <2> QED BY <1>1, <1>4, <2>1, <2>2, FinishKeepsAhead
<1>5. CASE Stays(w)
  <2>1. t \in Ahead(w) => (t \in Ahead(w))'
      BY <1>5 DEF Stays, Ahead
  <2>2. \A v \in Workers : Busy(v, s, t) => Busy(v, s, t)'
      BY <1>2, <1>3, <1>5, <2>1 DEF Stays, Busy
  <2> QED BY <1>1, <1>5, <2>2, PromiseKept DEF Stays
<1>6. CASE GivesUp(w)
  <2>1. \A v \in Workers : Busy(v, s, t) => Busy(v, s, t)'
      BY <1>2, <1>3, <1>4, <1>6 DEF GivesUp, Busy
  <2> QED BY <1>1, <1>6, <2>1, PromiseKept DEF GivesUp
<1>7. CASE Loses(w)
  <2>1. ASSUME t \notin excused'
        PROVE  \A v \in Workers : Busy(v, s, t) => Busy(v, s, t)'
      BY <1>2, <1>3, <1>4, <1>7, <2>1 DEF Loses, Busy
  <2> QED BY <1>1, <1>7, <2>1, PromiseKept DEF Loses
<1>8. CASE Reaches(w) /\ CurrentJob(w).target # t
  <2>1. \A v \in Workers : Busy(v, s, t) => Busy(v, s, t)'
      BY <1>2, <1>3, <1>4, <1>8 DEF Reaches, Busy
  <2> QED BY <1>1, <1>8, <2>1, PromiseKept DEF Reaches
<1>9. CASE Reaches(w) /\ CurrentJob(w).target = t
  <2>1. /\ Followers(s)' = Followers(s)
        /\ Agreed(s, x)' <=> Agreed(s, x)
      BY <1>1 DEF Followers, Running, Agreed
  <2> QED BY <1>1, <1>9, <2>1, ReachesKeepsPromise DEF Promise
<1> QED BY <1>5, <1>6, <1>7, <1>8, <1>9, CallOutcome

-----------------------------------------------------------------------------
(* Steps keep promises: the handlers, up to their first call. *)

LEMMA HandleKeepsPromise ==
    ASSUME TypeOK, Pipelines, NEW w \in Workers, HandleIgnored(w) \/ HandleConverted(w),
           NEW s \in Sources, NEW x \in Source, Convertible(s, x),
           NEW t \in Claimed(s, x.spec), Exclusive(s, t), Promise(s, x, t)
    PROVE  Promise(s, x, t)'
<1> DEFINE event == Head(queue[w])
<1>1. /\ CanTake(w) /\ Take(w)
      /\ UNCHANGED <<copies, status, cache>>
      /\ \A v \in Workers : v # w => hand'[v] = hand[v]
    BY ConvertedHand DEF HandleIgnored, cluster
<1>2. /\ event.source \in Watches[w[2]] /\ event.source \in Sources
      /\ event.new \in Source /\ event.new.spec \in SpecsOf[event.source]
      /\ DOMAIN hand[w].todo = {}
    BY <1>1, HandledEvent
<1>3. t \notin Ahead(w)
    BY <1>2 DEF Ahead
<1>4. \A v \in Workers : t \in Ahead(v) => (t \in Ahead(v))'
    BY <1>1, <1>3, HandKeepsAhead
<1>5. CASE event.source # s \/ NoDiff(event)
  <2>1. \A v \in Workers : News(v, s) => News(v, s)'
      BY <1>1, <1>5, TakeKeepsNews
  <2>2. \A v \in Workers : Busy(v, s, t) => Busy(v, s, t)'
      BY <1>4, <2>1 DEF Busy
  <2>3. t \notin excused' => t \notin excused
    <3>1. CASE HandleIgnored(w)
        BY <3>1 DEF HandleIgnored
    <3>2. CASE HandleConverted(w)
      <4>1. event.source # s /\ excused' = excused \ Claimed(event.source, event.new.spec)
          BY <1>5, <3>2, ConvertedHand
      <4>2. t \notin Claimed(event.source, event.new.spec)
          BY <1>2, <4>1, ExclusiveOwner
      <4> QED BY <4>1, <4>2
    <3> QED BY <3>1, <3>2
  <2> QED BY <1>1, <2>2, <2>3, PromiseKept
<1>6. CASE event.source = s /\ ~ NoDiff(event)
  <2> SUFFICES ASSUME Agreed(s, x)'
               PROVE  \E v \in Followers(s)' : Busy(v, s, t)'
      BY DEF Promise
  <2>1. w \in Followers(s)' /\ w \in Followers(s)
      BY <1>1, <1>2, <1>6 DEF Followers, CanTake, Running
  <2>2. cache[w][s] # Absent /\ cache[w][s].spec = x.spec
      BY <1>1, <2>1 DEF Agreed
  <2>3. CASE News(w, s)'
      BY <2>1, <2>3 DEF Busy
  <2>4. CASE x.spec = event.new.spec
    <3>1. Convertible(s, event.new)
        BY <1>2, <2>4, ConvertibleBySpec
    <3>2. HandleConverted(w)
        BY <1>6, <3>1 DEF HandleIgnored, Convertible
    <3> DEFINE jobs == Convert(event.source, event.new, conf[w[1]])
    <3>3. hand'[w].todo = jobs /\ hand'[w].pc \in {"idle", "create", "get"}
        BY <3>2, ConvertedHand
    <3>4. conf[w[1]] \in Selectors
        BY DEF TypeOK, Workers
    <3>5. Claimed(event.source, event.new.spec) = {jobs[i].target : i \in DOMAIN jobs}
        BY <1>2, <3>4, ConvertIndices
    <3> HIDE DEF jobs
    <3>6. PICK i \in DOMAIN jobs : jobs[i].target = t
        BY <1>6, <2>4, <3>5
    <3>7. (t \in Ahead(w))'
        BY <3>3, <3>6 DEF Ahead, Beaten
    <3> QED BY <2>1, <3>7 DEF Busy
  <2>5. x.spec = event.new.spec \/ News(w, s)'
      BY <1>1, <1>6, <2>2, HeadOrNews DEF Pipelines
  <2> QED BY <2>3, <2>4, <2>5
<1> QED BY <1>5, <1>6

-----------------------------------------------------------------------------
(* Steps keep promises: the informers, the processes and everybody else. *)

LEMMA InformerKeepsPromise ==
    ASSUME TypeOK, NEW w \in Workers, NEW r \in Sources,
           Observe(w, r) \/ Resync(w, r),
           NEW s \in Sources, NEW x, NEW t, Promise(s, x, t)
    PROVE  Promise(s, x, t)'
<1>1. /\ UNCHANGED <<copies, status, hand, excused>>
      /\ Running(w) /\ r \in Watches[w[2]]
      /\ \A v \in Workers, q \in Sources : v # w \/ q # r => cache'[v][q] = cache[v][q]
    BY DEF Observe, Resync, cluster, TypeOK
<1>2. cache[w][r] \in Source \cup {Absent} /\ sources[r] \in Source \cup {Absent}
    BY DEF TypeOK
<1>3. \A v \in Workers : t \in Ahead(v) => (t \in Ahead(v))'
    BY <1>1, HandKeepsAhead
<1>4. \A v \in Workers : News(v, s) => News(v, s)'
  <2>1. CASE queue' = queue
      BY <2>1 DEF News, NoDiff
  <2>2. CASE \E new \in Source : Enqueue(w, r, cache[w][r], new)
      BY <1>2, <2>2, EnqueueKeepsNews
  <2> QED BY <1>2, <2>1, <2>2 DEF Observe, Resync
<1>5. \A v \in Workers : Busy(v, s, t) => Busy(v, s, t)'
    BY <1>3, <1>4 DEF Busy
<1>6. CASE cache' = cache
    BY <1>1, <1>5, <1>6, PromiseKept
<1>7. CASE Observe(w, r)
  <2>1. cache'[w][r] = sources[r]
      BY <1>7 DEF Observe, TypeOK
  <2> SUFFICES ASSUME Followers(s)' # {}, Agreed(s, x)', t \notin excused'
               PROVE  InSync(s, t, x.spec)' \/ \E v \in Followers(s)' : Busy(v, s, t)'
      BY DEF Promise
  <2>2. /\ Followers(s)' = Followers(s)
        /\ InSync(s, t, x.spec)' <=> InSync(s, t, x.spec)
      BY <1>1 DEF Followers, Running, InSync
  <2>3. \A v \in Followers(s) : cache'[v][s] # Absent /\ cache'[v][s].spec = x.spec
      BY <2>2 DEF Agreed
  <2>4. CASE r = s /\ (cache[w][s] = Absent \/ cache[w][s].spec # x.spec)
    <3>1. w \in Followers(s)
        BY <1>1, <2>4 DEF Followers
    <3>2. sources[s] \in Source /\ sources[s].spec = x.spec
        BY <1>2, <2>1, <2>3, <2>4, <3>1
    <3>3. Enqueue(w, s, cache[w][s], sources[s])
        BY <1>7, <2>1, <2>3, <2>4, <3>1 DEF Observe
    <3>4. News(w, s)'
        BY <1>2, <2>4, <3>2, <3>3, EnqueueKeepsNews
    <3> QED BY <2>2, <3>1, <3>4 DEF Busy
  <2>5. CASE ~ (r = s /\ (cache[w][s] = Absent \/ cache[w][s].spec # x.spec))
    <3>1. ASSUME NEW v \in Followers(s)
          PROVE  cache[v][s] # Absent /\ cache[v][s].spec = x.spec
      <4>1. CASE v = w /\ r = s
          BY <2>5, <4>1
      <4>2. CASE v # w \/ r # s
          BY <1>1, <2>3, <4>2 DEF Followers
      <4> QED BY <4>1, <4>2
    <3>2. InSync(s, t, x.spec) \/ \E v \in Followers(s) : Busy(v, s, t)
        BY <1>1, <2>2, <3>1 DEF Promise, Agreed
    <3> QED BY <1>5, <2>2, <3>2 DEF Followers
  <2> QED BY <2>4, <2>5
<1> QED BY <1>6, <1>7 DEF Resync

(* A process that starts has seen nothing yet: the followers do not agree. *)
LEMMA StartKeepsPromise ==
    ASSUME TypeOK, Forgotten, NEW p \in Procs, Start(p),
           NEW s \in Sources, NEW x, NEW t, Promise(s, x, t)
    PROVE  Promise(s, x, t)'
<1>1. /\ UNCHANGED <<copies, cache, queue, hand, excused>>
      /\ \A q \in Procs : q # p => status'[q] = status[q]
      /\ status'[p] = "running" /\ status[p] # "running"
    BY DEF Start, TypeOK, cluster, pipeline
<1>2. \A v \in Workers : Busy(v, s, t) <=> Busy(v, s, t)'
    BY <1>1 DEF Busy, News, NoDiff, Ahead, Beaten, CurrentJob
<1>3. Followers(s) \subseteq Followers(s)'
    BY <1>1 DEF Followers, Running, Workers
<1>4. ASSUME Agreed(s, x)' PROVE Followers(s)' = Followers(s)
  <2>1. ASSUME NEW v \in Followers(s)' PROVE Running(v)
    <3>1. v \in Workers
        BY DEF Followers
    <3>2. cache[v][s] # Absent
        BY <1>1, <1>4 DEF Agreed
    <3> QED BY <3>1, <3>2 DEF Forgotten
  <2> QED BY <1>3, <2>1 DEF Followers
<1> QED BY <1>1, <1>2, <1>4 DEF Promise, Agreed, InSync, Followers

(* When everything is settled, all stores have the sources as they are, and
   there is nothing left to do.                                             *)
LEMMA SettledWorkers ==
    ASSUME IdleHands, AllSettled, NEW s \in Sources, NEW v \in Followers(s), NEW t
    PROVE  cache[v][s] = sources[s] /\ ~ Busy(v, s, t)
<1>1. v \in Workers /\ Running(v) /\ s \in Watches[v[2]]
    BY DEF Followers
<1>2. v[1] \in Procs /\ v[2] \in Informers /\ v = <<v[1], v[2]>>
    BY <1>1 DEF Workers
<1>3. Settled(v[1])
    BY <1>1, <1>2 DEF AllSettled, Running
<1>4. hand[v].pc = "idle" /\ queue[v] = <<>> /\ cache[v][s] = sources[s]
    BY <1>1, <1>2, <1>3 DEF Settled
<1>5. hand[v].todo = <<>>
    BY <1>1, <1>4 DEF IdleHands
<1>6. DOMAIN <<>> = {}
    OBVIOUS
<1> QED BY <1>4, <1>5, <1>6 DEF Busy, News, Ahead

LEMMA EndWithKeepsPromise ==
    ASSUME TypeOK, Pipelines, NEW p \in Procs, NEW ending \in {"down", "panicked"},
           EndWith(p, ending),
           NEW s \in Sources, NEW x \in Source, NEW t \in Claimed(s, x.spec),
           Promise(s, x, t)
    PROVE  Promise(s, x, t)'
<1>1. /\ copies' = copies
      /\ excused' = IF AllSettled THEN excused ELSE Targets
      /\ \A v \in Workers : v[1] # p => cache'[v] = cache[v] /\ status'[v[1]] = status[v[1]]
      /\ status'[p] # "running"
    BY DEF EndWith, TypeOK, cluster, Workers
<1> SUFFICES ASSUME Followers(s)' # {}, Agreed(s, x)', t \notin excused'
             PROVE  InSync(s, t, x.spec)'
    BY DEF Promise
<1>2. AllSettled /\ t \notin excused
    BY <1>1, ClaimedType
<1>3. PICK u \in Followers(s)' : TRUE
    OBVIOUS
<1>4. u \in Followers(s) /\ u[1] # p /\ cache'[u] = cache[u]
    BY <1>1, <1>3 DEF Followers, Running
<1>5. sources[s] # Absent /\ sources[s].spec = x.spec
  <2>1. cache[u][s] # Absent /\ cache[u][s].spec = x.spec
      BY <1>3, <1>4 DEF Agreed
  <2> QED BY <1>2, <1>4, <2>1, SettledWorkers DEF Pipelines
<1>6. Agreed(s, x)
    BY <1>2, <1>5, SettledWorkers DEF Agreed, Pipelines
<1>7. InSync(s, t, x.spec)
    BY <1>2, <1>4, <1>6, SettledWorkers DEF Promise, Pipelines
<1> QED BY <1>1, <1>7 DEF InSync

LEMMA OthersKeepPromise ==
    ASSUME TypeOK, UNCHANGED <<status, cache, queue, hand>>,
           NEW s, NEW x, NEW t,
           t \notin excused' => t \notin excused /\ copies'[t] = copies[t],
           Promise(s, x, t)
    PROVE  Promise(s, x, t)'
<1>1. \A v \in Workers : News(v, s) => News(v, s)'
    BY DEF News, NoDiff
<1>2. ASSUME t \notin excused'
      PROVE  \A v \in Workers : Busy(v, s, t) => Busy(v, s, t)'
    BY <1>1, <1>2, HandKeepsAhead DEF Busy
<1> QED BY <1>2, PromiseKept

-----------------------------------------------------------------------------
(* The theorems. *)

LEMMA StepKeepsPromise ==
    ASSUME TypeOK, Forgotten, Pipelines, [Next]_vars,
           NEW s \in Sources, NEW x \in Source, Convertible(s, x),
           NEW t \in Claimed(s, x.spec), Exclusive(s, t), Promise(s, x, t)
    PROVE  Promise(s, x, t)'
<1>1. CASE UNCHANGED vars
    BY <1>1, OthersKeepPromise DEF vars
<1>2. ASSUME NEW r \in Sources, EditSource(r) PROVE Promise(s, x, t)'
    BY <1>2, OthersKeepPromise DEF EditSource, pipeline
<1>3. ASSUME NEW u \in Targets, ForeignWrite(u) \/ ForeignDelete(u)
      PROVE  Promise(s, x, t)'
  <2>1. /\ UNCHANGED <<status, cache, queue, hand>>
        /\ excused' = excused \cup {u}
        /\ \E copy : copies' = [copies EXCEPT ![u] = copy]
      BY <1>3 DEF ForeignWrite, ForeignDelete, Write, pipeline
  <2>2. t # u => copies'[t] = copies[t]
      BY <2>1 DEF TypeOK
  <2> QED BY <2>1, <2>2, OthersKeepPromise
<1>4. ASSUME NEW p \in Procs, NEW ending \in {"down", "panicked"}, EndWith(p, ending)
      PROVE  Promise(s, x, t)'
    BY <1>4, EndWithKeepsPromise
<1>5. ASSUME NEW p \in Procs, Start(p) PROVE Promise(s, x, t)'
    BY <1>5, StartKeepsPromise
<1>6. ASSUME NEW w \in Workers, NEW r \in Sources, Observe(w, r) \/ Resync(w, r)
      PROVE  Promise(s, x, t)'
    BY <1>6, InformerKeepsPromise
<1>7. ASSUME NEW w \in Workers, Handle(w) PROVE Promise(s, x, t)'
    BY <1>4, <1>7, HandleKeepsPromise DEF Handle, HandlePanic, Panic, Workers
<1>8. ASSUME NEW w \in Workers, Call(w) \/ CallFails(w) PROVE Promise(s, x, t)'
    BY <1>4, <1>8, CallKeepsPromise DEF GetPanics, Panic, Workers
<1> QED BY <1>1, <1>2, <1>3, <1>4, <1>5, <1>6, <1>7, <1>8
        DEF Next, Environment, Stop

LEMMA StepConverges ==
    TypeOK /\ Forgotten /\ Pipelines /\ Converging /\ [Next]_vars => Converging'
<1> SUFFICES ASSUME TypeOK, Forgotten, Pipelines, Converging, [Next]_vars
             PROVE  Converging'
    OBVIOUS
<1>1. Promises
    BY PromisesConverge
<1>2. Promises'
    BY <1>1, StepKeepsPromise DEF Promises
<1>3. TypeOK'
    BY StepType
<1>4. (TypeOK => (Promises <=> Converging))'
    BY PromisesConverge, PTL
<1> QED BY <1>2, <1>3, <1>4

LEMMA InitConverges == Init => Converging
BY DEF Init, Converging, Followers, Running, Workers

(* However many processes follow a source, and however their events, calls and
   endings interleave: while the stores that follow it agree on its spec, each
   of its copies is in step with it or on its way to be.                    *)
THEOREM ConvergenceHolds == Spec => []Converging
<1> DEFINE Inv == TypeOK /\ SyncInv
<1>1. Init => Inv
    BY InitType, InitForgotten, InitPipelines, InitConverges DEF SyncInv
<1>2. Inv /\ [Next]_vars => Inv'
    BY StepType, StepForgets, StepKeepsPipelines, StepConverges DEF SyncInv
<1>3. Inv => Converging
    BY DEF SyncInv
<1> QED BY <1>1, <1>2, <1>3, PTL DEF Spec

LEMMA ConvergedWhenSettled ==
    ASSUME TypeOK, IdleHands, Converging
    PROVE  SettledInSync
<1> SUFFICES ASSUME AllSettled, NEW s \in Watched, Converts(s),
                    NEW t \in Claimed(s, sources[s].spec),
                    Exclusive(s, t), t \notin excused
             PROVE  InSync(s, t, sources[s].spec)
    BY DEF SettledInSync
<1>1. PICK i \in Informers : s \in Watches[i]
    BY DEF Watched
<1>2. s \in Sources
    BY <1>1, ConverterAssumption
<1>3. sources[s] \in Source
    BY <1>2 DEF TypeOK, Converts, Convertible
<1>4. PICK p \in Procs : Settled(p)
    BY DEF AllSettled
<1>5. <<p, i>> \in Followers(s)
    BY <1>1, <1>4 DEF Followers, Running, Settled, Workers
<1>6. Agreed(s, sources[s])
    BY <1>2, SettledWorkers DEF Agreed, Converts, Convertible
<1>7. Promise(s, sources[s], t)
    BY <1>2, <1>3, PromisesConverge DEF Promises, Converts
<1> QED BY <1>2, <1>5, <1>6, <1>7, SettledWorkers DEF Promise

(* So when every running process has nothing left to do, no copy is out of
   step, except those that the code has given up.                           *)
THEOREM NothingLost == Spec => []SettledInSync
<1> DEFINE Inv == TypeOK /\ SyncInv
<1>1. Init => Inv
    BY InitType, InitForgotten, InitPipelines, InitConverges DEF SyncInv
<1>2. Inv /\ [Next]_vars => Inv'
    BY StepType, StepForgets, StepKeepsPipelines, StepConverges DEF SyncInv
<1>3. Inv => SettledInSync
    BY ConvergedWhenSettled DEF SyncInv, Pipelines
<1> QED BY <1>1, <1>2, <1>3, PTL DEF Spec
===============================================================================
