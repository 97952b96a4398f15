---------------------------- MODULE LibraryProofs -----------------------------
(***************************************************************************)
(* The client library, for any contents and any number of changes: the     *)
(* variables keep their types; and, where no caller writes to the external *)
(* certificate of a v1beta1 Grafana, the informer's store is not written   *)
(* through copies, and the fake clientset agrees with the server until a   *)
(* call is made which it is known to answer otherwise.                     *)
(***************************************************************************)
EXTENDS DeepCopyProofs

-----------------------------------------------------------------------------
(* The clients, real and fake, and the lister of a kit are of one kind, and the
   kits of a version are those of its resources.                            *)
Matched(k, resources) ==
    /\ k.fake.resource \in DOMAIN resources
    /\ k.client.type = resources[k.fake.resource]
    /\ k.lister = k.client.type

(* So it is for v1alpha1 ... *)
LEMMA AlphaKits ==
    /\ \A k \in A!Kits : Matched(k, AlphaResources)
    /\ \A r \in DOMAIN AlphaResources :
         \E k \in A!Kits : k.client.type = AlphaResources[r]
    /\ \A r, q \in DOMAIN AlphaResources :
         AlphaResources[r] = AlphaResources[q] => r = q
<1>1. \A k \in A!Kits : Matched(k, AlphaResources)
    BY DEF A!Kits, A!Kit, A!Client, AlphaResources, Matched,
           A!Grafanas, A!FakeGrafanas, A!GrafanaLister,
           A!GrafanaDashboards, A!FakeGrafanaDashboards,
           A!GrafanaDashboardLister,
           A!GrafanaDataSources, A!FakeGrafanaDataSources,
           A!GrafanaDataSourceLister,
           A!GrafanaFolders, A!FakeGrafanaFolders, A!GrafanaFolderLister,
           A!GrafanaNotificationChannels, A!FakeGrafanaNotificationChannels,
           A!GrafanaNotificationChannelLister
<1>2. \A r \in DOMAIN AlphaResources :
         \E k \in A!Kits : k.client.type = AlphaResources[r]
    BY DEF A!Kits, A!Kit, A!Client, AlphaResources, 
           A!Grafanas, A!GrafanaDashboards, A!GrafanaDataSources,
           A!GrafanaFolders, A!GrafanaNotificationChannels
<1>3. \A r, q \in DOMAIN AlphaResources :
         AlphaResources[r] = AlphaResources[q] => r = q
    BY DEF AlphaResources
<1> QED BY <1>1, <1>2, <1>3

(* ... and for v1beta1. *)
LEMMA BetaKits ==
    /\ \A k \in B!Kits : Matched(k, BetaResources)
    /\ \A r \in DOMAIN BetaResources :
         \E k \in B!Kits : k.client.type = BetaResources[r]
    /\ \A r, q \in DOMAIN BetaResources :
         BetaResources[r] = BetaResources[q] => r = q
<1>1. \A k \in B!Kits : Matched(k, BetaResources)
    BY DEF B!Kits, B!Kit, B!Client, BetaResources, Matched,
           B!Grafanas, B!FakeGrafanas, B!GrafanaLister,
           B!GrafanaAlertRuleGroups, B!FakeGrafanaAlertRuleGroups,
           B!GrafanaAlertRuleGroupLister,
           B!GrafanaContactPoints, B!FakeGrafanaContactPoints,
           B!GrafanaContactPointLister,
           B!GrafanaDashboards, B!FakeGrafanaDashboards,
           B!GrafanaDashboardLister,
           B!GrafanaDatasources, B!FakeGrafanaDatasources,
           B!GrafanaDatasourceLister,
           B!GrafanaFolders, B!FakeGrafanaFolders, B!GrafanaFolderLister
<1>2. \A r \in DOMAIN BetaResources :
         \E k \in B!Kits : k.client.type = BetaResources[r]
    BY DEF B!Kits, B!Kit, B!Client, BetaResources, 
           B!Grafanas, B!GrafanaAlertRuleGroups, B!GrafanaContactPoints,
           B!GrafanaDashboards, B!GrafanaDatasources, B!GrafanaFolders
<1>3. \A r, q \in DOMAIN BetaResources :
         BetaResources[r] = BetaResources[q] => r = q
    BY DEF BetaResources
<1> QED BY <1>1, <1>2, <1>3

(* Whatever the kind, its fake client uses the resource of the kind, and its
   lister casts to the kind.                                                *)
LEMMA KitOfTheKind ==
    ASSUME version \in Versions, resource \in DOMAIN Established(version)
    PROVE  kit.fake.resource = resource /\ kit.lister = Kind
<1>1. CASE version = "v1alpha1"
  <2>1. resource \in DOMAIN AlphaResources /\ Kind = AlphaResources[resource]
      BY <1>1 DEF Established, Kind
  <2>2. AlphaKit \in A!Kits /\ AlphaKit.client.type = Kind
      BY <2>1, AlphaKits DEF AlphaKit
  <2> QED BY <1>1, <2>1, <2>2, AlphaKits DEF kit, Matched
<1>2. CASE version # "v1alpha1"
  <2>1. resource \in DOMAIN BetaResources /\ Kind = BetaResources[resource]
      BY <1>2 DEF Established, Kind
  <2>2. BetaKit \in B!Kits /\ BetaKit.client.type = Kind
      BY <2>1, BetaKits DEF BetaKit
  <2> QED BY <1>2, <2>1, <2>2, BetaKits DEF kit, Matched
<1> QED BY <1>1, <1>2

-----------------------------------------------------------------------------
(* The one kind of which a copy shares memory with its original, with callers
   that write there.                                                        *)
Exposed == CertificateWrites /\ version = "v1beta1" /\ resource = "grafanas"

(* The inductive invariant.  TypeOK does not say that what is in hand is a
   record of a fixed shape, nor of what type an empty store is; and neither of
   the two other invariants is inductive without the types.  That a write
   through a copy leaves the types as they are takes two facts more: a lender
   has the object it lent (Lent), and a tracker that follows has one exactly
   when the server has (Following).                                         *)
States == Objects \cup {Absent}
Hands == [spec : Contents, status : Contents, revision : Nat,
          root : {Kind, ListOf[Kind]}, lender : {"nobody", "store", "tracker"},
          raw : BOOLEAN]

Chosen ==
    /\ version \in Versions
    /\ resource \in DOMAIN Established(version)
LogTyped ==
    /\ log \in Seq(States)
    /\ Revision \in 1 .. MaxRevisions
TrackerTyped ==
    /\ tracker \in [DOMAIN Established(version) -> States]
    /\ apart \in BOOLEAN
StoreTyped ==
    store \in [revision : 0 .. Revision, object : States, type : {Kind}]
HandTyped ==
    hand # Nothing =>
      /\ hand \in Hands
      /\ hand.revision <= Revision
      /\ hand.raw => hand.lender # "tracker"
Lent ==
    hand # Nothing =>
      /\ hand.lender = "store" => store.object # Absent
      /\ hand.lender = "tracker" => tracker[resource] # Absent
Following ==
    ~apart => (tracker[resource] = Absent <=> Server = Absent)

IntactUnlessExposed == Exposed \/ StoreIntact
AgreesUnlessExposed == Exposed \/ FakeAgrees

LibraryInv ==
    /\ Chosen /\ LogTyped /\ TrackerTyped /\ StoreTyped /\ HandTyped
    /\ Lent /\ Following
    /\ IntactUnlessExposed
    /\ AgreesUnlessExposed

(* An object is not the absence of one. *)
LEMMA ObjectIsNotAbsent ==
    ASSUME NEW object \in Objects
    PROVE  object # Absent
<1>1. "spec" \in DOMAIN object
    BY DEF Objects
<1>2. DOMAIN <<>> = {}
    OBVIOUS
<1> QED BY <1>1, <1>2 DEF Absent

(* Nor is something in hand nothing. *)
LEMMA SomethingInHand ==
    ASSUME NEW spec, NEW status, NEW revision, NEW root, NEW lender, NEW raw
    PROVE  [spec |-> spec, status |-> status, revision |-> revision,
            root |-> root, lender |-> lender, raw |-> raw] # Nothing
<1>1. DOMAIN <<>> = {}
    OBVIOUS
<1> QED BY <1>1 DEF Nothing

(* The log as a step leaves it. *)
Logged(before, after, object) ==
    /\ after \in Seq(States)
    /\ after[Len(after)] = object
    /\ Len(after) \in {Len(before), Len(before) + 1}
    /\ after # before => Len(after) = Len(before) + 1
    /\ \A i \in 1 .. Len(before) : after[i] = before[i]

(* Record adds the object, unless it is there already. *)
LEMMA Recording ==
    ASSUME log \in Seq(States), Revision \in 1 .. MaxRevisions,
           NEW object \in States, Record(object)
    PROVE  Logged(log, log', object) 
<1>1. CASE object = Server
    BY <1>1 DEF Record, Server, Last, Logged, Revision
<1>2. CASE object # Server
    BY <1>2 DEF Record, Server, Last, Logged, Revision
<1> QED BY <1>1, <1>2

(* What a call answers can be held ... *)
LEMMA AnswerInHand ==
    ASSUME NEW object \in Objects, NEW revision \in Nat,
           NEW root \in {Kind, ListOf[Kind]}
    PROVE  LET h == Answer(object, revision, root)
           IN  h \in Hands /\ h # Nothing /\ h.revision = revision /\ ~h.raw
BY SomethingInHand DEF Answer, InHand, Hands, Objects

(* ... and so can what is left once its lender has gone on. *)
LEMMA ReturnedInHand ==
    ASSUME HandTyped, NEW from \in {"store", "tracker"}
    PROVE  LET h == Returned(hand, from)
           IN  h # Nothing => /\ h \in Hands
                              /\ h.revision = hand.revision
                              /\ h.raw => h.lender # "tracker"
                              /\ hand # Nothing
BY DEF HandTyped, Returned, Hands

-----------------------------------------------------------------------------
(* What holds after a step that keeps to the version and the resource. *)
LEMMA SameKind ==
    ASSUME LibraryInv, UNCHANGED <<version, resource>>
    PROVE  /\ Kind' = Kind /\ Hands' = Hands /\ Chosen'
           /\ Established(version)' = Established(version)
           /\ Exposed' = Exposed
BY DEF Kind, Hands, Established, AlphaResources, BetaResources, LibraryInv,
       Chosen, Exposed

(* ... and the log. *)
LEMMA LogAsItWas ==
    ASSUME LibraryInv, UNCHANGED <<version, resource, log>>
    PROVE  LogTyped' /\ Server' = Server /\ Revision' = Revision
BY DEF LibraryInv, LogTyped, Revision, Server, States

(* ... and the store. *)
LEMMA StoreAsItWas ==
    ASSUME LibraryInv, UNCHANGED <<version, resource, log, store>>
    PROVE  StoreTyped' /\ IntactUnlessExposed'
BY SameKind, LogAsItWas
   DEF LibraryInv, StoreTyped, IntactUnlessExposed, StoreIntact, States

(* ... and the tracker. *)
LEMMA TrackerAsItWas ==
    ASSUME LibraryInv, UNCHANGED <<version, resource, log, tracker, apart>>
    PROVE  TrackerTyped' /\ Following' /\ AgreesUnlessExposed'
BY SameKind, LogAsItWas
   DEF LibraryInv, TrackerTyped, Following, AgreesUnlessExposed, FakeAgrees,
       States

(* A write to the log leaves the store as it was read. *)
LEMMA AfterRecord ==
    ASSUME LibraryInv, MayWrite, UNCHANGED <<version, resource, store>>,
           NEW object \in States, Record(object)
    PROVE  /\ LogTyped' /\ StoreTyped' /\ IntactUnlessExposed'
           /\ Server' = object
           /\ Revision' \in {Revision, Revision + 1}
           /\ object # Server => Revision' = Revision + 1
<1>1. Logged(log, log', object)
    BY Recording DEF LibraryInv, LogTyped
<1>2. Revision \in 1 .. MaxRevisions - 1
    BY ContentsAssumption DEF LibraryInv, LogTyped, MayWrite
<1>3. /\ Server' = object
      /\ Revision' \in {Revision, Revision + 1}
      /\ object # Server => Revision' = Revision + 1
    BY <1>1 DEF Server, Last, Revision, Logged
<1>4. LogTyped'
    BY <1>1, <1>2, <1>3, ContentsAssumption DEF LogTyped, Logged, States
<1>5. StoreTyped'
    BY <1>2, <1>3, SameKind DEF LibraryInv, StoreTyped, States
<1>6. StoreIntact => StoreIntact'
    BY <1>1, <1>2 DEF LibraryInv, StoreTyped, StoreIntact, Logged, Revision
<1>7. IntactUnlessExposed'
    BY <1>6, SameKind DEF LibraryInv, IntactUnlessExposed
<1> QED BY <1>3, <1>4, <1>5, <1>7

(* The tracker either follows or is apart. *)
LEMMA AfterTracks ==
    ASSUME LibraryInv, UNCHANGED <<version, resource>>, apart' \in BOOLEAN,
           NEW accepted \in BOOLEAN, NEW object, Tracks(accepted, object),
           accepted => object \in States,
           ~apart' => /\ ~apart /\ accepted
                      /\ object = Absent <=> Server' = Absent
                      /\ Exposed \/ object = Server'
    PROVE  TrackerTyped' /\ Following' /\ AgreesUnlessExposed'
<1>1. kit.fake.resource = resource
    BY KitOfTheKind DEF LibraryInv, Chosen
<1>2. TrackerTyped'
    BY <1>1, SameKind DEF LibraryInv, TrackerTyped, Tracks, States
<1>3. Following'
    BY <1>1 DEF LibraryInv, Chosen, TrackerTyped, Following, Tracks
<1>4. CASE Exposed
    BY <1>2, <1>3, <1>4, SameKind DEF AgreesUnlessExposed
<1>5. CASE ~Exposed
  <2>1. FakeAgrees'
      BY <1>1, <1>5, SameKind
         DEF LibraryInv, TrackerTyped, AgreesUnlessExposed, FakeAgrees, Tracks,
             Chosen
  <2> QED BY <1>2, <1>3, <2>1 DEF AgreesUnlessExposed
<1> QED BY <1>4, <1>5

(* What the caller holds after a call that answers ... *)
LEMMA AfterAnswer ==
    ASSUME LibraryInv, UNCHANGED <<version, resource>>,
           NEW object \in Objects, NEW revision \in Nat, revision <= Revision',
           NEW root \in {Kind, ListOf[Kind]},
           hand' = Answer(object, revision, root),
           Following', Server' # Absent
    PROVE  HandTyped' /\ Lent'
<1>1. HandTyped'
    BY SameKind, AnswerInHand DEF HandTyped
<1>2. hand'.lender = IF apart' THEN "nobody" ELSE "tracker"
    BY DEF Answer, InHand
<1>3. Lent'
    BY <1>2 DEF Lent, Following
<1> QED BY <1>1, <1>3

(* ... and after one that takes from it who lent it. *)
LEMMA AfterReturn ==
    ASSUME LibraryInv, UNCHANGED <<version, resource>>,
           Revision' \in {Revision, Revision + 1},
           NEW from \in {"store", "tracker"}, hand' = Returned(hand, from),
           from = "store" => UNCHANGED tracker,
           from = "tracker" => UNCHANGED store
    PROVE  HandTyped' /\ Lent'
<1>1. Revision \in Nat /\ (hand # Nothing => hand.revision \in Nat)
    BY DEF LibraryInv, LogTyped, HandTyped, Hands, Revision
<1>2. HandTyped'
    BY <1>1, SameKind, ReturnedInHand DEF LibraryInv, HandTyped
<1>3. hand' # Nothing => hand # Nothing /\ hand'.lender # from
                         /\ hand'.lender \in {hand.lender, "nobody"}
    BY DEF LibraryInv, HandTyped, Returned, Hands
<1>4. Lent'
    BY <1>3 DEF LibraryInv, Lent
<1> QED BY <1>2, <1>4

-----------------------------------------------------------------------------
(* The steps, one by one. *)

(* Until the two come apart, the tracker has what the server has. *)
LEMMA FakedIsServer ==
    ASSUME LibraryInv, ~apart
    PROVE  /\ Faked = Absent <=> Server = Absent
           /\ Exposed \/ Faked = Server
BY KitOfTheKind
   DEF LibraryInv, Chosen, Faked, Following, AgreesUnlessExposed, FakeAgrees,
       TrackerTyped

LEMMA FakedIsState ==
    ASSUME LibraryInv
    PROVE  Faked \in States
BY KitOfTheKind DEF LibraryInv, Chosen, Faked, TrackerTyped

LEMMA ServerIsState ==
    ASSUME LibraryInv
    PROVE  Server \in States /\ Revision \in Nat /\ Revision > 0
<1>1. Revision \in 1 .. Len(log) /\ Revision \in Nat
    BY ContentsAssumption DEF LibraryInv, LogTyped, Revision
<1> QED BY <1>1 DEF LibraryInv, LogTyped, Server, Last, Revision

(* A part of an object replaced leaves an object. *)
LEMMA PartReplaced ==
    ASSUME NEW object \in Objects, NEW part \in {"spec", "status"},
           NEW content \in Contents
    PROVE  [object EXCEPT ![part] = content] \in Objects
BY DEF Objects

LEMMA NewKeeps == ASSUME LibraryInv, New PROVE LibraryInv'
<1>1. UNCHANGED <<version, resource, log, tracker, apart, store>>
    BY DEF New
<1>2. hand' \in Hands /\ hand'.revision = 0 /\ ~hand'.raw
      /\ hand'.lender = "nobody"
    BY ContentsAssumption DEF New, InHand, Hands
<1>3. Revision' \in Nat
    BY <1>1, LogAsItWas, ServerIsState
<1>4. HandTyped' /\ Lent'
    BY <1>1, <1>2, <1>3, SameKind DEF HandTyped, Lent
<1> QED BY <1>1, <1>4, SameKind, LogAsItWas, StoreAsItWas, TrackerAsItWas
        DEF LibraryInv

LEMMA CreateKeeps == ASSUME LibraryInv, Create PROVE LibraryInv'
<1> USE DEF Create
<1> DEFINE created == [spec |-> hand.spec, status |-> Fresh]
<1>1. hand \in Hands /\ Content(hand) \in Objects /\ created \in Objects
    BY ContentsAssumption DEF LibraryInv, HandTyped, Hands, Content, Objects
<1>2. Record(created) /\ created # Server
    BY <1>1, ObjectIsNotAbsent
<1>3. LogTyped' /\ StoreTyped' /\ IntactUnlessExposed' /\ Server' = created
      /\ Revision' = Revision + 1
    BY <1>1, <1>2, AfterRecord DEF States
<1>4. ~apart' => ~apart /\ Faked = Absent /\ Content(hand) = created
    BY FakedIsServer DEF Content
<1>5. TrackerTyped' /\ Following' /\ AgreesUnlessExposed'
  <2>1. apart' \in BOOLEAN /\ Tracks(Faked = Absent, Content(hand))
      BY DEF LibraryInv, TrackerTyped
  <2> QED BY <1>1, <1>3, <1>4, <2>1, AfterTracks DEF States
<1>6. HandTyped' /\ Lent'
  <2>1. hand' = Answer(created, Revision + 1, Kind) /\ Revision + 1 \in Nat
      BY DEF LibraryInv, LogTyped
  <2> QED BY <1>1, <1>3, <1>5, <2>1, AfterAnswer, ObjectIsNotAbsent
<1> QED BY <1>3, <1>5, <1>6, SameKind DEF LibraryInv

LEMMA ReplaceKeeps ==
    ASSUME LibraryInv, NEW updated \in Objects, Replace(updated)
    PROVE  LibraryInv'
<1> USE DEF Replace
<1>1. hand \in Hands /\ Content(hand) \in Objects /\ hand.revision <= Revision
    BY DEF LibraryInv, HandTyped, Hands, Content, Objects
<1>2. /\ LogTyped' /\ StoreTyped' /\ IntactUnlessExposed'
      /\ Revision' \in {Revision, Revision + 1}
      /\ hand.revision = Revision => Server' = updated
  <2>1. CASE hand.revision = Revision
      BY <2>1, AfterRecord DEF States
  <2>2. CASE hand.revision # Revision
      BY <2>2, LogAsItWas, StoreAsItWas
  <2> QED BY <2>1, <2>2
<1>3. ~apart' => ~apart /\ Faked # Absent /\ Content(hand) = updated
                  /\ hand.revision = Revision
    BY FakedIsServer
<1>4. TrackerTyped' /\ Following' /\ AgreesUnlessExposed'
  <2>1. apart' \in BOOLEAN /\ Tracks(Faked # Absent, Content(hand))
      BY DEF LibraryInv, TrackerTyped
  <2> QED BY <1>1, <1>2, <1>3, <2>1, AfterTracks, ObjectIsNotAbsent DEF States
<1>5. HandTyped' /\ Lent'
  <2>1. CASE hand.revision = Revision
    <3>1. hand' = Answer(updated, Revision', Kind) /\ Revision' \in Nat
        BY <2>1, <1>2, ServerIsState DEF Revision
    <3>2. Server' # Absent
        BY <2>1, <1>2, ObjectIsNotAbsent
    <3> QED BY <3>1, <3>2, <1>2, <1>4, AfterAnswer
  <2>2. CASE hand.revision # Revision
    <3>1. hand' = [hand EXCEPT !.lender = "nobody"]
        BY <2>2
    <3>2. HandTyped'
        BY <3>1, <1>1, <1>2, ServerIsState, SameKind DEF HandTyped, Hands
    <3>3. Lent'
        BY <3>1, <1>1 DEF Lent, Hands
    <3> QED BY <3>2, <3>3
  <2> QED BY <2>1, <2>2
<1> QED BY <1>2, <1>4, <1>5, SameKind DEF LibraryInv

LEMMA UpdateKeeps == ASSUME LibraryInv, Update PROVE LibraryInv'
<1>1. hand \in Hands /\ Server \in Objects
    BY ServerIsState DEF LibraryInv, Update, Replace, HandTyped, States
<1>2. [spec |-> hand.spec, status |-> Server.status] \in Objects
    BY <1>1 DEF Hands, Objects
<1> QED BY <1>2, ReplaceKeeps DEF Update

LEMMA UpdateStatusKeeps == ASSUME LibraryInv, UpdateStatus PROVE LibraryInv'
<1>1. hand \in Hands /\ Server \in Objects
    BY ServerIsState DEF LibraryInv, UpdateStatus, Replace, HandTyped, States
<1>2. [spec |-> Server.spec, status |-> hand.status] \in Objects
    BY <1>1 DEF Hands, Objects
<1> QED BY <1>2, ReplaceKeeps DEF UpdateStatus

LEMMA PatchKeeps ==
    ASSUME LibraryInv, NEW part \in {"spec", "status"},
           NEW content \in Contents,
           Patch(part, content)
    PROVE  LibraryInv'
<1> DEFINE patched == [Server EXCEPT ![part] = content]
<1>0. /\ MayWrite /\ Server # Absent /\ Record(patched)
      /\ UNCHANGED <<version, resource, store, apart>>
      /\ Tracks(Faked # Absent, [Faked EXCEPT ![part] = content])
      /\ hand' = Answer(patched, Revision', Kind)
    BY DEF Patch, Revision
<1>1. Server \in Objects /\ patched \in Objects
    BY <1>0, ServerIsState, PartReplaced DEF States
<1> HIDE DEF patched
<1>2. LogTyped' /\ StoreTyped' /\ IntactUnlessExposed' /\ Server' = patched
      /\ Revision' \in {Revision, Revision + 1}
    BY <1>0, <1>1, AfterRecord DEF States
<1>3. Faked # Absent => [Faked EXCEPT ![part] = content] \in States
    BY FakedIsState, PartReplaced DEF States
<1>4. ~apart' => /\ ~apart /\ Faked # Absent
                 /\ [Faked EXCEPT ![part] = content] # Absent
                 /\ Exposed \/ [Faked EXCEPT ![part] = content] = patched
  <2> SUFFICES ASSUME ~apart
               PROVE  /\ Faked # Absent
                      /\ [Faked EXCEPT ![part] = content] # Absent
                      /\ Exposed \/ [Faked EXCEPT ![part] = content] = patched
      BY <1>0
  <2>1. Faked \in Objects /\ (Exposed \/ Faked = Server)
      BY <1>0, FakedIsServer, FakedIsState DEF States
  <2>2. [Faked EXCEPT ![part] = content] \in Objects
      BY <2>1, PartReplaced
  <2> QED BY <2>1, <2>2, ObjectIsNotAbsent DEF patched
<1>5. TrackerTyped' /\ Following' /\ AgreesUnlessExposed'
  <2>1. apart' \in BOOLEAN /\ patched # Absent
      BY <1>0, <1>1, ObjectIsNotAbsent DEF LibraryInv, TrackerTyped
  <2> DEFINE faked == [Faked EXCEPT ![part] = content]
             accepted == Faked # Absent
  <2>2. /\ Tracks(accepted, faked) /\ accepted \in BOOLEAN
        /\ accepted => faked \in States
        /\ ~apart' => /\ ~apart /\ accepted
                      /\ faked = Absent <=> Server' = Absent
                      /\ Exposed \/ faked = Server'
      BY <1>0, <1>2, <1>3, <1>4, <2>1
  <2> HIDE DEF faked, accepted
  <2> QED BY <1>0, <2>1, <2>2, AfterTracks
<1>6. HandTyped' /\ Lent'
  <2>1. Revision' \in Nat /\ Revision' <= Revision'
      BY <1>2, ServerIsState
  <2>2. Server' # Absent
      BY <1>1, <1>2, ObjectIsNotAbsent
  <2> QED BY <1>0, <1>1, <1>5, <2>1, <2>2, AfterAnswer
<1> QED BY <1>0, <1>2, <1>5, <1>6, SameKind DEF LibraryInv

LEMMA DeletionKeeps == ASSUME LibraryInv, Delete \/ DeleteCollection
                       PROVE  LibraryInv'
<1>1. /\ MayWrite /\ UNCHANGED <<version, resource, store>>
      /\ Record(Absent) /\ Tracks(TRUE, Absent)
      /\ hand' = Returned(hand, "tracker")
      /\ apart' \in BOOLEAN /\ (~apart' => ~apart)
    BY DEF LibraryInv, TrackerTyped, Delete, DeleteCollection
<1>2. LogTyped' /\ StoreTyped' /\ IntactUnlessExposed' /\ Server' = Absent
      /\ Revision' \in {Revision, Revision + 1}
    BY <1>1, AfterRecord DEF States
<1>3. TrackerTyped' /\ Following' /\ AgreesUnlessExposed'
    BY <1>1, <1>2, AfterTracks DEF States
<1>4. HandTyped' /\ Lent'
    BY <1>1, <1>2, AfterReturn
<1> QED BY <1>1, <1>2, <1>3, <1>4, SameKind DEF LibraryInv

LEMMA ReadKeeps ==
    ASSUME LibraryInv, NEW root \in {Kind, ListOf[Kind]}, Read(root)
    PROVE  LibraryInv'
<1> USE DEF Read
<1>1. Server \in Objects /\ Revision \in Nat /\ Revision' = Revision
    BY ServerIsState, LogAsItWas DEF States
<1>2. HandTyped' /\ Lent'
    BY <1>1, LogAsItWas, TrackerAsItWas, AfterAnswer
<1> QED BY <1>2, SameKind, LogAsItWas, StoreAsItWas, TrackerAsItWas
        DEF LibraryInv

LEMMA ListerGetKeeps == ASSUME LibraryInv, ListerGet PROVE LibraryInv'
<1> USE DEF ListerGet
<1>1. /\ store.object \in Objects /\ store.revision \in Nat
      /\ store.revision <= Revision'
    BY LogAsItWas, ServerIsState DEF LibraryInv, StoreTyped, States
<1>2. hand' \in Hands /\ hand'.revision = store.revision
      /\ hand'.lender = "store"
    BY <1>1 DEF InHand, Hands, Objects
<1>3. HandTyped' /\ Lent'
    BY <1>1, <1>2, SameKind DEF HandTyped, Lent
<1> QED BY <1>3, SameKind, LogAsItWas, StoreAsItWas, TrackerAsItWas
        DEF LibraryInv

LEMMA DeepCopyKeeps == ASSUME LibraryInv, DeepCopy PROVE LibraryInv'
<1> USE DEF DeepCopy
<1>1. hand' \in Hands /\ hand'.revision = hand.revision /\ ~hand'.raw
      /\ hand'.lender = hand.lender
    BY DEF LibraryInv, HandTyped, Hands
<1>2. HandTyped' /\ Lent'
    BY <1>1, SameKind, LogAsItWas DEF LibraryInv, HandTyped, Lent
<1> QED BY <1>2, SameKind, LogAsItWas, StoreAsItWas, TrackerAsItWas
        DEF LibraryInv

(* The one step that needs to know what a copy shares: only where a caller
   writes to it does the lender's object change, to another object.         *)
LEMMA WriteKeeps ==
    ASSUME LibraryInv, hand # Nothing,
           NEW place \in Writable, NEW content \in Contents,
           Write(place, content)
    PROVE  LibraryInv'
<1> DEFINE part == place.part
<1>1. /\ hand \in Hands /\ ~hand.raw /\ part \in {"spec", "status"}
      /\ UNCHANGED <<version, resource, log, apart>>
      /\ place.certificate => CertificateWrites
      /\ hand' = [hand EXCEPT ![part] = content]
    BY DEF LibraryInv, HandTyped, Parts, Write
<1>2. place.memory = "shared" => Exposed
  <2>1. CASE place \in Reach(hand.root)
      BY <2>1, <1>1, CopiesShareOnlyCertificate
         DEF LibraryInv, Chosen, Hands, Exposed
  <2>2. CASE place \in OwnFields
      BY <2>2 DEF OwnFields
  <2> QED BY <2>1, <2>2 DEF Writable
<1>3. /\ store' # store => /\ Exposed /\ hand.lender = "store"
                           /\ store' = [store EXCEPT !.object[part] = content]
      /\ tracker' # tracker =>
           /\ Exposed /\ hand.lender = "tracker"
           /\ tracker' = [tracker EXCEPT ![resource][part] = content]
    BY <1>2, KitOfTheKind DEF LibraryInv, Chosen, Write
<1>4. /\ hand' \in Hands /\ hand'.revision = hand.revision /\ ~hand'.raw
      /\ hand'.lender = hand.lender
    BY <1>1 DEF Hands
<1>5. HandTyped'
    BY <1>1, <1>4, SameKind, LogAsItWas DEF LibraryInv, HandTyped
<1> HIDE DEF part
<1>6. /\ StoreTyped' /\ IntactUnlessExposed'
      /\ store.object # Absent => store'.object # Absent
  <2>1. CASE store' = store
      BY <2>1, <1>1, StoreAsItWas
  <2>2. CASE store' # store
    <3> DEFINE written == [store.object EXCEPT ![part] = content]
    <3>1. store.object \in Objects
        BY <2>2, <1>3 DEF LibraryInv, Lent, StoreTyped, States
    <3>2. written \in Objects /\ written # Absent
        BY <3>1, <1>1, PartReplaced, ObjectIsNotAbsent
    <3>3. store' = [store EXCEPT !.object = written] /\ Exposed
        BY <2>2, <1>3
    <3> HIDE DEF written
    <3>4. store' \in [revision : 0 .. Revision, object : States, type : {Kind}]
          /\ store'.object = written
        BY <3>2, <3>3 DEF LibraryInv, StoreTyped, States
    <3> QED BY <3>2, <3>3, <3>4, <1>1, SameKind, LogAsItWas
            DEF StoreTyped, IntactUnlessExposed, States
  <2> QED BY <2>1, <2>2
<1>7. /\ TrackerTyped' /\ Following' /\ AgreesUnlessExposed'
      /\ tracker[resource] # Absent => tracker'[resource] # Absent
  <2>1. CASE tracker' = tracker
      BY <2>1, <1>1, TrackerAsItWas
  <2>2. CASE tracker' # tracker
    <3> DEFINE written == [tracker[resource] EXCEPT ![part] = content]
    <3>1. tracker[resource] \in Objects /\ tracker[resource] # Absent
        BY <2>2, <1>3 DEF LibraryInv, Lent, Chosen, TrackerTyped, States
    <3>2. written \in Objects /\ written # Absent
        BY <3>1, <1>1, PartReplaced, ObjectIsNotAbsent
    <3>3. tracker' = [tracker EXCEPT ![resource] = written] /\ Exposed
        BY <2>2, <1>3
    <3> HIDE DEF written
    <3>4. tracker' \in [DOMAIN Established(version) -> States]
          /\ tracker'[resource] = written
        BY <3>2, <3>3 DEF LibraryInv, Chosen, TrackerTyped, States
    <3>5. TrackerTyped'
        BY <3>4, <1>1, SameKind DEF LibraryInv, TrackerTyped, States
    <3>6. Following'
        BY <3>1, <3>2, <3>4, <1>1, LogAsItWas DEF LibraryInv, Following
    <3> QED BY <3>2, <3>3, <3>4, <3>5, <3>6, <1>1, SameKind
            DEF AgreesUnlessExposed
  <2> QED BY <2>1, <2>2
<1>8. Lent'
    BY <1>1, <1>4, <1>6, <1>7 DEF LibraryInv, Lent
<1> QED BY <1>1, <1>5, <1>6, <1>7, <1>8, SameKind, LogAsItWas DEF LibraryInv

LEMMA ObserveKeeps ==
    ASSUME LibraryInv, NEW client, NEW revision \in 1 .. Revision,
           Observe(client, revision)
    PROVE  LibraryInv'
<1> USE DEF Observe
<1>1. log[revision] \in States /\ revision \in 0 .. Revision
    BY ServerIsState DEF LibraryInv, LogTyped, Revision
<1>2. client.type = Kind
    BY DEF Serves
<1>3. StoreTyped' /\ IntactUnlessExposed'
    BY <1>1, <1>2, SameKind, LogAsItWas
       DEF StoreTyped, IntactUnlessExposed, StoreIntact, States
<1>4. HandTyped' /\ Lent'
    BY LogAsItWas, ServerIsState, AfterReturn
<1> QED BY <1>3, <1>4, SameKind, LogAsItWas, TrackerAsItWas DEF LibraryInv

(* Every step keeps the invariant. *)
LEMMA LibraryStep == ASSUME LibraryInv, [Next]_vars PROVE LibraryInv'
<1>1. CASE \E part \in {"spec", "status"}, c \in Contents : Patch(part, c)
    BY <1>1, PatchKeeps
<1>2. CASE Get \/ List
    BY <1>2, ReadKeeps DEF Get, List
<1>3. CASE \E place \in Writable, c \in Contents :
               hand # Nothing /\ Write(place, c)
    BY <1>3, WriteKeeps
<1>4. CASE Relist
    BY <1>4, ServerIsState, ObserveKeeps DEF Relist
<1>5. CASE WatchEvent
  <2>1. store.revision + 1 \in 1 .. Revision
      BY <1>5, ServerIsState DEF WatchEvent
  <2> QED BY <1>5, <2>1, ObserveKeeps DEF WatchEvent
<1>6. CASE UNCHANGED vars
    BY <1>6, SameKind, LogAsItWas, StoreAsItWas, TrackerAsItWas
       DEF LibraryInv, HandTyped, Lent, vars
<1> QED BY <1>1, <1>2, <1>3, <1>4, <1>5, <1>6, NewKeeps, CreateKeeps,
           UpdateKeeps, UpdateStatusKeeps, DeletionKeeps, ListerGetKeeps,
           DeepCopyKeeps DEF Next

(* It holds at the start. *)
LEMMA LibraryInit == Init => LibraryInv
<1> SUFFICES ASSUME Init PROVE LibraryInv
    OBVIOUS
<1> USE DEF Init
<1>1. Chosen
    BY DEF Chosen
<1>2. Absent \in States /\ [spec |-> Fresh, status |-> Fresh] \in States
    BY ContentsAssumption DEF States, Objects
<1>3. log \in Seq(States) /\ Revision = 1 /\ Server = Absent
    BY <1>2 DEF Revision, Server, Last
<1>4. LogTyped /\ StoreTyped /\ HandTyped /\ Lent /\ StoreIntact
    BY <1>2, <1>3, ContentsAssumption
       DEF LogTyped, StoreTyped, HandTyped, Lent, StoreIntact
<1>5. TrackerTyped /\ Following /\ FakeAgrees
    BY <1>2, <1>3 DEF TrackerTyped, Following, FakeAgrees
<1> QED BY <1>1, <1>4, <1>5
        DEF LibraryInv, IntactUnlessExposed, AgreesUnlessExposed

(* Hence always. *)
LEMMA LibraryInductive == Spec => []LibraryInv
BY LibraryInit, LibraryStep, PTL DEF Spec

-----------------------------------------------------------------------------
(* Each variable keeps its type, whatever the calls; the store holds nothing
   that the kind's lister could not cast.                                   *)
THEOREM LibraryTypeCorrect == Spec => []TypeOK
<1>1. LibraryInv => TypeOK
  <2> SUFFICES ASSUME LibraryInv PROVE TypeOK
      OBVIOUS
  <2>1. store.type = kit.lister
      BY KitOfTheKind DEF LibraryInv, Chosen, StoreTyped
  <2>2. hand # Nothing =>
          /\ Content(hand) \in Objects /\ hand.revision \in 0 .. Revision
          /\ hand.root \in {Kind, ListOf[Kind]}
          /\ hand.lender \in {"nobody", "store", "tracker"}
          /\ hand.raw => hand.lender # "tracker"
      BY ServerIsState DEF LibraryInv, HandTyped, Hands, Content, Objects
  <2> QED BY <2>1, <2>2
          DEF LibraryInv, Chosen, LogTyped, TrackerTyped, StoreTyped, States,
              TypeOK
<1> QED BY <1>1, LibraryInductive, PTL

(* The objects in an informer's store are what the server had at that
   revision: of ten of the eleven kinds whatever callers write to copies of
   them, to whatever field; of the v1beta1 Grafana as long as nobody writes to
   the external certificate of the route, which a copy shares
   (zz_generated.deepcopy.go:1680-1684).                                    *)
THEOREM StoreStaysIntact == Spec => [](Exposed \/ StoreIntact)
<1>1. LibraryInv => (Exposed \/ StoreIntact)
    BY DEF LibraryInv, IntactUnlessExposed
<1> QED BY <1>1, LibraryInductive, PTL

(* With the same exception, the fake clientset's tracker has the server's object
   until a call is made for which the two are known to differ: the fake clients
   use the resources of the real ones, and nothing is written to the tracker's
   objects through the copies that it hands out.                            *)
THEOREM FakeAgreement == Spec => [](Exposed \/ FakeAgrees)
<1>1. LibraryInv => (Exposed \/ FakeAgrees)
    BY DEF LibraryInv, AgreesUnlessExposed
<1> QED BY <1>1, LibraryInductive, PTL
=============================================================================
