----------------------------- MODULE ApiLibrary ------------------------------
(***************************************************************************)
(* A program that uses the client library of one kind, against the API     *)
(* server and, with the same calls, against the fake clientset of its      *)
(* tests: clientset, informer, lister and DeepCopy together.               *)
(*                                                                         *)
(* The server, the reflector behind an informer and the object tracker     *)
(* behind a fake clientset are other modules' code.  From this repository  *)
(* come the resource each client asks for, the type it decodes, the        *)
(* methods it has, the clients each informer uses, the type a lister casts *)
(* to, and what a copy shares with its original.                           *)
(***************************************************************************)
EXTENDS Naturals, Sequences, SequencesExt, DeepCopy

CONSTANTS
    Contents,       \* what a part of an object may hold, with Fresh
    Fresh,          \* what it holds in an object that nobody wrote to
    MaxRevisions,   \* bound on the changes of the object on the server
    CertificateWrites   \* whether callers write to the external certificate
                        \* that a copy of a v1beta1 Grafana refers to

ASSUME ContentsAssumption == Fresh \in Contents /\ MaxRevisions \in Nat \ {0}
ASSUME WritesAssumption == CertificateWrites \in BOOLEAN

VARIABLES
    version,    \* the API version in use
    resource,   \* the resource of the kind in use
    log,        \* the server: each state of the one object considered
    tracker,    \* the fake clientset's tracker: the object of every resource
    apart,      \* whether a call was made which the fake answers otherwise
    store,      \* the informer's store: the object and its revision
    hand        \* the object in the caller's hands, if any
vars == <<version, resource, log, tracker, apart, store, hand>>

A == INSTANCE AlphaClientset
B == INSTANCE BetaClientset
AT == INSTANCE AlphaTypes
BT == INSTANCE BetaTypes

Versions == {"v1alpha1", "v1beta1"}

(* The names the chart's resource definitions establish, with their kinds.
   All are namespaced and have the status subresource.                     *)
AlphaResources ==
    [grafanas |-> "Grafana", grafanadashboards |-> "GrafanaDashboard",
     grafanadatasources |-> "GrafanaDataSource", grafanafolders |-> "GrafanaFolder",
     grafananotificationchannels |-> "GrafanaNotificationChannel"]
BetaResources ==
    [grafanas |-> "Grafana", grafanaalertrulegroups |-> "GrafanaAlertRuleGroup",
     grafanacontactpoints |-> "GrafanaContactPoint",
     grafanadashboards |-> "GrafanaDashboard",
     grafanadatasources |-> "GrafanaDatasource", grafanafolders |-> "GrafanaFolder"]
Established(v) == IF v = "v1alpha1" THEN AlphaResources ELSE BetaResources

Kind == Established(version)[resource]

(* What the library offers for the kind. *)
AlphaKit == CHOOSE k \in A!Kits : k.client.type = Kind
BetaKit == CHOOSE k \in B!Kits : k.client.type = Kind
kit == IF version = "v1alpha1" THEN AlphaKit ELSE BetaKit
ForResource == IF version = "v1alpha1" THEN A!ForResource ELSE B!ForResource

-----------------------------------------------------------------------------
(* Where a holder of a copy can get by following fields from the struct it was
   given: to which part of the object, and in whose memory.  Everything but
   the status counts as spec, the metadata included.                        *)
Depth == 8      \* bound on how deep the types are nested

Root(type) == [type |-> type, memory |-> "own", part |-> "object"]

PartBehind(part, field) ==
    CASE part # "object" -> part
      [] field = "Items" -> "object"
      [] field = "ListMeta" -> "list"
      [] field = "Status" -> "status"
      [] OTHER -> "spec"

Behind(types, copies, place) ==
    IF place.type \notin DOMAIN types THEN {}
    ELSE {[type |-> p.type, memory |-> p.memory,
           part |-> PartBehind(place.part, p.field)] :
             p \in Places(types, copies, place.type, place.memory)}

Reached(types, copies, root, depth) ==
    LET reached[n \in 0 .. depth] ==
            IF n = 0 THEN {Root(root)}
            ELSE LET before == reached[n - 1]
                 IN  before \cup UNION {Behind(types, copies, p) : p \in before}
    IN  reached[depth]

(* The kind itself and its list: the types a client returns. *)
ListOf ==
    [Grafana |-> "GrafanaList", GrafanaDashboard |-> "GrafanaDashboardList",
     GrafanaDataSource |-> "GrafanaDataSourceList",
     GrafanaDatasource |-> "GrafanaDatasourceList",
     GrafanaFolder |-> "GrafanaFolderList",
     GrafanaNotificationChannel |-> "GrafanaNotificationChannelList",
     GrafanaAlertRuleGroup |-> "GrafanaAlertRuleGroupList",
     GrafanaContactPoint |-> "GrafanaContactPointList"]
RootsOf(resources) ==
    UNION {{resources[r], ListOf[resources[r]]} : r \in DOMAIN resources}
AlphaWithin(depth) ==
    [t \in RootsOf(AlphaResources) |-> Reached(AT!Types, AT!Copies, t, depth)]
BetaWithin(depth) ==
    [t \in RootsOf(BetaResources) |-> Reached(BT!Types, BT!Copies, t, depth)]
AlphaReach == AlphaWithin(Depth)
BetaReach == BetaWithin(Depth)
ASSUME DepthAssumption ==
    AlphaReach = AlphaWithin(Depth - 1) /\ BetaReach = BetaWithin(Depth - 1)

(* Where the holder of a copy of type root can write: part and memory, and
   whether it is the name in a route's externalCertificate.                 *)
Reach(root) ==
    LET reached == IF version = "v1alpha1" THEN AlphaReach[root] ELSE BetaReach[root]
    IN  {[part |-> p.part, memory |-> p.memory,
          certificate |-> p.type = "routev1.LocalObjectReference"] : p \in reached}

-----------------------------------------------------------------------------
(* The server. *)

Absent == <<>>
Objects == [spec : Contents, status : Contents]
Server == Last(log)
Revision == Len(log)

(* A request is served if it names the resource of the kind that it decodes. *)
Serves(client) == client.resource = resource /\ client.type = Kind

(* A write that changes nothing leaves the revision as it is. *)
Record(object) == log' = IF object = Server THEN log ELSE Append(log, object)
MayWrite == Revision < MaxRevisions

-----------------------------------------------------------------------------
(* The caller.  An object in hand has the revision it came with, the type of
   the struct it came in (root), whoever holds the object it is a copy of
   (lender), and whether it is that object itself (raw).                    *)

Nothing == <<>>
InHand(object, revision, root, lender, raw) ==
    [spec |-> object.spec, status |-> object.status, revision |-> revision,
     root |-> root, lender |-> lender, raw |-> raw]
Content(h) == [spec |-> h.spec, status |-> h.status]
Returned(h, from) == IF h # Nothing /\ h.lender = from
                     THEN [h EXCEPT !.lender = "nobody"] ELSE h

(* What a call returns is the server's answer, or a copy the tracker made. *)
Answer(object, revision, root) ==
    InHand(object, revision, root, IF apart' THEN "nobody" ELSE "tracker", FALSE)

(* The tracker follows a call unless it answers with an error or the two have
   come apart.                                                               *)
Faked == tracker[kit.fake.resource]
Tracks(accepted, object) ==
    tracker' = IF accepted /\ ~apart'
               THEN [tracker EXCEPT ![kit.fake.resource] = object] ELSE tracker

Parts == IF kit.client.status THEN {"spec", "status"} ELSE {"spec"}

(* A new object, written from nothing. *)
New ==
    /\ hand' = InHand([spec |-> Fresh, status |-> Fresh], 0, Kind, "nobody", FALSE)
    /\ UNCHANGED <<version, resource, log, tracker, apart, store>>

(* Create of such an object: the server drops the status, the tracker keeps it. *)
Create ==
    /\ hand # Nothing /\ hand.revision = 0
    /\ MayWrite /\ Serves(kit.client) /\ Server = Absent
    /\ LET created == [spec |-> hand.spec, status |-> Fresh]
       IN  /\ Record(created)
           /\ apart' = (apart \/ hand.status # Fresh)
           /\ Tracks(Faked = Absent, Content(hand))
           /\ hand' = Answer(created, Revision + 1, Kind)
    /\ UNCHANGED <<version, resource, store>>

(* Update takes all but the status, and refuses an object that is not the
   latest: then the caller keeps what it has.  The tracker takes it all.    *)
Replace(updated) ==
    /\ hand # Nothing /\ ~hand.raw
    /\ MayWrite /\ Serves(kit.client) /\ Server # Absent
    /\ apart' = (apart \/ hand.revision # Revision \/ Content(hand) # updated)
    /\ Tracks(Faked # Absent, Content(hand))
    /\ IF hand.revision = Revision
       THEN /\ Record(updated)
            /\ hand' = Answer(updated, Len(log'), Kind)
       ELSE /\ UNCHANGED log
            /\ hand' = [hand EXCEPT !.lender = "nobody"]
    /\ UNCHANGED <<version, resource, store>>

Update == Replace([spec |-> hand.spec, status |-> Server.status])

(* UpdateStatus, where the kind has it, takes the status alone. *)
UpdateStatus ==
    /\ kit.client.status /\ kit.fake.status
    /\ Replace([spec |-> Server.spec, status |-> hand.status])

(* Patch changes one part, whatever the caller's revision is. *)
Patch(part, content) ==
    /\ MayWrite /\ Serves(kit.client) /\ Server # Absent
    /\ part \in Parts
    /\ LET patched == [Server EXCEPT ![part] = content]
       IN  /\ Record(patched)
           /\ UNCHANGED apart
           /\ Tracks(Faked # Absent, [Faked EXCEPT ![part] = content])
           /\ hand' = Answer(patched, Len(log'), Kind)
    /\ UNCHANGED <<version, resource, store>>

Delete ==
    /\ MayWrite /\ Serves(kit.client) /\ Server # Absent
    /\ Record(Absent)
    /\ UNCHANGED apart
    /\ Tracks(TRUE, Absent)
    /\ hand' = Returned(hand, "tracker")
    /\ UNCHANGED <<version, resource, store>>

(* What the tracker makes of a DeleteCollection is not assumed. *)
DeleteCollection ==
    /\ MayWrite /\ Serves(kit.client) /\ Server # Absent
    /\ Record(Absent)
    /\ apart' = TRUE
    /\ Tracks(TRUE, Absent)
    /\ hand' = Returned(hand, "tracker")
    /\ UNCHANGED <<version, resource, store>>

(* Get and List, whose answer holds the object in a list. *)
Read(root) ==
    /\ Serves(kit.client) /\ Server # Absent
    /\ UNCHANGED apart
    /\ hand' = Answer(Server, Revision, root)
    /\ UNCHANGED <<version, resource, log, tracker, store>>
Get == Read(Kind)
List == Read(ListOf[Kind])

(* A lister returns the object that is in the store. *)
ListerGet ==
    /\ store.object # Absent
    /\ hand' = InHand(store.object, store.revision, Kind, "store", TRUE)
    /\ UNCHANGED <<version, resource, log, tracker, apart, store>>

DeepCopy ==
    /\ hand # Nothing /\ hand.raw
    /\ hand' = [hand EXCEPT !.raw = FALSE]
    /\ UNCHANGED <<version, resource, log, tracker, apart, store>>

(* The caller writes where it can get in its copy; what a lister gave it, it
   treats as read-only.  In memory that the copy shares, the original changes
   as well.                                                                  *)
Write(place, content) ==
    /\ hand # Nothing /\ ~hand.raw /\ place.part \in Parts
    /\ place.certificate => CertificateWrites
    /\ hand' = [hand EXCEPT ![place.part] = content]
    /\ IF place.memory = "shared" /\ hand.lender = "store"
       THEN store' = [store EXCEPT !.object[place.part] = content]
       ELSE UNCHANGED store
    /\ IF place.memory = "shared" /\ hand.lender = "tracker"
       THEN tracker' = [tracker EXCEPT ![kit.fake.resource][place.part] = content]
       ELSE UNCHANGED tracker
    /\ UNCHANGED <<version, resource, log, apart>>

(* Writes to the fields of the struct itself are always the caller's own. *)
OwnFields == {[part |-> p, memory |-> "own", certificate |-> FALSE] : p \in Parts}
Writable == Reach(hand.root) \cup OwnFields

-----------------------------------------------------------------------------
(* The informer for the resource: its reflector lists, then follows the watch,
   and drops what is not of the type it expects.                             *)

HasInformer == resource \in DOMAIN ForResource
informer == ForResource[resource]

Observe(client, revision) ==
    /\ HasInformer /\ Serves(client) /\ client.type = informer.object
    /\ store' = [revision |-> revision, object |-> log[revision], type |-> client.type]
    /\ hand' = Returned(hand, "store")
    /\ UNCHANGED <<version, resource, log, tracker, apart>>

Relist == HasInformer /\ Observe(informer.lists, Revision)
WatchEvent ==
    /\ HasInformer
    /\ store.revision \in 1 .. Revision - 1
    /\ Observe(informer.watches, store.revision + 1)

-----------------------------------------------------------------------------

Init ==
    /\ version \in Versions
    /\ resource \in DOMAIN Established(version)
    /\ log = <<Absent>>
    /\ tracker = [r \in DOMAIN Established(version) |->
                    IF r = resource THEN Absent
                    ELSE [spec |-> Fresh, status |-> Fresh]]
    /\ apart = FALSE
    /\ store = [revision |-> 0, object |-> Absent, type |-> Kind]
    /\ hand = Nothing

Next ==
    \/ New \/ Create \/ Update \/ UpdateStatus
    \/ \E part \in {"spec", "status"}, c \in Contents : Patch(part, c)
    \/ Delete \/ DeleteCollection
    \/ Get \/ List \/ ListerGet \/ DeepCopy
    \/ hand # Nothing /\ \E place \in Writable, c \in Contents : Write(place, c)
    \/ Relist \/ WatchEvent

Spec == Init /\ [][Next]_vars

(* The reflector lists again or takes the next event as long as it runs. *)
FairSpec == Spec /\ WF_vars(Relist \/ WatchEvent)

-----------------------------------------------------------------------------

(* Each variable has its type.  A lister can cast what is in the store. *)
TypeOK ==
    /\ version \in Versions
    /\ resource \in DOMAIN Established(version)
    /\ log \in Seq(Objects \cup {Absent}) /\ Revision \in 1 .. MaxRevisions
    /\ tracker \in [DOMAIN Established(version) -> Objects \cup {Absent}]
    /\ apart \in BOOLEAN
    /\ store.revision \in 0 .. Revision
    /\ store.object \in Objects \cup {Absent}
    /\ store.object # Absent => store.type = kit.lister
    /\ \/ hand = Nothing
       \/ /\ Content(hand) \in Objects
          /\ hand.revision \in 0 .. Revision
          /\ hand.root \in {Kind, ListOf[Kind]}
          /\ hand.lender \in {"nobody", "store", "tracker"}
          /\ hand.raw => hand.lender # "tracker"

(* Whatever callers do with the copies they made of a lister's objects, the
   store holds what the server had at that revision: DeepCopyInto leaves no
   memory shared, and the informer lists and watches the kind of its lister.
   With CertificateWrites it is false: a copy of a v1beta1 Grafana shares the
   external certificate of its route with the store.                        *)
StoreIntact ==
    store.revision > 0 => store.object = log[store.revision]

(* A test against the fake clientset sees what the program will see, as long as
   it makes no call for which the tracker is known to differ: the fake clients
   use the resources of the real ones, and the copies the tracker hands out are
   not written through (without CertificateWrites).                          *)
FakeAgrees ==
    ~apart => \A r \in DOMAIN tracker :
                tracker[r] = IF r = resource THEN Server
                             ELSE [spec |-> Fresh, status |-> Fresh]

(* The informer for every resource ends up with what the server has. *)
ListerCatchesUp ==
    <>[](store.revision = Revision /\ store.object = Server)
=============================================================================
