------------------------------- MODULE Startup -------------------------------
(***************************************************************************)
(* From the start of a process to informers that deliver events: the       *)
(* configuration file, the two environment variables, leader election and  *)
(* ConverterController.Start, which starts one informer factory after the  *)
(* other.  Module Converter begins where an informer has synced.           *)
(***************************************************************************)
EXTENDS Naturals, Sequences

CONSTANTS
    Procs,           \* processes; a restart is a new life of the same process
    Namespaces,      \* namespaces of the cluster
    Entries,         \* what WATCH_NAMESPACE may hold between its commas
    Matching,        \* entries in which validNamespaceRegex finds a match
    AllNamespaces,   \* the entry of a factory without namespace
    Kinds,           \* dashboards, datasources, folders, channels
    Deployments,     \* environments and files that a process may start with
    LeaderElection,  \* flag leader-elect
    Nobody,          \* holder of a free lease
    Dead,            \* holder of a lease whose process is gone
    MaxFactories,    \* bound on the entries of WATCH_NAMESPACE, at least 1
    Limits           \* bounds: how often each event of the environment happens

(* The parameters file: not there, not decodable, a document that is null
   (nothing but comments), or read.                                        *)
File == [state : {"missing", "broken", "null", "read"},
         enable : BOOLEAN,
         kinds : SUBSET Kinds]

(* env is WATCH_NAMESPACE, <<>> when it is empty or not set. *)
Deployment == [env : Seq(Entries), file : File]

Budgets == {"starts", "faults", "stops", "grants"}

ASSUME StartupAssumption ==
    /\ Namespaces \subseteq Matching
    /\ Matching \subseteq Entries
    /\ AllNamespaces \notin Entries
    /\ Deployments \subseteq Deployment
    /\ MaxFactories \in Nat \ {0}
    /\ \A deployment \in Deployments : Len(deployment.env) <= MaxFactories
    /\ LeaderElection \in BOOLEAN
    /\ Nobody # Dead
    /\ {Nobody, Dead} \cap Procs = {}
    /\ Limits \in [Budgets -> Nat]

VARIABLES
    status,    \* status of a process
    conf,      \* what a process was configured with
    factory,   \* number of factories that Start has started
    synced,    \* informers <<factory, kind>> whose first list was delivered
    lease,     \* holder of the leader election lease
    refused,   \* lists <<entry, kind>> the API server refuses (role, CRD)
    budget     \* what the environment may still do

vars == <<status, conf, factory, synced, lease, refused, budget>>

(* In "idle" the manager runs without a converter, in "waiting" the converter
   is waiting to be elected, in "starting" Start is running, in "running" it
   has returned.                                                           *)
Statuses == {"down", "crashed", "idle", "waiting", "starting", "running"}

Conf == [factories : Seq(Entries \cup {AllNamespaces}), kinds : SUBSET Kinds]

NoConf == [factories |-> <<>>, kinds |-> {}]

TypeOK ==
    /\ status \in [Procs -> Statuses]
    /\ conf \in [Procs -> Conf]
    /\ factory \in [Procs -> Nat]
    /\ \A p \in Procs : factory[p] <= Len(conf[p].factories)
    /\ synced \in [Procs -> SUBSET (Nat \X Kinds)]
    /\ lease \in Procs \cup {Nobody, Dead}
    /\ refused \subseteq (Entries \cup {AllNamespaces}) \X Kinds
    /\ budget \in [Budgets -> Nat]

Spend(kind) ==
    /\ budget[kind] > 0
    /\ budget' = [budget EXCEPT ![kind] = @ - 1]

Init ==
    /\ status = [p \in Procs |-> "down"]
    /\ conf = [p \in Procs |-> NoConf]
    /\ factory = [p \in Procs |-> 0]
    /\ synced = [p \in Procs |-> {}]
    /\ lease = Nobody
    /\ refused \in SUBSET ((Entries \cup {AllNamespaces}) \X Kinds)
    /\ budget = Limits

-----------------------------------------------------------------------------
(* Reading the configuration. *)

Elements(seq) == {seq[i] : i \in DOMAIN seq}

Enabled(file) == file.state = "read" /\ file.enable

Converting(file) == Enabled(file) /\ file.kinds # {}

(* One factory for the cluster, or one for each entry of WATCH_NAMESPACE, in
   its order and as often as it occurs.  WATCH_NAMESPACE_SELECTOR, which the
   manager's own cache follows, has no part in it.                         *)
Factories(deployment) ==
    IF ~ Converting(deployment.file) THEN <<>>
    ELSE IF deployment.env = <<>> THEN <<AllNamespaces>>
    ELSE deployment.env

(* mustGetWatchNamespaces panics on an entry without a match of the regular
   expression, which is not anchored; a null document leaves a nil pointer. *)
SetupPanics(deployment) ==
    \/ deployment.file.state = "null"
    \/ /\ Converting(deployment.file)
       /\ \E entry \in Elements(deployment.env) : entry \notin Matching

(* RunManager up to mgr.Start.  A file that is missing or cannot be decoded
   leaves the manager without a converter.                                 *)
Setup(p) ==
    /\ status[p] \in {"down", "crashed"}
    /\ Spend("starts")
    /\ \E deployment \in Deployments :
         IF SetupPanics(deployment)
           THEN status' = [status EXCEPT ![p] = "crashed"] /\ UNCHANGED conf
           ELSE /\ status' = [status EXCEPT ![p] =
                     IF Enabled(deployment.file) THEN "waiting" ELSE "idle"]
                /\ conf' = [conf EXCEPT ![p] =
                     [factories |-> Factories(deployment),
                      kinds |-> IF Converting(deployment.file)
                                  THEN deployment.file.kinds ELSE {}]]
    /\ UNCHANGED <<factory, synced, lease, refused>>

(* No kubeconfig, no manager, no clientset: RunManager returns an error. *)
SetupFails(p) ==
    /\ status[p] \in {"down", "crashed"}
    /\ Spend("faults")
    /\ status' = [status EXCEPT ![p] = "crashed"]
    /\ UNCHANGED <<conf, factory, synced, lease, refused>>

-----------------------------------------------------------------------------
(* Leader election.  Every manager takes part in it, one without a converter
   as well.                                                                *)

Acquire(p) ==
    /\ LeaderElection
    /\ status[p] \in {"idle", "waiting"}
    /\ lease = Nobody
    /\ lease' = p
    /\ UNCHANGED <<status, conf, factory, synced, refused, budget>>

(* The end of a process, which takes its informers with it.  The lease is not
   released (LeaderElectionReleaseOnCancel is not set): it has to expire.  *)
Exit(p, ending) ==
    /\ status' = [status EXCEPT ![p] = ending]
    /\ conf' = [conf EXCEPT ![p] = NoConf]
    /\ factory' = [factory EXCEPT ![p] = 0]
    /\ synced' = [synced EXCEPT ![p] = {}]
    /\ lease' = IF lease = p THEN Dead ELSE lease
    /\ UNCHANGED refused

Up(p) == status[p] \notin {"down", "crashed"}

Stop(p) ==
    /\ Up(p)
    /\ Spend("stops")
    /\ Exit(p, "down")

(* A leader that cannot renew the lease gives up before the lease can be taken
   by another (RenewDeadline < LeaseDuration; clocks run at one speed):
   mgr.Start and RunManager return the error, main exits.                  *)
LoseLease(p) ==
    /\ LeaderElection
    /\ lease = p
    /\ Spend("faults")
    /\ Exit(p, "crashed")

Expire ==
    /\ lease = Dead
    /\ lease' = Nobody
    /\ UNCHANGED <<status, conf, factory, synced, refused, budget>>

-----------------------------------------------------------------------------
(* Start. *)

(* Mutant: the converter does not wait for its election. *)
LeadsAtOnce(p) == TRUE

(* The manager runs the converter's Start: at once, or when it is elected. *)
Leads(p) == LeaderElection => lease = p

BeginStart(p) ==
    /\ status[p] = "waiting"
    /\ Leads(p)
    /\ status' = [status EXCEPT ![p] = "starting"]
    /\ UNCHANGED <<conf, factory, synced, lease, refused, budget>>

(* WaitForCacheSync of the factory that was started last. *)
CacheSynced(p) ==
    factory[p] > 0 => \A k \in conf[p].kinds : <<factory[p], k>> \in synced[p]

(* Mutant: the loop ends after the first factory. *)
StartFactoryOnce(p) ==
    /\ status[p] = "starting"
    /\ factory[p] = 0
    /\ factory[p] < Len(conf[p].factories)
    /\ factory' = [factory EXCEPT ![p] = 1]
    /\ UNCHANGED <<status, conf, synced, lease, refused, budget>>

(* Mutant: an off-by-one in the loop over the factories. *)
StartFactoryBeyond(p) ==
    /\ status[p] = "starting"
    /\ CacheSynced(p)
    /\ factory[p] <= Len(conf[p].factories)
    /\ factory' = [factory EXCEPT ![p] = @ + 1]
    /\ UNCHANGED <<status, conf, synced, lease, refused, budget>>

StartFactory(p) ==
    /\ status[p] = "starting"
    /\ CacheSynced(p)
    /\ factory[p] < Len(conf[p].factories)
    /\ factory' = [factory EXCEPT ![p] = @ + 1]
    /\ UNCHANGED <<status, conf, synced, lease, refused, budget>>

StartReturns(p) ==
    /\ status[p] = "starting"
    /\ CacheSynced(p)
    /\ factory[p] = Len(conf[p].factories)
    /\ status' = [status EXCEPT ![p] = "running"]
    /\ UNCHANGED <<conf, factory, synced, lease, refused, budget>>

(* The informer of a kind in a started factory gets its first list (client-go).
   It tries again for as long as it is refused.                            *)
Sync(p, n, k) ==
    /\ n <= factory[p]
    /\ k \in conf[p].kinds
    /\ <<conf[p].factories[n], k>> \notin refused
    /\ <<n, k>> \notin synced[p]
    /\ synced' = [synced EXCEPT ![p] = @ \cup {<<n, k>>}]
    /\ UNCHANGED <<status, conf, factory, lease, refused, budget>>

(* Roles are granted and revoked, CRDs and namespaces come and go. *)
Grant ==
    /\ Spend("grants")
    /\ \E entry \in Entries \cup {AllNamespaces}, k \in Kinds :
         refused' = IF <<entry, k>> \in refused THEN refused \ {<<entry, k>>}
                    ELSE refused \cup {<<entry, k>>}
    /\ UNCHANGED <<status, conf, factory, synced, lease>>

-----------------------------------------------------------------------------

SyncSome(p) == \E n \in 1 .. factory[p], k \in Kinds : Sync(p, n, k)

Next ==
    \/ \E p \in Procs :
         \/ Setup(p) \/ SetupFails(p) \/ Acquire(p) \/ Stop(p) \/ LoseLease(p)
         \/ BeginStart(p) \/ StartFactory(p) \/ StartReturns(p) \/ SyncSome(p)
    \/ Expire
    \/ Grant

Spec == Init /\ [][Next]_vars

(* Goroutines are scheduled, reflectors retry their lists, a lease is taken
   by somebody and expires.                                                *)
Fairness ==
    /\ WF_vars(Expire)
    /\ \A p \in Procs :
         /\ WF_vars(Acquire(p))
         /\ WF_vars(BeginStart(p))
         /\ WF_vars(StartFactory(p) \/ StartReturns(p))
         /\ WF_vars(SyncSome(p))

FairSpec == Spec /\ Fairness

-----------------------------------------------------------------------------
(* Properties. *)

(* Informers of p are running. *)
Active(p) == factory[p] > 0

(* The promise of the flag leader-elect, "there is only one active controller
   manager", through elections, crashes, restarts and expiring leases.     *)
OneActive ==
    LeaderElection => \A p, q \in Procs : Active(p) /\ Active(q) => p = q

(* Why: informers run only in a process that was let into Start ... *)
ActiveStarted ==
    \A p \in Procs : Active(p) => status[p] \in {"starting", "running"}

(* ... and whoever was let into Start still holds the lease. *)
StartedHoldsLease ==
    LeaderElection =>
        \A p \in Procs : status[p] \in {"starting", "running"} => lease = p

Granted(p, n) ==
    \A k \in conf[p].kinds : <<conf[p].factories[n], k>> \notin refused

Synced(p, n) == \A k \in conf[p].kinds : <<n, k>> \in synced[p]

Quiet == \A kind \in Budgets : budget[kind] = 0

Turns(p) == 1 .. Len(conf[p].factories)

(* Namespaces are served in turn: once the environment is quiet, a process in
   Start delivers the objects of a namespace that can be listed, if every
   namespace before it can be listed as well; the ones after it, and what is
   refused there, make no difference.                                      *)
ServedInTurn ==
    \A p \in Procs : \A n \in 1 .. MaxFactories :
        (/\ Quiet
         /\ status[p] = "starting"
         /\ n \in Turns(p)
         /\ \A m \in 1 .. n : Granted(p, m))
        ~> Synced(p, n)

(* A namespace that can be listed is served whatever becomes of the others.
   (It is not: Start waits for each before it starts the next.)            *)
ServedAlone ==
    \A p \in Procs : \A n \in 1 .. MaxFactories :
        (Quiet /\ status[p] = "starting" /\ n \in Turns(p) /\ Granted(p, n))
        ~> Synced(p, n)
=============================================================================
