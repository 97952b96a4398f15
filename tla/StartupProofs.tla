---------------------------- MODULE StartupProofs ----------------------------
(***************************************************************************)
(* For every number of processes, namespaces and kinds and every set of    *)
(* deployments: typing, and at most one active process under leader        *)
(* election.                                                               *)
(***************************************************************************)
EXTENDS Startup, TLAPS

TypeInv == TypeOK /\ ActiveStarted

Configured(deployment) ==
    [factories |-> Factories(deployment),
     kinds |-> IF Converting(deployment.file) THEN deployment.file.kinds ELSE {}]

(* What a process takes from a deployment is a configuration. *)
LEMMA ConfTyped ==
    ASSUME NEW deployment \in Deployments
    PROVE  Configured(deployment) \in Conf
<1>1. deployment \in Deployment
  BY StartupAssumption
<1>2. Factories(deployment) \in Seq(Entries \cup {AllNamespaces})
  <2>1. deployment.env \in Seq(Entries \cup {AllNamespaces})
    BY <1>1 DEF Deployment
  <2>2. CASE Converting(deployment.file)
    <3>1. <<AllNamespaces>> \in Seq(Entries \cup {AllNamespaces})
      OBVIOUS
    <3>2. Factories(deployment) \in {<<AllNamespaces>>, deployment.env}
      BY <2>2, Zenon DEF Factories
    <3> QED
      BY <2>1, <3>1, <3>2
  <2>3. CASE ~ Converting(deployment.file)
    <3>1. Factories(deployment) = <<>>
      BY <2>3, Zenon DEF Factories
    <3> QED
      BY <3>1
  <2> QED
    BY <2>2, <2>3
<1>3. deployment.file.kinds \subseteq Kinds
  BY <1>1 DEF Deployment, File
<1> QED
  BY <1>2, <1>3 DEF Configured, Conf

(* Spending keeps a budget a budget. *)
LEMMA SpendTyped ==
    ASSUME TypeOK, NEW kind \in Budgets, Spend(kind)
    PROVE  budget' \in [Budgets -> Nat]
BY DEF TypeOK, Spend

(* The end of a process keeps the types of what it resets. *)
LEMMA ExitTyped ==
    ASSUME TypeInv, NEW p \in Procs, NEW ending \in {"down", "crashed"},
           Exit(p, ending), budget' \in [Budgets -> Nat]
    PROVE  TypeInv'
<1>1. NoConf \in Conf
  BY DEF NoConf, Conf
<1>2. conf' \in [Procs -> Conf] /\ factory' \in [Procs -> Nat]
  BY <1>1 DEF TypeInv, TypeOK, Exit
<1>3. ASSUME NEW q \in Procs PROVE factory'[q] <= Len(conf'[q].factories)
  <2>1. CASE q = p
    BY <2>1 DEF TypeInv, TypeOK, Exit, NoConf
  <2>2. CASE q # p
    BY <2>2 DEF TypeInv, TypeOK, Exit
  <2> QED
    BY <2>1, <2>2
<1>4. ActiveStarted'
  BY DEF TypeInv, TypeOK, ActiveStarted, Active, Exit
<1>5. status' \in [Procs -> Statuses] /\ synced' \in [Procs -> SUBSET (Nat \X Kinds)]
  BY DEF TypeInv, TypeOK, Exit, Statuses
<1>6. lease' \in Procs \cup {Nobody, Dead}
      /\ refused' \subseteq (Entries \cup {AllNamespaces}) \X Kinds
  BY DEF TypeInv, TypeOK, Exit
<1> QED
  BY <1>2, <1>3, <1>4, <1>5, <1>6 DEF TypeInv, TypeOK

(* A process that is set up has no factory yet, whatever it is given. *)
LEMMA SetupTyped ==
    ASSUME TypeInv, NEW p \in Procs, Setup(p)
    PROVE  TypeInv'
<1>1. budget' \in [Budgets -> Nat]
  BY SpendTyped DEF TypeInv, Setup, Budgets
<1>2. factory[p] = 0
  <2>1. status[p] \in {"down", "crashed"}
    BY DEF Setup
  <2>2. ~ Active(p)
    BY <2>1 DEF TypeInv, ActiveStarted
  <2>3. factory[p] \in Nat
    BY DEF TypeInv, TypeOK
  <2> QED
    BY <2>2, <2>3 DEF Active
<1>3. PICK deployment \in Deployments :
        IF SetupPanics(deployment)
          THEN status' = [status EXCEPT ![p] = "crashed"] /\ UNCHANGED conf
          ELSE /\ status' = [status EXCEPT ![p] =
                    IF Enabled(deployment.file) THEN "waiting" ELSE "idle"]
               /\ conf' = [conf EXCEPT ![p] = Configured(deployment)]
  BY DEF Setup, Configured
<1>4. status' \in [Procs -> Statuses]
  BY <1>3 DEF TypeInv, TypeOK, Statuses
<1>5. conf' \in [Procs -> Conf]
  BY <1>3, ConfTyped DEF TypeInv, TypeOK
<1>6. ASSUME NEW q \in Procs PROVE factory'[q] <= Len(conf'[q].factories)
  <2>1. CASE q = p
    BY <1>2, <1>5, <2>1 DEF Setup, Conf
  <2>2. CASE q # p
    BY <1>3, <2>2 DEF TypeInv, TypeOK, Setup
  <2> QED
    BY <2>1, <2>2
<1>7. ActiveStarted'
  BY <1>2, <1>3 DEF TypeInv, TypeOK, ActiveStarted, Active, Setup
<1> QED
  BY <1>1, <1>4, <1>5, <1>6, <1>7 DEF TypeInv, TypeOK, Setup

(* Typing holds initially and is kept by every action. *)
LEMMA TypeInitially == Init => TypeInv
<1>1. NoConf \in Conf /\ Len(NoConf.factories) = 0
  BY DEF NoConf, Conf
<1> QED
  BY <1>1, StartupAssumption
     DEF Init, TypeInv, TypeOK, ActiveStarted, Active, Statuses

LEMMA TypeStep ==
    ASSUME TypeInv, [Next]_vars
    PROVE  TypeInv'
<1>1. ASSUME NEW p \in Procs, Setup(p) PROVE TypeInv'
  BY <1>1, SetupTyped
<1>2. ASSUME NEW p \in Procs, SetupFails(p) PROVE TypeInv'
  <2>1. budget' \in [Budgets -> Nat]
    BY <1>2, SpendTyped DEF TypeInv, SetupFails, Budgets
  <2> QED
    BY <1>2, <2>1
       DEF TypeInv, TypeOK, ActiveStarted, Active, SetupFails, Statuses
<1>3. ASSUME NEW p \in Procs, Acquire(p) PROVE TypeInv'
  BY <1>3 DEF TypeInv, TypeOK, ActiveStarted, Active, Acquire
<1>4. ASSUME NEW p \in Procs, Stop(p) PROVE TypeInv'
  <2>1. budget' \in [Budgets -> Nat]
    BY <1>4, SpendTyped DEF TypeInv, Stop, Budgets
  <2> QED
    BY <1>4, <2>1, ExitTyped DEF Stop
<1>5. ASSUME NEW p \in Procs, LoseLease(p) PROVE TypeInv'
  <2>1. budget' \in [Budgets -> Nat]
    BY <1>5, SpendTyped DEF TypeInv, LoseLease, Budgets
  <2> QED
    BY <1>5, <2>1, ExitTyped DEF LoseLease
<1>6. ASSUME NEW p \in Procs, BeginStart(p) PROVE TypeInv'
  BY <1>6 DEF TypeInv, TypeOK, ActiveStarted, Active, BeginStart, Statuses
<1>7. ASSUME NEW p \in Procs, StartFactory(p) PROVE TypeInv'
  <2>1. Len(conf[p].factories) \in Nat
    BY DEF TypeInv, TypeOK, Conf
  <2>2. factory' \in [Procs -> Nat]
    BY <1>7 DEF TypeInv, TypeOK, StartFactory
  <2>3. \A q \in Procs : factory'[q] <= Len(conf'[q].factories)
    BY <1>7, <2>1 DEF TypeInv, TypeOK, StartFactory
  <2>4. ActiveStarted'
    BY <1>7 DEF TypeInv, TypeOK, ActiveStarted, Active, StartFactory
  <2> QED
    BY <1>7, <2>2, <2>3, <2>4 DEF TypeInv, TypeOK, StartFactory
<1>8. ASSUME NEW p \in Procs, StartReturns(p) PROVE TypeInv'
  BY <1>8 DEF TypeInv, TypeOK, ActiveStarted, Active, StartReturns, Statuses
<1>9. ASSUME NEW p \in Procs, SyncSome(p) PROVE TypeInv'
  <2>1. PICK n \in 1 .. factory[p], k \in Kinds : Sync(p, n, k)
    BY <1>9 DEF SyncSome
  <2>2. factory[p] \in Nat
    BY DEF TypeInv, TypeOK
  <2>3. n \in Nat
    BY <2>2
  <2>4. synced' \in [Procs -> SUBSET (Nat \X Kinds)]
    BY <2>1, <2>3 DEF TypeInv, TypeOK, Sync
  <2> QED
    BY <2>1, <2>4 DEF TypeInv, TypeOK, ActiveStarted, Active, Sync
<1>10. CASE Expire
  BY <1>10 DEF TypeInv, TypeOK, ActiveStarted, Active, Expire
<1>11. CASE Grant
  <2>1. budget' \in [Budgets -> Nat]
    BY <1>11, SpendTyped DEF TypeInv, Grant, Budgets
  <2>2. refused' \subseteq (Entries \cup {AllNamespaces}) \X Kinds
    BY <1>11 DEF TypeInv, TypeOK, Grant
  <2> QED
    BY <1>11, <2>1, <2>2 DEF TypeInv, TypeOK, ActiveStarted, Active, Grant
<1>12. CASE UNCHANGED vars
  BY <1>12 DEF TypeInv, TypeOK, ActiveStarted, Active, vars
<1> QED
  BY <1>1, <1>2, <1>3, <1>4, <1>5, <1>6, <1>7, <1>8, <1>9, <1>10, <1>11, <1>12
     DEF Next

(* Typing: the state has its type throughout, in particular Start never goes
   beyond the factories that were built.                                   *)
THEOREM StartTypeCorrect == Spec => []TypeOK
<1>1. TypeInv => TypeOK
  BY DEF TypeInv
<1> QED
  BY <1>1, TypeInitially, TypeStep, PTL DEF Spec

-----------------------------------------------------------------------------

(* The lease stays with whoever was let into Start until the process ends. *)
LEMMA LeaseStep ==
    ASSUME TypeInv, StartedHoldsLease, [Next]_vars
    PROVE  StartedHoldsLease'
<1> SUFFICES ASSUME LeaderElection, NEW q \in Procs,
                    status'[q] \in {"starting", "running"}
             PROVE  lease' = q
  BY DEF StartedHoldsLease
<1> USE DEF TypeInv, TypeOK, StartedHoldsLease
<1>1. ASSUME NEW p \in Procs, Setup(p) \/ SetupFails(p) PROVE lease' = q
  <2>1. status'[q] = status[q] /\ lease' = lease
    BY <1>1 DEF Setup, SetupFails
  <2> QED
    BY <2>1
<1>2. ASSUME NEW p \in Procs, Acquire(p) PROVE lease' = q
  BY <1>2, StartupAssumption DEF Acquire
<1>3. ASSUME NEW p \in Procs, NEW ending \in {"down", "crashed"}, Exit(p, ending)
      PROVE  lease' = q
  BY <1>3 DEF Exit
<1>4. ASSUME NEW p \in Procs, BeginStart(p) PROVE lease' = q
  BY <1>4 DEF BeginStart, Leads
<1>5. ASSUME NEW p \in Procs,
             StartFactory(p) \/ StartReturns(p) \/ SyncSome(p)
      PROVE  lease' = q
  BY <1>5 DEF StartFactory, StartReturns, SyncSome, Sync
<1>6. CASE Expire
  BY <1>6, StartupAssumption DEF Expire
<1>7. CASE Grant
  BY <1>7 DEF Grant
<1>8. CASE UNCHANGED vars
  BY <1>8 DEF vars
<1> QED
  BY <1>1, <1>2, <1>3, <1>4, <1>5, <1>6, <1>7, <1>8 DEF Next, Stop, LoseLease

(* Under leader election at most one process has informers running. *)
THEOREM OneActiveProcess == Spec => []OneActive
<1>1. Init => StartedHoldsLease
  BY DEF Init, StartedHoldsLease
<1>2. TypeInv /\ StartedHoldsLease => OneActive
  BY DEF TypeInv, ActiveStarted, StartedHoldsLease, OneActive
<1> QED
  BY <1>1, <1>2, TypeInitially, TypeStep, LeaseStep, PTL DEF Spec
=============================================================================
