----------------------------- MODULE MCConverter -----------------------------
(***************************************************************************)
(* Small instances of Converter.  The configurations choose sources, kinds *)
(* and limits; this module supplies what a configuration cannot write.     *)
(***************************************************************************)
EXTENDS Converter, TLC

CONSTANTS
    s1,          \* source
    i1, i2,      \* informers
    n1, n2,      \* names of copies of datasources
    c1, c2,      \* contents
    ns,          \* namespace
    k1, k2, k3   \* names of datasources in a GrafanaDataSource

MCKeys == {k1, k2, k3}
MCNamespaceOf == [s \in Sources |-> ns]

(* k1 and k2 differ only in characters that the sanitizing replaces. *)
MCDatasourceName == (<<ns, k1>> :> n1) @@ (<<ns, k2>> :> n1) @@ (<<ns, k3>> :> n2)

MCDashboards == [s \in Sources |-> "GrafanaDashboard"]
MCFolders == [s \in Sources |-> "GrafanaFolder"]
MCChannels == [s \in Sources |-> "GrafanaNotificationChannel"]
MCDatasources == [s \in Sources |-> "GrafanaDataSource"]

(* Specs of one entry (its key plays no part), and lists of datasources: none,
   two of distinct names, two of the same name, and all of them.           *)
MCSingle == [s \in Sources |-> {<<[key |-> k1, content |-> c]>> : c \in Contents}]

Named(k, c) == [key |-> k, content |-> c]
MCLists == [s \in Sources |->
              {<<>>,
               <<Named(k1, c1), Named(k3, c1)>>,
               <<Named(k1, c1), Named(k2, c2)>>,
               <<Named(k1, c1), Named(k2, c2), Named(k3, c2)>>}]

MCWatchAll == [i \in Informers |-> Sources]

Limit(edits, meddles, faults, starts, stops) ==
    [edits |-> edits, meddles |-> meddles, faults |-> faults,
     starts |-> starts, stops |-> stops]
MCOverlapLimits == Limit(2, 1, 1, 3, 1)
MCOwnershipLimits == Limit(1, 2, 1, 2, 1)
MCListLimits == Limit(1, 0, 1, 1, 0)
MCHealingLimits == Limit(1, 0, 1, 2, 1)
MCFaultLimits == Limit(0, 0, 1, 1, 0)
MCPanicLimits == Limit(2, 1, 0, 1, 0)
=============================================================================
