---------------------------- MODULE BetaClientset ----------------------------
(***************************************************************************)
(* The client library of grafana.integreatly.org/v1beta1, kind by kind:    *)
(* its client, its fake client, its informer and its lister.  The methods  *)
(* of a file differ from those of the next only in what is recorded here;  *)
(* what they do is in ApiLibrary.                                          *)
(***************************************************************************)

(* A client, real or fake: the resource in the path of its requests (or in its
   actions), the type it decodes answers into (or casts them to), and whether
   it has UpdateStatus, which names the subresource.  An informer: the clients
   it lists and watches with, and the type under which the factory keeps it.
   A lister: the type it casts the objects of the store to.                 *)
Client(resource, type, status) ==
    [resource |-> resource, type |-> type, status |-> status]
Informer(lists, watches, object) ==
    [lists |-> lists, watches |-> watches, object |-> object]

Grafanas == Client("grafanas", "Grafana", TRUE)
FakeGrafanas == Client("grafanas", "Grafana", TRUE)
GrafanaInformer == Informer(Grafanas, Grafanas, "Grafana")
GrafanaLister == "Grafana"

GrafanaAlertRuleGroups ==
    Client("grafanaalertrulegroups", "GrafanaAlertRuleGroup", TRUE)
FakeGrafanaAlertRuleGroups ==
    Client("grafanaalertrulegroups", "GrafanaAlertRuleGroup", TRUE)
GrafanaAlertRuleGroupInformer ==
    Informer(GrafanaAlertRuleGroups, GrafanaAlertRuleGroups, "GrafanaAlertRuleGroup")
GrafanaAlertRuleGroupLister == "GrafanaAlertRuleGroup"

GrafanaContactPoints ==
    Client("grafanacontactpoints", "GrafanaContactPoint", TRUE)
FakeGrafanaContactPoints ==
    Client("grafanacontactpoints", "GrafanaContactPoint", TRUE)
GrafanaContactPointInformer ==
    Informer(GrafanaContactPoints, GrafanaContactPoints, "GrafanaContactPoint")
(* Mutant: the lister of another type. *)
OtherLister == "GrafanaFolder"

GrafanaContactPointLister == "GrafanaContactPoint"

GrafanaDashboards == Client("grafanadashboards", "GrafanaDashboard", TRUE)
FakeGrafanaDashboards == Client("grafanadashboards", "GrafanaDashboard", TRUE)
GrafanaDashboardInformer ==
    Informer(GrafanaDashboards, GrafanaDashboards, "GrafanaDashboard")
GrafanaDashboardLister == "GrafanaDashboard"

GrafanaDatasources == Client("grafanadatasources", "GrafanaDatasource", TRUE)
FakeGrafanaDatasources ==
    Client("grafanadatasources", "GrafanaDatasource", TRUE)
GrafanaDatasourceInformer ==
    Informer(GrafanaDatasources, GrafanaDatasources, "GrafanaDatasource")
GrafanaDatasourceLister == "GrafanaDatasource"

GrafanaFolders == Client("grafanafolders", "GrafanaFolder", TRUE)
FakeGrafanaFolders == Client("grafanafolders", "GrafanaFolder", TRUE)
GrafanaFolderInformer ==
    Informer(GrafanaFolders, GrafanaFolders, "GrafanaFolder")
GrafanaFolderLister == "GrafanaFolder"

(* The accessors of the clientset, of the fake clientset and of the group. *)
Kit(client, fake, lister) ==
    [client |-> client, fake |-> fake, lister |-> lister]
Kits ==
   {Kit(Grafanas, FakeGrafanas, GrafanaLister),
    Kit(GrafanaAlertRuleGroups, FakeGrafanaAlertRuleGroups,
        GrafanaAlertRuleGroupLister),
    Kit(GrafanaContactPoints, FakeGrafanaContactPoints,
        GrafanaContactPointLister),
    Kit(GrafanaDashboards, FakeGrafanaDashboards, GrafanaDashboardLister),
    Kit(GrafanaDatasources, FakeGrafanaDatasources, GrafanaDatasourceLister),
    Kit(GrafanaFolders, FakeGrafanaFolders, GrafanaFolderLister)}

(* Mutant: a resource is missing from the switch. *)
ForResourceButFolders ==
  [grafanas |-> GrafanaInformer,
   grafanaalertrulegroups |-> GrafanaAlertRuleGroupInformer,
   grafanacontactpoints |-> GrafanaContactPointInformer,
   grafanadashboards |-> GrafanaDashboardInformer,
   grafanadatasources |-> GrafanaDatasourceInformer]

(* The informer for a resource; no other resource has one. *)
ForResource ==
  [grafanas |-> GrafanaInformer,
   grafanaalertrulegroups |-> GrafanaAlertRuleGroupInformer,
   grafanacontactpoints |-> GrafanaContactPointInformer,
   grafanadashboards |-> GrafanaDashboardInformer,
   grafanadatasources |-> GrafanaDatasourceInformer,
   grafanafolders |-> GrafanaFolderInformer]
=============================================================================
