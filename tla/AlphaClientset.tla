--------------------------- MODULE AlphaClientset ----------------------------
(***************************************************************************)
(* The client library of integreatly.org/v1alpha1, kind by kind:           *)
(* its client, its fake client, its informer and its lister.  The methods  *)
(* of a file differ from those of the next only in what is recorded here;  *)
(* what they do is in ApiLibrary.                                          *)
(***************************************************************************)

(* A client, real or fake: the resource in the path of its requests (or in its
   actions), the type it decodes answers into (or casts them to), and whether
   it has UpdateStatus, which names the subresource.  An informer: the clients
   it lists and watches with, and the type under which the factory keeps it.
   A lister: the type it casts the objects of the store to.                 *)
Client(resource, type, status) ==
    [resource |-> resource, type |-> type, status |-> status]
Informer(lists, watches, object) ==
    [lists |-> lists, watches |-> watches, object |-> object]

Grafanas == Client("grafanas", "Grafana", TRUE)
FakeGrafanas == Client("grafanas", "Grafana", TRUE)
GrafanaInformer == Informer(Grafanas, Grafanas, "Grafana")
GrafanaLister == "Grafana"

GrafanaDashboards == Client("grafanadashboards", "GrafanaDashboard", TRUE)
FakeGrafanaDashboards == Client("grafanadashboards", "GrafanaDashboard", TRUE)
GrafanaDashboardInformer ==
    Informer(GrafanaDashboards, GrafanaDashboards, "GrafanaDashboard")
GrafanaDashboardLister == "GrafanaDashboard"

GrafanaDataSources == Client("grafanadatasources", "GrafanaDataSource", TRUE)
FakeGrafanaDataSources ==
    Client("grafanadatasources", "GrafanaDataSource", TRUE)
GrafanaDataSourceInformer ==
    Informer(GrafanaDataSources, GrafanaDataSources, "GrafanaDataSource")
GrafanaDataSourceLister == "GrafanaDataSource"

GrafanaFolders == Client("grafanafolders", "GrafanaFolder", FALSE)
(* Mutant: the fake client of another resource. *)
FakeOtherResource == Client("grafanadashboards", "GrafanaFolder", FALSE)

FakeGrafanaFolders == Client("grafanafolders", "GrafanaFolder", FALSE)
GrafanaFolderInformer ==
    Informer(GrafanaFolders, GrafanaFolders, "GrafanaFolder")
GrafanaFolderLister == "GrafanaFolder"

GrafanaNotificationChannels ==
    Client("grafananotificationchannels", "GrafanaNotificationChannel", TRUE)
FakeGrafanaNotificationChannels ==
    Client("grafananotificationchannels", "GrafanaNotificationChannel", TRUE)
GrafanaNotificationChannelInformer ==
    Informer(GrafanaNotificationChannels, GrafanaNotificationChannels, "GrafanaNotificationChannel")
GrafanaNotificationChannelLister == "GrafanaNotificationChannel"

(* The accessors of the clientset, of the fake clientset and of the group. *)
Kit(client, fake, lister) ==
    [client |-> client, fake |-> fake, lister |-> lister]
Kits ==
   {Kit(Grafanas, FakeGrafanas, GrafanaLister),
    Kit(GrafanaDashboards, FakeGrafanaDashboards, GrafanaDashboardLister),
    Kit(GrafanaDataSources, FakeGrafanaDataSources, GrafanaDataSourceLister),
    Kit(GrafanaFolders, FakeGrafanaFolders, GrafanaFolderLister),
    Kit(GrafanaNotificationChannels, FakeGrafanaNotificationChannels,
        GrafanaNotificationChannelLister)}

(* The informer for a resource; no other resource has one. *)
ForResource ==
  [grafanas |-> GrafanaInformer,
   grafanadashboards |-> GrafanaDashboardInformer,
   grafanadatasources |-> GrafanaDataSourceInformer,
   grafanafolders |-> GrafanaFolderInformer,
   grafananotificationchannels |-> GrafanaNotificationChannelInformer]
=============================================================================
