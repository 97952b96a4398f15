------------------------------ MODULE BetaTypes ------------------------------
(***************************************************************************)
(* The v1beta1 types that hold references, in the order of their files,    *)
(* and what their DeepCopyInto copies (zz_generated.deepcopy.go, whose     *)
(* order is alphabetical).  A type that is not listed holds no references, *)
(* and its DeepCopyInto is an assignment.                                  *)
(***************************************************************************)
EXTENDS DeepCopy

TypesFromGrafanaSpec ==
  [GrafanaSpec |-> Struct({"Config", "DashboardLabelSelector",
       "DashboardNamespaceSelector", "Preferences"},
       [Ingress |-> "IngressNetworkingV1", Route |-> "RouteOpenshiftV1",
       Service |-> "ServiceV1", Deployment |-> "DeploymentV1",
       PersistentVolumeClaim |-> "PersistentVolumeClaimV1",
       ServiceAccount |-> "ServiceAccountV1", Client |-> "GrafanaClient",
       Jsonnet |-> "JsonnetConfig", External |-> "External"], None),
   External |-> Data({"ApiKey", "AdminUser", "AdminPassword"}),
   JsonnetConfig |-> Data({"LibraryLabelSelector"}),
   GrafanaClient |-> Data({"TimeoutSeconds", "PreferIngress"}),
   GrafanaStatus |-> Data({"Dashboards", "Datasources", "Folders"}),
   Grafana |-> Struct({}, None, [ObjectMeta |-> "metav1.ObjectMeta",
       Spec |-> "GrafanaSpec", Status |-> "GrafanaStatus"]),
   GrafanaList |-> Struct({}, [Items |-> "Grafana"],
       [ListMeta |-> "metav1.ListMeta"])]

TypesFromGrafanaAlertRuleGroupSpec ==
  [GrafanaAlertRuleGroupSpec |-> Struct({"InstanceSelector",
       "AllowCrossNamespaceImport"}, [Rules |-> "AlertRule"], None),
   AlertRule |-> Struct({"Annotations", "For", "Labels", "NoDataState"},
       [Data |-> "AlertQuery",
       NotificationSettings |-> "NotificationSettings"], None),
   NotificationSettings |-> Data({"GroupBy", "MuteTimeIntervals"}),
   AlertQuery |-> Data({"Model", "RelativeTimeRange"}),
   GrafanaAlertRuleGroupStatus |-> Data({"Conditions"}),
   GrafanaAlertRuleGroup |-> Struct({}, None,
       [ObjectMeta |-> "metav1.ObjectMeta",
       Spec |-> "GrafanaAlertRuleGroupSpec",
       Status |-> "GrafanaAlertRuleGroupStatus"]),
   GrafanaAlertRuleGroupList |-> Struct({},
       [Items |-> "GrafanaAlertRuleGroup"], [ListMeta |-> "metav1.ListMeta"])]

TypesFromGrafanaContactPointSpec ==
  [GrafanaContactPointSpec |-> Data({"InstanceSelector", "Settings",
       "AllowCrossNamespaceImport"}),
   GrafanaContactPointStatus |-> Data({"Conditions"}),
   GrafanaContactPoint |-> Struct({}, None,
       [ObjectMeta |-> "metav1.ObjectMeta",
       Spec |-> "GrafanaContactPointSpec",
       Status |-> "GrafanaContactPointStatus"]),
   GrafanaContactPointList |-> Struct({}, [Items |-> "GrafanaContactPoint"],
       [ListMeta |-> "metav1.ListMeta"])]

TypesFromGrafanaDashboardSpec ==
  [GrafanaDashboardSpec |-> Struct({"GzipJson", "ConfigMapRef",
       "InstanceSelector", "Plugins", "Datasources",
       "AllowCrossNamespaceImport"},
       [JsonnetProjectBuild |-> "JsonnetProjectBuild",
       GrafanaCom |-> "GrafanaComDashboardReference",
       Envs |-> "GrafanaDashboardEnv",
       EnvsFrom |-> "GrafanaDashboardEnvFromSource"], None),
   GrafanaDashboardEnv |-> Struct({}, None,
       [ValueFrom |-> "GrafanaDashboardEnvFromSource"]),
   GrafanaDashboardEnvFromSource |-> Data({"ConfigMapKeyRef",
       "SecretKeyRef"}),
   JsonnetProjectBuild |-> Data({"JPath", "GzipJsonnetProject"}),
   GrafanaComDashboardReference |-> Data({"Revision"}),
   GrafanaDashboardStatus |-> Data({"ContentCache"}),
   GrafanaDashboard |-> Struct({}, None, [ObjectMeta |-> "metav1.ObjectMeta",
       Spec |-> "GrafanaDashboardSpec", Status |-> "GrafanaDashboardStatus"]),
   GrafanaDashboardList |-> Struct({}, [Items |-> "GrafanaDashboard"],
       [ListMeta |-> "metav1.ListMeta"])]

TypesFromGrafanaDatasourceInternal ==
  [GrafanaDatasourceInternal |-> Data({"IsDefault", "BasicAuth", "OrgID",
       "Editable", "JSONData", "SecureJSONData"}),
   GrafanaDatasourceSpec |-> Struct({"InstanceSelector", "Plugins",
       "AllowCrossNamespaceImport"},
       [Datasource |-> "GrafanaDatasourceInternal",
       ValuesFrom |-> "GrafanaDatasourceValueFrom"], None),
   GrafanaDatasourceValueFrom |-> Struct({}, None,
       [ValueFrom |-> "GrafanaDatasourceValueFromSource"]),
   GrafanaDatasourceValueFromSource |-> Data({"ConfigMapKeyRef",
       "SecretKeyRef"}),
   GrafanaDatasource |-> Struct({}, None, [ObjectMeta |-> "metav1.ObjectMeta",
       Spec |-> "GrafanaDatasourceSpec"]),
   GrafanaDatasourceList |-> Struct({}, [Items |-> "GrafanaDatasource"],
       [ListMeta |-> "metav1.ListMeta"])]

TypesFromGrafanaFolderSpec ==
  [GrafanaFolderSpec |-> Data({"InstanceSelector",
       "AllowCrossNamespaceImport"}),
   GrafanaFolder |-> Struct({}, None, [ObjectMeta |-> "metav1.ObjectMeta",
       Spec |-> "GrafanaFolderSpec"]),
   GrafanaFolderList |-> Struct({}, [Items |-> "GrafanaFolder"],
       [ListMeta |-> "metav1.ListMeta"])]

TypesFromObjectMeta ==
  [ObjectMeta |-> Data({"Annotations", "Labels"}),
   DeploymentV1 |-> Struct({}, None, [ObjectMeta |-> "ObjectMeta",
       Spec |-> "DeploymentV1Spec"]),
   DeploymentV1Spec |-> Struct({"Replicas", "Selector", "Strategy",
       "RevisionHistoryLimit", "ProgressDeadlineSeconds"},
       [Template |-> "DeploymentV1PodTemplateSpec"], None),
   DeploymentV1PodTemplateSpec |-> Struct({},
       [Spec |-> "DeploymentV1PodSpec"], [ObjectMeta |-> "ObjectMeta"])]

TypesFromDeploymentV1PodSpec ==
  [DeploymentV1PodSpec |-> Data({"Volumes", "InitContainers", "Containers",
       "EphemeralContainers", "TerminationGracePeriodSeconds",
       "ActiveDeadlineSeconds", "NodeSelector",
       "AutomountServiceAccountToken", "ShareProcessNamespace",
       "SecurityContext", "ImagePullSecrets", "Affinity", "Tolerations",
       "HostAliases", "Priority", "DNSConfig", "ReadinessGates",
       "RuntimeClassName", "EnableServiceLinks", "PreemptionPolicy",
       "Overhead", "TopologySpreadConstraints", "SetHostnameAsFQDN", "OS",
       "HostUsers"})]

TypesFromIngressNetworkingV1 ==
  [IngressNetworkingV1 |-> Struct({"Spec"}, None,
       [ObjectMeta |-> "ObjectMeta"]),
   RouteOpenshiftV1 |-> Struct({}, [Spec |-> "RouteOpenShiftV1Spec"],
       [ObjectMeta |-> "ObjectMeta"]),
   RouteOpenShiftV1Spec |-> Struct({"To", "AlternateBackends", "Port"},
       [TLS |-> "routev1.TLSConfig"], None),
   ServiceV1 |-> Struct({"Spec"}, None, [ObjectMeta |-> "ObjectMeta"]),
   PersistentVolumeClaimV1 |-> Struct({},
       [Spec |-> "PersistentVolumeClaimV1Spec"],
       [ObjectMeta |-> "ObjectMeta"]),
   PersistentVolumeClaimV1Spec |-> Data({"AccessModes", "Selector",
       "Resources", "StorageClassName", "VolumeMode", "DataSource",
       "DataSourceRef"}),
   ServiceAccountV1 |-> Struct({"Secrets", "ImagePullSecrets",
       "AutomountServiceAccountToken"}, None, [ObjectMeta |-> "ObjectMeta"])]

(* The one type of another module that is copied by assignment although it
   holds a reference: the chart's schema, generated from the openshift/api that
   go.mod asks for, has the object externalCertificate in spec.route.spec.tls.
   The repository calls no DeepCopyInto of it, so no table of copies has it. *)
TypesFromTLSConfig ==
  [t \in {"routev1.TLSConfig"} |-> Struct({},
       [ExternalCertificate |-> "routev1.LocalObjectReference"], None)]

Types ==
    Joined({TypesFromGrafanaSpec, TypesFromGrafanaAlertRuleGroupSpec,
            TypesFromGrafanaContactPointSpec, TypesFromGrafanaDashboardSpec,
            TypesFromGrafanaDatasourceInternal, TypesFromGrafanaFolderSpec,
            TypesFromObjectMeta, TypesFromDeploymentV1PodSpec,
            TypesFromIngressNetworkingV1, TypesFromTLSConfig, OutsideTypes})

-----------------------------------------------------------------------------

CopiesFromAlertQuery ==
  [AlertQuery |-> Copied({"RelativeTimeRange"}, {"Model"}),
   AlertRule |-> Copied({"Annotations", "For", "Labels", "NoDataState"},
       {"Data", "NotificationSettings"}),
   DeploymentV1 |-> Copied({}, {"ObjectMeta", "Spec"})]

CopiesFromDeploymentV1PodSpec ==
  [DeploymentV1PodSpec |-> Copied({"TerminationGracePeriodSeconds",
       "ActiveDeadlineSeconds", "NodeSelector",
       "AutomountServiceAccountToken", "ShareProcessNamespace",
       "ImagePullSecrets", "Priority", "ReadinessGates", "RuntimeClassName",
       "EnableServiceLinks", "PreemptionPolicy", "SetHostnameAsFQDN", "OS",
       "HostUsers"}, {"Volumes", "InitContainers", "Containers",
       "EphemeralContainers", "SecurityContext", "Affinity", "Tolerations",
       "HostAliases", "DNSConfig", "Overhead", "TopologySpreadConstraints"})]

CopiesFromDeploymentV1PodTemplateSpec ==
  [DeploymentV1PodTemplateSpec |-> Copied({}, {"ObjectMeta", "Spec"}),
   DeploymentV1Spec |-> Copied({"Replicas", "RevisionHistoryLimit",
       "ProgressDeadlineSeconds"}, {"Selector", "Template", "Strategy"}),
   External |-> Copied({}, {"ApiKey", "AdminUser", "AdminPassword"}),
   Grafana |-> Copied({}, {"ObjectMeta", "Spec", "Status"}),
   GrafanaAlertRuleGroup |-> Copied({}, {"ObjectMeta", "Spec", "Status"})]

CopiesFromGrafanaAlertRuleGroupList ==
  [GrafanaAlertRuleGroupList |-> Copied({}, {"ListMeta", "Items"}),
   GrafanaAlertRuleGroupSpec |-> Copied({"AllowCrossNamespaceImport"},
       {"InstanceSelector", "Rules"}),
   GrafanaAlertRuleGroupStatus |-> Copied({}, {"Conditions"}),
   GrafanaClient |-> Copied({"TimeoutSeconds", "PreferIngress"}, {}),
   GrafanaComDashboardReference |-> Copied({"Revision"}, {})]

CopiesFromGrafanaContactPoint ==
  [GrafanaContactPoint |-> Copied({}, {"ObjectMeta", "Spec", "Status"}),
   GrafanaContactPointList |-> Copied({}, {"ListMeta", "Items"}),
   GrafanaContactPointSpec |-> Copied({"AllowCrossNamespaceImport"},
       {"InstanceSelector", "Settings"}),
   GrafanaContactPointStatus |-> Copied({}, {"Conditions"}),
   GrafanaDashboard |-> Copied({}, {"ObjectMeta", "Spec", "Status"})]

CopiesFromGrafanaDashboardDatasource ==
  [GrafanaDashboardEnv |-> Copied({}, {"ValueFrom"}),
   GrafanaDashboardEnvFromSource |-> Copied({}, {"ConfigMapKeyRef",
       "SecretKeyRef"}),
   GrafanaDashboardList |-> Copied({}, {"ListMeta", "Items"})]

(* Mutant: the plugins of a dashboard are not copied. *)
CopiesForgettingPlugins ==
  [GrafanaDashboardSpec |-> Copied({"GzipJson", "Datasources",
       "AllowCrossNamespaceImport"}, {"JsonnetProjectBuild", "GrafanaCom",
       "ConfigMapRef", "InstanceSelector", "Envs", "EnvsFrom"}),
   GrafanaDashboardStatus |-> Copied({"ContentCache"}, {"ContentTimestamp",
       "LastResync"}),
   GrafanaDatasource |-> Copied({}, {"ObjectMeta", "Spec", "Status"})]

CopiesFromGrafanaDashboardSpec ==
  [GrafanaDashboardSpec |-> Copied({"GzipJson", "Plugins", "Datasources",
       "AllowCrossNamespaceImport"}, {"JsonnetProjectBuild", "GrafanaCom",
       "ConfigMapRef", "InstanceSelector", "Envs", "EnvsFrom"}),
   GrafanaDashboardStatus |-> Copied({"ContentCache"}, {"ContentTimestamp",
       "LastResync"}),
   GrafanaDatasource |-> Copied({}, {"ObjectMeta", "Spec", "Status"})]

CopiesFromGrafanaDatasourceInternal ==
  [GrafanaDatasourceInternal |-> Copied({"IsDefault", "BasicAuth", "OrgID",
       "Editable", "JSONData", "SecureJSONData"}, {}),
   GrafanaDatasourceList |-> Copied({}, {"ListMeta", "Items"}),
   GrafanaDatasourceSpec |-> Copied({"Plugins", "AllowCrossNamespaceImport"},
       {"Datasource", "InstanceSelector", "ValuesFrom"}),
   GrafanaDatasourceStatus |-> Copied({}, {"LastResync"}),
   GrafanaDatasourceValueFrom |-> Copied({}, {"ValueFrom"})]

CopiesFromGrafanaDatasourceValueFromSource ==
  [GrafanaDatasourceValueFromSource |-> Copied({}, {"ConfigMapKeyRef",
       "SecretKeyRef"}),
   GrafanaFolder |-> Copied({}, {"ObjectMeta", "Spec", "Status"}),
   GrafanaFolderList |-> Copied({}, {"ListMeta", "Items"}),
   GrafanaFolderSpec |-> Copied({"AllowCrossNamespaceImport"},
       {"InstanceSelector"}),
   GrafanaFolderStatus |-> Copied({}, {"LastResync"})]

CopiesFromGrafanaList ==
  [GrafanaList |-> Copied({}, {"ListMeta", "Items"})]

CopiesFromGrafanaSpec ==
  [GrafanaSpec |-> Copied({"Config", "Preferences"}, {"Ingress", "Route",
       "Service", "Deployment", "PersistentVolumeClaim", "ServiceAccount",
       "Client", "DashboardLabelSelector", "DashboardNamespaceSelector",
       "Jsonnet", "External"}),
   GrafanaStatus |-> Copied({"Dashboards", "Datasources", "Folders"}, {}),
   IngressNetworkingV1 |-> Copied({}, {"ObjectMeta", "Spec"})]

CopiesFromJsonnetConfig ==
  [JsonnetConfig |-> Copied({}, {"LibraryLabelSelector"}),
   JsonnetProjectBuild |-> Copied({"JPath", "GzipJsonnetProject"}, {}),
   NotificationSettings |-> Copied({"GroupBy", "MuteTimeIntervals"}, {}),
   ObjectMeta |-> Copied({"Annotations", "Labels"}, {})]

CopiesFromPersistentVolumeClaimV1 ==
  [PersistentVolumeClaimV1 |-> Copied({}, {"ObjectMeta", "Spec"}),
   PersistentVolumeClaimV1Spec |-> Copied({"AccessModes", "StorageClassName",
       "VolumeMode"}, {"Selector", "Resources", "DataSource",
       "DataSourceRef"})]

CopiesFromRouteOpenShiftV1Spec ==
  [RouteOpenShiftV1Spec |-> Copied({"Port", "TLS"}, {"To",
       "AlternateBackends"}),
   RouteOpenshiftV1 |-> Copied({}, {"ObjectMeta", "Spec"}),
   ServiceAccountV1 |-> Copied({"Secrets", "ImagePullSecrets",
       "AutomountServiceAccountToken"}, {"ObjectMeta"}),
   ServiceV1 |-> Copied({}, {"ObjectMeta", "Spec"})]

Copies ==
    Joined({CopiesFromAlertQuery, CopiesFromDeploymentV1PodSpec,
            CopiesFromDeploymentV1PodTemplateSpec,
            CopiesFromGrafanaAlertRuleGroupList, CopiesFromGrafanaContactPoint,
            CopiesFromGrafanaDashboardDatasource,
            CopiesFromGrafanaDashboardSpec,
            CopiesFromGrafanaDatasourceInternal,
            CopiesFromGrafanaDatasourceValueFromSource, CopiesFromGrafanaList,
            CopiesFromGrafanaSpec, CopiesFromJsonnetConfig,
            CopiesFromPersistentVolumeClaimV1, CopiesFromRouteOpenShiftV1Spec,
            OutsideCopies})
=============================================================================
