----------------------------- MODULE AlphaTypes ------------------------------
(***************************************************************************)
(* The v1alpha1 types that hold references, in the order of their files,   *)
(* and what their DeepCopyInto copies (zz_generated.deepcopy.go, whose     *)
(* order is alphabetical).  A type that is not listed holds no references, *)
(* and its DeepCopyInto is an assignment.                                  *)
(***************************************************************************)
EXTENDS DeepCopy

TypesFromGrafanaSpec ==
  [GrafanaSpec |-> Struct({"Containers", "DashboardLabelSelector",
       "InitResources", "Secrets", "ConfigMaps", "Resources",
       "DashboardNamespaceSelector"}, [Ingress |-> "GrafanaIngress",
       Service |-> "GrafanaService", Deployment |-> "GrafanaDeployment",
       ServiceAccount |-> "GrafanaServiceAccount", Client |-> "GrafanaClient",
       DataStorage |-> "GrafanaDataStorage", Jsonnet |-> "JsonnetConfig",
       LivenessProbeSpec |-> "LivenessProbeSpec",
       ReadinessProbeSpec |-> "ReadinessProbeSpec"],
       [Config |-> "GrafanaConfig"]),
   ReadinessProbeSpec |-> Data({"InitialDelaySeconds", "TimeOutSeconds",
       "PeriodSeconds", "SuccessThreshold", "FailureThreshold"}),
   LivenessProbeSpec |-> Data({"InitialDelaySeconds", "TimeOutSeconds",
       "PeriodSeconds", "SuccessThreshold", "FailureThreshold"}),
   JsonnetConfig |-> Data({"LibraryLabelSelector"}),
   GrafanaClient |-> Data({"TimeoutSeconds", "PreferService"}),
   GrafanaService |-> Data({"Annotations", "Labels", "Ports"}),
   GrafanaDataStorage |-> Struct({"Annotations", "Labels", "AccessModes"},
       None, [Size |-> "resource.Quantity"]),
   GrafanaServiceAccount |-> Data({"Skip", "Annotations", "Labels",
       "ImagePullSecrets"}),
   GrafanaDeployment |-> Data({"Annotations", "Labels", "Replicas",
       "NodeSelector", "Tolerations", "Affinity", "TopologySpreadConstraints",
       "SecurityContext", "ContainerSecurityContext",
       "TerminationGracePeriodSeconds", "EnvFrom", "Env",
       "SkipCreateAdminAccount", "HostNetwork", "ExtraVolumes",
       "ExtraVolumeMounts", "Strategy", "HttpProxy"}),
   GrafanaIngress |-> Data({"Annotations", "Labels"})]

TypesFromGrafanaConfig ==
  [GrafanaConfig |-> Struct({"Paths", "RemoteCache", "Log", "LogConsole",
       "MetricsGraphite", "ExternalImageStorage", "ExternalImageStorageS3",
       "ExternalImageStorageWebdav", "ExternalImageStorageGcs",
       "ExternalImageStorageAzureBlob", "FeatureToggles"},
       [Server |-> "GrafanaConfigServer",
       Database |-> "GrafanaConfigDatabase",
       Security |-> "GrafanaConfigSecurity", Users |-> "GrafanaConfigUsers",
       Auth |-> "GrafanaConfigAuth", AuthBasic |-> "GrafanaConfigAuthBasic",
       AuthAnonymous |-> "GrafanaConfigAuthAnonymous",
       AuthAzureAD |-> "GrafanaConfigAuthAzureAD",
       AuthGoogle |-> "GrafanaConfigAuthGoogle",
       AuthGithub |-> "GrafanaConfigAuthGithub",
       AuthGitlab |-> "GrafanaConfigAuthGitlab",
       AuthGenericOauth |-> "GrafanaConfigAuthGenericOauth",
       AuthJwt |-> "GrafanaConfigAuthJwt",
       AuthOkta |-> "GrafanaConfigAuthOkta",
       AuthLdap |-> "GrafanaConfigAuthLdap",
       AuthProxy |-> "GrafanaConfigAuthProxy",
       AuthSaml |-> "GrafanaConfigAuthSaml",
       DataProxy |-> "GrafanaConfigDataProxy",
       Analytics |-> "GrafanaConfigAnalytics",
       Dashboards |-> "GrafanaConfigDashboards", Smtp |-> "GrafanaConfigSmtp",
       Live |-> "GrafanaConfigLive",
       LogFrontend |-> "GrafanaConfigLogFrontend",
       Metrics |-> "GrafanaConfigMetrics",
       Snapshots |-> "GrafanaConfigSnapshots",
       Alerting |-> "GrafanaConfigAlerting",
       UnifiedAlerting |-> "GrafanaConfigUnifiedAlerting",
       Panels |-> "GrafanaConfigPanels", Plugins |-> "GrafanaConfigPlugins",
       Rendering |-> "GrafanaConfigRendering"], None),
   GrafanaConfigServer |-> Data({"EnforceDomain", "ServeFromSubPath",
       "EnableGzip", "RouterLogging"}),
   GrafanaConfigDatabase |-> Data({"MaxIdleConn", "MaxOpenConn",
       "ConnMaxLifetime", "LogQueries"}),
   GrafanaConfigSecurity |-> Data({"LoginRememberDays", "DisableGravatar",
       "CookieSecure", "AllowEmbedding", "StrictTransportSecurity",
       "StrictTransportSecurityMaxAgeSeconds",
       "StrictTransportSecurityPreload", "StrictTransportSecuritySubdomains",
       "XContentTypeOptions", "XXssProtection"})]

TypesFromGrafanaConfigUsers ==
  [GrafanaConfigUsers |-> Data({"AllowSignUp", "AllowOrgCreate",
       "AutoAssignOrg", "ViewersCanEdit", "EditorsCanAdmin"}),
   GrafanaConfigAuth |-> Data({"LoginMaximumInactiveLifetimeDays",
       "LoginMaximumLifetimeDays", "TokenRotationIntervalMinutes",
       "DisableLoginForm", "DisableSignoutMenu", "SigV4AuthEnabled",
       "OauthAutoLogin"}),
   GrafanaConfigAuthBasic |-> Data({"Enabled"}),
   GrafanaConfigAuthAnonymous |-> Data({"Enabled"}),
   GrafanaConfigAuthSaml |-> Data({"Enabled", "SingleLogout",
       "AllowIdpInitiated"}),
   GrafanaConfigAuthAzureAD |-> Data({"Enabled", "AllowSignUp"}),
   GrafanaConfigAuthGoogle |-> Data({"Enabled", "AllowSignUp"}),
   GrafanaConfigAuthGithub |-> Data({"Enabled", "AllowSignUp"})]

TypesFromGrafanaConfigAuthGitlab ==
  [GrafanaConfigAuthGitlab |-> Data({"Enabled", "AllowSignUp",
       "RoleAttributeStrict", "AllowAssignGrafanaAdmin"}),
   GrafanaConfigAuthGenericOauth |-> Data({"Enabled", "AllowSignUp",
       "UsePkce", "RoleAttributeStrict", "TLSSkipVerifyInsecure"}),
   GrafanaConfigAuthJwt |-> Data({"Enabled", "EnableLoginToken",
       "RoleAttributeStrict", "AutoSignUp", "UrlLogin",
       "AllowAssignGrafanaAdmin", "SkipOrgRoleSync"}),
   GrafanaConfigAuthOkta |-> Data({"Enabled", "AllowSignUp",
       "RoleAttributeStrict"}),
   GrafanaConfigAuthLdap |-> Data({"Enabled", "AllowSignUp"}),
   GrafanaConfigAuthProxy |-> Data({"Enabled", "AutoSignUp",
       "EnableLoginToken"}),
   GrafanaConfigDataProxy |-> Data({"DialTimeout",
       "ExpectContinueTimeoutSeconds", "IdleConnTimeoutSeconds",
       "KeepAliveSeconds", "Logging", "MaxIdleConnections", "MaxConnsPerHost",
       "ResponseLimit", "RowLimit", "SendUserHeader", "Timeout",
       "TlsHandshakeTimeoutSeconds"}),
   GrafanaConfigAnalytics |-> Data({"ReportingEnabled", "CheckForUpdates"})]

TypesFromGrafanaConfigDashboards ==
  [GrafanaConfigDashboards |-> Data({"VersionsToKeep"}),
   GrafanaConfigSmtp |-> Data({"Enabled", "SkipVerify"}),
   GrafanaConfigLive |-> Data({"MaxConnections"}),
   GrafanaConfigLogFrontend |-> Data({"Enabled",
       "LogEndpointRequestsPerSecondLimit", "LogEndpointBurstLimit"}),
   GrafanaConfigMetrics |-> Data({"Enabled", "IntervalSeconds"}),
   GrafanaConfigSnapshots |-> Data({"ExternalEnabled",
       "SnapshotRemoveExpired"})]

TypesFromGrafanaConfigAlerting ==
  [GrafanaConfigAlerting |-> Data({"Enabled", "ExecuteAlerts",
       "ConcurrentRenderLimit", "EvaluationTimeoutSeconds",
       "NotificationTimeoutSeconds", "MaxAttempts"}),
   GrafanaConfigUnifiedAlerting |-> Data({"Enabled", "ExecuteAlerts",
       "MaxAttempts"}),
   GrafanaConfigPanels |-> Data({"DisableSanitizeHtml"}),
   GrafanaConfigPlugins |-> Data({"EnableAlpha", "PluginAdminEnabled"}),
   GrafanaConfigRendering |-> Data({"ConcurrentRenderRequestLimit"}),
   GrafanaStatus |-> Struct({"InstalledPlugins", "FailedPlugins"},
       [InstalledDashboards |-> "GrafanaDashboardRef"], None),
   Grafana |-> Struct({}, None, [ObjectMeta |-> "metav1.ObjectMeta",
       Spec |-> "GrafanaSpec", Status |-> "GrafanaStatus"]),
   GrafanaList |-> Struct({}, [Items |-> "Grafana"],
       [ListMeta |-> "metav1.ListMeta"])]

TypesFromGrafanaDashboardSpec ==
  [GrafanaDashboardSpec |-> Struct({"GzipJson", "Plugins", "ConfigMapRef",
       "GzipConfigMapRef", "Datasources", "ContentCacheDuration"},
       [GrafanaCom |-> "GrafanaDashboardGrafanaComSource"], None),
   GrafanaDashboardGrafanaComSource |-> Data({"Revision"}),
   GrafanaDashboardRef |-> Data({"FolderId"}),
   GrafanaDashboardStatus |-> Data({"ContentCache", "Error"}),
   GrafanaDashboard |-> Struct({}, None, [ObjectMeta |-> "metav1.ObjectMeta",
       Spec |-> "GrafanaDashboardSpec", Status |-> "GrafanaDashboardStatus"]),
   GrafanaDashboardList |-> Struct({}, [Items |-> "GrafanaDashboard"],
       [ListMeta |-> "metav1.ListMeta"])]

TypesFromGrafanaDataSourceSpec ==
  [GrafanaDataSourceSpec |-> Struct({},
       [Datasources |-> "GrafanaDataSourceFields"], None),
   GrafanaDataSource |-> Struct({}, None, [ObjectMeta |-> "metav1.ObjectMeta",
       Spec |-> "GrafanaDataSourceSpec"]),
   GrafanaDataSourceList |-> Struct({}, [Items |-> "GrafanaDataSource"],
       [ListMeta |-> "metav1.ListMeta"]),
   GrafanaDataSourceFields |-> Struct({"CustomJsonData",
       "CustomSecureJsonData"}, None,
       [JsonData |-> "GrafanaDataSourceJsonData"])]

TypesFromGrafanaDataSourceJsonData ==
  [GrafanaDataSourceJsonData |-> Struct({"DerivedFields",
       "ExemplarTraceIdDestinations"}, None,
       [TracesToLogs |-> "GrafanaDataSourceJsonTracesToLogs"]),
   GrafanaDataSourceJsonTracesToLogs |-> Data({"Tags"})]

TypesFromGrafanaFolderSpec ==
  [GrafanaFolderSpec |-> Data({"FolderPermissions"}),
   GrafanaFolder |-> Struct({}, None, [ObjectMeta |-> "metav1.ObjectMeta",
       Spec |-> "GrafanaFolderSpec"]),
   GrafanaFolderList |-> Struct({}, [Items |-> "GrafanaFolder"],
       [ListMeta |-> "metav1.ListMeta"])]

TypesFromGrafanaNotificationChannel ==
  [GrafanaNotificationChannel |-> Struct({}, None,
       [ObjectMeta |-> "metav1.ObjectMeta"]),
   GrafanaNotificationChannelList |-> Struct({},
       [Items |-> "GrafanaNotificationChannel"],
       [ListMeta |-> "metav1.ListMeta"])]

Types ==
    Joined({TypesFromGrafanaSpec, TypesFromGrafanaConfig,
            TypesFromGrafanaConfigUsers, TypesFromGrafanaConfigAuthGitlab,
            TypesFromGrafanaConfigDashboards, TypesFromGrafanaConfigAlerting,
            TypesFromGrafanaDashboardSpec, TypesFromGrafanaDataSourceSpec,
            TypesFromGrafanaDataSourceJsonData, TypesFromGrafanaFolderSpec,
            TypesFromGrafanaNotificationChannel, OutsideTypes})

-----------------------------------------------------------------------------

CopiesFromGrafana ==
  [Grafana |-> Copied({}, {"ObjectMeta", "Spec", "Status"}),
   GrafanaClient |-> Copied({"TimeoutSeconds", "PreferService"}, {})]

CopiesFromGrafanaConfig ==
  [GrafanaConfig |-> Copied({"Paths", "RemoteCache", "Log", "LogConsole",
       "MetricsGraphite", "ExternalImageStorage", "ExternalImageStorageS3",
       "ExternalImageStorageWebdav", "ExternalImageStorageGcs",
       "ExternalImageStorageAzureBlob", "FeatureToggles"}, {"Server",
       "Database", "Security", "Users", "Auth", "AuthBasic", "AuthAnonymous",
       "AuthAzureAD", "AuthGoogle", "AuthGithub", "AuthGitlab",
       "AuthGenericOauth", "AuthJwt", "AuthOkta", "AuthLdap", "AuthProxy",
       "AuthSaml", "DataProxy", "Analytics", "Dashboards", "Smtp", "Live",
       "LogFrontend", "Metrics", "Snapshots", "Alerting", "UnifiedAlerting",
       "Panels", "Plugins", "Rendering"})]

CopiesFromGrafanaConfigAlerting ==
  [GrafanaConfigAlerting |-> Copied({"Enabled", "ExecuteAlerts",
       "ConcurrentRenderLimit", "EvaluationTimeoutSeconds",
       "NotificationTimeoutSeconds", "MaxAttempts"}, {}),
   GrafanaConfigAnalytics |-> Copied({"ReportingEnabled", "CheckForUpdates"},
       {}),
   GrafanaConfigAuth |-> Copied({"LoginMaximumInactiveLifetimeDays",
       "LoginMaximumLifetimeDays", "TokenRotationIntervalMinutes",
       "DisableLoginForm", "DisableSignoutMenu", "SigV4AuthEnabled",
       "OauthAutoLogin"}, {}),
   GrafanaConfigAuthAnonymous |-> Copied({"Enabled"}, {})]

CopiesFromGrafanaConfigAuthAzureAD ==
  [GrafanaConfigAuthAzureAD |-> Copied({"Enabled", "AllowSignUp"}, {}),
   GrafanaConfigAuthBasic |-> Copied({"Enabled"}, {}),
   GrafanaConfigAuthGenericOauth |-> Copied({"Enabled", "AllowSignUp",
       "UsePkce", "RoleAttributeStrict", "TLSSkipVerifyInsecure"}, {}),
   GrafanaConfigAuthGithub |-> Copied({"Enabled", "AllowSignUp"}, {}),
   GrafanaConfigAuthGitlab |-> Copied({"Enabled", "AllowSignUp",
       "RoleAttributeStrict", "AllowAssignGrafanaAdmin"}, {})]

CopiesFromGrafanaConfigAuthGoogle ==
  [GrafanaConfigAuthGoogle |-> Copied({"Enabled", "AllowSignUp"}, {}),
   GrafanaConfigAuthJwt |-> Copied({"Enabled", "EnableLoginToken",
       "RoleAttributeStrict", "AutoSignUp", "UrlLogin",
       "AllowAssignGrafanaAdmin", "SkipOrgRoleSync"}, {}),
   GrafanaConfigAuthLdap |-> Copied({"Enabled", "AllowSignUp"}, {}),
   GrafanaConfigAuthOkta |-> Copied({"Enabled", "AllowSignUp",
       "RoleAttributeStrict"}, {})]

CopiesFromGrafanaConfigAuthProxy ==
  [GrafanaConfigAuthProxy |-> Copied({"Enabled", "AutoSignUp",
       "EnableLoginToken"}, {}),
   GrafanaConfigAuthSaml |-> Copied({"Enabled", "SingleLogout",
       "AllowIdpInitiated"}, {}),
   GrafanaConfigDashboards |-> Copied({"VersionsToKeep"}, {})]

CopiesFromGrafanaConfigDataProxy ==
  [GrafanaConfigDataProxy |-> Copied({"DialTimeout",
       "ExpectContinueTimeoutSeconds", "IdleConnTimeoutSeconds",
       "KeepAliveSeconds", "Logging", "MaxIdleConnections", "MaxConnsPerHost",
       "ResponseLimit", "RowLimit", "SendUserHeader", "Timeout",
       "TlsHandshakeTimeoutSeconds"}, {}),
   GrafanaConfigDatabase |-> Copied({"MaxIdleConn", "MaxOpenConn",
       "ConnMaxLifetime", "LogQueries"}, {})]

CopiesFromGrafanaConfigExternalImageStorageGcs ==
  [GrafanaConfigLive |-> Copied({"MaxConnections"}, {}),
   GrafanaConfigLogFrontend |-> Copied({"Enabled",
       "LogEndpointRequestsPerSecondLimit", "LogEndpointBurstLimit"}, {})]

CopiesFromGrafanaConfigMetrics ==
  [GrafanaConfigMetrics |-> Copied({"Enabled", "IntervalSeconds"}, {}),
   GrafanaConfigPanels |-> Copied({"DisableSanitizeHtml"}, {}),
   GrafanaConfigPlugins |-> Copied({"EnableAlpha", "PluginAdminEnabled"}, {}),
   GrafanaConfigRendering |-> Copied({"ConcurrentRenderRequestLimit"}, {})]

CopiesFromGrafanaConfigSecurity ==
  [GrafanaConfigSecurity |-> Copied({"LoginRememberDays", "DisableGravatar",
       "CookieSecure", "AllowEmbedding", "StrictTransportSecurity",
       "StrictTransportSecurityMaxAgeSeconds",
       "StrictTransportSecurityPreload", "StrictTransportSecuritySubdomains",
       "XContentTypeOptions", "XXssProtection"}, {}),
   GrafanaConfigServer |-> Copied({"EnforceDomain", "ServeFromSubPath",
       "EnableGzip", "RouterLogging"}, {}),
   GrafanaConfigSmtp |-> Copied({"Enabled", "SkipVerify"}, {}),
   GrafanaConfigSnapshots |-> Copied({"ExternalEnabled",
       "SnapshotRemoveExpired"}, {})]

CopiesFromGrafanaConfigUnifiedAlerting ==
  [GrafanaConfigUnifiedAlerting |-> Copied({"Enabled", "ExecuteAlerts",
       "MaxAttempts"}, {}),
   GrafanaConfigUsers |-> Copied({"AllowSignUp", "AllowOrgCreate",
       "AutoAssignOrg", "ViewersCanEdit", "EditorsCanAdmin"}, {}),
   GrafanaDashboard |-> Copied({}, {"ObjectMeta", "Spec", "Status"}),
   GrafanaDashboardGrafanaComSource |-> Copied({"Revision"}, {})]

CopiesFromGrafanaDashboardList ==
  [GrafanaDashboardList |-> Copied({}, {"ListMeta", "Items"}),
   GrafanaDashboardRef |-> Copied({"FolderId"}, {}),
   GrafanaDashboardSpec |-> Copied({"GzipJson", "Plugins", "Datasources",
       "ContentCacheDuration"}, {"ConfigMapRef", "GzipConfigMapRef",
       "GrafanaCom"}),
   GrafanaDashboardStatus |-> Copied({"ContentCache", "Error"},
       {"ContentTimestamp"})]

CopiesFromGrafanaDataSource ==
  [GrafanaDataSource |-> Copied({}, {"ObjectMeta", "Spec"}),
   GrafanaDataSourceFields |-> Copied({"CustomJsonData",
       "CustomSecureJsonData"}, {"JsonData"}),
   GrafanaDataSourceJsonData |-> Copied({"DerivedFields",
       "ExemplarTraceIdDestinations"}, {"TracesToLogs"})]

CopiesFromGrafanaDataSourceJsonTracesToLogs ==
  [GrafanaDataSourceJsonTracesToLogs |-> Copied({"Tags"}, {}),
   GrafanaDataSourceList |-> Copied({}, {"ListMeta", "Items"}),
   GrafanaDataSourceSpec |-> Copied({}, {"Datasources"}),
   GrafanaDataStorage |-> Copied({"Annotations", "Labels", "AccessModes"},
       {"Size"})]

CopiesFromGrafanaDatasourceJsonNodeGraph ==
  [GrafanaDeployment |-> Copied({"Annotations", "Labels", "Replicas",
       "NodeSelector", "TerminationGracePeriodSeconds",
       "SkipCreateAdminAccount", "HostNetwork", "HttpProxy"}, {"Tolerations",
       "Affinity", "TopologySpreadConstraints", "SecurityContext",
       "ContainerSecurityContext", "EnvFrom", "Env", "ExtraVolumes",
       "ExtraVolumeMounts", "Strategy"})]

CopiesFromGrafanaFolder ==
  [GrafanaFolder |-> Copied({}, {"ObjectMeta", "Spec"}),
   GrafanaFolderList |-> Copied({}, {"ListMeta", "Items"}),
   GrafanaFolderSpec |-> Copied({"FolderPermissions"}, {}),
   GrafanaIngress |-> Copied({"Annotations", "Labels"}, {})]

CopiesFromGrafanaList ==
  [GrafanaList |-> Copied({}, {"ListMeta", "Items"}),
   GrafanaNotificationChannel |-> Copied({}, {"ObjectMeta"}),
   GrafanaNotificationChannelList |-> Copied({}, {"ListMeta", "Items"})]

CopiesFromGrafanaPermissionItem ==
  [GrafanaService |-> Copied({"Annotations", "Labels"}, {"Ports"}),
   GrafanaServiceAccount |-> Copied({"Skip", "Annotations", "Labels",
       "ImagePullSecrets"}, {})]

CopiesFromGrafanaSpec ==
  [GrafanaSpec |-> Copied({"Secrets", "ConfigMaps"}, {"Config", "Containers",
       "DashboardLabelSelector", "Ingress", "InitResources", "Service",
       "Deployment", "Resources", "ServiceAccount", "Client",
       "DashboardNamespaceSelector", "DataStorage", "Jsonnet",
       "LivenessProbeSpec", "ReadinessProbeSpec"}),
   GrafanaStatus |-> Copied({"InstalledPlugins", "FailedPlugins"},
       {"InstalledDashboards"})]

CopiesFromJsonnetConfig ==
  [JsonnetConfig |-> Copied({}, {"LibraryLabelSelector"}),
   LivenessProbeSpec |-> Copied({"InitialDelaySeconds", "TimeOutSeconds",
       "PeriodSeconds", "SuccessThreshold", "FailureThreshold"}, {}),
   ReadinessProbeSpec |-> Copied({"InitialDelaySeconds", "TimeOutSeconds",
       "PeriodSeconds", "SuccessThreshold", "FailureThreshold"}, {})]

Copies ==
    Joined({CopiesFromGrafana, CopiesFromGrafanaConfig,
            CopiesFromGrafanaConfigAlerting,
            CopiesFromGrafanaConfigAuthAzureAD,
            CopiesFromGrafanaConfigAuthGoogle,
            CopiesFromGrafanaConfigAuthProxy, CopiesFromGrafanaConfigDataProxy,
            CopiesFromGrafanaConfigExternalImageStorageGcs,
            CopiesFromGrafanaConfigMetrics, CopiesFromGrafanaConfigSecurity,
            CopiesFromGrafanaConfigUnifiedAlerting,
            CopiesFromGrafanaDashboardList, CopiesFromGrafanaDataSource,
            CopiesFromGrafanaDataSourceJsonTracesToLogs,
            CopiesFromGrafanaDatasourceJsonNodeGraph, CopiesFromGrafanaFolder,
            CopiesFromGrafanaList, CopiesFromGrafanaPermissionItem,
            CopiesFromGrafanaSpec, CopiesFromJsonnetConfig, OutsideCopies})
=============================================================================
