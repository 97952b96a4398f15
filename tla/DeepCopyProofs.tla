---------------------------- MODULE DeepCopyProofs ----------------------------
(***************************************************************************)
(* What a copy made by the generated DeepCopyInto shares with its          *)
(* original: for ten of the eleven kinds and their lists nothing, for the  *)
(* v1beta1 Grafana the external certificate of its route and no more.      *)
(* Three facts make it up: every DeepCopyInto copies all that its type     *)
(* holds references through, the TLS configuration of a route excepted     *)
(* (AlphaComplete and BetaComplete, over the tables of AlphaTypes and      *)
(* BetaTypes); no type outside AboveCertificate leads into it (BetaApart); *)
(* and from such copies no sequence of fields leads anywhere else in the   *)
(* original (ReachedIsSafe).                                               *)
(***************************************************************************)
EXTENDS ApiLibrary, TLAPS

Assigned == "routev1.TLSConfig"
Certificate == "routev1.LocalObjectReference"

(* A copy gets a new object, or a copy of the old one, for every field through
   which the type holds references; where there are more behind it, a copy.
   What is only assigned is the TLS configuration of a route.               *)
Complete(declared, copied) ==
    /\ declared.data \subseteq copied.fresh \cup copied.deep
    /\ \A f \in DOMAIN declared.refs :
         \/ f \in copied.deep
         \/ f \in copied.fresh /\ declared.refs[f] = Assigned
    /\ DOMAIN declared.parts \subseteq copied.deep

(* All that a TLS configuration refers to is a certificate. *)
OnlyCertificate(declared) ==
    /\ declared.data = {} /\ DOMAIN declared.parts = {}
    /\ \A f \in DOMAIN declared.refs : declared.refs[f] = Certificate

CopiedInFull(types, copies) ==
    \A t \in DOMAIN types :
        IF t = Assigned THEN OnlyCertificate(types[t])
        ELSE t \in DOMAIN copies /\ Complete(types[t], copies[t])

(* No field of the other types leads to an excluded one. *)
Apart(declared, excluded) ==
    /\ \A f \in DOMAIN declared.refs : declared.refs[f] \notin excluded
    /\ \A f \in DOMAIN declared.parts : declared.parts[f] \notin excluded

AllApart(types, excluded) ==
    \A t \in DOMAIN types \ excluded : Apart(types[t], excluded)

(* The declared types, and what is known of those they refer to. *)
Declared(types, excluded) ==
    /\ "data" \notin DOMAIN types \cup excluded
    /\ Certificate \notin DOMAIN types

(* A place that is not in the original's memory, nor leads there: but for the
   certificate, where a TLS configuration can be reached.                   *)
Safe(types, excluded, place) ==
    /\ place.type \notin excluded
    /\ \/ place.memory = "own"
       \/ /\ place.memory = "shell"
          /\ place.type \notin DOMAIN types \ {Assigned}
       \/ place.type = Certificate /\ Assigned \in DOMAIN types \ excluded

(* What is behind a field of a struct whose copy is complete. *)
LEMMA PlaceBehindField ==
    ASSUME NEW types, NEW copies, NEW t \in DOMAIN copies,
           Complete(types[t], copies[t]),
           NEW p \in Places(types, copies, t, "own")
    PROVE  \/ p.memory = "own"
           \/ p.memory = "shell" /\ p.type \in {"data", Assigned}
<1> DEFINE data == {[field |-> f, type |-> "data",
                     memory |-> BehindReference("own", f, copies[t])] :
                        f \in types[t].data}
           refs == {[field |-> f, type |-> types[t].refs[f],
                     memory |-> BehindReference("own", f, copies[t])] :
                        f \in DOMAIN types[t].refs}
           parts == {[field |-> f, type |-> types[t].parts[f],
                      memory |-> WithinStruct("own", f, copies[t])] :
                        f \in DOMAIN types[t].parts}
<1>1. p \in data \cup refs \cup parts
    BY DEF Places
<1>2. \A f \in copies[t].fresh \cup copies[t].deep :
        BehindReference("own", f, copies[t]) \in {"own", "shell"}
    BY DEF BehindReference
<1>3. CASE p \in data
  <2>1. \A f \in types[t].data :
          BehindReference("own", f, copies[t]) \in {"own", "shell"}
      BY <1>2 DEF Complete
  <2> QED BY <1>3, <2>1
<1>4. CASE p \in refs
  <2>1. \A f \in copies[t].deep : BehindReference("own", f, copies[t]) = "own"
      BY DEF BehindReference
  <2>2. \A f \in DOMAIN types[t].refs :
          \/ BehindReference("own", f, copies[t]) = "own"
          \/ /\ BehindReference("own", f, copies[t]) \in {"own", "shell"}
             /\ types[t].refs[f] = Assigned
      BY <1>2, <2>1 DEF Complete
  <2> QED BY <1>4, <2>2
<1>5. CASE p \in parts
  <2>1. \A f \in copies[t].deep : WithinStruct("own", f, copies[t]) = "own"
      BY DEF WithinStruct
  <2>2. \A f \in DOMAIN types[t].parts :
          WithinStruct("own", f, copies[t]) = "own"
      BY <2>1 DEF Complete
  <2> QED BY <1>5, <2>2
<1> QED BY <1>1, <1>3, <1>4, <1>5

(* ... and of a TLS configuration, in whatever memory. *)
LEMMA PlaceBehindAssigned ==
    ASSUME NEW types, NEW copies, OnlyCertificate(types[Assigned]), NEW memory,
           NEW p \in Places(types, copies, Assigned, memory)
    PROVE  p.type = Certificate
BY DEF Places, OnlyCertificate

(* Nor does a field lead to an excluded type. *)
LEMMA PlaceIsApart ==
    ASSUME NEW types, NEW copies, NEW excluded, "data" \notin excluded,
           NEW t, Apart(types[t], excluded), NEW memory,
           NEW p \in Places(types, copies, t, memory)
    PROVE  p.type \notin excluded
BY DEF Places, Apart

(* One field further, a place is safe if it was before. *)
LEMMA OneFieldFurther ==
    ASSUME NEW types, NEW copies, CopiedInFull(types, copies),
           NEW excluded, AllApart(types, excluded), Declared(types, excluded),
           NEW place, Safe(types, excluded, place),
           NEW next \in Behind(types, copies, place)
    PROVE  Safe(types, excluded, next)
<1>1. place.type \in DOMAIN types
    BY DEF Behind
<1>2. PICK p \in Places(types, copies, place.type, place.memory) :
        next.type = p.type /\ next.memory = p.memory
    BY <1>1 DEF Behind
<1>3. p.type \notin excluded
  <2>1. Apart(types[place.type], excluded)
      BY <1>1 DEF AllApart, Safe
  <2> QED BY <2>1, <1>2, PlaceIsApart DEF Declared
<1>4. CASE place.type = Assigned
  <2>1. OnlyCertificate(types[Assigned])
      BY <1>1, <1>4 DEF CopiedInFull
  <2>2. p.type = Certificate
      BY <1>2, <1>4, <2>1, PlaceBehindAssigned
  <2> QED BY <1>1, <1>2, <1>3, <1>4, <2>2 DEF Safe
<1>5. CASE place.type # Assigned
  <2>1. place.memory = "own"
      BY <1>1, <1>5 DEF Safe, Declared
  <2>2. \/ p.memory = "own"
        \/ p.memory = "shell" /\ p.type \in {"data", Assigned}
      BY <1>1, <1>2, <1>5, <2>1, PlaceBehindField DEF CopiedInFull
  <2> QED BY <1>2, <1>3, <2>2 DEF Safe, Declared
<1> QED BY <1>4, <1>5

(* One round of following fields. *)
Further(types, copies, before) ==
    before \cup UNION {Behind(types, copies, p) : p \in before}

(* ... nor after a round from every place reached. *)
LEMMA FurtherIsSafe ==
    ASSUME NEW types, NEW copies, CopiedInFull(types, copies),
           NEW excluded, AllApart(types, excluded), Declared(types, excluded),
           NEW before, \A place \in before : Safe(types, excluded, place)
    PROVE  \A place \in Further(types, copies, before) :
             Safe(types, excluded, place)
BY OneFieldFurther DEF Further

(* However far a holder follows fields, the places it gets to are safe.  The
   recursion of Reached is over 0 .. Depth, so a function that solves it can be
   written down, and Reached is one that does.                              *)
LEMMA ReachedIsSafe ==
    ASSUME NEW types, NEW copies, CopiedInFull(types, copies),
           NEW excluded, AllApart(types, excluded), Declared(types, excluded),
           NEW root, root \notin excluded
    PROVE  \A place \in Reached(types, copies, root, Depth) :
             Safe(types, excluded, place)
<1> DEFINE F(before) == Further(types, copies, before)
           Solves(f) ==
               f = [n \in 0 .. 8 |->
                      IF n = 0 THEN {Root(root)} ELSE F(f[n - 1])]
           reached == CHOOSE f : Solves(f)
<1>1. Reached(types, copies, root, Depth) = reached[8]
    BY DEF Reached, Depth, Further
<1>2. \E f : Solves(f)
  <2> DEFINE r0 == {Root(root)}
             r1 == F(r0)
             r2 == F(r1)
             r3 == F(r2)
             r4 == F(r3)
             r5 == F(r4)
             r6 == F(r5)
             r7 == F(r6)
             r8 == F(r7)
             f == [n \in 0 .. 8 |->
                     CASE n = 0 -> r0 [] n = 1 -> r1 [] n = 2 -> r2
                       [] n = 3 -> r3 [] n = 4 -> r4 [] n = 5 -> r5
                       [] n = 6 -> r6 [] n = 7 -> r7 [] n = 8 -> r8]
  <2>1. /\ r0 = {Root(root)} /\ r1 = F(r0) /\ r2 = F(r1) /\ r3 = F(r2)
        /\ r4 = F(r3) /\ r5 = F(r4) /\ r6 = F(r5) /\ r7 = F(r6) /\ r8 = F(r7)
      OBVIOUS
  <2> HIDE DEF F, r0, r1, r2, r3, r4, r5, r6, r7, r8
  <2>2. /\ f[0] = r0 /\ f[1] = r1 /\ f[2] = r2 /\ f[3] = r3 /\ f[4] = r4
        /\ f[5] = r5 /\ f[6] = r6 /\ f[7] = r7 /\ f[8] = r8
      OBVIOUS
  <2>3. \A n \in 0 .. 8 :
          f[n] = IF n = 0 THEN {Root(root)} ELSE F(f[n - 1])
    <3> HIDE DEF f
    <3> QED BY <2>1, <2>2
  <2>4. f = [n \in 0 .. 8 |-> f[n]]
      OBVIOUS
  <2> HIDE DEF f
  <2>5. Solves(f)
      BY <2>3, <2>4
  <2> QED BY <2>5
<1>3. reached = [n \in 0 .. 8 |->
                   IF n = 0 THEN {Root(root)} ELSE F(reached[n - 1])]
    BY <1>2
<1> HIDE DEF reached, Solves
<1>4. \A n \in 1 .. 8 : reached[n] = F(reached[n - 1])
    BY <1>3
<1> DEFINE S(n) == \A place \in reached[n] : Safe(types, excluded, place)
<1>5. S(0)
    BY <1>3 DEF Root, Safe
<1>6. \A n \in 1 .. 8 : S(n - 1) => S(n)
    BY <1>4, FurtherIsSafe
<1> HIDE DEF S
<1>7. S(1) /\ S(2) /\ S(3) /\ S(4) /\ S(5) /\ S(6) /\ S(7) /\ S(8)
    BY <1>5, <1>6
<1> QED BY <1>1, <1>7 DEF S

-----------------------------------------------------------------------------
(* None is the empty function as well as the empty sequence. *)
LEMMA NoneHasNoField == DOMAIN None = {}
BY DEF None

(* Where a table of types and one of copies have a type in common, the copy is
   complete.                                                                *)
Meet(f, g) ==
    \A t \in DOMAIN f : t \in DOMAIN g => Complete(f[t], g[t])

(* It is enough to compare the tables pair by pair, since every other type is
   in a table of copies.  Which one it is looked up in does not matter.     *)
LEMMA JoinedInFull ==
    ASSUME NEW declarations, NEW copiers,
           \A f \in declarations, g \in copiers : Meet(f, g),
           \A f \in declarations : \A t \in DOMAIN f :
             IF t = Assigned THEN OnlyCertificate(f[t])
             ELSE \E g \in copiers : t \in DOMAIN g
    PROVE  CopiedInFull(Joined(declarations), Joined(copiers))
<1> SUFFICES ASSUME NEW t \in DOMAIN Joined(declarations)
             PROVE  IF t = Assigned THEN OnlyCertificate(Joined(declarations)[t])
                    ELSE /\ t \in DOMAIN Joined(copiers)
                         /\ Complete(Joined(declarations)[t], Joined(copiers)[t])
    BY DEF CopiedInFull
<1>1. PICK f \in declarations :
        t \in DOMAIN f /\ Joined(declarations)[t] = f[t]
    BY DEF Joined
<1>2. CASE t = Assigned
    BY <1>1, <1>2
<1>3. CASE t # Assigned
  <2>1. \E g \in copiers : t \in DOMAIN g
      BY <1>1, <1>3
  <2>2. t \in DOMAIN Joined(copiers)
      BY <2>1 DEF Joined
  <2>3. PICK g \in copiers :
          t \in DOMAIN g /\ Joined(copiers)[t] = g[t]
      BY <2>2 DEF Joined
  <2> QED BY <1>1, <1>3, <2>2, <2>3 DEF Meet
<1> QED BY <1>2, <1>3

(* Likewise, one table after the other, for what leads to excluded types ... *)
LEMMA JoinedApart ==
    ASSUME NEW declarations, NEW excluded,
           \A f \in declarations : AllApart(f, excluded)
    PROVE  AllApart(Joined(declarations), excluded)
<1> SUFFICES ASSUME NEW t \in DOMAIN Joined(declarations) \ excluded
             PROVE  Apart(Joined(declarations)[t], excluded)
    BY DEF AllApart
<1>1. PICK f \in declarations :
        t \in DOMAIN f /\ Joined(declarations)[t] = f[t]
    BY DEF Joined
<1> QED BY <1>1 DEF AllApart

(* ... and for a type that none of them has. *)
LEMMA NotJoined ==
    ASSUME NEW declarations, NEW t, \A f \in declarations : t \notin DOMAIN f
    PROVE  t \notin DOMAIN Joined(declarations)
BY DEF Joined

(* Nothing leads to a type where none is excluded. *)
LEMMA NoneExcluded == ASSUME NEW types PROVE AllApart(types, {})
BY DEF AllApart, Apart

(* The tables of v1alpha1. *)
AlphaTypeTables ==
    {AT!TypesFromGrafanaSpec, AT!TypesFromGrafanaConfig,
     AT!TypesFromGrafanaConfigUsers, AT!TypesFromGrafanaConfigAuthGitlab,
     AT!TypesFromGrafanaConfigDashboards, AT!TypesFromGrafanaConfigAlerting,
     AT!TypesFromGrafanaDashboardSpec, AT!TypesFromGrafanaDataSourceSpec,
     AT!TypesFromGrafanaDataSourceJsonData, AT!TypesFromGrafanaFolderSpec,
     AT!TypesFromGrafanaNotificationChannel, AT!OutsideTypes}

AlphaCopyTables ==
    {AT!CopiesFromGrafana, AT!CopiesFromGrafanaConfig,
     AT!CopiesFromGrafanaConfigAlerting,
     AT!CopiesFromGrafanaConfigAuthAzureAD,
     AT!CopiesFromGrafanaConfigAuthGoogle,
     AT!CopiesFromGrafanaConfigAuthProxy, AT!CopiesFromGrafanaConfigDataProxy,
     AT!CopiesFromGrafanaConfigExternalImageStorageGcs,
     AT!CopiesFromGrafanaConfigMetrics, AT!CopiesFromGrafanaConfigSecurity,
     AT!CopiesFromGrafanaConfigUnifiedAlerting,
     AT!CopiesFromGrafanaDashboardList, AT!CopiesFromGrafanaDataSource,
     AT!CopiesFromGrafanaDataSourceJsonTracesToLogs,
     AT!CopiesFromGrafanaDatasourceJsonNodeGraph, AT!CopiesFromGrafanaFolder,
     AT!CopiesFromGrafanaList, AT!CopiesFromGrafanaPermissionItem,
     AT!CopiesFromGrafanaSpec, AT!CopiesFromJsonnetConfig, AT!OutsideCopies}

(* Every DeepCopyInto of v1alpha1 copies every field through which its type
   holds references.  The steps name the types of each table of declarations
   and of copies, then compare the tables that have types in common.        *)
LEMMA AlphaComplete ==
    /\ CopiedInFull(AT!Types, AT!Copies)
    /\ \A t \in {"data", Assigned, Certificate} : t \notin DOMAIN AT!Types
<1>1. DOMAIN AT!TypesFromGrafanaSpec =
         {"GrafanaSpec", "ReadinessProbeSpec", "LivenessProbeSpec",
          "JsonnetConfig", "GrafanaClient", "GrafanaService",
          "GrafanaDataStorage", "GrafanaServiceAccount", "GrafanaDeployment",
          "GrafanaIngress"}
    BY DEF AT!TypesFromGrafanaSpec
<1>2. DOMAIN AT!TypesFromGrafanaConfig =
         {"GrafanaConfig", "GrafanaConfigServer", "GrafanaConfigDatabase",
          "GrafanaConfigSecurity"}
    BY DEF AT!TypesFromGrafanaConfig
<1>3. DOMAIN AT!TypesFromGrafanaConfigUsers =
         {"GrafanaConfigUsers", "GrafanaConfigAuth", "GrafanaConfigAuthBasic",
          "GrafanaConfigAuthAnonymous", "GrafanaConfigAuthSaml",
          "GrafanaConfigAuthAzureAD", "GrafanaConfigAuthGoogle",
          "GrafanaConfigAuthGithub"}
    BY DEF AT!TypesFromGrafanaConfigUsers
<1>4. DOMAIN AT!TypesFromGrafanaConfigAuthGitlab =
         {"GrafanaConfigAuthGitlab", "GrafanaConfigAuthGenericOauth",
          "GrafanaConfigAuthJwt", "GrafanaConfigAuthOkta",
          "GrafanaConfigAuthLdap", "GrafanaConfigAuthProxy",
          "GrafanaConfigDataProxy", "GrafanaConfigAnalytics"}
    BY DEF AT!TypesFromGrafanaConfigAuthGitlab
<1>5. DOMAIN AT!TypesFromGrafanaConfigDashboards =
         {"GrafanaConfigDashboards", "GrafanaConfigSmtp", "GrafanaConfigLive",
          "GrafanaConfigLogFrontend", "GrafanaConfigMetrics",
          "GrafanaConfigSnapshots"}
    BY DEF AT!TypesFromGrafanaConfigDashboards
<1>6. DOMAIN AT!TypesFromGrafanaConfigAlerting =
         {"GrafanaConfigAlerting", "GrafanaConfigUnifiedAlerting",
          "GrafanaConfigPanels", "GrafanaConfigPlugins",
          "GrafanaConfigRendering", "GrafanaStatus", "Grafana", "GrafanaList"}
    BY DEF AT!TypesFromGrafanaConfigAlerting
<1>7. DOMAIN AT!TypesFromGrafanaDashboardSpec =
         {"GrafanaDashboardSpec", "GrafanaDashboardGrafanaComSource",
          "GrafanaDashboardRef", "GrafanaDashboardStatus", "GrafanaDashboard",
          "GrafanaDashboardList"}
    BY DEF AT!TypesFromGrafanaDashboardSpec
<1>8. DOMAIN AT!TypesFromGrafanaDataSourceSpec =
         {"GrafanaDataSourceSpec", "GrafanaDataSource",
          "GrafanaDataSourceList", "GrafanaDataSourceFields"}
    BY DEF AT!TypesFromGrafanaDataSourceSpec
<1>9. DOMAIN AT!TypesFromGrafanaDataSourceJsonData =
         {"GrafanaDataSourceJsonData", "GrafanaDataSourceJsonTracesToLogs"}
    BY DEF AT!TypesFromGrafanaDataSourceJsonData
<1>10. DOMAIN AT!TypesFromGrafanaFolderSpec =
         {"GrafanaFolderSpec", "GrafanaFolder", "GrafanaFolderList"}
    BY DEF AT!TypesFromGrafanaFolderSpec
<1>11. DOMAIN AT!TypesFromGrafanaNotificationChannel =
         {"GrafanaNotificationChannel", "GrafanaNotificationChannelList"}
    BY DEF AT!TypesFromGrafanaNotificationChannel
<1>12. DOMAIN AT!OutsideTypes =
         {"metav1.ObjectMeta", "metav1.ListMeta", "resource.Quantity"}
    BY DEF AT!OutsideTypes
<1>13. DOMAIN AT!CopiesFromGrafana = {"Grafana", "GrafanaClient"}
    BY DEF AT!CopiesFromGrafana
<1>14. DOMAIN AT!CopiesFromGrafanaConfig = {"GrafanaConfig"}
    BY DEF AT!CopiesFromGrafanaConfig
<1>15. DOMAIN AT!CopiesFromGrafanaConfigAlerting =
         {"GrafanaConfigAlerting", "GrafanaConfigAnalytics",
          "GrafanaConfigAuth", "GrafanaConfigAuthAnonymous"}
    BY DEF AT!CopiesFromGrafanaConfigAlerting
<1>16. DOMAIN AT!CopiesFromGrafanaConfigAuthAzureAD =
         {"GrafanaConfigAuthAzureAD", "GrafanaConfigAuthBasic",
          "GrafanaConfigAuthGenericOauth", "GrafanaConfigAuthGithub",
          "GrafanaConfigAuthGitlab"}
    BY DEF AT!CopiesFromGrafanaConfigAuthAzureAD
<1>17. DOMAIN AT!CopiesFromGrafanaConfigAuthGoogle =
         {"GrafanaConfigAuthGoogle", "GrafanaConfigAuthJwt",
          "GrafanaConfigAuthLdap", "GrafanaConfigAuthOkta"}
    BY DEF AT!CopiesFromGrafanaConfigAuthGoogle
<1>18. DOMAIN AT!CopiesFromGrafanaConfigAuthProxy =
         {"GrafanaConfigAuthProxy", "GrafanaConfigAuthSaml",
          "GrafanaConfigDashboards"}
    BY DEF AT!CopiesFromGrafanaConfigAuthProxy
<1>19. DOMAIN AT!CopiesFromGrafanaConfigDataProxy =
         {"GrafanaConfigDataProxy", "GrafanaConfigDatabase"}
    BY DEF AT!CopiesFromGrafanaConfigDataProxy
<1>20. DOMAIN AT!CopiesFromGrafanaConfigExternalImageStorageGcs =
         {"GrafanaConfigLive", "GrafanaConfigLogFrontend"}
    BY DEF AT!CopiesFromGrafanaConfigExternalImageStorageGcs
<1>21. DOMAIN AT!CopiesFromGrafanaConfigMetrics =
         {"GrafanaConfigMetrics", "GrafanaConfigPanels",
          "GrafanaConfigPlugins", "GrafanaConfigRendering"}
    BY DEF AT!CopiesFromGrafanaConfigMetrics
<1>22. DOMAIN AT!CopiesFromGrafanaConfigSecurity =
         {"GrafanaConfigSecurity", "GrafanaConfigServer", "GrafanaConfigSmtp",
          "GrafanaConfigSnapshots"}
    BY DEF AT!CopiesFromGrafanaConfigSecurity
<1>23. DOMAIN AT!CopiesFromGrafanaConfigUnifiedAlerting =
         {"GrafanaConfigUnifiedAlerting", "GrafanaConfigUsers",
          "GrafanaDashboard", "GrafanaDashboardGrafanaComSource"}
    BY DEF AT!CopiesFromGrafanaConfigUnifiedAlerting
<1>24. DOMAIN AT!CopiesFromGrafanaDashboardList =
         {"GrafanaDashboardList", "GrafanaDashboardRef",
          "GrafanaDashboardSpec", "GrafanaDashboardStatus"}
    BY DEF AT!CopiesFromGrafanaDashboardList
<1>25. DOMAIN AT!CopiesFromGrafanaDataSource =
         {"GrafanaDataSource", "GrafanaDataSourceFields",
          "GrafanaDataSourceJsonData"}
    BY DEF AT!CopiesFromGrafanaDataSource
<1>26. DOMAIN AT!CopiesFromGrafanaDataSourceJsonTracesToLogs =
         {"GrafanaDataSourceJsonTracesToLogs", "GrafanaDataSourceList",
          "GrafanaDataSourceSpec", "GrafanaDataStorage"}
    BY DEF AT!CopiesFromGrafanaDataSourceJsonTracesToLogs
<1>27. DOMAIN AT!CopiesFromGrafanaDatasourceJsonNodeGraph =
         {"GrafanaDeployment"}
    BY DEF AT!CopiesFromGrafanaDatasourceJsonNodeGraph
<1>28. DOMAIN AT!CopiesFromGrafanaFolder =
         {"GrafanaFolder", "GrafanaFolderList", "GrafanaFolderSpec",
          "GrafanaIngress"}
    BY DEF AT!CopiesFromGrafanaFolder
<1>29. DOMAIN AT!CopiesFromGrafanaList =
         {"GrafanaList", "GrafanaNotificationChannel",
          "GrafanaNotificationChannelList"}
    BY DEF AT!CopiesFromGrafanaList
<1>30. DOMAIN AT!CopiesFromGrafanaPermissionItem =
         {"GrafanaService", "GrafanaServiceAccount"}
    BY DEF AT!CopiesFromGrafanaPermissionItem
<1>31. DOMAIN AT!CopiesFromGrafanaSpec = {"GrafanaSpec", "GrafanaStatus"}
    BY DEF AT!CopiesFromGrafanaSpec
<1>32. DOMAIN AT!CopiesFromJsonnetConfig =
         {"JsonnetConfig", "LivenessProbeSpec", "ReadinessProbeSpec"}
    BY DEF AT!CopiesFromJsonnetConfig
<1>33. DOMAIN AT!OutsideCopies =
         {"metav1.ObjectMeta", "metav1.ListMeta", "resource.Quantity"}
    BY DEF AT!OutsideCopies, AT!OutsideTypes
<1>34. LET types == AT!TypesFromGrafanaSpec
       IN  /\ Meet(types, AT!CopiesFromGrafana)
           /\ Meet(types, AT!CopiesFromGrafanaDataSourceJsonTracesToLogs)
           /\ Meet(types, AT!CopiesFromGrafanaDatasourceJsonNodeGraph)
           /\ Meet(types, AT!CopiesFromGrafanaFolder)
           /\ Meet(types, AT!CopiesFromGrafanaPermissionItem)
           /\ Meet(types, AT!CopiesFromGrafanaSpec)
           /\ Meet(types, AT!CopiesFromJsonnetConfig)
    BY NoneHasNoField
       DEF Meet, Complete, AT!TypesFromGrafanaSpec, AT!CopiesFromGrafana,
           AT!CopiesFromGrafanaDataSourceJsonTracesToLogs,
           AT!CopiesFromGrafanaDatasourceJsonNodeGraph,
           AT!CopiesFromGrafanaFolder, AT!CopiesFromGrafanaPermissionItem,
           AT!CopiesFromGrafanaSpec, AT!CopiesFromJsonnetConfig, AT!Struct,
           AT!Data, AT!Copied, AT!None
<1>35. LET types == AT!TypesFromGrafanaConfig
       IN  /\ Meet(types, AT!CopiesFromGrafanaConfig)
           /\ Meet(types, AT!CopiesFromGrafanaConfigDataProxy)
           /\ Meet(types, AT!CopiesFromGrafanaConfigSecurity)
    BY NoneHasNoField
       DEF Meet, Complete, AT!TypesFromGrafanaConfig,
           AT!CopiesFromGrafanaConfig, AT!CopiesFromGrafanaConfigDataProxy,
           AT!CopiesFromGrafanaConfigSecurity, AT!Struct, AT!Data, AT!Copied,
           AT!None
<1>36. LET types == AT!TypesFromGrafanaConfigUsers
       IN  /\ Meet(types, AT!CopiesFromGrafanaConfigAlerting)
           /\ Meet(types, AT!CopiesFromGrafanaConfigAuthAzureAD)
           /\ Meet(types, AT!CopiesFromGrafanaConfigAuthGoogle)
           /\ Meet(types, AT!CopiesFromGrafanaConfigAuthProxy)
           /\ Meet(types, AT!CopiesFromGrafanaConfigUnifiedAlerting)
    BY NoneHasNoField
       DEF Meet, Complete, AT!TypesFromGrafanaConfigUsers,
           AT!CopiesFromGrafanaConfigAlerting,
           AT!CopiesFromGrafanaConfigAuthAzureAD,
           AT!CopiesFromGrafanaConfigAuthGoogle,
           AT!CopiesFromGrafanaConfigAuthProxy,
           AT!CopiesFromGrafanaConfigUnifiedAlerting, AT!Struct, AT!Data,
           AT!Copied, AT!None
<1>37. LET types == AT!TypesFromGrafanaConfigAuthGitlab
       IN  /\ Meet(types, AT!CopiesFromGrafanaConfigAlerting)
           /\ Meet(types, AT!CopiesFromGrafanaConfigAuthAzureAD)
           /\ Meet(types, AT!CopiesFromGrafanaConfigAuthGoogle)
           /\ Meet(types, AT!CopiesFromGrafanaConfigAuthProxy)
           /\ Meet(types, AT!CopiesFromGrafanaConfigDataProxy)
    BY NoneHasNoField
       DEF Meet, Complete, AT!TypesFromGrafanaConfigAuthGitlab,
           AT!CopiesFromGrafanaConfigAlerting,
           AT!CopiesFromGrafanaConfigAuthAzureAD,
           AT!CopiesFromGrafanaConfigAuthGoogle,
           AT!CopiesFromGrafanaConfigAuthProxy,
           AT!CopiesFromGrafanaConfigDataProxy, AT!Struct, AT!Data, AT!Copied,
           AT!None
<1>38. LET types == AT!TypesFromGrafanaConfigDashboards
       IN  /\ Meet(types, AT!CopiesFromGrafanaConfigAuthProxy)
           /\ Meet(types, AT!CopiesFromGrafanaConfigExternalImageStorageGcs)
           /\ Meet(types, AT!CopiesFromGrafanaConfigMetrics)
           /\ Meet(types, AT!CopiesFromGrafanaConfigSecurity)
    BY NoneHasNoField
       DEF Meet, Complete, AT!TypesFromGrafanaConfigDashboards,
           AT!CopiesFromGrafanaConfigAuthProxy,
           AT!CopiesFromGrafanaConfigExternalImageStorageGcs,
           AT!CopiesFromGrafanaConfigMetrics,
           AT!CopiesFromGrafanaConfigSecurity, AT!Struct, AT!Data, AT!Copied,
           AT!None
<1>39. LET types == AT!TypesFromGrafanaConfigAlerting
       IN  /\ Meet(types, AT!CopiesFromGrafana)
           /\ Meet(types, AT!CopiesFromGrafanaConfigAlerting)
           /\ Meet(types, AT!CopiesFromGrafanaConfigMetrics)
           /\ Meet(types, AT!CopiesFromGrafanaConfigUnifiedAlerting)
           /\ Meet(types, AT!CopiesFromGrafanaList)
           /\ Meet(types, AT!CopiesFromGrafanaSpec)
    BY NoneHasNoField
       DEF Meet, Complete, AT!TypesFromGrafanaConfigAlerting,
           AT!CopiesFromGrafana, AT!CopiesFromGrafanaConfigAlerting,
           AT!CopiesFromGrafanaConfigMetrics,
           AT!CopiesFromGrafanaConfigUnifiedAlerting,
           AT!CopiesFromGrafanaList, AT!CopiesFromGrafanaSpec, AT!Struct,
           AT!Data, AT!Copied, AT!None
<1>40. LET types == AT!TypesFromGrafanaDashboardSpec
       IN  /\ Meet(types, AT!CopiesFromGrafanaConfigUnifiedAlerting)
           /\ Meet(types, AT!CopiesFromGrafanaDashboardList)
    BY NoneHasNoField
       DEF Meet, Complete, AT!TypesFromGrafanaDashboardSpec,
           AT!CopiesFromGrafanaConfigUnifiedAlerting,
           AT!CopiesFromGrafanaDashboardList, AT!Struct, AT!Data, AT!Copied,
           AT!None
<1>41. LET types == AT!TypesFromGrafanaDataSourceSpec
       IN  /\ Meet(types, AT!CopiesFromGrafanaDataSource)
           /\ Meet(types, AT!CopiesFromGrafanaDataSourceJsonTracesToLogs)
    BY NoneHasNoField
       DEF Meet, Complete, AT!TypesFromGrafanaDataSourceSpec,
           AT!CopiesFromGrafanaDataSource,
           AT!CopiesFromGrafanaDataSourceJsonTracesToLogs, AT!Struct, AT!Data,
           AT!Copied, AT!None
<1>42. LET types == AT!TypesFromGrafanaDataSourceJsonData
       IN  /\ Meet(types, AT!CopiesFromGrafanaDataSource)
           /\ Meet(types, AT!CopiesFromGrafanaDataSourceJsonTracesToLogs)
    BY NoneHasNoField
       DEF Meet, Complete, AT!TypesFromGrafanaDataSourceJsonData,
           AT!CopiesFromGrafanaDataSource,
           AT!CopiesFromGrafanaDataSourceJsonTracesToLogs, AT!Struct, AT!Data,
           AT!Copied, AT!None
<1>43. Meet(AT!TypesFromGrafanaFolderSpec,
            AT!CopiesFromGrafanaFolder)
    BY NoneHasNoField
       DEF Meet, Complete, AT!TypesFromGrafanaFolderSpec,
           AT!CopiesFromGrafanaFolder, AT!Struct, AT!Data, AT!Copied, AT!None
<1>44. Meet(AT!TypesFromGrafanaNotificationChannel,
            AT!CopiesFromGrafanaList)
    BY NoneHasNoField
       DEF Meet, Complete, AT!TypesFromGrafanaNotificationChannel,
           AT!CopiesFromGrafanaList, AT!Struct, AT!Data, AT!Copied, AT!None
<1>45. Meet(AT!OutsideTypes,
            AT!OutsideCopies)
    BY NoneHasNoField
       DEF Meet, Complete, AT!OutsideTypes, AT!OutsideCopies, AT!Struct,
           AT!Data, AT!Copied, AT!None
<1>46. \A f \in AlphaTypeTables, g \in AlphaCopyTables : Meet(f, g)
  <2>1. \A g \in AlphaCopyTables : Meet(AT!TypesFromGrafanaSpec, g)
      BY <1>1, <1>34, <1>13, <1>14, <1>15, <1>16, <1>17, <1>18, <1>19, <1>20,
         <1>21, <1>22, <1>23, <1>24, <1>25, <1>26, <1>27, <1>28, <1>29, <1>30,
         <1>31, <1>32, <1>33 DEF Meet, AlphaCopyTables
  <2>2. \A g \in AlphaCopyTables : Meet(AT!TypesFromGrafanaConfig, g)
      BY <1>2, <1>35, <1>13, <1>14, <1>15, <1>16, <1>17, <1>18, <1>19, <1>20,
         <1>21, <1>22, <1>23, <1>24, <1>25, <1>26, <1>27, <1>28, <1>29, <1>30,
         <1>31, <1>32, <1>33 DEF Meet, AlphaCopyTables
  <2>3. \A g \in AlphaCopyTables : Meet(AT!TypesFromGrafanaConfigUsers, g)
      BY <1>3, <1>36, <1>13, <1>14, <1>15, <1>16, <1>17, <1>18, <1>19, <1>20,
         <1>21, <1>22, <1>23, <1>24, <1>25, <1>26, <1>27, <1>28, <1>29, <1>30,
         <1>31, <1>32, <1>33 DEF Meet, AlphaCopyTables
  <2>4. \A g \in AlphaCopyTables : Meet(AT!TypesFromGrafanaConfigAuthGitlab, g)
      BY <1>4, <1>37, <1>13, <1>14, <1>15, <1>16, <1>17, <1>18, <1>19, <1>20,
         <1>21, <1>22, <1>23, <1>24, <1>25, <1>26, <1>27, <1>28, <1>29, <1>30,
         <1>31, <1>32, <1>33 DEF Meet, AlphaCopyTables
  <2>5. \A g \in AlphaCopyTables : Meet(AT!TypesFromGrafanaConfigDashboards, g)
      BY <1>5, <1>38, <1>13, <1>14, <1>15, <1>16, <1>17, <1>18, <1>19, <1>20,
         <1>21, <1>22, <1>23, <1>24, <1>25, <1>26, <1>27, <1>28, <1>29, <1>30,
         <1>31, <1>32, <1>33 DEF Meet, AlphaCopyTables
  <2>6. \A g \in AlphaCopyTables : Meet(AT!TypesFromGrafanaConfigAlerting, g)
      BY <1>6, <1>39, <1>13, <1>14, <1>15, <1>16, <1>17, <1>18, <1>19, <1>20,
         <1>21, <1>22, <1>23, <1>24, <1>25, <1>26, <1>27, <1>28, <1>29, <1>30,
         <1>31, <1>32, <1>33 DEF Meet, AlphaCopyTables
  <2>7. \A g \in AlphaCopyTables : Meet(AT!TypesFromGrafanaDashboardSpec, g)
      BY <1>7, <1>40, <1>13, <1>14, <1>15, <1>16, <1>17, <1>18, <1>19, <1>20,
         <1>21, <1>22, <1>23, <1>24, <1>25, <1>26, <1>27, <1>28, <1>29, <1>30,
         <1>31, <1>32, <1>33 DEF Meet, AlphaCopyTables
  <2>8. \A g \in AlphaCopyTables : Meet(AT!TypesFromGrafanaDataSourceSpec, g)
      BY <1>8, <1>41, <1>13, <1>14, <1>15, <1>16, <1>17, <1>18, <1>19, <1>20,
         <1>21, <1>22, <1>23, <1>24, <1>25, <1>26, <1>27, <1>28, <1>29, <1>30,
         <1>31, <1>32, <1>33 DEF Meet, AlphaCopyTables
  <2>9. \A g \in AlphaCopyTables :
              Meet(AT!TypesFromGrafanaDataSourceJsonData, g)
      BY <1>9, <1>42, <1>13, <1>14, <1>15, <1>16, <1>17, <1>18, <1>19, <1>20,
         <1>21, <1>22, <1>23, <1>24, <1>25, <1>26, <1>27, <1>28, <1>29, <1>30,
         <1>31, <1>32, <1>33 DEF Meet, AlphaCopyTables
  <2>10. \A g \in AlphaCopyTables : Meet(AT!TypesFromGrafanaFolderSpec, g)
      BY <1>10, <1>43, <1>13, <1>14, <1>15, <1>16, <1>17, <1>18, <1>19, <1>20,
         <1>21, <1>22, <1>23, <1>24, <1>25, <1>26, <1>27, <1>28, <1>29, <1>30,
         <1>31, <1>32, <1>33 DEF Meet, AlphaCopyTables
  <2>11. \A g \in AlphaCopyTables :
              Meet(AT!TypesFromGrafanaNotificationChannel, g)
      BY <1>11, <1>44, <1>13, <1>14, <1>15, <1>16, <1>17, <1>18, <1>19, <1>20,
         <1>21, <1>22, <1>23, <1>24, <1>25, <1>26, <1>27, <1>28, <1>29, <1>30,
         <1>31, <1>32, <1>33 DEF Meet, AlphaCopyTables
  <2>12. \A g \in AlphaCopyTables : Meet(AT!OutsideTypes, g)
      BY <1>12, <1>45, <1>13, <1>14, <1>15, <1>16, <1>17, <1>18, <1>19, <1>20,
         <1>21, <1>22, <1>23, <1>24, <1>25, <1>26, <1>27, <1>28, <1>29, <1>30,
         <1>31, <1>32, <1>33 DEF Meet, AlphaCopyTables
  <2> QED BY <2>1, <2>2, <2>3, <2>4, <2>5, <2>6, <2>7, <2>8, <2>9, <2>10,
              <2>11, <2>12 DEF AlphaTypeTables
<1>47. \A f \in AlphaTypeTables : \A t \in DOMAIN f :
        /\ t \notin {"data", Assigned, Certificate}
        /\ \E g \in AlphaCopyTables : t \in DOMAIN g
    BY <1>1, <1>2, <1>3, <1>4, <1>5, <1>6, <1>7, <1>8, <1>9, <1>10, <1>11,
       <1>12, <1>13, <1>14, <1>15, <1>16, <1>17, <1>18, <1>19, <1>20, <1>21,
       <1>22, <1>23, <1>24, <1>25, <1>26, <1>27, <1>28, <1>29, <1>30, <1>31,
       <1>32, <1>33 DEF AlphaTypeTables, AlphaCopyTables, Assigned, Certificate
<1>48. /\ AT!Types = Joined(AlphaTypeTables)
       /\ AT!Copies = Joined(AlphaCopyTables)
    BY DEF AT!Types, AT!Copies, AT!Joined, Joined, AlphaTypeTables,
           AlphaCopyTables
<1>49. CopiedInFull(AT!Types, AT!Copies)
    BY <1>46, <1>47, <1>48, JoinedInFull
<1> QED BY <1>47, <1>48, <1>49, NotJoined

-----------------------------------------------------------------------------
(* The tables of v1beta1. *)
BetaTypeTables ==
    {BT!TypesFromGrafanaSpec, BT!TypesFromGrafanaAlertRuleGroupSpec,
     BT!TypesFromGrafanaContactPointSpec, BT!TypesFromGrafanaDashboardSpec,
     BT!TypesFromGrafanaDatasourceInternal, BT!TypesFromGrafanaFolderSpec,
     BT!TypesFromObjectMeta, BT!TypesFromDeploymentV1PodSpec,
     BT!TypesFromIngressNetworkingV1, BT!TypesFromTLSConfig, BT!OutsideTypes}

BetaCopyTables ==
    {BT!CopiesFromAlertQuery, BT!CopiesFromDeploymentV1PodSpec,
     BT!CopiesFromDeploymentV1PodTemplateSpec,
     BT!CopiesFromGrafanaAlertRuleGroupList, BT!CopiesFromGrafanaContactPoint,
     BT!CopiesFromGrafanaDashboardDatasource,
     BT!CopiesFromGrafanaDashboardSpec,
     BT!CopiesFromGrafanaDatasourceInternal,
     BT!CopiesFromGrafanaDatasourceValueFromSource, BT!CopiesFromGrafanaList,
     BT!CopiesFromGrafanaSpec, BT!CopiesFromJsonnetConfig,
     BT!CopiesFromPersistentVolumeClaimV1, BT!CopiesFromRouteOpenShiftV1Spec,
     BT!OutsideCopies}

(* Every DeepCopyInto of v1beta1 copies every field through which its type
   holds references, but assigns a route's TLS configuration.  The steps name
   the types of each table of declarations and of copies, then compare the
   tables that have types in common.                                        *)
LEMMA BetaComplete ==
    /\ CopiedInFull(BT!Types, BT!Copies)
    /\ \A t \in {"data", Certificate} : t \notin DOMAIN BT!Types
<1>1. DOMAIN BT!TypesFromGrafanaSpec =
         {"GrafanaSpec", "External", "JsonnetConfig", "GrafanaClient",
          "GrafanaStatus", "Grafana", "GrafanaList"}
    BY DEF BT!TypesFromGrafanaSpec
<1>2. DOMAIN BT!TypesFromGrafanaAlertRuleGroupSpec =
         {"GrafanaAlertRuleGroupSpec", "AlertRule", "NotificationSettings",
          "AlertQuery", "GrafanaAlertRuleGroupStatus",
          "GrafanaAlertRuleGroup", "GrafanaAlertRuleGroupList"}
    BY DEF BT!TypesFromGrafanaAlertRuleGroupSpec
<1>3. DOMAIN BT!TypesFromGrafanaContactPointSpec =
         {"GrafanaContactPointSpec", "GrafanaContactPointStatus",
          "GrafanaContactPoint", "GrafanaContactPointList"}
    BY DEF BT!TypesFromGrafanaContactPointSpec
<1>4. DOMAIN BT!TypesFromGrafanaDashboardSpec =
         {"GrafanaDashboardSpec", "GrafanaDashboardEnv",
          "GrafanaDashboardEnvFromSource", "JsonnetProjectBuild",
          "GrafanaComDashboardReference", "GrafanaDashboardStatus",
          "GrafanaDashboard", "GrafanaDashboardList"}
    BY DEF BT!TypesFromGrafanaDashboardSpec
<1>5. DOMAIN BT!TypesFromGrafanaDatasourceInternal =
         {"GrafanaDatasourceInternal", "GrafanaDatasourceSpec",
          "GrafanaDatasourceValueFrom", "GrafanaDatasourceValueFromSource",
          "GrafanaDatasource", "GrafanaDatasourceList"}
    BY DEF BT!TypesFromGrafanaDatasourceInternal
<1>6. DOMAIN BT!TypesFromGrafanaFolderSpec =
         {"GrafanaFolderSpec", "GrafanaFolder", "GrafanaFolderList"}
    BY DEF BT!TypesFromGrafanaFolderSpec
<1>7. DOMAIN BT!TypesFromObjectMeta =
         {"ObjectMeta", "DeploymentV1", "DeploymentV1Spec",
          "DeploymentV1PodTemplateSpec"}
    BY DEF BT!TypesFromObjectMeta
<1>8. DOMAIN BT!TypesFromDeploymentV1PodSpec = {"DeploymentV1PodSpec"}
    BY DEF BT!TypesFromDeploymentV1PodSpec
<1>9. DOMAIN BT!TypesFromIngressNetworkingV1 =
         {"IngressNetworkingV1", "RouteOpenshiftV1", "RouteOpenShiftV1Spec",
          "ServiceV1", "PersistentVolumeClaimV1",
          "PersistentVolumeClaimV1Spec", "ServiceAccountV1"}
    BY DEF BT!TypesFromIngressNetworkingV1
<1>10. DOMAIN BT!OutsideTypes =
         {"metav1.ObjectMeta", "metav1.ListMeta", "resource.Quantity"}
    BY DEF BT!OutsideTypes
<1>11. DOMAIN BT!CopiesFromAlertQuery =
         {"AlertQuery", "AlertRule", "DeploymentV1"}
    BY DEF BT!CopiesFromAlertQuery
<1>12. DOMAIN BT!CopiesFromDeploymentV1PodSpec = {"DeploymentV1PodSpec"}
    BY DEF BT!CopiesFromDeploymentV1PodSpec
<1>13. DOMAIN BT!CopiesFromDeploymentV1PodTemplateSpec =
         {"DeploymentV1PodTemplateSpec", "DeploymentV1Spec", "External",
          "Grafana", "GrafanaAlertRuleGroup"}
    BY DEF BT!CopiesFromDeploymentV1PodTemplateSpec
<1>14. DOMAIN BT!CopiesFromGrafanaAlertRuleGroupList =
         {"GrafanaAlertRuleGroupList", "GrafanaAlertRuleGroupSpec",
          "GrafanaAlertRuleGroupStatus", "GrafanaClient",
          "GrafanaComDashboardReference"}
    BY DEF BT!CopiesFromGrafanaAlertRuleGroupList
<1>15. DOMAIN BT!CopiesFromGrafanaContactPoint =
         {"GrafanaContactPoint", "GrafanaContactPointList",
          "GrafanaContactPointSpec", "GrafanaContactPointStatus",
          "GrafanaDashboard"}
    BY DEF BT!CopiesFromGrafanaContactPoint
<1>16. DOMAIN BT!CopiesFromGrafanaDashboardDatasource =
         {"GrafanaDashboardEnv", "GrafanaDashboardEnvFromSource",
          "GrafanaDashboardList"}
    BY DEF BT!CopiesFromGrafanaDashboardDatasource
<1>17. DOMAIN BT!CopiesFromGrafanaDashboardSpec =
         {"GrafanaDashboardSpec", "GrafanaDashboardStatus",
          "GrafanaDatasource"}
    BY DEF BT!CopiesFromGrafanaDashboardSpec
<1>18. DOMAIN BT!CopiesFromGrafanaDatasourceInternal =
         {"GrafanaDatasourceInternal", "GrafanaDatasourceList",
          "GrafanaDatasourceSpec", "GrafanaDatasourceStatus",
          "GrafanaDatasourceValueFrom"}
    BY DEF BT!CopiesFromGrafanaDatasourceInternal
<1>19. DOMAIN BT!CopiesFromGrafanaDatasourceValueFromSource =
         {"GrafanaDatasourceValueFromSource", "GrafanaFolder",
          "GrafanaFolderList", "GrafanaFolderSpec", "GrafanaFolderStatus"}
    BY DEF BT!CopiesFromGrafanaDatasourceValueFromSource
<1>20. DOMAIN BT!CopiesFromGrafanaList = {"GrafanaList"}
    BY DEF BT!CopiesFromGrafanaList
<1>21. DOMAIN BT!CopiesFromGrafanaSpec =
         {"GrafanaSpec", "GrafanaStatus", "IngressNetworkingV1"}
    BY DEF BT!CopiesFromGrafanaSpec
<1>22. DOMAIN BT!CopiesFromJsonnetConfig =
         {"JsonnetConfig", "JsonnetProjectBuild", "NotificationSettings",
          "ObjectMeta"}
    BY DEF BT!CopiesFromJsonnetConfig
<1>23. DOMAIN BT!CopiesFromPersistentVolumeClaimV1 =
         {"PersistentVolumeClaimV1", "PersistentVolumeClaimV1Spec"}
    BY DEF BT!CopiesFromPersistentVolumeClaimV1
<1>24. DOMAIN BT!CopiesFromRouteOpenShiftV1Spec =
         {"RouteOpenShiftV1Spec", "RouteOpenshiftV1", "ServiceAccountV1",
          "ServiceV1"}
    BY DEF BT!CopiesFromRouteOpenShiftV1Spec
<1>25. DOMAIN BT!OutsideCopies =
         {"metav1.ObjectMeta", "metav1.ListMeta", "resource.Quantity"}
    BY DEF BT!OutsideCopies, BT!OutsideTypes
<1>26. LET types == BT!TypesFromGrafanaSpec
       IN  /\ Meet(types, BT!CopiesFromDeploymentV1PodTemplateSpec)
           /\ Meet(types, BT!CopiesFromGrafanaAlertRuleGroupList)
           /\ Meet(types, BT!CopiesFromGrafanaList)
           /\ Meet(types, BT!CopiesFromGrafanaSpec)
           /\ Meet(types, BT!CopiesFromJsonnetConfig)
    BY NoneHasNoField
       DEF Meet, Complete, BT!TypesFromGrafanaSpec,
           BT!CopiesFromDeploymentV1PodTemplateSpec,
           BT!CopiesFromGrafanaAlertRuleGroupList, BT!CopiesFromGrafanaList,
           BT!CopiesFromGrafanaSpec, BT!CopiesFromJsonnetConfig, BT!Struct,
           BT!Data, BT!Copied, BT!None
<1>27. LET types == BT!TypesFromGrafanaAlertRuleGroupSpec
       IN  /\ Meet(types, BT!CopiesFromAlertQuery)
           /\ Meet(types, BT!CopiesFromDeploymentV1PodTemplateSpec)
           /\ Meet(types, BT!CopiesFromGrafanaAlertRuleGroupList)
           /\ Meet(types, BT!CopiesFromJsonnetConfig)
    BY NoneHasNoField
       DEF Meet, Complete, BT!TypesFromGrafanaAlertRuleGroupSpec,
           BT!CopiesFromAlertQuery, BT!CopiesFromDeploymentV1PodTemplateSpec,
           BT!CopiesFromGrafanaAlertRuleGroupList, BT!CopiesFromJsonnetConfig,
           BT!Struct, BT!Data, BT!Copied, BT!None
<1>28. Meet(BT!TypesFromGrafanaContactPointSpec,
            BT!CopiesFromGrafanaContactPoint)
    BY NoneHasNoField
       DEF Meet, Complete, BT!TypesFromGrafanaContactPointSpec,
           BT!CopiesFromGrafanaContactPoint, BT!Struct, BT!Data, BT!Copied,
           BT!None
<1>29. LET types == BT!TypesFromGrafanaDashboardSpec
       IN  /\ Meet(types, BT!CopiesFromGrafanaAlertRuleGroupList)
           /\ Meet(types, BT!CopiesFromGrafanaContactPoint)
           /\ Meet(types, BT!CopiesFromGrafanaDashboardDatasource)
           /\ Meet(types, BT!CopiesFromGrafanaDashboardSpec)
           /\ Meet(types, BT!CopiesFromJsonnetConfig)
    BY NoneHasNoField
       DEF Meet, Complete, BT!TypesFromGrafanaDashboardSpec,
           BT!CopiesFromGrafanaAlertRuleGroupList,
           BT!CopiesFromGrafanaContactPoint,
           BT!CopiesFromGrafanaDashboardDatasource,
           BT!CopiesFromGrafanaDashboardSpec, BT!CopiesFromJsonnetConfig,
           BT!Struct, BT!Data, BT!Copied, BT!None
<1>30. LET types == BT!TypesFromGrafanaDatasourceInternal
       IN  /\ Meet(types, BT!CopiesFromGrafanaDashboardSpec)
           /\ Meet(types, BT!CopiesFromGrafanaDatasourceInternal)
           /\ Meet(types, BT!CopiesFromGrafanaDatasourceValueFromSource)
    BY NoneHasNoField
       DEF Meet, Complete, BT!TypesFromGrafanaDatasourceInternal,
           BT!CopiesFromGrafanaDashboardSpec,
           BT!CopiesFromGrafanaDatasourceInternal,
           BT!CopiesFromGrafanaDatasourceValueFromSource, BT!Struct, BT!Data,
           BT!Copied, BT!None
<1>31. Meet(BT!TypesFromGrafanaFolderSpec,
            BT!CopiesFromGrafanaDatasourceValueFromSource)
    BY NoneHasNoField
       DEF Meet, Complete, BT!TypesFromGrafanaFolderSpec,
           BT!CopiesFromGrafanaDatasourceValueFromSource, BT!Struct, BT!Data,
           BT!Copied, BT!None
<1>32. LET types == BT!TypesFromObjectMeta
       IN  /\ Meet(types, BT!CopiesFromAlertQuery)
           /\ Meet(types, BT!CopiesFromDeploymentV1PodTemplateSpec)
           /\ Meet(types, BT!CopiesFromJsonnetConfig)
    BY NoneHasNoField
       DEF Meet, Complete, BT!TypesFromObjectMeta, BT!CopiesFromAlertQuery,
           BT!CopiesFromDeploymentV1PodTemplateSpec,
           BT!CopiesFromJsonnetConfig, BT!Struct, BT!Data, BT!Copied, BT!None
<1>33. Meet(BT!TypesFromDeploymentV1PodSpec,
            BT!CopiesFromDeploymentV1PodSpec)
    BY NoneHasNoField
       DEF Meet, Complete, BT!TypesFromDeploymentV1PodSpec,
           BT!CopiesFromDeploymentV1PodSpec, BT!Struct, BT!Data, BT!Copied,
           BT!None
<1>34. LET types == BT!TypesFromIngressNetworkingV1
       IN  /\ Meet(types, BT!CopiesFromGrafanaSpec)
           /\ Meet(types, BT!CopiesFromPersistentVolumeClaimV1)
           /\ Meet(types, BT!CopiesFromRouteOpenShiftV1Spec)
    BY NoneHasNoField
       DEF Meet, Complete, Assigned, BT!TypesFromIngressNetworkingV1,
           BT!CopiesFromGrafanaSpec, BT!CopiesFromPersistentVolumeClaimV1,
           BT!CopiesFromRouteOpenShiftV1Spec, BT!Struct, BT!Data, BT!Copied,
           BT!None
<1>35. Meet(BT!OutsideTypes,
            BT!OutsideCopies)
    BY NoneHasNoField
       DEF Meet, Complete, BT!OutsideTypes, BT!OutsideCopies, BT!Struct,
           BT!Data, BT!Copied, BT!None
<1>36. /\ DOMAIN BT!TypesFromTLSConfig = {Assigned}
       /\ OnlyCertificate(BT!TypesFromTLSConfig[Assigned])
    BY NoneHasNoField
       DEF BT!TypesFromTLSConfig, OnlyCertificate, Assigned, Certificate,
           BT!Struct, BT!None
<1>37. \A f \in BetaTypeTables, g \in BetaCopyTables : Meet(f, g)
  <2>1. \A g \in BetaCopyTables : Meet(BT!TypesFromGrafanaSpec, g)
      BY <1>1, <1>26, <1>11, <1>12, <1>13, <1>14, <1>15, <1>16, <1>17, <1>18,
         <1>19, <1>20, <1>21, <1>22, <1>23, <1>24,
         <1>25 DEF Meet, BetaCopyTables
  <2>2. \A g \in BetaCopyTables :
              Meet(BT!TypesFromGrafanaAlertRuleGroupSpec, g)
      BY <1>2, <1>27, <1>11, <1>12, <1>13, <1>14, <1>15, <1>16, <1>17, <1>18,
         <1>19, <1>20, <1>21, <1>22, <1>23, <1>24,
         <1>25 DEF Meet, BetaCopyTables
  <2>3. \A g \in BetaCopyTables : Meet(BT!TypesFromGrafanaContactPointSpec, g)
      BY <1>3, <1>28, <1>11, <1>12, <1>13, <1>14, <1>15, <1>16, <1>17, <1>18,
         <1>19, <1>20, <1>21, <1>22, <1>23, <1>24,
         <1>25 DEF Meet, BetaCopyTables
  <2>4. \A g \in BetaCopyTables : Meet(BT!TypesFromGrafanaDashboardSpec, g)
      BY <1>4, <1>29, <1>11, <1>12, <1>13, <1>14, <1>15, <1>16, <1>17, <1>18,
         <1>19, <1>20, <1>21, <1>22, <1>23, <1>24,
         <1>25 DEF Meet, BetaCopyTables
  <2>5. \A g \in BetaCopyTables :
              Meet(BT!TypesFromGrafanaDatasourceInternal, g)
      BY <1>5, <1>30, <1>11, <1>12, <1>13, <1>14, <1>15, <1>16, <1>17, <1>18,
         <1>19, <1>20, <1>21, <1>22, <1>23, <1>24,
         <1>25 DEF Meet, BetaCopyTables
  <2>6. \A g \in BetaCopyTables : Meet(BT!TypesFromGrafanaFolderSpec, g)
      BY <1>6, <1>31, <1>11, <1>12, <1>13, <1>14, <1>15, <1>16, <1>17, <1>18,
         <1>19, <1>20, <1>21, <1>22, <1>23, <1>24,
         <1>25 DEF Meet, BetaCopyTables
  <2>7. \A g \in BetaCopyTables : Meet(BT!TypesFromObjectMeta, g)
      BY <1>7, <1>32, <1>11, <1>12, <1>13, <1>14, <1>15, <1>16, <1>17, <1>18,
         <1>19, <1>20, <1>21, <1>22, <1>23, <1>24,
         <1>25 DEF Meet, BetaCopyTables
  <2>8. \A g \in BetaCopyTables : Meet(BT!TypesFromDeploymentV1PodSpec, g)
      BY <1>8, <1>33, <1>11, <1>12, <1>13, <1>14, <1>15, <1>16, <1>17, <1>18,
         <1>19, <1>20, <1>21, <1>22, <1>23, <1>24,
         <1>25 DEF Meet, BetaCopyTables
  <2>9. \A g \in BetaCopyTables : Meet(BT!TypesFromIngressNetworkingV1, g)
      BY <1>9, <1>34, <1>11, <1>12, <1>13, <1>14, <1>15, <1>16, <1>17, <1>18,
         <1>19, <1>20, <1>21, <1>22, <1>23, <1>24,
         <1>25 DEF Meet, BetaCopyTables
  <2>10. \A g \in BetaCopyTables : Meet(BT!OutsideTypes, g)
      BY <1>10, <1>35, <1>11, <1>12, <1>13, <1>14, <1>15, <1>16, <1>17, <1>18,
         <1>19, <1>20, <1>21, <1>22, <1>23, <1>24,
         <1>25 DEF Meet, BetaCopyTables
  <2>11. \A g \in BetaCopyTables : Meet(BT!TypesFromTLSConfig, g)
      BY <1>36, <1>11, <1>12, <1>13, <1>14, <1>15, <1>16, <1>17, <1>18,
         <1>19, <1>20, <1>21, <1>22, <1>23, <1>24,
         <1>25 DEF Meet, BetaCopyTables, Assigned
  <2> QED BY <2>1, <2>2, <2>3, <2>4, <2>5, <2>6, <2>7, <2>8, <2>9, <2>10,
              <2>11 DEF BetaTypeTables
<1>38. \A f \in BetaTypeTables : \A t \in DOMAIN f :
        /\ t \notin {"data", Certificate}
        /\ \/ f = BT!TypesFromTLSConfig /\ t = Assigned
           \/ t # Assigned /\ \E g \in BetaCopyTables : t \in DOMAIN g
    BY <1>36, <1>1, <1>2, <1>3, <1>4, <1>5, <1>6, <1>7, <1>8, <1>9, <1>10, <1>11,
       <1>12, <1>13, <1>14, <1>15, <1>16, <1>17, <1>18, <1>19, <1>20, <1>21,
       <1>22, <1>23, <1>24, <1>25
       DEF BetaTypeTables, BetaCopyTables, Assigned, Certificate
<1>39. /\ BT!Types = Joined(BetaTypeTables)
       /\ BT!Copies = Joined(BetaCopyTables)
    BY DEF BT!Types, BT!Copies, BT!Joined, Joined, BetaTypeTables,
           BetaCopyTables
<1>40. CopiedInFull(BT!Types, BT!Copies)
  <2>1. \A f \in BetaTypeTables : \A t \in DOMAIN f :
          IF t = Assigned THEN OnlyCertificate(f[t])
          ELSE \E g \in BetaCopyTables : t \in DOMAIN g
      BY <1>38, <1>36
  <2> QED BY <1>37, <1>39, <2>1, JoinedInFull
<1> QED BY <1>38, <1>39, <1>40, NotJoined

(* The types that lead to the certificate of a route. *)
AboveCertificate ==
    {"GrafanaList", "Grafana", "GrafanaSpec", "RouteOpenshiftV1",
     "RouteOpenShiftV1Spec", Assigned}

(* No other type of v1beta1 has a field that leads to one of them. *)
LEMMA BetaApart == AllApart(BT!Types, AboveCertificate)
<1> DEFINE IsApart(types) == AllApart(types, AboveCertificate)
<1> USE NoneHasNoField DEF AllApart, Apart, AboveCertificate, Assigned,
                          BT!Struct, BT!Data, BT!None
<1>1. IsApart(BT!TypesFromGrafanaSpec)
    BY DEF BT!TypesFromGrafanaSpec
<1>2. IsApart(BT!TypesFromGrafanaAlertRuleGroupSpec)
    BY DEF BT!TypesFromGrafanaAlertRuleGroupSpec
<1>3. IsApart(BT!TypesFromGrafanaContactPointSpec)
    BY DEF BT!TypesFromGrafanaContactPointSpec
<1>4. IsApart(BT!TypesFromGrafanaDashboardSpec)
    BY DEF BT!TypesFromGrafanaDashboardSpec
<1>5. IsApart(BT!TypesFromGrafanaDatasourceInternal)
    BY DEF BT!TypesFromGrafanaDatasourceInternal
<1>6. IsApart(BT!TypesFromGrafanaFolderSpec)
    BY DEF BT!TypesFromGrafanaFolderSpec
<1>7. IsApart(BT!TypesFromObjectMeta)
    BY DEF BT!TypesFromObjectMeta
<1>8. IsApart(BT!TypesFromDeploymentV1PodSpec)
    BY DEF BT!TypesFromDeploymentV1PodSpec
<1>9. IsApart(BT!TypesFromIngressNetworkingV1)
    BY DEF BT!TypesFromIngressNetworkingV1
<1>10. IsApart(BT!TypesFromTLSConfig) /\ IsApart(BT!OutsideTypes)
    BY DEF BT!TypesFromTLSConfig, BT!OutsideTypes
<1>11. BT!Types = Joined(BetaTypeTables)
    BY DEF BT!Types, BT!Joined, Joined, BetaTypeTables
<1> HIDE DEF IsApart
<1>12. \A f \in BetaTypeTables : IsApart(f)
    BY <1>1, <1>2, <1>3, <1>4, <1>5, <1>6, <1>7, <1>8, <1>9, <1>10
       DEF BetaTypeTables
<1> QED BY <1>11, <1>12, JoinedApart DEF IsApart

-----------------------------------------------------------------------------
(* Whoever holds an object or a list that DeepCopy made reaches memory of the
   object it was made from in one place only: the external certificate of a
   v1beta1 Grafana's route, whose TLS configuration is copied by assignment
   (zz_generated.deepcopy.go:1680-1684).                                    *)
THEOREM CopiesShareOnlyCertificate ==
    ASSUME version \in Versions, resource \in DOMAIN Established(version),
           NEW root \in {Kind, ListOf[Kind]}, NEW place \in Reach(root),
           place.memory = "shared"
    PROVE  /\ version = "v1beta1" /\ resource = "grafanas"
           /\ place.certificate
<1>1. CASE version = "v1alpha1"
  <2>1. root \in RootsOf(AlphaResources)
      BY <1>1 DEF Kind, Established, RootsOf
  <2>2. AlphaReach[root] = Reached(AT!Types, AT!Copies, root, Depth)
      BY <2>1 DEF AlphaReach, AlphaWithin
  <2>3. \A p \in AlphaReach[root] : Safe(AT!Types, {}, p)
      BY <2>2, ReachedIsSafe, AlphaComplete, NoneExcluded DEF Declared
  <2>4. \A p \in AlphaReach[root] : p.memory # "shared"
      BY <2>3, AlphaComplete DEF Safe
  <2> QED BY <1>1, <2>4 DEF Reach
<1>2. CASE version # "v1alpha1"
  <2>1. root \in RootsOf(BetaResources)
      BY <1>2 DEF Kind, Established, RootsOf
  <2>2. BetaReach[root] = Reached(BT!Types, BT!Copies, root, Depth)
      BY <2>1 DEF BetaReach, BetaWithin
  <2>3. \A p \in BetaReach[root] : Safe(BT!Types, {}, p)
      BY <2>2, ReachedIsSafe, BetaComplete, NoneExcluded DEF Declared
  <2>4. place.certificate
    <3>1. PICK p \in BetaReach[root] :
            place.memory = p.memory /\ place.certificate = (p.type = Certificate)
        BY <1>2 DEF Reach, Certificate
    <3> QED BY <2>3, <3>1 DEF Safe
  <2>5. CASE resource # "grafanas"
    <3>1. root \notin AboveCertificate
        BY <1>2, <2>5 DEF Kind, Established, BetaResources, ListOf,
                          AboveCertificate, Assigned
    <3>2. Declared(BT!Types, AboveCertificate)
        BY BetaComplete DEF Declared, AboveCertificate, Assigned
    <3>3. \A p \in BetaReach[root] : Safe(BT!Types, AboveCertificate, p)
        BY <2>2, <3>1, <3>2, ReachedIsSafe, BetaComplete, BetaApart
    <3>4. \A p \in BetaReach[root] : p.memory # "shared"
        BY <3>3 DEF Safe, AboveCertificate
    <3> QED BY <1>2, <3>4 DEF Reach
  <2> QED BY <1>2, <2>4, <2>5 DEF Versions
<1> QED BY <1>1, <1>2
=============================================================================
