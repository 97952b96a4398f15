----------------------------- MODULE Conversion ------------------------------
(***************************************************************************)
(* The integreatly.org/v1alpha1 objects (the "sources") and the four       *)
(* convertGrafana* functions, reduced to what decides the fate of a copy:  *)
(* its name, its content, its annotations, and whether the conversion      *)
(* fails or panics.                                                        *)
(*                                                                         *)
(* A source's spec is a sequence of entries.  A GrafanaDataSource holds a  *)
(* list of datasources, each of which becomes an object of its own; the    *)
(* other kinds are sequences of length one.                                *)
(***************************************************************************)
EXTENDS CopyStore, Sequences

CONSTANTS
    Sources,         \* v1alpha1 objects that may exist
    KindOf,          \* kind of a source
    NamespaceOf,     \* namespace of a source
    Keys,            \* names of the datasources inside a GrafanaDataSource
    DatasourceName,  \* by namespace and key: a target, many to one
    Malformed,       \* contents whose JSON does not decode
    Untyped,         \* contents with no JSON or whose JSON has no "type"
    Reencoded,       \* contents of a datasource whose keys json.Marshal does
                     \* not write in the order the API server returns
    SpecsOf          \* specs a source may have

Kinds == {"GrafanaDashboard", "GrafanaDataSource", "GrafanaFolder",
          "GrafanaNotificationChannel"}

Entry == [key : Keys, content : Contents]

Source == [spec : Seq(Entry), annotations : SUBSET Annotations]

ASSUME ConversionAssumption ==
    /\ KindOf \in [Sources -> Kinds]
    /\ \A s \in Sources :
         /\ SpecsOf[s] \subseteq Seq(Entry)
         /\ KindOf[s] = "GrafanaDataSource" =>
              \A k \in Keys : DatasourceName[NamespaceOf[s], k] \in Targets
         /\ KindOf[s] # "GrafanaDataSource" =>
              /\ s \in Targets
              /\ \A spec \in SpecsOf[s] : Len(spec) = 1
    /\ Absent \notin Source

-----------------------------------------------------------------------------

(* A copy keeps the name of its source, except a datasource: it is named
   after the source's namespace and the datasource's own name, lower-cased,
   every character outside [A-Za-z0-9.-] replaced by "-".                  *)
CopyName(s, entry) ==
    IF KindOf[s] = "GrafanaDataSource"
      THEN DatasourceName[NamespaceOf[s], entry.key]
      ELSE s

(* json.Unmarshal of a notification channel's spec fails: the handler logs
   the error and drops the event.                                          *)
ConversionFails(s, source) ==
    /\ KindOf[s] = "GrafanaNotificationChannel"
    /\ source.spec[1].content \in Malformed

(* A notification channel without a type: *embeddedContactPoint.Type is a
   nil dereference.                                                        *)
ConversionPanics(s, source) ==
    /\ KindOf[s] = "GrafanaNotificationChannel"
    /\ source.spec[1].content \in Untyped

(* json.Marshal writes the keys of jsonData and secureJsonData in the order of
   the struct's fields, the API server returns them sorted.  Custom JSON comes
   from the server and is sorted already.                                   *)
IsReencoded(s, entry) ==
    KindOf[s] = "GrafanaDataSource" /\ entry.content \in Reencoded

(* Mutant: the list comes out in the opposite order. *)
ConvertBackwards(s, source, selector) ==
    [i \in 1 .. Len(source.spec) |->
        LET entry == source.spec[Len(source.spec) + 1 - i]
        IN  [target |-> CopyName(s, entry),
             spec |-> [content |-> entry.content, selector |-> selector],
             annotations |-> source.annotations,
             guarded |-> KindOf[s] = "GrafanaDashboard",
             reencoded |-> IsReencoded(s, entry)]]

(* What the conversion of a source returns, in the order of its list; the
   instanceSelector is the one the process was configured with.  The error of
   json.Marshal, after which the list of datasources has a nil entry that the
   handlers dereference, is left out: no field of those structs has a value
   that a decoded source can hold and Marshal refuses.                      *)
Convert(s, source, selector) ==
    [i \in 1 .. Len(source.spec) |->
        [target |-> CopyName(s, source.spec[i]),
         spec |-> [content |-> source.spec[i].content, selector |-> selector],
         annotations |-> source.annotations,
         guarded |-> KindOf[s] = "GrafanaDashboard",
         reencoded |-> IsReencoded(s, source.spec[i])]]
=============================================================================
