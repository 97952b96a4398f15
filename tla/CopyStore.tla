------------------------------ MODULE CopyStore ------------------------------
(***************************************************************************)
(* The grafana.integreatly.org/v1beta1 objects (the "copies") as the       *)
(* converter sees them through its v1beta1 clientset: what a copy is, what *)
(* the converter builds, what it merges into a copy that exists, and what  *)
(* the API server accepts.  Pure operators; the objects themselves are the *)
(* variable copies of module Converter.                                    *)
(*                                                                         *)
(* Data abstraction.  A spec is a content (every field but the selector)   *)
(* and the instanceSelector.  Labels are reduced to the ownership marker;  *)
(* annotations to the set of keys that are present, a nil map and an empty *)
(* one both being {} (the API server returns no annotations as a nil map). *)
(***************************************************************************)
EXTENDS Naturals

CONSTANTS
    Targets,      \* (kind, namespace, name) of the copies that may exist
    Contents,     \* contents of a spec
    Selectors,    \* values of spec.instanceSelector, NoSelector among them
    NoSelector,   \* spec.instanceSelector left out
    Annotations,  \* annotation keys
    Absent        \* "no such object"

CopySpec == [content : Contents, selector : Selectors]

Copy == [spec : CopySpec,
         annotations : SUBSET Annotations,
         managed : BOOLEAN,     \* carries the ownership marker
         rv : Nat]              \* metadata.resourceVersion

(* A copy without its version. *)
BareCopy == [spec : CopySpec, annotations : SUBSET Annotations, managed : BOOLEAN]

(* One converted object on its way to the API server. *)
Job == [target : Targets,
        spec : CopySpec,
        annotations : SUBSET Annotations,
        guarded : BOOLEAN,      \* the handler of this kind guards nil maps
        reencoded : BOOLEAN]    \* read back, its JSON has other bytes

ASSUME CopyStoreAssumption ==
    /\ NoSelector \in Selectors
    /\ Absent \notin Copy \cup BareCopy

-----------------------------------------------------------------------------

Bare(copy) ==
    IF copy = Absent THEN Absent
    ELSE [spec |-> copy.spec, annotations |-> copy.annotations,
          managed |-> copy.managed]

(* Mutant: whatever has the name is taken for the converter's own. *)
IsConverterNamed(copy) == TRUE

(* The ownership marker is on the object. *)
IsConverterManaged(copy) == copy.managed

(* The object the API server stores for a Create: convertedObjectMeta gives
   the copy the source's annotations and always the marker.                *)
Stored(job, revision) ==
    [spec |-> job.spec, annotations |-> job.annotations,
     managed |-> TRUE, rv |-> revision]

(* Mutant: only the selector is compared. *)
SameSelector(copy, job) == copy.spec.selector = job.spec.selector

(* The handler finds no difference between the copy and the conversion.  JSON
   in a datasource is compared byte by byte, so what the API server returns
   with its keys in another order differs though nothing does.              *)
SameSpec(copy, job) == copy.spec = job.spec /\ ~ job.reencoded

(* Mutant: no handler makes the map. *)
MergePanicsUnguarded(got, job) == got.annotations = {} /\ job.annotations # {}

(* maps.Copy into the annotations of the object that was read: into a nil
   map it panics as soon as there is something to copy.  Only the dashboard
   handler makes the map first.  (The label map is never nil here: the
   marker has just been found in it.)                                       *)
MergePanics(got, job) ==
    /\ ~ job.guarded
    /\ got.annotations = {}
    /\ job.annotations # {}

(* The object sent in an Update: the object that was read, its spec replaced
   and annotations and labels added.                                        *)
Merged(got, job) ==
    [got EXCEPT !.spec = job.spec,
                !.annotations = @ \cup job.annotations,
                !.managed = TRUE]

(* The CRDs make spec.instanceSelector immutable (rule self == oldSelf,
   evaluated when the field is there before and after).                    *)
SelectorAccepted(old, new) ==
    \/ old = new
    \/ NoSelector \in {old, new}
=============================================================================
