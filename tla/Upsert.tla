------------------------------- MODULE Upsert --------------------------------
(***************************************************************************)
(* What the converter promises about one write, without requests, versions *)
(* or processes: a copy changes in one atomic, conditional step, to the    *)
(* conversion of a state that its source has really been in, or somebody   *)
(* else changes it.  Converter implements this specification (formula      *)
(* ImplementsUpsert there): its Create, Get, Create, Update sequences      *)
(* behave as if nothing happened between the read and the write.           *)
(***************************************************************************)
EXTENDS Conversion

VARIABLES
    sources,    \* v1alpha1 objects in the cluster
    contents,   \* v1beta1 objects in the cluster, without resourceVersions
    due,        \* jobs the converter may carry out: conversions it knows of
    others      \* how often anybody but the converter may still write

vars == <<sources, contents, due, others>>

(* What a source may be. *)
StatesOf(s) == [spec : SpecsOf[s], annotations : SUBSET Annotations] \cup {Absent}

JobsOf(s, source, selector) ==
    LET jobs == Convert(s, source, selector) IN {jobs[i] : i \in DOMAIN jobs}

Init ==
    /\ \A s \in Sources : sources[s] \in StatesOf(s)
    /\ contents \in [Targets -> BareCopy \cup {Absent}]
    /\ due = {}
    /\ others \in Nat

(* The only source of new jobs is the present state of a source. *)
Learn(s, selector) ==
    /\ sources[s] # Absent
    /\ UNCHANGED <<others, sources, contents>>
    /\ due' \subseteq due \cup JobsOf(s, sources[s], selector)

Forget ==
    /\ UNCHANGED <<others, sources, contents>>
    /\ due' \subseteq due

(* One job becomes an object of its own, or is merged into a marked one:
   whatever annotations are on the copy at that moment stay.                *)
MayApply(found, job) ==
    \/ found = Absent
    \/ /\ found.managed
       /\ ~ SameSpec(found, job)
       /\ SelectorAccepted(found.spec.selector, job.spec.selector)

Applied(found, job) ==
    [spec |-> job.spec,
     annotations |-> job.annotations \cup
                       (IF found = Absent THEN {} ELSE found.annotations),
     managed |-> TRUE]

Apply(job) ==
    /\ job \in due
    /\ UNCHANGED <<others, sources>>
    /\ MayApply(contents[job.target], job)
    /\ contents' = [contents EXCEPT ![job.target] = Applied(@, job)]
    /\ due' \subseteq due

SomebodyElse ==
    /\ others > 0
    /\ others' = others - 1
    /\ \/ /\ \E s \in Sources : \E new \in StatesOf(s) :
                sources' = [sources EXCEPT ![s] = new]
          /\ UNCHANGED contents
       \/ /\ \E t \in Targets, new \in BareCopy \cup {Absent} :
                contents' = [contents EXCEPT ![t] = new]
          /\ UNCHANGED sources
    /\ UNCHANGED due

Next ==
    \/ SomebodyElse
    \/ Forget
    \/ \E s \in Sources, selector \in Selectors : Learn(s, selector)
    \/ \E job \in due : Apply(job)

Spec == Init /\ [][Next]_vars
=============================================================================
