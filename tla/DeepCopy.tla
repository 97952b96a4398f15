------------------------------- MODULE DeepCopy -------------------------------
(***************************************************************************)
(* What a copy made by a generated DeepCopyInto still shares with its      *)
(* original (zz_generated.deepcopy.go).  Types are known by name.  Of a    *)
(* struct only the fields count through which it holds references; of what *)
(* they point to, whether it holds references itself.                      *)
(***************************************************************************)

None == <<>>    \* no field

(* A struct type as declared: references to data that holds none (data), or to
   a struct that does (refs), and structs within it that do (parts).        *)
Struct(data, refs, parts) == [data |-> data, refs |-> refs, parts |-> parts]
Data(data) == Struct(data, None, None)

(* What DeepCopyInto does after *out = *in: the fields that get a new object,
   into which the old one is assigned (fresh), and those whose contents are
   copied by a DeepCopyInto of their own (deep).                            *)
Copied(fresh, deep) == [fresh |-> fresh, deep |-> deep]

(* One table of several that have no name in common. *)
Joined(tables) ==
    [name \in UNION {DOMAIN table : table \in tables} |->
        (CHOOSE table \in tables : name \in DOMAIN table)[name]]

(* Types of other modules that the API types hold by value and that hold
   references.  Those copied by assignment are access and volume modes, object
   references, readiness gates, durations and the like, which hold none
   (routev1.TLSConfig, in BetaTypes, apart).                                *)
OutsideTypes ==
    [t \in {"metav1.ObjectMeta", "metav1.ListMeta", "resource.Quantity"} |->
        CASE t = "metav1.ObjectMeta" -> Data({"Labels", "Annotations", "OwnerReferences"})
          [] t = "metav1.ListMeta" -> Data({"RemainingItemCount"})
          [] t = "resource.Quantity" -> Data({"d"})]
OutsideCopies ==
    [t \in DOMAIN OutsideTypes |-> Copied({}, OutsideTypes[t].data)]

(* Memory, seen by the holder of a copy: a struct that a DeepCopyInto filled
   (own), one that was only assigned, so that what it points to is the
   original's (shell), and the original's (shared).                         *)
Memory == {"own", "shell", "shared"}

BehindReference(memory, field, copied) ==
    CASE memory = "own" /\ field \in copied.deep -> "own"
      [] memory = "own" /\ field \in copied.fresh \ copied.deep -> "shell"
      [] OTHER -> "shared"

WithinStruct(memory, field, copied) ==
    CASE memory = "own" /\ field \in copied.deep -> "own"
      [] memory = "shared" -> "shared"
      [] OTHER -> "shell"

(* Where one field leads from a struct of type t, lying in memory. *)
Places(types, copies, t, memory) ==
    LET declared == types[t]
        copied == IF t \in DOMAIN copies THEN copies[t] ELSE Copied({}, {})
    IN  {[field |-> f, type |-> "data", memory |-> BehindReference(memory, f, copied)] :
            f \in declared.data}
        \cup
        {[field |-> f, type |-> declared.refs[f],
          memory |-> BehindReference(memory, f, copied)] : f \in DOMAIN declared.refs}
        \cup
        {[field |-> f, type |-> declared.parts[f],
          memory |-> WithinStruct(memory, f, copied)] : f \in DOMAIN declared.parts}
=============================================================================
