------------------------------ MODULE MCStartup ------------------------------
(***************************************************************************)
(* Small instances of Startup.                                             *)
(***************************************************************************)
EXTENDS Startup

CONSTANTS
    n1, n2,     \* namespaces
    padded,     \* " n2": has a match of the regular expression
    empty,      \* "" between two commas: has none
    k1, k2      \* kinds

MCMatching == {n1, n2, padded} \cap Entries

Read(enable, kinds) == [state |-> "read", enable |-> enable, kinds |-> kinds]
Unread(state) == [state |-> state, enable |-> FALSE, kinds |-> {}]

(* Every way to read, and to fail to read, the configuration. *)
MCAllDeployments ==
    [env : {<<>>, <<n1>>, <<n1, n2>>, <<n2, n1>>, <<n1, n1>>, <<n1, padded>>,
            <<n1, empty>>},
     file : {Read(TRUE, Kinds)}]
    \cup
    [env : {<<n1>>},
     file : {Unread("missing"), Unread("broken"), Unread("null"),
             Read(FALSE, Kinds), Read(TRUE, {})}]

MCTurnDeployments == [env : {<<n1, n2>>}, file : {Read(TRUE, Kinds)}]

Limit(starts, faults, stops, grants) ==
    [starts |-> starts, faults |-> faults, stops |-> stops, grants |-> grants]
MCStartupLimits == Limit(3, 1, 1, 1)
MCOnceLimits == Limit(1, 0, 0, 0)
=============================================================================
