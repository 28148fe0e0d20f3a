----------------------------- MODULE ValueFlow ------------------------------
(***************************************************************************)
(* What a tree of caches promises about the values in it, whatever it      *)
(* loses, delays or reorders: a value comes from one Set of a client, on   *)
(* one key; it may vanish; once it is nowhere, neither stored nor on its   *)
(* way, it never comes back.                                               *)
(***************************************************************************)
CONSTANTS Keys, Values

VARIABLES used,    \* values clients have set
          alive    \* <<key, value>> pairs that are somewhere

Init == used = {} /\ alive = {}

\* A client sets v on k; other values may vanish in the same step, and so may
\* this one.
Set(k, v) == /\ v \notin used
             /\ used' = used \cup {v}
             /\ alive' \subseteq alive \cup {<<k, v>>}

Vanish == alive' \subseteq alive /\ UNCHANGED used

Next == Vanish \/ \E k \in Keys, v \in Values : Set(k, v)

Spec == Init /\ [][Next]_<<used, alive>>
=============================================================================
