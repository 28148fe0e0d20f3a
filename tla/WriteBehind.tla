---------------------------- MODULE WriteBehind ----------------------------
(***************************************************************************)
(* What the write-behind path of a primary promises about the writes that  *)
(* the API hands to it, without a queue, workers or retries.               *)
(*                                                                         *)
(* A write is refused on arrival or accepted.  An accepted write is owned  *)
(* by the process until it is settled, exactly once: confirmed by          *)
(* PostgreSQL, or lost.  A row may take on the value of any write that was *)
(* accepted, any number of times and at any later moment (a statement      *)
(* whose answer was not awaited may still be executed), but never that of  *)
(* a refused write; and a write is confirmed only after it has been in the *)
(* row.                                                                    *)
(***************************************************************************)
EXTENDS Naturals

CONSTANTS Keys,       \* cache keys
          NoKey,      \* the key of a write that was never issued
          MaxWrites   \* number of writes a behaviour may issue

WriteIds == 1 .. MaxWrites
NoWrite  == 0         \* "there is no such row"

VARIABLES keyOf,      \* key each write is about
          fate,       \* what has become of each write
          landed,     \* writes that have been in a row
          rows        \* the write whose value the row of each key holds

vars == <<keyOf, fate, landed, rows>>

Init == /\ keyOf  = [i \in WriteIds |-> NoKey]
        /\ fate   = [i \in WriteIds |-> "none"]
        /\ landed = {}
        /\ rows   = [k \in Keys |-> NoWrite]

\* A write arrives: the process takes responsibility for it, or does not.
Arrive(i, k) == /\ fate[i] = "none"
                /\ keyOf' = [keyOf EXCEPT ![i] = k]
                /\ fate'  \in {[fate EXCEPT ![i] = f] : f \in {"pending", "refused"}}
                /\ UNCHANGED <<landed, rows>>

\* A statement that carries the write is executed.
Land(i) == /\ fate[i] \in {"pending", "confirmed", "lost"}
           /\ landed' = landed \cup {i}
           /\ rows'   = [rows EXCEPT ![keyOf[i]] = i]
           /\ UNCHANGED <<keyOf, fate>>

Confirm(i) == /\ fate[i] = "pending"
              /\ i \in landed
              /\ fate' = [fate EXCEPT ![i] = "confirmed"]
              /\ UNCHANGED <<keyOf, landed, rows>>

\* One write is given up, or the process ends with all those it owns.
Lose(S) == /\ \A i \in S : fate[i] = "pending"
           /\ fate' = [i \in WriteIds |-> IF i \in S THEN "lost" ELSE fate[i]]
           /\ UNCHANGED <<keyOf, landed, rows>>

Next == \/ \E i \in WriteIds, k \in Keys : Arrive(i, k)
        \/ \E i \in WriteIds : Land(i) \/ Confirm(i)
        \/ \E S \in SUBSET WriteIds : Lose(S)

Spec == Init /\ [][Next]_vars
=============================================================================
