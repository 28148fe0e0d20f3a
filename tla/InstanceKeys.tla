---------------------------- MODULE InstanceKeys ----------------------------
(***************************************************************************)
(* The names under which Redis holds the entries of an instance:           *)
(* internal/instance/keys.go.                                              *)
(*                                                                         *)
(* A string is the sequence of its segments, the parts between two ":",    *)
(* and so never the empty sequence.  The identifier of an instance is a    *)
(* string like any other: the middleware takes it as a header or a query   *)
(* parameter brings it, and nothing looks for a ":" in it.                 *)
(***************************************************************************)
EXTENDS Naturals, Sequences

Prefix     == "instance"
CacheKind  == "cache"
NoInstance == <<"">>

BuildKey(i, components) == IF i = NoInstance THEN components
                                             ELSE <<Prefix>> \o (i \o components)

CacheKey(i, k) == BuildKey(i, <<CacheKind>> \o k)

\* The instance a name belongs to, and the rest of it: two segments and what
\* is behind them, whatever the identifier was.
ParseKey(p) == IF Len(p) >= 2 /\ p[1] = Prefix
                 THEN [inst |-> <<p[2]>>, rest |-> SubSeq(p, 3, Len(p))]
                 ELSE [inst |-> NoInstance, rest |-> p]

\* Does p start with "instance:<i>:"?
Below(i, p) == /\ Len(p) >= Len(i) + 2
               /\ SubSeq(p, 1, Len(i) + 1) = <<Prefix>> \o i

\* Without an instance: every name that does not start with "instance:".
IsInstanceKey(i, p) == IF i = NoInstance THEN ~(Len(p) >= 2 /\ p[1] = Prefix)
                                         ELSE Below(i, p)

\* Does the pattern of all names of instance i match p?  "instance:<i>:*", and
\* "*" without an instance; an "*", "?" or "[" in i matches more than itself,
\* which is left out.
BuildPattern(i, p) == i # NoInstance => Below(i, p)

StripInstance(i, p) == IF i = NoInstance \/ ~IsInstanceKey(i, p)
                         THEN p ELSE SubSeq(p, Len(i) + 2, Len(p))
=============================================================================
