-------------------------- MODULE MCInstanceStore --------------------------
(***************************************************************************)
(* InstanceStore on small instances.  One key reads like the cache name of *)
(* the other, and the identifier of one instance like that of the other    *)
(* with "cache" behind it: an entry of each has the same name.             *)
(***************************************************************************)
EXTENDS InstanceStore

MCSegments   == {"instance", "cache", "global", "k"}
MCInstances  == {<<"global">>, <<"global", "cache">>}
MCConfigured == <<"global", "cache">>
MCKeys       == {<<"k">>, <<"cache", "k">>}
MCTTLs       == {NoTTL, 0, 1}
=============================================================================
