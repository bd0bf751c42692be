-------------------------------- MODULE Maps --------------------------------
(* A JavaScript Map, or the rows of a table by key: a function of its keys.   *)

EmptyMap == [k \in {} |-> 0]

Put(map, key, value) ==
    [k \in DOMAIN map \cup {key} |-> IF k = key THEN value ELSE map[k]]

MapOf(map, keys, rows) ==
    /\ DOMAIN map \subseteq keys
    /\ \A k \in DOMAIN map : map[k] \in rows
=============================================================================
