---------------------------- MODULE MapTheorems -----------------------------
(* What the operators of module Maps preserve. *)
EXTENDS Maps, TLAPS

\* Setting a key to a row keeps a Map of rows one.
LEMMA PutMapOf ==
    ASSUME NEW map, NEW keys, NEW rows, MapOf(map, keys, rows),
           NEW key \in keys, NEW value \in rows
    PROVE  MapOf(Put(map, key, value), keys, rows)
    BY DEF Put, MapOf

\* So does replacing the row of a key that is there.
LEMMA ExceptMapOf ==
    ASSUME NEW map, NEW keys, NEW rows, MapOf(map, keys, rows),
           NEW key, NEW value \in rows
    PROVE  MapOf([map EXCEPT ![key] = value], keys, rows)
    BY DEF MapOf
=============================================================================
