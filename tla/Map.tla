--------------------------------- MODULE Map ----------------------------------
(***************************************************************************)
(* What a hash table promises: a map from keys to values.                  *)
(***************************************************************************)
CONSTANTS Keys, Vals

VARIABLES map, did   \* did: the operation just done

vars == <<map, did>>

Init == map = [k \in {} |-> {}] /\ did = <<"keep">>

\* A new key, or a new value of one.
Put(k, v) ==
  /\ did' = <<"put", k, v>>
  /\ map' = [x \in DOMAIN map \cup {k} |-> IF x = k THEN v ELSE map[x]]

Remove(k) ==
  /\ did' = <<"remove", k>>
  /\ map' = [x \in DOMAIN map \ {k} |-> map[x]]

Clear == did' = <<"clear">> /\ map' = [k \in {} |-> {}]

\* Refused, or nothing of a client's.
Keep == did' = <<"keep">> /\ UNCHANGED map

Next == \/ \E k \in Keys, v \in Vals : Put(k, v)
        \/ \E k \in DOMAIN map : Remove(k)
        \/ Clear \/ Keep

Spec == Init /\ [][Next]_vars

=============================================================================
