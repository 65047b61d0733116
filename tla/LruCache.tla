------------------------------ MODULE LruCache ------------------------------
(***************************************************************************)
(* What hash_filo.h promises: a cache of at most size entries that drops   *)
(* the one whose use is longest ago.  order lists them, last used first.   *)
(***************************************************************************)
EXTENDS Naturals, Sequences

CONSTANTS Entries, Keys, KeyOf(_), Sizes

VARIABLES order, size

Init == order = <<>> /\ size \in Sizes

\* Looking a key up makes an entry that has it the last used one.
Use(k) ==
  \E i \in DOMAIN order :
    /\ KeyOf(order[i]) = k
    /\ order' = <<order[i]>> \o (SubSeq(order, 1, i - 1) \o SubSeq(order, i + 1, Len(order)))
    /\ UNCHANGED size

\* Room for a new entry is made before it is known whether it can be stored.
Room == IF Len(order) = size THEN SubSeq(order, 1, Len(order) - 1) ELSE order

Enter(e) ==
  /\ size > 0 /\ (\A i \in DOMAIN order : order[i] # e)
  /\ order' \in {<<e>> \o Room, Room}
  /\ UNCHANGED size

Reset ==
  /\ order' = <<>> /\ size' \in Sizes

Next == (\E k \in Keys : Use(k)) \/ (\E e \in Entries : Enter(e)) \/ Reset

Spec == Init /\ [][Next]_<<order, size>>

=============================================================================
