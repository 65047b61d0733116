------------------------------ MODULE HashFilo ------------------------------
(***************************************************************************)
(* hash_filo.h: a hash table (external, the set cache) whose elements are  *)
(* also in a chain from the last used one to the one used longest ago.     *)
(* The mutex is held by every caller, so an operation is one step.         *)
(***************************************************************************)
EXTENDS Naturals, Sequences, FiniteSets, Functions

CONSTANTS Entries, Keys, KeyOf(_), Sizes, NULL

ASSUME HashFiloAssumption ==
  IsFiniteSet(Entries) /\ NULL \notin Entries /\ Sizes \subseteq Nat

VARIABLES
  ready,       \* the field init: clear was called once
  m_size,
  cache,       \* the entries in the hash table
  first_link, last_link,
  next_used, prev_used   \* fields of the entries; anything before add

chain == <<first_link, last_link, next_used, prev_used>>
vars == <<ready, m_size, cache, chain>>

Links == Entries \cup {NULL}

Init ==
  /\ ready = FALSE /\ m_size \in Sizes /\ cache = {}
  /\ first_link = NULL /\ last_link = NULL
  /\ next_used \in [Entries -> Links] /\ prev_used \in [Entries -> Links]

clear ==
  /\ ready' = TRUE
  /\ first_link' = NULL /\ last_link' = NULL /\ cache' = {}
  /\ UNCHANGED <<m_size, next_used, prev_used>>

resize(new_size) ==
  /\ ready
  /\ m_size' = new_size
  /\ first_link' = NULL /\ last_link' = NULL /\ cache' = {}
  /\ UNCHANGED <<ready, next_used, prev_used>>

\* The entry leaves its place, the last one or one between two, for the first.
RelinkKeepsLast(entry) ==
  LET n == next_used[entry]
      p == prev_used[entry]
      next1 == [next_used EXCEPT ![p] = n]
      prev1 == IF entry = last_link THEN prev_used ELSE [prev_used EXCEPT ![n] = p]
  IN  /\ first_link' = entry /\ last_link' = last_link
      /\ next_used' = [next1 EXCEPT ![entry] = first_link]
      /\ prev_used' = [prev1 EXCEPT ![entry] = NULL, ![first_link] = entry]

Relink(entry) ==
  LET n == next_used[entry]
      p == prev_used[entry]
      next1 == [next_used EXCEPT ![p] = IF entry = last_link THEN NULL ELSE n]
      prev1 == IF entry = last_link THEN prev_used ELSE [prev_used EXCEPT ![n] = p]
  IN  /\ first_link' = entry
      /\ last_link' = IF entry = last_link THEN p ELSE last_link
      /\ next_used' = [next1 EXCEPT ![entry] = first_link]
      /\ prev_used' = [prev1 EXCEPT ![entry] = NULL, ![first_link] = entry]

\* my_hash_search returns an entry with the key, if there is one.
search(k) ==
  /\ ready
  /\ \E entry \in cache :
       /\ KeyOf(entry) = k /\ entry # first_link
       /\ Relink(entry)
  /\ UNCHANGED <<ready, m_size, cache>>

full == Cardinality(cache) = m_size

\* The chain and the hash table once add has made room.
last1 == IF full THEN prev_used[last_link] ELSE last_link
first1 == IF full /\ last1 = NULL THEN NULL ELSE first_link
next1 == IF full /\ last1 # NULL THEN [next_used EXCEPT ![last1] = NULL] ELSE next_used
cache1 == IF full THEN cache \ {last_link} ELSE cache

PutFirstOneWay(entry) ==
  /\ cache' = cache1 \cup {entry}
  /\ first_link' = entry
  /\ last_link' = IF first1 = NULL THEN entry ELSE last1
  /\ next_used' = [next1 EXCEPT ![entry] = first1]
  /\ prev_used' = [prev_used EXCEPT ![entry] = NULL]

PutFirst(entry) ==
  /\ cache' = cache1 \cup {entry}
  /\ first_link' = entry
  /\ last_link' = IF first1 = NULL THEN entry ELSE last1
  /\ next_used' = [next1 EXCEPT ![entry] = first1]
  /\ prev_used' = [e \in Entries |-> IF e = entry THEN NULL
                                     ELSE IF e = first1 THEN entry ELSE prev_used[e]]

\* my_hash_insert may fail; the entry that made room is gone then.
add(entry) ==
  /\ ready /\ entry \notin cache /\ m_size > 0
  /\ \/ PutFirst(entry)
     \/ /\ cache' = cache1 /\ first_link' = first1 /\ last_link' = last1
        /\ next_used' = next1 /\ UNCHANGED prev_used
  /\ UNCHANGED <<ready, m_size>>

Next ==
  \/ clear
  \/ \E n \in Sizes : resize(n)
  \/ \E k \in Keys : search(k)
  \/ \E e \in Entries : add(e)

Spec == Init /\ [][Next]_vars

-----------------------------------------------------------------------------
(* Properties.                                                             *)

\* Where following a field leads from e, step by step; more steps than entries.
Steps(e, field) ==
  LET at[i \in 1..Cardinality(Entries) + 1] ==
        IF i = 1 THEN e ELSE IF at[i - 1] = NULL THEN NULL ELSE field[at[i - 1]]
  IN  at

\* The entries met before NULL is.
Follow(e, field) ==
  [i \in 1..Cardinality({j \in DOMAIN Steps(e, field) : Steps(e, field)[j] # NULL}) |->
     Steps(e, field)[i]]

Reversed(s) == [i \in 1..Len(s) |-> s[Len(s) - i + 1]]

\* hash_filo is the cache it is used as: the chain from first_link has the
\* entries in the order of their last use, add drops the one at its end, search
\* brings one to its front, and nothing else moves.
Lru == INSTANCE LruCache WITH order <- Follow(first_link, next_used), size <- m_size
LruSpec == Lru!Spec

\* The chain has the entries of the hash table, each once, and following
\* prev_used from last_link meets them in the opposite order: what add drops
\* from the table is what it takes off the chain.
ChainsAgree ==
  LET order == Follow(first_link, next_used)
  IN  /\ Range(order) = cache /\ Len(order) = Cardinality(cache)
      /\ Follow(last_link, prev_used) = Reversed(order)

=============================================================================
