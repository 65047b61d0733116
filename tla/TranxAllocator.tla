--------------------------- MODULE TranxAllocator ---------------------------
(***************************************************************************)
(* semisync_master.h: Tranx_node_allocator, which hands out the nodes of   *)
(* the transactions that wait for a replica, in order, from a chain of     *)
(* blocks, and takes back all those before a given one.  A node is its     *)
(* block and its index.                                                    *)
(***************************************************************************)
EXTENDS Integers, Sequences, FiniteSets, Functions

CONSTANTS
  Blocks,            \* the addresses malloc can return
  NULL,
  BLOCK_TRANX_NODES,
  MaxReserved        \* bound on reserved_nodes

ASSUME TranxAssumption ==
  /\ IsFiniteSet(Blocks) /\ NULL \notin Blocks
  /\ BLOCK_TRANX_NODES \in Nat \ {0} /\ MaxReserved \in Nat

VARIABLES
  reserved_nodes, next, first_block, last_block, current_block, last_node, block_num,
  heap,              \* the blocks that are allocated
  live               \* history: the nodes handed out and not taken back, in order

table == <<next, first_block, last_block, current_block, last_node, block_num, heap>>
vars == <<reserved_nodes, table, live>>

reserved_blocksNone == reserved_nodes \div BLOCK_TRANX_NODES

reserved_blocks ==
  reserved_nodes \div BLOCK_TRANX_NODES
    + (IF reserved_nodes % BLOCK_TRANX_NODES > 1 THEN 2 ELSE 1)

Init ==
  /\ reserved_nodes \in 0..MaxReserved
  /\ first_block = NULL /\ last_block = NULL /\ current_block = NULL
  /\ last_node = -1 /\ block_num = 0
  /\ next = [b \in Blocks |-> NULL] /\ heap = {} /\ live = <<>>

\* Where the pointers nx lead from b, step by step; more steps than blocks.
Steps(nx, b) ==
  LET at[i \in 1..Cardinality(Blocks) + 1] ==
        IF i = 1 THEN b ELSE IF at[i - 1] = NULL THEN NULL ELSE nx[at[i - 1]]
  IN  at

\* The blocks from b on, along the pointers nx.
Chain(nx, b) ==
  [i \in 1..Cardinality({j \in DOMAIN Steps(nx, b) : Steps(nx, b)[j] # NULL}) |->
     Steps(nx, b)[i]]

full == last_node = BLOCK_TRANX_NODES - 1

Give(b, i) ==
  /\ current_block' = b /\ last_node' = i
  /\ live' = Append(live, <<b, i>>)

\* allocate_node first moves on from a full block: where it stands then.
moved == IF full THEN next[current_block] ELSE current_block
upto == IF full THEN -1 ELSE last_node

\* It takes the next node of the block it stands on ...
AllocateHere ==
  /\ moved # NULL /\ Give(moved, upto + 1)
  /\ UNCHANGED <<reserved_nodes, next, first_block, last_block, block_num, heap>>

\* ... or of the block that allocate_block adds when it stands on none ...
allocate_block(b) ==
  /\ moved = NULL /\ b \notin heap
  /\ heap' = heap \cup {b} /\ block_num' = block_num + 1
  /\ first_block' = IF first_block = NULL THEN b ELSE first_block
  /\ next' = [next EXCEPT ![b] = NULL,
                          ![IF first_block = NULL THEN b ELSE last_block] = IF first_block = NULL THEN NULL ELSE b]
  /\ last_block' = b
  /\ Give(b, upto + 1)
  /\ UNCHANGED reserved_nodes

\* ... or none: malloc has failed after the move, which is taken back.
MallocFailsMoved ==
  /\ moved = NULL
  /\ current_block' = current_block /\ last_node' = upto
  /\ UNCHANGED <<reserved_nodes, next, first_block, last_block, block_num, heap, live>>

MallocFails ==
  /\ moved = NULL
  /\ current_block' = current_block
  /\ last_node' = IF current_block # NULL THEN BLOCK_TRANX_NODES - 1 ELSE upto
  /\ UNCHANGED <<reserved_nodes, next, first_block, last_block, block_num, heap, live>>

\* How many blocks free_blocks gives back, of those that stand behind the one
\* free block after cur.
Surplus(nx, cur) ==
  LET behind == Len(Chain(nx, nx[nx[cur]]))
      over == IF block_num > reserved_blocks THEN block_num - reserved_blocks ELSE 0
  IN  IF over < behind THEN over ELSE behind

\* free_blocks, for the pointers nx and last that its caller has just set.
free_blocksKeepsLast(nx, cur, last) ==
  IF cur = NULL \/ nx[cur] = NULL
  THEN next' = nx /\ last_block' = last /\ UNCHANGED <<block_num, heap>>
  ELSE LET behind == Chain(nx, nx[nx[cur]])
           n == Surplus(nx, cur)
       IN  /\ heap' = heap \ {behind[i] : i \in 1..n} /\ block_num' = block_num - n
           /\ next' = [nx EXCEPT ![nx[cur]] = IF n < Len(behind) THEN behind[n + 1] ELSE NULL]
           /\ last_block' = last

free_blocks(nx, cur, last) ==
  IF cur = NULL \/ nx[cur] = NULL
  THEN next' = nx /\ last_block' = last /\ UNCHANGED <<block_num, heap>>
  ELSE LET behind == Chain(nx, nx[nx[cur]])
           n == Surplus(nx, cur)
           block == IF n < Len(behind) THEN behind[n + 1] ELSE NULL
       IN  /\ heap' = heap \ {behind[i] : i \in 1..n} /\ block_num' = block_num - n
           /\ next' = [nx EXCEPT ![nx[cur]] = block]
           /\ last_block' = IF block = NULL THEN nx[cur] ELSE last

free_all_nodes ==
  /\ current_block' = first_block /\ last_node' = -1 /\ live' = <<>>
  /\ free_blocks(next, first_block, last_block)
  /\ UNCHANGED <<reserved_nodes, first_block>>

\* The blocks before the one of the node go to the rear of the chain.
Rotated(prev_block) == [next EXCEPT ![last_block] = first_block, ![prev_block] = NULL]

\* free_nodes_before for a node in use, the k-th.
free_nodes_before(k) ==
  LET block == live[k][1]
      prev_block == CHOOSE b \in heap : next[b] = block
  IN  /\ live' = SubSeq(live, k, Len(live))
      /\ first_block' = block
      /\ IF block = first_block THEN UNCHANGED <<next, last_block, block_num, heap>>
         ELSE free_blocks(Rotated(prev_block), current_block, prev_block)
      /\ UNCHANGED <<reserved_nodes, current_block, last_node>>

Next ==
  \/ AllocateHere
  \/ \E b \in Blocks : allocate_block(b)
  \/ MallocFails
  \/ free_all_nodes
  \/ \E k \in 1..Len(live) : free_nodes_before(k)

Spec == Init /\ [][Next]_vars

-----------------------------------------------------------------------------
(* Properties.                                                             *)

\* Every node in the chain up to the last one handed out, in order.
HandedOut ==
  LET chain == Chain(next, first_block)
      use == CHOOSE i \in DOMAIN chain : chain[i] = current_block
      count == IF current_block \in Range(chain)
               THEN (use - 1) * BLOCK_TRANX_NODES + last_node + 1 ELSE 0
  IN  [i \in 1..count |->
         <<chain[(i - 1) \div BLOCK_TRANX_NODES + 1], (i - 1) % BLOCK_TRANX_NODES>>]

\* The comment of current_block: the blocks before it are all in use, those
\* after it all free.  The nodes in use are the last ones handed out along the
\* chain, in the order of allocate_node, none of them twice, and less than one
\* block of nodes in front of them is wasted.
InSequence ==
  /\ IsInjective(HandedOut)
  /\ \E wasted \in 0..BLOCK_TRANX_NODES - 1 :
       /\ Len(HandedOut) = wasted + Len(live)
       /\ \A i \in DOMAIN live : live[i] = HandedOut[wasted + i]

\* The chain, through every rotation and release, has each allocated block
\* once, ends at last_block, and block_num is its length: no block leaks and no
\* block that was given back is reached.
TableWhole ==
  LET chain == Chain(next, first_block)
  IN  /\ Range(chain) = heap /\ Len(chain) = Cardinality(heap) /\ block_num = Len(chain)
      /\ last_block = IF chain = <<>> THEN NULL ELSE chain[Len(chain)]
      /\ last_block # NULL => next[last_block] = NULL

\* As many blocks are kept as needed, and no more (the comments of the
\* constructor and of free_blocks): those that stay when others are given back
\* have room for reserved_nodes nodes, and when there are more blocks than
\* reserved, at most one free block stands behind the current one.
ReserveKept ==
  /\ [][block_num' < block_num => block_num' * BLOCK_TRANX_NODES >= reserved_nodes]_vars
  /\ [](block_num > reserved_blocks /\ current_block # NULL =>
          Len(Chain(next, current_block)) <= 2)

=============================================================================
