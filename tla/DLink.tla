------------------------------- MODULE DLink -------------------------------
(***************************************************************************)
(* The doubly linked lists of Misc/CFILE/dlink.c, on nodes that the caller *)
(* owns and has reset.  DLinkInsert and DLinkRemove test whether a node is *)
(* in a list by its pointers and the start of the list they were given;    *)
(* what the test cannot see makes the lists inconsistent, and is recorded  *)
(* in misused.  A call is one step: the source says "Disable preemption"   *)
(* at the head of its functions, and leaves that to the reader.            *)
(***************************************************************************)
EXTENDS Naturals, Sequences, SequencesExt

CONSTANTS Nodes, Starts, NULL

VARIABLES
  start,        \* the start pointer of every list
  prev, next,   \* of every node
  order,        \* ghost: what each list should be
  owner,        \* ghost: the list a node should be in, or NULL
  misused       \* ghost: a call took a node that is in a list for one that is not, or
                \* the other way round

links == <<start, prev, next>>
vars == <<links, order, owner, misused>>

Init ==
  /\ start = [l \in Starts |-> NULL]
  /\ prev = [n \in Nodes |-> NULL] /\ next = [n \in Nodes |-> NULL]
  /\ order = [l \in Starts |-> <<>>] /\ owner = [n \in Nodes |-> NULL]
  /\ misused = FALSE

(* What both functions test. *)
InList(l, n) == prev[n] # NULL \/ next[n] # NULL \/ start[l] = n

(* The lists without the node n. *)
Without(n) == [l \in Starts |-> RemoveFirst(order[l], n)]

-----------------------------------------------------------------------------
DLinkInsert(l, n) ==
  /\ ~InList(l, n)
  /\ next' = [next EXCEPT ![n] = start[l]]
  /\ prev' = [k \in Nodes |-> IF k = start[l] THEN n ELSE prev[k]]
  /\ start' = [start EXCEPT ![l] = n]
  /\ order' = [Without(n) EXCEPT ![l] = <<n>> \o @]
  /\ owner' = [owner EXCEPT ![n] = l]
  /\ misused' = (misused \/ owner[n] # NULL)

(* Mutant: the node behind keeps its pointer to the removed one. *)
DLinkRemove_Keeps(l, n) ==
  /\ InList(l, n)
  /\ start' = IF prev[n] = NULL THEN [start EXCEPT ![l] = next[n]] ELSE start
  /\ next' = [k \in Nodes |-> IF k = n THEN NULL ELSE IF k = prev[n] THEN next[n] ELSE next[k]]
  /\ prev' = [prev EXCEPT ![n] = NULL]
  /\ order' = Without(n) /\ owner' = [owner EXCEPT ![n] = NULL]
  /\ misused' = (misused \/ (owner[n] # l /\ prev[n] = NULL))

(* A node inside another list is removed from that one; only the first node of
   another list is mistaken. *)
DLinkRemove(l, n) ==
  /\ InList(l, n)
  /\ start' = IF prev[n] = NULL THEN [start EXCEPT ![l] = next[n]] ELSE start
  /\ next' = [k \in Nodes |-> IF k = n THEN NULL ELSE IF k = prev[n] THEN next[n] ELSE next[k]]
  /\ prev' = [k \in Nodes |-> IF k = n THEN NULL ELSE IF k = next[n] THEN prev[n] ELSE prev[k]]
  /\ order' = Without(n) /\ owner' = [owner EXCEPT ![n] = NULL]
  /\ misused' = (misused \/ (owner[n] # l /\ prev[n] = NULL))

(* DLinkReset looks at nothing. *)
DLinkReset(n) ==
  /\ prev' = [prev EXCEPT ![n] = NULL] /\ next' = [next EXCEPT ![n] = NULL]
  /\ misused' = (misused \/ owner[n] # NULL)
  /\ UNCHANGED <<start, order, owner>>

Next ==
  \/ \E l \in Starts, n \in Nodes : DLinkInsert(l, n) \/ DLinkRemove(l, n)
  \/ \E n \in Nodes : DLinkReset(n)

Spec == Init /\ [][Next]_vars

-----------------------------------------------------------------------------
(* Type invariant. *)
TypeOK ==
  /\ start \in [Starts -> Nodes \cup {NULL}]
  /\ prev \in [Nodes -> Nodes \cup {NULL}] /\ next \in [Nodes -> Nodes \cup {NULL}]
  /\ order \in [Starts -> Seq(Nodes)] /\ owner \in [Nodes -> Starts \cup {NULL}]
  /\ misused \in BOOLEAN

(* The pointers of neighbours agree, neighbours are in the same list, and the
   nodes without a predecessor are the starts of their lists. *)
Linked ==
  /\ \A n \in Nodes :
       /\ next[n] # NULL => prev[next[n]] = n /\ owner[next[n]] = owner[n]
       /\ prev[n] # NULL => next[prev[n]] = n /\ owner[prev[n]] = owner[n]
       /\ owner[n] = NULL => prev[n] = NULL /\ next[n] = NULL
       /\ owner[n] # NULL /\ prev[n] = NULL => start[owner[n]] = n
  /\ \A l \in Starts : start[l] # NULL => owner[start[l]] = l /\ prev[start[l]] = NULL

(* Each list is what the calls made of it, forwards and backwards. *)
Ordered ==
  \A l \in Starts :
    LET s == order[l] IN
    /\ start[l] = IF s = <<>> THEN NULL ELSE s[1]
    /\ \A k \in DOMAIN s :
         /\ owner[s[k]] = l
         /\ next[s[k]] = IF k = Len(s) THEN NULL ELSE s[k + 1]
         /\ prev[s[k]] = IF k = 1 THEN NULL ELSE s[k - 1]

(* The calls may come in any order and ask for what is done already: unless the
   only node of one list is inserted into another, the first node of one list is
   removed from another, or a node is reset in a list, every list stays as it
   should be. *)
DLinkRight == TypeOK /\ (misused \/ (Linked /\ Ordered))
=============================================================================
