--------------------------- MODULE SupernodeList ---------------------------
(***************************************************************************)
(* The list of supernodes an edge keeps: a uthash table, whose entries are *)
(* also threaded on a doubly linked list in the order in which the edge    *)
(* tries them.  The links are modelled one by one, because the edge sorts  *)
(* a part of the list through a pointer into its middle and the macros     *)
(* trust prev and next.                                                    *)
(*                                                                         *)
(* A list is a record [head, tail, next, prev]; entries that left the      *)
(* list keep their last links, as the memory does.                         *)
(***************************************************************************)
EXTENDS Naturals, Sequences, FiniteSets

CONSTANTS Sns,  \* every supernode there is
          Nil   \* the null pointer

ASSUME SnsAssumption == IsFiniteSet(Sns) /\ Nil \notin Sns

Links == [Sns -> Sns \cup {Nil}]
Lists == [head : Sns \cup {Nil}, tail : Sns \cup {Nil}, next : Links, prev : Links]

EmptyList == [head |-> Nil, tail |-> Nil,
              next |-> [s \in Sns |-> Nil], prev |-> [s \in Sns |-> Nil]]

\* The entries that HASH_ITER visits from s on, in order.
Chain(l, s) ==
    LET walk[n \in Nat] ==
            IF n = 0 THEN IF s = Nil THEN <<>> ELSE <<s>>
            ELSE LET w == walk[n - 1]
                 IN  IF w = <<>> \/ l.next[w[Len(w)]] = Nil THEN w
                     ELSE Append(w, l.next[w[Len(w)]])
    IN  walk[Cardinality(Sns) - 1]

Listed(l) == LET w == Chain(l, l.head) IN {w[i] : i \in DOMAIN w}

\* Mutant: only an entry with a predecessor is unlinked.
HASH_DEL_keepsHead(l, s) ==
    IF l.prev[s] = Nil THEN l
    ELSE [l EXCEPT !.next = [@ EXCEPT ![l.prev[s]] = l.next[s]],
                   !.tail = IF @ = s THEN l.prev[s] ELSE @,
                   !.prev = IF l.next[s] = Nil THEN @
                            ELSE [@ EXCEPT ![l.next[s]] = l.prev[s]]]

\* An entry without neighbours is taken for the last one: the table is freed
\* and the list becomes empty.  One without a predecessor is taken for the head.
HASH_DEL(l, s) ==
    IF l.prev[s] = Nil /\ l.next[s] = Nil
    THEN [l EXCEPT !.head = Nil]
    ELSE [l EXCEPT !.tail = IF @ = s THEN l.prev[s] ELSE @,
                   !.head = IF l.prev[s] = Nil THEN l.next[s] ELSE @,
                   !.next = IF l.prev[s] = Nil THEN @
                            ELSE [@ EXCEPT ![l.prev[s]] = l.next[s]],
                   !.prev = IF l.next[s] = Nil THEN @
                            ELSE [@ EXCEPT ![l.next[s]] = l.prev[s]]]

\* HASH_ADD_PEER makes a new table for an empty list, else appends at the tail.
HASH_ADD_PEER(l, s) ==
    IF l.head = Nil
    THEN [head |-> s, tail |-> s,
          next |-> [l.next EXCEPT ![s] = Nil], prev |-> [l.prev EXCEPT ![s] = Nil]]
    ELSE [l EXCEPT !.tail = s,
                   !.next = [@ EXCEPT ![s] = Nil, ![l.tail] = s],
                   !.prev = [@ EXCEPT ![s] = l.tail]]

\* Stable: entry i comes before entry j.
Before(w, criterion, i, j) ==
    \/ criterion[w[i]] < criterion[w[j]]
    \/ criterion[w[i]] = criterion[w[j]] /\ i < j

StableSort(w, criterion) ==
    LET rank(i) == Cardinality({j \in DOMAIN w : Before(w, criterion, j, i)}) + 1
    IN  [p \in DOMAIN w |-> w[CHOOSE i \in DOMAIN w : rank(i) = p]]

\* HASH_SRT on the entries from the given one on: they are threaded anew, the
\* first of them with no predecessor.  The pair of the list and its new first.
Rethread(l, from, criterion) ==
    LET w == StableSort(Chain(l, from), criterion)
        pos(s) == CHOOSE p \in DOMAIN w : w[p] = s
        sorted == {w[p] : p \in DOMAIN w}
    IN  [first |-> w[1],
         list  |-> [l EXCEPT
             !.tail = w[Len(w)],
             !.next = [s \in Sns |-> IF s \notin sorted THEN @[s]
                                     ELSE IF pos(s) = Len(w) THEN Nil
                                     ELSE w[pos(s) + 1]],
             !.prev = [s \in Sns |-> IF s \notin sorted THEN @[s]
                                     ELSE IF pos(s) = 1 THEN Nil
                                     ELSE w[pos(s) - 1]]]]

\* sn_selection_sort(&supernodes)
SelectionSort(l, criterion) ==
    LET r == Rethread(l, l.head, criterion) IN [r.list EXCEPT !.head = r.first]

\* sn_selection_sort(&s->hh.next): the part of the list after s.
SortRemaining(l, s, criterion) ==
    LET r == Rethread(l, l.next[s], criterion)
    IN  [r.list EXCEPT !.next = [@ EXCEPT ![s] = r.first]]

\* A list of the given supernodes, in their order.
ListOf(w) ==
    LET add[n \in 0 .. Len(w)] ==
            IF n = 0 THEN EmptyList ELSE HASH_ADD_PEER(add[n - 1], w[n])
    IN  add[Len(w)]
=============================================================================
