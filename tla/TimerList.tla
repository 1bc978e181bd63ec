------------------------------- MODULE TimerList -------------------------------
(* sort_timer_lst of 4/lst_timer.h: a doubly linked list of timers, as the     *)
(* pointers it consists of.  A list is a record of head, tail and the prev and *)
(* next of every node; each operation is an operator from list to list, next   *)
(* to the set of nodes it dereferences: NULL or a deleted node in that set is  *)
(* undefined behaviour, and so is a walk round a cycle, which counts as NULL.  *)
EXTENDS Integers, FiniteSets, FiniteSetsExt

CONSTANTS Timers,   \* the nodes that may be allocated
          NULL

ASSUME TimersAssumption == IsFiniteSet(Timers) /\ NULL \notin Timers

EmptyList == [head |-> NULL, tail |-> NULL, next |-> [t \in Timers |-> NULL],
              prev |-> [t \in Timers |-> NULL]]

\* The nodes from n on, with NULL after the last; a longer chain is a cycle.
Chain(l, n) ==
  LET node[k \in 0 .. Cardinality(Timers)] ==
        IF k = 0 THEN n ELSE IF node[k - 1] = NULL THEN NULL ELSE l.next[node[k - 1]]
  IN  node
NodesFrom(l, n) == {Chain(l, n)[k] : k \in 0 .. Cardinality(Timers)} \ {NULL}

\* The private add_timer(timer, lst_head): from the second node on, the first
\* that expires later, or the place behind the last.  tail is left alone.
Steps(l, t, n, expire) ==
  {k \in 1 .. Cardinality(Timers) : LET c == Chain(l, n)[k] IN c = NULL \/ expire[t] < expire[c]}
InsertAfter(l, t, n, expire) ==
  LET k == Min(Steps(l, t, n, expire))
      p == Chain(l, n)[k - 1]
      c == Chain(l, n)[k]
      linked == [l.next EXCEPT ![p] = t]
  IN  IF Steps(l, t, n, expire) = {} THEN l   \* the walk never ends
      ELSE [l EXCEPT !.next = [linked EXCEPT ![t] = c], !.prev = [l.prev EXCEPT ![t] = p]]
Walked(l, t, n, expire) ==
  LET steps == Steps(l, t, n, expire)
  IN  IF steps = {} THEN {NULL} ELSE {Chain(l, n)[k] : k \in 0 .. Min(steps) - 1}
                                     \cup ({Chain(l, n)[Min(steps)]} \ {NULL})

AddFirst(l, t) == [l EXCEPT !.next[t] = l.head, !.prev[l.head] = t, !.head = t]

\* add_timer(timer)
AddAlwaysFirst(l, t, expire) ==
  IF l.head = NULL THEN [l EXCEPT !.head = t, !.tail = t] ELSE AddFirst(l, t)
AddTimer(l, t, expire) ==
  IF l.head = NULL THEN [l EXCEPT !.head = t, !.tail = t]
  ELSE IF expire[t] < expire[l.head] THEN AddFirst(l, t)
  ELSE InsertAfter(l, t, l.head, expire)
AddTouches(l, t, expire) ==
  {t} \cup (IF l.head = NULL THEN {}
            ELSE IF expire[t] < expire[l.head] THEN {l.head}
            ELSE Walked(l, t, l.head, expire))

\* del_timer(timer), its four cases in the order of the code
DelTimer(l, t) ==
  IF t = l.head /\ t = l.tail THEN [l EXCEPT !.head = NULL, !.tail = NULL]
  ELSE IF t = l.head THEN [l EXCEPT !.head = l.next[t], !.prev[l.next[t]] = NULL]
  ELSE IF t = l.tail THEN [l EXCEPT !.tail = l.prev[t], !.next[l.prev[t]] = NULL]
  ELSE [l EXCEPT !.next[l.prev[t]] = l.next[t], !.prev[l.next[t]] = l.prev[t]]
DelTouches(l, t) ==
  {t} \cup (IF t = l.head /\ t = l.tail THEN {}
            ELSE IF t = l.head THEN {l.next[t]}
            ELSE IF t = l.tail THEN {l.prev[t]}
            ELSE {l.prev[t], l.next[t]})

\* One iteration of tick(), after the callback: the head is taken off.
PopHead(l) ==
  LET n == l.next[l.head]
  IN  [l EXCEPT !.head = n, !.prev = IF n = NULL THEN @ ELSE [@ EXCEPT ![n] = NULL]]
PopTouches(l) == {l.head} \cup ({l.next[l.head]} \ {NULL})

\* The list is in ascending order and each node's prev is the one before it.
Ascending(l, expire) ==
  \A t \in NodesFrom(l, l.head) :
    l.next[t] # NULL => expire[t] <= expire[l.next[t]] /\ l.prev[l.next[t]] = t
=============================================================================
