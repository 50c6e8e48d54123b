---------------------------- MODULE RadiusSearch ----------------------------
(***************************************************************************)
(* sde/topologyService.js: the systems within a number of jumps of a       *)
(* center, by breadth-first search over the rows of system_adjacency.      *)
(***************************************************************************)
EXTENDS Integers, FiniteSets, Sequences

CONSTANT Exceeds   \* the search throws: more systems than its guard allows

Neighbors(gates, x) == {gate[2] : gate \in {g \in gates : g[1] = x}}

\* Systems ORDER BY to_system_id, each put in the queue with its depth.
InOrder(systems, depth) ==
    [n \in 1..Cardinality(systems) |->
        [system |-> CHOOSE x \in systems :
                       Cardinality({y \in systems : y < x}) = n - 1,
         depth |-> depth]]

\* Mutant: what was found last is served first.
PushedFirst(queue, found) == found \o queue

\* push() to the queue.
Pushed(queue, found) == queue \o found

(***************************************************************************)
(* The loop of getSystemsWithinRadius, one pass of it.  A system may stand *)
(* in the queue several times; it is looked at when it is served, not when *)
(* it is put there.  The guard counts the systems visited so far.          *)
(***************************************************************************)
Iterate(search, gates, radius, excluded, maxSystems) ==
    LET current == Head(search.queue)
        rest == Tail(search.queue)
        seen == search.visited \cup {current.system}
        found == Neighbors(gates, current.system) \ seen
    IN  IF search.queue = <<>> \/ search.thrown THEN search
        ELSE IF current.system \in search.visited \cup excluded
        THEN [search EXCEPT !.queue = rest]
        ELSE [queue |-> IF current.depth >= radius THEN rest
                        ELSE Pushed(rest, InOrder(found, current.depth + 1)),
              visited |-> seen,
              thrown |-> Cardinality(seen) > maxSystems]

\* The search after each number of passes.
Loop(gates, center, radius, excluded, maxSystems) ==
    LET loop[n \in Nat] ==
            IF n = 0 THEN [queue |-> <<[system |-> center, depth |-> 0]>>,
                           visited |-> {}, thrown |-> FALSE]
            ELSE Iterate(loop[n - 1], gates, radius, excluded, maxSystems)
    IN  loop

\* Each row is pushed once at most, so that many passes empty the queue.
Search(gates, center, radius, excluded, maxSystems) ==
    LET end == Loop(gates, center, radius, excluded, maxSystems)
                   [1 + Cardinality(gates)]
    IN  IF end.thrown THEN Exceeds ELSE end.visited

-----------------------------------------------------------------------------
(***************************************************************************)
(* What the search is for: the systems a path of at most radius jumps      *)
(* leads to, none of them excluded.                                        *)
(***************************************************************************)
Balls(gates, center, excluded) ==
    LET ball[n \in Nat] ==
            IF n = 0 THEN {center} \ excluded
            ELSE ball[n - 1] \cup
                 ((UNION {Neighbors(gates, x) : x \in ball[n - 1]}) \ excluded)
    IN  ball

Within(gates, center, radius, excluded) ==
    Balls(gates, center, excluded)[radius]

SearchIsRight(gates, center, radius, excluded, maxSystems) ==
    LET result == Search(gates, center, radius, excluded, maxSystems)
        reached == Within(gates, center, radius, excluded)
    IN  result = IF Cardinality(reached) > maxSystems THEN Exceeds ELSE reached
=============================================================================
