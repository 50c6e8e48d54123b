---------------------------- MODULE MCWatchScope ----------------------------
(***************************************************************************)
(* Two builds; the later one closes a gate and has no types.               *)
(***************************************************************************)
EXTENDS WatchScope, TLC

CONSTANTS s1, s2

MCHasRows(s, t) == s = s2 => t # "types"
MCPractices ==
    {{use \in Use : use.asTask}, {use \in Use : use.command # "lookup"}}

Both(pairs) == pairs \cup {<<p[2], p[1]>> : p \in pairs}
MCSystemsOf(s) == 1..4
MCGatesOf(s) == Both({<<1, 3>>, <<3, 2>>, <<2, 4>>}
                     \cup IF s = s1 THEN {<<1, 2>>} ELSE {})

MCSymmetry == Permutations(Imports)
=============================================================================
