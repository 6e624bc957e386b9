-------------------------- MODULE MCConstraintStages --------------------------
(***************************************************************************)
(* Two trails of three rounds over two key bits, with rows that are        *)
(* redundant, contradictory or void, use the constants of each round, and  *)
(* with rows the parsers refuse: another trail, a bridge too far, another  *)
(* bridge's constants, a state column, the right-hand side, no order.      *)
(***************************************************************************)
EXTENDS ConstraintStages

\* Rounds 5, 6 and 7.
MCRoundConstant == [r \in 5 .. 7 |-> CASE r = 5 -> 62 [] r = 6 -> 61 [] r = 7 -> 59]

Row(position, bridge, columns, rhs) ==
  [position |-> position, bridge |-> bridge, columns |-> columns, rhs |-> rhs, ordered |-> TRUE]

\* State 0, key 1 and 2, constants 3 to 9 and 10 to 16, right-hand side 17.
MCLCMarkers ==
  {Row(0, 0, {1}, 0), Row(0, 0, {1}, 1), Row(0, 0, {1, 2, 9}, 0), Row(0, 1, {2, 15, 16}, 1),
   Row(1, 1, {2, 10}, 0), Row(1, 0, {}, 0)}
  \cup {Row(2, 0, {1}, 0), Row(0, 2, {1}, 0), Row(0, 1, {1, 9}, 0), Row(1, 0, {0}, 0),
        Row(1, 1, {17}, 0), [Row(0, 0, {1}, 0) EXCEPT !.ordered = FALSE]}

\* State 0 to 3, key 4 and 5, constants 6 to 12, 13 to 19 and 20 to 26.
MCLNCMarkers ==
  {Row(0, 0, {4}, 0), Row(0, 0, {4, 6}, 0), Row(0, 0, {4, 5, 23}, 1), Row(0, 0, {5, 12, 18}, 0),
   Row(1, 0, {5, 13}, 0), Row(1, 0, {}, 0), Row(1, 0, {4, 5}, 1)}
  \cup {Row(2, 0, {4}, 0), Row(0, 0, {3}, 0), Row(1, 0, {27}, 0)}
==============================================================================
