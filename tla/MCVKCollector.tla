--------------------------- MODULE MCVKCollector ---------------------------
(* Instances of VKCollector for TLC: two requests a cycle, the first for   *)
(* two communities; walls that outgrow the window while a cycle runs.      *)
EXTENDS VKCollector

CONSTANTS ria, tass, rbc

MCThree == <<ria, tass, rbc>>
MCPosts == [c \in {ria, tass, rbc} |-> IF c = ria THEN 3 ELSE IF c = tass THEN 2 ELSE 1]
MCBlank == {<<ria, 2>>}
=============================================================================
