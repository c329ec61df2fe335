--------------------------- MODULE MCAddInstance ----------------------------
(* AddInstance for TLC: two MO types, two objects, a next_miid that wraps   *)
(* after three values, and miids of the application's own that collide     *)
(* with numerals the library will assign.                                  *)
EXTENDS AddInstance

MCSegments  == {"fumo", "dmacc", "0", "1", "2", "rootfs"}
MCNumeralOf == [n \in 0 .. 2 |-> CASE n = 0 -> "0" [] n = 1 -> "1" [] n = 2 -> "2"]
=============================================================================
