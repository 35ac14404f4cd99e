--------------------------- MODULE MCSyscallBans ---------------------------
(* A few tasks below init for TLC. *)
EXTENDS SyscallBans

(* A refused, a lifting and a clamped argument of set_ban. *)
SomeArgs == {-1, 0, 2}
=============================================================================
