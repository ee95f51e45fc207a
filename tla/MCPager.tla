------------------------------ MODULE MCPager ------------------------------
(***************************************************************************)
(* Two user processes over a swap pool of two frames.  The first touches a *)
(* page of its code and a shared page, and prints; the second its stack    *)
(* and the shared page, and reads lines: one page more than there are      *)
(* frames.                                                                 *)
(***************************************************************************)
EXTENDS Pager

MCDrivers == {<<1, "printer">>, <<2, "termRead">>}
MCTouched == <<{<<2, 0>>, <<3, 0>>}, {<<2, KUSEGSIZE>>, <<3, 0>>}>>
=============================================================================
