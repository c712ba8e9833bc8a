---------------------------- MODULE MCAddrAssign ----------------------------
(***************************************************************************)
(* Three routers in a line, 1 -- 2 -- 3, of which 1 and 3 are roots:       *)
(* interfaces 11 and 21 are the ends of the first link, 22 and 32 of the   *)
(* second.  The pool of 1 starts at block 1, that of 3 at block 0, so they *)
(* meet at block 1.                                                        *)
(***************************************************************************)
EXTENDS AddrAssign, TLC

MCOwner == 11 :> 1 @@ 21 :> 2 @@ 22 :> 2 @@ 32 :> 3
MCStart == {1 :> 1 @@ 3 :> 0}
MCFault == {<<"unheard", 21>>, <<"unanswered", 21>>, <<"unconfirmed", 1>>}
MCPeer == 11 :> 21 @@ 21 :> 11 @@ 22 :> 32 @@ 32 :> 22
=============================================================================
