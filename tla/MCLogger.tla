------------------------------ MODULE MCLogger ------------------------------
(* TLC instances of Logger.                                                *)
EXTENDS Logger

FewCounts == {2, 5}
AnyStart  == {0, 1}
FromNewest == {0}
=============================================================================
