---------------------------- MODULE MCOtaUpdate -----------------------------
(* TLC instance of OtaUpdate.                                              *)
EXTENDS OtaUpdate, TLC

CONSTANTS app1, app2, phy6

MCImages    == {app1, app2}
MCNBlocks   == [i \in Images |-> IF i = app1 THEN 5 ELSE 4]
MCId        == [i \in Images |-> phy6]
FewSegments == [i \in Images |-> 15]
MCIds       == {phy6}
MCRegs      == {0, 1, 51, 85}
NoParams    == {}
=============================================================================
