------------------------------- MODULE MCOta --------------------------------
(* TLC instances of Ota.                                                   *)
EXTENDS Ota, TLC

CONSTANTS app1, app2, huge, phy6, other

ThreeImages == {app1, app2, huge}
MCNBlocks   == [i \in Images |-> CASE i = app1 -> 3 [] i = app2 -> 4 [] OTHER -> Wrap]
MCId        == [i \in Images |-> phy6]
FewSegments == [i \in Images |-> IF i = app1 THEN 15 ELSE 2]
MCIds       == {phy6, other}
MCRegs      == {0, 1, 51, 85}
NoParams    == {}

(* SET commands: below the application, past the largest flash, and one    *)
(* that is taken.                                                          *)
MCSets      == {[offset |-> -1, value |-> phy6, total |-> 0],
                [offset |-> 6,  value |-> phy6, total |-> 3],
                [offset |-> 0,  value |-> phy6, total |-> 3]}

(* The clients of this run know the chip's size.                           *)
ASSUME FitAssumption == ClientsFit
=============================================================================
