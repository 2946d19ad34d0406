----------------------------- MODULE MCFlashEep -----------------------------
(* TLC instances of FlashEep.                                              *)
EXTENDS FlashEep

CONSTANTS cfg, setpoint, mv_ver, v1, v2, app1, app2

MCIds      == {cfg, setpoint}
MCValues   == {v1, v2}
MCVersions == {app1, app2}
OneVersion == {app1}

(* Power may fail anywhere but inside the format loop.                     *)
NotInFormat == Steps \ {"boot", "fmtErase", "fmtGen"}
NoCrash     == {}
Anywhere    == Steps \ {"boot"}
=============================================================================
