---------------------------- MODULE MCTaskBoard ----------------------------
EXTENDS TaskBoard, TLC

CONSTANTS c1, c2, c3, t1, t2, f1, f2

MCFileOf == (t1 :> f1) @@ (t2 :> f2)
=============================================================================
