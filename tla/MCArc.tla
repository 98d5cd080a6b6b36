------------------------------- MODULE MCArc -------------------------------
(* UvArc on small instances: one block of each kind of count.              *)
EXTENDS UvArc, TLC

CONSTANTS guarded, atomic

BothKinds == {guarded, atomic}
OneGuarded == {guarded}
=============================================================================
