--------------------------- MODULE MCFingerProxy ---------------------------
(***************************************************************************)
(* FingerProxy with two users who share the second bucket of two.  The     *)
(* name of one is the beginning of the other's.                            *)
(***************************************************************************)
EXTENDS FingerProxy

CONSTANTS alice, al

MCKeys   == {alice, al}
MCHash   == [k \in MCKeys |-> IF k = al THEN 3 ELSE 5]
MCCut    == [k \in MCKeys |-> IF k = alice THEN MCKeys ELSE {k}]
MCValues == [user : Keys, whole : BOOLEAN]
=============================================================================
