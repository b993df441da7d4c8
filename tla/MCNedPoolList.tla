--------------------------- MODULE MCNedPoolList ---------------------------
(* One thread that creates two pools and destroys both.                      *)
EXTENDS NedPoolList

FourCalls == {[t \in Caller |-> 4]}
=============================================================================
