---------------------------- MODULE MCGophProfile ----------------------------
EXTENDS LifecycleMapping, TLC

(* Requests in flight are interchangeable, and so are users; used by the     *)
(* runs that check no liveness property.                                     *)
Symmetry == Permutations(Requests) \cup Permutations(Users)

NoTruncated == {}
FirstTruncated == {1}
=============================================================================
