-------------------------- MODULE MCNoticeDelivery --------------------------
(* NoticeDelivery for TLC.                                                 *)
EXTENDS NoticeDelivery, TLC

WorkersAndOperators == Permutations(Workers) \cup Permutations(Operators)
=============================================================================
