------------------------------ MODULE MCLiveList ------------------------------
(* The bounds for the run of LiveList.                                     *)
EXTENDS LiveList

\* Three gestures and failures in all, of which one may go with the longest log.
Bounded ==
    /\ gestures + failures <= 3
    /\ Len(log) = MaxEvents => gestures + failures <= 2
=============================================================================
