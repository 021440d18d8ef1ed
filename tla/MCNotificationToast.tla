-------------------------- MODULE MCNotificationToast --------------------------
(* Instances of NotificationToast for TLC: two outputs, the first, which     *)
(* drives the countdowns, shorter than the other.                            *)
EXTENDS NotificationToast, TLC

Content(timed, height) == [timed |-> timed, height |-> height]
SomeContents == {Content(TRUE, 2), Content(FALSE, 1)}
ShortAndTall == <<2, 3>>
Permuted == Permutations(Ids)
================================================================================
