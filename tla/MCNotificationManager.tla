------------------------ MODULE MCNotificationManager ------------------------
(* Instances of NotificationManager for TLC: filters that differ in what    *)
(* the store does, two of them with another answer at the close.            *)
EXTENDS NotificationManager

NoFilter    == [toast |-> TRUE, history |-> TRUE, later |-> TRUE]
TextKept    == [toast |-> FALSE, history |-> TRUE, later |-> FALSE]
TextToast   == [toast |-> TRUE, history |-> FALSE, later |-> TRUE]
Suppressing == [toast |-> FALSE, history |-> FALSE, later |-> FALSE]
SomeFilters == {NoFilter, TextKept, TextToast, Suppressing}
===============================================================================
