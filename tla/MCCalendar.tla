------------------------------ MODULE MCCalendar ------------------------------
(* Instances of Calendar for TLC: the configurations that change on disk.      *)
EXTENDS Calendar

CONSTANTS dav, work

Enabled(accounts) == [enabled |-> TRUE, accounts |-> accounts]

\* An account of each kind, one removed, none left, and the calendar switched off.
SomeConfigs ==
  {Enabled({dav, work}), Enabled({work}), Enabled({}),
   [enabled |-> FALSE, accounts |-> {dav, work}]}
===============================================================================
