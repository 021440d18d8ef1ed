-------------------------------- MODULE Alarms --------------------------------
(***************************************************************************)
(* What a Timer promises its owner (core/timer_manager.h), without the     *)
(* manager's bookkeeping: an alarm rings only while its Timer holds it and *)
(* not before its time, a one-shot alarm rings once, a repeating one is    *)
(* set again when its callback returns, and an alarm whose Timer was       *)
(* stopped, restarted or destroyed never rings.                            *)
(***************************************************************************)
EXTENDS Naturals

CONSTANTS
  Timers,   \* the Timer objects
  Delays,   \* the delays an owner may ask for
  Off,      \* no alarm
  Nobody    \* no Timer

VARIABLES
  now,      \* the steady clock
  last,     \* the last alarm id given out
  alarm,    \* the alarm each Timer holds, Off when it holds none
  ringing,  \* the alarm whose callback is on the stack, Off when none is
  ringer    \* the Timer that holds the ringing alarm, Nobody once it let go

vars == <<now, last, alarm, ringing, ringer>>

Init ==
  /\ now = 0
  /\ last = 0
  /\ alarm = [t \in Timers |-> Off]
  /\ ringing = Off
  /\ ringer = Nobody

Set(t, delay, repeating) ==
  /\ last' = last + 1
  /\ alarm' = [alarm EXCEPT ![t] = [id |-> last + 1, dueAt |-> now + delay,
                                    interval |-> delay, repeating |-> repeating]]
  /\ ringer' = IF ringer = t THEN Nobody ELSE ringer
  /\ UNCHANGED <<now, ringing>>

Clear(t) ==
  /\ alarm' = [alarm EXCEPT ![t] = Off]
  /\ ringer' = IF ringer = t THEN Nobody ELSE ringer
  /\ UNCHANGED <<now, last, ringing>>

HandOver(from, to) ==
  /\ from # to
  /\ alarm' = [alarm EXCEPT ![to] = alarm[from], ![from] = Off]
  /\ ringer' = CASE ringer = from -> to
                 [] ringer = to   -> Nobody
                 [] OTHER         -> ringer
  /\ UNCHANGED <<now, last, ringing>>

Ring(t) ==
  /\ ringing = Off
  /\ alarm[t] # Off
  /\ alarm[t].dueAt <= now
  /\ ringing' = alarm[t]
  /\ ringer' = t
  /\ alarm' = [alarm EXCEPT ![t] = Off]
  /\ UNCHANGED <<now, last>>

Silence ==
  /\ ringing # Off
  /\ ringing' = Off
  /\ ringer' = Nobody
  /\ alarm' = IF ringing.repeating /\ ringer # Nobody
              THEN [alarm EXCEPT ![ringer] = [ringing EXCEPT !.dueAt = now + ringing.interval]]
              ELSE alarm
  /\ UNCHANGED <<now, last>>

Wait ==
  /\ now' = now + 1
  /\ UNCHANGED <<last, alarm, ringing, ringer>>

Next ==
  \/ \E t \in Timers :
       \/ \E delay \in Delays, repeating \in BOOLEAN : Set(t, delay, repeating)
       \/ Clear(t)
       \/ Ring(t)
       \/ \E to \in Timers : HandOver(t, to)
  \/ Silence
  \/ Wait

Spec == Init /\ [][Next]_vars
===============================================================================
