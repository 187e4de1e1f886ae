----------------------------- MODULE Supervision -----------------------------
(***************************************************************************)
(* What the watchdog promises about a serve loop, with no pet, no stamp    *)
(* and no heartbeat thread in sight: "busy-vs-wedged"                      *)
(* (src/src/watchdog.rs).  A loop that moves buys time, and only the loop  *)
(* does; one that stops has what it had left.  Its time never runs out     *)
(* unnoticed, and it is killed only when it was ailing a timeout ago or    *)
(* less.                                                                   *)
(***************************************************************************)
EXTENDS Integers

CONSTANTS
  Timeout,     \* WatchdogSec
  Notice,      \* from the end of a loop's patience to its end
  PetsArrive   \* TRUE when no pet is lost on its way to systemd

VARIABLES
  now,
  stopped,  \* the loop takes no further step
  due,      \* when it is killed if it does not move, or {} if it is trusted
  ailing,   \* when it was last stopped or past its patience, or -1
  killed

supervisionVars == <<now, stopped, due, ailing, killed>>

SupervisionInit ==
  /\ now = 0
  /\ stopped = FALSE
  /\ due \subseteq Nat
  /\ \A t \in due : t >= Notice
  /\ ailing = -1
  /\ killed = FALSE

\* The loop takes a step, and its patience starts anew.
Move ==
  /\ ~killed /\ ~stopped
  /\ due' \subseteq Nat
  /\ \A t \in due' : t >= now + Notice
  /\ UNCHANGED <<now, stopped, ailing, killed>>

\* The loop hangs, where it may be trusted still, or dies, where it is not.
Stop ==
  /\ ~killed /\ ~stopped
  /\ stopped' = TRUE
  /\ due' \in {due, {now + Notice}}
  /\ ailing' = now
  /\ UNCHANGED <<now, killed>>

\* Time passes, and not past the end of a loop.
Pass ==
  /\ ~killed
  /\ \A t \in due : now < t
  /\ now' = now + 1
  /\ ailing' = IF stopped \/ \E t \in due : now' > t - Notice THEN now' ELSE ailing
  /\ UNCHANGED <<stopped, due, killed>>

Kill ==
  /\ ~killed
  /\ PetsArrive => now <= ailing + Timeout
  /\ killed' = TRUE
  /\ UNCHANGED <<now, stopped, due, ailing>>

SupervisionNext == Move \/ Stop \/ Pass \/ Kill

SupervisionSpec == SupervisionInit /\ [][SupervisionNext]_supervisionVars

=============================================================================
