-------------------------- MODULE InterruptPromise --------------------------
(***************************************************************************)
(* What the interrupt system promises the program and its observers,       *)
(* without the cached priority, the phases of CPU_RunCycle or the stack.   *)
(* A request, once made, stays pending until its maker withdraws it or it  *)
(* is delivered; only a pending vector is delivered, one at a time, with   *)
(* interrupts enabled, and delivery disables them and ends sleep.  Nothing *)
(* but a delivery ends sleep.  The order of delivery is not promised.      *)
(***************************************************************************)
EXTENDS Integers

CONSTANTS Vector,    \* the vectors a peripheral may request
          NoEvent    \* no interrupt has been reported yet

VARIABLES
    pending,    \* vectors requested and not yet delivered
    enabled,    \* SREG.I
    sleeping,   \* the CPU waits for an interrupt
    reported    \* the last InterruptCallout_Run: <<entry?, vector>>

promiseVars == <<pending, enabled, sleeping, reported>>

Init ==
    /\ pending = {}
    /\ enabled = FALSE
    /\ sleeping = FALSE
    /\ reported = NoEvent

Request(v) ==
    /\ pending' = pending \cup {v}
    /\ UNCHANGED <<enabled, sleeping, reported>>

Withdraw(v) ==
    /\ pending' = pending \ {v}
    /\ UNCHANGED <<enabled, sleeping, reported>>

\* The program sets or clears the global enable bit while it is awake.
SetEnable(b) ==
    /\ ~sleeping
    /\ enabled' = b
    /\ UNCHANGED <<pending, sleeping, reported>>

\* A return from interrupt enables interrupts and is reported.
Return ==
    /\ ~sleeping
    /\ enabled' = TRUE
    /\ reported' = <<FALSE, 0>>
    /\ UNCHANGED <<pending, sleeping>>

Sleep ==
    /\ ~sleeping
    /\ sleeping' = TRUE
    /\ UNCHANGED <<pending, enabled, reported>>

Deliver(v) ==
    /\ enabled
    /\ v \in pending
    /\ pending' = pending \ {v}
    /\ enabled' = FALSE
    /\ sleeping' = FALSE
    /\ reported' = <<TRUE, v>>

Next ==
    \/ \E v \in Vector : Request(v) \/ Withdraw(v) \/ Deliver(v)
    \/ \E b \in BOOLEAN : SetEnable(b)
    \/ Return
    \/ Sleep

Spec == Init /\ [][Next]_promiseVars
=============================================================================
