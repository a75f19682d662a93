------------------------------ MODULE Recorder ------------------------------
(***************************************************************************)
(* The reconnect loop of tools/recorder_retry.py, shared by the recorders  *)
(* of three venues, and the life of one session of                         *)
(* tools/record_bitstamp.py: subscribe and buffer, take a snapshot,        *)
(* stream, and end for one of many reasons.                                *)
(*                                                                         *)
(* Time is counted in units of the first backoff.  It passes while a       *)
(* session lasts and while the loop sleeps.                                *)
(***************************************************************************)
EXTENDS Integers

CONSTANTS
  Duration,     \* wall time the recording is asked for
  MaxBackoff,   \* the longest sleep between two sessions
  Overrun       \* how far past its budget a session may notice that it is over

ASSUME DurationAssumption == Duration \in Nat \ {0}
ASSUME BackoffAssumption == MaxBackoff \in Nat \ {0}
ASSUME OverrunAssumption == Overrun \in Nat

VARIABLES
  phase,     \* where the recorder is
  clock,     \* time since it started
  backoff,   \* the next sleep, if the session before it failed
  stop       \* rec.stop, set by the interrupt handler

rvars == <<phase, clock, backoff, stop>>

Phases == {"loop", "subscribing", "streaming", "asleep", "done", "exited"}
Connected == phase \in {"subscribing", "streaming"}

RecorderInit ==
  phase = "loop" /\ clock = 0 /\ backoff = 1 /\ stop = FALSE

Shorter(m, n) == IF m <= n THEN m ELSE n

\* The head of the loop: another session, or the end.
StartSession ==
  /\ phase = "loop" /\ ~stop /\ clock < Duration
  /\ phase' = "subscribing"
  /\ UNCHANGED <<clock, backoff, stop>>

Leave ==
  /\ phase = "loop" /\ (stop \/ clock >= Duration)
  /\ phase' = "done" /\ UNCHANGED <<clock, backoff, stop>>

\* The snapshot is taken; from here on the session looks at its budget.
StartStreaming ==
  /\ phase = "subscribing"
  /\ phase' = "streaming" /\ UNCHANGED <<clock, backoff, stop>>

\* A plausible slip: the whole backoff is slept, whatever is left of the time.
WholeNap(b, t) == b
\* Never past the deadline.
Nap(b, t) == Shorter(b, Duration - t)

\* What run_with_retry does when a session returns or raises at time t.
AfterSession(t, b) ==
  /\ backoff' = b
  /\ IF stop \/ t >= Duration
     THEN phase' = "done" /\ clock' = t
     ELSE phase' = "asleep" /\ clock' = t + Nap(b, t)
  /\ UNCHANGED stop

\* The server asks for a reconnect, the budget runs out, or the stop flag is set.
EndsCleanly ==
  /\ phase = "streaming"
  /\ \E t \in clock .. (Duration + Overrun) : AfterSession(t, 1)

\* A plausible slip: the next session is tried at once.
FailsAtOnce ==
  Connected /\ phase' = "loop" /\ UNCHANGED <<clock, backoff, stop>>
\* Any exception: the connection, the subscription, the snapshot.
Fails ==
  /\ Connected
  /\ \E t \in clock .. (Duration + Overrun) :
       AfterSession(t, Shorter(2 * backoff, MaxBackoff))

\* sys.exit: the venue refuses the subscription, does not confirm it in the
\* first session, or gives a snapshot without order ids.
Exits ==
  /\ phase = "subscribing"
  /\ phase' = "exited" /\ UNCHANGED <<clock, backoff, stop>>

\* The sleep is over; the interrupt handler does not cut it short.
Wake ==
  /\ phase = "asleep"
  /\ phase' = "loop" /\ UNCHANGED <<clock, backoff, stop>>

\* The SIGINT handler only sets the flag.
Interrupt ==
  /\ phase \notin {"done", "exited"} /\ ~stop
  /\ stop' = TRUE /\ UNCHANGED <<phase, clock, backoff>>

RecorderNext ==
  StartSession \/ Leave \/ StartStreaming \/ EndsCleanly \/ Fails \/ Exits \/ Wake \/ Interrupt

RecorderSpec == RecorderInit /\ [][RecorderNext]_rvars

-----------------------------------------------------------------------------
\* The loop backs off, between one unit and the most, never sleeps past the
\* deadline, and ends a recording only when the time is up or the user asked
\* (tools/recorder_retry.py:38).
RecordsItsTime ==
  /\ backoff \in 1 .. MaxBackoff
  /\ phase = "asleep" => clock <= Duration
  /\ phase = "done" => stop \/ clock >= Duration
=============================================================================
