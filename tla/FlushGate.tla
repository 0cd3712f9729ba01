------------------------------ MODULE FlushGate ------------------------------
(* SYSTEM FLUSH LOGS of one server, shared by the threads that miss rows in  *)
(* its system logs (src/src/system_log_flush.hpp).  A caller needs the rows  *)
(* that were there at one moment.  Every call and every flush has a moment   *)
(* of its own, as the steady clock gives it.                                 *)
(* Some definitions follow a form of themselves with a bug that the code     *)
(* could have; no action uses it.                                            *)
EXTENDS Naturals

CONSTANTS
  Flushers,  \* threads that call
  Logs,
  MaxClock   \* bound of the model: moments

ASSUME FlushAssumption == MaxClock \in Nat

VARIABLES
  clock,
  flusher,   \* what each thread does
  inFlight,  \* in_flight
  covered,   \* last_success_started of each log; 0 without one
  written    \* external: when the server last wrote the rows of each log

gateVars == <<clock, flusher, inFlight, covered, written>>

Away == [step |-> "away", logs |-> {}, needed |-> 0, started |-> 0]

FlushTypeOK ==
  /\ clock \in 0..MaxClock
  /\ flusher \in [Flushers -> [step : {"away", "asks", "waits", "flushes", "flushed", "failed", "told"}, logs : SUBSET Logs,
                               needed : 0..MaxClock, started : 0..MaxClock]]
  /\ inFlight \in BOOLEAN
  /\ covered \in [Logs -> 0..MaxClock] /\ written \in [Logs -> 0..MaxClock]

FlushInit ==
  /\ clock = 0
  /\ flusher = [t \in Flushers |-> Away]
  /\ inFlight = FALSE
  /\ covered = [l \in Logs |-> 0] /\ written = [l \in Logs |-> 0]

Flusher(t, step) == flusher[t].step = step
Becomes(t, step) == flusher' = [flusher EXCEPT ![t].step = step]
-----------------------------------------------------------------------------
\* The rows that t wants are there; the call comes at once or later.
Needs(t, logs) ==
  /\ Flusher(t, "away") /\ clock < MaxClock
  /\ clock' = clock + 1
  /\ flusher' = [flusher EXCEPT ![t] = [step |-> "asks", logs |-> logs, needed |-> clock', started |-> 0]]
  /\ UNCHANGED <<inFlight, covered, written>>

Covered(t) == flusher[t].logs # {} /\ \A l \in flusher[t].logs : covered[l] >= flusher[t].needed

\* ensure_flushed_after under mu_, up to the flush; a thread that waited looks again.
LooksForFlush(t) ==
  /\ Flusher(t, "asks") \/ (Flusher(t, "waits") /\ ~inFlight)
  /\ \/ Covered(t) /\ Becomes(t, "told") /\ UNCHANGED <<clock, inFlight>>
     \/ ~Covered(t) /\ inFlight /\ Becomes(t, "waits") /\ UNCHANGED <<clock, inFlight>>
     \/ /\ ~Covered(t) /\ ~inFlight /\ clock < MaxClock
        /\ clock' = clock + 1
        /\ inFlight' = TRUE
        /\ flusher' = [flusher EXCEPT ![t].step = "flushes", ![t].started = clock']
  /\ UNCHANGED <<covered, written>>

\* External: the server writes what it has at that moment, or fails.
ServerFlushes(t) ==
  /\ Flusher(t, "flushes")
  /\ \/ Becomes(t, "flushed") /\ written' = [l \in Logs |-> IF l \in flusher[t].logs THEN clock ELSE written[l]]
     \/ Becomes(t, "failed") /\ UNCHANGED written
  /\ UNCHANGED <<clock, inFlight, covered>>

MomentOfEnd(t)   == clock
MomentOfFlush(t) == flusher[t].started

\* The answer comes back; the waiting threads are notified.
FlushEnds(t) ==
  /\ \/ Flusher(t, "flushed") /\ Becomes(t, "told") /\ covered' = [l \in Logs |-> IF l \in flusher[t].logs THEN MomentOfFlush(t) ELSE covered[l]]
     \/ Flusher(t, "failed") /\ flusher' = [flusher EXCEPT ![t] = Away] /\ UNCHANGED covered
  /\ inFlight' = FALSE
  /\ UNCHANGED <<clock, written>>

\* The caller goes on with the rows.
Leaves(t) ==
  /\ Flusher(t, "told")
  /\ flusher' = [flusher EXCEPT ![t] = Away]
  /\ UNCHANGED <<clock, inFlight, covered, written>>

FlushNext == \E t \in Flushers :
  \/ \E logs \in (SUBSET Logs) \ {{}} : Needs(t, logs)
  \/ LooksForFlush(t) \/ ServerFlushes(t) \/ FlushEnds(t) \/ Leaves(t)

FlushSpec == FlushInit /\ [][FlushNext]_gateVars
-----------------------------------------------------------------------------
\* A caller that is told "flushed" finds the rows that it needed, whoever ran the
\* flush and however many shared it; a flush that began before the rows were
\* there counts for nobody (ensure_flushed_after, covered).
RowsAreWritten ==
  \A t \in Flushers : Flusher(t, "told") => \A l \in flusher[t].logs : written[l] >= flusher[t].needed
=============================================================================
