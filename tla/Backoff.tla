------------------------------ MODULE Backoff ------------------------------
(***************************************************************************)
(* The reconnect loop of StreamIterator with its delays: calculateDelay of *)
(* src/streaming/createStream.ts, called with the attempt counter that     *)
(* onclose and onopen keep.                                                *)
(*                                                                         *)
(* Times are integers (milliseconds, or a coarser unit in the small        *)
(* instance) and the jitter factor is in percent.  Math.random() is any    *)
(* point of its range.                                                     *)
(***************************************************************************)
EXTENDS StreamIterator

CONSTANTS InitialDelay, MaxDelay, Factor, \* reconnect.initialDelay, ...
          JitterPercent                   \* 100 * reconnect.jitter

ASSUME BackoffAssumption ==
  /\ InitialDelay \in Nat \ {0}
  /\ MaxDelay \in Nat /\ MaxDelay >= InitialDelay
  /\ Factor \in Nat \ {0}
  /\ JitterPercent \in 0..100

VARIABLE delay   \* the delay last handed to setTimeout, 0 since an open

timedVars == <<vars, delay>>

Smaller(a, b) == IF a < b THEN a ELSE b
Larger(a, b)  == IF a > b THEN a ELSE b

(* Math.pow(config.factor, attempt); an attempt is below MaxAttempts.       *)
Power[attempt \in 0..MaxAttempts] ==
  IF attempt = 0 THEN 1 ELSE Factor * Power[attempt - 1]

(* Mutant: the base is not multiplied.                                      *)
BaseDelayFlat(attempt) == Smaller(InitialDelay, MaxDelay)

BaseDelay(attempt) == Smaller(InitialDelay * Power[attempt], MaxDelay)

JitterRange(base) == (base * JitterPercent) \div 100

(* Every value calculateDelay can return.                                   *)
CalculateDelay(attempt) ==
  LET base  == BaseDelay(attempt)
      range == JitterRange(base)
  IN  {Larger(0, base + jitter) : jitter \in -range..range}

TimedInit == Init /\ delay = 0

Schedules == timers' > timers
Opens     == ws = "connecting" /\ ws' = "open"

TimedNext ==
  \/ Next /\ Schedules /\ delay' \in CalculateDelay(reconnectAttempts)
  \/ Next /\ Opens /\ delay' = 0
  \/ Next /\ ~Schedules /\ ~Opens /\ UNCHANGED delay

TimedSpec == TimedInit /\ [][TimedNext]_timedVars /\ Fairness

-----------------------------------------------------------------------------

Plus(d)  == d + (d * JitterPercent) \div 100
Minus(d) == d - (d * JitterPercent) \div 100

(* Every further failure in a row waits longer than the last, until the     *)
(* delays have reached the ceiling.  The jitter comes after the ceiling, so *)
(* a delay may fall short of it and exceed it by that share, and no more,   *)
(* whatever the exponent.                                                   *)
DelaysGrow ==
  [][Schedules => /\ delay' > delay \/ delay' >= Minus(MaxDelay)
                  /\ delay' <= Plus(MaxDelay)]_timedVars

=============================================================================
