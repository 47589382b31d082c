----------------------------- MODULE OutboxBackoff -----------------------------
(***************************************************************************)
(* backoff_for (src/src/outbox_service.rs): how many milliseconds the      *)
(* outbox waits after a failed attempt.  attempt is a u32, counted from 1. *)
(***************************************************************************)
EXTENDS Integers, TLAPS

(* BACKOFF_SCHEDULE_MS, its index shifted to 1 .. Slots.                   *)
Slots == 12
Schedule == [i \in 1 .. Slots |->
    IF i <= 5 THEN <<30000, 120000, 480000, 1800000, 7200000>>[i] ELSE 21600000]

(* attempt.saturating_sub(1) as usize % len.                               *)
Base(attempt) == Schedule[(IF attempt = 0 THEN 0 ELSE (attempt - 1) % Slots) + 1]

(* The factor 1 + (attempt % 10) / 25 - 0.2, in 25ths.                     *)
Jitter(attempt) == 20 + (attempt % 10)

(* The f64 product of 7 200 000 and 1.16 is just below 8 352 000, and the  *)
(* cast truncates; every other product comes out exactly.                  *)
Truncated(attempt) ==
    IF Base(attempt) = 7200000 /\ Jitter(attempt) = 29 THEN 1 ELSE 0

backoff_for(attempt) == (Base(attempt) * Jitter(attempt)) \div 25 - Truncated(attempt)

(* The delays up to the thirteenth attempt: attempt 10 waits less than     *)
(* attempt 9, and attempt 13 is back at half a minute.                     *)
ASSUME FirstDelays ==
    [attempt \in 1 .. 13 |-> backoff_for(attempt)] =
        << 25200, 105600, 441600, 1728000, 7200000, 22464000, 23328000, 24192000,
           25056000, 17280000, 18144000, 19008000, 27600 >>

-------------------------------------------------------------------------------
(* The schedule is wrapped round, never run past, whatever the counter.    *)
LEMMA BaseInSchedule ==
    ASSUME NEW attempt \in Nat
    PROVE  Base(attempt) \in
               {30000, 120000, 480000, 1800000, 7200000, 21600000}
<1>1. (IF attempt = 0 THEN 0 ELSE (attempt - 1) % Slots) + 1 \in 1 .. Slots
  BY DEF Slots
<1>2. QED
  BY <1>1 DEF Base, Schedule

(* No attempt waits for less than 24 seconds, for less than four fifths of *)
(* its entry of the schedule, or for more than six fifths of it            *)
(* (backoff_for; "scaled by deterministic 20% jitter").                    *)
THEOREM DelaysBounded ==
    ASSUME NEW attempt \in Nat
    PROVE  /\ backoff_for(attempt) >= 24000
           /\ 5 * backoff_for(attempt) >= 4 * Base(attempt)
           /\ 5 * backoff_for(attempt) <= 6 * Base(attempt)
<1>1. Jitter(attempt) \in 20 .. 29
  BY DEF Jitter
<1>2. ASSUME NEW base \in {30000, 120000, 480000, 1800000, 7200000, 21600000},
             NEW jitter \in 20 .. 29
      PROVE  /\ (base * jitter) \div 25 >= 24000
             /\ 5 * ((base * jitter) \div 25) >= 4 * base
             /\ 5 * ((base * jitter) \div 25) <= 6 * base
             /\ base = 7200000 /\ jitter = 29 => (base * jitter) \div 25 = 8352000
  <2>1. base = 25 * (base \div 25)
    OBVIOUS
  <2>2. QED
    BY <2>1
<1>3. QED
  BY <1>1, <1>2, BaseInSchedule DEF backoff_for, Truncated
===============================================================================
