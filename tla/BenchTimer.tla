----------------------------- MODULE BenchTimer -----------------------------
(***************************************************************************)
(* The hardware counter of evaluation/common/hal.h and the two timers built *)
(* on it: bench_current_time of renode/bench_main.c, which counts periods,  *)
(* and the REC_START and REC_END_ADD macros of renode/bench_record.c, which *)
(* do not.                                                                  *)
(***************************************************************************)
EXTENDS Integers

CONSTANTS Builds,    \* "SysTick" counts down, "DWT" (-DPQM4_DWT) counts up
          Period,    \* states of the counter: 2^24 and 2^32 in the code
          MaxTicks   \* bound on the ticks between a reset and a report

ASSUME BuildAssumption == Builds \subseteq {"SysTick", "DWT"}
ASSUME PeriodAssumption == Period \in Nat \ {0, 1}
ASSUME TicksAssumption == MaxTicks \in Nat

VARIABLES build,
          counter, flag,     \* CVR or CYCCNT; COUNTFLAG
          s_wraps, s_start,  \* as in bench_main.c
          rec_t0, total,     \* as in bench_record.c; total is its accumulator
          timing,    \* which timer runs: "off", "bench", "flagRead", "region"
          now,       \* history: ticks since the timer was started
          lost,      \* history: periods that ended with COUNTFLAG still set
          spent,     \* history: ticks inside the regions added to total
          reported   \* what bench_current_time returned, and when

clock == <<counter, flag, now, lost>>
wrapTimer == <<s_wraps, s_start, reported>>
regionTimer == <<rec_t0, total, spent>>
timer == <<build, clock, wrapTimer, regionTimer, timing>>

Down == build = "SysTick"
NoReport == [said |-> 0, at |-> 0, lost |-> 0]

hal_elapsed(s, e) == IF Down THEN (s - e) % Period ELSE (e - s) % Period

TimerInit == /\ build \in Builds
             /\ counter = 0 /\ flag = FALSE /\ s_wraps = 0 /\ s_start = 0
             /\ rec_t0 = 0 /\ total = 0 /\ timing = "off"
             /\ now = 0 /\ lost = 0 /\ spent = 0 /\ reported = NoReport

\* The counter never stops, but while no timer runs nothing reads it.
\* COUNTFLAG is set by the step from 1 to 0, not by the reload.  A region is
\* shorter than a period (bench_record.c:15-20).
Tick == /\ timing # "off"
        /\ timing \in {"bench", "flagRead"} => now < MaxTicks
        /\ timing = "region" => now < Period - 1
        /\ counter' = IF ~Down THEN (counter + 1) % Period
                      ELSE IF counter = 0 THEN Period - 1 ELSE counter - 1
        /\ flag' = (flag \/ (Down /\ counter = 1))
        /\ now' = now + 1
        /\ lost' = IF flag /\ Down /\ counter = 1 THEN lost + 1 ELSE lost
        /\ UNCHANGED <<build, wrapTimer, regionTimer, timing>>

\* bench_current_time(1).  The DWT build restarts the counter; the SysTick
\* build leaves COUNTFLAG as it is.
ResetTime == /\ timing \in {"off", "bench"}
             /\ timing' = "bench" /\ now' = 0 /\ lost' = 0
             /\ counter' = IF Down THEN counter ELSE 0
             /\ s_wraps' = 0 /\ s_start' = counter'
             /\ reported' = NoReport
             /\ UNCHANGED <<build, flag, regionTimer>>

\* bench_current_time(0), first half: reading CSR clears COUNTFLAG.
\* Slip: the count starts from the flag of the last read.
ReadFlagOnce == /\ timing = "bench" /\ timing' = "flagRead"
                /\ s_wraps' = IF flag THEN 1 ELSE 0
                /\ flag' = FALSE
                /\ UNCHANGED <<build, counter, now, lost, s_start, reported, regionTimer>>

ReadFlag == /\ timing = "bench" /\ timing' = "flagRead"
            /\ s_wraps' = IF Down /\ flag THEN s_wraps + 1 ELSE s_wraps
            /\ flag' = IF Down THEN FALSE ELSE flag
            /\ UNCHANGED <<build, counter, now, lost, s_start, reported, regionTimer>>

\* Second half: the counter is read and the time returned.
Report == /\ timing = "flagRead" /\ timing' = "bench"
          /\ reported' = [said |-> s_wraps * Period + hal_elapsed(s_start, counter),
                          at |-> now, lost |-> IF flag THEN lost + 1 ELSE lost]
          /\ UNCHANGED <<build, clock, s_wraps, s_start, regionTimer>>

\* No call follows, so the counts of the last one are forgotten.
StopTime == /\ timing \in {"bench", "off"} /\ timing' = "off"
            /\ s_wraps' = 0 /\ s_start' = 0
            /\ now' = 0 /\ lost' = 0 /\ reported' = NoReport
            /\ UNCHANGED <<build, counter, flag, regionTimer>>

REC_START == /\ timing' = "region" /\ rec_t0' = counter /\ now' = 0
             /\ UNCHANGED <<build, counter, flag, lost, wrapTimer, total, spent>>

\* Slip: start and end are taken in the wrong order.
RecEndSwapped == /\ timing' = "off" /\ now' = 0
                 /\ total' = total + hal_elapsed(counter, rec_t0)
                 /\ spent' = spent + now
                 /\ UNCHANGED <<build, counter, flag, lost, wrapTimer, rec_t0>>

REC_END_ADD == /\ timing' = "off" /\ now' = 0
               /\ total' = total + hal_elapsed(rec_t0, counter)
               /\ spent' = spent + now
               /\ UNCHANGED <<build, counter, flag, lost, wrapTimer, rec_t0>>

ResetTotal == total' = 0 /\ spent' = 0

----------------------------------------------------------------------------
\* The cycles added up over the timed regions of record_bench are the cycles
\* that passed in them, wherever in its period the counter stood at each
\* start, in either build.
RecordTimeExact == total = spent

\* bench_current_time is off by whole periods only.  It is behind by no more
\* than the periods that ended while COUNTFLAG was still set, and the one that
\* ended between the two reads of the last call.  It is ahead by at most two:
\* COUNTFLAG may be left over from before the reset, and it is set when the
\* counter passes 0, which is before the counter comes back to s_start.  The
\* DWT build reports the time modulo its period.
TimeErrorBounded ==
  LET error == reported.said - reported.at
  IN  /\ error % Period = 0
      /\ Down => /\ error >= -Period * reported.lost
                 /\ error <= 2 * Period
      /\ ~Down => reported.said = reported.at % Period
=============================================================================
