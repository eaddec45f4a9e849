--------------------------- MODULE BenchMainProofs --------------------------
(***************************************************************************)
(* For any period of the counter, buffer, lines and numbers of records: the *)
(* timers are exact or wrong by whole periods, the driver reads a prefix of *)
(* the text, and every rejected record is accounted for.                    *)
(***************************************************************************)
EXTENDS BenchMain, TLAPS

(***************************************************************************)
(* The timers.                                                             *)
(***************************************************************************)
One(b) == IF b THEN 1 ELSE 0

\* Reloads of the counter since bench_current_time was reset, if COUNTFLAG was
\* old then: a reload follows each zero, and every zero but the first one's set
\* the flag.
Reloads(old) ==
  s_wraps + lost + One(flag) - old - One(counter = 0) + One(s_start = 0)

TimerTypes ==
  /\ build \in {"SysTick", "DWT"}
  /\ counter \in 0 .. Period - 1 /\ s_start \in 0 .. Period - 1 /\ rec_t0 \in 0 .. Period - 1
  /\ flag \in BOOLEAN /\ s_wraps \in Nat /\ now \in Nat /\ lost \in Nat
  /\ total \in Nat /\ spent \in Nat
  /\ timing \in {"off", "bench", "flagRead", "region"}
  /\ ~Down => ~flag /\ s_start = 0 /\ s_wraps = 0

\* The time since the reset is s_start - counter and whole periods.
SinceReset ==
  timing \in {"bench", "flagRead"} =>
    IF Down THEN \E old \in {0, 1} : now = s_start - counter + Period * Reloads(old)
    ELSE now % Period = counter

\* A region is shorter than a period, so the difference of the readings is it.
InRegion == timing = "region" => now < Period /\ hal_elapsed(rec_t0, counter) = now

TimerInv == TimerTypes /\ SinceReset /\ InRegion /\ RecordTimeExact /\ TimeErrorBounded

\* The difference of two readings, modulo the period.
LEMMA Difference ==
  ASSUME NEW x \in 0 .. Period - 1, NEW y \in 0 .. Period - 1
  PROVE  (x - y) % Period = IF y <= x THEN x - y ELSE x - y + Period
BY PeriodAssumption

\* Whole periods vanish.
LEMMA WholePeriods ==
  ASSUME NEW k \in Int  PROVE (Period * k) % Period = 0
BY PeriodAssumption

\* A reading and whole periods leave the reading.
LEMMA Remainder ==
  ASSUME NEW k \in Int, NEW x \in 0 .. Period - 1  PROVE (x + Period * k) % Period = x
BY PeriodAssumption

\* A reading is the number of ticks modulo the period, and so is the next one.
LEMMA NextReading ==
  ASSUME NEW n \in Nat
  PROVE  /\ n % Period \in 0 .. Period - 1
         /\ (n + 1) % Period = IF n % Period = Period - 1 THEN 0 ELSE (n % Period) + 1
         /\ ((n % Period) + 1) % Period = (n + 1) % Period
<1>1. PICK q \in Int, r \in 0 .. Period - 1 : n = r + Period * q /\ n % Period = r
  <2>1. n \div Period \in Int /\ n % Period \in 0 .. Period - 1
    BY PeriodAssumption
  <2>2. n = (n % Period) + Period * (n \div Period)
    BY PeriodAssumption
  <2> QED BY <2>1, <2>2
<1>2. CASE r = Period - 1
  <2>1. n + 1 = Period * (q + 1)
    BY <1>1, <1>2, PeriodAssumption
  <2>2. (n + 1) % Period = 0
    BY <2>1, WholePeriods
  <2>3. (r + 1) % Period = 0
    BY <1>2, PeriodAssumption
  <2> QED BY <1>1, <1>2, <2>2, <2>3
<1>3. CASE r # Period - 1
  <2>1. n + 1 = (r + 1) + Period * q /\ r + 1 \in 0 .. Period - 1
    BY <1>1, <1>3, PeriodAssumption
  <2>2. (n + 1) % Period = r + 1
    BY <2>1, Remainder
  <2>3. (r + 1) % Period = r + 1
    BY <2>1, PeriodAssumption
  <2> QED BY <1>1, <1>3, <2>2, <2>3
<1> QED BY <1>2, <1>3

\* Before the program starts.
LEMMA TimerStart == Init => TimerInv
<1> SUFFICES ASSUME Init PROVE TimerInv
  OBVIOUS
<1>1. 0 % Period = 0 /\ 0 \in 0 .. Period - 1
  BY PeriodAssumption
<1>2. /\ reported.said = 0 /\ reported.at = 0 /\ reported.lost = 0
      /\ timing = "off" /\ build \in {"SysTick", "DWT"}
      /\ counter = 0 /\ flag = FALSE /\ s_wraps = 0 /\ s_start = 0
      /\ rec_t0 = 0 /\ total = 0 /\ now = 0 /\ lost = 0 /\ spent = 0
  BY BuildAssumption DEF Init, TimerInit, NoReport
<1>3. TimeErrorBounded
  BY <1>1, <1>2, PeriodAssumption DEF TimeErrorBounded
<1> QED BY <1>1, <1>2, <1>3 DEF TimerInv, TimerTypes, SinceReset, InRegion, RecordTimeExact

\* A region's time is what hal_elapsed makes of the two readings.
LEMMA RegionTick ==
  ASSUME TimerTypes, InRegion, timing = "region", Tick
  PROVE  InRegion'
<1>1. /\ now < Period /\ hal_elapsed(rec_t0, counter) = now
      /\ now' = now + 1 /\ now' < Period /\ UNCHANGED <<rec_t0, build>>
      /\ counter' = IF ~Down THEN (counter + 1) % Period
                    ELSE IF counter = 0 THEN Period - 1 ELSE counter - 1
  BY PeriodAssumption DEF InRegion, Tick, regionTimer, TimerTypes
<1>2. counter \in 0 .. Period - 1 /\ rec_t0 \in 0 .. Period - 1 /\ now \in Nat
  BY DEF TimerTypes
<1>3. (counter + 1) % Period = IF counter = Period - 1 THEN 0 ELSE counter + 1
  BY <1>2, PeriodAssumption
<1>4. counter' \in 0 .. Period - 1
  BY <1>1, <1>2, <1>3, PeriodAssumption
<1>5. CASE Down
  <2>1. now = IF counter <= rec_t0 THEN rec_t0 - counter ELSE rec_t0 - counter + Period
    BY <1>1, <1>2, <1>5, Difference DEF hal_elapsed
  <2>2. counter' = IF counter = 0 THEN Period - 1 ELSE counter - 1
    BY <1>1, <1>5
  <2>3. hal_elapsed(rec_t0, counter)'
          = IF counter' <= rec_t0 THEN rec_t0 - counter' ELSE rec_t0 - counter' + Period
    BY <1>1, <1>2, <1>4, <1>5, Difference DEF hal_elapsed, Down
  <2>4. hal_elapsed(rec_t0, counter)' = now + 1
    BY <1>1, <1>2, <2>1, <2>2, <2>3, PeriodAssumption
  <2> QED BY <1>1, <2>4 DEF InRegion
<1>6. CASE ~Down
  <2>1. now = IF rec_t0 <= counter THEN counter - rec_t0 ELSE counter - rec_t0 + Period
    BY <1>1, <1>2, <1>6, Difference DEF hal_elapsed
  <2>2. counter' = IF counter = Period - 1 THEN 0 ELSE counter + 1
    BY <1>1, <1>3, <1>6
  <2>3. hal_elapsed(rec_t0, counter)'
          = IF rec_t0 <= counter' THEN counter' - rec_t0 ELSE counter' - rec_t0 + Period
    BY <1>1, <1>2, <1>4, <1>6, Difference DEF hal_elapsed, Down
  <2>4. hal_elapsed(rec_t0, counter)' = now + 1
    BY <1>1, <1>2, <2>1, <2>2, <2>3, PeriodAssumption
  <2> QED BY <1>1, <2>4 DEF InRegion
<1> QED BY <1>5, <1>6

\* A tick moves time and counter together; a reload follows a zero.
LEMMA BenchTick ==
  ASSUME TimerTypes, SinceReset, timing \in {"bench", "flagRead"}, Tick
  PROVE  SinceReset'
<1>1. /\ now' = now + 1 /\ UNCHANGED <<build, s_start, s_wraps, timing>>
      /\ counter' = IF ~Down THEN (counter + 1) % Period
                    ELSE IF counter = 0 THEN Period - 1 ELSE counter - 1
      /\ flag' = (flag \/ (Down /\ counter = 1))
      /\ lost' = IF flag /\ Down /\ counter = 1 THEN lost + 1 ELSE lost
  BY DEF Tick, wrapTimer
<1>2. /\ counter \in 0 .. Period - 1 /\ s_start \in 0 .. Period - 1 /\ now \in Nat
      /\ s_wraps \in Nat /\ lost \in Nat /\ flag \in BOOLEAN
  BY DEF TimerTypes
<1>3. CASE ~Down
  <2>1. now % Period = counter
    BY <1>3 DEF SinceReset
  <2>2. now' % Period = counter'
    BY <1>1, <1>2, <1>3, <2>1, NextReading
  <2> QED BY <1>1, <1>3, <2>2 DEF SinceReset, Down
<1>4. CASE Down
  <2>1. PICK old \in {0, 1} : now = s_start - counter + Period * Reloads(old)
    BY <1>4 DEF SinceReset
  <2> DEFINE k == Reloads(old)
             k2 == Reloads(old)'
  <2>2. k \in Int /\ k2 \in Int
    BY <1>1, <1>2, <1>4, <2>1 DEF Reloads, One
  <2>3. k2 = IF counter = 0 THEN k + 1 ELSE k
    <3>1. CASE counter = 0
      <4>1. counter' = Period - 1 /\ counter' # 0 /\ flag' = flag /\ lost' = lost
        BY <1>1, <1>2, <1>4, <3>1, PeriodAssumption
      <4> QED BY <1>1, <1>2, <2>1, <3>1, <4>1 DEF Reloads, One
    <3>2. CASE counter = 1
      <4>0. flag' = TRUE
        BY <1>1, <1>4, <3>2, Zenon
      <4>1. counter' = 0 /\ flag' /\ lost' = lost + One(flag)
        BY <1>1, <1>2, <1>4, <3>2, <4>0 DEF One
      <4> QED BY <1>1, <1>2, <2>1, <3>2, <4>1 DEF Reloads, One
    <3>3. CASE counter # 0 /\ counter # 1
      <4>1. counter' # 0 /\ flag' = flag /\ lost' = lost
        BY <1>1, <1>2, <1>4, <3>3
      <4> QED BY <1>1, <1>2, <2>1, <3>3, <4>1 DEF Reloads, One
    <3> QED BY <3>1, <3>2, <3>3
  <2>4. now = s_start - counter + Period * k
    BY <2>1
  <2> HIDE DEF k, k2
  <2>5. now' = s_start - counter' + Period * k2
    BY <1>1, <1>2, <1>4, <2>2, <2>3, <2>4, PeriodAssumption
  <2>6. now' = (s_start - counter + Period * Reloads(old))'
    BY <1>1, <2>5 DEF k2
  <2>7. Down'
    BY <1>1, <1>4 DEF Down
  <2> QED BY <2>6, <2>7 DEF SinceReset
<1> QED BY <1>3, <1>4

\* Two multiples of the period are ordered like their factors.
LEMMA PeriodsOrdered ==
  ASSUME NEW m \in Int, NEW n \in Int, m <= n  PROVE Period * m <= Period * n
BY PeriodAssumption

\* A report is off by whole periods, within the bounds.
LEMMA ReportBounded ==
  ASSUME TimerTypes, SinceReset, Report
  PROVE  TimeErrorBounded' /\ TimerTypes'
<1>1. /\ timing = "flagRead" /\ timing' = "bench" /\ build' = build
      /\ reported' = [said |-> s_wraps * Period + hal_elapsed(s_start, counter),
                      at |-> now, lost |-> IF flag THEN lost + 1 ELSE lost]
  BY DEF Report
<1>2. /\ reported'.said = s_wraps * Period + hal_elapsed(s_start, counter)
      /\ reported'.at = now /\ reported'.lost = lost + One(flag)
  BY <1>1 DEF One, TimerTypes
<1>3. /\ counter \in 0 .. Period - 1 /\ s_start \in 0 .. Period - 1 /\ now \in Nat
      /\ s_wraps \in Nat /\ lost \in Nat /\ One(flag) \in {0, 1} /\ Period \in Nat
  BY PeriodAssumption DEF TimerTypes, One
<1>4. TimerTypes'
  BY <1>1 DEF Report, TimerTypes, clock, regionTimer, Down
<1>5. CASE Down
  <2>1. PICK old \in {0, 1} : now = s_start - counter + Period * Reloads(old)
    BY <1>1, <1>5 DEF SinceReset
  <2> DEFINE m == One(counter > s_start) + old + One(counter = 0) - One(s_start = 0)
             L == lost + One(flag)
  <2>2. m \in 0 .. 2 /\ L \in Nat
    BY <1>3, <2>1 DEF One
  <2>3. Reloads(old) = s_wraps + L - old - One(counter = 0) + One(s_start = 0)
    BY <1>3, <2>1 DEF Reloads, One
  <2>4. hal_elapsed(s_start, counter) = s_start - counter + Period * One(counter > s_start)
    BY <1>3, <1>5, Difference DEF hal_elapsed, One
  <2>5. Reloads(old) = s_wraps + One(counter > s_start) - (m - L)
    BY <1>3, <2>1, <2>3 DEF One
  <2> HIDE DEF m, L
  <2>6. PICK r, g \in Int : r = Reloads(old) /\ g = One(counter > s_start)
    BY <1>3, <2>2, <2>5 DEF One
  <2>7. reported'.said - reported'.at = Period * (m - L)
    BY <1>2, <1>3, <2>1, <2>2, <2>4, <2>5, <2>6
  <2>8. m - L \in Int /\ -L <= m - L /\ m - L <= 2 /\ -L \in Int
    BY <2>2
  <2>9. Period * (-L) <= Period * (m - L) /\ Period * (m - L) <= Period * 2
    BY <2>8, PeriodsOrdered
  <2>10. reported'.lost = L
    BY <1>2 DEF L
  <2>11. (Period * (m - L)) % Period = 0
    BY <2>8, WholePeriods
  <2>12. Down'
    BY <1>1, <1>5 DEF Down
  <2>13. -Period * L = Period * (-L) /\ 2 * Period = Period * 2
    BY <1>3, <2>2
  <2> QED BY <2>7, <2>9, <2>10, <2>11, <2>12, <2>13, <1>4 DEF TimeErrorBounded
<1>6. CASE ~Down
  <2>1. now % Period = counter /\ s_start = 0 /\ s_wraps = 0
    BY <1>1, <1>6 DEF SinceReset, TimerTypes
  <2>2. hal_elapsed(s_start, counter) = counter
    BY <1>3, <1>6, <2>1 DEF hal_elapsed
  <2>3. reported'.said = counter /\ reported'.at = now
    BY <1>2, <1>3, <2>1, <2>2
  <2>4. PICK q \in Int : now = counter + Period * q
    <3>1. now \div Period \in Int /\ now = (now % Period) + Period * (now \div Period)
      BY <1>3, PeriodAssumption
    <3> QED BY <2>1, <3>1
  <2>5. counter - now = Period * (-q) /\ -q \in Int
    BY <1>3, <2>4
  <2>6. (counter - now) % Period = 0
    BY <2>5, WholePeriods
  <2>7. ~Down'
    BY <1>1, <1>6 DEF Down
  <2> QED BY <1>4, <2>1, <2>3, <2>6, <2>7 DEF TimeErrorBounded
<1> QED BY <1>5, <1>6

----------------------------------------------------------------------------
\* What a step of the benchmark may do to the timers.
TimerStep ==
  \/ Tick \/ ResetTime \/ ReadFlag \/ Report \/ StopTime
  \/ timing = "off" /\ REC_START
  \/ timing = "region" /\ REC_END_ADD
  \/ timing = "off" /\ ResetTotal /\ UNCHANGED <<build, clock, wrapTimer, rec_t0, timing>>
  \/ UNCHANGED timer

\* Each step of a timer keeps what was said of it.
LEMMA TimerNext == TimerInv /\ TimerStep => TimerInv'
<1> SUFFICES ASSUME TimerInv, TimerStep  PROVE TimerInv'
  OBVIOUS
<1> USE DEF clock, wrapTimer, regionTimer
<1>1. TimerTypes /\ SinceReset /\ InRegion /\ RecordTimeExact /\ TimeErrorBounded
  BY DEF TimerInv
<1>2. Period \in Nat /\ Period > 1 /\ 0 % Period = 0 /\ 0 \in 0 .. Period - 1
  BY PeriodAssumption
<1>3. ASSUME UNCHANGED <<build, reported>>  PROVE TimeErrorBounded'
  <2>1. Down' = Down
    BY <1>3 DEF Down
  <2> QED BY <1>1, <1>3, <2>1 DEF TimeErrorBounded
<1>4. ASSUME UNCHANGED build, reported' = NoReport  PROVE TimeErrorBounded'
  <2>1. reported'.said = 0 /\ reported'.at = 0 /\ reported'.lost = 0
    BY <1>4 DEF NoReport
  <2> QED BY <1>2, <2>1 DEF TimeErrorBounded
<1>5. CASE Tick
  <2>1. counter' \in 0 .. Period - 1
    <3>1. (counter + 1) % Period \in 0 .. Period - 1
      BY <1>1, <1>2 DEF TimerTypes
    <3> QED BY <1>1, <1>2, <1>5, <3>1 DEF Tick, TimerTypes
  <2>2. flag' \in BOOLEAN /\ (~Down => ~flag')
    <3>1. flag' = (flag \/ (Down /\ counter = 1)) /\ flag \in BOOLEAN /\ (~Down => ~flag)
      BY <1>1, <1>5 DEF Tick, TimerTypes
    <3> QED BY <3>1, Zenon
  <2>3. TimerTypes'
    BY <1>1, <1>5, <2>1, <2>2 DEF Tick, TimerTypes, Down
  <2>4. SinceReset'
    <3>1. CASE timing \in {"bench", "flagRead"}
      BY <1>1, <1>5, <3>1, BenchTick
    <3>2. CASE timing \notin {"bench", "flagRead"}
      BY <1>5, <3>2 DEF Tick, SinceReset
    <3> QED BY <3>1, <3>2
  <2>5. InRegion'
    <3>1. CASE timing = "region"
      BY <1>1, <1>5, <3>1, RegionTick
    <3>2. CASE timing # "region"
      BY <1>5, <3>2 DEF Tick, InRegion
    <3> QED BY <3>1, <3>2
  <2>6. RecordTimeExact' /\ TimeErrorBounded'
    BY <1>1, <1>3, <1>5 DEF Tick, RecordTimeExact
  <2> QED BY <2>3, <2>4, <2>5, <2>6 DEF TimerInv
<1>6. CASE ResetTime
  <2>1. /\ timing' = "bench" /\ now' = 0 /\ lost' = 0 /\ UNCHANGED <<build, flag, rec_t0, total, spent>>
        /\ counter' = IF Down THEN counter ELSE 0
        /\ s_wraps' = 0 /\ s_start' = counter' /\ reported' = NoReport
    BY <1>6 DEF ResetTime
  <2>2. TimerTypes'
    BY <1>1, <1>2, <2>1 DEF TimerTypes, Down
  <2>3. SinceReset'
    <3>1. CASE Down
      <4>1. PICK old \in {0, 1} : old = One(flag)
        BY DEF One
      <4>2. Reloads(old)' = 0 /\ s_start' - counter' = 0
        BY <1>1, <2>1, <2>2, <4>1 DEF Reloads, One, TimerTypes
      <4>3. now' = (s_start - counter + Period * Reloads(old))'
        BY <1>2, <2>1, <4>2
      <4> QED BY <2>1, <3>1, <4>3 DEF SinceReset, Down
    <3>2. CASE ~Down
      BY <1>2, <2>1, <3>2 DEF SinceReset, Down
    <3> QED BY <3>1, <3>2
  <2> QED BY <1>1, <1>4, <2>1, <2>2, <2>3 DEF TimerInv, InRegion, RecordTimeExact
<1>7. CASE ReadFlag
  <2>1. /\ timing = "bench" /\ timing' = "flagRead"
        /\ s_wraps' = IF Down /\ flag THEN s_wraps + 1 ELSE s_wraps
        /\ flag' = IF Down THEN FALSE ELSE flag
        /\ UNCHANGED <<build, counter, now, lost, s_start, reported, rec_t0, total, spent>>
    BY <1>7 DEF ReadFlag
  <2>2. TimerTypes'
    <3>1. CASE Down
      <4>1. flag' = FALSE
        BY <2>1, <3>1, Zenon
      <4>2. s_wraps' = s_wraps \/ s_wraps' = s_wraps + 1
        BY <2>1, Zenon
      <4>3. Down'
        BY <2>1, <3>1 DEF Down
      <4>4. /\ timing' = "flagRead"
            /\ UNCHANGED <<build, counter, now, lost, s_start, rec_t0, total, spent>>
        BY <2>1
      <4>5. s_wraps' \in Nat
        BY <1>1, <4>2 DEF TimerTypes
      <4>6. flag' \in BOOLEAN
        BY <4>1, Zenon
      <4> QED BY <1>1, <4>3, <4>4, <4>5, <4>6 DEF TimerTypes
    <3>2. CASE ~Down
      <4>1. flag' = flag /\ s_wraps' = s_wraps
        BY <2>1, <3>2, Zenon
      <4>2. ~Down'
        BY <2>1, <3>2 DEF Down
      <4> QED BY <1>1, <2>1, <3>2, <4>1, <4>2 DEF TimerTypes
    <3> QED BY <3>1, <3>2
  <2>3. SinceReset'
    <3>1. CASE Down
      <4>1. PICK old \in {0, 1} : now = s_start - counter + Period * Reloads(old)
        BY <1>1, <2>1, <3>1 DEF SinceReset
      <4>2. Reloads(old)' = Reloads(old)
        BY <1>1, <2>1, <3>1 DEF Reloads, One, TimerTypes
      <4>3. now' = (s_start - counter + Period * Reloads(old))'
        BY <2>1, <4>1, <4>2
      <4> QED BY <2>1, <3>1, <4>3 DEF SinceReset, Down
    <3>2. CASE ~Down
      BY <1>1, <2>1, <3>2 DEF SinceReset, Down
    <3> QED BY <3>1, <3>2
  <2> QED BY <1>1, <1>3, <2>1, <2>2, <2>3 DEF TimerInv, InRegion, RecordTimeExact
<1>8. CASE Report
  <2>1. TimeErrorBounded' /\ TimerTypes'
    BY <1>1, <1>8, ReportBounded
  <2>2. /\ timing = "flagRead" /\ timing' = "bench"
        /\ UNCHANGED <<build, counter, flag, now, lost, s_wraps, s_start, rec_t0, total, spent>>
    BY <1>8 DEF Report
  <2>3. SinceReset'
    BY <1>1, <2>2 DEF SinceReset, Down, Reloads
  <2> QED BY <1>1, <2>1, <2>2, <2>3 DEF TimerInv, InRegion, RecordTimeExact
<1>9. CASE StopTime
  <2>1. TimerTypes'
    BY <1>1, <1>2, <1>9 DEF StopTime, TimerTypes, Down
  <2> QED BY <1>1, <1>4, <1>9, <2>1
          DEF StopTime, TimerInv, SinceReset, InRegion, RecordTimeExact
<1>10. CASE timing = "off" /\ REC_START
  <2>1. TimerTypes'
    BY <1>1, <1>2, <1>10 DEF REC_START, TimerTypes, Down
  <2>2. now' < Period /\ hal_elapsed(rec_t0, counter)' = now'
    <3>1. counter - counter = 0 /\ rec_t0' = counter /\ counter' = counter /\ now' = 0
      BY <1>1, <1>10 DEF REC_START, TimerTypes
    <3>2. hal_elapsed(rec_t0, counter)' = 0 % Period
      BY <3>1 DEF hal_elapsed
    <3> QED BY <1>2, <3>1, <3>2
  <2> QED BY <1>1, <1>3, <1>10, <2>1, <2>2
          DEF REC_START, TimerInv, SinceReset, InRegion, RecordTimeExact
<1>11. CASE timing = "region" /\ REC_END_ADD
  <2>1. total' = total + now /\ spent' = spent + now
    BY <1>1, <1>11 DEF REC_END_ADD, InRegion
  <2>2. TimerTypes'
    BY <1>1, <1>11, <2>1 DEF REC_END_ADD, TimerTypes, Down
  <2> QED BY <1>1, <1>3, <1>11, <2>1, <2>2
          DEF REC_END_ADD, TimerInv, SinceReset, InRegion, RecordTimeExact
<1>12. CASE timing = "off" /\ ResetTotal /\ UNCHANGED <<build, clock, wrapTimer, rec_t0, timing>>
  <2>1. TimerTypes'
    BY <1>1, <1>12 DEF ResetTotal, TimerTypes, Down
  <2> QED BY <1>1, <1>3, <1>12, <2>1
          DEF ResetTotal, TimerInv, SinceReset, InRegion, RecordTimeExact
<1>13. CASE UNCHANGED timer
  <2>1. UNCHANGED <<build, counter, flag, now, lost, s_wraps, s_start, reported, rec_t0, total,
                    spent, timing>>
    BY <1>13 DEF timer
  <2>2. TimerTypes'
    BY <1>1, <2>1 DEF TimerTypes, Down
  <2>3. SinceReset'
    BY <1>1, <2>1 DEF SinceReset, Down, Reloads
  <2>4. InRegion'
    BY <1>1, <2>1 DEF InRegion, hal_elapsed, Down
  <2> QED BY <1>1, <1>3, <2>1, <2>2, <2>3, <2>4 DEF TimerInv, RecordTimeExact
<1> QED BY <1>5, <1>6, <1>7, <1>8, <1>9, <1>10, <1>11, <1>12, <1>13 DEF TimerStep

----------------------------------------------------------------------------
(***************************************************************************)
(* The text.                                                              *)
(***************************************************************************)
\* How much of what was printed the buffer holds.
Kept == IF printed < OUT_SIZE THEN printed ELSE OUT_SIZE - 1

\* The buffer holds what was printed up to its end, and NULs behind it; what
\* hdr does not say yet is the line in hand.
TextInv ==
  /\ len \in 0 .. OUT_SIZE - 1 /\ pending \in {NUL} \cup 0 .. OUT_SIZE - 1 /\ printed \in Nat
  /\ Kept = len + (IF pending = NUL THEN 0 ELSE pending)
  /\ out \in [0 .. OUT_SIZE - 1 -> Nat \cup {NUL}]
  /\ \A k \in 0 .. OUT_SIZE - 1 : out[k] = IF k < Kept THEN k ELSE NUL
  /\ pc \in {"boot", "benchmark", "finish", "exited"} \cup Lines \cup Loops
  /\ pending # NUL => pc \in Lines \cup {"benchmark"}
  /\ pc = "boot" => printed = 0
  /\ done \in {0, 1} /\ (done = 1 <=> pc = "exited")

\* The lines of record_bench, and what follows each.
LEMMA LinesAre ==
  /\ Lines = {"START", "ENC_START", "ENC_RESULT", "ENC_DONE", "DEC_START", "DEC_RESULT",
              "DEC_DONE", "MASK_START", "MASK_RESULT", "MASK_DONE", "END"}
  /\ Following["START"] = "ENC_START" /\ Following["ENC_START"] = "enc"
  /\ Following["enc"] = "ENC_RESULT" /\ Following["ENC_RESULT"] = "ENC_DONE"
  /\ Following["ENC_DONE"] = "DEC_START" /\ Following["DEC_START"] = "dec"
  /\ Following["dec"] = "DEC_RESULT" /\ Following["DEC_RESULT"] = "DEC_DONE"
  /\ Following["DEC_DONE"] = "MASK_START" /\ Following["MASK_START"] = "mask"
  /\ Following["mask"] = "MASK_RESULT" /\ Following["MASK_RESULT"] = "MASK_DONE"
  /\ Following["MASK_DONE"] = "END" /\ Following["END"] = "finish"
BY DEF Lines, Loops, Following

\* Nothing has been printed before the program starts.
LEMMA TextStart == Init => TextInv
BY SizeAssumption DEF Init, TextInv, Kept, NUL

\* A line is written behind the text, cut at the end of the buffer.
LEMMA WritesLine ==
  ASSUME TextInv, pending = NUL, NEW n \in Nat, WriteLine(n)
  PROVE  /\ pending' \in 0 .. OUT_SIZE - 1 /\ len' = len
         /\ printed' \in Nat /\ Kept' = len' + pending'
         /\ out' \in [0 .. OUT_SIZE - 1 -> Nat \cup {NUL}]
         /\ \A k \in 0 .. OUT_SIZE - 1 : out'[k] = IF k < Kept' THEN k ELSE NUL
<1>1. /\ OUT_SIZE \in Nat /\ OUT_SIZE > 0 /\ len \in 0 .. OUT_SIZE - 1 /\ printed \in Nat
      /\ Kept = len
  BY SizeAssumption DEF TextInv
<1>2. avail = OUT_SIZE - len /\ avail > 0
  BY <1>1 DEF avail
<1> DEFINE s == Stored(n)
<1>3. s = IF n < OUT_SIZE - len THEN n ELSE OUT_SIZE - len - 1
  BY <1>2 DEF Stored
<1>4. s \in Nat /\ len + s \in 0 .. OUT_SIZE - 1
  BY <1>1, <1>3
<1>5. /\ pending' = s /\ out' = Written(n) /\ printed' = printed + n /\ len' = len
  BY <1>1, <1>2 DEF WriteLine
<1>6. Written(n) = [k \in 0 .. OUT_SIZE - 1 |->
                      IF len <= k /\ k < len + s THEN printed + k - len
                      ELSE IF k = len + s THEN NUL ELSE out[k]]
  BY DEF Written
<1> HIDE DEF s
<1>7. Kept' = len + s
  BY <1>1, <1>3, <1>5 DEF Kept
<1>8. s > 0 => printed = len
  BY <1>1, <1>3 DEF Kept
<1>9. \A k \in 0 .. OUT_SIZE - 1 : out[k] = IF k < len THEN k ELSE NUL
  BY <1>1 DEF TextInv
<1>10. ASSUME NEW k \in 0 .. OUT_SIZE - 1
       PROVE  out'[k] = IF k < Kept' THEN k ELSE NUL
  <2>1. out'[k] = IF len <= k /\ k < len + s THEN printed + k - len
                  ELSE IF k = len + s THEN NUL ELSE out[k]
    BY <1>5, <1>6
  <2>2. CASE len <= k /\ k < len + s
    <3>1. printed = len
      BY <1>1, <1>4, <1>8, <2>2
    <3> QED BY <1>1, <1>7, <2>1, <2>2, <3>1
  <2>3. CASE k = len + s
    BY <1>1, <1>4, <1>7, <2>1, <2>3
  <2>4. CASE k < len
    BY <1>1, <1>4, <1>7, <1>9, <2>1, <2>4
  <2>5. CASE k > len + s
    BY <1>1, <1>4, <1>7, <1>9, <2>1, <2>5
  <2> QED BY <1>1, <1>4, <2>2, <2>3, <2>4, <2>5
<1>11. \A k \in 0 .. OUT_SIZE - 1 : (IF k < Kept' THEN k ELSE NUL) \in Nat \cup {NUL}
  OBVIOUS
<1>12. out' \in [0 .. OUT_SIZE - 1 -> Nat \cup {NUL}]
  <2>1. \A k \in 0 .. OUT_SIZE - 1 : Written(n)[k] \in Nat \cup {NUL}
    BY <1>5, <1>10, <1>11
  <2> QED BY <1>5, <1>6, <2>1
<1> QED BY <1>1, <1>4, <1>5, <1>7, <1>10, <1>12

\* Every step keeps the text in order; while the driver reads, len only grows.
LEMMA TextNext ==
  TextInv /\ [Next]_vars => TextInv' /\ len <= len' /\ (~running => UNCHANGED <<len, printed>>)
<1> SUFFICES ASSUME TextInv, [Next]_vars
             PROVE  TextInv' /\ len <= len' /\ (~running => UNCHANGED <<len, printed>>)
  OBVIOUS
<1>1. /\ OUT_SIZE \in Nat /\ OUT_SIZE > 0 /\ len \in 0 .. OUT_SIZE - 1 /\ printed \in Nat
      /\ Loops = {"enc", "dec", "mask"}
  BY SizeAssumption DEF TextInv, Loops
<1>2. ASSUME UNCHANGED <<text, done>>, pc # "exited", pc' # "exited", pc' # "boot" \/ pc' = pc,
             pc' \in {"boot", "benchmark", "finish"} \cup Lines \cup Loops,
             pending = NUL \/ pc' = pc
      PROVE  TextInv' /\ len' = len /\ printed' = printed
  BY <1>2 DEF TextInv, text, Kept
<1>3. ASSUME UNCHANGED <<pc, done>>, pending = NUL, pc \in Lines \cup {"benchmark"},
             NEW n \in Nat, WriteLine(n)
      PROVE  TextInv' /\ len' = len
  <2>1. /\ pending' \in 0 .. OUT_SIZE - 1 /\ len' = len
        /\ printed' \in Nat /\ Kept' = len' + pending'
        /\ out' \in [0 .. OUT_SIZE - 1 -> Nat \cup {NUL}]
        /\ \A k \in 0 .. OUT_SIZE - 1 : out'[k] = IF k < Kept' THEN k ELSE NUL
    BY <1>3, WritesLine
  <2>2. pending' # NUL
    BY <2>1 DEF NUL
  <2>3. pc # "boot"
    BY <1>3, LinesAre
  <2> QED BY <1>1, <1>3, <2>1, <2>2, <2>3 DEF TextInv
<1>4. ASSUME running, Boot \/ BenchmarkTime \/ BenchmarkEnd \/ Line \/ LineDone \/ Finish
      PROVE  TextInv' /\ len <= len'
  <2>1. CASE Boot
    <3>1. /\ pc = "boot" /\ pc' = "benchmark" /\ len' = 0 /\ done' = 0
          /\ out' = [out EXCEPT ![0] = NUL] /\ UNCHANGED <<printed, pending>>
      BY <2>1 DEF Boot
    <3>2. printed = 0 /\ pending = NUL
      BY <3>1, LinesAre DEF TextInv
    <3>3. Kept = 0 /\ Kept' = 0 /\ len = 0
      BY <1>1, <3>1, <3>2 DEF Kept, TextInv
    <3>4. out' = out
      <4>1. out[0] = NUL /\ out \in [0 .. OUT_SIZE - 1 -> Nat \cup {NUL}]
        BY <1>1, <3>3 DEF TextInv
      <4> QED BY <3>1, <4>1
    <3> QED BY <1>1, <3>1, <3>2, <3>3, <3>4 DEF TextInv
  <2>2. CASE BenchmarkTime
    BY <1>1, <1>2, <2>2 DEF BenchmarkTime
  <2>3. CASE BenchmarkEnd
    BY <1>1, <1>2, <2>3, LinesAre DEF BenchmarkEnd
  <2>4. CASE Line
    BY <1>1, <1>3, <2>4 DEF Line
  <2>5. CASE LineDone
    <3>1. /\ pending # NUL /\ len' = len + pending /\ pending' = NUL
          /\ UNCHANGED <<out, printed, done>>
          /\ pc' = IF pc \in Lines THEN Following[pc] ELSE pc
      BY <2>5 DEF LineDone, Publish
    <3>2. pc \in Lines \cup {"benchmark"} /\ pending \in 0 .. OUT_SIZE - 1 /\ Kept = len + pending
      BY <3>1 DEF TextInv
    <3>3. Kept' = Kept /\ Kept \in 0 .. OUT_SIZE - 1
      BY <1>1, <3>1 DEF Kept
    <3>4. pc' \in {"benchmark", "finish"} \cup Lines \cup Loops /\ pc' # "boot" /\ pc' # "exited"
      BY <1>1, <3>1, <3>2, LinesAre
    <3>5. done # 1
      BY <3>2, LinesAre DEF TextInv
    <3> QED BY <1>1, <3>1, <3>2, <3>3, <3>4, <3>5 DEF TextInv
  <2>6. CASE Finish
    <3>1. pc = "finish" /\ pc' = "exited" /\ done' = 1 /\ UNCHANGED text
      BY <2>6 DEF Finish
    <3>2. pending = NUL
      BY <3>1, LinesAre DEF TextInv
    <3> QED BY <1>1, <3>1, <3>2, LinesAre DEF TextInv, text, Kept
  <2> QED BY <1>4, <2>1, <2>2, <2>3, <2>4, <2>5, <2>6
<1>5. ASSUME NEW n \in LineSizes, BenchmarkLine(n)
      PROVE  TextInv' /\ len <= len'
  BY <1>1, <1>3, <1>5, LineAssumption DEF BenchmarkLine
<1>6. CASE StartRecord \/ EndRecord \/ EndLoop \/ Clock
  <2>1. UNCHANGED <<text, done>>
    BY <1>6 DEF StartRecord, EndRecord, EndLoop, Clock
  <2>2. UNCHANGED pc \/ (pc \in Loops /\ pc' = Following[pc])
    BY <1>6 DEF StartRecord, EndRecord, EndLoop, Clock
  <2>3. CASE UNCHANGED pc
    BY <1>1, <2>1, <2>3 DEF TextInv, text, Kept
  <2>4. CASE pc \in Loops /\ pc' = Following[pc]
    <3>1. pending = NUL /\ pc' \in Lines /\ pc' # "boot" /\ pc' # "exited" /\ pc # "exited"
      BY <1>1, <2>4, LinesAre DEF TextInv
    <3> QED BY <1>1, <1>2, <2>1, <3>1
  <2> QED BY <2>2, <2>3, <2>4
<1>7. CASE Host \/ UNCHANGED vars
  BY <1>1, <1>7 DEF Host, vars, TextInv, text, Kept
<1>8. ~running => UNCHANGED <<len, printed>>
  BY DEF Next, Firmware, Host, vars, text
<1> QED BY <1>4, <1>5, <1>6, <1>7, <1>8 DEF Next, Firmware

----------------------------------------------------------------------------
(***************************************************************************)
(* The driver.                                                            *)
(***************************************************************************)
Dumps == {<<>>} \cup UNION {[0 .. n - 1 -> Nat \cup {NUL}] : n \in 0 .. OUT_SIZE}

\* The length read is in the buffer for good; a driver that read done as 1 saw the
\* results finished, and stopped the machine.
Hosts == [at : {"poll", "length", "dump", "end"}, done : {0, 1, NoReply},
          len : {NoReply} \cup 0 .. OUT_SIZE - 1, dump : Dumps, warned : BOOLEAN]

HostInv ==
  /\ host \in Hosts /\ running \in BOOLEAN
  /\ host.at \in {"dump", "end"} => host.len <= len
  /\ host.at = "poll" => ~host.warned
  /\ host.done = 0 => host.at = "poll" \/ host.warned
  /\ host.at # "poll" /\ ~host.warned => ~running
  /\ host.done = 1 => host.at # "poll" /\ ~host.warned /\ done = 1
  /\ host.at \in {"dump", "end"} /\ host.done = 1 /\ host.len # NoReply => host.len = Kept
  /\ HostSeesPrefix

\* The driver waits before anything is printed.
LEMMA HostStart == Init => HostInv
<1> SUFFICES ASSUME Init PROVE HostInv
  OBVIOUS
<1>1. host = Waiting /\ running = TRUE
  BY DEF Init
<1>2. <<>> \in Dumps /\ 0 \in 0 .. OUT_SIZE - 1
  BY SizeAssumption DEF Dumps
<1> QED BY <1>1, <1>2 DEF HostInv, Hosts, Waiting, HostSeesPrefix

\* What it reads is the text as far as the length it read, and beyond that
\* nothing but text or NULs, at whatever moment it stops or reads the machine.
LEMMA HostNext ==
  TextInv /\ HostInv /\ [Next]_vars => HostInv'
<1> SUFFICES ASSUME TextInv, HostInv, [Next]_vars  PROVE HostInv'
  OBVIOUS
<1>1. /\ OUT_SIZE \in Nat /\ OUT_SIZE > 0 /\ DumpDefault \in 0 .. OUT_SIZE
      /\ len \in 0 .. OUT_SIZE - 1 /\ printed \in Nat
  BY SizeAssumption DEF TextInv
<1>2. /\ host \in Hosts
      /\ running \in BOOLEAN
  BY DEF HostInv
<1>3. /\ NoReply = -1 /\ host.len \in {NoReply} \cup 0 .. OUT_SIZE - 1
      /\ host.len \in Int /\ (host.len > 0 => host.len \in 0 .. OUT_SIZE - 1)
  BY <1>1, <1>2 DEF NoReply, Hosts
<1>4. CASE Firmware
  <2>1. ~ (host.at # "poll" /\ ~host.warned)
    BY <1>4 DEF Firmware, HostInv
  <2>2. TextInv' /\ len <= len' /\ len' \in 0 .. OUT_SIZE - 1
    BY TextNext DEF TextInv
  <2>3. UNCHANGED <<running, host>>
    BY <1>4 DEF Firmware
  <2>4. host.at \in {"dump", "end"} => host.len <= len'
    BY <1>1, <1>3, <2>2 DEF HostInv
  <2> QED BY <1>2, <2>1, <2>3, <2>4 DEF HostInv, HostSeesPrefix
<1>5. CASE Host
  <2>1. /\ UNCHANGED <<len, printed, pending, out, done, pc>> /\ Kept' = Kept
    BY <1>5 DEF Host, text, Kept
  <2>2. CASE HostPoll
    <3>1. PICK reply \in {done, NoReply} :
            /\ host.at = "poll" /\ running' = (reply = 0)
            /\ host' = [host EXCEPT !.done = reply,
                                    !.at = IF reply = 0 THEN "poll" ELSE "length"]
      BY <2>2 DEF HostPoll, Read_HexWord
    <3>2. reply \in {0, 1, NoReply} /\ done \in {0, 1} /\ NoReply = -1
      BY <3>1 DEF TextInv, NoReply
    <3>3. /\ host'.done = reply /\ host'.at = (IF reply = 0 THEN "poll" ELSE "length")
          /\ host'.warned = host.warned /\ host' \in Hosts
      BY <1>2, <3>1, <3>2 DEF Hosts
    <3>4. host.at = "poll" /\ host'.at \in {"poll", "length"}
          /\ (host'.at = "poll" <=> reply = 0)
      BY <3>1, <3>3
    <3>5. running' \in BOOLEAN /\ (reply # 0 => ~running')
      BY <3>1, Zenon
    <3>6. reply = 1 => done = 1 /\ ~host.warned
      <4>1. host.warned => FALSE
        BY <3>1 DEF HostInv
      <4> QED BY <3>1, <3>2, <4>1
    <3>7. ~host.warned
      BY <3>4 DEF HostInv
    <3>8. reply = 1 => done' = 1
      BY <2>1, <3>6
    <3>9. reply = 0 \/ ~running'
      BY <3>5
    <3>10. host'.at \notin {"dump", "end"}
      BY <3>4
    <3>11. host'.done = 1 => host'.at # "poll"
      BY <3>3, <3>4
    <3>12. host'.at # "poll" => ~running'
      BY <3>4, <3>9, Zenon
    <3>13. host'.done = 1 => done' = 1
      BY <3>3, <3>8
    <3>14. ~host'.warned /\ host' \in Hosts /\ (host'.done = 0 => host'.at = "poll")
      BY <3>3, <3>4, <3>7
    <3>15. HostSeesPrefix'
      BY <3>10 DEF HostSeesPrefix
    <3> QED BY <3>5, <3>10, <3>11, <3>12, <3>13, <3>14, <3>15, Zenon DEF HostInv
  <2>3. CASE HostTimeout
    <3>1. /\ host.at = "poll" /\ running' = running
          /\ host' = [host EXCEPT !.at = "length", !.warned = TRUE]
      BY <2>3 DEF HostTimeout
    <3>2. /\ host'.at = "length" /\ host'.warned = TRUE /\ host'.done = host.done
          /\ host' \in Hosts
      BY <1>2, <3>1 DEF Hosts
    <3>3. host.done # 1
      BY <3>1 DEF HostInv
    <3> QED BY <1>2, <3>1, <3>2, <3>3 DEF HostInv, HostSeesPrefix
  <2>4. CASE HostLength
    <3>1. PICK reply \in {len, NoReply} :
            /\ host.at = "length" /\ host' = [host EXCEPT !.at = "dump", !.len = reply]
            /\ running' = running
      BY <2>4 DEF HostLength, Read_HexWord
    <3>2. /\ host'.at = "dump" /\ host'.len = reply /\ host'.warned = host.warned
          /\ host'.done = host.done /\ host' \in Hosts
      BY <1>1, <1>2, <3>1 DEF Hosts
    <3>3. /\ ~host.warned => ~running
          /\ host.done = 1 => ~host.warned /\ done = 1
      BY <3>1 DEF HostInv
    <3>4. done = 1 => Kept = len
      BY LinesAre, <1>1 DEF TextInv
    <3>5. reply <= len
      BY <1>1, <3>1 DEF NoReply
    <3> QED BY <1>1, <1>2, <2>1, <3>1, <3>2, <3>3, <3>4, <3>5 DEF HostInv, HostSeesPrefix
  <2>5. CASE HostDump
    <3> DEFINE n == IF host.len > 0 THEN host.len ELSE DumpDefault
               d == [k \in 0 .. n - 1 |-> out[k]]
    <3>1. /\ host.at = "dump" /\ running' = FALSE
          /\ host' = [host EXCEPT !.at = "end", !.dump = d]
      BY <2>5 DEF HostDump
    <3>2. n \in 0 .. OUT_SIZE
      BY <1>1, <1>3
    <3>3. \A k \in 0 .. n - 1 : d[k] = IF k < Kept THEN k ELSE NUL
      <4> HIDE DEF n
      <4>1. \A k \in 0 .. n - 1 : k \in 0 .. OUT_SIZE - 1
        BY <1>1, <3>2
      <4>2. \A k \in 0 .. n - 1 : d[k] = out[k]
        OBVIOUS
      <4> HIDE DEF d
      <4> QED BY <4>1, <4>2 DEF TextInv
    <3>4. DOMAIN d = 0 .. n - 1
      OBVIOUS
    <3>5. d \in Dumps
      <4> HIDE DEF n
      <4>1. \A k \in 0 .. n - 1 : k \in 0 .. OUT_SIZE - 1
        BY <1>1, <3>2
      <4>2. d \in [0 .. n - 1 -> Nat \cup {NUL}]
        BY <4>1 DEF TextInv
      <4> QED BY <3>2, <4>2 DEF Dumps
    <3>6. host.len > 0 => n = host.len
      OBVIOUS
    <3> HIDE DEF n, d
    <3>7. /\ host'.at = "end" /\ host'.len = host.len /\ host'.warned = host.warned
          /\ host'.dump = d /\ host'.done = host.done
          /\ host' \in Hosts
      BY <1>2, <3>1, <3>5 DEF Hosts
    <3>8. host.len <= Kept
      <4>1. host.len <= len /\ len <= Kept /\ Kept \in Nat
        BY <1>1, <3>1 DEF HostInv, TextInv, Kept
      <4> QED BY <1>1, <1>3, <4>1
    <3>9. HostSeesPrefix'
      <4>1. ASSUME NEW k \in 0 .. host.len - 1, host.len > 0  PROVE d[k] = k
        <5>1. Kept \in Nat /\ host.len \in Nat
          BY <1>1, <1>3, <4>1 DEF Kept
        <5> QED BY <3>3, <3>6, <3>8, <4>1, <5>1
      <4> QED BY <3>3, <3>4, <3>7, <4>1 DEF HostSeesPrefix
    <3>10. /\ host.done = 1 => ~host.warned /\ done = 1
           /\ host.done = 1 /\ host.len # NoReply => host.len = Kept
      BY <3>1 DEF HostInv
    <3>11. host.len <= len
      BY <3>1 DEF HostInv
    <3> QED BY <2>1, <3>1, <3>7, <3>9, <3>10, <3>11 DEF HostInv
  <2> QED BY <1>5, <2>2, <2>3, <2>4, <2>5 DEF Host
<1>6. CASE UNCHANGED vars
  BY <1>6 DEF vars, text, HostInv, HostSeesPrefix, Kept
<1> QED BY <1>4, <1>5, <1>6 DEF Next

----------------------------------------------------------------------------
(***************************************************************************)
(* The records.                                                           *)
(***************************************************************************)
BeforeDec == {"boot", "benchmark", "START", "ENC_START", "enc", "ENC_RESULT", "ENC_DONE",
              "DEC_START"}

DropTypes ==
  /\ dropCount \in 0 .. DropLimit /\ updates \in Nat /\ rejected \in Nat
  /\ rejected = dropCount + updates * (DropLimit + 1)
  /\ i \in 0 .. REC_ITERS

\* After record i - 1 the buffers hold its ciphertext; a record of the second
\* loop finds those of the last one of the first.
RecordInv ==
  /\ DropTypes
  /\ pc \notin Loops => i = 0 /\ timing # "region"
  /\ pc \in Loops => timing \in {"off", "region"}
  /\ pc \in Lines => timing = "off"
  /\ timing = "region" => i < REC_ITERS /\ (pc # "mask" => nonce \in build_nonce(i))
  /\ pc \in BeforeDec => rejected = 0 /\ accepted = {}
  /\ pc = "enc" /\ i > 0 => sealed \in build_nonce(i - 1)
  /\ pc \in {"ENC_RESULT", "ENC_DONE", "DEC_START", "dec"} => sealed \in build_nonce(REC_ITERS - 1)
  /\ pc = "dec" /\ i < REC_ITERS => rejected = i /\ accepted = {}
  /\ accepted \subseteq {REC_ITERS - 1}

\* Where the loops are among the lines.
LEMMA Places ==
  /\ Loops = {"enc", "dec", "mask"}
  /\ \A l \in Lines : l \notin Loops /\ l # "boot" /\ l # "benchmark" /\ l # "finish" /\ l # "exited"
  /\ "boot" \notin Loops /\ "benchmark" \notin Loops /\ "finish" \notin Loops /\ "exited" \notin Loops
BY LinesAre DEF Loops

\* No record has been made before the program starts.
LEMMA RecordStart == Init => RecordInv
<1> SUFFICES ASSUME Init PROVE RecordInv
  OBVIOUS
<1>1. /\ timing = "off" /\ pc = "boot" /\ i = 0 /\ dropCount = 0 /\ updates = 0 /\ rejected = 0
      /\ accepted = {}
  BY DEF Init, TimerInit
<1>2. DropTypes
  BY <1>1, LoopAssumption DEF DropTypes
<1> QED BY <1>1, <1>2, Places DEF RecordInv

\* Failures are counted up to the limit, and one more is an update.
LEMMA Counting ==
  ASSUME DropTypes, i < REC_ITERS, i' = i + 1,
         \/ rejected' = rejected + 1 /\ CountFailure
         \/ UNCHANGED <<rejected, dropCount, updates>>
  PROVE  DropTypes'
<1>1. /\ dropCount \in 0 .. DropLimit /\ updates \in Nat /\ rejected \in Nat
      /\ rejected = dropCount + updates * (DropLimit + 1)
      /\ i \in 0 .. REC_ITERS /\ DropLimit \in Nat /\ REC_ITERS \in Nat
  BY LoopAssumption DEF DropTypes
<1>2. i' \in 0 .. REC_ITERS
  BY <1>1
<1>3. CASE rejected' = rejected + 1 /\ dropCount + 1 > DropLimit /\ dropCount' = 0 /\ updates' = updates + 1
  <2>1. dropCount = DropLimit
    BY <1>1, <1>3
  <2>2. rejected' = updates' * (DropLimit + 1)
    BY <1>1, <1>3, <2>1
  <2> QED BY <1>1, <1>2, <1>3, <2>2 DEF DropTypes
<1>4. CASE /\ rejected' = rejected + 1 /\ ~ (dropCount + 1 > DropLimit)
           /\ dropCount' = dropCount + 1 /\ updates' = updates
  BY <1>1, <1>2, <1>4 DEF DropTypes
<1>5. CASE UNCHANGED <<rejected, dropCount, updates>>
  BY <1>1, <1>2, <1>5 DEF DropTypes
<1> QED BY <1>3, <1>4, <1>5 DEF CountFailure

\* The end of a record.
LEMMA RecordEnds ==
  ASSUME RecordInv, EndRecord  PROVE RecordInv'
<1>1. /\ pc \in Loops /\ timing = "region" /\ pc' = pc /\ timing' = "off" /\ i' = i + 1
      /\ UNCHANGED nonce
  BY DEF EndRecord, REC_END_ADD
<1>2. /\ i < REC_ITERS /\ i \in 0 .. REC_ITERS /\ REC_ITERS \in Nat /\ rejected \in Nat
      /\ pc # "mask" => nonce \in build_nonce(i)
  BY <1>1, LoopAssumption DEF RecordInv, DropTypes
<1>3. CASE pc = "enc"
  <2>1. UNCHANGED <<dropCount, updates, rejected, accepted>> /\ sealed' = nonce
    BY <1>3 DEF EndRecord
  <2>2. DropTypes'
    BY <1>1, <1>2, <2>1, Counting DEF RecordInv
  <2>3. i' - 1 = i
    BY <1>1, <1>2
  <2> QED BY <1>1, <1>2, <1>3, <2>1, <2>2, <2>3, Places DEF RecordInv, BeforeDec
<1>4. CASE pc = "dec"
  <2>1. Decrypt /\ sealed' = sealed
    BY <1>4 DEF EndRecord
  <2>2. /\ sealed \in build_nonce(REC_ITERS - 1) /\ rejected = i /\ accepted = {}
        /\ nonce \in build_nonce(i)
    BY <1>2, <1>4 DEF RecordInv
  <2>3. CASE nonce = sealed
    <3>1. i = REC_ITERS - 1
      <4>1. nonce[1] = i /\ sealed[1] = REC_ITERS - 1
        BY <2>2 DEF build_nonce
      <4> QED BY <2>3, <4>1
    <3>2. accepted' = {i} /\ UNCHANGED <<rejected, dropCount, updates>>
      BY <2>1, <2>2, <2>3 DEF Decrypt
    <3>3. DropTypes'
      BY <1>1, <1>2, <3>2, Counting DEF RecordInv
    <3>4. ~ (i' < REC_ITERS)
      BY <1>1, <1>2, <3>1
    <3> QED BY <1>1, <1>4, <2>1, <2>2, <3>1, <3>2, <3>3, <3>4, Places DEF RecordInv, BeforeDec
  <2>4. CASE nonce # sealed
    <3>1. rejected' = rejected + 1 /\ accepted' = accepted /\ CountFailure
      BY <2>1, <2>4 DEF Decrypt
    <3>2. DropTypes'
      BY <1>1, <1>2, <3>1, Counting DEF RecordInv
    <3> QED BY <1>1, <1>4, <2>1, <2>2, <3>1, <3>2, Places DEF RecordInv, BeforeDec
  <2> QED BY <2>3, <2>4
<1>5. CASE pc = "mask"
  <2>1. UNCHANGED <<dropCount, updates, rejected, accepted>>
    BY <1>5 DEF EndRecord
  <2>2. DropTypes'
    BY <1>1, <1>2, <2>1, Counting DEF RecordInv
  <2> QED BY <1>1, <1>2, <1>5, <2>1, <2>2, Places DEF RecordInv, BeforeDec
<1> QED BY <1>1, <1>3, <1>4, <1>5, Places

\* Every step of the loops keeps the account.
LEMMA RecordNext == TextInv /\ RecordInv /\ [Next]_vars => RecordInv'
<1> SUFFICES ASSUME TextInv, RecordInv, [Next]_vars  PROVE RecordInv'
  OBVIOUS
<1>1. REC_ITERS \in Nat /\ REC_ITERS > 0 /\ i \in 0 .. REC_ITERS /\ 0 \in 0 .. REC_ITERS
  BY LoopAssumption DEF RecordInv, DropTypes
<1>2. ASSUME UNCHANGED <<record, pc>>,
             \/ timing' = timing
             \/ pc \notin Loops \cup Lines /\ timing' # "region"
      PROVE  RecordInv'
  <2>1. DropTypes'
    BY <1>2 DEF RecordInv, DropTypes, record
  <2> QED BY <1>2, <2>1, Places DEF RecordInv, record
<1>3. ASSUME UNCHANGED record, timing' = timing \/ timing' = "off",
             pc \notin Loops, timing' # "region",
             pc' \in Lines \cup Loops => timing' = "off",
             pc' \in BeforeDec => pc \in BeforeDec,
             pc' \in {"ENC_RESULT", "ENC_DONE", "DEC_START", "dec"}
               => pc \in {"ENC_RESULT", "ENC_DONE", "DEC_START"},
             pc' = "dec" => pc = "DEC_START"
      PROVE  RecordInv'
  <2>1. DropTypes' /\ i' = 0
    BY <1>3 DEF RecordInv, DropTypes, record
  <2>2. pc' = "dec" => pc \in BeforeDec
    BY <1>3 DEF BeforeDec
  <2> QED BY <1>3, <2>1, <2>2, Places DEF RecordInv, record
<1>4. CASE Boot
  <2>1. pc = "boot" /\ pc' = "benchmark" /\ UNCHANGED <<record, timing>>
    BY <1>4 DEF Boot, timer
  <2>2. timing # "region"
    BY <2>1, Places DEF RecordInv
  <2> QED BY <1>3, <2>1, <2>2, Places, LinesAre DEF BeforeDec
<1>5. CASE BenchmarkTime
  <2>1. pc = "benchmark" /\ UNCHANGED <<record, pc>> /\ timing' # "region"
    BY <1>5 DEF BenchmarkTime, ResetTime, ReadFlag, Report
  <2> QED BY <1>2, <2>1, Places
<1>6. ASSUME NEW n \in LineSizes, BenchmarkLine(n)
      PROVE  RecordInv'
  BY <1>2, <1>6 DEF BenchmarkLine, timer
<1>7. CASE BenchmarkEnd
  <2>1. pc = "benchmark" /\ pc' = "START" /\ UNCHANGED record /\ timing' = "off"
    BY <1>7 DEF BenchmarkEnd, StopTime
  <2> QED BY <1>3, <2>1, Places DEF BeforeDec
<1>8. CASE Line
  BY <1>2, <1>8 DEF Line, timer
<1>9. CASE LineDone
  <2>1. /\ UNCHANGED <<record, timing>> /\ pc' = IF pc \in Lines THEN Following[pc] ELSE pc
    BY <1>9 DEF LineDone, timer
  <2>2. CASE pc \in Lines
    <3>1. pc' = Following[pc] /\ pc \notin Loops /\ timing' = "off"
      BY <2>1, <2>2, Places DEF RecordInv
    <3>2. /\ pc' \in BeforeDec => pc \in BeforeDec
          /\ pc' \in {"ENC_RESULT", "ENC_DONE", "DEC_START", "dec"}
               => pc \in {"ENC_RESULT", "ENC_DONE", "DEC_START"}
          /\ pc' = "dec" => pc = "DEC_START"
      BY <2>2, <3>1, LinesAre DEF BeforeDec
    <3> QED BY <1>3, <2>1, <3>1, <3>2
  <2>3. CASE pc \notin Lines
    BY <1>2, <2>1, <2>3
  <2> QED BY <2>2, <2>3
<1>10. CASE Finish
  <2>1. pc = "finish" /\ pc' = "exited" /\ UNCHANGED <<record, timing>>
    BY <1>10 DEF Finish, timer
  <2>2. timing # "region"
    BY <2>1, Places DEF RecordInv
  <2> QED BY <1>3, <2>1, <2>2, Places, LinesAre DEF BeforeDec
<1>11. CASE StartRecord
  <2>1. /\ pc \in Loops /\ i < REC_ITERS /\ timing' = "region"
        /\ nonce' \in IF pc = "mask" THEN {NoNonce} ELSE build_nonce(i)
        /\ UNCHANGED <<pc, i, sealed, dropCount, updates, rejected, accepted>>
    BY <1>11 DEF StartRecord, REC_START
  <2>2. DropTypes'
    BY <2>1 DEF RecordInv, DropTypes
  <2> QED BY <2>1, <2>2, Places DEF RecordInv
<1>12. CASE EndRecord
  BY <1>12, RecordEnds
<1>13. CASE EndLoop
  <2>1. /\ pc \in Loops /\ timing = "off" /\ timing' = "off" /\ i = REC_ITERS
        /\ pc' = Following[pc] /\ i' = 0
        /\ UNCHANGED <<sealed, dropCount, updates, rejected, accepted>>
    BY <1>13 DEF EndLoop
  <2>2. DropTypes'
    BY <1>1, <2>1 DEF RecordInv, DropTypes
  <2>3. /\ pc' \in Lines /\ pc' \notin Loops
        /\ pc' \in BeforeDec => pc = "enc"
        /\ pc' \in {"ENC_RESULT", "ENC_DONE", "DEC_START"} => pc = "enc"
    BY <2>1, LinesAre, Places DEF BeforeDec
  <2>4. pc = "enc" => sealed \in build_nonce(REC_ITERS - 1) /\ rejected = 0 /\ accepted = {}
    BY <1>1, <2>1 DEF RecordInv, BeforeDec
  <2> QED BY <2>1, <2>2, <2>3, <2>4, Places DEF RecordInv
<1>14. CASE Clock
  BY <1>2, <1>14 DEF Clock, Tick
<1>15. CASE Host \/ UNCHANGED vars
  BY <1>2, <1>15 DEF Host, vars, timer
<1> QED BY <1>4, <1>5, <1>6, <1>7, <1>8, <1>9, <1>10, <1>11, <1>12, <1>13, <1>14, <1>15
        DEF Next, Firmware

\* The steps of the benchmark are steps of the timers.
LEMMA TimerSteps == [Next]_vars => TimerStep
<1> SUFFICES ASSUME [Next]_vars PROVE TimerStep
  OBVIOUS
<1>1. CASE Firmware
  BY <1>1 DEF Firmware, TimerStep, Boot, BenchmarkTime, BenchmarkLine, BenchmarkEnd, Line, LineDone,
     Finish, StartRecord, EndRecord, EndLoop, Clock
<1>2. CASE Host \/ UNCHANGED vars
  BY <1>2 DEF Host, vars, TimerStep
<1> QED BY <1>1, <1>2 DEF Next

(***************************************************************************)
(* The theorems.                                                          *)
(***************************************************************************)

\* The variables have their types; the length and the line in hand stay within
\* the buffer (bench_xprintf, bench_main.c).
THEOREM BenchTypeCorrect == Spec => []TypeOK
<1>1. TimerInv /\ TextInv /\ RecordInv => TypeOK
  <2> SUFFICES ASSUME TimerInv, TextInv, RecordInv PROVE TypeOK
    OBVIOUS
  <2>1. counter \in 0 .. Period - 1
    BY DEF TimerInv, TimerTypes
  <2>2. dropCount \in 0 .. DropLimit /\ updates \in Nat
    BY DEF RecordInv, DropTypes
  <2>3. pending # NUL => len + pending \in 0 .. OUT_SIZE - 1
    BY SizeAssumption DEF TextInv, Kept
  <2> QED BY <2>1, <2>2, <2>3 DEF TypeOK, TextInv
<1> QED BY <1>1, TimerStart, TextStart, RecordStart, TimerNext, TimerSteps, TextNext, RecordNext,
           PTL DEF Spec

\* The cycles that record_bench adds up are those that passed in its regions,
\* in either build, wherever the counter wraps (REC_START, REC_END_ADD).
THEOREM BenchRecordTimeExact == Spec => []RecordTimeExact
<1>1. TimerInv => RecordTimeExact
  BY DEF TimerInv
<1> QED BY <1>1, TimerStart, TimerNext, TimerSteps, PTL DEF Spec

\* bench_current_time is wrong by whole periods, and by no more of them than
\* were lost while COUNTFLAG was set, or two too many.
THEOREM BenchTimeErrorBounded == Spec => []TimeErrorBounded
<1>1. TimerInv => TimeErrorBounded
  BY DEF TimerInv
<1> QED BY <1>1, TimerStart, TimerNext, TimerSteps, PTL DEF Spec

\* What run_driver.ps1 dumps is the beginning of what was printed.
THEOREM BenchHostSeesPrefix == Spec => []HostSeesPrefix
<1>1. HostInv => HostSeesPrefix
  BY DEF HostInv
<1> QED BY <1>1, TextStart, HostStart, TextNext, HostNext, PTL DEF Spec

\* A driver that has not warned has all the text the buffer could keep.
THEOREM BenchWarnedOrComplete == Spec => []WarnedOrComplete
<1>1. HostInv => WarnedOrComplete
  <2> SUFFICES ASSUME HostInv, host.at = "end", ~host.warned,
                      host.done # NoReply, host.len # NoReply
               PROVE  host.len = Kept
    BY DEF WarnedOrComplete, Kept
  <2>1. host.done \in {0, 1, NoReply}
    BY DEF HostInv, Hosts
  <2>2. host.done # 0
    BY DEF HostInv
  <2> QED BY <2>1, <2>2 DEF HostInv
<1> QED BY <1>1, TextStart, HostStart, TextNext, HostNext, PTL DEF Spec

\* Every rejected record is counted or was answered by an update, and the
\* second loop rejects every record but the last.
THEOREM BenchDropsAccounted == Spec => []DropsAccounted
<1>1. RecordInv => DropsAccounted
  BY DEF RecordInv, DropTypes, DropsAccounted
<1> QED BY <1>1, TextStart, RecordStart, TextNext, RecordNext, PTL DEF Spec
=============================================================================
