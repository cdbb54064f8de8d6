----------------------------- MODULE Ntp_proofs -----------------------------
(***************************************************************************)
(* Theorems about the time gpsd gives to ntpd: the edges of the pulse that *)
(* the PPS thread takes for the beginning of a second, the week of a GPS   *)
(* time, and the segments of shared memory.                                *)
(***************************************************************************)
EXTENDS NtpShm, PpsEdges, TimeBase, FiniteSetTheorems, TLAPS

-----------------------------------------------------------------------------
(* The edges of a pulse. *)

\* How long the line was on the other level before the last edge.
LastedBefore == IF level = 1 THEN wave.period - wave.high ELSE wave.high

\* What the stamps say of an edge that was seen, and of the one before it: pulse[] holds the
\* ages of the two, and laststate the level of the first.
StampsAreThoseOfTheEdges ==
  /\ Invisible => level = 0
  /\ seen[1] => laststate = level /\ age[level] = 0
  /\ seen[1] /\ seen[2] /\ ~Invisible => age[1 - level] = LastedBefore

Verdicts == [ok : BOOLEAN, second : BOOLEAN, clean : BOOLEAN]

\* The inductive invariant of the PPS thread.
EdgesInv ==
  /\ EdgesTypeOK /\ verdict \in Verdicts
  /\ StampsAreThoseOfTheEdges
  /\ TakesTheFrontEdge /\ TakesTheEndAt5Hz

\* The signals are eight pairs of a period and a time they are high.
LEMMA WavesAre ==
  ASSUME NEW w, w \in Waves
  PROVE  /\ w.period \in Int /\ w.high \in Int
         /\ \/ w.period = 50 /\ w.high \in {5, 10, 45, 40, 25, 0}
            \/ w.period = 100 /\ w.high = 50
            \/ w.period = 10 /\ w.high = 2
BY DEF Waves, Wave, Second

\* Ages stay within their range.
LEMMA OlderTyped ==
  ASSUME NEW a, a \in Unset..TooLong, NEW by, by \in Nat
  PROVE  Older(a, by) \in Unset..TooLong
BY DEF Older, Unset, TooLong, Second

LEMMA ReadsTyped ==
  ASSUME NEW a, a \in Unset..TooLong
  PROVE  /\ Reads(a) \subseteq 0..TooLong
         /\ a # Unset => Reads(a) = {a}
BY DEF Reads, Unset, TooLong, Second

LEMMA EdgesInitInv == EdgesInit => EdgesInv
<1> SUFFICES ASSUME EdgesInit PROVE EdgesInv
  OBVIOUS
<1>a. Unset \in Unset..TooLong
  BY DEF Unset, TooLong, Second
<1>b. age \in [{0, 1} -> Unset..TooLong]
  BY <1>a DEF EdgesInit
<1>c. unchanged \in 0..9 /\ laststate \in -1..1
  BY DEF EdgesInit
<1>d. seen \in BOOLEAN \X BOOLEAN
  BY DEF EdgesInit
<1>1. EdgesTypeOK
  BY <1>b, <1>c, <1>d DEF EdgesInit, EdgesTypeOK
<1>2. verdict \in Verdicts
  BY DEF EdgesInit, Verdicts
<1>3. StampsAreThoseOfTheEdges
  BY DEF EdgesInit, StampsAreThoseOfTheEdges
<1>4. TakesTheFrontEdge /\ TakesTheEndAt5Hz
  BY DEF EdgesInit, TakesTheFrontEdge, TakesTheEndAt5Hz
<1> QED BY <1>1, <1>2, <1>3, <1>4 DEF EdgesInv

\* The thread missed an edge.
LEMMA EdgesMissInv == EdgesInv /\ MissesEdge => EdgesInv'
<1> SUFFICES ASSUME EdgesInv, MissesEdge PROVE EdgesInv'
  OBVIOUS
<1>0. /\ wave \in Waves /\ level \in {0, 1} /\ age \in [{0, 1} -> Unset..TooLong]
      /\ laststate \in -1..1 /\ unchanged \in 0..9 /\ seen \in BOOLEAN \X BOOLEAN
  BY DEF EdgesInv, EdgesTypeOK
<1>1. wave.period \in Int /\ wave.high \in Int /\ Lasted \in Nat
  BY <1>0, WavesAre DEF Lasted
<1>2. \A l \in {0, 1} : Older(age[l], Lasted) \in Unset..TooLong
  BY <1>0, <1>1, OlderTyped
<1>3. level' \in {0, 1} /\ (Invisible => level' = 0)
  BY <1>0 DEF MissesEdge, After
<1>4. age' \in [{0, 1} -> Unset..TooLong]
  BY <1>2 DEF MissesEdge
<1>5. seen' \in BOOLEAN \X BOOLEAN /\ ~seen'[1]
  BY <1>0 DEF MissesEdge
<1>6. EdgesTypeOK'
  BY <1>0, <1>3, <1>4, <1>5 DEF MissesEdge, EdgesTypeOK
<1>7. verdict' \in Verdicts /\ ~verdict'.clean
  BY DEF MissesEdge, Verdicts
<1>8. wave' = wave
  BY DEF MissesEdge
<1>9. StampsAreThoseOfTheEdges'
  BY <1>3, <1>5, <1>8 DEF StampsAreThoseOfTheEdges, Invisible
<1> QED BY <1>6, <1>7, <1>9 DEF EdgesInv, TakesTheFrontEdge, TakesTheEndAt5Hz

\* What a clean edge is: the cycle is the period of the signal, and the duration how long the
\* other level lasted, or the line seems not to have changed.
CleanReads(cycle, duration, state) ==
  /\ seen[1] /\ (seen[2] \/ Invisible) =>
       /\ cycle = wave.period
       /\ Invisible => state = 0 /\ laststate = 0
       /\ ~Invisible => state # laststate /\ duration = Lasted

LEMMA EdgesTakeInv == EdgesInv /\ TakesEdge => EdgesInv'
<1> SUFFICES ASSUME EdgesInv, TakesEdge PROVE EdgesInv'
  OBVIOUS
<1>0. /\ wave \in Waves /\ level \in {0, 1} /\ age \in [{0, 1} -> Unset..TooLong]
      /\ laststate \in -1..1 /\ unchanged \in 0..9 /\ seen \in BOOLEAN \X BOOLEAN
  BY DEF EdgesInv, EdgesTypeOK
<1>1. /\ wave.period \in Int /\ wave.high \in Int
      /\ \/ wave.period = 50 /\ wave.high \in {5, 10, 45, 40, 25, 0}
         \/ wave.period = 100 /\ wave.high = 50
         \/ wave.period = 10 /\ wave.high = 2
  BY <1>0, WavesAre
<1>2. Lasted \in Nat
  BY <1>0, <1>1 DEF Lasted
<1>3. PICK state : state = After
  OBVIOUS
<1>4. state \in {0, 1} /\ 1 - state \in {0, 1} /\ (Invisible => state = 0) /\ (~Invisible => state = 1 - level)
  BY <1>0, <1>3 DEF After
<1>5. PICK aged : aged = [l \in {0, 1} |-> Older(age[l], Lasted)]
  OBVIOUS
<1>6. aged \in [{0, 1} -> Unset..TooLong]
  BY <1>0, <1>2, <1>5, OlderTyped
<1>7. PICK cycle \in Reads(aged[state]), duration \in Reads(aged[1 - state]) :
        LET same      == state = laststate
            invisible == same /\ cycle = Second
            strange   == same /\ ~invisible
            sleeps    == strange /\ unchanged = 9
        IN  /\ level' = state
            /\ laststate' = state
            /\ unchanged' = IF strange THEN Strange ELSE 0
            /\ age' = IF sleeps THEN [l \in {0, 1} |-> TooLong] ELSE [aged EXCEPT ![state] = 0]
            /\ seen' = IF sleeps THEN <<FALSE, FALSE>> ELSE <<TRUE, seen[1]>>
            /\ verdict' = [ok |-> ~strange /\ Ok(cycle, IF invisible THEN 0 ELSE duration, state),
                           second |-> BeginsSecond, clean |-> Clean]
            /\ UNCHANGED wave
  BY <1>3, <1>5 DEF TakesEdge
<1>8. cycle \in 0..TooLong /\ duration \in 0..TooLong
  BY <1>4, <1>6, <1>7, ReadsTyped
<1>9. CleanReads(cycle, duration, state)
  <2> SUFFICES ASSUME seen[1], seen[2] \/ Invisible
               PROVE  /\ cycle = wave.period
                      /\ Invisible => state = 0 /\ laststate = 0
                      /\ ~Invisible => state # laststate /\ duration = Lasted
    BY DEF CleanReads
  <2>1. laststate = level /\ age[level] = 0 /\ (Invisible => level = 0)
    BY DEF EdgesInv, StampsAreThoseOfTheEdges
  <2>2. aged[level] = Lasted
    BY <1>0, <1>1, <1>2, <1>5, <2>1 DEF Older, Unset, TooLong, Second, Lasted
  <2>3. Lasted # Unset
    BY <1>2 DEF Unset
  <2>4. Reads(aged[level]) = {Lasted}
    BY <1>0, <1>6, <2>2, <2>3, ReadsTyped
  <2>5. CASE Invisible
    BY <1>1, <1>4, <1>7, <2>1, <2>4, <2>5 DEF Lasted, Invisible
  <2>6. CASE ~Invisible
    <3>1. level = 1 - state /\ state = 1 - level
      BY <1>0, <1>4, <2>6
    <3>2. duration = Lasted
      BY <1>7, <2>4, <3>1
    <3>3. age[state] = LastedBefore
      BY <2>6, <3>1 DEF EdgesInv, StampsAreThoseOfTheEdges
    <3>4. aged[state] = wave.period /\ wave.period # Unset
      BY <1>0, <1>1, <1>4, <1>5, <2>6, <3>1, <3>3 DEF Older, Unset, TooLong, Second, Lasted, LastedBefore
    <3>5. cycle = wave.period
      BY <1>4, <1>6, <1>7, <3>4, ReadsTyped
    <3>6. state # laststate
      BY <1>0, <2>1, <3>1
    <3> QED BY <2>6, <3>2, <3>5, <3>6
  <2> QED BY <2>5, <2>6
<1>10. EdgesTypeOK'
  <2>1. age' \in [{0, 1} -> Unset..TooLong]
    BY <1>4, <1>6, <1>7 DEF Unset, TooLong, Second
  <2>2. unchanged' \in 0..9
    BY <1>0, <1>7 DEF Strange
  <2>3. seen' \in BOOLEAN \X BOOLEAN
    BY <1>0, <1>7
  <2> QED BY <1>0, <1>4, <1>7, <2>1, <2>2, <2>3 DEF EdgesTypeOK
<1>11. verdict' \in Verdicts
  <2>1. BeginsSecond \in BOOLEAN
    BY DEF BeginsSecond
  <2>2. Clean \in BOOLEAN
    BY <1>0 DEF Clean
  <2> QED BY <1>7, <2>1, <2>2 DEF Verdicts
<1>12. StampsAreThoseOfTheEdges'
  <2> DEFINE sleeps == state = laststate /\ ~(state = laststate /\ cycle = Second) /\ unchanged = 9
  <2>1. CASE sleeps
    BY <1>4, <1>7, <2>1 DEF StampsAreThoseOfTheEdges, Invisible
  <2>2. CASE ~sleeps
    <3>1. age' = [aged EXCEPT ![state] = 0] /\ seen' = <<TRUE, seen[1]>>
      BY <1>7, <2>2
    <3>2. level' = state /\ laststate' = state /\ wave' = wave
      BY <1>7
    <3>3. age'[level'] = 0
      BY <1>4, <1>6, <3>1, <3>2
    <3>4. ASSUME seen[1], ~Invisible PROVE age'[1 - level'] = LastedBefore'
      <4>1. level = 1 - state /\ age[level] = 0 /\ level # state
        BY <1>0, <1>4, <3>4 DEF EdgesInv, StampsAreThoseOfTheEdges
      <4>2. age'[level] = aged[level]
        BY <1>0, <1>6, <3>1, <4>1
      <4>3. aged[level] = Lasted
        BY <1>0, <1>1, <1>2, <1>5, <4>1 DEF Older, Unset, TooLong, Second, Lasted
      <4>4. LastedBefore' = Lasted
        BY <1>0, <1>4, <3>2, <4>1 DEF LastedBefore, Lasted
      <4> QED BY <3>2, <4>1, <4>2, <4>3, <4>4
    <3>5. (Invisible' <=> Invisible) /\ (Invisible => level' = 0)
      BY <1>4, <3>2 DEF Invisible
    <3>6. seen'[1] /\ (seen'[2] <=> seen[1])
      BY <1>0, <3>1
    <3> QED BY <3>2, <3>3, <3>4, <3>5, <3>6 DEF StampsAreThoseOfTheEdges
  <2> QED BY <2>1, <2>2
<1>13. TakesTheFrontEdge' /\ TakesTheEndAt5Hz'
  <2> SUFFICES ASSUME verdict'.clean
               PROVE  /\ ~FiveHz' => verdict'.ok = verdict'.second
                      /\ FiveHz' => verdict'.ok = ~verdict'.second
    BY DEF TakesTheFrontEdge, TakesTheEndAt5Hz
  <2>1. seen[1] /\ (seen[2] \/ Invisible)
    BY <1>7 DEF Clean
  <2>2. wave' = wave /\ (verdict'.second <=> BeginsSecond)
    BY <1>7
  <2>b. verdict'.ok \in BOOLEAN /\ verdict'.second \in BOOLEAN
    BY <1>11 DEF Verdicts
  <2>3. cycle = wave.period
    BY <1>9, <2>1 DEF CleanReads
  <2>4. CASE Invisible
    <3>1. state = laststate /\ cycle = Second /\ wave.period = 50
      BY <1>1, <1>9, <2>1, <2>3, <2>4 DEF CleanReads, Invisible, Second
    <3>2. verdict'.ok <=> Ok(cycle, 0, state)
      BY <1>7, <3>1
    <3>3. Ok(cycle, 0, state)
      BY <3>1 DEF Ok, Accepts1Hz, Second
    <3>4. BeginsSecond
      <4>1. ~(wave.high > wave.period \div 2)
        BY <2>4, <3>1 DEF Invisible
      <4> QED BY <2>4, <4>1 DEF BeginsSecond
    <3>5. ~FiveHz'
      BY <2>2, <3>1 DEF FiveHz, Second
    <3> QED BY <2>2, <2>b, <3>2, <3>3, <3>4, <3>5
  <2>5. CASE ~Invisible
    <3>1. state # laststate /\ duration = Lasted
      BY <1>9, <2>1, <2>5 DEF CleanReads
    <3>2. verdict'.ok <=> Ok(cycle, duration, state)
      BY <1>7, <3>1
    <3>3. wave.high # 0 /\ state = 1 - level
      BY <1>4, <2>5 DEF Invisible
    <3>4. FiveHz' <=> wave.period = 10
      BY <2>2 DEF FiveHz, Second
    <3>5. ASSUME wave.period # 10 PROVE Ok(cycle, duration, state) <=> BeginsSecond
      BY <1>0, <1>1, <2>3, <3>1, <3>3, <3>5
         DEF Ok, Accepts1Hz, BeginsSecond, Invisible, Second, Lasted
    <3>6. ASSUME wave.period = 10 PROVE Ok(cycle, duration, state) <=> ~BeginsSecond
      BY <1>0, <1>1, <2>3, <3>1, <3>3, <3>6
         DEF Ok, Accepts1Hz, BeginsSecond, Invisible, Second, Lasted
    <3> QED BY <2>2, <2>b, <3>2, <3>4, <3>5, <3>6
  <2> QED BY <2>4, <2>5
<1> QED BY <1>10, <1>11, <1>12, <1>13 DEF EdgesInv

\* The thread knows which edge it sees: of every signal the comment of gpsd_ppsmonitor names,
\* at whatever times the thread is too late for an edge (EdgesAreTold of PpsEdges).
THEOREM EdgesTold == EdgesSpec => []EdgesAreTold
<1>1. EdgesInv /\ [EdgesNext]_edgeVars => EdgesInv'
  <2>1. EdgesInv /\ UNCHANGED edgeVars => EdgesInv'
    BY DEF EdgesInv, EdgesTypeOK, Verdicts, StampsAreThoseOfTheEdges, TakesTheFrontEdge,
           TakesTheEndAt5Hz, Invisible, FiveHz, LastedBefore, edgeVars
  <2> QED BY <2>1, EdgesMissInv, EdgesTakeInv DEF EdgesNext
<1>2. EdgesInv => EdgesAreTold
  BY DEF EdgesInv, EdgesAreTold
<1> QED BY <1>1, <1>2, EdgesInitInv, PTL DEF EdgesSpec

-----------------------------------------------------------------------------
(* The week. *)

\* A number is counted in whole periods and a rest.
LEMMA DivMod ==
  ASSUME NEW n, NEW d, n \in Nat, d \in Nat, d > 0
  PROVE  n = (n \div d) * d + (n % d)
OBVIOUS

LEMMA Divides ==
  ASSUME NEW n, n \in Nat
  PROVE  /\ n \div Rollover \in Nat /\ n % Rollover \in 0..(Rollover - 1)
         /\ n = (n \div Rollover) * Rollover + (n % Rollover)
<1>1. Rollover \in Nat /\ Rollover > 0
  BY TimeBaseAssumption
<1>2. n \div Rollover \in Nat
  BY <1>1
<1>3. n % Rollover \in 0..(Rollover - 1)
  BY <1>1
<1>4. n = (n \div Rollover) * Rollover + (n % Rollover)
  BY ONLY <1>1, n \in Nat, DivMod
<1> QED BY <1>2, <1>3, <1>4

\* More periods are more weeks.
LEMMA Periods ==
  ASSUME NEW p, NEW q, p \in Nat, q \in Nat
  PROVE  /\ p * Rollover \in Nat
         /\ (p + 1) * Rollover = p * Rollover + Rollover
         /\ p <= q => p * Rollover <= q * Rollover
         /\ p + 2 <= q => p * Rollover + 2 * Rollover <= q * Rollover
<1>1. Rollover \in Nat /\ Rollover > 0
  BY TimeBaseAssumption
<1>2. p * Rollover \in Nat
  BY <1>1
<1>3. (p + 1) * Rollover = p * Rollover + Rollover
  BY <1>1
<1>4. ASSUME p <= q PROVE p * Rollover <= q * Rollover
  <2>1. PICK d : d = q - p
    OBVIOUS
  <2>2. d \in Nat /\ q = p + d
    BY <1>4, <2>1
  <2>3. q * Rollover = p * Rollover + d * Rollover /\ d * Rollover \in Nat
    BY <1>1, <2>2
  <2> QED BY <1>2, <2>3
<1>5. ASSUME p + 2 <= q PROVE p * Rollover + 2 * Rollover <= q * Rollover
  <2>1. PICK d : d = q - (p + 2)
    OBVIOUS
  <2>2. d \in Nat /\ q = p + 2 + d
    BY <1>5, <2>1
  <2>3. q * Rollover = p * Rollover + 2 * Rollover + d * Rollover /\ d * Rollover \in Nat
    BY <1>1, <2>2
  <2> QED BY <1>2, <2>3, <1>1
<1> QED BY <1>2, <1>3, <1>4, <1>5

\* Of two weeks less than a period apart the later one has the smaller rest exactly if a
\* rollover came between them.
LEMMA RolloverShows ==
  ASSUME NEW a, NEW b, a \in Nat, b \in Nat, b <= a, a - b < Rollover
  PROVE  /\ a % Rollover < b % Rollover => a \div Rollover = b \div Rollover + 1
         /\ ~(a % Rollover < b % Rollover) => a \div Rollover = b \div Rollover
<1>0. Rollover \in Nat /\ Rollover > 0
  BY TimeBaseAssumption
<1>1. PICK qa, ra, qb, rb : /\ qa = a \div Rollover /\ ra = a % Rollover
                            /\ qb = b \div Rollover /\ rb = b % Rollover
  OBVIOUS
<1>2. /\ qa \in Nat /\ ra \in 0..(Rollover - 1) /\ a = qa * Rollover + ra
      /\ qb \in Nat /\ rb \in 0..(Rollover - 1) /\ b = qb * Rollover + rb
  BY <1>1, Divides
<1>3. ~(qa >= qb + 2)
  <2>1. qb + 2 <= qa => qb * Rollover + 2 * Rollover <= qa * Rollover
    <3>1. PICK p, q : p = qb /\ q = qa
      OBVIOUS
    <3>2. p + 2 <= q => p * Rollover + 2 * Rollover <= q * Rollover
      BY <1>2, <3>1, Periods
    <3> QED BY <3>1, <3>2
  <2>2. qa * Rollover \in Nat /\ qb * Rollover \in Nat
    BY <1>2, Periods
  <2> QED BY <1>0, <1>2, <2>1, <2>2
<1>4. ~(qa + 1 <= qb)
  <2>1. qa + 1 <= qb => qa * Rollover + Rollover <= qb * Rollover
    BY <1>0, <1>2, Periods
  <2> QED BY <1>0, <1>2, <2>1
<1>5. qa \in {qb, qb + 1}
  BY <1>2, <1>3, <1>4
<1>6. qa = qb + 1 => qa * Rollover = qb * Rollover + Rollover
  BY <1>2, Periods
<1>7. qa = qb => ~(ra < rb)
  BY <1>0, <1>2
<1>8. qa = qb + 1 => ra < rb
  BY <1>0, <1>2, <1>6
<1> QED BY <1>1, <1>5, <1>7, <1>8, <1>2

\* As long as nothing happened that the code does not provide for, the context has counted
\* the rollovers up to the newest week it was told of, and its week is that one, if only in
\* its rest.
ContextIsCurrent ==
  causes = {} =>
    /\ rollovers = Latest \div Rollover
    /\ newest # -1 => gps_week % Rollover = newest % Rollover
    /\ newest = -1 => gps_week = 0

WeeksInv ==
  /\ WeeksTypeOK /\ started \in 0..MaxWeek
  /\ started <= week /\ newest <= week
  /\ ContextIsCurrent /\ WeekIsRight

\* The weeks there are have no more rollovers than are counted.
LEMMA RolloversFit ==
  ASSUME NEW w, w \in 0..MaxWeek
  PROVE  /\ w \div Rollover \in 0..MaxRollovers
         /\ w \in 0..(Rollover * (MaxRollovers + 1))
<1>0. Rollover \in Nat /\ Rollover > 0 /\ MaxWeek \in Nat /\ MaxRollovers \in Nat
  BY TimeBaseAssumption
<1>1. PICK q, m : q = w \div Rollover /\ m = MaxWeek \div Rollover
  OBVIOUS
<1>2. /\ q \in Nat /\ w % Rollover \in 0..(Rollover - 1) /\ w = q * Rollover + (w % Rollover)
      /\ m \in Nat /\ MaxWeek % Rollover \in 0..(Rollover - 1)
      /\ MaxWeek = m * Rollover + (MaxWeek % Rollover)
  BY <1>0, <1>1, Divides
<1>3. q <= m
  <2>1. SUFFICES ASSUME m + 1 <= q PROVE FALSE
    BY <1>2
  <2>2. PICK n : n = m + 1
    OBVIOUS
  <2>3. n * Rollover = m * Rollover + Rollover /\ n * Rollover <= q * Rollover
    BY <1>2, <2>1, <2>2, Periods
  <2>4. m * Rollover \in Nat /\ q * Rollover \in Nat
    BY <1>2, Periods
  <2> QED BY <1>0, <1>2, <2>3, <2>4
<1>4. m <= MaxRollovers
  BY <1>1, TimeBaseAssumption
<1>5. w <= Rollover * (MaxRollovers + 1)
  <2>1. PICK n : n = MaxRollovers + 1
    OBVIOUS
  <2>2. n * Rollover = MaxRollovers * Rollover + Rollover /\ q * Rollover <= MaxRollovers * Rollover
    BY <1>0, <1>2, <1>3, <1>4, <2>1, Periods
  <2>3. q * Rollover \in Nat /\ MaxRollovers * Rollover \in Nat
    BY <1>0, <1>2, Periods
  <2>4. w <= n * Rollover
    BY <1>0, <1>2, <2>2, <2>3
  <2>5. n * Rollover = Rollover * (MaxRollovers + 1)
    BY <1>0, <2>1
  <2> QED BY <2>4, <2>5
<1> QED BY <1>0, <1>1, <1>2, <1>3, <1>4, <1>5

LEMMA WeeksInitInv == WeeksInit => WeeksInv
<1> SUFFICES ASSUME WeeksInit PROVE WeeksInv
  OBVIOUS
<1>0. Rollover \in Nat /\ Rollover > 0 /\ MaxWeek \in Nat /\ MaxRollovers \in Nat
  BY TimeBaseAssumption
<1>1. week \in 0..MaxWeek /\ started = week /\ newest = -1 /\ gps_week = 0 /\ causes = {}
  BY DEF WeeksInit
<1>2. rollovers = week \div Rollover /\ rollovers \in 0..MaxRollovers
  BY <1>1, RolloversFit DEF WeeksInit
<1>3. 0 \in 0..(Rollover * (MaxRollovers + 1))
  BY <1>0, RolloversFit
<1>4. WeeksTypeOK
  BY <1>0, <1>1, <1>2, <1>3 DEF WeeksTypeOK
<1>5. ContextIsCurrent
  BY <1>1, <1>2 DEF ContextIsCurrent, Latest
<1>6. WeekIsRight
  BY DEF WeeksInit, WeekIsRight
<1> QED BY <1>0, <1>1, <1>4, <1>5, <1>6 DEF WeeksInv

LEMMA WeeksTypes ==
  ASSUME WeeksInv
  PROVE  /\ week \in Nat /\ week <= MaxWeek /\ started \in Nat /\ started <= week /\ started <= MaxWeek
         /\ newest \in Int /\ newest >= -1 /\ newest <= week
         /\ rollovers \in Nat /\ rollovers <= MaxRollovers /\ gps_week \in Nat
         /\ Latest \in Nat /\ Latest <= week /\ newest <= Latest
<1>0. Rollover \in Nat /\ Rollover > 0 /\ MaxWeek \in Nat /\ MaxRollovers \in Nat
  BY TimeBaseAssumption
<1> QED BY <1>0 DEF WeeksInv, WeeksTypeOK, Latest

LEMMA WeeksNextWeekInv == WeeksInv /\ NextWeek => WeeksInv'
<1> SUFFICES ASSUME WeeksInv, NextWeek PROVE WeeksInv'
  OBVIOUS
<1>1. MaxWeek \in Nat /\ week' = week + 1 /\ week' \in 0..MaxWeek
  BY WeeksTypes, TimeBaseAssumption DEF NextWeek
<1>2. WeeksTypeOK' /\ (started \in 0..MaxWeek)'
  BY <1>1 DEF WeeksInv, WeeksTypeOK, NextWeek
<1>3. started' <= week' /\ newest' <= week'
  BY <1>1, WeeksTypes DEF NextWeek
<1>4. ContextIsCurrent' /\ WeekIsRight'
  BY DEF WeeksInv, NextWeek, ContextIsCurrent, WeekIsRight, Latest
<1> QED BY <1>2, <1>3, <1>4 DEF WeeksInv

LEMMA WeeksSetAsideInv == WeeksInv /\ SetAside => WeeksInv'
<1> SUFFICES ASSUME WeeksInv, SetAside PROVE WeeksInv'
  OBVIOUS
<1>0. Rollover \in Nat /\ Rollover > 0 /\ MaxWeek \in Nat /\ MaxRollovers \in Nat
  BY TimeBaseAssumption
<1>1. /\ gps_week' = week % Rollover /\ newest' = Newer(week)
      /\ causes' = IF Crosses(week) THEN causes \cup {"hidden"} ELSE causes
      /\ UNCHANGED <<week, started, rollovers, resolved>>
  BY DEF SetAside
<1>2. newest' = week
  BY <1>1, WeeksTypes DEF Newer
<1>3. week % Rollover \in 0..(Rollover - 1) /\ week % Rollover <= week
  <2>1. PICK q : q = week \div Rollover
    OBVIOUS
  <2>2. q \in Nat /\ week = q * Rollover + (week % Rollover) /\ week % Rollover \in 0..(Rollover - 1)
    BY <2>1, WeeksTypes, Divides
  <2>3. q * Rollover \in Nat
    BY <2>2, Periods
  <2> QED BY <2>2, <2>3, <1>0
<1>4. week \in 0..MaxWeek /\ week \in 0..(Rollover * (MaxRollovers + 1))
  BY <1>0, WeeksTypes, RolloversFit
<1>5. gps_week' \in 0..(Rollover * (MaxRollovers + 1))
  BY <1>0, <1>1, <1>3, <1>4
<1>6. causes' \subseteq {"late", "first", "silent", "hidden"}
  BY <1>1 DEF WeeksInv, WeeksTypeOK
<1>7. WeeksTypeOK'
  BY <1>0, <1>1, <1>2, <1>4, <1>5, <1>6 DEF WeeksInv, WeeksTypeOK
<1>8. ASSUME causes' = {} PROVE causes = {} /\ ~Crosses(week)
  BY <1>1, <1>8
<1>9. ContextIsCurrent'
  <2> SUFFICES ASSUME causes' = {}
               PROVE  /\ rollovers = week \div Rollover
                      /\ gps_week' % Rollover = week % Rollover
    <3>1. newest' # -1
      BY <1>2, WeeksTypes
    <3> QED BY <1>1, <1>2, <3>1 DEF ContextIsCurrent, Latest
  <2>1. rollovers = week \div Rollover
    BY <1>8 DEF WeeksInv, ContextIsCurrent, Crosses
  <2>2. PICK r : r = week % Rollover
    OBVIOUS
  <2>3. r % Rollover = r
    BY <1>0, <1>3, <2>2
  <2> QED BY <1>1, <2>1, <2>2, <2>3
<1>10. WeekIsRight'
  BY <1>1, <1>8 DEF WeeksInv, WeekIsRight
<1>11. (started \in 0..MaxWeek /\ started <= week /\ newest <= week)'
  BY <1>1, <1>2, <1>4 DEF WeeksInv
<1> QED BY <1>7, <1>9, <1>10, <1>11 DEF WeeksInv

LEMMA WeeksResolveInv == WeeksInv /\ Resolve => WeeksInv'
<1> SUFFICES ASSUME WeeksInv, Resolve PROVE WeeksInv'
  OBVIOUS
<1>0. Rollover \in Nat /\ Rollover > 0 /\ MaxWeek \in Nat /\ MaxRollovers \in Nat
  BY TimeBaseAssumption
<1>1. PICK meant \in {week, week - 1} \cap Nat, whole \in BOOLEAN :
        LET sent  == IF whole THEN meant ELSE meant % Rollover
            count == IF RolledOver(sent) THEN rollovers + 1 ELSE rollovers
            full  == IF sent < Rollover THEN sent + count * Rollover ELSE sent
        IN  /\ rollovers < MaxRollovers
            /\ rollovers' = count
            /\ gps_week' = full
            /\ newest' = Newer(meant)
            /\ causes' = causes \cup {c \in {"late", "first", "silent", "hidden"} :
                            \/ c = "late" /\ meant < Latest
                            \/ c = "first" /\ newest = -1 /\ Crosses(meant)
                            \/ c = "silent" /\ meant - Latest >= Rollover
                            \/ c = "hidden" /\ sent >= Rollover /\ Crosses(meant)}
            /\ resolved' = [week |-> full, sent |-> meant, whole |-> sent >= Rollover]
            /\ UNCHANGED <<week, started>>
  BY DEF Resolve
<1>2. PICK sent : sent = IF whole THEN meant ELSE meant % Rollover
  OBVIOUS
<1>3. PICK count : count = IF RolledOver(sent) THEN rollovers + 1 ELSE rollovers
  OBVIOUS
<1>4. PICK full : full = IF sent < Rollover THEN sent + count * Rollover ELSE sent
  OBVIOUS
<1>5. /\ rollovers < MaxRollovers /\ rollovers' = count /\ gps_week' = full /\ newest' = Newer(meant)
      /\ resolved' = [week |-> full, sent |-> meant, whole |-> sent >= Rollover]
      /\ week' = week /\ started' = started
  BY <1>1, <1>2, <1>3, <1>4
<1>6. causes' = causes \cup {c \in {"late", "first", "silent", "hidden"} :
                            \/ c = "late" /\ meant < Latest
                            \/ c = "first" /\ newest = -1 /\ Crosses(meant)
                            \/ c = "silent" /\ meant - Latest >= Rollover
                            \/ c = "hidden" /\ sent >= Rollover /\ Crosses(meant)}
  BY <1>1, <1>2
<1> HIDE <1>2, <1>3, <1>4
<1>7. meant \in Nat /\ meant <= week /\ meant \in 0..MaxWeek
  BY <1>1, <1>0, WeeksTypes
<1>8. PICK q, r : q = meant \div Rollover /\ r = meant % Rollover
  OBVIOUS
<1>9. q \in Nat /\ r \in 0..(Rollover - 1) /\ meant = q * Rollover + r /\ q * Rollover \in Nat
  BY <1>7, <1>8, Divides, Periods
<1>10. sent \in Nat /\ (sent < Rollover => sent = r) /\ (sent >= Rollover => sent = meant)
  <2>1. CASE ~whole
    BY <1>0, <1>2, <1>8, <1>9, <2>1
  <2>2. CASE whole /\ meant < Rollover
    <3>1. q = 0
      <4>1. q >= 1 => 1 * Rollover <= q * Rollover
        <5>1. PICK one : one = 1
          OBVIOUS
        <5>2. one <= q => one * Rollover <= q * Rollover
          BY <1>9, <5>1, Periods
        <5> QED BY <5>1, <5>2
      <4> QED BY <1>0, <1>9, <2>2, <4>1
    <3> QED BY <1>0, <1>2, <1>9, <2>2, <3>1
  <2>3. CASE whole /\ meant >= Rollover
    BY <1>0, <1>2, <1>7, <2>3
  <2> QED BY <1>0, <1>7, <2>1, <2>2, <2>3
<1>11. count \in 0..MaxRollovers
  BY <1>0, <1>3, <1>5, WeeksTypes
<1>12. full \in 0..(Rollover * (MaxRollovers + 1))
  <2>1. CASE sent < Rollover
    <3>1. PICK n : n = MaxRollovers + 1
      OBVIOUS
    <3>2. /\ n * Rollover = MaxRollovers * Rollover + Rollover
          /\ count * Rollover <= MaxRollovers * Rollover /\ count * Rollover \in Nat
          /\ MaxRollovers * Rollover \in Nat
      BY <1>0, <1>11, <3>1, Periods
    <3>3. n * Rollover = Rollover * (MaxRollovers + 1)
      BY <1>0, <3>1
    <3> QED BY <1>0, <1>4, <1>10, <2>1, <3>2, <3>3
  <2>2. CASE sent >= Rollover
    BY <1>0, <1>4, <1>7, <1>10, <2>2, RolloversFit
  <2> QED BY <1>0, <1>10, <2>1, <2>2
<1>13. newest' \in -1..MaxWeek /\ newest' <= week /\ newest' # -1
  BY <1>0, <1>5, <1>7, WeeksTypes DEF Newer
<1>14. causes' \subseteq {"late", "first", "silent", "hidden"}
  BY <1>6 DEF WeeksInv, WeeksTypeOK
<1>15. WeeksTypeOK'
  BY <1>5, <1>11, <1>12, <1>13, <1>14 DEF WeeksInv, WeeksTypeOK
<1>16. ASSUME causes' = {}
       PROVE  /\ causes = {} /\ meant >= Latest /\ meant - Latest < Rollover
              /\ newest = -1 => q = Latest \div Rollover
              /\ sent >= Rollover => q = Latest \div Rollover
  <2>1. causes = {}
    BY <1>6, <1>16
  <2>2. ~(meant < Latest) /\ ~(meant - Latest >= Rollover)
    BY <1>6, <1>16
  <2>3. newest = -1 => ~Crosses(meant)
    BY <1>6, <1>16
  <2>4. sent >= Rollover => ~Crosses(meant)
    BY <1>6, <1>16
  <2> QED BY <1>0, <1>7, <1>8, <2>1, <2>2, <2>3, <2>4, WeeksTypes DEF Crosses
<1>17. ASSUME causes' = {} PROVE count = q
  <2>1. rollovers = Latest \div Rollover
    BY <1>16, <1>17 DEF WeeksInv, ContextIsCurrent
  <2>2. CASE newest = -1
    <3>1. gps_week = 0
      BY <1>16, <1>17, <2>2 DEF WeeksInv, ContextIsCurrent
    <3>2. ~RolledOver(sent)
      BY <1>0, <1>10, <3>1 DEF RolledOver
    <3> QED BY <1>3, <1>16, <1>17, <2>1, <2>2, <3>2
  <2>3. CASE newest # -1 /\ sent >= Rollover
    <3>1. gps_week % Rollover < Rollover
      BY <1>0, WeeksTypes
    <3>2. ~RolledOver(sent)
      BY <1>0, <1>10, <2>3, <3>1, WeeksTypes DEF RolledOver
    <3> QED BY <1>3, <1>16, <1>17, <2>1, <2>3, <3>2
  <2>4. CASE newest # -1 /\ sent < Rollover
    <3>1. Latest = newest /\ newest \in Nat
      BY <2>4, WeeksTypes DEF Latest
    <3>2. gps_week % Rollover = newest % Rollover
      BY <1>16, <1>17, <2>4 DEF WeeksInv, ContextIsCurrent
    <3>3. RolledOver(sent) <=> r < newest % Rollover
      BY <1>10, <2>4, <3>2 DEF RolledOver
    <3>4. /\ r < newest % Rollover => q = newest \div Rollover + 1
          /\ ~(r < newest % Rollover) => q = newest \div Rollover
      BY <1>7, <1>8, <1>16, <1>17, <3>1, RolloverShows
    <3> QED BY <1>3, <2>1, <3>1, <3>3, <3>4
  <2> QED BY <1>0, <1>10, <2>2, <2>3, <2>4
<1>18. ASSUME causes' = {} PROVE full = meant
  BY <1>0, <1>4, <1>9, <1>10, <1>17, <1>18
<1>19. ContextIsCurrent'
  <2> SUFFICES ASSUME causes' = {}
               PROVE  /\ rollovers' = newest' \div Rollover
                      /\ gps_week' % Rollover = newest' % Rollover
    BY <1>13 DEF ContextIsCurrent, Latest
  <2>1. newest' = meant
    <3>1. meant >= newest
      BY <1>7, <1>16, WeeksTypes
    <3>2. newest \in Int /\ meant \in Int
      BY <1>7, WeeksTypes
    <3>3. newest' = IF meant > newest THEN meant ELSE newest
      BY <1>5 DEF Newer
    <3> QED BY <3>1, <3>2, <3>3
  <2> QED BY <1>5, <1>8, <1>17, <1>18, <2>1
<1>20. WeekIsRight'
  <2>1. resolved'.week = full /\ resolved'.sent = meant /\ (resolved'.whole => sent >= Rollover)
    BY <1>5
  <2>2. ASSUME sent >= Rollover PROVE full = meant
    <3>1. sent = meant /\ ~(sent < Rollover)
      BY <1>0, <1>10, <2>2
    <3> QED BY <1>4, <3>1
  <2> QED BY <1>18, <2>1, <2>2 DEF WeekIsRight
<1>21. (started \in 0..MaxWeek /\ started <= week /\ newest <= week)'
  BY <1>5, <1>13 DEF WeeksInv
<1> QED BY <1>15, <1>19, <1>20, <1>21 DEF WeeksInv

\* A week counted modulo 1024 is resolved to the week it was sent in, unless one of the causes
\* came between: for every length of the period (WeeksAreKept of TimeBase).
THEOREM WeeksKept == WeeksSpec => []WeeksAreKept
<1>1. WeeksInv /\ [WeeksNext]_weekVars => WeeksInv'
  <2>1. WeeksInv /\ UNCHANGED weekVars => WeeksInv'
    BY DEF WeeksInv, WeeksTypeOK, ContextIsCurrent, WeekIsRight, Latest, weekVars
  <2> QED BY <2>1, WeeksNextWeekInv, WeeksResolveInv, WeeksSetAsideInv DEF WeeksNext
<1>2. WeeksInv => WeeksAreKept
  BY DEF WeeksInv, WeeksAreKept
<1> QED BY <1>1, <1>2, WeeksInitInv, PTL DEF WeeksSpec

-----------------------------------------------------------------------------
(* The segments. *)

\* Where a thread is when it has found its segments, and when it has read both stamps.
Timing  == {"look", "look2"} \cup Writing
Decided == {"look2"} \cup Writing

PlacesOfAThread == {"none", "await", "wait", "woken"} \cup Timing
PlacesOfNtpd    == {"idle", "count", "receive", "clock", "compare"}

SegmentRecords == [valid : BOOLEAN, count : Nat, clock : Stamps, receive : Stamps]
SlotRecords ==
  [known : BOOLEAN, open : BOOLEAN, openings : 0..2, adds : 0..MaxAdds,
   shmindex : attached \cup {Unlinked}, shmTimeP : attached \cup {Unlinked},
   ship : BOOLEAN, last : 0..MaxTick]
MainRecords == [pc : {"idle"} \cup Writing, unit : Units \cup {Unlinked}, clock : Stamps, receive : Stamps]
NtpdRecords ==
  [pc : PlacesOfNtpd, unit : Units \cup {Unlinked}, count : Nat, clock : Stamps, receive : Stamps]
ThreadRecords ==
  [pc : PlacesOfAThread, slot : Slots \cup {Unlinked}, tv : 0..MaxTick,
   unit : Units \cup {Unlinked}, from : Units \cup {Unlinked},
   put : 0..MaxPuts, opening : 0..1, clock : Stamps, receive : Stamps]

LinksTyped ==
  /\ attached \subseteq Units /\ shmTimePPS \in BOOLEAN
  /\ inUse \subseteq attached /\ dropped \subseteq Units
  /\ slot \in [Slots -> SlotRecords]

WorkTyped ==
  /\ disturbed \subseteq Units
  /\ segment \in [Units -> SegmentRecords]
  /\ main \in MainRecords
  /\ main.pc \in Writing =>
       main.unit \in attached /\ main.clock.put = main.receive.put /\ main.clock.of # "pulse"
  /\ ntpd \in NtpdRecords
  /\ ntpd.pc # "idle" => ntpd.unit \in Units
  /\ tick \in FirstTick..MaxTick /\ puts \in 0..MaxPuts

\* Every second attached segment is one for fixes, if there are pulses: a device gets the one
\* for its pulses right behind it, unless it is the last.
Before(u) == {v \in attached : v < u}
Even(u)   == Cardinality(Before(u)) % 2 = 0
Behind(u) == Alloc({v \in attached : v > u})

Links ==
  /\ \A s \in Slots :
       /\ slot[s].open => slot[s].known
       /\ ~slot[s].known => slot[s].shmindex = Unlinked
       /\ slot[s].shmindex = Unlinked => slot[s].shmTimeP = Unlinked
       /\ ~shmTimePPS => slot[s].shmTimeP = Unlinked
       /\ shmTimePPS /\ slot[s].shmindex # Unlinked =>
            Even(slot[s].shmindex) /\ slot[s].shmTimeP = Behind(slot[s].shmindex)
  /\ shmTimePPS =>
       \A u \in attached : Even(u) /\ Behind(u) # Unlinked => (u \in inUse <=> Behind(u) \in inUse)

\* A device that is linked was opened once, if at all.
Openings ==
  \A s \in Slots :
    slot[s].shmindex # Unlinked => slot[s].openings = IF slot[s].open THEN 1 ELSE 0

\* What a thread has found.
Threaded(th) ==
  /\ th \in ThreadRecords
  /\ th.pc # "none" => th.slot \in Slots
  /\ th.pc = "woken" \/ th.pc \in Timing => th.tv % 2 = 0
  /\ th.pc \in Timing =>
       /\ th.from \in attached /\ Even(th.from)
       /\ th.unit \in attached /\ ~Even(th.unit)
       /\ th.opening = 1
  /\ th.pc \in Decided => th.tv - th.receive.at \in 0..2
  /\ th.pc \in Writing => th.clock.of # "pulse"

Findings ==
  /\ thread \in [Threads -> ThreadRecords]
  /\ \A t \in Threads : Threaded(thread[t])

\* The words in the segments, and those on their way there.
Clocks   == {Never, main.clock} \cup {segment[u].clock : u \in Units} \cup {thread[t].clock : t \in Threads}
Receives == {Never, main.receive} \cup {segment[u].receive : u \in Units} \cup {thread[t].receive : t \in Threads}

IsWord(w) == w \in Stamps /\ w.put <= puts /\ (w.put # 0 => w.opening = 1)

\* The time of a fix was received when its second was over, or later; no pulse has its number.
Words ==
  /\ \A w \in Clocks \cup Receives : IsWord(w)
  /\ \A c \in Clocks : /\ c.of = "fix" => c.put # 0
                       /\ c.of # "pulse" => c.at + 1 <= MaxTick
  /\ \A c \in Clocks, r \in Receives : c.of = "fix" /\ c.put = r.put => r.at >= 2 * c.at + 1
  /\ \A t \in Threads : thread[t].put <= puts
  /\ \A c \in Clocks, t \in Threads : thread[t].pc \in Writing /\ c.of = "fix" => c.put # thread[t].put
  /\ \A u \in attached : Even(u) => segment[u].clock.of # "pulse"

\* The main thread is in the middle of a put to a segment.
MainAt(u) == main.pc \in Writing /\ main.unit = u

\* The protocol of a segment in which no writers met: its count is odd while there is one, and
\* it holds one time when there is none.
Undisturbed(u) ==
  LET seg == segment[u] IN
  /\ \A t, other \in Writers(u) : t = other
  /\ MainAt(u) => Writers(u) = {}
  /\ seg.count % 2 = 1 <=> Writers(u) # {} \/ MainAt(u)
  /\ Writers(u) = {} /\ ~MainAt(u) => seg.clock.put = seg.receive.put
  /\ MainAt(u) => /\ main.pc = "receive" => seg.clock.put = main.receive.put
                  /\ main.pc = "done" => seg.clock.put = seg.receive.put
  /\ \A t \in Writers(u) : /\ thread[t].pc = "receive" => seg.clock.put = thread[t].put
                           /\ thread[t].pc = "done" => seg.clock.put = seg.receive.put
  /\ ntpd.pc \in {"receive", "clock", "compare"} /\ ntpd.unit = u =>
       /\ ntpd.count <= seg.count
       /\ ntpd.count = seg.count /\ ntpd.count % 2 = 0 =>
            /\ ntpd.pc \in {"clock", "compare"} => ntpd.receive.put = seg.receive.put
            /\ ntpd.pc = "compare" => ntpd.clock.put = seg.clock.put

Protocol == \A u \in Units \ disturbed : Undisturbed(u)

\* Every put is begun once and ended once.
Busy == {t \in Threads : thread[t].pc \in Writing}
One(b) == IF b THEN 1 ELSE 0

Counted ==
  /\ Cardinality(Busy) + One(main.pc \in Writing) <= puts
  /\ \A u \in Units : segment[u].count + Cardinality(Writers(u)) + One(MainAt(u)) <= 2 * puts

ShmInv ==
  /\ LinksTyped /\ WorkTyped /\ Findings
  /\ SegmentsAreAccounted /\ Links /\ Openings /\ OneThreadADevice
  /\ Words /\ Protocol /\ Counted

-----------------------------------------------------------------------------
(* The order of the segments. *)

\* A set of numbers that is not empty has a least one: the least of the intervals from 0.
LEMMA HasLeast ==
  ASSUME NEW T \in SUBSET Nat, T # {}
  PROVE  \E x \in T : \A y \in T : x <= y
<1> DEFINE R == StrictSubsetOrdering(Nat)
           I == {0..x : x \in T}
<1>1. IsWellFoundedOn(R, FiniteSubsetsOf(Nat))
  BY FS_StrictSubsetOrderingWellFounded
<1>2. I \subseteq FiniteSubsetsOf(Nat) /\ I # {}
  <2>1. \A x \in T : 0..x \in SUBSET Nat /\ IsFiniteSet(0..x)
    BY FS_Interval
  <2>2. \A x \in T : 0..x \in FiniteSubsetsOf(Nat)
    BY <2>1 DEF FiniteSubsetsOf
  <2> QED
    BY <2>2
<1>3. PICK i \in I : \A j \in I : <<j, i>> \notin R
  <2> HIDE DEF I, R
  <2> QED BY <1>1, <1>2, WFMin
<1>4. PICK x \in T : i = 0..x
  OBVIOUS
<1>5. ASSUME NEW y \in T, y < x PROVE FALSE
  <2>1. 0..y \in I /\ 0..y \subseteq 0..x /\ x \in 0..x /\ x \notin 0..y
    BY <1>5
  <2>2. <<0..y, 0..x>> \in R
    BY <2>1 DEF StrictSubsetOrdering
  <2> QED
    BY <1>3, <1>4, <2>1, <2>2
<1> QED
  BY <1>5


LEMMA UnitsAre == Units \subseteq Nat /\ IsFiniteSet(Units) /\ Unlinked \notin Units
BY NtpAssumption, FS_Interval DEF Units, Unlinked

\* ntpshm_alloc finds the first segment of those that are free.
LEMMA AllocIs ==
  ASSUME NEW free, free \subseteq Units
  PROVE  /\ free = {} => Alloc(free) = Unlinked
         /\ free # {} => /\ Alloc(free) \in free /\ Alloc(free) # Unlinked
                         /\ \A v \in free : Alloc(free) <= v
<1>1. CASE free = {}
  BY <1>1 DEF Alloc
<1>2. CASE free # {}
  <2>1. \E x \in free : \A y \in free : x <= y
    BY <1>2, UnitsAre, HasLeast
  <2>2. Least(free) \in free /\ \A y \in free : Least(free) <= y
    BY <2>1 DEF Least
  <2> QED BY <1>2, <2>2, UnitsAre DEF Alloc
<1> QED BY <1>1, <1>2

\* The first of a set is the only one that is in it and not above the others.
LEMMA AllocOnly ==
  ASSUME NEW free, free \subseteq Units, NEW x, x \in free, \A v \in free : x <= v
  PROVE  Alloc(free) = x
<1>1. Alloc(free) \in free /\ Alloc(free) <= x /\ x <= Alloc(free)
  BY AllocIs
<1>2. Alloc(free) \in Nat /\ x \in Nat
  BY <1>1, UnitsAre
<1> QED BY <1>1, <1>2

\* The segment behind another one, and its place in the order.
LEMMA BehindIs ==
  ASSUME attached \subseteq Units, NEW u, u \in attached, NEW w, w = Behind(u)
  PROVE  /\ w = Unlinked => \A v \in attached : v <= u
         /\ w # Unlinked => /\ w \in attached /\ w > u
                            /\ \A v \in attached : v > u => w <= v
                            /\ Even(w) <=> ~Even(u)
<1>1. PICK later : later = {v \in attached : v > u}
  OBVIOUS
<1>2. later \subseteq Units /\ w = Alloc(later)
  BY <1>1 DEF Behind
<1>3. ASSUME w = Unlinked PROVE \A v \in attached : v <= u
  <2>1. later = {}
    BY <1>2, <1>3, AllocIs
  <2> QED BY <1>1, <2>1, UnitsAre
<1>4. ASSUME w # Unlinked
      PROVE  /\ w \in attached /\ w > u
             /\ \A v \in attached : v > u => w <= v
             /\ Even(w) <=> ~Even(u)
  <2>1. w \in later /\ \A v \in later : w <= v
    BY <1>2, <1>4, AllocIs
  <2>2. w \in attached /\ w > u /\ \A v \in attached : v > u => w <= v
    BY <1>1, <2>1
  <2>7. \A v \in attached : v \in Nat
    BY UnitsAre
  <2>8. \A v \in attached : v < w <=> v < u \/ v = u
    BY <2>2, <2>7
  <2>3. Before(w) = Before(u) \cup {u} /\ u \notin Before(u)
    BY <2>7, <2>8 DEF Before
  <2>4. IsFiniteSet(Before(u)) /\ Cardinality(Before(u)) \in Nat
    BY UnitsAre, FS_Subset, FS_CardinalityType DEF Before
  <2>5. Cardinality(Before(w)) = Cardinality(Before(u)) + 1
    BY <2>3, <2>4, FS_AddElement
  <2>6. Even(w) <=> ~Even(u)
    BY <2>4, <2>5 DEF Even
  <2> QED BY <2>2, <2>6
<1> QED BY <1>3, <1>4

\* Of a segment that is not even there is one in front, which it is behind.
LEMMA InFront ==
  ASSUME attached \subseteq Units, NEW u, u \in attached, ~Even(u)
  PROVE  \E p \in attached : Even(p) /\ Behind(p) = u
<1>1. Before(u) # {}
  <2>1. Cardinality({}) % 2 = 0
    BY FS_EmptySet
  <2> QED BY <2>1 DEF Even
<1>2. PICK back : back = {Segments - v : v \in Before(u)}
  OBVIOUS
<1>3. back \in SUBSET Nat /\ back # {}
  <2>1. \A v \in Before(u) : v \in Int /\ v <= Segments
    BY NtpAssumption DEF Before, Units
  <2>2. \A v \in Before(u) : Segments - v \in Nat
    BY <2>1, NtpAssumption
  <2> QED BY <1>1, <1>2, <2>2
<1>4. PICK x \in back : \A y \in back : x <= y
  BY <1>3, HasLeast
<1>5. PICK p \in Before(u) : x = Segments - p
  BY <1>2
<1>6. p \in attached /\ p < u /\ p \in Nat /\ u \in Nat
  BY UnitsAre DEF Before
<1>7. ASSUME NEW v \in attached, v > p PROVE u <= v
  <2>1. CASE v < u
    <3>1. Segments - v \in back
      BY <1>2, <2>1 DEF Before
    <3>2. Segments - p <= Segments - v
      BY <1>4, <1>5, <3>1
    <3> QED BY <1>6, <1>7, <3>2, UnitsAre, NtpAssumption
  <2> QED BY <1>6, <2>1, UnitsAre
<1>8. Behind(p) = u
  <2>1. PICK later : later = {v \in attached : v > p}
    OBVIOUS
  <2>2. later \subseteq Units /\ u \in later /\ \A v \in later : u <= v
    BY <1>6, <1>7, <2>1
  <2> QED BY <2>1, <2>2, AllocOnly DEF Behind
<1>9. Even(p)
  <2>1. u # Unlinked
    BY UnitsAre
  <2> QED BY <1>6, <1>8, <2>1, BehindIs
<1> QED BY <1>6, <1>8, <1>9

\* The segments a device gets are an even one and the one behind it.
LEMMA FreeIsPaired ==
  ASSUME attached \subseteq Units, inUse \subseteq attached, Links, shmTimePPS,
         NEW x, x = LinkedTo.shmindex, x # Unlinked
  PROVE  x \in attached \ inUse /\ Even(x) /\ LinkedTo.shmTimeP = Behind(x)
<1>1. PICK free : free = attached \ inUse
  OBVIOUS
<1>2. free \subseteq Units /\ x = Alloc(free) /\ LinkedTo.shmTimeP = Alloc(free \ {x})
  BY <1>1 DEF LinkedTo
<1>3. x \in free /\ \A v \in free : x <= v
  BY <1>2, AllocIs
<1>4. Even(x)
  <2>1. SUFFICES ASSUME ~Even(x) PROVE FALSE
    OBVIOUS
  <2>2. PICK p \in attached : Even(p) /\ Behind(p) = x
    BY <1>1, <1>3, <2>1, InFront
  <2>3. x > p
    BY <2>2, BehindIs
  <2>4. p \in free
    BY <1>1, <1>3, <2>2 DEF Links
  <2>5. x \in Nat /\ p \in Nat
    BY <1>2, <1>3, <2>4, UnitsAre
  <2> QED BY <1>3, <2>3, <2>4, <2>5
<1>6. \A v \in attached : v \in Nat
  BY UnitsAre
<1>5. Alloc(free \ {x}) = Behind(x)
  <2>1. PICK w : w = Behind(x)
    OBVIOUS
  <2>2. CASE w = Unlinked
    <3>1. \A v \in attached : v <= x
      BY <1>1, <1>3, <2>1, <2>2, BehindIs
    <3>2. free \ {x} = {}
      <4>1. ASSUME NEW v \in free PROVE v = x
        <5>1. v <= x /\ x <= v
          BY <1>1, <1>3, <3>1
        <5> QED BY <1>1, <1>3, <1>6, <5>1
      <4> QED BY <4>1
    <3> QED BY <2>1, <2>2, <3>2 DEF Alloc
  <2>3. CASE w # Unlinked
    <3>1. w \in attached /\ w > x /\ \A v \in attached : v > x => w <= v
      BY <1>1, <1>3, <2>1, <2>3, BehindIs
    <3>2. w \in free
      BY <1>1, <1>3, <1>4, <2>1, <2>3, <3>1 DEF Links
    <3>3. PICK rest : rest = free \ {x}
      OBVIOUS
    <3>4. rest \subseteq Units /\ w \in rest /\ \A v \in rest : w <= v
      <4>1. ASSUME NEW v \in rest PROVE w <= v
        <5>1. v \in attached /\ x <= v /\ v # x
          BY <1>1, <1>3, <3>3, <4>1
        <5>2. v > x
          BY <1>1, <1>3, <1>6, <5>1
        <5> QED BY <3>1, <5>1, <5>2
      <4>2. w # x
        BY <1>6, <1>1, <1>3, <3>1
      <4> QED BY <1>2, <3>2, <3>3, <4>1, <4>2
    <3> QED BY <2>1, <3>3, <3>4, AllocOnly
  <2> QED BY <2>2, <2>3
<1> QED BY <1>1, <1>2, <1>3, <1>4, <1>5

-----------------------------------------------------------------------------
(* What the invariant says, part by part. *)

LEMMA InvTypes ==
  ASSUME ShmInv
  PROVE  ShmTypeOK
<1>1. /\ attached \subseteq Units /\ shmTimePPS \in BOOLEAN
      /\ inUse \subseteq attached /\ dropped \subseteq Units /\ disturbed \subseteq Units
      /\ tick \in FirstTick..MaxTick /\ puts \in 0..MaxPuts
      /\ main.pc \in Writing => main.unit \in attached
  BY DEF ShmInv, LinksTyped, WorkTyped
<1>2. segment \in [Units -> SegmentRecords] /\ slot \in [Slots -> SlotRecords]
  BY DEF ShmInv, LinksTyped, WorkTyped
<1>3. ASSUME NEW u \in Units
      PROVE  segment[u] \in [valid : BOOLEAN, count : 0..(2 * MaxPuts), clock : Stamps, receive : Stamps]
  <2>1. segment[u] \in SegmentRecords
    BY <1>2
  <2>2. Cardinality(Writers(u)) \in Nat
    BY NtpAssumption, FS_Subset, FS_CardinalityType DEF Writers
  <2>3. segment[u].count + Cardinality(Writers(u)) + One(MainAt(u)) <= 2 * puts
    BY DEF ShmInv, Counted
  <2>4. One(MainAt(u)) \in Nat
    BY DEF One
  <2>5. segment[u].count \in 0..(2 * MaxPuts)
    BY <1>1, <2>1, <2>2, <2>3, <2>4, NtpAssumption DEF SegmentRecords
  <2> QED BY <2>1, <2>5 DEF SegmentRecords
<1>4. \A t \in Threads : thread[t].pc \in Writing => thread[t].unit \in attached
  BY DEF ShmInv, Findings, Threaded, Timing
<1>5. segment \in [Units -> [valid : BOOLEAN, count : 0..(2 * MaxPuts), clock : Stamps, receive : Stamps]]
  BY <1>2, <1>3
<1>6. slot \in [Slots -> [known : BOOLEAN, open : BOOLEAN, openings : 0..2, adds : 0..MaxAdds,
                        shmindex : attached \cup {Unlinked}, shmTimeP : attached \cup {Unlinked},
                        ship : BOOLEAN, last : 0..MaxTick]]
  BY <1>2 DEF SlotRecords
<1> QED BY <1>1, <1>4, <1>5, <1>6 DEF ShmTypeOK

\* The stamps are from the first openings.
LEMMA InvTimed ==
  ASSUME ShmInv
  PROVE  OnlyTheFirstOpeningIsTimed
<1>1. \A u \in Units : segment[u].clock \in Clocks /\ segment[u].receive \in Receives
  BY DEF Clocks, Receives
<1>2. \A w \in Clocks \cup Receives : w.put # 0 => w.opening = 1
  BY DEF ShmInv, Words, IsWord
<1> QED BY <1>1, <1>2 DEF OnlyTheFirstOpeningIsTimed

\* When ntpd compares, an even count that did not change stands for one time.
LEMMA InvWhole ==
  ASSUME ShmInv
  PROVE  TornNeedsAnOddCount
<1> SUFFICES ASSUME Accepts, ntpd.clock.put # ntpd.receive.put, ntpd.count % 2 # 1,
                    ntpd.unit \notin disturbed
             PROVE  FALSE
  BY DEF TornNeedsAnOddCount
<1>1. PICK u : u = ntpd.unit
  OBVIOUS
<1>2. ntpd.pc = "compare" /\ segment[u].count = ntpd.count /\ ntpd.count \in Nat /\ u \in Units
  BY <1>1 DEF Accepts, ShmInv, WorkTyped, NtpdRecords
<1>3. Undisturbed(u)
  BY <1>1, <1>2 DEF ShmInv, Protocol
<1>4. ntpd.count % 2 = 0
  BY <1>2
<1>5. Writers(u) = {} /\ ~MainAt(u)
  BY <1>2, <1>3 DEF Undisturbed
<1>6. segment[u].clock.put = segment[u].receive.put
  BY <1>3, <1>5 DEF Undisturbed
<1>7. ntpd.receive.put = segment[u].receive.put /\ ntpd.clock.put = segment[u].clock.put
  BY <1>1, <1>2, <1>3, <1>4 DEF Undisturbed
<1> QED BY <1>6, <1>7

\* A pulse that a fix of the second before it allows for is the end of that second.
LEMMA InvPulse ==
  ASSUME ShmInv
  PROVE  PulseHasItsSecond
<1> SUFFICES ASSUME NEW t \in Threads, NEW fix, fix = thread[t].clock, thread[t].pc \in Writing,
                    fix.of = "fix", fix.put = thread[t].receive.put,
                    thread[t].receive.at <= 2 * fix.at + 1
             PROVE  2 * (fix.at + 1) = thread[t].tv
  BY DEF PulseHasItsSecond
<1>1. fix \in Clocks /\ thread[t].receive \in Receives
  BY DEF Clocks, Receives
<1>2. thread[t].receive.at >= 2 * fix.at + 1
  BY <1>1 DEF ShmInv, Words
<1>3. thread[t] \in ThreadRecords /\ thread[t].tv % 2 = 0 /\ thread[t].tv - thread[t].receive.at \in 0..2
  BY DEF ShmInv, Findings, Threaded, Timing, Decided
<1>4. fix.at \in Nat /\ thread[t].receive.at \in Nat /\ thread[t].tv \in Nat
  BY <1>3, NtpAssumption DEF ThreadRecords, Stamps
<1>5. thread[t].receive.at = 2 * fix.at + 1
  BY <1>2, <1>4
<1>6. PICK a, tv : a = fix.at /\ tv = thread[t].tv
  OBVIOUS
<1>7. a \in Nat /\ tv \in Nat /\ tv % 2 = 0 /\ tv - (2 * a + 1) \in 0..2
  BY <1>3, <1>4, <1>5, <1>6
<1>8. 2 * (a + 1) = tv
  BY ONLY <1>7
<1> QED BY <1>6, <1>8

LEMMA NeverIs == Never \in Stamps /\ Never.put = 0 /\ Never.of = "none" /\ Never.at = 0
<1>1. 0 \in 0..MaxTick /\ 0 \in 0..MaxPuts
  BY NtpAssumption
<1> QED BY <1>1 DEF Never, Stamps

LEMMA ShmInitInv == ShmInit => ShmInv
<1> SUFFICES ASSUME ShmInit PROVE ShmInv
  OBVIOUS
<1>1. /\ attached \subseteq Units /\ shmTimePPS \in BOOLEAN /\ inUse = {}
      /\ segment = [u \in Units |-> Cleared] /\ slot = [s \in Slots |-> Unused]
      /\ main = AtRest /\ thread = [t \in Threads |-> Nobody] /\ ntpd = Waiting
      /\ tick = FirstTick /\ puts = 0 /\ dropped = {} /\ disturbed = {}
  BY DEF ShmInit
<1>2. 0 \in 0..MaxTick /\ 0 \in 0..MaxPuts /\ 0 \in 0..MaxAdds
  BY NtpAssumption
<1>3. LinksTyped
  BY <1>1, <1>2 DEF LinksTyped, SlotRecords, Unused
<1>4. WorkTyped
  <2>1. segment \in [Units -> SegmentRecords]
    BY <1>1, NeverIs DEF SegmentRecords, Cleared
  <2>2. main \in MainRecords /\ main.pc \notin Writing
    BY <1>1, NeverIs DEF MainRecords, AtRest, Writing
  <2>3. ntpd \in NtpdRecords /\ ntpd.pc = "idle"
    BY <1>1, NeverIs DEF NtpdRecords, PlacesOfNtpd, Waiting
  <2> QED BY <1>1, <1>2, <2>1, <2>2, <2>3, NtpAssumption DEF WorkTyped
<1>5. Findings
  <2>1. Nobody \in ThreadRecords
    BY <1>2, NeverIs DEF Nobody, ThreadRecords, PlacesOfAThread
  <2>2. Threaded(Nobody)
    <3>1. Nobody.pc = "none" /\ "none" \notin Timing /\ "none" \notin Decided /\ "none" \notin Writing
      BY DEF Nobody, Timing, Decided, Writing
    <3> QED BY <2>1, <3>1 DEF Threaded
  <2> QED BY <1>1, <2>1, <2>2 DEF Findings
<1>6. SegmentsAreAccounted
  BY <1>1 DEF SegmentsAreAccounted, Known, Unused
<1>7. Links /\ Openings
  BY <1>1 DEF Links, Openings, Unused
<1>8. \A t \in Threads : thread[t].pc = "none" /\ thread[t].put = 0
  BY <1>1 DEF Nobody
<1>9. OneThreadADevice
  <2>1. \A s \in Slots : Running(s) = {}
    BY <1>8 DEF Running
  <2> QED BY <1>1, <2>1, FS_EmptySet DEF OneThreadADevice, Unused
<1>10. Words
  <2>1. Clocks = {Never} /\ Receives = {Never}
    BY <1>1 DEF Clocks, Receives, Cleared, AtRest, Nobody
  <2>2. IsWord(Never)
    BY <1>1, NeverIs DEF IsWord
  <2>3. \A u \in Units : segment[u].clock = Never
    BY <1>1 DEF Cleared
  <2> QED BY <1>1, <1>8, <2>1, <2>2, <2>3, NeverIs, NtpAssumption DEF Words
<1>11. \A u : Writers(u) = {} /\ ~MainAt(u)
  BY <1>1, <1>8 DEF Writers, MainAt, AtRest, Writing
<1>12. Protocol
  BY <1>1, <1>11 DEF Protocol, Undisturbed, Cleared, Waiting
<1>13. Counted
  <2>1. Busy = {} /\ main.pc \notin Writing
    BY <1>1, <1>8 DEF Busy, Writing, AtRest
  <2>2. \A u \in Units : segment[u].count = 0
    BY <1>1 DEF Cleared
  <2> QED BY <1>1, <1>11, <2>1, <2>2, FS_EmptySet DEF Counted, One
<1> QED BY <1>3, <1>4, <1>5, <1>6, <1>7, <1>9, <1>10, <1>12, <1>13 DEF ShmInv

-----------------------------------------------------------------------------
(* What a step leaves as it was. *)

LEMMA LinksSame ==
  ASSUME ShmInv, UNCHANGED linkVars
  PROVE  LinksTyped' /\ SegmentsAreAccounted' /\ Links' /\ Openings'
<1>1. /\ attached' = attached /\ shmTimePPS' = shmTimePPS /\ inUse' = inUse
      /\ slot' = slot /\ dropped' = dropped
  BY DEF linkVars
<1>2. LinksTyped'
  BY <1>1 DEF ShmInv, LinksTyped, SlotRecords
<1>3. SegmentsAreAccounted'
  BY <1>1 DEF ShmInv, SegmentsAreAccounted, Known
<1>4. Links'
  BY <1>1 DEF ShmInv, Links, Even, Before, Behind
<1>5. Openings'
  BY <1>1 DEF ShmInv, Openings
<1> QED BY <1>2, <1>3, <1>4, <1>5

\* A thread moves.
LEMMA FindingsStep ==
  ASSUME Findings, attached' = attached, NEW t, t \in Threads, NEW n, Threaded(n),
         thread' = [thread EXCEPT ![t] = n]
  PROVE  Findings'
<1>1. n \in ThreadRecords
  BY DEF Threaded
<1>2. thread' \in [Threads -> ThreadRecords]
  BY <1>1 DEF Findings
<1>3. ASSUME NEW o \in Threads PROVE Threaded(thread[o])'
  <2>1. PICK th : th = thread'[o]
    OBVIOUS
  <2>2. Threaded(th)
    BY <2>1 DEF Findings
  <2>3. Threaded(thread[o])'
    BY <2>1, <2>2 DEF Threaded, Even, Before
  <2> QED BY <2>3
<1> QED BY <1>2, <1>3 DEF Findings

LEMMA FindingsSame ==
  ASSUME Findings, attached' = attached, thread' = thread
  PROVE  Findings'
BY DEF Findings, Threaded, Even, Before

\* No thread begins, and none changes its slot.
LEMMA RunningSame ==
  ASSUME OneThreadADevice,
         \A s \in Slots : slot'[s].adds = slot[s].adds,
         \A t \in Threads : thread'[t].pc # "none" =>
                             thread[t].pc # "none" /\ thread'[t].slot = thread[t].slot,
         slot \in [Slots -> SlotRecords]
  PROVE  OneThreadADevice'
<1> SUFFICES ASSUME NEW s \in Slots PROVE Cardinality(Running(s)') <= slot'[s].adds
  BY DEF OneThreadADevice
<1>1. PICK before, after : before = Running(s) /\ after = Running(s)'
  OBVIOUS
<1>2. before \subseteq Threads /\ after \subseteq before
  BY <1>1 DEF Running
<1>3. IsFiniteSet(before) /\ Cardinality(after) <= Cardinality(before)
  BY <1>2, NtpAssumption, FS_Subset
<1>4. Cardinality(before) <= slot[s].adds /\ slot[s].adds \in Int
  BY <1>1 DEF OneThreadADevice, SlotRecords
<1>5. Cardinality(before) \in Nat /\ Cardinality(after) \in Nat
  BY <1>2, <1>3, FS_Subset, FS_CardinalityType
<1> QED BY <1>1, <1>3, <1>4, <1>5

\* Where the words are.
LEMMA WordsAt ==
  /\ Never \in Clocks /\ Never \in Receives
  /\ main.clock \in Clocks /\ main.receive \in Receives
  /\ \A u \in Units : segment[u].clock \in Clocks /\ segment[u].receive \in Receives
  /\ \A t \in Threads : thread[t].clock \in Clocks /\ thread[t].receive \in Receives
BY DEF Clocks, Receives

LEMMA WordsIn ==
  ASSUME NEW C, NEW R, Never \in C, Never \in R,
         main'.clock \in C, main'.receive \in R,
         \A u \in Units : segment'[u].clock \in C /\ segment'[u].receive \in R,
         \A t \in Threads : thread'[t].clock \in C /\ thread'[t].receive \in R
  PROVE  Clocks' \subseteq C /\ Receives' \subseteq R
BY DEF Clocks, Receives

LEMMA WordsTyped ==
  ASSUME Words, NEW w, w \in Clocks \cup Receives
  PROVE  w \in Stamps /\ w.put \in Nat /\ w.at \in Nat /\ w.put <= puts
<1>1. w \in Stamps /\ w.put <= puts
  BY DEF Words, IsWord
<1> QED BY <1>1, NtpAssumption DEF Stamps

\* At most one word comes to the clocks and one to the receives, and neither is of a fix.
LEMMA WordsGrow ==
  ASSUME Words, puts \in Nat, puts' \in Nat, puts' >= puts, attached' = attached,
         NEW p, IsWord(p), p.of # "fix", p.of # "pulse" => p.at + 1 <= MaxTick,
         NEW r, IsWord(r), \A c \in Clocks : c.of = "fix" => c.put # r.put,
         Clocks' \subseteq Clocks \cup {p}, Receives' \subseteq Receives \cup {r},
         \A t \in Threads :
           /\ thread'[t].put \in Nat /\ thread'[t].put <= puts'
           /\ thread'[t].pc \in Writing =>
                \/ thread[t].pc \in Writing /\ thread'[t].put = thread[t].put
                \/ thread'[t].put > puts,
         \A u \in attached : Even(u) => segment'[u].clock.of # "pulse"
  PROVE  Words'
<1>0. \A w : IsWord(w) => w \in Stamps /\ w.put <= puts /\ (w.put # 0 => w.opening = 1)
  BY DEF IsWord
<1>1. \A w \in Clocks' \cup Receives' : w \in Stamps /\ w.put <= puts' /\ (w.put # 0 => w.opening = 1)
  <2> SUFFICES ASSUME NEW w \in Clocks \cup Receives \cup {p, r}
               PROVE  w \in Stamps /\ w.put <= puts' /\ (w.put # 0 => w.opening = 1)
    OBVIOUS
  <2>1. IsWord(w)
    BY DEF Words
  <2>2. w \in Stamps /\ w.put <= puts /\ (w.put # 0 => w.opening = 1)
    BY <1>0, <2>1
  <2>3. w.put \in Nat
    BY <2>2, NtpAssumption DEF Stamps
  <2> QED BY <2>2, <2>3
<1>2. \A c \in Clocks' : (c.of = "fix" => c.put # 0) /\ (c.of # "pulse" => c.at + 1 <= MaxTick)
  BY DEF Words
<1>3. \A c \in Clocks', o \in Receives' : c.of = "fix" /\ c.put = o.put => o.at >= 2 * c.at + 1
  BY DEF Words
<1>4. ASSUME NEW c \in Clocks', NEW t \in Threads, thread'[t].pc \in Writing, c.of = "fix"
      PROVE  c.put # thread'[t].put
  <2>0. c \in Clocks
    BY <1>4
  <2>1. CASE thread[t].pc \in Writing /\ thread'[t].put = thread[t].put
    BY <1>4, <2>0, <2>1 DEF Words
  <2>2. CASE thread'[t].put > puts
    <3>1. c.put \in Nat /\ c.put <= puts
      BY <2>0, WordsTyped
    <3> QED BY <2>2, <3>1
  <2> QED BY <1>4, <2>1, <2>2
<1>5. \A u \in attached' : Even(u)' => segment'[u].clock.of # "pulse"
  BY DEF Even, Before
<1> QED BY <1>1, <1>2, <1>3, <1>4, <1>5 DEF Words, IsWord

\* The words are copied or forgotten, and only a new number is given to a pulse.
LEMMA WordsKept ==
  ASSUME Words, puts \in Nat, puts' \in Nat, puts' >= puts, attached' = attached,
         Clocks' \subseteq Clocks, Receives' \subseteq Receives,
         \A t \in Threads :
           /\ thread'[t].put \in Nat /\ thread'[t].put <= puts'
           /\ thread'[t].pc \in Writing =>
                \/ thread[t].pc \in Writing /\ thread'[t].put = thread[t].put
                \/ thread'[t].put > puts,
         \A u \in attached : Even(u) => segment'[u].clock.of # "pulse"
  PROVE  Words'
<1>1. PICK p : p = Never
  OBVIOUS
<1>2. p \in Stamps /\ p.put = 0 /\ p.of = "none" /\ p.at = 0
  BY <1>1, NeverIs
<1>3. IsWord(p) /\ p.of # "fix" /\ (p.of # "pulse" => p.at + 1 <= MaxTick)
  BY <1>2, NtpAssumption DEF IsWord
<1>4. \A c \in Clocks : c.of = "fix" => c.put # p.put
  BY <1>2 DEF Words
<1>5. Clocks' \subseteq Clocks \cup {p} /\ Receives' \subseteq Receives \cup {p}
  OBVIOUS
<1> QED BY <1>3, <1>4, <1>5, WordsGrow

\* No step of a put to a segment, nor of a look at it.
Untouched(u) ==
  /\ segment'[u].clock = segment[u].clock /\ segment'[u].receive = segment[u].receive
  /\ segment'[u].count = segment[u].count
  /\ Writers(u)' = Writers(u)
  /\ \A t \in Writers(u) : thread'[t].pc = thread[t].pc /\ thread'[t].put = thread[t].put
  /\ MainAt(u)' <=> MainAt(u)
  /\ MainAt(u) => main' = main
  /\ ntpd'.pc \in {"receive", "clock", "compare"} /\ ntpd'.unit = u => ntpd' = ntpd

LEMMA UndisturbedSame ==
  ASSUME NEW u, Untouched(u), Undisturbed(u)
  PROVE  Undisturbed(u)'
BY DEF Untouched, Undisturbed

LEMMA CountedSame ==
  ASSUME Counted, Busy' = Busy, main'.pc \in Writing <=> main.pc \in Writing, puts' = puts,
         \A u \in Units : /\ segment'[u].count = segment[u].count
                          /\ Writers(u)' = Writers(u)
                          /\ MainAt(u)' <=> MainAt(u)
  PROVE  Counted'
<1>2. Cardinality(Busy)' = Cardinality(Busy) /\ One(main.pc \in Writing)' = One(main.pc \in Writing)
  BY DEF One
<1>3. Cardinality(Busy)' + One(main.pc \in Writing)' <= puts'
  BY <1>2 DEF Counted
<1>4. ASSUME NEW u \in Units
      PROVE  segment'[u].count + Cardinality(Writers(u))' + One(MainAt(u))' <= 2 * puts'
  <2>1. Cardinality(Writers(u))' = Cardinality(Writers(u)) /\ One(MainAt(u))' = One(MainAt(u))
    BY DEF One
  <2>2. segment[u].count + Cardinality(Writers(u)) + One(MainAt(u)) <= 2 * puts
    BY DEF Counted
  <2> QED BY <2>1, <2>2
<1> QED BY <1>3, <1>4 DEF Counted

\* A thread goes on that is not in the middle of a put.
LEMMA QuietInv ==
  ASSUME ShmInv, NEW t, t \in Threads, NEW n, Threaded(n),
         thread' = [thread EXCEPT ![t] = n],
         thread[t].pc \notin Writing, thread[t].pc # "none", n.pc \notin Writing,
         n.pc # "none" => n.slot = thread[t].slot,
         n.clock \in Clocks, n.receive \in Receives, n.put <= puts,
         UNCHANGED <<linkVars, segment, main, ntpd, tick, puts, disturbed>>
  PROVE  ShmInv'
<1>1. LinksTyped' /\ SegmentsAreAccounted' /\ Links' /\ Openings'
  BY LinksSame
<1>2. /\ attached' = attached /\ slot' = slot /\ segment' = segment /\ main' = main /\ ntpd' = ntpd
      /\ tick' = tick /\ puts' = puts /\ disturbed' = disturbed
  BY DEF linkVars
<1>3. WorkTyped'
  BY <1>2 DEF ShmInv, WorkTyped
<1>4. Findings'
  BY <1>2, FindingsStep DEF ShmInv
<1>5. \A o \in Threads : thread'[o] = IF o = t THEN n ELSE thread[o]
  BY DEF ShmInv, Findings
<1>6. OneThreadADevice'
  BY <1>2, <1>5, RunningSame DEF ShmInv, LinksTyped
<1>7. Words'
  <2>1. Clocks' \subseteq Clocks /\ Receives' \subseteq Receives
    BY <1>2, <1>5, WordsAt, WordsIn
  <2>2. \A o \in Threads : thread'[o].put \in Nat /\ thread'[o].put <= puts
    <3>1. n.put \in Nat /\ \A o \in Threads : thread[o].put \in Nat
      BY NtpAssumption DEF Threaded, ShmInv, Findings, ThreadRecords
    <3> QED BY <1>5, <3>1 DEF ShmInv, Words
  <2>3. puts \in Nat
    BY NtpAssumption DEF ShmInv, WorkTyped
  <2>4. \A u \in attached : Even(u) => segment'[u].clock.of # "pulse"
    BY <1>2 DEF ShmInv, Words
  <2>5. \A o \in Threads : thread'[o].pc \in Writing =>
                             thread[o].pc \in Writing /\ thread'[o].put = thread[o].put
    BY <1>5
  <2> QED BY <1>2, <2>1, <2>2, <2>3, <2>4, <2>5, WordsKept DEF ShmInv
<1>8. Busy' = Busy /\ \A u : Writers(u)' = Writers(u)
  BY <1>5 DEF Busy, Writers
<1>9. \A u : MainAt(u)' <=> MainAt(u)
  BY <1>2 DEF MainAt
<1>10. Protocol'
  <2> SUFFICES ASSUME NEW u \in Units \ disturbed PROVE Undisturbed(u)'
    BY <1>2 DEF Protocol
  <2>1. Undisturbed(u)
    BY DEF ShmInv, Protocol
  <2>2. \A o \in Writers(u) : thread'[o] = thread[o]
    BY <1>5 DEF Writers
  <2>3. Untouched(u)
    BY <1>2, <1>8, <1>9, <2>2 DEF Untouched
  <2> QED BY <2>1, <2>3, UndisturbedSame
<1>11. Counted'
  BY <1>2, <1>8, <1>9, CountedSame DEF ShmInv
<1> QED BY <1>1, <1>3, <1>4, <1>6, <1>7, <1>10, <1>11 DEF ShmInv

\* A thread that begins to wait again, or ends, holds nothing any more.
Again(t) == IF Device(t).open THEN [Started(thread[t].slot) EXCEPT !.pc = "wait"] ELSE Nobody

LEMMA AgainIs ==
  ASSUME Findings, NEW t, t \in Threads, thread[t].pc # "none", NEW n, n = Again(t)
  PROVE  /\ Threaded(n) /\ n.pc \in {"none", "wait"} /\ n.pc \notin Writing
         /\ n.pc # "none" => n.slot = thread[t].slot
         /\ n.clock = Never /\ n.receive = Never /\ n.put = 0
         /\ WaitsAgain(t) => thread' = [thread EXCEPT ![t] = n]
<1>1. thread[t].slot \in Slots /\ thread \in [Threads -> ThreadRecords]
  BY DEF Findings, Threaded
<1>2. 0 \in 0..MaxTick /\ 0 \in 0..MaxPuts
  BY NtpAssumption
<1>3. Nobody \in ThreadRecords
  BY <1>2, NeverIs DEF Nobody, ThreadRecords, PlacesOfAThread
<1>4. [Started(thread[t].slot) EXCEPT !.pc = "wait"] \in ThreadRecords
  <2>1. PICK begun : begun = Started(thread[t].slot)
    OBVIOUS
  <2>2. begun \in ThreadRecords
    BY <1>1, <1>3, <2>1 DEF Started, ThreadRecords, PlacesOfAThread
  <2>3. [begun EXCEPT !.pc = "wait"] \in ThreadRecords
    BY <2>2 DEF ThreadRecords, PlacesOfAThread
  <2> QED BY <2>1, <2>3
<1>5. n \in ThreadRecords
  BY <1>3, <1>4 DEF Again
<1>6. /\ n.pc \in {"none", "wait"} /\ (n.pc # "none" => n.slot = thread[t].slot)
      /\ n.clock = Never /\ n.receive = Never /\ n.put = 0
  BY DEF Again, Started, Nobody
<1>7. n.pc \notin Writing /\ n.pc \notin Timing /\ n.pc \notin Decided /\ n.pc # "woken"
  BY <1>6 DEF Writing, Timing, Decided
<1>8. Threaded(n)
  BY <1>1, <1>5, <1>6, <1>7 DEF Threaded
<1>9. WaitsAgain(t) => thread' = [thread EXCEPT ![t] = n]
  BY <1>1 DEF WaitsAgain, Again
<1> QED BY <1>6, <1>7, <1>8, <1>9

LEMMA QuietVars ==
  ASSUME UNCHANGED <<quietVars, segment, puts, disturbed>>
  PROVE  UNCHANGED <<linkVars, segment, main, ntpd, tick, puts, disturbed>>
BY DEF quietVars

LEMMA PutsAre ==
  ASSUME ShmInv
  PROVE  puts \in Nat /\ puts <= MaxPuts /\ tick \in Nat /\ tick <= MaxTick /\ tick >= 1
BY NtpAssumption DEF ShmInv, WorkTyped

LEMMA AwaitsInv ==
  ASSUME ShmInv, NEW t, t \in Threads, thread[t].pc \in {"await", "woken", "look"}, WaitsAgain(t),
         UNCHANGED <<quietVars, segment, puts, disturbed>>
  PROVE  ShmInv'
<1>1. PICK n : n = Again(t)
  OBVIOUS
<1>2. thread[t].pc # "none" /\ thread[t].pc \notin Writing
  BY DEF Writing
<1>3. /\ Threaded(n) /\ n.pc \notin Writing /\ (n.pc # "none" => n.slot = thread[t].slot)
      /\ n.clock = Never /\ n.receive = Never /\ n.put = 0
      /\ thread' = [thread EXCEPT ![t] = n]
  BY <1>1, <1>2, AgainIs DEF ShmInv
<1>4. n.clock \in Clocks /\ n.receive \in Receives /\ n.put <= puts
  BY <1>3, WordsAt, PutsAre
<1> QED BY <1>2, <1>3, <1>4, QuietVars, QuietInv

LEMMA WaitFailsInv ==
  ASSUME ShmInv, NEW t, t \in Threads, WaitFails(t)
  PROVE  ShmInv'
<1>1. /\ thread[t].pc = "wait" /\ thread' = [thread EXCEPT ![t] = Nobody]
      /\ UNCHANGED <<quietVars, segment, puts, disturbed>>
  BY DEF WaitFails, Ended
<1>2. thread[t].pc # "none" /\ thread[t].pc \notin Writing
  BY <1>1 DEF Writing
<1>3. Nobody \in ThreadRecords
  BY NeverIs, NtpAssumption DEF Nobody, ThreadRecords, PlacesOfAThread
<1>4. PICK n : n = Nobody
  OBVIOUS
<1>5. n.pc = "none" /\ n.clock = Never /\ n.receive = Never /\ n.put = 0
  BY <1>4 DEF Nobody
<1>6. n.pc \notin Writing /\ Threaded(n)
  BY <1>3, <1>4, <1>5 DEF Threaded, Writing, Timing, Decided
<1>7. n.clock \in Clocks /\ n.receive \in Receives /\ n.put <= puts
  BY <1>5, WordsAt, PutsAre
<1> QED BY <1>1, <1>2, <1>4, <1>5, <1>6, <1>7, QuietVars, QuietInv

\* A thread keeps its place among the devices and goes on.
LEMMA WakesInv ==
  ASSUME ShmInv, NEW t, t \in Threads, Wakes(t)
  PROVE  ShmInv'
<1>1. PICK n : n = [thread[t] EXCEPT !.pc = "woken", !.tv = tick]
  OBVIOUS
<1>2. thread[t] \in ThreadRecords /\ Threaded(thread[t])
  BY DEF ShmInv, Findings
<1>3. /\ thread[t].pc = "wait" /\ tick % 2 = 0 /\ thread' = [thread EXCEPT ![t] = n]
      /\ UNCHANGED <<quietVars, segment, puts, disturbed>>
  BY <1>1 DEF Wakes
<1>4. thread[t].pc # "none" /\ thread[t].pc \notin Writing
  BY <1>3 DEF Writing
<1>5. tick \in 0..MaxTick
  BY PutsAre
<1>6. n \in ThreadRecords
  BY <1>1, <1>2, <1>5 DEF ThreadRecords, PlacesOfAThread
<1>7. /\ n.pc = "woken" /\ n.tv = tick /\ n.slot = thread[t].slot
      /\ n.clock = thread[t].clock /\ n.receive = thread[t].receive /\ n.put = thread[t].put
  BY <1>1, <1>2 DEF ThreadRecords
<1>8. n.pc \notin Writing /\ n.pc \notin Timing /\ n.pc \notin Decided
  BY <1>7 DEF Writing, Timing, Decided
<1>9. Threaded(n)
  BY <1>2, <1>3, <1>4, <1>6, <1>7, <1>8 DEF Threaded
<1>10. n.put <= puts
  BY <1>7 DEF ShmInv, Words
<1> QED BY <1>3, <1>4, <1>7, <1>8, <1>9, <1>10, WordsAt, QuietVars, QuietInv

LEMMA SeesEdgeInv ==
  ASSUME ShmInv, NEW t, t \in Threads, SeesEdge(t)
  PROVE  ShmInv'
<1>1. PICK s : s = thread[t].slot
  OBVIOUS
<1>2. PICK n : n = [thread[t] EXCEPT !.pc = "look", !.from = slot[s].shmindex,
                                     !.unit = slot[s].shmTimeP,
                                     !.opening = IF slot[s].openings = 1 THEN 1 ELSE 0]
  OBVIOUS
<1>3. thread[t] \in ThreadRecords /\ Threaded(thread[t])
  BY DEF ShmInv, Findings
<1>4. /\ thread[t].pc = "woken" /\ slot[s].open
      /\ slot[s].shmindex # Unlinked /\ slot[s].shmTimeP # Unlinked
      /\ thread' = [thread EXCEPT ![t] = n]
      /\ UNCHANGED <<quietVars, segment, puts, disturbed>>
  BY <1>1, <1>2 DEF SeesEdge, Device
<1>5. s \in Slots
  BY <1>1, <1>3, <1>4 DEF Threaded
<1>6. slot[s].shmindex \in attached /\ slot[s].shmTimeP \in attached /\ attached \subseteq Units
  BY <1>4, <1>5 DEF ShmInv, LinksTyped, SlotRecords
<1>7. shmTimePPS /\ Even(slot[s].shmindex) /\ slot[s].shmTimeP = Behind(slot[s].shmindex)
  BY <1>4, <1>5 DEF ShmInv, Links, LinksTyped
<1>8. ~Even(slot[s].shmTimeP)
  <2>1. PICK u, w : u = slot[s].shmindex /\ w = slot[s].shmTimeP
    OBVIOUS
  <2>2. u \in attached /\ w = Behind(u) /\ w # Unlinked /\ Even(u)
    BY <1>4, <1>6, <1>7, <2>1
  <2>3. ~Even(w)
    BY <1>6, <2>2, BehindIs
  <2> QED BY <2>1, <2>3
<1>9. slot[s].openings = 1
  BY <1>4, <1>5 DEF ShmInv, Openings
<1>10. n \in ThreadRecords
  <2>1. PICK u, w : u = slot[s].shmindex /\ w = slot[s].shmTimeP
    OBVIOUS
  <2>2. n = [thread[t] EXCEPT !.pc = "look", !.from = u, !.unit = w, !.opening = 1]
    BY <1>2, <1>9, <2>1
  <2>3. u \in Units /\ w \in Units
    BY <1>6, <2>1
  <2>4. PICK th : th = thread[t]
    OBVIOUS
  <2>5. "look" \in PlacesOfAThread
    BY DEF PlacesOfAThread, Timing
  <2>6. th \in ThreadRecords
    BY <1>3, <2>4
  <2>7. PICK a : a = [th EXCEPT !.pc = "look", !.from = u]
    OBVIOUS
  <2>8. a \in ThreadRecords
    BY ONLY <2>3, <2>5, <2>6, <2>7 DEF ThreadRecords
  <2>9. PICK b, one : one = 1 /\ b = [a EXCEPT !.unit = w, !.opening = one]
    OBVIOUS
  <2>12. one \in 0..1
    BY <2>9
  <2>13. b = [a EXCEPT !.unit = w, !.opening = one]
    BY <2>9
  <2>10. b \in ThreadRecords
    BY ONLY <2>3, <2>8, <2>12, <2>13 DEF ThreadRecords
  <2>11. n = b
    BY ONLY <2>2, <2>4, <2>7, <2>9
  <2> QED BY <2>10, <2>11
<1>11. /\ n.pc = "look" /\ n.tv = thread[t].tv /\ n.slot = thread[t].slot
       /\ n.clock = thread[t].clock /\ n.receive = thread[t].receive /\ n.put = thread[t].put
       /\ n.from = slot[s].shmindex /\ n.unit = slot[s].shmTimeP /\ n.opening = 1
  BY <1>2, <1>3, <1>9 DEF ThreadRecords
<1>12. n.pc \notin Writing /\ n.pc \notin Decided
  BY <1>11 DEF Writing, Decided
<1>13. Threaded(n)
  BY <1>1, <1>3, <1>4, <1>5, <1>6, <1>7, <1>8, <1>10, <1>11, <1>12 DEF Threaded
<1>14. n.put <= puts
  BY <1>11 DEF ShmInv, Words
<1>15. thread[t].pc # "none" /\ thread[t].pc \notin Writing
  BY <1>4 DEF Writing
<1> QED BY <1>4, <1>11, <1>12, <1>13, <1>14, <1>15, WordsAt, QuietVars, QuietInv

LEMMA LooksAtReceiveInv ==
  ASSUME ShmInv, NEW t, t \in Threads, LooksAtReceive(t)
  PROVE  ShmInv'
<1>1. PICK receive : receive = segment[thread[t].from].receive
  OBVIOUS
<1>2. thread[t].pc = "look" /\ UNCHANGED <<quietVars, segment, puts, disturbed>>
  BY DEF LooksAtReceive
<1>3. CASE ~Fresh(thread[t].tv, receive.at)
  BY <1>1, <1>2, <1>3, AwaitsInv DEF LooksAtReceive
<1>4. CASE Fresh(thread[t].tv, receive.at)
  <2>1. PICK n : n = [thread[t] EXCEPT !.pc = "look2", !.receive = receive]
    OBVIOUS
  <2>2. thread' = [thread EXCEPT ![t] = n]
    BY <1>1, <1>4, <2>1 DEF LooksAtReceive
  <2>3. thread[t] \in ThreadRecords /\ Threaded(thread[t])
    BY DEF ShmInv, Findings
  <2>4. thread[t].pc # "none" /\ thread[t].pc \notin Writing /\ thread[t].pc \in Timing
    BY <1>2 DEF Writing, Timing
  <2>5. thread[t].from \in Units
    BY <2>3, <2>4 DEF Threaded, ShmInv, LinksTyped
  <2>6. receive \in Receives /\ receive \in Stamps
    BY <1>1, <2>5, WordsAt, WordsTyped DEF ShmInv
  <2>7. n \in ThreadRecords
    BY <2>1, <2>3, <2>6 DEF ThreadRecords, PlacesOfAThread, Timing
  <2>8. /\ n.pc = "look2" /\ n.tv = thread[t].tv /\ n.slot = thread[t].slot
        /\ n.clock = thread[t].clock /\ n.receive = receive /\ n.put = thread[t].put
        /\ n.from = thread[t].from /\ n.unit = thread[t].unit /\ n.opening = thread[t].opening
    BY <2>1, <2>3 DEF ThreadRecords
  <2>9. n.pc \notin Writing
    BY <2>8 DEF Writing
  <2>10. Threaded(n)
    BY <1>4, <2>3, <2>4, <2>7, <2>8, <2>9 DEF Threaded, Fresh
  <2>11. n.put <= puts
    BY <2>8 DEF ShmInv, Words
  <2> QED BY <1>2, <2>2, <2>4, <2>6, <2>8, <2>9, <2>10, <2>11, WordsAt, QuietVars, QuietInv
<1> QED BY <1>3, <1>4

-----------------------------------------------------------------------------
(* The put of a thread. *)

LEMMA BusyFinite ==
  /\ IsFiniteSet(Busy) /\ Cardinality(Busy) \in Nat
  /\ \A u : IsFiniteSet(Writers(u)) /\ Cardinality(Writers(u)) \in Nat
BY NtpAssumption, FS_Subset, FS_CardinalityType DEF Busy, Writers

\* A step of a put of the thread t to its segment: what is left to show is that the protocol of
\* this segment and the counts are kept.
LEMMA StepOfAPut ==
  ASSUME ShmInv, NEW t, t \in Threads, NEW u, u = thread[t].unit, thread[t].pc \in Timing,
         NEW n, Threaded(n), thread' = [thread EXCEPT ![t] = n],
         n.pc # "none" => n.slot = thread[t].slot,
         n.pc \in Writing => n.unit = u,
         n.clock \in Clocks, n.receive \in Receives, n.put <= puts',
         n.pc \in Writing => (thread[t].pc \in Writing /\ n.put = thread[t].put) \/ n.put > puts,
         NEW g, g \in SegmentRecords, segment' = [segment EXCEPT ![u] = g],
         NEW p, IsWord(p), p.of # "fix", p.of # "pulse" => p.at + 1 <= MaxTick, g.clock \in {p, segment[u].clock},
         NEW r, IsWord(r), \A c \in Clocks : c.of = "fix" => c.put # r.put, g.receive \in {r, segment[u].receive},
         UNCHANGED <<linkVars, main, ntpd, tick>>,
         puts' \in 0..MaxPuts, puts' >= puts,
         disturbed \subseteq disturbed', disturbed' \subseteq disturbed \cup {u},
         u \notin disturbed' => Undisturbed(u)',
         Counted'
  PROVE  ShmInv'
<1>0. u \in attached /\ ~Even(u) /\ u \in Units /\ thread[t].pc # "none"
  BY DEF ShmInv, Findings, Threaded, LinksTyped, Timing, Writing
<1>1. LinksTyped' /\ SegmentsAreAccounted' /\ Links' /\ Openings'
  BY LinksSame
<1>2. /\ attached' = attached /\ slot' = slot /\ main' = main /\ ntpd' = ntpd /\ tick' = tick
  BY DEF linkVars
<1>3. WorkTyped'
  <2>1. segment' \in [Units -> SegmentRecords] /\ disturbed' \subseteq Units
    BY <1>0 DEF ShmInv, WorkTyped
  <2> QED BY <1>2, <2>1 DEF ShmInv, WorkTyped
<1>4. Findings'
  BY <1>2, FindingsStep DEF ShmInv
<1>5. \A o \in Threads : thread'[o] = IF o = t THEN n ELSE thread[o]
  BY DEF ShmInv, Findings
<1>6. OneThreadADevice'
  BY <1>0, <1>2, <1>5, RunningSame DEF ShmInv, LinksTyped
<1>7. \A v \in Units : segment'[v] = IF v = u THEN g ELSE segment[v]
  BY <1>0 DEF ShmInv, WorkTyped
<1>8. Words'
  <2>1. Clocks' \subseteq Clocks \cup {p} /\ Receives' \subseteq Receives \cup {r}
    <3>1. PICK C, R : C = Clocks \cup {p} /\ R = Receives \cup {r}
      OBVIOUS
    <3>2. Never \in C /\ Never \in R /\ main'.clock \in C /\ main'.receive \in R
      BY <1>2, <3>1, WordsAt
    <3>3. \A v \in Units : segment'[v].clock \in C /\ segment'[v].receive \in R
      BY <1>0, <1>7, <3>1, WordsAt
    <3>4. \A o \in Threads : thread'[o].clock \in C /\ thread'[o].receive \in R
      BY <1>5, <3>1, WordsAt
    <3>5. Clocks' \subseteq C /\ Receives' \subseteq R
      BY <3>2, <3>3, <3>4, WordsIn
    <3> QED BY <3>1, <3>5
  <2>2. ASSUME NEW o \in Threads
        PROVE  /\ thread'[o].put \in Nat /\ thread'[o].put <= puts'
               /\ thread'[o].pc \in Writing =>
                    (thread[o].pc \in Writing /\ thread'[o].put = thread[o].put) \/ thread'[o].put > puts
    <3>1. n.put \in Nat /\ thread[o].put \in Nat
      BY NtpAssumption DEF Threaded, ShmInv, Findings, ThreadRecords
    <3>2. thread[o].put <= puts
      BY DEF ShmInv, Words
    <3> QED BY <1>5, <3>1, <3>2, PutsAre
  <2>3. puts \in Nat /\ puts' \in Nat
    BY PutsAre, NtpAssumption
  <2>4. \A v \in attached : Even(v) => segment'[v].clock.of # "pulse"
    <3>1. \A v \in attached : Even(v) => v # u /\ v \in Units
      BY <1>0 DEF ShmInv, LinksTyped
    <3> QED BY <1>7, <3>1 DEF ShmInv, Words
  <2>5. Words
    BY DEF ShmInv
  <2> QED BY <1>2, <2>1, <2>2, <2>3, <2>4, <2>5, WordsGrow
<1>9. Protocol'
  <2> SUFFICES ASSUME NEW v \in Units \ disturbed' PROVE Undisturbed(v)'
    BY DEF Protocol
  <2>1. CASE v = u
    BY <2>1
  <2>2. CASE v # u
    <3>1. Undisturbed(v)
      BY <2>2 DEF ShmInv, Protocol
    <3>2. Writers(v)' = Writers(v) /\ t \notin Writers(v)
      BY <1>5, <2>2 DEF Writers
    <3>3. \A o \in Writers(v) : thread'[o] = thread[o]
      BY <1>5, <3>2 DEF Writers
    <3>4. (MainAt(v)' <=> MainAt(v)) /\ segment'[v] = segment[v]
      BY <1>2, <1>7, <2>2 DEF MainAt
    <3>5. Untouched(v)
      BY <1>2, <3>2, <3>3, <3>4 DEF Untouched
    <3> QED BY <3>1, <3>5, UndisturbedSame
  <2> QED BY <2>1, <2>2
<1> QED BY <1>1, <1>3, <1>4, <1>6, <1>8, <1>9 DEF ShmInv

\* A thread begins a put: one more is busy, the count of its segment is one more, and so is
\* the number of puts.
LEMMA CountedBegin ==
  ASSUME ShmInv, Counted, NEW t, t \notin Busy, Busy' = Busy \cup {t}, puts' = puts + 1, main' = main, NEW u,
         \A v \in Units : v # u => segment'[v].count = segment[v].count /\ Writers(v)' = Writers(v),
         segment'[u].count = segment[u].count + 1, Writers(u)' = Writers(u) \cup {t}, t \notin Writers(u)
  PROVE  Counted'
<1>0. puts \in Nat /\ \A v \in Units : segment[v].count \in Nat
  BY PutsAre DEF ShmInv, WorkTyped, SegmentRecords
<1>1. \A b : One(b) \in {0, 1}
  BY DEF One
<1>2. One(main.pc \in Writing)' = One(main.pc \in Writing)
  BY DEF One
<1>3. Cardinality(Busy') = Cardinality(Busy) + 1
  BY BusyFinite, FS_AddElement
<1>4. Cardinality(Busy)' + One(main.pc \in Writing)' <= puts'
  BY <1>0, <1>1, <1>2, <1>3, BusyFinite DEF Counted
<1>5. ASSUME NEW v \in Units
      PROVE  segment'[v].count + Cardinality(Writers(v)') + One(MainAt(v))' <= 2 * puts'
  <2>1. One(MainAt(v))' = One(MainAt(v))
    BY DEF One, MainAt
  <2>2. segment[v].count + Cardinality(Writers(v)) + One(MainAt(v)) <= 2 * puts
    BY DEF Counted
  <2>3. CASE v # u
    <3>1. segment'[v].count = segment[v].count /\ Cardinality(Writers(v)') = Cardinality(Writers(v))
      BY <2>3
    <3> QED BY <1>0, <1>1, <2>1, <2>2, <3>1, BusyFinite
  <2>4. CASE v = u
    <3>1. Cardinality(Writers(u)') = Cardinality(Writers(u)) + 1
      BY BusyFinite, FS_AddElement
    <3>2. PICK a, b, m, np : a = segment[u].count /\ b = Cardinality(Writers(u)) /\ m = One(MainAt(u)) /\ np = puts
      OBVIOUS
    <3>3. a \in Nat /\ b \in Nat /\ m \in {0, 1} /\ np \in Nat /\ a + b + m <= 2 * np
      BY <1>0, <1>1, <2>2, <2>4, <3>2, BusyFinite
    <3>4. a + 1 + (b + 1) + m <= 2 * (np + 1)
      BY ONLY <3>3
    <3>5. segment'[v].count = a + 1 /\ Cardinality(Writers(v)') = b + 1 /\ One(MainAt(v))' = m /\ puts' = np + 1
      BY <2>1, <2>4, <3>1, <3>2
    <3> QED BY <3>4, <3>5
  <2> QED BY <2>3, <2>4
<1> QED BY <1>4, <1>5 DEF Counted

LEMMA CountedEnd ==
  ASSUME ShmInv, Counted, NEW t, t \in Busy, Busy' = Busy \ {t}, puts' = puts, main' = main, NEW u,
         \A v \in Units : v # u => segment'[v].count = segment[v].count /\ Writers(v)' = Writers(v),
         segment'[u].count = segment[u].count + 1, Writers(u)' = Writers(u) \ {t}, t \in Writers(u)
  PROVE  Counted'
<1>0. puts \in Nat /\ \A v \in Units : segment[v].count \in Nat
  BY PutsAre DEF ShmInv, WorkTyped, SegmentRecords
<1>1. \A b : One(b) \in {0, 1}
  BY DEF One
<1>2. One(main.pc \in Writing)' = One(main.pc \in Writing)
  BY DEF One
<1>3. Cardinality(Busy') = Cardinality(Busy) - 1
  BY BusyFinite, FS_RemoveElement
<1>4. Cardinality(Busy)' + One(main.pc \in Writing)' <= puts'
  BY <1>0, <1>1, <1>2, <1>3, BusyFinite DEF Counted
<1>5. ASSUME NEW v \in Units
      PROVE  segment'[v].count + Cardinality(Writers(v)') + One(MainAt(v))' <= 2 * puts'
  <2>1. One(MainAt(v))' = One(MainAt(v))
    BY DEF One, MainAt
  <2>2. segment[v].count + Cardinality(Writers(v)) + One(MainAt(v)) <= 2 * puts
    BY DEF Counted
  <2>3. CASE v # u
    <3>1. segment'[v].count = segment[v].count /\ Cardinality(Writers(v)') = Cardinality(Writers(v))
      BY <2>3
    <3> QED BY <1>0, <1>1, <2>1, <2>2, <3>1, BusyFinite
  <2>4. CASE v = u
    <3>1. Cardinality(Writers(u)') = Cardinality(Writers(u)) - 1
      BY BusyFinite, FS_RemoveElement
    <3>2. PICK a, b, m, np : a = segment[u].count /\ b = Cardinality(Writers(u)) /\ m = One(MainAt(u)) /\ np = puts
      OBVIOUS
    <3>3. a \in Nat /\ b \in Nat /\ m \in {0, 1} /\ np \in Nat /\ a + b + m <= 2 * np
      BY <1>0, <1>1, <2>2, <2>4, <3>2, BusyFinite
    <3>4. a + 1 + (b - 1) + m <= 2 * np
      BY ONLY <3>3
    <3>5. segment'[v].count = a + 1 /\ Cardinality(Writers(v)') = b - 1 /\ One(MainAt(v))' = m /\ puts' = np
      BY <2>1, <2>4, <3>1, <3>2
    <3> QED BY <3>4, <3>5
  <2> QED BY <2>3, <2>4
<1> QED BY <1>4, <1>5 DEF Counted

LEMMA NeverWord ==
  ASSUME ShmInv
  PROVE  /\ IsWord(Never) /\ Never.of # "fix" /\ (Never.of # "pulse" => Never.at + 1 <= MaxTick)
         /\ \A c \in Clocks : c.of = "fix" => c.put # Never.put
<1>1. IsWord(Never)
  BY NeverIs, PutsAre DEF IsWord
<1>2. \A c \in Clocks : c.of = "fix" => c.put # 0
  BY DEF ShmInv, Words
<1>3. Never.of # "fix" /\ (Never.of # "pulse" => Never.at + 1 <= MaxTick)
  BY NeverIs, NtpAssumption
<1> QED BY <1>1, <1>2, <1>3, NeverIs

LEMMA LooksAtClockInv ==
  ASSUME ShmInv, NEW t, t \in Threads, LooksAtClock(t)
  PROVE  ShmInv'
<1>1. PICK th, u, old : th = thread[t] /\ u = th.unit /\ old = segment[u]
  OBVIOUS
<1>2. th.pc = "look2" /\ puts < MaxPuts /\ puts' = puts + 1 /\ UNCHANGED quietVars
  BY <1>1 DEF LooksAtClock
<1>3. th \in ThreadRecords /\ Threaded(th)
  BY <1>1 DEF ShmInv, Findings
<1>4. th.pc \in Timing /\ th.pc \in Decided /\ th.pc \notin Writing /\ th.pc # "none"
  BY <1>2 DEF Timing, Decided, Writing
<1>5. u \in attached /\ th.from \in attached /\ Even(th.from) /\ attached \subseteq Units
  BY <1>1, <1>3, <1>4 DEF Threaded, ShmInv, LinksTyped
<1>6. segment \in [Units -> SegmentRecords] /\ old \in SegmentRecords
  BY <1>1, <1>5 DEF ShmInv, WorkTyped
<1>7. PICK clock : clock = segment[th.from].clock
  OBVIOUS
<1>8. clock \in Clocks /\ clock \in Stamps /\ clock.of # "pulse"
  BY <1>5, <1>7, WordsAt, WordsTyped DEF ShmInv, Words
<1>9. PICK next : next = puts + 1
  OBVIOUS
<1>10. next \in 0..MaxPuts /\ puts' = next /\ next > puts
  BY <1>2, <1>9, PutsAre, NtpAssumption
<1>11. PICK n : n = [th EXCEPT !.pc = "clock", !.put = next, !.clock = clock]
  OBVIOUS
<1>12. thread' = [thread EXCEPT ![t] = n]
  BY <1>1, <1>7, <1>9, <1>11 DEF LooksAtClock
<1>13. n \in ThreadRecords
  BY <1>3, <1>8, <1>10, <1>11 DEF ThreadRecords, PlacesOfAThread, Timing, Writing
<1>14. /\ n.pc = "clock" /\ n.put = next /\ n.clock = clock /\ n.tv = th.tv /\ n.slot = th.slot
       /\ n.receive = th.receive /\ n.from = th.from /\ n.unit = u /\ n.opening = th.opening
  BY <1>1, <1>3, <1>11 DEF ThreadRecords
<1>15. Threaded(n)
  BY <1>1, <1>3, <1>4, <1>5, <1>8, <1>13, <1>14 DEF Threaded
<1>16. PICK count : count = old.count + 1
  OBVIOUS
<1>17. PICK g : g = [old EXCEPT !.valid = FALSE, !.count = count]
  OBVIOUS
<1>18. old.count \in Nat /\ count \in Nat
  BY <1>6, <1>16 DEF SegmentRecords
<1>19. g \in SegmentRecords /\ g.count = count /\ g.clock = old.clock /\ g.receive = old.receive
  BY <1>6, <1>17, <1>18 DEF SegmentRecords
<1>20. segment' = [segment EXCEPT ![u] = g]
  <2>1. segment' = [segment EXCEPT ![u].valid = FALSE, ![u].count = @ + 1]
    BY <1>1 DEF LooksAtClock, Invalidated
  <2> QED BY <1>1, <1>5, <1>6, <1>16, <1>17, <2>1
<1>21. /\ attached' = attached /\ main' = main /\ ntpd' = ntpd /\ UNCHANGED <<linkVars, main, ntpd, tick>>
  BY <1>2 DEF quietVars, linkVars
<1>22. disturbed' = IF Writers(u) # {} \/ MainAt(u) THEN disturbed \cup {u} ELSE disturbed
  BY <1>1 DEF LooksAtClock, MainAt
<1>23. \A o \in Threads : thread'[o] = IF o = t THEN n ELSE thread[o]
  BY <1>12 DEF ShmInv, Findings
<1>24. \A v \in Units : segment'[v] = IF v = u THEN g ELSE segment[v]
  BY <1>20, <1>6
<1>25. n.pc \in Writing
  BY <1>14 DEF Writing
<1>26. /\ t \notin Busy /\ t \notin Writers(u) /\ Busy' = Busy \cup {t} /\ Writers(u)' = Writers(u) \cup {t}
       /\ \A v \in Units : v # u => Writers(v)' = Writers(v)
  BY <1>1, <1>4, <1>14, <1>23, <1>25 DEF Busy, Writers
<1>27. Counted'
  <2>1. segment'[u].count = segment[u].count + 1
    BY <1>1, <1>5, <1>16, <1>19, <1>24
  <2>2. \A v \in Units : v # u => segment'[v].count = segment[v].count
    BY <1>24
  <2>3. puts' = puts + 1
    BY <1>2
  <2> QED BY <1>21, <1>26, <2>1, <2>2, <2>3, CountedBegin DEF ShmInv
<1>28. ASSUME u \notin disturbed' PROVE Undisturbed(u)'
  <2>1. Writers(u) = {} /\ ~MainAt(u) /\ u \notin disturbed /\ u \in Units
    BY <1>5, <1>22, <1>28
  <2>2. Undisturbed(u)
    BY <2>1 DEF ShmInv, Protocol
  <2>3. segment[u].count % 2 # 1
    BY <2>1, <2>2 DEF Undisturbed
  <2>4. segment'[u].count = count /\ count = segment[u].count + 1 /\ segment[u].count \in Nat
    BY <1>1, <1>5, <1>16, <1>18, <1>19, <1>24
  <2>5. count % 2 = 1
    BY <2>3, <2>4
  <2>6. Writers(u)' = {t} /\ ~MainAt(u)' /\ thread'[t].pc = "clock"
    BY <1>14, <1>21, <1>23, <1>26, <2>1 DEF MainAt
  <2>7. ntpd'.pc \in {"receive", "clock", "compare"} /\ ntpd'.unit = u =>
          ntpd'.count <= segment'[u].count /\ ntpd'.count # segment'[u].count
    <3>1. ntpd.count \in Nat
      BY DEF ShmInv, WorkTyped, NtpdRecords
    <3> QED BY <1>21, <2>2, <2>4, <3>1 DEF Undisturbed
  <2> QED BY <2>4, <2>5, <2>6, <2>7 DEF Undisturbed
<1>29. disturbed \subseteq disturbed' /\ disturbed' \subseteq disturbed \cup {u}
  BY <1>22
<1>30. n.clock \in Clocks /\ n.receive \in Receives /\ n.put <= puts' /\ n.put > puts
  BY <1>1, <1>8, <1>10, <1>14, WordsAt
<1>31. g.clock = segment[u].clock /\ g.receive = segment[u].receive
  BY <1>1, <1>19
<1>32. puts' \in 0..MaxPuts /\ puts' >= puts
  BY <1>10, PutsAre
<1>33. PICK never : never = Never
  OBVIOUS
<1>34. /\ IsWord(never) /\ never.of # "fix" /\ (never.of # "pulse" => never.at + 1 <= MaxTick)
       /\ \A c \in Clocks : c.of = "fix" => c.put # never.put
  BY <1>33, NeverWord
<1> QED
  BY <1>1, <1>4, <1>12, <1>14, <1>15, <1>19, <1>20, <1>21, <1>27, <1>28, <1>29, <1>30, <1>31, <1>32, <1>34,
     StepOfAPut

\* What is known of a thread in the middle of a put.
LEMMA InAPut ==
  ASSUME ShmInv, NEW t, t \in Threads, thread[t].pc \in Writing, NEW th, th = thread[t], NEW u, u = th.unit
  PROVE  /\ th \in ThreadRecords /\ Threaded(th) /\ th.pc \in Timing /\ th.pc \in Decided /\ th.pc # "none"
         /\ u \in attached /\ u \in Units /\ attached \subseteq Units
         /\ segment \in [Units -> SegmentRecords] /\ segment[u] \in SegmentRecords
         /\ th.put \in 0..MaxPuts /\ th.put \in Nat /\ th.put <= puts /\ th.opening = 1
         /\ th.clock \in Clocks /\ th.receive \in Receives /\ th.clock.of # "pulse"
         /\ t \in Busy /\ t \in Writers(u)
         /\ u \notin disturbed => Writers(u) = {t} /\ ~MainAt(u) /\ segment[u].count % 2 = 1
<1>1. th \in ThreadRecords /\ Threaded(th) /\ segment \in [Units -> SegmentRecords]
  BY DEF ShmInv, Findings, WorkTyped
<1>2. th.pc \in Timing /\ th.pc \in Decided /\ th.pc # "none"
  BY DEF Timing, Decided, Writing
<1>3. u \in attached /\ attached \subseteq Units /\ th.opening = 1 /\ th.clock.of # "pulse"
  BY <1>1, <1>2 DEF Threaded, ShmInv, LinksTyped
<1>4. th.put \in 0..MaxPuts /\ th.put \in Nat /\ th.put <= puts
  BY <1>1, NtpAssumption DEF ThreadRecords, ShmInv, Words
<1>5. t \in Busy /\ t \in Writers(u)
  BY DEF Busy, Writers
<1>6. ASSUME u \notin disturbed PROVE Writers(u) = {t} /\ ~MainAt(u) /\ segment[u].count % 2 = 1
  <2>1. Undisturbed(u)
    BY <1>3, <1>6 DEF ShmInv, Protocol
  <2>2. \A o, other \in Writers(u) : o = other
    BY <2>1 DEF Undisturbed
  <2>3. Writers(u) = {t}
    BY <1>5, <2>2
  <2> QED BY <1>5, <2>1, <2>3 DEF Undisturbed
<1>7. th.clock \in Clocks /\ th.receive \in Receives
  BY WordsAt
<1> QED BY <1>1, <1>2, <1>3, <1>4, <1>5, <1>6, <1>7

\* A stamp that a thread stores is a word of its put.
LEMMA PulseIs ==
  ASSUME ShmInv, NEW t, t \in Threads, thread[t].pc \in Writing, NEW at, at \in 0..MaxTick,
         NEW w, w = Pulse(t, at)
  PROVE  /\ IsWord(w) /\ w.of = "pulse" /\ w.put = thread[t].put
         /\ \A c \in Clocks : c.of = "fix" => c.put # w.put
<1>1. PICK th : th = thread[t]
  OBVIOUS
<1>2. th.put \in 0..MaxPuts /\ th.put <= puts /\ th.opening = 1
  BY <1>1, InAPut
<1>3. w = [at |-> at, put |-> th.put, of |-> "pulse", opening |-> th.opening]
  BY <1>1 DEF Pulse
<1>4. w \in Stamps
  BY <1>2, <1>3 DEF Stamps
<1>5. IsWord(w)
  BY <1>2, <1>3, <1>4 DEF IsWord
<1>6. \A c \in Clocks : c.of = "fix" => c.put # w.put
  BY <1>1, <1>3 DEF ShmInv, Words
<1> QED BY <1>1, <1>3, <1>5, <1>6

LEMMA StoresClockInv ==
  ASSUME ShmInv, NEW t, t \in Threads, StoresClock(t)
  PROVE  ShmInv'
<1>1. PICK th, u, old : th = thread[t] /\ u = th.unit /\ old = segment[u]
  OBVIOUS
<1>2. th.pc = "clock" /\ UNCHANGED <<quietVars, puts, disturbed>> /\ thread[t].pc \in Writing
  BY <1>1 DEF StoresClock, Writing
<1>3. /\ th \in ThreadRecords /\ Threaded(th) /\ th.pc \in Timing /\ th.pc \in Decided
      /\ u \in attached /\ u \in Units /\ segment \in [Units -> SegmentRecords] /\ old \in SegmentRecords
      /\ th.put \in Nat /\ th.put <= puts
  BY <1>1, <1>2, InAPut
<1>4. t \in Writers(u) /\ (u \notin disturbed => Writers(u) = {t} /\ ~MainAt(u) /\ segment[u].count % 2 = 1)
  BY <1>1, <1>2, InAPut
<1>5. th.clock \in Clocks /\ th.receive \in Receives /\ th.clock.of # "pulse"
  BY <1>1, <1>2, InAPut
<1>6. PICK at : at = th.clock.at + 1
  OBVIOUS
<1>7. at \in 0..MaxTick
  <2>1. th.clock.at \in Nat
    BY <1>5, WordsTyped DEF ShmInv
  <2>2. th.clock.at + 1 <= MaxTick
    BY <1>5 DEF ShmInv, Words
  <2> QED BY <1>6, <2>1, <2>2, NtpAssumption
<1>8. PICK p : p = Pulse(t, at)
  OBVIOUS
<1>9. IsWord(p) /\ p.of = "pulse" /\ p.put = th.put
  BY <1>1, <1>2, <1>7, <1>8, PulseIs
<1>10. p \in Stamps
  BY <1>9 DEF IsWord
<1>11. PICK n : n = [th EXCEPT !.pc = "receive"]
  OBVIOUS
<1>12. thread' = [thread EXCEPT ![t] = n]
  BY <1>1, <1>11 DEF StoresClock, ShmInv, Findings
<1>13. n \in ThreadRecords
  BY <1>3, <1>11 DEF ThreadRecords, PlacesOfAThread, Timing, Writing
<1>14. /\ n.pc = "receive" /\ n.put = th.put /\ n.clock = th.clock /\ n.tv = th.tv /\ n.slot = th.slot
       /\ n.receive = th.receive /\ n.from = th.from /\ n.unit = u /\ n.opening = th.opening
  BY <1>1, <1>3, <1>11 DEF ThreadRecords
<1>15. n.pc \in Writing
  BY <1>14 DEF Writing
<1>16. Threaded(n)
  BY <1>1, <1>2, <1>3, <1>5, <1>13, <1>14, <1>15 DEF Threaded
<1>17. PICK g : g = [old EXCEPT !.clock = p]
  OBVIOUS
<1>18. g \in SegmentRecords /\ g.count = old.count /\ g.clock = p /\ g.receive = old.receive
  BY <1>3, <1>10, <1>17 DEF SegmentRecords
<1>19. segment' = [segment EXCEPT ![u] = g]
  BY <1>1, <1>3, <1>6, <1>8, <1>17 DEF StoresClock
<1>20. /\ main' = main /\ ntpd' = ntpd /\ puts' = puts /\ disturbed' = disturbed
       /\ UNCHANGED <<linkVars, main, ntpd, tick>>
  BY <1>2 DEF quietVars
<1>21. \A o \in Threads : thread'[o] = IF o = t THEN n ELSE thread[o]
  BY <1>12 DEF ShmInv, Findings
<1>22. \A v \in Units : segment'[v] = IF v = u THEN g ELSE segment[v]
  BY <1>19, <1>3
<1>23. Busy' = Busy /\ \A v : Writers(v)' = Writers(v)
  BY <1>1, <1>2, <1>14, <1>15, <1>21 DEF Busy, Writers
<1>24. Counted'
  <2>1. \A v \in Units : segment'[v].count = segment[v].count /\ (MainAt(v)' <=> MainAt(v))
    BY <1>1, <1>18, <1>20, <1>22 DEF MainAt
  <2> QED BY <1>20, <1>23, <2>1, CountedSame DEF ShmInv
<1>25. ASSUME u \notin disturbed' PROVE Undisturbed(u)'
  <2>1. u \notin disturbed /\ Writers(u)' = {t} /\ ~MainAt(u)'
    BY <1>4, <1>20, <1>23, <1>25 DEF MainAt
  <2>2. segment'[u].count = segment[u].count /\ segment[u].count % 2 = 1 /\ segment'[u].clock.put = th.put
    BY <1>1, <1>3, <1>4, <1>9, <1>18, <1>22, <2>1
  <2>3. thread'[t].pc = "receive" /\ thread'[t].put = th.put
    BY <1>14, <1>21
  <2>4. Undisturbed(u)
    BY <1>3, <2>1 DEF ShmInv, Protocol
  <2>5. ntpd'.pc \in {"receive", "clock", "compare"} /\ ntpd'.unit = u => ntpd'.count <= segment'[u].count
    BY <1>20, <2>2, <2>4 DEF Undisturbed
  <2> QED BY <2>1, <2>2, <2>3, <2>5 DEF Undisturbed
<1>26. g.clock \in {p, segment[u].clock} /\ g.receive = segment[u].receive
  BY <1>1, <1>18
<1>27. puts' \in 0..MaxPuts /\ puts' >= puts
  BY <1>20, PutsAre
<1>28. PICK never : never = Never
  OBVIOUS
<1>29. IsWord(never) /\ \A c \in Clocks : c.of = "fix" => c.put # never.put
  BY <1>28, NeverWord
<1>30. p.of # "fix" /\ (p.of # "pulse" => p.at + 1 <= MaxTick)
  BY <1>9
<1> QED
  BY <1>1, <1>2, <1>3, <1>5, <1>9, <1>12, <1>14, <1>16, <1>18, <1>19, <1>20, <1>24, <1>25, <1>26, <1>27, <1>29,
     <1>30, StepOfAPut

LEMMA StoresReceiveInv ==
  ASSUME ShmInv, NEW t, t \in Threads, StoresReceive(t)
  PROVE  ShmInv'
<1>1. PICK th, u, old : th = thread[t] /\ u = th.unit /\ old = segment[u]
  OBVIOUS
<1>2. th.pc = "receive" /\ UNCHANGED <<quietVars, puts, disturbed>> /\ thread[t].pc \in Writing
  BY <1>1 DEF StoresReceive, Writing
<1>3. /\ th \in ThreadRecords /\ Threaded(th) /\ th.pc \in Timing /\ th.pc \in Decided
      /\ u \in attached /\ u \in Units /\ segment \in [Units -> SegmentRecords] /\ old \in SegmentRecords
      /\ th.put \in Nat /\ th.put <= puts
  BY <1>1, <1>2, InAPut
<1>4. t \in Writers(u) /\ (u \notin disturbed => Writers(u) = {t} /\ ~MainAt(u) /\ segment[u].count % 2 = 1)
  BY <1>1, <1>2, InAPut
<1>5. th.clock \in Clocks /\ th.receive \in Receives /\ th.clock.of # "pulse"
  BY <1>1, <1>2, InAPut
<1>6. PICK at : at = th.tv
  OBVIOUS
<1>7. at \in 0..MaxTick
  BY <1>3, <1>6 DEF ThreadRecords
<1>8. PICK r : r = Pulse(t, at)
  OBVIOUS
<1>9. IsWord(r) /\ r.put = th.put /\ \A c \in Clocks : c.of = "fix" => c.put # r.put
  BY <1>1, <1>2, <1>7, <1>8, PulseIs
<1>10. r \in Stamps
  BY <1>9 DEF IsWord
<1>11. PICK n : n = [th EXCEPT !.pc = "done"]
  OBVIOUS
<1>12. thread' = [thread EXCEPT ![t] = n]
  BY <1>1, <1>11 DEF StoresReceive, ShmInv, Findings
<1>13. n \in ThreadRecords
  BY <1>3, <1>11 DEF ThreadRecords, PlacesOfAThread, Timing, Writing
<1>14. /\ n.pc = "done" /\ n.put = th.put /\ n.clock = th.clock /\ n.tv = th.tv /\ n.slot = th.slot
       /\ n.receive = th.receive /\ n.from = th.from /\ n.unit = u /\ n.opening = th.opening
  BY <1>1, <1>3, <1>11 DEF ThreadRecords
<1>15. n.pc \in Writing
  BY <1>14 DEF Writing
<1>16. Threaded(n)
  BY <1>1, <1>2, <1>3, <1>5, <1>13, <1>14, <1>15 DEF Threaded
<1>17. PICK g : g = [old EXCEPT !.receive = r]
  OBVIOUS
<1>18. g \in SegmentRecords /\ g.count = old.count /\ g.clock = old.clock /\ g.receive = r
  BY <1>3, <1>10, <1>17 DEF SegmentRecords
<1>19. segment' = [segment EXCEPT ![u] = g]
  BY <1>1, <1>3, <1>6, <1>8, <1>17 DEF StoresReceive
<1>20. /\ main' = main /\ ntpd' = ntpd /\ puts' = puts /\ disturbed' = disturbed
       /\ UNCHANGED <<linkVars, main, ntpd, tick>>
  BY <1>2 DEF quietVars
<1>21. \A o \in Threads : thread'[o] = IF o = t THEN n ELSE thread[o]
  BY <1>12 DEF ShmInv, Findings
<1>22. \A v \in Units : segment'[v] = IF v = u THEN g ELSE segment[v]
  BY <1>19, <1>3
<1>23. Busy' = Busy /\ \A v : Writers(v)' = Writers(v)
  BY <1>1, <1>2, <1>14, <1>15, <1>21 DEF Busy, Writers
<1>24. Counted'
  <2>1. \A v \in Units : segment'[v].count = segment[v].count /\ (MainAt(v)' <=> MainAt(v))
    BY <1>1, <1>18, <1>20, <1>22 DEF MainAt
  <2> QED BY <1>20, <1>23, <2>1, CountedSame DEF ShmInv
<1>25. ASSUME u \notin disturbed' PROVE Undisturbed(u)'
  <2>1. u \notin disturbed /\ Writers(u)' = {t} /\ ~MainAt(u)'
    BY <1>4, <1>20, <1>23, <1>25 DEF MainAt
  <2>4. Undisturbed(u)
    BY <1>3, <2>1 DEF ShmInv, Protocol
  <2>2. segment'[u].count = segment[u].count /\ segment[u].count % 2 = 1
    BY <1>1, <1>3, <1>4, <1>18, <1>22, <2>1
  <2>6. segment'[u].clock.put = segment'[u].receive.put
    <3>1. segment[u].clock.put = th.put
      BY <1>1, <1>2, <1>4, <2>4 DEF Undisturbed
    <3> QED BY <1>1, <1>3, <1>9, <1>18, <1>22, <3>1
  <2>3. thread'[t].pc = "done" /\ thread'[t].put = th.put
    BY <1>14, <1>21
  <2>5. ntpd'.pc \in {"receive", "clock", "compare"} /\ ntpd'.unit = u => ntpd'.count <= segment'[u].count
    BY <1>20, <2>2, <2>4 DEF Undisturbed
  <2> QED BY <2>1, <2>2, <2>3, <2>5, <2>6 DEF Undisturbed
<1>26. g.clock = segment[u].clock /\ g.receive \in {r, segment[u].receive}
  BY <1>1, <1>18
<1>27. puts' \in 0..MaxPuts /\ puts' >= puts
  BY <1>20, PutsAre
<1>28. PICK never : never = Never
  OBVIOUS
<1>29. IsWord(never) /\ never.of # "fix" /\ (never.of # "pulse" => never.at + 1 <= MaxTick)
  BY <1>28, NeverWord
<1> QED
  BY <1>1, <1>2, <1>3, <1>5, <1>9, <1>12, <1>14, <1>16, <1>18, <1>19, <1>20, <1>24, <1>25, <1>26, <1>27, <1>29,
     StepOfAPut

LEMMA EndsStoreInv ==
  ASSUME ShmInv, NEW t, t \in Threads, EndsStore(t)
  PROVE  ShmInv'
<1>1. PICK th, u, old : th = thread[t] /\ u = th.unit /\ old = segment[u]
  OBVIOUS
<1>2. th.pc = "done" /\ UNCHANGED <<quietVars, puts, disturbed>> /\ thread[t].pc \in Writing
  BY <1>1 DEF EndsStore, Writing
<1>3. /\ th \in ThreadRecords /\ th.pc \in Timing /\ th.pc # "none"
      /\ u \in attached /\ u \in Units /\ segment \in [Units -> SegmentRecords] /\ old \in SegmentRecords
  BY <1>1, <1>2, InAPut
<1>4. /\ t \in Writers(u) /\ t \in Busy
      /\ u \notin disturbed => Writers(u) = {t} /\ ~MainAt(u) /\ segment[u].count % 2 = 1
  BY <1>1, <1>2, InAPut
<1>5. PICK n : n = Again(t)
  OBVIOUS
<1>6. thread' = [thread EXCEPT ![t] = n]
  BY <1>5 DEF EndsStore, WaitsAgain, Again, ShmInv, Findings
<1>7. /\ Threaded(n) /\ n.pc \in {"none", "wait"} /\ n.pc \notin Writing
      /\ n.pc # "none" => n.slot = th.slot
      /\ n.clock = Never /\ n.receive = Never /\ n.put = 0
  BY <1>1, <1>3, <1>5, AgainIs DEF ShmInv
<1>8. PICK count : count = old.count + 1
  OBVIOUS
<1>9. old.count \in Nat /\ count \in Nat
  BY <1>3, <1>8 DEF SegmentRecords
<1>10. PICK g : g = [old EXCEPT !.valid = TRUE, !.count = count]
  OBVIOUS
<1>11. g \in SegmentRecords /\ g.count = count /\ g.clock = old.clock /\ g.receive = old.receive
  BY <1>3, <1>9, <1>10 DEF SegmentRecords
<1>12. segment' = [segment EXCEPT ![u] = g]
  <2>1. segment' = [segment EXCEPT ![u].valid = TRUE, ![u].count = @ + 1]
    BY <1>1 DEF EndsStore, Validated
  <2> QED BY <1>1, <1>3, <1>8, <1>10, <2>1
<1>13. /\ main' = main /\ ntpd' = ntpd /\ puts' = puts /\ disturbed' = disturbed
       /\ UNCHANGED <<linkVars, main, ntpd, tick>>
  BY <1>2 DEF quietVars
<1>14. \A o \in Threads : thread'[o] = IF o = t THEN n ELSE thread[o]
  BY <1>6 DEF ShmInv, Findings
<1>15. \A v \in Units : segment'[v] = IF v = u THEN g ELSE segment[v]
  BY <1>12, <1>3
<1>16. /\ Busy' = Busy \ {t} /\ Writers(u)' = Writers(u) \ {t}
       /\ \A v \in Units : v # u => Writers(v)' = Writers(v)
  BY <1>1, <1>7, <1>14 DEF Busy, Writers
<1>17. segment'[u].count = segment[u].count + 1
  BY <1>1, <1>3, <1>8, <1>11, <1>15
<1>18. Counted'
  <2>1. \A v \in Units : v # u => segment'[v].count = segment[v].count
    BY <1>15
  <2> QED BY <1>4, <1>13, <1>16, <1>17, <2>1, CountedEnd DEF ShmInv
<1>19. ASSUME u \notin disturbed' PROVE Undisturbed(u)'
  <2>1. u \notin disturbed /\ Writers(u)' = {} /\ ~MainAt(u)'
    BY <1>4, <1>13, <1>16, <1>19 DEF MainAt
  <2>2. Undisturbed(u)
    BY <1>3, <2>1 DEF ShmInv, Protocol
  <2>3. segment'[u].clock.put = segment'[u].receive.put
    <3>1. segment[u].clock.put = segment[u].receive.put
      BY <1>1, <1>2, <1>4, <2>2 DEF Undisturbed
    <3> QED BY <1>1, <1>3, <1>11, <1>15, <3>1
  <2>4. segment'[u].count % 2 # 1
    <3>1. old.count % 2 = 1
      BY <1>1, <1>4, <2>1
    <3>2. count % 2 = 0
      BY <1>8, <1>9, <3>1
    <3> QED BY <1>3, <1>11, <1>15, <3>2
  <2>5. ntpd'.pc \in {"receive", "clock", "compare"} /\ ntpd'.unit = u =>
          ntpd'.count <= segment'[u].count /\ ntpd'.count # segment'[u].count
    <3>1. ntpd.count \in Nat /\ segment[u].count \in Nat
      BY <1>1, <1>9 DEF ShmInv, WorkTyped, NtpdRecords
    <3> QED BY <1>13, <1>17, <2>2, <3>1 DEF Undisturbed
  <2> QED BY <2>1, <2>3, <2>4, <2>5 DEF Undisturbed
<1>20. g.clock = segment[u].clock /\ g.receive = segment[u].receive
  BY <1>1, <1>11
<1>21. puts' \in 0..MaxPuts /\ puts' >= puts /\ n.put <= puts'
  BY <1>7, <1>13, PutsAre
<1>22. PICK never : never = Never
  OBVIOUS
<1>23. /\ IsWord(never) /\ never.of # "fix" /\ (never.of # "pulse" => never.at + 1 <= MaxTick)
       /\ \A c \in Clocks : c.of = "fix" => c.put # never.put
  BY <1>22, NeverWord
<1>24. n.clock \in Clocks /\ n.receive \in Receives
  BY <1>7, WordsAt
<1> QED
  BY <1>1, <1>3, <1>6, <1>7, <1>11, <1>12, <1>13, <1>18, <1>19, <1>20, <1>21, <1>23, <1>24, StepOfAPut

-----------------------------------------------------------------------------

(* The main thread and ntpd. *)

\* Segment by segment and device by device: which are in use, and that none is lent twice.
Lent ==
  /\ \A u : u \in inUse <=> u \in dropped \/ \E s \in Slots : slot[s].known /\ u \in Held(slot[s])
  /\ \A s \in Slots : slot[s].known =>
       /\ \A u \in Held(slot[s]) : u \notin dropped
       /\ slot[s].shmindex # Unlinked => slot[s].shmindex # slot[s].shmTimeP
       /\ \A other \in Slots : slot[other].known /\ other # s =>
            \A u \in Held(slot[s]) : u \notin Held(slot[other])

LEMMA LentIs == SegmentsAreAccounted <=> Lent
<1>1. PICK all : all = UNION {Held(slot[s]) : s \in Known}
  OBVIOUS
<1>2. \A u : u \in all <=> \E s \in Slots : slot[s].known /\ u \in Held(slot[s])
  BY <1>1 DEF Known
<1>3. (inUse = dropped \cup all) <=>
        \A u : u \in inUse <=> u \in dropped \/ \E s \in Slots : slot[s].known /\ u \in Held(slot[s])
  <2>1. (inUse = dropped \cup all) <=> \A u : u \in inUse <=> u \in dropped \/ u \in all
    OBVIOUS
  <2> QED BY <1>2, <2>1, Zenon
<1>4. SegmentsAreAccounted <=>
        /\ inUse = dropped \cup all
        /\ \A s \in Known : /\ Held(slot[s]) \cap dropped = {}
                            /\ slot[s].shmindex # Unlinked => slot[s].shmindex # slot[s].shmTimeP
                            /\ \A other \in Known \ {s} : Held(slot[s]) \cap Held(slot[other]) = {}
  BY <1>1, Zenon DEF SegmentsAreAccounted
<1>5. \A s : s \in Known <=> s \in Slots /\ slot[s].known
  BY DEF Known
<1>6. \A S, T : S \cap T = {} <=> \A u \in S : u \notin T
  OBVIOUS
<1>7. (\A s \in Known : Held(slot[s]) \cap dropped = {}) <=>
        \A s \in Slots : slot[s].known => \A u \in Held(slot[s]) : u \notin dropped
  BY <1>5, <1>6
<1>8. (\A s \in Known : \A other \in Known \ {s} : Held(slot[s]) \cap Held(slot[other]) = {}) <=>
        \A s \in Slots : slot[s].known =>
          \A other \in Slots : slot[other].known /\ other # s =>
            \A u \in Held(slot[s]) : u \notin Held(slot[other])
  BY <1>5, <1>6
<1> QED BY <1>3, <1>4, <1>5, <1>7, <1>8 DEF Lent

LEMMA LentNext == SegmentsAreAccounted' <=> Lent'
BY LentIs, PTL

\* The links stay, whatever else changes of the devices.
LEMMA DevicesSame ==
  ASSUME ShmInv, UNCHANGED <<attached, shmTimePPS, inUse, dropped>>, slot' \in [Slots -> SlotRecords],
         \A s \in Slots : /\ slot'[s].known = slot[s].known /\ slot'[s].open = slot[s].open
                          /\ slot'[s].openings = slot[s].openings
                          /\ slot'[s].shmindex = slot[s].shmindex /\ slot'[s].shmTimeP = slot[s].shmTimeP
  PROVE  LinksTyped' /\ SegmentsAreAccounted' /\ Links' /\ Openings'
<1>1. LinksTyped'
  BY DEF ShmInv, LinksTyped, SlotRecords
<1>3. \A s \in Slots : Held(slot'[s]) = Held(slot[s])
  BY DEF Held
<1>5. SegmentsAreAccounted'
  <2>1. Lent
    BY LentIs DEF ShmInv
  <2>2. Lent'
    BY <1>3, <2>1 DEF Lent
  <2> QED BY <2>2, LentNext
<1>6. Links'
  BY DEF ShmInv, Links, Even, Before, Behind
<1>7. Openings'
  BY DEF ShmInv, Openings
<1> QED BY <1>1, <1>5, <1>6, <1>7

\* The segments and everyone's place stay.
LEMMA WorkSame ==
  ASSUME ShmInv, UNCHANGED <<attached, segment, main, thread, ntpd, puts, disturbed>>
  PROVE  Findings' /\ Words' /\ Protocol' /\ Counted' /\ (tick' \in FirstTick..MaxTick => WorkTyped')
<1>1. Findings'
  BY FindingsSame DEF ShmInv
<1>2. Words'
  <2>1. Clocks' = Clocks /\ Receives' = Receives
    BY DEF Clocks, Receives
  <2> QED BY <2>1 DEF ShmInv, Words, IsWord, Even, Before
<1>3. Protocol'
  BY DEF ShmInv, Protocol, Undisturbed, Writers, MainAt
<1>4. Counted'
  BY DEF ShmInv, Counted, Busy, Writers, MainAt
<1>5. tick' \in FirstTick..MaxTick => WorkTyped'
  BY DEF ShmInv, WorkTyped
<1> QED BY <1>1, <1>2, <1>3, <1>4, <1>5

LEMMA TickInv == ShmInv /\ Tick => ShmInv'
<1> SUFFICES ASSUME ShmInv, Tick PROVE ShmInv'
  OBVIOUS
<1>1. UNCHANGED linkVars /\ UNCHANGED <<attached, segment, main, thread, ntpd, puts, disturbed, slot>>
  BY DEF Tick, linkVars
<1>2. tick' \in FirstTick..MaxTick
  BY NtpAssumption DEF Tick, ShmInv, WorkTyped
<1>3. OneThreadADevice'
  BY <1>1 DEF ShmInv, OneThreadADevice, Running
<1> QED BY <1>1, <1>2, <1>3, LinksSame, WorkSame DEF ShmInv

LEMMA BeginCycleInv ==
  ASSUME ShmInv, NEW s, s \in Slots, BeginCycle(s)
  PROVE  ShmInv'
<1>1. slot' = [slot EXCEPT ![s].ship = FALSE] /\ slot \in [Slots -> SlotRecords]
  BY DEF BeginCycle, ShmInv, LinksTyped
<1>2. slot' \in [Slots -> SlotRecords]
  BY ZenonT(30), <1>1 DEF SlotRecords
<1>3. \A o \in Slots : /\ slot'[o].known = slot[o].known /\ slot'[o].open = slot[o].open
                       /\ slot'[o].openings = slot[o].openings /\ slot'[o].adds = slot[o].adds
                       /\ slot'[o].shmindex = slot[o].shmindex /\ slot'[o].shmTimeP = slot[o].shmTimeP
  BY <1>1 DEF SlotRecords
<1>4. UNCHANGED <<attached, shmTimePPS, inUse, dropped, segment, main, thread, ntpd, tick, puts, disturbed>>
  BY DEF BeginCycle
<1>5. OneThreadADevice'
  BY <1>1, <1>3, <1>4, RunningSame DEF ShmInv
<1>6. LinksTyped' /\ SegmentsAreAccounted' /\ Links' /\ Openings'
  BY <1>2, <1>3, <1>4, DevicesSame
<1>7. Findings' /\ Words' /\ Protocol' /\ Counted' /\ WorkTyped'
  BY <1>4, WorkSame DEF ShmInv, WorkTyped
<1> QED BY <1>5, <1>6, <1>7 DEF ShmInv

\* A step of ntpd.
LEMMA StepOfNtpd ==
  ASSUME ShmInv, UNCHANGED readerFrame, NEW n, ntpd' = n, n \in NtpdRecords, n.pc # "idle" => n.unit \in Units,
         segment' \in [Units -> SegmentRecords],
         \A u \in Units : /\ segment'[u].count = segment[u].count
                          /\ segment'[u].clock = segment[u].clock /\ segment'[u].receive = segment[u].receive,
         \A u \in Units \ disturbed :
           n.pc \in {"receive", "clock", "compare"} /\ n.unit = u =>
             /\ n.count <= segment[u].count
             /\ n.count = segment[u].count /\ n.count % 2 = 0 =>
                  /\ n.pc \in {"clock", "compare"} => n.receive.put = segment[u].receive.put
                  /\ n.pc = "compare" => n.clock.put = segment[u].clock.put
  PROVE  ShmInv'
<1>1. UNCHANGED linkVars /\ UNCHANGED <<attached, main, thread, tick, puts, disturbed, slot>>
  BY DEF readerFrame, linkVars
<1>2. LinksTyped' /\ SegmentsAreAccounted' /\ Links' /\ Openings'
  BY <1>1, LinksSame
<1>3. OneThreadADevice'
  BY <1>1 DEF ShmInv, OneThreadADevice, Running
<1>4. Findings'
  BY <1>1, FindingsSame DEF ShmInv
<1>5. WorkTyped'
  BY <1>1 DEF ShmInv, WorkTyped
<1>6. \A u : Writers(u)' = Writers(u) /\ (MainAt(u)' <=> MainAt(u))
  BY <1>1 DEF Writers, MainAt
<1>7. Words'
  <2>1. Clocks' \subseteq Clocks /\ Receives' \subseteq Receives
    BY <1>1, WordsAt, WordsIn
  <2>2. puts \in Nat /\ \A t \in Threads : thread[t].put \in Nat /\ thread[t].put <= puts
    BY PutsAre, NtpAssumption DEF ShmInv, Words, Findings, ThreadRecords
  <2>3. \A u \in attached : Even(u) => segment'[u].clock.of # "pulse"
    BY DEF ShmInv, Words, LinksTyped
  <2>4. Words
    BY DEF ShmInv
  <2> QED BY <1>1, <2>1, <2>2, <2>3, <2>4, WordsKept
<1>8. Counted'
  <2>1. Busy' = Busy
    BY <1>1 DEF Busy
  <2> QED BY <1>1, <1>6, <2>1, CountedSame DEF ShmInv
<1>9. Protocol'
  <2> SUFFICES ASSUME NEW u \in Units \ disturbed PROVE Undisturbed(u)'
    BY <1>1 DEF Protocol
  <2>1. Undisturbed(u)
    BY DEF ShmInv, Protocol
  <2> QED BY <1>1, <1>6, <2>1 DEF Undisturbed
<1> QED BY <1>2, <1>3, <1>4, <1>5, <1>7, <1>8, <1>9 DEF ShmInv

LEMMA NtpdInv ==
  ASSUME ShmInv, (\E u \in Units : ReadsValid(u)) \/ ReadsCount \/ ReadsReceive \/ ReadsClock \/ Takes
  PROVE  ShmInv'
<1>1. /\ segment \in [Units -> SegmentRecords] /\ ntpd \in NtpdRecords
      /\ ntpd.pc # "idle" => ntpd.unit \in Units
  BY DEF ShmInv, WorkTyped
<1>2. \A u \in Units : segment[u].count \in Nat /\ segment[u].clock \in Stamps /\ segment[u].receive \in Stamps
  BY <1>1 DEF SegmentRecords
<1>3. Waiting \in NtpdRecords
  BY NeverIs DEF Waiting, NtpdRecords, PlacesOfNtpd
<1>4. ASSUME NEW u \in Units, ReadsValid(u) PROVE ShmInv'
  <2>1. PICK n : n = [Waiting EXCEPT !.pc = "count", !.unit = u]
    OBVIOUS
  <2>2. n \in NtpdRecords /\ n.pc = "count" /\ n.unit = u
    BY <1>3, <2>1 DEF NtpdRecords, PlacesOfNtpd
  <2>3. ntpd' = n /\ segment' = segment /\ UNCHANGED readerFrame
    BY <1>4, <2>1 DEF ReadsValid
  <2> QED BY <1>1, <2>2, <2>3, StepOfNtpd
<1>5. ASSUME ReadsCount PROVE ShmInv'
  <2>1. PICK u, count : u = ntpd.unit /\ count = segment[u].count
    OBVIOUS
  <2>2. u \in Units /\ count \in Nat /\ ntpd.pc = "count"
    BY <1>1, <1>2, <1>5, <2>1 DEF ReadsCount
  <2>3. PICK n : n = [ntpd EXCEPT !.pc = "receive", !.count = count]
    OBVIOUS
  <2>4. n \in NtpdRecords /\ n.pc = "receive" /\ n.unit = u /\ n.count = count
    BY <1>1, <2>1, <2>2, <2>3 DEF NtpdRecords, PlacesOfNtpd
  <2>5. ntpd' = n /\ segment' = segment /\ UNCHANGED readerFrame
    BY <1>5, <2>1, <2>3 DEF ReadsCount
  <2>6. n.count <= segment[u].count
    BY <2>1, <2>2, <2>4
  <2> QED BY <1>1, <2>2, <2>4, <2>5, <2>6, StepOfNtpd
<1>6. ASSUME ReadsReceive PROVE ShmInv'
  <2>1. PICK u, receive : u = ntpd.unit /\ receive = segment[u].receive
    OBVIOUS
  <2>2. u \in Units /\ receive \in Stamps /\ ntpd.pc = "receive"
    BY <1>1, <1>2, <1>6, <2>1 DEF ReadsReceive
  <2>3. PICK n : n = [ntpd EXCEPT !.pc = "clock", !.receive = receive]
    OBVIOUS
  <2>4. n \in NtpdRecords /\ n.pc = "clock" /\ n.unit = u /\ n.count = ntpd.count /\ n.receive = receive
    BY <1>1, <2>1, <2>2, <2>3 DEF NtpdRecords, PlacesOfNtpd
  <2>5. ntpd' = n /\ segment' = segment /\ UNCHANGED readerFrame
    BY <1>6, <2>1, <2>3 DEF ReadsReceive
  <2>6. u \notin disturbed => n.count <= segment[u].count
    BY <2>1, <2>2, <2>4 DEF ShmInv, Protocol, Undisturbed
  <2> QED BY <1>1, <2>1, <2>2, <2>4, <2>5, <2>6, StepOfNtpd
<1>7. ASSUME ReadsClock PROVE ShmInv'
  <2>1. PICK u, clock : u = ntpd.unit /\ clock = segment[u].clock
    OBVIOUS
  <2>2. u \in Units /\ clock \in Stamps /\ ntpd.pc = "clock"
    BY <1>1, <1>2, <1>7, <2>1 DEF ReadsClock
  <2>3. PICK n : n = [ntpd EXCEPT !.pc = "compare", !.clock = clock]
    OBVIOUS
  <2>4. /\ n \in NtpdRecords /\ n.pc = "compare" /\ n.unit = u /\ n.count = ntpd.count
        /\ n.receive = ntpd.receive /\ n.clock = clock
    BY <1>1, <2>1, <2>2, <2>3 DEF NtpdRecords, PlacesOfNtpd
  <2>5. ntpd' = n /\ segment' = segment /\ UNCHANGED readerFrame
    BY <1>7, <2>1, <2>3 DEF ReadsClock
  <2>6. u \notin disturbed =>
          /\ n.count <= segment[u].count
          /\ n.count = segment[u].count /\ n.count % 2 = 0 => n.receive.put = segment[u].receive.put
    BY <2>1, <2>2, <2>4 DEF ShmInv, Protocol, Undisturbed
  <2> QED BY <1>1, <2>1, <2>2, <2>4, <2>5, <2>6, StepOfNtpd
<1>8. ASSUME Takes PROVE ShmInv'
  <2>1. PICK n : n = Waiting
    OBVIOUS
  <2>2. n \in NtpdRecords /\ n.pc = "idle"
    BY <1>3, <2>1 DEF Waiting
  <2>3. PICK u : u = ntpd.unit
    OBVIOUS
  <2>4. u \in Units /\ ntpd' = n /\ segment' = [segment EXCEPT ![u].valid = FALSE] /\ UNCHANGED readerFrame
    BY <1>1, <1>8, <2>1, <2>3 DEF Takes
  <2>5. segment' \in [Units -> SegmentRecords]
    BY <1>1, <2>4 DEF SegmentRecords
  <2>6. \A v \in Units : /\ segment'[v].count = segment[v].count
                          /\ segment'[v].clock = segment[v].clock /\ segment'[v].receive = segment[v].receive
    BY <1>1, <2>4 DEF SegmentRecords
  <2> QED BY <2>2, <2>4, <2>5, <2>6, StepOfNtpd
<1> QED BY <1>4, <1>5, <1>6, <1>7, <1>8

\* A step of a put of the main thread to the segment u.
LEMMA StepOfMain ==
  ASSUME ShmInv, LinksTyped', SegmentsAreAccounted', Links', Openings', Words', Counted',
         \A s \in Slots : slot'[s].adds = slot[s].adds,
         UNCHANGED <<attached, thread, ntpd, tick>>, puts' \in 0..MaxPuts,
         NEW u, u \in Units, main.pc \in Writing => main.unit = u,
         NEW m, main' = m, m \in MainRecords,
         m.pc \in Writing =>
           m.unit = u /\ u \in attached /\ m.clock.put = m.receive.put /\ m.clock.of # "pulse",
         NEW g, g \in SegmentRecords, segment' = [segment EXCEPT ![u] = g],
         disturbed \subseteq disturbed', disturbed' \subseteq disturbed \cup {u},
         u \notin disturbed' => Undisturbed(u)'
  PROVE  ShmInv'
<1>1. OneThreadADevice'
  BY RunningSame DEF ShmInv, LinksTyped
<1>2. Findings'
  BY FindingsSame DEF ShmInv
<1>3. WorkTyped'
  <2>1. segment' \in [Units -> SegmentRecords] /\ disturbed' \subseteq Units
    BY DEF ShmInv, WorkTyped
  <2> QED BY <2>1 DEF ShmInv, WorkTyped
<1>4. Protocol'
  <2> SUFFICES ASSUME NEW v \in Units \ disturbed' PROVE Undisturbed(v)'
    BY DEF Protocol
  <2>1. CASE v = u
    BY <2>1
  <2>2. CASE v # u
    <3>1. Undisturbed(v)
      BY <2>2 DEF ShmInv, Protocol
    <3>2. segment'[v] = segment[v]
      BY <2>2 DEF ShmInv, WorkTyped
    <3>3. ~MainAt(v) /\ ~MainAt(v)'
      BY <2>2 DEF MainAt
    <3>4. Writers(v)' = Writers(v)
      BY DEF Writers
    <3>5. Untouched(v)
      BY <3>2, <3>3, <3>4 DEF Untouched
    <3> QED BY <3>1, <3>5, UndisturbedSame
  <2> QED BY <2>1, <2>2
<1> QED BY <1>1, <1>2, <1>3, <1>4 DEF ShmInv

\* What is known of the main thread in the middle of a put.
LEMMA InAMainPut ==
  ASSUME ShmInv, main.pc \in Writing, NEW u, u = main.unit
  PROVE  /\ u \in attached /\ u \in Units /\ main \in MainRecords
         /\ main.clock.put = main.receive.put /\ main.clock.of # "pulse"
         /\ segment \in [Units -> SegmentRecords] /\ segment[u] \in SegmentRecords
         /\ MainAt(u)
         /\ u \notin disturbed => Writers(u) = {} /\ segment[u].count % 2 = 1 /\ Undisturbed(u)
<1>1. /\ u \in attached /\ u \in Units /\ main \in MainRecords
      /\ main.clock.put = main.receive.put /\ main.clock.of # "pulse"
      /\ segment \in [Units -> SegmentRecords]
  BY DEF ShmInv, WorkTyped, LinksTyped
<1>2. MainAt(u)
  BY DEF MainAt
<1>3. ASSUME u \notin disturbed PROVE Writers(u) = {} /\ segment[u].count % 2 = 1 /\ Undisturbed(u)
  <2>1. Undisturbed(u)
    BY <1>1, <1>3 DEF ShmInv, Protocol
  <2> QED BY <1>2, <2>1 DEF Undisturbed
<1> QED BY <1>1, <1>2, <1>3

\* The words of the main thread are copied or forgotten.
LEMMA WordsOfMain ==
  ASSUME ShmInv, UNCHANGED <<attached, thread, puts>>,
         NEW u, u \in Units, NEW m, main' = m, m.clock \in Clocks, m.receive \in Receives,
         NEW g, segment' = [segment EXCEPT ![u] = g], g.clock \in {segment[u].clock, main.clock},
         g.receive \in Receives, main.clock.of # "pulse"
  PROVE  Words'
<1>1. \A v \in Units : segment'[v] = IF v = u THEN g ELSE segment[v]
  BY DEF ShmInv, WorkTyped
<1>2. \A v \in Units : segment'[v].clock \in Clocks /\ segment'[v].receive \in Receives
  BY <1>1, WordsAt
<1>3. Clocks' \subseteq Clocks /\ Receives' \subseteq Receives
  BY <1>2, WordsAt, WordsIn
<1>4. puts \in Nat /\ \A t \in Threads : thread[t].put \in Nat /\ thread[t].put <= puts
  BY PutsAre, NtpAssumption DEF ShmInv, Words, Findings, ThreadRecords
<1>5. \A v \in attached : v \in Units
  BY DEF ShmInv, LinksTyped
<1>6. \A v \in attached : Even(v) => segment[v].clock.of # "pulse"
  BY DEF ShmInv, Words
<1>7. \A v \in attached : Even(v) => segment'[v].clock.of # "pulse"
  BY <1>1, <1>5, <1>6
<1>8. Words
  BY DEF ShmInv
<1> QED BY <1>3, <1>4, <1>7, <1>8, WordsKept

LEMMA PutClockInv == ShmInv /\ PutClock => ShmInv'
<1> SUFFICES ASSUME ShmInv, PutClock PROVE ShmInv'
  OBVIOUS
<1>1. PICK u, old : u = main.unit /\ old = segment[u]
  OBVIOUS
<1>2. main.pc = "clock" /\ main.pc \in Writing
  BY DEF PutClock, Writing
<1>3. /\ u \in attached /\ u \in Units /\ main \in MainRecords
      /\ main.clock.put = main.receive.put /\ main.clock.of # "pulse"
      /\ segment \in [Units -> SegmentRecords] /\ old \in SegmentRecords
      /\ MainAt(u)
      /\ u \notin disturbed => Writers(u) = {} /\ segment[u].count % 2 = 1 /\ Undisturbed(u)
  BY <1>1, <1>2, InAMainPut
<1>4. PICK m : m = [main EXCEPT !.pc = "receive"]
  OBVIOUS
<1>5. /\ m \in MainRecords /\ m.pc = "receive" /\ m.unit = u
      /\ m.clock = main.clock /\ m.receive = main.receive
  BY <1>1, <1>3, <1>4 DEF MainRecords, Writing
<1>6. PICK g : g = [old EXCEPT !.clock = main.clock]
  OBVIOUS
<1>7. main.clock \in Stamps
  BY <1>3 DEF MainRecords
<1>8. g \in SegmentRecords /\ g.count = old.count /\ g.clock = main.clock /\ g.receive = old.receive
  BY <1>3, <1>6, <1>7 DEF SegmentRecords
<1>9. /\ segment' = [segment EXCEPT ![u] = g] /\ main' = m
      /\ UNCHANGED <<linkVars, thread, ntpd, tick, puts, disturbed>>
  BY <1>1, <1>3, <1>4, <1>6 DEF PutClock
<1>10. UNCHANGED <<attached, thread, ntpd, tick, puts, slot, disturbed>>
  BY <1>9 DEF linkVars
<1>11. LinksTyped' /\ SegmentsAreAccounted' /\ Links' /\ Openings'
  BY <1>9, LinksSame
<1>12. Words'
  <2>1. m.clock \in Clocks /\ m.receive \in Receives /\ g.receive \in Receives
    BY <1>1, <1>3, <1>5, <1>8, WordsAt
  <2> QED BY <1>3, <1>5, <1>8, <1>9, <1>10, <2>1, WordsOfMain
<1>13. \A v \in Units : segment'[v] = IF v = u THEN g ELSE segment[v]
  BY <1>3, <1>9
<1>14. m.pc \in Writing /\ \A v : (MainAt(v)' <=> MainAt(v)) /\ Writers(v)' = Writers(v)
  BY <1>1, <1>2, <1>5, <1>9, <1>10 DEF MainAt, Writers, Writing
<1>15. Counted'
  <2>1. Busy' = Busy /\ \A v \in Units : segment'[v].count = segment[v].count
    BY <1>1, <1>8, <1>10, <1>13 DEF Busy
  <2> QED BY <1>2, <1>9, <1>10, <1>14, <2>1, CountedSame DEF ShmInv
<1>16. ASSUME u \notin disturbed' PROVE Undisturbed(u)'
  <2>1. Writers(u) = {} /\ segment[u].count % 2 = 1 /\ Undisturbed(u)
    BY <1>3, <1>10, <1>16
  <2>2. segment'[u].count = segment[u].count /\ segment'[u].clock = main.clock
    BY <1>1, <1>3, <1>8, <1>13
  <2>3. MainAt(u)' /\ Writers(u)' = {} /\ main'.pc = "receive" /\ main'.receive = main.receive
    BY <1>3, <1>5, <1>9, <1>14, <2>1
  <2>4. segment'[u].clock.put = main'.receive.put
    BY <1>3, <2>2, <2>3
  <2>5. ntpd'.pc \in {"receive", "clock", "compare"} /\ ntpd'.unit = u => ntpd'.count <= segment'[u].count
    BY <1>10, <2>1, <2>2 DEF Undisturbed
  <2> QED BY <2>1, <2>2, <2>3, <2>4, <2>5 DEF Undisturbed
<1>17. /\ \A s \in Slots : slot'[s].adds = slot[s].adds
       /\ puts' \in 0..MaxPuts /\ main.unit = u
       /\ m.clock.put = m.receive.put /\ m.clock.of # "pulse"
       /\ disturbed' = disturbed
  BY <1>1, <1>3, <1>5, <1>10, PutsAre
<1> QED BY <1>3, <1>5, <1>8, <1>9, <1>10, <1>11, <1>12, <1>15, <1>16, <1>17, StepOfMain

LEMMA PutReceiveInv == ShmInv /\ PutReceive => ShmInv'
<1> SUFFICES ASSUME ShmInv, PutReceive PROVE ShmInv'
  OBVIOUS
<1>1. PICK u, old : u = main.unit /\ old = segment[u]
  OBVIOUS
<1>2. main.pc = "receive" /\ main.pc \in Writing
  BY DEF PutReceive, Writing
<1>3. /\ u \in attached /\ u \in Units /\ main \in MainRecords
      /\ main.clock.put = main.receive.put /\ main.clock.of # "pulse"
      /\ segment \in [Units -> SegmentRecords] /\ old \in SegmentRecords
      /\ MainAt(u)
      /\ u \notin disturbed => Writers(u) = {} /\ segment[u].count % 2 = 1 /\ Undisturbed(u)
  BY <1>1, <1>2, InAMainPut
<1>4. PICK m : m = [main EXCEPT !.pc = "done"]
  OBVIOUS
<1>5. /\ m \in MainRecords /\ m.pc = "done" /\ m.unit = u
      /\ m.clock = main.clock /\ m.receive = main.receive
  BY <1>1, <1>3, <1>4 DEF MainRecords, Writing
<1>6. PICK g : g = [old EXCEPT !.receive = main.receive]
  OBVIOUS
<1>7. main.receive \in Stamps
  BY <1>3 DEF MainRecords
<1>8. g \in SegmentRecords /\ g.count = old.count /\ g.clock = old.clock /\ g.receive = main.receive
  BY <1>3, <1>6, <1>7 DEF SegmentRecords
<1>9. /\ segment' = [segment EXCEPT ![u] = g] /\ main' = m
      /\ UNCHANGED <<linkVars, thread, ntpd, tick, puts, disturbed>>
  BY <1>1, <1>3, <1>4, <1>6 DEF PutReceive
<1>10. UNCHANGED <<attached, thread, ntpd, tick, puts, slot, disturbed>>
  BY <1>9 DEF linkVars
<1>11. LinksTyped' /\ SegmentsAreAccounted' /\ Links' /\ Openings'
  BY <1>9, LinksSame
<1>12. Words'
  <2>1. m.clock \in Clocks /\ m.receive \in Receives /\ g.receive \in Receives
    BY <1>1, <1>3, <1>5, <1>8, WordsAt
  <2>2. g.clock = segment[u].clock
    BY <1>1, <1>8
  <2> QED BY <1>3, <1>5, <1>9, <1>10, <2>1, <2>2, WordsOfMain
<1>13. \A v \in Units : segment'[v] = IF v = u THEN g ELSE segment[v]
  BY <1>3, <1>9
<1>14. m.pc \in Writing /\ \A v : (MainAt(v)' <=> MainAt(v)) /\ Writers(v)' = Writers(v)
  BY <1>1, <1>2, <1>5, <1>9, <1>10 DEF MainAt, Writers, Writing
<1>15. Counted'
  <2>1. Busy' = Busy /\ \A v \in Units : segment'[v].count = segment[v].count
    BY <1>1, <1>8, <1>10, <1>13 DEF Busy
  <2> QED BY <1>2, <1>9, <1>10, <1>14, <2>1, CountedSame DEF ShmInv
<1>16. ASSUME u \notin disturbed' PROVE Undisturbed(u)'
  <2>1. Writers(u) = {} /\ segment[u].count % 2 = 1 /\ Undisturbed(u)
    BY <1>3, <1>10, <1>16
  <2>2. /\ segment'[u].count = segment[u].count /\ segment'[u].clock = segment[u].clock
        /\ segment'[u].receive = main.receive
    BY <1>1, <1>3, <1>8, <1>13
  <2>3. MainAt(u)' /\ Writers(u)' = {} /\ main'.pc = "done"
    BY <1>3, <1>5, <1>9, <1>14, <2>1
  <2>4. segment[u].clock.put = main.receive.put
    BY <1>2, <1>3, <2>1 DEF Undisturbed
  <2>5. ntpd'.pc \in {"receive", "clock", "compare"} /\ ntpd'.unit = u => ntpd'.count <= segment'[u].count
    BY <1>10, <2>1, <2>2 DEF Undisturbed
  <2> QED BY <2>1, <2>2, <2>3, <2>4, <2>5 DEF Undisturbed
<1>17. /\ \A s \in Slots : slot'[s].adds = slot[s].adds
       /\ puts' \in 0..MaxPuts /\ main.unit = u
       /\ m.clock.put = m.receive.put /\ m.clock.of # "pulse"
       /\ disturbed' = disturbed
  BY <1>1, <1>3, <1>5, <1>10, PutsAre
<1> QED BY <1>3, <1>5, <1>8, <1>9, <1>10, <1>11, <1>12, <1>15, <1>16, <1>17, StepOfMain

\* The main thread begins or ends a put: the counts of the puts go with it.
LEMMA CountedMain ==
  ASSUME ShmInv, thread' = thread, NEW u, u \in Units, NEW d, d \in {0, 1}, puts' = puts + d,
         \A v \in Units : v # u => segment'[v].count = segment[v].count /\ ~MainAt(v) /\ ~MainAt(v)',
         segment'[u].count = segment[u].count + 1,
         main'.pc \in Writing <=> d = 1, main.pc \in Writing <=> d = 0,
         MainAt(u)' <=> d = 1, MainAt(u) <=> d = 0
  PROVE  Counted'
<1>0. puts \in Nat /\ \A v \in Units : segment[v].count \in Nat
  BY PutsAre DEF ShmInv, WorkTyped, SegmentRecords
<1>1. Busy' = Busy /\ \A v : Writers(v)' = Writers(v)
  BY DEF Busy, Writers
<1>2. Cardinality(Busy)' = Cardinality(Busy) /\ \A v : Cardinality(Writers(v)') = Cardinality(Writers(v))
  BY <1>1
<1>3. One(main.pc \in Writing)' = d /\ One(main.pc \in Writing) = 1 - d
  BY DEF One
<1>4. Cardinality(Busy)' + One(main.pc \in Writing)' <= puts'
  <2>1. Cardinality(Busy) + One(main.pc \in Writing) <= puts
    BY DEF ShmInv, Counted
  <2> QED BY <1>0, <1>2, <1>3, <2>1, BusyFinite
<1>5. ASSUME NEW v \in Units
      PROVE  segment'[v].count + Cardinality(Writers(v)') + One(MainAt(v))' <= 2 * puts'
  <2>2. segment[v].count + Cardinality(Writers(v)) + One(MainAt(v)) <= 2 * puts
    BY DEF ShmInv, Counted
  <2>3. CASE v # u
    <3>1. segment'[v].count = segment[v].count /\ One(MainAt(v)) = 0 /\ One(MainAt(v))' = 0
      BY <2>3 DEF One
    <3> QED BY <1>0, <1>2, <2>2, <3>1, BusyFinite
  <2>4. CASE v = u
    <3>1. One(MainAt(u))' = d /\ One(MainAt(u)) = 1 - d
      BY DEF One
    <3>2. PICK a, b, np : a = segment[u].count /\ b = Cardinality(Writers(u)) /\ np = puts
      OBVIOUS
    <3>3. a \in Nat /\ b \in Nat /\ np \in Nat /\ a + b + (1 - d) <= 2 * np
      BY <1>0, <2>2, <2>4, <3>1, <3>2, BusyFinite
    <3>4. a + 1 + b + d <= 2 * (np + d)
      BY ONLY <3>3, d \in {0, 1}
    <3>5. segment'[v].count = a + 1 /\ Cardinality(Writers(v)') = b /\ One(MainAt(v))' = d /\ puts' = np + d
      BY <1>2, <2>4, <3>1, <3>2
    <3> QED BY <3>4, <3>5
  <2> QED BY <2>3, <2>4
<1> QED BY <1>4, <1>5 DEF Counted

LEMMA EndPutInv == ShmInv /\ EndPut => ShmInv'
<1> SUFFICES ASSUME ShmInv, EndPut PROVE ShmInv'
  OBVIOUS
<1>1. PICK u, old : u = main.unit /\ old = segment[u]
  OBVIOUS
<1>2. main.pc = "done" /\ main.pc \in Writing
  BY DEF EndPut, Writing
<1>3. /\ u \in attached /\ u \in Units /\ main \in MainRecords /\ main.clock.of # "pulse"
      /\ segment \in [Units -> SegmentRecords] /\ old \in SegmentRecords
      /\ MainAt(u)
      /\ u \notin disturbed => Writers(u) = {} /\ segment[u].count % 2 = 1 /\ Undisturbed(u)
  BY <1>1, <1>2, InAMainPut
<1>4. PICK m : m = AtRest
  OBVIOUS
<1>5. m \in MainRecords /\ m.pc = "idle" /\ m.clock = Never /\ m.receive = Never /\ m.pc \notin Writing
  BY <1>4, NeverIs DEF AtRest, MainRecords, Writing
<1>6. PICK count : count = old.count + 1
  OBVIOUS
<1>7. old.count \in Nat /\ count \in Nat
  BY <1>3, <1>6 DEF SegmentRecords
<1>8. PICK g : g = [old EXCEPT !.valid = TRUE, !.count = count]
  OBVIOUS
<1>9. g \in SegmentRecords /\ g.count = count /\ g.clock = old.clock /\ g.receive = old.receive
  BY <1>3, <1>7, <1>8 DEF SegmentRecords
<1>10. segment' = [segment EXCEPT ![u] = g]
  <2>1. segment' = [segment EXCEPT ![u].valid = TRUE, ![u].count = @ + 1]
    BY <1>1 DEF EndPut, Validated
  <2> QED BY <1>1, <1>3, <1>6, <1>8, <2>1
<1>11. /\ main' = m /\ UNCHANGED <<linkVars, thread, ntpd, tick, puts, disturbed>>
       /\ UNCHANGED <<attached, thread, ntpd, tick, puts, slot, disturbed>>
  BY <1>4 DEF EndPut, linkVars
<1>12. LinksTyped' /\ SegmentsAreAccounted' /\ Links' /\ Openings'
  BY <1>11, LinksSame
<1>13. Words'
  <2>1. m.clock \in Clocks /\ m.receive \in Receives /\ g.receive \in Receives
    BY <1>1, <1>3, <1>5, <1>9, WordsAt
  <2>2. g.clock = segment[u].clock
    BY <1>1, <1>9
  <2> QED BY <1>3, <1>10, <1>11, <2>1, <2>2, WordsOfMain
<1>14. \A v \in Units : segment'[v] = IF v = u THEN g ELSE segment[v]
  BY <1>3, <1>10
<1>15. (\A v : ~MainAt(v)') /\ (\A v : v # u => ~MainAt(v)) /\ (\A v : Writers(v)' = Writers(v))
  BY <1>1, <1>5, <1>11 DEF MainAt, Writers
<1>16. segment'[u].count = segment[u].count + 1
  BY <1>1, <1>3, <1>6, <1>9, <1>14
<1>17. Counted'
  <2>1. PICK d : d = 0
    OBVIOUS
  <2>2. d \in {0, 1} /\ puts' = puts + d
    BY <1>11, <2>1, PutsAre
  <2>3. \A v \in Units : v # u => segment'[v].count = segment[v].count /\ ~MainAt(v) /\ ~MainAt(v)'
    BY <1>14, <1>15
  <2>4. /\ main'.pc \in Writing <=> d = 1
        /\ main.pc \in Writing <=> d = 0
        /\ MainAt(u)' <=> d = 1
        /\ MainAt(u) <=> d = 0
    BY <1>2, <1>3, <1>5, <1>11, <1>15, <2>1
  <2> QED BY <1>3, <1>11, <1>16, <2>2, <2>3, <2>4, CountedMain
<1>18. ASSUME u \notin disturbed' PROVE Undisturbed(u)'
  <2>1. Writers(u) = {} /\ segment[u].count % 2 = 1 /\ Undisturbed(u)
    BY <1>3, <1>11, <1>18
  <2>2. segment'[u].clock.put = segment'[u].receive.put
    <3>1. segment[u].clock.put = segment[u].receive.put
      BY <1>2, <1>3, <2>1 DEF Undisturbed
    <3> QED BY <1>1, <1>3, <1>9, <1>14, <3>1
  <2>3. segment'[u].count % 2 # 1
    <3>1. count % 2 = 0
      BY <1>1, <1>6, <1>7, <2>1
    <3> QED BY <1>3, <1>9, <1>14, <3>1
  <2>4. Writers(u)' = {} /\ ~MainAt(u)'
    BY <1>15, <2>1
  <2>5. ntpd'.pc \in {"receive", "clock", "compare"} /\ ntpd'.unit = u =>
          ntpd'.count <= segment'[u].count /\ ntpd'.count # segment'[u].count
    <3>1. ntpd.count \in Nat /\ segment[u].count \in Nat
      BY <1>1, <1>7 DEF ShmInv, WorkTyped, NtpdRecords
    <3> QED BY <1>11, <1>16, <2>1, <3>1 DEF Undisturbed
  <2> QED BY <2>2, <2>3, <2>4, <2>5 DEF Undisturbed
<1>19. /\ \A s \in Slots : slot'[s].adds = slot[s].adds
       /\ puts' \in 0..MaxPuts /\ main.unit = u /\ disturbed' = disturbed
  BY <1>1, <1>11, PutsAre
<1> QED BY <1>3, <1>5, <1>9, <1>10, <1>11, <1>12, <1>13, <1>17, <1>18, <1>19, StepOfMain

\* The words of a new fix: it is received when its second is over, or as it ends.
LEMMA WordsOfAFix ==
  ASSUME ShmInv, UNCHANGED <<attached, thread>>, puts' = puts + 1, puts' \in 0..MaxPuts,
         NEW second, second = (tick - 1) \div 2,
         NEW c, c = [at |-> second, put |-> puts', of |-> "fix", opening |-> 1],
         NEW r, r = [at |-> tick, put |-> puts', of |-> "fix", opening |-> 1],
         main'.clock = c, main'.receive = r,
         \A v \in Units : segment'[v].clock = segment[v].clock /\ segment'[v].receive = segment[v].receive
  PROVE  Words' /\ c \in Stamps /\ r \in Stamps
<1>1. /\ puts \in Nat /\ puts' > puts /\ puts' \in Nat
      /\ tick \in Nat /\ tick <= MaxTick /\ second \in Nat /\ second + 1 <= MaxTick /\ tick >= 2 * second + 1
  <2>1. puts \in Nat /\ tick \in Nat /\ tick <= MaxTick /\ tick >= 1 /\ MaxTick \in Nat
    BY PutsAre, NtpAssumption
  <2>2. second \in Nat /\ tick >= 2 * second + 1 /\ second + 1 <= tick
    BY <2>1
  <2> QED BY <2>1, <2>2
<1>2. c \in Stamps /\ r \in Stamps
  BY <1>1, NtpAssumption DEF Stamps
<1>3. c.at = second /\ c.put = puts' /\ c.of = "fix" /\ c.opening = 1 /\ r.at = tick /\ r.put = puts' /\ r.opening = 1
  OBVIOUS
<1>4. Clocks' \subseteq Clocks \cup {c} /\ Receives' \subseteq Receives \cup {r}
  <2>1. PICK C, R : C = Clocks \cup {c} /\ R = Receives \cup {r}
    OBVIOUS
  <2>2. Clocks' \subseteq C /\ Receives' \subseteq R
    BY <2>1, WordsAt, WordsIn
  <2> QED BY <2>1, <2>2
<1>5. Words
  BY DEF ShmInv
<1>6. ASSUME NEW w \in Clocks \cup Receives \cup {c, r}
      PROVE  w \in Stamps /\ w.put <= puts' /\ (w.put # 0 => w.opening = 1)
  <2>1. CASE w \in {c, r}
    BY <1>1, <1>2, <1>3, <2>1
  <2>2. CASE w \in Clocks \cup Receives
    <3>1. w \in Stamps /\ w.put <= puts /\ (w.put # 0 => w.opening = 1)
      BY <1>5, <2>2 DEF Words, IsWord
    <3>2. w.put \in Nat
      BY <3>1, NtpAssumption DEF Stamps
    <3> QED BY <1>1, <3>1, <3>2
  <2> QED BY <1>6, <2>1, <2>2
<1>7. ASSUME NEW k \in Clocks \cup {c}
      PROVE  (k.of = "fix" => k.put # 0) /\ (k.of # "pulse" => k.at + 1 <= MaxTick)
  BY <1>1, <1>3, <1>5, <1>7 DEF Words
<1>8. ASSUME NEW k \in Clocks \cup {c}, NEW o \in Receives \cup {r}, k.of = "fix", k.put = o.put
      PROVE  o.at >= 2 * k.at + 1
  <2>1. CASE k \in Clocks /\ o \in Receives
    BY <1>5, <1>8, <2>1 DEF Words
  <2>2. CASE k \in Clocks /\ o = r
    <3>1. k.put \in Nat /\ k.put <= puts
      BY <1>5, <2>2, WordsTyped
    <3> QED BY <1>1, <1>3, <1>8, <2>2, <3>1
  <2>3. CASE k = c /\ o \in Receives
    <3>1. o.put \in Nat /\ o.put <= puts
      BY <1>5, <2>3, WordsTyped
    <3> QED BY <1>1, <1>3, <1>8, <2>3, <3>1
  <2>4. CASE k = c /\ o = r
    BY <1>1, <1>3, <2>4
  <2> QED BY <1>8, <2>1, <2>2, <2>3, <2>4
<1>9. \A t \in Threads : thread[t].put \in Nat /\ thread[t].put <= puts
  BY <1>5, NtpAssumption DEF ShmInv, Words, Findings, ThreadRecords
<1>10. ASSUME NEW k \in Clocks \cup {c}, NEW t \in Threads, thread[t].pc \in Writing, k.of = "fix"
       PROVE  k.put # thread[t].put
  <2>1. CASE k \in Clocks
    BY <1>5, <1>10, <2>1 DEF Words
  <2>2. CASE k = c
    BY <1>1, <1>3, <1>9, <2>2
  <2> QED BY <1>10, <2>1, <2>2
<1>11. \A t \in Threads : thread'[t].put <= puts'
  BY <1>1, <1>9
<1>12. \A u \in attached' : Even(u)' => segment'[u].clock.of # "pulse"
  <2>1. \A u \in attached : Even(u) => segment[u].clock.of # "pulse"
    BY <1>5 DEF Words
  <2>2. \A u \in attached : u \in Units /\ (Even(u)' <=> Even(u))
    BY DEF ShmInv, LinksTyped, Even, Before
  <2> QED BY <2>1, <2>2
<1>13. Words'
  <2>1. \A w \in Clocks' \cup Receives' : IsWord(w)'
    BY <1>4, <1>6 DEF IsWord
  <2>2. \A k \in Clocks' : (k.of = "fix" => k.put # 0) /\ (k.of # "pulse" => k.at + 1 <= MaxTick)
    BY <1>4, <1>7
  <2>3. \A k \in Clocks', o \in Receives' : k.of = "fix" /\ k.put = o.put => o.at >= 2 * k.at + 1
    BY <1>4, <1>8
  <2>4. \A k \in Clocks', t \in Threads : thread'[t].pc \in Writing /\ k.of = "fix" => k.put # thread'[t].put
    BY <1>4, <1>10
  <2> QED BY <1>11, <1>12, <2>1, <2>2, <2>3, <2>4 DEF Words
<1> QED BY <1>2, <1>13

LEMMA ShipInv ==
  ASSUME ShmInv, NEW s, s \in Slots, Ship(s)
  PROVE  ShmInv'
<1>1. PICK second, u : second = (tick - 1) \div 2 /\ u = slot[s].shmindex
  OBVIOUS
<1>2. /\ main.pc = "idle" /\ slot[s].open /\ puts < MaxPuts
      /\ slot' = [slot EXCEPT ![s].ship = TRUE, ![s].last = second]
      /\ UNCHANGED <<attached, shmTimePPS, inUse, thread, ntpd, tick, dropped>>
  BY <1>1 DEF Ship
<1>3. slot \in [Slots -> SlotRecords] /\ second \in 0..MaxTick
  <2>1. tick \in Nat /\ tick <= MaxTick /\ tick >= 1 /\ MaxTick \in Nat
    BY PutsAre, NtpAssumption
  <2>2. second \in 0..MaxTick
    BY <1>1, <2>1
  <2> QED BY <2>2 DEF ShmInv, LinksTyped
<1>4. slot' \in [Slots -> SlotRecords]
  <2>1. PICK mid : mid = [slot EXCEPT ![s].ship = TRUE]
    OBVIOUS
  <2>2. mid \in [Slots -> SlotRecords]
    BY <1>3, <2>1 DEF SlotRecords
  <2>3. slot' = [mid EXCEPT ![s].last = second]
    BY <1>2, <1>3, <2>1
  <2> QED BY ZenonT(30), <1>3, <2>2, <2>3 DEF SlotRecords
<1>5. \A o \in Slots : /\ slot'[o].known = slot[o].known /\ slot'[o].open = slot[o].open
                       /\ slot'[o].openings = slot[o].openings /\ slot'[o].adds = slot[o].adds
                       /\ slot'[o].shmindex = slot[o].shmindex /\ slot'[o].shmTimeP = slot[o].shmTimeP
  BY <1>2, <1>3 DEF SlotRecords
<1>6. LinksTyped' /\ SegmentsAreAccounted' /\ Links' /\ Openings'
  BY <1>2, <1>4, <1>5, DevicesSame
<1>7. CASE ~(u # Unlinked /\ segment[u].clock.at # second)
  <2>1. UNCHANGED <<attached, segment, main, thread, ntpd, puts, disturbed>> /\ tick' = tick
    BY <1>1, <1>2, <1>7 DEF Ship
  <2>2. OneThreadADevice'
    BY <1>3, <1>5, <2>1, RunningSame DEF ShmInv
  <2>3. Findings' /\ Words' /\ Protocol' /\ Counted' /\ WorkTyped'
    BY <2>1, WorkSame DEF ShmInv, WorkTyped
  <2> QED BY <1>6, <2>2, <2>3 DEF ShmInv
<1>8. CASE u # Unlinked /\ segment[u].clock.at # second
  <2>1. u \in attached /\ u \in Units /\ slot[s].openings = 1
    BY <1>1, <1>2, <1>3, <1>8 DEF SlotRecords, ShmInv, LinksTyped, Openings
  <2>2. PICK old, count : old = segment[u] /\ count = old.count + 1
    OBVIOUS
  <2>3. segment \in [Units -> SegmentRecords] /\ old \in SegmentRecords /\ old.count \in Nat /\ count \in Nat
    BY <2>1, <2>2 DEF ShmInv, WorkTyped, SegmentRecords
  <2>4. PICK g : g = [old EXCEPT !.valid = FALSE, !.count = count]
    OBVIOUS
  <2>5. g \in SegmentRecords /\ g.count = count /\ g.clock = old.clock /\ g.receive = old.receive
    BY <2>3, <2>4 DEF SegmentRecords
  <2>6. PICK c, r : /\ c = [at |-> second, put |-> puts + 1, of |-> "fix", opening |-> 1]
                    /\ r = [at |-> tick, put |-> puts + 1, of |-> "fix", opening |-> 1]
    OBVIOUS
  <2>7. Fix(s, second) = c /\ [Fix(s, second) EXCEPT !.at = tick] = r
    BY <2>1, <2>6 DEF Fix
  <2>8. PICK m : m = [pc |-> "clock", unit |-> u, clock |-> c, receive |-> r]
    OBVIOUS
  <2>9. /\ main' = m /\ segment' = Invalidated(u) /\ puts' = puts + 1
        /\ disturbed' = IF Writers(u) # {} THEN disturbed \cup {u} ELSE disturbed
    BY <1>1, <1>8, <2>7, <2>8 DEF Ship
  <2>10. segment' = [segment EXCEPT ![u] = g]
    <3>1. segment' = [segment EXCEPT ![u].valid = FALSE, ![u].count = @ + 1]
      BY <2>9 DEF Invalidated
    <3> QED BY <2>1, <2>2, <2>3, <2>4, <3>1
  <2>11. \A v \in Units : segment'[v] = IF v = u THEN g ELSE segment[v]
    BY <2>3, <2>10
  <2>12. puts' \in 0..MaxPuts /\ puts' \in Nat
    BY <1>2, <2>9, PutsAre, NtpAssumption
  <2>13. m.pc = "clock" /\ m.unit = u /\ m.clock = c /\ m.receive = r /\ m.pc \in Writing
    BY <2>8 DEF Writing
  <2>14. Words' /\ c \in Stamps /\ r \in Stamps
    <3>1. \A v \in Units : segment'[v].clock = segment[v].clock /\ segment'[v].receive = segment[v].receive
      BY <2>2, <2>5, <2>11
    <3>2. /\ c = [at |-> second, put |-> puts', of |-> "fix", opening |-> 1]
          /\ r = [at |-> tick, put |-> puts', of |-> "fix", opening |-> 1]
      BY <2>6, <2>9
    <3>3. main'.clock = c /\ main'.receive = r
      BY <2>9, <2>13
    <3> QED BY <1>1, <1>2, <2>9, <2>12, <3>1, <3>2, <3>3, WordsOfAFix
  <2>15. m \in MainRecords
    BY <2>1, <2>8, <2>14 DEF MainRecords, Writing
  <2>16. m.clock.put = m.receive.put /\ m.clock.of # "pulse"
    BY <2>6, <2>13
  <2>17. main.pc \notin Writing /\ \A v : ~MainAt(v) /\ (MainAt(v)' <=> v = u) /\ Writers(v)' = Writers(v)
    BY <1>2, <2>9, <2>13 DEF MainAt, Writers, Writing
  <2>18. segment'[u].count = segment[u].count + 1
    BY <2>1, <2>2, <2>5, <2>11
  <2>19. Counted'
    <3>1. PICK d : d = 1
      OBVIOUS
    <3>2. d \in {0, 1} /\ puts' = puts + d
      BY <2>9, <3>1
    <3>3. \A v \in Units : v # u => segment'[v].count = segment[v].count /\ ~MainAt(v) /\ ~MainAt(v)'
      BY <2>11, <2>17
    <3>4. /\ main'.pc \in Writing <=> d = 1
          /\ main.pc \in Writing <=> d = 0
          /\ MainAt(u)' <=> d = 1
          /\ MainAt(u) <=> d = 0
      BY <2>9, <2>13, <2>17, <3>1
    <3> QED BY <1>2, <2>1, <2>18, <3>2, <3>3, <3>4, CountedMain
  <2>20. ASSUME u \notin disturbed' PROVE Undisturbed(u)'
    <3>1. Writers(u) = {} /\ u \notin disturbed
      BY <2>9, <2>20
    <3>2. Undisturbed(u)
      BY <2>1, <3>1 DEF ShmInv, Protocol
    <3>3. segment'[u].count % 2 = 1
      <4>1. old.count % 2 # 1
        BY <2>2, <2>17, <3>1, <3>2 DEF Undisturbed
      <4>2. count % 2 = 1
        BY <2>2, <2>3, <4>1
      <4> QED BY <2>1, <2>5, <2>11, <4>2
    <3>4. Writers(u)' = {} /\ MainAt(u)' /\ main'.pc = "clock"
      BY <2>9, <2>13, <2>17, <3>1
    <3>5. ntpd'.pc \in {"receive", "clock", "compare"} /\ ntpd'.unit = u =>
            ntpd'.count <= segment'[u].count /\ ntpd'.count # segment'[u].count
      <4>1. ntpd.count \in Nat /\ segment[u].count \in Nat
        BY <2>2, <2>3 DEF ShmInv, WorkTyped, NtpdRecords
      <4> QED BY <1>2, <2>18, <3>2, <4>1 DEF Undisturbed
    <3> QED BY <3>3, <3>4, <3>5 DEF Undisturbed
  <2>21. disturbed \subseteq disturbed' /\ disturbed' \subseteq disturbed \cup {u}
    BY <2>9
  <2>22. /\ main.pc \in Writing => main.unit = u
         /\ m.pc \in Writing =>
              m.unit = u /\ u \in attached /\ m.clock.put = m.receive.put /\ m.clock.of # "pulse"
    BY <2>1, <2>13, <2>16, <2>17
  <2>23. (\A o \in Slots : slot'[o].adds = slot[o].adds) /\ UNCHANGED <<attached, thread, ntpd, tick>> /\ main' = m
    BY <1>2, <1>5, <2>9
  <2>24. Words'
    BY <2>14
  <2> QED BY <1>6, <2>1, <2>5, <2>10, <2>12, <2>15, <2>19, <2>20, <2>21, <2>22, <2>23, <2>24, StepOfMain
<1> QED BY <1>7, <1>8

-----------------------------------------------------------------------------
(* Lending and taking back. *)

\* A segment is behind one other only.
LEMMA BehindOne ==
  ASSUME attached \subseteq Units, NEW u, u \in attached, NEW x, x \in attached,
         Behind(u) = Behind(x), Behind(u) # Unlinked
  PROVE  u = x
<1>1. PICK w : w = Behind(u)
  OBVIOUS
<1>2. w \in attached /\ w > u /\ w > x
  BY <1>1, BehindIs
<1>3. /\ x > u => w <= x
      /\ u > x => w <= u
  BY <1>1, BehindIs
<1>4. u \in Nat /\ x \in Nat /\ w \in Nat
  BY <1>2, UnitsAre
<1> QED BY <1>2, <1>3, <1>4

\* Of a pair of segments both are lent to a device, or neither.
LEMMA PairsHeld ==
  ASSUME attached \subseteq Units, NEW x, x \in attached \cup {Unlinked}, NEW y,
         x = Unlinked => y = Unlinked, x # Unlinked => Even(x) /\ y = Behind(x),
         NEW H, H = {x, y} \ {Unlinked}, NEW u, u \in attached, Even(u), NEW w, w = Behind(u), w # Unlinked
  PROVE  u \in H <=> w \in H
<1>1. w \in attached /\ ~Even(w)
  BY BehindIs
<1>2. u # Unlinked
  BY UnitsAre
<1>3. CASE x = Unlinked
  BY <1>3
<1>4. CASE x # Unlinked
  <2>1. x \in attached /\ Even(x) /\ y = Behind(x)
    BY <1>4
  <2>2. u # y
    <3>1. y # Unlinked => ~Even(y)
      BY <2>1, BehindIs
    <3> QED BY <1>2, <3>1
  <2>3. w # x
    BY <1>1, <2>1
  <2>4. w = y <=> u = x
    BY <2>1, BehindOne
  <2> QED BY <1>2, <2>2, <2>3, <2>4
<1> QED BY <1>3, <1>4

\* What a device gets that is linked.
LEMMA LinkedIs ==
  ASSUME LinksTyped, Links, NEW x, x = LinkedTo.shmindex, NEW y, y = LinkedTo.shmTimeP
  PROVE  /\ x \in attached \cup {Unlinked} /\ y \in attached \cup {Unlinked}
         /\ x \notin inUse /\ y \notin inUse
         /\ x = Unlinked => y = Unlinked
         /\ x # Unlinked => x # y
         /\ ~shmTimePPS => y = Unlinked
         /\ shmTimePPS /\ x # Unlinked => Even(x) /\ y = Behind(x)
<1>1. attached \subseteq Units /\ inUse \subseteq attached /\ Unlinked \notin Units
  BY UnitsAre DEF LinksTyped
<1>2. PICK free : free = attached \ inUse
  OBVIOUS
<1>3. x = Alloc(free) /\ y = IF shmTimePPS /\ x # Unlinked THEN Alloc(free \ {x}) ELSE Unlinked
  BY <1>2 DEF LinkedTo
<1>4. free \subseteq Units /\ free \ {x} \subseteq Units
  BY <1>1, <1>2
<1>5. x = Unlinked \/ x \in free
  BY <1>3, <1>4, AllocIs
<1>6. y = Unlinked \/ y \in free \ {x}
  BY <1>3, <1>4, AllocIs
<1>7. shmTimePPS /\ x # Unlinked => Even(x) /\ y = Behind(x)
  BY <1>1, FreeIsPaired
<1> QED BY <1>1, <1>2, <1>3, <1>5, <1>6, <1>7

\* The pairs are lent and taken back together.
LEMMA PairsKept ==
  ASSUME LinksTyped, Links, attached' = attached, shmTimePPS' = shmTimePPS,
         NEW x, x \in attached \cup {Unlinked}, NEW y, x = Unlinked => y = Unlinked,
         shmTimePPS /\ x # Unlinked => Even(x) /\ y = Behind(x),
         NEW H, H = {x, y} \ {Unlinked}, inUse' = inUse \cup H \/ inUse' = inUse \ H,
         \A s \in Slots :
           /\ slot'[s].open => slot'[s].known
           /\ ~slot'[s].known => slot'[s].shmindex = Unlinked
           /\ slot'[s].shmindex = Unlinked => slot'[s].shmTimeP = Unlinked
           /\ ~shmTimePPS => slot'[s].shmTimeP = Unlinked
           /\ shmTimePPS /\ slot'[s].shmindex # Unlinked =>
                Even(slot'[s].shmindex) /\ slot'[s].shmTimeP = Behind(slot'[s].shmindex)
  PROVE  Links'
<1>1. \A u : (Even(u)' <=> Even(u)) /\ Behind(u)' = Behind(u)
  BY DEF Even, Before, Behind
<1>2. ASSUME shmTimePPS, NEW u \in attached, Even(u), NEW w, w = Behind(u), w # Unlinked
      PROVE  u \in inUse' <=> w \in inUse'
  <2>1. u \in inUse <=> w \in inUse
    BY <1>2 DEF Links
  <2>2. u \in H <=> w \in H
    BY <1>2, PairsHeld DEF LinksTyped
  <2> QED BY <2>1, <2>2
<1>3. ASSUME NEW s \in Slots, shmTimePPS, slot'[s].shmindex # Unlinked
      PROVE  Even(slot[s].shmindex)' /\ slot'[s].shmTimeP = Behind(slot[s].shmindex)'
  <2>1. Even(slot'[s].shmindex) /\ slot'[s].shmTimeP = Behind(slot'[s].shmindex)
    BY <1>3
  <2> QED BY <2>1 DEF Even, Before, Behind
<1>4. shmTimePPS' => \A u \in attached' : Even(u)' /\ Behind(u)' # Unlinked => (u \in inUse' <=> Behind(u)' \in inUse')
  BY <1>1, <1>2
<1> QED BY <1>3, <1>4 DEF Links

\* What is known of a device's segments.
LEMMA DeviceIs ==
  ASSUME ShmInv, NEW s, s \in Slots, NEW d, d = slot[s]
  PROVE  /\ d \in SlotRecords /\ slot \in [Slots -> SlotRecords]
         /\ d.open => d.known
         /\ ~d.known => d.shmindex = Unlinked
         /\ d.shmindex \in attached \cup {Unlinked} /\ d.shmTimeP \in attached \cup {Unlinked}
         /\ d.shmindex = Unlinked => d.shmTimeP = Unlinked
         /\ ~shmTimePPS => d.shmTimeP = Unlinked
         /\ shmTimePPS /\ d.shmindex # Unlinked => Even(d.shmindex) /\ d.shmTimeP = Behind(d.shmindex)
         /\ d.shmindex # Unlinked => d.openings = IF d.open THEN 1 ELSE 0
         /\ Held(d) = {d.shmindex, d.shmTimeP} \ {Unlinked} /\ Held(d) \subseteq Units
<1>1. d \in SlotRecords /\ slot \in [Slots -> SlotRecords] /\ attached \subseteq Units
  BY DEF ShmInv, LinksTyped
<1>2. d.shmindex \in attached \cup {Unlinked} /\ d.shmTimeP \in attached \cup {Unlinked}
  BY <1>1 DEF SlotRecords
<1>3. Held(d) = {d.shmindex, d.shmTimeP} \ {Unlinked} /\ Held(d) \subseteq Units
  BY <1>1, <1>2 DEF Held
<1>4. /\ d.open => d.known
      /\ ~d.known => d.shmindex = Unlinked
      /\ d.shmindex = Unlinked => d.shmTimeP = Unlinked
      /\ ~shmTimePPS => d.shmTimeP = Unlinked
      /\ shmTimePPS /\ d.shmindex # Unlinked => Even(d.shmindex) /\ d.shmTimeP = Behind(d.shmindex)
      /\ d.shmindex # Unlinked => d.openings = IF d.open THEN 1 ELSE 0
  BY DEF ShmInv, Links, Openings
<1> QED BY <1>1, <1>2, <1>3, <1>4

\* No link is made or taken back, and no thread begins.
LEMMA LinkStep ==
  ASSUME ShmInv, UNCHANGED <<attached, shmTimePPS, segment, main, thread, ntpd, tick, puts, disturbed>>,
         slot' \in [Slots -> SlotRecords], \A s \in Slots : slot'[s].adds = slot[s].adds,
         inUse' \subseteq attached, dropped' \subseteq Units, Lent', Links', Openings'
  PROVE  ShmInv'
<1>1. LinksTyped'
  BY DEF ShmInv, LinksTyped, SlotRecords
<1>2. OneThreadADevice'
  BY RunningSame DEF ShmInv, LinksTyped
<1>3. Findings' /\ Words' /\ Protocol' /\ Counted' /\ WorkTyped'
  BY WorkSame DEF ShmInv, WorkTyped
<1>4. SegmentsAreAccounted'
  BY LentNext
<1> QED BY <1>1, <1>2, <1>3, <1>4 DEF ShmInv

LEMMA OpenInv ==
  ASSUME ShmInv, NEW s, s \in Slots, Open(s)
  PROVE  ShmInv'
<1>1. PICK d, openings : d = slot[s] /\ openings = IF d.openings = 0 THEN 1 ELSE 2
  OBVIOUS
<1>2. /\ d \in SlotRecords /\ slot \in [Slots -> SlotRecords]
      /\ d.shmindex # Unlinked => d.openings = IF d.open THEN 1 ELSE 0
  BY <1>1, DeviceIs
<1>3. /\ d.known /\ ~d.open
      /\ slot' = [slot EXCEPT ![s].open = TRUE, ![s].openings = openings]
      /\ UNCHANGED <<attached, shmTimePPS, inUse, segment, main, thread, ntpd, tick, puts, dropped, disturbed>>
  BY <1>1 DEF Open
<1>4. PICK e : e = [d EXCEPT !.open = TRUE, !.openings = openings]
  OBVIOUS
<1>5. openings \in 0..2
  BY <1>1
<1>6. /\ e \in SlotRecords /\ e.known = d.known /\ e.open = TRUE /\ e.openings = openings /\ e.adds = d.adds
      /\ e.shmindex = d.shmindex /\ e.shmTimeP = d.shmTimeP
  BY <1>2, <1>4, <1>5 DEF SlotRecords
<1>7. slot' = [slot EXCEPT ![s] = e]
  BY <1>1, <1>2, <1>3, <1>4
<1>8. \A o \in Slots : slot'[o] = IF o = s THEN e ELSE slot[o]
  BY <1>2, <1>7
<1>9. \A o \in Slots : /\ slot'[o].known = slot[o].known /\ slot'[o].adds = slot[o].adds
                       /\ slot'[o].shmindex = slot[o].shmindex /\ slot'[o].shmTimeP = slot[o].shmTimeP
  BY <1>1, <1>6, <1>8
<1>10. \A o \in Slots : Held(slot'[o]) = Held(slot[o])
  BY <1>9 DEF Held
<1>11. Lent'
  <2>1. Lent
    BY LentIs DEF ShmInv
  <2> QED BY ZenonT(30), <1>3, <1>9, <1>10, <2>1 DEF Lent
<1>12. Links'
  <2>1. \A o \in Slots : slot'[o].open => slot'[o].known
    BY ZenonT(30), <1>1, <1>3, <1>6, <1>8 DEF ShmInv, Links
  <2>2. PICK x, y, H : x = Unlinked /\ y = Unlinked /\ H = {x, y} \ {Unlinked}
    OBVIOUS
  <2>3. /\ x \in attached \cup {Unlinked} /\ (x = Unlinked => y = Unlinked) /\ inUse' = inUse \cup H
        /\ shmTimePPS /\ x # Unlinked => Even(x) /\ y = Behind(x)
    BY <1>3, <2>2
  <2>4. ASSUME NEW o \in Slots
        PROVE  /\ slot'[o].open => slot'[o].known
               /\ ~slot'[o].known => slot'[o].shmindex = Unlinked
               /\ slot'[o].shmindex = Unlinked => slot'[o].shmTimeP = Unlinked
               /\ ~shmTimePPS => slot'[o].shmTimeP = Unlinked
               /\ shmTimePPS /\ slot'[o].shmindex # Unlinked =>
                    Even(slot'[o].shmindex) /\ slot'[o].shmTimeP = Behind(slot'[o].shmindex)
    BY <1>9, <2>1 DEF ShmInv, Links
  <2> QED BY <1>3, <2>2, <2>3, <2>4, PairsKept DEF ShmInv
<1>13. Openings'
  <2>1. e.shmindex # Unlinked => e.openings = 1
    BY <1>1, <1>2, <1>3, <1>6
  <2> QED BY <1>6, <1>8, <2>1 DEF ShmInv, Openings
<1>14. slot' \in [Slots -> SlotRecords]
  BY <1>2, <1>6, <1>7
<1>15. inUse' \subseteq attached /\ dropped' \subseteq Units
  BY <1>3 DEF ShmInv, LinksTyped
<1> QED BY <1>3, <1>9, <1>11, <1>12, <1>13, <1>14, <1>15, LinkStep

LEMMA CloseInv ==
  ASSUME ShmInv, NEW s, s \in Slots, Close(s)
  PROVE  ShmInv'
<1>1. PICK d, H : d = slot[s] /\ H = Held(d)
  OBVIOUS
<1>2. /\ d \in SlotRecords /\ slot \in [Slots -> SlotRecords] /\ (d.open => d.known)
      /\ H = {d.shmindex, d.shmTimeP} \ {Unlinked}
      /\ d.shmindex \in attached \cup {Unlinked}
      /\ d.shmindex = Unlinked => d.shmTimeP = Unlinked
      /\ shmTimePPS /\ d.shmindex # Unlinked => Even(d.shmindex) /\ d.shmTimeP = Behind(d.shmindex)
      /\ ~shmTimePPS => d.shmTimeP = Unlinked
  BY <1>1, DeviceIs
<1>3. /\ d.open /\ inUse' = inUse \ H
      /\ slot' = [slot EXCEPT ![s].open = FALSE, ![s].shmindex = Unlinked, ![s].shmTimeP = Unlinked]
      /\ UNCHANGED <<attached, shmTimePPS, segment, main, thread, ntpd, tick, puts, dropped, disturbed>>
  BY <1>1 DEF Close, Unlink
<1>4. PICK e : e = [d EXCEPT !.open = FALSE, !.shmindex = Unlinked, !.shmTimeP = Unlinked]
  OBVIOUS
<1>5. /\ e \in SlotRecords /\ e.known = d.known /\ e.open = FALSE /\ e.openings = d.openings /\ e.adds = d.adds
      /\ e.shmindex = Unlinked /\ e.shmTimeP = Unlinked
  <2>1. PICK mid : mid = [d EXCEPT !.open = FALSE]
    OBVIOUS
  <2>2. mid \in SlotRecords /\ mid.open = FALSE /\ mid.known = d.known /\ mid.openings = d.openings /\ mid.adds = d.adds
    BY <1>2, <2>1 DEF SlotRecords
  <2>3. e = [mid EXCEPT !.shmindex = Unlinked, !.shmTimeP = Unlinked]
    BY <1>2, <1>4, <2>1 DEF SlotRecords
  <2> QED BY <2>2, <2>3 DEF SlotRecords
<1>6. slot' = [slot EXCEPT ![s] = e]
  BY <1>1, <1>2, <1>3, <1>4
<1>7. \A o \in Slots : slot'[o] = IF o = s THEN e ELSE slot[o]
  BY <1>2, <1>6
<1>8. Held(e) = {}
  BY <1>5 DEF Held
<1>9. Lent'
  <2>1. Lent
    BY LentIs DEF ShmInv
  <2>2. \A u \in H : u \notin dropped /\ \A o \in Slots : slot[o].known /\ o # s => u \notin Held(slot[o])
    BY <1>1, <1>2, <1>3, <2>1 DEF Lent
  <2>3. \A u : u \in inUse' <=> u \in dropped' \/ \E o \in Slots : slot'[o].known /\ u \in Held(slot'[o])
    <3>1. ASSUME NEW u, u \in inUse'
          PROVE  u \in dropped' \/ \E o \in Slots : slot'[o].known /\ u \in Held(slot'[o])
      <4>1. u \in dropped \/ \E o \in Slots : slot[o].known /\ u \in Held(slot[o])
        BY <1>3, <3>1, <2>1 DEF Lent
      <4>2. CASE u \in dropped
        BY <1>3, <4>2
      <4>3. ASSUME NEW o \in Slots, slot[o].known, u \in Held(slot[o])
            PROVE  \E other \in Slots : slot'[other].known /\ u \in Held(slot'[other])
        <5>1. o # s
          BY <1>1, <1>3, <3>1, <4>3
        <5> QED BY <1>7, <4>3, <5>1
      <4> QED BY <4>1, <4>2, <4>3
    <3>2. ASSUME NEW u, u \in dropped' \/ \E o \in Slots : slot'[o].known /\ u \in Held(slot'[o])
          PROVE  u \in inUse'
      <4>1. CASE u \in dropped'
        BY <1>3, <2>1, <2>2, <4>1 DEF Lent
      <4>2. ASSUME NEW o \in Slots, slot'[o].known, u \in Held(slot'[o])
            PROVE  u \in inUse'
        <5>1. o # s /\ slot[o].known /\ u \in Held(slot[o])
          BY <1>7, <1>8, <4>2
        <5> QED BY <1>3, <2>1, <2>2, <5>1 DEF Lent
      <4> QED BY <3>2, <4>1, <4>2
    <3> QED BY <3>1, <3>2
  <2>4. ASSUME NEW o \in Slots, slot'[o].known
        PROVE  /\ \A u \in Held(slot'[o]) : u \notin dropped'
               /\ slot'[o].shmindex # Unlinked => slot'[o].shmindex # slot'[o].shmTimeP
               /\ \A other \in Slots : slot'[other].known /\ other # o =>
                    \A u \in Held(slot'[o]) : u \notin Held(slot'[other])
    <3>1. CASE o = s
      BY <1>5, <1>7, <1>8, <3>1
    <3>2. CASE o # s
      <4>1. slot'[o] = slot[o]
        BY <1>7, <3>2
      <4>2. ASSUME NEW other \in Slots, slot'[other].known, other # o, NEW u \in Held(slot'[o])
            PROVE  u \notin Held(slot'[other])
        <5>1. CASE other = s
          BY <1>7, <1>8, <5>1
        <5>2. CASE other # s
          BY <1>7, <2>1, <2>4, <4>1, <4>2, <5>2 DEF Lent
        <5> QED BY <5>1, <5>2
      <4> QED BY <1>3, <2>1, <2>4, <4>1, <4>2 DEF Lent
    <3> QED BY <3>1, <3>2
  <2> QED BY <2>3, <2>4 DEF Lent
<1>10. Links'
  <2>1. PICK x, y : x = d.shmindex /\ y = d.shmTimeP
    OBVIOUS
  <2>2. /\ x \in attached \cup {Unlinked} /\ (x = Unlinked => y = Unlinked) /\ H = {x, y} \ {Unlinked}
        /\ shmTimePPS /\ x # Unlinked => Even(x) /\ y = Behind(x)
    BY <1>2, <2>1
  <2>3. \A o \in Slots :
          /\ slot'[o].open => slot'[o].known
          /\ ~slot'[o].known => slot'[o].shmindex = Unlinked
          /\ slot'[o].shmindex = Unlinked => slot'[o].shmTimeP = Unlinked
          /\ ~shmTimePPS => slot'[o].shmTimeP = Unlinked
          /\ shmTimePPS /\ slot'[o].shmindex # Unlinked =>
               Even(slot'[o].shmindex) /\ slot'[o].shmTimeP = Behind(slot'[o].shmindex)
    BY <1>5, <1>7 DEF ShmInv, Links
  <2> QED BY <1>3, <2>2, <2>3, PairsKept DEF ShmInv
<1>11. Openings'
  BY <1>5, <1>7 DEF ShmInv, Openings
<1>12. slot' \in [Slots -> SlotRecords] /\ \A o \in Slots : slot'[o].adds = slot[o].adds
  BY <1>1, <1>2, <1>5, <1>6, <1>7
<1>13. inUse' \subseteq attached /\ dropped' \subseteq Units
  BY <1>3 DEF ShmInv, LinksTyped
<1> QED BY <1>3, <1>9, <1>10, <1>11, <1>12, <1>13, LinkStep

LEMMA RemoveInv ==
  ASSUME ShmInv, NEW s, s \in Slots, Remove(s)
  PROVE  ShmInv'
<1>1. PICK d, H : d = slot[s] /\ H = Held(d)
  OBVIOUS
<1>2. /\ d \in SlotRecords /\ slot \in [Slots -> SlotRecords]
      /\ H \subseteq Units
  BY <1>1, DeviceIs
<1>3. /\ d.known /\ ~d.open /\ dropped' = dropped \cup H
      /\ slot' = [slot EXCEPT ![s].known = FALSE, ![s].shmindex = Unlinked, ![s].shmTimeP = Unlinked]
      /\ UNCHANGED <<attached, shmTimePPS, inUse, segment, main, thread, ntpd, tick, puts, disturbed>>
  BY <1>1 DEF Remove
<1>4. PICK e : e = [d EXCEPT !.known = FALSE, !.shmindex = Unlinked, !.shmTimeP = Unlinked]
  OBVIOUS
<1>5. /\ e \in SlotRecords /\ e.known = FALSE /\ e.open = FALSE /\ e.openings = d.openings /\ e.adds = d.adds
      /\ e.shmindex = Unlinked /\ e.shmTimeP = Unlinked
  <2>1. PICK mid : mid = [d EXCEPT !.known = FALSE]
    OBVIOUS
  <2>2. mid \in SlotRecords /\ mid.known = FALSE /\ mid.open = FALSE /\ mid.openings = d.openings /\ mid.adds = d.adds
    BY <1>2, <1>3, <2>1 DEF SlotRecords
  <2>3. e = [mid EXCEPT !.shmindex = Unlinked, !.shmTimeP = Unlinked]
    BY <1>2, <1>4, <2>1 DEF SlotRecords
  <2> QED BY <2>2, <2>3 DEF SlotRecords
<1>6. slot' = [slot EXCEPT ![s] = e]
  BY <1>1, <1>2, <1>3, <1>4
<1>7. \A o \in Slots : slot'[o] = IF o = s THEN e ELSE slot[o]
  BY <1>2, <1>6
<1>8. Lent'
  <2>1. Lent
    BY LentIs DEF ShmInv
  <2>2. \A u \in H : u \in inUse /\ \A o \in Slots : slot[o].known /\ o # s => u \notin Held(slot[o])
    BY <1>1, <1>3, <2>1 DEF Lent
  <2>3. \A u : u \in inUse' <=> u \in dropped' \/ \E o \in Slots : slot'[o].known /\ u \in Held(slot'[o])
    <3>1. ASSUME NEW u, u \in inUse'
          PROVE  u \in dropped' \/ \E o \in Slots : slot'[o].known /\ u \in Held(slot'[o])
      <4>1. u \in dropped \/ \E o \in Slots : slot[o].known /\ u \in Held(slot[o])
        BY <1>3, <3>1, <2>1 DEF Lent
      <4>2. CASE u \in dropped
        BY <1>3, <4>2
      <4>3. ASSUME NEW o \in Slots, slot[o].known, u \in Held(slot[o])
            PROVE  u \in dropped' \/ \E other \in Slots : slot'[other].known /\ u \in Held(slot'[other])
        <5>1. CASE o = s
          BY <1>1, <1>3, <4>3, <5>1
        <5>2. CASE o # s
          BY <1>7, <4>3, <5>2
        <5> QED BY <5>1, <5>2
      <4> QED BY <4>1, <4>2, <4>3
    <3>2. ASSUME NEW u, u \in dropped' \/ \E o \in Slots : slot'[o].known /\ u \in Held(slot'[o])
          PROVE  u \in inUse'
      <4>1. CASE u \in dropped'
        BY <1>3, <2>1, <2>2, <4>1 DEF Lent
      <4>2. ASSUME NEW o \in Slots, slot'[o].known, u \in Held(slot'[o])
            PROVE  u \in inUse'
        <5>1. o # s /\ slot[o].known /\ u \in Held(slot[o])
          BY <1>5, <1>7, <4>2
        <5> QED BY <1>3, <2>1, <5>1 DEF Lent
      <4> QED BY <3>2, <4>1, <4>2
    <3> QED BY <3>1, <3>2
  <2>4. ASSUME NEW o \in Slots, slot'[o].known
        PROVE  /\ \A u \in Held(slot'[o]) : u \notin dropped'
               /\ slot'[o].shmindex # Unlinked => slot'[o].shmindex # slot'[o].shmTimeP
               /\ \A other \in Slots : slot'[other].known /\ other # o =>
                    \A u \in Held(slot'[o]) : u \notin Held(slot'[other])
    <3>1. o # s /\ slot'[o] = slot[o] /\ slot[o].known
      BY <1>5, <1>7, <2>4
    <3>2. ASSUME NEW u \in Held(slot'[o]) PROVE u \notin dropped'
      <4>1. u \notin dropped /\ u \notin H
        BY <2>1, <2>2, <3>1, <3>2 DEF Lent
      <4> QED BY <1>3, <4>1
    <3>3. ASSUME NEW other \in Slots, slot'[other].known, other # o, NEW u \in Held(slot'[o])
          PROVE  u \notin Held(slot'[other])
      <4>1. other # s /\ slot'[other] = slot[other]
        BY <1>5, <1>7, <3>3
      <4> QED BY <2>1, <3>1, <3>3, <4>1 DEF Lent
    <3> QED BY <2>1, <3>1, <3>2, <3>3 DEF Lent
  <2> QED BY <2>3, <2>4 DEF Lent
<1>9. Links'
  <2>1. PICK x, y, none : x = Unlinked /\ y = Unlinked /\ none = {x, y} \ {Unlinked}
    OBVIOUS
  <2>2. /\ x \in attached \cup {Unlinked} /\ (x = Unlinked => y = Unlinked) /\ inUse' = inUse \cup none
        /\ shmTimePPS /\ x # Unlinked => Even(x) /\ y = Behind(x)
    BY <1>3, <2>1
  <2>3. ASSUME NEW o \in Slots
        PROVE  /\ slot'[o].open => slot'[o].known
               /\ ~slot'[o].known => slot'[o].shmindex = Unlinked
               /\ slot'[o].shmindex = Unlinked => slot'[o].shmTimeP = Unlinked
               /\ ~shmTimePPS => slot'[o].shmTimeP = Unlinked
               /\ shmTimePPS /\ slot'[o].shmindex # Unlinked =>
                    Even(slot'[o].shmindex) /\ slot'[o].shmTimeP = Behind(slot'[o].shmindex)
    BY <1>5, <1>7 DEF ShmInv, Links
  <2> QED BY <1>3, <2>1, <2>2, <2>3, PairsKept DEF ShmInv
<1>10. Openings'
  BY <1>5, <1>7 DEF ShmInv, Openings
<1>11. slot' \in [Slots -> SlotRecords] /\ \A o \in Slots : slot'[o].adds = slot[o].adds
  BY <1>1, <1>2, <1>5, <1>6, <1>7
<1>12. inUse' \subseteq attached /\ dropped' \subseteq Units
  BY <1>2, <1>3 DEF ShmInv, LinksTyped
<1> QED BY <1>3, <1>8, <1>9, <1>10, <1>11, <1>12, LinkStep

\* The bound on the devices added leaves room for one more in each slot.
LEMMA OneMore ==
  ASSUME NEW s, s \in Slots, slot[s].adds \in 0..MaxAdds, Cardinality(Additions) < MaxAdds
  PROVE  slot[s].adds + 1 \in 0..MaxAdds
<1>1. PICK one, places, all : one = {s} /\ places = 1..MaxAdds /\ all = one \X places
  OBVIOUS
<1>2. IsFiniteSet(places) /\ Cardinality(places) = MaxAdds
  BY <1>1, NtpAssumption, FS_Interval
<1>3. IsFiniteSet(one) /\ Cardinality(one) = 1
  BY <1>1, FS_Singleton
<1>4. Cardinality(all) = MaxAdds
  <2>1. Cardinality(one \X places) = Cardinality(one) * Cardinality(places)
    BY <1>2, <1>3, FS_Product
  <2> QED BY <1>1, <1>2, <1>3, <2>1, NtpAssumption
<1>5. IsFiniteSet(Additions)
  <2>1. IsFiniteSet(Slots \X (1..MaxAdds))
    BY <1>1, <1>2, NtpAssumption, FS_Product
  <2>2. Additions \subseteq Slots \X (1..MaxAdds)
    BY DEF Additions
  <2> QED BY <2>1, <2>2, FS_Subset
<1>6. ASSUME slot[s].adds = MaxAdds PROVE FALSE
  <2>1. ASSUME NEW add \in all PROVE add \in Additions
    <3>1. add \in Slots \X (1..MaxAdds) /\ add[1] = s /\ add[2] \in 1..MaxAdds
      BY <1>1, <2>1
    <3>2. add[2] <= slot[add[1]].adds
      BY <1>6, <3>1, NtpAssumption
    <3> QED BY <3>1, <3>2 DEF Additions
  <2>2. Cardinality(all) <= Cardinality(Additions)
    BY <1>5, <2>1, FS_Subset
  <2> QED BY <1>4, <1>5, <2>2, NtpAssumption, FS_CardinalityType
<1> QED BY <1>6, NtpAssumption

\* A thread begins in the slot s, or none does.
LEMMA Begins ==
  ASSUME ShmInv, NEW s, s \in Slots, NEW t, t \in Threads, thread[t].pc = "none",
         NEW n, n = Started(s), NEW next, next = [thread EXCEPT ![t] = n], thread' = next,
         attached' = attached, slot'[s].adds = slot[s].adds + 1, \A o \in Slots : o # s => slot'[o].adds = slot[o].adds
  PROVE  /\ Findings' /\ OneThreadADevice'
         /\ Busy' = Busy /\ \A u : Writers(u)' = Writers(u)
         /\ \A o \in Threads : thread[o].pc \in Writing => thread'[o] = thread[o]
         /\ \A o \in Threads : thread'[o] = IF o = t THEN n ELSE thread[o]
         /\ n.clock = Never /\ n.receive = Never /\ n.put = 0 /\ n.pc \notin Writing
<1>1. Nobody \in ThreadRecords
  <2>1. 0 \in 0..MaxTick /\ 0 \in 0..MaxPuts
    BY NtpAssumption
  <2> QED BY <2>1, NeverIs DEF Nobody, ThreadRecords, PlacesOfAThread
<1>2. n \in ThreadRecords
  BY <1>1 DEF Started, ThreadRecords, PlacesOfAThread
<1>3. n.pc = "await" /\ n.slot = s /\ n.clock = Never /\ n.receive = Never /\ n.put = 0
  BY DEF Started, Nobody
<1>4. n.pc \notin Writing /\ n.pc \notin Timing /\ n.pc \notin Decided /\ n.pc # "woken"
  BY <1>3 DEF Writing, Timing, Decided
<1>5. Findings'
  <2>1. Threaded(n)
    BY <1>2, <1>3, <1>4 DEF Threaded
  <2> QED BY <2>1, FindingsStep DEF ShmInv
<1>6. \A o \in Threads : thread'[o] = IF o = t THEN n ELSE thread[o]
  BY DEF ShmInv, Findings
<1>7. thread[t].pc \notin Writing
  BY DEF Writing
<1>8. Busy' = Busy /\ \A u : Writers(u)' = Writers(u)
  BY <1>4, <1>6, <1>7 DEF Busy, Writers
<1>9. OneThreadADevice'
  <2> SUFFICES ASSUME NEW o \in Slots PROVE Cardinality(Running(o)') <= slot'[o].adds
    BY DEF OneThreadADevice
  <2>1. IsFiniteSet(Running(o)) /\ Cardinality(Running(o)) \in Nat
    BY NtpAssumption, FS_Subset, FS_CardinalityType DEF Running
  <2>2. Cardinality(Running(o)) <= slot[o].adds /\ slot[o].adds \in Int
    BY DEF ShmInv, OneThreadADevice, LinksTyped, SlotRecords
  <2>3. CASE o # s
    <3>1. Running(o)' = Running(o)
      BY <1>3, <1>6, <2>3 DEF Running
    <3> QED BY <2>2, <2>3, <3>1
  <2>4. CASE o = s
    <3>1. Running(o)' = Running(o) \cup {t}
      BY <1>3, <1>6, <2>4 DEF Running
    <3>2. PICK before : before = Running(o)
      OBVIOUS
    <3>3. IsFiniteSet(before) /\ Cardinality(before) \in Nat
      BY <2>1, <3>2
    <3>4. Cardinality(before \cup {t}) = IF t \in before THEN Cardinality(before) ELSE Cardinality(before) + 1
      BY <3>3, FS_AddElement
    <3>5. Cardinality(Running(o)') = Cardinality(before \cup {t})
      BY <3>1, <3>2
    <3> QED BY <2>2, <2>4, <3>2, <3>3, <3>4, <3>5
  <2> QED BY <2>3, <2>4
<1> QED BY <1>3, <1>4, <1>5, <1>6, <1>7, <1>8, <1>9

\* The work goes on while segments are lent and cleared.
LEMMA Clears ==
  ASSUME ShmInv, UNCHANGED <<attached, main, ntpd, tick, puts>>, NEW H, H \subseteq Units,
         segment' = [u \in Units |-> IF u \in H THEN Cleared ELSE segment[u]],
         disturbed' = (disturbed \ H) \cup {u \in H : Accessed(u)},
         Busy' = Busy, \A u : Writers(u)' = Writers(u),
         \A t \in Threads : /\ thread'[t] = thread[t]
                               \/ /\ thread'[t].clock = Never /\ thread'[t].receive = Never
                                  /\ thread'[t].put = 0 /\ thread'[t].pc \notin Writing
                            /\ thread[t].pc \in Writing => thread'[t] = thread[t]
  PROVE  WorkTyped' /\ Words' /\ Protocol' /\ Counted'
<1>1. segment \in [Units -> SegmentRecords]
  BY DEF ShmInv, WorkTyped
<1>2. Cleared \in SegmentRecords /\ Cleared.count = 0 /\ Cleared.clock = Never /\ Cleared.receive = Never
  BY NeverIs DEF Cleared, SegmentRecords
<1>3. \A u \in Units : segment'[u] = IF u \in H THEN Cleared ELSE segment[u]
  OBVIOUS
<1>4. WorkTyped'
  <2>1. segment' \in [Units -> SegmentRecords] /\ disturbed' \subseteq Units
    BY <1>1, <1>2 DEF ShmInv, WorkTyped
  <2> QED BY <2>1 DEF ShmInv, WorkTyped
<1>5. Words'
  <2>1. \A u \in Units : segment'[u].clock \in Clocks /\ segment'[u].receive \in Receives
    BY <1>2, <1>3, WordsAt
  <2>2. \A t \in Threads : thread'[t].clock \in Clocks /\ thread'[t].receive \in Receives
    BY WordsAt
  <2>3. Clocks' \subseteq Clocks /\ Receives' \subseteq Receives
    BY <2>1, <2>2, WordsAt, WordsIn
  <2>4. puts \in Nat /\ \A t \in Threads : thread[t].put \in Nat /\ thread[t].put <= puts
    BY PutsAre, NtpAssumption DEF ShmInv, Words, Findings, ThreadRecords
  <2>5. \A t \in Threads : /\ thread'[t].put \in Nat /\ thread'[t].put <= puts
                           /\ thread'[t].pc \in Writing => thread[t].pc \in Writing /\ thread'[t].put = thread[t].put
    BY <2>4
  <2>6. \A u \in attached : Even(u) => segment'[u].clock.of # "pulse"
    <3>1. \A u \in attached : u \in Units /\ (Even(u) => segment[u].clock.of # "pulse")
      BY DEF ShmInv, LinksTyped, Words
    <3> QED BY <1>2, <1>3, <3>1, NeverIs
  <2>7. Words
    BY DEF ShmInv
  <2> QED BY <2>3, <2>4, <2>5, <2>6, <2>7, WordsKept
<1>6. \A u : MainAt(u)' <=> MainAt(u)
  BY DEF MainAt
<1>7. Protocol'
  <2> SUFFICES ASSUME NEW u \in Units, u \notin disturbed' PROVE Undisturbed(u)'
    BY DEF Protocol
  <2>1. CASE u \in H
    <3>1. ~Accessed(u)
      BY <2>1
    <3>2. Writers(u)' = {} /\ ~MainAt(u)' /\ (ntpd'.pc # "idle" => ntpd'.unit # u)
      BY <1>6, <3>1 DEF Accessed, MainAt
    <3>3. segment'[u].count = 0 /\ segment'[u].clock = Never /\ segment'[u].receive = Never
      BY <1>2, <1>3, <2>1
    <3>4. segment'[u].count % 2 # 1 /\ segment'[u].clock.put = segment'[u].receive.put
      BY <3>3
    <3> QED BY <3>2, <3>4 DEF Undisturbed
  <2>2. CASE u \notin H
    <3>1. Undisturbed(u)
      BY <2>2 DEF ShmInv, Protocol
    <3>2. \A t \in Writers(u) : thread'[t] = thread[t]
      BY DEF Writers
    <3>3. Untouched(u)
      BY <1>3, <1>6, <2>2, <3>2 DEF Untouched
    <3> QED BY <3>1, <3>3, UndisturbedSame
  <2> QED BY <2>1, <2>2
<1>8. Counted'
  <2>1. Cardinality(Busy)' + One(main.pc \in Writing)' <= puts'
    BY DEF ShmInv, Counted, One
  <2>2. ASSUME NEW u \in Units
        PROVE  segment'[u].count + Cardinality(Writers(u)') + One(MainAt(u))' <= 2 * puts'
    <3>1. segment[u].count + Cardinality(Writers(u)) + One(MainAt(u)) <= 2 * puts
      BY DEF ShmInv, Counted
    <3>2. segment[u].count \in Nat /\ One(MainAt(u)) \in Nat /\ puts \in Nat
      BY <1>1, PutsAre DEF SegmentRecords, One
    <3>3. segment'[u].count \in Nat /\ segment'[u].count <= segment[u].count
      BY <1>2, <1>3, <3>2
    <3>4. One(MainAt(u))' = One(MainAt(u)) /\ Cardinality(Writers(u)') = Cardinality(Writers(u))
      BY <1>6 DEF One
    <3> QED BY <3>1, <3>2, <3>3, <3>4, BusyFinite
  <2> QED BY <2>1, <2>2 DEF Counted
<1> QED BY <1>4, <1>5, <1>7, <1>8

\* The entry of a device that is added.
Added(opens, openings, adds, x, y, ship, last) ==
  [Unused EXCEPT !.known = TRUE, !.open = opens, !.openings = openings, !.adds = adds,
                 !.shmindex = x, !.shmTimeP = y, !.ship = ship, !.last = last]

LEMMA AddedIs ==
  ASSUME NEW opens, NEW openings, NEW adds, NEW x, NEW y, NEW ship, NEW last
  PROVE  Added(opens, openings, adds, x, y, ship, last) =
           [known |-> TRUE, open |-> opens, openings |-> openings, adds |-> adds,
            shmindex |-> x, shmTimeP |-> y, ship |-> ship, last |-> last]
<1>1. PICK new, old : new = Added(opens, openings, adds, x, y, ship, last) /\ old = Unused
  OBVIOUS
<1>2. new = [f \in DOMAIN old |->
               IF f = "known" THEN TRUE ELSE IF f = "open" THEN opens ELSE IF f = "openings" THEN openings
               ELSE IF f = "adds" THEN adds ELSE IF f = "shmindex" THEN x ELSE IF f = "shmTimeP" THEN y
               ELSE IF f = "ship" THEN ship ELSE IF f = "last" THEN last ELSE old[f]]
  BY <1>1 DEF Added
<1>3. DOMAIN old = {"known", "open", "openings", "adds", "shmindex", "shmTimeP", "ship", "last"}
  BY <1>1 DEF Unused
<1>4. new = [f \in {"known", "open", "openings", "adds", "shmindex", "shmTimeP", "ship", "last"} |->
               IF f = "known" THEN TRUE ELSE IF f = "open" THEN opens ELSE IF f = "openings" THEN openings
               ELSE IF f = "adds" THEN adds ELSE IF f = "shmindex" THEN x ELSE IF f = "shmTimeP" THEN y
               ELSE IF f = "ship" THEN ship ELSE last]
  BY <1>2, <1>3
<1> QED BY <1>1, <1>4

LEMMA AddInv ==
  ASSUME ShmInv, NEW s, s \in Slots, Add(s)
  PROVE  ShmInv'
<1>1. PICK link, x, y, H, d :
        link = LinkedTo /\ x = link.shmindex /\ y = link.shmTimeP /\ H = Held(link) /\ d = slot[s]
  OBVIOUS
<1>2. /\ ~d.known /\ Activate(s, link) /\ Cardinality(Additions) < MaxAdds
      /\ UNCHANGED <<attached, shmTimePPS, main, ntpd, tick, puts, dropped>>
  BY <1>1 DEF Add
<1>3. PICK adds : adds = d.adds + 1
  OBVIOUS
<1>4. d \in SlotRecords /\ slot \in [Slots -> SlotRecords] /\ d.shmindex = Unlinked
  BY <1>1, <1>2, DeviceIs
<1>5. adds \in 0..MaxAdds
  <2>1. d.adds \in 0..MaxAdds
    BY <1>4 DEF SlotRecords
  <2> QED BY <1>1, <1>2, <1>3, <2>1, OneMore
<1>6. /\ x \in attached \cup {Unlinked} /\ y \in attached \cup {Unlinked}
      /\ x \notin inUse /\ y \notin inUse
      /\ x = Unlinked => y = Unlinked
      /\ x # Unlinked => x # y
      /\ ~shmTimePPS => y = Unlinked
      /\ shmTimePPS /\ x # Unlinked => Even(x) /\ y = Behind(x)
  BY <1>1, LinkedIs DEF ShmInv
<1>7. H = {x, y} \ {Unlinked} /\ H \subseteq attached /\ H \subseteq Units /\ \A u \in H : u \notin inUse
  BY <1>1, <1>6 DEF Held, ShmInv, LinksTyped
<1>8. PICK opens \in {shmTimePPS, FALSE} :
        slot' = [slot EXCEPT ![s] = Added(opens, IF opens THEN 1 ELSE 0, adds, x, y, d.ship, d.last)]
  BY ZenonT(30), <1>1, <1>3 DEF Add, Added
<1>9. PICK openings, ship, last : openings = (IF opens THEN 1 ELSE 0) /\ ship = d.ship /\ last = d.last
  OBVIOUS
<1>10. opens \in BOOLEAN /\ openings \in 0..2 /\ ship \in BOOLEAN /\ last \in 0..MaxTick
  <2>1. ship \in BOOLEAN /\ last \in 0..MaxTick
    BY <1>4, <1>9 DEF SlotRecords
  <2>2. openings \in {0, 1} /\ 0 \in 0..2 /\ 1 \in 0..2
    BY <1>9
  <2>3. opens \in BOOLEAN
    BY DEF ShmInv, LinksTyped
  <2> QED BY <2>1, <2>2, <2>3
<1>11. PICK e : e = [known |-> TRUE, open |-> opens, openings |-> openings, adds |-> adds,
                     shmindex |-> x, shmTimeP |-> y, ship |-> ship, last |-> last]
  OBVIOUS
<1>12. e \in SlotRecords
  BY <1>5, <1>6, <1>10, <1>11 DEF SlotRecords
<1>13. /\ e.known = TRUE /\ e.open = opens /\ e.openings = openings /\ e.adds = adds
       /\ e.shmindex = x /\ e.shmTimeP = y
  BY <1>11
<1>14. slot' = [slot EXCEPT ![s] = e]
  <2>1. slot' = [slot EXCEPT ![s] = Added(opens, openings, adds, x, y, ship, last)]
    BY <1>8, <1>9
  <2>2. Added(opens, openings, adds, x, y, ship, last) = e
    BY <1>11, AddedIs
  <2> QED BY <2>1, <2>2
<1>15. \A o \in Slots : slot'[o] = IF o = s THEN e ELSE slot[o]
  BY <1>4, <1>14
<1>16. Held(e) = H
  BY <1>7, <1>13 DEF Held
<1>17. /\ inUse' = inUse \cup H
       /\ segment' = [u \in Units |-> IF u \in H THEN Cleared ELSE segment[u]]
       /\ disturbed' = (disturbed \ H) \cup {u \in H : Accessed(u)}
       /\ IF y = Unlinked
          THEN thread' = thread
          ELSE \E t \in Threads : thread[t].pc = "none" /\ thread' = [thread EXCEPT ![t] = Started(s)]
  BY <1>1, <1>2 DEF Activate
<1>18. LinksTyped'
  <2>1. slot' \in [Slots -> SlotRecords]
    BY <1>4, <1>12, <1>14
  <2> QED BY <1>2, <1>7, <1>17, <2>1 DEF ShmInv, LinksTyped, SlotRecords
<1>19. Lent'
  <2>1. Lent
    BY LentIs DEF ShmInv
  <2>2. \A u \in H : u \notin dropped /\ \A o \in Slots : slot[o].known => u \notin Held(slot[o])
    BY <1>7, <2>1 DEF Lent
  <2>3. \A u : u \in inUse' <=> u \in dropped' \/ \E o \in Slots : slot'[o].known /\ u \in Held(slot'[o])
    <3>1. ASSUME NEW u, u \in inUse'
          PROVE  u \in dropped' \/ \E o \in Slots : slot'[o].known /\ u \in Held(slot'[o])
      <4>1. CASE u \in H
        BY <1>13, <1>15, <1>16, <4>1
      <4>2. CASE u \in inUse
        <5>1. u \in dropped \/ \E o \in Slots : slot[o].known /\ u \in Held(slot[o])
          BY <2>1, <4>2 DEF Lent
        <5>2. CASE u \in dropped
          BY <1>2, <5>2
        <5>3. ASSUME NEW o \in Slots, slot[o].known, u \in Held(slot[o])
              PROVE  \E other \in Slots : slot'[other].known /\ u \in Held(slot'[other])
          BY <1>1, <1>2, <1>15, <5>3
        <5> QED BY <5>1, <5>2, <5>3
      <4> QED BY <1>17, <3>1, <4>1, <4>2
    <3>2. ASSUME NEW u, u \in dropped' \/ \E o \in Slots : slot'[o].known /\ u \in Held(slot'[o])
          PROVE  u \in inUse'
      <4>1. CASE u \in dropped'
        BY <1>2, <1>17, <2>1, <4>1 DEF Lent
      <4>2. ASSUME NEW o \in Slots, slot'[o].known, u \in Held(slot'[o])
            PROVE  u \in inUse'
        <5>1. CASE o = s
          BY <1>15, <1>16, <1>17, <4>2, <5>1
        <5>2. CASE o # s
          BY <1>15, <1>17, <2>1, <4>2, <5>2 DEF Lent
        <5> QED BY <5>1, <5>2
      <4> QED BY <3>2, <4>1, <4>2
    <3> QED BY <3>1, <3>2
  <2>4. ASSUME NEW o \in Slots, slot'[o].known
        PROVE  /\ \A u \in Held(slot'[o]) : u \notin dropped'
               /\ slot'[o].shmindex # Unlinked => slot'[o].shmindex # slot'[o].shmTimeP
               /\ \A other \in Slots : slot'[other].known /\ other # o =>
                    \A u \in Held(slot'[o]) : u \notin Held(slot'[other])
    <3>1. CASE o = s
      <4>1. slot'[o] = e /\ \A other \in Slots : other # s => slot'[other] = slot[other]
        BY <1>15, <3>1
      <4>2. ASSUME NEW other \in Slots, slot'[other].known, other # o, NEW u \in Held(slot'[o])
            PROVE  u \notin Held(slot'[other])
        BY <1>16, <2>2, <3>1, <4>1, <4>2
      <4>3. \A u \in Held(slot'[o]) : u \notin dropped'
        BY <1>2, <1>16, <2>2, <4>1
      <4> QED BY <1>6, <1>13, <4>1, <4>2, <4>3
    <3>2. CASE o # s
      <4>1. slot'[o] = slot[o]
        BY <1>15, <3>2
      <4>2. ASSUME NEW other \in Slots, slot'[other].known, other # o, NEW u \in Held(slot'[o])
            PROVE  u \notin Held(slot'[other])
        <5>1. CASE other = s
          BY <1>15, <1>16, <2>2, <2>4, <4>1, <4>2, <5>1
        <5>2. CASE other # s
          BY <1>15, <2>1, <2>4, <4>1, <4>2, <5>2 DEF Lent
        <5> QED BY <5>1, <5>2
      <4>3. /\ \A u \in Held(slot[o]) : u \notin dropped
            /\ slot[o].shmindex # Unlinked => slot[o].shmindex # slot[o].shmTimeP
        BY <2>1, <2>4, <4>1 DEF Lent
      <4> QED BY <1>2, <4>1, <4>2, <4>3
    <3> QED BY <3>1, <3>2
  <2> QED BY <2>3, <2>4 DEF Lent
<1>20. SegmentsAreAccounted'
  BY <1>19, LentNext
<1>21. Links'
  <2>1. ASSUME NEW o \in Slots
        PROVE  /\ slot'[o].open => slot'[o].known
               /\ ~slot'[o].known => slot'[o].shmindex = Unlinked
               /\ slot'[o].shmindex = Unlinked => slot'[o].shmTimeP = Unlinked
               /\ ~shmTimePPS => slot'[o].shmTimeP = Unlinked
               /\ shmTimePPS /\ slot'[o].shmindex # Unlinked =>
                    Even(slot'[o].shmindex) /\ slot'[o].shmTimeP = Behind(slot'[o].shmindex)
    <3>1. CASE o = s
      BY <1>6, <1>13, <1>15, <3>1
    <3>2. CASE o # s
      BY <1>15, <3>2 DEF ShmInv, Links
    <3> QED BY <3>1, <3>2
  <2> QED BY <1>2, <1>6, <1>7, <1>17, <2>1, PairsKept DEF ShmInv
<1>22. Openings'
  <2>1. e.openings = IF e.open THEN 1 ELSE 0
    BY <1>9, <1>13
  <2> QED BY <1>15, <2>1 DEF ShmInv, Openings
<1>23. /\ slot'[s].adds = slot[s].adds + 1 /\ \A o \in Slots : o # s => slot'[o].adds = slot[o].adds
       /\ slot[s].adds \in Int
  BY <1>1, <1>3, <1>4, <1>13, <1>15 DEF SlotRecords
<1>24. CASE y = Unlinked
  <2>1. thread' = thread
    BY <1>17, <1>24
  <2>2. Findings'
    BY <1>2, <2>1, FindingsSame DEF ShmInv
  <2>3. OneThreadADevice'
    <3>1. \A o \in Slots : Running(o)' = Running(o)
      BY <2>1 DEF Running
    <3>2. \A o \in Slots : Cardinality(Running(o)) \in Nat /\ slot[o].adds \in Int
      BY <1>4, NtpAssumption, FS_Subset, FS_CardinalityType DEF Running, SlotRecords
    <3>3. ASSUME NEW o \in Slots PROVE Cardinality(Running(o)') <= slot'[o].adds
      <4>1. Cardinality(Running(o)) <= slot[o].adds /\ (slot'[o].adds = slot[o].adds \/ slot'[o].adds = slot[o].adds + 1)
        BY <1>23 DEF ShmInv, OneThreadADevice
      <4> QED BY <3>1, <3>2, <4>1
    <3> QED BY <3>3 DEF OneThreadADevice
  <2>4. Busy' = Busy /\ \A u : Writers(u)' = Writers(u)
    BY <2>1 DEF Busy, Writers
  <2>5. WorkTyped' /\ Words' /\ Protocol' /\ Counted'
    BY <1>2, <1>7, <1>17, <2>1, <2>4, Clears
  <2> QED BY <1>18, <1>20, <1>21, <1>22, <2>2, <2>3, <2>5 DEF ShmInv
<1>25. CASE y # Unlinked
  <2>1. PICK t \in Threads : thread[t].pc = "none" /\ thread' = [thread EXCEPT ![t] = Started(s)]
    BY <1>17, <1>25
  <2>2. PICK n : n = Started(s)
    OBVIOUS
  <2>3. PICK next : next = [thread EXCEPT ![t] = n]
    OBVIOUS
  <2>7. thread' = next /\ attached' = attached
    BY <1>2, <2>1, <2>2, <2>3
  <2>4. /\ Findings' /\ OneThreadADevice'
        /\ Busy' = Busy /\ \A u : Writers(u)' = Writers(u)
        /\ \A o \in Threads : thread[o].pc \in Writing => thread'[o] = thread[o]
        /\ \A o \in Threads : thread'[o] = IF o = t THEN n ELSE thread[o]
        /\ n.clock = Never /\ n.receive = Never /\ n.put = 0 /\ n.pc \notin Writing
    <3>1. thread[t].pc = "none" /\ slot'[s].adds = slot[s].adds + 1
      BY <1>23, <2>1
    <3>2. \A o \in Slots : o # s => slot'[o].adds = slot[o].adds
      BY <1>23
    <3> QED BY <2>2, <2>3, <2>7, <3>1, <3>2, Begins
  <2>5. \A o \in Threads : /\ thread'[o] = thread[o]
                              \/ /\ thread'[o].clock = Never /\ thread'[o].receive = Never
                                 /\ thread'[o].put = 0 /\ thread'[o].pc \notin Writing
                           /\ thread[o].pc \in Writing => thread'[o] = thread[o]
    BY <2>4
  <2>6. WorkTyped' /\ Words' /\ Protocol' /\ Counted'
    BY <1>2, <1>7, <1>17, <2>4, <2>5, Clears
  <2> QED BY <1>18, <1>20, <1>21, <1>22, <2>4, <2>6 DEF ShmInv
<1> QED BY <1>24, <1>25

\* Every step.
LEMMA ShmNextInv == ShmInv /\ [ShmNext]_shmVars => ShmInv'
<1> SUFFICES ASSUME ShmInv, [ShmNext]_shmVars PROVE ShmInv'
  OBVIOUS
<1>1. ASSUME NEW s \in Slots, Add(s) \/ Open(s) \/ Close(s) \/ Remove(s) \/ BeginCycle(s) \/ Ship(s)
      PROVE  ShmInv'
  BY <1>1, AddInv, OpenInv, CloseInv, RemoveInv, BeginCycleInv, ShipInv
<1>2. CASE PutClock \/ PutReceive \/ EndPut
  BY <1>2, PutClockInv, PutReceiveInv, EndPutInv
<1>3. ASSUME NEW t \in Threads, Awaits(t) \/ Wakes(t) \/ WaitFails(t) \/ Rejects(t) \/ SeesEdge(t)
      PROVE  ShmInv'
  BY <1>3, AwaitsInv, WakesInv, WaitFailsInv, SeesEdgeInv DEF Awaits, Rejects
<1>4. ASSUME NEW t \in Threads, LooksAtReceive(t) \/ LooksAtClock(t)
      PROVE  ShmInv'
  BY <1>4, LooksAtReceiveInv, LooksAtClockInv
<1>5. ASSUME NEW t \in Threads, StoresClock(t) \/ StoresReceive(t) \/ EndsStore(t)
      PROVE  ShmInv'
  BY <1>5, StoresClockInv, StoresReceiveInv, EndsStoreInv
<1>6. CASE (\E u \in Units : ReadsValid(u)) \/ ReadsCount \/ ReadsReceive \/ ReadsClock \/ Takes
  BY <1>6, NtpdInv
<1>7. CASE Tick
  BY <1>7, TickInv
<1>8. CASE UNCHANGED shmVars
  <2>1. UNCHANGED <<linkVars, attached, segment, main, thread, ntpd, tick, puts, disturbed, slot>>
    BY <1>8 DEF shmVars, linkVars
  <2>2. OneThreadADevice'
    BY <2>1 DEF ShmInv, OneThreadADevice, Running
  <2>3. LinksTyped' /\ SegmentsAreAccounted' /\ Links' /\ Openings'
    BY <2>1, LinksSame
  <2>4. Findings' /\ Words' /\ Protocol' /\ Counted' /\ WorkTyped'
    BY <2>1, WorkSame DEF ShmInv, WorkTyped
  <2> QED BY <2>2, <2>3, <2>4 DEF ShmInv
<1> QED BY <1>1, <1>2, <1>3, <1>4, <1>5, <1>6, <1>7, <1>8 DEF ShmNext

\* A device is linked to ntpd once, when it is added: no segment is lent twice or lost, a slot
\* has no more threads than devices were ever put into it, and every time in a segment is from
\* the first opening of its device (ntpd_link_activate and ntpd_link_deactivate, ntpshm.c;
\* add_device, open_device and deactivate_device, gpsd.c).
THEOREM DevicesLinkedOnce == ShmSpec => []DevicesAreLinkedOnce
<1>1. ShmInv => DevicesAreLinkedOnce
  BY InvTypes, InvTimed DEF ShmInv, DevicesAreLinkedOnce
<1> QED BY <1>1, ShmInitInv, ShmNextInv, PTL DEF ShmSpec

\* The two stamps ntpd uses are of one put unless it read an odd count, or writers met in the
\* segment or it was lent out during an access; a pulse is given the second it begins, if the
\* stamps its thread looked at are of one fix that was received in time (ntpshm_put and
\* ntpshm_pps, ntpshm.c).
THEOREM SamplesWhole == ShmSpec => []SamplesAreWhole
<1>1. ShmInv => SamplesAreWhole
  BY InvWhole, InvPulse DEF SamplesAreWhole
<1> QED BY <1>1, ShmInitInv, ShmNextInv, PTL DEF ShmSpec

=============================================================================
