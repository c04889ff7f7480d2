------------------------ MODULE StatsReporterProofs -------------------------
(* Proofs about StatsReporter for every engine, every configuration, every *)
(* exposition and every positive threshold: the alarm of an outage.        *)
EXTENDS StatsReporter, SequenceTheorems, TLAPS

LEMMA AppendToOne ==
  ASSUME NEW S, NEW a \in S, NEW b \in S
  PROVE  Append(<<a>>, b) = <<a, b>>
<1>0. ASSUME NEW s \in Seq(S), Len(s) = 1, s[1] = a
      PROVE  /\ Append(s, b) \in Seq(S) /\ Len(Append(s, b)) = 2
             /\ Append(s, b)[1] = a /\ Append(s, b)[2] = b
  <2>1. Append(s, b) \in Seq(S) /\ Len(Append(s, b)) = Len(s) + 1 /\ Append(s, b)[Len(s) + 1] = b
    OBVIOUS
  <2>2. Len(s) + 1 = 2
    BY <1>0
  <2>3. Append(s, b)[1] = a
    BY <1>0
  <2> QED BY <2>1, <2>2, <2>3, ZenonT(60)
<1>1. ASSUME NEW s \in Seq(S), NEW t \in Seq(S), Len(s) = 1, s[1] = a, Len(t) = 2, t[1] = a, t[2] = b
      PROVE  Append(s, b) = t
  <2>1. /\ Append(s, b) \in Seq(S) /\ Len(Append(s, b)) = 2
        /\ Append(s, b)[1] = a /\ Append(s, b)[2] = b
    BY <1>1, <1>0
  <2> QED BY <1>1, <2>1, SeqEqual
<1>2. <<a>> \in Seq(S) /\ Len(<<a>>) = 1 /\ <<a>>[1] = a
  OBVIOUS
<1>3. <<a, b>> \in Seq(S) /\ Len(<<a, b>>) = 2 /\ <<a, b>>[1] = a /\ <<a, b>>[2] = b
  OBVIOUS
<1> QED BY <1>1, <1>2, <1>3, ZenonT(60)

LEMMA MinOfTwo ==
  ASSUME NEW a \in Nat, NEW b \in Nat
  PROVE  Min({a, b}) = IF a <= b THEN a ELSE b
<1> DEFINE m == IF a <= b THEN a ELSE b
<1>1. m \in {a, b} /\ \A y \in {a, b} : m =< y
  OBVIOUS
<1>2. \A x \in {a, b} : (\A y \in {a, b} : x =< y) => x = m
  OBVIOUS
<1> QED BY <1>1, <1>2 DEF Min

(* What the reporter remembers of an outage.  A server that has heard      *)
(* nothing for some ticks left the reporter without an acknowledgement for *)
(* at least as many, and the log holds the alarm exactly while the failed  *)
(* ticks are at the threshold or past it.                                  *)
OutageInv ==
  /\ consecFails \in Nat /\ silence \in Nat /\ silence <= consecFails
  /\ consecFails > 0 => alarm = IF consecFails >= StaleThreshold THEN <<"stale">> ELSE <<>>
  /\ consecFails = 0 => alarm \in {<<>>, <<"stale", "recovered">>}

(* A failed tick, whether the server heard of it or not.                   *)
LEMMA MarkStaleKeeps ==
  ASSUME OutageInv, markStale, \/ tickEnds
                               \/ silence' = 0
  PROVE  OutageInv'
<1> USE StaleThresholdPositive
<1>1. consecFails' = IF consecFails + 1 <= StaleThreshold + 1 THEN consecFails + 1 ELSE StaleThreshold + 1
  BY MinOfTwo DEF markStale, OutageInv
<1>2. silence' \in Nat /\ silence' <= consecFails'
  BY <1>1, MinOfTwo DEF tickEnds, OutageInv
<1> DEFINE E == StaleEvent(consecFails + 1)
<1>0. /\ E \in {<<>>, <<"stale">>}
      /\ <<>> \o <<>> = <<>> /\ <<>> \o <<"stale">> = <<"stale">> /\ <<"stale">> \o <<>> = <<"stale">>
  BY DEF StaleEvent
<1>3. CASE consecFails = 0
  <2>1. alarm' = <<>> \o E
    BY <1>3 DEF markStale
  <2>2. alarm' = E
    BY <2>1, <1>0
  <2> QED BY <1>1, <1>2, <1>3, <2>2 DEF OutageInv, StaleEvent
<1>4. CASE consecFails > 0 /\ consecFails + 1 <= StaleThreshold
  <2>1. alarm = <<>>
    BY <1>4 DEF OutageInv
  <2>2. consecFails # 0
    BY <1>4 DEF OutageInv
  <2>3. alarm' = alarm \o E
    BY <2>2 DEF markStale
  <2>4. alarm' = E
    BY <2>1, <2>3, <1>0
  <2> QED BY <1>1, <1>2, <1>4, <2>4 DEF OutageInv, StaleEvent
<1>5. CASE consecFails > 0 /\ consecFails >= StaleThreshold
  <2>1. alarm = <<"stale">> /\ E = <<>>
    BY <1>5 DEF OutageInv, StaleEvent
  <2>2. consecFails # 0
    BY <1>5 DEF OutageInv
  <2>3. alarm' = alarm \o E
    BY <2>2 DEF markStale
  <2>4. alarm' = <<"stale">>
    BY <2>1, <2>3, <1>0
  <2> QED BY <1>1, <1>2, <1>5, <2>4 DEF OutageInv
<1> QED BY <1>3, <1>4, <1>5 DEF OutageInv

(* An acknowledged sample ends the outage.                                 *)
LEMMA MarkDeliveredKeeps ==
  ASSUME OutageInv, markDelivered, silence' = 0
  PROVE  OutageInv'
<1>1. CASE consecFails >= StaleThreshold
  <2>1. alarm = <<"stale">> /\ alarm' = Append(alarm, "recovered")
    BY <1>1, StaleThresholdPositive DEF OutageInv, markDelivered
  <2>2. Append(<<"stale">>, "recovered") = <<"stale", "recovered">>
    <3>1. "stale" \in {"stale", "recovered"} /\ "recovered" \in {"stale", "recovered"}
      OBVIOUS
    <3> QED BY <3>1, AppendToOne, ZenonT(60)
  <2> QED BY <2>1, <2>2 DEF OutageInv, markDelivered
<1>2. CASE ~(consecFails >= StaleThreshold)
  BY <1>2, StaleThresholdPositive DEF OutageInv, markDelivered
<1> QED BY <1>1, <1>2

LEMMA OutageInvStep ==
  ASSUME OutageInv, [Next]_vars
  PROVE  OutageInv'
<1>1. ASSUME UNCHANGED <<reporterVars, silence>>
      PROVE  OutageInv'
  BY <1>1 DEF OutageInv, reporterVars
<1>2. CASE Serve
  BY <1>1, <1>2 DEF Serve
<1>3. CASE ChangeLoad
  BY <1>1, <1>3 DEF ChangeLoad
<1>4. CASE EngineRestart
  BY <1>1, <1>4 DEF EngineRestart
<1>5. CASE Scrape
  <2>1. UNCHANGED <<reporterVars, silence>> \/ (markStale /\ tickEnds)
    BY <1>5 DEF Scrape
  <2> QED BY <1>1, <2>1, MarkStaleKeeps
<1>6. CASE send
  <2>1. (markStale /\ (tickEnds \/ silence' = 0)) \/ (markDelivered /\ silence' = 0)
    BY <1>6 DEF send, AckDelivers
  <2> QED BY <2>1, MarkStaleKeeps, MarkDeliveredKeeps
<1>7. CASE LateIngest
  BY <1>1, <1>7 DEF LateIngest
<1>8. CASE LoseSample
  BY <1>1, <1>8 DEF LoseSample
<1>9. CASE Restart
  BY <1>9 DEF Restart, OutageInv
<1>10. CASE UNCHANGED vars
  BY <1>1, <1>10 DEF vars, reporterVars
<1> QED BY <1>2, <1>3, <1>4, <1>5, <1>6, <1>7, <1>8, <1>9, <1>10 DEF Next, Tick

(* An outage of the load signal raises the alarm, and raises it once       *)
(* (markStale, markDelivered), whatever the engine exposes, whichever      *)
(* scrapes and deliveries fail and whenever the subscriber restarts.       *)
THEOREM OutageTheorem == Spec => []OutageAnnounced
<1>1. Init => OutageInv
  BY StaleThresholdPositive DEF Init, OutageInv
<1>2. OutageInv /\ [Next]_vars => OutageInv'
  BY OutageInvStep
<1>3. OutageInv => OutageAnnounced
  <2> SUFFICES ASSUME OutageInv PROVE OutageAnnounced
    OBVIOUS
  <2>1. SilenceIsLoud
    <3> SUFFICES ASSUME silence >= StaleThreshold
                 PROVE  "stale" \in Range(alarm) /\ "recovered" \notin Range(alarm)
      BY DEF SilenceIsLoud
    <3>1. alarm = <<"stale">>
      BY StaleThresholdPositive DEF OutageInv
    <3> QED BY <3>1 DEF Range
  <2>2. OneAlarmPerOutage
    BY StaleThresholdPositive DEF OutageInv, OneAlarmPerOutage
  <2> QED BY <2>1, <2>2 DEF OutageAnnounced
<1> QED BY <1>1, <1>2, <1>3, PTL DEF Spec
=============================================================================
