------------------------------ MODULE Sentinel ------------------------------
(***************************************************************************)
(* The resource sentinel (src/sentinel, planes/r-sentinel): the ring of    *)
(* readings kept per metric, the alert engine with its hysteresis, and the *)
(* degradation ladder.  A poll is a function from metrics to utilisation   *)
(* in percent, NotFinite for a reading that is no number, or Unavailable;  *)
(* two collection cycles that overlap are two polls in the order in which  *)
(* their probes return.                                                    *)
(***************************************************************************)
EXTENDS Integers, Sequences, FiniteSets, FiniteSetsExt

CONSTANTS
    Metrics,
    HysteresisBreaches,   \* SENTINEL_HYSTERESIS_BREACHES
    CapacityPerSeries     \* windowMs / intervalMs

Unavailable == -1
NotFinite == -2

SEVERITY_RANK == [GREEN |-> 0, YELLOW |-> 1, ORANGE |-> 2, RED |-> 3, BLACK |-> 4]

SEVERITY_THRESHOLDS == [GREEN |-> 0, YELLOW |-> 70, ORANGE |-> 85, RED |-> 95, BLACK |-> 99]

worstOf(severities) ==
    CHOOSE s \in severities : \A t \in severities : SEVERITY_RANK[t] <= SEVERITY_RANK[s]

(* A reading that is not finite counts as 0, so it is a reading of GREEN.   *)
evaluateSeverity(utilisation) ==
    LET value == IF utilisation = NotFinite THEN 0 ELSE utilisation
    IN  worstOf({s \in DOMAIN SEVERITY_RANK : value >= SEVERITY_THRESHOLDS[s]})

----------------------------------------------------------------------------
(* RingBuffer: a write overwrites the oldest slot once it is full.          *)

EmptyRing == [slots |-> [i \in 0 .. CapacityPerSeries - 1 |-> Unavailable], writeIndex |-> 0, size |-> 0]

push(ring, item) ==
    [slots |-> [ring.slots EXCEPT ![ring.writeIndex] = item],
     writeIndex |-> (ring.writeIndex + 1) % CapacityPerSeries,
     size |-> Min({ring.size + 1, CapacityPerSeries})]

toArray(ring) ==
    LET start == IF ring.size < CapacityPerSeries THEN 0 ELSE ring.writeIndex
    IN  [i \in 1 .. ring.size |-> ring.slots[(start + i - 1) % CapacityPerSeries]]

----------------------------------------------------------------------------
(* AlertEngine: the confirmed band of a metric, the band that may follow it *)
(* and for how many readings that one has been seen.                        *)

NoSeries == [current |-> "GREEN", candidate |-> "none", consecutive |-> 0, alert |-> "none"]

(* Mutant: a change of the candidate keeps the count. *)
observed_Accumulates(state, band) ==
    [state EXCEPT !.candidate = band, !.consecutive = @ + 1]

observed(state, band) ==
    [state EXCEPT !.candidate = band,
                  !.consecutive = IF band = state.candidate THEN @ + 1 ELSE 1]

evaluate(state, utilisation) ==
    LET band == evaluateSeverity(utilisation)
        seen == observed(state, band)
        alert == IF band = "GREEN" THEN "none" ELSE band
    IN  CASE utilisation = Unavailable -> state
          [] utilisation # Unavailable /\ band = state.current ->
                IF band = "GREEN" THEN [seen EXCEPT !.alert = "none"] ELSE seen
          [] utilisation # Unavailable /\ band # state.current ->
                IF seen.consecutive < HysteresisBreaches THEN seen
                ELSE [seen EXCEPT !.current = band, !.alert = alert]

aggregateSeverity(series) == worstOf({series[m].current : m \in Metrics})

getActiveAlerts(series) == {m \in Metrics : series[m].alert # "none"}

----------------------------------------------------------------------------
(* ResponseController: eight steps, the first two need no authorisation.    *)

DEGRADATION_LADDER == 1 .. 8

triggerSeverity(level) ==
    CASE level <= 2 -> "YELLOW" [] level \in 3 .. 5 -> "ORANGE" [] level \in 6 .. 7 -> "RED"
      [] level = 8 -> "BLACK"

requiresAuthorisation(level) == level > 2

targetLevelFor(severity) ==
    Max({0} \cup {level \in DEGRADATION_LADDER :
                     SEVERITY_RANK[triggerSeverity(level)] <= SEVERITY_RANK[severity]})

reconcile(level, severity, config) ==
    LET desired == Min({targetLevelFor(severity), config.maxLevel})
        withheld == {l \in level + 1 .. desired : requiresAuthorisation(l) /\ ~config.degradationEnabled}
    IN  IF withheld = {} THEN desired ELSE Min(withheld) - 1

(* RSentinelPlane.collect(): buffer, evaluate, reconcile.                   *)
Booted == [ring |-> [m \in Metrics |-> EmptyRing], series |-> [m \in Metrics |-> NoSeries],
           severity |-> "GREEN", level |-> 0]

collect(plane, poll, config) ==
    LET series == [m \in Metrics |-> evaluate(plane.series[m], poll[m])]
        severity == aggregateSeverity(series)
    IN  [ring |-> [m \in Metrics |-> push(plane.ring[m], poll[m])], series |-> series,
         severity |-> severity, level |-> reconcile(plane.level, severity, config)]

process(plane) == [severity |-> plane.severity, degradationLevel |-> plane.level]
=============================================================================
