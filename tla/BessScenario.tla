---------------------------- MODULE BessScenario ----------------------------
(***************************************************************************)
(* The battery day of src/decision-loop/: the baseline policy and the      *)
(* governed envelope of bess-scenario.ts, the deterministic fallback       *)
(* proposal of gpt-56-adapter.ts, and what an executed action does to the  *)
(* state of charge (orchestrator.ts).  Energies are MWh, a market tick is  *)
(* the day-ahead price and the FCR price of an hour; revenue and           *)
(* degradation are left out, since nothing is decided on them.             *)
(***************************************************************************)
EXTENDS Integers, Sequences, FiniteSets

CONSTANTS
    Asset,  \* [ratedPower, ratedEnergy, soc, socIntegrity, voltage, reliability]
    Ticks   \* the market day: a sequence of [dam, fcr]

ASSUME ScenarioAssumption ==
    /\ Asset.ratedPower \in Nat \ {0} /\ Asset.ratedEnergy \in Nat \ {0}
    /\ Asset.soc \in 0 .. Asset.ratedEnergy
    /\ Ticks \in Seq([dam : Int, fcr : Int]) /\ Len(Ticks) > 0
    /\ Asset.socIntegrity \in 0 .. 100 /\ Asset.voltage \in 0 .. 100
    /\ Asset.reliability \in 0 .. 100

Lowest(S) == CHOOSE x \in S : \A y \in S : x <= y

(* The position of hour h when the day is sorted by price (a stable sort).  *)
rank(h) ==
    Cardinality({g \in DOMAIN Ticks : \/ Ticks[g].dam < Ticks[h].dam
                                      \/ Ticks[g].dam = Ticks[h].dam /\ g < h})

sortedByPrice(position) == CHOOSE h \in DOMAIN Ticks : rank(h) = position

DispatchActions ==
    [type : {"charge", "discharge", "fcr-bid", "afrr-bid-up", "afrr-bid-down", "hold"},
     volume : Int, price : Int, confidence : Int]

DispatchAction(type, volume, price, confidence) ==
    [type |-> type, volume |-> volume, price |-> price, confidence |-> confidence]

(* Charge in the three cheapest hours and discharge in the three dearest;   *)
(* an hour that is both charges.                                            *)
baselineHour(soc, h) ==
    IF rank(h) < 3 /\ soc < Asset.ratedEnergy
    THEN soc + Lowest({Asset.ratedPower, Asset.ratedEnergy - soc})
    ELSE IF rank(h) >= Len(Ticks) - 3 /\ soc > 0
    THEN soc - Lowest({Asset.ratedPower, soc})
    ELSE soc

runBaselinePolicy[h \in 0 .. Len(Ticks)] ==
    IF h = 0 THEN Asset.soc ELSE baselineHour(runBaselinePolicy[h - 1], h)

generateGovernedEnvelope ==
    LET spike == Ticks[sortedByPrice((Len(Ticks) * 7) \div 10)].dam
        valley == Ticks[sortedByPrice((Len(Ticks) * 3) \div 10)].dam
    IN  [charge |-> {h \in DOMAIN Ticks : Ticks[h].dam <= valley},
         discharge |-> {h \in DOMAIN Ticks : Ticks[h].dam >= spike},
         reserve |-> {h \in DOMAIN Ticks : Ticks[h].fcr >= 68},
         maxCycled |-> (Asset.ratedEnergy * 3) \div 2,
         socFloor |-> Asset.ratedEnergy \div 10,
         socCeiling |-> (Asset.ratedEnergy * 95) \div 100]

(* Mutant: the charge forgets the ceiling of the envelope. *)
fallbackHour_NoCeiling(st, h, env) ==
    LET room == Lowest({Asset.ratedPower, env.maxCycled - st.cycled})
    IN  IF h \in env.charge /\ room > 0
        THEN [soc |-> st.soc + room, cycled |-> st.cycled + room,
              actions |-> Append(st.actions, DispatchAction("charge", room,
                                                            Ticks[h].dam, 92))]
        ELSE [st EXCEPT !.actions =
                Append(st.actions, DispatchAction("hold", 0, Ticks[h].dam, 95))]

(* One hour of the fallback: a reserve bid, else a charge, else a           *)
(* discharge, else hold.  A volume of 0.1 MWh or less is not traded.        *)
fallbackHour(st, h, env) ==
    LET room == Lowest({Asset.ratedPower, env.socCeiling - st.soc,
                        env.maxCycled - st.cycled})
        store == Lowest({Asset.ratedPower, st.soc - env.socFloor,
                         env.maxCycled - st.cycled})
        act(type, volume, confidence) ==
            Append(st.actions, DispatchAction(type, volume, Ticks[h].dam, confidence))
    IN  IF /\ h \in env.reserve
           /\ st.soc > env.socFloor + Asset.ratedPower
           /\ st.soc < env.socCeiling - Asset.ratedPower
        THEN [st EXCEPT !.actions = act("fcr-bid",
                                (Asset.ratedPower * Asset.reliability) \div 100, 86)]
        ELSE IF h \in env.charge /\ room > 0
        THEN [soc |-> st.soc + room, cycled |-> st.cycled + room,
              actions |-> act("charge", room, 92)]
        ELSE IF h \in env.discharge /\ store > 0
        THEN [soc |-> st.soc - store, cycled |-> st.cycled + store,
              actions |-> act("discharge", store, 90)]
        ELSE [st EXCEPT !.actions = act("hold", 0, 95)]

(* The day up to hour h: the charge, the energy cycled and the proposal.    *)
fallbackDay[h \in 0 .. Len(Ticks)] ==
    IF h = 0 THEN [soc |-> Asset.soc, cycled |-> 0, actions |-> <<>>]
    ELSE fallbackHour(fallbackDay[h - 1], h, generateGovernedEnvelope)

deterministicFallback == fallbackDay[Len(Ticks)].actions

impactOfAction(action) ==
    CASE action.type \in {"fcr-bid", "afrr-bid-up", "afrr-bid-down"} ->
            [unit |-> "MW", value |-> action.volume]
      [] action.type = "hold" -> [unit |-> "MWh", value |-> 0]
      [] OTHER -> [unit |-> "EUR", value |-> action.volume * action.price]

(* The new state of charge: no floor, no ceiling and no rating is applied.  *)
applyAction(action, soc) ==
    CASE action.type = "charge" -> soc + action.volume
      [] action.type = "discharge" -> soc - action.volume
      [] OTHER -> soc
============================================================================
