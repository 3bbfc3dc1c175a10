-------------------------- MODULE MCDecisionEngine --------------------------
(***************************************************************************)
(* Instances of DecisionEngine for TLC.                                    *)
(***************************************************************************)
EXTENDS DecisionEngine

Result(f, s, o) == [k \in Classes |->
                      CASE k = "fire" -> f [] k = "smoke" -> s [] OTHER -> o]

Setting(size, fire, smoke, conf, cooldown) ==
  [window_size |-> size,
   hits |-> [k \in Kinds |-> IF k = "fire" THEN fire ELSE smoke],
   conf |-> [k \in Classes |-> conf], cooldown |-> cooldown]

\* Nothing, weak fire, strong fire, strong smoke, both, another class.
MCResults == {Result(0, 0, 0), Result(1, 0, 0), Result(2, 0, 0),
              Result(0, 2, 0), Result(2, 2, 0), Result(0, 0, 2)}

\* Two sizes, two thresholds, two cooldowns.
MCConfigs == {Setting(2, 1, 1, 1, 2), Setting(3, 2, 1, 2, 3)}

TwoResults == {Result(2, 0, 0), Result(0, 2, 0)}
TwoConfigs == {Setting(2, 1, 1, 1, 1), Setting(1, 1, 1, 1, 2)}
=============================================================================
