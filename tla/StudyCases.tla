----------------------------- MODULE StudyCases -----------------------------
(***************************************************************************)
(* The cases of a study phase and what each asks of the schedule:          *)
(* prepare_v0_3_phase of strategy/v0_3_study_plans.py and prepare_phase of *)
(* strategy/study_plans.py.  A case is a rule (candidate, threshold or     *)
(* baseline) with one thing changed; the multiples of the stops and the    *)
(* costs are left to the observations and to the engine.                   *)
(***************************************************************************)
EXTENDS Integers, TLC

CONSTANTS
  Policy,     \* the locked policy
  Variation,  \* what the sensitivities change, [low, high] of each parameter
  Threshold   \* entry threshold of each percentile: q70, q75, q80, half

Call(rule, gate) ==
  [rule |-> rule, gate |-> gate, entry |-> Policy.entry, policy |-> Policy,
   diagnostic |-> FALSE, distortion |-> "none"]
Plain == Call("candidate", "none")

(* threshold_events and baseline_events: the same for every generation. *)
Comparators ==
  ("trend.specialist.v1" :> Call("trend", "none"))
  @@ ("mean_reversion.specialist.v1" :> Call("mean_reversion", "none"))
  @@ ("trend.ema_20_50.gated.v1" :> Call("baseline", "trending"))
  @@ ("ranging.mean_reversion_z24.gated.v1" :> Call("baseline", "ranging"))

BaselineIds ==
  {"cash.v1", "buy_hold.v1", "ema_20_50.v1", "donchian_20_10.v1", "mean_reversion_z24.v1"}
Baselines == [id \in BaselineIds |-> Call("baseline", "none")]

(* Cases that change one parameter of the candidate \A base. *)
Controls(base) ==
  ("control.delayed_features.v1" :> base)
  @@ ("control.delayed_features.final" :> base)
  @@ ("control.shuffled_labels.v1" :> [base EXCEPT !.distortion = "inverted"])
  @@ ("control.shuffled_labels.seed_1799" :> [base EXCEPT !.distortion = "inverted"])
  @@ ("ablation.no_volume.v1" :> [base EXCEPT !.distortion = "no_volume"])
  @@ ("ablation.no_protection.v1" :> base)
  @@ ("bootstrap.seed_1788" :> base)
  @@ ("cost.1_5x" :> base)
  @@ ("cost.2x" :> base)

Sensitivities(base) ==
  ("sensitivity.exit_0_42" :> [base EXCEPT !.policy.exit = Variation.exit.low])
  @@ ("sensitivity.exit_0_48" :> [base EXCEPT !.policy.exit = Variation.exit.high])
  @@ ("sensitivity.max_hold_12" :> [base EXCEPT !.policy.maximumHold = Variation.hold.low])
  @@ ("sensitivity.max_hold_24" :> [base EXCEPT !.policy.maximumHold = Variation.hold.high])
  @@ ("sensitivity.initial_stop_2_0" :> base)
  @@ ("sensitivity.initial_stop_3_0" :> base)
  @@ ("sensitivity.cooldown_1" :> [base EXCEPT !.policy.cooldown = Variation.cooldown.low])
  @@ ("sensitivity.cooldown_3" :> [base EXCEPT !.policy.cooldown = Variation.cooldown.high])

(* _candidate of v0.3: the entry threshold is the fold's own percentile and *)
(* the other specialist is a diagnostic.                                    *)
Selective(percentile) == [Plain EXCEPT !.entry = Threshold[percentile], !.diagnostic = TRUE]

Cases3 ==
  ("candidate.multi_model.v0_3" :> Selective("q75"))
  @@ ("ablation.no_percentile_selectivity.v1" :> Selective("half"))
  @@ ("sensitivity.entry_percentile_0_70" :> Selective("q70"))
  @@ ("sensitivity.entry_percentile_0_80" :> Selective("q80"))
  @@ Controls(Selective("q75")) @@ Sensitivities(Selective("q75"))
  @@ Comparators @@ Baselines

(* v0.1 and v0.2: the fixed entry probability, which the overlay of v0.3    *)
(* replaces.  The development of v0.1 leaves the robustness cases out.      *)
Candidate12(robust) ==
  ("candidate.multi_model.v0_1" :> Plain)
  @@ ("ablation.no_disagreement.v1" :> [Plain EXCEPT !.policy.disagreement = 100])
  @@ (IF robust
        THEN ("sensitivity.entry_0_59" :> [Plain EXCEPT !.entry = Variation.entry.low])
             @@ ("sensitivity.entry_0_65" :> [Plain EXCEPT !.entry = Variation.entry.high])
             @@ Sensitivities(Plain)
        ELSE <<>>)

DevelopmentControls ==
  {"ablation.no_volume.v1", "ablation.no_protection.v1", "control.delayed_features.v1",
   "control.shuffled_labels.v1"}
Cases12(robust) ==
  Candidate12(robust)
  @@ (IF robust THEN Controls(Plain) ELSE [id \in DevelopmentControls |-> Controls(Plain)[id]])
  @@ Comparators @@ Baselines

(* A case over the decisions of its fold: v0.3 tells it the boundaries and  *)
(* the latency of the simulation, v0.1 and v0.2 do not.                     *)
Over(case, decisions, boundaries, latency) ==
  case @@ [decisions |-> decisions, boundaries |-> boundaries, latency |-> latency]
=============================================================================
