-------------------------- MODULE MCPipelineRunner --------------------------
(* The plans of run_pipeline.sh for TLC.                                    *)
EXTENDS PipelineRunner

Qwen == <<"qwen">>
Other == <<"other">>
Stop == <<"stop">>
StopOther == Stop \o Other

\* The loop over role_schedule.stage_plan with one refinement round.
Round == StopOther \o Qwen \o Qwen \o StopOther \o Qwen \o Qwen
RolePlan ==
    Qwen \o StopOther \o Qwen \o StopOther \o Qwen \o Qwen \o Qwen
         \o StopOther \o Qwen \o Qwen \o Round
         \o Qwen \o Qwen \o StopOther \o Qwen \o Qwen \o StopOther \o StopOther
NoFinals == {}

\* The stages of the legacy contract, in the order of the script.
LegacyRound == Qwen \o StopOther \o Qwen \o Stop
LegacyPlan ==
    Qwen \o StopOther \o Other \o Qwen \o Qwen \o Qwen \o Qwen \o Qwen \o StopOther
         \o Qwen \o Stop \o LegacyRound \o LegacyRound \o Qwen \o StopOther
LegacyFinals == {Len(LegacyPlan) - 2}
=============================================================================
