------------------------------- MODULE Blame -------------------------------
(***************************************************************************)
(* The blame scores of the agents of a trace (engine/blame.py and the      *)
(* point estimate of engine/blame_v2.py) as operators on its spans.  The   *)
(* code's scores are floating-point percentages of quotients; here they    *)
(* are brought to the common denominator Whole(S), which stands for 100,   *)
(* so that the weights 0.5, 0.3, 0.2 become 25, 15, 10 of 50 and rounding  *)
(* to two places is left out.  The bootstrap's confidence interval and     *)
(* spread, statistics of random resamples of the same scores, are left out.*)
(***************************************************************************)
EXTENDS CausalDag, FiniteSetsExt

CONSTANTS
    Latency(_),     \* latency_ms of a span
    Tokens(_)       \* input and output tokens of a span

AmplificationCap == 5           \* ERROR_AMP_CAP
Steps == 5                      \* 1 / ERROR_AMP_COEFF

\* x, or 1 when there is nothing to share.
OrOne(x) == IF x = 0 THEN 1 ELSE x

Errors(S) == {s \in S : s.error}
Of(agent, S) == {s \in S : s.agent = agent}

TotalLatency(S) == OrOne(MapThenSumSet(Latency, S))
TotalTokens(S) == OrOne(MapThenSumSet(Tokens, S))
TotalErrors(S) == OrOne(Cardinality(Errors(S)))

\* The score 100.
Whole(S) == 50 * TotalLatency(S) * TotalTokens(S) * TotalErrors(S)

\* The parts of latency and tokens in a score, the same in both versions.
CostShare(agent, S) ==
    LET latency == MapThenSumSet(Latency, Of(agent, S))
        tokens == MapThenSumSet(Tokens, Of(agent, S))
    IN  TotalErrors(S) * (25 * latency * TotalTokens(S) + 15 * tokens * TotalLatency(S))

\* compute_blame.
Score(agent, S) ==
    CostShare(agent, S)
      + 10 * Cardinality(Errors(Of(agent, S))) * TotalLatency(S) * TotalTokens(S)

\* _compute_error_amplification: the descendants of an agent's error spans, in
\* all; the code's mean is this number by that of the error spans.
Cascade(agent, S) ==
    MapThenSumSet(LAMBDA s : Cardinality(Descendants(s, S)), Errors(Of(agent, S)))

\* _compute_scores on the original spans: the error component is amplified by
\* 1 + min(mean descendants, 5) * 0.2.
ScoreV2(agent, S) ==
    LET errors == Cardinality(Errors(Of(agent, S)))
        capped == IF Cascade(agent, S) < AmplificationCap * errors
                    THEN Cascade(agent, S) ELSE AmplificationCap * errors
    IN  CostShare(agent, S)
          + (10 * (Steps * errors + capped) * TotalLatency(S) * TotalTokens(S)) \div Steps
=============================================================================
