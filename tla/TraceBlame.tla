----------------------------- MODULE TraceBlame -----------------------------
(***************************************************************************)
(* The blame scores (Blame) of what has been reconstructed of a run        *)
(* (TraceRun).                                                             *)
(***************************************************************************)
EXTENDS TraceRun

\* Any costs of spans: ids are unique, so a span's is given by its id.
CONSTANTS
    LatencyOf,      \* latency_ms by span id
    TokensOf        \* input and output tokens by span id

ASSUME CostsAssumption ==
    /\ LatencyOf \in [Ids -> Nat]
    /\ TokensOf \in [Ids -> Nat]
    /\ IsFiniteSet(Agents)

Latency(s) == LatencyOf[s.id]
Tokens(s) == TokensOf[s.id]

INSTANCE Blame

\* blame_v2.py:63, "point estimate, 0..100": the scores of the agents of a trace
\* are shares of one whole, also with the amplification of errors, which the
\* code does not normalise.  It is so because a failed node ends the run: an
\* error span has no descendants and the amplification never applies.
BlameIsAShare ==
    MapThenSumSet(LAMBDA a : ScoreV2(a, received), Agents) <= Whole(received)
=============================================================================
