--------------------------- MODULE MCInferenceQueue ---------------------------
EXTENDS InferenceQueue

CONSTANTS r1, r2, r3, m1, m2

ThreeRequests == {r1, r2, r3}
TwoModels == {m1, m2}
AllPolicies == {"immediate", "never", "minutes", "invalid"}

=============================================================================
