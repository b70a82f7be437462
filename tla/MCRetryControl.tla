--------------------------- MODULE MCRetryControl ---------------------------
\* Instances of RetryControl for TLC.
EXTENDS RetryControl

\* The backoffs grow from 1, the fixed and random intervals are short.
MCFirstWait == [p \in Policies |-> IF p \in {"EXPONENTIAL", "JITTER", "LINEAR"} THEN 1 ELSE 2]
=============================================================================
