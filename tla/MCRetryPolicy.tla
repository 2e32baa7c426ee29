--------------------------- MODULE MCRetryPolicy ---------------------------
(* Sink outcomes and jitter sources for RetryPolicy. *)
EXTENDS RetryPolicy

\* Answers at the edges of every class of status, errors that hide a status, and
\* failures with a Retry-After within and beyond its cap.
MCOutcome ==
    [err : {"none"}, code : {0, 199, 200, 299, 300, 408, 410, 429, 499, 500, 599, 600},
     gone : BOOLEAN, retryAfter : {NoRetryAfter}]
    \cup
    [err : {"blocked", "invalid", "other"}, code : {0, 200, 410, 503},
     gone : BOOLEAN, retryAfter : {NoRetryAfter}]
    \cup
    [err : {"none"}, code : {503}, gone : {FALSE}, retryAfter : {0, 40, 90}]

\* No source, and one that answers above 1.
MCRandom == {BadRandom, 3}
=============================================================================
