-------------------------- MODULE MCCommandLifecycle --------------------------
(* Small instances of CommandLifecycle. *)
EXTENDS CommandLifecycle, TLC

CONSTANTS a1, a2, a3, c1, c2, c3, k1, k2, open, close, h1, h2, x1, x2

Request(c, k, a, h) == [cmd |-> c, key |-> k, act |-> a, hash |-> h]

\* A client that retries one key, under the same and under new command ids, and
\* a v1 call without a key.
RetryRequests == {Request(c1, k1, open, h1), Request(c2, k1, open, h1),
                  Request(c3, None, open, h1)}

\* No key is sent twice under different command ids.
SteadyRequests == {Request(c1, k1, open, h1), Request(c2, k2, open, h1)}

\* Two executors; the second one is a realtime domain that may lack its grant.
\* One key is used for two payloads.
MixedRequests == {Request(c1, k1, open, h1), Request(c2, None, close, h2),
                  Request(c3, k2, open, h1), Request(c3, k1, open, h2)}
TwoClasses == {"NORMAL", "REALTIME"}
Mixed == (open :> "NORMAL" @@ close :> "REALTIME")
OneEach == [cl \in TwoClasses |-> 1]

OneClass == {"NORMAL"}
Normal == (open :> "NORMAL")
One == [cl \in OneClass |-> 1]
Two == [cl \in OneClass |-> 2]

AttemptSymmetry == Permutations(Attempts)
===============================================================================
