----------------------------- MODULE MCRateLimit -----------------------------
(* The TLC instance of RateLimit.                                          *)
EXTENDS RateLimitProperties, TLC

Max == [login |-> 2, login_ip |-> 3, register |-> 1, punch |-> 2]
Lengths == [login |-> 1, login_ip |-> 1, register |-> 1, punch |-> 2]
Interchangeable == Permutations(Requests)
=============================================================================
