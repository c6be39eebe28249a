--------------------------- MODULE MCRateLimiter ---------------------------
(* RateLimiter with a small Width, so that the powers of two overflow after *)
(* a few failures.                                                          *)
EXTENDS RateLimiter

Limiters == <<"exponential", "fastSlow", "bucket">>
=============================================================================
