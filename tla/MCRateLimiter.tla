------------------------------- MODULE MCRateLimiter -------------------------------
(* Two buckets: a fast one with room for one token, a slow one with room for three. *)
EXTENDS RateLimiter

MCRate == <<3, 1>>
MCCapacity == <<1, 3>>
=============================================================================
