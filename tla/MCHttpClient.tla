--------------------------- MODULE MCHttpClient ---------------------------
(* The finite instances of HttpClient that TLC checks.                     *)
EXTENDS HttpClient, TLC

\* The goroutines sharing the client are interchangeable.
CallerSymmetry == Permutations(Callers)
=============================================================================
