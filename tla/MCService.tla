----------------------------- MODULE MCService -----------------------------
(* The finite instances of Service that TLC checks.                        *)
EXTENDS Service, TLC

\* The goroutines of the application are interchangeable.
CallerSymmetry == Permutations(Callers)
=============================================================================
