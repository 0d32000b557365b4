---------------------------- MODULE MCAuthService ------------------------------
(* Instances of AuthService for TLC. *)
EXTENDS AuthService, TLC

\* Two spellings of one email; the other addresses are spelled one way.
Spelling == [a \in Address |-> IF a = "ASH@example.com" THEN "ash@example.com" ELSE a]

Symmetry == Permutations(User) \cup Permutations(Token) \cup Permutations(Req)
================================================================================
