----------------------------- MODULE MCMigrations ------------------------------
(* Instances of Migrations for TLC. *)
EXTENDS Migrations

\* A release, the next one, and a build in which the second migration was edited.
ReleaseFiles ==
  [b \in Build |-> CASE b = "old"    -> <<"init", "accounts">>
                     [] b = "new"    -> <<"init", "accounts", "covers">>
                     [] b = "edited" -> <<"init", "accounts, edited", "covers">>]
================================================================================
