------------------------------ MODULE MCLifetime ------------------------------
(* A small instance of Lifetime, with the requests of MCSettings.          *)
EXTENDS Lifetime, MCSettings
=============================================================================
