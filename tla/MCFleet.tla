-------------------------------- MODULE MCFleet --------------------------------
(* Instances of Fleet small enough for TLC.                                *)
EXTENDS Fleet

CONSTANTS a, b

(* The first stage takes one collector and the second every one.           *)
MCCohort == <<{a}, {a, b}>>

MCDeclares ==
  {[delivery |-> "served", says |-> "status"],
   [delivery |-> "served", says |-> "stamp"],
   [delivery |-> "git", says |-> "stamp"]}

=============================================================================
