--------------------------- MODULE ServingContract ---------------------------
(***************************************************************************)
(* What the serving path promises its collectors, with none of how it does *)
(* so: at every moment it serves nothing or one published commit that      *)
(* loads, it never goes back to an older commit, not even across a         *)
(* restart, and whatever it offers a collector is what that one commit     *)
(* decides for it (ADR-0032: "artefact choice is a pure function of        *)
(* (head, reported attributes)").                                          *)
(***************************************************************************)
EXTENDS Integers

CONSTANTS Heads,    \* the commits, numbered in the order they are published
          Loads,    \* those a snapshot can be compiled from
          Conn,
          Decided,  \* [Loads -> [Conn -> what the commit decides for the collector]]
          NoOffer

VARIABLES published, served, last, offer

vars == <<published, served, last, offer>>

Init ==
  /\ published = 1
  /\ served = 0
  /\ last = 0
  /\ offer = [c \in Conn |-> NoOffer]

Publish ==
  /\ published + 1 \in Heads
  /\ published' = published + 1
  /\ UNCHANGED <<served, last, offer>>

Move ==
  /\ \E h \in Loads :
       /\ last <= h
       /\ h <= published
       /\ served' = h
       /\ last' = h
  /\ UNCHANGED <<published, offer>>

Forget ==
  /\ served' = 0
  /\ offer' = [c \in Conn |-> NoOffer]
  /\ UNCHANGED <<published, last>>

Offer(c) ==
  /\ served \in Loads
  /\ offer' = [offer EXCEPT ![c] = Decided[served][c]]
  /\ UNCHANGED <<published, served, last>>

Withdraw(c) ==
  /\ offer' = [offer EXCEPT ![c] = NoOffer]
  /\ UNCHANGED <<published, served, last>>

Next ==
  \/ Publish \/ Move \/ Forget
  \/ \E c \in Conn : Offer(c) \/ Withdraw(c)

Spec == Init /\ [][Next]_vars

=============================================================================
