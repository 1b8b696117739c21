------------------------------ MODULE Decision ------------------------------
(* What a SettableFuture promises: one decision, made once and never        *)
(* changed, and answers that are that decision, or a timeout.               *)
EXTENDS Integers

CONSTANTS
  Getters, Timed,   (* the threads that wait, and those that may give up    *)
  Decisions,        (* what can be decided                                  *)
  Undecided, TimedOut, Unanswered

VARIABLES decision, answer

vars == <<decision, answer>>

Init ==
  /\ decision = Undecided
  /\ answer = [g \in Getters |-> Unanswered]

Decide ==
  /\ decision = Undecided
  /\ decision' \in Decisions
  /\ UNCHANGED answer

Answer(g) ==
  /\ answer[g] = Unanswered
  /\ \/ decision # Undecided /\ answer' = [answer EXCEPT ![g] = decision]
     \/ g \in Timed /\ answer' = [answer EXCEPT ![g] = TimedOut]
  /\ UNCHANGED decision

Next == Decide \/ \E g \in Getters : Answer(g)

Spec == Init /\ [][Next]_vars

=============================================================================
