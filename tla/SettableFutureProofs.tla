------------------------ MODULE SettableFutureProofs ------------------------
(***************************************************************************)
(* SettableFuture, for any threads and values: its type invariant, the     *)
(* uniqueness of the winner, the agreement of every answer with the        *)
(* winner's call, that who waits for it has somebody to wake it, and that  *)
(* it implements a decision.                                               *)
(*                                                                         *)
(* The inductive invariant IInv says what each place of a setter means for *)
(* the state and the value, and that the final state has an author.        *)
(***************************************************************************)
EXTENDS SettableFuture, TLAPS

(* A setter before its release has the state COMPLETING to itself; after    *)
(* it, state and value are what it called for; before anyone's              *)
(* compare-and-set nobody has won or lost.                                  *)
SetterInv ==
  \A s \in Setters :
    /\ pc[s] \in {"store", "release"} => state = "COMPLETING"
    /\ pc[s] = "release" => value = stored(call[s])
    /\ pc[s] = "true" => state = finalState(call[s]) /\ value = stored(call[s])
    /\ pc[s] = "await" => state # "RUNNING"
    /\ pc[s] = "lost" => state # "RUNNING"

(* A final state was written by a setter that has won. *)
AuthorInv == isDone => \E s \in Setters : pc[s] = "true"

(* A getter reads a decision that is made, and has no answer before. *)
GetterInv ==
  \A g \in Getters :
    /\ at[g] = "read" => isDone
    /\ at[g] # "returned" => result[g] = "none"

IInv ==
  /\ TypeOK /\ OneWinner /\ SetterInv /\ AuthorInv /\ GetterInv
  /\ LosersWait /\ GettersAgree

-----------------------------------------------------------------------------
(* What a call stores and what it makes of the state. *)
LEMMA CallFacts ==
  ASSUME FutureConstants, NEW c \in Values \cup Cancels
  PROVE  /\ stored(c) \in Values \cup {Null}
         /\ finalState(c) \in {"COMPLETED"} \cup Cancels
         /\ finalState(c) = "COMPLETED" => stored(c) = outcome(c) /\ c \in Values
         /\ finalState(c) \in Cancels => outcome(c) = "cancelled"
         /\ outcome(c) \in Values \cup {"cancelled"}
BY DEF FutureConstants, stored, finalState, outcome, Cancels

LEMMA Initially ==
  ASSUME FutureConstants, Init
  PROVE  IInv
BY DEF FutureConstants, Init, IInv, TypeOK, OneWinner, Winners, SetterInv, AuthorInv,
       GetterInv, LosersWait, GettersAgree, isDone, Cancels

(* Every action of a setter preserves the invariant. *)
LEMMA SetterPreserves ==
  ASSUME FutureConstants, IInv, NEW s \in Setters,
         Complete(s) \/ SetterStep(s)
  PROVE  IInv'
<1> USE DEF IInv
<1>0. call[s] \in Values \cup Cancels
  BY DEF TypeOK
<1>1. CASE Complete(s)
  <2>1. TypeOK'
    BY <1>1 DEF Complete, TypeOK, getters, Cancels
  <2>2. OneWinner'
    BY <1>1 DEF Complete, TypeOK, OneWinner, Winners, SetterInv, AuthorInv, isDone,
                getters, finalState, Cancels
  <2>3. SetterInv'
    BY <1>1 DEF Complete, TypeOK, SetterInv, getters, finalState, Cancels
  <2>4. AuthorInv' /\ GetterInv' /\ LosersWait'
    BY <1>1 DEF Complete, TypeOK, AuthorInv, GetterInv, LosersWait, isDone, getters
  <2>5. GettersAgree'
    BY <1>1 DEF Complete, TypeOK, GettersAgree, getters
  <2> QED
    BY <2>1, <2>2, <2>3, <2>4, <2>5
<1>2. CASE Store(s)
  <2>1. TypeOK'
    BY <1>0, <1>2, CallFacts DEF Store, TypeOK, getters
  <2>2. OneWinner'
    BY <1>2 DEF Store, TypeOK, OneWinner, Winners
  <2>3. SetterInv'
    BY <1>2 DEF Store, TypeOK, SetterInv, OneWinner, Winners, getters
  <2>4. AuthorInv' /\ GetterInv' /\ LosersWait'
    BY <1>2 DEF Store, TypeOK, AuthorInv, GetterInv, LosersWait, isDone, getters
  <2>5. GettersAgree'
    BY <1>2 DEF Store, TypeOK, GettersAgree, getters
  <2> QED
    BY <2>1, <2>2, <2>3, <2>4, <2>5
<1>3. CASE Release(s)
  <2>0. finalState(call[s]) \in {"COMPLETED"} \cup Cancels
    BY <1>0, CallFacts
  <2>1. TypeOK'
    BY <1>3, <2>0 DEF Release, TypeOK, getters
  <2>2. OneWinner'
    BY <1>3 DEF Release, TypeOK, OneWinner, Winners
  <2>3. SetterInv'
    BY <1>3, <2>0 DEF Release, TypeOK, SetterInv, OneWinner, Winners, getters, Cancels
  <2>4. AuthorInv' /\ GetterInv' /\ LosersWait'
    BY <1>3, <2>0 DEF Release, TypeOK, AuthorInv, GetterInv, LosersWait, isDone, getters,
                      Cancels
  <2>5. GettersAgree'
    BY <1>3 DEF Release, TypeOK, GettersAgree, getters
  <2> QED
    BY <2>1, <2>2, <2>3, <2>4, <2>5
<1>4. CASE Lose(s) \/ AwaitWinner(s)
  <2>1. TypeOK'
    BY <1>4 DEF Lose, AwaitWinner, TypeOK, getters
  <2>2. OneWinner'
    BY <1>4 DEF Lose, AwaitWinner, TypeOK, OneWinner, Winners
  <2>3. SetterInv'
    BY <1>4 DEF Lose, AwaitWinner, TypeOK, SetterInv, getters
  <2>4. AuthorInv' /\ GetterInv' /\ LosersWait'
    BY <1>4 DEF Lose, AwaitWinner, TypeOK, AuthorInv, GetterInv, LosersWait, SetterInv,
                isDone, getters, Cancels
  <2>5. GettersAgree'
    BY <1>4 DEF Lose, AwaitWinner, TypeOK, GettersAgree, getters
  <2> QED
    BY <2>1, <2>2, <2>3, <2>4, <2>5
<1> QED
  BY <1>1, <1>2, <1>3, <1>4 DEF SetterStep

(* A getter that reads returns the outcome of the setter that won. *)
LEMMA ReadsTheOutcome ==
  ASSUME FutureConstants, IInv, NEW g \in Getters, at[g] = "read"
  PROVE  \E s \in Setters :
           /\ pc[s] = "true"
           /\ state = "COMPLETED" => value = outcome(call[s])
           /\ state \in Cancels => outcome(call[s]) = "cancelled"
           /\ outcome(call[s]) \in Values \cup {"cancelled"}
<1>1. isDone
  BY DEF IInv, GetterInv
<1>2. PICK s \in Setters : pc[s] = "true"
  BY <1>1 DEF IInv, AuthorInv
<1>3. call[s] \in Values \cup Cancels
  BY DEF IInv, TypeOK
<1>4. state = finalState(call[s]) /\ value = stored(call[s])
  BY <1>2 DEF IInv, SetterInv
<1> QED
  BY <1>2, <1>3, <1>4, CallFacts

LEMMA GetterPreserves ==
  ASSUME FutureConstants, IInv, NEW g \in Getters, GetterStep(g)
  PROVE  IInv'
<1>1. CASE Acquire(g) \/ Wake(g)
  <2>1. TypeOK'
    BY <1>1 DEF IInv, Acquire, Wake, TypeOK, setters
  <2>2. OneWinner' /\ SetterInv' /\ AuthorInv' /\ LosersWait' /\ GettersAgree'
    BY <1>1 DEF IInv, Acquire, Wake, OneWinner, Winners, SetterInv, AuthorInv,
                LosersWait, GettersAgree, isDone, setters
  <2>3. GetterInv'
    BY <1>1 DEF IInv, Acquire, Wake, TypeOK, GetterInv, isDone, setters
  <2> QED
    BY <2>1, <2>2, <2>3 DEF IInv
<1>2. CASE TimeOut(g)
  <2>1. TypeOK'
    BY <1>2 DEF IInv, TimeOut, Return, TypeOK, setters
  <2>2. OneWinner' /\ SetterInv' /\ AuthorInv' /\ LosersWait'
    BY <1>2 DEF IInv, TimeOut, Return, OneWinner, Winners, SetterInv, AuthorInv,
                LosersWait, isDone, setters
  <2>3. GettersAgree' /\ GetterInv'
    BY <1>2 DEF IInv, TimeOut, Return, TypeOK, GettersAgree, GetterInv, isDone, setters
  <2> QED
    BY <2>1, <2>2, <2>3 DEF IInv
<1>3. CASE getValue(g)
  <2>0. isDone
    BY <1>3 DEF IInv, GetterInv, getValue
  <2>1. PICK s \in Setters :
          /\ pc[s] = "true"
          /\ state = "COMPLETED" => value = outcome(call[s])
          /\ state \in Cancels => outcome(call[s]) = "cancelled"
          /\ outcome(call[s]) \in Values \cup {"cancelled"}
    BY <1>3, ReadsTheOutcome DEF getValue
  <2>2. Return(g, outcome(call[s]))
    BY <1>3, <2>0, <2>1 DEF getValue
  <2>3. TypeOK'
    BY <2>1, <2>2 DEF IInv, Return, TypeOK, setters
  <2>4. OneWinner' /\ SetterInv' /\ AuthorInv' /\ LosersWait'
    BY <2>2 DEF IInv, Return, OneWinner, Winners, SetterInv, AuthorInv, LosersWait,
                isDone, setters
  <2>5. GettersAgree' /\ GetterInv'
    BY <2>1, <2>2 DEF IInv, Return, TypeOK, GettersAgree, GetterInv, isDone, setters
  <2> QED
    BY <2>3, <2>4, <2>5 DEF IInv
<1> QED
  BY <1>1, <1>2, <1>3 DEF GetterStep

LEMMA Stutters ==
  ASSUME IInv, UNCHANGED vars
  PROVE  IInv'
BY DEF vars, setters, getters, IInv, TypeOK, OneWinner, Winners, SetterInv, AuthorInv,
       GetterInv, LosersWait, GettersAgree, isDone

LEMMA Invariance == Spec => []IInv
<1>1. Init => IInv
  BY FutureConstants, Initially
<1>2. IInv /\ [Next]_vars => IInv'
  BY FutureConstants, SetterPreserves, GetterPreserves, Stutters DEF Next
<1> QED
  BY <1>1, <1>2, PTL DEF Spec

-----------------------------------------------------------------------------
(* TypeOK, with getValue's IllegalStateException unreachable, for any       *)
(* number of threads.                                                       *)
THEOREM TypeCorrect == Spec => []TypeOK
<1>1. IInv => TypeOK
  BY DEF IInv
<1> QED
  BY <1>1, Invariance, PTL

(* One of the threads that complete a future at once succeeds, and those    *)
(* that fail return only when the decision is published.                    *)
THEOREM UniqueWinner == Spec => [](OneWinner /\ LosersWait)
<1>1. IInv => OneWinner /\ LosersWait
  BY DEF IInv
<1> QED
  BY <1>1, Invariance, PTL

(* Every answer is the outcome of the winner's call. *)
THEOREM Agreement == Spec => []GettersAgree
<1>1. IInv => GettersAgree
  BY DEF IInv
<1> QED
  BY <1>1, Invariance, PTL

-----------------------------------------------------------------------------
(* COMPLETING has a thread behind it, which makes the decision. *)
DecisionComes == state = "COMPLETING" => Underway

LEMMA ComesStep ==
  ASSUME FutureConstants, IInv, DecisionComes, [Next]_vars
  PROVE  DecisionComes'
<1>1. ASSUME NEW s \in Setters, Complete(s) PROVE DecisionComes'
  BY <1>1 DEF Complete, DecisionComes, Underway, IInv, TypeOK
<1>2. ASSUME NEW s \in Setters, Store(s) PROVE DecisionComes'
  BY <1>2 DEF Store, DecisionComes, Underway, IInv, TypeOK
<1>3. ASSUME NEW s \in Setters, Release(s) PROVE DecisionComes'
  <2>1. call[s] \in Values \cup Cancels
    BY DEF IInv, TypeOK
  <2>2. state' # "COMPLETING"
    BY <1>3, <2>1, CallFacts DEF Release, Cancels
  <2> QED
    BY <2>2 DEF DecisionComes
<1>4. ASSUME NEW s \in Setters, Lose(s) \/ AwaitWinner(s) PROVE DecisionComes'
  BY <1>4 DEF Lose, AwaitWinner, DecisionComes, Underway, IInv, TypeOK
<1>5. ASSUME NEW g \in Getters, GetterStep(g) PROVE DecisionComes'
  BY <1>5 DEF GetterStep, Acquire, Wake, TimeOut, getValue, Return, setters, DecisionComes, Underway
<1>6. CASE UNCHANGED vars
  BY <1>6 DEF vars, setters, DecisionComes, Underway
<1> QED
  BY <1>1, <1>2, <1>3, <1>4, <1>5, <1>6 DEF Next, SetterStep

(* Whoever waits for a decision that has begun has somebody to wake it: the *)
(* decision is made, or the thread that makes it is at its store or its     *)
(* release (SettableFuture.kt: complete).                                   *)
THEOREM Served == Spec => []WaitersAreServed
<1>1. Init => DecisionComes
  BY DEF Init, DecisionComes
<1>2. IInv /\ DecisionComes /\ [Next]_vars => DecisionComes'
  BY FutureConstants, ComesStep
<1>3. IInv /\ DecisionComes => WaitersAreServed
  BY DEF IInv, TypeOK, SetterInv, DecisionComes, WaitersAreServed, isDone, Cancels
<1> QED
  BY <1>1, <1>2, <1>3, Invariance, PTL DEF Spec

-----------------------------------------------------------------------------
(* The decision as the refinement reads it. *)
decision == IF state = "COMPLETED" THEN value
            ELSE IF state \in Cancels THEN "cancelled" ELSE "none"

LEMMA SetterRefines ==
  ASSUME FutureConstants, IInv, NEW s \in Setters, Complete(s) \/ SetterStep(s)
  PROVE  [Future!Next]_(Future!vars)
<1>1. CASE Complete(s) \/ Store(s) \/ Lose(s) \/ AwaitWinner(s)
  <2>1. result' = result
    BY <1>1 DEF Complete, Store, Lose, AwaitWinner, getters
  <2>2. decision' = decision
    BY <1>1 DEF Complete, Store, Lose, AwaitWinner, decision, IInv, SetterInv, Cancels
  <2> QED
    BY <2>1, <2>2 DEF Future!vars, decision
<1>2. CASE Release(s)
  <2>1. call[s] \in Values \cup Cancels
    BY DEF IInv, TypeOK
  <2>2. state = "COMPLETING" /\ value = stored(call[s])
    BY <1>2 DEF IInv, SetterInv, Release
  <2>3. state' = finalState(call[s]) /\ value' = value /\ result' = result
    BY <1>2 DEF Release, getters
  <2>4. decision = "none"
    BY <2>2 DEF decision, Cancels
  <2>5. decision' \in Values \cup {"cancelled"}
    BY <2>1, <2>2, <2>3, CallFacts DEF decision
  <2>6. Future!Decide
    BY <2>3, <2>4, <2>5 DEF Future!Decide, decision
  <2> QED
    BY <2>6 DEF Future!Next
<1> QED
  BY <1>1, <1>2 DEF SetterStep

LEMMA GetterRefines ==
  ASSUME FutureConstants, IInv, NEW g \in Getters, GetterStep(g)
  PROVE  [Future!Next]_(Future!vars)
<1>1. CASE Acquire(g) \/ Wake(g)
  <2>1. UNCHANGED <<state, value, result>>
    BY <1>1 DEF Acquire, Wake
  <2> QED
    BY <2>1 DEF Future!vars
<1>2. CASE TimeOut(g)
  <2>1. result[g] = "none" /\ g \in Timed
    BY <1>2 DEF TimeOut, IInv, GetterInv
  <2>2. result' = [result EXCEPT ![g] = "timeout"] /\ UNCHANGED <<state, value>>
    BY <1>2 DEF TimeOut, Return
  <2>3. Future!Answer(g)
    BY <2>1, <2>2 DEF Future!Answer
  <2> QED
    BY <2>3 DEF Future!Next
<1>3. CASE getValue(g)
  <2>0. isDone /\ result[g] = "none"
    BY <1>3 DEF IInv, GetterInv, getValue
  <2>1. PICK s \in Setters :
          /\ pc[s] = "true"
          /\ state = "COMPLETED" => value = outcome(call[s])
          /\ state \in Cancels => outcome(call[s]) = "cancelled"
          /\ outcome(call[s]) \in Values \cup {"cancelled"}
    BY <1>3, ReadsTheOutcome DEF getValue
  <2>2. decision = outcome(call[s]) /\ decision # "none"
    BY <2>0, <2>1 DEF decision, isDone, Cancels, FutureConstants
  <2>3. result' = [result EXCEPT ![g] = decision] /\ UNCHANGED <<state, value>>
    BY <1>3, <2>0 DEF getValue, Return, decision, isDone, Cancels
  <2>4. decision' = decision
    BY <2>3 DEF decision
  <2>5. Future!Answer(g)
    BY <2>0, <2>2, <2>3, <2>4 DEF Future!Answer, decision
  <2> QED
    BY <2>5 DEF Future!Next
<1> QED
  BY <1>1, <1>2, <1>3 DEF GetterStep

(* A SettableFuture is a decision: made once, never changed, and the only   *)
(* answer a get can return besides a timeout.                               *)
THEOREM Refinement == Spec => ImplementsDecision
<1>1. Init => Future!Init
  BY DEF Init, Future!Init, Cancels
<1>2. IInv /\ [Next]_vars => [Future!Next]_(Future!vars)
  <2>1. UNCHANGED vars => UNCHANGED Future!vars
    BY DEF vars, getters, Future!vars
  <2> QED
    BY <2>1, FutureConstants, SetterRefines, GetterRefines DEF Next
<1> QED
  BY <1>1, <1>2, Invariance, PTL DEF Spec, ImplementsDecision, Future!Spec

=============================================================================
