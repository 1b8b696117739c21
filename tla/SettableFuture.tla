--------------------------- MODULE SettableFuture ---------------------------
(***************************************************************************)
(* SettableFuture (libausbc/src/main/java/com/jiangdg/ausbc/utils), over   *)
(* AbstractQueuedSynchronizer: threads that set or cancel it once each,    *)
(* and threads that get its value, with or without a timeout.              *)
(*                                                                         *)
(* AQS parks a thread until tryAcquireShared succeeds and misses no        *)
(* releaseShared: a wait is a guard here.                                  *)
(***************************************************************************)
EXTENDS Integers

CONSTANTS
  Setters,   (* threads that call set(v) or cancel(b)                        *)
  Getters,   (* threads that call get                                        *)
  Timed,     (* those that call get(timeout, unit)                           *)
  Values,    (* what may be set                                              *)
  Null

Cancels == {"CANCELLED", "INTERRUPTED"}

ASSUME FutureConstants ==
  /\ Timed \subseteq Getters
  /\ Values \cap {"CANCELLED", "INTERRUPTED", "cancelled", "timeout",
                  "illegal", "none"} = {}
  /\ Null \notin Values

VARIABLES
  state,    (* AQS's state                                                  *)
  value,    (* value                                                        *)
  call,     (* what each setter calls: a value, or the kind of cancel       *)
  pc,       (* where each setter is; "true" and "false" are complete's      *)
            (* results                                                      *)
  at,       (* where each getter is                                         *)
  result    (* what each getter got                                         *)

setters == <<call, pc>>
getters == <<at, result>>
vars    == <<state, value, setters, getters>>

isDone == state \in {"COMPLETED", "CANCELLED", "INTERRUPTED"}

finalState(c) == IF c \in Values THEN "COMPLETED" ELSE c
stored(c)     == IF c \in Values THEN c ELSE Null

-----------------------------------------------------------------------------
(* complete: the compare-and-set, the store, the release. *)

(* Mutant of Complete: the final state is written at once. *)
CompleteAtOnce(s) ==
  /\ pc[s] = "call"
  /\ \/ /\ state = "RUNNING"
        /\ state' = finalState(call[s])
        /\ pc' = [pc EXCEPT ![s] = "store"]
     \/ /\ state # "RUNNING"
        /\ pc' = [pc EXCEPT ![s] = "lost"]
        /\ UNCHANGED state
  /\ UNCHANGED <<value, call, getters>>

Complete(s) ==
  /\ pc[s] = "call"
  /\ \/ /\ state = "RUNNING"
        /\ state' = "COMPLETING"
        /\ pc' = [pc EXCEPT ![s] = "store"]
     \/ /\ state # "RUNNING"
        /\ pc' = [pc EXCEPT ![s] = "lost"]
        /\ UNCHANGED state
  /\ UNCHANGED <<value, call, getters>>

Store(s) ==
  /\ pc[s] = "store"
  /\ value' = stored(call[s])
  /\ pc' = [pc EXCEPT ![s] = "release"]
  /\ UNCHANGED <<state, call, getters>>

(* Mutant of Release: tryReleaseShared without its assignment. *)
ReleaseNothing(s) ==
  /\ pc[s] = "release"
  /\ pc' = [pc EXCEPT ![s] = "true"]
  /\ UNCHANGED <<state, value, call, getters>>

Release(s) ==
  /\ pc[s] = "release"
  /\ state' = finalState(call[s])
  /\ pc' = [pc EXCEPT ![s] = "true"]
  /\ UNCHANGED <<value, call, getters>>

(* Mutant of Lose: it does not wait for the thread that won. *)
LoseAtOnce(s) ==
  /\ pc[s] = "lost"
  /\ pc' = [pc EXCEPT ![s] = "false"]
  /\ UNCHANGED <<state, value, call, getters>>

Lose(s) ==
  /\ pc[s] = "lost"
  /\ pc' = [pc EXCEPT ![s] = IF state = "COMPLETING" THEN "await" ELSE "false"]
  /\ UNCHANGED <<state, value, call, getters>>

AwaitWinner(s) ==
  /\ pc[s] = "await"
  /\ isDone
  /\ pc' = [pc EXCEPT ![s] = "false"]
  /\ UNCHANGED <<state, value, call, getters>>

-----------------------------------------------------------------------------
(* get *)

Acquire(g) ==
  /\ at[g] = "call"
  /\ at' = [at EXCEPT ![g] = IF isDone THEN "read" ELSE "wait"]
  /\ UNCHANGED <<state, value, setters, result>>

Wake(g) ==
  /\ at[g] = "wait"
  /\ isDone
  /\ at' = [at EXCEPT ![g] = "read"]
  /\ UNCHANGED <<state, value, setters, result>>

Return(g, r) ==
  /\ at' = [at EXCEPT ![g] = "returned"]
  /\ result' = [result EXCEPT ![g] = r]
  /\ UNCHANGED <<state, value, setters>>

TimeOut(g) == g \in Timed /\ at[g] = "wait" /\ Return(g, "timeout")

getValue(g) ==
  /\ at[g] = "read"
  /\ \/ state = "COMPLETED" /\ Return(g, value)
     \/ state \in Cancels /\ Return(g, "cancelled")
     \/ ~isDone /\ Return(g, "illegal")

-----------------------------------------------------------------------------
Init ==
  /\ state = "RUNNING"
  /\ value = Null
  /\ call \in [Setters -> Values \cup Cancels]
  /\ pc = [s \in Setters |-> "call"]
  /\ at = [g \in Getters |-> "call"]
  /\ result = [g \in Getters |-> "none"]

SetterStep(s) == Store(s) \/ Release(s) \/ Lose(s) \/ AwaitWinner(s)
GetterStep(g) == Acquire(g) \/ Wake(g) \/ TimeOut(g) \/ getValue(g)

Next ==
  \/ \E s \in Setters : Complete(s) \/ SetterStep(s)
  \/ \E g \in Getters : GetterStep(g)

Spec == Init /\ [][Next]_vars

(* A call that was made goes on; nobody has to set the future.              *)
FairSpec ==
  /\ Spec
  /\ \A s \in Setters : WF_vars(SetterStep(s))
  /\ \A g \in Getters : WF_vars(GetterStep(g))

-----------------------------------------------------------------------------
(* Every variable has its type; a get never finds the synchronizer in an    *)
(* invalid state (the IllegalStateException of getValue).                   *)
TypeOK ==
  /\ state \in {"RUNNING", "COMPLETING", "COMPLETED"} \cup Cancels
  /\ value \in Values \cup {Null}
  /\ call \in [Setters -> Values \cup Cancels]
  /\ pc \in [Setters -> {"call", "store", "release", "true", "lost", "await",
                         "false"}]
  /\ at \in [Getters -> {"call", "wait", "read", "returned"}]
  /\ result \in [Getters -> Values \cup {"none", "timeout", "cancelled"}]

Winners == {s \in Setters : pc[s] \in {"store", "release", "true"}}

(* Of all the threads that set or cancel the future at once, one succeeds.  *)
OneWinner == \A s, u \in Winners : s = u

(* complete returns false only when the decision has been published: who    *)
(* lost may rely on it.                                                     *)
LosersWait == \A s \in Setters : pc[s] = "false" => isDone

(* Every get that does not time out returns what the winner set, or is      *)
(* cancelled by the winner.                                                 *)
outcome(c) == IF c \in Values THEN c ELSE "cancelled"

GettersAgree ==
  \A g \in Getters : result[g] \notin {"none", "timeout"} =>
    \E s \in Setters : pc[s] = "true" /\ result[g] = outcome(call[s])

(* Whoever waits for a decision that somebody has begun to make has somebody *)
(* to wake it: complete never leaves COMPLETING behind, nor the state as it  *)
(* was when the thread that won has returned.                               *)
Underway == \E s \in Setters : pc[s] \in {"store", "release"}

WaitersAreServed ==
  /\ \A s \in Setters : pc[s] = "await" => isDone \/ Underway
  /\ \A g \in Getters : at[g] = "wait" /\ state # "RUNNING" => isDone \/ Underway

(* Once a thread has won, every get returns.                                *)
GettersReturn ==
  \A g \in Getters : (state # "RUNNING") ~> (at[g] = "returned")

(* The future is a decision. *)
Future ==
  INSTANCE Decision WITH
    Decisions <- Values \cup {"cancelled"}, Undecided <- "none",
    TimedOut <- "timeout", Unanswered <- "none", answer <- result,
    decision <- IF state = "COMPLETED" THEN value
                ELSE IF state \in Cancels THEN "cancelled" ELSE "none"

ImplementsDecision == Future!Spec

=============================================================================
