-------------------------------- MODULE Calls -------------------------------
(***************************************************************************)
(* What PeerHandle::request promises to a caller, without queues, tasks    *)
(* and messages: a request is handled by the other end at most once, it is *)
(* answered only after that, and a call that was given up may still be     *)
(* handled.                                                                *)
(***************************************************************************)
EXTENDS Naturals

CONSTANTS Caller

VARIABLES
  call,       \* [Caller -> "idle", "waiting", "answered" or "failed"]
  handled     \* [Caller -> how often the other end has handled the request]

vars == <<call, handled>>

Init == call = [c \in Caller |-> "idle"] /\ handled = [c \in Caller |-> 0]

Start(c) ==
  /\ call[c] = "idle"
  /\ call' = [call EXCEPT ![c] = "waiting"]
  /\ UNCHANGED handled

Handle(c) ==
  /\ call[c] \in {"waiting", "failed"} /\ handled[c] = 0
  /\ handled' = [handled EXCEPT ![c] = 1]
  /\ UNCHANGED call

Answer(c) ==
  /\ call[c] = "waiting" /\ handled[c] = 1
  /\ call' = [call EXCEPT ![c] = "answered"]
  /\ UNCHANGED handled

\* The connection ends: all calls that wait on one side of it fail together.
Fail ==
  \E S \in SUBSET {c \in Caller : call[c] = "waiting"} :
    /\ S # {}
    /\ call' = [c \in Caller |-> IF c \in S THEN "failed" ELSE call[c]]
    /\ UNCHANGED handled

\* A caller that got its answer may call again.
Again(c) ==
  /\ call[c] = "answered"
  /\ call' = [call EXCEPT ![c] = "idle"]
  /\ handled' = [handled EXCEPT ![c] = 0]

Next == Fail \/ \E c \in Caller : Start(c) \/ Handle(c) \/ Answer(c) \/ Again(c)

Spec == Init /\ [][Next]_vars
=============================================================================
