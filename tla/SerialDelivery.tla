--------------------------- MODULE SerialDelivery ---------------------------
(***************************************************************************)
(* What the durable hook queue promises, whatever drains it: a delivery    *)
(* waits, is worked on together with others of its thread, and is finished *)
(* or handed back together with them; a thread is worked on by one batch   *)
(* at a time; nothing accepted disappears, and what is finished comes back *)
(* only when someone asks for it.                                          *)
(***************************************************************************)
CONSTANTS Msg, Thread, ThreadOf

VARIABLES
  state,
  asked  \* an input: it changes whenever finished deliveries are asked for again

States == {"absent", "waiting", "working", "done", "failed"}

Init == state = [m \in Msg |-> "absent"]

In(S) == {m \in Msg : state[m] \in S}
Working(t) == {m \in In({"working"}) : ThreadOf[m] = t}

Becomes(S, s) == state' = [m \in Msg |-> IF m \in S THEN s ELSE state[m]]

Accept(m) == m \in In({"absent"}) /\ Becomes({m}, "waiting")

(* A batch of waiting deliveries of a thread nobody works on is started. *)
Start(t, S) ==
  /\ Working(t) = {}
  /\ S # {} /\ \A m \in S : ThreadOf[m] = t
  /\ Becomes(S, "working")

(* The whole batch, and nothing else, finishes or goes back. *)
Settle(t, s) ==
  /\ Working(t) # {}
  /\ Becomes(Working(t), s)

(* Work that needs no run: resolved elsewhere, or its routine is gone. *)
Dismiss(S, s) == S # {} /\ Becomes(S, s)

(* A new process hands every interrupted batch back. *)
Recover == In({"working"}) # {} /\ Becomes(In({"working"}), "waiting")

(* A finished delivery waits again, because someone asked for it. *)
Replay(S) == asked' # asked /\ S # {} /\ Becomes(S, "waiting")
Forget(S) == S # {} /\ Becomes(S, "absent")

Next ==
  \/ \E m \in Msg : Accept(m)
  \/ \E t \in Thread : \E S \in SUBSET In({"waiting"}) : Start(t, S)
  \/ \E t \in Thread, s \in {"done", "failed", "waiting"} : Settle(t, s)
  \/ \E S \in SUBSET In({"waiting"}), s \in {"done", "failed"} : Dismiss(S, s)
  \/ Recover
  \/ \E S \in SUBSET In({"done", "failed"}) : Replay(S) \/ Forget(S)

Spec == Init /\ [][Next]_state
=============================================================================
