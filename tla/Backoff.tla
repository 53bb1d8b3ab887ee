------------------------------ MODULE Backoff ------------------------------
(***************************************************************************)
(* The two backoffs of the daemon, in seconds: fibBackoffMs for capacity   *)
(* (rate-limit.ts) and the doubling one for failures (hookQueue.ts).       *)
(***************************************************************************)
EXTENDS Integers

Least(S) == CHOOSE x \in S : \A y \in S : x <= y
Most(S)  == CHOOSE x \in S : \A y \in S : x >= y

(* One turn of the loop on <<prev, curr>>, which stops at the cap. *)
FibStep(pair) ==
  IF pair[2] >= 30 THEN pair ELSE <<pair[2], pair[1] + pair[2]>>

(* The pair after so many turns. *)
FibPair[turns \in Nat] ==
  IF turns = 0 THEN <<0, 1>> ELSE FibStep(FibPair[turns - 1])

(* fibBackoffMs; anything below 1 counts as the first attempt. *)
FibBackoff(attempt) == Least({30, FibPair[Most({1, attempt}) - 1][2]})

(* 60 s * 2^prior. *)
Doubled[prior \in Nat] == IF prior = 0 THEN 60 ELSE 2 * Doubled[prior - 1]

(* At most 30 min of it. *)
FailureBackoff(prior) == Least({Doubled[prior], 1800})
=============================================================================
