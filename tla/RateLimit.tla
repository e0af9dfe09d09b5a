----------------------------- MODULE RateLimit -----------------------------
(***************************************************************************)
(* The limiter of the metadata, chat and video services                    *)
(* (internal/httpx/ratelimit.go): a token bucket per client address, of    *)
(* which each request takes one.  The health and stream control paths pass *)
(* it by.  Buckets are kept for ever.                                      *)
(*                                                                         *)
(* Time and tokens are fractions in the code.  Here time goes by ticks, a  *)
(* token is Cost units, and a tick brings Rate units.                      *)
(***************************************************************************)
EXTENDS Naturals

CONSTANTS
  Clients,   (* the addresses, as clientIP takes them from the request       *)
  Rate,      (* units per tick                                               *)
  Capacity,  (* the units of a full bucket (burst)                           *)
  Cost,      (* the units of one request                                     *)
  MaxTime    (* bound: ticks                                                 *)

ASSUME RateLimitAssumption ==
  Rate \in Nat /\ Cost \in Nat \ {0} /\ Capacity \in Nat /\ Capacity >= Cost /\ MaxTime \in Nat

VARIABLES
  now,      (* ticks so far                                                  *)
  buckets,  (* per client, its bucket, once it has made a request            *)
  since,    (* history: when somebody began to count requests ...            *)
  passed    (* history: ... and how many of each client have passed since    *)

vars == <<now, buckets, since, passed>>

NoBucket == [known |-> FALSE, tokens |-> 0, last |-> 0]

TypeOK ==
  /\ now \in Nat /\ since \in 0 .. now
  /\ buckets \in [Clients -> [known : BOOLEAN, tokens : 0 .. Capacity, last : 0 .. now]]
  /\ passed \in [Clients -> Nat]

Init ==
  /\ now = 0 /\ since = 0
  /\ buckets = [k \in Clients |-> NoBucket]
  /\ passed = [k \in Clients |-> 0]

Least(a, b) == IF a <= b THEN a ELSE b

\* What the bucket of k holds by now; a new one is full.
Filled(k) ==
  IF ~buckets[k].known THEN Capacity
  ELSE Least(Capacity, buckets[k].tokens + Rate * (now - buckets[k].last))

\* Mutant: a refusal keeps what the bucket has gained, but not when.
RefuseLate(k) ==
  /\ Filled(k) < Cost
  /\ buckets' = [buckets EXCEPT ![k] = [known |-> TRUE, tokens |-> Filled(k), last |-> @.last]]
  /\ UNCHANGED <<now, since, passed>>

\* A new bucket has enough for a request (RateLimitAssumption): this one is known.
Refuse(k) ==
  /\ Filled(k) < Cost
  /\ buckets' = [buckets EXCEPT ![k] = [known |-> TRUE, tokens |-> Filled(k), last |-> now]]
  /\ UNCHANGED <<now, since, passed>>

Allow(k) ==
  /\ Filled(k) >= Cost
  /\ buckets' = [buckets EXCEPT ![k] = [known |-> TRUE, tokens |-> Filled(k) - Cost, last |-> now]]
  /\ passed' = [passed EXCEPT ![k] = @ + 1]
  /\ UNCHANGED <<now, since>>

Tick ==
  /\ now < MaxTime
  /\ now' = now + 1
  /\ UNCHANGED <<buckets, since, passed>>

\* The requests are counted from any moment on.
Count ==
  /\ since' = now
  /\ passed' = [k \in Clients |-> 0]
  /\ UNCHANGED <<now, buckets>>

Next == (\E k \in Clients : Refuse(k) \/ Allow(k)) \/ Tick \/ Count

Spec == Init /\ [][Next]_vars

-----------------------------------------------------------------------------

\* In any stretch of time no client has more requests let through than a full bucket and
\* what the stretch brings pay for, however many of its requests are refused (allow).
Bounded == \A k \in Clients : Cost * passed[k] <= Capacity + Rate * (now - since)

\* What has passed and what is left together are paid for.
PaidFor == \A k \in Clients : Cost * passed[k] + Filled(k) <= Capacity + Rate * (now - since)
=============================================================================
