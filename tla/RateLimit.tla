------------------------------ MODULE RateLimit ------------------------------
(***************************************************************************)
(* The rate limit of compile requests, shared by all gateways.  A request  *)
(* pays a base cost before its body is read and the rest of the price of   *)
(* its architecture when the board is known; each payment is one script in *)
(* Redis that charges a global, an address and a visitor counter of the    *)
(* present window, all or none.  The window is the gateway's clock, the    *)
(* counter's life is Redis's: between the two lie the clocks' offsets and  *)
(* the time a command takes.                                               *)
(***************************************************************************)
EXTENDS Integers

CONSTANTS
  Requests,
  Counters,    \* key names without the bucket: global, ip:..., visitor:...
  KeysOf,      \* the counters of each request
  Budget,      \* globalLimit, ipLimit, visitorLimit
  FullCost,    \* the cost of the request's architecture
  Ahead,       \* bound: how far a gateway's clock may be ahead
  Offset,      \* how far that of each request's gateway is
  Window,      \* windowMs, in ticks
  Slack,       \* the 1000 ms a counter lives longer
  AnswerTime,  \* command timeout of the gateway's connection
  LastBucket,  \* bound: windows
  MaxTime      \* bound: ticks

Buckets == 0..LastBucket

ASSUME RateConstants ==
  /\ KeysOf \in [Requests -> SUBSET Counters]
  /\ Budget \in [Counters -> Nat \ {0}]
  /\ FullCost \in [Requests -> Nat \ {0}]
  /\ Ahead \in Nat /\ Offset \in [Requests -> 0..Ahead]
  /\ Window \in Nat \ {0} /\ Slack \in Nat /\ AnswerTime \in Nat \ {0}
  /\ LastBucket \in Nat /\ MaxTime \in Nat

BaseCost == 1  \* COMPILE_ADMISSION_BASE_COST

VARIABLES
  clock,
  counts,   \* value of each key counter:bucket, 0 when there is none
  expires,  \* ticks until it expires
  stage,    \* new, base, parsed, rest, admitted, refused or failed
  bucket,   \* the bucket of the command under way
  due,      \* ticks until its command timeout
  resent,   \* the connection broke and the command was sent again
  paid,     \* chargedCosts
  punctual  \* not in the code: what commands that came in time were granted
            \* for each counter and bucket, under all keys of that name

rateVars == <<clock, counts, expires, stage, bucket, due, resent, paid, punctual>>

Keys == Counters \X Buckets

RateInit ==
  /\ clock = 0
  /\ counts = [k \in Keys |-> 0] /\ expires = [k \in Keys |-> 0]
  /\ stage = [r \in Requests |-> "new"]
  /\ bucket = [r \in Requests |-> 0]
  /\ due = [r \in Requests |-> 0]
  /\ resent = [r \in Requests |-> FALSE]
  /\ paid = [r \in Requests |-> 0]
  /\ punctual = [k \in Keys |-> 0]

UnderWay(r) == stage[r] \in {"base", "rest"}

\* take(): the bucket is computed, and the command sent.
Send(r, to) ==
  /\ \E b \in Buckets :
       /\ b * Window <= clock + Offset[r] /\ clock + Offset[r] < (b + 1) * Window
       /\ bucket' = [bucket EXCEPT ![r] = b]
  /\ stage' = [stage EXCEPT ![r] = to]
  /\ due' = [due EXCEPT ![r] = AnswerTime]
  /\ resent' = [resent EXCEPT ![r] = FALSE]
  /\ UNCHANGED <<clock, counts, expires, paid, punctual>>

Request(r) == stage[r] = "new" /\ Send(r, "base")

Remainder_All(r) == 0
Remainder(r) == FullCost[r] - paid[r]

\* The body is parsed and the board known; an invalid one ends here.
ChargeArchitecture(r) ==
  /\ stage[r] = "parsed"
  /\ \/ Remainder(r) > 0 /\ Send(r, "rest")
     \/ /\ \/ Remainder(r) <= 0 /\ stage' = [stage EXCEPT ![r] = "admitted"]
           \/ stage' = [stage EXCEPT ![r] = "failed"]
        /\ UNCHANGED <<clock, counts, expires, bucket, due, resent, paid, punctual>>

Touched(r) == KeysOf[r] \X {bucket[r]}
Cost(r) == IF stage[r] = "base" THEN BaseCost ELSE Remainder(r)

Fits_Base(r) == \A k \in Touched(r) : counts[k] + BaseCost <= Budget[k[1]]
Fits(r) == \A k \in Touched(r) : counts[k] + Cost(r) <= Budget[k[1]]

Life_Window == Window
Life == Window + Slack

\* Redis executes a command of bucket b not later than the slack after its end,
\* by the fastest clock.  The command timeout lets a command come later.
InTime(b) == clock < (b + 1) * Window + Slack - Ahead

\* The script, when everything fits.  The answer is yes; or it is lost with the
\* connection, and the command is sent once more; or it is an error.
Charge(r) ==
  /\ UnderWay(r) /\ Fits(r)
  /\ counts' = [k \in Keys |-> IF k \in Touched(r) THEN counts[k] + Cost(r) ELSE counts[k]]
  /\ expires' = [k \in Keys |->
       IF k \in Touched(r) /\ expires[k] = 0 THEN Life ELSE expires[k]]
  /\ \/ /\ stage' = [stage EXCEPT ![r] = IF @ = "base" THEN "parsed" ELSE "admitted"]
        /\ paid' = [paid EXCEPT ![r] = @ + Cost(r)]
        /\ punctual' = [k \in Keys |->
             IF k \in Touched(r) /\ InTime(k[2]) THEN punctual[k] + Cost(r) ELSE punctual[k]]
        /\ UNCHANGED resent
     \/ /\ ~resent[r]
        /\ resent' = [resent EXCEPT ![r] = TRUE]
        /\ UNCHANGED <<stage, paid, punctual>>
     \/ /\ stage' = [stage EXCEPT ![r] = "failed"]
        /\ UNCHANGED <<resent, paid, punctual>>
  /\ UNCHANGED <<clock, bucket, due>>

\* "Rejected requests must not burn the global budget."
Refuse(r) ==
  /\ UnderWay(r) /\ ~Fits(r)
  /\ stage' = [stage EXCEPT ![r] = "refused"]
  /\ UNCHANGED <<clock, counts, expires, bucket, due, resent, paid, punctual>>

\* commandTimeout, or no connection: 503.  A command that is executed after
\* that only fills counters.
CommandFails(r) ==
  /\ UnderWay(r)
  /\ stage' = [stage EXCEPT ![r] = "failed"]
  /\ UNCHANGED <<clock, counts, expires, bucket, due, resent, paid, punctual>>

Less(n) == IF n > 0 THEN n - 1 ELSE 0

RateTick ==
  /\ clock < MaxTime
  /\ \A r \in Requests : UnderWay(r) => due[r] > 0
  /\ clock' = clock + 1
  /\ expires' = [k \in Keys |-> Less(expires[k])]
  /\ counts' = [k \in Keys |-> IF expires'[k] = 0 THEN 0 ELSE counts[k]]
  /\ due' = [r \in Requests |-> Less(due[r])]
  /\ UNCHANGED <<stage, bucket, resent, paid, punctual>>

RateNext ==
  \/ RateTick
  \/ \E r \in Requests :
       Request(r) \/ ChargeArchitecture(r) \/ Charge(r) \/ Refuse(r) \/ CommandFails(r)

RateSpec == RateInit /\ [][RateNext]_rateVars

(***************************************************************************)
(* Properties.                                                             *)
(***************************************************************************)
\* Every variable keeps to its range, no counter exceeds its budget, and one
\* that counts has a TTL.
RateTypeOK ==
  /\ clock \in 0..MaxTime
  /\ counts \in [Keys -> Nat] /\ \A k \in Keys : counts[k] <= Budget[k[1]]
  /\ expires \in [Keys -> 0..(Window + Slack)]
  /\ \A k \in Keys : counts[k] > 0 <=> expires[k] > 0
  /\ stage \in [Requests ->
       {"new", "base", "parsed", "rest", "admitted", "refused", "failed"}]
  /\ bucket \in [Requests -> Buckets]
  /\ due \in [Requests -> 0..AnswerTime]
  /\ resent \in [Requests -> BOOLEAN]
  /\ paid \in [Requests -> Nat]
  /\ punctual \in [Keys -> Nat]

\* All gateways together grant the requests of a window that Redis sees within
\* the slack no more than each of its budgets, although the counters are born
\* by one clock and die by another.  A command that comes later, as the
\* command timeout allows, may find its counter gone and begin a new one.
WindowBounded == \A k \in Keys : punctual[k] <= Budget[k[1]]

\* A compile that is admitted was charged the cost of its architecture, in one
\* window or in two.
PaysInFull == \A r \in Requests : stage[r] = "admitted" => paid[r] = FullCost[r]
=============================================================================
