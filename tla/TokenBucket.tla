---------------------------- MODULE TokenBucket ----------------------------
(***************************************************************************)
(* The shared token bucket of one pace key: limiter.Take and the script    *)
(* token_bucket.lua it runs.  The bucket lives in Redis and every probe    *)
(* node draws from it.  The script is atomic, but the clock it is handed   *)
(* was read by the caller before the call was sent, so calls may reach     *)
(* Redis in an order other than that of their clocks.                      *)
(*                                                                         *)
(* Time is counted in ticks and tokens in units (one token is Want units), *)
(* so that the fractional rates of the bands are whole numbers.            *)
(***************************************************************************)
EXTENDS Integers

CONSTANTS
  Callers,   \* goroutines of all nodes that call Take for this pace key
  MaxRate,   \* largest rate a caller may pass, in units per tick
  Burst,     \* capacity of the bucket, in units
  Want,      \* units one request costs
  TTL,       \* ticks after which Redis drops an idle bucket (EXPIRE)
  MaxLag,    \* ticks between reading the clock and the script running
             \* (bounded by the Redis client's command timeout)
  MaxTime    \* model bound on the clock

ASSUME BucketAssumption ==
  /\ MaxRate \in Nat \ {0} /\ Burst \in Nat \ {0} /\ Want \in Nat \ {0}
  /\ TTL \in Nat /\ MaxLag \in Nat /\ MaxTime \in Nat

\* An idle bucket would have refilled before Redis forgets it.
ASSUME ExpiryAssumption ==
  /\ MaxLag < TTL
  /\ Burst <= MaxRate * (TTL - MaxLag)

VARIABLES
  clock,    \* wall clock, shared by the nodes and by Redis
  bucket,   \* the hash rt:mx:<key>:bucket and the instant its key expires
  call,     \* per caller, the Take it has sent and Redis has not yet run
  win       \* observer: an interval of time and what happened in it

vars == <<clock, bucket, call, win>>

Rates == 1 .. MaxRate
Idle  == [now |-> -1, rate |-> 0]
Calls == [now : Nat, rate : Rates]

Init ==
  /\ clock = 0
  /\ bucket = [tokens |-> 0, ts |-> 0, expireAt |-> 0]
  /\ call = [c \in Callers |-> Idle]
  /\ win = [at |-> 0, granted |-> 0, rewound |-> 0]
-----------------------------------------------------------------------------
\* HMGET finds no bucket: it was never written, or Redis has dropped it.
Missing == clock >= bucket.expireAt

Elapsed(now) == IF now > bucket.ts THEN now - bucket.ts ELSE 0

\* Observer only: how far a call turns the bucket's timestamp back.
Rewind(now) == IF now < bucket.ts THEN bucket.ts - now ELSE 0

\* What the bucket holds for a caller whose clock reads now.
Refill(now, rate) ==
  LET tokens == bucket.tokens + Elapsed(now) * rate
  IN  IF Missing \/ tokens > Burst THEN Burst ELSE tokens

\* Take: the caller reads its clock and sends the script its rate.
Take(c, rate) ==
  /\ call[c] = Idle
  /\ call' = [call EXCEPT ![c] = [now |-> clock, rate |-> rate]]
  /\ UNCHANGED <<clock, bucket, win>>

\* The script stores tokens and ts only when it grants.
RunKeepsTimestamp(c) ==
  /\ call[c] # Idle
  /\ clock - call[c].now <= MaxLag
  /\ LET now     == call[c].now
         tokens  == Refill(now, call[c].rate)
         allowed == tokens >= Want
     IN  /\ bucket' = [tokens   |-> IF allowed THEN tokens - Want ELSE tokens,
                       ts       |-> IF allowed THEN now ELSE bucket.ts,
                       expireAt |-> clock + TTL]
         /\ win' = [at      |-> win.at,
                    granted |-> win.granted + (IF allowed THEN Want ELSE 0),
                    rewound |-> win.rewound + Rewind(now)]
  /\ call' = [call EXCEPT ![c] = Idle]
  /\ UNCHANGED clock

\* The script: refill, take if there is enough, write back whatever happened.
Run(c) ==
  /\ call[c] # Idle
  /\ clock - call[c].now <= MaxLag
  /\ LET now     == call[c].now
         tokens  == Refill(now, call[c].rate)
         allowed == tokens >= Want
     IN  /\ bucket' = [tokens   |-> IF allowed THEN tokens - Want ELSE tokens,
                       ts       |-> now,
                       expireAt |-> clock + TTL]
         /\ win' = [at      |-> win.at,
                    granted |-> win.granted + (IF allowed THEN Want ELSE 0),
                    rewound |-> win.rewound + Rewind(now)]
  /\ call' = [call EXCEPT ![c] = Idle]
  /\ UNCHANGED clock

\* Take returns an error and the script never ran: the caller fails closed.
Fail(c) ==
  /\ call[c] # Idle
  /\ call' = [call EXCEPT ![c] = Idle]
  /\ UNCHANGED <<clock, bucket, win>>

Tick ==
  /\ clock < MaxTime
  /\ clock' = clock + 1
  /\ UNCHANGED <<bucket, call, win>>

\* The observer starts a new interval now.
OpenWindow ==
  /\ win' = [at |-> clock, granted |-> 0, rewound |-> 0]
  /\ UNCHANGED <<clock, bucket, call>>

Next ==
  \/ \E c \in Callers : \/ \E rate \in Rates : Take(c, rate)
                        \/ Run(c)
                        \/ Fail(c)
  \/ Tick
  \/ OpenWindow

Spec == Init /\ [][Next]_vars
-----------------------------------------------------------------------------
\* The bucket never holds more than Burst nor less than nothing, and no call
\* carries a clock from the future.
TypeOK ==
  /\ clock \in Nat
  /\ bucket \in [tokens : 0 .. Burst, ts : Nat, expireAt : Nat]
  /\ call \in [Callers -> Calls \cup {Idle}]
  /\ win \in [at : Nat, granted : Nat, rewound : Nat]
  /\ bucket.ts <= clock /\ win.at <= clock
  /\ \A c \in Callers : call[c].now <= clock

\* In ANY interval the nodes together are granted at most one burst, plus what
\* the highest rate refills in that interval (MaxLag longer, as measured by the
\* callers' clocks) and in the time by which late calls turned the bucket's
\* timestamp back: the script writes ts = now even when now is older than ts.
GrantsWithinCredit ==
  win.granted <= Burst + MaxRate * ((clock - win.at) + MaxLag + win.rewound)

\* The limit the bucket exists for: in any interval the nodes together are
\* granted at most one burst plus the refill of that interval, whatever the
\* order in which their calls reach Redis.
GrantsWithinRate ==
  win.granted <= Burst + MaxRate * ((clock - win.at) + MaxLag)
=============================================================================
