------------------------------ MODULE RateLimit --------------------------------
(***************************************************************************)
(* The token bucket of a client (rate_limit_check in                       *)
(* src/src/client_handler.c) and the two commands it meters, MSG and PM.   *)
(*                                                                         *)
(* Time is counted in ticks of 1/Scale second and tokens in 1/Scale token, *)
(* so that a refill of RATE_REFILL_RATE tokens a second is a whole number; *)
(* the rounding of the code's doubles is left out.  A bucket belongs to    *)
(* the client_t of one connection, and one worker at a time serves a       *)
(* connection, so a check is one step.                                     *)
(***************************************************************************)
EXTENDS Integers, FiniteSetsExt

CONSTANTS Clients,
          RATE_BUCKET_MAX, RATE_REFILL_RATE, RATE_MSG_COST,
          Scale,
          MaxClock               \* bound on the clock

ASSUME RateAssumption ==
    /\ RATE_BUCKET_MAX \in Nat /\ RATE_REFILL_RATE \in Nat
    /\ RATE_MSG_COST \in Nat \ {0} /\ RATE_MSG_COST <= RATE_BUCKET_MAX
    /\ Scale \in Nat \ {0} /\ MaxClock \in Nat

VARIABLES clock,                 \* CLOCK_MONOTONIC
          connected,             \* clients that exist
          tokens, last_refill,   \* their buckets
          created,               \* history: when each client was created
          paid,                  \* history: how many charges it has paid ...
          paidBefore             \* ... and had paid when each tick began

rateVars == <<clock, connected, tokens, last_refill, created, paid, paidBefore>>

Full == RATE_BUCKET_MAX * Scale
Cost == RATE_MSG_COST * Scale
NoCharges == [t \in 0..MaxClock |-> 0]

RateInit ==
    /\ clock = 0
    /\ connected = {}
    /\ tokens = [c \in Clients |-> 0]
    /\ last_refill = [c \in Clients |-> 0]
    /\ created = [c \in Clients |-> 0]
    /\ paid = [c \in Clients |-> 0]
    /\ paidBefore = [c \in Clients |-> NoCharges]

-------------------------------------------------------------------------------
\* A new client (create_client, create_client_force) has a full bucket, also
\* when its user has just had another one.
NewBucket(c) ==
    /\ c \notin connected
    /\ connected' = connected \cup {c}
    /\ tokens' = [tokens EXCEPT ![c] = Full]
    /\ last_refill' = [last_refill EXCEPT ![c] = clock]
    /\ created' = [created EXCEPT ![c] = clock]
    /\ UNCHANGED <<clock, paid, paidBefore>>

\* delete_client frees the bucket.
DropBucket(c) ==
    /\ c \in connected
    /\ connected' = connected \ {c}
    /\ tokens' = [tokens EXCEPT ![c] = 0]
    /\ last_refill' = [last_refill EXCEPT ![c] = 0]
    /\ created' = [created EXCEPT ![c] = 0]
    /\ paid' = [paid EXCEPT ![c] = 0]
    /\ paidBefore' = [paidBefore EXCEPT ![c] = NoCharges]
    /\ UNCHANGED clock

\* Mutant: only whole tokens are added.
Refilled_Whole(c) ==
    Min({Full, tokens[c] + (((clock - last_refill[c]) * RATE_REFILL_RATE)
                               \div Scale) * Scale})

\* The level once the time since the last check is paid out.
Refilled(c) ==
    Min({Full, tokens[c] + (clock - last_refill[c]) * RATE_REFILL_RATE})

Allowed(c) == Refilled(c) >= Cost

\* The clock is taken over whether or not the check passes.
rate_limit_check(c) ==
    /\ tokens' = [tokens EXCEPT ![c] = Refilled(c) - IF Allowed(c) THEN Cost ELSE 0]
    /\ last_refill' = [last_refill EXCEPT ![c] = clock]
    /\ paid' = IF Allowed(c) THEN [paid EXCEPT ![c] = @ + 1] ELSE paid
    /\ UNCHANGED <<clock, connected, created, paidBefore>>

\* MSG outside a room is refused before the check; an empty text after it, so
\* it is paid for.
MSG(c, inRoom) ==
    /\ c \in connected
    /\ IF inRoom THEN rate_limit_check(c) ELSE UNCHANGED rateVars

\* PM without a text is refused before the check; an unknown target after it.
PM(c, hasText) ==
    /\ c \in connected
    /\ IF hasText THEN rate_limit_check(c) ELSE UNCHANGED rateVars

ClockTick ==
    /\ clock < MaxClock
    /\ clock' = clock + 1
    /\ paidBefore' = [c \in Clients |-> [paidBefore[c] EXCEPT ![clock'] = paid[c]]]
    /\ UNCHANGED <<connected, tokens, last_refill, created, paid>>

RateNext ==
    \/ \E c \in Clients : NewBucket(c)
    \/ \E c \in Clients : DropBucket(c)
    \/ \E c \in Clients, inRoom \in BOOLEAN : MSG(c, inRoom)
    \/ \E c \in Clients, hasText \in BOOLEAN : PM(c, hasText)
    \/ ClockTick

RateSpec == RateInit /\ [][RateNext]_rateVars

-------------------------------------------------------------------------------
(***************************************************************************)
(* Properties.                                                             *)
(***************************************************************************)
\* The type of every variable; a bucket (client_t.tokens) is never overdrawn
\* and never over-full.
RateTypeOK ==
    /\ clock \in 0..MaxClock
    /\ connected \subseteq Clients
    /\ tokens \in [Clients -> 0..Full]
    /\ last_refill \in [Clients -> 0..MaxClock]
    /\ created \in [Clients -> 0..MaxClock]
    /\ paid \in [Clients -> Nat]
    /\ paidBefore \in [Clients -> [0..MaxClock -> Nat]]

\* What client c paid from tick s on.
PaidSince(c, s) == (paid[c] - paidBefore[c][s]) * Cost

\* What burst and refill have left of the interval from tick s on.
Left(c, s) == Full + (clock - s) * RATE_REFILL_RATE - PaidSince(c, s)

\* README.md: "Burst allowance per client", "Tokens/second added back".  In any
\* interval a client gets through (rate_limit_check) at most the full bucket and
\* what the interval adds, however its attempts are spread.
BurstBound ==
    \A c \in connected : \A s \in created[c]..clock : Left(c, s) >= 0

\* rate_limit_check refuses nothing else: what it has left is what the tightest
\* of these bounds leaves, so refused attempts delay nobody and fractions of a
\* token are not lost between two checks.
BucketExact ==
    \A c \in connected : Refilled(c) = Min({Left(c, s) : s \in created[c]..clock})

\* rate_limit_check lets through exactly what burst and refill allow.
PaysExactly == RateTypeOK /\ BurstBound /\ BucketExact
===============================================================================
