---------------------------- MODULE RateLimiter ----------------------------
(***************************************************************************)
(* The requests to public relays: a sliding window per relay, a backoff    *)
(* that doubles with every 429, and the pause before each request.  Its    *)
(* one caller is the loop of module RelaySync, which awaits every slot, so *)
(* there is never more than one wait at a time; a sleep may last longer    *)
(* than it was asked to.                                                   *)
(***************************************************************************)
EXTENDS Clock, Sequences, FiniteSets

CONSTANTS
    Relays,
    RateLimit,        \* requests per window
    RateWindow,       \* one minute
    RequestDelay,     \* RELAY_SYNC_REQUEST_DELAY_MS
    MaxBackoff        \* retries after which the backoff grows no more

\* The limit is not kept when no time passes between two requests, see RateKept.  (The
\* provers know nothing of powers, hence the last conjunct.)
ASSUME RateLimiterAssumption ==
    /\ RateLimit \in Nat \ {0} /\ RateWindow \in Nat \ {0}
    /\ RequestDelay \in Nat \ {0} /\ MaxBackoff \in Nat
    /\ \A n \in 0..MaxBackoff : 2 ^ n \in Nat

VARIABLES
    slots,            \* per relay, the times of its requests that are still counted
    backoff,          \* per relay, until when it is left alone, and the retries
    caller,           \* the wait or the request of the loop
    sent              \* history: the times of all requests

limiterVars == <<slots, backoff, caller, sent>>

NoWait == [at |-> "none"]

LimiterInit ==
    /\ slots = [r \in Relays |-> <<>>] /\ sent = [r \in Relays |-> <<>>]
    /\ backoff = [r \in Relays |-> [until |-> 0, retries |-> 0]]
    /\ caller = NoWait

Later(a, b) == IF a > b THEN a ELSE b

Sleep(at, r, until) == caller' = [at |-> at, relay |-> r, until |-> until]

Woken(at) == caller.at = at /\ now >= caller.until

\* waitForSlot: the backoff is read once, before the sleep it asks for.
WaitForSlot(r) ==
    /\ caller = NoWait
    /\ Sleep("window", r, Later(backoff[r].until, now))
    /\ UNCHANGED <<slots, backoff, sent>>

\* The requests that the filter drops.
Lapsed(times) == {i \in DOMAIN times : times[i] + RateWindow < now}

\* What it leaves: the times are in order, so that the lapsed ones come first.
Recent(times) == SubSeq(times, Cardinality(Lapsed(times)) + 1, Len(times))

\* (mutant) A full window is passed without a wait.
CheckWindowOnly ==
    /\ Woken("window")
    /\ slots' = [slots EXCEPT ![caller.relay] = Recent(@)]
    /\ Sleep("full", caller.relay, now)
    /\ UNCHANGED <<backoff, sent>>

\* With the window full, the caller sleeps until its oldest request leaves it.
CheckWindow ==
    /\ Woken("window")
    /\ LET r == caller.relay
           recent == Recent(slots[r])
       IN /\ slots' = [slots EXCEPT ![r] = recent]
          /\ Sleep("full", r, IF Len(recent) >= RateLimit
                              THEN Later(now, Head(recent) + RateWindow) ELSE now)
    /\ UNCHANGED <<backoff, sent>>

\* Then it pauses, and takes the slot without another look at the window.
PassWindow ==
    /\ Woken("full")
    /\ slots' = [slots EXCEPT ![caller.relay] =
                    IF Len(@) >= RateLimit THEN Recent(@) ELSE @]
    /\ Sleep("delay", caller.relay, now + RequestDelay)
    /\ UNCHANGED <<backoff, sent>>

TakeSlot ==
    /\ Woken("delay")
    /\ slots' = [slots EXCEPT ![caller.relay] = Append(@, now)]
    /\ sent' = [sent EXCEPT ![caller.relay] = Append(@, now)]
    /\ Sleep("request", caller.relay, now)
    /\ UNCHANGED backoff

Backoff(retries) == 2 ^ (IF retries > MaxBackoff THEN MaxBackoff ELSE retries)

\* register429
TooManyRequests(r) ==
    backoff' = [backoff EXCEPT ![r] = [until |-> now + Backoff(@.retries + 1),
                                       retries |-> @.retries + 1]]

\* The relay's answer: events, which clear the backoff, a 429, or another failure.  In
\* the expansion of the queue neither is recorded.
Answered ==
    /\ caller.at = "request"
    /\ \/ backoff' = [backoff EXCEPT ![caller.relay] = [until |-> 0, retries |-> 0]]
       \/ TooManyRequests(caller.relay)
       \/ UNCHANGED backoff
    /\ caller' = NoWait
    /\ UNCHANGED <<slots, sent>>

LimiterNext ==
    \/ (CheckWindow \/ PassWindow \/ TakeSlot \/ Answered) /\ UNCHANGED now
    \/ \E r \in Relays : WaitForSlot(r) /\ UNCHANGED now
    \/ TickClock /\ UNCHANGED limiterVars

(***************************************************************************)
(* Properties                                                              *)
(***************************************************************************)

\* A relay gets at most its limit of requests in any window of a minute, although the
\* window is looked at before two sleeps and not after them, and although requests of
\* exactly a minute ago are counted.  (Without a pause between requests these would stay
\* in the list, which could grow beyond the limit and then hold nobody up.)
RateKept ==
    \A r \in Relays : \A i \in 1..Len(sent[r]) :
        i + RateLimit <= Len(sent[r]) => sent[r][i + RateLimit] - sent[r][i] >= RateWindow

LimiterTypeOK ==
    /\ \A r \in Relays : /\ slots[r] \in Seq(Nat) /\ sent[r] \in Seq(Nat)
                         /\ backoff[r] \in [until : Nat, retries : Nat]
    /\ caller = NoWait \/ caller \in [at : {"window", "full", "delay", "request"},
                                      relay : Relays, until : Nat]
=============================================================================
