------------------------------- MODULE RateLimit -------------------------------
(***************************************************************************)
(* The fixed-window rate limiter, for one key: replicas with clocks of     *)
(* their own count requests in rate_limit_windows, and Cleanup deletes old *)
(* windows by the clock of the database.                                   *)
(***************************************************************************)
EXTENDS Integers

CONSTANTS
    Limit,     \* requests admitted in a window
    Window,    \* length of a window, in seconds
    Grace,     \* how long Cleanup spares a window that has ended: 5 minutes
    MaxSkew,   \* clock difference and delay between a replica and the database
    MaxNow,    \* bound on time
    MaxCount   \* bound on the requests of a window

ASSUME RateConstants ==
    /\ Limit \in Nat \ {0} /\ Window \in Nat \ {0}
    /\ Grace \in Nat /\ MaxNow \in Nat /\ MaxCount \in Nat

\* Replicas are closer to the database than the grace of Cleanup.
ASSUME SkewWithinGrace == MaxSkew \in Nat /\ MaxSkew <= Grace

VARIABLES
    now,       \* the clock of the database
    count,     \* request_count by window_started_at; 0 is no row
    admitted,  \* requests let through, by window
    lost,      \* requests counted whose answer did not arrive, by window
    refused    \* windows in which a request was refused

rateVars == <<now, count, admitted, lost, refused>>

Starts == {s \in 0 .. MaxNow + MaxSkew : s % Window = 0}

InWindow(t, started) == started <= t /\ t < started + Window

-----------------------------------------------------------------------------
\* The upsert with the window of the replica's clock; only its count decides.
Counted(started) ==
    /\ count[started] < MaxCount
    /\ \E skew \in -MaxSkew .. MaxSkew : InWindow(now + skew, started)
    /\ count' = [count EXCEPT ![started] = @ + 1]
    /\ UNCHANGED now

WithinLimit(n) == n <= Limit

Allow(started) ==
    /\ Counted(started)
    /\ IF WithinLimit(count'[started])
       THEN /\ admitted' = [admitted EXCEPT ![started] = @ + 1]
            /\ UNCHANGED refused
       ELSE /\ refused' = refused \cup {started}
            /\ UNCHANGED admitted
    /\ UNCHANGED lost

\* The count is stored and the answer lost: the handler answers 503.
AllowFails(started) ==
    /\ Counted(started)
    /\ lost' = [lost EXCEPT ![started] = @ + 1]
    /\ UNCHANGED <<admitted, refused>>

\* Mutant: windows are deleted as soon as they have ended.
CleanupAtOnce ==
    /\ \E s \in Starts : count[s] > 0 /\ s + Window <= now
    /\ count' = [s \in Starts |-> IF s + Window <= now THEN 0 ELSE count[s]]
    /\ UNCHANGED <<now, admitted, lost, refused>>

Cleanup ==
    /\ \E s \in Starts : count[s] > 0 /\ s + Window < now - Grace
    /\ count' = [s \in Starts |-> IF s + Window < now - Grace THEN 0 ELSE count[s]]
    /\ UNCHANGED <<now, admitted, lost, refused>>

SecondPasses ==
    /\ now < MaxNow
    /\ now' = now + 1
    /\ UNCHANGED <<count, admitted, lost, refused>>

-----------------------------------------------------------------------------
RateInit ==
    /\ now = 0
    /\ count = [s \in Starts |-> 0]
    /\ admitted = [s \in Starts |-> 0]
    /\ lost = [s \in Starts |-> 0]
    /\ refused = {}

RateNext ==
    \/ \E s \in Starts : Allow(s) \/ AllowFails(s)
    \/ Cleanup
    \/ SecondPasses

RateSpec == RateInit /\ [][RateNext]_rateVars

-----------------------------------------------------------------------------
(* Properties. *)

\* The values of the rows.
RateTypeOK ==
    /\ now \in 0 .. MaxNow
    /\ count \in [Starts -> Nat]
    /\ admitted \in [Starts -> Nat]
    /\ lost \in [Starts -> Nat]
    /\ refused \subseteq Starts

\* A window admits at most Limit requests over all replicas, also those that
\* arrive with a late clock after Cleanup has run, and refuses one only after
\* Limit requests have been counted.
WindowAdmitsLimit ==
    \A s \in Starts :
      /\ admitted[s] <= Limit
      /\ s \in refused => admitted[s] + lost[s] >= Limit
=============================================================================
