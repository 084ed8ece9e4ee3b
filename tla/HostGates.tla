------------------------------ MODULE HostGates ------------------------------
(***************************************************************************)
(* acquisition/transport.py, SafeNetworkTransport: threads that fetch from *)
(* one host through a concurrency gate per provider and one rate gate per  *)
(* host, follow redirects and retry until their deadline.  Hosts share     *)
(* nothing but the provider gates, so one host shows both gates meet.      *)
(* What a URL may be is decided before and is not modelled.                *)
(*                                                                         *)
(* Times are kept relative to the present, in whole units: a positive one  *)
(* lies ahead, a negative one has passed.  A rate is the interval between  *)
(* two requests it allows.                                                 *)
(***************************************************************************)
EXTENDS Integers, FiniteSets, FiniteSetsExt

CONSTANTS
  Threads,
  Providers,
  Interval,      \* per provider: 1 / requests_per_second
  Slots,         \* per provider: max_concurrent_requests
  TotalTimeout,  \* total_timeout_seconds
  MaxRetries,    \* retry_policy.maximum_retries
  MaxRedirects,
  Delays,        \* what _retry_delay may return
  MaxLag,        \* bound: how long a thread may stand still between reading
                 \* the clock and using what it read
  None

ASSUME GatesAssumption ==
  /\ IsFiniteSet(Threads) /\ IsFiniteSet(Providers) /\ Providers # {}
  /\ Interval \in [Providers -> Nat \ {0}]
  /\ Slots \in [Providers -> Nat \ {0}]
  /\ TotalTimeout \in Nat \ {0}
  /\ MaxRetries \in Nat /\ MaxRedirects \in Nat /\ MaxLag \in Nat
  /\ Delays \subseteq Nat
  /\ None \notin Int \cup Providers

VARIABLES
  gate,     \* the host's rate gate, or None before its first use
  free,     \* free slots of each provider's semaphore
  pc,
  loc,      \* the locals of each thread's fetch
  granted   \* history: when the last reservation was really made, or None

vars == <<gate, free, pc, loc, granted>>

-----------------------------------------------------------------------------

Slowest == Max({Interval[p] : p \in Providers})
\* Nothing that lies further back than this is told apart.
Past == -Max({MaxLag, Slowest})
Older(time) == IF time = None THEN None ELSE Max({time - 1, Past})

Gate == [interval : Nat \ {0}, next : Int, last : Int \cup {None}]
ASSUME NoneIsNoGate == None \notin Gate

\* now is the clock as the thread read it, tries counts its requests.
Locals == [provider : Providers \cup {None}, deadline : Int, now : Int \cup {None}, wake : Int,
           retries : 0..MaxRetries, hops : 0..MaxRedirects, tries : Nat,
           result : {"none", "response", "policy", "timeout", "transport"}]
NoLocals == [provider |-> None, deadline |-> 0, now |-> None, wake |-> 0, retries |-> 0, hops |-> 0,
             tries |-> 0, result |-> "none"]

Init ==
  /\ gate = None
  /\ free = Slots
  /\ pc = [t \in Threads |-> "idle"]
  /\ loc = [t \in Threads |-> NoLocals]
  /\ granted = None

Goto(t, l) == pc' = [pc EXCEPT ![t] = l]
Expired(t) == loc[t].deadline <= 0

End(t, result) ==
  /\ Goto(t, "left")
  /\ loc' = [loc EXCEPT ![t].result = result]

Acquire(p) == free[p] > 0 /\ free' = [free EXCEPT ![p] = @ - 1]
Release(p) == free' = [free EXCEPT ![p] = @ + 1]

-----------------------------------------------------------------------------
(* fetch and _request_once *)

Begin(t, p) ==
  /\ pc[t] = "idle"
  /\ Goto(t, "entering")
  /\ loc' = [loc EXCEPT ![t] = [NoLocals EXCEPT !.provider = p, !.deadline = TotalTimeout]]
  /\ UNCHANGED <<gate, free, granted>>

Enter(t) ==
  /\ pc[t] = "entering"
  /\ ~Expired(t)
  /\ Acquire(loc[t].provider)
  /\ Goto(t, "resolving")
  /\ UNCHANGED <<gate, loc, granted>>

EnterTimesOut(t) ==
  /\ pc[t] = "entering"
  /\ Expired(t)
  /\ End(t, "timeout")
  /\ UNCHANGED <<gate, free, granted>>

\* DNS fails, or answers what the policy forbids: no rate slot is used up.
ResolveFails(t) ==
  /\ pc[t] = "resolving"
  /\ Release(loc[t].provider)
  /\ \/ End(t, "policy")
     \/ Goto(t, "retrying") /\ UNCHANGED loc
  /\ UNCHANGED <<gate, granted>>

Bug_NextNotMoved(g, interval) == [g EXCEPT !.interval = Max({@, interval})]

\* A slower rate also moves the time already promised to the next request.
Narrow(g, interval) ==
  IF interval <= g.interval THEN g
  ELSE [g EXCEPT !.interval = interval,
                 !.next = IF g.last = None THEN @ ELSE Max({@, g.last + interval})]

\* _host_rate_gate_for.
FindGate(t) ==
  /\ pc[t] = "resolving"
  /\ LET i == Interval[loc[t].provider]
     IN gate' = IF gate = None THEN [interval |-> i, next |-> Past, last |-> None] ELSE Narrow(gate, i)
  /\ Goto(t, "rating")
  /\ UNCHANGED <<free, loc, granted>>

-----------------------------------------------------------------------------
(* One turn of _acquire_host_rate_slot: the clock is read, then the gate *)

ReadClock(t) ==
  /\ pc[t] = "rating"
  /\ loc[t].now = None
  /\ ~Expired(t)
  /\ loc' = [loc EXCEPT ![t].now = 0]
  /\ UNCHANGED <<gate, free, pc, granted>>

MayGo(t) == pc[t] = "rating" /\ loc[t].now # None /\ gate.next <= loc[t].now
MustWait(t) == pc[t] = "rating" /\ loc[t].now # None /\ gate.next > loc[t].now

\* The slot is taken as of the time that was read.
Reserve(t) ==
  /\ MayGo(t)
  /\ gate' = [gate EXCEPT !.next = loc[t].now + gate.interval, !.last = loc[t].now]
  /\ granted' = 0
  /\ Goto(t, "connecting")
  /\ loc' = [loc EXCEPT ![t].now = None, ![t].tries = @ + 1]
  /\ UNCHANGED free

Sleep(t) ==
  /\ MustWait(t)
  /\ gate.next < loc[t].deadline
  /\ loc' = [loc EXCEPT ![t].wake = gate.next - loc[t].now, ![t].now = None]
  /\ Goto(t, "sleeping")
  /\ UNCHANGED <<gate, free, granted>>

Wake(t) ==
  /\ pc[t] = "sleeping"
  /\ loc[t].wake <= 0
  /\ Goto(t, "rating")
  /\ UNCHANGED <<gate, free, loc, granted>>

\* The wait would not end in time, or has not.
RateTimesOut(t) ==
  /\ \/ pc[t] = "rating" /\ loc[t].now = None /\ Expired(t)
     \/ MustWait(t) /\ gate.next >= loc[t].deadline
  /\ Release(loc[t].provider)
  /\ End(t, "timeout")
  /\ UNCHANGED <<gate, granted>>

-----------------------------------------------------------------------------
(* The request, the redirect chain, the retries *)

ConnectTimesOut(t) ==
  /\ pc[t] = "connecting"
  /\ Expired(t)
  /\ Release(loc[t].provider)
  /\ End(t, "timeout")
  /\ UNCHANGED <<gate, granted>>

\* Connection, request and answer; each read of the answer checks the deadline.
Connect(t) ==
  /\ pc[t] = "connecting"
  /\ ~Expired(t)
  /\ Goto(t, "reading")
  /\ UNCHANGED <<gate, free, loc, granted>>

Bug_SlotKept(t) ==
  /\ pc[t] = "reading"
  /\ Expired(t)
  /\ End(t, "timeout")
  /\ UNCHANGED <<gate, free, granted>>

ReadTimesOut(t) ==
  /\ pc[t] = "reading"
  /\ Expired(t)
  /\ Release(loc[t].provider)
  /\ End(t, "timeout")
  /\ UNCHANGED <<gate, granted>>

Bug_HopsRestarted(t) ==
  /\ pc[t] = "reading"
  /\ Release(loc[t].provider)
  /\ Goto(t, "entering")
  /\ UNCHANGED <<gate, loc, granted>>

Redirect(t) ==
  /\ pc[t] = "reading"
  /\ Release(loc[t].provider)
  /\ IF loc[t].hops < MaxRedirects
     THEN Goto(t, "entering") /\ loc' = [loc EXCEPT ![t].hops = @ + 1]
     ELSE End(t, "policy")
  /\ UNCHANGED <<gate, granted>>

\* A final answer, one the policy forbids, or one to try again.
Respond(t) ==
  /\ pc[t] = "reading"
  /\ Release(loc[t].provider)
  /\ \/ \E r \in {"response", "policy"} : End(t, r)
     \/ Goto(t, "retrying") /\ UNCHANGED loc
  /\ UNCHANGED <<gate, granted>>

RetriesUsed(t) ==
  /\ pc[t] = "retrying"
  /\ loc[t].retries = MaxRetries
  /\ \E r \in {"response", "transport"} : End(t, r)
  /\ UNCHANGED <<gate, free, granted>>

\* The next try follows the redirects from the beginning.
Retry(t, delay) ==
  /\ pc[t] = "retrying"
  /\ loc[t].retries < MaxRetries
  /\ IF delay >= loc[t].deadline
     THEN End(t, "timeout")
     ELSE /\ Goto(t, "delayed")
          /\ loc' = [loc EXCEPT ![t].wake = delay, ![t].retries = @ + 1, ![t].hops = 0]
  /\ UNCHANGED <<gate, free, granted>>

EndDelay(t) ==
  /\ pc[t] = "delayed"
  /\ loc[t].wake <= 0
  /\ Goto(t, "entering")
  /\ UNCHANGED <<gate, free, loc, granted>>

Finish(t) ==
  /\ pc[t] = "left"
  /\ Goto(t, "idle")
  /\ loc' = [loc EXCEPT ![t] = NoLocals]
  /\ UNCHANGED <<gate, free, granted>>

-----------------------------------------------------------------------------

\* A unit of time passes.
Tick ==
  /\ \A t \in Threads : loc[t].now # None => loc[t].now > -MaxLag
  /\ gate' = IF gate = None THEN None
             ELSE [gate EXCEPT !.next = Older(@), !.last = Older(@)]
  /\ loc' = [t \in Threads |->
       IF pc[t] \in {"idle", "left"} THEN loc[t]
       ELSE [loc[t] EXCEPT !.deadline = Older(@), !.now = Older(@), !.wake = Max({0, @ - 1})]]
  /\ granted' = Older(granted)
  /\ UNCHANGED <<free, pc>>

Next ==
  \/ Tick
  \/ \E t \in Threads :
       \/ Enter(t) \/ EnterTimesOut(t) \/ ResolveFails(t) \/ FindGate(t)
       \/ ReadClock(t) \/ Reserve(t) \/ Sleep(t) \/ Wake(t) \/ RateTimesOut(t)
       \/ ConnectTimesOut(t) \/ Connect(t) \/ ReadTimesOut(t) \/ Redirect(t) \/ Respond(t)
       \/ RetriesUsed(t) \/ EndDelay(t) \/ Finish(t)
       \/ \E p \in Providers : Begin(t, p)
       \/ \E d \in Delays : Retry(t, d)

Spec == Init /\ [][Next]_vars

-----------------------------------------------------------------------------
(* Properties *)

\* Type invariant of the gates and the threads' locals.
TypeOK ==
  /\ gate \in Gate \cup {None}
  /\ free \in [Providers -> Nat]
  /\ pc \in [Threads -> {"idle", "entering", "resolving", "rating", "sleeping", "connecting",
                         "reading", "retrying", "delayed", "left"}]
  /\ loc \in [Threads -> Locals]
  /\ granted \in Int \cup {None}

\* On whatever path a request ends, its provider slot is given back exactly once:
\* slots in use and free slots always add up (_request_once's finally).
Holding == {"resolving", "rating", "sleeping", "connecting", "reading"}
SlotsAddUp ==
  \A p \in Providers :
    free[p] + Cardinality({t \in Threads : pc[t] \in Holding /\ loc[t].provider = p}) = Slots[p]

\* By the times it writes down, the gate keeps two requests to the host at least
\* the interval of the later one's provider apart, whichever providers they are
\* of and whenever the slower provider was first seen (_host_rate_gate_for,
\* _acquire_host_rate_slot).
ReservationsSpaced ==
  [][\A t \in Threads :
       Reserve(t) /\ gate.last # None /\ gate.last > Past =>
         gate'.last - gate.last >= Interval[loc[t].provider]]_vars

\* Redirects and retries may alternate, but one fetch sends no more requests than
\* each retry's own chain of redirects allows, so at most
\* (MaxRetries + 1) * (MaxRedirects + 1) (fetch, _one_redirect_chain).
TriesBounded ==
  \A t \in Threads : loc[t].tries <= loc[t].retries * (MaxRedirects + 1) + loc[t].hops + 1

\* What the shared limits count is right on every path a fetch may take: slots are
\* neither lost nor invented, and requests stay within what retries and redirects
\* allow.
LimitsCount == TypeOK /\ SlotsAddUp /\ TriesBounded

\* Expected to fail.  Host rate clocks "use the minimum configured
\* requests_per_second observed for that host" (CORE-03.md:222): two requests
\* are let through at least that interval apart in real time.
RequestsSpaced ==
  [][\A t \in Threads :
       Reserve(t) /\ granted # None /\ granted > Past =>
         -granted >= Interval[loc[t].provider]]_vars

=============================================================================
