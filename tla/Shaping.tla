------------------------------- MODULE Shaping -------------------------------
(***************************************************************************)
(* What happens to the bytes of one forward's connection: chaos injection  *)
(* (chaos.go), latency and the token bucket its streams share              *)
(* (throttle.go), and counting (counting.go), while the daemon's           *)
(* UpdateChaos changes the injected faults from outside and reconnects     *)
(* initialise them from the configuration.                                 *)
(* A time unit is 1/Rate of a second, so that one token is refilled in it. *)
(***************************************************************************)
EXTENDS Integers, FiniteSets

CONSTANTS
    Rate,       \* bytesPerSec, which is also the burst the bucket holds
    Stream,     \* the streams of the connection
    MaxChunk,   \* largest Read or Write
    Latency,    \* delays an injected latency or spike may take
    Caller,     \* RPCs of the daemon
    MaxCalls,   \* bound on the calls
    ConfigChaos \* ResolveChaos(...).Parse(): what the configuration says

ASSUME ShapingAssumption ==
    /\ Rate \in Nat \ {0} /\ MaxChunk \in Nat \ {0}
    /\ IsFiniteSet(Stream)
    /\ Latency \subseteq Nat
    /\ MaxCalls \in Nat

(* A ParsedChaosConfig, its rates and durations abstracted to which set of *)
(* parameters is in use: none, the configured ones, or given ones.         *)
Chaos == [enabled : BOOLEAN, params : {"none", "configured", "given"}]
Nil == [enabled |-> FALSE, params |-> "nil"]

VARIABLES
    tokens,       \* rateLimiter.tokens, refilled as time passes
    stream,       \* what each stream is doing, its size and time to sleep
    excess,       \* history: bytes through in any period, beyond its length
    cancelled,    \* the connection's context has ended
    chaos,        \* pf.chaosOverride
    hasOverride,  \* pf.hasChaosOverride
    dialer,       \* the runner before it dials: initialising chaos or not
    call,         \* each RPC: its request and how far it is
    calls,        \* RPCs so far
    promised,     \* history: what the last RPC to finish has set
    raced         \* history: it overlapped another RPC or an initialisation

pathVars  == <<tokens, stream, excess, cancelled>>
chaosVars == <<chaos, hasOverride, dialer, call, calls, promised, raced>>
vars == <<pathVars, chaosVars>>

Idle == [at |-> "idle", n |-> 0, left |-> 0]
NoCall == [at |-> "idle", value |-> Nil]

Init ==
    /\ tokens = Rate
    /\ stream = [s \in Stream |-> Idle]
    /\ excess = 0
    /\ cancelled = FALSE
    /\ chaos = Nil
    /\ hasOverride = FALSE
    /\ dialer = "idle"
    /\ call = [c \in Caller |-> NoCall]
    /\ calls = 0
    /\ promised = ConfigChaos
    /\ raced = FALSE

-----------------------------------------------------------------------------
(* The token bucket *)

Smaller(x, y) == IF x < y THEN x ELSE y

(* Wait adds elapsed * bytesPerSec and caps the sum at Rate, which is one  *)
(* token for each unit that passes, up to Rate.                            *)
Refilled == Smaller(tokens + 1, Rate)

(* Mutant: a stream sleeps off its own shortage, which nobody else sees. *)
WaitForgives(s, n) ==
    /\ tokens' = IF tokens > n THEN tokens - n ELSE 0
    /\ stream' = [stream EXCEPT ![s] =
          [at |-> "throttled", n |-> n, left |-> IF tokens < n THEN n - tokens ELSE 0]]

(* Wait: consume n and, in debt, sleep until the debt is refilled. *)
Wait(s, n) ==
    /\ tokens' = tokens - n
    /\ stream' = [stream EXCEPT ![s] =
          [at |-> "throttled", n |-> n, left |-> IF tokens' < 0 THEN -tokens' ELSE 0]]

Asleep(s) == stream[s].at # "idle"

(* Timers are punctual: time does not pass a stream that is due to wake. *)
Tick ==
    /\ \A s \in Stream : Asleep(s) => stream[s].left > 0
    /\ tokens' = Refilled
    /\ stream' = [s \in Stream |->
          IF Asleep(s) THEN [stream[s] EXCEPT !.left = @ - 1] ELSE Idle]
    /\ excess' = IF excess > 0 THEN excess - 1 ELSE 0
    /\ UNCHANGED <<cancelled, chaosVars>>

-----------------------------------------------------------------------------
(* Streams.  Write: chaos first, then latency, the bucket, the stream and  *)
(* the counter; Read: the bucket after the bytes have come.                *)

Injecting == chaos.enabled /\ chaos.params # "none"

(* An injected error ends the Write at once: the stream stays idle, and    *)
(* nothing is consumed or counted.                                         *)
WriteInjected(s) ==
    /\ stream[s] = Idle
    /\ Injecting
    /\ UNCHANGED vars

(* The latency of the network configuration with its jitter, and a spike   *)
(* if one is injected.                                                     *)
WriteDelayed(s, n, d) ==
    /\ ~cancelled
    /\ stream[s] = Idle
    /\ d > 0
    /\ stream' = [stream EXCEPT ![s] = [at |-> "delayed", n |-> n, left |-> d]]
    /\ UNCHANGED <<tokens, excess, cancelled, chaosVars>>

Transfer(s, n) ==
    /\ ~cancelled
    /\ stream[s] = Idle
    /\ Wait(s, n)
    /\ UNCHANGED <<excess, cancelled, chaosVars>>

DelayEnds(s) ==
    /\ stream[s].at = "delayed"
    /\ stream[s].left = 0
    /\ Wait(s, stream[s].n)
    /\ UNCHANGED <<excess, cancelled, chaosVars>>

(* The sleep is over: the bytes go through and are counted. *)
WaitEnds(s) ==
    /\ stream[s].at = "throttled"
    /\ stream[s].left = 0
    /\ stream' = [stream EXCEPT ![s] = Idle]
    /\ excess' = excess + stream[s].n
    /\ UNCHANGED <<tokens, cancelled, chaosVars>>

CancelContext ==
    /\ ~cancelled
    /\ cancelled' = TRUE
    /\ UNCHANGED <<tokens, stream, excess, chaosVars>>

(* sleepWithContext: a stream that sleeps wakes at the end of the context. *)
Interrupted(s) ==
    /\ cancelled
    /\ Asleep(s)
    /\ stream' = [stream EXCEPT ![s] = Idle]
    /\ UNCHANGED <<tokens, excess, cancelled, chaosVars>>

-----------------------------------------------------------------------------
(* Changing the chaos settings *)

Busy == \E c \in Caller : call[c] # NoCall

(* The value of each `kubeport chaos` subcommand: set and preset give      *)
(* parameters, enable and disable send none.                               *)
Requests ==
    {[enabled |-> TRUE, params |-> "given"],
     [enabled |-> TRUE, params |-> "none"],
     [enabled |-> FALSE, params |-> "none"]}

(* A request for this forward passes chaosParamsFromProto, or is a reset,  *)
(* which is the value Nil; for an unknown service nothing is stored.       *)
Request(c, v) ==
    /\ call[c] = NoCall
    /\ calls < MaxCalls
    /\ calls' = calls + 1
    /\ call' = [call EXCEPT ![c] = [at |-> "first", value |-> v]]
    /\ raced' = (Busy \/ dialer = "tested")
    /\ UNCHANGED <<pathVars, chaos, hasOverride, dialer, promised>>

(* UpdateChaos stores the value and then the flag, ResetChaos clears the   *)
(* flag and then stores the configured value.                              *)
StoreFirst(c) ==
    /\ call[c].at = "first"
    /\ call' = [call EXCEPT ![c].at = "second"]
    /\ \/ /\ call[c].value # Nil
          /\ chaos' = call[c].value
          /\ UNCHANGED hasOverride
       \/ /\ call[c].value = Nil
          /\ hasOverride' = FALSE
          /\ UNCHANGED chaos
    /\ UNCHANGED <<pathVars, dialer, calls, promised, raced>>

StoreSecond(c) ==
    /\ call[c].at = "second"
    /\ call' = [call EXCEPT ![c] = NoCall]
    /\ \/ /\ call[c].value # Nil
          /\ hasOverride' = TRUE
          /\ promised' = call[c].value
          /\ UNCHANGED chaos
       \/ /\ call[c].value = Nil
          /\ chaos' = ConfigChaos
          /\ promised' = ConfigChaos
          /\ UNCHANGED hasOverride
    /\ UNCHANGED <<pathVars, dialer, calls, raced>>

(* Mutant: every reconnect starts from the configuration. *)
InitialisesAlways == TRUE

Initialises == ~hasOverride

(* A reconnect tests the flag... *)
DialTest ==
    /\ dialer = "idle"
    /\ Initialises
    /\ dialer' = "tested"
    /\ raced' = (raced \/ Busy)
    /\ UNCHANGED <<pathVars, chaos, hasOverride, call, calls, promised>>

(* ... and then stores; the connection has a new context and a new bucket. *)
DialStore ==
    /\ dialer = "tested"
    /\ dialer' = "idle"
    /\ chaos' = ConfigChaos
    /\ UNCHANGED <<pathVars, hasOverride, call, calls, promised, raced>>

-----------------------------------------------------------------------------

Streams ==
    \E s \in Stream :
        \/ WriteInjected(s)
        \/ \E n \in 1..MaxChunk : Transfer(s, n) \/ \E d \in Latency : WriteDelayed(s, n, d)

Wakes == \E s \in Stream : DelayEnds(s) \/ WaitEnds(s) \/ Interrupted(s)

Calls ==
    \E c \in Caller :
        \/ \E v \in Requests \cup {Nil} : Request(c, v)
        \/ StoreFirst(c) \/ StoreSecond(c)

Next ==
    \/ Tick \/ Streams \/ Wakes \/ CancelContext
    \/ Calls \/ DialTest \/ DialStore

Spec == Init /\ [][Next]_vars

-----------------------------------------------------------------------------
(* Properties *)

Larger(x, y) == IF x > y THEN x ELSE y

(* The bandwidth cap: in any period, and however many streams share the    *)
(* bucket, the bytes that go through are at most what the rate allows for  *)
(* its length and one second's burst, or one transfer if that is larger.   *)
BandwidthBounded == excess <= Larger(Rate, MaxChunk)

(* "Changes take effect immediately" and stay: when no RPC is under way,   *)
(* the settings in force are those the last one has reported as updated,   *)
(* through any number of reconnects, unless it overlapped another RPC or   *)
(* the initialisation of a reconnect.                                      *)
OverrideHeld ==
    ~Busy /\ ~raced =>
        \/ chaos = promised
        \/ chaos = Nil /\ promised = ConfigChaos
=============================================================================
