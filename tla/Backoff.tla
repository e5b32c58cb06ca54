------------------------------- MODULE Backoff -------------------------------
(***************************************************************************)
(* Retry delays (src/policies/backoff.rs and jitter.rs) as operators.      *)
(*                                                                         *)
(* A duration is a number of nanoseconds.  The floating-point growth       *)
(* first * factor^index is a parameter, any natural number: what is proved *)
(* about a delay holds however f64 rounds, and a product that no Duration  *)
(* can hold is a number above the cap, to which the code falls back too.   *)
(* A random draw is the set of its possible results.                       *)
(***************************************************************************)
EXTENDS Integers

CONSTANTS
    DefaultFirst,      \* the first delay of the default policy, 200 ms
    DefaultMax,        \* DEFAULT_MAX, 30 s
    MinNonzeroDelay    \* MIN_NONZERO_DELAY, 1 ms

ASSUME BackoffAssumption ==
    /\ DefaultFirst \in Nat /\ DefaultMax \in Nat /\ MinNonzeroDelay \in Nat
    /\ DefaultFirst <= DefaultMax

Jitters == {"None", "Full", "Equal", "RandomizedBand"}

Policies == [first : Nat, max : Nat, floor : Nat, jitter : Jitters]

Lesser(a, b)  == IF a <= b THEN a ELSE b
Greater(a, b) == IF a >= b THEN a ELSE b

-----------------------------------------------------------------------------
(* Constructors and builder methods.                                       *)

\* BackoffPolicy::new refuses a factor that is not finite or is below 1, and
\* a first delay above the maximum.
Refused(factorValid, first, max) == ~factorValid \/ first > max
New(first, max, jitter) ==
    [first |-> first, max |-> max, floor |-> 0, jitter |-> jitter]

Default == New(DefaultFirst, DefaultMax, "Equal")

\* constant and exponential, which differ in the factor only.
Named(first) == New(first, Greater(first, DefaultMax), "None")

WithMax(p, max) ==
    [first |-> Lesser(p.first, max), max |-> max,
     floor |-> Lesser(p.floor, max), jitter |-> p.jitter]

WithFloor(p, floor) == [p EXCEPT !.floor = Lesser(floor, p.max)]

WithJitter(p, jitter) == [p EXCEPT !.jitter = jitter]

-----------------------------------------------------------------------------
(* delay_for_retry.                                                        *)

Base(p, growth) == IF p.first = 0 THEN 0 ELSE Lesser(growth, p.max)

FullJitter(d) == 0 .. d

EqualJitter(d) == LET half == d \div 2 IN {half + j : j \in 0 .. (d - half)}

Apply(jitter, d) ==
    CASE jitter = "None"  -> {d}
      [] jitter = "Equal" -> EqualJitter(d)
      [] OTHER            -> FullJitter(d)

\* apply_randomized_band; saturating_mul is a product above every cap.
ApplyRandomizedBand(jitter, low, seed, max) ==
    LET lower == Lesser(low, max)
        upper == Greater(Lesser(3 * seed, max), lower)
    IN CASE jitter # "RandomizedBand" -> Apply(jitter, lower)
         [] OTHER -> IF lower >= upper THEN {lower} ELSE lower .. upper

Jittered(p, base) ==
    IF p.jitter = "RandomizedBand"
    THEN ApplyRandomizedBand(p.jitter, Lesser(p.first, p.max), base, p.max)
    ELSE Apply(p.jitter, base)

\* The user's floor, then the safety floor of a delay that is not zero.
Floored(p, base, d) ==
    IF base = 0 THEN Greater(d, p.floor)
    ELSE Greater(Greater(d, p.floor), Lesser(MinNonzeroDelay, p.max))

DelayForRetry(p, growth) ==
    {Floored(p, Base(p, growth), d) : d \in Jittered(p, Base(p, growth))}

-----------------------------------------------------------------------------
\* What the constructors establish and the builder methods keep.
Valid(p) == p \in Policies /\ p.first <= p.max /\ p.floor <= p.max

\* The ranges of jitter.rs's table, before floors.
Documented(p, base) ==
    CASE p.jitter = "None"  -> {base}
      [] p.jitter = "Full"  -> 0 .. base
      [] p.jitter = "Equal" -> (base \div 2) .. base
      [] OTHER              -> p.first .. Lesser(3 * base, p.max)
=============================================================================
