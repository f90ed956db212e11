------------------------------ MODULE Swzigzag ------------------------------
(***************************************************************************)
(* The software zigzag of the DVB frontend core: each iteration of the     *)
(* frontend thread reads the demodulator's status and, while there is no   *)
(* lock, tries the next frequency offset and spectral inversion, first     *)
(* fast, then slowly.  The user requests frequencies, sends DISEQC         *)
(* commands and selects one-shot tuning; the carrier comes and goes.       *)
(*                                                                         *)
(* The requested frequency is 0 and all frequencies are relative to it.    *)
(* Delays, qualities and events are left out.                              *)
(***************************************************************************)
EXTENDS Integers

CONSTANTS
    Frontends,          \* kinds of frontends: step_size and max_drift in one
                        \* unit, FE_CAN_INVERSION_AUTO, FE_CAN_RECOVER
    MaxCalls,           \* bound on the user's calls
    MaxChanges,         \* bound on the changes of the carrier
    MaxErrors           \* bound on the failures of set_frontend

ASSUME SettingsAssumption ==
    /\ Frontends \subseteq [step_size : Nat, max_drift : Nat,
                             inversion_auto : BOOLEAN, recover : BOOLEAN]
    /\ MaxCalls \in Nat /\ MaxChanges \in Nat /\ MaxErrors \in Nat

VARIABLES
    fe,                 \* the frontend; what it can does not change
    state,              \* fepriv->state, as the set of its bits
    auto_step, auto_sub_step, started_auto_step, check_wrapped,
    inversion,          \* fepriv->inversion
    oneshot,            \* FE_TUNE_MODE_ONESHOT
    c,                  \* dtv_property_cache: frequency and inversion
    tuner,              \* what the demodulator was set to last
    carrier,            \* where there is a carrier
    tried, twice,       \* what this fast scan has tried; something twice
    failed,             \* set_frontend has failed since the request
    calls, changes, errors

scan == <<auto_step, auto_sub_step, started_auto_step, check_wrapped, inversion>>
seen == <<tried, twice, failed>>
bnd  == <<calls, changes, errors>>
vars == <<fe, state, scan, oneshot, c, tuner, carrier, seen, bnd>>

StepSize      == fe.step_size
MaxDrift      == fe.max_drift
InversionAuto == fe.inversion_auto
CanRecover    == fe.recover

WAITFORLOCK    == {"TUNING_FAST", "TUNING_SLOW", "ZIGZAG_FAST", "ZIGZAG_SLOW", "DISEQC"}
SEARCHING_FAST == {"TUNING_FAST", "ZIGZAG_FAST"}
SEARCHING_SLOW == {"TUNING_SLOW", "ZIGZAG_SLOW"}
LOSTLOCK       == {"ZIGZAG_FAST", "ZIGZAG_SLOW"}

(* state & bits                                                            *)
Is(bits) == state \cap bits # {}

Flip(i) == IF i = "OFF" THEN "ON" ELSE "OFF"

(* The carriers there can be: at the offsets of the zigzag, either way.    *)
Offsets == {d \in -MaxDrift .. MaxDrift : d = 0 \/ (StepSize # 0 /\ d % StepSize = 0)}
At(f, i) == [frequency |-> f, inversion |-> i]
NOWHERE == At(MaxDrift + 1, "OFF")

Init ==
    /\ fe \in Frontends
    /\ state = {"IDLE"}
    /\ auto_step = 0 /\ auto_sub_step = 0 /\ started_auto_step = 0
    /\ check_wrapped = FALSE /\ inversion = "OFF" /\ oneshot = FALSE
    /\ c = At(0, "OFF") /\ tuner = NOWHERE /\ carrier = NOWHERE
    /\ tried = {} /\ twice = FALSE /\ failed = FALSE
    /\ calls = 0 /\ changes = 0 /\ errors = 0

---------------------------------------------------------------------------
(* dvb_frontend_swzigzag_autotune: the next place of the scan, as a record *)
(* of auto_step, auto_sub_step, lnb_drift and whether the inversion flips. *)

AutoInversion == ~InversionAuto /\ c.inversion = "AUTO"

(* A bug: a drift that is just allowed is left out.                        *)
WrapEarly(step) == IF step * StepSize >= MaxDrift THEN 0 ELSE step

(* auto_step is wrapped when the drift exceeds the maximum.                *)
Wrap(step) == IF step * StepSize > MaxDrift THEN 0 ELSE step

(* switch (auto_sub_step): which combinations exist.                       *)
Ready(step, sub) ==
    CASE sub = 0 -> TRUE
      [] sub = 1 -> AutoInversion
      [] sub = 2 -> step * StepSize # 0
      [] sub = 3 -> step * StepSize # 0 /\ AutoInversion
      [] OTHER   -> FALSE

(* The first that is ready, from auto_sub_step on and in the next step.    *)
Place ==
    LET here == IF Wrap(auto_step) = auto_step THEN auto_sub_step ELSE 0
        step == Wrap(auto_step)
        subs == {s \in here .. 3 : Ready(step, s)}
    IN  IF subs # {}
          THEN [step |-> step, sub |-> CHOOSE s \in subs : \A t \in subs : s <= t]
          ELSE [step |-> Wrap(step + 1), sub |-> 0]

Drift(p) == IF p.sub < 2 THEN p.step * StepSize ELSE -(p.step * StepSize)

Inversion(p) == IF p.sub \in {1, 3} THEN Flip(inversion) ELSE inversion

(* ops.set_frontend with the scan at p.                                    *)
Setting(p) == At(c.frequency + Drift(p), IF AutoInversion THEN Inversion(p) ELSE c.inversion)

CacheAfter(p) == c

Autotune(p, then) ==
    /\ inversion' = Inversion(p)
    /\ auto_step' = p.step
    /\ tried' = tried \cup {Setting(p)} /\ twice' = (twice \/ Setting(p) \in tried)
    /\ tuner' = Setting(p)
    /\ \/ /\ state' = then /\ auto_sub_step' = p.sub + 1
          /\ c' = CacheAfter(p)
          /\ UNCHANGED <<failed, errors>>
       \/ /\ errors < MaxErrors /\ errors' = errors + 1 /\ failed' = TRUE
          /\ state' = {"ERROR"} /\ auto_sub_step' = p.sub
          /\ c' = Setting(p)

---------------------------------------------------------------------------
(* dvb_frontend_swzigzag                                                   *)

(* Set like this, the demodulator locks.                                   *)
Hears(set) ==
    /\ carrier # NOWHERE /\ set.frequency = carrier.frequency
    /\ set.inversion = carrier.inversion \/ (InversionAuto /\ set.inversion = "AUTO")

Locked == ~Is({"RETUNE"}) /\ Hears(tuner)
Found == Is(WAITFORLOCK) /\ Locked

(* A bug: the search for a lost signal is always left to the demodulator.  *)
IdlesAlways(st) == st \cap LOSTLOCK # {}

(* "don't actually do anything if we're in the LOSTLOCK state, the         *)
(* frontend is set to FE_CAN_RECOVER, and the max_drift is 0"              *)
Idles(st) == CanRecover /\ MaxDrift = 0 /\ st \cap LOSTLOCK # {}

(* Nothing to do: no parameters, an error, or set once and left alone.     *)
Rest ==
    /\ \/ Is({"IDLE"})
       \/ ~Is({"IDLE"}) /\ oneshot /\ ~Is({"RETUNE"})
       \/ ~oneshot /\ Is({"TUNED"}) /\ Locked
       \/ ~oneshot /\ Is({"DISEQC"}) /\ ~Found
       \/ ~oneshot /\ Is({"ERROR"})
       \/ ~oneshot /\ Is(SEARCHING_FAST \cup SEARCHING_SLOW) /\ ~Found /\ Idles(state)
    /\ UNCHANGED vars

(* In scan mode, "we just set the frontend when asked and leave it alone". *)
TuneOnce ==
    /\ oneshot /\ Is({"RETUNE"})
    /\ tuner' = At(c.frequency, c.inversion)
    /\ \/ state' = {"TUNED"} /\ UNCHANGED <<failed, errors>>
       \/ state' = {"ERROR"} /\ errors < MaxErrors /\ errors' = errors + 1 /\ failed' = TRUE
    /\ UNCHANGED <<scan, oneshot, c, carrier, tried, twice, calls, changes>>

GetsLock ==
    /\ ~oneshot /\ Found
    /\ state' = {"TUNED"}
    /\ c' = IF AutoInversion THEN [c EXCEPT !.inversion = inversion] ELSE c
    /\ UNCHANGED <<scan, oneshot, tuner, carrier, seen, bnd>>

(* A bug: the scan is looked for past its last sub-step.                   *)
CompleteAtEnd(p, from, wrapped) == p.step = from /\ p.sub = 4 /\ wrapped

(* "if this attempt would hit where we started, indicate a complete        *)
(* iteration has occurred"                                                 *)
Complete(p, from, wrapped) == p.step = from /\ p.sub = 0 /\ wrapped

(* One attempt of a fast scan that began at step from, at the place p.     *)
Fast(p, from, wrapped, next) ==
    IF Complete(p, from, wrapped)
      THEN /\ state' = SEARCHING_SLOW
           /\ auto_step' = p.step /\ auto_sub_step' = p.sub /\ started_auto_step' = p.step
           /\ inversion' = Inversion(p) /\ check_wrapped' = wrapped
           /\ UNCHANGED <<c, tuner, seen, errors>>
      ELSE /\ Autotune(p, next)
           /\ started_auto_step' = from /\ check_wrapped' = (wrapped \/ state' # {"ERROR"})

Retune ==
    /\ ~oneshot /\ Is({"RETUNE"})
    /\ Fast([step |-> 0, sub |-> 0], 0, FALSE, {"TUNING_FAST"})
    /\ UNCHANGED <<oneshot, carrier, calls, changes>>

LosesLock ==
    /\ ~oneshot /\ Is({"TUNED"}) /\ ~Locked
    /\ IF Idles({"ZIGZAG_FAST"})
         THEN /\ state' = {"ZIGZAG_FAST"} /\ started_auto_step' = auto_step /\ check_wrapped' = FALSE
              /\ UNCHANGED <<auto_step, auto_sub_step, inversion, c, tuner, seen, errors>>
         ELSE Fast(Place, auto_step, FALSE, {"ZIGZAG_FAST"})
    /\ UNCHANGED <<oneshot, carrier, calls, changes>>

SearchFast ==
    /\ ~oneshot /\ Is(SEARCHING_FAST) /\ ~Found /\ ~Idles(state)
    /\ Fast(Place, started_auto_step, check_wrapped, state)
    /\ UNCHANGED <<oneshot, carrier, calls, changes>>

SearchSlow ==
    /\ ~oneshot /\ Is(SEARCHING_SLOW) /\ ~Found /\ ~Idles(state)
    /\ Autotune(Place, state)
    /\ UNCHANGED <<started_auto_step, check_wrapped, oneshot, carrier, calls, changes>>

Iteration ==
    /\ Rest \/ TuneOnce \/ GetsLock \/ Retune \/ LosesLock \/ SearchFast \/ SearchSlow
    /\ UNCHANGED fe

---------------------------------------------------------------------------
(* The user, between iterations (both hold the semaphore)                  *)

Call == calls < MaxCalls /\ calls' = calls + 1 /\ UNCHANGED <<changes, errors>>

(* dtv_set_frontend                                                        *)
SetFrontend(i) ==
    /\ Call
    /\ c' = At(0, i) /\ state' = {"RETUNE"}
    /\ tried' = {} /\ twice' = FALSE /\ failed' = FALSE
    /\ UNCHANGED <<scan, oneshot, tuner, carrier>>

(* FE_SET_TONE, FE_SET_VOLTAGE and the FE_DISEQC commands                  *)
Diseqc ==
    /\ Call
    /\ state' = {"DISEQC"}
    /\ UNCHANGED <<scan, oneshot, c, tuner, carrier, seen>>

SetTuneMode ==
    /\ Call
    /\ oneshot' = ~oneshot
    /\ UNCHANGED <<state, scan, c, tuner, carrier, seen>>

(* dvb_frontend_resume                                                     *)
Resume ==
    /\ Call
    /\ state' = {"RETUNE"} /\ tried' = {} /\ twice' = FALSE
    /\ UNCHANGED <<scan, oneshot, c, tuner, carrier, failed>>

CarrierMoves ==
    /\ changes < MaxChanges /\ changes' = changes + 1
    /\ carrier' \in {At(f, i) : f \in Offsets, i \in {"OFF", "ON"}} \cup {NOWHERE}
    /\ carrier' # carrier
    /\ UNCHANGED <<state, scan, oneshot, c, tuner, seen, calls, errors>>

---------------------------------------------------------------------------
Next ==
    \/ Iteration
    \/ /\ \/ \E i \in {"OFF", "ON", "AUTO"} : SetFrontend(i)
          \/ Diseqc \/ SetTuneMode \/ Resume \/ CarrierMoves
       /\ UNCHANGED fe

(* The frontend thread iterates: its waits have timeouts.                  *)
Spec == Init /\ [][Next]_vars /\ WF_vars(Iteration)

---------------------------------------------------------------------------
(* Properties                                                              *)

TypeOK ==
    /\ state \in {{s} : s \in {"IDLE", "RETUNE", "TUNING_FAST", "TUNED", "ZIGZAG_FAST",
                         "DISEQC", "ERROR"}} \cup {SEARCHING_SLOW}
    /\ auto_sub_step \in 0 .. 4 /\ inversion \in {"OFF", "ON"}
    /\ auto_step * StepSize <= MaxDrift

(* What the zigzag may try for the request in the cache.                   *)
Reach == {At(c.frequency + d, i) : d \in Offsets, i \in IF AutoInversion THEN {"OFF", "ON"} ELSE {c.inversion}}

(* The fast scan after a request tries nothing twice: "if we've run out of *)
(* trials at the fast speed", it drops back to slow, and its steps stay    *)
(* within the drift.                                                       *)
FastScanIsOnce == TypeOK /\ (state = {"TUNING_FAST"} => ~twice)

(* ... and gives up only when every offset was tried with every inversion, *)
(* around the frequency that was requested, which the attempts leave in    *)
(* the cache unless the demodulator refuses one.                           *)
FastScanIsComplete ==
    [][state = {"TUNING_FAST"} /\ state' = SEARCHING_SLOW =>
          tried = Reach /\ (~failed => c.frequency = 0)]_vars

(* A carrier that stays within reach is found, in a first search or after  *)
(* the lock was lost, wherever the scan is at that time.  Where the search *)
(* is left to the demodulator ("don't actually do anything if ...          *)
(* FE_CAN_RECOVER"), and after a DISEQC command, a carrier that comes back *)
(* at the setting in use ends in TUNED again.                              *)
FindsCarrier ==
    LET searched ==
            /\ (CanRecover => MaxDrift > 0) /\ ~oneshot /\ ~Is({"IDLE", "DISEQC", "ERROR"})
            /\ \E x \in Reach : Hears(x)
        left == Hears(tuner) /\ ~oneshot /\ ~Is({"IDLE", "RETUNE", "ERROR"})
    IN  <>[](/\ searched => state = {"TUNED"} /\ Hears(tuner)
             /\ left => state = {"TUNED"})
=============================================================================
