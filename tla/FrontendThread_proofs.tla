----------------------- MODULE FrontendThread_proofs -----------------------
(***************************************************************************)
(* What the frontend thread does, for every size of its parameters: the    *)
(* zigzag of its software tuning (module Swzigzag), and the order of its   *)
(* events and the sleep of FE_GET_EVENT (module FeEvents).                 *)
(***************************************************************************)
EXTENDS Swzigzag, FeEvents, TLAPS

---------------------------------------------------------------------------
(* The zigzag, for every step_size, drift and number of calls, changes of  *)
(* the carrier and failures.                                               *)

(* The settings a frontend can be asked for.                               *)
Inversions3 == {"OFF", "ON", "AUTO"}
Settings == [frequency : Int, inversion : Inversions3]

(* What the variables hold; state is one bit, but for the slow search.     *)
Types ==
    /\ fe \in Frontends
    /\ state \in {{s} : s \in {"IDLE", "RETUNE", "TUNING_FAST", "TUNED", "ZIGZAG_FAST",
                         "DISEQC", "ERROR"}} \cup {SEARCHING_SLOW}
    /\ auto_step \in Nat /\ auto_sub_step \in 0 .. 4
    /\ inversion \in {"OFF", "ON"} /\ c \in Settings
    /\ twice \in BOOLEAN /\ failed \in BOOLEAN

(* The offset of the present step of the zigzag, in the drift allowed.     *)
Here == auto_step * StepSize

InDrift == Here <= MaxDrift

(* A request begins with nothing tried, and the cache keeps its frequency  *)
(* as long as the demodulator refuses nothing.                             *)
Fresh == state = {"RETUNE"} => tried = {} /\ ~twice

Kept == ~failed => c.frequency = 0

(* The inversions the scan tries, and the one that it tried last.          *)
Inversions == IF AutoInversion THEN {"OFF", "ON"} ELSE {c.inversion}
Current    == IF AutoInversion THEN inversion ELSE c.inversion

(* The scan has been at offset d with inversion i when it has reached the  *)
(* offset h: everything nearer, and of h and -h what its sub-steps say.    *)
Visited(h, sub, cur, d, i) ==
    \/ -h < d /\ d < h
    \/ d = h /\ (sub > 1 \/ i = cur)
    \/ d = -h /\ (sub = 4 \/ (sub = 3 /\ i = cur))

(* What was tried is what the scan has visited, no more and no less.       *)
Scanned ==
    \A x \in Settings : x \in tried <=>
        /\ x.frequency - c.frequency \in Offsets
        /\ x.inversion \in Inversions
        /\ Visited(Here, auto_sub_step, Current, x.frequency - c.frequency, x.inversion)

(* The fast scan of a request starts from the middle and knows when it is  *)
(* there again; without a step_size nothing can be said of what it tries.  *)
Scanning ==
    state = {"TUNING_FAST"} =>
        /\ started_auto_step = 0 /\ check_wrapped = TRUE /\ auto_sub_step > 0
        /\ StepSize > 0 => ~twice /\ tried \subseteq Settings /\ Scanned

IInv == Types /\ InDrift /\ Fresh /\ Kept /\ Scanning

(* No multiple of z lies between two neighbours.                           *)
LEMMA Multiple ==
    ASSUME NEW z \in Nat \ {0}, NEW s \in Nat, NEW d \in Int, d % z = 0,
           -((s + 1) * z) < d, d < (s + 1) * z
    PROVE  -(s * z) <= d /\ d <= s * z
<1>1. PICK k \in Int : d = z * k
  <2>1. d = z * (d \div z) /\ d \div z \in Int
    OBVIOUS
  <2> QED
    BY <2>1
<1>2. k <= s
  <2>1. z * k < (s + 1) * z
    BY <1>1
  <2>2. k < s + 1
    BY <2>1
  <2> QED
    BY <2>2
<1>3. k >= -s
  <2>1. -((s + 1) * z) < z * k
    BY <1>1
  <2>2. k > -(s + 1)
    BY <2>1
  <2> QED
    BY <2>2
<1>4. z * k <= s * z
  BY <1>2
<1>5. -(s * z) <= z * k
  BY <1>3
<1> QED
  BY <1>1, <1>4, <1>5

(* Facts on the multiples of step_size.                                    *)
LEMMA Product ==
    ASSUME NEW z \in Nat, NEW s \in Nat
    PROVE  /\ s * z \in Nat /\ (s + 1) * z = s * z + z /\ 0 * z = 0
           /\ z # 0 => (s * z) % z = 0 /\ (-(s * z)) % z = 0
<1>1. s * z \in Nat /\ (s + 1) * z = s * z + z /\ 0 * z = 0
  OBVIOUS
<1>2. ASSUME z # 0 PROVE (s * z) % z = 0
  BY <1>2
<1>3. ASSUME z # 0 PROVE (-(s * z)) % z = 0
  BY <1>3
<1> QED
  BY <1>1, <1>2, <1>3

(* What is known of a frontend.                                            *)
LEMMA FrontendTypes ==
    ASSUME fe \in Frontends
    PROVE  StepSize \in Nat /\ MaxDrift \in Nat
BY SettingsAssumption DEF SettingsAssumption, StepSize, MaxDrift

(* Nothing is left to try in this step of the zigzag.                      *)
Exhausted(h, sub) == IF h = 0 THEN sub > 1 \/ (sub = 1 /\ ~AutoInversion)
                              ELSE sub = 4 \/ (sub = 3 /\ ~AutoInversion)

(* Where the scan goes on.                                                 *)
PlaceIs(p) ==
    \/ p.step = auto_step /\ p.sub = 0 /\ auto_sub_step = 0
    \/ p.step = auto_step /\ p.sub = 1 /\ auto_sub_step \in 0 .. 1 /\ AutoInversion
    \/ /\ p.step = auto_step /\ p.sub = 2 /\ Here # 0
       /\ auto_sub_step = 2 \/ (auto_sub_step = 1 /\ ~AutoInversion)
    \/ p.step = auto_step /\ p.sub = 3 /\ Here # 0 /\ auto_sub_step = 3 /\ AutoInversion
    \/ Exhausted(Here, auto_sub_step) /\ p.sub = 0 /\ p.step = Wrap(auto_step + 1)

(* The switch over auto_sub_step goes to one of these places.              *)
LEMMA PlaceCases ==
    ASSUME Types, InDrift
    PROVE  PlaceIs(Place)
<1> DEFINE subs == {s \in auto_sub_step .. 3 : Ready(auto_step, s)}
<1>1. StepSize \in Nat /\ MaxDrift \in Nat
  BY FrontendTypes DEF Types
<1>2. Here \in Nat
  BY <1>1, Product DEF Here, Types
<1>3. Wrap(auto_step) = auto_step
  BY <1>1, <1>2 DEF Wrap, InDrift, Here
<1>4. Place = IF subs # {} THEN [step |-> auto_step, sub |-> CHOOSE s \in subs : \A t \in subs : s <= t]
              ELSE [step |-> Wrap(auto_step + 1), sub |-> 0]
  BY <1>3 DEF Place
<1>5. \A s \in 0 .. 3 : s \in subs <=>
        /\ auto_sub_step <= s
        /\ s = 1 => AutoInversion
        /\ s = 2 => Here # 0
        /\ s = 3 => Here # 0 /\ AutoInversion
  BY DEF Ready, Types, Here
<1>6. subs \subseteq 0 .. 3
  BY DEF Types
<1> HIDE DEF subs
<1>7. CASE subs = {}
  <2>1. Exhausted(Here, auto_sub_step)
    BY <1>5, <1>7, <1>2 DEF Exhausted, Types
  <2> QED
    BY <1>4, <1>7, <2>1 DEF PlaceIs
<1>8. CASE subs # {}
  <2>1. \E s \in subs : \A t \in subs : s <= t
    <3>1. CASE 0 \in subs
      BY <3>1, <1>6
    <3>2. CASE 0 \notin subs /\ 1 \in subs
      BY <3>2, <1>6
    <3>3. CASE 0 \notin subs /\ 1 \notin subs /\ 2 \in subs
      BY <3>3, <1>6
    <3>4. CASE 0 \notin subs /\ 1 \notin subs /\ 2 \notin subs /\ 3 \in subs
      BY <3>4, <1>6
    <3>5. PICK u \in subs : u \in 0 .. 3
      BY <1>6, <1>8
    <3>6. u = 0 \/ u = 1 \/ u = 2 \/ u = 3
      BY <3>5
    <3>7. 0 \in subs \/ 1 \in subs \/ 2 \in subs \/ 3 \in subs
      BY <3>6
    <3> QED
      BY <3>1, <3>2, <3>3, <3>4, <3>7
  <2>2. PICK s \in subs : s = (CHOOSE u \in subs : \A t \in subs : u <= t) /\ \A t \in subs : s <= t
    BY <2>1
  <2>3. Place.step = auto_step /\ Place.sub = s
    BY <1>4, <1>8, <2>2
  <2>4. s \in 0 .. 3
    BY <1>6
  <2>5. /\ auto_sub_step <= s /\ (s = 1 => AutoInversion) /\ (s = 2 => Here # 0)
        /\ s = 3 => Here # 0 /\ AutoInversion
    BY <1>5, <2>4
  <2>6. \A t \in 0 .. 3 : t < s => t \notin subs
    <3>1. \A t \in subs : s <= t
      BY <2>2
    <3> QED
      BY <3>1, <2>4
  <2>7. s > 0 => auto_sub_step > 0
    BY <2>6, <1>5 DEF Types
  <2>8. s > 1 => auto_sub_step > 1 \/ ~AutoInversion
    BY <2>6, <1>5 DEF Types
  <2>9. s > 2 => auto_sub_step > 2
    BY <2>6, <1>5, <2>5, <2>4 DEF Types
  <2> QED
    BY <2>3, <2>4, <2>5, <2>7, <2>8, <2>9 DEF PlaceIs, Types
<1> QED
  BY <1>7, <1>8

(* ... which are in the drift.                                             *)
LEMMA PlaceTypes ==
    ASSUME Types, InDrift
    PROVE  /\ Place.step \in Nat /\ Place.sub \in 0 .. 3
           /\ Place.step * StepSize <= MaxDrift
<1>1. StepSize \in Nat /\ MaxDrift \in Nat
  BY FrontendTypes DEF Types
<1>2. Wrap(auto_step + 1) \in Nat /\ Wrap(auto_step + 1) * StepSize <= MaxDrift
  <2>1. 0 * StepSize = 0 /\ (auto_step + 1) * StepSize \in Nat
    BY <1>1, Product DEF Types
  <2> QED
    BY <1>1, <2>1 DEF Wrap, Types
<1> QED
  BY <1>2, PlaceCases DEF PlaceIs, Types, InDrift, Here

(* What an attempt at one place adds to the places that were visited.      *)
Adds(h, sub, cur, h2, sub2, cur2, d0) ==
    /\ ~Visited(h, sub, cur, d0, cur2)
    /\ \A d \in Offsets, i \in Inversions :
         Visited(h2, sub2, cur2, d, i) <=> Visited(h, sub, cur, d, i) \/ (d = d0 /\ i = cur2)

(* At the same offset with the other inversion (auto_sub_step 1).          *)
LEMMA AddsFlipped ==
    ASSUME NEW h \in Nat, NEW cur, NEW cur2, cur # cur2, Inversions = {cur, cur2}, Offsets \subseteq Int
    PROVE  Adds(h, 1, cur, h, 2, cur2, h)
BY DEF Adds, Visited

(* At the offset on the other side (auto_sub_step 2).                      *)
LEMMA AddsBelow ==
    ASSUME NEW h \in Nat, h # 0, NEW sub \in 1 .. 2, NEW cur, Offsets \subseteq Int,
           sub = 1 => Inversions = {cur}
    PROVE  Adds(h, sub, cur, h, 3, cur, -h)
BY DEF Adds, Visited

(* ... with the other inversion (auto_sub_step 3).                         *)
LEMMA AddsBelowFlipped ==
    ASSUME NEW h \in Nat, h # 0, NEW cur, NEW cur2, cur # cur2, Inversions = {cur, cur2}, Offsets \subseteq Int
    PROVE  Adds(h, 3, cur, h, 4, cur2, -h)
BY DEF Adds, Visited

(* At the next offset, when this one is exhausted.                         *)
LEMMA AddsNext ==
    ASSUME NEW z \in Nat \ {0}, NEW s \in Nat, NEW sub \in 1 .. 4, NEW cur,
           Offsets \subseteq Int, \A d \in Offsets : d % z = 0,
           Exhausted(s * z, sub), ~AutoInversion => Inversions = {cur}
    PROVE  Adds(s * z, sub, cur, (s + 1) * z, 1, cur, (s + 1) * z)
<1> DEFINE h == s * z  n == (s + 1) * z
<1>1. h \in Nat /\ n = h + z /\ (h = 0 \/ h # 0)
  BY Product
<1>2. \A d \in Offsets : -n < d /\ d < n => -h <= d /\ d <= h
  BY Multiple
<1> HIDE DEF h, n
<1>3. Exhausted(h, sub)
  BY DEF h
<1>4. ASSUME NEW d \in Offsets, NEW i \in Inversions, -h <= d, d <= h
      PROVE  Visited(h, sub, cur, d, i)
  BY <1>1, <1>3, <1>4 DEF Visited, Exhausted
<1>5. \A d \in Offsets, i \in Inversions :
        Visited(n, 1, cur, d, i) <=> Visited(h, sub, cur, d, i) \/ (d = n /\ i = cur)
  <2> SUFFICES ASSUME NEW d \in Offsets, NEW i \in Inversions
               PROVE  Visited(n, 1, cur, d, i) <=> Visited(h, sub, cur, d, i) \/ (d = n /\ i = cur)
    OBVIOUS
  <2>1. d \in Int /\ (-n < d /\ d < n => -h <= d /\ d <= h)
    BY <1>2
  <2>2. Visited(n, 1, cur, d, i) <=> (-n < d /\ d < n) \/ (d = n /\ i = cur)
    BY <2>1, <1>1 DEF Visited
  <2>3. Visited(h, sub, cur, d, i) => -n < d /\ d < n
    BY <2>1, <1>1 DEF Visited
  <2> QED
    BY <2>1, <2>2, <2>3, <1>4
<1>6. ~Visited(h, sub, cur, n, cur)
  BY <1>1 DEF Visited
<1>7. Adds(h, sub, cur, n, 1, cur, n)
  BY <1>5, <1>6 DEF Adds
<1> QED
  BY <1>7 DEF h, n

(* An attempt of the fast scan is at a place it has not been at, and the   *)
(* places it has been at are still what was tried.                         *)
LEMMA Attempt ==
    ASSUME Types, InDrift, StepSize # 0, auto_sub_step > 0, tried \subseteq Settings, Scanned, ~twice,
           Autotune(Place, {"TUNING_FAST"}), ~Complete(Place, 0, TRUE), fe' = fe,
           state' = {"TUNING_FAST"}
    PROVE  auto_sub_step' > 0 /\ ~twice' /\ tried' \subseteq Settings /\ Scanned'
<1> DEFINE p == Place
<1>1. StepSize \in Nat \ {0} /\ MaxDrift \in Nat /\ auto_step \in Nat
  BY FrontendTypes DEF Types
<1>2. p.step \in Nat /\ p.sub \in 0 .. 3 /\ p.step * StepSize <= MaxDrift
  BY PlaceTypes
<1>3. PlaceIs(p)
  BY PlaceCases
<1> HIDE DEF p
<1>4. /\ c' = c /\ auto_step' = p.step /\ auto_sub_step' = p.sub + 1
      /\ inversion' = Inversion(p) /\ tried' = tried \cup {Setting(p)}
      /\ twice' = (twice \/ Setting(p) \in tried)
  BY DEF Autotune, CacheAfter, p
<1>5. /\ StepSize' = StepSize /\ MaxDrift' = MaxDrift /\ Offsets' = Offsets
      /\ AutoInversion' = AutoInversion /\ Inversions' = Inversions
  BY <1>4 DEF StepSize, MaxDrift, Offsets, AutoInversion, InversionAuto, Inversions
<1>6. Offsets \subseteq Int /\ \A d \in Offsets : d % StepSize = 0
  BY <1>1 DEF Offsets
<1>7. /\ Current' = IF AutoInversion THEN Inversion(p) ELSE c.inversion
      /\ Here' = p.step * StepSize /\ Here \in Nat /\ Here' \in Nat
      /\ Setting(p) = At(c.frequency + Drift(p), Current')
  BY <1>1, <1>2, <1>4, <1>5, Product DEF Current, Here, Setting
<1>8. /\ inversion \in {"OFF", "ON"} /\ Flip(inversion) \in {"OFF", "ON"} /\ Flip(inversion) # inversion
      /\ Inversions = IF AutoInversion THEN {inversion, Flip(inversion)} ELSE {c.inversion}
  BY DEF Types, Flip, Inversions
<1>9. Drift(p) \in Offsets /\ Current' \in Inversions
  <2>1. p.step * StepSize \in Nat /\ (p.step * StepSize) % StepSize = 0 /\ (-(p.step * StepSize)) % StepSize = 0
    BY <1>1, <1>2, Product
  <2>2. Drift(p) \in Offsets
    BY <2>1, <1>1, <1>2 DEF Drift, Offsets
  <2> QED
    BY <2>2, <1>7, <1>8 DEF Inversion
<1>10. Adds(Here, auto_sub_step, Current, Here', auto_sub_step', Current', Drift(p))
  <2>1. auto_sub_step \in 1 .. 4 /\ Drift(p) \in Int
    <3>1. auto_sub_step \in 1 .. 4
      BY DEF Types
    <3> QED
      BY <3>1, <1>6, <1>9
  <2>2. CASE p.sub # 0
    <3>1. Here' = Here /\ auto_sub_step' \in 2 .. 4
      BY <2>2, <1>2, <1>3, <1>4, <1>7 DEF PlaceIs, Here
    <3>2. Drift(p) = (IF p.sub < 2 THEN Here ELSE -Here)
      BY <1>7, <3>1 DEF Drift
    <3>3. Adds(Here, auto_sub_step, Current, Here, auto_sub_step', Current', Drift(p))
      <4>1. CASE p.sub = 1
        <5>1. AutoInversion /\ auto_sub_step = 1 /\ auto_sub_step' = 2
          BY <4>1, <2>1, <1>3, <1>4 DEF PlaceIs
        <5>2. Current = inversion /\ Current' = Flip(inversion)
          BY <5>1, <4>1, <1>7 DEF Current, Inversion
        <5>3. Adds(Here, 1, inversion, Here, 2, Flip(inversion), Here)
          BY <5>1, <1>6, <1>7, <1>8, AddsFlipped
        <5> QED
          BY <5>1, <5>2, <5>3, <3>2, <4>1
      <4>2. CASE p.sub = 2
        <5>1. Here # 0 /\ (auto_sub_step = 2 \/ (auto_sub_step = 1 /\ ~AutoInversion)) /\ auto_sub_step' = 3
          BY <4>2, <2>1, <1>3, <1>4 DEF PlaceIs
        <5>2. Current' = Current /\ (~AutoInversion => Inversions = {Current})
          BY <4>2, <1>7, <1>8 DEF Current, Inversion
        <5>3. Adds(Here, auto_sub_step, Current, Here, 3, Current, -Here)
          <6>1. auto_sub_step \in 1 .. 2 /\ (auto_sub_step = 1 => Inversions = {Current})
            BY <5>1, <5>2
          <6>2. Here \in Nat /\ Here # 0 /\ Offsets \subseteq Int
            BY <5>1, <1>6, <1>7
          <6> QED
            BY ONLY <6>1, <6>2, AddsBelow
        <5> QED
          BY <5>1, <5>2, <5>3, <3>2, <4>2
      <4>3. CASE p.sub = 3
        <5>1. AutoInversion /\ auto_sub_step = 3 /\ auto_sub_step' = 4 /\ Here # 0
          BY <4>3, <2>1, <1>3, <1>4 DEF PlaceIs
        <5>2. Current = inversion /\ Current' = Flip(inversion)
          BY <5>1, <4>3, <1>7 DEF Current, Inversion
        <5>3. Adds(Here, 3, inversion, Here, 4, Flip(inversion), -Here)
          BY <5>1, <1>6, <1>7, <1>8, AddsBelowFlipped
        <5> QED
          BY <5>1, <5>2, <5>3, <3>2, <4>3
      <4> QED
        BY <4>1, <4>2, <4>3, <2>2, <1>2
    <3> QED
      BY <3>1, <3>3
  <2>3. CASE p.sub = 0
    <3>1. Exhausted(Here, auto_sub_step) /\ p.step = Wrap(auto_step + 1)
      BY <2>1, <2>3, <1>3 DEF PlaceIs
    <3>2. p.step = auto_step + 1
      BY <3>1, <2>3 DEF Complete, Wrap, p
    <3>3. auto_sub_step' = 1 /\ Drift(p) = (auto_step + 1) * StepSize /\ Here' = (auto_step + 1) * StepSize
      BY <2>3, <3>2, <1>4, <1>7 DEF Drift
    <3>4. Current' = Current /\ (~AutoInversion => Inversions = {Current})
      BY <2>3, <1>7, <1>8 DEF Current, Inversion
    <3>5. Adds(auto_step * StepSize, auto_sub_step, Current, (auto_step + 1) * StepSize, 1, Current,
               (auto_step + 1) * StepSize)
      BY <1>1, <1>6, <2>1, <3>1, <3>4, AddsNext DEF Here
    <3> QED
      BY <3>3, <3>4, <3>5 DEF Here
  <2> QED
    BY <2>2, <2>3
<1>11. Setting(p) \in Settings /\ Setting(p).frequency - c.frequency = Drift(p) /\ Setting(p).inversion = Current'
  <2>1. Drift(p) \in Int /\ c.frequency \in Int /\ c.inversion \in Inversions3
    BY <1>6, <1>9 DEF Types, Settings
  <2>2. Current' \in Inversions3
    BY <1>8, <1>9, <2>1 DEF Inversions3
  <2> QED
    BY <1>7, <2>1, <2>2 DEF At, Settings
<1>12. Setting(p) \notin tried
  BY <1>10, <1>11 DEF Scanned, Adds
<1>13. \A x \in Settings : x = Setting(p) <=> x.frequency - c.frequency = Drift(p) /\ x.inversion = Current'
  <2> SUFFICES ASSUME NEW x \in Settings
               PROVE  x = Setting(p) <=> x.frequency - c.frequency = Drift(p) /\ x.inversion = Current'
    OBVIOUS
  <2>1. x.frequency \in Int /\ c.frequency \in Int /\ Drift(p) \in Int /\ x = At(x.frequency, x.inversion)
    BY <1>6, <1>9 DEF Types, Settings, At
  <2>2. ASSUME x.frequency - c.frequency = Drift(p), x.inversion = Current' PROVE x = Setting(p)
    <3>1. x.frequency = c.frequency + Drift(p)
      BY <2>1, <2>2
    <3> QED
      BY <2>1, <2>2, <3>1, <1>7
  <2> QED
    BY <1>11, <2>2
<1>14. Scanned'
  <2> SUFFICES ASSUME NEW x \in Settings
               PROVE  x \in tried' <=>
                        /\ x.frequency - c.frequency \in Offsets /\ x.inversion \in Inversions
                        /\ Visited(Here', auto_sub_step', Current', x.frequency - c.frequency, x.inversion)
    BY <1>4, <1>5 DEF Scanned, Visited
  <2>1. x \in tried' <=> x \in tried \/ x = Setting(p)
    BY <1>4
  <2>2. x \in tried <=>
          /\ x.frequency - c.frequency \in Offsets /\ x.inversion \in Inversions
          /\ Visited(Here, auto_sub_step, Current, x.frequency - c.frequency, x.inversion)
    BY DEF Scanned
  <2> QED
    BY <2>1, <2>2, <1>9, <1>10, <1>13 DEF Adds
<1> QED
  <2>1. auto_sub_step' > 0
    BY <1>2, <1>4
  <2>2. ~twice' /\ tried' \subseteq Settings
    BY <1>4, <1>11, <1>12
  <2> QED
    BY <2>1, <2>2, <1>14

(* When the next place is the first one again, all have been visited.      *)
LEMMA Completes ==
    ASSUME Types, InDrift, StepSize # 0, auto_sub_step > 0, tried \subseteq Settings, Scanned,
           Complete(Place, 0, TRUE)
    PROVE  tried = Reach
<1>1. StepSize \in Nat \ {0} /\ MaxDrift \in Nat /\ auto_step \in Nat
  BY FrontendTypes DEF Types
<1>2. Exhausted(Here, auto_sub_step) /\ Wrap(auto_step + 1) = 0
  BY PlaceCases DEF PlaceIs, Complete
<1>3. (auto_step + 1) * StepSize > MaxDrift /\ Here \in Nat
  BY <1>1, <1>2, Product DEF Wrap, Here
<1>4. \A d \in Offsets : d \in Int /\ -Here <= d /\ d <= Here
  <2> SUFFICES ASSUME NEW d \in Offsets PROVE d \in Int /\ -Here <= d /\ d <= Here
    OBVIOUS
  <2>1. d \in Int /\ -MaxDrift <= d /\ d <= MaxDrift /\ d % StepSize = 0
    BY <1>1 DEF Offsets
  <2>2. (auto_step + 1) * StepSize \in Nat
    BY <1>1, Product
  <2>3. -((auto_step + 1) * StepSize) < d /\ d < (auto_step + 1) * StepSize
    BY ONLY <2>1, <2>2, <1>1, <1>3
  <2> QED
    BY <2>1, <2>3, <1>1, Multiple DEF Here
<1>5. ASSUME NEW d \in Offsets, NEW i \in Inversions
      PROVE  Visited(Here, auto_sub_step, Current, d, i)
  BY <1>2, <1>3, <1>4 DEF Visited, Exhausted, Inversions, Current, Types
<1>6. \A x \in Settings : x \in tried <=> x.frequency - c.frequency \in Offsets /\ x.inversion \in Inversions
  BY <1>5 DEF Scanned
<1>7. Reach = {At(c.frequency + d, i) : d \in Offsets, i \in Inversions}
  BY DEF Reach, Inversions
<1>8. c.frequency \in Int /\ Inversions \subseteq Inversions3
  BY DEF Types, Settings, Inversions, Inversions3
<1>9. Reach \subseteq tried
  <2> SUFFICES ASSUME NEW d \in Offsets, NEW i \in Inversions PROVE At(c.frequency + d, i) \in tried
    BY <1>7
  <2>1. At(c.frequency + d, i) \in Settings
    BY <1>4, <1>8 DEF At, Settings
  <2>2. At(c.frequency + d, i).frequency - c.frequency = d /\ At(c.frequency + d, i).inversion = i
    BY <1>4, <1>8 DEF At
  <2> QED
    BY <1>6, <2>1, <2>2
<1>10. tried \subseteq Reach
  <2> SUFFICES ASSUME NEW x \in tried PROVE x \in Reach
    OBVIOUS
  <2>1. x \in Settings /\ x.frequency - c.frequency \in Offsets /\ x.inversion \in Inversions
    BY <1>6
  <2>2. x = At(c.frequency + (x.frequency - c.frequency), x.inversion)
    BY <2>1, <1>8 DEF At, Settings
  <2> QED
    BY <2>1, <2>2, <1>7
<1> QED
  BY <1>9, <1>10

(* An attempt leaves the types, and the drift, as they have to be.         *)
LEMMA AutotuneTypes ==
    ASSUME Types, InDrift, NEW p, p.step \in Nat, p.sub \in 0 .. 3, p.step * StepSize <= MaxDrift,
           NEW then, then \in {{"TUNING_FAST"}, {"ZIGZAG_FAST"}, SEARCHING_SLOW},
           Autotune(p, then), fe' = fe
    PROVE  /\ Types' /\ InDrift'
           /\ state' \in {then, {"ERROR"}}
           /\ ~failed' => ~failed /\ c' = c
<1>1. Inversion(p) \in {"OFF", "ON"}
  BY DEF Inversion, Flip, Types
<1>2. Setting(p) \in Settings
  <2>1. StepSize \in Nat /\ p.step * StepSize \in Nat
    BY FrontendTypes, Product DEF Types
  <2>2. Drift(p) \in Int
    BY <2>1 DEF Drift
  <2>3. c.frequency \in Int /\ c.inversion \in Inversions3
    BY DEF Types, Settings
  <2> QED
    BY <1>1, <2>2, <2>3 DEF Setting, At, Settings, Inversions3
<1>3. auto_step' \in Nat /\ inversion' \in {"OFF", "ON"} /\ twice' \in BOOLEAN
  BY <1>1 DEF Autotune, Types
<1>4. /\ state' \in {then, {"ERROR"}}
      /\ auto_sub_step' \in 0 .. 4 /\ c' \in Settings /\ failed' \in BOOLEAN
      /\ ~failed' => ~failed /\ c' = c
  <2>1. CASE c' = c /\ failed' = failed /\ state' = then /\ auto_sub_step' = p.sub + 1
    BY <2>1 DEF Types
  <2>2. CASE c' = Setting(p) /\ failed' = TRUE /\ state' = {"ERROR"} /\ auto_sub_step' = p.sub
    BY <2>2, <1>2
  <2> QED
    BY <2>1, <2>2 DEF Autotune, CacheAfter
<1>5. InDrift'
  BY DEF Autotune, InDrift, Here, StepSize, MaxDrift
<1> QED
  BY <1>3, <1>4, <1>5 DEF Types

(* So does a step of a fast scan.                                          *)
LEMMA FastTypes ==
    ASSUME Types, InDrift, NEW p, p.step \in Nat, p.sub \in 0 .. 3, p.step * StepSize <= MaxDrift,
           NEW from, NEW wrapped, NEW next, next \in {{"TUNING_FAST"}, {"ZIGZAG_FAST"}},
           Fast(p, from, wrapped, next), fe' = fe
    PROVE  /\ Types' /\ InDrift'
           /\ state' \in {next, {"ERROR"}, SEARCHING_SLOW}
           /\ ~failed' => ~failed /\ c' = c
<1>1. CASE Complete(p, from, wrapped)
  <2>1. Inversion(p) \in {"OFF", "ON"}
    BY DEF Inversion, Flip, Types
  <2>2. /\ state' = SEARCHING_SLOW /\ auto_step' = p.step /\ auto_sub_step' = p.sub
        /\ inversion' = Inversion(p) /\ c' = c /\ twice' = twice /\ failed' = failed
    BY <1>1 DEF Fast, seen
  <2> QED
    BY <2>1, <2>2 DEF Types, InDrift, Here, StepSize, MaxDrift
<1>2. CASE ~Complete(p, from, wrapped)
  BY <1>2, AutotuneTypes DEF Fast
<1> QED
  BY <1>1, <1>2

(* Changes of the carrier or the mode, and an iteration that rests.        *)
LEMMA SameScan ==
    ASSUME IInv, UNCHANGED <<fe, state, scan, c, seen>>
    PROVE  IInv'
BY DEF IInv, Types, InDrift, Fresh, Kept, Scanning, Scanned, Visited, Here, Current, Inversions,
       AutoInversion, InversionAuto, StepSize, MaxDrift, Offsets, scan, seen

(* The states are different.                                               *)
LEMMA FastStates ==
    /\ {"TUNING_FAST"} # {"RETUNE"} /\ {"ZIGZAG_FAST"} # {"RETUNE"} /\ {"ERROR"} # {"RETUNE"}
    /\ {"ZIGZAG_FAST"} # {"TUNING_FAST"} /\ {"ERROR"} # {"TUNING_FAST"}
    /\ {"TUNED"} # {"RETUNE"} /\ {"TUNED"} # {"TUNING_FAST"}
    /\ {"DISEQC"} # {"RETUNE"} /\ {"DISEQC"} # {"TUNING_FAST"}
    /\ {"RETUNE"} # {"TUNING_FAST"} /\ {"IDLE"} # {"RETUNE"} /\ {"IDLE"} # {"TUNING_FAST"}
    /\ SEARCHING_SLOW # {"RETUNE"} /\ SEARCHING_SLOW # {"TUNING_FAST"} /\ SEARCHING_SLOW # {"ERROR"}
    /\ SEARCHING_SLOW # {"ZIGZAG_FAST"} /\ SEARCHING_SLOW # {"TUNED"}
<1>1. "TUNING_SLOW" \in SEARCHING_SLOW
  BY DEF SEARCHING_SLOW
<1> QED
  BY <1>1

(* The first attempt of a request, in the middle.                          *)
LEMMA RetuneKeeps ==
    ASSUME IInv, Retune, fe' = fe
    PROVE  IInv'
<1> DEFINE p == [step |-> 0, sub |-> 0]
<1>1. p.step = 0 /\ p.sub = 0
  OBVIOUS
<1>2. StepSize \in Nat /\ MaxDrift \in Nat /\ 0 * StepSize = 0
  BY FrontendTypes, Product DEF IInv, Types
<1>3. Fast(p, 0, FALSE, {"TUNING_FAST"})
  BY DEF Retune
<1>4. state = {"RETUNE"}
  BY DEF Retune, Is, IInv, Types, SEARCHING_SLOW
<1>5. tried = {} /\ ~twice
  BY <1>4 DEF IInv, Fresh
<1> HIDE DEF p
<1>6. /\ Types' /\ InDrift' /\ state' \in {{"TUNING_FAST"}, {"ERROR"}, SEARCHING_SLOW}
      /\ ~failed' => ~failed /\ c' = c
  <2>1. p.step \in Nat /\ p.sub \in 0 .. 3 /\ p.step * StepSize <= MaxDrift
    BY <1>1, <1>2
  <2> QED
    BY <2>1, <1>3, FastTypes DEF IInv
<1>7. Fresh' /\ Kept'
  BY <1>6, FastStates DEF IInv, Fresh, Kept
<1>8. ASSUME state' = {"TUNING_FAST"}
      PROVE  /\ started_auto_step' = 0 /\ check_wrapped' = TRUE /\ auto_sub_step' > 0
             /\ ~twice' /\ tried' \subseteq Settings /\ Scanned'
  <2>1. /\ Autotune(p, {"TUNING_FAST"}) /\ started_auto_step' = 0
        /\ check_wrapped' = (FALSE \/ state' # {"ERROR"})
    BY <1>3, <1>8, FastStates DEF Fast, Complete
  <2>2. check_wrapped' = TRUE
    BY <2>1, <1>8, FastStates
  <2>3. /\ c' = c /\ auto_step' = 0 /\ auto_sub_step' = 1 /\ inversion' = inversion
        /\ tried' = {Setting(p)} /\ ~twice'
    <3>1. Inversion(p) = inversion
      BY <1>1 DEF Inversion
    <3>2. /\ c' = c /\ auto_step' = p.step /\ auto_sub_step' = p.sub + 1 /\ inversion' = Inversion(p)
          /\ tried' = tried \cup {Setting(p)} /\ twice' = (twice \/ Setting(p) \in tried)
      BY <1>8, <2>1, FastStates DEF Autotune, CacheAfter
    <3>3. tried' = {Setting(p)} /\ ~twice'
      BY <1>5, <3>2
    <3> QED
      BY <1>1, <3>1, <3>2, <3>3
  <2>4. /\ Offsets' = Offsets /\ Inversions' = Inversions /\ Current' = Current /\ Here' = 0
    BY <1>2, <2>3 DEF StepSize, MaxDrift, Offsets, AutoInversion, InversionAuto, Inversions, Current, Here
  <2>5. Setting(p) = At(c.frequency, Current)
    <3>1. Inversion(p) = inversion /\ Drift(p) = 0
      BY <1>1, <1>2 DEF Inversion, Drift
    <3>2. c.frequency + 0 = c.frequency
      BY DEF IInv, Types, Settings
    <3> QED
      BY <3>1, <3>2 DEF Setting, Current
  <2>6. c.frequency \in Int /\ Current \in Inversions /\ Current \in Inversions3 /\ 0 \in Offsets
    BY <1>2 DEF IInv, Types, Settings, Current, Inversions, Inversions3, Offsets
  <2>7. Scanned'
    <3> SUFFICES ASSUME NEW x \in Settings
                 PROVE  x \in tried' <=>
                          /\ x.frequency - c.frequency \in Offsets /\ x.inversion \in Inversions
                          /\ Visited(0, 1, Current, x.frequency - c.frequency, x.inversion)
      BY <2>3, <2>4 DEF Scanned, Visited
    <3>1. x.frequency \in Int /\ x = At(x.frequency, x.inversion)
      BY DEF Settings, At
    <3>2. Visited(0, 1, Current, x.frequency - c.frequency, x.inversion)
            <=> x.frequency = c.frequency /\ x.inversion = Current
      BY <2>6, <3>1 DEF Visited
    <3>3. x \in tried' <=> x.frequency = c.frequency /\ x.inversion = Current
      BY <2>3, <2>5, <3>1 DEF At
    <3> QED
      BY <2>6, <3>2, <3>3
  <2>8. tried' \subseteq Settings
    BY <2>3, <2>5, <2>6 DEF At, Settings
  <2> QED
    BY <2>1, <2>2, <2>3, <2>7, <2>8
<1> QED
  BY <1>6, <1>7, <1>8 DEF IInv, Scanning

(* The lock is lost: a scan that begins where the last one ended.          *)
LEMMA LosesLockKeeps ==
    ASSUME IInv, LosesLock, fe' = fe
    PROVE  IInv'
<1>1. /\ Types' /\ InDrift' /\ state' \in {{"ZIGZAG_FAST"}, {"ERROR"}, SEARCHING_SLOW}
      /\ ~failed' => ~failed /\ c' = c
  <2>1. CASE Idles({"ZIGZAG_FAST"})
    BY <2>1 DEF LosesLock, IInv, Types, InDrift, Here, StepSize, MaxDrift, seen
  <2>2. CASE ~Idles({"ZIGZAG_FAST"})
    <3>1. Fast(Place, auto_step, FALSE, {"ZIGZAG_FAST"})
      BY <2>2 DEF LosesLock
    <3> QED
      BY <3>1, PlaceTypes, FastTypes DEF IInv
  <2> QED
    BY <2>1, <2>2
<1> QED
  BY <1>1, FastStates DEF IInv, Fresh, Kept, Scanning

(* The next attempt of a fast scan.                                        *)
LEMMA SearchFastKeeps ==
    ASSUME IInv, SearchFast, fe' = fe
    PROVE  IInv'
<1>1. state \in {{"TUNING_FAST"}, {"ZIGZAG_FAST"}}
  BY DEF SearchFast, Is, SEARCHING_FAST, SEARCHING_SLOW, IInv, Types
<1>2. Fast(Place, started_auto_step, check_wrapped, state)
  BY DEF SearchFast
<1>3. /\ Types' /\ InDrift' /\ state' \in {state, {"ERROR"}, SEARCHING_SLOW}
      /\ ~failed' => ~failed /\ c' = c
  BY <1>1, <1>2, PlaceTypes, FastTypes DEF IInv
<1>4. ASSUME state' = {"TUNING_FAST"}
      PROVE  /\ started_auto_step' = 0 /\ check_wrapped' = TRUE /\ auto_sub_step' > 0
             /\ StepSize' > 0 => ~twice' /\ tried' \subseteq Settings /\ Scanned'
  <2>1. state = {"TUNING_FAST"} /\ started_auto_step = 0 /\ check_wrapped = TRUE /\ auto_sub_step > 0
    BY <1>1, <1>3, <1>4, FastStates DEF IInv, Scanning
  <2>2. ~Complete(Place, 0, TRUE) /\ Autotune(Place, {"TUNING_FAST"})
    BY <1>2, <1>4, <2>1, FastStates DEF Fast
  <2>3. started_auto_step' = 0 /\ check_wrapped' = TRUE
    BY <1>2, <2>1, <2>2 DEF Fast
  <2>4. auto_sub_step' > 0
    <3>1. auto_sub_step' = Place.sub + 1
      BY <1>4, <2>2, FastStates DEF Autotune
    <3> QED
      BY <3>1, PlaceTypes DEF IInv
  <2>5. ASSUME StepSize' > 0 PROVE ~twice' /\ tried' \subseteq Settings /\ Scanned'
    <3>1. StepSize' = StepSize
      BY DEF StepSize
    <3>2. ~twice /\ tried \subseteq Settings /\ Scanned /\ StepSize # 0
      BY <2>1, <2>5, <3>1 DEF IInv, Scanning
    <3> QED
      BY <2>1, <2>2, <3>2, <1>4, Attempt DEF IInv
  <2> QED
    BY <2>3, <2>4, <2>5
<1>5. Fresh' /\ Kept'
  BY <1>1, <1>3, FastStates DEF IInv, Fresh, Kept
<1> QED
  BY <1>3, <1>4, <1>5 DEF IInv, Scanning

(* The next attempt of the slow search.                                    *)
LEMMA SearchSlowKeeps ==
    ASSUME IInv, SearchSlow, fe' = fe
    PROVE  IInv'
<1>1. state = SEARCHING_SLOW
  BY DEF SearchSlow, Is, SEARCHING_SLOW, IInv, Types
<1>2. Autotune(Place, SEARCHING_SLOW)
  BY <1>1 DEF SearchSlow
<1>3. /\ Types' /\ InDrift' /\ state' \in {SEARCHING_SLOW, {"ERROR"}}
      /\ ~failed' => ~failed /\ c' = c
  BY <1>2, PlaceTypes, AutotuneTypes DEF IInv
<1> QED
  BY <1>3, FastStates DEF IInv, Fresh, Kept, Scanning

(* The iterations of the thread that try nothing.                          *)
LEMMA OtherIterationsKeep ==
    ASSUME IInv, TuneOnce \/ GetsLock, fe' = fe
    PROVE  IInv'
<1>1. /\ state' \in {{"TUNED"}, {"ERROR"}} /\ UNCHANGED <<scan, tried, twice>>
      /\ failed' \in BOOLEAN /\ (~failed' => ~failed) /\ c'.frequency = c.frequency /\ c' \in Settings
  <2>1. CASE TuneOnce
    <3>1. /\ state' \in {{"TUNED"}, {"ERROR"}} /\ UNCHANGED <<scan, tried, twice, c>>
          /\ failed' = failed \/ failed' = TRUE
      BY <2>1 DEF TuneOnce
    <3>2. failed \in BOOLEAN /\ c \in Settings
      BY DEF IInv, Types
    <3>3. failed' \in BOOLEAN /\ (~failed' => ~failed)
      BY <3>1, <3>2
    <3> QED
      BY <3>1, <3>2, <3>3
  <2>2. CASE GetsLock
    BY <2>2 DEF GetsLock, IInv, Types, Settings, Inversions3, seen
  <2> QED
    BY <2>1, <2>2
<1>2. Types' /\ InDrift'
  BY <1>1 DEF IInv, Types, InDrift, Here, StepSize, MaxDrift, scan
<1> QED
  BY <1>1, <1>2, FastStates DEF IInv, Fresh, Kept, Scanning

(* The user's calls, and the carrier.                                      *)
LEMMA CallsKeep ==
    ASSUME IInv, fe' = fe,
           \/ \E i \in {"OFF", "ON", "AUTO"} : SetFrontend(i)
           \/ Diseqc \/ SetTuneMode \/ Resume \/ CarrierMoves
    PROVE  IInv'
<1>1. ASSUME NEW i \in {"OFF", "ON", "AUTO"}, SetFrontend(i) PROVE IInv'
  <2>1. /\ c' = At(0, i) /\ state' = {"RETUNE"} /\ tried' = {} /\ twice' = FALSE /\ failed' = FALSE
        /\ UNCHANGED scan
    BY <1>1 DEF SetFrontend
  <2>2. c' \in Settings /\ c'.frequency = 0
    BY <2>1 DEF At, Settings, Inversions3
  <2>3. Types' /\ InDrift'
    BY <2>1, <2>2 DEF IInv, Types, InDrift, Here, StepSize, MaxDrift, scan
  <2> QED
    BY <2>1, <2>2, <2>3, FastStates DEF IInv, Fresh, Kept, Scanning
<1>2. CASE Diseqc
  <2>1. Types' /\ InDrift'
    BY <1>2 DEF Diseqc, IInv, Types, InDrift, Here, StepSize, MaxDrift, scan, seen
  <2> QED
    BY <1>2, <2>1, FastStates DEF Diseqc, IInv, Fresh, Kept, Scanning, seen
<1>3. CASE Resume
  <2>1. Types' /\ InDrift'
    BY <1>3 DEF Resume, IInv, Types, InDrift, Here, StepSize, MaxDrift, scan
  <2> QED
    BY <1>3, <2>1, FastStates DEF Resume, IInv, Fresh, Kept, Scanning
<1>4. CASE SetTuneMode \/ CarrierMoves
  BY <1>4, SameScan DEF SetTuneMode, CarrierMoves
<1> QED
  BY <1>1, <1>2, <1>3, <1>4

(* Init establishes the invariant.                                         *)
LEMMA InitIInv == ASSUME Init PROVE IInv
<1>1. StepSize \in Nat /\ MaxDrift \in Nat /\ 0 * StepSize = 0
  BY FrontendTypes, Product DEF Init
<1>2. Types
  <2>1. c \in Settings
    BY DEF Init, At, Settings, Inversions3
  <2>2. state \in {{s} : s \in {"IDLE", "RETUNE", "TUNING_FAST", "TUNED", "ZIGZAG_FAST",
                         "DISEQC", "ERROR"}} \cup {SEARCHING_SLOW}
    BY DEF Init
  <2>3. auto_step \in Nat /\ auto_sub_step \in 0 .. 4
    BY DEF Init
  <2>4. inversion \in {"OFF", "ON"} /\ twice \in BOOLEAN /\ failed \in BOOLEAN /\ fe \in Frontends
    BY DEF Init
  <2> QED
    BY <2>1, <2>2, <2>3, <2>4 DEF Types
<1> QED
  BY <1>1, <1>2, FastStates DEF Init, IInv, InDrift, Here, Fresh, Kept, Scanning, At

(* Every step keeps it.                                                    *)
LEMMA NextIInv == ASSUME IInv, [Next]_vars PROVE IInv'
<1>1. CASE Iteration
  <2>1. CASE Rest
    BY <2>1, SameScan DEF Rest, vars
  <2> QED
    BY <1>1, <2>1, OtherIterationsKeep, RetuneKeeps, LosesLockKeeps, SearchFastKeeps, SearchSlowKeeps
    DEF Iteration
<1>2. CASE UNCHANGED vars
  BY <1>2, SameScan DEF vars
<1> QED
  BY <1>1, <1>2, CallsKeep DEF Next

(* The fast scan of a request tries nothing twice and stays within the     *)
(* drift, whatever the step, the drift, the kind of inversion and the user *)
(* do.  With a step_size of 0 it is not so: the drift never grows.         *)
THEOREM ScanIsOnce == Spec => [](StepSize > 0 => FastScanIsOnce)
<1>1. IInv => (StepSize > 0 => FastScanIsOnce)
  BY DEF IInv, Types, InDrift, Here, Scanning, FastScanIsOnce, TypeOK
<1> QED
  BY <1>1, InitIInv, NextIInv, PTL DEF Spec

(* The step of dvb_frontend_swzigzag from the fast to the slow search.     *)
LEMMA CompleteStep ==
    ASSUME IInv, [Next]_vars, state = {"TUNING_FAST"}, state' = SEARCHING_SLOW
    PROVE  tried = Reach /\ (~failed => c.frequency = 0)
<1>1. SearchFast
  <2>1. state' # state
    BY FastStates
  <2>2. ~Is({"RETUNE"}) /\ ~Is({"TUNED"}) /\ ~Is(SEARCHING_SLOW) /\ {"DISEQC"} # SEARCHING_SLOW
    BY DEF Is, SEARCHING_SLOW
  <2>3. ~Rest /\ ~UNCHANGED vars
    BY <2>1 DEF Rest, vars
  <2>4. ~TuneOnce /\ ~GetsLock /\ ~Retune /\ ~LosesLock /\ ~SearchSlow
    BY <2>2, FastStates DEF TuneOnce, GetsLock, Retune, LosesLock, SearchSlow
  <2>5. ~Diseqc /\ ~SetTuneMode /\ ~Resume /\ ~CarrierMoves
    BY <2>1, <2>2, FastStates DEF Diseqc, SetTuneMode, Resume, CarrierMoves
  <2>6. \A i : ~SetFrontend(i)
    BY FastStates DEF SetFrontend
  <2> QED
    BY <2>3, <2>4, <2>5, <2>6 DEF Next, Iteration
<1>2. Complete(Place, 0, TRUE)
  <2>1. started_auto_step = 0 /\ check_wrapped = TRUE
    BY DEF IInv, Scanning
  <2>2. Fast(Place, 0, TRUE, {"TUNING_FAST"})
    BY <1>1, <2>1 DEF SearchFast
  <2>3. ~Autotune(Place, {"TUNING_FAST"})
    BY FastStates DEF Autotune
  <2> QED
    BY <2>2, <2>3 DEF Fast
<1>3. StepSize # 0
  <2> SUFFICES ASSUME StepSize = 0 PROVE FALSE
    OBVIOUS
  <2>1. Place.step = 0 /\ Place.sub = 0
    BY <1>2 DEF Complete
  <2>2. auto_sub_step > 0 /\ auto_step \in Nat /\ MaxDrift \in Nat
    BY FrontendTypes DEF IInv, Scanning, Types
  <2>3. Wrap(auto_step + 1) = 0
    BY <2>1, <2>2, PlaceCases DEF PlaceIs, IInv
  <2>4. (auto_step + 1) * StepSize = 0
    BY <2>2
  <2> QED
    BY <2>2, <2>3, <2>4 DEF Wrap
<1>4. StepSize > 0
  BY <1>3, FrontendTypes DEF IInv, Types
<1> QED
  BY <1>2, <1>3, <1>4, Completes DEF IInv, Scanning, Kept

(* The fast scan gives way to the slow one only when it has tried every    *)
(* offset within the drift with every inversion; with a step_size of 0 it  *)
(* never does.                                                             *)
THEOREM ScanIsComplete == Spec => FastScanIsComplete
<1>1. IInv /\ [Next]_vars =>
        [state = {"TUNING_FAST"} /\ state' = SEARCHING_SLOW =>
           tried = Reach /\ (~failed => c.frequency = 0)]_vars
  BY CompleteStep
<1> QED
  BY <1>1, InitIInv, NextIInv, PTL DEF Spec, FastScanIsComplete

---------------------------------------------------------------------------
(* The events, for every size of the ring and any number of events.        *)

Slots == 0 .. MAX_EVENT - 1

EventsTypes ==
    /\ count \in Nat /\ slot \in [Slots -> 0 .. count]
    /\ eventr \in Slots /\ eventw \in Slots /\ wp \in Slots
    /\ expect \in Int /\ own \in Int
    /\ tpc \in {"gone", "loop", "work", "store"}
    /\ upc \in {"closed", "opening", "idle", "up1", "down1", "up2", "down2", "asleep"}

(* fepriv->sem                                                             *)
Semaphore ==
    /\ sem \in {"none", "thread", "user"}
    /\ sem = "user" <=> upc = "asleep"
    /\ sem = "thread" <=> tpc \in {"work", "store"}

(* In dvb_frontend_add_event there is room, unless an open came between;   *)
(* that open was over before anybody could wait.                           *)
Storing ==
    tpc = "store" /\ (~torn \/ upc \in {"up1", "down1", "up2", "down2"}) =>
        wp = Succ(eventw) /\ wp # eventr

(* A test that found an event is still right when the semaphore is taken   *)
(* again.  One that found none is, if nobody has woken the task since.     *)
Tested ==
    /\ upc \in {"down1", "down2"} /\ found => ~Empty \/ tpc = "store"
    /\ upc = "down2" /\ ~found /\ ~awake => Empty

(* How many events are in the ring, and how far behind the first of them a *)
(* slot is, without the modulus.                                           *)
Fill == IF eventw >= eventr THEN eventw - eventr ELSE eventw - eventr + MAX_EVENT
Age(p) == IF p >= eventr THEN p - eventr ELSE p - eventr + MAX_EVENT

InOrder == \A p \in Slots : Age(p) < Fill => slot[p] = count - Fill + 1 + Age(p)

Own == upc \notin {"closed", "opening"} => count - Fill + 1 >= own

Follows == ~overflow => expect = count - Fill + 1

EventsIInv ==
    /\ EventsTypes /\ Semaphore /\ Storing /\ Tested /\ SleepsOnEmpty
    /\ ~torn => InOrder /\ Own /\ Follows

---------------------------------------------------------------------------
(* The modulus of a number below twice the size of the ring.               *)
LEMMA ModOnce ==
    ASSUME NEW x \in Nat, x < 2 * MAX_EVENT
    PROVE  x % MAX_EVENT = IF x < MAX_EVENT THEN x ELSE x - MAX_EVENT
BY EventsAssumption

(* ... and of a difference of two slots.                                   *)
LEMMA ModBelow ==
    ASSUME NEW x \in Slots, NEW y \in Slots
    PROVE  (y - x) % MAX_EVENT = IF y >= x THEN y - x ELSE y - x + MAX_EVENT
BY EventsAssumption DEF Slots

(* The next slot is a slot, and another one.                               *)
LEMMA SuccIs ==
    ASSUME NEW x \in Slots
    PROVE  /\ Succ(x) = IF x + 1 = MAX_EVENT THEN 0 ELSE x + 1
           /\ Succ(x) \in Slots /\ Succ(x) # x
<1>1. x \in Nat /\ x + 1 \in Nat /\ x + 1 < 2 * MAX_EVENT /\ x + 1 <= MAX_EVENT
  BY EventsAssumption DEF Slots
<1>2. Succ(x) = IF x + 1 < MAX_EVENT THEN x + 1 ELSE x + 1 - MAX_EVENT
  BY <1>1, ModOnce, EventsAssumption DEF Succ
<1> QED
  BY <1>1, <1>2, EventsAssumption DEF Slots

(* The fill level is what the code's users compute from eventr and eventw. *)
LEMMA FillIs ==
    ASSUME EventsTypes
    PROVE  /\ Queued = Fill /\ Fill \in Int /\ 0 <= Fill /\ Fill < MAX_EVENT
           /\ Fill = 0 <=> Empty
<1>1. Queued = Fill
  BY ModBelow DEF EventsTypes, Queued, Fill
<1> QED
  BY <1>1, EventsAssumption DEF EventsTypes, Fill, Empty, Slots

(* Init establishes the invariant.                                         *)
LEMMA EventsInitIInv == EventsInit => EventsIInv
<1> SUFFICES ASSUME EventsInit PROVE EventsIInv
  OBVIOUS
<1>1. EventsTypes
  BY EventsAssumption DEF EventsInit, EventsTypes, Slots
<1>2. Semaphore /\ Storing /\ Tested /\ SleepsOnEmpty
  BY DEF EventsInit, Semaphore, Storing, Tested, SleepsOnEmpty
<1>3. InOrder /\ Own /\ Follows
  BY EventsAssumption DEF EventsInit, InOrder, Own, Follows, Fill, Age, Slots
<1> QED
  BY <1>1, <1>2, <1>3 DEF EventsIInv

(* A step that leaves the ring and the events alone keeps their order.     *)
LEMMA OrderKept ==
    ASSUME EventsIInv, UNCHANGED <<slot, eventr, eventw, overflow, count, expect, own, torn>>,
           upc \in {"closed", "opening"} => upc' \in {"closed", "opening"}
    PROVE  (~torn => InOrder /\ Own /\ Follows)'
<1>1. UNCHANGED <<Fill, InOrder, Follows>>
  BY DEF Fill, InOrder, Age, Follows
<1>2. Own => Own'
  BY <1>1 DEF Own
<1> QED
  BY <1>1, <1>2 DEF EventsIInv

(* The thread between two events, and its start and end.                   *)
LEMMA ThreadIdles ==
    ASSUME EventsIInv, \/ ThreadDown \/ ThreadNothing \/ ThreadExits \/ StatusChanges
                 \/ Open \/ Close \/ DiseqcRequest
    PROVE  EventsIInv'
<1> USE DEF EventsIInv
<1>1. UNCHANGED <<slot, eventr, eventw, overflow, count, expect, own, torn, wp, found, awake>>
  BY DEF ThreadDown, ThreadNothing, ThreadExits, StatusChanges, Open, Close, DiseqcRequest, ring, ghosts, user
<1>2. /\ tpc' \in {"gone", "loop", "work", "store"}
      /\ tpc' = "store" <=> tpc = "store"
      /\ upc' = upc \/ upc' \in {"closed", "opening"}
      /\ upc \in {"closed", "opening"} => upc' \in {"closed", "opening"}
      /\ upc = "asleep" <=> upc' = "asleep"
      /\ Semaphore'
  BY DEF ThreadDown, ThreadNothing, ThreadExits, StatusChanges, Open, Close, DiseqcRequest, user, demod,
         Semaphore, EventsTypes
<1>3. EventsTypes'
  <2>1. upc' \in {"closed", "opening", "idle", "up1", "down1", "up2", "down2", "asleep"}
    BY <1>2 DEF EventsTypes
  <2> QED
    BY <1>1, <1>2, <2>1 DEF EventsTypes
<1>4. Storing' /\ Tested' /\ SleepsOnEmpty'
  BY <1>1, <1>2 DEF Storing, Tested, SleepsOnEmpty, Empty
<1>5. (~torn => InOrder /\ Own /\ Follows)'
  BY <1>1, <1>2, OrderKept
<1> QED
  BY <1>2, <1>3, <1>4, <1>5

(* The waits of FE_GET_EVENT.                                              *)
LEMMA UserWaits ==
    ASSUME EventsIInv, GetWaits \/ TestEvent \/ DownSleeps \/ DownNothing \/ Signal
    PROVE  EventsIInv'
<1> USE DEF EventsIInv
<1>1. UNCHANGED <<slot, eventr, eventw, overflow, count, expect, own, torn, wp, tpc>>
  BY DEF GetWaits, TestEvent, DownSleeps, DownNothing, Signal, ring, ghosts
<1>2. EventsTypes' /\ upc \notin {"closed", "opening"}
  BY <1>1 DEF GetWaits, TestEvent, DownSleeps, DownNothing, Signal, user, EventsTypes
<1>3. Semaphore'
  BY <1>1 DEF GetWaits, TestEvent, DownSleeps, DownNothing, Signal, user, EventsTypes, Semaphore
<1>4. Storing'
  BY <1>1 DEF GetWaits, TestEvent, DownSleeps, DownNothing, Signal, Storing, Semaphore
<1>5. Tested'
  <2>1. CASE TestEvent
    BY <1>1, <2>1 DEF TestEvent, Tested, Empty
  <2>2. CASE DownSleeps
    BY <1>1, <2>2 DEF DownSleeps, Tested, Empty
  <2>3. CASE GetWaits \/ DownNothing \/ Signal
    BY <2>3 DEF GetWaits, DownNothing, Signal, Tested
  <2> QED
    BY <2>1, <2>2, <2>3
<1>6. SleepsOnEmpty'
  BY <1>1 DEF GetWaits, TestEvent, DownSleeps, DownNothing, Signal, Tested, SleepsOnEmpty, Empty
<1>7. (~torn => InOrder /\ Own /\ Follows)'
  BY <1>1, <1>2, OrderKept
<1> QED
  BY <1>2, <1>3, <1>4, <1>5, <1>6, <1>7

(* The first half of dvb_frontend_add_event: a full ring gives up its      *)
(* oldest event.                                                           *)
LEMMA AddMakesRoom ==
    ASSUME EventsIInv, AddEvent
    PROVE  EventsIInv'
<1> USE DEF EventsIInv
<1>1. /\ UNCHANGED <<slot, eventw, count, expect, own, torn, upc, found, awake, sem>>
      /\ wp' = Succ(eventw) /\ tpc = "work" /\ tpc' = "store"
      /\ \/ wp' = eventr /\ overflow' = TRUE /\ eventr' = Succ(eventr)
         \/ wp' # eventr /\ UNCHANGED <<overflow, eventr>>
  BY DEF AddEvent, ghosts, user
<1>2. /\ Succ(eventw) = IF eventw + 1 = MAX_EVENT THEN 0 ELSE eventw + 1
      /\ Succ(eventr) = IF eventr + 1 = MAX_EVENT THEN 0 ELSE eventr + 1
      /\ Succ(eventw) \in Slots /\ Succ(eventr) \in Slots
      /\ Succ(eventw) # eventw /\ Succ(eventr) # eventr
  BY SuccIs DEF EventsTypes
<1>3. EventsTypes'
  BY <1>1, <1>2 DEF EventsTypes
<1>4. Semaphore' /\ Storing'
  BY <1>1, <1>2 DEF Semaphore, Storing, Succ
<1>5. upc # "asleep" /\ (Empty => UNCHANGED eventr)
  BY <1>1, <1>2 DEF Semaphore, Empty
<1>6. Tested' /\ SleepsOnEmpty'
  BY <1>1, <1>5 DEF Tested, SleepsOnEmpty, Empty
<1>7. ASSUME ~torn' PROVE InOrder' /\ Own' /\ Follows'
  <2>1. CASE UNCHANGED <<overflow, eventr>>
    BY <1>1, <1>7, <2>1 DEF InOrder, Own, Follows, Fill, Age
  <2>2. CASE wp' = eventr /\ overflow' = TRUE /\ eventr' = Succ(eventr)
    <3>1. Fill = MAX_EVENT - 1 /\ Fill' = Fill - 1
      BY <1>1, <1>2, <2>2, EventsAssumption DEF EventsTypes, Slots, Fill
    <3>2. \A p \in Slots : Age(p)' < Fill' => Age(p) = Age(p)' + 1
      BY <1>1, <1>2, <2>2, <3>1, EventsAssumption DEF EventsTypes, Slots, Age
    <3>3. InOrder'
      <4> SUFFICES ASSUME NEW p \in Slots, Age(p)' < Fill'
                   PROVE  slot[p] = count - Fill' + 1 + Age(p)'
        BY <1>1 DEF InOrder
      <4>1. Age(p)' \in Int /\ Fill' \in Int
        BY <1>1, <1>2, <2>2, <3>1, FillIs, EventsAssumption DEF EventsTypes, Slots, Age
      <4>2. slot[p] = count - Fill + 1 + Age(p)
        BY <1>1, <1>7, <3>1, <3>2, <4>1, EventsAssumption DEF InOrder
      <4> QED
        BY <3>1, <3>2, <4>1, <4>2, EventsAssumption DEF EventsTypes
    <3>4. Own' /\ Follows'
      BY <1>1, <1>7, <2>2, <3>1, EventsAssumption DEF Own, Follows, EventsTypes
    <3> QED
      BY <3>3, <3>4
  <2> QED
    BY <1>1, <2>1, <2>2
<1> QED
  BY <1>3, <1>4, <1>6, <1>7

(* The second half: the event is stored behind the others.                 *)
LEMMA AddAppends ==
    ASSUME EventsIInv, AddStore
    PROVE  EventsIInv'
<1> USE DEF EventsIInv
<1>1. /\ UNCHANGED <<eventr, overflow, wp, found, expect, own, torn>>
      /\ slot' = [slot EXCEPT ![eventw] = count + 1] /\ eventw' = wp /\ count' = count + 1
      /\ awake' = TRUE /\ sem' = "none" /\ tpc = "store" /\ tpc' = "loop"
      /\ upc # "asleep" /\ upc' = upc
  BY DEF AddStore, Semaphore
<1>2. EventsTypes'
  BY <1>1 DEF EventsTypes
<1>3. Semaphore' /\ Storing' /\ SleepsOnEmpty'
  BY <1>1 DEF Semaphore, Storing, SleepsOnEmpty
<1>4. Tested'
  BY <1>1 DEF Tested, Storing, Empty
<1>5. ASSUME ~torn' PROVE InOrder' /\ Own' /\ Follows'
  <2>1. wp = (IF eventw + 1 = MAX_EVENT THEN 0 ELSE eventw + 1) /\ wp # eventr
    BY <1>1, <1>5, SuccIs DEF Storing, EventsTypes
  <2>2. Fill' = Fill + 1 /\ Fill \in Int /\ Fill' < MAX_EVENT
    BY <1>1, <2>1, EventsAssumption DEF EventsTypes, Slots, Fill
  <2>3. \A p \in Slots : /\ Age(p)' = Age(p) /\ Age(p) \in Int
                         /\ Age(p) = Fill <=> p = eventw
    BY <1>1, <2>1, EventsAssumption DEF EventsTypes, Slots, Age, Fill
  <2>4. InOrder'
    <3> SUFFICES ASSUME NEW p \in Slots, Age(p)' < Fill'
                 PROVE  slot'[p] = count' - Fill' + 1 + Age(p)'
      BY DEF InOrder
    <3>1. slot'[p] = IF p = eventw THEN count + 1 ELSE slot[p]
      BY <1>1 DEF EventsTypes
    <3>2. p # eventw => slot[p] = count - Fill + 1 + Age(p)
      BY <1>1, <1>5, <2>2, <2>3 DEF InOrder
    <3> QED
      BY <1>1, <2>2, <2>3, <3>1, <3>2 DEF EventsTypes
  <2>5. Own' /\ Follows'
    BY <1>1, <1>5, <2>2, EventsAssumption DEF Own, Follows, EventsTypes
  <2> QED
    BY <2>4, <2>5
<1> QED
  BY <1>2, <1>3, <1>4, <1>5

(* dvb_frontend_open and dvb_frontend_clear_events empty the queue.        *)
LEMMA QueueEmptied ==
    ASSUME EventsIInv, OpenEmpties \/ NewRequest
    PROVE  EventsIInv'
<1> USE DEF EventsIInv
<1>1. CASE OpenEmpties
  <2>1. EventsTypes'
    BY <1>1, EventsAssumption DEF OpenEmpties, EventsTypes, Slots
  <2>2. Semaphore' /\ Storing' /\ Tested' /\ SleepsOnEmpty'
    BY <1>1, <2>1 DEF OpenEmpties, EventsTypes, Semaphore, Storing, Tested, SleepsOnEmpty
  <2>3. InOrder' /\ Own' /\ Follows'
    BY <1>1, EventsAssumption DEF OpenEmpties, InOrder, Own, Follows, Fill, Age, Slots, EventsTypes
  <2> QED
    BY <2>1, <2>2, <2>3
<1>2. CASE NewRequest
  <2>1. /\ UNCHANGED <<overflow, sem, tpc, wp, upc, found, awake, own, torn>>
        /\ upc = "idle" /\ sem = "none"
        /\ slot' = [slot EXCEPT ![eventw] = count + 1]
        /\ eventr' = eventw /\ eventw' = Succ(eventw)
        /\ count' = count + 1 /\ expect' = count + 1
    BY <1>2 DEF NewRequest, user
  <2>2. /\ Succ(eventw) = IF eventw + 1 = MAX_EVENT THEN 0 ELSE eventw + 1
        /\ Succ(eventw) \in Slots
    BY SuccIs DEF EventsTypes
  <2>3. EventsTypes'
    BY <2>1, <2>2 DEF EventsTypes
  <2>4. Semaphore' /\ Storing' /\ Tested' /\ SleepsOnEmpty'
    BY <2>1 DEF Semaphore, Storing, Tested, SleepsOnEmpty
  <2>5. ASSUME ~torn' PROVE InOrder' /\ Own' /\ Follows'
    <3>1. Fill' = 1
      BY <2>1, <2>2, EventsAssumption DEF EventsTypes, Slots, Fill
    <3>2. \A p \in Slots : Age(p)' \in Int /\ 0 <= Age(p)' /\ (Age(p)' < 1 <=> p = eventw)
      BY <2>1, EventsAssumption DEF EventsTypes, Slots, Age
    <3>3. InOrder'
      <4> SUFFICES ASSUME NEW p \in Slots, Age(p)' < Fill'
                   PROVE  slot'[p] = count' - Fill' + 1 + Age(p)'
        BY DEF InOrder
      <4>1. p = eventw /\ Age(p)' = 0
        BY <3>1, <3>2
      <4> QED
        BY <2>1, <3>1, <4>1 DEF EventsTypes
    <3>4. Own' /\ Follows'
      BY <2>1, <2>5, <3>1, FillIs DEF Own, Follows, EventsTypes
    <3> QED
      BY <3>3, <3>4
  <2> QED
    BY <2>3, <2>4, <2>5
<1> QED
  BY <1>1, <1>2

(* FE_GET_EVENT returns -EOVERFLOW or an event.                            *)
LEMMA UserGets ==
    ASSUME EventsIInv, GetOverflow \/ GetEvent \/ DownFound
    PROVE  EventsIInv'
<1> USE DEF EventsIInv
<1>1. CASE GetOverflow
  <2>1. /\ UNCHANGED <<slot, eventr, eventw, sem, tpc, wp, upc, found, awake, count, own, torn>>
        /\ overflow' = FALSE /\ expect' = count - Fill + 1
    BY <1>1, FillIs DEF GetOverflow, user
  <2>2. EventsTypes'
    BY <2>1, FillIs DEF EventsTypes
  <2>3. Semaphore' /\ Storing' /\ Tested' /\ SleepsOnEmpty'
    BY <2>1 DEF Semaphore, Storing, Tested, SleepsOnEmpty, Empty
  <2>4. UNCHANGED <<Fill, InOrder>>
    BY <2>1 DEF Fill, InOrder, Age
  <2>5. (~torn => InOrder /\ Own /\ Follows)'
    BY <2>1, <2>4 DEF Own, Follows
  <2> QED
    BY <2>2, <2>3, <2>5
<1>2. CASE GetEvent \/ DownFound
  <2>1. /\ UNCHANGED <<slot, eventw, overflow, tpc, wp, awake, count, own, torn>>
        /\ expect' = slot[eventr] + 1 /\ eventr' = Succ(eventr)
        /\ upc' = "idle" /\ sem' = "none" /\ found' = FALSE
        /\ upc \notin {"closed", "opening"} /\ sem = "none"
    BY <1>2 DEF GetEvent, DownFound, Take
  <2>2. ~Empty
    BY <1>2 DEF GetEvent, DownFound, Tested, Semaphore
  <2>3. /\ Succ(eventr) = IF eventr + 1 = MAX_EVENT THEN 0 ELSE eventr + 1
        /\ Succ(eventr) \in Slots
    BY SuccIs DEF EventsTypes
  <2>4. EventsTypes'
    BY <2>1, <2>3 DEF EventsTypes
  <2>5. Semaphore' /\ Storing' /\ Tested' /\ SleepsOnEmpty'
    BY <2>1 DEF Semaphore, Storing, Tested, SleepsOnEmpty
  <2>6. ASSUME ~torn' PROVE InOrder' /\ Own' /\ Follows'
    <3>1. Fill > 0 /\ Fill \in Int /\ Fill' = Fill - 1
      BY <2>1, <2>2, <2>3, EventsAssumption DEF EventsTypes, Slots, Fill, Empty
    <3>2. \A p \in Slots : /\ Age(p)' \in Int
                           /\ Age(p)' < Fill' => Age(p) = Age(p)' + 1
      BY <2>1, <2>2, <2>3, EventsAssumption DEF EventsTypes, Slots, Fill, Age, Empty
    <3>3. InOrder'
      <4> SUFFICES ASSUME NEW p \in Slots, Age(p)' < Fill'
                   PROVE  slot[p] = count - Fill' + 1 + Age(p)'
        BY <2>1 DEF InOrder
      <4>1. slot[p] = count - Fill + 1 + Age(p)
        BY <2>1, <2>6, <3>1, <3>2 DEF InOrder
      <4> QED
        BY <3>1, <3>2, <4>1 DEF EventsTypes
    <3>4. slot[eventr] = count - Fill + 1
      <4>1. Age(eventr) = 0 /\ eventr \in Slots
        BY DEF EventsTypes, Age, Slots
      <4> QED
        BY <2>1, <2>6, <3>1, <4>1 DEF InOrder, EventsTypes
    <3>5. Own' /\ Follows'
      BY <2>1, <2>6, <3>1, <3>4 DEF Own, Follows, EventsTypes
    <3> QED
      BY <3>3, <3>5
  <2> QED
    BY <2>4, <2>5, <2>6
<1> QED
  BY <1>1, <1>2

(* Every step of thread and user keeps the invariant.                      *)
LEMMA EventsNextIInv == EventsIInv /\ [EventsNext]_eventvars => EventsIInv'
<1> SUFFICES ASSUME EventsIInv, [EventsNext]_eventvars PROVE EventsIInv'
  OBVIOUS
<1>1. CASE UNCHANGED eventvars
  <2>1. /\ UNCHANGED <<slot, eventr, eventw, overflow, count, expect, own, torn>>
        /\ UNCHANGED <<wp, tpc, sem, upc, found, awake>>
    BY <1>1 DEF eventvars, ring, ghosts, user
  <2>2. EventsTypes' /\ Semaphore' /\ Storing' /\ Tested' /\ SleepsOnEmpty'
    BY <2>1 DEF EventsIInv, EventsTypes, Semaphore, Storing, Tested, SleepsOnEmpty, Empty
  <2> QED
    BY <2>1, <2>2, OrderKept DEF EventsIInv
<1> QED
  BY <1>1, ThreadIdles, UserWaits, AddMakesRoom, AddAppends, QueueEmptied, UserGets
     DEF EventsNext, Thread, Waiting

(* The invariant, for every run of the frontend's queue.                   *)
LEMMA Invariant == EventsSpec => []EventsIInv
BY EventsInitIInv, EventsNextIInv, PTL DEF EventsSpec

---------------------------------------------------------------------------
(* The queue holds the last events of the present user, in their order and *)
(* without a gap, and what FE_GET_EVENT returns follows what it returned   *)
(* before or -EOVERFLOW is pending, as long as no open has cut into        *)
(* dvb_frontend_add_event.                                                 *)
THEOREM EventsAreInOrder == EventsSpec => []QueueInOrder
<1>1. EventsIInv => QueueInOrder
  <2> SUFFICES ASSUME EventsIInv PROVE QueueInOrder
    OBVIOUS
  <2>1. EventsTypeOK
    BY DEF EventsIInv, EventsTypes, Semaphore, EventsTypeOK, Slots
  <2>2. Queued = Fill /\ Fill \in Int /\ 0 <= Fill /\ Fill < MAX_EVENT
    BY FillIs DEF EventsIInv
  <2>3. ASSUME ~torn, NEW i \in 0 .. Queued - 1
        PROVE  slot[(eventr + i) % MAX_EVENT] = count - Queued + 1 + i
    <3> DEFINE x == eventr + i
               p == x % MAX_EVENT
    <3>0. x \in Nat /\ x < 2 * MAX_EVENT
      BY <2>2, EventsAssumption DEF EventsIInv, EventsTypes, Slots
    <3> HIDE DEF x
    <3>1. p = IF x < MAX_EVENT THEN x ELSE x - MAX_EVENT
      BY <3>0, ModOnce
    <3> HIDE DEF p
    <3>2. p \in Slots /\ Age(p) = i /\ Age(p) < Fill
      BY <2>2, <3>0, <3>1, EventsAssumption DEF EventsIInv, EventsTypes, Slots, Age, x
    <3>3. slot[p] = count - Fill + 1 + Age(p)
      BY <2>3, <3>2 DEF EventsIInv, InOrder
    <3> QED
      BY <2>2, <3>2, <3>3 DEF p, x
  <2> QED
    BY <2>1, <2>2, <2>3 DEF QueueInOrder, EventsIInv, Own, Follows
<1> QED
  BY <1>1, Invariant, PTL

(* Nobody sleeps in FE_GET_EVENT with the semaphore while an event is      *)
(* there, although the test gives the semaphore away.                      *)
THEOREM SleepersHaveNothing == EventsSpec => []SleepsOnEmpty
<1>1. EventsIInv => SleepsOnEmpty
  BY DEF EventsIInv
<1> QED
  BY <1>1, Invariant, PTL
=============================================================================
