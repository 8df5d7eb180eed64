------------------------------ MODULE PwmProofs ------------------------------
(***************************************************************************)
(* Proofs about Pwm, for any number of timers and channels and any script: *)
(* the table shadows the LEDC block for every channel that never took a    *)
(* second slot, so that the calls that skip the configuration lose         *)
(* nothing; and the search of the duty resolution misses none.             *)
(***************************************************************************)
EXTENDS Pwm, TLAPS, FiniteSetTheorems, WellFoundedInduction

\* What a slot is, open or free.
OpenSlot(i) == LET r == asked[channel[i]] IN
               /\ channel[i] \in Channels /\ r \in Requests
               /\ cfg[i] = Config(r)
               /\ hwTimer[i] = Timer(r) /\ Resolution(r.period) > 0
               /\ hwDuty[i] = Duty(r)
               /\ pin[channel[i]] = i
FreeSlotIs(i) == cfg[i] = Cleared /\ hwDuty[i] = NoDuty

SlotInv(i) == IF is_opened[i]
              THEN channel[i] \in Channels /\ (channel[i] \notin retuned => OpenSlot(i))
              ELSE FreeSlotIs(i)

\* What a channel is to the script.
ChannelInv(c) == c \notin retuned => IF asked[c] = NoRequest THEN pin[c] = -1
                                    ELSE \E i \in Slots : Holds(i, c)

Shape == /\ is_opened \in [Slots -> BOOLEAN]
         /\ channel \in [Slots -> Channels \cup {"none"}]
         /\ DOMAIN cfg = Slots /\ DOMAIN hwTimer = Slots /\ DOMAIN hwDuty = Slots
         /\ cfg = [i \in Slots |-> cfg[i]] /\ hwTimer = [i \in Slots |-> hwTimer[i]]
         /\ hwDuty = [i \in Slots |-> hwDuty[i]]
         /\ pin = [c \in Channels |-> pin[c]] /\ asked = [c \in Channels |-> asked[c]]

\* The inductive invariant: the table, the LEDC block, the pins and what the
\* script asked for agree.
IInv == /\ Shape
        /\ \A i \in Slots : SlotInv(i)
        /\ \A c \in Channels : ChannelInv(c)

-----------------------------------------------------------------------------
(* Lemmas.                                                                 *)

\* Initial segments are ordered by inclusion.
LEMMA LeastNumber ==
  ASSUME NEW n \in Nat, NEW S \in SUBSET (0..n), S # {}
  PROVE  \E m \in S : \A k \in S : m <= k
<1> DEFINE segments == {0..m : m \in S}
<1>1. S \in SUBSET Nat OBVIOUS
<1>2. IsFiniteSet(0..n) BY FS_Interval
<1>3. segments \subseteq FiniteSubsetsOf(0..n)
  <2>1. \A m \in S : 0..m \in SUBSET (0..n) OBVIOUS
  <2>2. FiniteSubsetsOf(0..n) = SUBSET (0..n) BY <1>2, FS_FiniteSubsetsOfFinite
  <2> QED BY <2>1, <2>2
<1>4. segments # {} OBVIOUS
<1> HIDE DEF segments
<1>5. PICK x \in segments : \A y \in segments : ~(<<y, x>> \in StrictSubsetOrdering(0..n))
  BY <1>3, <1>4, FS_StrictSubsetOrderingWellFounded, WFMin
<1>6. PICK m \in S : x = 0..m BY DEF segments
<1>7. ASSUME NEW k \in S, k < m PROVE FALSE
  <2>1. k \in Nat /\ m \in Nat BY <1>1
  <2>2. 0..k \in SUBSET (0..n) /\ 0..m \in SUBSET (0..n) OBVIOUS
  <2>3. 0..k \subseteq 0..m /\ 0..k # 0..m
    <3>1. m \in 0..m /\ m \notin 0..k BY <2>1, <1>7
    <3> QED BY <2>1, <1>7, <3>1
  <2>4. <<0..k, 0..m>> \in StrictSubsetOrdering(0..n)
    BY <2>2, <2>3 DEF StrictSubsetOrdering
  <2> QED BY <1>5, <1>6, <2>4 DEF segments
<1>8. \A k \in S : m <= k BY <1>1, <1>7
<1> QED BY <1>8

\* The search has a first slot.
LEMMA MinOfSlots ==
  ASSUME NEW S \in SUBSET Slots, S # {}
  PROVE  Min(S) \in S
<1>1. TimerMax - 1 \in Nat /\ S \in SUBSET (0..TimerMax - 1) BY PwmAssumption DEF Slots
<1>2. \E m \in S : \A k \in S : m <= k BY <1>1, LeastNumber
<1> QED BY <1>2 DEF Min

LEMMA RequestIsNone == ASSUME NEW r \in Requests
                       PROVE  r # NoRequest /\ Config(r) # Cleared
<1>1. r.period \in Periods BY DEF Requests
<1>2. r.period # 0 BY <1>1, PwmAssumption
<1> QED BY <1>2 DEF NoRequest, Cleared, Config

\* A slot's timer depends on the configuration alone.
LEMMA SameConfig ==
  ASSUME NEW r, NEW s, Config(r) = Config(s)
  PROVE  Timer(r) = Timer(s) /\ r.period = s.period
<1>1. r.period = s.period BY DEF Config
<1> QED BY <1>1 DEF Timer

LEMMA PositiveIsValid ==
  ASSUME NEW freq, Resolution(freq) > 0
  PROVE  Valid(freq, Resolution(freq))
BY DEF Resolution

\* Two slots never hold the same channel, unless it is retuned.
LEMMA OneSlot ==
  ASSUME IInv, NEW c \in Channels \ retuned, NEW i \in Slots, NEW j \in Slots,
         Holds(i, c), Holds(j, c)
  PROVE  i = j
BY DEF IInv, SlotInv, OpenSlot, Holds

-----------------------------------------------------------------------------
(* The steps.                                                              *)

\* The slot that the table gives to c, when the search does not pass it by.
LEMMA SlotOfSetup ==
  ASSUME IInv, NEW c \in Channels, Candidates(c) # {},
         NEW i, i = Min(Candidates(c))
  PROVE  /\ i \in Slots /\ (Holds(i, c) \/ ~is_opened[i])
         /\ \A j \in Slots \ {i} : Holds(j, c) => c \in retuned \/ PassesBy(c)
<1>1. i \in Candidates(c) BY MinOfSlots DEF Candidates
<1>2. i \in Slots /\ (Holds(i, c) \/ ~is_opened[i]) BY <1>1 DEF Candidates
<1>3. ASSUME NEW j \in Slots \ {i}, Holds(j, c), c \notin retuned, ~PassesBy(c) PROVE FALSE
  <2>1. Holds(i, c) BY <1>3 DEF PassesBy
  <2> QED BY <1>2, <1>3, <2>1, OneSlot
<1> QED BY <1>2, <1>3

LEMMA SetupStep ==
  ASSUME IInv, NEW c \in Channels, NEW r \in Requests, SetupWorks(c, r)
  PROVE  IInv'
<1> DEFINE i == Min(Candidates(c))
<1>1. /\ i \in Slots /\ (Holds(i, c) \/ ~is_opened[i])
      /\ \A j \in Slots \ {i} : Holds(j, c) => c \in retuned \/ PassesBy(c)
  BY SlotOfSetup DEF SetupWorks
<1>2. /\ IF MustReconfigure(i, r)
         THEN /\ Resolution(r.period) > 0
              /\ hwTimer' = [hwTimer EXCEPT ![i] = Timer(r)]
              /\ pin' = [pin EXCEPT ![c] = i]
         ELSE UNCHANGED <<hwTimer, pin>>
      /\ hwDuty' = [hwDuty EXCEPT ![i] = Duty(r)]
      /\ is_opened' = [is_opened EXCEPT ![i] = TRUE]
      /\ channel' = [channel EXCEPT ![i] = c]
      /\ cfg' = [cfg EXCEPT ![i] = Config(r)]
      /\ asked' = [asked EXCEPT ![c] = r]
      /\ retuned' = retuned \cup {d \in {c} : PassesBy(d)}
  BY DEF SetupWorks
<1> HIDE DEF i
<1>3. Shape' BY <1>1, <1>2 DEF IInv, Shape
<1>4. /\ asked'[c] = r /\ \A d \in Channels \ {c} : asked'[d] = asked[d]
      /\ \A d : d \notin retuned' => d \notin retuned
      /\ c \notin retuned' => ~PassesBy(c)
  BY <1>2 DEF IInv, Shape
<1>5. /\ is_opened'[i] = TRUE /\ channel'[i] = c
      /\ cfg'[i] = Config(r) /\ hwDuty'[i] = Duty(r)
      /\ \A j \in Slots \ {i} : /\ is_opened'[j] = is_opened[j] /\ channel'[j] = channel[j]
                                /\ cfg'[j] = cfg[j] /\ hwDuty'[j] = hwDuty[j]
  BY <1>1, <1>2 DEF IInv, Shape
<1>6. /\ \A j \in Slots \ {i} : hwTimer'[j] = hwTimer[j]
      /\ \A d \in Channels \ {c} : pin'[d] = pin[d]
  BY <1>1, <1>2 DEF IInv, Shape
<1>7. c \notin retuned' => hwTimer'[i] = Timer(r) /\ Resolution(r.period) > 0 /\ pin'[c] = i
  <2>1. CASE MustReconfigure(i, r) BY <1>1, <1>2, <2>1 DEF IInv, Shape
  <2>2. CASE ~MustReconfigure(i, r) /\ c \notin retuned'
    <3>1. Config(r) = cfg[i] /\ UNCHANGED <<hwTimer, pin>>
      BY <1>2, <2>2 DEF MustReconfigure
    <3>2. is_opened[i]
      BY <1>1, <3>1, RequestIsNone DEF IInv, SlotInv, FreeSlotIs
    <3>3. channel[i] = c /\ c \notin retuned BY <1>1, <1>4, <2>2, <3>2 DEF Holds
    <3>4. /\ cfg[i] = Config(asked[c]) /\ hwTimer[i] = Timer(asked[c])
          /\ Resolution(asked[c].period) > 0 /\ pin[c] = i
      BY <1>1, <3>2, <3>3 DEF IInv, SlotInv, OpenSlot
    <3> QED BY <3>1, <3>4, SameConfig
  <2> QED BY <2>1, <2>2
<1>8. ASSUME NEW j \in Slots PROVE SlotInv(j)'
  <2>1. CASE j = i BY <1>4, <1>5, <1>7, <2>1 DEF SlotInv, OpenSlot
  <2>2. CASE j # i /\ is_opened[j]
    <3>1. channel[j] \in Channels /\ channel'[j] = channel[j] /\ is_opened'[j]
      BY <1>5, <2>2 DEF IInv, SlotInv
    <3>2. CASE channel[j] \in retuned' BY <3>1, <3>2 DEF SlotInv
    <3>3. CASE channel[j] \notin retuned'
      <4>1. channel[j] # c BY <1>1, <1>4, <2>2, <3>3 DEF Holds
      <4>2. OpenSlot(j) BY <1>4, <2>2, <3>3 DEF IInv, SlotInv
      <4> QED BY <1>4, <1>5, <1>6, <2>2, <3>1, <4>1, <4>2 DEF SlotInv, OpenSlot
    <3> QED BY <3>2, <3>3
  <2>3. CASE j # i /\ ~is_opened[j]
    BY <1>5, <2>3 DEF IInv, SlotInv, FreeSlotIs
  <2> QED BY <2>1, <2>2, <2>3
<1>9. ASSUME NEW d \in Channels PROVE ChannelInv(d)'
  <2> SUFFICES ASSUME d \notin retuned' PROVE ChannelInv(d)' BY DEF ChannelInv
  <2>0. d \notin retuned BY <1>4
  <2>1. CASE d = c BY <1>1, <1>4, <1>5, <2>1, RequestIsNone DEF ChannelInv, Holds
  <2>2. CASE d # c /\ asked[d] = NoRequest
    BY <1>4, <1>6, <2>0, <2>2 DEF IInv, ChannelInv
  <2>3. CASE d # c /\ asked[d] # NoRequest
    <3>1. PICK j \in Slots : Holds(j, d) BY <2>0, <2>3 DEF IInv, ChannelInv
    <3>2. j # i BY <1>1, <2>3, <3>1 DEF Holds
    <3>3. Holds(j, d)' BY <1>5, <3>1, <3>2 DEF Holds
    <3> QED BY <1>4, <2>3, <3>3 DEF ChannelInv
  <2> QED BY <2>1, <2>2, <2>3
<1> QED BY <1>3, <1>8, <1>9 DEF IInv

LEMMA CloseStep ==
  ASSUME IInv, NEW c \in Channels, CloseOpen(c)
  PROVE  IInv'
<1> DEFINE i == Min({j \in Slots : Holds(j, c)})
<1>1. i \in Slots /\ Holds(i, c)
  <2>1. {j \in Slots : Holds(j, c)} # {} BY DEF CloseOpen
  <2>2. i \in {j \in Slots : Holds(j, c)} BY <2>1, MinOfSlots
  <2> QED BY <2>2
<1>2. /\ hwDuty' = [hwDuty EXCEPT ![i] = NoDuty]
      /\ pin' = [pin EXCEPT ![c] = -1]
      /\ is_opened' = [is_opened EXCEPT ![i] = FALSE]
      /\ channel' = [channel EXCEPT ![i] = "none"]
      /\ cfg' = [cfg EXCEPT ![i] = Cleared]
      /\ asked' = [asked EXCEPT ![c] = NoRequest]
      /\ hwTimer' = hwTimer /\ retuned' = retuned
  BY DEF CloseOpen, ResetPin, FreeSlot, ClearPc
<1> HIDE DEF i
<1>3. Shape' BY <1>1, <1>2 DEF IInv, Shape
<1>4. /\ is_opened'[i] = FALSE /\ cfg'[i] = Cleared /\ hwDuty'[i] = NoDuty
      /\ \A j \in Slots \ {i} : /\ is_opened'[j] = is_opened[j] /\ channel'[j] = channel[j]
                                /\ cfg'[j] = cfg[j] /\ hwDuty'[j] = hwDuty[j]
  BY <1>1, <1>2 DEF IInv, Shape
<1>5. /\ asked'[c] = NoRequest /\ pin'[c] = -1
      /\ \A d \in Channels \ {c} : asked'[d] = asked[d] /\ pin'[d] = pin[d]
  BY <1>2 DEF IInv, Shape
<1>6. ASSUME NEW j \in Slots PROVE SlotInv(j)'
  <2>1. CASE j = i BY <1>4, <2>1 DEF SlotInv, FreeSlotIs
  <2>2. CASE j # i /\ is_opened[j]
    <3>1. channel[j] \in Channels /\ channel'[j] = channel[j] /\ is_opened'[j]
      BY <1>4, <2>2 DEF IInv, SlotInv
    <3>2. CASE channel[j] \in retuned BY <1>2, <3>1, <3>2 DEF SlotInv
    <3>3. CASE channel[j] \notin retuned
      <4>1. channel[j] # c BY <1>1, <2>2, <3>1, <3>3, OneSlot DEF Holds
      <4>2. OpenSlot(j) BY <2>2, <3>3 DEF IInv, SlotInv
      <4> QED BY <1>2, <1>4, <1>5, <2>2, <3>1, <4>1, <4>2 DEF SlotInv, OpenSlot
    <3> QED BY <3>2, <3>3
  <2>3. CASE j # i /\ ~is_opened[j]
    BY <1>4, <2>3 DEF IInv, SlotInv, FreeSlotIs
  <2> QED BY <2>1, <2>2, <2>3
<1>7. ASSUME NEW d \in Channels PROVE ChannelInv(d)'
  <2> SUFFICES ASSUME d \notin retuned PROVE ChannelInv(d)' BY <1>2 DEF ChannelInv
  <2>1. CASE d = c BY <1>5, <2>1 DEF ChannelInv
  <2>2. CASE d # c /\ asked[d] = NoRequest BY <1>5, <2>2 DEF IInv, ChannelInv
  <2>3. CASE d # c /\ asked[d] # NoRequest
    <3>1. PICK j \in Slots : Holds(j, d) BY <2>3 DEF IInv, ChannelInv
    <3>2. j # i BY <1>1, <2>3, <3>1 DEF Holds
    <3>3. Holds(j, d)' BY <1>4, <3>1, <3>2 DEF Holds
    <3> QED BY <1>5, <2>3, <3>3 DEF ChannelInv
  <2> QED BY <2>1, <2>2, <2>3
<1> QED BY <1>3, <1>6, <1>7 DEF IInv

LEMMA IdleStep ==
  ASSUME IInv, UNCHANGED <<is_opened, channel, cfg, hwTimer, hwDuty, pin, asked, retuned>>
  PROVE  IInv'
BY DEF IInv, Shape, SlotInv, OpenSlot, FreeSlotIs, ChannelInv, Holds

\* A table without a candidate has one channel in each slot.
LEMMA FullTable ==
  ASSUME IInv, retuned = {}, NEW c \in Channels, Candidates(c) = {}
  PROVE  Cardinality(Asked) = TimerMax
<1> DEFINE f == [i \in Slots |-> channel[i]]
<1>1. \A i \in Slots : is_opened[i] BY DEF Candidates
<1>2. \A i \in Slots : channel[i] \in Asked
  BY <1>1, RequestIsNone DEF IInv, SlotInv, OpenSlot, Asked
<1>3. \A i, j \in Slots : channel[i] = channel[j] => i = j
  BY <1>1 DEF IInv, SlotInv, OpenSlot
<1>4. \A d \in Asked : \E i \in Slots : channel[i] = d
  BY DEF Asked, IInv, ChannelInv, Holds
<1>5. f \in Bijection(Slots, Asked)
  BY <1>2, <1>3, <1>4 DEF Bijection, Injection, Surjection, IsInjective
<1>6. IsFiniteSet(Slots) /\ Cardinality(Slots) = TimerMax
  BY PwmAssumption, FS_Interval DEF Slots
<1> QED BY <1>5, <1>6, FS_Bijection DEF ExistsBijection

-----------------------------------------------------------------------------

FullOrRetuned == retuned = {} => RefusedOnlyWhenFull

LEMMA InitIInv == Init => IInv /\ FullOrRetuned
<1> SUFFICES ASSUME Init PROVE IInv /\ FullOrRetuned OBVIOUS
<1> USE DEF Init
<1>1. Shape BY DEF Shape
<1>2. \A i \in Slots : SlotInv(i) BY DEF SlotInv, FreeSlotIs
<1>3. \A c \in Channels : ChannelInv(c) BY DEF ChannelInv
<1>4. FullOrRetuned BY DEF FullOrRetuned, RefusedOnlyWhenFull
<1> QED BY <1>1, <1>2, <1>3, <1>4 DEF IInv

LEMMA StepIInv == IInv /\ FullOrRetuned /\ [Next]_vars => (IInv /\ FullOrRetuned)'
<1> SUFFICES ASSUME IInv, FullOrRetuned, [Next]_vars PROVE (IInv /\ FullOrRetuned)'
  OBVIOUS
<1> USE DEF FullOrRetuned, RefusedOnlyWhenFull
<1>1. ASSUME NEW c \in Channels, Refuse(c) PROVE (IInv /\ FullOrRetuned)'
  <2>1. retuned = {} => Cardinality(Asked) = TimerMax BY <1>1, FullTable DEF Refuse
  <2> QED BY <1>1, <2>1, IdleStep DEF Refuse, Asked
<1>2. ASSUME NEW c \in Channels, NEW r \in Requests, SetupFails(c, r)
      PROVE  (IInv /\ FullOrRetuned)'
  BY <1>2, IdleStep DEF SetupFails, Ends
<1>3. ASSUME NEW c \in Channels, NEW r \in Requests, SetupWorks(c, r)
      PROVE  (IInv /\ FullOrRetuned)'
  <2>1. FullOrRetuned' BY <1>3 DEF SetupWorks, Ends
  <2> QED BY <1>3, <2>1, SetupStep
<1>4. ASSUME NEW c \in Channels, CloseUnknown(c) PROVE (IInv /\ FullOrRetuned)'
  BY <1>4, IdleStep DEF CloseUnknown, Ends
<1>5. ASSUME NEW c \in Channels, CloseOpen(c) PROVE (IInv /\ FullOrRetuned)'
  <2>1. FullOrRetuned' BY <1>5 DEF CloseOpen, Ends
  <2> QED BY <1>5, <2>1, CloseStep
<1>6. CASE UNCHANGED vars BY <1>6, IdleStep DEF vars, Asked
<1>7. CASE Next BY <1>1, <1>2, <1>3, <1>4, <1>5, <1>7 DEF Next, Setup
<1> QED BY <1>6, <1>7

LEMMA Invariance == Spec => [](IInv /\ FullOrRetuned)
<1> QED BY StepIInv, InitIInv, PTL DEF Spec

\* Every channel the script drives puts out what it asked for last, through
\* any history of setups, of the duty alone or of all, refusals and closes,
\* unless it was itself given a second slot; what other channels were given
\* does not reach it.
THEOREM DrivenAsAsked == Spec => []Driven
<1>1. IInv => Driven
  <2> SUFFICES ASSUME IInv, NEW c \in Asked \ retuned
               PROVE  \E i \in Slots :
                        /\ Holds(i, c) /\ pin[c] = i
                        /\ hwTimer[i].freq = asked[c].period
                        /\ Valid(hwTimer[i].freq, hwTimer[i].bits)
                        /\ hwDuty[i] = Duty(asked[c])
                        /\ hwTimer[i].bits = Resolution(asked[c].period)
    BY DEF Driven
  <2>1. PICK i \in Slots : Holds(i, c) BY DEF Asked, IInv, ChannelInv
  <2>2. /\ hwTimer[i] = Timer(asked[c]) /\ Resolution(asked[c].period) > 0
        /\ hwDuty[i] = Duty(asked[c]) /\ pin[c] = i
    BY <2>1 DEF IInv, SlotInv, OpenSlot, Holds
  <2>3. hwTimer[i].freq = asked[c].period /\ hwTimer[i].bits = Resolution(asked[c].period)
    BY <2>2 DEF Timer
  <2>4. Valid(hwTimer[i].freq, hwTimer[i].bits) BY <2>2, <2>3, PositiveIsValid
  <2> QED BY <2>1, <2>2, <2>3, <2>4
<1> QED BY <1>1, Invariance, PTL

\* No pin stays connected and no slot runs for a channel that was closed,
\* unless it was ever given a second slot.
THEOREM SilentWhenClosed == Spec => []ClosedIsSilent
<1>1. IInv => ClosedIsSilent
  <2> SUFFICES ASSUME IInv PROVE ClosedIsSilent OBVIOUS
  <2>1. \A c \in Channels \ retuned : asked[c] = NoRequest => pin[c] = -1
    BY DEF IInv, ChannelInv
  <2>2. ASSUME NEW i \in Slots, hwDuty[i] # NoDuty
        PROVE  is_opened[i] /\ channel[i] \in Asked \cup retuned
    BY <2>2, RequestIsNone DEF IInv, SlotInv, OpenSlot, FreeSlotIs, Asked
  <2> QED BY <2>1, <2>2 DEF ClosedIsSilent
<1> QED BY <1>1, Invariance, PTL

-----------------------------------------------------------------------------
(* The search of the duty resolution.                                      *)

\* The quotient reaches n exactly when the product does.
LEMMA DivAtLeast ==
  ASSUME NEW a \in Nat, NEW b \in Nat \ {0}, NEW n \in Nat
  PROVE  /\ a \div b \in Nat
         /\ a \div b >= n <=> a >= n * b
<1> DEFINE d == a \div b
<1>1. d \in Nat /\ b * d <= a /\ a < b * d + b OBVIOUS
<1> HIDE DEF d
<1>2. CASE d >= n
  <2>1. b * d >= b * n BY <1>1, <1>2
  <2> QED BY <1>1, <1>2, <2>1 DEF d
<1>3. CASE d < n
  <2>1. b * (d + 1) <= b * n BY <1>1, <1>3
  <2>2. b * (d + 1) = b * d + b BY <1>1
  <2> QED BY <1>1, <1>3, <2>1, <2>2 DEF d
<1> QED BY <1>1, <1>2, <1>3

\* A quotient that reaches n still does when its divisor shrinks.
LEMMA Shrinks ==
  ASSUME NEW A \in Nat, NEW x \in Nat, NEW y \in Nat, x <= y,
         NEW n \in Nat \ {0}, A + y \div 2 >= n * y
  PROVE  A + x \div 2 >= n * x
<1> DEFINE d == y - x
<1>1. d \in Nat /\ y = x + d OBVIOUS
<1> HIDE DEF d
<1>2. n * y = n * x + n * d BY <1>1
<1>3. n * d >= d BY <1>1
<1>4. y \div 2 <= x \div 2 + d BY <1>1
<1>5. x \div 2 \in Nat /\ y \div 2 \in Nat /\ n * x \in Nat /\ n * d \in Nat BY <1>1
<1> QED BY <1>1, <1>2, <1>3, <1>4, <1>5

\* Case by case: the provers know no law of powers, only their values.
LEMMA PowerOf ==
  ASSUME NEW k \in 0..30
  PROVE  2^k \in Nat \ {0} /\ 2^(k + 1) = 2 * 2^k /\ (k > 0 => 2^k >= 2)
<1>0. CASE k = 0 BY <1>0
<1>1. CASE k = 1 BY <1>1
<1>2. CASE k = 2 BY <1>2
<1>3. CASE k = 3 BY <1>3
<1>4. CASE k = 4 BY <1>4
<1>5. CASE k = 5 BY <1>5
<1>6. CASE k = 6 BY <1>6
<1>7. CASE k = 7 BY <1>7
<1>8. CASE k = 8 BY <1>8
<1>9. CASE k = 9 BY <1>9
<1>10. CASE k = 10 BY <1>10
<1>11. CASE k = 11 BY <1>11
<1>12. CASE k = 12 BY <1>12
<1>13. CASE k = 13 BY <1>13
<1>14. CASE k = 14 BY <1>14
<1>15. CASE k = 15 BY <1>15
<1>16. CASE k = 16 BY <1>16
<1>17. CASE k = 17 BY <1>17
<1>18. CASE k = 18 BY <1>18
<1>19. CASE k = 19 BY <1>19
<1>20. CASE k = 20 BY <1>20
<1>21. CASE k = 21 BY <1>21
<1>22. CASE k = 22 BY <1>22
<1>23. CASE k = 23 BY <1>23
<1>24. CASE k = 24 BY <1>24
<1>25. CASE k = 25 BY <1>25
<1>26. CASE k = 26 BY <1>26
<1>27. CASE k = 27 BY <1>27
<1>28. CASE k = 28 BY <1>28
<1>29. CASE k = 29 BY <1>29
<1>30. CASE k = 30 BY <1>30
<1> QED BY <1>0, <1>1, <1>2, <1>3, <1>4, <1>5, <1>6, <1>7, <1>8, <1>9, <1>10, <1>11,
          <1>12, <1>13, <1>14, <1>15, <1>16, <1>17, <1>18, <1>19, <1>20, <1>21, <1>22,
          <1>23, <1>24, <1>25, <1>26, <1>27, <1>28, <1>29, <1>30

LEMMA PowersGrow ==
  ASSUME NEW j \in 0..30, NEW k \in 0..30, j <= k
  PROVE  2^j <= 2^k
<1>1. 2^j \in Nat /\ 2^k \in Nat BY PowerOf
<1> SUFFICES ASSUME 2^j > 2^k PROVE FALSE BY <1>1
<1> DEFINE S == {m \in 0..30 : j <= m /\ 2^j > 2^m}
<1>2. PICK m \in S : \A n \in S : m <= n
  <2>1. k \in S OBVIOUS
  <2>2. S \in SUBSET (0..30) /\ S # {} BY <2>1
  <2> HIDE DEF S
  <2> QED BY <2>2, LeastNumber
<1>3. m \in 0..30 /\ j <= m /\ 2^j > 2^m BY <1>2
<1>4. m # j BY <1>1, <1>3
<1> DEFINE l == m - 1
<1>5. l \in 0..30 /\ j <= l /\ m = l + 1 /\ l < m BY <1>3, <1>4
<1> HIDE DEF l
<1>6. l \notin S
  <2> HIDE DEF S
  <2> QED BY <1>2, <1>3, <1>5
<1>7. 2^l \in Nat /\ 2^m = 2 * 2^l BY <1>5, PowerOf
<1>8. 2^j <= 2^l BY <1>1, <1>5, <1>6, <1>7
<1> QED BY <1>1, <1>3, <1>7, <1>8

LEMMA Log2 ==
  ASSUME NEW i \in 1..2^31 - 1
  PROVE  ilog2(i) \in 0..30 /\ 2^ilog2(i) <= i /\ i < 2^(ilog2(i) + 1)
<1>1. \E k \in 0..30 : 2^k <= i /\ i < 2^(k + 1) OBVIOUS
<1> QED BY <1>1 DEF ilog2

\* ledc_calculate_divisor without the division.
LEMMA DivisorOf ==
  ASSUME NEW f \in 1..SrcClk, NEW bits \in 0..BitWidth - 1, NEW n \in Nat
  PROVE  LET fp == f * 2^bits IN
         /\ fp \in Nat \ {0} /\ Divisor(f, bits) \in Nat
         /\ Divisor(f, bits) >= n <=> SrcClk * Fraction + fp \div 2 >= n * fp
<1> DEFINE fp == f * 2^bits
           a  == SrcClk * Fraction + fp \div 2
<1>1. 2^bits \in Nat \ {0}
  <2>1. bits \in 0..30 BY PwmAssumption
  <2> QED BY <2>1, PowerOf
<1>2. fp \in Nat \ {0} BY <1>1, PwmAssumption
<1>3. SrcClk * Fraction \in Nat BY PwmAssumption
<1>4. a \in Nat
  <2> HIDE DEF fp
  <2> QED BY <1>2, <1>3
<1>5. Divisor(f, bits) = a \div fp BY DEF Divisor
<1> HIDE DEF a, fp
<1>6. a \div fp \in Nat /\ (a \div fp >= n <=> a >= n * fp)
  BY <1>2, <1>4, DivAtLeast
<1> QED BY <1>2, <1>5, <1>6 DEF a, fp

\* More bits make the divider smaller.
LEMMA DivisorFalls ==
  ASSUME NEW f \in 1..SrcClk, NEW i \in 0..BitWidth - 1, NEW j \in 0..BitWidth - 1,
         i <= j, NEW n \in Nat \ {0}, Divisor(f, j) >= n
  PROVE  Divisor(f, i) >= n
<1> DEFINE x == f * 2^i
           y == f * 2^j
           A == SrcClk * Fraction
<1>1. 2^i \in Nat /\ 2^j \in Nat /\ 2^i <= 2^j
  <2>1. i \in 0..30 /\ j \in 0..30 BY PwmAssumption
  <2> QED BY <2>1, PowerOf, PowersGrow
<1>2. x <= y BY <1>1, PwmAssumption
<1>3. x \in Nat /\ y \in Nat /\ A \in Nat BY <1>1, PwmAssumption
<1>4. A + y \div 2 >= n * y BY DivisorOf
<1>5. A + x \div 2 >= n * x
  <2> HIDE DEF A, x, y
  <2> QED BY <1>2, <1>3, <1>4, Shrinks
<1> QED BY <1>5, DivisorOf

\* What the two forms of the search take: the largest power of two in the
\* quotient, cut at the width of the timer.
LEMMA Largest ==
  ASSUME NEW q \in 1..2^31 - 1
  PROVE  LET b == AtMost(ilog2(q)) IN
         b \in 0..BitWidth - 1 /\ 2^b <= q /\ (b < BitWidth - 1 => q < 2^(b + 1))
<1> DEFINE t == ilog2(q)
           b == AtMost(t)
<1>1. t \in 0..30 /\ 2^t <= q /\ q < 2^(t + 1) BY Log2
<1> HIDE DEF t
<1>2. CASE t >= BitWidth
  <2>1. b = BitWidth - 1 /\ b \in 0..30 /\ b <= t BY <1>1, <1>2, PwmAssumption DEF AtMost
  <2> HIDE DEF b
  <2>2. 2^b <= 2^t /\ 2^b \in Nat /\ 2^t \in Nat BY <1>1, <2>1, PowersGrow, PowerOf
  <2>3. 2^b <= q BY <1>1, <2>2
  <2> QED BY <2>1, <2>3, PwmAssumption DEF b, t
<1>3. CASE t < BitWidth
  <2>1. b = t BY <1>1, <1>3, PwmAssumption DEF AtMost
  <2>2. b \in 0..BitWidth - 1 BY <1>1, <1>3, <2>1, PwmAssumption
  <2>3. 2^b <= q /\ q < 2^(b + 1) BY <1>1, <2>1
  <2> QED BY <2>2, <2>3 DEF b, t
<1> QED BY <1>1, <1>2, <1>3, PwmAssumption

\* ledc_find_suitable_duty_resolution2 tries two resolutions only and misses
\* none that the divider could do, at any clock, frequency and width.
LEMMA SearchFinds ==
  ASSUME NEW f \in Periods, Resolution(f) = 0, NEW bits \in 1..BitWidth - 1
  PROVE  ~Valid(f, bits)
<1> DEFINE q == SrcClk \div f
           p == (SrcClk + f \div 2) \div f
           T == Truncated(f)
           R == Rounded(f)
           A == SrcClk * Fraction
<1>1. f \in 1..SrcClk /\ f \in Nat \ {0} /\ A \in Nat BY PwmAssumption
<1>2. SrcClk \in Nat /\ SrcClk <= 2^30 /\ f <= SrcClk /\ f \div 2 \in Nat
      /\ f \div 2 <= SrcClk
  BY <1>1, PwmAssumption
<1>3. q \in 1..2^31 - 1 /\ f * q <= SrcClk /\ SrcClk < f * q + f
  <2>1. q \in Nat /\ f * q <= SrcClk /\ SrcClk < f * q + f BY <1>1, <1>2
  <2>2. q >= 1 BY <1>1, <1>2, DivAtLeast
  <2>3. f * q >= q BY <1>1, <2>1
  <2> HIDE DEF q
  <2> QED BY <1>1, <1>2, <2>1, <2>2, <2>3
<1>4. p \in 1..2^31 - 1 /\ SrcClk + f \div 2 < f * p + f /\ f * p <= SrcClk + f \div 2
  <2> DEFINE n == SrcClk + f \div 2
  <2>1. n \in Nat /\ n >= f /\ n <= 2^31 - 1 BY <1>1, <1>2
  <2> HIDE DEF n
  <2>2. n \div f \in Nat /\ f * (n \div f) <= n /\ n < f * (n \div f) + f BY <1>1, <2>1
  <2>3. n \div f >= 1 BY <1>1, <2>1, DivAtLeast
  <2>4. f * (n \div f) >= n \div f BY <1>1, <2>2
  <2>5. n \div f <= 2^31 - 1 BY <1>1, <2>1, <2>2, <2>4
  <2> QED BY <2>2, <2>3, <2>5 DEF n
<1>5. T \in 0..BitWidth - 1 /\ 2^T <= q /\ (T < BitWidth - 1 => q < 2^(T + 1))
  BY <1>3, Largest DEF Truncated
<1>6. R \in 0..BitWidth - 1 /\ 2^R <= p /\ (R < BitWidth - 1 => p < 2^(R + 1))
  BY <1>4, Largest DEF Rounded
<1>7. Resolution(f) = IF Valid(f, R) THEN R ELSE IF Valid(f, T) THEN T ELSE 0
  BY DEF Resolution
<1> HIDE DEF q, p, T, R
<1>8. 2^T \in Nat \ {0} /\ 2^(T + 1) = 2 * 2^T
  <2>1. T \in 0..30 BY <1>5, PwmAssumption
  <2> QED BY <2>1, PowerOf
<1>9. CASE ~Valid(f, T)
  <2> DEFINE fp == f * 2^T
  <2>1. fp \in Nat \ {0} /\ fp <= f * q BY <1>1, <1>3, <1>5, <1>8
  <2>2. A >= Fraction * fp
    <3>1. SrcClk >= fp BY <1>1, <1>2, <1>3, <2>1
    <3> HIDE DEF fp
    <3> QED BY <1>2, <2>1, <3>1, PwmAssumption
  <2>3. A + fp \div 2 >= Fraction * fp
    <3> HIDE DEF fp, A
    <3>1. fp \div 2 \in Nat /\ Fraction * fp \in Nat BY <2>1, PwmAssumption
    <3> QED BY <1>1, <2>2, <3>1
  <2>4. Divisor(f, T) >= Fraction /\ Divisor(f, T) \in Nat
    BY <1>1, <1>5, <2>3, DivisorOf, PwmAssumption
  <2>5. Divisor(f, T) >= DivMax + 1 BY <1>9, <2>4, PwmAssumption DEF Valid
  <2>6. A + fp \div 2 >= (DivMax + 1) * fp BY <1>1, <1>5, <2>5, DivisorOf, PwmAssumption
  <2>7. CASE T < BitWidth - 1
    <3>1. q + 1 <= 2 * 2^T BY <1>3, <1>5, <1>8, <2>7
    <3>2. f * (q + 1) <= f * (2 * 2^T) BY <1>1, <1>3, <1>8, <3>1
    <3>3. f * q + f <= 2 * fp BY <1>1, <1>3, <1>8, <3>2
    <3> HIDE DEF fp
    <3>4. SrcClk <= 2 * fp
      <4>1. f * q \in Nat BY <1>1, <1>3
      <4> QED BY <1>1, <1>2, <1>3, <2>1, <3>3, <4>1
    <3>5. A <= 2 * fp * Fraction BY <1>2, <2>1, <3>4, PwmAssumption
    <3>6. (2 * Fraction) * fp <= DivMax * fp BY <2>1, PwmAssumption
    <3>7. (DivMax + 1) * fp = DivMax * fp + fp /\ 2 * fp * Fraction = (2 * Fraction) * fp
      BY <2>1, PwmAssumption
    <3>8. fp \div 2 < fp /\ fp \div 2 \in Nat BY <2>1
    <3>9. DivMax * fp \in Nat /\ (2 * Fraction) * fp \in Nat BY <2>1, PwmAssumption
    <3> HIDE DEF A
    <3> QED BY <1>1, <2>1, <2>6, <3>5, <3>6, <3>7, <3>8, <3>9
  <2>8. CASE T = BitWidth - 1
    <3>1. Divisor(f, bits) >= DivMax + 1
      BY <1>1, <1>5, <2>5, <2>8, DivisorFalls, PwmAssumption
    <3>2. Divisor(f, bits) \in Nat BY <1>1, DivisorOf, PwmAssumption
    <3> QED BY <3>1, <3>2, PwmAssumption DEF Valid
  <2> QED BY <1>5, <2>7, <2>8, PwmAssumption
<1>10. ASSUME Divisor(f, 1) < Fraction PROVE ~Valid(f, bits)
  <2>1. 1 \in 0..BitWidth - 1 /\ bits \in 0..BitWidth - 1 /\ 1 <= bits BY PwmAssumption
  <2>2. Divisor(f, bits) \in Nat /\ Divisor(f, 1) \in Nat
    BY <1>1, <2>1, DivisorOf, PwmAssumption
  <2>3. Divisor(f, bits) < Fraction
    BY <1>1, <1>10, <2>1, <2>2, DivisorFalls, PwmAssumption
  <2> QED BY <2>2, <2>3, PwmAssumption DEF Valid
<1>11. /\ Divisor(f, 1) \in Nat
       /\ \A n \in Nat : Divisor(f, 1) >= n <=> A + f >= n * (f * 2)
  <2>1. 1 \in 0..BitWidth - 1 /\ 2^1 = 2 /\ (f * 2) \div 2 = f BY <1>1, PwmAssumption
  <2> QED BY <1>1, <2>1, DivisorOf
<1>12. CASE Valid(f, R) /\ R = 0
  <2>1. p < 2 BY <1>6, <1>12, PwmAssumption
  <2>2. SrcClk + f \div 2 < 2 * f BY <1>1, <1>4, <2>1
  <2>3. SrcClk + (f \div 2 + 1) <= 2 * f BY <1>1, <1>2, <2>2
  <2>4. Fraction * SrcClk + Fraction * (f \div 2 + 1) <= Fraction * (2 * f)
    BY <1>1, <1>2, <2>3, PwmAssumption
  <2>5. Fraction * (f \div 2 + 1) >= 2 * (f \div 2 + 1) BY <1>2, PwmAssumption
  <2>6. 2 * (f \div 2 + 1) > f BY <1>1
  <2>7. A + f < Fraction * (f * 2) BY <1>1, <1>2, <2>4, <2>5, <2>6, PwmAssumption
  <2> QED BY <1>10, <1>11, <2>7, PwmAssumption
<1>13. CASE ~Valid(f, R) /\ Valid(f, T) /\ T = 0
  <2>1. q < 2 BY <1>5, <1>13, PwmAssumption
  <2>2. SrcClk < 2 * f BY <1>1, <1>3, <2>1
  <2>3. p < 3
    <3>1. f * p < 3 * f BY <1>1, <1>2, <1>4, <2>2
    <3> QED BY <1>1, <1>4, <3>1
  <2>4. R # 0 BY <1>13
  <2>5. R = 1
    <3>1. R \in 0..30 /\ 2 \in 0..30 BY <1>6, PwmAssumption
    <3>2. R >= 2 => 2^R >= 4 /\ 2^R \in Nat
      <4>1. 2^2 = 4 OBVIOUS
      <4>2. R >= 2 => 2^2 <= 2^R BY <3>1, PowersGrow
      <4> QED BY <3>1, <4>1, <4>2, PowerOf
    <3> QED BY <1>4, <1>6, <2>3, <2>4, <3>1, <3>2
  <2>6. A + f < (DivMax + 1) * (f * 2)
    <3>1. A <= (2 * f) * Fraction BY <1>1, <1>2, <2>2, PwmAssumption
    <3>2. (2 * f) * Fraction <= f * DivMax BY <1>1, PwmAssumption
    <3>3. (DivMax + 1) * (f * 2) = 2 * (f * DivMax) + 2 * f BY <1>1, PwmAssumption
    <3>4. f * DivMax \in Nat /\ (2 * f) * Fraction \in Nat BY <1>1, PwmAssumption
    <3> HIDE DEF A
    <3> QED BY <1>1, <3>1, <3>2, <3>3, <3>4
  <2>7. Divisor(f, 1) < DivMax + 1 BY <1>11, <2>6, PwmAssumption
  <2>8. Divisor(f, 1) < Fraction BY <1>11, <1>13, <2>5, <2>7, PwmAssumption DEF Valid
  <2> QED BY <1>10, <2>8
<1> QED BY <1>7, <1>9, <1>12, <1>13

-----------------------------------------------------------------------------

\* The answer that stands is the one the search gave for what was asked.
RefusalStands ==
  ret.how = "no resolution" => ret.of.period \in Periods /\ Resolution(ret.of.period) = 0

LEMMA RefusalStep == RefusalStands /\ [Next]_vars => RefusalStands'
<1> SUFFICES ASSUME RefusalStands, [Next]_vars PROVE RefusalStands' OBVIOUS
<1>1. ASSUME NEW how, NEW r, Ends(how, r), how # "no resolution" PROVE RefusalStands'
  BY <1>1 DEF Ends, RefusalStands
<1>2. ASSUME NEW c \in Channels, NEW r \in Requests, SetupFails(c, r) PROVE RefusalStands'
  <2>1. Resolution(r.period) = 0 /\ ret' = [how |-> "no resolution", of |-> r]
    BY <1>2 DEF SetupFails, Ends
  <2>2. r.period \in Periods BY DEF Requests
  <2>3. ret'.of = r BY <2>1
  <2>4. Resolution(ret'.of.period) = 0 /\ ret'.of.period \in Periods BY <2>1, <2>2, <2>3
  <2> QED BY <2>4 DEF RefusalStands
<1>3. ASSUME NEW c \in Channels, Setup(c) PROVE RefusalStands'
  <2>1. CASE Refuse(c) BY <1>1, <2>1 DEF Refuse
  <2>2. ASSUME NEW r \in Requests, SetupWorks(c, r) PROVE RefusalStands'
    BY <1>1, <2>2 DEF SetupWorks
  <2> QED BY <1>2, <1>3, <2>1, <2>2 DEF Setup
<1>4. ASSUME NEW c \in Channels, CloseUnknown(c) PROVE RefusalStands'
  BY <1>1, <1>4 DEF CloseUnknown
<1>5. ASSUME NEW c \in Channels, CloseOpen(c) PROVE RefusalStands'
  BY <1>1, <1>5 DEF CloseOpen
<1>6. CASE UNCHANGED vars BY <1>6 DEF vars, RefusalStands
<1> QED BY <1>3, <1>4, <1>5, <1>6 DEF Next

\* No setup is refused for nothing, after any history: for want of a slot only
\* while every timer is in use, as long as no channel has taken two, and for
\* want of a resolution only when no resolution lets the divider reach the
\* frequency.
THEOREM RefusalIsRight == Spec => []RefusedRightly
<1>1. FullOrRetuned /\ RefusalStands => RefusedRightly
  BY SearchFinds DEF FullOrRetuned, RefusalStands, RefusedRightly
<1>2. Init => RefusalStands BY DEF Init, RefusalStands
<1>3. Spec => []RefusalStands BY <1>2, RefusalStep, PTL DEF Spec
<1> QED BY <1>1, <1>3, Invariance, PTL
=============================================================================
