--------------------------------- MODULE Pwm ---------------------------------
(***************************************************************************)
(* The PWM port, port/luat_pwm_idf5.c: a table of LEDC_TIMER_MAX slots     *)
(* that shadows the LEDC timers and channels, so that a change of the duty *)
(* alone does not reconfigure the hardware, and the search of the duty     *)
(* resolution.  The calls come from the Lua task only.  The LEDC block and *)
(* the GPIO matrix are external.                                           *)
(*                                                                         *)
(* The number of pulses never reaches the hardware and is left out.  The   *)
(* clock, the widths and the limits of the divider are parameters: the     *)
(* numbers of the code (80 MHz, 8 bits of fraction) do not fit TLC's; the  *)
(* assumption holds for them too.                                          *)
(*                                                                         *)
(* The setup of an open channel takes the first slot that is free, also    *)
(* past the one that holds the channel.  From then on the channel has two  *)
(* slots, and nothing is promised of it: retuned remembers these channels. *)
(***************************************************************************)
EXTENDS Integers, FiniteSets, FiniteSetsExt

CONSTANTS
  TimerMax,    \* LEDC_TIMER_MAX
  Channels,    \* the pins the script drives
  Periods,     \* frequencies it asks for (conf->period)
  Precisions,  \* steps of the duty it asks for
  Pulses,      \* pulses it asks for
  SrcClk,      \* the 80 MHz of the source clock
  Fraction,    \* 2^LEDC_LL_FRACTIONAL_BITS
  DivMax,      \* LEDC_TIMER_DIV_NUM_MAX
  BitWidth     \* SOC_LEDC_TIMER_BIT_WIDTH

ASSUME PwmAssumption == /\ TimerMax \in Nat \ {0} /\ "none" \notin Channels
                        /\ SrcClk \in 1..2^30 /\ Periods \subseteq 1..SrcClk
                        /\ Precisions \subseteq Nat \ {0} /\ Pulses \subseteq Nat
                        /\ Fraction \in Nat /\ Fraction > 1
                        /\ DivMax \in Nat /\ DivMax >= 2 * Fraction
                        /\ BitWidth \in 1..30

VARIABLES
  is_opened,  \* luat_pwm_idf[i].is_opened
  channel,    \* luat_pwm_idf[i].pc.channel
  cfg,        \* period and precision of luat_pwm_idf[i].pc
  hwTimer,    \* frequency and resolution LEDC timer i runs with
  hwDuty,     \* the duty LEDC channel i puts out, or "stopped"
  pin,        \* the LEDC channel the pin is connected to, or -1
  asked,      \* what the script believes it drives
  ret,        \* how the last call ended, and what it asked for
  retuned     \* channels that were given a second slot, ever

vars == <<is_opened, channel, cfg, hwTimer, hwDuty, pin, asked, ret, retuned>>

Slots     == 0..TimerMax - 1
Requests  == [period : Periods, precision : Precisions, pulse : Pulses]
Cleared   == [period |-> 0, precision |-> 0]
Idle      == [freq |-> 0, bits |-> 0]
NoRequest == [period |-> 0, precision |-> 0, pulse |-> 0]
NoDuty    == -1

-----------------------------------------------------------------------------
(* The duty resolution. *)

ilog2(i) == CHOOSE k \in 0..30 : 2^k <= i /\ i < 2^(k + 1)

\* ledc_calculate_divisor, in units of 1 / Fraction.
Divisor(freq, bits) ==
  LET fp == freq * 2^bits IN (SrcClk * Fraction + fp \div 2) \div fp

Valid(freq, bits) == LET div == Divisor(freq, bits) IN Fraction <= div /\ div <= DivMax

AtMost(bits) == IF bits >= BitWidth THEN BitWidth - 1 ELSE bits
Rounded(freq)   == AtMost(ilog2((SrcClk + freq \div 2) \div freq))
Truncated(freq) == AtMost(ilog2(SrcClk \div freq))

\* ledc_find_suitable_duty_resolution2; the first form does not try again.
ResolutionOnce(freq) == IF Valid(freq, Rounded(freq)) THEN Rounded(freq) ELSE 0
Resolution(freq) == IF Valid(freq, Rounded(freq)) THEN Rounded(freq)
                    ELSE IF Valid(freq, Truncated(freq)) THEN Truncated(freq) ELSE 0

\* A pulse above the precision is cut.
Duty(r) == LET pulse == IF r.pulse > r.precision THEN r.precision ELSE r.pulse
           IN  (pulse * 2^Resolution(r.period)) \div r.precision

Timer(r)  == [freq |-> r.period, bits |-> Resolution(r.period)]
Config(r) == [period |-> r.period, precision |-> r.precision]

-----------------------------------------------------------------------------

Init == /\ is_opened = [i \in Slots |-> FALSE]
        /\ channel = [i \in Slots |-> "none"]
        /\ cfg = [i \in Slots |-> Cleared]
        /\ hwTimer = [i \in Slots |-> Idle]
        /\ hwDuty = [i \in Slots |-> NoDuty]
        /\ pin = [c \in Channels |-> -1]
        /\ asked = [c \in Channels |-> NoRequest]
        /\ ret = [how |-> "ok", of |-> NoRequest]
        /\ retuned = {}

Ends(how, r) == ret' = [how |-> how, of |-> r]

Holds(i, c) == is_opened[i] /\ channel[i] = c

\* The slot luat_pwm_setup takes for c: the first that is free or holds c.
Candidates(c) == {i \in Slots : Holds(i, c) \/ ~is_opened[i]}

Refuse(c) == /\ Candidates(c) = {}
             /\ Ends("too many", NoRequest)
             /\ UNCHANGED <<is_opened, channel, cfg, hwTimer, hwDuty, pin, asked, retuned>>

MustReconfigure(i, r) == Config(r) # cfg[i]

\* ledc_timer_config refuses a resolution of 0: the slot stays as it was.
SetupFails(c, r) == /\ Candidates(c) # {}
                    /\ MustReconfigure(Min(Candidates(c)), r)
                    /\ Resolution(r.period) = 0
                    /\ Ends("no resolution", r)
                    /\ UNCHANGED <<is_opened, channel, cfg, hwTimer, hwDuty, pin, asked,
                                   retuned>>

\* A slot holds c, and the search takes another, which is free.
PassesBy(c) == /\ \E j \in Slots : Holds(j, c)
               /\ ~Holds(Min(Candidates(c)), c)

SetupWorks(c, r) ==
  /\ Candidates(c) # {}
  /\ LET i == Min(Candidates(c)) IN
     /\ IF MustReconfigure(i, r)
        THEN /\ Resolution(r.period) > 0
             /\ hwTimer' = [hwTimer EXCEPT ![i] = Timer(r)]
             /\ pin' = [pin EXCEPT ![c] = i]
        ELSE UNCHANGED <<hwTimer, pin>>
     /\ hwDuty' = [hwDuty EXCEPT ![i] = Duty(r)]
     /\ is_opened' = [is_opened EXCEPT ![i] = TRUE]
     /\ channel' = [channel EXCEPT ![i] = c]
     /\ cfg' = [cfg EXCEPT ![i] = Config(r)]
  /\ asked' = [asked EXCEPT ![c] = r]
  /\ retuned' = retuned \cup {d \in {c} : PassesBy(d)}
  /\ Ends("ok", r)

Setup(c) == \/ Refuse(c)
            \/ \E r \in Requests : SetupFails(c, r) \/ SetupWorks(c, r)

\* What a close leaves behind; the Keep forms forget one of the resets.
KeepPc(i)    == cfg
ClearPc(i)   == [cfg EXCEPT ![i] = Cleared]
FreeSlot(i)  == [is_opened EXCEPT ![i] = FALSE]
KeepPin(c)   == pin
ResetPin(c)  == [pin EXCEPT ![c] = -1]

CloseUnknown(c) == /\ {i \in Slots : Holds(i, c)} = {}
                   /\ Ends("not open", NoRequest)
                   /\ UNCHANGED <<is_opened, channel, cfg, hwTimer, hwDuty, pin, asked,
                                  retuned>>

\* ledc_stop, gpio_reset_pin, and the slot is cleared.
CloseOpen(c) == /\ {i \in Slots : Holds(i, c)} # {}
                /\ LET i == Min({j \in Slots : Holds(j, c)}) IN
                   /\ hwDuty' = [hwDuty EXCEPT ![i] = NoDuty]
                   /\ pin' = ResetPin(c)
                   /\ is_opened' = FreeSlot(i)
                   /\ channel' = [channel EXCEPT ![i] = "none"]
                   /\ cfg' = ClearPc(i)
                /\ asked' = [asked EXCEPT ![c] = NoRequest]
                /\ Ends("ok", NoRequest)
                /\ UNCHANGED <<hwTimer, retuned>>

Next == \E c \in Channels : Setup(c) \/ CloseUnknown(c) \/ CloseOpen(c)

Spec == Init /\ [][Next]_vars

-----------------------------------------------------------------------------

TypeOK == /\ is_opened \in [Slots -> BOOLEAN]
          /\ channel \in [Slots -> Channels \cup {"none"}]
          /\ cfg \in [Slots -> [period : Nat, precision : Nat]]
          /\ hwTimer \in [Slots -> [freq : Nat, bits : Nat]]
          /\ hwDuty \in [Slots -> Nat \cup {NoDuty}]
          /\ pin \in [Channels -> Slots \cup {-1}]
          /\ asked \in [Channels -> Requests \cup {NoRequest}]
          /\ retuned \subseteq Channels

Asked == {c \in Channels : asked[c] # NoRequest}

\* A channel that luat_pwm_setup accepted puts out what was asked last: its
\* pin is connected to a running slot that holds it, whose timer runs at the
\* frequency asked for, with a resolution its divider can do, and whose duty
\* is the pulse asked for at that resolution, through any history of setups,
\* of the duty alone or of all, refusals and closes, whatever other channels
\* were given two slots.
Driven == \A c \in Asked \ retuned : \E i \in Slots :
            /\ Holds(i, c) /\ pin[c] = i
            /\ hwTimer[i].freq = asked[c].period
            /\ Valid(hwTimer[i].freq, hwTimer[i].bits)
            /\ hwDuty[i] = Duty(asked[c]) /\ hwTimer[i].bits = Resolution(asked[c].period)

\* "too many PWM, only LEDC_TIMER_MAX channels supported": luat_pwm_setup
\* refuses only while the script has that many channels open.
RefusedOnlyWhenFull == ret.how = "too many" => Cardinality(Asked) = TimerMax

\* No setup is refused for nothing: unless a channel has taken two slots, as
\* many channels are open as there are timers; or no resolution lets the
\* divider reach the frequency, for all frequencies at which the rounded and
\* the truncated quotient differ.
RefusedRightly ==
  /\ retuned = {} => RefusedOnlyWhenFull
  /\ ret.how = "no resolution"
       => \A bits \in 1..BitWidth - 1 : ~Valid(ret.of.period, bits)

\* What is closed is silent: no pin stays connected to a slot, and no slot
\* runs, for a channel the script does not drive, except for one that had two
\* slots: close finds the first only.
ClosedIsSilent ==
  /\ \A c \in Channels \ retuned : asked[c] = NoRequest => pin[c] = -1
  /\ \A i \in Slots :
       hwDuty[i] # NoDuty => is_opened[i] /\ channel[i] \in Asked \cup retuned
=============================================================================
