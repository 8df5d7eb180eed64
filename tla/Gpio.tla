-------------------------------- MODULE Gpio --------------------------------
(***************************************************************************)
(* The GPIO port, port/luat_gpio_idf5.c: luat_gpio_setup and               *)
(* luat_gpio_close run in the Lua task and touch the interrupt and the     *)
(* entry gpio_isr_cb[pin] one after the other; gpio_isr_handler may run    *)
(* between any two of these writes (the ISR service is installed from the  *)
(* Lua task and so runs on its core: a handler is not itself interrupted). *)
(* The GPIO driver is external.                                            *)
(***************************************************************************)
EXTENDS Naturals

CONSTANTS
  Pins,     \* SOC_GPIO_PIN_COUNT pins
  UsbPins,  \* GPIO 18 and 19 of the ESP32-C3, empty on other chips
  Cbs       \* interrupt callbacks; the args of each are named after it

ASSUME GpioAssumption == /\ UsbPins \subseteq Pins
                         /\ Cbs \cap {"none", "default"} = {}

VARIABLES
  enabled,             \* the pin's interrupt is on
  irq_cb, irq_args,    \* gpio_isr_cb[pin]
  warn_c3_gpio1819,
  call,                \* the call the Lua task is in, Idle outside
  mode,                \* what the script made of the pin
  given,               \* callbacks given for the pin since it was closed
  fired                \* what the last interrupt ran, with which args

vars == <<enabled, irq_cb, irq_args, warn_c3_gpio1819, call, mode, given, fired>>

Idle  == [at |-> "idle"]
Modes == {"output", "input", "irq"}
At(s) == call.at = s

Init == /\ enabled = [p \in Pins |-> FALSE]
        /\ irq_cb = [p \in Pins |-> "none"] /\ irq_args = [p \in Pins |-> "none"]
        /\ warn_c3_gpio1819 = 0
        /\ call = Idle
        /\ mode = [p \in Pins |-> "closed"]
        /\ given = [p \in Pins |-> {}]
        /\ fired = [cb |-> "none", args |-> "none"]

-----------------------------------------------------------------------------
(* The interrupt: gpio_isr_handler. *)

Isr(p) == /\ enabled[p]
          /\ fired' = IF irq_cb[p] # "none" THEN [cb |-> irq_cb[p], args |-> irq_args[p]]
                      ELSE [cb |-> "default", args |-> "none"]
          /\ UNCHANGED <<enabled, irq_cb, irq_args, warn_c3_gpio1819, call, mode, given>>

-----------------------------------------------------------------------------
(* luat_gpio_setup. *)

\* gpio_reset_pin turns the interrupt off, for the pin and, the first time
\* one of them is set up, for both pins that USB uses too.
FirstUsb(p)     == p \in UsbPins /\ warn_c3_gpio1819 = 0
ResetNone(p)    == {}
ResetPins(p)    == {p} \cup (IF FirstUsb(p) THEN UsbPins ELSE {})
WarnNever(p)    == 0
WarnOnce(p)     == IF FirstUsb(p) THEN 1 ELSE warn_c3_gpio1819

\* No such pin: nothing is touched.
SetupRefused == At("idle") /\ UNCHANGED vars

Setup(p, m, cb) ==
  /\ At("idle") /\ (m # "irq" => cb = "none")
  /\ enabled' = [q \in Pins |-> enabled[q] /\ q \notin ResetPins(p)]
  /\ warn_c3_gpio1819' = WarnOnce(p)
  /\ call' = IF m = "irq"
             THEN [at |-> IF cb = "none" THEN "handler" ELSE "cb", pin |-> p, cb |-> cb]
             ELSE Idle
  /\ mode' = [mode EXCEPT ![p] = m]
  /\ given' = [given EXCEPT ![p] = IF cb = "none" THEN @ ELSE @ \cup {cb}]
  /\ UNCHANGED <<irq_cb, irq_args, fired>>

SetupCb == /\ At("cb")
           /\ irq_cb' = [irq_cb EXCEPT ![call.pin] = call.cb]
           /\ call' = [call EXCEPT !.at = "args"]
           /\ UNCHANGED <<enabled, irq_args, warn_c3_gpio1819, mode, given, fired>>

SetupArgs == /\ At("args")
             /\ irq_args' = [irq_args EXCEPT ![call.pin] = call.cb]
             /\ call' = [call EXCEPT !.at = "handler"]
             /\ UNCHANGED <<enabled, irq_cb, warn_c3_gpio1819, mode, given, fired>>

\* gpio_isr_handler_add turns the interrupt on.
SetupHandler == /\ At("handler")
                /\ enabled' = [enabled EXCEPT ![call.pin] = TRUE]
                /\ call' = Idle
                /\ UNCHANGED <<irq_cb, irq_args, warn_c3_gpio1819, mode, given, fired>>

-----------------------------------------------------------------------------
(* luat_gpio_close: the callback, its args, then the interrupt. *)

Close(p) == /\ At("idle")
            /\ call' = [at |-> IF irq_cb[p] = "none" THEN "reset" ELSE "uncb", pin |-> p]
            /\ UNCHANGED <<enabled, irq_cb, irq_args, warn_c3_gpio1819, mode, given, fired>>

\* What the close makes of the callback; the first form keeps it.
KeepCb(p)  == irq_cb
ClearCb(p) == [irq_cb EXCEPT ![p] = "none"]

CloseCb == /\ At("uncb")
           /\ irq_cb' = ClearCb(call.pin)
           /\ call' = [call EXCEPT !.at = "unargs"]
           /\ UNCHANGED <<enabled, irq_args, warn_c3_gpio1819, mode, given, fired>>

CloseArgs == /\ At("unargs")
             /\ irq_args' = [irq_args EXCEPT ![call.pin] = "none"]
             /\ call' = [call EXCEPT !.at = "reset"]
             /\ UNCHANGED <<enabled, irq_cb, warn_c3_gpio1819, mode, given, fired>>

CloseReset == /\ At("reset")
              /\ enabled' = [enabled EXCEPT ![call.pin] = FALSE]
              /\ mode' = [mode EXCEPT ![call.pin] = "closed"]
              /\ given' = [given EXCEPT ![call.pin] = {}]
              /\ call' = Idle
              /\ UNCHANGED <<irq_cb, irq_args, warn_c3_gpio1819, fired>>

LuaTask == \/ SetupRefused \/ SetupCb \/ SetupArgs \/ SetupHandler
           \/ CloseCb \/ CloseArgs \/ CloseReset
           \/ \E p \in Pins :
                \/ \E m \in Modes, cb \in Cbs \cup {"none"} : Setup(p, m, cb)
                \/ Close(p)

Next == LuaTask \/ \E p \in Pins : Isr(p)

Spec == Init /\ [][Next]_vars

-----------------------------------------------------------------------------

TypeOK ==
  /\ enabled \in [Pins -> BOOLEAN]
  /\ irq_cb \in [Pins -> Cbs \cup {"none"}] /\ irq_args \in [Pins -> Cbs \cup {"none"}]
  /\ warn_c3_gpio1819 \in {0, 1}
  /\ call \in {Idle} \cup [at : {"cb", "args", "handler"}, pin : Pins, cb : Cbs \cup {"none"}]
                     \cup [at : {"uncb", "unargs", "reset"}, pin : Pins]
  /\ mode \in [Pins -> Modes \cup {"closed"}]
  /\ given \in [Pins -> SUBSET Cbs]
  /\ fired \in [cb : Cbs \cup {"none", "default"}, args : Cbs \cup {"none"}]

\* An interrupt never runs a callback with the args of another, whenever it
\* comes between the two writes of a setup or of a close.
CallbackGetsItsArgs == fired.cb \in Cbs => fired.args = fired.cb

\* Between two calls a pin interrupts exactly when the script made it an
\* interrupt pin: no setup or close of one pin switches another on or off.
IrqAsAsked == At("idle") => \A p \in Pins : enabled[p] <=> mode[p] = "irq"

\* A callback does not survive the close of its pin: what an interrupt runs
\* was given since.
NoCallbackFromBeforeClose ==
  \A p \in Pins : enabled[p] /\ irq_cb[p] # "none" => irq_cb[p] \in given[p]
=============================================================================
