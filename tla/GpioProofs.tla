----------------------------- MODULE GpioProofs -----------------------------
(***************************************************************************)
(* Proofs about Gpio, for any number of pins and callbacks: interrupts     *)
(* between any two writes of a setup or a close run callbacks with their   *)
(* own args, on interrupt pins only, and none from before a close.         *)
(***************************************************************************)
EXTENDS Gpio, TLAPS

InSetup(p) == call.at \in {"cb", "args", "handler"} /\ call.pin = p

\* The entry of a pin is whole, but between the two writes of a setup.
EntryWhole == \A p \in Pins :
  irq_cb[p] # "none" /\ ~(At("args") /\ call.pin = p) => irq_args[p] = irq_cb[p]

\* How far the call has come with the entry of its pin.
EntryStage ==
  /\ call.at \in {"cb", "args", "handler"} => mode[call.pin] = "irq"
  /\ At("cb") => call.cb \in given[call.pin]
  /\ At("args") => irq_cb[call.pin] = call.cb
  /\ call.at \in {"unargs", "reset"} => irq_cb[call.pin] = "none"

\* The interrupt of a pin is off while the pin is set up, and otherwise on
\* exactly when the script made the pin an interrupt pin.
Armed == \A p \in Pins : enabled[p] <=> mode[p] = "irq" /\ ~InSetup(p)

\* No USB pin was set up before the first of them is reset with the others.
UsbUntouched == warn_c3_gpio1819 = 0 => \A p \in UsbPins : mode[p] = "closed"

\* What is in the entry was given since the pin was closed.
EntryGiven == \A p \in Pins : irq_cb[p] # "none" => irq_cb[p] \in given[p]

\* The inductive invariant.
IInv == /\ TypeOK /\ EntryWhole /\ EntryStage /\ Armed /\ UsbUntouched /\ EntryGiven
        /\ CallbackGetsItsArgs

LEMMA InitIInv == Init => IInv
BY GpioAssumption
   DEF Init, IInv, TypeOK, EntryWhole, EntryStage, Armed, UsbUntouched, EntryGiven, InSetup,
       CallbackGetsItsArgs, At, Idle, Modes

\* An interrupt meets a whole entry, because the pin is not in a setup.
LEMMA IsrStep ==
  ASSUME IInv, NEW p \in Pins, Isr(p)
  PROVE  IInv'
<1> USE GpioAssumption DEF IInv
<1>1. /\ UNCHANGED <<enabled, irq_cb, irq_args, warn_c3_gpio1819, call, mode, given>>
      /\ enabled[p]
  BY DEF Isr
<1>2. ~InSetup(p) BY <1>1 DEF Armed
<1>3. irq_cb[p] # "none" => irq_args[p] = irq_cb[p]
  BY <1>2 DEF EntryWhole, InSetup, At
<1>4. TypeOK' BY <1>1 DEF Isr, TypeOK
<1>5. CallbackGetsItsArgs' BY <1>3 DEF Isr, CallbackGetsItsArgs
<1>6. (EntryWhole /\ EntryStage /\ Armed /\ UsbUntouched /\ EntryGiven)'
  BY <1>1 DEF EntryWhole, EntryStage, Armed, UsbUntouched, EntryGiven, InSetup, At
<1> QED BY <1>4, <1>5, <1>6

\* The reset that begins a setup leaves the other pins' interrupts alone: the
\* USB pins it may touch were not set up yet.
LEMMA SetupStep ==
  ASSUME IInv, NEW p \in Pins, NEW m \in Modes, NEW cb \in Cbs \cup {"none"}, Setup(p, m, cb)
  PROVE  IInv'
<1> USE GpioAssumption DEF IInv
<1>1. call = Idle BY DEF Setup, At, TypeOK
<1>2. call' = Idle \/ call' = [at |-> "handler", pin |-> p, cb |-> cb]
                   \/ (cb # "none" /\ call' = [at |-> "cb", pin |-> p, cb |-> cb])
  BY DEF Setup
<1>3. TypeOK'
  <2>1. call' \in {Idle} \cup [at : {"cb", "args", "handler"}, pin : Pins, cb : Cbs \cup {"none"}]
    BY <1>2
  <2> QED BY <2>1 DEF Setup, TypeOK, WarnOnce
<1>4. EntryWhole' BY <1>1, <1>2 DEF Setup, EntryWhole, At, Idle
<1>5. EntryStage' BY <1>1, <1>2 DEF Setup, EntryStage, At, Idle, TypeOK
<1>6. Armed'
  <2> SUFFICES ASSUME NEW q \in Pins
               PROVE  (enabled[q] <=> mode[q] = "irq" /\ ~InSetup(q))'
    BY DEF Armed
  <2>1. CASE q = p
    <3>1. enabled'[q] = FALSE BY <2>1 DEF Setup, ResetPins
    <3>2. mode'[q] = m BY <2>1 DEF Setup, TypeOK
    <3>3. m = "irq" => InSetup(p)' BY DEF Setup, InSetup, At
    <3> QED BY <3>1, <3>2, <3>3, <2>1
  <2>2. CASE q # p
    <3>1. mode'[q] = mode[q] BY <2>2 DEF Setup, TypeOK
    <3>2. ~InSetup(q) /\ ~InSetup(q)' BY <1>1, <1>2, <2>2 DEF InSetup, Idle
    <3>3. q \in ResetPins(p) => mode[q] = "closed"
      BY <2>2 DEF ResetPins, FirstUsb, UsbUntouched
    <3>4. enabled[q] <=> mode[q] = "irq" BY <3>2 DEF Armed
    <3>5. enabled'[q] <=> enabled[q] /\ q \notin ResetPins(p) BY DEF Setup
    <3> QED BY <3>1, <3>2, <3>3, <3>4, <3>5
  <2> QED BY <2>1, <2>2
<1>7. UsbUntouched' BY DEF Setup, UsbUntouched, WarnOnce, FirstUsb, TypeOK
<1>8. EntryGiven' BY DEF Setup, EntryGiven, TypeOK
<1>9. CallbackGetsItsArgs' BY DEF Setup, CallbackGetsItsArgs
<1> QED BY <1>3, <1>4, <1>5, <1>6, <1>7, <1>8, <1>9

\* The writes of a setup, of the callback, its args and the interrupt.
LEMMA SetupRestStep ==
  ASSUME IInv, SetupCb \/ SetupArgs \/ SetupHandler
  PROVE  IInv'
<1> USE GpioAssumption DEF IInv
<1> DEFINE p == call.pin
<1>1. /\ p \in Pins /\ call.cb \in Cbs \cup {"none"}
      /\ call \in [at : {"cb", "args", "handler"}, pin : Pins, cb : Cbs \cup {"none"}]
  BY DEF SetupCb, SetupArgs, SetupHandler, TypeOK, Idle, At
<1>2. CASE SetupCb
  <2>1. /\ call' = [call EXCEPT !.at = "args"]
        /\ irq_cb' = [irq_cb EXCEPT ![p] = call.cb]
        /\ UNCHANGED <<enabled, irq_args, warn_c3_gpio1819, mode, given, fired>>
        /\ call.at = "cb"
    BY <1>2 DEF SetupCb, At
  <2>2. call'.at = "args" /\ call'.pin = p /\ call'.cb = call.cb BY <2>1, <1>1
  <2>3. TypeOK' BY <1>1, <2>1 DEF TypeOK
  <2>4. EntryWhole' BY <1>1, <2>1, <2>2 DEF EntryWhole, At, TypeOK
  <2>5. EntryStage' BY <1>1, <2>1, <2>2 DEF EntryStage, At, TypeOK
  <2>6. Armed' BY <2>1, <2>2 DEF Armed, InSetup
  <2>7. EntryGiven' BY <1>1, <2>1 DEF EntryGiven, EntryStage, At, TypeOK
  <2>8. UsbUntouched' /\ CallbackGetsItsArgs' BY <2>1 DEF UsbUntouched, CallbackGetsItsArgs
  <2> QED BY <2>3, <2>4, <2>5, <2>6, <2>7, <2>8
<1>3. CASE SetupArgs
  <2>1. /\ call' = [call EXCEPT !.at = "handler"]
        /\ irq_args' = [irq_args EXCEPT ![p] = call.cb]
        /\ UNCHANGED <<enabled, irq_cb, warn_c3_gpio1819, mode, given, fired>>
        /\ call.at = "args"
    BY <1>3 DEF SetupArgs, At
  <2>2. call'.at = "handler" /\ call'.pin = p BY <2>1, <1>1
  <2>3. TypeOK' BY <1>1, <2>1 DEF TypeOK
  <2>4. EntryWhole' BY <1>1, <2>1, <2>2 DEF EntryWhole, EntryStage, At, TypeOK
  <2>5. EntryStage' BY <2>1, <2>2 DEF EntryStage, At
  <2>6. Armed' BY <2>1, <2>2 DEF Armed, InSetup
  <2>7. EntryGiven' /\ UsbUntouched' /\ CallbackGetsItsArgs'
    BY <2>1 DEF EntryGiven, UsbUntouched, CallbackGetsItsArgs
  <2> QED BY <2>3, <2>4, <2>5, <2>6, <2>7
<1>4. CASE SetupHandler
  <2>1. /\ call' = Idle
        /\ enabled' = [enabled EXCEPT ![p] = TRUE]
        /\ UNCHANGED <<irq_cb, irq_args, warn_c3_gpio1819, mode, given, fired>>
        /\ call.at = "handler"
    BY <1>4 DEF SetupHandler, At
  <2>2. call'.at = "idle" BY <2>1 DEF Idle
  <2>3. TypeOK' BY <1>1, <2>1 DEF TypeOK
  <2>4. EntryWhole' BY <2>1, <2>2 DEF EntryWhole, At
  <2>5. EntryStage' BY <2>2 DEF EntryStage, At
  <2>6. mode[p] = "irq" BY <2>1 DEF EntryStage
  <2>7. Armed' BY <1>1, <2>1, <2>2, <2>6 DEF Armed, InSetup, TypeOK
  <2>8. EntryGiven' /\ UsbUntouched' /\ CallbackGetsItsArgs'
    BY <2>1 DEF EntryGiven, UsbUntouched, CallbackGetsItsArgs
  <2> QED BY <2>3, <2>4, <2>5, <2>7, <2>8
<1> QED BY <1>2, <1>3, <1>4

\* The steps of a close: the entry is empty before the interrupt is off.
LEMMA CloseStep ==
  ASSUME IInv, (\E q \in Pins : Close(q)) \/ CloseCb \/ CloseArgs \/ CloseReset
  PROVE  IInv'
<1> USE GpioAssumption DEF IInv
<1>1. ASSUME NEW q \in Pins, Close(q) PROVE IInv'
  <2>1. /\ call' = [at |-> IF irq_cb[q] = "none" THEN "reset" ELSE "uncb", pin |-> q]
        /\ UNCHANGED <<enabled, irq_cb, irq_args, warn_c3_gpio1819, mode, given, fired>>
        /\ call.at = "idle"
    BY <1>1 DEF Close, At
  <2>2. /\ call'.at = IF irq_cb[q] = "none" THEN "reset" ELSE "uncb"
        /\ call'.pin = q
    BY <2>1
  <2>3. TypeOK' BY <2>1 DEF TypeOK
  <2>4. EntryWhole' /\ EntryStage' BY <2>1, <2>2 DEF EntryWhole, EntryStage, At
  <2>5. Armed' BY <2>1, <2>2 DEF Armed, InSetup
  <2>6. EntryGiven' /\ UsbUntouched' /\ CallbackGetsItsArgs'
    BY <2>1 DEF EntryGiven, UsbUntouched, CallbackGetsItsArgs
  <2> QED BY <2>3, <2>4, <2>5, <2>6
<1>2. ASSUME CloseCb \/ CloseArgs \/ CloseReset PROVE IInv'
  <2> DEFINE p == call.pin
  <2>1. p \in Pins /\ call \in [at : {"uncb", "unargs", "reset"}, pin : Pins]
    BY <1>2 DEF CloseCb, CloseArgs, CloseReset, TypeOK, Idle, At
  <2>2. CASE CloseCb
    <3>1. /\ call' = [call EXCEPT !.at = "unargs"]
          /\ irq_cb' = [irq_cb EXCEPT ![p] = "none"]
          /\ UNCHANGED <<enabled, irq_args, warn_c3_gpio1819, mode, given, fired>>
          /\ call.at = "uncb"
      BY <2>2 DEF CloseCb, ClearCb, At
    <3>2. call'.at = "unargs" /\ call'.pin = p BY <3>1, <2>1
    <3>3. TypeOK' BY <2>1, <3>1 DEF TypeOK
    <3>4. EntryWhole' /\ EntryStage'
      BY <2>1, <3>1, <3>2 DEF EntryWhole, EntryStage, At, TypeOK
    <3>5. Armed' BY <3>1, <3>2 DEF Armed, InSetup
    <3>6. EntryGiven' BY <3>1 DEF EntryGiven, TypeOK
    <3>7. UsbUntouched' /\ CallbackGetsItsArgs' BY <3>1 DEF UsbUntouched, CallbackGetsItsArgs
    <3> QED BY <3>3, <3>4, <3>5, <3>6, <3>7
  <2>3. CASE CloseArgs
    <3>1. /\ call' = [call EXCEPT !.at = "reset"]
          /\ irq_args' = [irq_args EXCEPT ![p] = "none"]
          /\ UNCHANGED <<enabled, irq_cb, warn_c3_gpio1819, mode, given, fired>>
          /\ call.at = "unargs"
      BY <2>3 DEF CloseArgs, At
    <3>2. call'.at = "reset" /\ call'.pin = p BY <3>1, <2>1
    <3>3. TypeOK' BY <2>1, <3>1 DEF TypeOK
    <3>4. EntryWhole' /\ EntryStage'
      BY <2>1, <3>1, <3>2 DEF EntryWhole, EntryStage, At, TypeOK
    <3>5. Armed' BY <3>1, <3>2 DEF Armed, InSetup
    <3>6. EntryGiven' /\ UsbUntouched' /\ CallbackGetsItsArgs'
      BY <3>1 DEF EntryGiven, UsbUntouched, CallbackGetsItsArgs
    <3> QED BY <3>3, <3>4, <3>5, <3>6
  <2>4. CASE CloseReset
    <3>1. /\ call' = Idle
          /\ enabled' = [enabled EXCEPT ![p] = FALSE]
          /\ mode' = [mode EXCEPT ![p] = "closed"]
          /\ given' = [given EXCEPT ![p] = {}]
          /\ UNCHANGED <<irq_cb, irq_args, warn_c3_gpio1819, fired>>
          /\ call.at = "reset"
      BY <2>4 DEF CloseReset, At
    <3>2. call'.at = "idle" BY <3>1 DEF Idle
    <3>3. TypeOK' BY <2>1, <3>1 DEF TypeOK
    <3>4. EntryWhole' /\ EntryStage' BY <3>1, <3>2 DEF EntryWhole, EntryStage, At
    <3>5. Armed' BY <2>1, <3>1, <3>2 DEF Armed, InSetup, TypeOK
    <3>6. EntryGiven' BY <2>1, <3>1 DEF EntryGiven, EntryStage, TypeOK
    <3>7. UsbUntouched' /\ CallbackGetsItsArgs'
      BY <3>1 DEF UsbUntouched, CallbackGetsItsArgs, TypeOK
    <3> QED BY <3>3, <3>4, <3>5, <3>6, <3>7
  <2> QED BY <1>2, <2>2, <2>3, <2>4
<1> QED BY <1>1, <1>2

\* The invariant holds under every interleaving of calls and interrupts.
THEOREM Invariance == Spec => []IInv
<1>1. ASSUME IInv, [Next]_vars PROVE IInv'
  <2>1. ASSUME NEW p \in Pins, Isr(p) PROVE IInv' BY <1>1, <2>1, IsrStep
  <2>2. ASSUME NEW p \in Pins, NEW m \in Modes, NEW cb \in Cbs \cup {"none"}, Setup(p, m, cb)
        PROVE  IInv'
    BY <1>1, <2>2, SetupStep
  <2>3. CASE SetupCb \/ SetupArgs \/ SetupHandler BY <1>1, <2>3, SetupRestStep
  <2>4. CASE (\E q \in Pins : Close(q)) \/ CloseCb \/ CloseArgs \/ CloseReset
    BY <1>1, <2>4, CloseStep
  <2>5. CASE SetupRefused \/ UNCHANGED vars
    <3>1. UNCHANGED vars BY <2>5 DEF SetupRefused
    <3> QED BY <1>1, <3>1
         DEF vars, IInv, TypeOK, EntryWhole, EntryStage, Armed, UsbUntouched, EntryGiven,
             InSetup, CallbackGetsItsArgs, At
  <2> QED BY <1>1, <2>1, <2>2, <2>3, <2>4, <2>5 DEF Next, LuaTask
<1> QED BY <1>1, InitIInv, PTL DEF Spec

\* No interrupt, between whichever two writes of luat_gpio_setup or
\* luat_gpio_close it comes, runs a callback with the args of another.
THEOREM CallbacksGetTheirArgs == Spec => []CallbackGetsItsArgs
<1>1. IInv => CallbackGetsItsArgs BY DEF IInv
<1> QED BY <1>1, Invariance, PTL

\* Between two calls a pin interrupts exactly when the script asked for it,
\* although the first setup of a USB pin resets the others.
THEOREM InterruptsAsAsked == Spec => []IrqAsAsked
<1>1. IInv => IrqAsAsked BY DEF IInv, Armed, IrqAsAsked, At, InSetup
<1> QED BY <1>1, Invariance, PTL

\* What an interrupt may run was given to the pin since its last close.
THEOREM CallbacksEndWithClose == Spec => []NoCallbackFromBeforeClose
<1>1. IInv => NoCallbackFromBeforeClose BY DEF IInv, EntryGiven, NoCallbackFromBeforeClose
<1> QED BY <1>1, Invariance, PTL
=============================================================================
