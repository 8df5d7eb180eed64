SPECIFICATION Spec
CONSTANTS
  Pins = {p5, p18, p19}
  UsbPins = {p18, p19}
  Cbs = {f, g}
INVARIANTS
  CallbackGetsItsArgs
  IrqAsAsked
  NoCallbackFromBeforeClose
