SPECIFICATION Spec
CONSTANTS
  Macs = {m1, m2, bad}
  Refused = {bad}
  MaxStarts = 2
INVARIANTS
  NeverStoresRefused
  AddressIsTheSaved
