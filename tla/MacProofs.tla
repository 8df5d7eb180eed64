----------------------------- MODULE MacProofs -----------------------------
(***************************************************************************)
(* Proofs about Mac, for any addresses, any set of refused ones and any    *)
(* number of START messages: with power failing at any step and every NVS  *)
(* call failing at will, what NVS holds can be restored, and is the        *)
(* address in use.                                                         *)
(***************************************************************************)
EXTENDS Mac, TLAPS

\* No address on its way to NVS is one that the interface refused.
Savable == NeverStoresRefused /\ (saving # NoSave => saving.mac \notin Refused)

\* While an address is saved the interface has it already.
SaveStage == saving # NoSave =>
  /\ saving.mac = "none" => saving.id \in cleared
  /\ saving.mac # "none" => mac[saving.id] = saving.mac
  /\ saving.at = "commit" => written[saving.id] = saving.mac

SavingFor(i) == saving # NoSave /\ saving.id = i

\* For an interface whose address was not cleared and for which nothing
\* failed, NVS and the interface part only until a START message was handled.
InStep == \A i \in Ids : i \notin cleared \cup unsaved /\ ~SavingFor(i) =>
  /\ written[i] = "none" => mac[i] = "factory"
  /\ netif[i] /\ starts[i] = 0 /\ written[i] # "none" => mac[i] = written[i]

\* The inductive invariant.
IInv == TypeOK /\ Savable /\ SaveStage /\ InStep

LEMMA InitIInv == Init => IInv
BY MacAssumption
   DEF Init, Boot, IInv, TypeOK, Savable, SaveStage, InStep, SavingFor, NeverStoresRefused, NoSave

\* A power failure keeps what was committed, or what was written, or nothing.
LEMMA RebootStep ==
  ASSUME IInv, Reboot
  PROVE  IInv'
<1> USE MacAssumption DEF IInv
<1>1. /\ stored' \in {stored, written, [i \in Ids |-> "none"]} /\ written' = stored'
      /\ mac' = [i \in Ids |-> "factory"] /\ netif' = [i \in Ids |-> FALSE]
      /\ starts' = [i \in Ids |-> 0] /\ saving' = NoSave /\ cleared' = {} /\ unsaved' = {}
  BY DEF Reboot, MayErase
<1>2. TypeOK'
  <2>1. stored' \in [Ids -> Macs \cup {"none"}] BY <1>1 DEF TypeOK
  <2> QED BY <1>1, <2>1 DEF TypeOK
<1>3. Savable' BY <1>1 DEF Savable, NeverStoresRefused
<1>4. SaveStage' BY <1>1 DEF SaveStage
<1>5. InStep' BY <1>1 DEF InStep
<1> QED BY <1>2, <1>3, <1>4, <1>5

\* START messages: on their way, dropped, handled, or handled in vain.
LEMMA StartStep ==
  ASSUME IInv, NEW i \in Ids,
         Start(i, TRUE) \/ Start(i, FALSE) \/ Lose(i) \/ OnStart(i) \/ OnStartFails(i)
  PROVE  IInv'
<1> USE MacAssumption DEF IInv
<1>1. /\ UNCHANGED <<stored, written, saving, cleared>>
      /\ unsaved' \in {unsaved, unsaved \cup {i}}
      /\ mac' \in {mac, [mac EXCEPT ![i] = written[i]]}
  BY DEF Start, Lose, OnStart, OnStartFails
<1>2. Savable' BY <1>1 DEF Savable, NeverStoresRefused
<1>3. CASE Start(i, TRUE) \/ Start(i, FALSE)
  <2>1. PICK made \in BOOLEAN :
          /\ starts[i] < MaxStarts /\ netif' = [netif EXCEPT ![i] = @ \/ made]
          /\ starts' = [starts EXCEPT ![i] = @ + 1]
    BY <1>3 DEF Start
  <2>2. UNCHANGED <<mac, stored, written, saving, cleared, unsaved>> BY <1>3 DEF Start
  <2>3. TypeOK'
    <3>1. netif' \in [Ids -> BOOLEAN] BY <2>1, Zenon DEF TypeOK
    <3>2. starts' \in [Ids -> 0..MaxStarts] BY <2>1 DEF TypeOK
    <3> QED BY <2>2, <3>1, <3>2 DEF TypeOK
  <2>4. SaveStage' BY <2>2 DEF SaveStage
  <2>5. ASSUME NEW j \in Ids, netif'[j], starts'[j] = 0 PROVE netif[j] /\ starts[j] = 0
    <3>1. j # i BY <2>1, <2>5 DEF TypeOK
    <3> QED BY <2>1, <2>5, <3>1 DEF TypeOK
  <2>6. InStep' BY <2>2, <2>5 DEF InStep, SavingFor
  <2> QED BY <1>2, <2>3, <2>4, <2>6
<1>4. CASE Lose(i) \/ OnStartFails(i)
  <2>1. /\ starts[i] > 0 /\ starts' = [starts EXCEPT ![i] = @ - 1]
        /\ unsaved' = unsaved \cup {i}
        /\ UNCHANGED <<netif, mac, stored, written, saving, cleared>>
    BY <1>4 DEF Lose, OnStartFails
  <2>2. TypeOK'
    <3>1. starts' \in [Ids -> 0..MaxStarts] BY <2>1 DEF TypeOK
    <3> QED BY <2>1, <3>1 DEF TypeOK
  <2>3. SaveStage' BY <2>1 DEF SaveStage
  <2>4. InStep' BY <2>1 DEF InStep, SavingFor, TypeOK
  <2> QED BY <1>2, <2>2, <2>3, <2>4
<1>5. CASE OnStart(i)
  <2>1. /\ saving = NoSave /\ starts[i] > 0 /\ starts' = [starts EXCEPT ![i] = @ - 1]
        /\ mac' = IF netif[i] /\ written[i] # "none"
                  THEN [mac EXCEPT ![i] = written[i]] ELSE mac
        /\ UNCHANGED <<netif, stored, written, saving, cleared, unsaved>>
    BY <1>5 DEF OnStart, Restores
  <2>2. TypeOK'
    <3>1. starts' \in [Ids -> 0..MaxStarts] BY <2>1 DEF TypeOK
    <3>2. mac' \in [Ids -> Macs \cup {"factory"}] BY <2>1 DEF TypeOK
    <3> QED BY <2>1, <3>1, <3>2 DEF TypeOK
  <2>3. SaveStage' BY <2>1 DEF SaveStage
  <2>4. ASSUME NEW j \in Ids, j # i PROVE mac'[j] = mac[j] /\ starts'[j] = starts[j]
    BY <2>1, <2>4 DEF TypeOK
  <2>5. mac'[i] = IF netif[i] /\ written[i] # "none" THEN written[i] ELSE mac[i]
    BY <2>1 DEF TypeOK
  <2>6. InStep' BY <2>1, <2>4, <2>5 DEF InStep, SavingFor
  <2> QED BY <1>2, <2>2, <2>3, <2>6
<1> QED BY <1>3, <1>4, <1>5

\* The interface takes the address before it is saved, or is asked for nothing.
LEMMA SetMacStep ==
  ASSUME IInv, NEW i \in Ids, ClearMac(i) \/ \E m \in Macs : SetMac(i, m)
  PROVE  IInv'
<1> USE MacAssumption DEF IInv
<1>1. CASE ClearMac(i)
  <2>1. /\ saving = NoSave /\ saving' = [at |-> "open", id |-> i, mac |-> "none"]
        /\ cleared' = cleared \cup {i}
        /\ UNCHANGED <<netif, mac, starts, stored, written, unsaved>>
    BY <1>1 DEF ClearMac, Save
  <2>2. TypeOK' BY <2>1 DEF TypeOK
  <2>3. Savable' BY <2>1 DEF Savable, NeverStoresRefused
  <2>4. SaveStage' BY <2>1 DEF SaveStage
  <2>5. InStep' BY <2>1 DEF InStep, SavingFor
  <2> QED BY <2>2, <2>3, <2>4, <2>5
<1>2. ASSUME NEW m \in Macs, SetMac(i, m) PROVE IInv'
  <2>1. /\ saving = NoSave /\ saving' = [at |-> "open", id |-> i, mac |-> m]
        /\ m \notin Refused /\ mac' = [mac EXCEPT ![i] = m]
        /\ cleared' = cleared \ {i}
        /\ UNCHANGED <<netif, starts, stored, written, unsaved>>
    BY <1>2 DEF SetMac, Save, Saves, Applied
  <2>2. saving' # NoSave /\ saving'.id = i /\ saving'.mac = m /\ saving'.at = "open"
    <3>1. saving'.at = "open" /\ saving'.id = i /\ saving'.mac = m BY <2>1
    <3>2. NoSave.at = "idle" BY DEF NoSave
    <3> QED BY <3>1, <3>2
  <2>3. TypeOK' BY <2>1 DEF TypeOK
  <2>4. Savable' BY <2>1, <2>2 DEF Savable, NeverStoresRefused
  <2>5. SaveStage' BY <2>1, <2>2 DEF SaveStage, TypeOK
  <2>6. InStep'
    <3> SUFFICES ASSUME NEW j \in Ids, j \notin cleared' \cup unsaved', ~SavingFor(j)'
                 PROVE  /\ written'[j] = "none" => mac'[j] = "factory"
                        /\ netif'[j] /\ starts'[j] = 0 /\ written'[j] # "none"
                             => mac'[j] = written'[j]
      BY DEF InStep
    <3>1. j # i BY <2>2 DEF SavingFor
    <3>2. mac'[j] = mac[j] /\ j \notin cleared \cup unsaved BY <2>1, <3>1 DEF TypeOK
    <3> QED BY <2>1, <3>2 DEF InStep, SavingFor
  <2> QED BY <2>3, <2>4, <2>5, <2>6
<1> QED BY <1>1, <1>2
\* The steps of macaddr_set: what is written is what the interface has.
LEMMA MacaddrSetStep ==
  ASSUME IInv, MacaddrSet
  PROVE  IInv'
<1> USE MacAssumption DEF IInv
<1> DEFINE k == saving.id
<1>1. /\ saving # NoSave
      /\ saving \in [at : {"open", "write", "commit"}, id : Ids, mac : Macs \cup {"none"}]
      /\ k \in Ids
  <2>1. saving # NoSave BY DEF MacaddrSet, Open, Write, Commit, SaveFails, Saving, NoSave
  <2> QED BY <2>1 DEF TypeOK
<1>2. CASE Open
  <2>1. /\ saving' = [saving EXCEPT !.at = "write"]
        /\ UNCHANGED <<netif, mac, starts, stored, written, cleared, unsaved>>
    BY <1>2 DEF Open
  <2>2. /\ saving'.at = "write" /\ saving'.id = saving.id /\ saving'.mac = saving.mac
        /\ saving' # NoSave
    BY <1>1, <2>1 DEF NoSave
  <2>3. TypeOK' BY <1>1, <2>1 DEF TypeOK
  <2>4. Savable' BY <1>1, <2>1, <2>2 DEF Savable, NeverStoresRefused
  <2>5. SaveStage' BY <1>1, <2>1, <2>2 DEF SaveStage
  <2>6. InStep' BY <1>1, <2>1, <2>2 DEF InStep, SavingFor
  <2> QED BY <2>3, <2>4, <2>5, <2>6
<1>3. CASE Write
  <2>1. /\ written' = [written EXCEPT ![k] = saving.mac]
        /\ saving' = [saving EXCEPT !.at = "commit"]
        /\ UNCHANGED <<netif, mac, starts, stored, cleared, unsaved>>
    BY <1>3 DEF Write, Key
  <2>2. /\ saving'.at = "commit" /\ saving'.id = k /\ saving'.mac = saving.mac
        /\ saving' # NoSave
    BY <1>1, <2>1 DEF NoSave
  <2>3. TypeOK' BY <1>1, <2>1 DEF TypeOK
  <2>4. written'[k] = saving.mac /\ \A j \in Ids : j # k => written'[j] = written[j]
    BY <1>1, <2>1 DEF TypeOK
  <2>5. Savable' BY <1>1, <2>1, <2>2, <2>4 DEF Savable, NeverStoresRefused
  <2>6. SaveStage' BY <1>1, <2>1, <2>2, <2>4 DEF SaveStage
  <2>7. InStep' BY <1>1, <2>1, <2>2, <2>4 DEF InStep, SavingFor
  <2> QED BY <2>3, <2>5, <2>6, <2>7
<1>4. CASE Commit
  <2>1. /\ saving.at = "commit" /\ stored' = written /\ saving' = NoSave
        /\ UNCHANGED <<netif, mac, starts, written, cleared, unsaved>>
    BY <1>4 DEF Commit, Saving
  <2>2. TypeOK' BY <2>1 DEF TypeOK
  <2>3. Savable' /\ SaveStage' BY <2>1 DEF Savable, NeverStoresRefused, SaveStage
  <2>4. written[k] = saving.mac BY <1>1, <2>1 DEF SaveStage
  <2>5. InStep'
    <3> SUFFICES ASSUME NEW j \in Ids, j \notin cleared \cup unsaved
                 PROVE  /\ written[j] = "none" => mac[j] = "factory"
                        /\ netif[j] /\ starts[j] = 0 /\ written[j] # "none"
                             => mac[j] = written[j]
      BY <2>1 DEF InStep
    <3>1. CASE j = k BY <1>1, <2>4, <3>1 DEF SaveStage
    <3>2. CASE j # k BY <3>2 DEF InStep, SavingFor
    <3> QED BY <3>1, <3>2
  <2> QED BY <2>2, <2>3, <2>5
<1>5. CASE SaveFails
  <2>1. /\ unsaved' = unsaved \cup {k} /\ saving' = NoSave
        /\ UNCHANGED <<netif, mac, starts, stored, written, cleared>>
    BY <1>5 DEF SaveFails
  <2>2. TypeOK' BY <1>1, <2>1 DEF TypeOK
  <2>3. Savable' /\ SaveStage' BY <2>1 DEF Savable, NeverStoresRefused, SaveStage
  <2>4. InStep' BY <2>1 DEF InStep, SavingFor
  <2> QED BY <2>2, <2>3, <2>4
<1> QED BY <1>2, <1>3, <1>4, <1>5 DEF MacaddrSet

\* The invariant holds wherever power fails.
THEOREM Invariance == Spec => []IInv
<1>1. ASSUME IInv, [Next]_vars PROVE IInv'
  <2>1. CASE Reboot BY <1>1, <2>1, RebootStep
  <2>2. CASE MacaddrSet BY <1>1, <2>2, MacaddrSetStep
  <2>3. ASSUME NEW i \in Ids,
               Start(i, TRUE) \/ Start(i, FALSE) \/ Lose(i) \/ OnStart(i) \/ OnStartFails(i)
        PROVE  IInv'
    BY <1>1, <2>3, StartStep
  <2>4. ASSUME NEW i \in Ids, ClearMac(i) \/ \E m \in Macs : SetMac(i, m) PROVE IInv'
    BY <1>1, <2>4, SetMacStep
  <2>5. ASSUME UNCHANGED vars PROVE IInv'
    BY <1>1, <2>5
       DEF vars, IInv, TypeOK, Savable, SaveStage, InStep, SavingFor, NeverStoresRefused
  <2>6. ASSUME NEW i \in Ids, NEW m \in Macs, RefuseMac(i, m) PROVE IInv'
    BY <2>5, <2>6 DEF RefuseMac
  <2>7. "ap" \in Ids BY DEF Ids
  <2> QED BY <1>1, <2>1, <2>2, <2>3, <2>4, <2>5, <2>6, <2>7 DEF Next
<1> QED BY <1>1, InitIInv, PTL DEF Spec

\* Wherever power fails, no boot finds an address in NVS that the interface
\* would refuse.
THEOREM SavedCanBeRestored == Spec => []NeverStoresRefused
<1>1. IInv => NeverStoresRefused BY DEF IInv, Savable
<1> QED BY <1>1, Invariance, PTL

\* A settled interface has the address that the next boot will give it.
THEOREM InUseIsTheSaved == Spec => []AddressIsTheSaved
<1>1. IInv => AddressIsTheSaved
  BY DEF IInv, AddressIsTheSaved, Settled, InStep, SavingFor
<1> QED BY <1>1, Invariance, PTL
=============================================================================
