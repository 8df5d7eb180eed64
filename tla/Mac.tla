--------------------------------- MODULE Mac ---------------------------------
(***************************************************************************)
(* Custom MAC addresses, port/luat_wlan_idf5.c: luat_wlan_set_mac changes  *)
(* the interface and saves the address in the NVS namespace "macaddr";     *)
(* after a reboot macaddr_restore puts it back when the Lua task gets the  *)
(* interface's START message.  Power may fail at any moment, and each NVS  *)
(* call may fail: macaddr_set returns nothing, so its caller never knows.  *)
(*                                                                         *)
(* NVS, the interfaces and the way of the START message are external.  NVS *)
(* may lose what was written and not committed when power fails.           *)
(***************************************************************************)
EXTENDS Naturals

CONSTANTS
  Macs,       \* addresses the script asks for
  Refused,    \* those the interface refuses (multicast, or taken)
  MaxStarts   \* bound: START messages on their way

Ids == {"sta", "ap"}   \* id 0 and id 1

ASSUME MacAssumption == /\ Refused \subseteq Macs
                        /\ Macs \cap {"none", "factory"} = {}
                        /\ MaxStarts \in Nat

VARIABLES
  netif,     \* wifiSTA and wifiAP exist
  mac,       \* the address of the interface
  starts,    \* START messages between the driver and l_wlan_handler
  stored,    \* what NVS holds for good, "none" when the key is not there
  written,   \* what it holds when the last write is counted
  saving,    \* where the Lua task stands in macaddr_set, NoSave outside
  cleared,   \* interfaces whose address the script cleared since the boot
  unsaved    \* interfaces for which something failed since the boot

vars == <<netif, mac, starts, stored, written, saving, cleared, unsaved>>

NoSave == [at |-> "idle"]

Boot == /\ netif = [i \in Ids |-> FALSE]
        /\ mac = [i \in Ids |-> "factory"]
        /\ starts = [i \in Ids |-> 0]
        /\ saving = NoSave /\ cleared = {} /\ unsaved = {}

Init == /\ Boot
        /\ stored = [i \in Ids |-> "none"]
        /\ written = stored

-----------------------------------------------------------------------------
(* Boot, and the way of the START message. *)

\* app_main erases NVS when it finds no free page or an older version.
MayErase(kept) == {kept, [i \in Ids |-> "none"]}

\* Power fails, in whatever the Lua task was doing; then app_main.
Reboot == /\ stored' \in UNION {MayErase(stored), MayErase(written)}
          /\ written' = stored'
          /\ netif' = [i \in Ids |-> FALSE]
          /\ mac' = [i \in Ids |-> "factory"]
          /\ starts' = [i \in Ids |-> 0]
          /\ saving' = NoSave /\ cleared' = {} /\ unsaved' = {}

\* luat_wlan_init, luat_wlan_ap_start: the interface is there before the
\* driver starts it.  With made = FALSE, a luat_wlan_mode that starts the AP
\* although luat_wlan_ap_start was not called.
Start(i, made) == /\ saving = NoSave /\ starts[i] < MaxStarts
                  /\ netif' = [netif EXCEPT ![i] = @ \/ made]
                  /\ starts' = [starts EXCEPT ![i] = @ + 1]
                  /\ UNCHANGED <<mac, stored, written, saving, cleared, unsaved>>

\* The bus has no slot for the message.
Lose(i) == /\ starts[i] > 0
           /\ starts' = [starts EXCEPT ![i] = @ - 1]
           /\ unsaved' = unsaved \cup {i}
           /\ UNCHANGED <<netif, mac, stored, written, saving, cleared>>

\* What macaddr_restore finds for interface i, and whether it is of use.
Restores(i) == netif[i] /\ written[i] # "none"

\* l_wlan_handler: macaddr_restore.
OnStart(i) == /\ saving = NoSave /\ starts[i] > 0
              /\ starts' = [starts EXCEPT ![i] = @ - 1]
              /\ mac' = IF Restores(i) THEN [mac EXCEPT ![i] = written[i]] ELSE mac
              /\ UNCHANGED <<netif, stored, written, saving, cleared, unsaved>>

\* nvs_open, or esp_netif_set_mac fails.
OnStartFails(i) == /\ saving = NoSave /\ starts[i] > 0
                   /\ starts' = [starts EXCEPT ![i] = @ - 1]
                   /\ unsaved' = unsaved \cup {i}
                   /\ UNCHANGED <<netif, mac, stored, written, saving, cleared>>

-----------------------------------------------------------------------------
(* luat_wlan_set_mac, up to macaddr_set. *)

Save(i, m) == saving' = [at |-> "open", id |-> i, mac |-> m]

\* The interface refuses: the call returns the error and saves nothing.
RefuseMac(i, m) == /\ saving = NoSave /\ netif[i]
                   /\ UNCHANGED vars

\* Is address m saved?  The first form does not look at what the interface said.
SavesAlways(m) == TRUE
Saves(m)       == m \notin Refused

\* esp_netif_set_mac.
Applied(i, m) == IF m \in Refused THEN mac ELSE [mac EXCEPT ![i] = m]

SetMac(i, m) == /\ saving = NoSave /\ netif[i] /\ Saves(m)
                /\ mac' = Applied(i, m)
                /\ Save(i, m)
                /\ cleared' = cleared \ {i}
                /\ UNCHANGED <<netif, starts, stored, written, unsaved>>

\* The address of all zeros: only what is saved is cleared.
ClearMac(i) == /\ saving = NoSave /\ netif[i]
               /\ Save(i, "none")
               /\ cleared' = cleared \cup {i}
               /\ UNCHANGED <<netif, mac, starts, stored, written, unsaved>>

-----------------------------------------------------------------------------
(* macaddr_set. *)

Saving(at) == saving.at = at

Open == /\ Saving("open")
        /\ saving' = [saving EXCEPT !.at = "write"]
        /\ UNCHANGED <<netif, mac, starts, stored, written, cleared, unsaved>>

\* The key macaddr_set writes for interface i; the first form mixes them up.
OneKey(i) == "sta"
Key(i)    == i

\* nvs_set_blob, or nvs_erase_key, which leaves a missing key alone.
Write == /\ Saving("write")
         /\ written' = [written EXCEPT ![Key(saving.id)] = saving.mac]
         /\ saving' = [saving EXCEPT !.at = "commit"]
         /\ UNCHANGED <<netif, mac, starts, stored, cleared, unsaved>>

Commit == /\ Saving("commit")
          /\ stored' = written
          /\ saving' = NoSave
          /\ UNCHANGED <<netif, mac, starts, written, cleared, unsaved>>

\* nvs_open or nvs_set_blob fails and macaddr_set gives up; the results of
\* nvs_erase_key and nvs_commit are not looked at.
SaveFails == /\ saving # NoSave
             /\ unsaved' = unsaved \cup {saving.id}
             /\ saving' = NoSave
             /\ UNCHANGED <<netif, mac, starts, stored, written, cleared>>

MacaddrSet == Open \/ Write \/ Commit \/ SaveFails

Next == \/ Reboot \/ MacaddrSet
        \/ \E i \in Ids : \/ Start(i, TRUE) \/ Lose(i) \/ OnStart(i) \/ OnStartFails(i)
                          \/ ClearMac(i)
                          \/ \E m \in Macs : RefuseMac(i, m) \/ SetMac(i, m)
        \/ Start("ap", FALSE)

Spec == Init /\ [][Next]_vars

-----------------------------------------------------------------------------

TypeOK == /\ netif \in [Ids -> BOOLEAN]
          /\ mac \in [Ids -> Macs \cup {"factory"}]
          /\ starts \in [Ids -> 0..MaxStarts]
          /\ stored \in [Ids -> Macs \cup {"none"}]
          /\ written \in [Ids -> Macs \cup {"none"}]
          /\ saving \in {NoSave} \cup [at : {"open", "write", "commit"}, id : Ids,
                                       mac : Macs \cup {"none"}]
          /\ cleared \subseteq Ids /\ unsaved \subseteq Ids

\* The address NVS holds is never one that the interface refused, so a boot
\* never starts with an address that cannot be restored, wherever power fails.
NeverStoresRefused == \A i \in Ids : {stored[i], written[i]} \cap Refused = {}

\* Interface i has been started and nothing about it is under way.
Settled(i) == netif[i] /\ starts[i] = 0 /\ saving = NoSave /\ i \notin unsaved

\* Across reboots and power failures, a settled interface has the address
\* that the next boot would give it: the saved one, or its own when none is
\* saved (unless the script cleared the address: that takes a reboot).
AddressIsTheSaved == \A i \in Ids :
  Settled(i) /\ i \notin cleared
    => mac[i] = IF written[i] = "none" THEN "factory" ELSE written[i]
=============================================================================
