------------------------------ MODULE Services ------------------------------
(***************************************************************************)
(* The small services of the port side by side: the script partition, the  *)
(* files, the heap of the VM, the log, the watchdog and the receive path   *)
(* of a UART.  They share no state, so that a behavior of all of them is   *)
(* one behavior of each: the model picks the service it exercises in its   *)
(* initial state, which adds their state spaces instead of multiplying     *)
(* them.                                                                   *)
(***************************************************************************)
EXTENDS Flash, Files, Heap, Log, Wdt, Uart

VARIABLE serving  \* the service this behavior exercises

vars == <<flashVars, filesVars, heapVars, logVars, wdtVars, uartVars, serving>>

Init == /\ FlashInit /\ FilesInit /\ HeapInit /\ LogInit /\ WdtInit /\ UartInit
        /\ serving \in {"flash", "files", "heap", "log", "wdt", "uart"}

ServeFlash == /\ serving = "flash" /\ FlashNext
              /\ UNCHANGED <<filesVars, heapVars, logVars, wdtVars, uartVars, serving>>
ServeFiles == /\ serving = "files" /\ FilesNext
              /\ UNCHANGED <<flashVars, heapVars, logVars, wdtVars, uartVars, serving>>
ServeHeap  == /\ serving = "heap" /\ HeapNext
              /\ UNCHANGED <<flashVars, filesVars, logVars, wdtVars, uartVars, serving>>
ServeLog   == /\ serving = "log" /\ LogNext
              /\ UNCHANGED <<flashVars, filesVars, heapVars, wdtVars, uartVars, serving>>
OnlyWdt    == /\ serving = "wdt"
              /\ UNCHANGED <<flashVars, filesVars, heapVars, logVars, uartVars, serving>>
ServeWdt   == OnlyWdt /\ WdtNext
OnlyUart   == /\ serving = "uart"
              /\ UNCHANGED <<flashVars, filesVars, heapVars, logVars, wdtVars, serving>>
ServeUart  == OnlyUart /\ UartNext

Next == ServeFlash \/ ServeFiles \/ ServeHeap \/ ServeLog \/ ServeWdt \/ ServeUart

\* The watchdog's periods end, and the two tasks of the UART run.
Spec == /\ Init /\ [][Next]_vars
        /\ WF_vars(OnlyWdt /\ Tick)
        /\ WF_vars(OnlyUart /\ IrqTask) /\ SF_vars(OnlyUart /\ LuaTask) /\ CoreIsLeft

\* A line of the event task is longer than one of the Lua task.
LineLens == [lua |-> 3, event |-> 4]
=============================================================================
