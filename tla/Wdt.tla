--------------------------------- MODULE Wdt ---------------------------------
(***************************************************************************)
(* The watchdog of the script, port/luat_wdt_idf5.c, over the task         *)
(* watchdog of ESP-IDF, which boots watching the idle task and panics      *)
(* (sdkconfig.defaults).  External: the task watchdog, which looks once a  *)
(* period at what it watches, and the scheduler, which runs the idle task  *)
(* only while the Lua task waits.                                          *)
(***************************************************************************)
EXTENDS Naturals

VARIABLES
  twdt,        \* the task watchdog is initialized
  idleWatched, \* it watches the idle task
  luaWatched,  \* it watches the Lua task
  task_added,  \* the port's own flag
  opening,     \* luat_wdt_init stands between set_timeout and esp_task_wdt_add
  fed,         \* the Lua task fed it in this period
  idled,       \* the idle task ran in this period
  script,      \* the script: runs, spins for ever or waits for ever
  opened,      \* luat_wdt_init returned, and luat_wdt_close was not called since
  wasClosed,   \* luat_wdt_close was called once
  reset        \* the panic came

wdtVars == <<twdt, idleWatched, luaWatched, task_added, opening, fed, idled, script, opened,
             wasClosed, reset>>

WdtInit == /\ twdt = TRUE /\ idleWatched = TRUE /\ luaWatched = FALSE
           /\ task_added = 0 /\ opening = FALSE /\ fed = FALSE /\ idled = FALSE
           /\ script = "runs" /\ opened = FALSE /\ wasClosed = FALSE /\ reset = FALSE

\* The script runs and is in no call of the port.
ScriptRuns == script = "runs" /\ ~opening /\ ~reset

\* luat_wdt_set_timeout reconfigures the watchdog with an empty idle mask.
Reconfigured == idleWatched' = (idleWatched /\ ~twdt)

\* What luat_wdt_init adds; the first form only sets the flag.
AddNothing == luaWatched
AddTask    == twdt

\* luat_wdt_init: the whole call when the task was added before, which it is
\* once for all, else its call of luat_wdt_set_timeout.
WdtOpen == /\ ScriptRuns
           /\ IF task_added = 0
              THEN Reconfigured /\ opening' = TRUE /\ UNCHANGED opened
              ELSE opened' = TRUE /\ UNCHANGED <<idleWatched, opening>>
           /\ UNCHANGED <<twdt, luaWatched, task_added, fed, idled, script, wasClosed, reset>>

\* ... and the rest of it; until here nobody is watched.
WdtAdd == /\ opening /\ ~reset
          /\ luaWatched' = AddTask /\ task_added' = 1
          /\ opening' = FALSE /\ opened' = TRUE
          /\ UNCHANGED <<twdt, idleWatched, fed, idled, script, wasClosed, reset>>

\* The call of the script, which may come before luat_wdt_init.
WdtSetTimeout == /\ ScriptRuns
                 /\ Reconfigured
                 /\ UNCHANGED <<twdt, luaWatched, task_added, opening, fed, idled, script, opened,
                                wasClosed, reset>>

WdtFeed == /\ ScriptRuns
           /\ fed' = luaWatched
           /\ UNCHANGED <<twdt, idleWatched, luaWatched, task_added, opening, idled, script,
                          opened, wasClosed, reset>>

\* luat_wdt_close: esp_task_wdt_delete, then deinit, which unsubscribes the
\* idle task itself.
WdtClose == /\ ScriptRuns
            /\ luaWatched' = FALSE /\ twdt' = FALSE /\ idleWatched' = FALSE
            /\ opened' = FALSE /\ wasClosed' = TRUE
            /\ UNCHANGED <<task_added, opening, fed, idled, script, reset>>

\* The script hangs.
Hang == /\ ScriptRuns
        /\ script' \in {"spins", "waits"}
        /\ UNCHANGED <<twdt, idleWatched, luaWatched, task_added, opening, fed, idled, opened,
                       wasClosed, reset>>

\* The idle task runs whenever the Lua task waits for a message.
Idle == /\ script # "spins" /\ ~opening /\ ~reset
        /\ idled' = TRUE
        /\ UNCHANGED <<twdt, idleWatched, luaWatched, task_added, opening, fed, script, opened,
                       wasClosed, reset>>

\* The period ends.
Tick == /\ ~reset
        /\ reset' = (twdt /\ ((luaWatched /\ ~fed) \/ (idleWatched /\ ~idled)))
        /\ fed' = FALSE /\ idled' = FALSE
        /\ UNCHANGED <<twdt, idleWatched, luaWatched, task_added, opening, script, opened, wasClosed>>

WdtNext == WdtOpen \/ WdtAdd \/ WdtSetTimeout \/ WdtFeed \/ WdtClose \/ Hang \/ Idle \/ Tick

\* Periods end, and the idle task is not promised more than the core.
WdtFairness == WF_wdtVars(Tick)
WdtSpec     == WdtInit /\ [][WdtNext]_wdtVars /\ WdtFairness

-----------------------------------------------------------------------------

\* A script that has asked for the watchdog and then hangs, in a loop or in a
\* wait, is reset, whatever it set before or after luat_wdt_init; but not once
\* it has closed the watchdog, for a later luat_wdt_init adds nothing.
HangIsCaught == (script # "runs" /\ opened /\ ~wasClosed) ~> reset
=============================================================================
