------------------------------ MODULE LinkFeed ------------------------------
(***************************************************************************)
(* What a script may rely on: every change of the station link is told to  *)
(* it once and in order, unless the bus had no slot for it.                *)
(***************************************************************************)
EXTENDS Naturals, Sequences, SequencesExt

VARIABLES
  linked,   \* 1 while the radio holds a connection to an access point
  feed,     \* link reports on their way to the script, oldest first
  told,     \* the last report the script got
  lost      \* 1 once a report was dropped

vars == <<linked, feed, told, lost>>

Init == linked = 0 /\ feed = <<>> /\ told = 0 /\ lost = 0

\* The link changes, or an attempt fails: one report of the state it ends in.
Report(b) == /\ (b = 1 => linked = 0)
             /\ linked' = b
             /\ feed' = Append(feed, b)
             /\ UNCHANGED <<told, lost>>

\* The script gets the oldest report.
Tell == /\ feed # <<>>
        /\ told' = Head(feed)
        /\ feed' = Tail(feed)
        /\ UNCHANGED <<linked, lost>>

\* A report is dropped on the way.
Drop == /\ \E i \in DOMAIN feed : feed' = RemoveAt(feed, i)
        /\ lost' = 1
        /\ UNCHANGED <<linked, told>>

Next == (\E b \in {0, 1} : Report(b)) \/ Tell \/ Drop

Spec == Init /\ [][Next]_vars
=============================================================================
