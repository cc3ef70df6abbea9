---------------------------- MODULE ReplayDriver ----------------------------
(***************************************************************************)
(* main_replay.cpp: one adapter, one silent gateway, a detached engine.    *)
(* When the file is read, main scans the inbound ring until it has seen    *)
(* every slot released or two seconds are over, and reports.  A slot is    *)
(* ready while the event in it is not released; with one producer and     *)
(* Slots slots these are the events from read_p on.                        *)
(***************************************************************************)
EXTENDS LobsterReplay

VARIABLES main,    \* where main stands
          i,       \* the slot all_released looks at
          overdue, \* is the deadline over?
          gaveUp   \* history: the wait ended although a slot was ready

driver == <<main, i, overdue, gaveUp>>
vars   == <<replay, driver>>

DriverInit == ReplayInit /\ main = "open" /\ i = 0 /\ overdue = FALSE /\ gaveUp = FALSE

\* process_file cannot open the file, and main returns 2; or it goes on.
Open ==
  /\ main = "open"
  /\ main' \in {"stream", "returned"}
  /\ UNCHANGED <<replay, i, overdue, gaveUp>>

Stream == main = "stream" /\ Adapter /\ UNCHANGED driver

EndOfFile ==
  /\ main = "stream"
  /\ row = NoRow
  /\ main' = "scan"
  /\ UNCHANGED <<replay, i, overdue, gaveUp>>

IsReady(s) == \E n \in read_p..Len(inbound) - 1 : n % Slots = s

\* The clock is read and not looked at.
SeeReady_M ==
  /\ main = "scan"
  /\ IsReady(i)
  /\ i' = 0
  /\ UNCHANGED <<replay, main, overdue, gaveUp>>

\* all_released returns false: main tries again unless it is too late.
SeeReady ==
  /\ main = "scan"
  /\ IsReady(i)
  /\ i' = 0
  /\ main' = IF overdue THEN "report" ELSE "scan"
  /\ gaveUp' = overdue
  /\ UNCHANGED <<replay, overdue>>

\* The last slot is not looked at.
SeeReleased_M ==
  /\ main = "scan"
  /\ ~IsReady(i)
  /\ i' = (i + 1) % Slots
  /\ main' = IF i + 1 = Slots - 1 THEN "report" ELSE "scan"
  /\ UNCHANGED <<replay, overdue, gaveUp>>

\* all_released goes on, and returns true after the last slot.
SeeReleased ==
  /\ main = "scan"
  /\ ~IsReady(i)
  /\ i' = (i + 1) % Slots
  /\ main' = IF i + 1 = Slots THEN "report" ELSE "scan"
  /\ UNCHANGED <<replay, overdue, gaveUp>>

Return ==
  /\ main = "report"
  /\ main' = "returned"
  /\ UNCHANGED <<replay, i, overdue, gaveUp>>

Deadline ==
  /\ main = "scan"
  /\ ~overdue
  /\ overdue' = TRUE
  /\ UNCHANGED <<replay, main, i, gaveUp>>

Main == Open \/ Stream \/ EndOfFile \/ SeeReady \/ SeeReleased \/ Return

\* The engine runs until the process ends.
Run == main # "returned" /\ EngineStep /\ UNCHANGED driver
Spin == main # "returned" /\ PollAgain /\ UNCHANGED vars
Exit == main = "returned" /\ UNCHANGED vars

DriverNext == Main \/ Deadline \/ Run \/ Spin \/ Exit

DriverSpec == DriverInit /\ [][DriverNext]_vars

\* main spins and time passes.  The engine may hang at any point.
FairDriverSpec == DriverSpec /\ WF_vars(Main) /\ WF_vars(Deadline)

-----------------------------------------------------------------------------

\* Every variable has its type.
DriverTypeOK ==
  /\ ReplayTypeOK
  /\ main \in {"open", "stream", "scan", "report", "returned"}
  /\ i \in 0..Slots - 1
  /\ overdue \in BOOLEAN
  /\ gaveUp \in BOOLEAN

\* What main reports as processed, the engine has processed, although main looks at
\* one slot at a time while the engine goes on.  If it gave up waiting, no more than
\* the events of one ring are missing ("the last <= buffer_size events").
ReportIsTrue ==
  main \in {"report", "returned"} =>
    rows_processed_ - read_p \in 0..(IF gaveUp THEN Slots ELSE 0)

\* If the engine runs, main returns, whatever is in the file and though the adapter
\* has to wait for room in the ring again and again.
MainReturns == WF_vars(Run) => <>(main = "returned")

\* Once the file is read, main returns even if the engine never takes another event.
WaitEnds == main = "scan" ~> main = "returned"
=============================================================================
