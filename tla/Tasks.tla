-------------------------------- MODULE Tasks --------------------------------
(***************************************************************************)
(* The background tasks of the workstation (src/src/workstation.cpp): the  *)
(* replay of a LOBSTER file, the analysis of a Binance tape, the showcase  *)
(* and the benchmark, each behind a future, with a mutex and a result of   *)
(* its own; the UI thread that starts them, shows the results and, when    *)
(* the window is closed, destroys what they write to.                      *)
(*                                                                         *)
(* A result has two words, so that a reader can meet it half written; a    *)
(* word holds the number of the start it is of. The flags are plain bools  *)
(* and are taken to be read and written in one piece. The display of the   *)
(* progress is left out.                                                   *)
(***************************************************************************)
EXTENDS Naturals, Sequences

CONSTANT MaxStarts   \* bound: how many tasks are started

Kinds == {"replay", "tape", "showcase", "benchmark"}

VARIABLES running,   \* replay_running_, showcase_running_, benchmark_running_
          task,      \* where each task is, "over" when its future is ready
          owner,     \* of each mutex
          todo,      \* words a task has still to write
          result,    \* replay_report_, binance_result_, benchmark_results_
          report,    \* last_session_report_
          ui,        \* where the UI thread is, and with which task
          got,       \* what it has read
          starts,    \* history: tasks started
          number,    \* history: the number of the start each task is of
          made,      \* history: the session reported last
          clash      \* history: two tasks have been writing the report at once

tasks == <<task, owner, todo, result, report, made, clash>>
tasksVars == <<tasks, running, ui, got, starts, number>>

Words == {1, 2}
Flagged == Kinds \ {"tape"}
Panels == Kinds \ {"showcase"}   \* with a window that shows the result

Frame == [at |-> "frame", kind |-> "none"]
At(place) == ui.at = place
With(place, k) == ui = [at |-> place, kind |-> k]
Goto(place, k) == ui' = [at |-> place, kind |-> k]

TasksInit == /\ running = [k \in Flagged |-> FALSE]
             /\ task = [k \in Kinds |-> "none"]
             /\ owner = [k \in Kinds |-> "nobody"]
             /\ todo = [k \in Kinds |-> <<>>]
             /\ result = [k \in Panels |-> [w \in Words |-> 0]]
             /\ report = [w \in Words |-> 0]
             /\ ui = Frame /\ got = <<>>
             /\ starts = 0 /\ number = [k \in Kinds |-> 0]
             /\ made = 0 /\ clash = FALSE

(* future.wait() returns, or the future was not valid.                     *)
Ended(k) == task[k] \in {"none", "over"}

-----------------------------------------------------------------------------
(* The UI thread. The buttons of a panel come before its lock.             *)

(* Mutant: the button is drawn with the panel's mutex locked. *)
ClickLocked(k) ==
    /\ At("frame") /\ starts < MaxStarts /\ owner[k] = "nobody"
    /\ k \in {"showcase", "benchmark"} => ~ running[k]
    /\ owner' = [owner EXCEPT ![k] = "ui"]
    /\ running' = IF k \in {"showcase", "benchmark"} THEN [running EXCEPT ![k] = TRUE] ELSE running
    /\ Goto("start", k)
    /\ UNCHANGED <<task, todo, result, report, made, clash, got, starts, number>>

(* A showcase or a benchmark that runs is not started again; a replay or a *)
(* tape waits for the one before.                                          *)
Click(k) ==
    /\ At("frame") /\ starts < MaxStarts
    /\ k \in {"showcase", "benchmark"} => ~ running[k]
    /\ running' = IF k \in {"showcase", "benchmark"} THEN [running EXCEPT ![k] = TRUE] ELSE running
    /\ Goto("start", k)
    /\ UNCHANGED <<tasks, got, starts, number>>

Launch(k) ==
    /\ With("start", k) /\ Ended(k)
    /\ task' = [task EXCEPT ![k] = "working"]
    /\ running' = IF k \in Flagged THEN [running EXCEPT ![k] = TRUE] ELSE running
    /\ starts' = starts + 1
    /\ number' = [number EXCEPT ![k] = starts + 1]
    /\ ui' = Frame
    /\ UNCHANGED <<owner, todo, result, report, made, clash, got>>

StopClicked == /\ At("frame")
               /\ Goto("stop", "replay")
               /\ UNCHANGED <<tasks, running, got, starts, number>>

StopReplay ==
    /\ At("stop") /\ Ended("replay")
    /\ running' = [running EXCEPT !["replay"] = FALSE]
    /\ ui' = Frame
    /\ UNCHANGED <<tasks, got, starts, number>>

DrawPanel(k) == /\ At("frame") /\ k \in Panels
                /\ Goto("lock", k)
                /\ UNCHANGED <<tasks, running, got, starts, number>>

(* Mutant: the panel is drawn without its mutex. *)
PanelUnlocked(k) ==
    /\ With("lock", k)
    /\ Goto("read", k)
    /\ UNCHANGED <<tasks, running, got, starts, number>>

LockPanel(k) ==
    /\ With("lock", k) /\ owner[k] = "nobody"
    /\ owner' = [owner EXCEPT ![k] = "ui"]
    /\ Goto("read", k)
    /\ UNCHANGED <<task, todo, result, report, made, clash, running, got, starts, number>>

ReadWord(k) ==
    /\ With("read", k) /\ Len(got) < 2
    /\ got' = Append(got, result[k][Len(got) + 1])
    /\ UNCHANGED <<tasks, running, ui, starts, number>>

UnlockPanel(k) ==
    /\ With("read", k) /\ Len(got) = 2
    /\ owner' = [owner EXCEPT ![k] = "nobody"]
    /\ ui' = Frame /\ got' = <<>>
    /\ UNCHANGED <<task, todo, result, report, made, clash, running, starts, number>>

(* The window is closed: ~Workstation waits for three of the futures, the  *)
(* members go, the mutexes before the future of the tape, and that one     *)
(* waits for its task when it goes itself.                                 *)
Close == /\ At("frame")
         /\ Goto("close", "replay")
         /\ UNCHANGED <<tasks, running, got, starts, number>>

After(k) == CASE k = "replay" -> "benchmark" [] k = "benchmark" -> "showcase" [] OTHER -> "none"

Waited(k) ==
    /\ With("close", k) /\ Ended(k)
    /\ IF After(k) = "none" THEN Goto("destroyed", "tape") ELSE Goto("close", After(k))
    /\ running' = IF k = "replay" THEN [running EXCEPT ![k] = FALSE] ELSE running
    /\ UNCHANGED <<tasks, got, starts, number>>

Destroyed == /\ At("destroyed") /\ Ended("tape")
             /\ Goto("over", "none")
             /\ UNCHANGED <<tasks, running, got, starts, number>>

-----------------------------------------------------------------------------
(* The tasks.                                                              *)

Both(what) == <<<<what, 1>>, <<what, 2>>>>

(* What a task writes under its lock. The replay and the showcase each     *)
(* lock their own mutex and write the same report.                         *)
WritesOf(k, ok) ==
    CASE k = "replay"   -> Both("result") \o IF ok THEN Both("report") ELSE <<>>
      [] k = "showcase" -> Both("report")
      [] OTHER          -> Both("result")

Moved(k, place) == task' = [task EXCEPT ![k] = place]

(* The work is done, the mutex comes next; a showcase whose HTML cannot be *)
(* written locks nothing and keeps nothing.                                *)
Worked(k, ok) ==
    /\ task[k] = "working"
    /\ IF k = "showcase" /\ ~ ok
       THEN Moved(k, "flag") /\ UNCHANGED todo
       ELSE Moved(k, "lock") /\ todo' = [todo EXCEPT ![k] = WritesOf(k, ok)]
    /\ made' = IF ok /\ k \in {"replay", "showcase"} THEN number[k] ELSE made
    /\ UNCHANGED <<owner, result, report, clash, running, ui, got, starts, number>>

Lock(k) ==
    /\ task[k] = "lock" /\ owner[k] = "nobody"
    /\ owner' = [owner EXCEPT ![k] = "task"]
    /\ Moved(k, "write")
    /\ UNCHANGED <<todo, result, report, made, clash, running, ui, got, starts, number>>

Reporting(k) == \E i \in DOMAIN todo[k] : todo[k][i][1] = "report"

Write(k) ==
    /\ task[k] = "write" /\ todo[k] # <<>>
    /\ LET what == Head(todo[k])[1]
           word == Head(todo[k])[2]
       IN  IF what = "result"
           THEN /\ result' = [result EXCEPT ![k][word] = number[k]]
                /\ UNCHANGED report
           ELSE /\ report' = [report EXCEPT ![word] = number[k]]
                /\ UNCHANGED result
    /\ todo' = [todo EXCEPT ![k] = Tail(@)]
    /\ clash' = (clash \/ (Reporting("replay") /\ Reporting("showcase")))
    /\ UNCHANGED <<task, owner, made, running, ui, got, starts, number>>

Written(k) == task[k] = "write" /\ todo[k] = <<>>

Unlocked(k, place) == /\ owner' = [owner EXCEPT ![k] = "nobody"]
                      /\ Moved(k, place)
                      /\ UNCHANGED <<todo, result, report, made, clash, running, ui, got, starts, number>>

Unlock(k) == \/ k = "tape" /\ Written(k) /\ Unlocked(k, "over")
             \/ k \in {"replay", "showcase"} /\ Written(k) /\ Unlocked(k, "flag")
             \/ k = "benchmark" /\ task[k] = "unlock" /\ Unlocked(k, "over")

(* Mutant: the flag of the benchmark first. *)
FlagOffEarly(k) ==
    /\ \/ k = "benchmark" /\ task[k] = "write" /\ running[k] /\ UNCHANGED task
       \/ k \in {"replay", "showcase"} /\ task[k] = "flag" /\ Moved(k, "over")
    /\ running' = [running EXCEPT ![k] = FALSE]
    /\ UNCHANGED <<owner, todo, result, report, made, clash, ui, got, starts, number>>

(* The benchmark's flag goes while the mutex is locked, the others' after. *)
FlagOff(k) ==
    /\ \/ k = "benchmark" /\ Written(k) /\ Moved(k, "unlock")
       \/ k \in {"replay", "showcase"} /\ task[k] = "flag" /\ Moved(k, "over")
    /\ running' = [running EXCEPT ![k] = FALSE]
    /\ UNCHANGED <<owner, todo, result, report, made, clash, ui, got, starts, number>>

TaskStep(k) == \/ \E ok \in BOOLEAN : Worked(k, ok)
               \/ Lock(k) \/ Write(k) \/ Unlock(k) \/ FlagOff(k)

(* What the UI thread does once it has begun something.                    *)
UiStep == \/ \E k \in Kinds : \/ Launch(k) \/ LockPanel(k) \/ ReadWord(k) \/ UnlockPanel(k)
                              \/ Waited(k)
          \/ StopReplay \/ Destroyed

TasksNext == \/ \E k \in Kinds : Click(k) \/ DrawPanel(k) \/ TaskStep(k)
             \/ StopClicked \/ Close
             \/ UiStep

TasksSpec == TasksInit /\ [][TasksNext]_tasksVars

(* Each task has a thread of its own, and nothing keeps the UI thread from *)
(* going on. No mutex is fair, and none has to be.                         *)
TasksFairSpec == TasksSpec /\ WF_tasksVars(UiStep) /\ \A k \in Kinds : WF_tasksVars(TaskStep(k))

-----------------------------------------------------------------------------
(* Every variable keeps its type, and a mutex is locked by who is inside.  *)
TasksTypeOK ==
    /\ running \in [Flagged -> BOOLEAN]
    /\ task \in [Kinds -> {"none", "working", "lock", "write", "unlock", "flag", "over"}]
    /\ owner \in [Kinds -> {"nobody", "ui", "task"}]
    /\ ui.at \in {"frame", "start", "stop", "lock", "read", "close", "destroyed", "over"}
    /\ got \in Seq(Nat) /\ Len(got) <= 2
    /\ \A k \in Kinds : owner[k] = IF With("read", k) THEN "ui"
                                  ELSE IF task[k] \in {"write", "unlock"} THEN "task"
                                  ELSE "nobody"

(* What a panel shows is the result of one run, never half of one and half *)
(* of the next: each result has a mutex of its own, and both its writer    *)
(* and the panel lock it.                                                  *)
PanelsShowOneRun == At("read") /\ Len(got) = 2 => got[1] = got[2]

(* A flag that says a task is not running is never early: nothing is left  *)
(* to write. "Export results" reads the rows of the benchmark without its  *)
(* mutex, and is safe while the flag is off.                               *)
NotRunningIsDone ==
    \A k \in Flagged : ~ running[k] => Ended(k) \/ (todo[k] = <<>> /\ task[k] = "unlock")

(* The report kept for the HTML export is that of the last session that    *)
(* had one, the whole of it, although it has two writers with two mutexes: *)
(* unless a replay and a showcase both had it to write at the same time.   *)
ReportIsOfOneSession ==
    (\A k \in {"replay", "showcase"} : task[k] \notin {"lock", "write"}) =>
        \/ clash
        \/ report[1] = report[2] /\ report[1] = made

(* A mutex is locked by who is inside, and what the panels and the report  *)
(* hold is of one run, the whole of it (workstation.cpp:567, 605, 970).    *)
ResultsAreOfOneRun == TasksTypeOK /\ PanelsShowOneRun /\ ReportIsOfOneSession

(* The replay, the benchmark and the showcase have ended when what they    *)
(* write to are destroyed. The tape may not have: its future is waited for *)
(* only after its mutex and the notification are gone.                     *)
NoneOutlivesTheDesk ==
    At("destroyed") \/ At("over") => \A k \in Kinds \ {"tape"} : Ended(k)

(* Who takes a task to have ended, by its flag or because the desk is gone,*)
(* is right (workstation.cpp:269, 1013).                                   *)
SaidToBeOverIsOver == NotRunningIsDone /\ NoneOutlivesTheDesk

(* The UI thread waits for tasks, and tasks for mutexes that the UI thread *)
(* locks: it always comes back to the next frame, or to its end.           *)
UiComesBack == ~ At("frame") ~> At("frame") \/ At("over")
=============================================================================
