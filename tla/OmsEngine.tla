------------------------------ MODULE OmsEngine ------------------------------
(***************************************************************************)
(* OmsEngine (src/include/engine/oms_engine.hpp) with its log: a producer  *)
(* pushes commands into the ring, a consumer thread takes them out, logs   *)
(* them, applies them to the book and logs the trades. The process may     *)
(* crash anywhere, and a new one may be started.                           *)
(*                                                                         *)
(* The consumer runs one of two loops: that of the desk (consumer_loop,    *)
(* src/src/workstation.cpp), which publishes the book after each           *)
(* process_all and leaves when it is told to stop, and that of a session   *)
(* (run_spsc_wal_session, src/include/app/session_services.hpp), which     *)
(* goes on until the producer is done and the ring is empty.               *)
(*                                                                         *)
(* The ring is a bounded FIFO (SPSCQueue.tla); a call of the matching      *)
(* engine is one step (MatchingEngine.tla). fwrite puts a record into a    *)
(* buffer of the process, fflush hands it to the system, and only that     *)
(* outlives the process. Writes do not fail.                               *)
(***************************************************************************)
EXTENDS WalReplay

CONSTANTS Inputs,          \* the commands the producer may push
          QueueCapacity,   \* slots of the ring
          BufferRecords,   \* records the buffer of the writer holds
          MaxCommands,     \* bound: commands pushed by one process
          NoCommand

ASSUME OmsAssumption ==
    /\ Inputs \subseteq Command
    /\ QueueCapacity \in Nat \ {0} /\ BufferRecords \in Nat \ {0}
    /\ MaxCommands \in Nat
    /\ NoCommand \notin Command

VARIABLES mode,        \* which of the two loops the consumer runs
          stop,        \* ~ running_, or done
          queue,       \* the ring
          pc, cmd, todo,   \* the consumer: its place, the command in hand, trades to log
          book,
          buffer, file,    \* the log: in the process, and in the file
          accepted,    \* history: the commands pushed
          handled,     \* history: the commands applied
          shown        \* history: how many of them the L2 view shows

log == <<buffer, file>>
consumer == <<pc, cmd, todo>>
history == <<accepted, handled, shown>>
vars == <<mode, stop, queue, consumer, book, log, history>>

Modes == {"desk", "session"}
Places == {"loop", "pop", "log", "apply", "trades", "flush", "publish", "leaving",
           "done", "crashed"}
Over == pc \in {"done", "crashed"}

(* The process has started and opened its log.                             *)
Init == /\ mode \in Modes
        /\ stop = FALSE
        /\ queue = <<>>
        /\ pc = "loop" /\ cmd = NoCommand /\ todo = <<>>
        /\ book = EmptyBook
        /\ buffer = <<>> /\ file = <<>>
        /\ accepted = <<>> /\ handled = <<>> /\ shown = 0

-----------------------------------------------------------------------------
(* The producer. A push into a full ring is refused and changes nothing.   *)

Submit(c) ==
    /\ ~ Over /\ ~ stop
    /\ Len(queue) < QueueCapacity /\ Len(accepted) < MaxCommands
    /\ queue' = Append(queue, c)
    /\ accepted' = Append(accepted, c)
    /\ UNCHANGED <<mode, stop, consumer, book, log, handled, shown>>

(* stop_engine, or the producer of a session is done.                      *)
Stop ==
    /\ ~ Over /\ ~ stop
    /\ stop' = TRUE
    /\ UNCHANGED <<mode, queue, consumer, book, log, history>>

-----------------------------------------------------------------------------
(* The consumer.                                                           *)

(* Mutants: a session ends as soon as its producer is done; the test of    *)
(* pending() the wrong way round.                                          *)
LoopWithoutPending ==
    /\ pc = "loop"
    /\ pc' = IF stop THEN "leaving" ELSE "pop"
    /\ UNCHANGED <<mode, stop, queue, cmd, todo, book, log, history>>

LoopUntilPending ==
    /\ pc = "loop"
    /\ pc' = IF stop /\ queue # <<>> THEN "leaving" ELSE "pop"
    /\ UNCHANGED <<mode, stop, queue, cmd, todo, book, log, history>>

(* The condition of the loop.                                              *)
Loop ==
    /\ pc = "loop"
    /\ pc' = IF stop /\ (mode = "session" => queue = <<>>) THEN "leaving" ELSE "pop"
    /\ UNCHANGED <<mode, stop, queue, cmd, todo, book, log, history>>

Pop ==
    /\ pc = "pop"
    /\ IF queue = <<>>
       THEN pc' = "flush" /\ UNCHANGED <<queue, cmd>>
       ELSE pc' = "log" /\ cmd' = Head(queue) /\ queue' = Tail(queue)
    /\ UNCHANGED <<mode, stop, todo, book, log, history>>

(* fwrite: the buffer goes to the file when it has no room left.           *)
Fwrite(rec) ==
    IF Len(buffer) < BufferRecords
    THEN buffer' = Append(buffer, rec) /\ UNCHANGED file
    ELSE buffer' = <<rec>> /\ file' = file \o buffer

LogCommand ==
    /\ pc = "log"
    /\ Fwrite(cmd)
    /\ pc' = "apply"
    /\ UNCHANGED <<mode, stop, queue, cmd, todo, book, history>>

Then(ts) == todo' = ts /\ pc' = IF ts = <<>> THEN "pop" ELSE "trades"

Apply ==
    /\ pc = "apply"
    /\ book' = ApplyCommand(book, cmd).book
    /\ Then(TradeRecords(book, cmd, ApplyCommand(book, cmd).trades))
    /\ handled' = Append(handled, cmd)
    /\ cmd' = NoCommand
    /\ UNCHANGED <<mode, stop, queue, log, accepted, shown>>

(* Mutant: only the first trade of a command is logged. *)
LogFirstTrade ==
    /\ pc = "trades"
    /\ Fwrite(Head(todo))
    /\ Then(<<>>)
    /\ UNCHANGED <<mode, stop, queue, cmd, book, history>>

LogTrade ==
    /\ pc = "trades"
    /\ Fwrite(Head(todo))
    /\ Then(Tail(todo))
    /\ UNCHANGED <<mode, stop, queue, cmd, book, history>>

(* Mutant: the buffer is left to fill up. *)
NoFlush ==
    /\ pc = "flush"
    /\ pc' = IF mode = "desk" THEN "publish" ELSE "loop"
    /\ UNCHANGED <<mode, stop, queue, cmd, todo, book, log, history>>

Flush ==
    /\ pc = "flush"
    /\ file' = file \o buffer /\ buffer' = <<>>
    /\ pc' = IF mode = "desk" THEN "publish" ELSE "loop"
    /\ UNCHANGED <<mode, stop, queue, cmd, todo, book, history>>

Publish ==
    /\ pc = "publish"
    /\ shown' = Len(handled)
    /\ pc' = "loop"
    /\ UNCHANGED <<mode, stop, queue, cmd, todo, book, log, accepted, handled>>

(* The consumer is joined, the log closed; a session shows its book now.   *)
Leave ==
    /\ pc = "leaving"
    /\ file' = file \o buffer /\ buffer' = <<>>
    /\ shown' = IF mode = "session" THEN Len(handled) ELSE shown
    /\ pc' = "done"
    /\ UNCHANGED <<mode, stop, queue, cmd, todo, book, accepted, handled>>

Consume == Loop \/ Pop \/ LogCommand \/ Apply \/ LogTrade \/ Flush \/ Publish \/ Leave

-----------------------------------------------------------------------------
(* The process dies, and all it had with it; the histories and the file    *)
(* tell what was lost.                                                     *)
Crash ==
    /\ ~ Over
    /\ pc' = "crashed"
    /\ queue' = <<>> /\ cmd' = NoCommand /\ todo' = <<>>
    /\ book' = EmptyBook /\ buffer' = <<>>
    /\ UNCHANGED <<mode, stop, file, history>>

(* Another process is started: its "wb" leaves nothing of the log.         *)
Restart ==
    /\ Over
    /\ mode' \in Modes
    /\ stop' = FALSE
    /\ queue' = <<>>
    /\ pc' = "loop" /\ cmd' = NoCommand /\ todo' = <<>>
    /\ book' = EmptyBook
    /\ buffer' = <<>> /\ file' = <<>>
    /\ accepted' = <<>> /\ handled' = <<>> /\ shown' = 0

Next == (\E c \in Inputs : Submit(c)) \/ Stop \/ Consume \/ Crash \/ Restart

Spec == Init /\ [][Next]_vars

(* The consumer thread is scheduled: its place changes again and again     *)
(* until it is done or the process dies. It leaves each place after        *)
(* finitely many of its own steps, so this is WF_vars(Consume). Nothing    *)
(* obliges the producer to push or to stop, or a process to be started.    *)
Turn == ~ Over /\ pc' \in Places \ {"crashed"}
FairSpec == Spec /\ WF_pc(Turn)

-----------------------------------------------------------------------------
TypeOK == /\ mode \in Modes /\ stop \in BOOLEAN
          /\ queue \in Seq(Inputs) /\ Len(queue) <= QueueCapacity
          /\ pc \in Places /\ cmd \in Inputs \union {NoCommand}
          /\ \A i \in DOMAIN todo : todo[i].type = "Trade"
          /\ book \in Book
          /\ Len(buffer) <= BufferRecords
          /\ accepted \in Seq(Inputs) /\ handled \in Seq(Inputs)
          /\ shown \in 0 .. Len(handled)

(* What the process has logged, flushed or not.                            *)
Logged == file \o buffer

(* "WAL-auditable state reconstruction": replaying what has been logged    *)
(* gives the book, at every moment but between logging a command and       *)
(* applying it, although the replay and the engine treat a modify by       *)
(* different code.                                                         *)
LogExplainsBook ==
    /\ TypeOK
    /\ pc \notin {"apply", "crashed"} => Replay(Logged).book = book

(* Whenever the process dies, what is in the file are the first commands   *)
(* it handled, with none left out, and at least all of those whose effect  *)
(* the desk had shown: process_all flushes before the book is published.   *)
ShownIsRecoverable ==
    LET cs == Commands(file)
        upTo == IF cmd = NoCommand THEN handled ELSE Append(handled, cmd)
    IN  /\ pc # "crashed" => IsPrefix(cs, upTo)
        /\ Len(cs) >= shown

(* The trades in a log are the trades its own commands make, in order,     *)
(* none twice; the end of them may be missing, when it is a file cut short *)
(* or the consumer is in the middle of logging them.                       *)
TradesLoggedAreTheTradesMade ==
    /\ IsPrefix(Trades(file), Applied(Commands(file)).trades)
    /\ pc \in {"loop", "pop", "log", "flush", "publish", "leaving", "done"} =>
          Trades(Logged) = Applied(Commands(Logged)).trades

(* Of that many commands the replay could not carry out that many.         *)
Reports(replayed, errors, commands) ==
    /\ replayed.errors = errors
    /\ replayed.commands + errors = commands

(* A replay tells what became of each command: its errors are the cancels  *)
(* and modifies the engine itself could not carry out, so a log without    *)
(* any fault may report some, and it counts every other command as done.   *)
ErrorsAreRefusals ==
    pc \notin {"apply", "crashed"} =>
        Reports(Replay(Logged), Applied(handled).refused, Len(handled))

(* A session handles and logs every command it accepted before it returns, *)
(* though its loop looks at done first and at the ring after; the desk     *)
(* leaves behind only what is in the ring when it is told to stop.         *)
NothingLeftBehind ==
    pc = "done" => /\ Commands(file) = handled
                   /\ accepted = handled \o queue
                   /\ mode = "session" => queue = <<>>

(* An accepted command is handled, unless the process dies or the desk is  *)
(* told to stop.                                                           *)
AcceptedIsHandled ==
    \A n \in 1 .. MaxCommands :
        Len(accepted) >= n ~> \/ Len(handled) >= n
                              \/ pc = "crashed"
                              \/ stop /\ mode = "desk"

(* The thread that joins the consumer gets to do so.                       *)
StopIsHonoured == stop ~> Over

(* The consumer goes on: neither the commands nor the thread that joins it *)
(* wait for ever (workstation.cpp:289, 450; session_services.hpp:133).     *)
ConsumerGoesOn == AcceptedIsHandled /\ StopIsHonoured

(* "Trades are derived from Add/Modify matching - skip on replay": the     *)
(* trades a replay reports are the ones of the log.                        *)
ReplayCountsTradesOnce == pc = "done" => Replay(file).trades = Len(Trades(file))
=============================================================================
