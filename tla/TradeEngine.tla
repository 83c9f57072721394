----------------------------- MODULE TradeEngine -----------------------------
(***************************************************************************)
(* The life of a trade engine in trading_main.cpp: main starts its thread, *)
(* sends random orders through it if that is the algorithm, and shuts it   *)
(* down once the engine has had no event for a minute, while the order     *)
(* gateway and the market data consumer still fill the engine's queues.    *)
(* Both threads write to the engine's logger.                              *)
(*                                                                         *)
(* A queue is the number of its elements, which its reader lowers only     *)
(* after it has handled one (module LFQueue).  What handling an element    *)
(* does is the subject of OrderManager, PositionKeeper and                 *)
(* MarketOrderBook; here it is a step that begins and ends.                *)
(***************************************************************************)
EXTENDS Logger

CONSTANTS
  MaxBacklog,  \* bound: elements of a queue at a time; how many arrive in all is not bounded
  MaxSends     \* requests of the random algorithm

\* The threads that use the engine's logger.
ASSUME EngineAssumption == Thread = {"main", "engine"} /\ MaxBacklog \in Nat /\ MaxSends \in Nat

\* incoming_ogw_responses_ and incoming_md_updates_.
Queue == {"ogw", "md"}

VARIABLES
  run,       \* run_
  size,      \* queue -> elements in it
  engine,    \* where the engine's thread is, and the queue it is at
  silent,    \* silentSeconds() >= 60, until main has acted on it
  main,      \* where main is
  sends,     \* requests main has sent, while it trades
  traffic,   \* the exchange still sends responses and updates
  owed,      \* history: queue -> elements that came before the call of stop() and are not handled
  late,      \* history: something arrived since the call of stop()
  reported   \* history: what the POSITIONS read in stop() are

engineVars == <<run, size, engine, silent, owed, reported>>
mainVars == <<main, sends>>
environment == <<traffic, late>>
tradeVars == <<loggerVars, engineVars, mainVars, environment>>

Nothing == [q \in Queue |-> 0]

TradeInit ==
  /\ LoggerInit
  /\ run = FALSE /\ size = Nothing /\ engine = <<"none", "ogw">> /\ silent = FALSE
  /\ main = "start" /\ sends = 0
  /\ traffic = TRUE /\ owed = Nothing /\ late = FALSE /\ reported = "not yet"

-----------------------------------------------------------------------------
(* What goes on around the engine. *)

\* main has not called stop().
BeforeStop == main \in {"start", "trading", "sending"}

\* The order gateway or the market data consumer, until main stops them, adds to a queue.
arrive(q) ==
  /\ traffic /\ size[q] < MaxBacklog
  /\ main \notin {"start", "deleting", "joinLogger", "closed"}
  /\ size' = [size EXCEPT ![q] = @ + 1]
  /\ late' = (late \/ ~BeforeStop)
  /\ UNCHANGED <<loggerVars, run, engine, silent, owed, reported, mainVars, traffic>>

\* Nothing more comes from the exchange.
cease ==
  /\ traffic
  /\ traffic' = FALSE
  /\ UNCHANGED <<loggerVars, engineVars, mainVars, late>>

\* It is sixty seconds since last_event_time_.
passTime ==
  /\ main \in {"trading", "sending"} /\ ~silent
  /\ silent' = TRUE
  /\ UNCHANGED <<loggerVars, run, size, engine, owed, reported, mainVars, environment>>

-----------------------------------------------------------------------------
(* The engine's thread. *)

\* Mutant: the loop does not look at run_.
testRunMutant ==
  /\ engine[1] = "while" /\ ~Logging("engine")
  /\ engine' = <<"next", "ogw">>
  /\ UNCHANGED <<loggerVars, run, size, silent, owed, reported, mainVars, environment>>

\* The condition of the outer loop of run().
testRun ==
  /\ engine[1] = "while" /\ ~Logging("engine")
  /\ engine' = <<IF run THEN "next" ELSE "ended", "ogw">>
  /\ UNCHANGED <<loggerVars, run, size, silent, owed, reported, mainVars, environment>>

\* getNextToRead in the conditions of the inner loops; an element is logged before it is handled.
\* The messages that follow it in the handler are left out.
getNextToRead ==
  /\ engine[1] = "next"
  /\ \/ /\ size[engine[2]] = 0
        /\ engine' = IF engine[2] = "ogw" THEN <<"next", "md">> ELSE <<"while", "ogw">>
        /\ UNCHANGED loggerVars
     \/ /\ size[engine[2]] # 0
        /\ engine' = <<"handle", engine[2]>>
        /\ log("engine")
  /\ UNCHANGED <<run, size, silent, owed, reported, mainVars, environment>>

\* The handler is done with the positions, the book and the strategy; for a market update it has
\* set last_event_time_.  The queues are first in first out, so what is owed goes first.
handle ==
  /\ engine[1] = "handle" /\ ~Logging("engine")
  /\ owed' = [owed EXCEPT ![engine[2]] = IF @ = 0 THEN 0 ELSE @ - 1]
  /\ reported' = IF main = "reading" THEN "torn" ELSE reported
  /\ silent' = (silent /\ engine[2] # "md")
  /\ engine' = <<"index", engine[2]>>
  /\ UNCHANGED <<loggerVars, run, size, mainVars, environment>>

\* updateReadIndex, after the element was handled; for a response, last_event_time_ is set here.
updateReadIndex ==
  /\ engine[1] = "index"
  /\ size' = [size EXCEPT ![engine[2]] = @ - 1]
  /\ silent' = (silent /\ engine[2] # "ogw")
  /\ engine' = <<"next", engine[2]>>
  /\ UNCHANGED <<loggerVars, run, owed, reported, mainVars, environment>>

TradeEngineRun == testRun \/ getNextToRead \/ handle \/ updateReadIndex

-----------------------------------------------------------------------------
(* Main. *)

\* run() logs before its loop.
start ==
  /\ main = "start"
  /\ run' = TRUE
  /\ engine' = <<"while", "ogw">>
  /\ log("engine")
  /\ main' = "trading"
  /\ UNCHANGED <<size, silent, owed, reported, sends, environment>>

\* The random algorithm calls sendClientRequest, which logs before it writes to the gateway's queue.
\* The other algorithms send nothing from main.
sendClientRequest ==
  /\ main = "trading" /\ sends < MaxSends
  /\ sends' = sends + 1
  /\ log("main")
  /\ main' = "sending"
  /\ UNCHANGED <<engineVars, environment>>

endSend ==
  /\ main = "sending" /\ ~Logging("main")
  /\ main' = "trading"
  /\ UNCHANGED <<loggerVars, engineVars, sends, environment>>

\* The elements of queue q that are not handled.
Unhandled(q) == IF engine = <<"index", q>> THEN size[q] - 1 ELSE size[q]

\* main waits as long as the engine is not silent for a minute, then it calls stop().  What follows
\* does not ask for the silence or the requests again.
stop ==
  /\ main = "trading" /\ silent
  /\ main' = "testOgw" /\ silent' = FALSE /\ sends' = 0
  /\ owed' = [q \in Queue |-> Unhandled(q)]
  /\ UNCHANGED <<loggerVars, run, size, engine, reported, environment>>

\* toString, called from main, starts to read the positions.
ReadPositions == reported' = IF owed = Nothing THEN "whole" ELSE "short"

\* Mutant: the loop goes on only while both queues have elements.
testSizesMutant ==
  /\ \/ main = "testOgw" /\ size["ogw"] = 0
     \/ main = "testMd" /\ size["md"] = 0
  /\ main' = "reading" /\ ReadPositions
  /\ UNCHANGED <<loggerVars, run, size, engine, silent, owed, sends, environment>>

\* The condition of the loop in stop() finds a queue empty.
testSizes ==
  /\ \/ main = "testOgw" /\ size["ogw"] = 0 /\ main' = "testMd" /\ UNCHANGED reported
     \/ main = "testMd" /\ size["md"] = 0 /\ main' = "reading" /\ ReadPositions
  /\ UNCHANGED <<loggerVars, run, size, engine, silent, owed, sends, environment>>

\* The body of the loop in stop().
logSleeping ==
  /\ \/ main = "testOgw" /\ size["ogw"] # 0
     \/ main = "testMd" /\ size["md"] # 0
  /\ log("main")
  /\ main' = "sleeping"
  /\ UNCHANGED <<engineVars, sends, environment>>

endSleep ==
  /\ main = "sleeping" /\ ~Logging("main")
  /\ main' = "testOgw"
  /\ UNCHANGED <<loggerVars, engineVars, sends, environment>>

\* toString has read the positions, and stop() logs them.
logPositions ==
  /\ main = "reading"
  /\ reported' = IF engine[1] = "handle" THEN "torn" ELSE reported
  /\ log("main")
  /\ main' = "reporting"
  /\ UNCHANGED <<run, size, engine, silent, owed, sends, environment>>

stopRun ==
  /\ main = "reporting" /\ ~Logging("main")
  /\ run' = FALSE
  /\ main' = "join"
  /\ UNCHANGED <<loggerVars, size, engine, silent, owed, reported, sends, environment>>

\* The thread has ended; thread_ is null from here on, and the call of stop() in ~TradeEngine
\* returns at once.
join ==
  /\ main = "join" /\ engine[1] = "ended"
  /\ main' = "joined"
  /\ UNCHANGED <<loggerVars, engineVars, sends, environment>>

\* market_data_consumer->stop(), order_gateway->stop(), and delete trade_engine up to ~Logger: the
\* order books log themselves when they are deleted.
stopOthers ==
  /\ main = "joined"
  /\ log("main")
  /\ main' = "deleting"
  /\ UNCHANGED <<engineVars, sends, environment>>

deleteLogger ==
  /\ main = "deleting" /\ ~Logging("main")
  /\ stopFlushing
  /\ main' = "joinLogger"
  /\ UNCHANGED <<engineVars, sends, environment>>

closeFile ==
  /\ main = "joinLogger" /\ flusher = "ended"
  /\ main' = "closed"
  /\ UNCHANGED <<loggerVars, engineVars, sends, environment>>

Main ==
  \/ start \/ sendClientRequest \/ endSend \/ stop \/ testSizes \/ logSleeping \/ endSleep
  \/ logPositions \/ stopRun \/ join \/ stopOthers \/ deleteLogger \/ closeFile

-----------------------------------------------------------------------------
\* The logger's part of a step leaves the rest alone.
LoggerStep(A) == A /\ UNCHANGED <<engineVars, mainVars, environment>>

mainThread == Main \/ LoggerStep(pushValue("main"))
engineThread == TradeEngineRun \/ LoggerStep(pushValue("engine"))
loggerThread == LoggerStep(flushQueue)
outside == (\E q \in Queue : arrive(q)) \/ cease \/ passTime

Terminated == main = "closed" /\ UNCHANGED tradeVars

TradeNext == outside \/ mainThread \/ engineThread \/ loggerThread \/ Terminated

(***************************************************************************)
(* Every thread gets processor time.  A push never waits in the code; here *)
(* it may wait at the bound MaxPending, and that fairness is strong for    *)
(* the threads that log says they do not wait there forever.  The exchange *)
(* may send without end and may stop at any time; a minute without an      *)
(* event is certain to come only after it has stopped.                     *)
(***************************************************************************)
TradeSpec ==
  /\ TradeInit /\ [][TradeNext]_tradeVars
  /\ SF_tradeVars(mainThread) /\ SF_tradeVars(engineThread) /\ WF_tradeVars(loggerThread)
  /\ WF_tradeVars(passTime /\ ~traffic)

-----------------------------------------------------------------------------
(* Properties. *)

\* main is past the join of the engine's thread.
Joined == main \in {"joined", "deleting", "joinLogger", "closed"}

(***************************************************************************)
(* stop() tests two queues one after the other while both still grow, and  *)
(* what arrives after the tests is dropped with the thread.  Everything    *)
(* that arrived before the call has been handled when stop() returns.      *)
(***************************************************************************)
StopHandlesWhatCame == Joined => owed = Nothing

(***************************************************************************)
(* The POSITIONS that stop() logs from main's thread are read after every  *)
(* fill that arrived before the call, and they are read while the engine's *)
(* thread changes them only if something arrived during the call.          *)
(***************************************************************************)
PositionsComplete == reported # "short" /\ (reported = "torn" => late)

(***************************************************************************)
(* ~Logger closes the file only when as many elements were written to it   *)
(* as were pushed, even if two threads pushed at once or ran a whole ring  *)
(* ahead.  And an element in the file is the one that was pushed at its    *)
(* place, unless two threads have pushed at once before, or its slot was   *)
(* claimed again before it was read.                                       *)
(***************************************************************************)
FileIsLog == (main = "closed" => pending = <<>>) /\ ~garbled

(***************************************************************************)
(* Once the exchange sends no more, main sees the silence, gets through    *)
(* stop(), the joins and ~Logger, and the program ends.  While it sends,   *)
(* main may wait for the silence, and stop() for two empty queues, without *)
(* end.                                                                    *)
(***************************************************************************)
ProgramEnds == ~traffic ~> main = "closed"

=============================================================================
