----------------------------- MODULE TestSuite -----------------------------
(***************************************************************************)
(* test_suite.go: for every scenario in turn, one goroutine per host runs  *)
(* scenario_runner.go as a child process, at most maxInstances at a time,  *)
(* reads the trace that the child has written and sends it on the channel  *)
(* result, which another goroutine aggregates.  The child of the host      *)
(* Detailed is the scenario of module Scenarii; the children of the other  *)
(* hosts only end, with a trace or without.                                *)
(***************************************************************************)
EXTENDS Scenarii

CONSTANTS
    Plans,      \* the suites: scenarioIds, the lines of the hosts file, and the flag
                \* -max-instances, 1 unless -parallel
    Detailed    \* the host whose child is a detailed scenario

ASSUME SuiteAssumption ==
    \A p \in Plans :
        /\ p.ids \in Seq(AllScenarii) /\ p.ids # <<>>
        /\ p.maxInstances \in Nat \ {0}
        /\ Detailed \in Range(p.hosts)

VARIABLES
    ids,        \* scenarioIds
    hosts,      \* the lines of the file
    maxInstances,
    main,       \* main(): "scan", "close", "aggregate" or "done", "panicked" if a goroutine was
    id,         \* the loop variable id, shared with the goroutines: an index of ids
    scanned,    \* how many lines of the file the scanner has read
    semaphore,  \* the tokens of the current scenario's semaphore
    wg,         \* the current scenario's WaitGroup
    jobs,       \* the goroutines by scenario and host
    results     \* what the aggregator has received, sorted in the end

suite == <<ids, hosts, maxInstances, main, id, scanned, semaphore, wg, jobs, results>>
vars == <<ids, hosts, maxInstances, main, id, scanned, semaphore, wg, jobs, results, svars>>

MaxIds == Max({Len(p.ids) : p \in Plans})
AllHosts == UNION {Range(p.hosts) : p \in Plans}

(* A goroutine: its pc, the trace it read and whether its files could be created. *)
NoJob == [pc |-> "none", trace |-> Nil, files |-> TRUE]
Crashed(i) == [scenario |-> ids[i], code |-> 254]
All == Range(hosts)
Set(i, h, field, v) == jobs' = [jobs EXCEPT ![i][h][field] = v]
Job(i, h) == jobs[i][h]

(* There is no child of the detailed host: not yet, or no longer. *)
NoChild ==
    /\ scenario = "none" /\ at = "none" /\ code = 0 /\ local = 0 /\ why = "none" /\ timer = "none" /\ sending = FALSE /\ chan = Nil
    /\ streams = <<>> /\ total = 0 /\ params = Nil /\ log = <<>> /\ events = 0

Init ==
    /\ \E p \in Plans : ids = p.ids /\ hosts = p.hosts /\ maxInstances = p.maxInstances
    /\ main = "scan"
    /\ id = 1
    /\ scanned = 0
    /\ semaphore = maxInstances
    /\ wg = 0
    /\ jobs = [i \in 1..Len(ids) |-> [h \in All |-> NoJob]]
    /\ results = EmptyBag
    /\ NoChild

-----------------------------------------------------------------------------
(* Mutant: the goroutine of a host is started without taking a token. *)
StartHostAtOnce ==
    /\ main = "scan"
    /\ scanned < Len(hosts)
    /\ scanned' = scanned + 1
    /\ wg' = wg + 1
    /\ Set(id, hosts[scanned + 1], "pc", "started")
    /\ UNCHANGED <<ids, hosts, maxInstances, main, id, semaphore, results, svars>>

StartHost ==
    /\ main = "scan"
    /\ scanned < Len(hosts)
    /\ scanned' = scanned + 1
    /\ semaphore > 0
    /\ semaphore' = semaphore - 1
    /\ wg' = wg + 1
    /\ Set(id, hosts[scanned + 1], "pc", "started")
    /\ UNCHANGED <<ids, hosts, maxInstances, main, id, results, svars>>

(* Mutant: result is closed without waiting for the goroutines of the last scenario. *)
NoWait ==
    /\ main = "scan"
    /\ scanned = Len(hosts)
    /\ IF id < Len(ids)
       THEN /\ wg = 0
            /\ id' = id + 1
            /\ scanned' = 0
            /\ semaphore' = maxInstances
            /\ UNCHANGED main
       ELSE /\ main' = "close"
            /\ UNCHANGED <<id, scanned, semaphore>>
    /\ UNCHANGED <<ids, hosts, maxInstances, wg, jobs, results, svars>>

Wait ==
    /\ main = "scan"
    /\ scanned = Len(hosts)
    /\ wg = 0
    /\ IF id < Len(ids)
       THEN /\ id' = id + 1
            /\ scanned' = 0
            /\ semaphore' = maxInstances
            /\ UNCHANGED main
       ELSE /\ main' = "close"
            /\ UNCHANGED <<id, scanned, semaphore>>
    /\ UNCHANGED <<ids, hosts, maxInstances, wg, jobs, results, svars>>

(* close(result) ends the aggregator, which closes resultsAgg; results are sorted and written. *)
Finish ==
    /\ main \in {"close", "aggregate"}
    /\ main' = IF main = "close" THEN "aggregate" ELSE "done"
    /\ UNCHANGED <<ids, hosts, maxInstances, id, scanned, semaphore, wg, jobs, results, svars>>

(* The goroutine first creates its output and log files; without them it only runs its defers. *)
CreateFiles(i, h) ==
    /\ Job(i, h).pc = "started"
    /\ \/ Set(i, h, "pc", "run")
       \/ jobs' = [jobs EXCEPT ![i][h].pc = "defer", ![i][h].files = FALSE]
    /\ UNCHANGED <<ids, hosts, maxInstances, main, id, scanned, semaphore, wg, results, svars>>

(* It starts scenario_runner.go with -scenario id, the variable of main's loop. *)
RunChild(i, h) ==
    /\ Job(i, h).pc = "run"
    /\ jobs' = [jobs EXCEPT ![i][h].pc = "running", ![i][h].trace = [scenario |-> ids[id], code |-> 0]]
    /\ IF h = Detailed THEN Begin(ids[id]) ELSE UNCHANGED svars
    /\ UNCHANGED <<ids, hosts, maxInstances, main, id, scanned, semaphore, wg, results>>

(* The child of the detailed host: its scenario, or a panic in one of its agents at any time. *)
Scenario == ScenarioStep /\ UNCHANGED suite
Panic ==
    /\ at \in {"handshake", "loop", "closing"}
    /\ Loop(Crash)
    /\ UNCHANGED <<scenario, timer, sending, chan, streams, total, params, log, events, suite>>

Exit ==
    /\ scenario' = "none" /\ at' = "none" /\ code' = 0 /\ local' = 0 /\ why' = "none" /\ timer' = "none" /\ sending' = FALSE /\ chan' = Nil
    /\ streams' = <<>> /\ total' = 0 /\ params' = Nil /\ log' = <<>> /\ events' = 0

(* Mutant: the goroutine of a child that wrote no trace returns without one. *)
NoCrashTrace(i, h) ==
    /\ Job(i, h).pc = "running"
    /\ \/ /\ h = Detailed /\ at = "returned"
          /\ jobs' = [jobs EXCEPT ![i][h].pc = "report", ![i][h].trace.code = code]
       \/ /\ h = Detailed /\ at = "crashed"
          /\ jobs' = [jobs EXCEPT ![i][h].pc = "defer"]
       \/ /\ h # Detailed
          /\ jobs' = [jobs EXCEPT ![i][h].pc = "report"]
    /\ IF h = Detailed THEN Exit ELSE UNCHANGED svars
    /\ UNCHANGED <<ids, hosts, maxInstances, main, id, scanned, semaphore, wg, results>>

(* The child has exited: its trace is decoded, or there is none in the file and the prepared
   one is used. The child removes the file before it writes another: when there is none at
   all, outputFile is nil and its Name panics. *)
ReadTrace(i, h) ==
    /\ Job(i, h).pc = "running"
    /\ \/ /\ h = Detailed => at = "returned"
          /\ jobs' = [jobs EXCEPT ![i][h].pc = "report", ![i][h].trace.code = IF h = Detailed THEN code ELSE 0]
          /\ UNCHANGED main
       \/ /\ h = Detailed => at = "crashed"
          /\ jobs' = [jobs EXCEPT ![i][h].pc = "report", ![i][h].trace = Crashed(i)]
          /\ UNCHANGED main
       \/ /\ h = Detailed => at = "returned"
          /\ Set(i, h, "pc", "no file")
          /\ main' = "panicked"
    /\ IF h = Detailed THEN Exit ELSE UNCHANGED svars
    /\ UNCHANGED <<ids, hosts, maxInstances, id, scanned, semaphore, wg, results>>

(* result is unbuffered: the aggregator takes the trace as it is sent. *)
Report(i, h) ==
    /\ Job(i, h).pc = "report"
    /\ main = "scan"
    /\ results' = results (+) SetToBag({[host |-> h, trace |-> Job(i, h).trace]})
    /\ Set(i, h, "pc", "defer")
    /\ UNCHANGED <<ids, hosts, maxInstances, main, id, scanned, semaphore, wg, svars>>

(* Mutant: wg.Done() is not deferred, so a goroutine without files never calls it. *)
DoneAtEnd(i, h) ==
    /\ Job(i, h).pc = "defer"
    /\ wg' = IF Job(i, h).files THEN wg - 1 ELSE wg
    /\ Set(i, h, "pc", "release")
    /\ UNCHANGED <<ids, hosts, maxInstances, main, id, scanned, semaphore, results, svars>>

(* The deferred calls, last one first: wg.Done(), then a token goes back to the semaphore
   of the goroutine's own scenario. *)
Done(i, h) ==
    /\ Job(i, h).pc = "defer"
    /\ wg' = wg - 1
    /\ Set(i, h, "pc", "release")
    /\ UNCHANGED <<ids, hosts, maxInstances, main, id, scanned, semaphore, results, svars>>

Release(i, h) ==
    /\ Job(i, h).pc = "release"
    /\ semaphore' = IF i = id THEN semaphore + 1 ELSE semaphore
    /\ Set(i, h, "pc", "gone")
    /\ UNCHANGED <<ids, hosts, maxInstances, main, id, scanned, wg, results, svars>>

Main == StartHost \/ Wait \/ Finish
Goroutine(i, h) == CreateFiles(i, h) \/ RunChild(i, h) \/ ReadTrace(i, h) \/ Report(i, h) \/ Done(i, h) \/ Release(i, h)

(* A panic of a goroutine ends the process. *)
Next ==
    /\ main # "panicked"
    /\ \/ Main
       \/ \E i \in DOMAIN jobs, h \in All : Goroutine(i, h)
       \/ Scenario
       \/ Panic

(* The goroutines are scheduled, timers fire and running agents send and stop.  A select picks
   at random among the channels that are ready, so a timer that has fired is not passed over
   forever.  Hosts owe nothing. *)
Spec ==
    /\ Init
    /\ [][Next]_vars
    /\ WF_vars(main # "panicked" /\ Main)
    /\ \A i \in 1..MaxIds, h \in AllHosts :
          WF_vars(main # "panicked" /\ i \in DOMAIN jobs /\ h \in All /\ Goroutine(i, h))
    /\ WF_vars(/\ main # "panicked"
               /\ Timer \/ HandshakeTimeout \/ Timeout \/ CloseConnection \/ StopAll
               /\ UNCHANGED suite)

-----------------------------------------------------------------------------
Live == {j \in (DOMAIN jobs) \X All : jobs[j[1]][j[2]].pc \in {"run", "running", "report"}}

(* At most maxInstances children run at a time, the goroutines of a scenario whose token is
   not back yet included: the semaphore (test_suite.go:85-88, 98, 105). *)
AtMostMaxInstances == Cardinality(Live) <= maxInstances

(* Nobody sends on result once it is closed, which would panic: close(result) comes after the
   wg.Wait() of the last scenario (test_suite.go:151, 154, 158, 161). *)
NoSendOnClosed == main \in {"aggregate", "done"} => Live = {}

(* When the suite ends, the aggregated results are one trace for each scenario and host whose
   files could be created: of the scenario that the goroutine was started for although id is
   shared (test_suite.go:115, 125), with the verdict of the child, 254 if it wrote none
   (test_suite.go:146-154). *)
EveryRunReported ==
    main = "done" =>
       \A i \in DOMAIN jobs, h \in All :
          LET mine == {r \in DOMAIN results : r.host = h /\ r.trace.scenario = ids[i]}
              last == [host |-> h, trace |-> Job(i, h).trace]
          IN IF Job(i, h).files THEN mine = {last} /\ results[last] = 1 ELSE mine = {}

(* A scenario whose handshake never completes or whose host goes silent still ends by its
   one-shot timer, and with it the suite (scenario.go:74, test_suite.go:133), but for three
   cases: a migration that finds no new socket returns with its SendingAgent stopped, and then
   waits for ever for its close to be sent (connection_migration.go:34-41, closing_agent.go:25);
   an agent that is blocked on a channel that the scenario has not read is never joined
   (key_update.go:30, base_agent.go:83-88); and a child that removed its file and wrote none
   panics the suite (test_suite.go:139-144, scenario_runner.go:68-69). *)
SuiteEnds ==
    <>(\/ main = "done"
       \/ at = "closing" /\ ~sending
       \/ at = "stopping" /\ \E c \in Channels : Blocked(c)
       \/ main = "panicked" /\ \E i \in DOMAIN jobs, h \in All : Job(i, h).pc = "no file")
=============================================================================
