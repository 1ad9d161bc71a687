----------------------------- MODULE CoreMiner -----------------------------
(***************************************************************************)
(* The miner program cmd/coreminer.  Two goroutines run jobs: the finder,  *)
(* which receives a found share, submits it and takes the next work, and   *)
(* the ticker, which takes new work at an interval.  Miner.Mining keeps    *)
(* its caller until all threads of the job are done.  A thread hands its   *)
(* share over on foundCh, an unbuffered channel only the finder reads.     *)
(***************************************************************************)
EXTENDS Naturals

CONSTANT Threads        \* mining threads of a job

VARIABLES
    running,            \* Miner.running
    quitSignal,         \* Miner.quitSignal
    AllExitCh,          \* tokens in AllExitCh, a channel of one
    at,                 \* where each of the two goroutines is
    thread,             \* the threads of the job each of them started
    panicked            \* "try over mining" ended the program

vars == <<running, quitSignal, AllExitCh, at, thread, panicked>>

Runners == {"finder", "ticker"}

(* What a runner waits for between jobs. *)
Rest == [g \in Runners |-> IF g = "finder" THEN "found" ELSE "tick"]

Go(g, from, to) == ~panicked /\ at[g] = from /\ at' = [at EXCEPT ![g] = to]

(* <-foundCh: the thread is done with the handover. *)
Found(g, t) ==
    /\ Go("finder", "found", "submit")
    /\ thread[g][t] = "send"
    /\ thread' = [thread EXCEPT ![g][t] = "done"]
    /\ UNCHANGED <<running, quitSignal, AllExitCh, panicked>>

(* SubmitWork; an accepted share leads to the next work. *)
Submit ==
    /\ \E next \in {"exit", "found"} : Go("finder", "submit", next)
    /\ UNCHANGED <<running, quitSignal, AllExitCh, thread, panicked>>

Tick ==
    /\ Go("ticker", "tick", "exit")
    /\ UNCHANGED <<running, quitSignal, AllExitCh, thread, panicked>>

(* ExitJob: whoever clears running raises the quit signal and waits for    *)
(* the job's end, each in a step of its own.                               *)
ExitJob(g) ==
    /\ Go(g, "exit", IF running THEN "signal" ELSE "start")
    /\ running' = FALSE
    /\ UNCHANGED <<quitSignal, AllExitCh, thread, panicked>>

Signal(g) ==
    /\ Go(g, "signal", "await")
    /\ quitSignal' = TRUE
    /\ UNCHANGED <<running, AllExitCh, thread, panicked>>

ExitDone(g) ==
    /\ Go(g, "await", "clear")
    /\ AllExitCh > 0
    /\ AllExitCh' = AllExitCh - 1
    /\ UNCHANGED <<running, quitSignal, thread, panicked>>

Clear(g) ==
    /\ Go(g, "clear", "start")
    /\ quitSignal' = FALSE
    /\ UNCHANGED <<running, AllExitCh, thread, panicked>>

(* Mining: one job at a time, or the program panics. *)
Mining(g) ==
    /\ Go(g, "start", "wait")
    /\ running' = TRUE
    /\ panicked' = running
    /\ thread' = [thread EXCEPT ![g] = [t \in Threads |-> "mine"]]
    /\ UNCHANGED <<quitSignal, AllExitCh>>

(* miningWG.Wait() and the send on AllExitCh. *)
MiningDone(g) ==
    /\ Go(g, "wait", Rest[g])
    /\ \A t \in Threads : thread[g][t] = "done"
    /\ AllExitCh = 0
    /\ AllExitCh' = 1
    /\ UNCHANGED <<running, quitSignal, thread, panicked>>

(* A thread sees the quit signal between two nonces, or finds a share. *)
Quit(g, t) ==
    /\ ~panicked /\ quitSignal
    /\ thread[g][t] = "mine"
    /\ thread' = [thread EXCEPT ![g][t] = "done"]
    /\ UNCHANGED <<running, quitSignal, AllExitCh, at, panicked>>

Find(g, t) ==
    /\ ~panicked
    /\ thread[g][t] = "mine"
    /\ thread' = [thread EXCEPT ![g][t] = "send"]
    /\ UNCHANGED <<running, quitSignal, AllExitCh, at, panicked>>

-----------------------------------------------------------------------------
Init ==
    /\ running = FALSE /\ quitSignal = FALSE /\ AllExitCh = 0
    /\ at = Rest
    /\ thread = [g \in Runners |-> [t \in Threads |-> "done"]]
    /\ panicked = FALSE

Runner(g) ==
    ExitJob(g) \/ Signal(g) \/ ExitDone(g) \/ Clear(g) \/ Mining(g) \/ MiningDone(g)

Next ==
    \/ Submit \/ Tick
    \/ \E g \in Runners : Runner(g) \/ \E t \in Threads : Found(g, t) \/ Quit(g, t) \/ Find(g, t)

(* The goroutines and the threads are scheduled, the ticker fires, and a   *)
(* call to the daemon returns; a thread need not find anything.            *)
Fairness ==
    /\ WF_vars(Submit) /\ WF_vars(Tick)
    /\ \A g \in Runners :
          /\ WF_vars(Runner(g))
          /\ \A t \in Threads : SF_vars(Found(g, t)) /\ WF_vars(Quit(g, t))

Spec == Init /\ [][Next]_vars /\ Fairness

-----------------------------------------------------------------------------
(* "the mining share from which will all get sent to the local ngcore"     *)
(* (cmd/coreminer defaults.go): a found share is handed over, unless the   *)
(* program ends.                                                           *)
SharesSent ==
    \A g \in Runners, t \in Threads :
        thread[g][t] = "send" ~> (thread[g][t] # "send" \/ panicked)
=============================================================================
