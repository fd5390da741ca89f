------------------------------ MODULE Session ------------------------------
(***************************************************************************)
(* A run of the program from the command line: the locks on live trading   *)
(* (risk/live_arming.py), the commands (cli/main.py), the construction and *)
(* the shutdown of the stack (wiring.py) and which adapter each mode gets  *)
(* (exchanges/registry.py).  The operator may edit the configuration, the  *)
(* environment and the acknowledgment file at any time.                    *)
(***************************************************************************)
EXTENDS Naturals, SequencesExt

CONSTANTS Venues,         \* enabled venues, in the order of the configuration
          Credentials,    \* the sets of venues whose credentials may be in the environment
          MaxSessions     \* bound on the commands run

ASSUME SessionAssumption ==
  /\ Venues # <<>> /\ Credentials \subseteq SUBSET Range(Venues) /\ MaxSessions \in Nat

Modes == {"backtest", "paper", "live"}
AckStates == {"absent", "exact", "other", "unreadable"}

VARIABLES seFileMode,    \* mode in the configuration file
          seEnv,         \* TRIANGULUM_ARM_LIVE holds the required value
          seAck,         \* the acknowledgment file
          seCreds,       \* venues with credentials in the environment
          seCommand,     \* command being run, "" between two runs
          seConfigMode,  \* config.mode of the process (set by some commands)
          sePhase,       \* where the process is
          seAdapters,    \* venue -> kind of adapter built
          seConnected,   \* venues connected, in order
          seSignal,      \* SIGINT or SIGTERM was received
          seCheckpoint,  \* models were saved on the way out
          seRecording,   \* the recorder runs
          seCount,
          seLocks        \* the three locks as they were when the command started (history)

seVars == <<seFileMode, seEnv, seAck, seCreds, seCommand, seConfigMode, sePhase, seAdapters,
            seConnected, seSignal, seCheckpoint, seRecording, seCount, seLocks>>
world == <<seFileMode, seEnv, seAck, seCreds>>

\* check_live_arming: the mode it is given, the variable, the stripped file content.
Armed(mode) == mode = "live" /\ seEnv /\ seAck = "exact"

Reset ==
  /\ seAdapters' = [v \in {} |-> ""] /\ seConnected' = <<>>
  /\ seSignal' = FALSE /\ seRecording' = FALSE

SeInit ==
  /\ seFileMode \in {"paper", "live"} /\ seEnv \in BOOLEAN
  /\ seAck \in AckStates /\ seCreds \in Credentials
  /\ seCommand = "" /\ seConfigMode = seFileMode /\ sePhase = "idle"
  /\ seAdapters = [v \in {} |-> ""] /\ seConnected = <<>> /\ seSignal = FALSE
  /\ seCheckpoint = FALSE /\ seRecording = FALSE /\ seCount = 0
  /\ seLocks = [file |-> FALSE, env |-> FALSE, ack |-> FALSE]

process == <<seCommand, seConfigMode, sePhase, seAdapters, seConnected, seSignal,
             seCheckpoint, seRecording, seCount, seLocks>>

EditConfig(m) == seFileMode # m /\ seFileMode' = m /\ UNCHANGED <<seEnv, seAck, seCreds, process>>
SetEnv(b) == seEnv # b /\ seEnv' = b /\ UNCHANGED <<seFileMode, seAck, seCreds, process>>
EditAck(a) == seAck # a /\ seAck' = a /\ UNCHANGED <<seFileMode, seEnv, seCreds, process>>

\* cmd_arm_live writes the file, reports, and returns.
ArmLive ==
  /\ seCommand = "" /\ seCount < MaxSessions
  /\ seCount' = seCount + 1
  /\ seAck' = "exact"
  /\ UNCHANGED <<seFileMode, seEnv, seCreds, seCommand, seConfigMode, sePhase, seAdapters, seConnected,
                 seSignal, seCheckpoint, seRecording, seLocks>>

\* Mutant of RunCommand: paper keeps the configuration's mode.
RunKeepsMode(c) ==
  /\ seCommand = "" /\ seCount < MaxSessions
  /\ c = "live" => Armed("live")
  /\ seCount' = seCount + 1
  /\ seCommand' = c /\ sePhase' = "building" /\ seCheckpoint' = FALSE
  /\ seConfigMode' = IF c = "live" THEN c ELSE seFileMode
  /\ seLocks' = [file |-> seFileMode = "live", env |-> seEnv, ack |-> seAck = "exact"]
  /\ Reset
  /\ UNCHANGED world

\* A command that builds a stack; cmd_live refuses unless armed.  paper and live set
\* config.mode; demo, backtest and record leave what the configuration says.
RunCommand(c) ==
  /\ seCommand = "" /\ seCount < MaxSessions
  /\ c = "live" => Armed("live")
  /\ seCount' = seCount + 1
  /\ seCommand' = c /\ sePhase' = "building" /\ seCheckpoint' = FALSE
  /\ seConfigMode' = IF c \in {"paper", "live"} THEN c ELSE seFileMode
  /\ seLocks' = [file |-> seFileMode = "live", env |-> seEnv, ack |-> seAck = "exact"]
  /\ Reset
  /\ UNCHANGED world

\* The mode build_stack is called with.
StackMode == CASE seCommand \in {"demo", "backtest"} -> "backtest"
               [] seCommand = "live" -> "live"
               [] OTHER -> "paper"

\* build_adapter: simulated orders but for a live mode, which needs credentials.
AdapterFor(mode, v) ==
  CASE mode = "backtest" -> "simulated"
    [] mode = "live" -> IF v \in seCreds THEN "real" ELSE "refused"
    [] OTHER -> "paper"

\* build_stack: one simulated exchange in a backtest; otherwise build_adapters, which
\* reads config.run_mode and gives up on the first venue that is refused.
BuildAdapters ==
  /\ sePhase = "building" /\ seAdapters = [v \in {} |-> ""]
  /\ LET built == IF StackMode = "backtest" THEN [v \in {Head(Venues)} |-> "simulated"]
                  ELSE [v \in Range(Venues) |-> AdapterFor(seConfigMode, v)]
     IN  IF "refused" \in Range(built)
         THEN /\ sePhase' = "failed" /\ UNCHANGED seAdapters
         ELSE seAdapters' = built /\ UNCHANGED sePhase
  /\ UNCHANGED <<world, seCommand, seConfigMode, seConnected, seSignal, seCheckpoint,
                 seRecording, seCount, seLocks>>

\* Adapters connect, load and subscribe one after the other; what one raises ends
\* build_stack, and the process, with the earlier ones connected.
ConnectNext(ok) ==
  /\ sePhase = "building" /\ Len(seConnected) < Cardinality(DOMAIN seAdapters)
  /\ IF ok THEN /\ seConnected' = Append(seConnected, Venues[Len(seConnected) + 1])
                /\ UNCHANGED sePhase
     ELSE sePhase' = "failed" /\ UNCHANGED seConnected
  /\ UNCHANGED <<world, seCommand, seConfigMode, seAdapters, seSignal, seCheckpoint,
                 seRecording, seCount, seLocks>>

\* The rest of build_stack; the engine starts, except for record, which only reads.
StartEngine ==
  /\ sePhase = "building" /\ DOMAIN seAdapters # {}
  /\ Len(seConnected) = Cardinality(DOMAIN seAdapters)
  /\ sePhase' = IF seCommand = "record" THEN "recording" ELSE "trading"
  /\ seRecording' = TRUE
  /\ UNCHANGED <<world, seCommand, seConfigMode, seAdapters, seConnected, seSignal,
                 seCheckpoint, seCount, seLocks>>

\* Mutant of Finish: the signal wakes nobody.
FinishIgnoresSignal ==
  /\ sePhase \in {"trading", "recording"}
  /\ seCommand \in {"demo", "backtest", "record"}
  /\ sePhase' = IF sePhase = "trading" THEN "stopping" ELSE "closing"
  /\ UNCHANGED <<world, seCommand, seConfigMode, seAdapters, seConnected, seSignal,
                 seCheckpoint, seRecording, seCount, seLocks>>

\* demo with a number of ticks, backtest and record end by themselves.
Finish ==
  /\ sePhase \in {"trading", "recording"}
  /\ seSignal \/ seCommand \in {"demo", "backtest", "record"}
  /\ sePhase' = IF sePhase = "trading" THEN "stopping" ELSE "closing"
  /\ UNCHANGED <<world, seCommand, seConfigMode, seAdapters, seConnected, seSignal,
                 seCheckpoint, seRecording, seCount, seLocks>>

Signal ==
  /\ sePhase \in {"trading", "stopping", "closing"} /\ ~seSignal
  /\ seSignal' = TRUE
  /\ UNCHANGED <<world, seCommand, seConfigMode, sePhase, seAdapters, seConnected,
                 seCheckpoint, seRecording, seCount, seLocks>>

\* engine.stop; when it raises, the same finally clause never reaches stack.shutdown.
StopEngine(raises) ==
  /\ sePhase = "stopping"
  /\ sePhase' = IF raises THEN "failed" ELSE "closing"
  /\ UNCHANGED <<world, seCommand, seConfigMode, seAdapters, seConnected, seSignal,
                 seCheckpoint, seRecording, seCount, seLocks>>

\* Stack.shutdown: checkpoint (failures are logged), recorder, then every adapter,
\* whose failures are logged as well.
Shutdown(saved) ==
  /\ sePhase = "closing"
  /\ seCheckpoint' = saved
  /\ seRecording' = FALSE /\ seConnected' = <<>>
  /\ sePhase' = "idle" /\ seCommand' = ""
  /\ UNCHANGED <<world, seConfigMode, seAdapters, seSignal, seCount, seLocks>>

\* The exception leaves main: the process is gone with whatever it held.
Die ==
  /\ sePhase = "failed"
  /\ sePhase' = "idle" /\ seCommand' = ""
  /\ Reset
  /\ UNCHANGED <<world, seConfigMode, seCheckpoint, seCount, seLocks>>

Process ==
  \/ BuildAdapters \/ \E ok \in BOOLEAN : ConnectNext(ok)
  \/ StartEngine \/ Finish \/ \E b \in BOOLEAN : StopEngine(b) \/ Shutdown(b)
  \/ Die

SeNext ==
  \/ \E m \in {"paper", "live"} : EditConfig(m)
  \/ \E b \in BOOLEAN : SetEnv(b)
  \/ \E a \in AckStates : EditAck(a)
  \/ ArmLive
  \/ \E c \in {"demo", "paper", "live", "backtest", "record"} : RunCommand(c)
  \/ Process \/ Signal

SeFairness == WF_seVars(Process)

-----------------------------------------------------------------------------

OrdersAreReal == sePhase \in {"trading", "stopping"} /\ "real" \in Range(seAdapters)

\* The engine never trades on a real adapter unless the environment variable and the
\* acknowledgment file were both in place when its command started, whatever the
\* configuration says and whichever command it was.  Code: cmd_live, cmd_paper's
\* override of config.mode, build_adapters' use of it.
RealOrdersNeedTwoLocks == OrdersAreReal => seLocks.env /\ seLocks.ack

\* The three independent locks of live_arming.py, the configuration's mode included.
RealOrdersNeedThreeLocks == OrdersAreReal => seLocks.file /\ seLocks.env /\ seLocks.ack

\* A session that was told to stop ends, and unless stopping the engine failed it went
\* through the checkpoint and closed its recorder.  Code: _run's finally clause.
SignalEndsTheSession == seSignal ~> (seCommand = "" /\ ~seRecording)
=============================================================================
