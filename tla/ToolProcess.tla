------------------------------ MODULE ToolProcess ------------------------------
(***************************************************************************)
(* A command run on somebody's behalf, four ways: the `bash` tool          *)
(* (crates/btv-tools/src/bash.rs), a skill outside or inside the container *)
(* (skill.rs, sandbox.rs) and a step of `/verify`                          *)
(* (crates/btv-verify/src/exec.rs).  Each call waits for its process with  *)
(* a deadline of its own, collects an output that goes through a pipe of   *)
(* bounded size, and leaves the process dead - or not.  The process may    *)
(* leave a helper behind that holds the pipe after it.  The output is text *)
(* (`bash` and skills drop one that is not UTF-8, and answer none).        *)
(***************************************************************************)
EXTENDS Naturals

CONSTANTS
  Job,        \* the calls
  Pipe        \* what a pipe holds before its writer blocks

ASSUME PipeHolds == Pipe \in Nat \ {0}

VARIABLES
  command,    \* per call: how it is run, what it writes, its exit code, its helper
  phase,      \* per call: where the caller is
  main,       \* per call: the process it started
  helper,     \* per call: the process that one may have left in the background
  piped,      \* per call: written and not yet read
  collected,  \* per call: read
  written,    \* per call: written by the process
  cell,       \* per call: its container
  reply       \* per call: what the caller was answered

toolVars == <<command, phase, main, helper, piped, collected, written, cell, reply>>

(* A helper stays in the process group of its parent, or leaves it. *)
Commands == [way : {"bash", "skill", "step", "cell"}, timed : BOOLEAN, writes : 0 .. Pipe + 1,
             exit : {0, 1}, leaves : {"nothing", "group", "away"}]
Timed == {k \in Commands : /\ k.way # "step" => k.timed
                           /\ k.way = "cell" => k.leaves = "nothing"}

Unanswered == [kind |-> "none"]

ToolInit ==
  /\ command \in [Job -> Timed]
  /\ phase = [c \in Job |-> "asked"]
  /\ main = [c \in Job |-> "none"]
  /\ helper = [c \in Job |-> "none"]
  /\ piped = [c \in Job |-> 0]
  /\ collected = [c \in Job |-> 0]
  /\ written = [c \in Job |-> 0]
  /\ cell = [c \in Job |-> "none"]
  /\ reply = [c \in Job |-> Unanswered]

Way(c) == command[c].way
Answers(c, r) == reply' = [reply EXCEPT ![c] = r] /\ phase' = [phase EXCEPT ![c] = "answered"]
StillWritten(c) == main[c] = "running" \/ helper[c] = "running"

(* Whoever reads the pipe sees its end when nobody can write it any more. *)
AtEnd(c) == ~StillWritten(c) /\ piped[c] = 0

-----------------------------------------------------------------------------
(* The command. *)

Writes(c) ==
  /\ main[c] = "running" /\ written[c] < command[c].writes
  /\ Way(c) = "cell" \/ piped[c] < Pipe
  /\ piped' = [piped EXCEPT ![c] = @ + 1]
  /\ written' = [written EXCEPT ![c] = @ + 1]
  /\ UNCHANGED <<command, phase, main, helper, collected, cell, reply>>

Exits(c) ==
  /\ main[c] = "running" /\ written[c] = command[c].writes
  /\ main' = [main EXCEPT ![c] = "exited"]
  /\ UNCHANGED <<command, phase, helper, piped, collected, written, cell, reply>>

HelperExits(c) ==
  /\ helper[c] = "running"
  /\ helper' = [helper EXCEPT ![c] = "exited"]
  /\ UNCHANGED <<command, phase, main, piped, collected, written, cell, reply>>

-----------------------------------------------------------------------------
(* bash, skill and step: a child process. *)

(* The process may not start; a step is then recorded as failed with -1. *)
Starts(c) ==
  /\ phase[c] = "asked" /\ Way(c) # "cell"
  /\ \/ /\ phase' = [phase EXCEPT ![c] = "waiting"]
        /\ main' = [main EXCEPT ![c] = "running"]
        /\ helper' = [helper EXCEPT ![c] = IF command[c].leaves = "nothing" THEN @ ELSE "running"]
        /\ UNCHANGED reply
     \/ /\ Answers(c, [kind |-> "unstarted"])
        /\ UNCHANGED <<main, helper>>
  /\ UNCHANGED <<command, piped, collected, written, cell>>

(* `drena` and `wait_with_output` read beside the wait, `run_entrypoint`   *)
(* once the process has exited.                                            *)
Drains(c) ==
  /\ piped[c] > 0
  /\ \/ Way(c) \in {"bash", "step"}
     \/ Way(c) = "skill" /\ phase[c] = "reading"
  /\ piped' = [piped EXCEPT ![c] = @ - 1]
  /\ collected' = [collected EXCEPT ![c] = @ + 1]
  /\ UNCHANGED <<command, phase, main, helper, written, cell, reply>>

(* `try_wait` finds the process gone; a step's thread ends only when it has *)
(* also read to the end of its pipes.                                      *)
SeesExit(c) ==
  /\ phase[c] = "waiting" /\ main[c] = "exited" /\ Way(c) # "cell"
  /\ Way(c) = "step" => AtEnd(c)
  /\ phase' = [phase EXCEPT ![c] = "reading"]
  /\ UNCHANGED <<command, main, helper, piped, collected, written, cell, reply>>

ExitOf(c) == [kind |-> "exit", code |-> command[c].exit]

(* Bug: the answer does not wait for the threads that read the pipes. *)
JoinsEarly(c) ==
  /\ phase[c] = "reading"
  /\ Answers(c, ExitOf(c))
  /\ UNCHANGED <<command, main, helper, piped, collected, written, cell>>

(* The output is complete at the end of the pipes, which a helper may hold *)
(* long after the process, and no deadline applies any more.               *)
Joins(c) ==
  /\ phase[c] = "reading" /\ Way(c) # "cell" /\ AtEnd(c)
  /\ Answers(c, ExitOf(c))
  /\ UNCHANGED <<command, main, helper, piped, collected, written, cell>>

KilledIf(p, dies) == IF dies /\ p = "running" THEN "killed" ELSE p

(* `child.kill()`: the process, not what it started. *)
BashTimesOut(c) ==
  /\ phase[c] = "waiting" /\ Way(c) = "bash" /\ main[c] = "running"
  /\ main' = [main EXCEPT ![c] = "killed"]
  /\ Answers(c, [kind |-> "timeout"])
  /\ UNCHANGED <<command, helper, piped, collected, written, cell>>

(* Bug: only the direct child is killed ("filhos órfãos"). *)
KillChildOnly(c) ==
  /\ main' = [main EXCEPT ![c] = KilledIf(@, TRUE)]
  /\ UNCHANGED helper

(* `kill_process_group`: the process leads its own group. *)
KillGroup(c) ==
  /\ main' = [main EXCEPT ![c] = KilledIf(@, TRUE)]
  /\ helper' = [helper EXCEPT ![c] = KilledIf(@, command[c].leaves = "group")]

SkillTimesOut(c) ==
  /\ phase[c] = "waiting" /\ Way(c) = "skill" /\ main[c] = "running"
  /\ KillGroup(c)
  /\ Answers(c, [kind |-> "timeout"])
  /\ UNCHANGED <<command, piped, collected, written, cell>>

(* The step's deadline counts for its pipes too: the process may have      *)
(* exited with 0 and its helper still hold them.  It then waits for the    *)
(* end of the pipes, which a helper outside the group decides.             *)
StepTimesOut(c) ==
  /\ phase[c] = "waiting" /\ Way(c) = "step" /\ command[c].timed
  /\ ~AtEnd(c)
  /\ KillGroup(c)
  /\ phase' = [phase EXCEPT ![c] = "joining"]
  /\ UNCHANGED <<command, piped, collected, written, cell, reply>>

StepIsJoined(c) ==
  /\ phase[c] = "joining" /\ Way(c) = "step" /\ AtEnd(c)
  /\ Answers(c, [kind |-> "timeout"])
  /\ UNCHANGED <<command, main, helper, piped, collected, written, cell>>

-----------------------------------------------------------------------------
(* A skill of somebody else: `Sandbox::run_with`. *)

(* `ping`, `ensure_image` and `create_container`: any of them may fail. *)
Creates(c) ==
  /\ phase[c] = "asked" /\ Way(c) = "cell"
  /\ \/ /\ phase' = [phase EXCEPT ![c] = "created"]
        /\ cell' = [cell EXCEPT ![c] = "created"]
        /\ UNCHANGED reply
     \/ /\ Answers(c, [kind |-> "unstarted"])
        /\ UNCHANGED cell
  /\ UNCHANGED <<command, main, helper, piped, collected, written>>

(* `remove_quiet`: by force, and the process with it; a daemon that refuses *)
(* is not told of.                                                         *)
Removes(c) ==
  \/ /\ cell' = [cell EXCEPT ![c] = "removed"]
     /\ main' = [main EXCEPT ![c] = KilledIf(@, TRUE)]
  \/ /\ cell' = [cell EXCEPT ![c] = "refused"]
     /\ UNCHANGED main

StartsCell(c) ==
  /\ phase[c] = "created"
  /\ \/ /\ phase' = [phase EXCEPT ![c] = "waiting"]
        /\ main' = [main EXCEPT ![c] = "running"]
        /\ UNCHANGED <<cell, reply>>
     \/ /\ Removes(c)
        /\ Answers(c, [kind |-> "unstarted"])
  /\ UNCHANGED <<command, helper, piped, collected, written>>

(* `wait_container` tells the exit, nothing at all (recorded as -1) or an  *)
(* error, or the deadline passes and the container is killed if the daemon *)
(* does so.                                                                *)
CellEnds(c) ==
  /\ phase[c] = "waiting" /\ Way(c) = "cell"
  /\ \/ main[c] = "exited" /\ phase' = [phase EXCEPT ![c] = "reading"]
     \/ phase' = [phase EXCEPT ![c] = "lost"]
  /\ UNCHANGED <<command, main, helper, piped, collected, written, cell, reply>>

CellWaitFails(c) ==
  /\ phase[c] = "waiting" /\ Way(c) = "cell"
  /\ Removes(c)
  /\ Answers(c, [kind |-> "error"])
  /\ UNCHANGED <<command, helper, piped, collected, written>>

CellTimesOut(c) ==
  /\ phase[c] = "waiting" /\ Way(c) = "cell"
  /\ \E killed \in BOOLEAN : main' = [main EXCEPT ![c] = KilledIf(@, killed)]
  /\ phase' = [phase EXCEPT ![c] = "joining"]
  /\ UNCHANGED <<command, helper, piped, collected, written, cell, reply>>

HarvestOf(c) ==
  CASE phase[c] = "reading" -> ExitOf(c)
    [] phase[c] = "lost" -> [kind |-> "lost"]
    [] OTHER -> [kind |-> "timeout"]

(* The logs are read from the daemon, which may fail part of the way, and  *)
(* the container is removed.                                               *)
CellIsHarvested(c) ==
  /\ phase[c] \in {"reading", "lost", "joining"} /\ Way(c) = "cell"
  /\ \E n \in 0 .. piped[c] :
       /\ collected' = [collected EXCEPT ![c] = @ + n]
       /\ piped' = [piped EXCEPT ![c] = @ - n]
  /\ Removes(c)
  /\ Answers(c, HarvestOf(c))
  /\ UNCHANGED <<command, helper, written>>

-----------------------------------------------------------------------------
ToolNext ==
  \E c \in Job :
    \/ Writes(c) \/ Exits(c) \/ HelperExits(c)
    \/ Starts(c) \/ Drains(c) \/ SeesExit(c) \/ Joins(c)
    \/ BashTimesOut(c) \/ SkillTimesOut(c) \/ StepTimesOut(c) \/ StepIsJoined(c)
    \/ Creates(c) \/ StartsCell(c) \/ CellEnds(c) \/ CellWaitFails(c) \/ CellTimesOut(c)
    \/ CellIsHarvested(c)

ToolSpec == ToolInit /\ [][ToolNext]_toolVars

(* An answer is final.  With the process's exit code it comes with all the *)
(* process wrote, however little the pipe holds (`drena`'s comment); a     *)
(* step or a skill that is reported as timed out has left nothing of its   *)
(* process group running ("mata o grupo de processos inteiro", exec.rs,    *)
(* skill.rs); and no container outlives the call that created it unless    *)
(* the daemon refuses, whichever step of the call failed (`remove_quiet`). *)
AnswersAreFinal ==
  \A c \in Job : phase[c] = "answered" =>
    /\ reply[c].kind = "exit" /\ Way(c) # "cell" => collected[c] = command[c].writes
    /\ reply[c].kind = "timeout" /\ Way(c) \in {"skill", "step"} =>
         main[c] # "running" /\ (helper[c] = "running" => command[c].leaves = "away")
    /\ cell[c] # "created"
=============================================================================
