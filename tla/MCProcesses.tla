------------------------------- MODULE MCProcesses -------------------------------
(* Processes the program starts, for TLC: the squad's pool, the commands   *)
(* of tools and steps, what makes the tools of a session, the stream of a  *)
(* model's turn, the library of prompts, the Python services, the terminal *)
(* screen and the tools on texts.  Each behaviour is one of one part, the  *)
(* others keep an initial state.                                           *)
EXTENDS SquadPool, ToolProcess, ToolSetup, WireStream, PromptLibrary,
  SidecarService, TuiApp, TextTools

VARIABLE kind

(* Which callers and dashboards these are makes no difference.  Letters of *)
(* two bytes and line ends of two are tried apart.                         *)
FirstBoard == CHOOSE d \in Board : TRUE
OtherCaller == CHOOSE c \in SvcCaller : TRUE

ProcessesInit ==
  /\ kind \in {"pool", "tool", "setup", "wire", "library", "service", "tui", "text"}
  /\ Init /\ LibraryInit
  /\ ToolInit
  /\ kind # "tool" => \A c \in Job : command[c] = CHOOSE k \in Timed : TRUE
  /\ WireInit /\ ~(coding.wide /\ coding.lineEnd = "crlf")
  /\ kind # "wire" =>
       protocol = "openai" /\ coding = [wide |-> FALSE, lineEnd |-> "lf"]
  /\ SvcInit
  /\ \A c \in SvcCaller : Mine(c) # FirstBoard => kind = "service" /\ c = OtherCaller
  /\ SetupInit
  /\ kind # "setup" => \A d \in SkillDir : ~disk[d].readable
  /\ TuiInit
  /\ agent.opts.model = TuiModels
  /\ kind # "tui" => agent.opts.agent = "build"
  /\ TextInit
  /\ kind # "text" => file = << >> /\ textCall.tool = "read"

(* The variables of each part. *)
PartVars ==
  <<vars, toolVars, setupVars, wireVars, libraryVars, svcVars, tuiVars, textVars>>

ProcessesNext ==
  \/ /\ kind = "pool" /\ Next
     /\ UNCHANGED <<kind, toolVars, setupVars, wireVars, libraryVars,
                    svcVars, tuiVars, textVars>>
  \/ /\ kind = "tool" /\ ToolNext
     /\ UNCHANGED <<kind, vars, setupVars, wireVars, libraryVars,
                    svcVars, tuiVars, textVars>>
  \/ /\ kind = "setup" /\ SetupNext
     /\ UNCHANGED <<kind, vars, toolVars, wireVars, libraryVars,
                    svcVars, tuiVars, textVars>>
  \/ /\ kind = "wire" /\ WireNext
     /\ UNCHANGED <<kind, vars, toolVars, setupVars, libraryVars,
                    svcVars, tuiVars, textVars>>
  \/ /\ kind = "library" /\ LibraryNext
     /\ UNCHANGED <<kind, vars, toolVars, setupVars, wireVars,
                    svcVars, tuiVars, textVars>>
  \/ /\ kind = "service" /\ SvcNext
     /\ UNCHANGED <<kind, vars, toolVars, setupVars, wireVars,
                    libraryVars, tuiVars, textVars>>
  \/ /\ kind = "tui" /\ TuiNext
     /\ UNCHANGED <<kind, vars, toolVars, setupVars, wireVars,
                    libraryVars, svcVars, textVars>>
  \/ /\ kind = "text" /\ TextNext
     /\ UNCHANGED <<kind, vars, toolVars, setupVars, wireVars,
                    libraryVars, svcVars, tuiVars>>

(* The fairness of the pool's callers. *)
ProcessesSpec ==
  /\ ProcessesInit
  /\ [][ProcessesNext]_<<kind, PartVars>>
  /\ \A c \in Client : WF_vars(Step(c)) /\ WF_vars(Return(c))
=============================================================================
