----------------------------- MODULE Lifecycle ------------------------------
(***************************************************************************)
(* run() of cmd/xpsd/main.go from the creation of the run directory to the *)
(* return: the web fetcher, the MCP server and the Copilot CLI as child    *)
(* processes, the port the server is given, the polls that wait for them,  *)
(* and the deferred calls that stop them.  A child may die at any moment,  *)
(* come up late or never; another program may take the port before the     *)
(* server binds it; a signal cancels the context and a SIGKILL ends the    *)
(* process, children aside.  What happens between is one abstract step,    *)
(* the body: SingleRun fills it in, and ScanRun models its other form.     *)
(*                                                                         *)
(* Whether the server is given the fetcher's address only decides which    *)
(* tools it offers, and is left out, and so is the race on its port.       *)
(***************************************************************************)
EXTENDS Integers

Children == {"web", "mcp", "cli"}

VARIABLES
  at,        \* where run() is
  code,      \* its exit code, -1 before it is known
  cancelled, \* ctx.Err() # nil
  proc,      \* the state of each child
  port,      \* who else holds the port chosen for the server
  ready,     \* who answered waitForMCP
  private    \* may files under -out be unreadable to other users?

lifeVars == <<at, code, cancelled, proc, port, ready, private>>

(* "up" has started but serves nobody; the server opens its log before it  *)
(* listens; "elsewhere" is a server that rotated to a port nobody polls.   *)
ProcStates == {"none", "up", "logged", "serving", "elsewhere", "dead"}
Alive(p)   == proc[p] \notin {"none", "dead"}

GoesTo(from, to)  == at = from /\ at' = to
Becomes(p, state) == proc' = [proc EXCEPT ![p] = state]

(* A return with an exit code; the deferred calls come next.               *)
Returns(c, next) == code' = c /\ at' = next

-----------------------------------------------------------------------------
(* Forms some definitions below would take under a slip in the code.       *)
WaitsForTheChild ==
  /\ at = "mcpWait" /\ proc["mcp"] = "dead" /\ Returns(1, "stopMcp")
  /\ UNCHANGED <<cancelled, proc, port, ready, private>>
StopsWhenServing ==
  /\ GoesTo("stopMcp", "stopWeb")
  /\ IF proc["mcp"] = "serving" THEN Becomes("mcp", "dead") ELSE UNCHANGED proc
  /\ UNCHANGED <<code, cancelled, port, ready, private>>
ReadableUnlessFailed ==
  /\ GoesTo("chmod", "exited") /\ private' = (private /\ code = 1)
  /\ UNCHANGED <<code, cancelled, proc, port, ready>>
-----------------------------------------------------------------------------
LifecycleInit ==
  /\ at = "web" /\ code = -1 /\ cancelled = FALSE
  /\ proc = [p \in Children |-> "none"]
  /\ port = "free" /\ ready = "nobody" /\ private = TRUE

(* startWebFetcher: -no-web, python or the script missing, no free port or *)
(* a start that fails leave the run without the fetcher.                   *)
WebSkipped ==
  /\ GoesTo("web", "port")
  /\ UNCHANGED <<code, cancelled, proc, port, ready, private>>

WebStarts ==
  /\ GoesTo("web", "webWait") /\ Becomes("web", "up")
  /\ UNCHANGED <<code, cancelled, port, ready, private>>

(* waitForWebFetcher: the requests carry the context, so that after a      *)
(* cancellation none succeeds, and the loop goes on to its deadline.       *)
WebAnswers ==
  /\ proc["web"] = "serving" /\ ~cancelled
  /\ GoesTo("webWait", "port")
  /\ UNCHANGED <<code, cancelled, proc, port, ready, private>>

WebTimesOut ==
  /\ GoesTo("webWait", "port") /\ Becomes("web", "dead")
  /\ UNCHANGED <<code, cancelled, port, ready, private>>

(* freePort closes the port again: from here on it is anybody's.           *)
PortChosen ==
  /\ GoesTo("port", "start")
  /\ UNCHANGED <<code, cancelled, proc, port, ready, private>>

(* No server binary, or no port: only what was deferred so far is run.     *)
PortFails ==
  /\ at = "port" /\ Returns(1, "stopWeb")
  /\ UNCHANGED <<cancelled, proc, port, ready, private>>

McpStarts ==
  /\ GoesTo("start", "mcpWait") /\ Becomes("mcp", "up")
  /\ UNCHANGED <<code, cancelled, port, ready, private>>

McpStartFails ==
  /\ at = "start" /\ Returns(1, "stopWeb")
  /\ UNCHANGED <<cancelled, proc, port, ready, private>>

(* waitForMCP takes any 200, from whoever has the port; it knows neither   *)
(* the child nor the context, and ends at its deadline.                    *)
McpAnswers ==
  /\ GoesTo("mcpWait", "setup")
  /\ \/ proc["mcp"] = "serving" /\ ready' = "own"
     \/ port = "rival" /\ ready' = "rival"
  /\ UNCHANGED <<code, cancelled, proc, port, private>>

McpTimesOut ==
  /\ at = "mcpWait" /\ Returns(1, "stopMcp")
  /\ UNCHANGED <<cancelled, proc, port, ready, private>>

(* GatherOrientation, which may come back empty, the session logger and    *)
(* the Copilot CLI.                                                        *)
SetUp ==
  /\ GoesTo("setup", "body") /\ Becomes("cli", "up")
  /\ private' = TRUE
  /\ UNCHANGED <<code, cancelled, port, ready>>

SetUpFails ==
  /\ at = "setup" /\ Returns(1, "stopMcp")
  /\ private' = TRUE
  /\ UNCHANGED <<cancelled, proc, port, ready>>

-----------------------------------------------------------------------------
(* The body: runSingleMode or runScanMode.                                 *)

Work ==
  /\ at = "body" /\ private' = TRUE
  /\ UNCHANGED <<at, code, cancelled, proc, port, ready>>

BodyReturns(c) ==
  /\ at = "body" /\ Returns(c, "stopCli")
  /\ UNCHANGED <<cancelled, proc, port, ready, private>>

Body == Work \/ \E c \in {0, 1, 2} : BodyReturns(c)

-----------------------------------------------------------------------------
(* The deferred calls, the last one first.                                 *)

StopCli ==
  /\ GoesTo("stopCli", "stopMcp") /\ Becomes("cli", "dead")
  /\ UNCHANGED <<code, cancelled, port, ready, private>>

StopMcp ==
  /\ GoesTo("stopMcp", "stopWeb") /\ Becomes("mcp", "dead")
  /\ UNCHANGED <<code, cancelled, port, ready, private>>

(* A no-op when there is no fetcher.                                       *)
StopWeb ==
  /\ GoesTo("stopWeb", "chmod")
  /\ IF Alive("web") THEN Becomes("web", "dead") ELSE UNCHANGED proc
  /\ UNCHANGED <<code, cancelled, port, ready, private>>

MakeWorldReadable ==
  /\ GoesTo("chmod", "exited") /\ private' = FALSE
  /\ UNCHANGED <<code, cancelled, proc, port, ready>>

-----------------------------------------------------------------------------
(* The children and the outside.                                           *)

WebServes ==
  /\ proc["web"] = "up" /\ Becomes("web", "serving")
  /\ UNCHANGED <<at, code, cancelled, port, ready, private>>

(* The server's own directories and log are under -out.                    *)
McpOpensLog ==
  /\ proc["mcp"] = "up" /\ Becomes("mcp", "logged")
  /\ private' = TRUE
  /\ UNCHANGED <<at, code, cancelled, port, ready>>

(* listenWithRotation: the next ports are tried when the first is taken.   *)
McpListens ==
  /\ proc["mcp"] = "logged"
  /\ Becomes("mcp", IF port = "free" THEN "serving" ELSE "elsewhere")
  /\ UNCHANGED <<at, code, cancelled, port, ready, private>>

(* A crash, no port after ten, a signal to the group; for the fetcher also *)
(* the context it was started with.                                        *)
Dies(p) ==
  /\ Alive(p) /\ Becomes(p, "dead")
  /\ UNCHANGED <<at, code, cancelled, port, ready, private>>

(* Another program binds the port: one that does not speak MCP, or the     *)
(* server of another run.                                                  *)
PortTaken ==
  /\ at \in {"start", "mcpWait"} /\ port = "free" /\ proc["mcp"] # "serving"
  /\ port' \in {"other", "rival"}
  /\ UNCHANGED <<at, code, cancelled, proc, ready, private>>

Cancel ==
  /\ at \notin {"exited", "killed"} /\ ~cancelled /\ cancelled' = TRUE
  /\ UNCHANGED <<at, code, proc, port, ready, private>>

(* SIGKILL runs no deferred call.                                          *)
Kill ==
  /\ at \notin {"exited", "killed"} /\ Returns(137, "killed")
  /\ UNCHANGED <<cancelled, proc, port, ready, private>>

Start ==
  \/ WebSkipped \/ WebStarts \/ WebAnswers \/ WebTimesOut
  \/ PortChosen \/ PortFails \/ McpStarts \/ McpStartFails
  \/ McpAnswers \/ McpTimesOut \/ SetUp \/ SetUpFails
Unwind == StopCli \/ StopMcp \/ StopWeb \/ MakeWorldReadable
Outside ==
  \/ WebServes \/ McpOpensLog \/ McpListens \/ \E p \in Children : Dies(p)
  \/ PortTaken \/ Cancel \/ Kill

LifecycleNext == Start \/ Body \/ Unwind \/ Outside

LifecycleSpec == LifecycleInit /\ [][LifecycleNext]_lifeVars

-----------------------------------------------------------------------------
LifecycleOK ==
  /\ at \in {"web", "webWait", "port", "start", "mcpWait", "setup", "body",
             "stopCli", "stopMcp", "stopWeb", "chmod", "exited", "killed"}
  /\ code \in {-1, 0, 1, 2, 137}
  /\ proc \in [Children -> ProcStates]
  /\ port \in {"free", "other", "rival"} /\ ready \in {"nobody", "own", "rival"}
  /\ cancelled \in BOOLEAN /\ private \in BOOLEAN

(* A run that returns, from whatever point and with whatever children dead *)
(* or still coming up, leaves no child behind (the deferred calls of       *)
(* main.go 257-345, stop in web.go).                                       *)
NothingLeftRunning == at = "exited" => \A p \in Children : ~Alive(p)

(* main.go:270: "CI collects the artifacts as another user"; nothing that  *)
(* the run or a child that comes up late writes is left unreadable.        *)
AllReadable == at = "exited" => ~private

(* No analysis begins before a server has answered at the port it was      *)
(* given: the run's own, or by the race on the port that of another run,   *)
(* and then the run's own server is not the one there (waitForMCP).        *)
ServerAnswered ==
  /\ at = "body" => ready # "nobody"
  /\ ready = "own" => proc["mcp"] \in {"serving", "dead"}
  /\ ready = "rival" => proc["mcp"] # "serving"
=============================================================================
