--------------------------- MODULE ServerAnalyzer ---------------------------
(***************************************************************************)
(* ServerQueryAnalyzer: every call starts a server for its own run, waits  *)
(* until something accepts connections on a fixed port, asks it, and tears *)
(* its server down.  The MCP server makes the calls one after the other,   *)
(* but a server process moves on its own and may outlive its call.         *)
(***************************************************************************)
EXTENDS Integers

CONSTANTS
    Calls,      \* calls of the analyzer, each for a run of its own
    Nobody,     \* no call, or no process
    MaxRounds   \* polls, half a second apart, that fit before the deadline

ASSUME AnalyzerAssumption ==
    /\ Nobody \notin Calls
    /\ MaxRounds \in Nat

\* What a call says when it has no answer is no call.
ASSUME SayingsAssumption ==
    \A c \in Calls : c \notin {"none", "raised", "not ready", "server exited",
                              "query failed", "query timed out"}

VARIABLES
    cur,     \* the call under way, or Nobody
    pc,      \* its position
    rounds,  \* polls so far
    server,  \* [Calls -> the state of the process it started]
    helper,  \* calls whose server runs in a child of that process
    term,    \* calls whose process was sent SIGTERM
    port,    \* the call whose server holds the port, or Nobody
    answer   \* [Calls -> what the call says: the call whose server answered, or a failure]

callerVars == <<cur, pc, rounds, answer>>
serverVars == <<server, helper, term, port>>
analyzerVars == <<callerVars, serverVars>>

CallPCs      == {"idle", "poll", "probe", "query", "close", "wait"}
ServerStates == {"none", "booting", "serving", "stuck", "exited", "killed"}
Failures     == {"raised", "not ready", "server exited", "query failed", "query timed out"}

TypeOK ==
    /\ cur \in Calls \cup {Nobody}
    /\ pc \in CallPCs
    /\ rounds \in 0..MaxRounds
    /\ server \in [Calls -> ServerStates]
    /\ helper \in SUBSET Calls
    /\ term \in SUBSET Calls
    /\ port \in Calls \cup {Nobody}
    /\ answer \in [Calls -> Calls \cup Failures \cup {"none"}]

Init ==
    /\ cur = Nobody
    /\ pc = "idle"
    /\ rounds = 0
    /\ server = [c \in Calls |-> "none"]
    /\ helper = {}
    /\ term = {}
    /\ port = Nobody
    /\ answer = [c \in Calls |-> "none"]

-----------------------------------------------------------------------------
(* The call *)

Running(c) == server[c] \in {"booting", "serving", "stuck"}

\* The server behind the port answers queries.
Answers(c) == c \in helper \/ server[c] = "serving"

Says(result) == answer' = [answer EXCEPT ![cur] = result]

\* The scratch directory goes with the call.
Return == cur' = Nobody /\ pc' = "idle"

\* The run's directory is missing, a template matches no file or several, or there is no such
\* program: the call raises before it has a process.
Reject(c) ==
    /\ cur = Nobody
    /\ answer[c] = "none"
    /\ answer' = [answer EXCEPT ![c] = "raised"]
    /\ UNCHANGED <<cur, pc, rounds, serverVars>>

Start(c) ==
    /\ cur = Nobody
    /\ answer[c] = "none"
    /\ cur' = c
    /\ pc' = "poll"
    /\ rounds' = 0
    /\ server' = [server EXCEPT ![c] = "booting"]
    /\ UNCHANGED <<helper, term, port, answer>>

\* Mutant: the deadline is not looked at while the server is alive.
NotReadyWhenDead ==
    /\ pc = "poll"
    /\ rounds = MaxRounds
    /\ server[cur] = "exited"
    /\ Says("not ready")
    /\ pc' = "close"
    /\ UNCHANGED <<cur, rounds, serverVars>>

NotReady ==
    /\ pc = "poll"
    /\ rounds = MaxRounds
    /\ Says("not ready")
    /\ pc' = "close"
    /\ UNCHANGED <<cur, rounds, serverVars>>

\* The server exited: its output is read to the end, which comes when the last process that
\* inherited the pipe is gone.
ServerDied ==
    /\ pc = "poll"
    /\ rounds < MaxRounds
    /\ server[cur] = "exited"
    /\ cur \notin helper
    /\ Says("server exited")
    /\ pc' = "close"
    /\ UNCHANGED <<cur, rounds, serverVars>>

\* Mutant: one poll more than fits before the deadline.
ServerAliveLate ==
    /\ pc = "poll"
    /\ rounds <= MaxRounds
    /\ server[cur] # "exited"
    /\ pc' = "probe"
    /\ UNCHANGED <<cur, rounds, answer, serverVars>>

ServerAlive ==
    /\ pc = "poll"
    /\ rounds < MaxRounds
    /\ server[cur] # "exited"
    /\ pc' = "probe"
    /\ UNCHANGED <<cur, rounds, answer, serverVars>>

\* _port_open looks at the port, not at who holds it.
Probe ==
    /\ pc = "probe"
    /\ IF port # Nobody
         THEN pc' = "query" /\ UNCHANGED rounds
         ELSE pc' = "poll" /\ rounds' = rounds + 1
    /\ UNCHANGED <<cur, answer, serverVars>>

\* The query tool asks whoever holds the port by now, fails, times out or does not exist.
Query ==
    /\ pc = "query"
    /\ \/ port # Nobody /\ Answers(port) /\ Says(port)
       \/ \E f \in {"query failed", "query timed out", "raised"} : Says(f)
    /\ pc' = "close"
    /\ UNCHANGED <<cur, rounds, serverVars>>

\* The finally block.
Close ==
    /\ pc = "close"
    /\ IF server[cur] = "exited"
         THEN Return /\ UNCHANGED term
         ELSE pc' = "wait" /\ term' = term \cup {cur} /\ UNCHANGED cur
    /\ UNCHANGED <<rounds, answer, server, helper, port>>

WaitEnds ==
    /\ pc = "wait"
    /\ server[cur] = "exited"
    /\ Return
    /\ UNCHANGED <<rounds, answer, serverVars>>

\* Mutant: a server that does not go is left to itself.
WaitGivesUp ==
    /\ pc = "wait"
    /\ server[cur] # "exited"
    /\ Return
    /\ UNCHANGED <<rounds, answer, serverVars>>

\* Five seconds later: SIGKILL, and nobody waits for the process to be gone.
WaitExpires ==
    /\ pc = "wait"
    /\ server[cur] # "exited"
    /\ server' = [server EXCEPT ![cur] = "killed"]
    /\ Return
    /\ UNCHANGED <<rounds, answer, helper, term, port>>

CallStep ==
    \/ NotReady
    \/ ServerDied
    \/ ServerAlive
    \/ Probe
    \/ Query
    \/ Close
    \/ WaitEnds
    \/ WaitExpires

-----------------------------------------------------------------------------
(* The server processes *)

\* The port goes with the process that holds it.
Freed(c) == IF port = c /\ c \notin helper THEN Nobody ELSE port

Exit(c) ==
    /\ server' = [server EXCEPT ![c] = "exited"]
    /\ port' = Freed(c)
    /\ UNCHANGED <<helper, term>>

\* While the port is taken a server cannot bind; it tries again, or exits.
Bind(c) ==
    /\ server[c] = "booting"
    /\ c \notin helper
    /\ port = Nobody
    /\ port' = c
    /\ server' = [server EXCEPT ![c] = "serving"]
    /\ UNCHANGED <<helper, term>>

\* Its output fills the pipe nobody reads: the server neither gets ready nor answers any more.
GetStuck(c) ==
    /\ server[c] \in {"booting", "serving"}
    /\ server' = [server EXCEPT ![c] = "stuck"]
    /\ UNCHANGED <<helper, term, port>>

\* The server stops by itself, for example because the port is taken.
Fail(c) ==
    /\ Running(c)
    /\ server[c] # "stuck"
    /\ Exit(c)

\* SIGTERM, which a server may ignore.
Terminate(c) ==
    /\ Running(c)
    /\ c \in term
    /\ Exit(c)

\* The kernel gets rid of a killed process.
Reap(c) ==
    /\ server[c] = "killed"
    /\ Exit(c)

ServerStep(c) ==
    \/ Bind(c)
    \/ GetStuck(c)
    \/ Fail(c)
    \/ Terminate(c)
    \/ Reap(c)

-----------------------------------------------------------------------------
\* Every call of the deployment has been made and no process is left.
Finished == /\ cur = Nobody
            /\ \A c \in Calls : answer[c] # "none" /\ server[c] \in {"none", "exited"}
            /\ UNCHANGED analyzerVars

Next ==
    \/ \E c \in Calls : Reject(c) \/ Start(c)
    \/ CallStep
    \/ \E c \in Calls : ServerStep(c) /\ UNCHANGED callerVars
    \/ Finished

Spec == Init /\ [][Next]_analyzerVars

\* The start command may be a launcher, a shell for example, that leaves the serving to a child
\* of its own: signals sent to the launcher do not reach the child.
BindByChild(c) ==
    /\ server[c] = "booting"
    /\ c \notin helper
    /\ port = Nobody
    /\ port' = c
    /\ helper' = helper \cup {c}
    /\ UNCHANGED <<server, term>>

ChildExits(c) ==
    /\ c \in helper
    /\ helper' = helper \ {c}
    /\ port' = Nobody
    /\ UNCHANGED <<server, term>>

LauncherNext ==
    \/ Next
    \/ \E c \in Calls : (BindByChild(c) \/ ChildExits(c)) /\ UNCHANGED callerVars

LauncherSpec == Init /\ [][LauncherNext]_analyzerVars

\* The code goes on: its waits end, by an event or by their timeouts.  A killed process goes.
FairSpec ==
    /\ Spec
    /\ WF_analyzerVars(CallStep)
    /\ \A c \in Calls : WF_analyzerVars(Reap(c) /\ UNCHANGED callerVars)

-----------------------------------------------------------------------------
(* Properties *)

\* The answer of a call comes from the server of that call, never from one an earlier call left
\* behind on the fixed port: "a silent wrong answer" cannot happen.
AnswerIsOwn == \A c \in Calls : answer[c] \in Calls => answer[c] = c

\* Whatever the server does, a call that started it returns: neither a server that never gets
\* ready nor one stuck on its output or deaf to SIGTERM holds the call for ever.
EveryCallReturns == \A c \in Calls : cur = c ~> cur = Nobody

\* A call that is over leaves no server behind: in the end its process is gone and the port is
\* not its own.
ServersGoAway ==
    \A c \in Calls : answer[c] # "none" /\ cur # c ~> server[c] \in {"none", "exited"} /\ port # c

-----------------------------------------------------------------------------
(* Why answers are own: the inductive invariant. *)

\* The caller has a call exactly while it is not idle, and probes only before the deadline.
CallerOrder ==
    /\ (pc = "idle") <=> (cur = Nobody)
    /\ pc = "probe" => rounds < MaxRounds

\* Only the process of the call under way can serve: every other is unborn, dead or dying.
OthersAreGone ==
    \A c \in Calls : c # cur => server[c] \in {"none", "exited", "killed"}

AnswerInv == TypeOK /\ CallerOrder /\ OthersAreGone /\ helper = {} /\ AnswerIsOwn

=============================================================================
