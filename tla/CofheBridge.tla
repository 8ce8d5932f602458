---------------------------- MODULE CofheBridge ----------------------------
(***************************************************************************)
(* The CoFHE bridge of a node: cofhe_bridge.mjs, a process of its own that *)
(* decrypts, encrypts and stores keys, and CofheBridgeClient, through      *)
(* which the coroutines of the node talk to it.                            *)
(*                                                                         *)
(* They exchange lines over stdin and stdout.  An answer carries the       *)
(* number of its command, which the client does not look at: that an       *)
(* answer is the one to the question asked rests on the lock the client    *)
(* holds from writing to reading, on the process taking one line at a      *)
(* time, and on the pipes ending with the process.  A process that has     *)
(* died is started again by the next command; what it was doing is not     *)
(* done again.  Nothing here has a timeout, and nobody is cancelled.       *)
(*                                                                         *)
(* One command asks for the process twice, to write and to read.  Between  *)
(* the two it yields when the pipe is broken, and then it may read from a  *)
(* process it has not written to.                                          *)
(*                                                                         *)
(* Each caller gives one command.  Bounds: MaxDeaths of the process.       *)
(***************************************************************************)
EXTENDS Naturals, Sequences

CONSTANTS
    Callers,        \* the coroutines of the node
    Nobody,
    MaxDeaths

ASSUME CallerAssumption == Nobody \notin Callers
ASSUME DeathAssumption == MaxDeaths \in Nat

Actions == {"decrypt_for_view", "decrypt_prompt_key", "encrypt_uint128", "store_prompt_key"}

VARIABLES
    callers,        \* what each asks, how far it is, and what it was told
    waiting,        \* who has asked for the lock, in order; the first holds it
    process,        \* the process, and what the client knows of it
    closed,         \* close() has been called
    stdin, stdout,  \* the lines nobody has read yet
    working,        \* the command the process is at
    client,         \* whether the process has a connected CoFHE client
    chain,          \* whose keys are on the chain
    deaths

bridgeVars == <<callers, waiting, process, closed, stdin, stdout, working, client, chain, deaths>>

pipes == <<stdin, stdout, working, client>>

\* "exited" until the event loop has noticed, "ended" from then on.
ProcessStates == {"none", "running", "exited", "ended"}

NoAnswer == [to |-> Nobody, ok |-> FALSE]
NoCommand == [by |-> Nobody, stage |-> "none"]
NotAsked == [action |-> "none", at |-> "idle", told |-> NoAnswer]

Answers == [to : Callers \cup {Nobody}, ok : BOOLEAN]
\* A call that is "listening" reads from a process it has not written to.
Places == {"idle", "queued", "draining", "reading", "listening", "done"}
Calls == [action : Actions \cup {"none"}, at : Places, told : Answers]
Works == [by : Callers \cup {Nobody}, stage : {"none", "connect", "act"}]

BridgeTypeOK ==
    /\ callers \in [Callers -> Calls]
    /\ waiting \in Seq(Callers)
    /\ process \in ProcessStates
    /\ closed \in BOOLEAN
    /\ stdin \in Seq(Callers)
    /\ stdout \in Seq(Answers)
    /\ working \in Works
    /\ client \in BOOLEAN
    /\ chain \subseteq Callers
    /\ deaths \in 0 .. MaxDeaths

BridgeInit ==
    /\ callers = [c \in Callers |-> NotAsked]
    /\ waiting = <<>>
    /\ process = "none"
    /\ closed = FALSE
    /\ stdin = <<>> /\ stdout = <<>> /\ working = NoCommand /\ client = FALSE
    /\ chain = {}
    /\ deaths = 0

-----------------------------------------------------------------------------
(***************************************************************************)
(* The client, _run.                                                       *)
(***************************************************************************)
Ask(c, action) ==
    /\ callers[c].at = "idle"
    /\ callers' = [callers EXCEPT ![c].action = action, ![c].at = "queued"]
    /\ waiting' = Append(waiting, c)
    /\ UNCHANGED <<process, closed, pipes, chain, deaths>>

\* Faulty variant: a command is written whether or not the last was answered.
AnyTurn(c) == TRUE

Turn(c) == waiting # <<>> /\ Head(waiting) = c

\* The call returns or raises, and leaves the lock.
Return(c, answer) ==
    /\ callers' = [callers EXCEPT ![c].at = "done", ![c].told = answer]
    /\ waiting' = Tail(waiting)

Raise(c) == Return(c, NoAnswer)

MoveTo(c, place) == callers' = [callers EXCEPT ![c].at = place]

\* _ensure_process starts a process, with pipes of its own.
StartProcess ==
    /\ ~closed
    /\ process' = "running"
    /\ stdout' = <<>> /\ working' = NoCommand /\ client' = FALSE

\* Or it does not: node is not there, or the client is closed.
StartFails(c) == Raise(c) /\ UNCHANGED <<process, pipes>>

\* _ensure_process returns the process there is, of which nobody may have
\* noticed that it has exited.  Then the pipe is broken and drain() yields.
Write(c) ==
    /\ callers[c].at = "queued" /\ Turn(c)
    /\ process \in {"running", "exited"}
    /\ IF process = "running"
       THEN MoveTo(c, "reading") /\ stdin' = Append(stdin, c)
       ELSE MoveTo(c, "draining") /\ UNCHANGED stdin
    /\ UNCHANGED <<waiting, process, closed, stdout, working, client, chain, deaths>>

StartAndWrite(c) ==
    /\ callers[c].at = "queued" /\ Turn(c)
    /\ process \in {"none", "ended"}
    /\ \/ StartProcess /\ MoveTo(c, "reading") /\ stdin' = <<c>> /\ UNCHANGED waiting
       \/ StartFails(c)
    /\ UNCHANGED <<closed, chain, deaths>>

\* drain() raises if the loss of the pipe has been reported by then, and if
\* not _read_response_line asks for the process again.
Drain(c) ==
    /\ callers[c].at = "draining"
    /\ \/ Raise(c) /\ UNCHANGED <<process, pipes>>
       \/ process = "exited" /\ MoveTo(c, "reading") /\ UNCHANGED <<waiting, process, pipes>>
       \/ /\ process = "ended"
          /\ \/ StartProcess /\ MoveTo(c, "listening") /\ stdin' = <<>> /\ UNCHANGED waiting
             \/ StartFails(c)
    /\ UNCHANGED <<closed, chain, deaths>>

Reads(c) == callers[c].at \in {"reading", "listening"}

\* One line, whatever number it carries.
Read(c) ==
    /\ Reads(c)
    /\ stdout # <<>>
    /\ Return(c, Head(stdout))
    /\ stdout' = Tail(stdout)
    /\ UNCHANGED <<process, closed, stdin, working, client, chain, deaths>>

\* The end of the pipe, after the lines that were still in it.
ReadEnd(c) ==
    /\ Reads(c)
    /\ stdout = <<>> /\ process # "running"
    /\ Raise(c)
    /\ UNCHANGED <<process, closed, pipes, chain, deaths>>

-----------------------------------------------------------------------------
(***************************************************************************)
(* The process, main.                                                      *)
(***************************************************************************)
\* Faulty variant: an error goes to stderr only.
AnswerIfDone(ok) ==
    /\ stdout' = IF ok THEN Append(stdout, [to |-> working.by, ok |-> ok]) ELSE stdout
    /\ working' = NoCommand

Answer(ok) ==
    /\ stdout' = Append(stdout, [to |-> working.by, ok |-> ok])
    /\ working' = NoCommand

\* One line at a time; getOrCreateClient has one client for all commands.
Take ==
    /\ process = "running" /\ working = NoCommand /\ stdin # <<>>
    /\ working' = [by |-> Head(stdin), stage |-> IF client THEN "act" ELSE "connect"]
    /\ stdin' = Tail(stdin)
    /\ UNCHANGED <<callers, waiting, process, closed, stdout, client, chain, deaths>>

\* A client is kept once it has connected; the next command tries again.
Connect ==
    /\ process = "running" /\ working.stage = "connect"
    /\ \/ client' = TRUE /\ working' = [working EXCEPT !.stage = "act"] /\ UNCHANGED stdout
       \/ Answer(FALSE) /\ UNCHANGED client
    /\ UNCHANGED <<callers, waiting, process, closed, stdin, chain, deaths>>

Stores(c) == callers[c].action = "store_prompt_key"

\* A transaction that was sent is mined or not, whatever becomes of the call.
MayMine(c) == IF Stores(c) THEN chain' \in {chain, chain \cup {c}} ELSE UNCHANGED chain

Mine(c) == chain' = IF Stores(c) THEN chain \cup {c} ELSE chain

\* A store is answered when its receipt says success.
Act ==
    /\ process = "running" /\ working.stage = "act"
    /\ \/ Answer(TRUE) /\ Mine(working.by)
       \/ Answer(FALSE) /\ MayMine(working.by)
    /\ UNCHANGED <<callers, waiting, process, closed, stdin, client, deaths>>

\* What was written and not read is gone with the process; what it has
\* answered can still be read.
Exit ==
    /\ process = "running"
    /\ process' = "exited"
    /\ stdin' = <<>> /\ working' = NoCommand /\ client' = FALSE
    /\ IF working.stage = "act" THEN MayMine(working.by) ELSE UNCHANGED chain
    /\ UNCHANGED <<callers, waiting, stdout>>

Die ==
    /\ deaths < MaxDeaths
    /\ deaths' = deaths + 1
    /\ Exit
    /\ UNCHANGED closed

Notice ==
    /\ process = "exited"
    /\ process' = "ended"
    /\ UNCHANGED <<callers, waiting, closed, pipes, chain, deaths>>

\* close() terminates the process without asking for the lock.
Close ==
    /\ ~closed
    /\ closed' = TRUE
    /\ IF process = "running" THEN Exit
       ELSE UNCHANGED <<callers, waiting, process, pipes, chain>>
    /\ UNCHANGED deaths

-----------------------------------------------------------------------------
Run(c) == Write(c) \/ StartAndWrite(c) \/ Drain(c) \/ Read(c) \/ ReadEnd(c)

Main == Take \/ Connect \/ Act

BridgeNext ==
    \/ \E c \in Callers : Run(c) \/ \E action \in Actions : Ask(c, action)
    \/ Main \/ Die \/ Notice \/ Close

BridgeSpec == BridgeInit /\ [][BridgeNext]_bridgeVars

\* The coroutines are scheduled, and what the process awaits comes or fails.
FairBridgeSpec ==
    /\ BridgeSpec
    /\ \A c \in Callers : WF_bridgeVars(Run(c))
    /\ WF_bridgeVars(Main)

-----------------------------------------------------------------------------
(***************************************************************************)
(* Properties.                                                             *)
(***************************************************************************)
\* What a coroutine is told, by a line of the process, is the answer to its
\* own command, however the process died and was started in between; and a
\* key it is told is stored is on the chain.
AnswersMatch ==
    \A c \in Callers :
        /\ callers[c].told.to \in {c, Nobody}
        /\ callers[c].told.ok => callers[c].told.to = c /\ (Stores(c) => c \in chain)

\* Whoever asks is told something in the end: the answer, the failure of the
\* command, or that the process is gone.
EveryCallReturns ==
    \A c \in Callers : callers[c].at = "queued" ~> callers[c].at = "done"

\* But for one thing: a call that has come between the end of the process and
\* its being noticed, and listens to a process that was never asked anything,
\* keeps the lock, and nobody else gets it.
OnlyListenersHang ==
    \A c \in Callers :
        callers[c].at = "queued" ~>
            callers[c].at = "done" \/ \E d \in Callers : callers[d].at = "listening"

=============================================================================
