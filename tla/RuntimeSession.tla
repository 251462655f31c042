---------------------------- MODULE RuntimeSession ----------------------------
(***************************************************************************)
(* One Runtime child per WebSocket connection, the Shell's ends of its     *)
(* three pipes, and RuntimeSession.teardown() (runtime/cloud_run_shell.py) *)
(* called by two threads at once: the executor worker that finishes a      *)
(* disconnect and the Shell's main thread that ends a shutdown.            *)
(*                                                                         *)
(* A session is named by the connection it is spawned for.  The three      *)
(* descriptors are opened together and closed together, so fds holds one   *)
(* status for the three.                                                   *)
(***************************************************************************)
EXTENDS Naturals, FiniteSets

CONSTANT Conn      \* the connections, each with at most one session

\* The threads that may call teardown() on the same session.
Caller == {"executor", "main"}

VARIABLES
  child,      \* child[c]: the Runtime process spawned for c
  signals,    \* signals[c]: what send_signal/kill delivered to a live child
  fds,        \* fds[c]: audio_fd_w, event_fd_r and control_fd_w
  tornDown,   \* tornDown[c]: RuntimeSession._torn_down
  tpc         \* tpc[k][c]: where caller k stands in the teardown of c

sessionVars == <<child, signals, fds, tornDown, tpc>>

\* A caller past the one-shot flag, between the flag and the last close.
Body == {"interrupt", "wait", "killwait", "close"}

SessionTypeOK ==
  /\ child \in [Conn -> {"none", "running", "exited"}]
  /\ signals \in [Conn -> SUBSET {"int", "kill"}]
  /\ fds \in [Conn -> {"none", "open", "closed"}]
  /\ tornDown \in [Conn -> BOOLEAN]
  /\ tpc \in [Caller -> [Conn -> {"none", "queued", "enter", "done"} \cup Body]]

SessionInit ==
  /\ child = [c \in Conn |-> "none"]
  /\ signals = [c \in Conn |-> {}]
  /\ fds = [c \in Conn |-> "none"]
  /\ tornDown = [c \in Conn |-> FALSE]
  /\ tpc = [k \in Caller |-> [c \in Conn |-> "none"]]

-----------------------------------------------------------------------------
\* Pieces of the actions.

Goto(k, c, from, to) ==
  /\ tpc[k][c] = from
  /\ tpc' = [tpc EXCEPT ![k][c] = to]

\* Popen.send_signal polls first: a child that is gone receives nothing.
Deliver(c, sig) ==
  signals' = [signals EXCEPT ![c] = IF child[c] = "running" THEN @ \cup {sig} ELSE @]

-----------------------------------------------------------------------------
\* The session's life.

\* _spawn_session succeeds: three pipes, a child, the Shell keeps its ends.
Spawn(c) ==
  /\ child[c] = "none"
  /\ child' = [child EXCEPT ![c] = "running"]
  /\ fds' = [fds EXCEPT ![c] = "open"]
  /\ UNCHANGED <<signals, tornDown, tpc>>

\* The child ends: on a signal, by itself, or by a crash.
ChildExits(c) ==
  /\ child[c] = "running"
  /\ child' = [child EXCEPT ![c] = "exited"]
  /\ UNCHANGED <<signals, fds, tornDown, tpc>>

\* A second caller finds the one-shot flag set and returns at once.
TeardownSkipped(k, c) ==
  /\ tornDown[c]
  /\ Goto(k, c, "enter", "done")
  /\ UNCHANGED <<child, signals, fds, tornDown>>

\* Mutated form: the one-shot flag is not consulted.
TeardownBeginsAnyway(k, c) ==
  /\ Goto(k, c, "enter", "interrupt")
  /\ tornDown' = [tornDown EXCEPT ![c] = TRUE]
  /\ UNCHANGED <<child, signals, fds>>

\* The first caller sets the flag, under the session's lock.
TeardownBegins(k, c) ==
  /\ ~tornDown[c]
  /\ Goto(k, c, "enter", "interrupt")
  /\ tornDown' = [tornDown EXCEPT ![c] = TRUE]
  /\ UNCHANGED <<child, signals, fds>>

\* Mutated form: ProcessLookupError escapes when the child is already gone.
TeardownRaises(k, c) ==
  /\ Goto(k, c, "interrupt", IF child[c] = "exited" THEN "done" ELSE "wait")
  /\ Deliver(c, "int")
  /\ UNCHANGED <<child, fds, tornDown>>

\* child.send_signal(SIGINT)
TeardownInterrupts(k, c) ==
  /\ Goto(k, c, "interrupt", "wait")
  /\ Deliver(c, "int")
  /\ UNCHANGED <<child, fds, tornDown>>

\* child.wait(SHUTDOWN_GRACE_SECONDS) returns: the child is reaped.
TeardownReaps(k, c) ==
  /\ child[c] = "exited"
  /\ Goto(k, c, "wait", "close")
  /\ UNCHANGED <<child, signals, fds, tornDown>>

\* Mutated form: the timeout is taken for the end of the child.
TeardownAbandons(k, c) ==
  /\ Goto(k, c, "wait", "close")
  /\ UNCHANGED <<child, signals, fds, tornDown>>

\* ... or the grace window ends first, and the child is killed.
TeardownKills(k, c) ==
  /\ Goto(k, c, "wait", "killwait")
  /\ Deliver(c, "kill")
  /\ UNCHANGED <<child, fds, tornDown>>

\* child.wait(_KILL_WAIT_SECONDS): reaped, or given up on after two seconds.
TeardownGivesUp(k, c) ==
  /\ Goto(k, c, "killwait", "close")
  /\ UNCHANGED <<child, signals, fds, tornDown>>

\* os.close on the three descriptors, an error ignored on each.
TeardownCloses(k, c) ==
  /\ Goto(k, c, "close", "done")
  /\ fds' = [fds EXCEPT ![c] = "closed"]
  /\ UNCHANGED <<child, signals, tornDown>>

Teardown(k, c) ==
  \/ TeardownSkipped(k, c)
  \/ TeardownBegins(k, c)
  \/ TeardownInterrupts(k, c)
  \/ TeardownReaps(k, c)
  \/ TeardownKills(k, c)
  \/ TeardownGivesUp(k, c)
  \/ TeardownCloses(k, c)

-----------------------------------------------------------------------------
\* The component alone: either thread may call teardown() at any time.

Call(k, c) ==
  /\ child[c] # "none"
  /\ Goto(k, c, "none", "enter")
  /\ UNCHANGED <<child, signals, fds, tornDown>>

SessionNext ==
  \E c \in Conn :
    \/ Spawn(c)
    \/ ChildExits(c)
    \/ \E k \in Caller : Call(k, c) \/ Teardown(k, c)

SessionSpec == SessionInit /\ [][SessionNext]_sessionVars

-----------------------------------------------------------------------------
\* Properties.

\* "the actual SIGINT/wait/SIGKILL/fd-close sequence runs exactly once even if
\* called concurrently": a thread inside the sequence is alone in it and still
\* owns open descriptors, so no number is closed twice -- after the first close
\* the number may already belong to another session's pipe.
TeardownOnce ==
  \A k \in Caller, c \in Conn :
    tpc[k][c] \in Body =>
      /\ fds[c] = "open"
      /\ \A j \in Caller \ {k} : tpc[j][c] \notin Body

\* The pipes are never taken from a live child that was not asked to stop: by
\* the time they are closed the child is gone, or was sent SIGINT and then,
\* the grace window over, SIGKILL.
NoSilentClose ==
  \A c \in Conn :
    fds[c] = "closed" => child[c] = "exited" \/ signals[c] = {"int", "kill"}
=============================================================================
