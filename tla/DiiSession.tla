----------------------------- MODULE DiiSession -----------------------------
(***************************************************************************)
(* The binary RVFI-DII client (crates/sail-runner/src/dii.rs): concurrent  *)
(* sessions, each of which reserves a loopback port, spawns a Sail         *)
(* emulator on it, connects, injects its program in lock step and reaps    *)
(* the emulator.  Sessions of one operating-system process share the       *)
(* STARTUP mutex; sessions of different processes share only the ports.    *)
(*                                                                         *)
(* The emulator is not under src/ (a submodule): its actions model what    *)
(* dii.rs says and assumes of it - it binds the port itself, exits at once *)
(* when it cannot, accepts one client, answers each command with one       *)
(* packet, and leaves when the trace ends or its socket closes.            *)
(***************************************************************************)
EXTENDS Naturals, Sequences, FiniteSets

CONSTANTS
  Session,        \* the calls of run_program that are running
  Process,        \* the operating-system processes they run in
  ProcessOf,      \* ProcessOf[s]: the process of session s
  Port,           \* loopback ports
  ProgramLength,  \* instructions of each session's program
  StartAttempts,  \* START_ATTEMPTS
  AcceptsAgain,   \* does the emulator serve another client after the first?
  None            \* no port, no emulator, no session, no message

ASSUME ProcessAssumption == ProcessOf \in [Session -> Process]
ASSUME LengthAssumption ==
  /\ ProgramLength \in Nat \ {0}
  /\ StartAttempts \in Nat \ {0}
ASSUME FlagAssumption == AcceptsAgain \in BOOLEAN
ASSUME NoneAssumption ==
  /\ None \notin Session
  /\ None \notin Port
  /\ None \notin Session \X (1..StartAttempts)
  /\ None \notin 1..(ProgramLength + 1)
  /\ None \notin [after : Seq(Session \X (1..ProgramLength)), halt : BOOLEAN]

VARIABLES
  pc,        \* pc[s]: where session s is in run_program
  attempt,   \* attempt[s]: which round of the loop in start
  lock,      \* lock[q]: the session of process q that holds STARTUP, or None
  port,      \* port[s]: the reserved port
  conn,      \* conn[s]: the emulator its TCP stream was opened to, or None
  events,    \* events[s]: what each packet turned into an event reported
  drove,     \* drove[s]: the result of drive
  result,    \* result[s]: the result of run_program
  emu,       \* emu[e]: the life of emulator e
  client,    \* client[e]: the session emulator e accepted
  ran,       \* ran[e]: the instructions emulator e has executed since reset
  request,   \* request[s]: the command on the stream that nobody has read
  reply      \* reply[s]: the packet on the stream that nobody has read

session == <<pc, attempt, lock, port, events, drove, result>>
wire    == <<conn, request, reply>>
sail    == <<emu, client, ran>>
vars    == <<session, wire, sail>>

\* One emulator process for each attempt of each session.
Emulator == Session \X (1..StartAttempts)

\* The command after the last instruction: CMD_END_OF_TRACE.
EndOfTrace == ProgramLength + 1

\* An instruction is named by the session whose program it belongs to and its
\* index.  A packet reports the state the emulator has reached, which is what
\* it has executed since reset, and rvfi_halt.
Instruction == Session \X (1..ProgramLength)
Packet == [after : Seq(Instruction), halt : BOOLEAN]

Child(s) == <<s, attempt[s]>>
Owner(e) == e[1]

Alive  == {"starting", "listening", "serving"}
Exited == {"lost_race", "exit_ok", "exit_fail"}

Listens(e) == emu[e] = "listening" \/ (AcceptsAgain /\ emu[e] = "serving")
ListensOn(e, p) == Listens(e) /\ port[Owner(e)] = p
BusyPort(p) ==
  \E e \in Emulator : emu[e] \in {"listening", "serving"} /\ port[Owner(e)] = p

\* The session has closed its end of the stream.
Closed(s) == pc[s] \in {"drain", "done", "refused"}

\* The stream of s leads to nobody: its peer exited, or closed the listening
\* socket with s still in the backlog.
Broken(s) == LET e == conn[s] IN ~ Listens(e) /\ ~ (emu[e] = "serving" /\ client[e] = s)

Prefix(s, n) == [i \in 1..n |-> <<s, i>>]

TypeOK ==
  /\ pc \in [Session -> {"start", "poll", "dial", "failed", "send", "receive",
                         "close", "drain", "done", "refused"}]
  /\ attempt \in [Session -> 1..StartAttempts]
  /\ lock \in [Process -> Session \cup {None}]
  /\ port \in [Session -> Port \cup {None}]
  /\ conn \in [Session -> Emulator \cup {None}]
  /\ events \in [Session -> Seq(Seq(Instruction))]
  /\ drove \in [Session -> {"none", "injection_complete", "completed", "err"}]
  /\ result \in [Session -> {"none", "ok", "err"}]
  /\ emu \in [Emulator -> {"none", "gone"} \cup Alive \cup Exited]
  /\ client \in [Emulator -> Session \cup {None}]
  /\ ran \in [Emulator -> Seq(Instruction)]
  /\ request \in [Session -> 1..EndOfTrace \cup {None}]
  /\ reply \in [Session -> Packet \cup {None}]

Init ==
  /\ pc = [s \in Session |-> "start"]
  /\ attempt = [s \in Session |-> 1]
  /\ lock = [q \in Process |-> None]
  /\ port = [s \in Session |-> None]
  /\ conn = [s \in Session |-> None]
  /\ events = [s \in Session |-> << >>]
  /\ drove = [s \in Session |-> "none"]
  /\ result = [s \in Session |-> "none"]
  /\ emu = [e \in Emulator |-> "none"]
  /\ client = [e \in Emulator |-> None]
  /\ ran = [e \in Emulator |-> << >>]
  /\ request = [s \in Session |-> None]
  /\ reply = [s \in Session |-> None]

-----------------------------------------------------------------------------
(* The decisions of start, start_once and drive.  A Bug... definition is the *)
(* one after it as a plausible slip would have written it.                   *)

\* STARTUP is locked for the whole of start_once.
BugNoStartupLock(s) == UNCHANGED lock
LockStartup(s) == lock' = [lock EXCEPT ![ProcessOf[s]] = s]

\* The guard is dropped on every way out of start_once.
BugGuardLeaks(s) == UNCHANGED lock
UnlockStartup(s) == lock' = [lock EXCEPT ![ProcessOf[s]] = None]

\* lost_port_race: the child's stderr contains BIND_FAILURE.
BugAnyFailureIsLostRace(s) == TRUE
LostPortRace(s) == emu[Child(s)] = "lost_race"

\* The loop of start runs START_ATTEMPTS times.
BugOneAttemptMore(s) == attempt[s] <= StartAttempts
AttemptsLeft(s) == attempt[s] < StartAttempts

\* wait() on the child: no zombie, and nothing of it runs any more.
BugKilledNotReaped(s) == UNCHANGED emu
WaitForChild(s) == emu' = [emu EXCEPT ![Child(s)] = "gone"]

\* started_from_reset: the emulator had executed nothing before this packet.
BugNoResetCheck(packet) == TRUE
StartedFromReset(packet) == Len(packet.after) = 1

\* shutdown returns the trace only if drive succeeded and the emulator did.
BugOnlyExitStatus(s) == emu[Child(s)] = "exit_ok"
TraceCounts(s) == drove[s] # "err" /\ emu[Child(s)] = "exit_ok"

-----------------------------------------------------------------------------
(* The session: start and start_once.                                      *)

\* Take STARTUP, reserve a port no socket is bound to, release it, and spawn
\* the emulator that will bind it again.
StartOnce(s) ==
  /\ pc[s] = "start"
  /\ lock[ProcessOf[s]] = None
  /\ \E p \in Port :
       /\ ~ BusyPort(p)
       /\ port' = [port EXCEPT ![s] = p]
  /\ LockStartup(s)
  /\ emu' = [emu EXCEPT ![Child(s)] = "starting"]
  /\ pc' = [pc EXCEPT ![s] = "poll"]
  /\ UNCHANGED <<attempt, events, drove, result, wire, client, ran>>

\* No port can be reserved or the emulator cannot be spawned: Fatal.
StartImpossible(s) ==
  /\ pc[s] = "start"
  /\ lock[ProcessOf[s]] = None
  /\ pc' = [pc EXCEPT ![s] = "done"]
  /\ result' = [result EXCEPT ![s] = "err"]
  /\ UNCHANGED <<attempt, lock, port, events, drove, wire, sail>>

\* The head of the connect loop: an emulator that has exited ends it.
Poll(s) ==
  /\ pc[s] = "poll"
  /\ pc' = [pc EXCEPT ![s] = IF emu[Child(s)] \in Exited THEN "failed" ELSE "dial"]
  /\ UNCHANGED <<attempt, lock, port, events, drove, result, wire, sail>>

\* connect_timeout reaches whatever listens on the port, which need not be the
\* session's own emulator; start_once returns and drops the STARTUP guard.
\* Or set_read_timeout refuses the timeout (0 is refused): the stream is
\* dropped, and with no session yet built nobody kills or reaps the child.
Dial(s) ==
  /\ pc[s] = "dial"
  /\ UnlockStartup(s)
  /\ \E e \in Emulator :
       /\ ListensOn(e, port[s])
       /\ conn' = [conn EXCEPT ![s] = e]
  /\ \/ /\ pc' = [pc EXCEPT ![s] = "send"]
        /\ UNCHANGED result
     \/ /\ pc' = [pc EXCEPT ![s] = "refused"]
        /\ result' = [result EXCEPT ![s] = "err"]
  /\ UNCHANGED <<attempt, port, events, drove, request, reply, sail>>

Refused(s) == pc[s] = "dial" /\ \A e \in Emulator : ~ ListensOn(e, port[s])

DialAgain(s) ==
  /\ Refused(s)
  /\ pc' = [pc EXCEPT ![s] = "poll"]
  /\ UNCHANGED <<attempt, lock, port, events, drove, result, wire, sail>>

\* The connection was refused and the deadline has passed.
DialTimesOut(s) ==
  /\ Refused(s)
  /\ pc' = [pc EXCEPT ![s] = "failed"]
  /\ UNCHANGED <<attempt, lock, port, events, drove, result, wire, sail>>

\* start_once failed to connect: kill the emulator, drain its pipes, reap it
\* and read its diagnostics.  Only a lost port race is started again, at most
\* START_ATTEMPTS times.
StartFails(s) ==
  /\ pc[s] = "failed"
  /\ UnlockStartup(s)
  /\ WaitForChild(s)
  /\ IF LostPortRace(s) /\ AttemptsLeft(s)
       THEN /\ attempt' = [attempt EXCEPT ![s] = @ + 1]
            /\ pc' = [pc EXCEPT ![s] = "start"]
            /\ UNCHANGED result
       ELSE /\ pc' = [pc EXCEPT ![s] = "done"]
            /\ result' = [result EXCEPT ![s] = "err"]
            /\ UNCHANGED attempt
  /\ UNCHANGED <<port, events, drove, wire, client, ran>>

-----------------------------------------------------------------------------
(* The session: drive and shutdown.                                        *)

\* Write the next instruction, or the end-of-trace command.  A write into a
\* broken stream may still be buffered and succeed.
Send(s) ==
  /\ pc[s] = "send"
  /\ request' = [request EXCEPT ![s] = Len(events[s]) + 1]
  /\ pc' = [pc EXCEPT ![s] = "receive"]
  /\ UNCHANGED <<attempt, lock, port, events, drove, result, conn, reply, sail>>

SendFails(s) ==
  /\ pc[s] = "send"
  /\ Broken(s)
  /\ drove' = [drove EXCEPT ![s] = "err"]
  /\ pc' = [pc EXCEPT ![s] = "close"]
  /\ UNCHANGED <<attempt, lock, port, events, result, wire, sail>>

\* The packet of an instruction: the first must come from a reset emulator,
\* and one with rvfi_halt ends the trace early.
ReceiveEvent(s) ==
  /\ pc[s] = "receive"
  /\ Len(events[s]) < ProgramLength
  /\ reply[s] # None
  /\ reply' = [reply EXCEPT ![s] = None]
  /\ IF events[s] = << >> /\ ~ StartedFromReset(reply[s])
       THEN /\ drove' = [drove EXCEPT ![s] = "err"]
            /\ pc' = [pc EXCEPT ![s] = "close"]
            /\ UNCHANGED events
       ELSE /\ events' = [events EXCEPT ![s] = Append(@, reply[s].after)]
            /\ IF reply[s].halt
                 THEN /\ drove' = [drove EXCEPT ![s] = "completed"]
                      /\ pc' = [pc EXCEPT ![s] = "close"]
                 ELSE /\ pc' = [pc EXCEPT ![s] = "send"]
                      /\ UNCHANGED drove
  /\ UNCHANGED <<attempt, lock, port, result, conn, request, sail>>

\* The packet after end-of-trace must report rvfi_halt; it is not an event.
ReceiveFinal(s) ==
  /\ pc[s] = "receive"
  /\ Len(events[s]) = ProgramLength
  /\ reply[s] # None
  /\ reply' = [reply EXCEPT ![s] = None]
  /\ drove' = [drove EXCEPT ![s] = IF reply[s].halt THEN "injection_complete" ELSE "err"]
  /\ pc' = [pc EXCEPT ![s] = "close"]
  /\ UNCHANGED <<attempt, lock, port, events, result, conn, request, sail>>

\* read_exact meets the end of the stream or the read timeout.
ReceiveFails(s) ==
  /\ pc[s] = "receive"
  /\ reply[s] = None
  /\ drove' = [drove EXCEPT ![s] = "err"]
  /\ pc' = [pc EXCEPT ![s] = "close"]
  /\ UNCHANGED <<attempt, lock, port, events, result, wire, sail>>

\* shutdown closes the stream in both directions.  What was written before
\* stays on the wire: a late emulator still accepts the connection and may
\* still execute the last command.
CloseStream(s) ==
  /\ pc[s] = "close"
  /\ pc' = [pc EXCEPT ![s] = "drain"]
  /\ UNCHANGED <<attempt, lock, port, events, drove, result, wire, sail>>

\* The pipes of the emulator the session spawned reach end-of-file when it
\* exits; it is reaped, and its exit status decides whether the trace counts.
Reap(s) ==
  /\ pc[s] = "drain"
  /\ emu[Child(s)] \in Exited
  /\ WaitForChild(s)
  /\ result' = [result EXCEPT ![s] =
                  IF TraceCounts(s) THEN "ok" ELSE "err"]
  /\ pc' = [pc EXCEPT ![s] = "done"]
  /\ UNCHANGED <<attempt, lock, port, events, drove, wire, client, ran>>

-----------------------------------------------------------------------------
(* The emulator (external).                                                *)

\* It owns the port unless another socket has it, in which case it prints
\* BIND_FAILURE and exits.  The other socket may be that of an emulator here or
\* of any other program, one that answers no connection; a port that only
\* carries an established connection may or may not be bound again.
Bind(e) ==
  /\ emu[e] = "starting"
  /\ \/ /\ \A f \in Emulator : ~ ListensOn(f, port[Owner(e)])
        /\ emu' = [emu EXCEPT ![e] = "listening"]
     \/ emu' = [emu EXCEPT ![e] = "lost_race"]
  /\ UNCHANGED <<session, wire, client, ran>>

\* Accept one waiting client.  Unless AcceptsAgain, the listening socket is
\* closed, and every other client in the backlog is reset.
Accept(e) ==
  /\ emu[e] = "listening"
  /\ \E s \in Session :
       /\ conn[s] = e
       /\ client' = [client EXCEPT ![e] = s]
  /\ emu' = [emu EXCEPT ![e] = "serving"]
  /\ UNCHANGED <<session, wire, ran>>

Serves(e, s) == emu[e] = "serving" /\ client[e] = s /\ conn[s] = e /\ request[s] # None

\* Execute the injected instruction and report it.
Execute(e) ==
  \E s \in Session, halt \in BOOLEAN :
    /\ Serves(e, s)
    /\ request[s] # EndOfTrace
    /\ ran' = [ran EXCEPT ![e] = Append(@, <<s, request[s]>>)]
    /\ reply' = [reply EXCEPT ![s] = [after |-> ran'[e], halt |-> halt]]
    /\ request' = [request EXCEPT ![s] = None]
    /\ UNCHANGED <<session, conn, emu, client>>

\* Answer end-of-trace with one final packet and exit.
EndTrace(e) ==
  \E s \in Session, halt \in BOOLEAN :
    /\ Serves(e, s)
    /\ request[s] = EndOfTrace
    /\ reply' = [reply EXCEPT ![s] = [after |-> ran[e], halt |-> halt]]
    /\ request' = [request EXCEPT ![s] = None]
    /\ emu' = [emu EXCEPT ![e] = "exit_ok"]
    /\ UNCHANGED <<session, conn, client, ran>>

\* The client closed its stream: leave the command loop and exit with some
\* status, or, if AcceptsAgain, wait for the next client where it stands.
ClientLeaves(e) ==
  /\ emu[e] = "serving"
  /\ Closed(client[e])
  /\ conn' = [conn EXCEPT ![client[e]] = None]
  /\ \/ /\ ~ AcceptsAgain
        /\ \E status \in {"exit_ok", "exit_fail"} : emu' = [emu EXCEPT ![e] = status]
        /\ UNCHANGED client
     \/ /\ AcceptsAgain
        /\ emu' = [emu EXCEPT ![e] = "listening"]
        /\ client' = [client EXCEPT ![e] = None]
  /\ UNCHANGED <<session, request, reply, ran>>

\* The emulator dies of something else.
Crash(e) ==
  /\ emu[e] \in Alive
  /\ emu' = [emu EXCEPT ![e] = "exit_fail"]
  /\ UNCHANGED <<session, wire, client, ran>>

-----------------------------------------------------------------------------
SessionStep(s) ==
  \/ StartOnce(s) \/ StartImpossible(s) \/ Poll(s) \/ Dial(s) \/ DialAgain(s)
  \/ DialTimesOut(s) \/ StartFails(s) \/ Send(s) \/ SendFails(s)
  \/ ReceiveEvent(s) \/ ReceiveFinal(s) \/ ReceiveFails(s)
  \/ CloseStream(s) \/ Reap(s)

EmulatorStep(e) ==
  Bind(e) \/ Accept(e) \/ Execute(e) \/ EndTrace(e) \/ ClientLeaves(e)

Next ==
  \/ \E s \in Session : SessionStep(s)
  \/ \E e \in Emulator : EmulatorStep(e) \/ Crash(e)

Spec == Init /\ [][Next]_vars

\* A session that can take a step takes one; the deadline in connect passes;
\* an emulator does not hang.  Nothing obliges an emulator to crash.  Weak
\* fairness is enough for the mutex: every session takes it at most
\* START_ATTEMPTS times.
FairSpec ==
  /\ Spec
  /\ \A s \in Session : WF_vars(SessionStep(s)) /\ SF_vars(DialTimesOut(s))
  /\ \A e \in Emulator : WF_vars(EmulatorStep(e))

-----------------------------------------------------------------------------
(* Properties.                                                             *)

\* A trace that run_program returns is the execution of the session's own
\* program from the reset state, whatever emulator the stream reached: packet i
\* reports exactly the first i instructions, and the trace is complete unless
\* the emulator halted (started_from_reset and the lock step of drive).
AcceptedTraceIsOwnRun ==
  \A s \in Session : result[s] = "ok" =>
    /\ \A i \in DOMAIN events[s] : events[s][i] = Prefix(s, i)
    /\ drove[s] = "injection_complete" => Len(events[s]) = ProgramLength
    /\ drove[s] \in {"injection_complete", "completed"} /\ events[s] # << >>

\* The sessions of one process that share no machine with another process
\* never reach each other's emulators (STARTUP is held until the emulator of
\* the session owns its port).
SiblingsNeverCross ==
  \A s \in Session : conn[s] # None => Owner(conn[s]) = s

\* A session that has ended leaves no emulator process behind, running or
\* unreaped, over all of its attempts (start_once's error path and shutdown).
\* The one way to leave a child is a refused socket timeout, and then it is
\* the child of the last attempt alone.
EndedSessionsLeaveNoChild ==
  \A s \in Session, k \in 1..StartAttempts :
    \/ pc[s] = "done"
    \/ pc[s] = "refused" /\ k # attempt[s]
    => emu[<<s, k>>] \in {"none", "gone"}

\* Starting again never repeats an injection: a new attempt follows only an
\* emulator that reported BIND_FAILURE, and no emulator has by then executed
\* an instruction of the session (start, StartFailure::LostPortRace).
RetryIsClean ==
  [][\A s \in Session : attempt'[s] # attempt[s] =>
       /\ emu[Child(s)] = "lost_race"
       /\ emu'[Child(s)] = "gone"
       /\ \A e \in Emulator : \A i \in DOMAIN ran[e] : ran[e][i][1] # s]_vars

\* Every call of run_program returns.
SessionsEnd == \A s \in Session : <>(pc[s] \in {"done", "refused"})

\* The session, seen through its events and its result, is an isolated run.
Abstract == INSTANCE IsolatedRun WITH
  trace <- [s \in Session |-> IF events[s] = << >> THEN << >>
                              ELSE events[s][Len(events[s])]],
  halted <- [s \in Session |-> drove[s] = "completed"],
  verdict <- result

\* Concurrent sessions are isolated runs: what each one reports is what it
\* would have reported on an emulator of its own.
ImplementsIsolatedRun == Abstract!Spec
=============================================================================
