-------------------------- MODULE DiiSessionProofs --------------------------
(***************************************************************************)
(* For any number of sessions, processes, ports, attempts and instructions: *)
(* the trace a session returns is the execution of its own program from    *)
(* reset, and the sessions together implement IsolatedRun.                 *)
(*                                                                         *)
(* The invariant follows one session's instruction along the wire.  While  *)
(* the session drives, the emulator its stream was opened to has, from the *)
(* first accepted packet on, executed exactly the session's prefix, because *)
(* it serves no other client until the session closes its stream.          *)
(* Then the processes: a session that ended left no emulator, a retry      *)
(* starts with a clean one, and the sessions of one process never cross.   *)
(***************************************************************************)
EXTENDS DiiSession, TLAPS

Before == {"start", "poll", "dial", "failed"}
Quiet(s) == request[s] = None /\ reply[s] = None

\* From the first event on, the session's peer serves it and has executed
\* exactly the instructions the session has seen.
OwnMachine(s) ==
  /\ conn[s] \in Emulator
  /\ events[s] # << >> => /\ client[conn[s]] = s
                          /\ ran[conn[s]] = Prefix(s, Len(events[s]))

\* A command is on the wire, or its packet is.
Asked(s) ==
  /\ reply[s] = None
  /\ request[s] = Len(events[s]) + 1
  /\ OwnMachine(s)

Answered(s) ==
  /\ request[s] = None
  /\ reply[s] # None
  /\ conn[s] \in Emulator
  /\ client[conn[s]] = s
  /\ ran[conn[s]] = reply[s].after
  /\ Len(events[s]) < ProgramLength /\ (events[s] # << >> \/ StartedFromReset(reply[s]))
       => reply[s].after = Prefix(s, Len(events[s]) + 1)

DriveInv(s) ==
  /\ pc[s] \in Before => Quiet(s) /\ events[s] = << >>
  /\ pc[s] \in Before \cup {"send", "receive"} => drove[s] = "none"
  /\ pc[s] = "send" => Quiet(s) /\ OwnMachine(s)
  /\ pc[s] = "receive" => Asked(s) \/ Answered(s)
  /\ pc[s] \in {"close", "drain"} => drove[s] # "none"

TraceInv(s) ==
  /\ Len(events[s]) <= ProgramLength
  /\ \A i \in DOMAIN events[s] : events[s][i] = Prefix(s, i)
  /\ drove[s] = "injection_complete" => Len(events[s]) = ProgramLength
  /\ drove[s] = "completed" => events[s] # << >>
  /\ result[s] = "ok" => drove[s] \in {"injection_complete", "completed"}
  /\ result[s] # "none" <=> pc[s] \in {"done", "refused"}

\* An emulator that has not accepted anybody yet has no client, and the
\* emulators of attempts to come do not exist.
EmulatorInv ==
  /\ \A e \in Emulator : emu[e] \in {"none", "starting", "listening"} => client[e] = None
  /\ \A s \in Session, k \in 1..StartAttempts :
       k > attempt[s] \/ (k = attempt[s] /\ pc[s] = "start") => emu[<<s, k>>] = "none"

IInv ==
  /\ TypeOK
  /\ EmulatorInv
  /\ \A s \in Session : DriveInv(s) /\ TraceInv(s)

USE LengthAssumption, NoneAssumption, ProcessAssumption, FlagAssumption

-----------------------------------------------------------------------------
\* Prefixes of a program: their length, their elements and how drive extends them.
LEMMA PrefixFacts ==
  ASSUME NEW s \in Session, NEW n \in 0..ProgramLength
  PROVE  /\ Prefix(s, n) \in Seq(Instruction)
         /\ Len(Prefix(s, n)) = n
         /\ n < ProgramLength => Append(Prefix(s, n), <<s, n + 1>>) = Prefix(s, n + 1)
  <1>1. \A i \in 1..n : <<s, i>> \in Instruction
    BY DEF Instruction
  <1>2. Prefix(s, n) \in Seq(Instruction) /\ Len(Prefix(s, n)) = n
    BY <1>1 DEF Prefix
  <1>3. ASSUME n < ProgramLength
        PROVE  Append(Prefix(s, n), <<s, n + 1>>) = Prefix(s, n + 1)
    BY <1>2, <1>3 DEF Prefix
  <1>4. QED
    BY <1>2, <1>3

\* A machine that has executed one instruction of its client from reset has
\* executed the first one (what started_from_reset lets drive conclude).
LEMMA FirstInstruction ==
  ASSUME NEW s \in Session, NEW h \in Seq(Instruction), Len(Append(h, <<s, 1>>)) = 1
  PROVE  Append(h, <<s, 1>>) = Prefix(s, 1)
  <1>1. h = << >>
    OBVIOUS
  <1>2. QED
    BY <1>1 DEF Prefix

\* The child of a session is an emulator of its own, whatever attempt of start
\* spawned it.
LEMMA ChildIsEmulator ==
  ASSUME TypeOK, NEW s \in Session
  PROVE  Child(s) \in Emulator
  BY DEF TypeOK, Child, Emulator

-----------------------------------------------------------------------------
\* Before any session starts, nothing has been spawned, sent or executed.
LEMMA InitIInv == Init => IInv
  <1>1. ASSUME Init
        PROVE  TypeOK
    BY <1>1 DEF Init, TypeOK, Emulator, Instruction
  <1>2. ASSUME Init
        PROVE  EmulatorInv
    BY <1>2 DEF Init, EmulatorInv, Emulator
  <1>3. ASSUME Init, NEW s \in Session
        PROVE  DriveInv(s) /\ TraceInv(s)
    BY <1>3 DEF Init, DriveInv, TraceInv, Before, Quiet
  <1>4. QED
    BY <1>1, <1>2, <1>3 DEF IInv

\* Every step of a session and of an emulator keeps the types.
LEMMA TypeStep ==
  ASSUME IInv, [Next]_vars
  PROVE  TypeOK'
  <1> USE DEF IInv
  <1>1. ASSUME NEW s \in Session, StartOnce(s)
        PROVE  TypeOK'
    <2>1. Child(s) \in Emulator /\ ProcessOf[s] \in Process
      BY ChildIsEmulator
    <2>2. QED
      BY <1>1, <2>1 DEF StartOnce, LockStartup, TypeOK, Alive, session, wire, sail
  <1>2. ASSUME NEW s \in Session, StartImpossible(s)
        PROVE  TypeOK'
    BY <1>2 DEF StartImpossible, TypeOK, session, wire, sail
  <1>3. ASSUME NEW s \in Session, Poll(s)
        PROVE  TypeOK'
    BY <1>3 DEF Poll, TypeOK, session, wire, sail
  <1>4. ASSUME NEW s \in Session, Dial(s)
        PROVE  TypeOK'
    <2>1. ProcessOf[s] \in Process
      OBVIOUS
    <2>2. conn' \in [Session -> Emulator \cup {None}]
      BY <1>4 DEF Dial, TypeOK
    <2>3. pc' \in [Session -> {"start", "poll", "dial", "failed", "send", "receive",
                              "close", "drain", "done", "refused"}]
          /\ result' \in [Session -> {"none", "ok", "err"}]
      BY <1>4 DEF Dial, TypeOK
    <2>4. QED
      BY <1>4, <2>1, <2>2, <2>3 DEF Dial, UnlockStartup, TypeOK, sail
  <1>5. ASSUME NEW s \in Session, DialAgain(s)
        PROVE  TypeOK'
    BY <1>5 DEF DialAgain, TypeOK, session, wire, sail
  <1>6. ASSUME NEW s \in Session, DialTimesOut(s)
        PROVE  TypeOK'
    BY <1>6 DEF DialTimesOut, TypeOK, session, wire, sail
  <1>7. ASSUME NEW s \in Session, StartFails(s)
        PROVE  TypeOK'
    <2>1. Child(s) \in Emulator /\ ProcessOf[s] \in Process
      BY ChildIsEmulator
    <2>2. AttemptsLeft(s) => attempt[s] + 1 \in 1..StartAttempts
      BY DEF AttemptsLeft, TypeOK
    <2>3. attempt' \in [Session -> 1..StartAttempts]
      BY <1>7, <2>2 DEF StartFails, TypeOK
    <2>4. QED
      BY <1>7, <2>1, <2>3 DEF StartFails, UnlockStartup, WaitForChild, TypeOK, wire
  <1>8. ASSUME NEW s \in Session, Send(s)
        PROVE  TypeOK'
    <2>1. Len(events[s]) + 1 \in 1..EndOfTrace
      BY DEF TypeOK, TraceInv, EndOfTrace
    <2>2. QED
      BY <1>8, <2>1 DEF Send, TypeOK, session, wire, sail
  <1>9. ASSUME NEW s \in Session, SendFails(s)
        PROVE  TypeOK'
    BY <1>9 DEF SendFails, TypeOK, session, wire, sail
  <1>10. ASSUME NEW s \in Session, ReceiveEvent(s)
         PROVE  TypeOK'
    <2>1. reply[s].after \in Seq(Instruction)
      BY <1>10 DEF ReceiveEvent, TypeOK, Packet
    <2>2. events' \in [Session -> Seq(Seq(Instruction))]
      <3>1. Append(events[s], reply[s].after) \in Seq(Seq(Instruction))
        BY <2>1 DEF TypeOK
      <3>2. QED
        BY <1>10, <3>1 DEF ReceiveEvent, TypeOK
    <2>3. /\ pc' \in [Session -> {"start", "poll", "dial", "failed", "send", "receive",
                                 "close", "drain", "done", "refused"}]
          /\ drove' \in [Session -> {"none", "injection_complete", "completed", "err"}]
          /\ reply' \in [Session -> Packet \cup {None}]
      BY <1>10 DEF ReceiveEvent, TypeOK
    <2>4. QED
      BY <1>10, <2>2, <2>3 DEF ReceiveEvent, TypeOK, sail
  <1>11. ASSUME NEW s \in Session, ReceiveFinal(s)
        PROVE  TypeOK'
    BY <1>11 DEF ReceiveFinal, TypeOK, session, wire, sail
  <1>12. ASSUME NEW s \in Session, ReceiveFails(s)
        PROVE  TypeOK'
    BY <1>12 DEF ReceiveFails, TypeOK, session, wire, sail
  <1>13. ASSUME NEW s \in Session, CloseStream(s)
        PROVE  TypeOK'
    BY <1>13 DEF CloseStream, TypeOK, session, wire, sail
  <1>14. ASSUME NEW s \in Session, Reap(s)
         PROVE  TypeOK'
    BY <1>14, ChildIsEmulator DEF Reap, WaitForChild, TypeOK, wire
  <1>15. ASSUME NEW e \in Emulator, Bind(e)
        PROVE  TypeOK'
    BY <1>15 DEF Bind, Alive, Exited, TypeOK, session, wire, sail
  <1>16. ASSUME NEW e \in Emulator, Accept(e)
        PROVE  TypeOK'
    BY <1>16 DEF Accept, Alive, TypeOK, session, wire, sail
  <1>17. ASSUME NEW e \in Emulator, Execute(e)
         PROVE  TypeOK'
    <2>1. PICK s \in Session, halt \in BOOLEAN :
            /\ Serves(e, s)
            /\ request[s] # EndOfTrace
            /\ ran' = [ran EXCEPT ![e] = Append(@, <<s, request[s]>>)]
            /\ reply' = [reply EXCEPT ![s] = [after |-> ran'[e], halt |-> halt]]
            /\ request' = [request EXCEPT ![s] = None]
            /\ UNCHANGED <<session, conn, emu, client>>
      BY <1>17 DEF Execute
    <2>2. <<s, request[s]>> \in Instruction
      BY <2>1 DEF Serves, TypeOK, EndOfTrace, Instruction
    <2>3. ran' \in [Emulator -> Seq(Instruction)]
      BY <2>1, <2>2 DEF TypeOK
    <2>4. [after |-> ran'[e], halt |-> halt] \in Packet
      BY <2>3 DEF Packet
    <2>5. QED
      BY <2>1, <2>3, <2>4 DEF TypeOK, session
  <1>18. ASSUME NEW e \in Emulator, EndTrace(e)
         PROVE  TypeOK'
    <2>1. \A halt \in BOOLEAN : [after |-> ran[e], halt |-> halt] \in Packet
      BY DEF TypeOK, Packet
    <2>2. QED
      BY <1>18, <2>1 DEF EndTrace, TypeOK, Exited, session
  <1>19. ASSUME NEW e \in Emulator, ClientLeaves(e)
         PROVE  TypeOK'
    <2>1. emu' \in [Emulator -> {"none", "gone"} \cup Alive \cup Exited]
      <3>1. PICK life \in {"exit_ok", "exit_fail", "listening"} : emu' = [emu EXCEPT ![e] = life]
        BY <1>19 DEF ClientLeaves
      <3>2. QED
        BY <3>1 DEF TypeOK, Alive, Exited
    <2>2. client' \in [Emulator -> Session \cup {None}]
      BY <1>19 DEF ClientLeaves, TypeOK
    <2>3. conn' \in [Session -> Emulator \cup {None}]
      BY <1>19 DEF ClientLeaves, TypeOK
    <2>4. QED
      BY <1>19, <2>1, <2>2, <2>3 DEF ClientLeaves, TypeOK, session
  <1>20. ASSUME NEW e \in Emulator, Crash(e)
         PROVE  TypeOK'
    BY <1>20 DEF Crash, TypeOK, Exited, session, wire
  <1>21. ASSUME UNCHANGED vars
         PROVE  TypeOK'
    BY <1>21 DEF vars, session, wire, sail, TypeOK
  <1>22. QED
    BY <1>1, <1>2, <1>3, <1>4, <1>5, <1>6, <1>7, <1>8, <1>9, <1>10,
       <1>11, <1>12, <1>13, <1>14, <1>15, <1>16, <1>17, <1>18, <1>19, <1>20, <1>21
    DEF Next, SessionStep, EmulatorStep

\* What an emulator does keeps its client and its machine consistent: it
\* executes only for the session it accepted.
LEMMA EmulatorStepInv ==
  ASSUME IInv, [Next]_vars
  PROVE  EmulatorInv'
  <1> USE DEF IInv
  <1>1. ASSUME NEW s \in Session, StartOnce(s)
        PROVE  EmulatorInv'
    BY <1>1 DEF StartOnce, EmulatorInv, TypeOK, Child, Emulator, wire, sail
  <1>2. ASSUME NEW s \in Session, StartImpossible(s)
        PROVE  EmulatorInv'
    BY <1>2 DEF StartImpossible, EmulatorInv, TypeOK, Child, Emulator, wire, sail
  <1>3. ASSUME NEW s \in Session, Poll(s)
        PROVE  EmulatorInv'
    BY <1>3 DEF Poll, EmulatorInv, TypeOK, Child, Emulator, wire, sail
  <1>4. ASSUME NEW s \in Session, Dial(s)
        PROVE  EmulatorInv'
    BY <1>4 DEF Dial, EmulatorInv, TypeOK, Child, Emulator, wire, sail
  <1>5. ASSUME NEW s \in Session, DialAgain(s)
        PROVE  EmulatorInv'
    BY <1>5 DEF DialAgain, EmulatorInv, TypeOK, Child, Emulator, wire, sail
  <1>6. ASSUME NEW s \in Session, DialTimesOut(s)
        PROVE  EmulatorInv'
    BY <1>6 DEF DialTimesOut, EmulatorInv, TypeOK, Child, Emulator, wire, sail
  <1>7. ASSUME NEW s \in Session, StartFails(s)
        PROVE  EmulatorInv'
    BY <1>7 DEF StartFails, WaitForChild, AttemptsLeft, LostPortRace, EmulatorInv, TypeOK, Child, Emulator, wire, sail
  <1>8. ASSUME NEW s \in Session, Send(s)
        PROVE  EmulatorInv'
    BY <1>8 DEF Send, EmulatorInv, TypeOK, Child, Emulator, wire, sail
  <1>9. ASSUME NEW s \in Session, SendFails(s)
        PROVE  EmulatorInv'
    BY <1>9 DEF SendFails, EmulatorInv, TypeOK, Child, Emulator, wire, sail
  <1>10. ASSUME NEW s \in Session, ReceiveEvent(s)
         PROVE  EmulatorInv'
    BY <1>10 DEF ReceiveEvent, EmulatorInv, TypeOK, Child, Emulator, wire, sail
  <1>11. ASSUME NEW s \in Session, ReceiveFinal(s)
         PROVE  EmulatorInv'
    BY <1>11 DEF ReceiveFinal, EmulatorInv, TypeOK, Child, Emulator, wire, sail
  <1>12. ASSUME NEW s \in Session, ReceiveFails(s)
         PROVE  EmulatorInv'
    BY <1>12 DEF ReceiveFails, EmulatorInv, TypeOK, Child, Emulator, wire, sail
  <1>13. ASSUME NEW s \in Session, CloseStream(s)
         PROVE  EmulatorInv'
    BY <1>13 DEF CloseStream, EmulatorInv, TypeOK, Child, Emulator, wire, sail
  <1>14. ASSUME NEW s \in Session, Reap(s)
         PROVE  EmulatorInv'
    BY <1>14 DEF Reap, WaitForChild, EmulatorInv, TypeOK, Child, Emulator, wire, sail
  <1>15. ASSUME NEW e \in Emulator, Bind(e)
         PROVE  EmulatorInv'
    <2>1. PICK life \in {"listening", "lost_race"} : emu' = [emu EXCEPT ![e] = life]
      BY <1>15 DEF Bind
    <2>2. emu[e] = "starting" /\ UNCHANGED <<session, wire, client, ran>>
      BY <1>15 DEF Bind
    <2>3. QED
      BY <2>1, <2>2 DEF EmulatorInv, TypeOK, Emulator, session
  <1>16. ASSUME NEW e \in Emulator, Accept(e)
         PROVE  EmulatorInv'
    <2>1. emu[e] = "listening" /\ emu' = [emu EXCEPT ![e] = "serving"]
      BY <1>16 DEF Accept
    <2>2. PICK s \in Session : client' = [client EXCEPT ![e] = s]
      BY <1>16 DEF Accept
    <2>3. UNCHANGED session
      BY <1>16 DEF Accept
    <2>4. QED
      BY <2>1, <2>2, <2>3 DEF EmulatorInv, TypeOK, Emulator, session
  <1>17. ASSUME NEW e \in Emulator, Execute(e)
         PROVE  EmulatorInv'
    BY <1>17 DEF Execute, EmulatorInv, TypeOK, Emulator, session
  <1>18. ASSUME NEW e \in Emulator, EndTrace(e)
         PROVE  EmulatorInv'
    <2>1. emu[e] = "serving" /\ emu' = [emu EXCEPT ![e] = "exit_ok"]
      BY <1>18 DEF EndTrace, Serves
    <2>2. UNCHANGED <<session, client>>
      BY <1>18 DEF EndTrace
    <2>3. QED
      BY <2>1, <2>2 DEF EmulatorInv, TypeOK, Emulator, session
  <1>19. ASSUME NEW e \in Emulator, ClientLeaves(e)
         PROVE  EmulatorInv'
    <2>1. \/ /\ \E life \in {"exit_ok", "exit_fail"} : emu' = [emu EXCEPT ![e] = life]
             /\ UNCHANGED client
          \/ /\ emu' = [emu EXCEPT ![e] = "listening"]
             /\ client' = [client EXCEPT ![e] = None]
      BY <1>19 DEF ClientLeaves
    <2>2. emu[e] = "serving" /\ attempt' = attempt /\ pc' = pc
      BY <1>19 DEF ClientLeaves, session
    <2>3. emu \in [Emulator -> {"none", "gone"} \cup Alive \cup Exited]
          /\ client \in [Emulator -> Session \cup {None}]
      BY DEF TypeOK
    <2>4. /\ \A f \in Emulator \ {e} : emu'[f] = emu[f] /\ client'[f] = client[f]
          /\ emu'[e] \in {"none", "starting", "listening"} => client'[e] = None
      BY <2>1, <2>2, <2>3
    <2>5. \A f \in Emulator : emu[f] = "none" => emu'[f] = "none"
      BY <2>2, <2>4
    <2>6. \A f \in Emulator : emu'[f] \in {"none", "starting", "listening"} => client'[f] = None
      BY <2>4 DEF EmulatorInv
    <2>7. \A x \in Session, k \in 1..StartAttempts : <<x, k>> \in Emulator
      BY DEF Emulator
    <2>8. QED
      BY <2>2, <2>5, <2>6, <2>7 DEF EmulatorInv
  <1>20. ASSUME NEW e \in Emulator, Crash(e)
         PROVE  EmulatorInv'
    BY <1>20 DEF Crash, EmulatorInv, TypeOK, Emulator, Alive, session, wire
  <1>21. ASSUME UNCHANGED vars
         PROVE  EmulatorInv'
    BY <1>21 DEF vars, session, wire, sail, EmulatorInv, Emulator
  <1>22. QED
    BY <1>1, <1>2, <1>3, <1>4, <1>5, <1>6, <1>7, <1>8, <1>9, <1>10,
       <1>11, <1>12, <1>13, <1>14, <1>15, <1>16, <1>17, <1>18, <1>19, <1>20, <1>21
    DEF Next, SessionStep, EmulatorStep

-----------------------------------------------------------------------------
\* Only the session itself touches its program counter, events and results,
\* and no session touches what an emulator has executed or whom it serves.
LEMMA OthersUntouched ==
  ASSUME TypeOK, NEW s \in Session, SessionStep(s), NEW t \in Session, t # s
  PROVE  /\ pc'[t] = pc[t]
         /\ events'[t] = events[t]
         /\ drove'[t] = drove[t]
         /\ result'[t] = result[t]
         /\ request'[t] = request[t]
         /\ reply'[t] = reply[t]
         /\ conn'[t] = conn[t]
  <1>1. CASE StartOnce(s)
    BY <1>1 DEF StartOnce, TypeOK, wire
  <1>2. CASE StartImpossible(s)
    BY <1>2 DEF StartImpossible, TypeOK, wire
  <1>3. CASE Poll(s)
    BY <1>3 DEF Poll, TypeOK, wire
  <1>4. CASE Dial(s)
    BY <1>4 DEF Dial, TypeOK, wire
  <1>5. CASE DialAgain(s)
    BY <1>5 DEF DialAgain, TypeOK, wire
  <1>6. CASE DialTimesOut(s)
    BY <1>6 DEF DialTimesOut, TypeOK, wire
  <1>7. CASE StartFails(s)
    BY <1>7 DEF StartFails, TypeOK, wire
  <1>8. CASE Send(s)
    BY <1>8 DEF Send, TypeOK, wire
  <1>9. CASE SendFails(s)
    BY <1>9 DEF SendFails, TypeOK, wire
  <1>10. CASE ReceiveEvent(s)
    BY <1>10 DEF ReceiveEvent, TypeOK, wire
  <1>11. CASE ReceiveFinal(s)
    BY <1>11 DEF ReceiveFinal, TypeOK, wire
  <1>12. CASE ReceiveFails(s)
    BY <1>12 DEF ReceiveFails, TypeOK, wire
  <1>13. CASE CloseStream(s)
    BY <1>13 DEF CloseStream, TypeOK, wire
  <1>14. CASE Reap(s)
    BY <1>14 DEF Reap, TypeOK, wire
  <1>15. QED
    BY <1>1, <1>2, <1>3, <1>4, <1>5, <1>6, <1>7, <1>8, <1>9, <1>10,
       <1>11, <1>12, <1>13, <1>14 DEF SessionStep

\* Sending, receiving and closing do not touch an emulator.
LEMMA MachinesUntouched ==
  ASSUME NEW s \in Session, SessionStep(s)
  PROVE  UNCHANGED <<client, ran>>
  BY DEF SessionStep, StartOnce, StartImpossible, Poll, Dial, DialAgain, DialTimesOut,
         StartFails, Send, SendFails, ReceiveEvent, ReceiveFinal, ReceiveFails,
         CloseStream, Reap, sail

\* No emulator step touches the control state of a session.
LEMMA SessionsUntouched ==
  ASSUME NEW e \in Emulator, EmulatorStep(e) \/ Crash(e)
  PROVE  UNCHANGED session
  BY DEF EmulatorStep, Bind, Accept, Execute, EndTrace, ClientLeaves, Crash

\* Every packet drive accepts extends the trace of the program from reset.
LEMMA TraceStep ==
  ASSUME IInv, [Next]_vars, NEW t \in Session
  PROVE  TraceInv(t)'
  <1> USE DEF IInv
  <1>1. ASSUME NEW s \in Session, SessionStep(s), s # t
        PROVE  TraceInv(t)'
    BY <1>1, OthersUntouched DEF TraceInv
  <1>2. ASSUME StartOnce(t)
        PROVE  TraceInv(t)'
    BY <1>2 DEF StartOnce, TraceInv, DriveInv, TypeOK
  <1>3. ASSUME StartImpossible(t)
        PROVE  TraceInv(t)'
    BY <1>3 DEF StartImpossible, TraceInv, DriveInv, TypeOK
  <1>4. ASSUME Poll(t)
        PROVE  TraceInv(t)'
    BY <1>4 DEF Poll, TraceInv, DriveInv, TypeOK
  <1>5. ASSUME Dial(t)
        PROVE  TraceInv(t)'
    BY <1>5 DEF Dial, TraceInv, DriveInv, TypeOK
  <1>6. ASSUME DialAgain(t)
        PROVE  TraceInv(t)'
    BY <1>6 DEF DialAgain, Refused, TraceInv, DriveInv, TypeOK
  <1>7. ASSUME DialTimesOut(t)
        PROVE  TraceInv(t)'
    BY <1>7 DEF DialTimesOut, Refused, TraceInv, DriveInv, TypeOK
  <1>8. ASSUME StartFails(t)
        PROVE  TraceInv(t)'
    BY <1>8 DEF StartFails, AttemptsLeft, LostPortRace, TraceInv, DriveInv, TypeOK
  <1>9. ASSUME Send(t)
        PROVE  TraceInv(t)'
    BY <1>9 DEF Send, TraceInv, DriveInv, TypeOK
  <1>10. ASSUME SendFails(t)
         PROVE  TraceInv(t)'
    BY <1>10 DEF SendFails, TraceInv, DriveInv, TypeOK
  <1>11. ASSUME ReceiveEvent(t)
         PROVE  TraceInv(t)'
    <2>1. /\ pc[t] = "receive"
          /\ Len(events[t]) < ProgramLength
          /\ reply[t] # None
      BY <1>11 DEF ReceiveEvent
    <2>2. Answered(t)
      BY <2>1 DEF DriveInv, Asked
    <2>3. CASE events[t] = << >> /\ ~ StartedFromReset(reply[t])
      BY <1>11, <2>1, <2>3 DEF ReceiveEvent, TraceInv, TypeOK, DriveInv
    <2>4. CASE ~ (events[t] = << >> /\ ~ StartedFromReset(reply[t]))
      <3>1. reply[t].after = Prefix(t, Len(events[t]) + 1)
        BY <2>1, <2>2, <2>4 DEF Answered
      <3>2. events'[t] = Append(events[t], Prefix(t, Len(events[t]) + 1))
        BY <1>11, <2>4, <3>1 DEF ReceiveEvent, TypeOK
      <3>3. events[t] \in Seq(Seq(Instruction)) /\ Len(events[t]) \in 0..ProgramLength
        BY <2>1 DEF TypeOK
      <3>4. /\ Len(events'[t]) = Len(events[t]) + 1
            /\ \A i \in DOMAIN events'[t] : events'[t][i] = Prefix(t, i)
        <4> DEFINE new == Prefix(t, Len(events[t]) + 1)
        <4>1. new \in Seq(Instruction)
          <5>1. Len(events[t]) + 1 \in 0..ProgramLength
            BY <2>1, <3>3
          <5>2. QED
            BY <5>1, PrefixFacts
        <4> HIDE DEF new
        <4>2. /\ Len(events'[t]) = Len(events[t]) + 1
              /\ DOMAIN events'[t] = 1..(Len(events[t]) + 1)
              /\ \A i \in 1..Len(events[t]) : events'[t][i] = events[t][i]
              /\ events'[t][Len(events[t]) + 1] = new
          BY <3>2, <3>3, <4>1 DEF new
        <4>3. \A i \in 1..Len(events[t]) : events[t][i] = Prefix(t, i)
          BY <3>3 DEF TraceInv
        <4>4. QED
          BY <3>3, <4>2, <4>3 DEF new
      <3>5. /\ drove'[t] # "injection_complete"
            /\ result'[t] = "none"
            /\ pc'[t] \in {"send", "close"}
        BY <1>11, <2>1, <2>4 DEF ReceiveEvent, TypeOK, DriveInv, TraceInv
      <3>6. QED
        BY <2>1, <3>3, <3>4, <3>5 DEF TraceInv
    <2>5. QED
      BY <2>3, <2>4
  <1>12. ASSUME ReceiveFinal(t)
         PROVE  TraceInv(t)'
    BY <1>12 DEF ReceiveFinal, TraceInv, DriveInv, TypeOK
  <1>13. ASSUME ReceiveFails(t)
         PROVE  TraceInv(t)'
    BY <1>13 DEF ReceiveFails, TraceInv, DriveInv, TypeOK
  <1>14. ASSUME CloseStream(t)
         PROVE  TraceInv(t)'
    BY <1>14 DEF CloseStream, TraceInv, DriveInv, TypeOK
  <1>15. ASSUME Reap(t)
         PROVE  TraceInv(t)'
    BY <1>15 DEF Reap, TraceCounts, TraceInv, DriveInv, TypeOK
  <1>16. ASSUME NEW e \in Emulator, EmulatorStep(e) \/ Crash(e)
         PROVE  TraceInv(t)'
    BY <1>16, SessionsUntouched DEF session, TraceInv
  <1>17. ASSUME UNCHANGED vars
         PROVE  TraceInv(t)'
    BY <1>17 DEF vars, session, TraceInv
  <1>18. QED
    BY <1>1, <1>2, <1>3, <1>4, <1>5, <1>6, <1>7, <1>8, <1>9, <1>10,
       <1>11, <1>12, <1>13, <1>14, <1>15, <1>16, <1>17 DEF Next, SessionStep

-----------------------------------------------------------------------------
\* What drive relies on survives a step that leaves its wire and its emulator
\* alone.
LEMMA DriveFrame ==
  ASSUME NEW t \in Session, DriveInv(t), UNCHANGED <<client, ran>>,
         /\ pc'[t] = pc[t]
         /\ events'[t] = events[t]
         /\ drove'[t] = drove[t]
         /\ request'[t] = request[t]
         /\ reply'[t] = reply[t]
         /\ conn'[t] = conn[t]
  PROVE  DriveInv(t)'
  BY DEF DriveInv, Quiet, Asked, Answered, OwnMachine

\* Each step of drive leaves the wire in the lock step of one command and one
\* packet.
LEMMA DriveStepOfSession ==
  ASSUME IInv, NEW s \in Session, SessionStep(s), NEW t \in Session
  PROVE  DriveInv(t)'
  <1> USE DEF IInv
  <1>0. UNCHANGED <<client, ran>>
    BY MachinesUntouched
  <1>1. CASE s # t
    BY <1>0, <1>1, OthersUntouched, DriveFrame
  <1> SUFFICES ASSUME s = t
               PROVE  DriveInv(t)'
    BY <1>1
  <1>2. CASE StartOnce(t)
    BY <1>2 DEF StartOnce, DriveInv, Before, Quiet, TypeOK, wire
  <1>3. CASE StartImpossible(t)
    BY <1>3 DEF StartImpossible, DriveInv, Before, Quiet, TypeOK, wire
  <1>4. CASE Poll(t)
    BY <1>4 DEF Poll, DriveInv, Before, Quiet, TypeOK, wire
  <1>5. CASE Dial(t)
    <2>1. /\ pc'[t] \in {"send", "refused"}
          /\ conn'[t] \in Emulator
          /\ UNCHANGED <<events, drove, request, reply>>
      BY <1>5 DEF Dial, TypeOK
    <2>2. Quiet(t) /\ events[t] = << >> /\ drove[t] = "none"
      BY <1>5 DEF Dial, DriveInv, Before
    <2>3. QED
      BY <2>1, <2>2 DEF DriveInv, Before, Quiet, OwnMachine
  <1>6. CASE DialAgain(t)
    BY <1>6 DEF DialAgain, Refused, DriveInv, Before, Quiet, TypeOK, wire
  <1>7. CASE DialTimesOut(t)
    BY <1>7 DEF DialTimesOut, Refused, DriveInv, Before, Quiet, TypeOK, wire
  <1>8. CASE StartFails(t)
    BY <1>8 DEF StartFails, AttemptsLeft, LostPortRace, DriveInv, Before, Quiet, TypeOK, wire
  <1>9. CASE Send(t)
    <2>1. Quiet(t) /\ OwnMachine(t) /\ drove[t] = "none"
      BY <1>9 DEF Send, DriveInv
    <2>2. /\ pc'[t] = "receive"
          /\ request'[t] = Len(events[t]) + 1
          /\ UNCHANGED <<events, drove, conn, reply>>
      BY <1>9 DEF Send, TypeOK
    <2>3. Asked(t)'
      BY <1>0, <2>1, <2>2 DEF Asked, OwnMachine, Quiet
    <2>4. QED
      BY <2>1, <2>2, <2>3 DEF DriveInv, Before
  <1>10. CASE SendFails(t)
    BY <1>10 DEF SendFails, DriveInv, Before, Quiet, TypeOK, wire
  <1>11. CASE ReceiveEvent(t)
    <2>1. /\ pc[t] = "receive"
          /\ Len(events[t]) < ProgramLength
          /\ reply[t] # None
          /\ reply'[t] = None
          /\ UNCHANGED <<request, conn>>
      BY <1>11 DEF ReceiveEvent, TypeOK
    <2>2. Answered(t) /\ drove[t] = "none"
      BY <2>1 DEF DriveInv, Asked
    <2>3. CASE pc'[t] = "close"
      <3>1. drove'[t] # "none"
        BY <1>11, <2>3 DEF ReceiveEvent, TypeOK
      <3>2. QED
        BY <2>3, <3>1 DEF DriveInv, Before
    <2>4. CASE pc'[t] # "close"
      <3>1. /\ pc'[t] = "send"
            /\ drove'[t] = drove[t]
            /\ events'[t] = Append(events[t], reply[t].after)
            /\ ~ (events[t] = << >> /\ ~ StartedFromReset(reply[t]))
        BY <1>11, <2>4 DEF ReceiveEvent, TypeOK
      <3>2. Len(events'[t]) = Len(events[t]) + 1
        BY <2>1, <3>1 DEF TypeOK, Packet
      <3>3. ran[conn[t]] = Prefix(t, Len(events'[t])) /\ client[conn[t]] = t /\ conn[t] \in Emulator
        BY <2>1, <2>2, <3>1, <3>2 DEF Answered
      <3>4. OwnMachine(t)'
        BY <1>0, <2>1, <3>3 DEF OwnMachine
      <3>5. Quiet(t)'
        BY <2>1, <2>2 DEF Quiet, Answered
      <3>6. QED
        BY <2>2, <3>1, <3>4, <3>5 DEF DriveInv, Before
    <2>5. QED
      BY <2>3, <2>4
  <1>12. CASE ReceiveFinal(t)
    BY <1>12 DEF ReceiveFinal, DriveInv, Before, Quiet, TypeOK, wire
  <1>13. CASE ReceiveFails(t)
    BY <1>13 DEF ReceiveFails, DriveInv, Before, Quiet, TypeOK, wire
  <1>14. CASE CloseStream(t)
    BY <1>14 DEF CloseStream, DriveInv, Before, Quiet, TypeOK, wire
  <1>15. CASE Reap(t)
    BY <1>15 DEF Reap, TraceCounts, DriveInv, Before, Quiet, TypeOK, wire
  <1>16. QED
    BY <1>2, <1>3, <1>4, <1>5, <1>6, <1>7, <1>8, <1>9, <1>10,
       <1>11, <1>12, <1>13, <1>14, <1>15 DEF SessionStep

\* Each emulator step answers the one command on the wire with one packet.
LEMMA DriveStepOfEmulator ==
  ASSUME IInv, NEW e \in Emulator, EmulatorStep(e) \/ Crash(e), NEW t \in Session
  PROVE  DriveInv(t)'
  <1> USE DEF IInv
  <1>0. UNCHANGED <<pc, events, drove>>
    BY SessionsUntouched DEF session
  <1>1. CASE Bind(e) \/ Crash(e)
    BY <1>0, <1>1, DriveFrame DEF Bind, Crash, wire
  <1>2. CASE Accept(e)
    <2>1. client[e] = None
      BY <1>2 DEF Accept, EmulatorInv
    <2>2. /\ UNCHANGED <<conn, request, reply, ran>>
          /\ \A f \in Emulator : f # e => client'[f] = client[f]
      BY <1>2 DEF Accept, wire, TypeOK
    <2>3. ASSUME client[conn[t]] = t, conn[t] \in Emulator
          PROVE  client'[conn[t]] = t
      BY <2>1, <2>2, <2>3
    <2>4. QED
      BY <1>0, <2>2, <2>3 DEF DriveInv, Quiet, Asked, Answered, OwnMachine
  <1>3. CASE Execute(e)
    <2>1. PICK s \in Session, halt \in BOOLEAN :
            /\ Serves(e, s)
            /\ request[s] # EndOfTrace
            /\ ran' = [ran EXCEPT ![e] = Append(@, <<s, request[s]>>)]
            /\ reply' = [reply EXCEPT ![s] = [after |-> ran'[e], halt |-> halt]]
            /\ request' = [request EXCEPT ![s] = None]
            /\ UNCHANGED <<session, conn, emu, client>>
      BY <1>3 DEF Execute
    <2>2. CASE s # t
      <3>1. request'[t] = request[t] /\ reply'[t] = reply[t]
        BY <2>1, <2>2 DEF TypeOK
      <3>2. client[conn[t]] = t => ran'[conn[t]] = ran[conn[t]]
        BY <2>1, <2>2 DEF Serves, TypeOK
      <3>3. QED
        BY <1>0, <2>1, <3>1, <3>2 DEF DriveInv, Quiet, Asked, Answered, OwnMachine
    <2>3. CASE s = t
      <3>1. /\ reply'[t] = [after |-> ran'[e], halt |-> halt]
            /\ reply'[t] # None
            /\ request'[t] = None
            /\ conn[t] = e /\ client[e] = t /\ request[t] # None
            /\ ran'[e] = Append(ran[e], <<t, request[t]>>)
        <4>1. reply' \in [Session -> Packet \cup {None}]
          BY TypeStep DEF Next, EmulatorStep, TypeOK
        <4>2. [after |-> ran'[e], halt |-> halt] # None
          BY TypeStep DEF Next, EmulatorStep, TypeOK, Packet, Instruction
        <4>3. QED
          BY <2>1, <2>3, <4>2 DEF Serves, TypeOK
      <3>2. CASE pc[t] = "receive"
        <4>1. Asked(t)
          BY <3>1, <3>2 DEF DriveInv, Answered
        <4>2. ran'[e] = Append(ran[e], <<t, Len(events[t]) + 1>>)
          BY <3>1, <4>1 DEF Asked
        <4>3. ASSUME Len(events[t]) < ProgramLength, events[t] # << >>
              PROVE  ran'[e] = Prefix(t, Len(events[t]) + 1)
          <5>1. ran[e] = Prefix(t, Len(events[t])) /\ Len(events[t]) \in 0..ProgramLength
            BY <3>1, <4>1, <4>3 DEF Asked, OwnMachine, TypeOK
          <5>2. QED
            BY <4>2, <4>3, <5>1, PrefixFacts
        <4>4. ASSUME events[t] = << >>, Len(ran'[e]) = 1
              PROVE  ran'[e] = Prefix(t, Len(events[t]) + 1)
          <5>1. ran[e] \in Seq(Instruction) /\ Len(events[t]) = 0
            BY <4>4 DEF TypeOK
          <5>2. ran'[e] = Append(ran[e], <<t, 1>>)
            BY <4>2, <5>1
          <5>3. QED
            BY <4>4, <5>1, <5>2, FirstInstruction
        <4>5. Answered(t)'
          <5>0. UNCHANGED <<conn, client, events>>
            BY <1>0, <2>1
          <5>1. reply'[t].after = ran'[e]
            BY <3>1
          <5>2. Len(events[t]) < ProgramLength /\ (events[t] # << >> \/ Len(ran'[e]) = 1)
                  => ran'[e] = Prefix(t, Len(events[t]) + 1)
            BY <4>3, <4>4
          <5>3. QED
            BY <3>1, <5>0, <5>1, <5>2 DEF Answered, StartedFromReset
        <4>6. QED
          BY <1>0, <3>2, <4>5 DEF DriveInv, Before
      <3>3. CASE pc[t] # "receive"
        <4>1. pc[t] \notin Before \cup {"send"}
          BY <3>1 DEF DriveInv, Quiet
        <4>2. QED
          BY <1>0, <3>3, <4>1 DEF DriveInv
      <3>4. QED
        BY <3>2, <3>3
    <2>4. QED
      BY <2>2, <2>3
  <1>4. CASE EndTrace(e)
    <2>1. PICK s \in Session, halt \in BOOLEAN :
            /\ Serves(e, s)
            /\ request[s] = EndOfTrace
            /\ reply' = [reply EXCEPT ![s] = [after |-> ran[e], halt |-> halt]]
            /\ request' = [request EXCEPT ![s] = None]
            /\ UNCHANGED <<session, conn, client, ran>>
      BY <1>4 DEF EndTrace
    <2>2. CASE s # t
      BY <1>0, <2>1, <2>2, DriveFrame DEF TypeOK
    <2>3. CASE s = t
      <3>1. /\ reply'[t] = [after |-> ran[e], halt |-> halt]
            /\ reply'[t] # None
            /\ request'[t] = None
            /\ conn[t] = e /\ client[e] = t /\ request[t] # None
        <4>1. ran[e] \in Seq(Session \X (1..ProgramLength))
          BY DEF TypeOK, Instruction
        <4>2. [after |-> ran[e], halt |-> halt] # None
          BY <4>1
        <4>3. QED
          BY <2>1, <2>3, <4>2 DEF Serves, TypeOK
      <3>2. CASE pc[t] = "receive"
        <4>1. Len(events[t]) = ProgramLength
          BY <2>1, <2>3, <3>1, <3>2 DEF DriveInv, Answered, Asked, EndOfTrace, TypeOK
        <4>2. Answered(t)'
          BY <1>0, <2>1, <3>1, <4>1 DEF Answered
        <4>3. QED
          BY <1>0, <3>2, <4>2 DEF DriveInv, Before
      <3>3. CASE pc[t] # "receive"
        <4>1. pc[t] \notin Before \cup {"send"}
          BY <3>1 DEF DriveInv, Quiet
        <4>2. QED
          BY <1>0, <3>3, <4>1 DEF DriveInv
      <3>4. QED
        BY <3>2, <3>3
    <2>4. QED
      BY <2>2, <2>3
  <1>5. CASE ClientLeaves(e)
    <2>1. /\ Closed(client[e])
          /\ conn' = [conn EXCEPT ![client[e]] = None]
          /\ UNCHANGED <<request, reply, ran>>
          /\ \A f \in Emulator : f # e => client'[f] = client[f]
      BY <1>5 DEF ClientLeaves, TypeOK
    <2>2. CASE client[e] = t
      <3>1. pc[t] \in {"drain", "done", "refused"}
        BY <2>1, <2>2 DEF Closed
      <3>2. QED
        BY <1>0, <3>1 DEF DriveInv, Before
    <2>3. CASE client[e] # t
      <3>1. conn'[t] = conn[t]
        BY <2>1, <2>3 DEF TypeOK
      <3>2. conn[t] \in Emulator /\ client[conn[t]] = t => client'[conn[t]] = t
        BY <2>1, <2>3
      <3>3. QED
        BY <1>0, <2>1, <3>1, <3>2 DEF DriveInv, Quiet, Asked, Answered, OwnMachine
    <2>4. QED
      BY <2>2, <2>3
  <1>6. QED
    BY <1>1, <1>2, <1>3, <1>4, <1>5 DEF EmulatorStep

-----------------------------------------------------------------------------
(* The theorems.                                                           *)

\* The strengthened invariant holds in every reachable state.
THEOREM IInvInvariant == Spec => []IInv
  <1>1. IInv /\ [Next]_vars => IInv'
    <2> SUFFICES ASSUME IInv, [Next]_vars
                 PROVE  IInv'
      OBVIOUS
    <2>1. ASSUME NEW t \in Session
          PROVE  DriveInv(t)'
      <3>1. CASE \E s \in Session : SessionStep(s)
        BY <3>1, DriveStepOfSession
      <3>2. CASE \E e \in Emulator : EmulatorStep(e) \/ Crash(e)
        BY <3>2, DriveStepOfEmulator
      <3>3. CASE UNCHANGED vars
        BY <3>3, DriveFrame DEF vars, session, wire, sail, IInv
      <3>4. QED
        BY <3>1, <3>2, <3>3 DEF Next
    <2>2. QED
      BY <2>1, TypeStep, EmulatorStepInv, TraceStep DEF IInv
  <1>2. QED
    BY InitIInv, <1>1, PTL DEF Spec

\* Every variable keeps its type: no session is started more often than
\* START_ATTEMPTS, no command other than those of drive is sent.
THEOREM TypeCorrect == Spec => []TypeOK
  <1>1. IInv => TypeOK
    BY DEF IInv
  <1>2. QED
    BY <1>1, IInvInvariant, PTL

\* The trace run_program returns is the execution of the session's own program
\* from reset, whatever emulator its stream reached.
THEOREM AcceptedTraceCorrect == Spec => []AcceptedTraceIsOwnRun
  <1>1. IInv => AcceptedTraceIsOwnRun
    BY DEF IInv, TraceInv, AcceptedTraceIsOwnRun
  <1>2. QED
    BY <1>1, IInvInvariant, PTL

-----------------------------------------------------------------------------
(* The refinement: a step that turns a packet into an event is Execute, a   *)
(* step that ends run_program is Answer, and every other step stutters.     *)

Seen(s) == IF events[s] = << >> THEN << >> ELSE events[s][Len(events[s])]
Halted(s) == drove[s] = "completed"

\* What a session has seen is a prefix of its program.
LEMMA SeenIsPrefix ==
  ASSUME TypeOK, NEW s \in Session, TraceInv(s)
  PROVE  Seen(s) = Prefix(s, Len(events[s])) /\ Len(Seen(s)) = Len(events[s])
  <1>1. Len(events[s]) \in 0..ProgramLength
    BY DEF TypeOK, TraceInv
  <1>2. Len(Prefix(s, Len(events[s]))) = Len(events[s])
    BY <1>1, PrefixFacts
  <1>3. CASE events[s] = << >>
    <2>1. Prefix(s, 0) = << >>
      BY DEF Prefix
    <2>2. QED
      BY <1>2, <1>3, <2>1 DEF Seen
  <1>4. CASE events[s] # << >>
    <2>1. Len(events[s]) \in DOMAIN events[s]
      BY <1>4 DEF TypeOK
    <2>2. QED
      BY <1>2, <1>4, <2>1 DEF Seen, TraceInv
  <1>5. QED
    BY <1>3, <1>4

\* A step that changes no event, no halt and no result is invisible.
LEMMA StutterUnlessSeen ==
  ASSUME UNCHANGED <<events, result>>,
         \A s \in Session : Halted(s)' = Halted(s)
  PROVE  UNCHANGED Abstract!absVars
  BY DEF Abstract!absVars, Halted

\* A session that returns answers with its trace or with an error.
LEMMA AnswerRefines ==
  ASSUME TypeOK, NEW s \in Session, TraceInv(s), UNCHANGED <<events, drove>>,
         result[s] = "none", NEW v \in {"ok", "err"},
         result' = [result EXCEPT ![s] = v],
         v = "ok" => drove[s] \in {"injection_complete", "completed"}
  PROVE  Abstract!Answer(s)
  <1>1. v = "ok" => Halted(s) \/ Seen(s) = Prefix(s, ProgramLength)
    BY SeenIsPrefix DEF TraceInv, Halted
  <1>2. Abstract!Prefix(s, ProgramLength) = Prefix(s, ProgramLength)
    BY DEF Abstract!Prefix, Prefix
  <1>3. QED
    BY <1>1, <1>2 DEF Abstract!Answer, Seen, Halted

\* A packet that becomes an event is one execution of the isolated run.
LEMMA EventRefines ==
  ASSUME IInv, IInv', NEW s \in Session, ReceiveEvent(s)
  PROVE  Abstract!Execute(s) \/ UNCHANGED Abstract!absVars
  <1> USE DEF IInv
  <1>1. /\ pc[s] = "receive"
        /\ Len(events[s]) < ProgramLength
        /\ UNCHANGED result
        /\ \A t \in Session : t # s => events'[t] = events[t] /\ drove'[t] = drove[t]
    BY DEF ReceiveEvent, TypeOK
  <1>2. drove[s] = "none" /\ result[s] = "none"
    BY <1>1 DEF DriveInv, TraceInv, TypeOK
  <1>3. CASE events[s] = << >> /\ ~ StartedFromReset(reply[s])
    <2>1. UNCHANGED <<events, result>>
      BY <1>3 DEF ReceiveEvent
    <2>2. drove' = [drove EXCEPT ![s] = "err"]
      BY <1>3 DEF ReceiveEvent
    <2>3. \A t \in Session : Halted(t)' = Halted(t)
      BY <1>2, <2>2 DEF Halted, TypeOK
    <2>4. QED
      BY <2>1, <2>3, StutterUnlessSeen
  <1>4. CASE ~ (events[s] = << >> /\ ~ StartedFromReset(reply[s]))
    <2>1. Len(events'[s]) = Len(events[s]) + 1
      <3>1. reply[s].after \in Seq(Instruction) /\ events'[s] = Append(events[s], reply[s].after)
        BY <1>4 DEF ReceiveEvent, TypeOK, Packet
      <3>2. QED
        BY <3>1 DEF TypeOK
    <2>2. Seen(s)' = Prefix(s, Len(Seen(s)) + 1) /\ Len(Seen(s)) < ProgramLength
      <3>1. Len(Seen(s)) = Len(events[s]) /\ Len(events[s]) \in Nat
        BY SeenIsPrefix DEF TypeOK
      <3>2. events'[s] # << >> /\ Len(events'[s]) \in DOMAIN events'[s]
        BY <2>1, <3>1 DEF TypeOK
      <3>3. Seen(s)' = Prefix(s, Len(events'[s]))
        BY <3>2 DEF Seen, TraceInv, Prefix
      <3>4. QED
        BY <1>1, <2>1, <3>1, <3>3
    <2>3. ~ Halted(s) /\ Halted(s)' \in BOOLEAN
      BY <1>2 DEF Halted
    <2>4. \A t \in Session : t # s => Seen(t)' = Seen(t) /\ Halted(t)' = Halted(t)
      BY <1>1 DEF Seen, Halted
    <2>5. QED
      <3>1. [t \in Session |-> Seen(t)'] =
              [[t \in Session |-> Seen(t)] EXCEPT ![s] = Prefix(s, Len(Seen(s)) + 1)]
        BY <2>2, <2>4
      <3>2. [t \in Session |-> Halted(t)'] =
              [[t \in Session |-> Halted(t)] EXCEPT ![s] = Halted(s)']
        BY <2>4
      <3>3. Abstract!Prefix(s, Len(Seen(s)) + 1) = Prefix(s, Len(Seen(s)) + 1)
        BY DEF Abstract!Prefix, Prefix
      <3>4. QED
        BY <1>1, <1>2, <2>2, <2>3, <3>1, <3>2, <3>3 DEF Abstract!Execute, Seen, Halted
  <1>5. QED
    BY <1>3, <1>4

\* Every step of the protocol is a step of the isolated runs or invisible.
LEMMA StepRefines ==
  ASSUME IInv, IInv', [Next]_vars
  PROVE  [Abstract!Next]_(Abstract!absVars)
  <1> USE DEF IInv
  <1>1. ASSUME NEW s \in Session, ReceiveEvent(s)
        PROVE  Abstract!Execute(s) \/ UNCHANGED Abstract!absVars
    BY <1>1, EventRefines
  <1>2. ASSUME NEW s \in Session, StartImpossible(s)
        PROVE  Abstract!Answer(s)
    BY <1>2, AnswerRefines DEF StartImpossible, TraceInv
  <1>3. ASSUME NEW s \in Session, Dial(s)
        PROVE  Abstract!Answer(s) \/ UNCHANGED Abstract!absVars
    <2>1. UNCHANGED <<events, drove>> /\ result[s] = "none"
      BY <1>3 DEF Dial, TraceInv
    <2>2. UNCHANGED result \/ result' = [result EXCEPT ![s] = "err"]
      BY <1>3 DEF Dial
    <2>3. QED
      BY <2>1, <2>2, AnswerRefines, StutterUnlessSeen DEF Halted
  <1>4. ASSUME NEW s \in Session, StartFails(s)
        PROVE  Abstract!Answer(s) \/ UNCHANGED Abstract!absVars
    <2>1. UNCHANGED <<events, drove>> /\ result[s] = "none"
      BY <1>4 DEF StartFails, TraceInv
    <2>2. UNCHANGED result \/ result' = [result EXCEPT ![s] = "err"]
      BY <1>4 DEF StartFails
    <2>3. QED
      BY <2>1, <2>2, AnswerRefines, StutterUnlessSeen DEF Halted
  <1>5. ASSUME NEW s \in Session, Reap(s)
        PROVE  Abstract!Answer(s)
    <2>1. /\ UNCHANGED <<events, drove>>
          /\ result[s] = "none"
          /\ result' = [result EXCEPT ![s] = IF TraceCounts(s) THEN "ok" ELSE "err"]
      BY <1>5 DEF Reap, TraceInv
    <2>2. TraceCounts(s) => drove[s] \in {"injection_complete", "completed"}
      BY <1>5 DEF Reap, TraceCounts, DriveInv, TypeOK
    <2>3. QED
      BY <2>1, <2>2, AnswerRefines
  <1>6. ASSUME NEW s \in Session, ReceiveFinal(s)
        PROVE  UNCHANGED Abstract!absVars
    <2>1. UNCHANGED <<events, result>> /\ pc[s] = "receive"
      BY <1>6 DEF ReceiveFinal
    <2>2. PICK d \in {"injection_complete", "err"} : drove' = [drove EXCEPT ![s] = d]
      BY <1>6 DEF ReceiveFinal
    <2>3. drove[s] = "none"
      BY <2>1 DEF DriveInv
    <2>4. QED
      BY <2>1, <2>2, <2>3, StutterUnlessSeen DEF Halted, TypeOK
  <1>7. ASSUME NEW s \in Session, SendFails(s) \/ ReceiveFails(s)
        PROVE  UNCHANGED Abstract!absVars
    <2>1. UNCHANGED <<events, result>> /\ pc[s] \in {"send", "receive"}
      BY <1>7 DEF SendFails, ReceiveFails
    <2>2. drove' = [drove EXCEPT ![s] = "err"]
      BY <1>7 DEF SendFails, ReceiveFails
    <2>3. drove[s] = "none"
      BY <2>1 DEF DriveInv
    <2>4. QED
      BY <2>1, <2>2, <2>3, StutterUnlessSeen DEF Halted, TypeOK
  <1>8. ASSUME NEW s \in Session,
               \/ StartOnce(s) \/ Poll(s) \/ DialAgain(s) \/ DialTimesOut(s)
               \/ Send(s) \/ CloseStream(s)
        PROVE  UNCHANGED Abstract!absVars
    BY <1>8, StutterUnlessSeen
    DEF StartOnce, Poll, DialAgain, DialTimesOut, Send, CloseStream, Halted
  <1>9. ASSUME NEW e \in Emulator, EmulatorStep(e) \/ Crash(e)
        PROVE  UNCHANGED Abstract!absVars
    BY <1>9, SessionsUntouched, StutterUnlessSeen DEF session, Halted
  <1>10. ASSUME UNCHANGED vars
         PROVE  UNCHANGED Abstract!absVars
    BY <1>10, StutterUnlessSeen DEF vars, session, Halted
  <1>11. QED
    BY <1>1, <1>2, <1>3, <1>4, <1>5, <1>6, <1>7, <1>8, <1>9, <1>10
    DEF Next, SessionStep, Abstract!Next

\* Any number of concurrent sessions are isolated runs: each reports what it
\* would have reported on an emulator of its own.
THEOREM SessionsAreIsolated == Spec => ImplementsIsolatedRun
  <1>1. Init => Abstract!Init
    BY DEF Init, Abstract!Init
  <1>2. IInv /\ IInv' /\ [Next]_vars => [Abstract!Next]_(Abstract!absVars)
    BY StepRefines
  <1>3. QED
    BY <1>1, <1>2, IInvInvariant, PTL DEF Spec, Abstract!Spec, ImplementsIsolatedRun

-----------------------------------------------------------------------------
(* The children of a session, its retries and its siblings.                *)

Holding == {"poll", "dial", "failed"}

\* The emulators of former attempts are reaped; those of an ended session too.
ChildInv ==
  \A s \in Session, k \in 1..StartAttempts :
    /\ k < attempt[s] => emu[<<s, k>>] = "gone"
    /\ pc[s] = "done" => emu[<<s, k>>] \in {"none", "gone"}

\* Before the stream is open nothing of the session has been executed.
CleanInv ==
  \A s \in Session : pc[s] \in Before =>
    \A e \in Emulator : \A i \in DOMAIN ran[e] : ran[e][i][1] # s

\* A session that is between StartOnce and Dial holds STARTUP.
LockInv == \A s \in Session : pc[s] \in Holding => lock[ProcessOf[s]] = s

\* Among siblings: an emulator that has yet to bind belongs to the session that
\* holds STARTUP, and nobody else's emulator is on the port of that session.
SiblingInv ==
  /\ \A s \in Session, k \in 1..StartAttempts :
       emu[<<s, k>>] = "starting" => k = attempt[s] /\ pc[s] \in Holding
  /\ \A s \in Session : pc[s] \in Holding =>
       \A e \in Emulator :
         emu[e] \in {"listening", "serving"} /\ Owner(e) # s => port[Owner(e)] # port[s]
  /\ SiblingsNeverCross

\* The life of an emulator goes forward, and only a session starts or reaps one.
LEMMA EmulatorMoves ==
  ASSUME IInv, NEW e \in Emulator, EmulatorStep(e) \/ Crash(e)
  PROVE  /\ UNCHANGED session
         /\ \A f \in Emulator : f # e => emu'[f] = emu[f]
         /\ emu'[e] # emu[e] => emu[e] \in Alive /\ emu'[e] \in {"listening", "serving"} \cup Exited
         /\ emu'[e] = "listening" => emu[e] \in {"starting", "listening", "serving"}
         /\ emu'[e] = "serving" => emu[e] \in {"listening", "serving"}
  <1> USE DEF IInv
  <1>1. emu \in [Emulator -> {"none", "gone"} \cup Alive \cup Exited]
    BY DEF TypeOK
  <1>2. CASE Bind(e)
    <2>1. PICK life \in {"listening", "lost_race"} : emu' = [emu EXCEPT ![e] = life]
      BY <1>2 DEF Bind
    <2>2. QED
      BY <1>1, <1>2, <2>1 DEF Bind, Alive, Exited
  <1>3. CASE Accept(e)
    BY <1>1, <1>3 DEF Accept, Alive, Exited
  <1>4. CASE Execute(e)
    BY <1>1, <1>4 DEF Execute
  <1>5. CASE EndTrace(e)
    <2>1. emu[e] = "serving" /\ emu' = [emu EXCEPT ![e] = "exit_ok"] /\ UNCHANGED session
      BY <1>5 DEF EndTrace, Serves
    <2>2. QED
      BY <1>1, <2>1 DEF Alive, Exited
  <1>6. CASE ClientLeaves(e)
    <2>1. PICK life \in {"exit_ok", "exit_fail", "listening"} : emu' = [emu EXCEPT ![e] = life]
      BY <1>6 DEF ClientLeaves
    <2>2. emu[e] = "serving" /\ UNCHANGED session
      BY <1>6 DEF ClientLeaves
    <2>3. QED
      BY <1>1, <2>1, <2>2 DEF Alive, Exited
  <1>7. CASE Crash(e)
    BY <1>1, <1>7 DEF Crash, Alive, Exited
  <1>8. QED
    BY <1>2, <1>3, <1>4, <1>5, <1>6, <1>7 DEF EmulatorStep

\* The steps of a session that leave the emulators, its attempt and its end alone.
Quietly(s) ==
  \/ Poll(s) \/ Dial(s) \/ DialAgain(s) \/ DialTimesOut(s) \/ Send(s) \/ SendFails(s)
  \/ ReceiveEvent(s) \/ ReceiveFinal(s) \/ ReceiveFails(s) \/ CloseStream(s)

\* What such a step changes of its session, and that it touches no other.
LEMMA QuietMoves ==
  ASSUME IInv, NEW s \in Session, Quietly(s)
  PROVE  /\ UNCHANGED <<attempt, port, emu, ran>>
         /\ \A t \in Session : t # s => pc'[t] = pc[t]
         /\ pc'[s] \notin {"start", "done"}
         /\ pc'[s] \in Before => pc[s] \in Before
         /\ pc'[s] \in Holding => pc[s] \in Holding
         /\ ~ Dial(s) => UNCHANGED <<lock, conn>> /\ (pc[s] \in Holding => pc'[s] \in Holding)
  <1> USE DEF IInv
  <1>1. pc \in [Session -> {"start", "poll", "dial", "failed", "send", "receive",
                          "close", "drain", "done", "refused"}]
    BY DEF TypeOK
  <1>2. CASE Dial(s)
    <2>1. PICK place \in {"send", "refused"} : pc' = [pc EXCEPT ![s] = place]
      BY <1>2 DEF Dial
    <2>2. UNCHANGED <<attempt, port, emu, ran>>
      BY <1>2 DEF Dial, sail
    <2>3. QED
      BY <1>1, <1>2, <2>1, <2>2 DEF Before, Holding
  <1>3. CASE Poll(s) \/ DialAgain(s) \/ DialTimesOut(s)
    BY <1>1, <1>3 DEF Poll, DialAgain, DialTimesOut, Refused, Before, Holding, wire, sail
  <1>4. CASE Send(s) \/ SendFails(s) \/ ReceiveFails(s) \/ CloseStream(s)
    BY <1>1, <1>4 DEF Send, SendFails, ReceiveFails, CloseStream, Before, Holding, wire, sail
  <1>5. CASE ReceiveEvent(s) \/ ReceiveFinal(s)
    <2>1. PICK place \in {"send", "close"} : pc' = [pc EXCEPT ![s] = place]
      BY <1>5 DEF ReceiveEvent, ReceiveFinal
    <2>2. UNCHANGED <<attempt, port, emu, ran, lock, conn>> /\ pc[s] = "receive"
      BY <1>5 DEF ReceiveEvent, ReceiveFinal, sail
    <2>3. QED
      BY <1>1, <2>1, <2>2 DEF Before, Holding
  <1>6. QED
    BY <1>2, <1>3, <1>4, <1>5 DEF Quietly

\* A session leaves no child: of its former attempts, nor at its end.
LEMMA ChildStep == ASSUME IInv, ChildInv, [Next]_vars PROVE ChildInv'
  <1> USE DEF IInv
  <1>1. \A t \in Session, k \in 1..StartAttempts : <<t, k>> \in Emulator
    BY DEF Emulator
  <1>2. ASSUME NEW s \in Session, Quietly(s) PROVE ChildInv'
    BY <1>2, QuietMoves DEF ChildInv
  <1>3. /\ \A s \in Session : attempt[s] \in 1..StartAttempts
        /\ pc = [t \in Session |-> pc[t]] /\ attempt = [t \in Session |-> attempt[t]]
        /\ emu = [f \in Emulator |-> emu[f]]
    BY DEF TypeOK
  <1>4. ASSUME NEW s \in Session, NEW place, NEW life,
               pc' = [pc EXCEPT ![s] = place], emu' = [emu EXCEPT ![<<s, attempt[s]>>] = life],
               UNCHANGED attempt, place = "done" => life \in {"none", "gone"}
        PROVE  ChildInv'
    <2> SUFFICES ASSUME NEW t \in Session, NEW k \in 1..StartAttempts
                 PROVE  /\ k < attempt[t] => emu'[<<t, k>>] = "gone"
                        /\ pc'[t] = "done" => emu'[<<t, k>>] \in {"none", "gone"}
      BY <1>4 DEF ChildInv
    <2>1. CASE t = s /\ k = attempt[s]
      BY <1>1, <1>3, <1>4, <2>1
    <2>2. CASE t # s
      BY <1>1, <1>3, <1>4, <2>2 DEF ChildInv
    <2>3. CASE t = s /\ k # attempt[s]
      <3>1. emu'[<<t, k>>] = emu[<<t, k>>]
        BY <1>1, <1>3, <1>4, <2>3
      <3>2. k < attempt[t] => emu[<<t, k>>] = "gone"
        BY DEF ChildInv
      <3>3. k > attempt[t] => emu[<<t, k>>] = "none"
        BY DEF EmulatorInv
      <3>4. QED
        BY <1>3, <1>4, <2>3, <3>1, <3>2, <3>3
    <2>4. QED
      BY <2>1, <2>2, <2>3
  <1>5. ASSUME NEW s \in Session, StartOnce(s) PROVE ChildInv'
    BY <1>4, <1>5 DEF StartOnce, Child
  <1>6. ASSUME NEW s \in Session, StartImpossible(s) PROVE ChildInv'
    <2>1. emu[<<s, attempt[s]>>] = "none"
      BY <1>3, <1>6 DEF StartImpossible, EmulatorInv
    <2>2. emu' = [emu EXCEPT ![<<s, attempt[s]>>] = "none"]
      BY <1>1, <1>3, <1>6, <2>1 DEF StartImpossible, sail
    <2>3. QED
      BY <1>4, <1>6, <2>2 DEF StartImpossible
  <1>7. ASSUME NEW s \in Session, Reap(s) PROVE ChildInv'
    BY <1>4, <1>7 DEF Reap, WaitForChild, Child
  <1>8. ASSUME NEW s \in Session, StartFails(s) PROVE ChildInv'
    <2>1. emu' = [emu EXCEPT ![<<s, attempt[s]>>] = "gone"]
      BY <1>8 DEF StartFails, WaitForChild, Child
    <2>2. CASE attempt' = attempt /\ pc' = [pc EXCEPT ![s] = "done"]
      BY <1>4, <2>1, <2>2
    <2>3. CASE attempt' = [attempt EXCEPT ![s] = @ + 1] /\ pc' = [pc EXCEPT ![s] = "start"]
      <3> SUFFICES ASSUME NEW t \in Session, NEW k \in 1..StartAttempts
                   PROVE  /\ k < attempt'[t] => emu'[<<t, k>>] = "gone"
                          /\ pc'[t] = "done" => emu'[<<t, k>>] \in {"none", "gone"}
        BY DEF ChildInv
      <3>1. CASE t # s
        BY <1>1, <1>3, <2>1, <2>3, <3>1 DEF ChildInv
      <3>2. CASE t = s
        <4>1. attempt'[t] = attempt[t] + 1 /\ pc'[t] = "start"
          BY <1>3, <2>3, <3>2
        <4>2. CASE k = attempt[t]
          <5>1. emu'[<<t, k>>] = "gone"
            BY <1>1, <1>3, <2>1, <3>2, <4>2
          <5>2. QED
            BY <4>1, <5>1
        <4>3. CASE k # attempt[t]
          <5>1. emu'[<<t, k>>] = emu[<<t, k>>]
            BY <1>1, <1>3, <2>1, <3>2, <4>3
          <5>2. k < attempt'[t] => k < attempt[t]
            BY <1>3, <4>1, <4>3
          <5>3. QED
            BY <4>1, <5>1, <5>2 DEF ChildInv
        <4>4. QED
          BY <4>2, <4>3
      <3>3. QED
        BY <3>1, <3>2
    <2>4. QED
      BY <1>8, <2>2, <2>3 DEF StartFails
  <1>9. ASSUME NEW e \in Emulator, EmulatorStep(e) \/ Crash(e) PROVE ChildInv'
    <2>1. \A f \in Emulator : emu[f] \in {"none", "gone"} => emu'[f] = emu[f]
      BY <1>9, EmulatorMoves DEF Alive
    <2>2. UNCHANGED <<pc, attempt>>
      BY <1>9, EmulatorMoves DEF session
    <2>3. QED
      BY <1>1, <2>1, <2>2 DEF ChildInv
  <1>10. CASE UNCHANGED vars
    BY <1>10 DEF ChildInv, vars, session, sail
  <1>11. QED
    BY <1>2, <1>5, <1>6, <1>7, <1>8, <1>9, <1>10 DEF Next, SessionStep, Quietly

\* No emulator executes an instruction of a session that has not connected.
LEMMA CleanStep == ASSUME IInv, CleanInv, [Next]_vars PROVE CleanInv'
  <1> USE DEF IInv
  <1>1. /\ pc = [t \in Session |-> pc[t]]
        /\ ran \in [Emulator -> Seq(Instruction)]
    BY DEF TypeOK
  <1>2. ASSUME NEW s \in Session, Quietly(s) PROVE CleanInv'
    BY <1>2, QuietMoves DEF CleanInv
  <1>3. ASSUME NEW s \in Session, StartOnce(s) \/ StartImpossible(s) \/ StartFails(s) \/ Reap(s)
        PROVE  CleanInv'
    <2>1. ran' = ran /\ \A t \in Session : pc'[t] \in Before => pc[t] \in Before
      <3>1. ran' = ran
        BY <1>3 DEF StartOnce, StartImpossible, StartFails, Reap, sail
      <3>2. PICK place \in {"poll", "done", "start"} : pc' = [pc EXCEPT ![s] = place]
        BY <1>3 DEF StartOnce, StartImpossible, StartFails, Reap
      <3>3. place # "done" => pc[s] \in Before
        BY <1>1, <1>3, <3>2 DEF StartOnce, StartImpossible, StartFails, Reap, Before
      <3>4. QED
        BY <1>1, <3>1, <3>2, <3>3 DEF Before
    <2>2. QED
      BY <2>1 DEF CleanInv
  <1>4. ASSUME NEW e \in Emulator, Execute(e) PROVE CleanInv'
    <2>1. PICK s \in Session :
            /\ request[s] # None
            /\ ran' = [ran EXCEPT ![e] = Append(@, <<s, request[s]>>)]
            /\ pc' = pc
      BY <1>4 DEF Execute, Serves, session
    <2>2. pc[s] \notin Before
      BY <2>1 DEF DriveInv, Quiet
    <2> SUFFICES ASSUME NEW t \in Session, pc[t] \in Before, NEW f \in Emulator, NEW i \in DOMAIN ran'[f]
                 PROVE  ran'[f][i][1] # t
      BY <2>1 DEF CleanInv
    <2>3. CASE f # e
      BY <1>1, <2>1, <2>3 DEF CleanInv
    <2>4. CASE f = e
      <3>1. ran'[f] = Append(ran[e], <<s, request[s]>>) /\ ran[e] \in Seq(Instruction)
        BY <1>1, <2>1, <2>4
      <3>2. CASE i \in DOMAIN ran[e]
        <4>1. ran'[f][i] = ran[e][i]
          BY <3>1, <3>2
        <4>2. QED
          BY <3>2, <4>1 DEF CleanInv
      <3>3. CASE i \notin DOMAIN ran[e]
        <4>1. ran'[f][i] = <<s, request[s]>>
          BY <3>1, <3>3
        <4>2. QED
          BY <2>2, <4>1
      <3>4. QED
        BY <3>2, <3>3
    <2>5. QED
      BY <2>3, <2>4
  <1>5. ASSUME NEW e \in Emulator, Bind(e) \/ Accept(e) \/ EndTrace(e) \/ ClientLeaves(e) \/ Crash(e)
        PROVE  CleanInv'
    BY <1>5 DEF Bind, Accept, EndTrace, ClientLeaves, Crash, session, CleanInv
  <1>6. CASE UNCHANGED vars
    BY <1>6 DEF CleanInv, vars, session, sail
  <1>7. QED
    BY <1>2, <1>3, <1>4, <1>5, <1>6 DEF Next, SessionStep, EmulatorStep, Quietly

\* STARTUP is held by the session between StartOnce and Dial, whatever the others do.
LEMMA LockStep == ASSUME IInv, LockInv, [Next]_vars PROVE LockInv'
  <1> USE DEF IInv
  <1>1. /\ pc = [t \in Session |-> pc[t]] /\ lock = [q \in Process |-> lock[q]]
        /\ \A t \in Session : ProcessOf[t] \in Process /\ t # None
    BY DEF TypeOK
  <1>2. ASSUME NEW s \in Session, Quietly(s), ~ Dial(s) PROVE LockInv'
    BY <1>2, QuietMoves DEF LockInv
  <1>3. ASSUME NEW s \in Session, StartOnce(s) PROVE LockInv'
    <2>1. /\ lock[ProcessOf[s]] = None /\ lock' = [lock EXCEPT ![ProcessOf[s]] = s]
          /\ pc' = [pc EXCEPT ![s] = "poll"]
      BY <1>3 DEF StartOnce, LockStartup
    <2>2. QED
      BY <1>1, <2>1 DEF LockInv
  <1>4. ASSUME NEW s \in Session, Dial(s) \/ StartFails(s) PROVE LockInv'
    <2>1. lock' = [lock EXCEPT ![ProcessOf[s]] = None] /\ pc[s] \in Holding
      BY <1>4 DEF Dial, StartFails, UnlockStartup, Holding
    <2>2. PICK place \in {"send", "refused", "start", "done"} : pc' = [pc EXCEPT ![s] = place]
      BY <1>4 DEF Dial, StartFails
    <2>3. pc'[s] \notin Holding /\ \A t \in Session : t # s => pc'[t] = pc[t]
      BY <1>1, <2>2 DEF Holding
    <2> SUFFICES ASSUME NEW t \in Session, t # s, pc[t] \in Holding PROVE lock'[ProcessOf[t]] = t
      BY <2>3 DEF LockInv
    <2>4. lock[ProcessOf[t]] = t /\ lock[ProcessOf[s]] = s
      BY <2>1 DEF LockInv
    <2>5. QED
      BY <1>1, <2>1, <2>4
  <1>5. ASSUME NEW s \in Session, StartImpossible(s) \/ Reap(s) PROVE LockInv'
    BY <1>1, <1>5 DEF StartImpossible, Reap, LockInv, Holding
  <1>6. ASSUME NEW e \in Emulator, EmulatorStep(e) \/ Crash(e) PROVE LockInv'
    BY <1>6, SessionsUntouched DEF session, LockInv
  <1>7. CASE UNCHANGED vars
    BY <1>7 DEF LockInv, vars, session
  <1>8. QED
    BY <1>2, <1>3, <1>4, <1>5, <1>6, <1>7 DEF Next, SessionStep, Quietly

\* The sessions are threads of one process.
OneStartup == \A s, t \in Session : ProcessOf[s] = ProcessOf[t]

\* Of the sessions of one process, one at a time is between StartOnce and Dial.
LEMMA OneHolds ==
  ASSUME OneStartup, IInv, LockInv, NEW s \in Session, NEW t \in Session,
         pc[s] \in Holding, pc[t] \in Holding
  PROVE  s = t
  BY DEF OneStartup, LockInv

\* What a session reaches on its port is its own emulator, because no sibling
\* can bind the port between the reservation and the connection.
LEMMA SiblingStep ==
  ASSUME OneStartup, IInv, ChildInv, LockInv, SiblingInv, [Next]_vars
  PROVE  SiblingInv'
  <1> USE DEF IInv
  <1>1. /\ pc = [t \in Session |-> pc[t]] /\ emu = [f \in Emulator |-> emu[f]]
        /\ conn = [t \in Session |-> conn[t]] /\ port = [t \in Session |-> port[t]]
        /\ \A s \in Session : attempt[s] \in 1..StartAttempts
    BY DEF TypeOK
  <1>2. /\ \A t \in Session, k \in 1..StartAttempts : <<t, k>> \in Emulator /\ Owner(<<t, k>>) = t
        /\ \A e \in Emulator : /\ Owner(e) \in Session
                               /\ \E k \in 1..StartAttempts : e = <<Owner(e), k>>
    BY DEF Emulator, Owner
  <1>3. ASSUME NEW s \in Session, Quietly(s), ~ Dial(s) PROVE SiblingInv'
    <2>1. UNCHANGED <<attempt, port, emu, conn>>
          /\ \A t \in Session : pc'[t] \in Holding <=> pc[t] \in Holding
      BY <1>3, QuietMoves
    <2>2. QED
      BY <2>1 DEF SiblingInv, SiblingsNeverCross
  <1>4. ASSUME NEW s \in Session, Dial(s) PROVE SiblingInv'
    <2>1. PICK e \in Emulator : ListensOn(e, port[s]) /\ conn' = [conn EXCEPT ![s] = e]
      BY <1>4 DEF Dial
    <2>2. pc[s] \in Holding /\ UNCHANGED <<attempt, port, emu>>
      BY <1>4 DEF Dial, Holding, sail
    <2>3. emu[e] \in {"listening", "serving"} /\ port[Owner(e)] = port[s]
      BY <2>1 DEF ListensOn, Listens
    <2>4. Owner(e) = s
      BY <2>2, <2>3 DEF SiblingInv
    <2>5. PICK k \in 1..StartAttempts : e = <<s, k>>
      BY <1>2, <2>4
    <2>6. k = attempt[s]
      <3>1. k < attempt[s] => emu[e] = "gone"
        BY <2>5 DEF ChildInv
      <3>2. k > attempt[s] => emu[e] = "none"
        BY <2>5 DEF EmulatorInv
      <3>3. QED
        BY <1>1, <2>3, <3>1, <3>2
    <2>7. \A t \in Session, j \in 1..StartAttempts : emu[<<t, j>>] # "starting"
      <3> SUFFICES ASSUME NEW t \in Session, NEW j \in 1..StartAttempts, emu[<<t, j>>] = "starting"
                   PROVE  FALSE
        OBVIOUS
      <3>1. j = attempt[t] /\ pc[t] \in Holding
        BY DEF SiblingInv
      <3>2. t = s
        BY <2>2, <3>1, OneHolds
      <3>3. QED
        BY <2>3, <2>5, <2>6, <3>1, <3>2
    <2>8. \A t \in Session : pc'[t] \notin Holding
      <3>1. PICK place \in {"send", "refused"} : pc' = [pc EXCEPT ![s] = place]
        BY <1>4 DEF Dial
      <3>2. pc'[s] = place /\ \A t \in Session : t # s => pc'[t] = pc[t]
        BY <1>1, <3>1
      <3>3. \A t \in Session : t # s => pc[t] \notin Holding
        BY <2>2, OneHolds
      <3>4. QED
        BY <3>1, <3>2, <3>3 DEF Holding
    <2>9. SiblingsNeverCross'
      <3>1. \A t \in Session : conn'[t] = IF t = s THEN e ELSE conn[t]
        BY <1>1, <2>1
      <3>2. QED
        BY <2>4, <3>1 DEF SiblingInv, SiblingsNeverCross
    <2>10. QED
      BY <2>2, <2>7, <2>8, <2>9 DEF SiblingInv
  <1>5. ASSUME NEW s \in Session, StartOnce(s) PROVE SiblingInv'
    <2>1. PICK p \in Port : ~ BusyPort(p) /\ port' = [port EXCEPT ![s] = p]
      BY <1>5 DEF StartOnce
    <2>2. /\ lock[ProcessOf[s]] = None /\ pc' = [pc EXCEPT ![s] = "poll"]
          /\ emu' = [emu EXCEPT ![<<s, attempt[s]>>] = "starting"]
          /\ UNCHANGED <<attempt, conn>>
      BY <1>5 DEF StartOnce, Child, wire
    <2>3. \A t \in Session : pc[t] \notin Holding
      BY <2>2 DEF OneStartup, LockInv
    <2>4. pc'[s] \in Holding /\ \A t \in Session : t # s => pc'[t] \notin Holding
      BY <1>1, <2>2, <2>3 DEF Holding
    <2>5. \A t \in Session, k \in 1..StartAttempts :
            emu'[<<t, k>>] = "starting" => k = attempt'[t] /\ pc'[t] \in Holding
      <3> SUFFICES ASSUME NEW t \in Session, NEW k \in 1..StartAttempts, emu'[<<t, k>>] = "starting"
                   PROVE  k = attempt[t] /\ pc'[t] \in Holding
        BY <2>2
      <3>1. emu[<<t, k>>] # "starting"
        BY <2>3 DEF SiblingInv
      <3>2. <<t, k>> = <<s, attempt[s]>>
        BY <1>1, <1>2, <2>2, <3>1
      <3>3. QED
        BY <2>4, <3>2
    <2>6. ASSUME NEW f \in Emulator, emu'[f] \in {"listening", "serving"}, Owner(f) # s
          PROVE  port'[Owner(f)] # port'[s]
      <3>1. emu'[f] = emu[f]
        BY <1>1, <1>2, <2>2, <2>6
      <3>2. port[Owner(f)] # p
        BY <2>1, <2>6, <3>1 DEF BusyPort
      <3>3. port'[Owner(f)] = port[Owner(f)] /\ port'[s] = p
        BY <1>1, <1>2, <2>1, <2>6
      <3>4. QED
        BY <3>2, <3>3
    <2>7. QED
      BY <2>2, <2>4, <2>5, <2>6 DEF SiblingInv, SiblingsNeverCross
  <1>6. ASSUME NEW s \in Session, StartFails(s) PROVE SiblingInv'
    <2>1. /\ pc[s] \in Holding /\ emu' = [emu EXCEPT ![<<s, attempt[s]>>] = "gone"]
          /\ UNCHANGED <<conn, port>>
      BY <1>6 DEF StartFails, WaitForChild, Child, Holding, wire
    <2>2. \A t \in Session : pc'[t] \notin Holding
      <3>1. PICK place \in {"start", "done"} : pc' = [pc EXCEPT ![s] = place]
        BY <1>6 DEF StartFails
      <3>2. \A t \in Session : t # s => pc[t] \notin Holding
        BY <2>1, OneHolds
      <3>3. QED
        BY <1>1, <3>1, <3>2 DEF Holding
    <2>3. \A t \in Session, k \in 1..StartAttempts : emu'[<<t, k>>] # "starting"
      <3> SUFFICES ASSUME NEW t \in Session, NEW k \in 1..StartAttempts, emu'[<<t, k>>] = "starting"
                   PROVE  FALSE
        OBVIOUS
      <3>1. emu[<<t, k>>] = "starting" /\ <<t, k>> # <<s, attempt[s]>>
        BY <1>1, <1>2, <2>1
      <3>2. k = attempt[t] /\ pc[t] \in Holding
        BY <3>1 DEF SiblingInv
      <3>3. t = s
        BY <2>1, <3>2, OneHolds
      <3>4. QED
        BY <3>1, <3>2, <3>3
    <2>4. QED
      BY <2>1, <2>2, <2>3 DEF SiblingInv, SiblingsNeverCross
  <1>7. ASSUME NEW s \in Session, StartImpossible(s) \/ Reap(s) PROVE SiblingInv'
    <2>1. /\ pc[s] \notin Holding /\ pc' = [pc EXCEPT ![s] = "done"] /\ UNCHANGED <<conn, port, attempt>>
          /\ emu' = emu \/ emu' = [emu EXCEPT ![<<s, attempt[s]>>] = "gone"]
      BY <1>7 DEF StartImpossible, Reap, WaitForChild, Child, Holding, wire, sail
    <2>2. \A t \in Session : (pc'[t] \in Holding <=> pc[t] \in Holding)
      BY <1>1, <2>1 DEF Holding
    <2>3. \A f \in Emulator : emu'[f] # "gone" => emu'[f] = emu[f]
      BY <1>1, <1>2, <2>1
    <2>4. QED
      BY <1>2, <2>1, <2>2, <2>3 DEF SiblingInv, SiblingsNeverCross
  <1>8. ASSUME NEW e \in Emulator, EmulatorStep(e) \/ Crash(e) PROVE SiblingInv'
    <2>1. /\ UNCHANGED <<pc, attempt, port>>
          /\ \A f \in Emulator :
               /\ emu'[f] = "starting" => emu[f] = "starting"
               /\ emu'[f] \in {"listening", "serving"} => emu[f] \in {"starting", "listening", "serving"}
      BY <1>8, EmulatorMoves DEF session, Exited
    <2>2. \A t \in Session : conn'[t] \in {conn[t], None}
      <3>1. conn' = conn \/ conn' = [conn EXCEPT ![client[e]] = None]
        BY <1>8 DEF EmulatorStep, Bind, Accept, Execute, EndTrace, ClientLeaves, Crash, wire
      <3>2. QED
        BY <1>1, <3>1
    <2>3. ASSUME NEW s \in Session, pc[s] \in Holding, NEW f \in Emulator,
                 emu'[f] \in {"listening", "serving"}, Owner(f) # s
          PROVE  port[Owner(f)] # port[s]
      <3>1. CASE emu[f] \in {"listening", "serving"}
        BY <2>3, <3>1 DEF SiblingInv
      <3>2. CASE emu[f] = "starting"
        <4>1. pc[Owner(f)] \in Holding
          BY <1>2, <3>2 DEF SiblingInv
        <4>2. QED
          BY <1>2, <2>3, <4>1, OneHolds
      <3>3. QED
        BY <2>1, <2>3, <3>1, <3>2
    <2>4. SiblingsNeverCross'
      BY <2>2 DEF SiblingInv, SiblingsNeverCross
    <2>5. QED
      BY <1>2, <2>1, <2>3, <2>4 DEF SiblingInv
  <1>9. CASE UNCHANGED vars
    BY <1>9 DEF SiblingInv, SiblingsNeverCross, vars, session, wire, sail
  <1>10. QED
    BY <1>3, <1>4, <1>5, <1>6, <1>7, <1>8, <1>9 DEF Next, SessionStep, Quietly

\* The inductive invariant of the processes: children, instructions and STARTUP.
THEOREM ProcessInvariant == Spec => [](IInv /\ ChildInv /\ CleanInv /\ LockInv)
  <1>1. Init => ChildInv /\ CleanInv /\ LockInv
    BY DEF Init, ChildInv, CleanInv, LockInv, Holding, Emulator
  <1>2. IInv /\ ChildInv /\ CleanInv /\ LockInv /\ [Next]_vars => (ChildInv /\ CleanInv /\ LockInv)'
    BY ChildStep, CleanStep, LockStep
  <1>3. QED
    BY <1>1, <1>2, IInvInvariant, PTL DEF Spec

\* A session that has ended leaves no emulator behind, running or unreaped, over all
\* its attempts; one that ended on a refused socket timeout leaves that of its last
\* attempt at most (start_once's error path and shutdown).
THEOREM NoChildIsLeft == Spec => []EndedSessionsLeaveNoChild
  <1>1. IInv /\ ChildInv => EndedSessionsLeaveNoChild
    <2> SUFFICES ASSUME IInv, ChildInv, NEW s \in Session, NEW k \in 1..StartAttempts,
                        pc[s] = "done" \/ (pc[s] = "refused" /\ k # attempt[s])
                 PROVE  emu[<<s, k>>] \in {"none", "gone"}
      BY DEF EndedSessionsLeaveNoChild
    <2>1. attempt[s] \in 1..StartAttempts
      BY DEF IInv, TypeOK
    <2>2. k < attempt[s] => emu[<<s, k>>] = "gone"
      BY DEF ChildInv
    <2>3. k > attempt[s] => emu[<<s, k>>] = "none"
      BY DEF IInv, EmulatorInv
    <2>4. pc[s] = "done" => emu[<<s, k>>] \in {"none", "gone"}
      BY DEF ChildInv
    <2>5. QED
      BY <2>1, <2>2, <2>3, <2>4
  <1>2. QED
    BY <1>1, ProcessInvariant, PTL

\* Starting again never repeats an injection: the emulator it follows reported
\* BIND_FAILURE and is reaped, and no emulator has executed an instruction of the
\* session (start, StartFailure::LostPortRace).
THEOREM RetriesAreClean == Spec => RetryIsClean
  <1> DEFINE Clean ==
        \A s \in Session : attempt'[s] # attempt[s] =>
          /\ emu[Child(s)] = "lost_race"
          /\ emu'[Child(s)] = "gone"
          /\ \A e \in Emulator : \A i \in DOMAIN ran[e] : ran[e][i][1] # s
  <1>1. ASSUME IInv, CleanInv, [Next]_vars PROVE Clean
    <2> SUFFICES ASSUME IInv, CleanInv, [Next]_vars PROVE Clean
      BY <1>1
    <2> USE DEF IInv
    <2>1. ASSUME NEW s \in Session, StartFails(s) PROVE Clean
      <3>1. CASE LostPortRace(s) /\ AttemptsLeft(s)
        <4>1. /\ attempt' = [attempt EXCEPT ![s] = @ + 1] /\ pc[s] = "failed"
              /\ emu[Child(s)] = "lost_race" /\ emu' = [emu EXCEPT ![Child(s)] = "gone"]
          BY <2>1, <3>1 DEF StartFails, LostPortRace, WaitForChild
        <4>2. \A t \in Session : t # s => attempt'[t] = attempt[t]
          BY <4>1 DEF TypeOK
        <4>3. emu'[Child(s)] = "gone"
          BY <4>1, ChildIsEmulator DEF TypeOK
        <4>4. \A e \in Emulator : \A i \in DOMAIN ran[e] : ran[e][i][1] # s
          BY <4>1 DEF CleanInv, Before
        <4>5. QED
          BY <4>1, <4>2, <4>3, <4>4
      <3>2. CASE ~ (LostPortRace(s) /\ AttemptsLeft(s))
        BY <2>1, <3>2 DEF StartFails
      <3>3. QED
        BY <3>1, <3>2
    <2>2. ASSUME NEW s \in Session, Quietly(s) PROVE Clean
      BY <2>2, QuietMoves
    <2>3. ASSUME NEW s \in Session, StartOnce(s) \/ StartImpossible(s) \/ Reap(s) PROVE Clean
      BY <2>3 DEF StartOnce, StartImpossible, Reap
    <2>4. ASSUME NEW e \in Emulator, EmulatorStep(e) \/ Crash(e) PROVE Clean
      BY <2>4, SessionsUntouched DEF session
    <2>5. CASE UNCHANGED vars
      BY <2>5 DEF vars, session
    <2>6. QED
      BY <2>1, <2>2, <2>3, <2>4, <2>5 DEF Next, SessionStep, Quietly
  <1>2. IInv /\ CleanInv /\ [Next]_vars => [Clean]_vars
    BY <1>1
  <1>3. QED
    BY <1>2, ProcessInvariant, PTL DEF Spec, RetryIsClean

\* The sessions of one process never reach each other's emulators, because STARTUP
\* is held until the emulator of the session owns its port.
THEOREM SiblingsApart ==
  ASSUME OneStartup
  PROVE  Spec => []SiblingsNeverCross
  <1>1. Init => SiblingInv
    BY DEF Init, SiblingInv, SiblingsNeverCross, Holding, Emulator
  <1>2. IInv /\ ChildInv /\ LockInv /\ SiblingInv /\ [Next]_vars => SiblingInv'
    BY SiblingStep
  <1>3. SiblingInv => SiblingsNeverCross
    BY DEF SiblingInv
  <1>4. QED
    BY <1>1, <1>2, <1>3, ProcessInvariant, PTL DEF Spec
=============================================================================
