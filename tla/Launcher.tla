------------------------------- MODULE Launcher -------------------------------
(***************************************************************************)
(* The host launcher: main, from its command line to the exit code, the    *)
(* thread that forwards the guest's serial output and looks for the ready  *)
(* marker, the thread that types the script, and the guest itself, reduced *)
(* to what they see of it.                                                 *)
(*                                                                         *)
(* Commands are whole: a command of the script is one element of inPipe,   *)
(* the host pipe and the UART's receive FIFO together.  The guest's output *)
(* is bytes, because the marker may be split over reads.                   *)
(***************************************************************************)
EXTENDS LauncherInput

CONSTANTS
  Marker,       \* SERIAL_MONITOR_READY_MARKER
  Noise,        \* what the boot may print before the marker
  Files,        \* the script files main may find
  ReadMax,      \* bytes one read returns at most
  PipeMax       \* commands that fit between the sender and the guest

Byte == STRING                \* a byte is written as a string

ASSUME ByteAssumption == "x" \in Byte
ASSUME MarkerAssumption == Marker \in Seq(Byte) /\ Marker # <<>>
ASSUME NoiseAssumption == Noise \subseteq Seq(Byte)
ASSUME FilesAssumption == \A f \in Files : f.lines \in Seq(Seq(STRING))
ASSUME BoundsAssumption == ReadMax \in Nat /\ PipeMax \in Nat

Word(bytes) == Head(bytes)    \* the command of what was typed

\* The commands after which the guest leaves its monitor for a ring 3 session, at
\* once (usermode, a taskstep) or whenever a task is due (taskauto on).
Leaving == {"ring3", "auto"}

VARIABLES
  file, script,                             \* the script's file and its actions
  fwd, marker_window, ready_sent, channel,  \* the forwarder and ready_tx
  log,                                      \* what reached the host's stdout
  snd, next,                                \* the sender
  fellBack, hurried,                        \* history: what it typed too early
  guest, status, outPipe, printed,          \* QEMU, and all it ever printed
  inPipe, received, lost                    \* commands on their way, and beyond

mainVars == <<args, index, opts, file, main, exitCode>>
fwdVars == <<fwd, marker_window, ready_sent>>
sndVars == <<snd, next, fellBack, hurried>>
guestVars == <<guest, status, printed, received, lost>>
vars == <<script, mainVars, fwdVars, channel, log, sndVars, guestVars, outPipe, inPipe>>

Signal == -2          \* ended by a signal: status.code() is None
Panicked == 101       \* the exit code of a Rust program whose main panics

\* Nobody writes the file while the launcher runs: what load_serial_script will
\* make of it is settled from the start, and used once main is at "load".
Init ==
  /\ ArgsInit
  /\ file \in Files /\ script = load_serial_script(file)
  /\ fwd = "off" /\ marker_window = <<>> /\ ready_sent = FALSE /\ channel = 0 /\ log = <<>>
  /\ snd = "off" /\ next = 1 /\ fellBack = FALSE /\ hurried = FALSE
  /\ guest = "off" /\ status = NotYet /\ outPipe = <<>> /\ printed = <<>>
  /\ inPipe = <<>> /\ received = <<>> /\ lost = <<>>

(***************************************************************************)
(* main.  The forwarder starts with QEMU, before the script file is read.  *)
(***************************************************************************)
MainArgs ==
  /\ ParseArg \/ ArgsDone
  /\ UNCHANGED <<file, script, fwdVars, channel, log, sndVars, guestVars, outPipe, inPipe>>

Scripted == opts.serial_script_path # Unset

MainSpawn ==
  /\ main = "spawn"
  /\ guest' = "boot"
  /\ fwd' = IF Scripted THEN "loop" ELSE "off"
  /\ main' = IF Scripted THEN "load" ELSE "wait"
  /\ UNCHANGED <<args, index, opts, file, script, exitCode, marker_window, ready_sent,
                 channel, log, sndVars, status, printed, received, lost, outPipe, inPipe>>

\* exit ends the whole process, threads included, and closes their pipe ends.
Exit(code) ==
  /\ Leave(code)
  /\ fwd' = "gone" /\ snd' = "gone"
  /\ outPipe' = <<>> /\ inPipe' = <<>>
  /\ UNCHANGED <<args, file, script, marker_window, ready_sent, channel, log, next,
                 fellBack, hurried, guestVars>>

\* The firmware cannot be fetched or QEMU not be started: expect panics.
MainSpawnFails == main = "spawn" /\ Exit(Panicked)

MainLoadFails == main = "load" /\ script = <<Bad>> /\ Exit(1)

MainLoad ==
  /\ main = "load" /\ script # <<Bad>>
  /\ main' = "wait" /\ snd' = "wait"
  /\ UNCHANGED <<args, index, opts, file, script, exitCode, fwdVars, channel, log, next,
                 fellBack, hurried, guestVars, outPipe, inPipe>>

\* Mutants (here and below, named after what they get wrong).
process_code_SignalIsFailure(s) ==
  CASE s \in {16, 33} -> 0 [] s \in {17, 35, Signal} -> 1 [] OTHER -> 2

\* isa-debug-exit turns the guest's 0x10 and 0x11 into 0x21 = 33 and 0x23 = 35.
process_code(s) ==
  LET code == IF s = Signal THEN 1 ELSE s
  IN CASE code \in {16, 33} -> 0 [] code \in {17, 35} -> 1 [] OTHER -> 2

MainWait_NoWait == main = "wait" /\ Exit(process_code(status))

MainWait == main = "wait" /\ guest = "gone" /\ Exit(process_code(status))

(***************************************************************************)
(* The forwarder: one round of its loop per step.                          *)
(***************************************************************************)
FwdStops ==
  /\ fwd' = "gone"
  /\ UNCHANGED <<script, mainVars, marker_window, ready_sent, channel, log, sndVars,
                 guestVars, inPipe>>

\* Read returned 0 (QEMU closed its end) or an error.
FwdEof == fwd = "loop" /\ guest = "gone" /\ outPipe = <<>> /\ FwdStops /\ UNCHANGED outPipe
FwdReadError == fwd = "loop" /\ FwdStops /\ outPipe' = <<>>

\* The bytes were read, but the host's stdout refuses them.
FwdWriteError == fwd = "loop" /\ outPipe # <<>> /\ FwdStops /\ outPipe' = <<>>

Slide_Restarts(window, s) ==
  LET w[i \in 0..Len(s)] ==
        IF i = 0 THEN window
        ELSE IF w[i - 1] = Marker THEN Marker
        ELSE IF s[i] = Marker[Len(w[i - 1]) + 1] THEN Append(w[i - 1], s[i]) ELSE <<>>
  IN w[Len(s)]

\* The window after the bytes s, cut short by a match.
Slide(window, s) ==
  LET w[i \in 0..Len(s)] ==
        IF i = 0 THEN window
        ELSE IF w[i - 1] = Marker THEN Marker
        ELSE Append(IF Len(w[i - 1]) = Len(Marker) THEN Tail(w[i - 1]) ELSE w[i - 1], s[i])
  IN w[Len(s)]

FwdRead(n) ==
  /\ fwd = "loop" /\ n <= Len(outPipe)
  /\ LET s == SubSeq(outPipe, 1, n)
         window == IF ready_sent THEN marker_window ELSE Slide(marker_window, s)
     IN /\ log' = log \o s
        /\ outPipe' = SubSeq(outPipe, n + 1, Len(outPipe))
        /\ marker_window' = window
        /\ ready_sent' = (window = Marker)
        /\ channel' = IF ~ready_sent /\ window = Marker THEN channel + 1 ELSE channel
  /\ UNCHANGED <<script, mainVars, fwd, sndVars, guestVars, inPipe>>


SndReady ==
  /\ snd = "wait" /\ channel > 0 /\ snd' = "run"
  /\ channel' = channel - 1
  /\ UNCHANGED <<script, mainVars, fwdVars, log, next, fellBack, hurried, guestVars,
                 outPipe, inPipe>>

FallBack ==
  /\ snd = "wait" /\ channel = 0
  /\ snd' = "run" /\ fellBack' = TRUE
  /\ UNCHANGED <<script, mainVars, fwdVars, channel, log, next, hurried, guestVars,
                 outPipe, inPipe>>

SndTimeout_WaitsOn == fwd = "off" /\ FallBack

SndTimeout == FallBack
SndDisconnected == fwd = "gone" /\ FallBack

\* The guest is in a session, or what it has to read may take it there.
SessionAhead ==
  guest \in {"session", "auto"} \/ \E i \in DOMAIN inPipe : Word(inPipe[i]) \in Leaving

\* write_all waits while the pipe is full, and for nothing else: hurried records a
\* command that was typed with a session ahead of it.
SndSend ==
  /\ snd = "run" /\ next <= Len(script) /\ script[next].kind = "send"
  /\ guest # "gone" /\ Len(inPipe) < PipeMax
  /\ inPipe' = Append(inPipe, script[next].bytes) /\ next' = next + 1
  /\ hurried' = (hurried \/ SessionAhead)
  /\ UNCHANGED <<script, mainVars, fwdVars, channel, log, snd, fellBack, guestVars, outPipe>>

\* thread::sleep knows nothing of the guest: it may end before or after anything
\* the guest does meanwhile.
SndSleep ==
  /\ snd = "run" /\ next <= Len(script) /\ script[next].kind = "sleep"
  /\ next' = next + 1
  /\ UNCHANGED <<script, mainVars, fwdVars, channel, log, snd, fellBack, hurried,
                 guestVars, outPipe, inPipe>>

SndStops ==
  /\ snd = "run" /\ snd' = "gone"
  /\ UNCHANGED <<script, mainVars, fwdVars, channel, log, next, fellBack, hurried,
                 guestVars, outPipe, inPipe>>

SndDone == next > Len(script) /\ SndStops

\* QEMU is gone and the write fails.
SndWriteError ==
  next <= Len(script) /\ script[next].kind = "send" /\ guest = "gone" /\ SndStops

(***************************************************************************)
(* The guest (kernel_main, input_loop and resume_monitor_after_usermode_-  *)
(* exit, as the serial line shows them) and QEMU.                          *)
(***************************************************************************)
Emit(s) ==
  /\ printed' = printed \o s
  /\ outPipe' = IF fwd = "loop" THEN outPipe \o s ELSE <<>>

\* serial_port() initialises the UART, which empties its receive FIFO: some of
\* the commands that are waiting, from the oldest on, are lost.
ClearReceiver(k) ==
  /\ lost' = lost \o SubSeq(inPipe, 1, k)
  /\ inPipe' = SubSeq(inPipe, k + 1, Len(inPipe))

OpensMonitor(k, noise) ==
  /\ k <= Len(inPipe) /\ ClearReceiver(k)
  /\ Emit(noise \o Marker)
  /\ guest' = "monitor"
  /\ UNCHANGED <<script, mainVars, fwdVars, channel, log, sndVars, status, received>>

GuestBoots == guest = "boot" /\ \E k \in 0..PipeMax, n \in Noise : OpensMonitor(k, n)
GuestResumes == guest = "session" /\ \E k \in 0..PipeMax : OpensMonitor(k, <<>>)

\* The guest ends with QEMU status s after its last words.
Ends(s, words) ==
  /\ Emit(words)
  /\ guest' = "gone" /\ status' = s
  /\ inPipe' = <<>>
  /\ UNCHANGED <<script, mainVars, fwdVars, channel, log, sndVars, lost>>

\* Where a command takes the guest: "auto" is a monitor with taskauto on.
After(word) ==
  CASE word = "ring3" -> "session" [] word = "auto" -> "auto" [] word = "off" -> "monitor"
    [] OTHER -> guest

GuestReads ==
  /\ guest \in {"monitor", "auto"} /\ inPipe # <<>>
  /\ received' = Append(received, Head(inPipe))
  /\ \/ Word(Head(inPipe)) = "exit" /\ Ends(33, <<"x">>)
     \/ /\ Word(Head(inPipe)) # "exit"
        /\ Emit(<<"x">>)
        /\ guest' = After(Word(Head(inPipe)))
        /\ inPipe' = Tail(inPipe)
        /\ UNCHANGED <<script, mainVars, fwdVars, channel, log, sndVars, status, lost>>

\* A task that is due takes the guest to ring 3, whatever waits to be read.
GuestLeaves ==
  /\ guest = "auto" /\ guest' = "session"
  /\ Emit(<<"x">>)
  /\ UNCHANGED <<script, mainVars, fwdVars, channel, log, sndVars, status, received, lost,
                 inPipe>>

GuestWindowEnds == guest \in {"monitor", "auto"} /\ Ends(33, <<"x">>) /\ UNCHANGED received
GuestFails == guest \notin {"off", "gone"} /\ Ends(35, <<"x">>) /\ UNCHANGED received

QemuEnds ==
  /\ guest \notin {"off", "gone"}
  /\ \E s \in {0, 1, Signal} : Ends(s, <<>>)
  /\ UNCHANGED received

Main == MainArgs \/ MainSpawn \/ MainSpawnFails \/ MainLoadFails \/ MainLoad \/ MainWait
Forwarder == (\E n \in 1..ReadMax : FwdRead(n)) \/ FwdEof
ForwarderFails == FwdReadError \/ FwdWriteError
Sender == SndReady \/ SndTimeout \/ SndDisconnected \/ SndSend \/ SndSleep \/ SndDone
          \/ SndWriteError
Guest == GuestResumes \/ GuestReads
GuestStops == GuestWindowEnds \/ GuestFails \/ QemuEnds

Next == Main \/ Forwarder \/ ForwarderFails \/ Sender \/ GuestBoots \/ Guest
        \/ GuestLeaves \/ GuestStops

\* The host schedules every thread, recv_timeout returns, and a monitor that has
\* input reads it.  Nothing says that a boot ends or that a guest ever stops.
Fairness == WF_vars(Main) /\ WF_vars(Forwarder) /\ WF_vars(Sender) /\ WF_vars(Guest)

Spec == Init /\ [][Next]_vars /\ Fairness

(***************************************************************************)
(* Properties.                                                             *)
(***************************************************************************)
\* main stays within its arguments, the sender within its script; the window never
\* outgrows the marker and at most one message is in ready_tx.
TypeOK ==
  /\ index \in 1..Len(args) + 1 /\ opts.use_uefi \in {Unset, "uefi", "bios"}
  /\ main \in {"args", "spawn", "load", "wait", "exited"}
  /\ exitCode \in {NotYet, 0, 1, 2, Panicked}
  /\ fwd \in {"off", "loop", "gone"} /\ Len(marker_window) <= Len(Marker)
  /\ channel \in 0..1
  /\ snd \in {"off", "wait", "run", "gone"} /\ next \in 1..Len(script) + 1
  /\ guest \in {"off", "boot", "monitor", "auto", "session", "gone"}
  /\ Len(inPipe) <= PipeMax

HasMarker(s) ==
  \E i \in 1..Len(s) - Len(Marker) + 1 : SubSeq(s, i, i + Len(Marker) - 1) = Marker

\* The forwarder has announced the monitor exactly when the bytes it has
\* forwarded contain the marker, however the reads cut the stream and whatever
\* comes before the marker, a beginning of the marker included.
MarkerIsSeenInAnyCut == fwd = "loop" => (ready_sent <=> HasMarker(log))

\* No UART that the guest initialises, at boot or when a session returns, swallows
\* a command, unless the sender gave up waiting for the marker or typed with a
\* session ahead: the marker alone protects the boot, and a pause that outlasts its
\* session is all that a script has to see to.
NothingIsLost == ~fellBack /\ ~hurried => lost = <<>>

\* What the first n lines with text of the file have the guest read.
Typed(n) ==
  LET commands == SelectSeq(SubSeq(TextLines(file), 1, n), LAMBDA t : ~IsDirective(t))
  IN [i \in DOMAIN commands |-> Append(commands[i], "CR")]

\* The members of s at the places P.
Those(s, P) ==
  LET places == SelectSeq([i \in DOMAIN s |-> i], LAMBDA i : i \in P)
  IN [k \in DOMAIN places |-> s[places[k]]]

\* What the guest has read and has yet to read is, with what the UART swallowed
\* taken out, the text of the file up to the sender's place: no command overtakes
\* another, is doubled or is skipped by a pause, a loss garbles nothing that is left,
\* and nothing of a comment, a blank or a directive is typed.
TypedInOrder ==
  (main = "wait" /\ guest # "gone" /\ file.kind = "text") =>
    LET typed == Typed(next - 1)
    IN \E P \in SUBSET DOMAIN typed :
         received \o inPipe = Those(typed, P) /\ lost = Those(typed, DOMAIN typed \ P)


\* The launcher leaves a QEMU behind only when it gives up on the script file,
\* which it reads after QEMU has started; it starts none on a bad command line.
OrphanOnlyOfBadScript ==
  (main = "exited" /\ guest # "gone") =>
     \/ guest = "off"
     \/ Scripted /\ script = <<Bad>>

\* A launcher that reports success while its forwarder is at work has passed on
\* all that the guest printed: its log is the guest's output.
LogIsComplete ==
  [][(exitCode = NotYet /\ exitCode' = 0 /\ fwd = "loop") => log = printed]_vars

\* Whatever the two threads are doing (asleep, blocked on a full pipe, waiting for
\* a marker), QEMU's end ends the launcher, with 0 for the guest's success, 1 for
\* its failure and 2 for an end the guest did not choose.
OutcomeIsReported ==
  \A s \in {33, 35, 0, 1, Signal} :
    (main = "wait" /\ guest = "gone" /\ status = s) ~>
      (main = "exited" /\ exitCode = IF s = 33 THEN 0 ELSE IF s = 35 THEN 1 ELSE 2)

\* The sender never waits forever: marker, time-out or disconnection, it types
\* its script to the end or to the end of QEMU (with room in the pipe for the
\* commands of one script).
ScriptEnds == (snd = "wait") ~> (snd = "gone")
===============================================================================
