---------------------------- MODULE LauncherInput ----------------------------
(***************************************************************************)
(* What the host launcher is given: its command line, read by one step per *)
(* round of main's argument loop, and the serial script, read in one piece *)
(* by load_serial_script.                                                  *)
(*                                                                         *)
(* A line is a sequence of tokens: "#", a blank, the digit "1", "+", "c"   *)
(* for any other character, and the words of the directives.  Only ASCII   *)
(* blanks occur, so trim and is_ascii_whitespace agree on them.            *)
(***************************************************************************)
EXTENDS Integers, Sequences

CONSTANTS
  U64_MAX,      \* u64::MAX
  ArgLists      \* the command lines, as sequences of arguments

ASSUME U64_MAX_Assumption == U64_MAX \in Nat

VARIABLES
  args, index, opts,    \* the command line, and what is read of it
  main, exitCode        \* where main is, and the code it has exited with

Unset == "unset"
Number == "1"            \* an option value that parses as a u64

\* Arguments are strings; Unset is not an argument but the absence of one.
ASSUME ArgListsAssumption == ArgLists \subseteq Seq(STRING \ {Unset})

(***************************************************************************)
(* The argument loop.                                                      *)
(***************************************************************************)
NoOptions == [use_uefi |-> Unset, show_display |-> FALSE,
              serial_only |-> FALSE, serial_script_path |-> Unset,
              serial_delay_ms |-> Unset]

NotYet == -1             \* no exit code

ArgsInit ==
  /\ args \in ArgLists
  /\ index = 1 /\ opts = NoOptions
  /\ main = "args" /\ exitCode = NotYet

Leave(code) ==
  main' = "exited" /\ exitCode' = code /\ UNCHANGED <<index, opts>>

Accept(o, width) ==
  opts' = o /\ index' = index + width /\ UNCHANGED <<main, exitCode>>

\* "uefi" | "bios": naming the mode twice is an error.
ModeArg ==
  /\ args[index] \in {"uefi", "bios"}
  /\ IF opts.use_uefi # Unset
       THEN Leave(1)
       ELSE Accept([opts EXCEPT !.use_uefi = args[index]], 1)

FlagArg ==
  \/ args[index] = "--show" /\ Accept([opts EXCEPT !.show_display = TRUE], 1)
  \/ args[index] = "--headless" /\ Accept([opts EXCEPT !.show_display = FALSE], 1)
  \/ args[index] = "--serial-only" /\ Accept([opts EXCEPT !.serial_only = TRUE], 1)

\* Mutants (here and below, named after what they get wrong).
ScriptArg_KeepsMonitor ==
  /\ args[index] = "--serial-script"
  /\ IF index + 1 > Len(args)
       THEN Leave(1)
       ELSE Accept([opts EXCEPT !.serial_script_path = args[index + 1]], 2)

ScriptArg ==
  /\ args[index] = "--serial-script"
  /\ IF index + 1 > Len(args)
       THEN Leave(1)
       ELSE Accept([opts EXCEPT !.serial_script_path = args[index + 1],
                                !.serial_only = TRUE], 2)

DelayArg ==
  /\ args[index] = "--serial-delay-ms"
  /\ IF index + 1 > Len(args) \/ args[index + 1] # Number
       THEN Leave(1)
       ELSE Accept([opts EXCEPT !.serial_delay_ms = Number], 2)

HelpArg == args[index] \in {"-h", "--help"} /\ Leave(0)

OtherArg ==
  /\ args[index] \notin {"uefi", "bios", "--show", "--headless", "--serial-only",
                         "--serial-script", "--serial-delay-ms", "-h", "--help"}
  /\ Leave(1)

ParseArg ==
  /\ main = "args" /\ index <= Len(args)
  /\ ModeArg \/ FlagArg \/ ScriptArg \/ DelayArg \/ HelpArg \/ OtherArg
  /\ UNCHANGED args

\* After the loop: no mode is an error.
ArgsDone ==
  /\ main = "args" /\ index > Len(args)
  /\ \/ opts.use_uefi = Unset /\ Leave(1)
     \/ opts.use_uefi # Unset /\ main' = "spawn" /\ UNCHANGED <<exitCode, index, opts>>
  /\ UNCHANGED args

(***************************************************************************)
(* load_serial_script.                                                     *)
(***************************************************************************)
Blank == " "

Least(S) == CHOOSE i \in S : \A j \in S : i <= j
Greatest(S) == CHOOSE i \in S : \A j \in S : j <= i

\* The places of the tokens that trim keeps.
Solid(line) == {i \in DOMAIN line : line[i] # Blank}

trim_start(line) ==
  IF Solid(line) = {} THEN <<>> ELSE SubSeq(line, Least(Solid(line)), Len(line))

trim_end(line) ==
  IF Solid(line) = {} THEN <<>> ELSE SubSeq(line, 1, Greatest(Solid(line)))

trim(line) == trim_end(trim_start(line))

CommentStarts(line) ==
  {i \in DOMAIN line : line[i] = "#" /\ (i = 1 \/ line[i - 1] = Blank)}

strip_inline_comment(line) ==
  IF CommentStarts(line) = {}
    THEN line
    ELSE trim_end(SubSeq(line, 1, Least(CommentStarts(line)) - 1))

Saturate(n) == IF n > U64_MAX THEN U64_MAX ELSE n

\* The number that a row of the digit "1" stands for.
Decimal(value) ==
  LET v[i \in 0..Len(value)] == IF i = 0 THEN 0 ELSE 10 * v[i - 1] + 1
  IN v[Len(value)]

\* str::parse::<u64> takes a "+" or nothing, then digits only, at least one, and
\* refuses overflow.
Digits(value) == IF value # <<>> /\ value[1] = "+" THEN Tail(value) ELSE value

Parses(value) ==
  LET digits == Digits(value)
  IN digits # <<>> /\ (\A i \in DOMAIN digits : digits[i] = "1") /\ Decimal(digits) <= U64_MAX

Bad == [kind |-> "bad"]

parse_sleep_directive(value, scale_ms) ==
  IF Parses(value)
    THEN [kind |-> "sleep", ms |-> Saturate(Decimal(Digits(value)) * scale_ms)]
    ELSE Bad

Scale == [w \in {"sleep", "sleep_ms", "sleep_s"} |-> IF w = "sleep_s" THEN 1000 ELSE 1]

IsDirective(line) ==
  Len(line) >= 2 /\ line[1] \in DOMAIN Scale /\ line[2] = Blank

\* One line of the file: the action it stands for, if any.
ParseLine(raw) ==
  LET trimmed == trim(raw)
      line == trim(strip_inline_comment(trimmed))
  IN IF trimmed = <<>> \/ trimmed[1] = "#" \/ line = <<>>
       THEN <<>>
       ELSE IF IsDirective(line)
         THEN <<parse_sleep_directive(trim(SubSeq(line, 3, Len(line))), Scale[line[1]])>>
         ELSE <<[kind |-> "send", bytes |-> Append(line, "CR")]>>

\* A file that is not UTF-8 goes out in one piece, its line feeds turned into
\* carriage returns unless it already has some.
normalize_raw_script_bytes(bytes) ==
  IF \E i \in DOMAIN bytes : bytes[i] = "CR"
    THEN bytes
    ELSE [i \in DOMAIN bytes |-> IF bytes[i] = "LF" THEN "CR" ELSE bytes[i]]

\* The loop over the lines, which pushes their actions.
LoadLines(lines) ==
  LET actions[n \in 0..Len(lines)] ==
        IF n = 0 THEN <<>> ELSE actions[n - 1] \o ParseLine(lines[n])
  IN actions[Len(lines)]

\* file is [kind, lines]; kind is "text", "raw" (one line, all the bytes) or
\* "missing".  <<Bad>> stands for the exits of load_serial_script: an unreadable
\* file, a bad number, no action at all.
load_serial_script(file) ==
  LET actions ==
        CASE file.kind = "text" -> LoadLines(file.lines)
          [] file.kind = "raw" ->
               <<[kind |-> "send", bytes |-> normalize_raw_script_bytes(file.lines[1])]>>
          [] OTHER -> <<>>
  IN IF actions = <<>> \/ \E i \in DOMAIN actions : actions[i] = Bad THEN <<Bad>> ELSE actions

(***************************************************************************)
(* Properties.                                                             *)
(***************************************************************************)
\* The arguments that are read as options and not as the value of one.
Option ==
  LET value[i \in 0..Len(args)] ==
        i > 1 /\ ~ value[i - 1] /\ args[i - 1] \in {"--serial-script", "--serial-delay-ms"}
  IN {i \in 1..Len(args) : ~ value[i]}

Latest(S) == {i \in S : \A j \in S : j <= i}

\* QEMU is started only with options that say what the whole command line says:
\* exactly one mode, the display of the last --show or --headless, a serial line
\* free of the QEMU monitor whenever a script is to be typed on it, and the path
\* after the last --serial-script even if it looks like an option.
OptionsAreTheCommandLine ==
  main \in {"spawn", "load", "wait"} =>
    LET At(names) == {i \in Option : args[i] \in names}
    IN /\ \E i \in Option : At({"uefi", "bios"}) = {i} /\ opts.use_uefi = args[i]
       /\ opts.show_display =
            \E i \in Latest(At({"--show", "--headless"})) : args[i] = "--show"
       /\ opts.serial_only = (At({"--serial-only", "--serial-script"}) # {})
       /\ opts.serial_script_path # Unset =>
            \E i \in Latest(At({"--serial-script"})) : opts.serial_script_path = args[i + 1]

\* The text of a line: from its first to its last token that is neither blank
\* nor behind a "#" that begins a word.
Visible(raw) ==
  {i \in DOMAIN raw : raw[i] # Blank /\ \A j \in CommentStarts(raw) : i < j}

Text(raw) ==
  LET V == Visible(raw)
  IN IF V = {} THEN <<>> ELSE SubSeq(raw, Least(V), Greatest(V))

\* The lines of the file that say something, in order.
TextLines(file) ==
  SelectSeq([i \in DOMAIN file.lines |-> Text(file.lines[i])], LAMBDA t : t # <<>>)

\* What a line is turned into is its text and nothing of its blanks or comments:
\* nothing, a pause that is never cut short by the unit or the size of its number,
\* a refusal, or the text with a carriage return.
LineIsItsText(raw) ==
  LET text == Text(raw)
      digits == Decimal(SelectSeq(text, LAMBDA t : t = "1"))
  IN \/ text = <<>> /\ ParseLine(raw) = <<>>
     \/ text # <<>> /\ ~IsDirective(text)
          /\ ParseLine(raw) = <<[kind |-> "send", bytes |-> Append(text, "CR")]>>
     \/ text # <<>> /\ IsDirective(text)
          /\ \/ ParseLine(raw) = <<Bad>>
             \/ ParseLine(raw)[1].kind = "sleep" /\ ParseLine(raw)[1].ms >= digits
===============================================================================
