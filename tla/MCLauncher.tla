----------------------------- MODULE MCLauncher -----------------------------
(* A three-byte marker that begins, like the real one, with a repeated byte,
   short command lines and short script files. *)
EXTENDS Launcher, SequencesExt

MCMarker == <<"[", "[", "R">>
MCNoise == {<<>>, <<"[">>, <<"[", "x">>}

Words == {"uefi", "--show", "--headless", "--serial-script",
          "--serial-delay-ms", Number, "--help"}

PlainArgs == <<"bios", "--serial-script", "f">>

MCArgLists ==
  BoundedSeq(Words, 4) \cup {PlainArgs, <<"bios", "--serial-only", "--serial-script", "f">>}

Pause == <<"sleep_s", Blank, "1">>
Missing == [kind |-> "missing", lines |-> <<>>]

MCFiles == {Missing, [kind |-> "raw", lines |-> <<<<"c", "LF">>>>]} \cup
  [kind : {"text"},
   lines : {<<<<"c", "#", "c", Blank, "#">>, <<"#">>, <<"ring3">>, Pause, <<"exit">>>>,
            <<<<"sleep", Blank, "1">>, <<"c">>, <<>>, <<"c", Blank, "c">>, <<"c">>>>,
            <<<<"auto">>, <<"sleep_ms", Blank, "+", "1">>, <<"off">>, <<"c">>>>,
            <<<<"c">>, <<"sleep", Blank, "c">>>>}]

\* Every file with one command line, every command line without a file.
MCInit == Init /\ (args = PlainArgs \/ file = Missing)

MCSpec == MCInit /\ [][Next]_vars /\ Fairness

\* All the short lines there are, read as load_serial_script reads them.
Tails == BoundedSeq({"#", Blank, "c", "+", "1"}, 4)
Lines == {p \o t : p \in {<<>>, <<"sleep">>, <<"sleep_s">>}, t \in Tails}

ASSUME LinesAreTheirText == \A l \in Lines : LineIsItsText(l)
===============================================================================
