------------------------------- MODULE Keyboard -------------------------------
(***************************************************************************)
(* A keyboard, its interrupt, the buffer that drops bytes when it is full, *)
(* and the decoder in the input loop, which every ring-3 session replaces  *)
(* by a new one while the buffer stays.                                    *)
(***************************************************************************)
EXTENDS KeyboardDecoder

CONSTANTS
  Keys,            \* the keys in use: <<code, has a prefix>>
  BufferSize,      \* SCANCODE_BUFFER_SIZE
  WireMax,         \* bytes the keyboard holds back while interrupts are off
  PressMax,        \* presses in a behaviour
  DisturbMax       \* lost bytes and decoder restarts in a behaviour

LeftShift == <<42, FALSE>>
RightShift == <<54, FALSE>>
LeftCtrl == <<29, FALSE>>
RightCtrl == <<29, TRUE>>
LeftAlt == <<56, FALSE>>
RightAlt == <<56, TRUE>>
CapsLock == <<58, FALSE>>
AllModifiers == {LeftShift, RightShift, LeftCtrl, RightCtrl, LeftAlt, RightAlt}
Modifiers == AllModifiers \cap Keys

\* Codes are of seven bits, and none is the prefix when it is released.  The
\* keyboard has a modifier, and with a key all modifiers of the same code.
ASSUME KeysAssumption ==
  /\ Keys \subseteq ((0..127) \ {E0 - 128}) \X BOOLEAN
  /\ Modifiers # {}
  /\ \A k \in Keys, m \in AllModifiers : m[1] = k[1] => m \in Keys
  /\ BufferSize \in Nat /\ WireMax \in Nat /\ PressMax \in Nat /\ DisturbMax \in Nat

VARIABLES
  held,            \* the keys that are down
  wire, queue, decoder,
  presses, disturbed,
  caps,            \* Caps Lock as whoever types knows it
  meant, typed,    \* events as the keys were pressed, and as they were decoded
  fresh            \* keys pressed since the last disturbance

keyVars == <<held, wire, queue, decoder, presses, disturbed, caps, meant, typed, fresh>>

KeyInit ==
  /\ held = {} /\ wire = <<>> /\ queue = <<>> /\ decoder = NewDecoder
  /\ presses = 0 /\ disturbed = 0
  /\ caps = FALSE /\ meant = <<>> /\ typed = <<>> /\ fresh = {}

Scancodes(k, up) ==
  (IF k[2] THEN <<E0>> ELSE <<>>) \o <<IF up THEN k[1] + 128 ELSE k[1]>>

\* What a key means, from the keys that are down with it and Caps Lock: a decoder
\* in step with the keyboard.
InStep ==
  [extended |-> FALSE,
   left_shift |-> LeftShift \in held, right_shift |-> RightShift \in held,
   left_ctrl |-> LeftCtrl \in held, right_ctrl |-> RightCtrl \in held,
   left_alt |-> LeftAlt \in held, right_alt |-> RightAlt \in held,
   caps_lock |-> caps]

Meaning(k) ==
  IF k \in Modifiers \cup {CapsLock} THEN <<>>
  ELSE IF k[2] THEN <<decode_extended_make(InStep, k[1])>>
  ELSE <<decode_make(InStep, k[1])>>

Press(k) ==
  /\ presses < PressMax /\ presses' = presses + 1
  /\ k \notin held /\ held' = held \cup {k}
  /\ Len(wire) + 2 <= WireMax /\ wire' = wire \o Scancodes(k, FALSE)
  /\ meant' = meant \o Meaning(k)
  /\ caps' = (caps # (k = CapsLock))
  /\ fresh' = fresh \cup {k}
  /\ UNCHANGED <<queue, decoder, disturbed, typed>>

Release(k) ==
  /\ k \in held /\ held' = held \ {k}
  /\ Len(wire) + 2 <= WireMax /\ wire' = wire \o Scancodes(k, TRUE)
  /\ UNCHANGED <<queue, decoder, presses, disturbed, caps, meant, typed, fresh>>

\* The keyboard interrupt: read_scancode and push.
Irq ==
  /\ wire # <<>> /\ wire' = Tail(wire)
  /\ \/ /\ Len(queue) < BufferSize
        /\ queue' = Append(queue, Head(wire))
        /\ UNCHANGED <<disturbed, fresh>>
     \/ /\ Len(queue) = BufferSize /\ disturbed < DisturbMax
        /\ disturbed' = disturbed + 1 /\ fresh' = {}
        /\ UNCHANGED queue
  /\ UNCHANGED <<held, decoder, presses, caps, meant, typed>>

\* The input loop pops a byte and feeds it.
Feed ==
  /\ queue # <<>> /\ queue' = Tail(queue)
  /\ LET out == feed(decoder, Head(queue))
     IN decoder' = out.decoder /\ typed' = typed \o out.events
  /\ UNCHANGED <<held, wire, presses, disturbed, caps, meant, fresh>>

\* resume_monitor_after_usermode_exit enters a new input_loop.
Restart ==
  /\ disturbed < DisturbMax /\ disturbed' = disturbed + 1 /\ fresh' = {}
  /\ decoder' = NewDecoder
  /\ UNCHANGED <<held, wire, queue, presses, caps, meant, typed>>

KeyNext == Irq \/ Feed \/ Restart \/ \E k \in Keys : Press(k) \/ Release(k)

KeySpec == KeyInit /\ [][KeyNext]_keyVars

(***************************************************************************)
(* Properties.                                                             *)
(***************************************************************************)
\* What a decoder makes of a sequence of bytes: itself afterwards, and events.
Read(d, bytes) ==
  LET after[n \in 0..Len(bytes)] ==
        IF n = 0 THEN Nothing(d)
        ELSE LET out == feed(after[n - 1].decoder, bytes[n])
             IN [decoder |-> out.decoder, events |-> after[n - 1].events \o out.events]
  IN after[Len(bytes)]

\* The decoder and the events once all the bytes under way have been read.
Settled == Read(decoder, queue \o wire)

\* As long as no byte is lost and no session replaces the decoder, the decoder
\* knows of every modifier what the keyboard knows, up to the bytes under way:
\* with both keys of a pair down, prefixes and all.
DecoderFollowsTheKeys == disturbed = 0 => Settled.decoder = InStep

\* ... and each key is decoded with the modifiers that were down when it was
\* pressed, however late its bytes are read, once and in order.
TypedIsMeant == disturbed = 0 => typed \o Settled.events = meant

\* The decoder and the keyboard agree, on modifiers and on what was typed.
KeysAreUnderstood == DecoderFollowsTheKeys /\ TypedIsMeant

\* A lost byte or a new decoder can leave modifiers stuck, a prefix pending, one
\* key of a pair taken for the other.  Pressing and releasing every modifier once
\* clears all of it, in whatever order that is done.
TapsResynchronise ==
  (Modifiers \subseteq fresh \ held) =>
    [Settled.decoder EXCEPT !.caps_lock = FALSE] = NewDecoder
===============================================================================
