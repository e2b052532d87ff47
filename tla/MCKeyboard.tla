----------------------------- MODULE MCKeyboard -----------------------------
(* Keys for Keyboard. *)
EXTENDS Keyboard

Letter == <<30, FALSE>>
BackspaceKey == <<14, FALSE>>
LeftArrow == <<75, TRUE>>

MCKeys == {LeftShift, LeftCtrl, RightCtrl, CapsLock, Letter, BackspaceKey, LeftArrow}
===============================================================================
