----------------------------- MODULE MCKeyboard -----------------------------
(* Instances of Keyboard: an arrow key, the pad's digit key with the same  *)
(* code, and the space bar; emulated keyboards that deliver whole codes,   *)
(* with a buffer that is never full and with one that loses codes, and a   *)
(* keyboard whose bytes arrive one at a time.                              *)
EXTENDS Keyboard

CONSTANTS c48, c39

Up == [ext |-> TRUE, c |-> c48]
Pad8 == [ext |-> FALSE, c |-> c48]
Space == [ext |-> FALSE, c |-> c39]

Whole == [keys |-> {Up, Space}, cap |-> 6, bytewise |-> FALSE, lossy |-> FALSE]
Small == [keys |-> {Up, Space}, cap |-> 3, bytewise |-> FALSE, lossy |-> TRUE]
Plain == [keys |-> {Pad8, Space}, cap |-> 3, bytewise |-> TRUE, lossy |-> FALSE]

MCModes == {Whole, Small, Plain}
MCAlias == {[Whole EXCEPT !.keys = {Up, Pad8}]}
=============================================================================
