------------------------------- MODULE Canvas -------------------------------
(* What the drawing functions promise the game: a call of draw_pixel gives *)
(* the pixel it names the colour it names and no other pixel another one,  *)
(* one that names no pixel of the screen changes nothing, and the screen   *)
(* shows the canvas as it was at the last update.  The request says which  *)
(* call the step answers.                                                  *)
CONSTANTS Pixels, Colours, Black,
          Points, Palette  \* what a call may name: any point, a colour of some picture

VARIABLES canvas,  \* the colour of every pixel, as painted
          screen,  \* the colour of every pixel, as shown
          request  \* the last call

CanvasInit == /\ canvas \in [Pixels -> Colours] /\ screen \in [Pixels -> Colours]
              /\ request = [op |-> "none"]

Blacken == /\ request' = [op |-> "black"]
           /\ canvas' = [p \in Pixels |-> Black]
           /\ UNCHANGED screen

Paint(p, colour) ==
    /\ request' = [op |-> "draw", point |-> p, colour |-> colour]
    /\ canvas' = IF p \in Pixels THEN [canvas EXCEPT ![p] = colour] ELSE canvas
    /\ UNCHANGED screen

Update == /\ request' = [op |-> "update"]
          /\ screen' = canvas
          /\ UNCHANGED canvas

CanvasNext == \/ Blacken \/ Update
              \/ \E p \in Points, colour \in Palette : Paint(p, colour)

CanvasSpec == CanvasInit /\ [][CanvasNext]_<<canvas, screen, request>>
=============================================================================
