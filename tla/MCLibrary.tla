----------------------------- MODULE MCLibrary -----------------------------
(* The library's routines and the two simple drivers on small instances: a *)
(* behaviour is one call of vsnprintf, one of memset or memmove, one of a  *)
(* string routine, a sequence of operations on the bitmap, a line of the   *)
(* kernel log or a sequence of drawing operations.                         *)
EXTENDS PrintFmt, MemOps, Strings, Bitmap, Serial, FrameBuffer

Alphabet == {"-", "0", "2", "#", "*", ".", "l", "d", "u", "x", "p", "s", "e", "c", "o", "%", "q"}
Tails == [1..2 -> Alphabet] \cup [1..3 -> Alphabet \ {"#", "e", "c", "o", "%"}]
MCFormats ==
    {<<"%">> \o t \o <<"q", NUL>> : t \in Tails}
    \cup {<<"%", "1", "2", c, NUL>> : c \in {"d", "x", "s"}}
    \cup {<<"%", ".", "2", "l", "l", c, NUL>> : c \in {"d", "u"}}
    \cup {<<"%", "l", "l", "x", "%", "-", "3", "s", NUL>>, <<"%", NUL>>, <<NUL>>}

MCStrings == {<<>>, <<"a", "\n", "b">>}
MCInts == {-128, -7, 0, 12}
MCLongLongs == {-32768, 255, 32767}
MCStarArgs == {-2, 0, 3}
MCErrorString == [e \in 1..6 |-> <<"e", "r", Digit[e + 1]>>]

(* A byte, six bytes for the destination, five for the source, a byte;     *)
(* 7 is what a string left behind itself.                                  *)
Upto(n) == UNION {[1..k -> {1, 200}] : k \in 0..n}
Region(s, room) == s \o <<0>> \o [i \in 1..(room - 1 - Len(s)) |-> 7]
MCMemories == {<<7>> \o Region(s, 6) \o Region(t, 5) \o <<7>> : s \in Upto(2), t \in Upto(3)}

(* The screen and a point behind each of its four sides.                   *)
MCPoints == ((0..1) \X (0..1)) \cup {<<-1, 1>>, <<2, 0>>, <<1, -1>>, <<0, 2>>}
MCColors == {<<1, 2, 3>>}

MCTexts == {<<>>, <<"a", "b", "c">>, <<"a", "a", "b">>}

VARIABLE routine   \* what is called

vars == <<printing, moving, stringVars, bitmapVars, serialVars, drawing, routine>>

(* What is not called is in one fixed state.                               *)
Init ==
    /\ routine \in {"vsnprintf", "memmove", "string", "bitmap", "serial", "drawing"}
    /\ IF routine = "vsnprintf" THEN TRUE ELSE fmt = <<NUL>> /\ b = [n |-> 1, next |-> 0, cnt |-> 0]
    /\ IF routine = "string" THEN TRUE
       ELSE /\ memory = <<7>> \o Region(<<>>, 6) \o Region(<<>>, 5) \o <<7>>
            /\ asked = [fn |-> "strlen", n |-> 0, c |-> 0]
    /\ IF routine = "serial" THEN TRUE ELSE text = <<>>
    /\ PrintInit /\ MemInit /\ StringInit /\ BitmapInit /\ SerialInit
    /\ FrameBufferInit
    /\ routine # "serial" => uart.fifo = <<>> /\ ~uart.dlab
    /\ routine # "drawing" => vmem_buffer[0] = 0 /\ vmem[0] = 0

othersStay == UNCHANGED <<printing, moving, stringVars, bitmapVars, drawing, routine>>
Log == routine = "serial" /\ (init_serial \/ putchar) /\ othersStay
Line == routine = "serial" /\ Send /\ othersStay

Next ==
    \/ /\ routine = "vsnprintf" /\ PrintNext
       /\ UNCHANGED <<moving, stringVars, bitmapVars, serialVars, drawing, routine>>
    \/ /\ routine = "memmove" /\ MemNext
       /\ UNCHANGED <<printing, stringVars, bitmapVars, serialVars, drawing, routine>>
    \/ /\ routine = "string" /\ StringNext
       /\ UNCHANGED <<printing, moving, bitmapVars, serialVars, drawing, routine>>
    \/ /\ routine = "bitmap" /\ BitmapNext
       /\ UNCHANGED <<printing, moving, stringVars, serialVars, drawing, routine>>
    \/ /\ routine = "drawing" /\ DrawNext
       /\ UNCHANGED <<printing, moving, stringVars, bitmapVars, serialVars, routine>>
    \/ Log \/ Line

Spec == Init /\ [][Next]_vars /\ WF_vars(Log) /\ WF_vars(Line)
=============================================================================
