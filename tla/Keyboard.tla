------------------------------ MODULE Keyboard ------------------------------
(***************************************************************************)
(* get_key of kernel/keyboard.c against the keyboard controller.           *)
(*                                                                         *)
(* get_key polls port 0x60 without looking at the status port: a read that *)
(* finds the controller's buffer empty returns the last byte again.  It    *)
(* waits for a press code, then for the release code of the same key, and  *)
(* returns the press code.  Each inb is a step of its own, so that the     *)
(* typist and the controller act between any two of them.                  *)
(*                                                                         *)
(* The controller, the keyboard and the typist are external.  A key is a   *)
(* code with or without the 0xE0 prefix (an arrow key and the digit key of *)
(* the pad have the same code).  Each byte carries, as a ghost, the number *)
(* of the stroke that sent it.                                             *)
(***************************************************************************)
EXTENDS Integers, Sequences, FiniteSets

CONSTANTS Modes,       \* the keyboards considered, see KeyAssumption
          MaxStrokes   \* bound on the number of strokes

(* A keyboard: the keys that are used, records of a prefix and a code; the *)
(* bytes that the controller's buffer holds; whether the two bytes of a    *)
(* prefixed code arrive separately; whether a code that does not fit into  *)
(* the buffer is lost (or waits).                                          *)
ASSUME KeyAssumption ==
    /\ MaxStrokes \in Nat
    /\ \A m \in Modes :
          /\ m.cap \in Nat \ {0}
          /\ m.bytewise \in BOOLEAN /\ m.lossy \in BOOLEAN
          /\ \A k \in m.keys : k = [ext |-> k.ext, c |-> k.c] /\ k.ext \in BOOLEAN

Keys == UNION {m.keys : m \in Modes}

VARIABLES mode,      \* the keyboard at hand, never changed
          fifo,      \* bytes in the controller's buffer
          last,      \* byte that the data port shows
          wire,      \* bytes sent by the keyboard, not yet in the buffer
          held,      \* stroke that holds each key down, 0 if none
          strokes,   \* ghost: keys of the strokes so far
          released,  \* ghost: strokes that have ended
          overlap,   \* ghost: strokes during which two keys were down
          pc,        \* where get_key is
          scancode,  \* its local: the press code it has read
          returned   \* its return values so far

device == <<mode, fifo, last, wire>>
typist == <<held, strokes, released, overlap>>
reader == <<pc, scancode, returned>>
vars == <<device, typist, reader>>

Byte(t, c, s) == [t |-> t, c |-> c, s |-> s]
Prefix(k, s) == IF k.ext THEN <<Byte("E0", k.c, s)>> ELSE <<>>
Make(k, s) == Prefix(k, s) \o <<Byte("make", k.c, s)>>
Break(k, s) == Prefix(k, s) \o <<Byte("break", k.c, s)>>

NoKey == [ext |-> FALSE, c |-> "none", s |-> 0]

(* The last byte before the first stroke is an answer to the BIOS (0xFA):  *)
(* its top bit is set and it is no prefix.                                 *)
Init == /\ mode \in Modes
        /\ fifo = <<>> /\ wire = <<>>
        /\ last = Byte("ack", "none", 0)
        /\ held = [k \in Keys |-> 0]
        /\ strokes = <<>> /\ released = {} /\ overlap = {}
        /\ pc = "idle"
        /\ scancode = NoKey
        /\ returned = <<>>

-----------------------------------------------------------------------------
(* The keyboard sends a code.  An emulated keyboard puts the whole code    *)
(* into the buffer, or drops it when it does not fit.                      *)
Send(code) ==
    IF mode.bytewise
    THEN /\ Len(wire) + Len(code) <= mode.cap
         /\ wire' = wire \o code
         /\ UNCHANGED <<mode, fifo, last>>
    ELSE /\ mode.lossy \/ Len(fifo) + Len(code) <= mode.cap
         /\ fifo' = IF Len(fifo) + Len(code) <= mode.cap
                    THEN fifo \o code ELSE fifo
         /\ UNCHANGED <<mode, wire, last>>

Deliver == /\ wire # <<>>
           /\ Len(fifo) < mode.cap
           /\ fifo' = Append(fifo, Head(wire))
           /\ wire' = Tail(wire)
           /\ UNCHANGED <<mode, last, typist, reader>>

HeldStrokes == {held[k] : k \in Keys} \ {0}

Press(k) == LET s == Len(strokes) + 1
            IN  /\ k \in mode.keys
                /\ held[k] = 0
                /\ s <= MaxStrokes
                /\ Send(Make(k, s))
                /\ held' = [held EXCEPT ![k] = s]
                /\ strokes' = Append(strokes, k)
                /\ overlap' = IF HeldStrokes = {} THEN overlap
                              ELSE overlap \cup HeldStrokes \cup {s}
                /\ UNCHANGED <<released, reader>>

(* The typematic repeat of the key that went down last.                    *)
Repeat(k) == /\ held[k] # 0
             /\ held[k] = Len(strokes)
             /\ Send(Make(k, held[k]))
             /\ UNCHANGED <<typist, reader>>

Release(k) == /\ held[k] # 0
              /\ Send(Break(k, held[k]))
              /\ held' = [held EXCEPT ![k] = 0]
              /\ released' = released \cup {held[k]}
              /\ UNCHANGED <<strokes, overlap, reader>>

-----------------------------------------------------------------------------
(* inb(0x60): the next byte of the buffer, or the last byte once more.     *)
Inb == IF fifo = <<>> THEN last ELSE Head(fifo)

ReadPort == /\ last' = Inb
            /\ fifo' = IF fifo = <<>> THEN fifo ELSE Tail(fifo)
            /\ UNCHANGED <<mode, wire, typist>>

(* update_game_state calls get_key.                                        *)
Call == /\ pc = "idle"
        /\ pc' = "press"
        /\ UNCHANGED <<device, typist, scancode, returned>>

(* A complete code leaves the first loop if its top bit is clear.          *)
TakePress(ext) == /\ IF Inb.t = "make"
                     THEN /\ scancode' = [ext |-> ext, c |-> Inb.c, s |-> Inb.s]
                          /\ pc' = "wait"
                     ELSE /\ pc' = "press"
                          /\ UNCHANGED scancode
                  /\ UNCHANGED returned

ReadPress == /\ pc = "press"
             /\ ReadPort
             /\ IF Inb.t = "E0" THEN pc' = "press2" /\ UNCHANGED <<scancode, returned>>
                                ELSE TakePress(FALSE)

ReadPressSecond == /\ pc = "press2"
                   /\ ReadPort
                   /\ TakePress(TRUE)

(* Mutant: the second loop ends on any release code.                       *)
TakeAnyRelease(ext) ==
    /\ IF Inb.t = "break"
       THEN /\ pc' = "idle"
            /\ returned' = Append(returned,
                  [s |-> scancode.s,
                   key |-> [ext |-> scancode.ext, c |-> scancode.c]])
       ELSE /\ pc' = "wait"
            /\ UNCHANGED returned
    /\ UNCHANGED scancode

(* Mutant: the second loop gives up on a press code.                       *)
TakeReleaseOrPress(ext) ==
    /\ IF Inb.t = "make"
       THEN pc' = "press" /\ UNCHANGED returned
       ELSE IF Inb.t = "break" /\ Inb.c = scancode.c /\ ext = scancode.ext
       THEN /\ pc' = "idle"
            /\ returned' = Append(returned,
                  [s |-> scancode.s,
                   key |-> [ext |-> scancode.ext, c |-> scancode.c]])
       ELSE pc' = "wait" /\ UNCHANGED returned
    /\ UNCHANGED scancode

(* A complete code leaves the second loop, and get_key, if it is the press *)
(* code with the top bit set.                                              *)
TakeRelease(ext) ==
    /\ IF Inb.t = "break" /\ Inb.c = scancode.c /\ ext = scancode.ext
       THEN /\ pc' = "idle"
            /\ returned' = Append(returned,
                  [s |-> scancode.s,
                   key |-> [ext |-> scancode.ext, c |-> scancode.c]])
       ELSE /\ pc' = "wait"
            /\ UNCHANGED returned
    /\ UNCHANGED scancode

(* Mutant: the prefix of a release code is taken for a code.               *)
ReadReleaseNoPrefix == /\ pc = "wait"
                       /\ ReadPort
                       /\ TakeRelease(FALSE)

ReadRelease == /\ pc = "wait"
               /\ ReadPort
               /\ IF Inb.t = "E0" THEN pc' = "wait2" /\ UNCHANGED <<scancode, returned>>
                                  ELSE TakeRelease(FALSE)

ReadReleaseSecond == /\ pc = "wait2"
                     /\ ReadPort
                     /\ TakeRelease(TRUE)

GetKey == Call \/ ReadPress \/ ReadPressSecond \/ ReadRelease \/ ReadReleaseSecond

Next == \/ Deliver
        \/ \E k \in Keys : Press(k) \/ Repeat(k) \/ Release(k)
        \/ GetKey

(* The processor does nothing but poll, the controller passes on what it   *)
(* is sent, and nobody holds a key down for ever.                          *)
Spec == /\ Init /\ [][Next]_vars
        /\ WF_vars(GetKey) /\ WF_vars(Deliver)
        /\ \A k \in Keys : SF_vars(Release(k))

-----------------------------------------------------------------------------
(* keyboard.c:20, get_key waits for the release of the key it returns.     *)
WaitsForRelease == \A i \in DOMAIN returned : returned[i].s \in released

(* Codes that arrive whole are read whole: when get_key has read a prefix, *)
(* the byte that completes the code is in the buffer, so that the second   *)
(* inb is never a stale one, and the first inb never reads a second byte.  *)
ReadsWholeCodes == ~mode.bytewise =>
    /\ pc \in {"press2", "wait2"} => /\ last.t = "E0"
                                     /\ fifo # <<>>
                                     /\ Head(fifo).t \in {"make", "break"}
                                     /\ Head(fifo).s = last.s
    /\ (pc \in {"press", "wait", "idle"} /\ fifo # <<>>) =>
          (Head(fifo).t = "E0" <=> strokes[Head(fifo).s].ext)

(* get_key implements its contract.                                        *)
Reader == INSTANCE KeyReader WITH Key <- Keys, begun <- strokes,
                                  ended <- released, reported <- returned
ReaderSpec == Reader!ReaderSpec

(* get_key does not wait for a release for ever, if no code is lost.       *)
WaitEnds == (pc = "wait" /\ ~mode.lossy) ~> (pc = "idle")

(* A stroke during which no other key was down is never swallowed, however *)
(* fast the strokes follow each other (the loops of get_key discard what   *)
(* they do not wait for), if no code is lost.                              *)
LoneStrokeReturned ==
    \A s \in 1..MaxStrokes :
       (s \in released \ overlap /\ ~mode.lossy) ~>
          (\E i \in DOMAIN returned : returned[i].s = s)
=============================================================================
