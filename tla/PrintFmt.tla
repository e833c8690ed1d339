------------------------------ MODULE PrintFmt ------------------------------
(***************************************************************************)
(* vsnprintf of lib/printfmt.c: vprintfmt walks a format and puts every    *)
(* character through sprintputch into a buffer of n bytes.  The text of an *)
(* escape is put in one step; nothing runs between two putch.              *)
(*                                                                         *)
(* A format is a sequence of characters, strings of length one; NUL ends   *)
(* it.  An int has IntRange values, a long long LongRange.                 *)
(***************************************************************************)
EXTENDS Integers, Sequences, SequencesExt, FiniteSetsExt

CONSTANTS Formats, Strings, Ints, LongLongs,  \* the callers' arguments
          StarArgs,                           \* arguments of '*'
          BufferSizes,                        \* n of vsnprintf
          ErrorString,                        \* error_string, without its holes
          IntRange, LongRange,
          LastCell                            \* of the memory behind buf

NUL == "\\0"
Old == "old"
Null == "NULL"
Digit == <<"0", "1", "2", "3", "4", "5", "6", "7", "8", "9", "a", "b", "c", "d", "e", "f">>
DigitValue == [c \in ToSet(Digit) |-> CHOOSE d \in 0..15 : Digit[d + 1] = c]
LetterValue == LET small == <<"g", "h", "i", "j", "k", "l", "m", "n", "o", "p", "q", "r",
                              "s", "t", "u", "v", "w", "x", "y", "z">>
                   capital == <<"A", "B", "C", "D", "E", "F", "G", "H", "I", "J", "K", "L", "M",
                                "N", "O", "P", "Q", "R", "S", "T", "U", "V", "W", "X", "Y", "Z">>
               IN  DigitValue @@ [c \in ToSet(small) |-> 15 + CHOOSE k \in DOMAIN small : small[k] = c]
                              @@ [c \in ToSet(capital) |-> 9 + CHOOSE k \in DOMAIN capital : capital[k] = c]
Unprintable == {"\n"}
Decimal == {Digit[i] : i \in 1..10}
E_INVAL == 3
MAXERROR == 8

ASSUME PrintAssumption ==
    /\ {IntRange, LongRange} \subseteq Nat \ {0} /\ LongRange >= IntRange
    /\ Ints \subseteq -(IntRange \div 2)..(IntRange \div 2 - 1)
    /\ LongLongs \subseteq -(LongRange \div 2)..(LongRange \div 2 - 1)
    /\ StarArgs \subseteq Int
    /\ BufferSizes \subseteq Int /\ LastCell \in Nat /\ \A n \in BufferSizes : n < LastCell
    /\ DOMAIN ErrorString \subseteq 1..(MAXERROR - 1)
    /\ \A s \in Formats \cup Strings \cup {ErrorString[e] : e \in DOMAIN ErrorString} :
          s \in Seq(ToSet(s))
    /\ \A f \in Formats : /\ f # <<>> /\ f[Len(f)] = NUL
                          /\ \A i \in 1..(Len(f) - 1) : f[i] # NUL

VARIABLES fmt, at,   \* the format and the index of the next character
          escape,    \* None, or the flags and fields of the escape at hand
          b,         \* the struct sprintbuf: n, next (of buf), cnt
          buffer,    \* the memory behind buf
          ret,       \* <<>>, then vsnprintf's result in a sequence
          out,       \* history: every character put so far
          field      \* history: the last numeric or string field

printing == <<fmt, at, escape, b, buffer, ret, out, field>>

Running == <<>>
None == [verb |-> "none"]
Fresh == [padc |-> " ", width |-> -1, precision |-> -1, lflag |-> 0,
          altflag |-> FALSE,
          counting |-> FALSE]   \* in the loop over the digits of a field
Cells == 0..LastCell

-----------------------------------------------------------------------------
Repeat(c, k) == [i \in 1..k |-> c]   \* no character if k <= 0

(* Mutant: the buffer's end is buf + n.                                    *)
PutWhole(text) ==
    /\ buffer' = [i \in Cells |-> IF i >= b.next /\ i < b.next + Len(text) /\ i < b.n
                                  THEN text[i - b.next + 1] ELSE buffer[i]]
    /\ b' = [b EXCEPT !.cnt = @ + Len(text), !.next = Min({@ + Len(text), b.n})]
    /\ out' = out \o text

(* sprintputch for each character of a text                                *)
Put(text) ==
    /\ buffer' = [i \in Cells |-> IF i >= b.next /\ i < b.next + Len(text) /\ i < b.n - 1
                                  THEN text[i - b.next + 1] ELSE buffer[i]]
    /\ b' = [b EXCEPT !.cnt = @ + Len(text), !.next = Min({@ + Len(text), b.n - 1})]
    /\ out' = out \o text

Digits(base) ==
    LET digits[k \in Nat] == IF k >= base THEN digits[k \div base] \o <<Digit[(k % base) + 1]>>
                                          ELSE <<Digit[k + 1]>>
    IN  digits

(* The width shrinks with every digit; what is left of it comes first.     *)
printnum(num, base, width, padc) ==
    LET text == Digits(base)[num] IN Repeat(padc, width - Len(text)) \o text

(* The argument of a numeric escape: an int is extended to 64 bits as the  *)
(* escape's signedness says.                                               *)
Arguments(lflag) == IF lflag >= 2 THEN LongLongs ELSE Ints
getint(v, lflag) == v % LongRange

(* Mutant: an unsigned int is extended as an int is.                       *)
getuintSigned(v, lflag) == v % LongRange
getuint(v, lflag) == IF lflag >= 2 THEN v % LongRange ELSE v % IntRange

-----------------------------------------------------------------------------
PrintInit == /\ fmt \in Formats
             /\ at = 1
             /\ escape = None
             /\ b \in [n : BufferSizes, next : {0}, cnt : {0}]
             /\ buffer = [i \in Cells |-> Old]
             /\ ret = Running
             /\ out = <<>>
             /\ field = None

Char == fmt[at]
Go == at' = at + 1

(* vsnprintf refuses a buffer without a byte (and, likewise, no buffer).   *)
Refuse == /\ ret = Running
          /\ b.n < 1
          /\ ret' = <<-E_INVAL>>
          /\ UNCHANGED <<fmt, at, escape, b, buffer, out, field>>

Literal == /\ Char \notin {"%", NUL}
           /\ Put(<<Char>>)
           /\ Go
           /\ UNCHANGED <<fmt, escape, ret, field>>

Percent == /\ Char = "%"
           /\ escape' = Fresh
           /\ Go
           /\ UNCHANGED <<fmt, b, buffer, ret, out, field>>

(* The end of the format: vsnprintf terminates the buffer.                 *)
Return == /\ Char = NUL
          /\ buffer' = [buffer EXCEPT ![b.next] = NUL]
          /\ ret' = <<b.cnt>>
          /\ UNCHANGED <<fmt, at, escape, b, out, field>>

Flag == /\ \/ Char \in {"-", "0"} /\ escape' = [escape EXCEPT !.padc = Char]
           \/ Char = "l" /\ escape' = [escape EXCEPT !.lflag = @ + 1]
           \/ Char = "#" /\ escape' = [escape EXCEPT !.altflag = TRUE]
           \/ Char = "." /\ escape' = [escape EXCEPT !.width = IF @ < 0 THEN 0 ELSE @]
        /\ Go
        /\ UNCHANGED <<fmt, b, buffer, ret, out, field>>

process_precision(p) ==
    LET read == [escape EXCEPT !.counting = FALSE]
    IN  escape' = IF read.width < 0 THEN [read EXCEPT !.width = p, !.precision = -1]
                                    ELSE [read EXCEPT !.precision = p]

(* A digit of a field; a 0 in front of it is a flag.                       *)
WidthField ==
    /\ Char \in Decimal
    /\ escape.counting \/ Char # "0"
    /\ escape' = [escape EXCEPT !.precision = (IF escape.counting THEN @ * 10 ELSE 0)
                                             + DigitValue[Char],
                                !.counting = TRUE]
    /\ Go
    /\ UNCHANGED <<fmt, b, buffer, ret, out, field>>

WidthRead == /\ escape.counting
             /\ Char \notin Decimal
             /\ process_precision(escape.precision)
             /\ UNCHANGED <<fmt, at, b, buffer, ret, out, field>>

Star == /\ Char = "*"
        /\ \E v \in StarArgs : process_precision(v)
        /\ Go
        /\ UNCHANGED <<fmt, b, buffer, ret, out, field>>

Convert(text, record) ==
    /\ Put(text)
    /\ field' = record
    /\ Go
    /\ escape' = None
    /\ UNCHANGED <<fmt, ret>>

(* %d, %u, %x and %p; a pointer has as many bits as an int, whatever lflag *)
(* is.                                                                     *)
Number ==
    \E v \in Arguments(IF Char = "p" THEN 0 ELSE escape.lflag) :
        LET signed == Char = "d"
            base == IF Char \in {"d", "u"} THEN 10 ELSE 16
            raw == CASE signed -> getint(v, escape.lflag)
                     [] Char = "p" -> v % IntRange
                     [] OTHER -> getuint(v, escape.lflag)
            negative == signed /\ raw >= LongRange \div 2
            num == IF negative THEN (-raw) % LongRange ELSE raw
            prefix == CASE negative -> <<"-">>
                        [] Char = "p" -> <<"0", "x">>
                        [] OTHER -> <<>>
            text == prefix \o printnum(num, base, escape.width, escape.padc)
        IN  /\ Char \in {"d", "u", "x", "p"}
            /\ Convert(text, [verb |-> Char, spec |-> escape, arg |-> v, text |-> text])

(* Mutant: the padding of a string does not know its precision.            *)
PaddedLong(p, spec) ==
    LET shown == IF spec.precision < 0 THEN p ELSE SubSeq(p, 1, Min({spec.precision, Len(p)}))
        pads == spec.width - Len(p)
    IN  IF spec.padc # "-" THEN Repeat(spec.padc, pads) \o shown
                           ELSE shown \o Repeat(" ", pads)

Visible(c) == IF c \in Unprintable THEN "?" ELSE c

(* What %s puts for the string p                                           *)
Padded(p, spec) ==
    LET shown == IF spec.precision < 0 THEN p ELSE SubSeq(p, 1, Min({spec.precision, Len(p)}))
        pads == spec.width - Len(shown)
    IN  IF spec.padc # "-" THEN Repeat(spec.padc, pads) \o shown
                           ELSE shown \o Repeat(" ", pads)

Text == /\ Char = "s"
        /\ \E p \in Strings \cup {<<"(", "n", "u", "l", "l", ")">>} :
              LET q == IF escape.altflag THEN [i \in DOMAIN p |-> Visible(p[i])] ELSE p
                  text == Padded(q, escape)
              IN  Convert(text, [verb |-> "s", spec |-> escape, arg |-> q, text |-> text])

(* %e: a message, or "error" and a number, put by a printfmt of its own;   *)
(* err is the argument without its sign.                                   *)
Error == /\ Char = "e"
         /\ \E err \in 0..(MAXERROR + 1) :
              Convert(IF err \in DOMAIN ErrorString THEN ErrorString[err]
                      ELSE <<"e", "r", "r", "o", "r", " ">> \o printnum(err, 10, -1, " "),
                      field)

Plain == /\ Char \in {"c", "o", "%"}
         /\ Convert(CASE Char = "c" -> <<"a">> [] Char = "o" -> <<"X", "X", "X">>
                      [] Char = "%" -> <<"%">>,
                    field)

(* Mutant: the character that is no escape is skipped.                     *)
UnknownSkipped ==
    /\ Char \notin Decimal \cup {"-", "#", "*", ".", "l", "c", "e", "s", "d", "u", "o", "p", "x", "%"}
    /\ Put(<<"%">>)
    /\ Go
    /\ escape' = None
    /\ UNCHANGED <<fmt, ret, field>>

(* An escape that is none of these is put as it stands in the format.      *)
Unknown == /\ Char \notin Decimal \cup {"-", "#", "*", ".", "l", "c", "e", "s", "d", "u", "o", "p",
                                        "x", "%"}
           /\ Put(<<"%">>)
           /\ at' = Max({i \in 1..(at - 1) : fmt[i] = "%"}) + 1
           /\ escape' = None
           /\ UNCHANGED <<fmt, ret, field>>

vprintfmt == /\ ret = Running
             /\ b.n >= 1
             /\ \/ escape = None /\ (Literal \/ Percent \/ Return)
                \/ escape # None /\ (WidthField \/ WidthRead)
                \/ /\ escape # None /\ ~escape.counting
                   /\ \/ Flag \/ Star
                      \/ Number \/ Text \/ Error \/ Plain \/ Unknown

PrintNext == Refuse \/ vprintfmt

PrintSpec == PrintInit /\ [][PrintNext]_printing

-----------------------------------------------------------------------------
(* vsnprintf never writes at or behind buf + n, whatever is printed; when  *)
(* it returns, the buffer holds the start of the text and a NUL, and the   *)
(* result is the length of the whole text.  Without a buffer it writes     *)
(* nothing and returns -E_INVAL.                                           *)
SnprintfContract ==
    /\ \A i \in Cells : i >= b.n => buffer[i] = Old
    /\ ret # Running =>
         IF b.n < 1 THEN ret = <<-E_INVAL>>
         ELSE LET kept == Min({Len(out), b.n - 1})
              IN  /\ ret = <<Len(out)>>
                  /\ \A i \in 0..(kept - 1) : buffer[i] = out[i + 1]
                  /\ buffer[kept] = NUL

(* The format is never read behind its NUL, though it may end within an    *)
(* escape: what is no escape is put from its '%' on, and the NUL met again.*)
FormatKept == at \in DOMAIN fmt

Long(x) == ((x + IntRange \div 2) % IntRange) - IntRange \div 2

(* strtol of lib/string.c: the value, and the index where endptr points;   *)
(* long has as many bits as int and "we don't properly detect overflow".   *)
strtol(s, base) ==
    LET char(i) == IF i \in DOMAIN s THEN s[i] ELSE NUL
        sign == 1 + Cardinality({i \in DOMAIN s : \A j \in 1..i : s[j] \in {" ", "\t"}})
        prefix == IF char(sign) \in {"+", "-"} THEN sign + 1 ELSE sign
        zero == char(prefix) = "0"
        hex == base \in {0, 16} /\ zero /\ char(prefix + 1) = "x"
        first == CASE hex -> prefix + 2
                   [] base = 0 /\ zero /\ ~hex -> prefix + 1
                   [] OTHER -> prefix
        radix == CASE hex -> 16
                   [] base # 0 -> base
                   [] OTHER -> IF zero THEN 8 ELSE 10
        good == {i \in first..Len(s) : \A j \in first..i :
                     s[j] \in DOMAIN LetterValue /\ LetterValue[s[j]] < radix}
        end == first + Cardinality(good)
        val == FoldLeft(LAMBDA a, c : a * radix + LetterValue[c], 0,
                        SubSeq(s, first, end - 1))
    IN  [val |-> Long(IF char(sign) = "-" THEN -val ELSE val), end |-> end]

(* A string's field is as wide as asked, no less than what its precision   *)
(* lets it show, and shows that much of the string unbroken: the padding   *)
(* counts what is shown, not the string.  (That is what the case 's' does; *)
(* the comment at the head of printfmt.c, lines 12-13, says that a padding *)
(* and a field width are supported for the numeric formats only.)          *)
StringFields == field.verb = "s" =>
    LET shown == IF field.spec.precision < 0 THEN Len(field.arg)
                 ELSE Min({field.spec.precision, Len(field.arg)})
    IN  /\ Len(field.text) = Max({field.spec.width, shown})
        /\ \E i \in 0..(Len(field.text) - shown) :
              SubSeq(field.text, i + 1, i + shown) = SubSeq(field.arg, 1, shown)

(* Every numeric field is as wide as asked (a sign and "0x" come on top)   *)
(* and, unless it is padded by '-' or by blanks behind its sign or "0x",   *)
(* strtol reads the argument back, as far as a long goes, and stops at its *)
(* end; the base of %p is seen from its text.  (Nothing is said of where   *)
(* '-' pads: the comment at printfmt.c:107 says on the right, printnum     *)
(* puts '-' characters in front of the digits.)                            *)
NumberFields == field.verb \notin {"none", "s"} =>
    LET spec == field.spec
        text == field.text
        v == field.arg
        base == IF field.verb \in {"d", "u"} THEN 10 ELSE 16
        wide == spec.lflag >= 2 /\ field.verb # "p"
        value == IF field.verb = "d" \/ v >= 0 THEN v
                 ELSE v + (IF wide THEN LongRange ELSE IntRange)
        extra == IF field.verb = "p" THEN 2 ELSE IF value < 0 THEN 1 ELSE 0
        least == CHOOSE k \in 1..LongRange :
                    /\ (IF value < 0 THEN -value ELSE value) < base^k
                    /\ k > 1 => (IF value < 0 THEN -value ELSE value) >= base^(k - 1)
        padded == spec.width > least
        readable == padded => \/ spec.padc = "0"
                              \/ spec.padc = " " /\ extra = 0
    IN  /\ Len(text) = extra + Max({spec.width, least})
        /\ readable => \A read \in {base} \cup (IF field.verb = "p" THEN {0} ELSE {}) :
              strtol(text, read) = [val |-> Long(value), end |-> Len(text) + 1]
=============================================================================
