----------------------------- MODULE AtomicValue -----------------------------
(***************************************************************************)
(* What the writers of an entry's value (src/src/entry.cc) promise each    *)
(* other: a sequence of texts that each of them extends at an end, or      *)
(* replaces by what it computed from all of it, in one step.               *)
(***************************************************************************)
EXTENDS Integers, SequencesExt

CONSTANTS Texts,     \* what clients write: sequences of characters
          Amount,    \* the operand of incr and decr
          Modulus    \* how many numbers there are

VARIABLE value

(* The characters that are not digits; a digit is itself. *)
Space == 10
Letter == 11

(* A number is digits with white space around them, and may have none. *)
IsNumber(s) ==
    \E i \in 1..Len(s) + 1, j \in 0..Len(s) :
        \A n \in DOMAIN s : IF n \in i..j THEN s[n] \in 0..9 ELSE s[n] = Space

Number(s) ==
    LET upto[n \in 0..Len(s)] == IF n = 0 THEN 0
                                 ELSE IF s[n] = Space THEN upto[n - 1]
                                 ELSE 10 * upto[n - 1] + s[n]
    IN upto[Len(s)] % Modulus

(* How a number is written: the digits of its tenth part and the last one. *)
Numeral(a) ==
    LET digits[n \in 0..a] == IF n = 0 THEN <<>> ELSE digits[n \div 10] \o <<n % 10>>
    IN IF a < 10 THEN <<a>> ELSE digits[a]

Init == \E x \in Texts : value = <<x>>

AppendText == \E x \in Texts : value' = Append(value, x)

PrependText == \E x \in Texts : value' = <<x>> \o value

Replace == \E x \in Texts : value' = <<x>>

Incr ==
    LET s == FlattenSeq(value)
    IN IsNumber(s) /\ value' = <<Numeral((Number(s) + Amount) % Modulus)>>

Decr ==
    LET s == FlattenSeq(value)
        n == Number(s)
    IN IsNumber(s) /\ value' = <<Numeral(IF n < Amount THEN 0 ELSE n - Amount)>>

Destroy == value' = <<>>

Next ==
    value # <<>> /\ (AppendText \/ PrependText \/ Replace \/ Incr \/ Decr \/ Destroy)

Spec == Init /\ [][Next]_value
=============================================================================
