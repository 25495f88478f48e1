---------------------------- MODULE AmountDisplay ----------------------------
(***************************************************************************)
(* The amount line of the withdrawal screen, display_data_content_and_     *)
(* confirm (src/handler/withdraw.c): the u64 amount is formatted with      *)
(* format_fpu64 as a fixed-point number with Decimals fractional digits,   *)
(* written after the ticker with snprintf into value_with_ticker, and the  *)
(* trailing '0', '.' and NUL characters are trimmed by a loop that scans   *)
(* backwards from the last cell of the array.                              *)
(*                                                                         *)
(* snprintf writes the string and its NUL; the cells after it are not      *)
(* initialised.  For the scan a garbage cell is either one it skips        *)
(* ("NUL", standing for '0', '.' and 0) or one that stops it ("X").        *)
(***************************************************************************)
EXTENDS Naturals, Sequences, SequencesExt

CONSTANTS
    Decimals,    \* fractional digits (18 in the code)
    Amounts,     \* u64 amounts read from chunk 5
    BufLen       \* cells of value_with_ticker (57 in the code)

ASSUME DecimalsAssumption == Decimals \in Nat \ {0}
ASSUME AmountsAssumption == Amounts \subseteq Nat /\ Amounts # {}

VARIABLES
    v,       \* value_u64
    str,     \* value_with_ticker: cells 0..BufLen-1
    idx,     \* i of the trim loop
    pc       \* "scan" while the loop runs, "done" after it

vars == <<v, str, idx, pc>>

DigitChars == <<"0", "1", "2", "3", "4", "5", "6", "7", "8", "9">>
DigitChar(d) == DigitChars[d + 1]

\* The ticker prefix "stBTC " of the snprintf format.
Ticker == <<"s", "t", "B", "T", "C", " ">>

\* Decimal digits of a natural number, most significant first.
DigitsOf[x \in Nat] ==
    IF x < 10 THEN <<DigitChar(x)>>
              ELSE DigitsOf[x \div 10] \o <<DigitChar(x % 10)>>

Zeros(k) == [j \in 1..k |-> "0"]

\* format_fpu64: every fractional digit is written, with "0." in front of
\* values below one.
FormatFpu64(x) ==
    LET ds == DigitsOf[x]
        k  == Len(ds)
    IN  IF k <= Decimals
        THEN <<"0", ".">> \o Zeros(Decimals - k) \o ds
        ELSE SubSeq(ds, 1, k - Decimals) \o <<".">>
               \o SubSeq(ds, k - Decimals + 1, k)

\* snprintf(value_with_ticker, sizeof, "stBTC %s", value) followed by the
\* uninitialised rest of the array.
Written(x) == Ticker \o FormatFpu64(x) \o <<"NUL">>

ASSUME BufLenAssumption == \A x \in Amounts : Len(Written(x)) <= BufLen

\* Mutant: the '.' does not keep the loop going.
TrimmableWithoutDot == {"0", "NUL"}

\* Characters that keep the trim loop going.
Trimmable == {"0", "NUL", "."}

\* The C string held by the array: the cells before the first NUL.
CString(s) ==
    LET nul == {j \in DOMAIN s : s[j] = "NUL"}
        end == IF nul = {} THEN BufLen ELSE CHOOSE j \in nul : \A m \in nul : j <= m
    IN  [j \in 1..end |-> s[j - 1]]

\* Mutant: the scan starts at sizeof(value_with_ticker), one past the end.
InitScanFromSize ==
    /\ v \in Amounts
    /\ LET w == Written(v)
       IN  \E g \in [Len(w)..BufLen - 1 -> {"NUL", "X"}] :
              str = [j \in 0..BufLen - 1 |-> IF j < Len(w) THEN w[j + 1] ELSE g[j]]
    /\ idx = BufLen
    /\ pc = "scan"

Init ==
    /\ v \in Amounts
    /\ LET w == Written(v)
       IN  \E g \in [Len(w)..BufLen - 1 -> {"NUL", "X"}] :
              str = [j \in 0..BufLen - 1 |-> IF j < Len(w) THEN w[j + 1] ELSE g[j]]
    /\ idx = BufLen - 1
    /\ pc = "scan"

\* One pass of the while loop: it continues while the cell is trimmable
\* and stops, without moving, at cell 0.
TrimStep ==
    /\ pc = "scan"
    /\ str[idx] \in Trimmable
    /\ idx # 0
    /\ idx' = idx - 1
    /\ UNCHANGED <<v, str, pc>>

\* Mutant: the terminator is written at i instead of i + 1.
TrimEndCutsAtI ==
    /\ pc = "scan"
    /\ str[idx] \notin Trimmable \/ idx = 0
    /\ str' = IF idx < BufLen - 1 THEN [str EXCEPT ![idx] = "NUL"] ELSE str
    /\ pc' = "done"
    /\ UNCHANGED <<v, idx>>

\* The loop exits; the string is cut after cell i unless i is the last cell.
TrimEnd ==
    /\ pc = "scan"
    /\ str[idx] \notin Trimmable \/ idx = 0
    /\ str' = IF idx < BufLen - 1 THEN [str EXCEPT ![idx + 1] = "NUL"] ELSE str
    /\ pc' = "done"
    /\ UNCHANGED <<v, idx>>

Next == TrimStep \/ TrimEnd

Spec == Init /\ [][Next]_vars

-----------------------------------------------------------------------------
(* Properties *)

TypeOK ==
    /\ v \in Amounts
    /\ str \in [0..BufLen - 1 -> {"NUL", "X", ".", " "} \cup Range(Ticker)
                                  \cup Range(DigitChars)]
    /\ idx \in 0..BufLen - 1
    /\ pc \in {"scan", "done"}

\* The part of the screen after the ticker.
Shown == LET s == CString(str) IN SubSeq(s, Len(Ticker) + 1, Len(s))

DigitVal(c) == CHOOSE d \in 0..9 : DigitChar(d) = c
NumberOf(ds) == FoldLeft(LAMBDA acc, c : 10 * acc + DigitVal(c), 0, ds)

\* The amount, in units of 10^-Decimals, that a screen text denotes; -1
\* when the text is not a decimal number.
ValueOf(t) ==
    LET dots == {j \in 1..Len(t) : t[j] = "."}
        ok   == /\ \A j \in 1..Len(t) : t[j] \in Range(DigitChars) \cup {"."}
                /\ Len(t) > 0 /\ t[1] # "."
                /\ dots = {} \/ \E d \in dots : dots = {d} /\ Len(t) - d <= Decimals
    IN  IF ~ok THEN -1
        ELSE IF dots = {} THEN NumberOf(t) * 10 ^ Decimals
        ELSE LET d == CHOOSE p \in dots : TRUE
                 frac == SubSeq(t, d + 1, Len(t))
             IN  NumberOf(SubSeq(t, 1, d - 1)) * 10 ^ Decimals
                   + NumberOf(frac) * 10 ^ (Decimals - Len(frac))

\* The screen never ends in a bare decimal point: the trim loop removes a
\* '.' once the fractional zeros are gone.
NoTrailingDot ==
    pc = "done" => Len(Shown) = 0 \/ Shown[Len(Shown)] # "."

\* An amount with a non-zero fractional part is shown with its exact value
\* and the ticker intact: the loop stops at the last significant digit.
FractionalAmountsExact ==
    pc = "done" /\ v % 10 ^ Decimals # 0 =>
        /\ SubSeq(CString(str), 1, Len(Ticker)) = Ticker
        /\ ValueOf(Shown) = v

\* Spec 4.2 and 8: the confirmation screen shows the amount's exact value
\* ("never strip the final '0' if the whole value is zero").
AmountDisplayExact == pc = "done" => ValueOf(Shown) = v

\* Spec 4.2: trailing fractional zeros are stripped from the screen.
DisplayTrimmed ==
    (pc = "done" /\ \E j \in DOMAIN Shown : Shown[j] = ".") =>
        Shown[Len(Shown)] # "0"

=============================================================================
