---------------------------- MODULE ContentLength -----------------------------
(* _declared_body_size_error of entrypoints/http.py: the verdict on the          *)
(* Content-Length fields of a request, reached without converting the digits to  *)
(* an integer.  A field value is the sequence of its bytes after the strip of    *)
(* blanks: 0..9 for a digit, Other for any other byte.                           *)
EXTENDS Integers, Sequences

Other == -1

(* str(max_body_bytes).encode("ascii")                                           *)
DecimalDigits[n \in Nat] ==
    IF n < 10 THEN <<n>> ELSE Append(DecimalDigits[n \div 10], n % 10)

(* bytes.isdigit: false of the empty value.                                      *)
IsDigits(value) == Len(value) > 0 /\ \A i \in 1..Len(value) : value[i] # Other

(* value.lstrip(b"0") or b"0"                                                    *)
Normalized(value) ==
    LET significant == {i \in 1..Len(value) : value[i] # 0}
    IN IF significant = {} THEN <<0>>
       ELSE SubSeq(value, CHOOSE i \in significant : \A j \in significant : i <= j,
                   Len(value))

(* The order of byte strings.                                                    *)
BytesGreater(s, t) ==
    \E i \in 1..Len(s) :
        /\ \A j \in 1..i - 1 : j <= Len(t) /\ s[j] = t[j]
        /\ i > Len(t) \/ s[i] > t[i]

(* Definitions named Slip_... are faults the code does not have: each is the     *)
(* next definition of the code with one plausible mistake, and substituting it   *)
(* must break a property.                                                        *)

(* The order of byte strings taken for that of numbers.                          *)
Slip_BytesOnly(value, cap) == BytesGreater(Normalized(value), DecimalDigits[cap])

(* Longer than the cap's digits, or as long and greater.                         *)
ExceedsCap(value, cap) ==
    LET n == Normalized(value)
        c == DecimalDigits[cap]
    IN Len(n) > Len(c) \/ (Len(n) = Len(c) /\ BytesGreater(n, c))

(* fields: the values of the Content-Length headers, in order.                   *)
DeclaredVerdict(fields, cap) ==
    IF Len(fields) = 0                 THEN "accepted"
    ELSE IF Len(fields) > 1            THEN "invalid_request"
    ELSE IF ~IsDigits(fields[1])       THEN "invalid_request"
    ELSE IF ExceedsCap(fields[1], cap) THEN "payload_too_large"
    ELSE "accepted"
-------------------------------------------------------------------------------
(* The number the digits denote: the definition the code avoids computing.       *)
NumberOf(value) ==
    LET prefix[i \in 0..Len(value)] ==
            IF i = 0 THEN 0 ELSE 10 * prefix[i - 1] + value[i]
    IN prefix[Len(value)]
===============================================================================
