----------------------------- MODULE MemberOrder -----------------------------
(***************************************************************************)
(* How Redis orders the entries of one score.  ReadyQueue compares         *)
(* sequence numbers; Redis compares members, which are strings: the        *)
(* number, zero-padded, a colon and the job id.                            *)
(*                                                                         *)
(* A string is the sequence of its characters' ranks: digits, and Colon,   *)
(* which sorts after them.  The job id behind the colon is left out: it    *)
(* decides nothing as long as numbers print differently.  The script gets  *)
(* the number as a Lua number, exact up to 2^53; larger ones are left out. *)
(***************************************************************************)
EXTENDS QueueClients, Sequences

CONSTANTS
    Base,     \* of the digits, 10 in the code
    Width     \* SEQUENCE_WIDTH, 19 in the code

\* The value of a digit with k digits behind it.
Place[k \in Nat] == IF k = 0 THEN 1 ELSE Base * Place[k - 1]

ASSUME PrintAssumption ==
    /\ Base \in Nat \ {0, 1} /\ Width \in Nat
    /\ MaxSequence < Place[Width]

Colon == Base

Digit(n, i) == (n \div Place[Width - i]) % Base

\* '%d': no padding.
FormattedMut(n) ==
    LET first == CHOOSE i \in 1..Width : Digit(n, i) # 0 /\ \A k \in 1..(i - 1) : Digit(n, k) = 0
    IN  [i \in 1..(Width - first + 1) |-> Digit(n, i + first - 1)]

\* '%0' .. width .. 'd'
Formatted(n) == [i \in 1..Width |-> Digit(n, i)]

\* The member up to its job id.
Printed(m) == Formatted(m.sequence) \o <<Colon>>

\* memcmp on two members.
SortsBefore(a, b) ==
    \E i \in DOMAIN a \intersect DOMAIN b :
        a[i] < b[i] /\ \A k \in 1..(i - 1) : a[k] = b[k]

\* "Lexicographic order always matches numeric order": of two entries with one
\* score Redis puts the one first that ReadyQueue puts first, across every carry
\* of the counter and with what restarts bring back.
PrintedOrderMatches ==
    \A e, f \in queue.ready :
        e.score = f.score => (Before(e, f) <=> SortsBefore(Printed(e.member), Printed(f.member)))
=============================================================================
