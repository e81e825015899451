------------------------------- MODULE FileTime -------------------------------
(***************************************************************************)
(* File times (dpcrt_pal_linux.c): the comparison of two times by their    *)
(* difference, which changes one of them and may be made again.  The times *)
(* are whole ones, with nanoseconds in range.                              *)
(***************************************************************************)
EXTENDS Integers

CONSTANTS Sec,          \* whole seconds of the files' times
          Second,       \* nanoseconds in a second
          Carry,        \* what the code takes for that number when it carries
          MaxCompares   \* how often a pair is compared: a bound

ASSUME FileTimeAssumption ==
    /\ Sec \subseteq Nat
    /\ Second \in Nat /\ Carry \in Nat /\ 0 < Carry /\ Carry < Second
    /\ MaxCompares \in Nat

VARIABLES x, y,    \* the two times
          read,    \* history: y as it was
          result,  \* what the last comparison returned
          times    \* how many there were

timeVars == <<x, y, read, result, times>>

Nsec == 0..(Second - 1)

Time == [tv_sec : Sec, tv_nsec : Nsec]

TimeInit ==
    /\ x \in Time /\ y \in Time
    /\ read = y
    /\ result = 0 /\ times = 0

\* x / Second as C divides: towards zero
Quotient(a) == IF a >= 0 THEN a \div Second ELSE -((-a) \div Second)

\* Mutants (Name_Bug): a bug of a line each, that a property must find.
CarriedUp_Down(a, b) ==
    IF a.tv_nsec < b.tv_nsec
    THEN LET n == Quotient(b.tv_nsec - a.tv_nsec) + 1
         IN [tv_sec |-> b.tv_sec - n, tv_nsec |-> b.tv_nsec - Carry * n]
    ELSE b

\* The first carry of pal_filetime_diff: y is moved to later seconds.
CarriedUp(a, b) ==
    IF a.tv_nsec < b.tv_nsec
    THEN LET n == Quotient(b.tv_nsec - a.tv_nsec) + 1
         IN [tv_sec |-> b.tv_sec + n, tv_nsec |-> b.tv_nsec - Carry * n]
    ELSE b

CarriedDown_OneMore(a, b) ==
    IF a.tv_nsec - b.tv_nsec > Carry
    THEN LET n == Quotient(a.tv_nsec - b.tv_nsec) + 1
         IN [tv_sec |-> b.tv_sec - n, tv_nsec |-> b.tv_nsec + Carry * n]
    ELSE b

\* The second one: to earlier seconds.
CarriedDown(a, b) ==
    IF a.tv_nsec - b.tv_nsec > Carry
    THEN LET n == Quotient(a.tv_nsec - b.tv_nsec)
         IN [tv_sec |-> b.tv_sec - n, tv_nsec |-> b.tv_nsec + Carry * n]
    ELSE b

Carried(a, b) == CarriedDown(a, CarriedUp(a, b))

\* What pal_filetime_cmp makes of a, and of b once it was carried
Ordered(a, b) ==
    IF a = b THEN 0
    ELSE IF a.tv_sec < b.tv_sec THEN -1 ELSE 1

\* pal_filetime_cmp
Compare ==
    /\ times < MaxCompares
    /\ y' = Carried(x, y)
    /\ result' = Ordered(x, y')
    /\ times' = times + 1
    /\ UNCHANGED <<x, read>>

Over == times = MaxCompares /\ UNCHANGED timeVars

TimeNext == Compare \/ Over

TimeSpec == TimeInit /\ [][TimeNext]_timeVars

-----------------------------------------------------------------------------
(* Properties.                                                             *)

Earlier(a, b) == a.tv_sec < b.tv_sec \/ (a.tv_sec = b.tv_sec /\ a.tv_nsec < b.tv_nsec)

Order(a, b) == IF a = b THEN 0 ELSE IF Earlier(a, b) THEN -1 ELSE 1

\* What the first carry makes equal: times that are a second less a carry apart.
Tied(a, b) == a.tv_sec = b.tv_sec + 1 /\ b.tv_nsec - a.tv_nsec = Carry

\* pal_filetime_cmp orders two times right the first time, but for those that its
\* own carry ties; and every time, the second as it was, when the nanoseconds
\* need no carry.
ComparesRight ==
    /\ times = 1 /\ ~Tied(x, read) => result = Order(x, read)
    /\ x.tv_nsec >= read.tv_nsec => y = read /\ (times > 0 => result = Order(x, read))

\* A comparison that carries makes the second time later, and not earlier: what
\* was found to be earlier stays so, however often it is asked.
EarlierStays == [][result = -1 => result' = -1]_timeVars
=============================================================================
