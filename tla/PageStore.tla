------------------------------ MODULE PageStore ------------------------------
(***************************************************************************)
(* What a user of class Disk sees within one run of the process: an array  *)
(* of bytes, in pages, that starts zeroed and answers every read with the  *)
(* bytes last written (disk.h:129-212).  No cache, no file.                *)
(*                                                                         *)
(* Two things here are what the code does and not what disk.h says.        *)
(* read_page answers with twice the bytes of a page, the first half zeros. *)
(* And an access that crosses from one group of PageSize pages to the next *)
(* may damage the two pages it is about: they are in `torn` from then on,  *)
(* nothing is promised of their bytes, and all other pages are unharmed.   *)
(***************************************************************************)
EXTENDS Sequences, Integers

CONSTANTS
    NPages,         \* number of pages
    PageSize,       \* bytes in a page
    Byte,           \* values of a byte
    Sizes           \* bytes moved by the read and write functions

VARIABLES
    mem,            \* contents of every page
    reply,          \* answer to the last call
    torn            \* pages that were damaged

vars == <<mem, reply, torn>>

Pages == 0 .. NPages - 1
PageData == [1 .. PageSize -> Byte]
Addresses == 0 .. NPages * PageSize - 1

ZeroPage == [o \in 1 .. PageSize |-> 0]
Blank == [p \in Pages |-> ZeroPage]
Done == [status |-> "ok", bytes |-> <<>>]

PageOf(a) == a \div PageSize
ByteAt(a) == mem[PageOf(a)][(a % PageSize) + 1]

\* The pages of an access, when they are of two groups.
Damaged(a, n) ==
    LET first == PageOf(a)
        last == PageOf(a + n - 1)
    IN  IF first \div PageSize = last \div PageSize THEN {} ELSE {first, last}

\* Every page that is not damaged holds what m says.
Holds(m) ==
    /\ DOMAIN mem' = Pages
    /\ \A p \in Pages \ torn' : mem'[p] = m[p]

Init == mem = Blank /\ reply = Done /\ torn = {}

\* The bytes are right up to those of damaged pages, also when the access is the
\* one that damages them.
Read ==
    \E a \in Addresses, n \in Sizes :
        /\ a + n - 1 \in Addresses
        /\ reply'.status = "ok"
        /\ DOMAIN reply'.bytes = 1 .. n
        /\ \A k \in 1 .. n :
              PageOf(a + k - 1) \notin torn => reply'.bytes[k] = ByteAt(a + k - 1)
        /\ torn' \in {torn, torn \cup Damaged(a, n)}
        /\ Holds(mem)

ReadPage ==
    \E p \in Pages :
        /\ reply'.status = "ok"
        /\ p \notin torn => reply'.bytes = ZeroPage \o mem[p]
        /\ UNCHANGED torn
        /\ Holds(mem)

\* Exactly the addressed bytes change.
Write ==
    \E a \in Addresses, n \in Sizes : \E bytes \in [1 .. n -> Byte] :
        /\ reply' = Done
        /\ a + n - 1 \in Addresses
        /\ torn' \in {torn, torn \cup Damaged(a, n)}
        /\ Holds([p \in Pages |-> [o \in 1 .. PageSize |->
                     LET k == p * PageSize + o - a
                     IN  IF k \in 1 .. n THEN bytes[k] ELSE mem[p][o]]])

WritePage ==
    \E p \in Pages, bytes \in PageData :
        /\ reply' = Done
        /\ UNCHANGED torn
        /\ Holds([mem EXCEPT ![p] = bytes])

\* A page of the wrong size is refused, and nothing changes.
Refuse ==
    /\ reply' = [status |-> "throw", bytes |-> <<>>]
    /\ UNCHANGED <<mem, torn>>

\* Saving may bring a page that is damaged to any state.
Save == Holds(mem) /\ UNCHANGED <<reply, torn>>

\* The process ends, and what was stored with it.
Wipe == mem' = Blank /\ reply' = Done /\ torn' = {}

Next == Read \/ ReadPage \/ Write \/ WritePage \/ Refuse \/ Save \/ Wipe

Spec == Init /\ [][Next]_vars

=============================================================================
