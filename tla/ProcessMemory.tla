--------------------------- MODULE ProcessMemory ---------------------------
(***************************************************************************)
(* What the processes see of the memory behind the system bus: each has    *)
(* pages of its own, which hold zeros until it writes to them.  No frames, *)
(* no disk, no translation.  The places where the machine departs from     *)
(* that are marked "Departs".                                              *)
(***************************************************************************)
EXTENDS SequencesExt, Integers

CONSTANTS
    Pids, VPages,
    NoProcess,
    PageBytes,      \* bytes in a page
    Byte,           \* values of a byte
    Sizes,          \* bytes moved by one access
    MemoryPages,    \* pages of RAM and ROM
    Addresses

VARIABLES
    cur,            \* the process that runs
    pages,          \* what every process has in each of its pages
    lost,           \* pages that were given no memory
    shared,         \* Departs: pages whose memory another may have too; what they hold is left open
    foreign,        \* Departs: pages reached through a translation of a process that has ended
    sound,          \* whether all memory there is has been given at most once
    pending,        \* the access under way
    reply           \* answer to the last call

given == <<lost, shared, sound>>
vars == <<cur, pages, given, foreign, pending, reply>>

Blank == [o \in 0 .. PageBytes - 1 |-> 0]
PageAt(a) == a \div PageBytes

Idle == [kind |-> "none", todo |-> <<>>, data |-> <<>>]
Answer(status, data) == [status |-> status, data |-> data]
Refusals == {Answer(status, <<>>) : status \in {"throw", "exit"}}

Init ==
    /\ cur = NoProcess /\ pages = [pid \in {} |-> {}]
    /\ lost = {} /\ shared = {} /\ foreign = {} /\ sound = TRUE
    /\ pending = Idle /\ reply = Answer("ok", <<>>)

\* What new says, and old of the rest.
Over(new, old) == [x \in DOMAIN new \cup DOMAIN old |-> IF x \in DOMAIN new THEN new[x] ELSE old[x]]

\* The pages there are.
Rows(all) == {r \in Pids \X VPages : r[1] \in DOMAIN all /\ r[2] \in DOMAIN all[r[1]]}

Quiet == pending = Idle /\ UNCHANGED pending
\* A translation of an ended process can be forgotten whenever it is not needed.
Forgets == foreign' \subseteq foreign
\* A call that is no access tells whether it did what it was asked.
Returned == reply' = Answer("ok", <<>>) \/ reply' \in Refusals

-----------------------------------------------------------------------------
(* Processes and their pages. *)

Begin ==
    /\ \E pid \in Pids \ DOMAIN pages :
         /\ pages' = [q \in DOMAIN pages \cup {pid} |-> IF q = pid THEN [p \in {} |-> Blank] ELSE pages[q]]
         /\ cur' = pid
         /\ \A r \in foreign' \ foreign : r[1] = pid
    /\ reply' = Answer("ok", <<>>)
    /\ UNCHANGED given
Set == Forgets /\ cur' \in DOMAIN pages /\ reply' = Answer("ok", <<>>) /\ UNCHANGED <<pages, given>>
End ==
    \E pid \in DOMAIN pages :
        /\ pages' = [q \in DOMAIN pages \ {pid} |-> pages[q]]
        /\ lost' = {r \in lost : r[1] # pid} /\ shared' = {r \in shared : r[1] # pid}
        /\ cur' = IF cur = pid THEN NoProcess ELSE cur
        /\ reply' = Answer("ok", <<>>)
    /\ Forgets /\ UNCHANGED sound

With(pid, added) == [pages EXCEPT ![pid] = Over([p \in added |-> Blank], @)]
Add ==
    /\ \E pid \in DOMAIN pages : \E added \in SUBSET (VPages \ DOMAIN pages[pid]) :
         pages' = With(pid, added)
    /\ Returned
    /\ Forgets /\ UNCHANGED <<cur, given>>
Refuse == Forgets /\ reply' = Answer("throw", <<>>) /\ UNCHANGED <<cur, pages, given>>

-----------------------------------------------------------------------------
(* An access within a page is made at once.  One that straddles two is     *)
(* made a byte at a time, a write from its first byte, a read from its     *)
(* last.                                                                   *)

Parts(kind, a, n) ==
    LET each == [k \in 1 .. n |-> {a + k - 1}]
    IN  IF PageAt(a) = PageAt(a + n - 1) THEN <<a .. a + n - 1>>
        ELSE IF kind = "write" THEN each ELSE Reverse(each)

Start ==
    /\ pending = Idle
    /\ \E a \in Addresses, n \in Sizes :
         \/ pending' = [kind |-> "read", todo |-> Parts("read", a, n), data |-> <<>>]
         \/ \E data \in [a .. a + n - 1 -> Byte] :
              pending' = [kind |-> "write", todo |-> Parts("write", a, n), data |-> data]
    /\ reply' = Answer("ok", <<>>)
    /\ Forgets /\ UNCHANGED <<cur, pages, given>>

Here == Head(pending.todo)
HerePage == PageAt(CHOOSE a \in Here : TRUE)
Row == <<cur, HerePage>>
OwnPage == cur # NoProcess /\ HerePage \in DOMAIN pages[cur]

Written(page) ==
    [o \in DOMAIN page |-> LET a == HerePage * PageBytes + o
                           IN  IF a \in Here THEN pending.data[a] ELSE page[o]]
Seen == [a \in Here |-> pages[cur][HerePage][a % PageBytes]]

\* The access goes on, and answers when nothing is left to do.
Continue(data) ==
    LET rest == [pending EXCEPT !.todo = Tail(@), !.data = data]
    IN  IF rest.todo # <<>> THEN pending' = rest /\ UNCHANGED reply
        ELSE /\ pending' = Idle
             /\ reply' = Answer("ok", IF rest.kind = "read" THEN data ELSE <<>>)

StepOwn ==
    /\ OwnPage /\ Row \notin lost \cup shared
    /\ pages' = IF pending.kind = "write" THEN [pages EXCEPT ![cur][HerePage] = Written(@)] ELSE pages
    /\ Continue(IF pending.kind = "write" THEN pending.data ELSE Over(Seen, pending.data))
    /\ UNCHANGED <<cur, given>>

\* The page may have to share its memory if some has been given twice.
StepShared ==
    /\ OwnPage /\ Row \in shared' /\ shared' \in {shared, shared \cup {Row}}
    /\ shared' # shared => ~sound
    /\ \E seen \in [Here -> Byte] :
         Continue(IF pending.kind = "write" THEN pending.data ELSE Over(seen, pending.data))
    /\ UNCHANGED <<cur, pages, lost, sound>>

\* A page may be given no memory if there are more pages than RAM and ROM have.
Fail ==
    /\ \/ (~OwnPage \/ Row \in foreign) /\ UNCHANGED lost
       \/ OwnPage /\ Row \in lost' /\ lost' \in {lost, lost \cup {Row}}
                  /\ (lost' # lost => ~sound \/ Cardinality(Rows(pages)) > MemoryPages)
    /\ pending' = Idle /\ reply' \in Refusals
    /\ UNCHANGED <<cur, pages, shared, sound>>

\* The bytes of a physical access may be anybody's.
Poked(before, data) ==
    LET changed == {c \in Rows(before) \X (0 .. PageBytes - 1) :
                      pages'[c[1][1]][c[1][2]][c[2]] # before[c[1][1]][c[1][2]][c[2]]}
    IN  /\ DOMAIN pages' = DOMAIN before
        /\ \A pid \in DOMAIN before : DOMAIN pages'[pid] = DOMAIN before[pid]
        /\ Cardinality(changed) <= Cardinality(DOMAIN data)
        /\ \A c \in changed : \E a \in DOMAIN data :
             a % PageBytes = c[2] /\ pages'[c[1][1]][c[1][2]][c[2]] = data[a]

\* Without a process addresses are physical; so is what an old translation gives.
StepRaw ==
    /\ cur = NoProcess \/ Row \in foreign
    /\ IF pending.kind = "write" THEN Poked(pages, [a \in Here |-> pending.data[a]]) ELSE UNCHANGED pages
    /\ \E seen \in [Here -> Byte] :
         Continue(IF pending.kind = "write" THEN pending.data ELSE Over(seen, pending.data))
    /\ UNCHANGED <<cur, given>>

Step == pending # Idle /\ Forgets /\ (StepOwn \/ StepShared \/ StepRaw \/ Fail)

\* Departs: also when it fails, a physical access may leave a process with a page more, and
\* that page with memory that will be given again.
Before == {pages} \cup UNION {{With(pid, {p}) : p \in VPages \ DOMAIN pages[pid]} : pid \in DOMAIN pages}
Physical ==
    /\ \E a \in Addresses, n \in Sizes :
         LET span == a .. a + n - 1 IN
         /\ \E before \in Before, data \in [span -> Byte] :
              /\ Poked(before, data)
              /\ \/ UNCHANGED <<shared, sound>>
                 \/ \E r \in Rows(before) \ Rows(pages) : shared' = shared \cup {r} /\ ~sound'
         /\ reply' \in Refusals \/ \E seen \in [span -> Byte] \cup {<<>>} : reply' = Answer("ok", seen)
    /\ Forgets /\ UNCHANGED <<cur, lost>>

\* Departs: a physical access to memory in use may take it from the page that has it; the
\* program does not survive that.
Displace ==
    /\ \E before \in Before : \E r \in Rows(before) :
         /\ pages' = [before EXCEPT ![r[1]][r[2]] = Blank]
         /\ lost' = lost \ {r} /\ shared' = shared \ {r}
    /\ reply' = Answer("exit", <<>>)
    /\ UNCHANGED <<cur, sound>>

\* Departs: once memory has been given twice any call may end the program.
Collapse == ~sound /\ pending' = Idle /\ reply' = Answer("exit", <<>>)

\* Departs: two pages, the last of RAM and the last of ROM, are not reset.
Reset ==
    /\ DOMAIN pages' = DOMAIN pages
    /\ \E kept \in SUBSET (Pids \X VPages) :
         /\ Cardinality(kept) <= 2
         /\ pages' = [pid \in DOMAIN pages |-> [p \in DOMAIN pages[pid] |->
                        IF <<pid, p>> \in kept THEN pages[pid][p] ELSE Blank]]
    /\ reply' = Answer("ok", <<>>)
    /\ Forgets /\ UNCHANGED <<cur, given>>

\* A program that has ended does nothing more.
Next ==
    /\ reply.status # "exit"
    /\ Start \/ Step \/ Collapse \/ (Quiet /\ (Begin \/ Set \/ End \/ Add \/ Refuse \/ Physical \/ Displace \/ Reset))
Spec == Init /\ [][Next]_vars
=============================================================================
