------------------------------ MODULE Directory ------------------------------
(***************************************************************************)
(* What service discovery promises its callers: every lookup is answered   *)
(* from one whole list, the one that was current at some moment during the *)
(* lookup, and a list is what one complete answer of the registry says.    *)
(* Discovery implements it.                                                *)
(***************************************************************************)
EXTENDS Naturals, Sequences

CONSTANTS Readers, Names, Hosts,
          Answers, \* what the registry may answer: sequences of applications
          Bad,     \* an application that cannot be parsed
          None

VARIABLES current, \* current[n]: the hosts of service n that are UP
          asked,   \* asked[r]: the service that r looks up, or None
          seen,    \* seen[r]: the list that r's lookup uses, or None
          answer   \* answer[r]: the host that r's last lookup returned, or None

vars == <<current, asked, seen, answer>>

Lists == [Names -> SUBSET Hosts]
NoService == [n \in Names |-> {}]

\* The instances of service n that count in a, the answer's applications: those
\* of the first one of that name that has any.
ListedAs(n, hosts, a) ==
    \/ /\ hosts = {}
       /\ \A i \in 1..Len(a) : a[i].name = n => a[i].up = {}
    \/ \E i \in 1..Len(a) :
           /\ a[i].name = n /\ a[i].up # {} /\ hosts = a[i].up
           /\ \A j \in 1..(i - 1) : a[j].name = n => a[j].up = {}

IsListOf(list, a) == \A n \in Names : ListedAs(n, list[n], a)

Init == /\ current = NoService
        /\ asked = [r \in Readers |-> None]
        /\ seen = [r \in Readers |-> None]
        /\ answer = [r \in Readers |-> None]

Publish == /\ current' \in Lists
           /\ \E a \in Answers : /\ \A i \in 1..Len(a) : a[i] # Bad
                                 /\ IsListOf(current', a)
           /\ UNCHANGED <<asked, seen, answer>>

Lookup(r, n) == /\ seen[r] = None
                /\ asked' = [asked EXCEPT ![r] = n]
                /\ seen' = [seen EXCEPT ![r] = current]
                /\ UNCHANGED <<current, answer>>

Answer(r) == /\ seen[r] # None
             /\ LET hosts == seen[r][asked[r]]
                IN  \E h \in (IF hosts = {} THEN {None} ELSE hosts) : answer' = [answer EXCEPT ![r] = h]
             /\ asked' = [asked EXCEPT ![r] = None]
             /\ seen' = [seen EXCEPT ![r] = None]
             /\ UNCHANGED current

Next == \/ Publish
        \/ \E r \in Readers : Answer(r) \/ \E n \in Names : Lookup(r, n)

SafeSpec == Init /\ [][Next]_vars
=============================================================================
