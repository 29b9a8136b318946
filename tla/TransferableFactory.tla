------------------------ MODULE TransferableFactory ------------------------
(***************************************************************************)
(* The TransferableFactory singleton of a process, which every connection  *)
(* of the process shares and no mutex protects.  A listener thread calls   *)
(* setProtocol for every message it reads, which empties and refills the   *)
(* three tables, and then asks for the creator of the message; a thread    *)
(* that sends reads the version and then looks the type up.                *)
(*                                                                         *)
(* An access to a std::map or std::string takes time: a write has a begin  *)
(* and an end, and an access that overlaps a write of another thread may   *)
(* see or leave anything.                                                  *)
(***************************************************************************)
EXTENDS Naturals, FiniteSets, Sequences

CONSTANTS
    Listeners,          \* threads that read messages
    Senders,            \* other threads, which send
    MayReadNone         \* do messages labelled "none" arrive?

ASSUME ThreadsAssumption == Listeners \cap Senders = {}
ASSUME MayReadNoneAssumption == MayReadNone \in BOOLEAN

VARIABLES
    table,              \* the contents of each table
    writes,             \* the writes in progress: <<thread, table>>
    spoilt,             \* those of them that overlapped another write
    pc,                 \* pc[r]: the next write of listener r, 0 between messages
    message,            \* message[r]: the protocol label of what r has read
    outcome,            \* outcome[t]: what became of the last message of t
    label,              \* label[s]: what sender s has read from protocol()
    disturbed           \* history: the listeners that another one has written
                        \* beside, since they read their last header

tables  == <<table, writes, spoilt>>
vars    == <<tables, pc, message, outcome, label, disturbed>>

Tables   == {"version", "creators", "types"}
Contents == {"empty", "full", "torn"}
Labels   == {"0.1a", "none"}
Outcomes == {"nothing", "done", "exception"}

(* clear(), and for a real protocol the refill. *)
Clearing == << <<"version", "empty">>, <<"creators", "empty">>, <<"types", "empty">> >>
Refill   == << <<"creators", "full">>, <<"types", "full">>, <<"version", "full">> >>
(* Variants of Writes, for mutants: the types are not refilled; the refill *)
(* comes first; the version is written once more.                          *)
WritesNoTypes(protocol) ==
    IF protocol = "none" THEN Clearing
    ELSE Clearing \o << <<"creators", "full">>, <<"version", "full">> >>
WritesClearLast(protocol) ==
    IF protocol = "none" THEN Clearing ELSE Refill \o Clearing
WritesTwice(protocol) ==
    IF protocol = "none" THEN Clearing
    ELSE Clearing \o Refill \o << <<"version", "full">> >>

Writes(protocol) == IF protocol = "none" THEN Clearing ELSE Clearing \o Refill

(* main sets the protocol before there are any connections. *)
Init ==
    /\ table = [x \in Tables |-> "full"]
    /\ writes = {}
    /\ spoilt = {}
    /\ pc = [r \in Listeners |-> 0]
    /\ message = [r \in Listeners |-> "0.1a"]
    /\ outcome = [t \in Listeners \cup Senders |-> "nothing"]
    /\ label = [s \in Senders |-> "unread"]
    /\ disturbed = {}

(* receiveTransfThread has the header of a message: setProtocol. *)
ReadHeader(r) ==
    /\ pc[r] = 0
    /\ \E protocol \in IF MayReadNone THEN Labels ELSE {"0.1a"} :
         message' = [message EXCEPT ![r] = protocol]
    /\ pc' = [pc EXCEPT ![r] = 1]
    /\ outcome' = [outcome EXCEPT ![r] = "nothing"]
    /\ disturbed' = IF \E w \in writes : w[1] # r THEN disturbed \cup {r}
                    ELSE disturbed \ {r}
    /\ UNCHANGED <<tables, label>>

InProgress(r) == \E w \in writes : w[1] = r

BeginWrite(r) ==
    LET x == Writes(message[r])[pc[r]][1]
        clash == {w \in writes : w[2] = x}
    IN
    /\ pc[r] \in 1 .. Len(Writes(message[r]))
    /\ ~InProgress(r)
    /\ writes' = writes \cup {<<r, x>>}
    /\ spoilt' = IF clash = {} THEN spoilt ELSE spoilt \cup clash \cup {<<r, x>>}
    /\ disturbed' = disturbed \cup (Listeners \ {r})
    /\ UNCHANGED <<table, pc, message, outcome, label>>

EndWrite(r) ==
    LET x == Writes(message[r])[pc[r]][1]
        value == Writes(message[r])[pc[r]][2]
    IN
    /\ pc[r] \in 1 .. Len(Writes(message[r]))
    /\ InProgress(r)
    /\ \E v \in IF <<r, x>> \in spoilt THEN Contents ELSE {value} :
         table' = [table EXCEPT ![x] = v]
    /\ writes' = writes \ {<<r, x>>}
    /\ spoilt' = spoilt \ {<<r, x>>}
    /\ pc' = [pc EXCEPT ![r] = @ + 1]
    /\ UNCHANGED <<message, outcome, label, disturbed>>

(* What a thread may find in a table: while another thread writes it, or   *)
(* after two writes clashed, anything.                                     *)
MayFind(x) ==
    IF table[x] = "torn" \/ \E w \in writes : w[2] = x
        THEN {"empty", "full"} ELSE {table[x]}

Finish(t, result) == outcome' = [outcome EXCEPT ![t] = result]

(* type() and creator() throw without a version or without an entry. *)
LookUp(t, x) ==
    \E version \in MayFind("version"), entry \in MayFind(x) :
        Finish(t, IF version = "full" /\ entry = "full" THEN "done" ELSE "exception")

Creator(r) ==
    /\ pc[r] = Len(Writes(message[r])) + 1
    /\ LookUp(r, "creators")
    /\ pc' = [pc EXCEPT ![r] = 0]
    /\ UNCHANGED <<tables, message, label, disturbed>>

(* send and sendAnswer read the version for the header of the packet ... *)
ReadVersion(s) ==
    /\ label[s] = "unread"
    /\ \E version \in MayFind("version") :
         label' = [label EXCEPT ![s] = IF version = "full" THEN "0.1a" ELSE "none"]
    /\ Finish(s, "nothing")
    /\ UNCHANGED <<tables, pc, message, disturbed>>

(* ... and then look the type up; after an exception nothing is sent. *)
SendType(s) ==
    /\ label[s] # "unread"
    /\ LookUp(s, "types")
    /\ label' = [label EXCEPT ![s] = "unread"]
    /\ UNCHANGED <<tables, pc, message, disturbed>>

Next ==
    \/ \E r \in Listeners : ReadHeader(r) \/ BeginWrite(r) \/ EndWrite(r) \/ Creator(r)
    \/ \E s \in Senders : ReadVersion(s) \/ SendType(s)

Spec == Init /\ [][Next]_vars

-----------------------------------------------------------------------------
(* Properties. *)

TypeOK ==
    /\ table \in [Tables -> Contents]
    /\ writes \subseteq Listeners \X Tables
    /\ spoilt \subseteq writes
    /\ pc \in [Listeners -> 0 .. 7]
    /\ message \in [Listeners -> Labels]
    /\ outcome \in [Listeners \cup Senders -> Outcomes]
    /\ label \in [Senders -> Labels \cup {"unread"}]
    /\ disturbed \subseteq Listeners

(* setProtocol "will set the Factory in the given version"                 *)
(* (Transferable.h:100): a known message of a known protocol gets its      *)
(* creator, and is executed.                                               *)
KnownMessageAccepted ==
    \A r \in Listeners :
        outcome[r] = "exception" => message[r] = "none"

(* The same as far as it is true: a known message is rejected only if      *)
(* another listener wrote to the tables between its header and its lookup, *)
(* whatever the others left in them before.                                *)
RejectedIsDisturbed ==
    \A r \in Listeners :
        outcome[r] = "exception" /\ message[r] # "none" => r \in disturbed

(* What setProtocol leaves belongs together, for any listener, until       *)
(* another one writes: with a version both maps are filled, so that        *)
(* creator() and type() find what the profile of the process has; without  *)
(* one all three are empty.                                                *)
UndisturbedIsWhole ==
    \A r \in Listeners \ disturbed :
        pc[r] = 0 => \A x, y \in Tables : table[x] = table[y] /\ table[x] # "torn"
=============================================================================
