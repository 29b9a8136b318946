--------------------- MODULE TransferableFactory_proofs ---------------------
(***************************************************************************)
(* Proofs about TransferableFactory, for any listeners and senders: its    *)
(* types, and what setProtocol does for a listener beside whose message no *)
(* other listener writes.                                                  *)
(***************************************************************************)
EXTENDS TransferableFactory, TLAPS

(* The protocol of the message of listener r, where r is, and its last write. *)
Protocol(r) == message[r]
Stage(r)    == pc[r]
Last(r)     == IF Protocol(r) = "none" THEN 3 ELSE 6

(* The writes of setProtocol, one by one. *)
LEMMA WritesOf ==
  ASSUME NEW protocol \in Labels
  PROVE  /\ Len(Writes(protocol)) = IF protocol = "none" THEN 3 ELSE 6
         /\ Writes(protocol)[1] = <<"version", "empty">>
         /\ Writes(protocol)[2] = <<"creators", "empty">>
         /\ Writes(protocol)[3] = <<"types", "empty">>
         /\ protocol # "none" => /\ Writes(protocol)[4] = <<"creators", "full">>
                                 /\ Writes(protocol)[5] = <<"types", "full">>
                                 /\ Writes(protocol)[6] = <<"version", "full">>
BY DEF Writes, Clearing, Refill, Labels

-----------------------------------------------------------------------------
(* The types. *)

(* A lookup ends in one of its two ways. *)
LEMMA LookUpType ==
  ASSUME TypeOK, NEW t \in Listeners \cup Senders, NEW x, LookUp(t, x)
  PROVE  outcome' \in [Listeners \cup Senders -> Outcomes]
BY DEF LookUp, Finish, TypeOK, Outcomes

(* A write is on one of the tables, and leaves one of the contents.        *)
LEMMA WriteType ==
  ASSUME TypeOK, NEW r \in Listeners, pc[r] \in 1 .. Len(Writes(message[r]))
  PROVE  /\ Writes(message[r])[pc[r]][1] \in Tables
         /\ Writes(message[r])[pc[r]][2] \in Contents
         /\ pc[r] + 1 \in 0 .. 7
<1>1. message[r] \in Labels
  BY DEF TypeOK
<1>2. \/ Writes(message[r]) = Clearing /\ pc[r] \in 1 .. 3
      \/ Writes(message[r]) = Clearing \o Refill /\ pc[r] \in 1 .. 6
  BY <1>1, WritesOf DEF Writes
<1> QED
  BY <1>2 DEF Clearing, Refill, Tables, Contents

(* Every step keeps the types, however many listeners write at once.       *)
LEMMA TypeStep == TypeOK /\ [Next]_vars => TypeOK'
<1> SUFFICES ASSUME TypeOK, [Next]_vars PROVE TypeOK'
  OBVIOUS
<1>1. ASSUME NEW r \in Listeners, ReadHeader(r) PROVE TypeOK'
  BY <1>1 DEF ReadHeader, TypeOK, Labels, Outcomes, tables
<1>2. ASSUME NEW r \in Listeners, BeginWrite(r) PROVE TypeOK'
  <2>1. PICK x \in Tables : x = Writes(message[r])[pc[r]][1]
    BY <1>2, WriteType DEF BeginWrite
  <2>2. /\ writes' = writes \cup {<<r, x>>}
        /\ spoilt' \subseteq spoilt \cup writes \cup {<<r, x>>}
        /\ UNCHANGED <<table, pc, message, outcome, label>>
        /\ disturbed' \subseteq disturbed \cup Listeners
    BY <1>2, <2>1 DEF BeginWrite
  <2> QED
    BY <2>2 DEF TypeOK
<1>3. ASSUME NEW r \in Listeners, EndWrite(r) PROVE TypeOK'
  <2>1. PICK x \in Tables : x = Writes(message[r])[pc[r]][1]
    BY <1>3, WriteType DEF EndWrite
  <2>2. PICK v \in Contents : table' = [table EXCEPT ![x] = v]
    BY <1>3, <2>1, WriteType DEF EndWrite
  <2>3. pc' = [pc EXCEPT ![r] = pc[r] + 1] /\ pc[r] + 1 \in 0 .. 7
    BY <1>3, WriteType DEF EndWrite
  <2>4. /\ writes' = writes \ {<<r, x>>} /\ spoilt' = spoilt \ {<<r, x>>}
        /\ UNCHANGED <<message, outcome, label, disturbed>>
    BY <1>3, <2>1 DEF EndWrite
  <2> QED
    BY <2>2, <2>3, <2>4 DEF TypeOK
<1>4. ASSUME NEW r \in Listeners, Creator(r) PROVE TypeOK'
  BY <1>4, LookUpType DEF Creator, TypeOK, tables
<1>5. ASSUME NEW s \in Senders, ReadVersion(s) PROVE TypeOK'
  <2>1. PICK version : label' = [label EXCEPT ![s] = IF version = "full" THEN "0.1a" ELSE "none"]
    BY <1>5 DEF ReadVersion
  <2> QED
    BY <1>5, <2>1 DEF ReadVersion, Finish, TypeOK, Labels, Outcomes, tables
<1>6. ASSUME NEW s \in Senders, SendType(s) PROVE TypeOK'
  BY <1>6, LookUpType DEF SendType, TypeOK, tables
<1>7. CASE UNCHANGED vars
  BY <1>7 DEF vars, tables, TypeOK
<1> QED
  BY <1>1, <1>2, <1>3, <1>4, <1>5, <1>6, <1>7 DEF Next

(* Whatever the listeners write over each other, setProtocol writes to one *)
(* of its tables, never more than six times, and only writes in progress   *)
(* are spoilt: for any listeners and senders.                              *)
THEOREM TypeCorrect == Spec => []TypeOK
<1>1. Init => TypeOK
  BY DEF Init, TypeOK, Tables, Contents, Labels, Outcomes
<1> QED
  BY <1>1, TypeStep, PTL DEF Spec

-----------------------------------------------------------------------------
(* Messages that nobody disturbs. *)

(* What is in the tables before the write of each stage: whatever was in   *)
(* them, they are emptied in turn and refilled in turn.                    *)
TableInv(r) ==
    /\ Stage(r) = 0 => \A x, y \in Tables : table[x] = table[y] /\ table[x] # "torn"
    /\ Stage(r) \in 2 .. 6 => table["version"] = "empty"
    /\ Stage(r) \in {3, 4} => table["creators"] = "empty"
    /\ Stage(r) \in {5, 6} => table["creators"] = "full"
    /\ Stage(r) \in {4, 5} => table["types"] = "empty"
    /\ Stage(r) = 6 => table["types"] = "full"
    /\ Stage(r) = 7 => \A x \in Tables : table[x] = "full"

(* A listener writes one table at a time, the one of its stage.            *)
WriteInv(r) ==
    /\ Stage(r) \in 0 .. Last(r) + 1
    /\ \A w \in writes : w[1] = r =>
          Stage(r) \in 1 .. Last(r) /\ w = <<r, Writes(Protocol(r))[Stage(r)][1]>>

(* Who is not disturbed is the only one that writes.                       *)
AloneInv(r) ==
    r \notin disturbed => spoilt = {} /\ \A w \in writes : w[1] = r

(* ... and has what it wrote, and its creators.                            *)
QuietInv(r) ==
    /\ r \notin disturbed => TableInv(r)
    /\ outcome[r] = "exception" /\ message[r] # "none" => r \in disturbed

RInv(r) == WriteInv(r) /\ AloneInv(r) /\ QuietInv(r)

IInv == TypeOK /\ \A r \in Listeners : RInv(r)

LEMMA InitIInv == Init => IInv
<1> SUFFICES ASSUME Init PROVE IInv
  OBVIOUS
<1>1. TypeOK
  BY DEF Init, TypeOK, Tables, Contents, Labels, Outcomes
<1>2. ASSUME NEW r \in Listeners PROVE RInv(r)
  <2>1. pc[r] = 0 /\ message[r] = "0.1a" /\ outcome[r] = "nothing" /\ writes = {} /\ spoilt = {}
    BY DEF Init
  <2>2. \A x \in Tables : table[x] = "full"
    BY DEF Init
  <2> QED
    BY <2>1, <2>2 DEF RInv, WriteInv, AloneInv, QuietInv, TableInv, Stage, Last, Protocol
<1> QED
  BY <1>1, <1>2 DEF IInv

(* What other listeners do but write, and what senders do, changes nothing *)
(* a listener looks at.                                                    *)
LEMMA OthersKeep ==
  ASSUME NEW r, RInv(r), UNCHANGED <<tables, pc, message>>,
         outcome'[r] = outcome[r], r \in disturbed' <=> r \in disturbed
  PROVE  RInv(r)'
<1>1. WriteInv(r)'
  BY DEF RInv, WriteInv, Stage, Last, Protocol, tables
<1>2. AloneInv(r)'
  BY DEF RInv, AloneInv, tables
<1>3. TableInv(r) => TableInv(r)'
  BY DEF TableInv, Stage, tables
<1> QED
  BY <1>1, <1>2, <1>3 DEF RInv, QuietInv

(* The header of a message. *)
LEMMA ReadHeaderStep ==
  ASSUME IInv, NEW q \in Listeners, ReadHeader(q), NEW r \in Listeners
  PROVE  RInv(r)'
<1>0. TypeOK /\ RInv(r)
  BY DEF IInv
<1>1. PICK protocol \in Labels : message' = [message EXCEPT ![q] = protocol]
  BY DEF ReadHeader, Labels
<1>2. /\ pc[q] = 0 /\ pc' = [pc EXCEPT ![q] = 1]
      /\ outcome' = [outcome EXCEPT ![q] = "nothing"]
      /\ disturbed' = IF \E w \in writes : w[1] # q THEN disturbed \cup {q}
                      ELSE disturbed \ {q}
      /\ UNCHANGED <<table, writes, spoilt, label>>
  BY DEF ReadHeader, tables
<1>3. CASE r = q
  <2>1. pc[r] = 0 /\ pc'[r] = 1 /\ outcome'[r] = "nothing"
    BY <1>0, <1>2, <1>3 DEF TypeOK
  <2>2. \A w \in writes : w[1] # r
    BY <1>0, <2>1 DEF RInv, WriteInv, Stage
  <2>3. WriteInv(r)'
    BY <1>2, <2>1, <2>2 DEF WriteInv, Stage, Last, Protocol
  <2>4. AloneInv(r)'
    <3>1. r \notin disturbed' => writes = {}
      BY <1>2, <1>3, <2>2
    <3> QED
      BY <1>0, <1>2, <3>1 DEF AloneInv, TypeOK
  <2>5. QuietInv(r)'
    BY <2>1 DEF QuietInv, TableInv, Stage
  <2> QED
    BY <2>3, <2>4, <2>5 DEF RInv
<1>4. CASE r # q
  <2>1. pc'[r] = pc[r] /\ message'[r] = message[r] /\ outcome'[r] = outcome[r]
        /\ (r \in disturbed' <=> r \in disturbed)
    BY <1>0, <1>1, <1>2, <1>4 DEF TypeOK
  <2>2. WriteInv(r)'
    BY <1>0, <1>2, <2>1 DEF RInv, WriteInv, Stage, Last, Protocol
  <2>3. AloneInv(r)'
    BY <1>0, <1>2, <2>1 DEF RInv, AloneInv
  <2>4. TableInv(r) => TableInv(r)'
    BY <1>2, <2>1 DEF TableInv, Stage
  <2>5. QuietInv(r)'
    BY <1>0, <2>1, <2>4 DEF RInv, QuietInv
  <2> QED
    BY <2>2, <2>3, <2>5 DEF RInv
<1> QED
  BY <1>3, <1>4

(* A write that begins disturbs all others. *)
LEMMA BeginWriteStep ==
  ASSUME IInv, NEW q \in Listeners, BeginWrite(q), NEW r \in Listeners
  PROVE  RInv(r)'
<1> DEFINE x == Writes(message[q])[pc[q]][1]
<1>0. TypeOK /\ RInv(r) /\ message[q] \in Labels
  BY DEF IInv, TypeOK
<1>1. /\ pc[q] \in 1 .. Last(q) /\ ~InProgress(q)
      /\ writes' = writes \cup {<<q, x>>}
      /\ disturbed' = disturbed \cup (Listeners \ {q})
      /\ UNCHANGED <<table, pc, message, outcome, label>>
  BY <1>0, WritesOf DEF BeginWrite, Last, Protocol
<1>2. spoilt' = IF {w \in writes : w[2] = x} = {} THEN spoilt
                ELSE spoilt \cup {w \in writes : w[2] = x} \cup {<<q, x>>}
  BY DEF BeginWrite
<1>3. x = Writes(Protocol(q))[Stage(q)][1]
  BY DEF Protocol, Stage
<1> HIDE DEF x
<1>4. WriteInv(r)'
  <2>1. \A w \in writes' : w[1] = r => w \in writes \/ (r = q /\ w = <<q, x>>)
    BY <1>1
  <2> QED
    BY <1>0, <1>1, <1>3, <2>1 DEF RInv, WriteInv, Stage, Last, Protocol
<1>5. CASE r = q
  <2>1. r \notin disturbed' => r \notin disturbed
    BY <1>1
  <2>2. r \notin disturbed => writes = {} /\ spoilt = {}
    BY <1>0, <1>1, <1>5 DEF RInv, AloneInv, InProgress
  <2>3. AloneInv(r)'
    <3>1. r \notin disturbed => spoilt' = {} /\ writes' = {<<q, x>>}
      BY <1>1, <1>2, <2>2
    <3> QED
      BY <1>5, <2>1, <3>1 DEF AloneInv
  <2>4. QuietInv(r)'
    BY <1>0, <1>1, <2>1 DEF RInv, QuietInv, TableInv, Stage
  <2> QED
    BY <1>4, <2>3, <2>4 DEF RInv
<1>6. CASE r # q
  BY <1>1, <1>4, <1>6 DEF RInv, AloneInv, QuietInv
<1> QED
  BY <1>5, <1>6

(* A write that ends leaves its value, if it was not disturbed.            *)
LEMMA EndWriteStep ==
  ASSUME IInv, NEW q \in Listeners, EndWrite(q), NEW r \in Listeners
  PROVE  RInv(r)'
<1> DEFINE x == Writes(message[q])[pc[q]][1]
           value == Writes(message[q])[pc[q]][2]
<1>0. TypeOK /\ RInv(r) /\ RInv(q) /\ message[q] \in Labels
  BY DEF IInv, TypeOK
<1>1. /\ pc[q] \in 1 .. Last(q) /\ InProgress(q)
      /\ pc' = [pc EXCEPT ![q] = @ + 1]
      /\ writes' = writes \ {<<q, x>>} /\ spoilt' = spoilt \ {<<q, x>>}
      /\ UNCHANGED <<message, outcome, label, disturbed>>
  BY <1>0, WritesOf DEF EndWrite, Last, Protocol
<1>2. <<q, x>> \in writes /\ \A w \in writes : w[1] = q => w = <<q, x>>
  BY <1>0, <1>1 DEF RInv, WriteInv, InProgress, Stage, Protocol
<1>3. \E v \in IF <<q, x>> \in spoilt THEN Contents ELSE {value} :
          table' = [table EXCEPT ![x] = v]
  BY DEF EndWrite
<1>4. pc'[q] = pc[q] + 1 /\ (r # q => pc'[r] = pc[r])
  BY <1>0, <1>1 DEF TypeOK
<1>5. CASE r # q
  <2>1. r \in disturbed
    BY <1>0, <1>2, <1>5 DEF RInv, AloneInv
  <2>2. WriteInv(r)'
    <3> HIDE DEF x
    <3> QED
      BY <1>0, <1>1, <1>4, <1>5 DEF RInv, WriteInv, Stage, Last, Protocol
  <2> QED
    BY <1>1, <2>1, <2>2 DEF RInv, AloneInv, QuietInv
<1>6. CASE r = q
  <2>1. WriteInv(r)'
    <3>1. \A w \in writes' : w[1] # q
      BY <1>1, <1>2
    <3> HIDE DEF x, value
    <3>2. Stage(r)' \in 0 .. Last(r)' + 1
      BY <1>1, <1>4, <1>6 DEF Stage, Last, Protocol
    <3> QED
      BY <1>6, <3>1, <3>2 DEF WriteInv
  <2>2. AloneInv(r)'
    BY <1>0, <1>1 DEF RInv, AloneInv
  <2>3. ASSUME r \notin disturbed PROVE TableInv(r)'
    <3>1. TableInv(r) /\ table' = [table EXCEPT ![x] = value]
      BY <1>0, <1>3, <2>3 DEF RInv, AloneInv, QuietInv
    <3>2. \A y \in Tables : table'[y] = IF y = x THEN value ELSE table[y]
      <4> HIDE DEF x, value
      <4> QED
        BY <1>0, <3>1 DEF TypeOK
    <3>3. "version" \in Tables /\ "creators" \in Tables /\ "types" \in Tables
      BY DEF Tables
    <3>4. CASE pc[q] = 1
      BY <1>0, <1>4, <1>6, <3>1, <3>2, <3>3, <3>4, WritesOf DEF TableInv, Stage
    <3>5. CASE pc[q] = 2
      BY <1>0, <1>4, <1>6, <3>1, <3>2, <3>3, <3>5, WritesOf DEF TableInv, Stage
    <3>6. CASE pc[q] = 3
      BY <1>0, <1>4, <1>6, <3>1, <3>2, <3>3, <3>6, WritesOf DEF TableInv, Stage
    <3>7. CASE pc[q] = 4 /\ message[q] # "none"
      BY <1>0, <1>4, <1>6, <3>1, <3>2, <3>3, <3>7, WritesOf DEF TableInv, Stage
    <3>8. CASE pc[q] = 5 /\ message[q] # "none"
      BY <1>0, <1>4, <1>6, <3>1, <3>2, <3>3, <3>8, WritesOf DEF TableInv, Stage
    <3>9. CASE pc[q] = 6 /\ message[q] # "none"
      BY <1>0, <1>4, <1>6, <3>1, <3>2, <3>3, <3>9, WritesOf DEF TableInv, Stage, Tables
    <3>10. pc[q] \in {1, 2, 3} \/ (message[q] # "none" /\ pc[q] \in {4, 5, 6})
      BY <1>1 DEF Last, Protocol
    <3> QED
      BY <3>4, <3>5, <3>6, <3>7, <3>8, <3>9, <3>10
  <2>4. QuietInv(r)'
    BY <1>0, <1>1, <2>3 DEF RInv, QuietInv
  <2> QED
    BY <2>1, <2>2, <2>4 DEF RInv
<1> QED
  BY <1>5, <1>6

(* After the refill of a known protocol its creator is found. *)
LEMMA CreatorStep ==
  ASSUME IInv, NEW q \in Listeners, Creator(q), NEW r \in Listeners
  PROVE  RInv(r)'
<1>0. TypeOK /\ RInv(r) /\ message[q] \in Labels
  BY DEF IInv, TypeOK
<1>1. /\ pc[q] = Last(q) + 1 /\ pc' = [pc EXCEPT ![q] = 0]
      /\ UNCHANGED <<table, writes, spoilt, message, label, disturbed>>
  BY <1>0, WritesOf DEF Creator, Last, Protocol, tables
<1>2. PICK result \in {"done", "exception"} : outcome' = [outcome EXCEPT ![q] = result]
  BY DEF Creator, LookUp, Finish
<1>3. CASE r # q
  <2>1. pc'[r] = pc[r] /\ outcome'[r] = outcome[r]
    BY <1>0, <1>1, <1>2, <1>3 DEF TypeOK
  <2>2. WriteInv(r)' /\ AloneInv(r)'
    BY <1>0, <1>1, <2>1 DEF RInv, WriteInv, AloneInv, Stage, Last, Protocol
  <2>3. QuietInv(r)'
    BY <1>0, <1>1, <2>1 DEF RInv, QuietInv, TableInv, Stage
  <2> QED
    BY <2>2, <2>3 DEF RInv
<1>4. CASE r = q
  <2>1. pc'[r] = 0
    BY <1>0, <1>1, <1>4 DEF TypeOK
  <2>2. \A w \in writes : w[1] # r
    BY <1>0, <1>1, <1>4 DEF RInv, WriteInv, Stage, Last
  <2>3. WriteInv(r)' /\ AloneInv(r)'
    BY <1>0, <1>1, <2>1, <2>2 DEF RInv, WriteInv, AloneInv, Stage, Last, Protocol
  <2>4. ASSUME r \notin disturbed
        PROVE  TableInv(r)' /\ (message[r] # "none" => outcome'[r] = "done")
    <3>1. TableInv(r) /\ writes = {}
      BY <1>0, <2>2, <2>4 DEF RInv, QuietInv, AloneInv
    <3>2. CASE message[r] = "none"
      BY <1>1, <1>4, <2>1, <3>1, <3>2 DEF TableInv, Stage, Last, Protocol, Tables
    <3>3. CASE message[r] # "none"
      <4>1. \A y \in Tables : table[y] = "full"
        BY <1>1, <1>4, <3>1, <3>3 DEF TableInv, Stage, Last, Protocol
      <4>2. MayFind("version") = {"full"} /\ MayFind("creators") = {"full"}
        BY <3>1, <4>1 DEF MayFind, Tables
      <4>3. outcome'[r] = "done"
        BY <1>0, <1>4, <4>2 DEF Creator, LookUp, Finish, TypeOK
      <4> QED
        BY <1>1, <2>1, <4>1, <4>3 DEF TableInv, Stage
    <3> QED
      BY <3>2, <3>3
  <2>5. QuietInv(r)'
    BY <1>1, <2>4 DEF QuietInv
  <2> QED
    BY <2>3, <2>5 DEF RInv
<1> QED
  BY <1>3, <1>4

(* Senders read and change nothing that listeners see. *)
LEMMA SenderStep ==
  ASSUME IInv, NEW s \in Senders, ReadVersion(s) \/ SendType(s), NEW r \in Listeners
  PROVE  RInv(r)'
<1>0. TypeOK /\ RInv(r) /\ s # r
  BY ThreadsAssumption DEF IInv
<1>1. /\ UNCHANGED <<tables, pc, message, disturbed>>
      /\ \E result : outcome' = [outcome EXCEPT ![s] = result]
  BY DEF ReadVersion, SendType, LookUp, Finish
<1>2. outcome'[r] = outcome[r]
  BY <1>0, <1>1 DEF TypeOK
<1> QED
  BY <1>0, <1>1, <1>2, OthersKeep

(* IInv is inductive. *)
LEMMA Inductive == IInv /\ [Next]_vars => IInv'
<1> SUFFICES ASSUME IInv, [Next]_vars PROVE IInv'
  OBVIOUS
<1>1. TypeOK'
  BY TypeStep DEF IInv
<1>2. ASSUME NEW r \in Listeners PROVE RInv(r)'
  <2>1. CASE Next
    BY <2>1, ReadHeaderStep, BeginWriteStep, EndWriteStep, CreatorStep, SenderStep DEF Next
  <2>2. CASE UNCHANGED vars
    BY <2>2, OthersKeep DEF vars, IInv
  <2> QED
    BY <2>1, <2>2
<1> QED
  BY <1>1, <1>2 DEF IInv

(* IInv holds in every state. *)
LEMMA IInvAlways == Spec => []IInv
BY InitIInv, Inductive, PTL DEF Spec

(* For any listeners and senders: a known message of a known protocol is   *)
(* rejected only if another listener wrote to the tables while it was      *)
(* read; whatever state earlier clashes left the tables in, setProtocol    *)
(* repairs it (Transferable.h:100).                                        *)
THEOREM OnlyDisturbedAreRejected == Spec => []RejectedIsDisturbed
<1>1. IInv => RejectedIsDisturbed
  BY DEF IInv, RInv, QuietInv, RejectedIsDisturbed
<1> QED
  BY <1>1, IInvAlways, PTL

(* For any listeners and senders: what a message leaves in mCreators,      *)
(* mTypes and mVersion is one protocol, until another listener writes.     *)
THEOREM UndisturbedLeaveWhole == Spec => []UndisturbedIsWhole
<1>1. IInv => UndisturbedIsWhole
  BY DEF IInv, RInv, QuietInv, TableInv, Stage, UndisturbedIsWhole
<1> QED
  BY <1>1, IInvAlways, PTL

=============================================================================
