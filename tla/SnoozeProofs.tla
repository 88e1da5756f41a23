---------------------------- MODULE SnoozeProofs ----------------------------
(***************************************************************************)
(* Proofs about Snooze for a thread of any length, any requests in         *)
(* progress, reminders, events and faults: the mail the owner has in the   *)
(* inbox comes back to it, and a thread has one armed reminder of a kind,  *)
(* but for the overlaps the properties name.                               *)
(*                                                                         *)
(* First what each action does to the shapes of the variables and to where *)
(* a message will be once the sync has caught up (Good, In); then what is  *)
(* owed for every message while requests are under way (LostInv), and that *)
(* each action keeps it; last the reminders (OneEach).                     *)
(***************************************************************************)
EXTENDS Snooze, TLAPS

\* What a process is at.
Creating(p)  == op[p] = "create"
Restoring(p) == op[p] \in {"cancel", "fire"}
Moving(p)    == op[p] \in Moves

\* The type invariant, with what the steps need of it: a process holds only what
\* its operation and its place in it allow.
MailShape ==
  /\ rows \subseteq arrived /\ arrived \subseteq Messages /\ home \subseteq rows
  /\ labels \in [Messages -> SUBSET Labels] /\ gmail \in [Messages -> SUBSET Labels]
  /\ archived \in [Messages -> BOOLEAN] /\ trashed \in [Messages -> BOOLEAN]
  /\ feed \in Seq(Record)
  /\ \A i \in 1..Len(feed) : feed[i].msg \in arrived

RemShape ==
  /\ state \in [Reminders -> {"none", "armed", "fired", "cancelled"}]
  /\ kind \in [Reminders -> Kinds \cup {None}]
  /\ was \in [Reminders -> BOOLEAN]
  /\ \A r \in Reminders : state[r] = "none" <=> kind[r] = None

ProcFuns ==
  /\ op \in [Procs -> {"idle", "check", "create", "cancel", "fire"} \cup Moves]
  /\ at \in [Procs -> Steps \cup {None}]
  /\ rem \in [Procs -> Kinds \cup Reminders \cup {None}]
  /\ from \in [Procs -> BOOLEAN]
  /\ todo \in [Procs -> SUBSET Messages] /\ calls \in [Procs -> SUBSET Messages]
  /\ DOMAIN snap = Procs /\ snap = [p \in DOMAIN snap |-> snap[p]]

ProcShape(p) ==
  /\ \A m \in DOMAIN snap[p] : m \in arrived /\ snap[p][m] \in Row
  /\ todo[p] \subseteq DOMAIN snap[p] /\ calls[p] \subseteq DOMAIN snap[p]
  /\ Creating(p) => /\ p \in Callers /\ rem[p] \in Kinds
                    /\ at[p] \in {"prior", "replace", "insert", "write"}
  /\ Restoring(p) => /\ rem[p] \in Reminders /\ state[rem[p]] # "none" /\ from[p] = was[rem[p]]
                     /\ at[p] \in {"thread", "write", "drop"}
  /\ Moving(p) => p \in Callers /\ at[p] = "calls" /\ calls[p] \subseteq todo[p]
  /\ op[p] \in {"idle", "check"} => at[p] = None /\ rem[p] = None /\ todo[p] = {} /\ calls[p] = {}
  /\ at[p] \notin {"write", "calls"} => todo[p] = {} /\ calls[p] = {}

Typed == MailShape /\ RemShape /\ ProcFuns /\ \A p \in Procs : ProcShape(p)

\* The type invariant follows.
LEMMA TypedTypeOK == ASSUME Typed PROVE TypeOK
<1>1. \A r \in Reminders : state[r] = "none" <=> kind[r] = None
  BY DEF Typed, RemShape
<1> QED
  BY <1>1 DEF Typed, TypeOK, MailShape, RemShape, ProcFuns, ProcShape

\* A process that a step leaves alone keeps its shape.
LEMMA ProcFrame ==
  ASSUME NEW q \in Procs, ProcShape(q),
         op'[q] = op[q], at'[q] = at[q], rem'[q] = rem[q], from'[q] = from[q], snap'[q] = snap[q],
         todo'[q] = todo[q], calls'[q] = calls[q],
         arrived \subseteq arrived',
         \A r \in Reminders : state[r] # "none" => state'[r] # "none" /\ was'[r] = was[r]
  PROVE  ProcShape(q)'
BY DEF ProcShape, Creating, Restoring, Moving

\* A process that finishes has nothing in hand.
LEMMA FinishShape ==
  ASSUME NEW p \in Procs, ProcFuns, Finish(p)
  PROVE  /\ ProcFuns'
         /\ op'[p] \in {"idle", "check"} /\ at'[p] = None /\ rem'[p] = None /\ from'[p] = FALSE
         /\ todo'[p] = {} /\ calls'[p] = {} /\ ProcShape(p)'
         /\ \A q \in Procs \ {p} :
              /\ op'[q] = op[q] /\ at'[q] = at[q] /\ rem'[q] = rem[q] /\ from'[q] = from[q]
              /\ snap'[q] = snap[q] /\ todo'[q] = todo[q] /\ calls'[q] = calls[q]
<1>1. op'[p] \in {"idle", "check"} /\ at'[p] = None /\ rem'[p] = None /\ from'[p] = FALSE
         /\ todo'[p] = {} /\ calls'[p] = {} /\ snap'[p] = NoRows
  BY DEF Finish, Goto, ProcFuns
<1>2. ProcFuns'
  BY DEF Finish, Goto, ProcFuns
<1>3. ProcShape(p)'
  BY <1>1 DEF ProcShape, Creating, Restoring, Moving, Moves, NoRows
<1> QED
  BY <1>1, <1>2, <1>3 DEF Finish, Goto, ProcFuns

AreChanges(s, m, S, a) ==
  /\ s \in Seq(Record) /\ Len(s) \in 0..2
  /\ \A i \in 1..Len(s) : s[i].msg = m /\ s[i].add = a
  /\ \A i \in 1..Len(s) : s[i].label = "INBOX" <=> "INBOX" \in S /\ i = Len(s)
  /\ "INBOX" \in S => Len(s) > 0

\* The history records of a change: of m alone, and of INBOX exactly when it changed.
LEMMA ChangesMade ==
  ASSUME NEW m \in Messages, NEW S \in SUBSET Labels, NEW a \in BOOLEAN
  PROVE  AreChanges(Changes(m, S, a), m, S, a)
<1> USE DEF AreChanges
<1> DEFINE t == [msg |-> m, add |-> a, label |-> "TRASH"]
           n == [msg |-> m, add |-> a, label |-> "INBOX"]
<1>1. t \in Record /\ n \in Record
  BY DEF Record, Labels
<1>2. CASE "TRASH" \in S /\ "INBOX" \in S
  <2>1. Changes(m, S, a) = <<t>> \o <<n>>
    BY <1>2 DEF Changes
  <2>2. <<t>> \in Seq(Record) /\ <<n>> \in Seq(Record) /\ Len(<<t>>) = 1 /\ Len(<<n>>) = 1
        /\ <<t>>[1] = t /\ <<n>>[1] = n
    BY <1>1
  <2> HIDE DEF t, n
  <2>3. /\ <<t>> \o <<n>> \in Seq(Record) /\ Len(<<t>> \o <<n>>) = 2
        /\ (<<t>> \o <<n>>)[1] = t /\ (<<t>> \o <<n>>)[2] = n
    BY <2>2
  <2> USE DEF t, n
  <2> QED
    BY <1>1, <1>2, <2>1, <2>3
<1>3. CASE "TRASH" \in S /\ "INBOX" \notin S
  <2>1. Changes(m, S, a) = <<t>>
    BY <1>3 DEF Changes
  <2> QED
    BY <1>1, <1>3, <2>1
<1>4. CASE "TRASH" \notin S /\ "INBOX" \in S
  <2>1. Changes(m, S, a) = <<n>>
    BY <1>4 DEF Changes
  <2> QED
    BY <1>1, <1>4, <2>1
<1>5. CASE "TRASH" \notin S /\ "INBOX" \notin S
  <2>1. Changes(m, S, a) = <<>>
    BY <1>5 DEF Changes
  <2> QED
    BY <1>1, <1>5, <2>1
<1> QED
  BY <1>2, <1>3, <1>4, <1>5

\* Where m will be once the sync has caught up, of the newest change it has still
\* to apply or of the row.
In(m) == IF Pending(m) # {} THEN "INBOX" \in gmail[m] ELSE "INBOX" \in labels[m]

\* The newest change to a message's place in the inbox agrees with Gmail.
FeedAgrees ==
  \A m \in rows : Pending(m) # {} =>
    \E i \in Pending(m) : (\A j \in Pending(m) : j <= i) /\ (feed[i].add <=> "INBOX" \in gmail[m])

\* In is what Settled says, put as a function of Gmail.
LEMMA InIsSettled ==
  ASSUME MailShape, FeedAgrees, NEW m \in rows
  PROVE  Settled(m) <=> In(m)
<1>1. Pending(m) \subseteq Nat
  BY DEF MailShape, Pending
<1> QED
  BY <1>1 DEF FeedAgrees, Settled, In

\* A change of labels at Gmail moves m where INBOX says, and no other message.
LEMMA AtGmailEffect ==
  ASSUME MailShape, FeedAgrees, NEW m \in arrived, NEW L \in SUBSET Labels,
         AtGmail(m, L), UNCHANGED rowVars, home' \subseteq rows
  PROVE  /\ MailShape' /\ FeedAgrees'
         /\ \A n \in Messages \ {m} : In(n)' <=> In(n)
         /\ ("INBOX" \in L <=> "INBOX" \in gmail[m]) => (In(m)' <=> In(m))
         /\ ~ ("INBOX" \in L <=> "INBOX" \in gmail[m]) => (In(m)' <=> "INBOX" \in L)
         /\ arrived' = arrived /\ gmail' = [gmail EXCEPT ![m] = L]
<1> DEFINE A == Changes(m, L \ gmail[m], TRUE)
           B == Changes(m, gmail[m] \ L, FALSE)
           C == A \o B
<1>0. m \in Messages /\ feed \in Seq(Record) /\ gmail \in [Messages -> SUBSET Labels]
  BY DEF MailShape
<1>a. AreChanges(A, m, L \ gmail[m], TRUE)
  <2>1. L \ gmail[m] \in SUBSET Labels /\ TRUE \in BOOLEAN
    OBVIOUS
  <2> QED
    BY <2>1, <1>0, ChangesMade DEF A
<1>b. AreChanges(B, m, gmail[m] \ L, FALSE)
  <2>1. gmail[m] \ L \in SUBSET Labels /\ FALSE \in BOOLEAN
    BY <1>0
  <2> QED
    BY <2>1, <1>0, ChangesMade DEF B
<1> HIDE DEF A, B
<1>c. /\ C \in Seq(Record) /\ Len(C) \in Nat
      /\ \A i \in 1..Len(C) : C[i].msg = m
      /\ \A i \in 1..Len(C) : C[i].label = "INBOX" =>
            /\ ~ ("INBOX" \in L <=> "INBOX" \in gmail[m]) /\ (C[i].add <=> "INBOX" \in L)
      /\ ~ ("INBOX" \in L <=> "INBOX" \in gmail[m]) => \E i \in 1..Len(C) : C[i].label = "INBOX"
      /\ \A i, j \in 1..Len(C) : C[i].label = "INBOX" /\ C[j].label = "INBOX" => i = j
  <2>1. /\ C \in Seq(Record) /\ Len(C) = Len(A) + Len(B)
        /\ \A i \in 1..Len(A) : C[i] = A[i]
        /\ \A i \in 1..Len(B) : C[Len(A) + i] = B[i]
        /\ \A i \in 1..Len(C) : i \in 1..Len(A) \/ i - Len(A) \in 1..Len(B)
    BY <1>a, <1>b DEF AreChanges
  <2>2. \A i \in 1..Len(C) : \/ i \in 1..Len(A) /\ C[i] = A[i]
                             \/ \E j \in 1..Len(B) : i = Len(A) + j /\ C[i] = B[j]
    BY <2>1, <1>a, <1>b DEF AreChanges
  <2> HIDE DEF C
  <2>3. ASSUME NEW i \in 1..Len(C)
        PROVE  /\ C[i].msg = m
               /\ C[i].label = "INBOX" =>
                    \/ "INBOX" \in L \ gmail[m] /\ C[i].add = TRUE /\ i = Len(A)
                    \/ "INBOX" \in gmail[m] \ L /\ C[i].add = FALSE /\ i = Len(A) + Len(B)
    <3>1. CASE i \in 1..Len(A) /\ C[i] = A[i]
      <4>1. A[i].msg = m /\ A[i].add = TRUE
        BY <3>1, <1>a DEF AreChanges
      <4>2. A[i].label = "INBOX" => "INBOX" \in L \ gmail[m] /\ i = Len(A)
        BY <3>1, <1>a DEF AreChanges
      <4> QED
        BY <3>1, <4>1, <4>2
    <3>2. ASSUME NEW j \in 1..Len(B), i = Len(A) + j, C[i] = B[j]
          PROVE  /\ C[i].msg = m
                 /\ C[i].label = "INBOX" =>
                      "INBOX" \in gmail[m] \ L /\ C[i].add = FALSE /\ i = Len(A) + Len(B)
      <4>1. B[j].msg = m /\ B[j].add = FALSE
        BY <3>2, <1>b DEF AreChanges
      <4>2. B[j].label = "INBOX" => "INBOX" \in gmail[m] \ L /\ j = Len(B)
        BY <3>2, <1>b DEF AreChanges
      <4> QED
        BY <3>2, <4>1, <4>2
    <3> QED
      BY <3>1, <3>2, <2>2
  <2>5. ~ ("INBOX" \in L <=> "INBOX" \in gmail[m]) => \E i \in 1..Len(C) : C[i].label = "INBOX"
    <3>1. CASE "INBOX" \in L \ gmail[m]
      <4>1. Len(A) \in 1..Len(A) /\ Len(A) \in 1..Len(C)
        BY <3>1, <1>a, <1>b, <2>1 DEF AreChanges
      <4> QED
        BY <4>1, <3>1, <1>a, <2>1 DEF AreChanges
    <3>2. CASE "INBOX" \in gmail[m] \ L
      <4>1. Len(B) \in 1..Len(B) /\ Len(A) + Len(B) \in 1..Len(C)
        BY <3>2, <1>a, <1>b, <2>1 DEF AreChanges
      <4> QED
        BY <4>1, <3>2, <1>b, <2>1 DEF AreChanges
    <3> QED
      BY <3>1, <3>2
  <2>6. \A i, j \in 1..Len(C) : C[i].label = "INBOX" /\ C[j].label = "INBOX" => i = j
    BY <2>3
  <2> QED
    <3>1. Len(C) \in Nat
      BY <2>1
    <3> QED
      BY <3>1, <2>1, <2>3, <2>5, <2>6
<1>1. feed' = feed \o C /\ gmail' = [gmail EXCEPT ![m] = L] /\ arrived' = arrived
      /\ rows' = rows /\ labels' = labels /\ archived' = archived /\ trashed' = trashed
  BY DEF AtGmail, rowVars, A, B
<1> HIDE DEF C
<1>2. /\ feed' \in Seq(Record) /\ Len(feed') = Len(feed) + Len(C) /\ Len(feed) \in Nat
      /\ \A i \in 1..Len(feed) : feed'[i] = feed[i] /\ i \in 1..Len(feed')
      /\ \A i \in 1..Len(C) : feed'[Len(feed) + i] = C[i] /\ Len(feed) + i \in 1..Len(feed')
      /\ \A i \in 1..Len(feed') : i \in 1..Len(feed) \/ i - Len(feed) \in 1..Len(C)
  BY <1>0, <1>1, <1>c
<1>3. MailShape'
  <2>1. \A i \in 1..Len(feed') : feed'[i].msg \in arrived'
    <3> SUFFICES ASSUME NEW i \in 1..Len(feed') PROVE feed'[i].msg \in arrived
      BY <1>1
    <3>1. CASE i \in 1..Len(feed)
      BY <3>1, <1>2 DEF MailShape
    <3>2. CASE i - Len(feed) \in 1..Len(C)
      <4>1. feed'[i] = C[i - Len(feed)]
        BY <3>2, <1>2
      <4> QED
        BY <4>1, <3>2, <1>c
    <3> QED
      BY <3>1, <3>2, <1>2
  <2> QED
    BY <2>1, <1>0, <1>1, <1>2 DEF MailShape
<1>4. \A n, i : i \in Pending(n) <=> i \in 1..Len(feed) /\ feed[i].msg = n /\ feed[i].label = "INBOX"
  BY <1>0 DEF Pending
<1>5. \A n, i : i \in Pending(n)' <=> i \in 1..Len(feed') /\ feed'[i].msg = n /\ feed'[i].label = "INBOX"
  BY <1>2 DEF Pending
<1>6. \A n \in Messages \ {m} : Pending(n)' = Pending(n)
  <2> SUFFICES ASSUME NEW n \in Messages \ {m}, NEW i PROVE i \in Pending(n)' <=> i \in Pending(n)
    OBVIOUS
  <2>1. i \in Pending(n) => i \in Pending(n)'
    BY <1>2, <1>4, <1>5, <1>c
  <2>2. ASSUME i \in Pending(n)' PROVE i \in Pending(n)
    <3>1. i \in 1..Len(feed') /\ feed'[i].msg = n /\ feed'[i].label = "INBOX"
      BY <2>2, <1>5
    <3>2. CASE i - Len(feed) \in 1..Len(C)
      <4>1. feed'[i] = C[i - Len(feed)]
        BY <3>2, <1>2, <3>1
      <4> QED
        BY <4>1, <3>1, <3>2, <1>c
    <3> QED
      BY <3>1, <3>2, <1>2, <1>4
  <2> QED
    BY <2>1, <2>2
<1>7. CASE "INBOX" \in L <=> "INBOX" \in gmail[m]
  <2>1. Pending(m)' = Pending(m)
    <3> SUFFICES ASSUME NEW i PROVE i \in Pending(m)' <=> i \in Pending(m)
      OBVIOUS
    <3>1. i \in Pending(m) => i \in Pending(m)'
      BY <1>2, <1>4, <1>5
    <3>2. ASSUME i \in Pending(m)' PROVE i \in Pending(m)
      <4>1. i \in 1..Len(feed') /\ feed'[i].msg = m /\ feed'[i].label = "INBOX"
        BY <3>2, <1>5
      <4>2. CASE i - Len(feed) \in 1..Len(C)
        <5>1. feed'[i] = C[i - Len(feed)]
          BY <4>2, <1>2, <4>1
        <5> QED
          BY <5>1, <4>1, <4>2, <1>c, <1>7
      <4> QED
        BY <4>1, <4>2, <1>2, <1>4
    <3> QED
      BY <3>1, <3>2
  <2>2. \A n \in Messages : Pending(n)' = Pending(n)
    BY <2>1, <1>6
  <2>3. \A n \in Messages : "INBOX" \in gmail'[n] <=> "INBOX" \in gmail[n]
    BY <1>0, <1>1, <1>7
  <2>4. \A n \in Messages : In(n)' <=> In(n)
    BY <2>2, <2>3, <1>1 DEF In
  <2>5. \A n \in Messages : \A i \in Pending(n) : feed'[i] = feed[i]
    BY <1>4, <1>2
  <2>6. FeedAgrees'
    <3> SUFFICES ASSUME NEW n \in rows, Pending(n)' # {}
                 PROVE  \E i \in Pending(n)' : (\A j \in Pending(n)' : j <= i) /\ (feed'[i].add <=> "INBOX" \in gmail'[n])
      BY <1>1 DEF FeedAgrees
    <3>1. n \in Messages /\ Pending(n)' = Pending(n)
      BY <2>2 DEF MailShape
    <3>2. PICK i \in Pending(n) : (\A j \in Pending(n) : j <= i) /\ (feed[i].add <=> "INBOX" \in gmail[n])
      BY <3>1 DEF FeedAgrees
    <3> QED
      BY <3>1, <3>2, <2>3, <2>5
  <2> QED
    BY <2>4, <2>6, <1>1, <1>3, <1>7, <1>0
<1>8. CASE ~ ("INBOX" \in L <=> "INBOX" \in gmail[m])
  <2>1. PICK k \in 1..Len(C) : C[k].label = "INBOX"
    BY <1>8, <1>c
  <2> DEFINE top == Len(feed) + k
  <2>2. top \in Pending(m)' /\ (feed'[top].add <=> "INBOX" \in L)
    <3>1. feed'[top] = C[k] /\ top \in 1..Len(feed')
      BY <1>2
    <3> QED
      BY <3>1, <2>1, <1>5, <1>c
  <2>3. \A j \in Pending(m)' : j <= top
    <3> SUFFICES ASSUME NEW j \in Pending(m)' PROVE j <= top
      OBVIOUS
    <3>1. j \in 1..Len(feed') /\ feed'[j].label = "INBOX"
      BY <1>5, <1>0
    <3>2. CASE j \in 1..Len(feed)
      BY <3>2, <1>2, <2>1, <1>c
    <3>3. CASE j - Len(feed) \in 1..Len(C)
      <4>1. feed'[j] = C[j - Len(feed)]
        BY <3>3, <3>1, <1>2
      <4>2. j - Len(feed) = k
        BY <4>1, <3>1, <3>3, <2>1, <1>c
      <4> QED
        BY <4>2, <1>2, <1>c, <3>1
    <3> QED
      BY <3>1, <3>2, <3>3, <1>2
  <2> HIDE DEF top
  <2>4. gmail'[m] = L /\ \A n \in Messages \ {m} : gmail'[n] = gmail[n]
    BY <1>0, <1>1
  <2>5. In(m)' <=> "INBOX" \in L
    BY <2>2, <2>4 DEF In
  <2>6. \A n \in Messages \ {m} : In(n)' <=> In(n)
    BY <1>6, <2>4, <1>1 DEF In
  <2>7. \A n \in Messages \ {m} : \A i \in Pending(n) : feed'[i] = feed[i]
    BY <1>4, <1>2
  <2>8. FeedAgrees'
    <3> SUFFICES ASSUME NEW n \in rows, Pending(n)' # {}
                 PROVE  \E i \in Pending(n)' : (\A j \in Pending(n)' : j <= i) /\ (feed'[i].add <=> "INBOX" \in gmail'[n])
      BY <1>1 DEF FeedAgrees
    <3>1. CASE n = m
      BY <3>1, <2>2, <2>3, <2>4
    <3>2. CASE n # m
      <4>1. n \in Messages \ {m}
        BY <3>2 DEF MailShape
      <4> QED
        BY <4>1, <1>6, <2>4, <2>7 DEF FeedAgrees
    <3> QED
      BY <3>1, <3>2
  <2> QED
    BY <2>5, <2>6, <2>8, <1>1, <1>3, <1>8
<1> QED
  BY <1>7, <1>8

\* A row that is written moves m only if the sync has nothing to apply to it.
LEMMA WriteRowEffect ==
  ASSUME MailShape, FeedAgrees, NEW m \in Messages, NEW L \in SUBSET Labels, NEW a \in BOOLEAN, NEW t \in BOOLEAN,
         WriteRow(m, L, a, t), UNCHANGED mailVars, home' \subseteq rows
  PROVE  /\ MailShape' /\ FeedAgrees'
         /\ \A n \in Messages \ {m} : In(n)' <=> In(n)
         /\ In(m)' <=> IF Pending(m) # {} THEN In(m) ELSE "INBOX" \in L
<1>1. /\ rows' = rows /\ arrived' = arrived /\ gmail' = gmail /\ feed' = feed
      /\ labels' = [labels EXCEPT ![m] = L]
  BY DEF WriteRow, mailVars
<1>2. MailShape'
  BY <1>1 DEF MailShape, WriteRow
<1>3. \A n : Pending(n)' = Pending(n)
  BY <1>1 DEF Pending
<1>4. FeedAgrees'
  BY <1>1, <1>3 DEF FeedAgrees
<1>5. labels'[m] = L /\ \A n \in Messages \ {m} : labels'[n] = labels[n]
  BY <1>1 DEF MailShape
<1> QED
  BY <1>1, <1>2, <1>3, <1>4, <1>5 DEF In

\* The sync moves nothing: what it applies was already to come.
LEMMA SyncApplyEffect ==
  ASSUME MailShape, FeedAgrees, SyncApply
  PROVE  /\ MailShape' /\ FeedAgrees'
         /\ \A m \in rows : In(m)' <=> In(m)
<1> DEFINE h == Head(feed)
           L == IF h.add THEN labels[h.msg] \cup {h.label} ELSE labels[h.msg] \ {h.label}
<1>1. /\ feed \in Seq(Record) /\ feed # <<>> /\ feed' = Tail(feed) /\ gmail' = gmail /\ arrived' = arrived
      /\ home' = home /\ rows' = rows /\ rows \subseteq Messages
      /\ \A i \in 1..Len(feed) : feed[i].msg \in arrived
  BY DEF SyncApply, MailShape, WriteRow, rowVars, history
<1>2. /\ Len(feed) \in Nat \ {0} /\ Len(feed') = Len(feed) - 1 /\ feed' \in Seq(Record)
      /\ \A i \in 1..Len(feed') : feed'[i] = feed[i + 1] /\ i + 1 \in 1..Len(feed)
      /\ h = feed[1] /\ h \in Record
  BY <1>1
<1>3. h.msg \in Messages /\ h.add \in BOOLEAN /\ h.label \in Labels
  BY <1>2 DEF Record
<1>4. L \in SUBSET Labels /\ ArchivedFrom(L) \in BOOLEAN /\ ("TRASH" \in L) \in BOOLEAN
  BY <1>3 DEF MailShape, ArchivedFrom
<1>5. IF h.msg \in rows THEN labels' = [labels EXCEPT ![h.msg] = L] ELSE labels' = labels
  BY DEF SyncApply, WriteRow, rowVars
<1>6. \A m \in rows : labels'[m] = IF h.msg = m THEN L ELSE labels[m]
  BY <1>3, <1>5, <1>1 DEF MailShape
<1>7. MailShape'
  <2>1. \A i \in 1..Len(feed') : feed'[i].msg \in arrived'
    BY <1>1, <1>2
  <2>2. /\ labels' \in [Messages -> SUBSET Labels]
        /\ archived' \in [Messages -> BOOLEAN] /\ trashed' \in [Messages -> BOOLEAN]
    <3>1. CASE h.msg \in rows
      <4>1. WriteRow(h.msg, L, ArchivedFrom(L), "TRASH" \in L)
        BY <3>1 DEF SyncApply
      <4> HIDE DEF L
      <4> QED
        BY <4>1, <1>3, <1>4 DEF WriteRow, MailShape
    <3>2. CASE h.msg \notin rows
      BY <3>2 DEF SyncApply, rowVars, MailShape
    <3> QED
      BY <3>1, <3>2
  <2> QED
    BY <2>1, <2>2, <1>1, <1>2 DEF MailShape
<1>8. \A m, i : i \in Pending(m) <=> i \in 1..Len(feed) /\ feed[i].msg = m /\ feed[i].label = "INBOX"
  BY <1>1 DEF Pending
<1>9. \A m, i : i \in Pending(m)' <=> i \in 1..Len(feed') /\ feed[i + 1].msg = m /\ feed[i + 1].label = "INBOX"
  BY <1>2 DEF Pending
<1>10. \A m, i : i \in Pending(m)' => i + 1 \in Pending(m) /\ i \in Nat /\ i > 0
  BY <1>2, <1>8, <1>9
<1>11. \A m, i : i \in Pending(m) => i \in Nat /\ (i = 1 \/ i - 1 \in Pending(m)')
  <2> SUFFICES ASSUME NEW m, NEW i \in Pending(m), i # 1 PROVE i \in Nat /\ i - 1 \in Pending(m)'
    BY <1>8
  <2>1. i \in 1..Len(feed) /\ feed[i].msg = m /\ feed[i].label = "INBOX"
    BY <1>8
  <2>2. i \in Nat /\ i - 1 \in 1..Len(feed') /\ (i - 1) + 1 = i
    BY <2>1, <1>2
  <2> QED
    BY <2>1, <2>2, <1>9
<1>12. ASSUME NEW m \in rows PROVE In(m)' <=> In(m)
  <2>1. CASE Pending(m)' # {}
    <3>1. Pending(m) # {}
      BY <2>1, <1>10
    <3> QED
      BY <2>1, <3>1, <1>1 DEF In
  <2>2. CASE Pending(m)' = {} /\ Pending(m) = {}
    <3>1. ~ (h.msg = m /\ h.label = "INBOX")
      <4>1. 1 \in 1..Len(feed) /\ 1 \notin Pending(m)
        BY <2>2, <1>2
      <4> QED
        BY <4>1, <1>8, <1>2
    <3>2. "INBOX" \in labels'[m] <=> "INBOX" \in labels[m]
      BY <3>1, <1>6
    <3> QED
      BY <2>2, <3>2 DEF In
  <2>3. CASE Pending(m)' = {} /\ Pending(m) # {}
    <3>1. PICK i \in Pending(m) : feed[i].add <=> "INBOX" \in gmail[m]
      BY <2>3 DEF FeedAgrees
    <3>2. i = 1
      BY <2>3, <1>11
    <3>3. h.msg = m /\ h.label = "INBOX" /\ (h.add <=> "INBOX" \in gmail[m])
      BY <3>1, <3>2, <1>2, <1>8
    <3>4. "INBOX" \in labels'[m] <=> "INBOX" \in gmail[m]
      BY <3>3, <1>6
    <3> QED
      BY <2>3, <3>4 DEF In
  <2> QED
    BY <2>1, <2>2, <2>3
<1>13. FeedAgrees'
  <2> SUFFICES ASSUME NEW m \in rows, Pending(m)' # {}
               PROVE  \E i \in Pending(m)' : (\A j \in Pending(m)' : j <= i) /\ (feed'[i].add <=> "INBOX" \in gmail[m])
    BY <1>1 DEF FeedAgrees
  <2>1. Pending(m) # {}
    BY <1>10
  <2>2. PICK i \in Pending(m) : (\A j \in Pending(m) : j <= i) /\ (feed[i].add <=> "INBOX" \in gmail[m])
    BY <2>1 DEF FeedAgrees
  <2>3. i # 1
    BY <2>2, <1>10
  <2>4. i - 1 \in Pending(m)' /\ i \in Nat
    BY <2>3, <1>11
  <2>5. \A j \in Pending(m)' : j <= i - 1
    BY <2>2, <2>4, <1>10
  <2>6. feed'[i - 1] = feed[i]
    BY <2>4, <1>2, <1>9
  <2> QED
    BY <2>2, <2>4, <2>5, <2>6
<1> QED
  BY <1>7, <1>12, <1>13

-----------------------------------------------------------------------------
\* The other processes are as they were.
Others(p) ==
  \A q \in Procs \ {p} :
    /\ op'[q] = op[q] /\ at'[q] = at[q] /\ rem'[q] = rem[q] /\ from'[q] = from[q]
    /\ snap'[q] = snap[q] /\ todo'[q] = todo[q] /\ calls'[q] = calls[q]

Good == Typed /\ FeedAgrees

\* A step that changes no mail moves none.
LEMMA MailSame ==
  ASSUME MailShape, FeedAgrees, UNCHANGED <<rowVars, mailVars>>, home' \subseteq rows
  PROVE  MailShape' /\ FeedAgrees' /\ \A m : In(m)' <=> In(m)
<1>1. \A m : Pending(m)' = Pending(m)
  BY DEF Pending, mailVars
<1>2. FeedAgrees' /\ \A m : In(m)' <=> In(m)
  BY <1>1 DEF FeedAgrees, In, rowVars, mailVars
<1> QED
  BY <1>2 DEF MailShape, rowVars, mailVars

\* A step of the mail alone keeps every process as it was.
LEMMA MailStepGood ==
  ASSUME Good, MailShape', FeedAgrees', UNCHANGED <<remVars, procVars>>, arrived \subseteq arrived'
  PROVE  Good'
<1>1. RemShape' /\ ProcFuns'
  BY DEF Good, Typed, RemShape, ProcFuns, remVars, procVars
<1>2. ASSUME NEW q \in Procs PROVE ProcShape(q)'
  BY ProcFrame DEF Good, Typed, remVars, procVars
<1> QED
  BY <1>1, <1>2 DEF Good, Typed

\* A step of p keeps the invariant if what it does to the mail and to p does.
LEMMA ProcStepGood ==
  ASSUME Good, NEW p \in Procs, MailShape', FeedAgrees', RemShape', ProcFuns', ProcShape(p)', Others(p),
         arrived \subseteq arrived',
         \A r \in Reminders : state[r] # "none" => state'[r] # "none" /\ was'[r] = was[r]
  PROVE  Good'
<1>1. ASSUME NEW q \in Procs \ {p} PROVE ProcShape(q)'
  BY ProcFrame DEF Good, Typed, Others
<1> QED
  BY <1>1 DEF Good, Typed

\* The effect of each action, in the order of the module.
LEMMA SyncApplyGood == ASSUME Good, SyncApply PROVE Good'
BY SyncApplyEffect, MailStepGood DEF Good, Typed, SyncApply

\* A message that arrives has no change in the feed: those are of earlier ones.
LEMMA ArriveEffect ==
  ASSUME Good, NEW m \in Messages, Arrive(m)
  PROVE  /\ MailShape' /\ FeedAgrees'
         /\ \A n \in rows : In(n)' <=> In(n)
         /\ m \notin rows /\ rows' = rows \cup {m} /\ home' \subseteq home \cup {m} /\ (m \in home' => In(m)')
<1>1. /\ MailShape /\ m \notin arrived /\ m \notin rows
      /\ rows' = rows \cup {m} /\ arrived' = arrived \cup {m} /\ feed' = feed
      /\ labels' = [labels EXCEPT ![m] = IF m \in Own THEN {} ELSE {"INBOX"}]
      /\ gmail' = [gmail EXCEPT ![m] = labels'[m]]
      /\ archived' = [archived EXCEPT ![m] = m \in Own] /\ trashed' = trashed
      /\ home' = IF m \in Own THEN home ELSE home \cup {m}
  BY DEF Arrive, Good, Typed, MailShape
<1>2. labels'[m] = (IF m \in Own THEN {} ELSE {"INBOX"}) /\ labels'[m] \in SUBSET Labels /\ (m \in Own) \in BOOLEAN
      /\ m \notin home /\ \A n \in rows : labels'[n] = labels[n] /\ gmail'[n] = gmail[n] /\ n \in Messages
  BY <1>1 DEF MailShape, Labels
<1>3. MailShape'
  BY <1>1, <1>2 DEF MailShape
<1>4. Pending(m) = {} /\ \A n : Pending(n)' = Pending(n)
  BY <1>1 DEF MailShape, Pending
<1>5. FeedAgrees'
  <2> SUFFICES ASSUME NEW n \in rows', Pending(n)' # {}
               PROVE  \E i \in Pending(n)' : (\A j \in Pending(n)' : j <= i) /\ (feed'[i].add <=> "INBOX" \in gmail'[n])
    BY DEF FeedAgrees
  <2>1. n \in rows
    BY <1>1, <1>4
  <2> QED
    BY <2>1, <1>1, <1>2, <1>4 DEF FeedAgrees, Good
<1>6. \A n \in rows : In(n)' <=> In(n)
  BY <1>2, <1>4 DEF In
<1>7. m \in home' => In(m)'
  BY <1>1, <1>2, <1>4 DEF In
<1> QED
  BY <1>1, <1>3, <1>5, <1>6, <1>7

\* An arrival keeps the types, and the feed with Gmail.
LEMMA ArriveGood == ASSUME Good, NEW m \in Messages, Arrive(m) PROVE Good'
BY ArriveEffect, MailStepGood DEF Arrive

\* A message that is deleted leaves the others where they are.
LEMMA DeleteMessageEffect ==
  ASSUME Good, NEW m \in Messages, DeleteMessage(m)
  PROVE  /\ MailShape' /\ FeedAgrees'
         /\ \A n \in rows \ {m} : In(n)' <=> In(n)
         /\ rows' = rows \ {m} /\ home' = home \ {m} /\ arrived' = arrived
<1>1. /\ MailShape
      /\ rows' = rows \ {m} /\ arrived' = arrived /\ feed' = feed
      /\ labels' = [labels EXCEPT ![m] = {}] /\ gmail' = [gmail EXCEPT ![m] = {}]
      /\ archived' = [archived EXCEPT ![m] = FALSE] /\ trashed' = [trashed EXCEPT ![m] = FALSE]
      /\ home' = home \ {m}
  BY DEF DeleteMessage, Good, Typed
<1>2. \A n \in rows \ {m} : labels'[n] = labels[n] /\ gmail'[n] = gmail[n] /\ n \in Messages
  BY <1>1 DEF MailShape
<1>3. MailShape'
  BY <1>1 DEF MailShape
<1>4. \A n : Pending(n)' = Pending(n)
  BY <1>1 DEF Pending
<1>5. FeedAgrees'
  BY <1>1, <1>2, <1>4 DEF FeedAgrees, Good
<1>6. \A n \in rows \ {m} : In(n)' <=> In(n)
  BY <1>2, <1>4 DEF In
<1> QED
  BY <1>1, <1>3, <1>5, <1>6

\* A deletion keeps the types, and the feed with Gmail.
LEMMA DeleteMessageGood == ASSUME Good, NEW m \in Messages, DeleteMessage(m) PROVE Good'
BY DeleteMessageEffect, MailStepGood DEF DeleteMessage

\* What a call for m does, whether it fails or not.
LEMMA GmailCallEffect ==
  ASSUME Good, NEW p \in Procs, NEW m \in arrived, NEW L \in SUBSET Labels,
         GmailCall(p, m, L), UNCHANGED <<rowVars, home>>
  PROVE  /\ MailShape' /\ FeedAgrees' /\ arrived' = arrived
         /\ calls' = [calls EXCEPT ![p] = @ \ {m}]
         /\ \A n \in Messages \ {m} : (In(n)' <=> In(n)) /\ gmail'[n] = gmail[n]
         /\ excused \subseteq excused' /\ excused' \subseteq excused \cup {m}
         /\ \/ /\ gmail' = gmail /\ (In(m)' <=> In(m))
               /\ "INBOX" \in L => m \in excused'
            \/ /\ gmail'[m] = L
               /\ ("INBOX" \in L <=> "INBOX" \in gmail[m]) => (In(m)' <=> In(m))
               /\ ~ ("INBOX" \in L <=> "INBOX" \in gmail[m]) => (In(m)' <=> "INBOX" \in L)
<1>0. MailShape /\ FeedAgrees /\ home \subseteq rows /\ m \in Messages
  BY DEF Good, Typed, MailShape
<1>1. CASE AtGmail(m, L) /\ UNCHANGED <<excused, faults>>
  <2>1. /\ MailShape' /\ FeedAgrees' /\ arrived' = arrived
        /\ \A n \in Messages \ {m} : In(n)' <=> In(n)
        /\ ("INBOX" \in L <=> "INBOX" \in gmail[m]) => (In(m)' <=> In(m))
        /\ ~ ("INBOX" \in L <=> "INBOX" \in gmail[m]) => (In(m)' <=> "INBOX" \in L)
        /\ gmail' = [gmail EXCEPT ![m] = L]
    BY <1>0, <1>1, AtGmailEffect
  <2>2. gmail'[m] = L /\ \A n \in Messages \ {m} : gmail'[n] = gmail[n]
    BY <2>1, <1>0 DEF MailShape
  <2> QED
    BY <2>1, <2>2, <1>1 DEF GmailCall
<1>2. CASE excused' = (IF "INBOX" \in L THEN excused \cup {m} ELSE excused) /\ UNCHANGED mailVars
  <2>1. MailShape' /\ FeedAgrees' /\ \A n : In(n)' <=> In(n)
    BY <1>0, <1>2, MailSame
  <2> QED
    BY <2>1, <1>2 DEF GmailCall, mailVars
<1> QED
  BY <1>1, <1>2 DEF GmailCall

\* A move at Gmail keeps the types, and the feed with Gmail.
LEMMA MoveAtGmailGood ==
  ASSUME Good, NEW m \in Messages, NEW L \in {{}, {"INBOX"}}, MoveAtGmail(m, L) PROVE Good'
<1>1. /\ MailShape /\ FeedAgrees /\ m \in arrived /\ m \in rows /\ L \in SUBSET Labels
      /\ AtGmail(m, L) /\ UNCHANGED rowVars /\ home' \subseteq rows
  BY DEF Good, Typed, MailShape, MoveAtGmail, Labels
<1>2. MailShape' /\ FeedAgrees' /\ arrived' = arrived
  BY <1>1, AtGmailEffect
<1> QED
  BY <1>2, MailStepGood DEF MoveAtGmail

\* What a query of the thread returns.
LEMMA ReadShape ==
  ASSUME MailShape
  PROVE  DOMAIN Read = rows /\ \A m \in rows : Read[m] \in Row /\ Read[m].labels = labels[m] /\ Read[m].trashed = trashed[m]
BY DEF MailShape, Read, Row

\* A create begins: it has read the thread and has nothing in hand.
LEMMA StartCreateEffect ==
  ASSUME Good, NEW p \in Callers, NEW k \in Kinds, StartCreate(p, k)
  PROVE  /\ Good' /\ Others(p) /\ \A m : In(m)' <=> In(m)
         /\ op[p] = "idle" /\ at'[p] = "prior" /\ todo'[p] = {} /\ calls'[p] = {}
<1>0. p \in Procs /\ MailShape /\ FeedAgrees /\ RemShape /\ ProcFuns /\ ProcShape(p)
  BY DEF Procs, Good, Typed
<1>1. MailShape' /\ FeedAgrees' /\ \A m : In(m)' <=> In(m)
  BY <1>0, MailSame DEF StartCreate, MailShape, history
<1>2. ProcFuns' /\ Others(p)
  BY <1>0 DEF StartCreate, Goto, ProcFuns, Others, Steps
<1>3. /\ op'[p] = "create" /\ at'[p] = "prior" /\ rem'[p] = k /\ snap'[p] = Read
      /\ todo'[p] = {} /\ calls'[p] = {}
  BY <1>0 DEF StartCreate, Goto, ProcFuns, ProcShape
<1>4. ProcShape(p)'
  <2>1. \A m \in DOMAIN Read : m \in arrived' /\ Read[m] \in Row
    BY <1>0, <1>1, ReadShape DEF MailShape, StartCreate, mailVars
  <2> QED
    BY <1>3, <2>1 DEF ProcShape, Creating, Restoring, Moving, Moves
<1>5. Good'
  BY <1>0, <1>1, <1>2, <1>4, ProcStepGood DEF StartCreate, remVars, mailVars, RemShape
<1> QED
  BY <1>1, <1>2, <1>3, <1>5 DEF StartCreate

\* The look for a reminder that says where the thread was changes only the create.
LEMMA PriorGood == ASSUME Good, NEW p \in Procs, Prior(p) PROVE Good' /\ Others(p)
<1>0. MailShape /\ FeedAgrees /\ RemShape /\ ProcFuns /\ ProcShape(p)
  BY DEF Good, Typed
<1>1. MailShape' /\ FeedAgrees'
  BY <1>0, MailSame DEF Prior, MailShape
<1>2. PICK b : from' = [from EXCEPT ![p] = b \/ \E m \in DOMAIN snap[p] : "INBOX" \in snap[p][m].labels]
  BY DEF Prior
<1>3. (b \/ \E m \in DOMAIN snap[p] : "INBOX" \in snap[p][m].labels) \in BOOLEAN
  OBVIOUS
<1>4. from' \in [Procs -> BOOLEAN] /\ \A q \in Procs \ {p} : from'[q] = from[q]
  BY <1>0, <1>2, <1>3 DEF ProcFuns
<1>5. ProcFuns' /\ Others(p)
  BY <1>0, <1>4 DEF Prior, Goto, ProcFuns, Others, Steps
<1>6. ProcShape(p)'
  BY <1>0 DEF Prior, Goto, ProcFuns, ProcShape, Creating, Restoring, Moving, Moves, mailVars
<1> QED
  BY <1>0, <1>1, <1>5, <1>6, ProcStepGood DEF Prior, remVars, mailVars, RemShape

\* What is replaced stays a reminder that was made.
LEMMA ReplaceGood == ASSUME Good, NEW p \in Procs, Replace(p) PROVE Good' /\ Others(p)
<1>0. MailShape /\ FeedAgrees /\ RemShape /\ ProcFuns /\ ProcShape(p)
  BY DEF Good, Typed
<1>1. MailShape' /\ FeedAgrees'
  BY <1>0, MailSame DEF Replace, MailShape, history
<1>2. ProcFuns' /\ Others(p)
  BY <1>0 DEF Replace, Goto, ProcFuns, Others, Steps
<1>3. ProcShape(p)'
  BY <1>0 DEF Replace, Goto, ProcFuns, ProcShape, Creating, Restoring, Moving, Moves, mailVars
<1>4. RemShape' /\ \A r \in Reminders : state[r] # "none" => state'[r] # "none" /\ was'[r] = was[r]
  BY <1>0 DEF Replace, RemShape, Armed
<1> QED
  BY <1>0, <1>1, <1>2, <1>3, <1>4, ProcStepGood DEF Replace, mailVars

\* What a create is to take out of the inbox.
Targets(p) ==
  IF rem[p] = "follow_up" THEN {}
  ELSE {m \in DOMAIN snap[p] : ~ snap[p][m].trashed /\ "INBOX" \in snap[p][m].labels}

\* The new reminder, and what its create has now in hand.
LEMMA InsertEffect ==
  ASSUME Good, NEW p \in Procs, NEW r \in Reminders, Insert(p, r)
  PROVE  /\ Good' /\ Others(p)
         /\ Creating(p) /\ p \in Callers /\ at[p] = "insert" /\ rem[p] \in Kinds
         /\ op'[p] = op[p] /\ at'[p] = "write" /\ rem'[p] = rem[p] /\ from'[p] = FALSE
         /\ todo'[p] = Targets(p) /\ calls'[p] = Targets(p)
         /\ state[r] = "none" /\ state'[r] = "armed" /\ kind'[r] = rem[p] /\ was'[r] = from[p]
         /\ \A x \in Reminders \ {r} : state'[x] = state[x] /\ kind'[x] = kind[x] /\ was'[x] = was[x]
         /\ \A m : In(m)' <=> In(m)
<1>0. MailShape /\ FeedAgrees /\ RemShape /\ ProcFuns /\ ProcShape(p)
  BY DEF Good, Typed
<1>1. MailShape' /\ FeedAgrees' /\ \A m : In(m)' <=> In(m)
  BY <1>0, MailSame DEF Insert, MailShape
<1>2. /\ todo' = [todo EXCEPT ![p] = Targets(p)] /\ calls' = [calls EXCEPT ![p] = Targets(p)]
      /\ snap' = [snap EXCEPT ![p] = [m \in Targets(p) |-> snap[p][m]]]
      /\ op[p] = "create" /\ at[p] = "insert" /\ state[r] = "none"
      /\ from' = [from EXCEPT ![p] = FALSE] /\ state' = [state EXCEPT ![r] = "armed"]
      /\ kind' = [kind EXCEPT ![r] = rem[p]] /\ was' = [was EXCEPT ![r] = from[p]]
      /\ at' = [at EXCEPT ![p] = "write"] /\ op' = op /\ rem' = rem /\ arrived' = arrived
  BY DEF Insert, NewReminder, Goto, Targets, mailVars
<1>3. /\ Targets(p) \subseteq DOMAIN snap[p] /\ p \in Callers /\ rem[p] \in Kinds
      /\ \A m \in DOMAIN snap[p] : m \in arrived /\ m \in Messages /\ snap[p][m] \in Row
  BY <1>0, <1>2 DEF Targets, ProcShape, Creating, MailShape
<1> HIDE DEF Targets
<1>4. /\ todo'[p] = Targets(p) /\ calls'[p] = Targets(p) /\ op'[p] = "create" /\ at'[p] = "write"
      /\ rem'[p] = rem[p] /\ from'[p] = FALSE /\ snap'[p] = [m \in Targets(p) |-> snap[p][m]]
  BY <1>0, <1>2 DEF ProcFuns
<1>5. ProcFuns' /\ Others(p)
  BY <1>0, <1>2, <1>3 DEF ProcFuns, Others, Steps
<1>6. ProcShape(p)'
  BY <1>2, <1>3, <1>4 DEF ProcShape, Creating, Restoring, Moving, Moves
<1>7. /\ state'[r] = "armed" /\ kind'[r] = rem[p] /\ was'[r] = from[p]
      /\ \A x \in Reminders \ {r} : state'[x] = state[x] /\ kind'[x] = kind[x] /\ was'[x] = was[x]
  BY <1>0, <1>2 DEF RemShape
<1>8. RemShape'
  BY <1>0, <1>2, <1>3, <1>7, NoneIsNothing DEF RemShape, ProcFuns
<1>9. Good'
  BY <1>0, <1>1, <1>2, <1>5, <1>6, <1>7, <1>8, ProcStepGood
<1> QED
  BY <1>1, <1>2, <1>3, <1>4, <1>5, <1>7, <1>9 DEF Creating

\* A row is written, and is no longer in hand.
LEMMA RowStepGood ==
  ASSUME Good, NEW p \in Procs, NEW m \in Messages, MailShape', FeedAgrees', arrived' = arrived,
         todo' = [todo EXCEPT ![p] = @ \ {m}], Moving(p) => calls[p] = {},
         UNCHANGED <<remVars, op, at, rem, snap, from, calls>>
  PROVE  Good' /\ Others(p) /\ todo'[p] = todo[p] \ {m}
<1>0. RemShape /\ ProcFuns /\ ProcShape(p)
  BY DEF Good, Typed
<1>1. RemShape' /\ \A r \in Reminders : state[r] # "none" => state'[r] # "none" /\ was'[r] = was[r]
  BY <1>0 DEF RemShape, remVars
<1>2. ProcFuns' /\ Others(p) /\ todo'[p] = todo[p] \ {m}
  BY <1>0 DEF ProcFuns, Others
<1>3. ProcShape(p)'
  BY <1>0, <1>2 DEF ProcShape, Creating, Restoring, Moving, remVars
<1> QED
  BY <1>1, <1>2, <1>3, ProcStepGood

\* A call is made, and is no longer in hand.
LEMMA CallStepGood ==
  ASSUME Good, NEW p \in Procs, NEW m \in Messages, MailShape', FeedAgrees', arrived' = arrived,
         calls' = [calls EXCEPT ![p] = @ \ {m}],
         UNCHANGED <<remVars, op, at, rem, snap, from, todo>>
  PROVE  Good' /\ Others(p) /\ calls'[p] = calls[p] \ {m}
<1>0. RemShape /\ ProcFuns /\ ProcShape(p)
  BY DEF Good, Typed
<1>1. RemShape' /\ \A r \in Reminders : state[r] # "none" => state'[r] # "none" /\ was'[r] = was[r]
  BY <1>0 DEF RemShape, remVars
<1>2. ProcFuns' /\ Others(p) /\ calls'[p] = calls[p] \ {m}
  BY <1>0 DEF ProcFuns, Others
<1>3. ProcShape(p)'
  BY <1>0, <1>2 DEF ProcShape, Creating, Restoring, Moving, remVars
<1> QED
  BY <1>1, <1>2, <1>3, ProcStepGood

\* A process finishes, and changes no mail.
LEMMA FinishGood ==
  ASSUME Good, NEW p \in Procs, Finish(p), UNCHANGED <<rowVars, mailVars, home>>, RemShape',
         \A r \in Reminders : state[r] # "none" => state'[r] # "none" /\ was'[r] = was[r]
  PROVE  /\ Good' /\ Others(p) /\ \A m : In(m)' <=> In(m)
         /\ op'[p] \in {"idle", "check"} /\ at'[p] = None /\ rem'[p] = None /\ from'[p] = FALSE
         /\ todo'[p] = {} /\ calls'[p] = {}
<1>0. MailShape /\ FeedAgrees /\ RemShape /\ ProcFuns /\ home' \subseteq rows
  BY DEF Good, Typed, MailShape
<1>1. MailShape' /\ FeedAgrees' /\ \A m : In(m)' <=> In(m)
  BY <1>0, MailSame
<1>2. ProcFuns' /\ ProcShape(p)' /\ Others(p)
         /\ op'[p] \in {"idle", "check"} /\ at'[p] = None /\ rem'[p] = None /\ from'[p] = FALSE
         /\ todo'[p] = {} /\ calls'[p] = {}
  BY <1>0, FinishShape DEF Others
<1> QED
  BY <1>1, <1>2, ProcStepGood DEF mailVars

\* A create takes m out of the inbox, in its row.
LEMMA TakeOutEffect ==
  ASSUME Good, NEW p \in Procs, NEW m \in Messages, TakeOut(p, m)
  PROVE  /\ Good' /\ Others(p)
         /\ Creating(p) /\ at[p] = "write" /\ m \in todo[p] /\ m \in rows
         /\ todo'[p] = todo[p] \ {m}
         /\ \A n \in Messages \ {m} : In(n)' <=> In(n)
<1>0. MailShape /\ FeedAgrees /\ ProcFuns /\ ProcShape(p)
  BY DEF Good, Typed
<1> DEFINE L == snap[p][m].labels \ {"INBOX"}
           a == ArchivedFrom(L)
           t == trashed[m]
<1>1. /\ op[p] = "create" /\ at[p] = "write" /\ m \in todo[p] /\ m \in rows
      /\ WriteRow(m, L, a, t)
      /\ todo' = [todo EXCEPT ![p] = @ \ {m}]
  BY DEF TakeOut, NextRow, IsOldest
<1>2. L \in SUBSET Labels /\ a \in BOOLEAN /\ t \in BOOLEAN
  BY <1>0, <1>1 DEF ProcShape, Row, MailShape, ArchivedFrom
<1>3. home' \subseteq rows /\ UNCHANGED mailVars /\ arrived' = arrived
  BY <1>0 DEF TakeOut, history, MailShape, mailVars
<1> HIDE DEF L, a, t
<1>4. /\ MailShape' /\ FeedAgrees'
      /\ \A n \in Messages \ {m} : In(n)' <=> In(n)
  BY <1>0, <1>1, <1>2, <1>3, WriteRowEffect
<1>5. ~ Moving(p) /\ UNCHANGED <<remVars, op, at, rem, snap, from, calls>>
  BY <1>1 DEF TakeOut, Moving, Moves
<1> QED
  BY <1>1, <1>3, <1>4, <1>5, RowStepGood DEF Creating

\* A create takes m out of the inbox, at Gmail.
LEMMA TakeOutAtGmailEffect ==
  ASSUME Good, NEW p \in Procs, NEW m \in Messages, TakeOutAtGmail(p, m)
  PROVE  /\ Good' /\ Others(p)
         /\ Creating(p) /\ at[p] = "write" /\ m \in calls[p]
         /\ calls'[p] = calls[p] \ {m} /\ todo[p] = {} /\ excused \subseteq excused'
         /\ \A n \in Messages \ {m} : (In(n)' <=> In(n)) /\ gmail'[n] = gmail[n]
<1>0. MailShape /\ FeedAgrees /\ ProcFuns /\ ProcShape(p)
  BY DEF Good, Typed
<1> DEFINE L == gmail[m] \ {"INBOX"}
<1>1. /\ op[p] = "create" /\ at[p] = "write" /\ m \in calls[p] /\ todo[p] = {}
      /\ GmailCall(p, m, L)
      /\ UNCHANGED <<rowVars, home, remVars, op, at, rem, snap, from, todo>>
  BY DEF TakeOutAtGmail, NextCall, IsOldest
<1>2. L \in SUBSET Labels /\ m \in arrived
  BY <1>0, <1>1 DEF ProcShape, MailShape
<1> HIDE DEF L
<1>3. /\ MailShape' /\ FeedAgrees' /\ arrived' = arrived /\ excused \subseteq excused'
      /\ calls' = [calls EXCEPT ![p] = @ \ {m}]
      /\ \A n \in Messages \ {m} : (In(n)' <=> In(n)) /\ gmail'[n] = gmail[n]
  BY <1>1, <1>2, GmailCallEffect
<1> QED
  BY <1>1, <1>3, CallStepGood DEF Creating

\* A create ends.
LEMMA EndCreateEffect ==
  ASSUME Good, NEW p \in Procs, EndCreate(p)
  PROVE  /\ Good' /\ Others(p) /\ \A m : In(m)' <=> In(m)
         /\ Creating(p) /\ at[p] = "write" /\ todo[p] = {} /\ calls[p] = {}
         /\ op'[p] \in {"idle", "check"} /\ at'[p] = None /\ rem'[p] = None /\ from'[p] = FALSE
         /\ todo'[p] = {} /\ calls'[p] = {}
<1>1. RemShape' /\ \A r \in Reminders : state[r] # "none" => state'[r] # "none" /\ was'[r] = was[r]
  BY DEF Good, Typed, EndCreate, RemShape, remVars
<1> QED
  BY <1>1, FinishGood DEF EndCreate, history, Creating

\* A request that meets a row that is gone ends.
LEMMA ThrowEffect ==
  ASSUME Good, NEW p \in Procs, Throw(p)
  PROVE  /\ Good' /\ Others(p) /\ \A m : In(m)' <=> In(m)
         /\ (Creating(p) \/ Restoring(p)) /\ at[p] = "write"
         /\ op'[p] \in {"idle", "check"} /\ at'[p] = None /\ rem'[p] = None /\ from'[p] = FALSE
         /\ todo'[p] = {} /\ calls'[p] = {}
<1>1. RemShape' /\ \A r \in Reminders : state[r] # "none" => state'[r] # "none" /\ was'[r] = was[r]
  BY DEF Good, Typed, Throw, RemShape, remVars
<1> QED
  BY <1>1, FinishGood DEF Throw, history, Creating, Restoring

\* A move ends.
LEMMA EndMoveEffect ==
  ASSUME Good, NEW p \in Procs, EndMove(p)
  PROVE  /\ Good' /\ Others(p) /\ \A m : In(m)' <=> In(m)
         /\ Moving(p) /\ at[p] = "calls"
         /\ op'[p] \in {"idle", "check"} /\ at'[p] = None /\ rem'[p] = None /\ from'[p] = FALSE
         /\ todo'[p] = {} /\ calls'[p] = {}
<1>1. RemShape' /\ \A r \in Reminders : state[r] # "none" => state'[r] # "none" /\ was'[r] = was[r]
  BY DEF Good, Typed, EndMove, RemShape, remVars
<1>2. Moving(p) /\ at[p] = "calls"
  BY DEF Good, Typed, EndMove, ProcShape, Moving
<1> QED
  BY <1>1, <1>2, FinishGood DEF EndMove, history

\* A reminder that is resolved stays one that was made.
LEMMA ResolveEffect ==
  ASSUME RemShape, NEW r \in Reminders, NEW s \in {"fired", "cancelled"}, Resolve(r, s)
  PROVE  /\ RemShape'
         /\ \A x \in Reminders : /\ state[x] # "none" => state'[x] # "none"
                                 /\ was'[x] = was[x] /\ kind'[x] = kind[x]
                                 /\ x # r => state'[x] = state[x]
         /\ state'[r] # "armed"
BY DEF Resolve, RemShape

\* A cancel or a fire ends, and resolves its reminder alone.
LEMMA ResolveStepEffect ==
  ASSUME Good, NEW p \in Procs, ResolveStep(p)
  PROVE  /\ Good' /\ Others(p) /\ \A m : In(m)' <=> In(m)
         /\ Restoring(p) /\ at[p] \in {"write", "drop"} /\ todo[p] = {} /\ calls[p] = {} /\ rem[p] \in Reminders
         /\ op'[p] \in {"idle", "check"} /\ at'[p] = None /\ rem'[p] = None /\ from'[p] = FALSE
         /\ todo'[p] = {} /\ calls'[p] = {}
         /\ \A x \in Reminders : /\ was'[x] = was[x] /\ kind'[x] = kind[x]
                                 /\ x # rem[p] => state'[x] = state[x]
         /\ state'[rem[p]] # "armed"
<1>1. Restoring(p) /\ at[p] \in {"write", "drop"} /\ todo[p] = {} /\ calls[p] = {} /\ rem[p] \in Reminders
  BY DEF ResolveStep, Restoring, Good, Typed, ProcShape
<1>2. \E s \in {"fired", "cancelled"} : Resolve(rem[p], s)
  BY DEF ResolveStep
<1>3. /\ RemShape'
      /\ \A x \in Reminders : /\ state[x] # "none" => state'[x] # "none"
                              /\ was'[x] = was[x] /\ kind'[x] = kind[x]
                              /\ x # rem[p] => state'[x] = state[x]
      /\ state'[rem[p]] # "armed"
  BY <1>1, <1>2, ResolveEffect DEF Good, Typed
<1> QED
  BY <1>1, <1>3, FinishGood DEF ResolveStep, history

\* A cancel begins: it knows where the thread was.
LEMMA StartCancelEffect ==
  ASSUME Good, NEW p \in Callers, NEW r \in Reminders, StartCancel(p, r)
  PROVE  /\ Good' /\ Others(p) /\ \A m : In(m)' <=> In(m)
         /\ op[p] = "idle" /\ at'[p] = "thread" /\ op'[p] = "cancel"
         /\ todo'[p] = {} /\ calls'[p] = {}
<1>0. p \in Procs /\ MailShape /\ FeedAgrees /\ RemShape /\ ProcFuns /\ ProcShape(p) /\ home' \subseteq rows
  BY DEF Procs, Good, Typed, MailShape, StartCancel, history
<1>1. MailShape' /\ FeedAgrees' /\ \A m : In(m)' <=> In(m)
  BY <1>0, MailSame DEF StartCancel
<1>2. ProcFuns' /\ Others(p)
  BY <1>0 DEF StartCancel, Goto, ProcFuns, Others, Steps, RemShape
<1>3. /\ op[p] = "idle" /\ op'[p] = "cancel" /\ at'[p] = "thread" /\ rem'[p] = r /\ from'[p] = was[r] /\ snap'[p] = snap[p]
      /\ todo'[p] = {} /\ calls'[p] = {} /\ state[r] = "armed"
  BY <1>0 DEF StartCancel, Goto, ProcFuns, ProcShape
<1>4. ProcShape(p)'
  BY <1>0, <1>3 DEF ProcShape, Creating, Restoring, Moving, Moves, StartCancel, remVars, mailVars
<1>5. Good'
  BY <1>0, <1>1, <1>2, <1>4, ProcStepGood DEF StartCancel, remVars, mailVars, RemShape
<1> QED
  BY <1>1, <1>2, <1>3, <1>5

\* The scheduler takes a reminder off its list.
LEMMA StartFireEffect ==
  ASSUME Good, NEW r \in Reminders, StartFire(r)
  PROVE  /\ Good' /\ Others(Tick) /\ \A m : In(m)' <=> In(m)
         /\ op[Tick] = "check" /\ op'[Tick] \in {"idle", "check", "fire"} /\ at'[Tick] \in {None, "thread"}
         /\ todo'[Tick] = {} /\ calls'[Tick] = {}
<1>0. Tick \in Procs /\ MailShape /\ FeedAgrees /\ RemShape /\ ProcFuns /\ ProcShape(Tick) /\ home' \subseteq rows
  BY DEF Procs, Good, Typed, MailShape, StartFire, history
<1>1. MailShape' /\ FeedAgrees' /\ \A m : In(m)' <=> In(m)
  BY <1>0, MailSame DEF StartFire
<1>2. op[Tick] = "check" /\ at[Tick] = None /\ rem[Tick] = None /\ todo'[Tick] = {} /\ calls'[Tick] = {} /\ snap'[Tick] = snap[Tick]
  BY <1>0 DEF StartFire, ProcShape
<1>3. CASE state[r] = "armed"
  <2>1. ProcFuns' /\ Others(Tick)
    BY <1>0, <1>3 DEF StartFire, Goto, ProcFuns, Others, Steps, RemShape
  <2>2. op'[Tick] = "fire" /\ at'[Tick] = "thread" /\ rem'[Tick] = r /\ from'[Tick] = was[r]
    BY <1>0, <1>3 DEF StartFire, Goto, ProcFuns
  <2>3. ProcShape(Tick)'
    BY <1>0, <1>2, <1>3, <2>2 DEF ProcShape, Creating, Restoring, Moving, Moves, StartFire, remVars, mailVars
  <2> QED
    BY <1>0, <1>1, <1>2, <2>1, <2>2, <2>3, ProcStepGood DEF StartFire, remVars, mailVars, RemShape
<1>4. CASE state[r] # "armed"
  <2>1. ProcFuns' /\ Others(Tick)
    BY <1>0, <1>4 DEF StartFire, ProcFuns, Others
  <2>2. op'[Tick] \in {"idle", "check"} /\ at'[Tick] = None /\ rem'[Tick] = None
    BY <1>0, <1>2, <1>4 DEF StartFire, ProcFuns
  <2>3. ProcShape(Tick)'
    BY <1>0, <1>2, <2>2 DEF ProcShape, Creating, Restoring, Moving, Moves, StartFire, remVars, mailVars
  <2> QED
    BY <1>0, <1>1, <1>2, <2>1, <2>2, <2>3, ProcStepGood DEF StartFire, remVars, mailVars, RemShape
<1> QED
  BY <1>3, <1>4

\* The scheduler lists what is due.
LEMMA ListDueEffect ==
  ASSUME Good, NEW S \in SUBSET Reminders, ListDue(S)
  PROVE  /\ Good' /\ Others(Tick) /\ \A m : In(m)' <=> In(m)
         /\ op[Tick] = "idle" /\ op'[Tick] = "check" /\ at' = at /\ todo' = todo /\ calls' = calls
<1>0. Tick \in Procs /\ MailShape /\ FeedAgrees /\ RemShape /\ ProcFuns /\ ProcShape(Tick) /\ home' \subseteq rows
  BY DEF Procs, Good, Typed, MailShape, ListDue, history
<1>1. MailShape' /\ FeedAgrees' /\ \A m : In(m)' <=> In(m)
  BY <1>0, MailSame DEF ListDue
<1>2. ProcFuns' /\ Others(Tick) /\ op[Tick] = "idle" /\ op'[Tick] = "check"
  BY <1>0 DEF ListDue, ProcFuns, Others
<1>3. ProcShape(Tick)'
  BY <1>0, <1>2 DEF ListDue, ProcShape, Creating, Restoring, Moving, Moves, remVars, mailVars
<1>4. Good'
  BY <1>0, <1>1, <1>2, <1>3, ProcStepGood DEF ListDue, remVars, mailVars, RemShape
<1> QED
  BY <1>1, <1>2, <1>4 DEF ListDue

\* A follow-up that was answered is cancelled.
LEMMA ClearRepliedEffect ==
  ASSUME Good, NEW r \in Reminders, ClearReplied(r)
  PROVE  /\ Good' /\ \A m : In(m)' <=> In(m)
         /\ \A x \in Reminders : /\ was'[x] = was[x] /\ kind'[x] = kind[x]
                                 /\ x # r => state'[x] = state[x]
         /\ state'[r] # "armed" /\ kind[r] = "follow_up"
<1>0. MailShape /\ FeedAgrees /\ RemShape /\ ProcFuns /\ home' \subseteq rows
  BY DEF Good, Typed, MailShape, ClearReplied, history
<1>1. MailShape' /\ FeedAgrees' /\ \A m : In(m)' <=> In(m)
  BY <1>0, MailSame DEF ClearReplied
<1>2. /\ RemShape'
      /\ \A x \in Reminders : /\ state[x] # "none" => state'[x] # "none"
                              /\ was'[x] = was[x] /\ kind'[x] = kind[x]
                              /\ x # r => state'[x] = state[x]
      /\ state'[r] # "armed" /\ kind[r] = "follow_up"
  BY <1>0, ResolveEffect DEF ClearReplied, Armed
<1>3. ProcFuns'
  BY <1>0 DEF ClearReplied, ProcFuns, procVars
<1>4. ASSUME NEW q \in Procs PROVE ProcShape(q)'
  BY <1>2, ProcFrame DEF Good, Typed, ClearReplied, procVars, mailVars
<1> QED
  BY <1>1, <1>2, <1>3, <1>4 DEF Good, Typed

\* After a crash nothing is under way.
LEMMA CrashEffect ==
  ASSUME Good, Crash
  PROVE  /\ Good' /\ \A m : In(m)' <=> In(m)
         /\ \A p \in Procs : op'[p] = "idle" /\ at'[p] = None /\ from'[p] = FALSE /\ todo'[p] = {} /\ calls'[p] = {}
<1>0. MailShape /\ FeedAgrees /\ RemShape /\ ProcFuns /\ home' \subseteq rows
  BY DEF Good, Typed, MailShape, Crash
<1>1. MailShape' /\ FeedAgrees' /\ \A m : In(m)' <=> In(m)
  BY <1>0, MailSame DEF Crash
<1>2. RemShape' /\ ProcFuns'
  BY <1>0 DEF Crash, RemShape, ProcFuns, remVars
<1>3. ASSUME NEW p \in Procs PROVE ProcShape(p)'
  BY DEF Crash, ProcShape, Creating, Restoring, Moving, Moves, NoRows
<1> QED
  BY <1>1, <1>2, <1>3 DEF Good, Typed, Crash

\* What a restore is to write: what it puts back, and a row it marks unread.
LEMMA ReadThreadEffect ==
  ASSUME Good, NEW p \in Procs, ReadThread(p)
  PROVE  /\ Good' /\ Others(p) /\ \A m : In(m)' <=> In(m)
         /\ Restoring(p) /\ at[p] = "thread" /\ at'[p] \in {"write", "drop"}
         /\ op'[p] = op[p] /\ rem'[p] = rem[p] /\ from'[p] = from[p]
         /\ calls'[p] \subseteq todo'[p]
         /\ \A m \in todo'[p] \ calls'[p] :
              "INBOX" \notin snap'[p][m].labels /\ m \in home \cup BeingMoved => m \in excused'
         /\ excused \subseteq excused'
         /\ rem[p] \in Armed("snooze") /\ from[p] =>
              /\ BeingSnoozed \subseteq excused'
              /\ \A m \in home \cap rows : m \in excused' \/ m \in calls'[p] \/ In(m)
<1>0. MailShape /\ FeedAgrees /\ RemShape /\ ProcFuns /\ ProcShape(p) /\ home' \subseteq rows
  BY DEF Good, Typed, MailShape, ReadThread
<1>1. MailShape' /\ FeedAgrees' /\ \A m : In(m)' <=> In(m)
  BY <1>0, MailSame DEF ReadThread
<1> DEFINE settled == /\ op[p] = "fire"
                      /\ \/ \A m \in rows : trashed[m]
                         \/ kind[rem[p]] = "follow_up" /\ HasReply(rem[p])
           unasked == settled \/ kind[rem[p]] = "follow_up"
           back == IF unasked THEN {} ELSE Restored(p, Read)
<1>2. PICK unread \in IF unasked THEN {{}} ELSE Unread(Read) :
        /\ todo' = [todo EXCEPT ![p] = back \cup unread]
        /\ calls' = [calls EXCEPT ![p] = back]
        /\ at' = [at EXCEPT ![p] = IF settled THEN "drop" ELSE "write"]
        /\ excused' = excused \cup ((unread \ back) \cap (BeingMoved \cup {m \in home : "INBOX" \notin labels[m]}))
             \cup (IF rem[p] \in Armed("snooze") /\ from[p]
                    THEN BeingSnoozed \cup {m \in home : trashed[m] \/ ("INBOX" \in labels[m] /\ ~ Settled(m))}
                    ELSE {})
  BY DEF ReadThread, Goto
<1>3. snap' = [snap EXCEPT ![p] = Read] /\ op' = op /\ rem' = rem /\ from' = from /\ arrived' = arrived
      /\ Restoring(p) /\ at[p] = "thread"
  BY DEF ReadThread, Restoring, mailVars
<1>4. unread \subseteq rows /\ back \subseteq rows /\ rows \subseteq arrived /\ rows \subseteq Messages
  BY <1>0, ReadShape DEF Unread, Restored, MailShape
<1>5. rem[p] \in Armed("snooze") /\ from[p] =>
        \A m \in home \cap rows : m \in excused' \/ m \in back \/ In(m)
  <2> SUFFICES ASSUME rem[p] \in Armed("snooze"), from[p], NEW m \in home \cap rows, m \notin excused'
               PROVE  m \in back \/ In(m)
    OBVIOUS
  <2>1. ~ trashed[m] /\ ("INBOX" \in labels[m] => Settled(m))
    BY <1>2
  <2>2. CASE "INBOX" \in labels[m]
    BY <2>1, <2>2, <1>0, InIsSettled
  <2>3. CASE "INBOX" \notin labels[m]
    <3>1. ~ unasked
      BY <2>1 DEF Armed
    <3>2. m \in DOMAIN Read /\ Read[m].labels = labels[m] /\ Read[m].trashed = trashed[m]
      BY <1>0, ReadShape
    <3>3. m \in Restored(p, Read)
      BY <2>1, <2>3, <3>2 DEF Restored
    <3> QED
      BY <3>1, <3>3
  <2> QED
    BY <2>2, <2>3
<1> HIDE DEF settled, unasked, back
<1>6. ProcFuns' /\ Others(p)
  BY <1>0, <1>2, <1>3, <1>4 DEF ProcFuns, Others, Steps
<1>7. /\ todo'[p] = back \cup unread /\ calls'[p] = back /\ at'[p] \in {"write", "drop"} /\ snap'[p] = Read
      /\ at'[p] = "drop" => settled
  BY <1>0, <1>2, <1>3 DEF ProcFuns
<1>8. at'[p] = "drop" => todo'[p] = {} /\ calls'[p] = {}
  BY <1>2, <1>7 DEF back, unasked
<1>9. DOMAIN Read = rows /\ \A m \in rows : Read[m] \in Row /\ Read[m].labels = labels[m]
  BY <1>0, ReadShape
<1>10. ProcShape(p)'
  BY <1>0, <1>1, <1>3, <1>4, <1>7, <1>8, <1>9 DEF ProcShape, Creating, Restoring, Moving, Moves, ReadThread, remVars
<1>11. Good'
  BY <1>0, <1>1, <1>3, <1>6, <1>10, ProcStepGood DEF ReadThread, remVars, RemShape
<1>12. \A m \in todo'[p] \ calls'[p] :
         "INBOX" \notin snap'[p][m].labels /\ m \in home \cup BeingMoved => m \in excused'
  BY <1>2, <1>4, <1>7, <1>9
<1>13. excused \subseteq excused' /\ (rem[p] \in Armed("snooze") /\ from[p] => BeingSnoozed \subseteq excused')
  BY <1>2
<1> QED
  BY <1>1, <1>3, <1>5, <1>6, <1>7, <1>11, <1>12, <1>13

\* A restore puts m back, in its row.
LEMMA PutBackEffect ==
  ASSUME Good, NEW p \in Procs, NEW m \in Messages, PutBack(p, m)
  PROVE  /\ Good' /\ Others(p)
         /\ Restoring(p) /\ at[p] = "write" /\ m \in todo[p] /\ m \in rows
         /\ todo'[p] = todo[p] \ {m}
         /\ \A n \in Messages \ {m} : In(n)' <=> In(n)
         /\ m \in calls[p] \/ "INBOX" \in snap[p][m].labels =>
              (In(m) => In(m)') /\ ("INBOX" \notin gmail[m] \/ In(m)')
<1>0. MailShape /\ FeedAgrees /\ ProcFuns /\ ProcShape(p)
  BY DEF Good, Typed
<1> DEFINE L == snap[p][m].labels \cup (IF m \in calls[p] THEN {"INBOX"} ELSE {})
           a == ArchivedFrom(L)
           t == trashed[m]
<1>1. /\ op[p] \in {"cancel", "fire"} /\ at[p] = "write" /\ m \in todo[p] /\ m \in rows
      /\ WriteRow(m, L, a, t)
      /\ todo' = [todo EXCEPT ![p] = @ \ {m}]
  BY DEF PutBack, NextRow, IsOldest
<1>2. L \in SUBSET Labels /\ a \in BOOLEAN /\ t \in BOOLEAN
  BY <1>0, <1>1 DEF ProcShape, Row, MailShape, ArchivedFrom, Labels
<1>3. home' \subseteq rows /\ UNCHANGED mailVars /\ arrived' = arrived
  BY <1>0 DEF PutBack, history, MailShape, mailVars
<1>4. m \in calls[p] \/ "INBOX" \in snap[p][m].labels => "INBOX" \in L
  OBVIOUS
<1> HIDE DEF L, a, t
<1>5. /\ MailShape' /\ FeedAgrees'
      /\ \A n \in Messages \ {m} : In(n)' <=> In(n)
      /\ In(m)' <=> IF Pending(m) # {} THEN In(m) ELSE "INBOX" \in L
  BY <1>0, <1>1, <1>2, <1>3, WriteRowEffect
<1>6. ~ Moving(p) /\ UNCHANGED <<remVars, op, at, rem, snap, from, calls>>
  BY <1>1 DEF PutBack, Moving, Moves
<1>7. Good' /\ Others(p) /\ todo'[p] = todo[p] \ {m}
  BY <1>1, <1>3, <1>5, <1>6, RowStepGood
<1>8. Pending(m) # {} => (In(m) <=> "INBOX" \in gmail[m])
  BY DEF In
<1> QED
  BY <1>1, <1>4, <1>5, <1>7, <1>8 DEF Restoring

\* A restore puts m back, at Gmail.
LEMMA PutBackAtGmailEffect ==
  ASSUME Good, NEW p \in Procs, NEW m \in Messages, PutBackAtGmail(p, m)
  PROVE  /\ Good' /\ Others(p)
         /\ Restoring(p) /\ at[p] = "write" /\ m \in calls[p] /\ todo[p] = {}
         /\ calls'[p] = calls[p] \ {m} /\ excused \subseteq excused'
         /\ \A n \in Messages \ {m} : (In(n)' <=> In(n)) /\ gmail'[n] = gmail[n]
         /\ m \in excused' \/ ("INBOX" \in gmail'[m] /\ IF "INBOX" \in gmail[m] THEN In(m)' <=> In(m) ELSE In(m)')
<1>0. MailShape /\ FeedAgrees /\ ProcFuns /\ ProcShape(p)
  BY DEF Good, Typed
<1> DEFINE L == gmail[m] \cup {"INBOX"}
<1>1. /\ op[p] \in {"cancel", "fire"} /\ at[p] = "write" /\ m \in calls[p] /\ todo[p] = {}
      /\ GmailCall(p, m, L)
      /\ UNCHANGED <<rowVars, home, remVars, op, at, rem, snap, from, todo>>
  BY DEF PutBackAtGmail, NextCall, IsOldest
<1>2. L \in SUBSET Labels /\ m \in arrived /\ "INBOX" \in L
  BY <1>0, <1>1 DEF ProcShape, MailShape, Labels
<1> HIDE DEF L
<1>3. /\ MailShape' /\ FeedAgrees' /\ arrived' = arrived /\ excused \subseteq excused'
      /\ calls' = [calls EXCEPT ![p] = @ \ {m}]
      /\ \A n \in Messages \ {m} : (In(n)' <=> In(n)) /\ gmail'[n] = gmail[n]
      /\ \/ m \in excused'
         \/ /\ gmail'[m] = L
            /\ "INBOX" \in gmail[m] => (In(m)' <=> In(m))
            /\ "INBOX" \notin gmail[m] => In(m)'
  BY <1>1, <1>2, GmailCallEffect
<1>4. Good' /\ Others(p) /\ calls'[p] = calls[p] \ {m}
  BY <1>1, <1>3, CallStepGood
<1> QED
  BY <1>1, <1>2, <1>3, <1>4 DEF Restoring

\* A move begins.
LEMMA StartMoveEffect ==
  ASSUME Good, NEW p \in Callers, NEW o \in Moves, NEW S \in SUBSET rows, StartMove(p, o, S)
  PROVE  /\ Good' /\ Others(p) /\ \A m : In(m)' <=> In(m)
         /\ op[p] = "idle" /\ op'[p] = o /\ at'[p] = "calls" /\ todo'[p] = S /\ calls'[p] = S
         /\ excused' = excused \cup (S \cap (BeingMoved \cup BeingSnoozed \cup BeingMarked))
         /\ home' = IF o \in {"archive", "trash"} THEN home \ S ELSE home
<1>0. p \in Procs /\ MailShape /\ FeedAgrees /\ RemShape /\ ProcFuns /\ ProcShape(p)
  BY DEF Procs, Good, Typed
<1>1. home' \subseteq rows
  BY <1>0 DEF StartMove, MailShape
<1>2. MailShape' /\ FeedAgrees' /\ \A m : In(m)' <=> In(m)
  BY <1>0, <1>1, MailSame DEF StartMove
<1>3. S \subseteq Messages /\ S \subseteq arrived /\ \A m \in S : Read[m] \in Row
  BY <1>0, ReadShape DEF MailShape
<1>4. ProcFuns' /\ Others(p)
  BY <1>0, <1>3 DEF StartMove, Goto, ProcFuns, Others, Steps, Moves
<1>5. /\ op[p] = "idle" /\ op'[p] = o /\ at'[p] = "calls" /\ todo'[p] = S /\ calls'[p] = S
      /\ snap'[p] = [m \in S |-> Read[m]]
  BY <1>0 DEF StartMove, Goto, ProcFuns
<1>6. arrived' = arrived
  BY DEF StartMove, mailVars
<1>7. ProcShape(p)'
  BY <1>3, <1>5, <1>6 DEF ProcShape, Creating, Restoring, Moving, Moves
<1>8. Good'
  BY <1>0, <1>2, <1>4, <1>6, <1>7, ProcStepGood DEF StartMove, remVars, RemShape
<1> QED
  BY <1>2, <1>4, <1>5, <1>8 DEF StartMove

\* A move changes m at Gmail.
LEMMA MoveCallEffect ==
  ASSUME Good, NEW p \in Procs, NEW m \in Messages, MoveCall(p, m)
  PROVE  /\ Good' /\ Others(p)
         /\ Moving(p) /\ m \in calls[p] /\ m \in todo[p] /\ calls'[p] = calls[p] \ {m}
         /\ excused \subseteq excused'
         /\ \A n \in Messages \ {m} : (In(n)' <=> In(n)) /\ gmail'[n] = gmail[n]
         /\ op[p] \in {"unarchive", "untrash"} /\ m \notin excused' =>
              /\ In(m) => In(m)'
              /\ op[p] = "unarchive" => "INBOX" \in gmail'[m]
              /\ "INBOX" \in gmail[m] => "INBOX" \in gmail'[m]
              /\ "INBOX" \in gmail'[m] => "INBOX" \in gmail[m] \/ In(m)'
<1>0. MailShape /\ FeedAgrees /\ ProcFuns /\ ProcShape(p)
  BY DEF Good, Typed
<1> DEFINE L == CASE op[p] = "archive"   -> gmail[m] \ {"INBOX"}
                  [] op[p] = "unarchive" -> gmail[m] \cup {"INBOX"}
                  [] op[p] = "trash"     -> (gmail[m] \ {"INBOX"}) \cup {"TRASH"}
                  [] op[p] = "untrash"   -> gmail[m] \ {"TRASH"}
<1>1. /\ op[p] \in Moves /\ m \in calls[p] /\ GmailCall(p, m, L)
      /\ UNCHANGED <<rowVars, home, remVars, op, at, rem, snap, from, todo>>
  BY DEF MoveCall, NextCall, IsOldest
<1>2. gmail[m] \in SUBSET Labels /\ m \in arrived /\ m \in todo[p]
  BY <1>0, <1>1 DEF ProcShape, MailShape, Moving
<1>3. /\ L \in SUBSET Labels
      /\ op[p] = "unarchive" => "INBOX" \in L
      /\ op[p] = "untrash" => ("INBOX" \in L <=> "INBOX" \in gmail[m])
  BY <1>1, <1>2 DEF Labels, Moves
<1> HIDE DEF L
<1>4. /\ MailShape' /\ FeedAgrees' /\ arrived' = arrived /\ excused \subseteq excused'
      /\ calls' = [calls EXCEPT ![p] = @ \ {m}]
      /\ \A n \in Messages \ {m} : (In(n)' <=> In(n)) /\ gmail'[n] = gmail[n]
      /\ \/ /\ gmail' = gmail /\ (In(m)' <=> In(m))
            /\ "INBOX" \in L => m \in excused'
         \/ /\ gmail'[m] = L
            /\ ("INBOX" \in L <=> "INBOX" \in gmail[m]) => (In(m)' <=> In(m))
            /\ ~ ("INBOX" \in L <=> "INBOX" \in gmail[m]) => (In(m)' <=> "INBOX" \in L)
  BY <1>1, <1>2, <1>3, GmailCallEffect
<1>5. Good' /\ Others(p) /\ calls'[p] = calls[p] \ {m}
  BY <1>1, <1>4, CallStepGood
<1>6. op[p] \in {"unarchive", "untrash"} /\ m \notin excused' =>
        /\ In(m) => In(m)'
        /\ op[p] = "unarchive" => "INBOX" \in gmail'[m]
        /\ "INBOX" \in gmail[m] => "INBOX" \in gmail'[m]
        /\ "INBOX" \in gmail'[m] => "INBOX" \in gmail[m] \/ In(m)'
  BY <1>3, <1>4
<1> QED
  BY <1>1, <1>2, <1>4, <1>5, <1>6 DEF Moving

\* A move writes m's row.
LEMMA MoveWriteEffect ==
  ASSUME Good, NEW p \in Procs, NEW m \in Messages, MoveWrite(p, m)
  PROVE  /\ Good' /\ Others(p)
         /\ Moving(p) /\ calls[p] = {} /\ m \in todo[p] /\ m \in rows /\ todo'[p] = todo[p] \ {m}
         /\ excused \subseteq excused'
         /\ \A n \in Messages \ {m} : In(n)' <=> In(n)
         /\ home \subseteq home' /\ home' \subseteq home \cup {m}
         /\ op[p] \in {"archive", "trash"} => home' = home
         /\ op[p] = "untrash" /\ m \notin excused' => (In(m) => In(m)') /\ (m \in home' => m \in home \/ In(m)')
         /\ op[p] = "unarchive" => (In(m) => In(m)') /\ ("INBOX" \in gmail[m] => In(m)')
<1>0. MailShape /\ FeedAgrees /\ ProcFuns /\ ProcShape(p)
  BY DEF Good, Typed
<1> DEFINE L == Moved(p, m)
           a == CASE op[p] = "archive" -> TRUE [] op[p] = "unarchive" -> FALSE [] OTHER -> archived[m]
           t == CASE op[p] = "trash" -> TRUE [] op[p] = "untrash" -> FALSE [] OTHER -> trashed[m]
<1>1. /\ op[p] \in Moves /\ calls[p] = {} /\ m \in todo[p] /\ m \in rows
      /\ WriteRow(m, L, a, t)
      /\ todo' = [todo EXCEPT ![p] = @ \ {m}]
      /\ home' = IF "INBOX" \in L /\ ~ trashed'[m] THEN home \cup {m} ELSE home
      /\ excused' = IF op[p] = "untrash" /\ (Pending(m) # {} \/ labels[m] # snap[p][m].labels)
                    THEN excused \cup {m} ELSE excused
      /\ UNCHANGED mailVars /\ UNCHANGED <<remVars, op, at, rem, snap, from, calls>>
  BY DEF MoveWrite, NextRow, IsOldest
<1>2. snap[p][m].labels \in SUBSET Labels /\ archived[m] \in BOOLEAN /\ trashed[m] \in BOOLEAN
  BY <1>0, <1>1 DEF ProcShape, Row, MailShape
<1>3. /\ L \in SUBSET Labels /\ a \in BOOLEAN /\ t \in BOOLEAN
      /\ op[p] = "unarchive" => "INBOX" \in L
      /\ op[p] = "untrash" => ("INBOX" \in snap[p][m].labels => "INBOX" \in L)
      /\ op[p] \in {"archive", "trash"} => "INBOX" \notin L
  BY <1>1, <1>2 DEF Labels, Moves, Moved
<1> HIDE DEF L, a, t
<1>4. home' \subseteq rows /\ arrived' = arrived
  BY <1>0, <1>1 DEF MailShape, mailVars
<1>5. /\ MailShape' /\ FeedAgrees'
      /\ \A n \in Messages \ {m} : In(n)' <=> In(n)
      /\ In(m)' <=> IF Pending(m) # {} THEN In(m) ELSE "INBOX" \in L
  BY <1>0, <1>1, <1>3, <1>4, WriteRowEffect
<1>6. Good' /\ Others(p) /\ todo'[p] = todo[p] \ {m}
  BY <1>1, <1>4, <1>5, RowStepGood
<1>7. In(m) <=> IF Pending(m) # {} THEN "INBOX" \in gmail[m] ELSE "INBOX" \in labels[m]
  BY DEF In
<1>8. op[p] = "untrash" /\ m \notin excused' => (In(m) => In(m)') /\ (m \in home' => m \in home \/ In(m)')
  BY <1>1, <1>3, <1>5, <1>7
<1>9. op[p] = "unarchive" => (In(m) => In(m)') /\ ("INBOX" \in gmail[m] => In(m)')
  BY <1>3, <1>5, <1>7
<1> QED
  BY <1>1, <1>3, <1>5, <1>6, <1>8, <1>9 DEF Moving

-----------------------------------------------------------------------------
Home == (home \cap rows) \ excused

Restores(p, r) == Restoring(p) /\ at[p] \in {"write", "drop"} /\ rem[p] = r

\* The snooze r brings m back: whoever restores it has still to write the row, or
\* to make the call that puts m in the inbox at Gmail.
Covers(r, m) ==
  /\ r \in Armed("snooze") /\ was[r]
  /\ \A p \in Procs : Restores(p, r) => m \in calls[p] /\ (m \in todo[p] \/ "INBOX" \notin gmail[m])

Owed(m) == In(m) \/ BetweenSnoozes \/ \E r \in Reminders : Covers(r, m)
NoneForgotten == \A m \in Home : Owed(m)

\* While a create takes messages out, there is a snooze nobody is restoring yet.
Untouched(r) == r \in Armed("snooze") /\ was[r] /\ \A p \in Procs : ~ Restores(p, r)
SafeCover == BetweenSnoozes \/ \E r \in Reminders : Untouched(r)
SnoozedExcused == \A p \in Procs : Creating(p) => todo[p] \cup calls[p] \subseteq excused
SnoozesSafe == SafeCover \/ SnoozedExcused

\* A create that is about to replace the snooze by one that brings nothing back
\* finds nothing that depends on it.
Blind(x) == at[x] = "replace" /\ rem[x] = "snooze" /\ ~ from[x]
BlindHarmless == \A x \in Procs : Blind(x) => SnoozedExcused /\ \A m \in Home : In(m)
BlindRead ==
  \A p \in Procs : at[p] \in {"replace", "insert"} /\ ~ from[p] =>
    \A m \in DOMAIN snap[p] : "INBOX" \notin snap[p][m].labels

MarksHarmless ==
  \A p \in Procs : Restoring(p) =>
    \A m \in todo[p] \ calls[p] : "INBOX" \notin snap[p][m].labels => m \notin Home
AwayStaysAway ==
  \A p \in Procs : op[p] \in {"archive", "trash"} => \A m \in todo[p] : m \notin Home

\* What a move has still to write nobody else takes out of the inbox.
LeftAlone(p, m) ==
  \A q \in Procs \ {p} :
    /\ Moving(q) => m \notin todo[q]
    /\ Creating(q) => m \notin todo[q] \cup calls[q]
    /\ Restoring(q) /\ m \in todo[q] \ calls[q] => "INBOX" \in snap[q][m].labels
MovesAlone ==
  \A p \in Procs : Moving(p) => \A m \in todo[p] \ excused :
    /\ LeftAlone(p, m)
    /\ op[p] = "unarchive" /\ m \in rows \ calls[p] => "INBOX" \in gmail[m]

LostInv ==
  /\ Good /\ NoneForgotten /\ SnoozesSafe /\ BlindHarmless /\ BlindRead
  /\ MarksHarmless /\ AwayStaysAway /\ MovesAlone

-----------------------------------------------------------------------------
\* A snooze that brings mail back stays armed, unless a restore is through with it.
SnoozesKept ==
  \A r \in Reminders : r \in Armed("snooze") /\ was[r] =>
    \/ (r \in Armed("snooze"))' /\ was'[r]
    \/ \E p \in Procs : Restores(p, r) /\ calls[p] = {}

\* Nobody begins to restore, and what a restore has to do for m it has still to do.
RestoresKept(m) ==
  \A p \in Procs, r \in Reminders : Restores(p, r)' =>
    Restores(p, r) /\ (m \in todo[p] => m \in todo'[p]) /\ (m \in calls[p] => m \in calls'[p])

\* A step of a process that does not restore leaves the restores to do what they had to.
LEMMA QuietRestores ==
  ASSUME NEW p, Others(p), ~ (Restoring(p)' /\ at'[p] \in {"write", "drop"}), NEW m
  PROVE  RestoresKept(m)
BY DEF Others, RestoresKept, Restores, Restoring

\* Only the create that is between two snoozes ends that.
LEMMA BetweenKept ==
  ASSUME NEW p, Others(p), ~ (at[p] = "insert" /\ rem[p] = "snooze" /\ from[p]), BetweenSnoozes
  PROVE  BetweenSnoozes'
BY DEF Others, BetweenSnoozes, Procs

\* A message stays owed while what it is owed by stays.
LEMMA OwedKept ==
  ASSUME NEW m, Owed(m), In(m) => In(m)', BetweenSnoozes => BetweenSnoozes', SnoozesKept, RestoresKept(m),
         "INBOX" \in gmail'[m] => "INBOX" \in gmail[m] \/ In(m)'
  PROVE  Owed(m)'
BY DEF Owed, Covers, SnoozesKept, RestoresKept

\* A snooze nobody restores stays one.
LEMMA SafeKept ==
  ASSUME SafeCover, BetweenSnoozes => BetweenSnoozes', SnoozesKept, NEW m, RestoresKept(m)
  PROVE  SafeCover'
BY DEF SafeCover, Untouched, SnoozesKept, RestoresKept

\* Such a snooze owes every message.
LEMMA SafeOwes ==
  ASSUME SafeCover', NEW m PROVE Owed(m)'
BY DEF SafeCover, Untouched, Owed, Covers

\* A step that resolves nothing keeps the snoozes.
LEMMA SameSnoozes == ASSUME UNCHANGED remVars PROVE SnoozesKept
BY DEF SnoozesKept, Armed, remVars

\* A step of p that changes no message, no reminder, and leaves p with nothing to
\* write or to call for.
LEMMA CalmStep ==
  ASSUME LostInv, NEW p \in Procs, Good', Others(p), \A m : In(m)' <=> In(m),
         UNCHANGED <<rows, home, gmail>>, excused \subseteq excused', SnoozesKept,
         todo'[p] = {}, calls'[p] = {}, at'[p] \notin {"replace", "insert", "write", "drop"},
         ~ (at[p] = "insert" /\ rem[p] = "snooze" /\ from[p])
  PROVE  LostInv'
<1>0. BetweenSnoozes => BetweenSnoozes'
  BY BetweenKept
<1>1. \A m : RestoresKept(m)
  BY QuietRestores DEF Restoring
<1>2. Home' \subseteq Home
  BY DEF Home
<1>3. NoneForgotten'
  BY <1>0, <1>1, <1>2, OwedKept DEF LostInv, NoneForgotten
<1>4. SnoozedExcused => SnoozedExcused'
  BY DEF SnoozedExcused, Creating, Others
<1>5. SnoozesSafe'
  BY <1>0, <1>1, <1>4, SafeKept DEF LostInv, SnoozesSafe
<1>6. BlindHarmless'
  BY <1>2, <1>4 DEF LostInv, BlindHarmless, Blind, Others
<1>7. BlindRead'
  BY DEF LostInv, BlindRead, Others
<1>8. MarksHarmless'
  BY <1>2 DEF LostInv, MarksHarmless, Others, Restoring
<1>9. AwayStaysAway'
  BY <1>2 DEF LostInv, AwayStaysAway, Others
<1>10. MovesAlone'
  <2> SUFFICES ASSUME NEW q \in Procs, Moving(q)', NEW m \in todo'[q] \ excused'
               PROVE  /\ LeftAlone(q, m)'
                      /\ op'[q] = "unarchive" /\ m \in rows' \ calls'[q] => "INBOX" \in gmail'[m]
    BY DEF MovesAlone
  <2>1. q # p /\ Moving(q) /\ m \in todo[q] \ excused /\ todo'[q] = todo[q] /\ calls'[q] = calls[q] /\ op'[q] = op[q]
    BY DEF Others, Moving
  <2>2. LeftAlone(q, m) /\ (op[q] = "unarchive" /\ m \in rows \ calls[q] => "INBOX" \in gmail[m])
    BY <2>1 DEF LostInv, MovesAlone
  <2> QED
    BY <2>1, <2>2 DEF LeftAlone, Others, Moving, Creating, Restoring
<1> QED
  BY <1>3, <1>5, <1>6, <1>7, <1>8, <1>9, <1>10 DEF LostInv

\* None is no step.
LEMMA NoneNoStep == \A s \in Steps : s # None
BY NoneIsNothing

\* Each action keeps the invariant: first those that begin or end something.
LEMMA StartCreateKeeps ==
  ASSUME LostInv, NEW p \in Callers, NEW k \in Kinds, StartCreate(p, k) PROVE LostInv'
<1>1. Good /\ p \in Procs /\ SnoozesKept
  BY SameSnoozes DEF LostInv, Procs, StartCreate
<1>2. at[p] = None
  BY <1>1 DEF StartCreate, Good, Typed, ProcShape
<1> QED
  BY <1>1, <1>2, StartCreateEffect, CalmStep, NoneNoStep DEF StartCreate, rowVars, mailVars, history, Steps

LEMMA EndCreateKeeps == ASSUME LostInv, NEW p \in Procs, EndCreate(p) PROVE LostInv'
<1>1. Good /\ SnoozesKept
  BY SameSnoozes DEF LostInv, EndCreate
<1> QED
  BY <1>1, EndCreateEffect, CalmStep, NoneNoStep DEF EndCreate, rowVars, mailVars, history, Steps

LEMMA ThrowKeeps == ASSUME LostInv, NEW p \in Procs, Throw(p) PROVE LostInv'
<1>1. Good /\ SnoozesKept
  BY SameSnoozes DEF LostInv, Throw
<1> QED
  BY <1>1, ThrowEffect, CalmStep, NoneNoStep DEF Throw, rowVars, mailVars, history, Steps

LEMMA EndMoveKeeps == ASSUME LostInv, NEW p \in Procs, EndMove(p) PROVE LostInv'
<1>1. Good /\ SnoozesKept
  BY SameSnoozes DEF LostInv, EndMove
<1> QED
  BY <1>1, EndMoveEffect, CalmStep, NoneNoStep DEF EndMove, rowVars, mailVars, history, Steps

LEMMA StartCancelKeeps ==
  ASSUME LostInv, NEW p \in Callers, NEW r \in Reminders, StartCancel(p, r) PROVE LostInv'
<1>1. Good /\ p \in Procs /\ SnoozesKept
  BY SameSnoozes DEF LostInv, Procs, StartCancel
<1>2. at[p] = None
  BY <1>1 DEF StartCancel, Good, Typed, ProcShape
<1> QED
  BY <1>1, <1>2, StartCancelEffect, CalmStep, NoneNoStep DEF StartCancel, rowVars, mailVars, history, Steps

LEMMA StartFireKeeps == ASSUME LostInv, NEW r \in Reminders, StartFire(r) PROVE LostInv'
<1>1. Good /\ Tick \in Procs /\ SnoozesKept
  BY SameSnoozes DEF LostInv, Procs, StartFire
<1>2. at[Tick] = None
  BY <1>1 DEF StartFire, Good, Typed, ProcShape
<1> QED
  BY <1>1, <1>2, StartFireEffect, CalmStep, NoneNoStep DEF StartFire, rowVars, mailVars, history, Steps

LEMMA ListDueKeeps == ASSUME LostInv, NEW S \in SUBSET Reminders, ListDue(S) PROVE LostInv'
<1>1. Good /\ Tick \in Procs /\ SnoozesKept
  BY SameSnoozes DEF LostInv, Procs, ListDue
<1>2. at[Tick] = None /\ todo[Tick] = {} /\ calls[Tick] = {}
  BY <1>1 DEF ListDue, Good, Typed, ProcShape
<1> QED
  BY <1>1, <1>2, ListDueEffect, CalmStep, NoneNoStep DEF ListDue, rowVars, mailVars, history, Steps

\* A restore resolves its snooze when it has put back all that it was to.
LEMMA ResolveStepKeeps == ASSUME LostInv, NEW p \in Procs, ResolveStep(p) PROVE LostInv'
<1>1. Good
  BY DEF LostInv
<1>2. SnoozesKept
  BY <1>1, ResolveStepEffect DEF SnoozesKept, Armed, Restores
<1> QED
  BY <1>1, <1>2, ResolveStepEffect, CalmStep, NoneNoStep DEF ResolveStep, rowVars, mailVars, history, Steps

-----------------------------------------------------------------------------
\* What happens to the mail, or to the reminders, beside the requests.
LEMMA OutsideStep ==
  ASSUME LostInv, Good', UNCHANGED procVars, SnoozesKept, excused \subseteq excused',
         \A m \in Home' : \/ In(m)'
                          \/ /\ m \in Home /\ (In(m) => In(m)')
                             /\ "INBOX" \in gmail'[m] => "INBOX" \in gmail[m],
         \A m \in Home' \ Home : \A p \in Procs :
           /\ Moving(p) => m \notin todo[p]
           /\ Restoring(p) /\ m \in todo[p] \ calls[p] => "INBOX" \in snap[p][m].labels,
         \A p \in Procs : op[p] = "unarchive" =>
           \A m \in (todo[p] \cap rows') \ excused' : m \in rows /\ ("INBOX" \in gmail[m] => "INBOX" \in gmail'[m])
  PROVE  LostInv'
<1>0. \A p \in Procs : /\ op'[p] = op[p] /\ at'[p] = at[p] /\ rem'[p] = rem[p] /\ from'[p] = from[p]
                       /\ snap'[p] = snap[p] /\ todo'[p] = todo[p] /\ calls'[p] = calls[p]
  BY DEF procVars
<1>1. (BetweenSnoozes' <=> BetweenSnoozes) /\ \A m : RestoresKept(m)
  BY <1>0 DEF BetweenSnoozes, RestoresKept, Restores, Restoring, Procs
<1>2. NoneForgotten'
  <2> SUFFICES ASSUME NEW m \in Home' PROVE Owed(m)'
    BY DEF NoneForgotten
  <2>1. CASE In(m)'
    BY <2>1 DEF Owed
  <2>2. CASE m \in Home /\ (In(m) => In(m)') /\ ("INBOX" \in gmail'[m] => "INBOX" \in gmail[m])
    BY <2>2, <1>1, OwedKept DEF LostInv, NoneForgotten
  <2> QED
    BY <2>1, <2>2
<1>3. SnoozedExcused => SnoozedExcused'
  BY <1>0 DEF SnoozedExcused, Creating
<1>4. SnoozesSafe'
  BY <1>1, <1>3, SafeKept DEF LostInv, SnoozesSafe
<1>5. BlindHarmless'
  BY <1>0, <1>3 DEF LostInv, BlindHarmless, Blind
<1>6. BlindRead'
  BY <1>0 DEF LostInv, BlindRead
<1>7. MarksHarmless'
  BY <1>0 DEF LostInv, MarksHarmless, Restoring
<1>8. AwayStaysAway'
  BY <1>0 DEF LostInv, AwayStaysAway, Moving, Moves
<1>9. MovesAlone'
  <2> SUFFICES ASSUME NEW q \in Procs, Moving(q)', NEW m \in todo'[q] \ excused'
               PROVE  /\ LeftAlone(q, m)'
                      /\ op'[q] = "unarchive" /\ m \in rows' \ calls'[q] => "INBOX" \in gmail'[m]
    BY DEF MovesAlone
  <2>1. Moving(q) /\ m \in todo[q] \ excused
    BY <1>0 DEF Moving
  <2>2. LeftAlone(q, m) /\ (op[q] = "unarchive" /\ m \in rows \ calls[q] => "INBOX" \in gmail[m])
    BY <2>1 DEF LostInv, MovesAlone
  <2>3. LeftAlone(q, m)'
    BY <2>2, <1>0 DEF LeftAlone, Moving, Creating, Restoring
  <2> QED
    BY <2>1, <2>2, <2>3, <1>0
<1> QED
  BY <1>2, <1>4, <1>5, <1>6, <1>7, <1>8, <1>9 DEF LostInv

\* The sync moves nothing.
LEMMA SyncApplyKeeps == ASSUME LostInv, SyncApply PROVE LostInv'
<1>1. Good /\ Good' /\ SnoozesKept /\ \A m \in rows : In(m)' <=> In(m)
  BY SyncApplyGood, SyncApplyEffect, SameSnoozes DEF LostInv, Good, Typed, SyncApply
<1>2. rows' = rows /\ gmail' = gmail /\ home' = home /\ excused' = excused /\ UNCHANGED procVars
  BY DEF SyncApply, WriteRow, rowVars, history
<1>3. Home' = Home /\ Home \subseteq rows
  BY <1>2 DEF Home
<1> QED
  BY <1>1, <1>2, <1>3, OutsideStep

\* A follow-up brings nothing back.
LEMMA ClearRepliedKeeps == ASSUME LostInv, NEW r \in Reminders, ClearReplied(r) PROVE LostInv'
<1>1. Good /\ Good' /\ SnoozesKept /\ \A m : In(m)' <=> In(m)
  BY ClearRepliedEffect DEF LostInv, SnoozesKept, Armed
<1>2. rows' = rows /\ gmail' = gmail /\ home' = home /\ excused' = excused /\ UNCHANGED procVars
  BY DEF ClearReplied, rowVars, mailVars, history
<1>3. Home' = Home
  BY <1>2 DEF Home
<1> QED
  BY <1>1, <1>2, <1>3, OutsideStep

\* A message arrives in the inbox.
LEMMA ArriveKeeps == ASSUME LostInv, NEW m \in Messages, Arrive(m) PROVE LostInv'
<1>1. Good /\ Good' /\ SnoozesKept /\ UNCHANGED procVars /\ excused' = excused
  BY ArriveGood, SameSnoozes DEF LostInv, Arrive
<1>2. /\ \A n \in rows : In(n)' <=> In(n)
      /\ m \notin rows /\ rows' = rows \cup {m} /\ home' \subseteq home \cup {m} /\ (m \in home' => In(m)')
  BY <1>1, ArriveEffect
<1>3. \A n \in rows : gmail'[n] = gmail[n]
  BY <1>1, <1>2 DEF Arrive, Good, Typed, MailShape
<1>4. \A p \in Procs : m \notin todo[p]
  BY <1>1 DEF Arrive, Good, Typed, ProcShape
<1>5. \A n \in Home' : n # m => n \in Home /\ n \in rows
  BY <1>1, <1>2 DEF Home
<1> QED
  BY <1>1, <1>2, <1>3, <1>4, <1>5, OutsideStep DEF Home

\* A message that is gone is owed nothing.
LEMMA DeleteMessageKeeps == ASSUME LostInv, NEW m \in Messages, DeleteMessage(m) PROVE LostInv'
<1>1. Good /\ Good' /\ SnoozesKept /\ UNCHANGED procVars /\ excused' = excused
  BY DeleteMessageGood, SameSnoozes DEF LostInv, DeleteMessage
<1>2. /\ \A n \in rows \ {m} : In(n)' <=> In(n)
      /\ rows' = rows \ {m} /\ home' = home \ {m}
  BY <1>1, DeleteMessageEffect
<1>3. \A n \in rows \ {m} : gmail'[n] = gmail[n]
  BY <1>1 DEF DeleteMessage, Good, Typed, MailShape
<1>4. \A n \in Home' : n \in Home /\ n \in rows \ {m}
  BY <1>1, <1>2 DEF Home
<1> QED
  BY <1>1, <1>2, <1>3, <1>4, OutsideStep

\* What the owner moves at Gmail is where it was moved to.
LEMMA MoveAtGmailKeeps ==
  ASSUME LostInv, NEW m \in Messages, NEW L \in {{}, {"INBOX"}}, MoveAtGmail(m, L) PROVE LostInv'
<1>1. Good /\ Good' /\ SnoozesKept /\ UNCHANGED procVars
  BY MoveAtGmailGood, SameSnoozes DEF LostInv, MoveAtGmail
<1>2. /\ MailShape /\ FeedAgrees /\ m \in arrived /\ m \in rows /\ L \in SUBSET Labels
      /\ AtGmail(m, L) /\ UNCHANGED rowVars /\ home' \subseteq rows
      /\ "TRASH" \notin gmail[m] /\ gmail[m] # L /\ gmail[m] \in SUBSET Labels
  BY <1>1 DEF Good, Typed, MailShape, MoveAtGmail, Labels
<1>3. /\ \A n \in Messages \ {m} : In(n)' <=> In(n)
      /\ ~ ("INBOX" \in L <=> "INBOX" \in gmail[m]) => (In(m)' <=> "INBOX" \in L)
      /\ gmail' = [gmail EXCEPT ![m] = L]
  BY <1>2, AtGmailEffect
<1>4. ~ ("INBOX" \in L <=> "INBOX" \in gmail[m])
  BY <1>2 DEF Labels
<1>5. gmail'[m] = L /\ \A n \in Messages \ {m} : gmail'[n] = gmail[n]
  BY <1>2, <1>3 DEF MailShape
<1>6. /\ rows' = rows /\ rows \subseteq Messages
      /\ home' = IF L = {} THEN home \ {m} ELSE home \cup {m}
      /\ excused' = excused \cup ({m} \cap (BeingMoved \cup BeingMarked))
  BY <1>2 DEF MoveAtGmail, rowVars, MailShape
<1>7. \A n \in Home' : IF n = m THEN In(m)' ELSE n \in Home /\ n \in Messages
  BY <1>3, <1>4, <1>6 DEF Home
<1>8. \A n \in Home' \ Home : n = m
  BY <1>7
<1>9. m \notin excused' => \A p \in Procs :
        /\ Moving(p) => m \notin todo[p]
        /\ Restoring(p) /\ m \in todo[p] \ calls[p] => "INBOX" \in snap[p][m].labels
  BY <1>6 DEF BeingMoved, InHand, BeingMarked, Moving, Restoring
<1>10. \A p \in Procs : op[p] = "unarchive" =>
         \A n \in (todo[p] \cap rows') \ excused' : n \in rows /\ ("INBOX" \in gmail[n] => "INBOX" \in gmail'[n])
  BY <1>5, <1>6, <1>9 DEF Moving, Moves
<1>11. \A n \in Home' \ Home : \A p \in Procs :
         /\ Moving(p) => n \notin todo[p]
         /\ Restoring(p) /\ n \in todo[p] \ calls[p] => "INBOX" \in snap[p][n].labels
  BY <1>8, <1>9 DEF Home
<1>12. \A n \in Home' : \/ In(n)'
                        \/ /\ n \in Home /\ (In(n) => In(n)')
                           /\ "INBOX" \in gmail'[n] => "INBOX" \in gmail[n]
  BY <1>3, <1>5, <1>7
<1>13. excused \subseteq excused'
  BY <1>6
<1> QED
  BY <1>1, <1>10, <1>11, <1>12, <1>13, OutsideStep

-----------------------------------------------------------------------------
\* A row written or a call made for m, of what p has in hand.
LEMMA WorkStep ==
  ASSUME LostInv, NEW p \in Procs, NEW m \in Messages, Good', Others(p),
         op'[p] = op[p], at'[p] = at[p], rem'[p] = rem[p], from'[p] = from[p], snap'[p] = snap[p],
         at[p] \in {"write", "calls"},
         todo'[p] \subseteq todo[p], calls'[p] \subseteq calls[p],
         todo[p] \ {m} \subseteq todo'[p], calls[p] \ {m} \subseteq calls'[p],
         Restoring(p) => todo'[p] \ calls'[p] \subseteq todo[p] \ calls[p],
         UNCHANGED <<rows, remVars>>, excused \subseteq excused',
         \A n \in Messages \ {m} : (In(n)' <=> In(n)) /\ gmail'[n] = gmail[n],
         Home' \subseteq Home \cup {m},
         m \in Home' => Owed(m)',
         m \in Home' => In(m)' \/ \A x \in Procs : ~ Blind(x),
         m \in Home' \ Home => op[p] \in {"unarchive", "untrash"} /\ LeftAlone(p, m),
         \A q \in Procs : op[q] = "unarchive" /\ m \in todo'[q] \ excused' /\ m \in rows \ calls'[q] =>
           "INBOX" \in gmail'[m]
  PROVE  LostInv'
<1>0. \A q \in Procs :
        /\ op'[q] = op[q] /\ at'[q] = at[q] /\ rem'[q] = rem[q] /\ from'[q] = from[q] /\ snap'[q] = snap[q]
        /\ todo'[q] \subseteq todo[q] /\ calls'[q] \subseteq calls[q]
        /\ todo[q] \ {m} \subseteq todo'[q] /\ calls[q] \ {m} \subseteq calls'[q]
        /\ Restoring(q) => todo'[q] \ calls'[q] \subseteq todo[q] \ calls[q]
  BY DEF Others
<1>1. (BetweenSnoozes' <=> BetweenSnoozes) /\ \A n : n # m => RestoresKept(n)
  BY <1>0 DEF BetweenSnoozes, RestoresKept, Restores, Restoring, Procs
<1>2. SnoozesKept /\ Home' \subseteq Messages
  BY SameSnoozes DEF Good, Typed, MailShape, Home
<1>3. NoneForgotten'
  <2>1. ASSUME NEW n \in Home', n # m PROVE Owed(n)'
    BY <2>1, <1>1, <1>2, OwedKept DEF LostInv, NoneForgotten
  <2> QED
    BY <2>1 DEF NoneForgotten
<1>4. SnoozedExcused => SnoozedExcused'
  BY <1>0 DEF SnoozedExcused, Creating
<1>5. SafeCover => SafeCover'
  BY <1>0, <1>1 DEF SafeCover, Untouched, Armed, Restores, Restoring, remVars
<1>6. SnoozesSafe'
  BY <1>4, <1>5 DEF LostInv, SnoozesSafe
<1>7. BlindHarmless'
  <2> SUFFICES ASSUME NEW x \in Procs, Blind(x)' PROVE SnoozedExcused' /\ \A n \in Home' : In(n)'
    BY DEF BlindHarmless
  <2>1. Blind(x)
    BY <1>0 DEF Blind
  <2>2. SnoozedExcused /\ \A n \in Home : In(n)
    BY <2>1 DEF LostInv, BlindHarmless
  <2>3. ASSUME NEW n \in Home' PROVE In(n)'
    BY <2>1, <2>2, <1>2
  <2> QED
    BY <2>2, <2>3, <1>4
<1>8. BlindRead'
  BY <1>0 DEF LostInv, BlindRead
<1>9. MarksHarmless'
  <2> SUFFICES ASSUME NEW q \in Procs, Restoring(q)', NEW n \in todo'[q] \ calls'[q],
                      "INBOX" \notin snap'[q][n].labels, n \in Home'
               PROVE  FALSE
    BY DEF MarksHarmless
  <2>1. Restoring(q) /\ n \in todo[q] \ calls[q] /\ "INBOX" \notin snap[q][n].labels
    BY <1>0 DEF Restoring
  <2>2. n \notin Home
    BY <2>1 DEF LostInv, MarksHarmless
  <2>3. n = m /\ m \in Home' \ Home
    BY <2>2
  <2> QED
    BY <2>1, <2>3 DEF LeftAlone, Restoring
<1>10. AwayStaysAway'
  <2> SUFFICES ASSUME NEW q \in Procs, op'[q] \in {"archive", "trash"}, NEW n \in todo'[q], n \in Home'
               PROVE  FALSE
    BY DEF AwayStaysAway
  <2>1. op[q] \in {"archive", "trash"} /\ n \in todo[q]
    BY <1>0
  <2>2. n \notin Home
    BY <2>1 DEF LostInv, AwayStaysAway
  <2>3. n = m /\ m \in Home' \ Home
    BY <2>2
  <2> QED
    BY <2>1, <2>3 DEF LeftAlone, Moving, Moves
<1>11. MovesAlone'
  <2> SUFFICES ASSUME NEW q \in Procs, Moving(q)', NEW n \in todo'[q] \ excused'
               PROVE  /\ LeftAlone(q, n)'
                      /\ op'[q] = "unarchive" /\ n \in rows' \ calls'[q] => "INBOX" \in gmail'[n]
    BY DEF MovesAlone
  <2>1. Moving(q) /\ n \in todo[q] \ excused
    BY <1>0 DEF Moving
  <2>2. LeftAlone(q, n) /\ (op[q] = "unarchive" /\ n \in rows \ calls[q] => "INBOX" \in gmail[n])
    BY <2>1 DEF LostInv, MovesAlone
  <2>3. LeftAlone(q, n)'
    <3>1. ASSUME NEW x \in Procs \ {q} PROVE Moving(x)' => n \notin todo'[x]
      BY <3>1, <2>2, <1>0 DEF LeftAlone, Moving
    <3>2. ASSUME NEW x \in Procs \ {q} PROVE Creating(x)' => n \notin todo'[x] \cup calls'[x]
      BY <3>2, <2>2, <1>0 DEF LeftAlone, Creating
    <3>3. ASSUME NEW x \in Procs \ {q}, Restoring(x)', n \in todo'[x] \ calls'[x] PROVE "INBOX" \in snap'[x][n].labels
      BY <3>3, <2>2, <1>0 DEF LeftAlone, Restoring
    <3> QED
      BY <3>1, <3>2, <3>3 DEF LeftAlone
  <2>4. CASE n # m
    <3>1. n \in Messages
      BY DEF Good, Typed, ProcFuns
    <3> QED
      BY <3>1, <2>1, <2>2, <2>3, <2>4, <1>0
  <2>5. CASE n = m
    BY <2>1, <2>3, <2>5, <1>0
  <2> QED
    BY <2>4, <2>5
<1> QED
  BY <1>3, <1>6, <1>7, <1>8, <1>9, <1>10, <1>11 DEF LostInv

\* While p goes on with what it has in hand, a snooze nobody restores stays one.
LEMMA SafeStays ==
  ASSUME NEW p \in Procs, Others(p), op'[p] = op[p], at'[p] = at[p], rem'[p] = rem[p], from'[p] = from[p],
         UNCHANGED remVars, SafeCover
  PROVE  SafeCover'
<1>1. \A q \in Procs : op'[q] = op[q] /\ at'[q] = at[q] /\ rem'[q] = rem[q] /\ from'[q] = from[q]
  BY DEF Others
<1> QED
  BY <1>1 DEF SafeCover, BetweenSnoozes, Untouched, Armed, Restores, Restoring, remVars, Procs

\* What a create takes out is owed by a snooze, or excused.
LEMMA TakeOutKeeps ==
  ASSUME LostInv, NEW p \in Procs, NEW m \in Messages, TakeOut(p, m) PROVE LostInv'
<1>1. /\ Good' /\ Others(p)
      /\ Creating(p) /\ at[p] = "write" /\ m \in todo[p] /\ m \in rows
      /\ todo'[p] = todo[p] \ {m}
      /\ \A n \in Messages \ {m} : In(n)' <=> In(n)
  BY TakeOutEffect DEF LostInv
<1>2. /\ UNCHANGED <<rows, home, gmail, excused, remVars, op, at, rem, snap, from, calls>>
      /\ Home' = Home
  BY DEF TakeOut, WriteRow, mailVars, history, Home
<1>3. m \in Home => ~ SnoozedExcused
  BY <1>1 DEF SnoozedExcused, Home
<1>4. m \in Home' => Owed(m)'
  BY <1>1, <1>2, <1>3, SafeStays, SafeOwes DEF LostInv, SnoozesSafe
<1>5. m \in Home' => \A x \in Procs : ~ Blind(x)
  BY <1>2, <1>3 DEF LostInv, BlindHarmless
<1>6. \A q \in Procs : op[q] = "unarchive" /\ m \in todo'[q] \ excused' /\ m \in rows \ calls'[q] =>
        "INBOX" \in gmail'[m]
  BY <1>1, <1>2 DEF LostInv, MovesAlone, Moving, Moves, Others, Creating
<1>7. ~ Restoring(p)
  BY <1>1 DEF Restoring, Creating
<1> QED
  BY <1>1, <1>2, <1>4, <1>5, <1>6, <1>7, WorkStep

\* The same at Gmail.
LEMMA TakeOutAtGmailKeeps ==
  ASSUME LostInv, NEW p \in Procs, NEW m \in Messages, TakeOutAtGmail(p, m) PROVE LostInv'
<1>1. /\ Good' /\ Others(p)
      /\ Creating(p) /\ at[p] = "write" /\ m \in calls[p]
      /\ calls'[p] = calls[p] \ {m} /\ excused \subseteq excused'
      /\ \A n \in Messages \ {m} : (In(n)' <=> In(n)) /\ gmail'[n] = gmail[n]
  BY TakeOutAtGmailEffect DEF LostInv
<1>2. UNCHANGED <<rows, home, remVars, op, at, rem, snap, from, todo>>
  BY DEF TakeOutAtGmail, rowVars
<1>3. Home' \subseteq Home
  BY <1>1, <1>2 DEF Home
<1>4. m \in Home => ~ SnoozedExcused
  BY <1>1 DEF SnoozedExcused, Home
<1>5. m \in Home' => Owed(m)'
  BY <1>1, <1>2, <1>3, <1>4, SafeStays, SafeOwes DEF LostInv, SnoozesSafe
<1>6. m \in Home' => \A x \in Procs : ~ Blind(x)
  BY <1>3, <1>4 DEF LostInv, BlindHarmless
<1>7. \A q \in Procs : op[q] = "unarchive" => q # p /\ (m \in todo[q] => m \in excused)
  BY <1>1 DEF LostInv, MovesAlone, LeftAlone, Moving, Moves, Creating
<1>8. ~ Restoring(p)
  BY <1>1 DEF Restoring, Creating
<1> QED
  BY <1>1, <1>2, <1>3, <1>5, <1>6, <1>7, <1>8, WorkStep

\* A restore that writes a row of the inbox writes INBOX, so that m is back, or its call is still to come.
LEMMA PutBackKeeps ==
  ASSUME LostInv, NEW p \in Procs, NEW m \in Messages, PutBack(p, m) PROVE LostInv'
<1>1. /\ Good' /\ Others(p)
      /\ Restoring(p) /\ at[p] = "write" /\ m \in todo[p] /\ m \in rows
      /\ todo'[p] = todo[p] \ {m}
      /\ \A n \in Messages \ {m} : In(n)' <=> In(n)
      /\ m \in calls[p] \/ "INBOX" \in snap[p][m].labels =>
           (In(m) => In(m)') /\ ("INBOX" \notin gmail[m] \/ In(m)')
  BY PutBackEffect DEF LostInv
<1>2. /\ UNCHANGED <<rows, home, gmail, excused, remVars, op, at, rem, snap, from, calls>>
      /\ Home' = Home
  BY DEF PutBack, WriteRow, mailVars, history, Home
<1>3. m \in Home => m \in calls[p] \/ "INBOX" \in snap[p][m].labels
  BY <1>1 DEF LostInv, MarksHarmless
<1>4. m \in Home => (In(m) => In(m)') /\ ("INBOX" \notin gmail[m] \/ In(m)')
  BY <1>1, <1>3
<1>5. m \in Home' => Owed(m)'
  <2> SUFFICES ASSUME m \in Home, ~ In(m)' PROVE Owed(m)'
    BY <1>2 DEF Owed
  <2>1. ~ In(m) /\ "INBOX" \notin gmail[m] /\ Owed(m)
    BY <1>4 DEF LostInv, NoneForgotten
  <2>2. CASE BetweenSnoozes
    <3>1. ~ (at[p] = "insert" /\ rem[p] = "snooze" /\ from[p])
      BY <1>1
    <3> QED
      BY <2>2, <3>1, <1>1, BetweenKept DEF Owed
  <2>3. ASSUME NEW r \in Reminders, Covers(r, m) PROVE Covers(r, m)'
    BY <2>1, <2>3, <1>1, <1>2 DEF Covers, Armed, Restores, Restoring, remVars, Others
  <2> QED
    BY <2>1, <2>2, <2>3 DEF Owed
<1>6. m \in Home' => In(m)' \/ \A x \in Procs : ~ Blind(x)
  BY <1>2, <1>4 DEF LostInv, BlindHarmless
<1>7. \A q \in Procs : op[q] = "unarchive" /\ m \in todo'[q] \ excused' /\ m \in rows \ calls'[q] =>
        "INBOX" \in gmail'[m]
  BY <1>1, <1>2 DEF LostInv, MovesAlone, Moving, Moves, Others, Restoring
<1> QED
  BY <1>1, <1>2, <1>5, <1>6, <1>7, WorkStep

\* The call puts m in the inbox, or is excused.
LEMMA PutBackAtGmailKeeps ==
  ASSUME LostInv, NEW p \in Procs, NEW m \in Messages, PutBackAtGmail(p, m) PROVE LostInv'
<1>1. /\ Good' /\ Others(p)
      /\ Restoring(p) /\ at[p] = "write" /\ m \in calls[p] /\ todo[p] = {}
      /\ calls'[p] = calls[p] \ {m} /\ excused \subseteq excused'
      /\ \A n \in Messages \ {m} : (In(n)' <=> In(n)) /\ gmail'[n] = gmail[n]
      /\ m \in excused' \/ ("INBOX" \in gmail'[m] /\ IF "INBOX" \in gmail[m] THEN In(m)' <=> In(m) ELSE In(m)')
  BY PutBackAtGmailEffect DEF LostInv
<1>2. UNCHANGED <<rows, home, remVars, op, at, rem, snap, from, todo>>
  BY DEF PutBackAtGmail, rowVars
<1>3. Home' \subseteq Home /\ (m \in Home' => m \notin excused')
  BY <1>1, <1>2 DEF Home
<1>4. m \in Home' => Owed(m)'
  <2> SUFFICES ASSUME m \in Home', ~ In(m)' PROVE Owed(m)'
    BY DEF Owed
  <2>1. ~ In(m) /\ "INBOX" \in gmail[m] /\ Owed(m)
    BY <1>1, <1>3 DEF LostInv, NoneForgotten
  <2>2. CASE BetweenSnoozes
    <3>1. ~ (at[p] = "insert" /\ rem[p] = "snooze" /\ from[p])
      BY <1>1
    <3> QED
      BY <2>2, <3>1, <1>1, BetweenKept DEF Owed
  <2>3. ASSUME NEW r \in Reminders, Covers(r, m) PROVE Covers(r, m)'
    <3>1. ~ Restores(p, r)
      BY <2>1, <2>3, <1>1 DEF Covers
    <3>2. \A q \in Procs : Restores(q, r)' => q # p /\ Restores(q, r)
      BY <3>1, <1>1, <1>2 DEF Restores, Restoring, Others
    <3>3. \A q \in Procs : Restores(q, r)' => m \in calls'[q] /\ m \in todo'[q]
      BY <3>2, <2>1, <2>3, <1>1 DEF Covers, Others
    <3> QED
      BY <3>3, <2>3, <1>2 DEF Covers, Armed, remVars
  <2> QED
    BY <2>1, <2>2, <2>3 DEF Owed
<1>5. m \in Home' => In(m)' \/ \A x \in Procs : ~ Blind(x)
  BY <1>1, <1>3 DEF LostInv, BlindHarmless
<1>6. \A q \in Procs : op[q] = "unarchive" /\ m \in todo'[q] \ excused' /\ m \in rows \ calls'[q] =>
        "INBOX" \in gmail'[m]
  BY <1>1
<1>7. todo'[p] \ calls'[p] \subseteq todo[p] \ calls[p]
  BY <1>1, <1>2
<1> QED
  BY <1>1, <1>2, <1>3, <1>4, <1>5, <1>6, <1>7, WorkStep

\* A move takes out what is no longer home, and puts in what nobody else has in hand.
LEMMA MoveCallKeeps ==
  ASSUME LostInv, NEW p \in Procs, NEW m \in Messages, MoveCall(p, m) PROVE LostInv'
<1>1. /\ Good' /\ Others(p)
      /\ Moving(p) /\ m \in calls[p] /\ m \in todo[p] /\ calls'[p] = calls[p] \ {m}
      /\ excused \subseteq excused'
      /\ \A n \in Messages \ {m} : (In(n)' <=> In(n)) /\ gmail'[n] = gmail[n]
      /\ op[p] \in {"unarchive", "untrash"} /\ m \notin excused' =>
           /\ In(m) => In(m)'
           /\ op[p] = "unarchive" => "INBOX" \in gmail'[m]
           /\ "INBOX" \in gmail[m] => "INBOX" \in gmail'[m]
           /\ "INBOX" \in gmail'[m] => "INBOX" \in gmail[m] \/ In(m)'
  BY MoveCallEffect DEF LostInv
<1>2. UNCHANGED <<rows, home, remVars, op, at, rem, snap, from, todo>>
  BY DEF MoveCall, rowVars
<1>3. Home' \subseteq Home /\ (m \in Home' => m \notin excused') /\ at[p] = "calls" /\ ~ Restoring(p)
  BY <1>1, <1>2 DEF Home, LostInv, Good, Typed, ProcShape, Moving, Restoring, Moves
<1>4. m \in Home' => op[p] \in {"unarchive", "untrash"}
  BY <1>1, <1>3 DEF LostInv, AwayStaysAway, Moving, Moves
<1>5. m \in Home' => Owed(m)'
  <2> SUFFICES ASSUME m \in Home' PROVE Owed(m)'
    OBVIOUS
  <2>1. (In(m) => In(m)') /\ ("INBOX" \in gmail'[m] => "INBOX" \in gmail[m] \/ In(m)') /\ Owed(m)
    BY <1>1, <1>3, <1>4 DEF LostInv, NoneForgotten
  <2>2. (BetweenSnoozes => BetweenSnoozes') /\ SnoozesKept /\ RestoresKept(m)
    <3>1. ~ (at[p] = "insert" /\ rem[p] = "snooze" /\ from[p]) /\ ~ Restoring(p)'
      BY <1>2, <1>3 DEF Restoring
    <3> QED
      BY <3>1, <1>1, <1>2, BetweenKept, SameSnoozes, QuietRestores
  <2> QED
    BY <2>1, <2>2, OwedKept
<1>6. m \in Home' => In(m)' \/ \A x \in Procs : ~ Blind(x)
  BY <1>1, <1>3, <1>4 DEF LostInv, BlindHarmless
<1>7. \A q \in Procs : op[q] = "unarchive" /\ m \in todo'[q] \ excused' /\ m \in rows \ calls'[q] =>
        "INBOX" \in gmail'[m]
  <2> SUFFICES ASSUME NEW q \in Procs, op[q] = "unarchive", m \in todo'[q] \ excused'
               PROVE  "INBOX" \in gmail'[m]
    OBVIOUS
  <2>1. Moving(q) /\ m \in todo[q] \ excused
    BY <1>1, <1>2 DEF Moving, Moves
  <2>2. q = p
    BY <2>1, <1>1 DEF LostInv, MovesAlone, LeftAlone
  <2> QED
    BY <2>2, <1>1
<1> QED
  BY <1>1, <1>2, <1>3, <1>5, <1>6, <1>7, WorkStep

\* An unarchive finds INBOX at Gmail; what an untrash puts in the inbox is home again.
LEMMA MoveWriteKeeps ==
  ASSUME LostInv, NEW p \in Procs, NEW m \in Messages, MoveWrite(p, m) PROVE LostInv'
<1>1. /\ Good' /\ Others(p)
      /\ Moving(p) /\ calls[p] = {} /\ m \in todo[p] /\ m \in rows /\ todo'[p] = todo[p] \ {m}
      /\ excused \subseteq excused'
      /\ \A n \in Messages \ {m} : In(n)' <=> In(n)
      /\ home \subseteq home' /\ home' \subseteq home \cup {m}
      /\ op[p] \in {"archive", "trash"} => home' = home
      /\ op[p] = "untrash" /\ m \notin excused' => (In(m) => In(m)') /\ (m \in home' => m \in home \/ In(m)')
      /\ op[p] = "unarchive" => (In(m) => In(m)') /\ ("INBOX" \in gmail[m] => In(m)')
  BY MoveWriteEffect DEF LostInv
<1>2. UNCHANGED <<rows, gmail, remVars, op, at, rem, snap, from, calls>>
  BY DEF MoveWrite, WriteRow, mailVars
<1>3. /\ at[p] = "calls" /\ ~ Restoring(p)
      /\ Home' \subseteq Home \cup {m} /\ (m \in Home' => m \notin excused')
  BY <1>1, <1>2 DEF Home, LostInv, Good, Typed, ProcShape, Moving, Restoring, Moves
<1>4. m \in Home' => op[p] \in {"unarchive", "untrash"}
  <2>1. op[p] \in {"archive", "trash"} => m \notin Home
    BY <1>1 DEF LostInv, AwayStaysAway
  <2> QED
    BY <2>1, <1>1, <1>2 DEF Home, Moving, Moves
<1>5. m \in Home' => \/ In(m)'
                     \/ m \in Home /\ (In(m) => In(m)')
  <2> SUFFICES ASSUME m \in Home' PROVE In(m)' \/ (m \in Home /\ (In(m) => In(m)'))
    OBVIOUS
  <2>1. CASE op[p] = "unarchive"
    <3>1. "INBOX" \in gmail[m]
      BY <2>1, <1>1, <1>3 DEF LostInv, MovesAlone
    <3> QED
      BY <3>1, <2>1, <1>1
  <2>2. CASE op[p] = "untrash"
    BY <2>2, <1>1, <1>2, <1>3 DEF Home
  <2> QED
    BY <2>1, <2>2, <1>4
<1>6. m \in Home' => Owed(m)'
  <2> SUFFICES ASSUME m \in Home, In(m) => In(m)' PROVE Owed(m)'
    BY <1>5 DEF Owed
  <2>1. Owed(m)
    BY DEF LostInv, NoneForgotten
  <2>2. (BetweenSnoozes => BetweenSnoozes') /\ SnoozesKept /\ RestoresKept(m)
    <3>1. ~ (at[p] = "insert" /\ rem[p] = "snooze" /\ from[p]) /\ ~ Restoring(p)'
      BY <1>2, <1>3 DEF Restoring
    <3> QED
      BY <3>1, <1>1, <1>2, BetweenKept, SameSnoozes, QuietRestores
  <2> QED
    BY <2>1, <2>2, <1>2, OwedKept
<1>7. m \in Home' => In(m)' \/ \A x \in Procs : ~ Blind(x)
  BY <1>5 DEF LostInv, BlindHarmless
<1>8. m \in todo[p] \ excused => LeftAlone(p, m)
  BY <1>1 DEF LostInv, MovesAlone
<1>9. m \in Home' \ Home => op[p] \in {"unarchive", "untrash"} /\ LeftAlone(p, m)
  BY <1>1, <1>3, <1>4, <1>8
<1>10. \A q \in Procs : op[q] = "unarchive" /\ m \in todo'[q] \ excused' /\ m \in rows \ calls'[q] =>
         "INBOX" \in gmail'[m]
  BY <1>1, <1>2 DEF LostInv, MovesAlone, Moving, Moves, Others
<1> QED
  BY <1>1, <1>2, <1>3, <1>6, <1>7, <1>9, <1>10, WorkStep

-----------------------------------------------------------------------------
\* A step of p that changes no mail: what p now has in hand must not cross what
\* the others have.
LEMMA PlanStep ==
  ASSUME LostInv, NEW p \in Procs, Good', Others(p),
         UNCHANGED <<rows, gmail>>, Home' \subseteq Home, excused \subseteq excused',
         NoneForgotten', SnoozesSafe', BlindHarmless', BlindRead',
         Restoring(p)' => \A m \in todo'[p] \ calls'[p] : "INBOX" \notin snap'[p][m].labels => m \notin Home',
         op'[p] \in {"archive", "trash"} => \A m \in todo'[p] : m \notin Home',
         Moving(p)' => \A m \in todo'[p] \ excused' : m \in calls'[p] /\ LeftAlone(p, m)',
         \A q \in Procs \ {p} : Moving(q) => \A m \in todo[q] \ excused' :
           /\ Moving(p)' => m \notin todo'[p]
           /\ Creating(p)' => m \notin todo'[p] \cup calls'[p]
           /\ Restoring(p)' /\ m \in todo'[p] \ calls'[p] => "INBOX" \in snap'[p][m].labels
  PROVE  LostInv'
<1>1. MarksHarmless'
  BY DEF LostInv, MarksHarmless, Others, Restoring
<1>2. AwayStaysAway'
  BY DEF LostInv, AwayStaysAway, Others
<1>3. MovesAlone'
  <2> SUFFICES ASSUME NEW q \in Procs, Moving(q)', NEW m \in todo'[q] \ excused'
               PROVE  /\ LeftAlone(q, m)'
                      /\ op'[q] = "unarchive" /\ m \in rows' \ calls'[q] => "INBOX" \in gmail'[m]
    BY DEF MovesAlone
  <2>1. CASE q = p
    BY <2>1
  <2>2. CASE q # p
    <3>1. Moving(q) /\ m \in todo[q] \ excused /\ op'[q] = op[q] /\ calls'[q] = calls[q] /\ todo'[q] = todo[q]
      BY <2>2 DEF Others, Moving
    <3>2. LeftAlone(q, m) /\ (op[q] = "unarchive" /\ m \in rows \ calls[q] => "INBOX" \in gmail[m])
      BY <3>1 DEF LostInv, MovesAlone
    <3>3. LeftAlone(q, m)'
      BY <2>2, <3>1, <3>2 DEF LeftAlone, Others, Moving, Creating, Restoring
    <3> QED
      BY <3>1, <3>2, <3>3
  <2> QED
    BY <2>1, <2>2
<1> QED
  BY <1>1, <1>2, <1>3 DEF LostInv

\* What a quiet step of p leaves as it was.
LEMMA QuietStep ==
  ASSUME LostInv, NEW p \in Procs, Others(p), \A m : In(m)' <=> In(m), UNCHANGED gmail,
         Home' \subseteq Home, SnoozesKept,
         ~ (at[p] = "insert" /\ rem[p] = "snooze" /\ from[p]),
         ~ (Restoring(p)' /\ at'[p] \in {"write", "drop"})
  PROVE  NoneForgotten' /\ (SafeCover => SafeCover')
<1>1. BetweenSnoozes => BetweenSnoozes'
  BY BetweenKept
<1>2. \A m : RestoresKept(m)
  BY QuietRestores
<1>3. NoneForgotten'
  BY <1>1, <1>2, OwedKept DEF LostInv, NoneForgotten
<1> QED
  BY <1>1, <1>2, <1>3, SafeKept

\* When everything being snoozed is excused, so is what any create has in hand.
LEMMA AllSnoozed ==
  ASSUME (BeingSnoozed \subseteq excused)' PROVE SnoozedExcused'
<1>1. ASSUME NEW q \in Procs, Creating(q)' PROVE todo'[q] \cup calls'[q] \subseteq BeingSnoozed'
  BY <1>1 DEF Creating, BeingSnoozed, InHand
<1> QED
  BY <1>1 DEF SnoozedExcused

\* Where the thread was: without a snooze that says, no mail depends on one.
LEMMA PriorKeeps == ASSUME LostInv, NEW p \in Procs, Prior(p) PROVE LostInv'
<1>0. Good /\ MailShape /\ FeedAgrees /\ RemShape /\ ProcFuns /\ ProcShape(p)
  BY DEF LostInv, Good, Typed
<1>1. Good' /\ Others(p) /\ \A m : In(m)' <=> In(m)
  BY <1>0, PriorGood, MailSame DEF Prior, MailShape
<1>2. /\ Creating(p) /\ at[p] = "prior" /\ op' = op /\ at'[p] = "replace" /\ rem' = rem /\ snap' = snap
      /\ todo' = todo /\ calls' = calls /\ todo[p] = {} /\ calls[p] = {}
      /\ UNCHANGED <<rows, gmail, home, remVars>> /\ excused \subseteq excused'
  BY <1>0 DEF Prior, Goto, Creating, ProcFuns, ProcShape, rowVars, mailVars
<1>3. PICK prior \in IF {was[r] : r \in Armed(rem[p])} = {} THEN {FALSE} ELSE {was[r] : r \in Armed(rem[p])} :
        /\ from' = [from EXCEPT ![p] = prior \/ \E m \in DOMAIN snap[p] : "INBOX" \in snap[p][m].labels]
        /\ excused' = IF rem[p] = "snooze" /\ (BetweenSnoozes \/ prior # (TRUE \in {was[r] : r \in Armed(rem[p])}))
                       THEN excused \cup home \cup BeingSnoozed ELSE excused
  BY DEF Prior
<1>4. from'[p] <=> prior \/ \E m \in DOMAIN snap[p] : "INBOX" \in snap[p][m].labels
  BY <1>0, <1>3 DEF ProcFuns
<1>5. Home' \subseteq Home
  BY <1>2 DEF Home
<1>6. NoneForgotten' /\ (SafeCover => SafeCover')
  <2>1. SnoozesKept /\ ~ Restoring(p)'
    BY <1>2, SameSnoozes DEF Creating, Restoring
  <2> QED
    BY <1>1, <1>2, <1>5, <2>1, QuietStep
<1>7. SnoozedExcused => SnoozedExcused'
  BY <1>2 DEF SnoozedExcused, Creating
<1>8. SnoozesSafe'
  BY <1>6, <1>7 DEF LostInv, SnoozesSafe
<1>9. ASSUME Blind(p)' PROVE SnoozedExcused' /\ \A m \in Home' : In(m)'
  <2>1. rem[p] = "snooze" /\ ~ from'[p] /\ prior = FALSE
    BY <1>0, <1>2, <1>3, <1>4, <1>9 DEF Blind, RemShape, Armed
  <2>2. CASE BetweenSnoozes \/ TRUE \in {was[r] : r \in Armed("snooze")}
    <3>1. excused' = excused \cup home \cup BeingSnoozed
      BY <1>3, <2>1, <2>2
    <3>2. Home' = {} /\ BeingSnoozed' \subseteq excused'
      BY <3>1, <1>2 DEF Home, BeingSnoozed, InHand
    <3> QED
      BY <3>2, AllSnoozed
  <2>3. CASE ~ BetweenSnoozes /\ TRUE \notin {was[r] : r \in Armed("snooze")}
    <3>1. \A r \in Reminders : ~ (r \in Armed("snooze") /\ was[r])
      BY <1>0, <2>3 DEF RemShape
    <3>2. ~ SafeCover /\ \A m : Owed(m) => In(m)
      BY <2>3, <3>1 DEF SafeCover, Untouched, Owed, Covers
    <3> QED
      BY <3>2, <1>1, <1>5, <1>7 DEF LostInv, NoneForgotten, SnoozesSafe
  <2> QED
    BY <2>2, <2>3
<1>10. BlindHarmless'
  BY <1>1, <1>5, <1>7, <1>9 DEF LostInv, BlindHarmless, Blind, Others
<1>11. BlindRead'
  BY <1>1, <1>2, <1>4 DEF LostInv, BlindRead, Others
<1>12. ~ Restoring(p)' /\ ~ Moving(p)' /\ op'[p] \notin {"archive", "trash"}
  BY <1>2 DEF Creating, Restoring, Moving, Moves
<1> QED
  BY <1>1, <1>2, <1>5, <1>6, <1>8, <1>10, <1>11, <1>12, PlanStep

\* The create keeps in hand where the thread was, or nothing depends on it.
LEMMA ReplaceKeeps == ASSUME LostInv, NEW p \in Procs, Replace(p) PROVE LostInv'
<1>0. Good /\ MailShape /\ FeedAgrees /\ RemShape /\ ProcFuns /\ ProcShape(p)
  BY DEF LostInv, Good, Typed
<1>1. Good' /\ Others(p) /\ \A m : In(m)' <=> In(m)
  BY <1>0, ReplaceGood, MailSame DEF Replace, MailShape, history
<1>2. /\ Creating(p) /\ p \in Callers /\ rem[p] \in Kinds /\ at[p] = "replace"
      /\ op' = op /\ at'[p] = "insert" /\ rem' = rem /\ snap' = snap /\ from' = from
      /\ todo' = todo /\ calls' = calls /\ todo[p] = {} /\ calls[p] = {}
      /\ UNCHANGED <<rows, gmail, home, excused>> /\ Home' = Home
  BY <1>0 DEF Replace, Goto, Creating, ProcFuns, ProcShape, rowVars, mailVars, history, Home
<1>3. SnoozedExcused => SnoozedExcused'
  BY <1>2 DEF SnoozedExcused, Creating
<1>4. NoneForgotten' /\ SnoozesSafe'
  <2>1. CASE rem[p] = "follow_up"
    <3>1. SnoozesKept /\ ~ Restoring(p)'
      BY <1>0, <1>2, <2>1 DEF Replace, SnoozesKept, Armed, RemShape, Creating, Restoring
    <3>2. NoneForgotten' /\ (SafeCover => SafeCover')
      BY <1>1, <1>2, <3>1, QuietStep
    <3> QED
      BY <3>2, <1>3 DEF LostInv, SnoozesSafe
  <2>2. CASE rem[p] = "snooze" /\ from[p]
    <3>1. SafeCover'
      BY <1>2, <2>2 DEF SafeCover, BetweenSnoozes
    <3> QED
      BY <3>1, SafeOwes DEF NoneForgotten, SnoozesSafe
  <2>3. CASE rem[p] = "snooze" /\ ~ from[p]
    <3>1. SnoozedExcused /\ \A m \in Home : In(m)
      BY <1>2, <2>3 DEF LostInv, BlindHarmless, Blind
    <3> QED
      BY <3>1, <1>1, <1>2, <1>3 DEF NoneForgotten, SnoozesSafe, Owed
  <2> QED
    BY <2>1, <2>2, <2>3, <1>2 DEF Kinds
<1>5. BlindHarmless'
  BY <1>1, <1>2, <1>3 DEF LostInv, BlindHarmless, Blind, Others
<1>6. BlindRead'
  BY <1>1, <1>2 DEF LostInv, BlindRead, Others
<1>7. ~ Restoring(p)' /\ ~ Moving(p)' /\ op'[p] \notin {"archive", "trash"}
  BY <1>2 DEF Creating, Restoring, Moving, Moves
<1> QED
  BY <1>1, <1>2, <1>4, <1>5, <1>6, <1>7, PlanStep

\* The new snooze owes what it takes out, unless another create has looked before.
LEMMA InsertKeeps ==
  ASSUME LostInv, NEW p \in Procs, NEW r \in Reminders, Insert(p, r) PROVE LostInv'
<1>0. Good /\ RemShape /\ ProcFuns /\ \A q \in Procs : ProcShape(q)
  BY DEF LostInv, Good, Typed
<1>1. /\ Good' /\ Others(p)
      /\ Creating(p) /\ p \in Callers /\ at[p] = "insert" /\ rem[p] \in Kinds
      /\ op'[p] = op[p] /\ at'[p] = "write" /\ rem'[p] = rem[p] /\ from'[p] = FALSE
      /\ todo'[p] = Targets(p) /\ calls'[p] = Targets(p)
      /\ state[r] = "none" /\ state'[r] = "armed" /\ kind'[r] = rem[p] /\ was'[r] = from[p]
      /\ \A x \in Reminders \ {r} : state'[x] = state[x] /\ kind'[x] = kind[x] /\ was'[x] = was[x]
      /\ \A m : In(m)' <=> In(m)
  BY <1>0, InsertEffect
<1>2. /\ UNCHANGED <<rows, gmail, home>> /\ excused \subseteq excused'
      /\ excused' = excused \cup (Targets(p) \cap BeingMoved)
           \cup (IF rem[p] = "snooze" /\ from[p] /\ Misled(p) THEN home \cup BeingSnoozed \cup Targets(p) ELSE {})
  BY DEF Insert, Targets, rowVars, mailVars
<1>3. Home' \subseteq Home
  BY <1>2 DEF Home
<1>4. ~ Restoring(p)' /\ ~ Moving(p)' /\ op'[p] \notin {"archive", "trash"}
  BY <1>1 DEF Creating, Restoring, Moving, Moves
<1>5. NoneForgotten' /\ SnoozesSafe' /\ BlindHarmless'
  <2>1. CASE rem[p] = "snooze" /\ from[p]
    <3>1. \A q \in Procs : ~ Restores(q, r)'
      <4> SUFFICES ASSUME NEW q \in Procs, Restores(q, r)' PROVE FALSE
        OBVIOUS
      <4>1. q # p /\ Restoring(q) /\ rem[q] = r
        BY <1>1, <1>4 DEF Restores, Restoring, Others
      <4> QED
        BY <4>1, <1>0, <1>1 DEF ProcShape
    <3>2. SafeCover'
      BY <3>1, <2>1, <1>1 DEF SafeCover, Untouched, Armed
    <3>3. BlindHarmless'
      <4> SUFFICES ASSUME NEW x \in Procs, Blind(x)' PROVE SnoozedExcused' /\ \A m \in Home' : In(m)'
        BY DEF BlindHarmless
      <4>1. x # p /\ Blind(x)
        BY <1>1 DEF Blind, Others
      <4>2. x \in Callers
        BY <4>1, <1>0, NoneNoStep DEF Blind, ProcShape, ProcFuns, Creating, Restoring, Moving, Moves, Steps
      <4>3. excused' = excused \cup (Targets(p) \cap BeingMoved) \cup (home \cup BeingSnoozed \cup Targets(p))
        BY <4>1, <4>2, <2>1, <1>2 DEF Misled, Blind
      <4>4. \A q \in Procs : Creating(q)' => todo'[q] \cup calls'[q] \subseteq excused'
        BY <4>3, <1>1 DEF BeingSnoozed, InHand, Creating, Others
      <4>5. Home' = {}
        BY <4>3, <1>2 DEF Home
      <4> QED
        BY <4>4, <4>5 DEF SnoozedExcused
    <3> QED
      BY <3>2, <3>3, SafeOwes DEF NoneForgotten, SnoozesSafe
  <2>2. CASE rem[p] = "follow_up" \/ ~ from[p]
    <3>1. Targets(p) = {}
      BY <2>2, <1>1 DEF Targets, LostInv, BlindRead
    <3>2. SnoozesKept
      BY <1>1 DEF SnoozesKept, Armed
    <3>3. NoneForgotten' /\ (SafeCover => SafeCover')
      BY <1>1, <1>2, <1>3, <1>4, <2>2, <3>2, QuietStep
    <3>4. SnoozedExcused => SnoozedExcused'
      BY <1>1, <1>2, <3>1 DEF SnoozedExcused, Creating, Others
    <3>5. BlindHarmless'
      BY <1>1, <1>3, <3>4 DEF LostInv, BlindHarmless, Blind, Others
    <3> QED
      BY <3>3, <3>4, <3>5 DEF LostInv, SnoozesSafe
  <2> QED
    BY <2>1, <2>2, <1>1 DEF Kinds
<1>6. BlindRead'
  BY <1>1 DEF LostInv, BlindRead, Others
<1>7. \A q \in Procs \ {p} : Moving(q) => \A m \in todo[q] \ excused' : m \notin Targets(p)
  BY <1>2 DEF BeingMoved, InHand, Moving
<1> QED
  BY <1>1, <1>2, <1>3, <1>4, <1>5, <1>6, <1>7, PlanStep

\* A restore that begins finds each message of the inbox to be put back, or back.
LEMMA ReadThreadKeeps == ASSUME LostInv, NEW p \in Procs, ReadThread(p) PROVE LostInv'
<1>0. Good /\ RemShape /\ ProcFuns /\ ProcShape(p)
  BY DEF LostInv, Good, Typed
<1>1. /\ Good' /\ Others(p) /\ \A m : In(m)' <=> In(m)
      /\ Restoring(p) /\ at[p] = "thread" /\ at'[p] \in {"write", "drop"}
      /\ op'[p] = op[p] /\ rem'[p] = rem[p] /\ from'[p] = from[p]
      /\ calls'[p] \subseteq todo'[p]
      /\ \A m \in todo'[p] \ calls'[p] :
           "INBOX" \notin snap'[p][m].labels /\ m \in home \cup BeingMoved => m \in excused'
      /\ excused \subseteq excused'
      /\ rem[p] \in Armed("snooze") /\ from[p] =>
           /\ BeingSnoozed \subseteq excused'
           /\ \A m \in home \cap rows : m \in excused' \/ m \in calls'[p] \/ In(m)
  BY <1>0, ReadThreadEffect
<1>2. UNCHANGED <<rows, gmail, home, remVars>>
  BY DEF ReadThread, rowVars, mailVars
<1>3. Home' \subseteq Home /\ \A m \in Home' : m \in home \cap rows /\ m \notin excused'
  BY <1>1, <1>2 DEF Home
<1>4. BetweenSnoozes' <=> BetweenSnoozes
  BY <1>1 DEF BetweenSnoozes, Others, Procs
<1>5. \A q \in Procs, r \in Reminders : Restores(q, r)' => IF q = p THEN r = rem[p] ELSE Restores(q, r)
  BY <1>1 DEF Restores, Restoring, Others
<1>6. from[p] = was[rem[p]]
  BY <1>0, <1>1 DEF ProcShape
<1>7. NoneForgotten'
  <2> SUFFICES ASSUME NEW m \in Home', ~ In(m)' PROVE Owed(m)'
    BY DEF NoneForgotten, Owed
  <2>1. ~ In(m) /\ Owed(m)
    BY <1>1, <1>3 DEF LostInv, NoneForgotten
  <2>2. ASSUME NEW r \in Reminders, Covers(r, m) PROVE Covers(r, m)'
    <3>1. r = rem[p] => m \in calls'[p] /\ m \in todo'[p]
      BY <2>1, <2>2, <1>1, <1>3, <1>6 DEF Covers
    <3>2. ASSUME NEW q \in Procs, Restores(q, r)'
          PROVE  m \in calls'[q] /\ (m \in todo'[q] \/ "INBOX" \notin gmail'[m])
      <4>1. CASE q = p
        BY <3>1, <3>2, <4>1, <1>5
      <4>2. CASE q # p
        BY <2>2, <3>2, <4>2, <1>1, <1>2, <1>5 DEF Covers, Others
      <4> QED
        BY <4>1, <4>2
    <3> QED
      BY <2>2, <3>2, <1>2 DEF Covers, Armed, remVars
  <2> QED
    BY <2>1, <2>2, <1>4 DEF Owed
<1>8. SnoozedExcused => SnoozedExcused'
  BY <1>1 DEF SnoozedExcused, Creating, Restoring, Others
<1>9. SnoozesSafe'
  <2>1. ASSUME NEW r \in Reminders, Untouched(r) PROVE Untouched(r)' \/ SnoozedExcused'
    <3>1. CASE r = rem[p]
      <4>1. BeingSnoozed \subseteq excused'
        BY <2>1, <3>1, <1>1, <1>6 DEF Untouched
      <4> QED
        BY <4>1, <1>1 DEF SnoozedExcused, Creating, Restoring, Others, BeingSnoozed, InHand
    <3>2. CASE r # rem[p]
      BY <2>1, <3>2, <1>2, <1>5 DEF Untouched, Armed, remVars
    <3> QED
      BY <3>1, <3>2
  <2> QED
    BY <2>1, <1>4, <1>8 DEF LostInv, SnoozesSafe, SafeCover
<1>10. BlindHarmless'
  BY <1>1, <1>3, <1>8 DEF LostInv, BlindHarmless, Blind, Others
<1>11. BlindRead'
  BY <1>1 DEF LostInv, BlindRead, Others
<1>12. ~ Creating(p)' /\ ~ Moving(p)' /\ op'[p] \notin {"archive", "trash"}
  BY <1>1 DEF Creating, Restoring, Moving, Moves
<1>13. \A m \in todo'[p] \ calls'[p] : "INBOX" \notin snap'[p][m].labels => m \notin Home'
  BY <1>1, <1>3
<1>14. \A q \in Procs \ {p} : Moving(q) => \A m \in todo[q] \ excused' :
         m \in todo'[p] \ calls'[p] => "INBOX" \in snap'[p][m].labels
  BY <1>1 DEF BeingMoved, InHand, Moving
<1> QED
  BY <1>1, <1>2, <1>3, <1>7, <1>9, <1>10, <1>11, <1>12, <1>13, <1>14, PlanStep

\* A move begins with messages nobody has in hand, or excuses them.
LEMMA StartMoveKeeps ==
  ASSUME LostInv, NEW p \in Callers, NEW o \in Moves, NEW S \in SUBSET rows, StartMove(p, o, S) PROVE LostInv'
<1>0. Good /\ p \in Procs /\ at[p] = None
  BY DEF LostInv, Good, Typed, ProcShape, StartMove, Procs
<1>1. /\ Good' /\ Others(p) /\ \A m : In(m)' <=> In(m)
      /\ op[p] = "idle" /\ op'[p] = o /\ at'[p] = "calls" /\ todo'[p] = S /\ calls'[p] = S
      /\ excused' = excused \cup (S \cap (BeingMoved \cup BeingSnoozed \cup BeingMarked))
      /\ home' = IF o \in {"archive", "trash"} THEN home \ S ELSE home
  BY <1>0, StartMoveEffect
<1>2. UNCHANGED <<rows, gmail, remVars>>
  BY DEF StartMove, rowVars, mailVars
<1>3. Home' \subseteq Home /\ excused \subseteq excused'
  BY <1>1, <1>2 DEF Home
<1>4. SnoozesKept /\ ~ Restoring(p)' /\ ~ Creating(p)' /\ at[p] # "insert"
  BY <1>0, <1>1, <1>2, SameSnoozes, NoneNoStep DEF Restoring, Creating, Moves, Steps
<1>5. NoneForgotten' /\ (SafeCover => SafeCover')
  BY <1>0, <1>1, <1>2, <1>3, <1>4, QuietStep
<1>6. SnoozedExcused => SnoozedExcused'
  BY <1>1, <1>3, <1>4 DEF SnoozedExcused, Creating, Others
<1>7. SnoozesSafe'
  BY <1>5, <1>6 DEF LostInv, SnoozesSafe
<1>8. BlindHarmless'
  BY <1>1, <1>3, <1>6 DEF LostInv, BlindHarmless, Blind, Others
<1>9. BlindRead'
  BY <1>1 DEF LostInv, BlindRead, Others
<1>10. \A m \in S \ excused' : LeftAlone(p, m)'
  <2> SUFFICES ASSUME NEW m \in S, m \notin excused', NEW q \in Procs \ {p}
               PROVE  /\ Moving(q)' => m \notin todo'[q]
                      /\ Creating(q)' => m \notin todo'[q] \cup calls'[q]
                      /\ Restoring(q)' /\ m \in todo'[q] \ calls'[q] => "INBOX" \in snap'[q][m].labels
    BY DEF LeftAlone
  <2>1. m \notin BeingMoved /\ m \notin BeingSnoozed /\ m \notin BeingMarked
    BY <1>1
  <2>2. /\ Moving(q) => m \notin todo[q]
        /\ Creating(q) => m \notin todo[q] \cup calls[q]
        /\ Restoring(q) /\ m \in todo[q] \ calls[q] => "INBOX" \in snap[q][m].labels
    BY <2>1 DEF BeingMoved, BeingSnoozed, BeingMarked, InHand, Moving, Creating, Restoring
  <2> QED
    BY <2>2, <1>1 DEF Others, Moving, Creating, Restoring
<1>11. \A q \in Procs \ {p} : Moving(q) => \A m \in todo[q] \ excused' : m \notin S
  BY <1>1 DEF BeingMoved, InHand, Moving
<1>12. op'[p] \in {"archive", "trash"} => \A m \in todo'[p] : m \notin Home'
  BY <1>1 DEF Home
<1> QED
  BY <1>0, <1>1, <1>2, <1>3, <1>4, <1>5, <1>7, <1>8, <1>9, <1>10, <1>11, <1>12, PlanStep

\* A crash leaves the snoozes armed.
LEMMA CrashKeeps == ASSUME LostInv, Crash PROVE LostInv'
<1>1. /\ Good' /\ \A m : In(m)' <=> In(m)
      /\ \A p \in Procs : op'[p] = "idle" /\ at'[p] = None /\ from'[p] = FALSE /\ todo'[p] = {} /\ calls'[p] = {}
  BY CrashEffect DEF LostInv
<1>2. /\ UNCHANGED <<rows, gmail, home, remVars>>
      /\ excused' = IF BetweenSnoozes THEN excused \cup home ELSE excused
  BY DEF Crash, rowVars, mailVars
<1>3. \A p \in Procs : ~ Restoring(p)' /\ ~ Creating(p)' /\ ~ Moving(p)' /\ ~ Blind(p)'
                       /\ at'[p] \notin {"replace", "insert"} /\ op'[p] \notin {"archive", "trash"}
  BY <1>1, NoneNoStep DEF Restoring, Creating, Moving, Moves, Blind, Steps
<1>4. NoneForgotten'
  <2> SUFFICES ASSUME NEW m \in Home', ~ In(m)' PROVE Owed(m)'
    BY DEF NoneForgotten, Owed
  <2>1. ~ BetweenSnoozes /\ m \in Home /\ ~ In(m)
    BY <1>1, <1>2 DEF Home
  <2>2. PICK r \in Reminders : Covers(r, m)
    BY <2>1 DEF LostInv, NoneForgotten, Owed
  <2>3. Covers(r, m)'
    BY <2>2, <1>2, <1>3 DEF Covers, Armed, remVars, Restores
  <2> QED
    BY <2>3 DEF Owed
<1> QED
  BY <1>1, <1>3, <1>4 DEF LostInv, SnoozesSafe, SnoozedExcused, BlindHarmless, BlindRead,
     MarksHarmless, AwayStaysAway, MovesAlone

-----------------------------------------------------------------------------
\* So does a stutter.
LEMMA StutterKeeps == ASSUME LostInv, UNCHANGED vars PROVE LostInv'
<1>1. Good' /\ \A m : In(m)' <=> In(m)
  <2>1. MailShape' /\ FeedAgrees' /\ \A m : In(m)' <=> In(m)
    BY MailSame DEF LostInv, Good, Typed, MailShape, vars, history
  <2> QED
    BY <2>1, MailStepGood DEF LostInv, vars, mailVars
<1>2. rows' = rows /\ gmail' = gmail /\ home' = home /\ excused' = excused /\ UNCHANGED procVars /\ Home' = Home
  BY DEF vars, rowVars, mailVars, history, Home
<1>3. SnoozesKept
  BY SameSnoozes DEF vars
<1> QED
  BY <1>1, <1>2, <1>3, OutsideStep

\* Nothing is owed at the start.
LEMMA InitHolds == ASSUME Init PROVE LostInv
<1>1. PICK first \in Messages : rows = {first} /\ labels = [m \in Messages |-> IF m = first THEN {"INBOX"} ELSE {}]
  BY DEF Init
<1>2. /\ feed = <<>> /\ Len(feed) = 0 /\ gmail = labels /\ home = rows /\ excused = {} /\ arrived = rows
      /\ \A p \in Procs : /\ op[p] = "idle" /\ at[p] = None /\ rem[p] = None /\ from[p] = FALSE /\ snap[p] = NoRows
                          /\ todo[p] = {} /\ calls[p] = {}
  BY DEF Init
<1>3. \A m \in Messages : Pending(m) = {}
  BY <1>2 DEF Pending
<1>4. MailShape
  BY <1>1, <1>2 DEF Init, MailShape, Labels
<1>5. FeedAgrees
  BY <1>1, <1>2, <1>3, <1>4 DEF FeedAgrees
<1>6. RemShape /\ ProcFuns
  BY NoneIsNothing DEF Init, RemShape, ProcFuns, Steps, Kinds
<1>7. ASSUME NEW p \in Procs PROVE ProcShape(p) /\ ~ Restoring(p) /\ ~ Moving(p) /\ ~ Creating(p)
  BY <1>2 DEF ProcShape, Creating, Restoring, Moving, Moves, NoRows
<1>8. \A m \in Home : In(m)
  BY <1>1, <1>2, <1>3 DEF Home, In
<1>9. \A p \in Procs : at[p] \notin {"replace", "insert"} /\ op[p] \notin {"archive", "trash"}
  BY <1>2, NoneNoStep DEF Steps
<1> QED
  BY <1>4, <1>5, <1>6, <1>7, <1>8, <1>9 DEF LostInv, Good, Typed, NoneForgotten, Owed, SnoozesSafe, SnoozedExcused,
     BlindHarmless, Blind, BlindRead, MarksHarmless, AwayStaysAway, MovesAlone

\* The invariant is inductive.
LEMMA NextKeeps == ASSUME LostInv, [Next]_vars PROVE LostInv'
<1>1. ASSUME NEW p \in Callers, Request(p) PROVE LostInv'
  <2>1. ASSUME NEW k \in Kinds, StartCreate(p, k) PROVE LostInv'
    BY <2>1, StartCreateKeeps
  <2>2. ASSUME NEW r \in Reminders, StartCancel(p, r) PROVE LostInv'
    BY <2>2, StartCancelKeeps
  <2>3. ASSUME NEW o \in Moves, NEW S \in {{m} : m \in rows} \cup {rows}, StartMove(p, o, S) PROVE LostInv'
    <3>1. S \in SUBSET rows
      OBVIOUS
    <3> QED
      BY <2>3, <3>1, StartMoveKeeps
  <2> QED
    BY <1>1, <2>1, <2>2, <2>3 DEF Request
<1>2. ASSUME NEW p \in Procs, Step(p) PROVE LostInv'
  <2>1. CASE Prior(p) \/ Replace(p) \/ EndCreate(p)
    BY <2>1, PriorKeeps, ReplaceKeeps, EndCreateKeeps
  <2>2. CASE ReadThread(p) \/ ResolveStep(p) \/ EndMove(p) \/ Throw(p)
    BY <2>2, ReadThreadKeeps, ResolveStepKeeps, EndMoveKeeps, ThrowKeeps
  <2>3. ASSUME NEW r \in Reminders, Insert(p, r) PROVE LostInv'
    BY <2>3, InsertKeeps
  <2>4. ASSUME NEW m \in Messages, TakeOut(p, m) \/ TakeOutAtGmail(p, m) PROVE LostInv'
    BY <2>4, TakeOutKeeps, TakeOutAtGmailKeeps
  <2>5. ASSUME NEW m \in Messages, PutBack(p, m) \/ PutBackAtGmail(p, m) PROVE LostInv'
    BY <2>5, PutBackKeeps, PutBackAtGmailKeeps
  <2>6. ASSUME NEW m \in Messages, MoveCall(p, m) \/ MoveWrite(p, m) PROVE LostInv'
    BY <2>6, MoveCallKeeps, MoveWriteKeeps
  <2> QED
    BY <1>2, <2>1, <2>2, <2>3, <2>4, <2>5, <2>6 DEF Step
<1>3. ASSUME Check PROVE LostInv'
  BY <1>3, ClearRepliedKeeps, StartFireKeeps, ListDueKeeps DEF Check
<1>4. ASSUME Event PROVE LostInv'
  BY <1>4, ArriveKeeps, DeleteMessageKeeps, MoveAtGmailKeeps DEF Event
<1> QED
  BY <1>1, <1>2, <1>3, <1>4, SyncApplyKeeps, CrashKeeps, StutterKeeps DEF Next

\* When nothing is under way, what is owed is in the inbox or behind an armed snooze.
LEMMA LostInvIsEnough == ASSUME LostInv PROVE NothingLost
<1> SUFFICES ASSUME \A p \in Procs : op[p] \in {"idle", "check"}, NEW m \in (home \cap rows) \ excused
             PROVE  Settled(m) \/ \E r \in Armed("snooze") : was[r]
  BY DEF NothingLost
<1>1. \A p \in Procs : at[p] = None
  BY DEF LostInv, Good, Typed, ProcShape
<1>2. ~ BetweenSnoozes
  BY <1>1, NoneNoStep DEF BetweenSnoozes, Procs, Steps
<1>3. Owed(m)
  BY DEF LostInv, NoneForgotten, Home
<1>4. CASE In(m)
  BY <1>4, InIsSettled DEF LostInv, Good, Typed
<1>5. ASSUME NEW r \in Reminders, Covers(r, m) PROVE \E x \in Armed("snooze") : was[x]
  BY <1>5 DEF Covers
<1> QED
  BY <1>2, <1>3, <1>4, <1>5 DEF Owed

\* Every variable keeps its shape, whatever is requested, moved or crashes; a
\* reminder has a kind exactly when it was made.
THEOREM TypeCorrect == Spec => []TypeOK
<1>1. LostInv => TypeOK
  BY TypedTypeOK DEF LostInv, Good
<1> QED
  BY InitHolds, NextKeeps, <1>1, PTL DEF Spec

\* Mail the owner has in the inbox comes back: once nothing is under way it is
\* there, or a snooze is armed that brings it back, but for the named races.
THEOREM MailComesBack == Spec => []NothingLost
BY InitHolds, NextKeeps, LostInvIsEnough, PTL DEF Spec

-----------------------------------------------------------------------------
\* A create about to insert has cancelled what was armed of its kind, and nobody has
\* armed one since unless it is crossed.
OneEach ==
  /\ OneArmed
  /\ \A p \in Callers \ crossed : at[p] = "insert" => Armed(rem[p]) = {}
OneInv == Good /\ OneEach

\* Only a request makes a reminder.
LEMMA InsertCreates == ASSUME Good, NEW p \in Procs, at[p] = "insert" PROVE p \in Callers /\ rem[p] \in Kinds
BY NoneNoStep DEF Good, Typed, ProcFuns, ProcShape, Creating, Restoring, Moving, Moves, Steps

\* A step that brings no create to its insert, and arms nothing.
LEMMA OneStays ==
  ASSUME OneEach, doubled' = doubled,
         \A r \in Reminders : state'[r] = "armed" => state[r] = "armed", kind' = kind,
         \A p \in Callers : at'[p] = "insert" =>
           at[p] = "insert" /\ rem'[p] = rem[p] /\ (p \in crossed => p \in crossed')
  PROVE  OneEach'
<1>1. \A k : Armed(k)' \subseteq Armed(k)
  BY DEF Armed
<1> QED
  BY <1>1 DEF OneEach, OneArmed

\* What is armed of the kind is cancelled before the insert.
LEMMA OneReplace == ASSUME OneInv, NEW p \in Procs, Replace(p) PROVE OneEach'
<1>1. /\ Others(p) /\ at[p] = "replace" /\ at'[p] = "insert" /\ rem' = rem /\ kind' = kind
      /\ doubled' = doubled \ {rem[p]} /\ crossed' = crossed
      /\ state' = [r \in Reminders |-> IF r \in Armed(rem[p]) THEN "cancelled" ELSE state[r]]
  BY ReplaceGood DEF OneInv, Good, Typed, ProcFuns, Replace, Goto
<1>2. Armed(rem[p])' = {} /\ \A x : Armed(x)' \subseteq Armed(x)
  BY <1>1 DEF Armed
<1>3. OneArmed'
  BY <1>1, <1>2 DEF OneInv, OneEach, OneArmed
<1>4. ASSUME NEW q \in Callers \ crossed', at'[q] = "insert" PROVE Armed(rem[q])' = {}
  <2>1. CASE q = p
    BY <1>2, <2>1
  <2>2. CASE q # p
    <3>1. at[q] = "insert"
      BY <1>1, <1>4, <2>2 DEF Others, Procs
    <3>2. Armed(rem[q]) = {}
      BY <1>1, <1>4, <3>1 DEF OneInv, OneEach
    <3> QED
      BY <1>1, <1>2, <3>2
  <2> QED
    BY <2>1, <2>2
<1> QED
  BY <1>3, <1>4 DEF OneEach

\* The insert finds none armed of its kind unless its create is crossed, and
\* crosses the others of the kind.
LEMMA OneInsert ==
  ASSUME OneInv, NEW p \in Procs, NEW r \in Reminders, Insert(p, r) PROVE OneEach'
<1>1. /\ Others(p) /\ at[p] = "insert" /\ at'[p] = "write" /\ rem'[p] = rem[p] /\ rem[p] \in Kinds
      /\ state'[r] = "armed" /\ kind'[r] = rem[p]
      /\ \A x \in Reminders \ {r} : state'[x] = state[x] /\ kind'[x] = kind[x]
  BY InsertEffect DEF OneInv
<1>2. /\ p \in Callers /\ rem' = rem /\ state[r] = "none"
      /\ crossed' = {q \in Callers \ {p} : q \in crossed \/ (at[q] = "insert" /\ rem[q] = rem[p])}
      /\ doubled' = IF p \in crossed THEN doubled \cup {rem[p]} ELSE doubled
  BY <1>1, InsertCreates DEF OneInv, Insert, NewReminder
<1>3. /\ Armed(rem[p])' = Armed(rem[p]) \cup {r}
      /\ \A k : k # rem[p] => Armed(k)' = Armed(k)
  BY <1>1, <1>2 DEF Armed
<1>4. OneArmed'
  <2>1. CASE p \in crossed
    BY <1>2, <1>3, <2>1 DEF OneInv, OneEach, OneArmed
  <2>2. CASE p \notin crossed
    <3>1. Armed(rem[p]) = {}
      BY <1>1, <1>2, <2>2 DEF OneInv, OneEach
    <3> QED
      BY <1>2, <1>3, <2>2, <3>1 DEF OneInv, OneEach, OneArmed
  <2> QED
    BY <2>1, <2>2
<1>5. ASSUME NEW q \in Callers \ crossed', at'[q] = "insert" PROVE Armed(rem[q])' = {}
  <2>1. q # p /\ at[q] = "insert"
    BY <1>1, <1>5 DEF Others, Procs
  <2>2. q \notin crossed /\ rem[q] # rem[p]
    BY <1>2, <1>5, <2>1
  <2>3. Armed(rem[q]) = {}
    BY <2>1, <2>2 DEF OneInv, OneEach
  <2> QED
    BY <1>2, <1>3, <2>2, <2>3
<1> QED
  BY <1>4, <1>5 DEF OneEach

\* The other steps of a process.
LEMMA OneRest ==
  ASSUME OneInv, NEW p \in Procs, Others(p), doubled' = doubled, crossed' = crossed,
         \A r \in Reminders : state'[r] = "armed" => state[r] = "armed", kind' = kind,
         at'[p] # "insert"
  PROVE  OneEach'
<1>1. \A q \in Callers : at'[q] = "insert" => at'[q] = at[q] /\ rem'[q] = rem[q]
  BY DEF Others, Procs
<1> QED
  BY <1>1, OneStays DEF OneInv

\* Reminders stay single.
LEMMA OneNext == ASSUME OneInv, [Next]_vars PROVE OneEach'
<1> USE DEF OneInv
<1>1. ASSUME NEW p \in Callers, Request(p) PROVE OneEach'
  <2>1. p \in Procs
    BY DEF Procs
  <2>2. ASSUME NEW k \in Kinds, StartCreate(p, k) PROVE OneEach'
    <3>1. Others(p) /\ at'[p] = "prior"
      BY <2>2, StartCreateEffect DEF StartCreate, Goto, Good, Typed, ProcFuns, Procs
    <3> QED
      BY <2>1, <2>2, <3>1, OneRest DEF StartCreate, remVars, history
  <2>3. ASSUME NEW r \in Reminders, StartCancel(p, r) PROVE OneEach'
    <3>1. Others(p) /\ at'[p] = "thread"
      BY <2>3, StartCancelEffect
    <3> QED
      BY <2>1, <2>3, <3>1, OneRest DEF StartCancel, remVars, history
  <2>4. ASSUME NEW o \in Moves, NEW S \in {{m} : m \in rows} \cup {rows}, StartMove(p, o, S)
        PROVE  OneEach'
    <3>1. S \in SUBSET rows
      OBVIOUS
    <3>2. Others(p) /\ at'[p] = "calls"
      BY <2>4, <3>1, StartMoveEffect
    <3> QED
      BY <2>1, <2>4, <3>2, OneRest DEF StartMove, remVars
  <2> QED
    BY <1>1, <2>2, <2>3, <2>4 DEF Request
<1>2. ASSUME NEW p \in Procs, Step(p) PROVE OneEach'
  <2>1. CASE Prior(p) \/ Replace(p) \/ \E r \in Reminders : Insert(p, r)
    <3>1. CASE Prior(p)
      <4>1. Others(p) /\ at'[p] = "replace" /\ UNCHANGED <<remVars, crossed, doubled>>
        BY <3>1, PriorGood DEF Good, Typed, ProcFuns, Prior, Goto
      <4> QED
        BY <4>1, OneRest DEF remVars
    <3> QED
      BY <2>1, <3>1, OneReplace, OneInsert
  <2>2. CASE ReadThread(p)
    <3>1. Others(p) /\ at'[p] \in {"write", "drop"}
      BY <2>2, ReadThreadEffect
    <3> QED
      BY <2>2, <3>1, OneRest DEF ReadThread, remVars
  <2>3. CASE EndCreate(p) \/ EndMove(p) \/ Throw(p)
    <3>1. Others(p) /\ at'[p] = None
      BY <2>3, EndCreateEffect, EndMoveEffect, ThrowEffect
    <3> QED
      BY <2>3, <3>1, OneRest, NoneNoStep DEF EndCreate, EndMove, Throw, remVars, history, Steps
  <2>4. CASE ResolveStep(p)
    <3>1. Others(p) /\ at'[p] = None
      BY <2>4, ResolveStepEffect
    <3>2. kind' = kind /\ \A r \in Reminders : state'[r] = "armed" => state[r] = "armed"
      BY <2>4 DEF ResolveStep, Resolve, Good, Typed, RemShape
    <3> QED
      BY <2>4, <3>1, <3>2, OneRest, NoneNoStep DEF ResolveStep, history, Steps
  <2>5. ASSUME NEW m \in Messages,
               \/ TakeOut(p, m) \/ TakeOutAtGmail(p, m) \/ PutBack(p, m) \/ PutBackAtGmail(p, m)
               \/ MoveCall(p, m) \/ MoveWrite(p, m)
        PROVE  OneEach'
    <3>1. UNCHANGED <<at, rem, remVars, crossed, doubled>>
      BY <2>5 DEF TakeOut, TakeOutAtGmail, PutBack, PutBackAtGmail, MoveCall, MoveWrite, history
    <3> QED
      BY <3>1, OneStays DEF remVars
  <2> QED
    BY <1>2, <2>1, <2>2, <2>3, <2>4, <2>5 DEF Step
<1>3. ASSUME Check PROVE OneEach'
  <2>1. Tick \in Procs
    BY DEF Procs
  <2>2. ASSUME NEW r \in Reminders, ClearReplied(r) PROVE OneEach'
    <3>1. UNCHANGED <<at, rem, crossed, doubled, kind>> /\ \A x \in Reminders : state'[x] = "armed" => state[x] = "armed"
      BY <2>2 DEF ClearReplied, Resolve, procVars, history, Good, Typed, RemShape
    <3> QED
      BY <3>1, OneStays
  <2>3. ASSUME NEW r \in Reminders, StartFire(r) PROVE OneEach'
    <3>1. Others(Tick) /\ at'[Tick] \in {None, "thread"}
      BY <2>1, <2>3, StartFireEffect DEF StartFire, Good, Typed, ProcShape
    <3> QED
      BY <2>1, <2>3, <3>1, OneRest, NoneNoStep DEF StartFire, remVars, history, Steps
  <2>4. ASSUME NEW S \in SUBSET Reminders, ListDue(S) PROVE OneEach'
    BY <2>4, OneStays DEF ListDue, remVars, history
  <2> QED
    BY <1>3, <2>2, <2>3, <2>4 DEF Check
<1>4. ASSUME SyncApply \/ Event \/ Crash \/ UNCHANGED vars PROVE OneEach'
  <2>1. CASE Crash
    <3>1. \A p \in Procs : at'[p] = None
      BY <2>1, CrashEffect
    <3> QED
      BY <2>1, <3>1, OneStays, NoneNoStep DEF Crash, remVars, Procs, Steps
  <2>2. CASE SyncApply \/ Event \/ UNCHANGED vars
    <3>1. UNCHANGED <<at, rem, remVars, crossed, doubled>>
      BY <2>2 DEF SyncApply, Event, Arrive, DeleteMessage, MoveAtGmail, vars, procVars, history
    <3> QED
      BY <3>1, OneStays DEF remVars
  <2> QED
    BY <1>4, <2>1, <2>2
<1> QED
  BY <1>1, <1>2, <1>3, <1>4 DEF Next

\* A thread has at most one armed reminder of a kind, whatever overlaps: a create
\* cancels what is armed before it inserts, and two stay only when another create of
\* the kind inserts between those statements, until the next create of the kind.
THEOREM AtMostOneArmed == Spec => []OneArmed
<1>1. Init => OneEach
  <2> SUFFICES ASSUME Init PROVE OneEach
    OBVIOUS
  <2>1. (\A r \in Reminders : state[r] = "none") /\ \A p \in Procs : at[p] = None
    BY DEF Init
  <2> QED
    BY <2>1, NoneNoStep DEF OneEach, OneArmed, Armed, Steps, Procs
<1>2. LostInv /\ OneEach /\ [Next]_vars => OneEach'
  BY OneNext DEF OneInv, LostInv
<1>3. OneEach => OneArmed
  BY DEF OneEach
<1> QED
  BY InitHolds, NextKeeps, <1>1, <1>2, <1>3, PTL DEF Spec
=============================================================================
