------------------------- MODULE GraduationsProofs -------------------------
(* Theorems about Graduations for every value of its constants. *)
EXTENDS Graduations, TLAPS

-----------------------------------------------------------------------------
(* Rows of Graduation *)

Table == [Ids -> Row \cup {Absent}]

Status == {"ACTIVE", "SUPERSEDED", "CANCELLED"}

\* A row has one of the three statuses, which tells it from a free id.
LEMMA RowHasStatus ==
  ASSUME NEW old \in Row \cup {Absent}
  PROVE  /\ old \in Row => old # Absent /\ old.status \in Status
         /\ old = Absent => old.status = "ABSENT"
         /\ old.status \in Status => old \in Row
  BY DEF Row, Absent, Status

\* Setting its status changes nothing else of a row.
LEMMA RowStatusSet ==
  ASSUME NEW old \in Row, NEW s \in Status
  PROVE  LET new == [old EXCEPT !.status = s] IN
         /\ new \in Row /\ new.status = s /\ new.who = old.who
         /\ new.what = old.what /\ new.corrects = old.corrects
  BY DEF Row, Status

\* What an active row says is an entry.
LEMMA RowSays ==
  ASSUME NEW old \in Row
  PROVE  /\ [who |-> old.who, what |-> old.what] \in Entry
         /\ old.who \in Subjects /\ old.what \in Facts /\ old.corrects \in Ids \cup {None}
  BY DEF Row, Entry

\* The effect of a change of status of one row on the table.
StatusWritten(i, s) ==
  /\ row' \in Table /\ row[i] \in Row /\ row'[i] \in Row
  /\ row'[i].status = s /\ row'[i].who = row[i].who
  /\ row'[i].what = row[i].what /\ row'[i].corrects = row[i].corrects
  /\ \A k \in Ids \ {i} : row'[k] = row[k]

\* A cancellation writes the status of one active row.
LEMMA CancelEffect ==
  ASSUME TypeOK, NEW i \in Ids, Cancel(i)
  PROVE  row[i].status = "ACTIVE" /\ StatusWritten(i, "CANCELLED")
<1>1. row \in Table /\ row[i].status = "ACTIVE"
  BY DEF TypeOK, Table, Cancel, Cancellable
<1>2. PICK old \in Row : old = row[i]
  BY <1>1, RowHasStatus DEF Table, Status
<1>3. row' = [row EXCEPT ![i] = [old EXCEPT !.status = "CANCELLED"]]
  BY <1>2 DEF Cancel
<1>4. [old EXCEPT !.status = "CANCELLED"] \in Row
  BY RowStatusSet DEF Status
<1>5. row'[i] = [old EXCEPT !.status = "CANCELLED"] /\ row' \in Table
  BY <1>1, <1>3, <1>4 DEF Table
<1>6. \A k \in Ids \ {i} : row'[k] = row[k]
  BY <1>1, <1>3 DEF Table
<1>7. LET new == [old EXCEPT !.status = "CANCELLED"] IN
      /\ new \in Row /\ new.status = "CANCELLED" /\ new.who = old.who
      /\ new.what = old.what /\ new.corrects = old.corrects
  BY RowStatusSet DEF Status
<1> QED BY <1>1, <1>2, <1>5, <1>6, <1>7 DEF StatusWritten

\* A creation adds one active row that corrects nothing.
LEMMA CreateEffect ==
  ASSUME TypeOK, NEW r \in Requests, NEW i \in Ids, CreateCommit(r, i)
  PROVE  /\ req[r].entry \in Entry /\ row[i] = Absent
         /\ row' \in Table /\ row'[i] \in Row
         /\ row'[i].status = "ACTIVE" /\ row'[i].corrects = None
         /\ row'[i].who = req[r].entry.who /\ row'[i].what = req[r].entry.what
         /\ \A k \in Ids \ {i} : row'[k] = row[k]
<1>1. row \in Table /\ req[r] \in CreateRequest
  BY DEF TypeOK, Table, CreateCommit, Idle, CorrectRequest
<1>2. PICK e \in Entry : e = req[r].entry
  BY <1>1 DEF CreateRequest
<1> DEFINE new == [status |-> "ACTIVE", who |-> e.who, what |-> e.what, corrects |-> None]
<1>3. new \in Row
  BY DEF Row, Entry
<1>4. row' = [row EXCEPT ![i] = new] /\ row[i] = Absent
  BY <1>2 DEF CreateCommit
<1>5. row'[i] = new /\ row' \in Table /\ \A k \in Ids \ {i} : row'[k] = row[k]
  BY <1>1, <1>3, <1>4 DEF Table
<1> QED BY <1>2, <1>3, <1>4, <1>5

\* A correction supersedes one active row and adds the next version of it.
LEMMA CorrectEffect ==
  ASSUME TypeOK, NEW r \in Requests, NEW j \in Ids, CorrectCommit(r, j)
  PROVE  LET i == req[r].of IN
         /\ i \in Ids /\ i # j /\ row[i].status = "ACTIVE" /\ row[j] = Absent
         /\ row' \in Table /\ row[i] \in Row /\ row'[i] \in Row /\ row'[j] \in Row
         /\ row'[i].status = "SUPERSEDED" /\ row'[i].who = row[i].who
         /\ row'[i].what = row[i].what /\ row'[i].corrects = row[i].corrects
         /\ row'[j].status = "ACTIVE" /\ row'[j].corrects = i
         /\ row'[j].who = row[i].who /\ row'[j].what = req[r].what
         /\ req[r].what \in Facts
         /\ \A k \in Ids \ {i, j} : row'[k] = row[k]
<1>1. row \in Table /\ req[r] \in CorrectRequest
  BY DEF TypeOK, Table, CorrectCommit, Idle, CreateRequest
<1>2. PICK i \in Ids : i = req[r].of
  BY <1>1 DEF CorrectRequest
<1>3. PICK what \in Facts : what = req[r].what
  BY <1>1 DEF CorrectRequest
<1>4. row[i].status = "ACTIVE" /\ row[j] = Absent
  BY <1>2 DEF CorrectCommit, Supersedes
<1>5. PICK old \in Row : old = row[i]
  BY <1>1, <1>4, RowHasStatus DEF Table, Status
<1>6. i # j
  BY <1>4, <1>5, RowHasStatus
<1> DEFINE past == [old EXCEPT !.status = "SUPERSEDED"]
           new == [status |-> "ACTIVE", who |-> old.who, what |-> what, corrects |-> i]
<1>7. past \in Row /\ new \in Row
  BY RowStatusSet DEF Row, Status
<1>8. row' = [row EXCEPT ![i] = past, ![j] = new]
  BY <1>2, <1>3, <1>5 DEF CorrectCommit, NextVersion
<1>9. /\ row' \in Table /\ row'[i] = past /\ row'[j] = new
      /\ \A k \in Ids \ {i, j} : row'[k] = row[k]
  BY <1>1, <1>6, <1>7, <1>8 DEF Table
<1>10. /\ past.status = "SUPERSEDED" /\ past.who = old.who
       /\ past.what = old.what /\ past.corrects = old.corrects
  BY RowStatusSet DEF Status
<1> QED BY <1>2, <1>3, <1>4, <1>5, <1>6, <1>7, <1>9, <1>10

-----------------------------------------------------------------------------
(* Types *)

\* Every action keeps the types.
LEMMA TypeStep == TypeOK /\ [Next]_vars => TypeOK'
<1> SUFFICES ASSUME TypeOK, [Next]_vars PROVE TypeOK'
  OBVIOUS
<1>1. ASSUME NEW i \in Ids, Cancel(i) PROVE TypeOK'
  <2>1. row' \in Table
    BY <1>1, CancelEffect DEF StatusWritten
  <2> QED BY <1>1, <2>1 DEF TypeOK, Cancel, Table
<1>2. ASSUME NEW r \in Requests, NEW e \in Entry, Create(r, e) PROVE TypeOK'
  BY <1>2 DEF TypeOK, Create, CreateRequest
<1>3. ASSUME NEW r \in Requests, NEW i \in Ids, NEW what \in Facts, Correct(r, i, what)
      PROVE  TypeOK'
  BY <1>3 DEF TypeOK, Correct, CorrectRequest
<1>4. ASSUME NEW r \in Requests, NEW i \in Ids, CreateCommit(r, i) PROVE TypeOK'
  <2>1. row' \in Table
    BY <1>4, CreateEffect
  <2> QED BY <1>4, <2>1 DEF TypeOK, CreateCommit, Table
<1>5. ASSUME NEW r \in Requests, NEW j \in Ids, CorrectCommit(r, j) PROVE TypeOK'
  <2>1. row' \in Table /\ req[r].of \in Ids
    BY <1>5, CorrectEffect
  <2>2. origin' \in [Ids -> Ids \cup {None}] /\ req' \in [Requests -> {Idle} \cup CreateRequest \cup CorrectRequest]
    BY <1>5, <2>1 DEF TypeOK, CorrectCommit
  <2> QED BY <2>1, <2>2 DEF TypeOK, Table
<1>6. ASSUME NEW r \in Requests, AbortRequest(r) PROVE TypeOK'
  BY <1>6 DEF TypeOK, AbortRequest
<1>7. CASE UNCHANGED vars
  BY <1>7 DEF TypeOK, vars
<1> QED BY <1>1, <1>2, <1>3, <1>4, <1>5, <1>6, <1>7 DEF Next

\* The types hold initially.
LEMMA TypeInit == Init => TypeOK
  BY DEF Init, TypeOK

\* TypeOK is an invariant of Graduations.
THEOREM TypeCorrect == Spec => []TypeOK
  BY TypeInit, TypeStep, PTL DEF Spec

-----------------------------------------------------------------------------
(* Chains of versions *)

\* The row a chain began with is still there.
Origins ==
  \A i \in Ids : row[i] # Absent => origin[i] \in Ids /\ row[origin[i]] # Absent

Chains == TypeOK /\ Origins /\ OneVersionCounts

\* A change of an active row's status keeps the chains as they are.
LEMMA CancelVersions ==
  ASSUME Chains, NEW i \in Ids, Cancel(i)
  PROVE  /\ origin' = origin /\ i \in Versions(origin[i])
         /\ \A o \in Ids : Versions(o)' = Versions(o)
         /\ \A j \in Versions(origin[i]) \ {i} : row[j].status = "SUPERSEDED"
         /\ \A j \in Ids \ {i} : row'[j] = row[j]
         /\ row[i].status = "ACTIVE" /\ row'[i].status = "CANCELLED"
         /\ origin[i] \in Ids
<1>1. TypeOK /\ Origins /\ OneVersionCounts
  BY DEF Chains
<1>2. row[i].status = "ACTIVE" /\ StatusWritten(i, "CANCELLED")
  BY <1>1, CancelEffect
<1>3. row[i] # Absent /\ row'[i] # Absent
  BY <1>2, RowHasStatus DEF StatusWritten
<1>4. origin' = origin
  BY DEF Cancel
<1>5. \A o \in Ids : Versions(o)' = Versions(o)
  BY <1>2, <1>3, <1>4 DEF Versions, StatusWritten
<1>6. origin[i] \in Ids /\ i \in Versions(origin[i])
  BY <1>1, <1>3 DEF Versions, Origins
<1> QED BY <1>1, <1>2, <1>4, <1>5, <1>6 DEF OneVersionCounts, StatusWritten

\* A creation begins a chain of its own.
LEMMA CreateVersions ==
  ASSUME Chains, NEW r \in Requests, NEW i \in Ids, CreateCommit(r, i)
  PROVE  /\ origin' = [origin EXCEPT ![i] = i]
         /\ Versions(i) = {} /\ Versions(i)' = {i}
         /\ \A o \in Ids \ {i} : Versions(o)' = Versions(o) /\ i \notin Versions(o)
         /\ \A j \in Ids \ {i} : row'[j] = row[j]
         /\ row[i] = Absent /\ row'[i] # Absent /\ row'[i].status = "ACTIVE"
         /\ row'[i].who = req[r].entry.who /\ row'[i].what = req[r].entry.what
<1>1. TypeOK /\ Origins
  BY DEF Chains
<1>2. /\ row[i] = Absent /\ row'[i] \in Row /\ row'[i].status = "ACTIVE"
      /\ row'[i].who = req[r].entry.who /\ row'[i].what = req[r].entry.what
      /\ \A k \in Ids \ {i} : row'[k] = row[k]
  BY <1>1, CreateEffect
<1>3. row'[i] # Absent
  BY <1>2, RowHasStatus
<1>4. origin' = [origin EXCEPT ![i] = i] /\ origin \in [Ids -> Ids \cup {None}]
  BY <1>1 DEF CreateCommit, TypeOK
<1>5. Versions(i) = {}
  BY <1>1, <1>2 DEF Versions, Origins
<1>6. Versions(i)' = {i}
  BY <1>2, <1>3, <1>4, <1>5 DEF Versions
<1>7. \A o \in Ids \ {i} : Versions(o)' = Versions(o) /\ i \notin Versions(o)
  BY <1>2, <1>3, <1>4 DEF Versions
<1> QED BY <1>2, <1>3, <1>4, <1>5, <1>6, <1>7

\* A correction adds the new row to the chain of the old one.
LEMMA CorrectVersions ==
  ASSUME Chains, NEW r \in Requests, NEW j \in Ids, CorrectCommit(r, j),
         NEW i, i = req[r].of, NEW o, o = origin[i]
  PROVE  /\ i \in Ids /\ o \in Ids /\ i # j /\ i \in Versions(o) /\ j \notin Versions(o)
         /\ Versions(o)' = Versions(o) \cup {j}
         /\ \A q \in Ids \ {o} : Versions(q)' = Versions(q) /\ j \notin Versions(q) /\ i \notin Versions(q)
         /\ \A k \in Versions(o) \ {i} : row[k].status = "SUPERSEDED"
         /\ \A k \in Ids \ {i, j} : row'[k] = row[k]
         /\ row[i].status = "ACTIVE" /\ row'[i].status = "SUPERSEDED"
         /\ row'[j].status = "ACTIVE"
         /\ row'[j].who = row[i].who /\ row'[j].what = req[r].what
         /\ row[i] \in Row /\ row'[i] # Absent /\ row'[j] # Absent /\ row[j] = Absent
         /\ origin' = [origin EXCEPT ![j] = o]
<1>1. TypeOK /\ Origins /\ OneVersionCounts
  BY DEF Chains
<1>2. /\ i \in Ids /\ i # j /\ row[i].status = "ACTIVE" /\ row[j] = Absent
      /\ row[i] \in Row /\ row'[i] \in Row /\ row'[j] \in Row
      /\ row'[i].status = "SUPERSEDED" /\ row'[j].status = "ACTIVE"
      /\ row'[j].who = row[i].who /\ row'[j].what = req[r].what
      /\ \A k \in Ids \ {i, j} : row'[k] = row[k]
  BY <1>1, CorrectEffect
<1>3. row[i] # Absent /\ row'[i] # Absent /\ row'[j] # Absent
  BY <1>2, RowHasStatus
<1>4. origin' = [origin EXCEPT ![j] = o] /\ origin \in [Ids -> Ids \cup {None}]
  BY <1>1 DEF CorrectCommit, TypeOK
<1>5. o \in Ids /\ i \in Versions(o)
  BY <1>1, <1>2, <1>3 DEF Versions, Origins
<1>6. \A q \in Ids : j \notin Versions(q)
  BY <1>2 DEF Versions
<1>7. /\ origin'[j] = o /\ \A k \in Ids \ {j} : origin'[k] = origin[k]
  BY <1>4
<1>8. \A k \in Ids \ {j} : row'[k] # Absent <=> row[k] # Absent
  BY <1>2, <1>3
<1>9. \A q \in Ids : Versions(q)' = IF q = o THEN Versions(q) \cup {j} ELSE Versions(q)
  <2> TAKE q \in Ids
  <2>1. \A k \in Ids \ {j} : k \in Versions(q)' <=> k \in Versions(q)
    BY <1>7, <1>8 DEF Versions
  <2>2. j \in Versions(q)' <=> q = o
    BY <1>3, <1>7 DEF Versions
  <2>3. Versions(q) \subseteq Ids /\ Versions(q)' \subseteq Ids
    BY DEF Versions
  <2> QED BY <2>1, <2>2, <2>3, <1>6
<1>10. \A q \in Ids \ {o} : i \notin Versions(q)
  BY DEF Versions
<1>11. \A k \in Versions(o) \ {i} : row[k].status = "SUPERSEDED"
  BY <1>1, <1>2, <1>5 DEF OneVersionCounts
<1>12. /\ Versions(o)' = Versions(o) \cup {j}
       /\ \A q \in Ids \ {o} : Versions(q)' = Versions(q)
  BY <1>5, <1>9
<1> QED BY <1>2, <1>3, <1>4, <1>5, <1>6, <1>10, <1>11, <1>12

-----------------------------------------------------------------------------
(* One version counts *)

\* The actions that write nothing but req.
Reads ==
  \/ \E r \in Requests, e \in Entry : Create(r, e)
  \/ \E r \in Requests, i \in Ids, what \in Facts : Correct(r, i, what)
  \/ \E r \in Requests : AbortRequest(r)
  \/ UNCHANGED vars

\* A step cancels, creates, corrects, or leaves the rows alone.
LEMMA StepCases ==
  ASSUME [Next]_vars
  PROVE  \/ \E i \in Ids : Cancel(i)
         \/ \E r \in Requests, i \in Ids : CreateCommit(r, i)
         \/ \E r \in Requests, j \in Ids : CorrectCommit(r, j)
         \/ Reads
  BY DEF Next, Reads

\* These actions leave the rows and their chains alone.
LEMMA ReadsChangeNoRow == Reads => UNCHANGED <<row, origin>>
  BY DEF Reads, Create, Correct, AbortRequest, vars

\* Every step keeps the chains whole and with one version that counts.
LEMMA ChainsStep == Chains /\ [Next]_vars => Chains'
<1> SUFFICES ASSUME Chains, [Next]_vars PROVE Chains'
  OBVIOUS
<1>1. TypeOK'
  BY TypeStep DEF Chains
<1>2. ASSUME NEW i \in Ids, Cancel(i) PROVE Origins' /\ OneVersionCounts'
  <2>1. Chains /\ origin' = origin /\ \A o \in Ids : Versions(o)' = Versions(o)
    BY <1>2, CancelVersions
  <2>2. /\ i \in Versions(origin[i]) /\ origin[i] \in Ids
        /\ \A j \in Versions(origin[i]) \ {i} : row[j].status = "SUPERSEDED"
        /\ \A j \in Ids \ {i} : row'[j] = row[j]
    BY <1>2, CancelVersions
  <2>3. \A j \in Ids : row'[j] # Absent <=> row[j] # Absent
    <3>1. row[i].status = "ACTIVE" /\ row'[i].status = "CANCELLED"
      BY <1>2, CancelVersions
    <3>2. row[i] # Absent /\ row'[i] # Absent
      BY <3>1 DEF Absent
    <3> QED BY <2>2, <3>2
  <2>4. Origins'
    BY <2>1, <2>3 DEF Chains, Origins
  <2>5. OneVersionCounts'
    <3> SUFFICES ASSUME NEW o \in Ids, NEW j \in Versions(o), NEW k \in Versions(o),
                        row'[j].status # "SUPERSEDED", row'[k].status # "SUPERSEDED"
                 PROVE  j = k
      BY <2>1 DEF OneVersionCounts
    <3>1. j \in Ids /\ k \in Ids
      BY DEF Versions
    <3>2. CASE o = origin[i]
      BY <2>2, <3>1, <3>2
    <3>3. CASE o # origin[i]
      BY <2>1, <2>2, <3>1, <3>3 DEF Versions, Chains, OneVersionCounts
    <3> QED BY <3>2, <3>3
  <2> QED BY <2>4, <2>5
<1>3. ASSUME NEW r \in Requests, NEW i \in Ids, CreateCommit(r, i)
      PROVE  Origins' /\ OneVersionCounts'
  <2>1. /\ Versions(i)' = {i} /\ origin' = [origin EXCEPT ![i] = i]
        /\ \A o \in Ids \ {i} : Versions(o)' = Versions(o) /\ i \notin Versions(o)
        /\ \A j \in Ids \ {i} : row'[j] = row[j]
        /\ row[i] = Absent /\ row'[i] # Absent
    BY <1>3, CreateVersions
  <2>2. origin'[i] = i /\ \A j \in Ids \ {i} : origin'[j] = origin[j]
    BY <2>1 DEF Chains, TypeOK
  <2>3. Origins'
    BY <2>1, <2>2 DEF Chains, Origins
  <2>4. OneVersionCounts'
    BY <2>1 DEF Chains, OneVersionCounts, Versions
  <2> QED BY <2>3, <2>4
<1>4. ASSUME NEW r \in Requests, NEW j \in Ids, CorrectCommit(r, j)
      PROVE  Origins' /\ OneVersionCounts'
  <2>1. PICK i : i = req[r].of
    OBVIOUS
  <2>2. PICK o : o = origin[i]
    OBVIOUS
  <2>3. /\ i \in Ids /\ o \in Ids /\ i # j /\ i \in Versions(o) /\ j \notin Versions(o)
        /\ Versions(o)' = Versions(o) \cup {j}
        /\ \A q \in Ids \ {o} : Versions(q)' = Versions(q) /\ j \notin Versions(q) /\ i \notin Versions(q)
        /\ \A k \in Versions(o) \ {i} : row[k].status = "SUPERSEDED"
        /\ \A k \in Ids \ {i, j} : row'[k] = row[k]
        /\ row'[i].status = "SUPERSEDED" /\ row'[i] # Absent /\ row'[j] # Absent
        /\ row[j] = Absent /\ origin' = [origin EXCEPT ![j] = o]
    BY <1>4, <2>1, <2>2, CorrectVersions
  <2>4. origin'[j] = o /\ \A k \in Ids \ {j} : origin'[k] = origin[k]
    BY <2>3 DEF Chains, TypeOK
  <2>5. row[o] # Absent
    BY <2>2, <2>3 DEF Chains, Origins, Versions
  <2>6. \A k \in Ids : row[k] # Absent => row'[k] # Absent
    BY <2>3
  <2>7. Origins'
    <3> SUFFICES ASSUME NEW k \in Ids, row'[k] # Absent
                 PROVE  origin'[k] \in Ids /\ row'[origin'[k]] # Absent
      BY DEF Origins
    <3>1. CASE k = j
      BY <3>1, <2>3, <2>4, <2>5, <2>6
    <3>2. CASE k # j
      BY <3>2, <2>3, <2>4, <2>6, <2>1 DEF Chains, Origins, Versions
    <3> QED BY <3>1, <3>2
  <2>8. ASSUME NEW q \in Ids, NEW k \in Versions(q)', NEW l \in Versions(q)',
               row'[k].status # "SUPERSEDED", row'[l].status # "SUPERSEDED"
        PROVE  k = l
    <3>1. \A x \in Ids : Versions(x) \subseteq Ids /\ Versions(x)' \subseteq Ids
      BY DEF Versions
    <3>2. CASE q = o
      BY <2>3, <2>8, <3>1, <3>2
    <3>3. CASE q # o
      BY <2>3, <2>8, <3>1, <3>3 DEF Chains, OneVersionCounts
    <3> QED BY <3>2, <3>3
  <2>9. OneVersionCounts'
    BY <2>8 DEF OneVersionCounts
  <2> QED BY <2>7, <2>9
<1>5. ASSUME Reads PROVE Origins' /\ OneVersionCounts'
  BY <1>5, ReadsChangeNoRow DEF Chains, Origins, OneVersionCounts, Versions
<1>6. Origins' /\ OneVersionCounts'
  BY <1>2, <1>3, <1>4, <1>5, StepCases
<1> QED BY <1>1, <1>6 DEF Chains

\* The chains are whole initially, when there is none.
LEMMA ChainsInit == Init => Chains
  BY TypeInit DEF Init, Chains, Origins, OneVersionCounts, Versions

\* The chains are whole always.
LEMMA ChainsHold == Spec => []Chains
  BY ChainsInit, ChainsStep, PTL DEF Spec

\* OneVersionCounts is an invariant of Graduations.
THEOREM OneVersion == Spec => []OneVersionCounts
<1>1. Chains => OneVersionCounts
  BY DEF Chains
<1> QED BY <1>1, ChainsHold, PTL

-----------------------------------------------------------------------------
(* The chain of corrections *)

\* The rows that correct i.
CorrectionsOf(i) == {j \in Ids : row[j] # Absent /\ row[j].corrects = i}

\* ChainUnbroken, as it is used of one row.
LinkOf(i) ==
  /\ row[i].status # "SUPERSEDED" => CorrectionsOf(i) = {}
  /\ row[i].status = "SUPERSEDED" => \E j \in CorrectionsOf(i) : CorrectionsOf(i) = {j} /\ row[j].who = row[i].who

\* The chain is unbroken when the link of every row is.
LEMMA LinksAreChain == ChainUnbroken <=> \A i \in Ids : LinkOf(i)
  BY DEF ChainUnbroken, LinkOf, CorrectionsOf

\* Every step keeps the chain unbroken.
LEMMA LinkStep == TypeOK /\ ChainUnbroken /\ [Next]_vars => ChainUnbroken'
<1> SUFFICES ASSUME TypeOK, \A i \in Ids : LinkOf(i), [Next]_vars, NEW i \in Ids
             PROVE  LinkOf(i)'
  BY LinksAreChain DEF ChainUnbroken, LinkOf, CorrectionsOf
<1>1. \A k \in Ids : CorrectionsOf(k) \subseteq Ids /\ CorrectionsOf(k)' \subseteq Ids
  BY DEF CorrectionsOf
<1>2. ASSUME NEW c \in Ids, Cancel(c) PROVE LinkOf(i)'
  <2>1. row[c].status = "ACTIVE" /\ StatusWritten(c, "CANCELLED")
    BY <1>2, CancelEffect
  <2>2. row[c] # Absent /\ row'[c] # Absent
    BY <2>1, RowHasStatus DEF StatusWritten
  <2>3. CorrectionsOf(i)' = CorrectionsOf(i)
    BY <2>1, <2>2 DEF CorrectionsOf, StatusWritten
  <2>4. \A k \in Ids : row'[k].who = row[k].who
    BY <2>1 DEF StatusWritten
  <2>5. row'[i].status = "SUPERSEDED" <=> row[i].status = "SUPERSEDED"
    BY <2>1 DEF StatusWritten
  <2> QED BY <2>3, <2>4, <2>5, <1>1 DEF LinkOf
<1>3. ASSUME NEW r \in Requests, NEW c \in Ids, CreateCommit(r, c) PROVE LinkOf(i)'
  <2>1. /\ row[c] = Absent /\ row'[c].status = "ACTIVE" /\ row'[c].corrects = None
        /\ \A k \in Ids \ {c} : row'[k] = row[k]
    BY <1>3, CreateEffect
  <2>2. CorrectionsOf(i)' = CorrectionsOf(i)
    <3>1. c \notin CorrectionsOf(i) /\ c \notin CorrectionsOf(i)'
      BY <2>1, GraduationAssumption DEF CorrectionsOf
    <3>2. \A k \in Ids \ {c} : k \in CorrectionsOf(i)' <=> k \in CorrectionsOf(i)
      BY <2>1 DEF CorrectionsOf
    <3> QED BY <3>1, <3>2, <1>1
  <2>3. CASE i = c
    <3>1. CorrectionsOf(i) = {}
      BY <2>1, <2>3 DEF LinkOf, Absent
    <3> QED BY <2>1, <2>2, <2>3, <3>1 DEF LinkOf
  <2>4. CASE i # c
    <3>1. \A k \in CorrectionsOf(i) : k # c
      BY <2>1 DEF CorrectionsOf
    <3> QED BY <2>1, <2>2, <2>4, <3>1, <1>1 DEF LinkOf
  <2> QED BY <2>3, <2>4
<1>4. ASSUME NEW r \in Requests, NEW j \in Ids, CorrectCommit(r, j) PROVE LinkOf(i)'
  <2>1. PICK c : c = req[r].of
    OBVIOUS
  <2>2. /\ c \in Ids /\ c # j /\ row[c].status = "ACTIVE" /\ row[j] = Absent
        /\ row[c] \in Row /\ row'[c] \in Row /\ row'[j] \in Row
        /\ row'[c].status = "SUPERSEDED" /\ row'[c].who = row[c].who
        /\ row'[c].corrects = row[c].corrects
        /\ row'[j].status = "ACTIVE" /\ row'[j].corrects = c /\ row'[j].who = row[c].who
        /\ \A k \in Ids \ {c, j} : row'[k] = row[k]
    BY <1>4, <2>1, CorrectEffect
  <2>3. row[c] # Absent /\ row'[c] # Absent /\ row'[j] # Absent
    BY <2>2, RowHasStatus
  <2>4. \A k \in Ids \ {j} : k \in CorrectionsOf(i)' <=> k \in CorrectionsOf(i)
    BY <2>2, <2>3 DEF CorrectionsOf
  <2>5. j \notin CorrectionsOf(i) /\ (j \in CorrectionsOf(i)' <=> i = c)
    BY <2>2, <2>3 DEF CorrectionsOf
  <2>6. CASE i = c
    <3>1. CorrectionsOf(i) = {}
      BY <2>2, <2>6 DEF LinkOf
    <3>2. CorrectionsOf(i)' = {j}
      BY <3>1, <2>4, <2>5, <2>6, <1>1
    <3> QED BY <2>2, <2>6, <3>2 DEF LinkOf
  <2>7. CASE i = j
    <3>1. CorrectionsOf(i) = {}
      BY <2>2, <2>7 DEF LinkOf, Absent
    <3>2. CorrectionsOf(i)' = {}
      BY <3>1, <2>2, <2>4, <2>5, <2>7, <1>1
    <3> QED BY <2>2, <2>7, <3>2 DEF LinkOf
  <2>8. CASE i # c /\ i # j
    <3>1. CorrectionsOf(i)' = CorrectionsOf(i)
      BY <2>4, <2>5, <2>8, <1>1
    <3>2. row'[i] = row[i] /\ \A k \in Ids \ {j} : row'[k].who = row[k].who
      BY <2>2, <2>8
    <3>3. \A k \in CorrectionsOf(i) : k \in Ids \ {j}
      BY <2>5, <1>1
    <3> QED BY <3>1, <3>2, <3>3 DEF LinkOf
  <2> QED BY <2>6, <2>7, <2>8
<1>5. ASSUME Reads PROVE LinkOf(i)'
  BY <1>5, ReadsChangeNoRow DEF LinkOf, CorrectionsOf
<1> QED BY <1>2, <1>3, <1>4, <1>5, StepCases

\* ChainUnbroken is an invariant of Graduations.
THEOREM ChainHolds == Spec => []ChainUnbroken
<1>1. Init => ChainUnbroken
  BY DEF Init, ChainUnbroken, Absent
<1> QED BY <1>1, LinkStep, TypeCorrect, PTL DEF Spec

-----------------------------------------------------------------------------
(* Graduations implements GraduationBook *)

\* A graduation without a version reads as blank.
LEMMA ReadingBlank ==
  ASSUME NEW o \in Ids, Versions(o) = {}
  PROVE  Reading[o] = Blank
  BY DEF Reading

\* A graduation with an active version reads as that version says.
LEMMA ReadingActive ==
  ASSUME OneVersionCounts, NEW o \in Ids, NEW i \in Versions(o), row[i].status = "ACTIVE"
  PROVE  Reading[o] = Says(i)
<1>1. \A j \in Versions(o) : row[j].status = "ACTIVE" => j = i
  BY DEF OneVersionCounts
<1>2. (CHOOSE j \in Versions(o) : row[j].status = "ACTIVE") = i
  BY <1>1
<1> HIDE DEF Versions, Says
<1> QED BY <1>2 DEF Reading

\* A graduation all of whose versions are past reads as struck out.
LEMMA ReadingStruck ==
  ASSUME NEW o \in Ids, Versions(o) # {}, \A i \in Versions(o) : row[i].status # "ACTIVE"
  PROVE  Reading[o] = Struck
  BY DEF Reading

\* A graduation whose versions do not change reads as before.
LEMMA ReadingSame ==
  ASSUME OneVersionCounts, OneVersionCounts', NEW q \in Ids, Versions(q)' = Versions(q),
         \A j \in Versions(q) : row'[j] = row[j]
  PROVE  Reading'[q] = Reading[q]
<1>1. CASE Versions(q) = {}
  BY <1>1 DEF Reading
<1>2. CASE Versions(q) # {} /\ \A j \in Versions(q) : row[j].status # "ACTIVE"
  <2>1. \A j \in Versions(q)' : row'[j].status # "ACTIVE"
    BY <1>2
  <2> QED BY <1>2, <2>1 DEF Reading
<1>3. ASSUME NEW i \in Versions(q), row[i].status = "ACTIVE" PROVE Reading'[q] = Reading[q]
  <2>1. Reading[q] = Says(i)
    BY <1>3, ReadingActive
  <2>2. \A j \in Versions(q)' : row'[j].status = "ACTIVE" => j = i
    BY <1>3 DEF OneVersionCounts
  <2>3. (CHOOSE j \in Versions(q)' : row'[j].status = "ACTIVE") = i
    BY <1>3, <2>2
  <2>4. Reading'[q] = [who |-> row'[i].who, what |-> row'[i].what]
    BY <1>3, <2>3 DEF Reading, Says
  <2> QED BY <1>3, <2>1, <2>4 DEF Says
<1> QED BY <1>1, <1>2, <1>3

\* An entry that stands is what some active row says.
LEMMA StandingIsActive ==
  ASSUME Chains, NEW o \in Ids, Reading[o] \in Entry
  PROVE  \E i \in Versions(o) : row[i].status = "ACTIVE" /\ Reading[o] = Says(i)
<1>1. Versions(o) # {}
  BY ReadingBlank, GraduationAssumption
<1>2. \E i \in Versions(o) : row[i].status = "ACTIVE"
  BY <1>1, ReadingStruck, GraduationAssumption
<1> QED BY <1>2, ReadingActive DEF Chains

\* Every step is a step of the book or leaves it as it reads.
LEMMA BookStep == Chains /\ Chains' /\ [Next]_vars => [Book!Next]_Reading
<1> SUFFICES ASSUME Chains, Chains', [Next]_vars PROVE [Book!Next]_Reading
  OBVIOUS
<1>0. /\ Reading = [o \in Ids |-> Reading[o]]
      /\ Reading' = [o \in Ids |-> Reading'[o]]
      /\ TypeOK /\ OneVersionCounts /\ OneVersionCounts'
  BY DEF Reading, Chains
<1>1. ASSUME NEW i \in Ids, Cancel(i) PROVE Book!Next
  <2>1. PICK o : o = origin[i]
    OBVIOUS
  <2>2. /\ o \in Ids /\ i \in Versions(o)
        /\ \A q \in Ids : Versions(q)' = Versions(q)
        /\ \A j \in Versions(o) \ {i} : row[j].status = "SUPERSEDED"
        /\ \A j \in Ids \ {i} : row'[j] = row[j]
        /\ row[i].status = "ACTIVE" /\ row'[i].status = "CANCELLED"
    BY <1>1, <2>1, CancelVersions
  <2>3. Reading[o] = Says(i) /\ Says(i) \in Entry
    <3>1. row[i] \in Row
      BY <2>2, <1>0, RowHasStatus DEF TypeOK, Table, Status
    <3>2. Reading[o] = Says(i)
      BY <2>2, <1>0, ReadingActive
    <3> QED BY <3>1, <3>2, RowSays DEF Says
  <2>4. Reading'[o] = Struck
    <3>1. Versions(o)' # {} /\ \A j \in Versions(o)' : row'[j].status # "ACTIVE"
      BY <2>2 DEF Versions
    <3> QED BY <2>2, <3>1 DEF Reading
  <2>5. \A q \in Ids \ {o} : Reading'[q] = Reading[q]
    <3> TAKE q \in Ids \ {o}
    <3>1. i \notin Versions(q) /\ Versions(q) \subseteq Ids
      BY <2>1 DEF Versions
    <3>2. \A j \in Versions(q) : row'[j] = row[j]
      BY <2>2, <3>1
    <3> QED BY <2>2, <3>2, <1>0, ReadingSame
  <2>6. Reading' = [Reading EXCEPT ![o] = Struck]
    BY <1>0, <2>2, <2>4, <2>5
  <2>7. Book!Strike(o)
    BY <2>3, <2>6 DEF Book!Strike, Book!Entry, Entry
  <2> QED BY <2>2, <2>7 DEF Book!Next
<1>2. ASSUME NEW r \in Requests, NEW i \in Ids, CreateCommit(r, i) PROVE Book!Next
  <2>1. PICK e \in Entry : e = req[r].entry
    BY <1>2, <1>0, CreateEffect
  <2>2. /\ Versions(i) = {} /\ Versions(i)' = {i}
        /\ \A o \in Ids \ {i} : Versions(o)' = Versions(o) /\ i \notin Versions(o)
        /\ \A j \in Ids \ {i} : row'[j] = row[j]
        /\ row'[i].status = "ACTIVE" /\ row'[i].who = e.who /\ row'[i].what = e.what
    BY <1>2, <2>1, CreateVersions
  <2>3. Reading[i] = Blank
    BY <2>2, ReadingBlank
  <2>4. ~ Book!Standing(e)
    <3> SUFFICES ASSUME NEW o \in Ids, Reading[o] = e PROVE FALSE
      BY DEF Book!Standing
    <3>1. PICK k \in Versions(o) : row[k].status = "ACTIVE" /\ Reading[o] = Says(k)
      BY StandingIsActive
    <3>2. k \in Ids /\ Free(e, None)
      BY <1>2, <2>1 DEF Versions, CreateCommit
    <3> QED BY <3>1, <3>2, GraduationAssumption DEF Free
  <2>5. Reading'[i] = e
    <3>1. (CHOOSE j \in {i} : row'[j].status = "ACTIVE") = i
      BY <2>2
    <3>2. e = [who |-> e.who, what |-> e.what]
      BY DEF Entry
    <3>3. Reading'[i] = [who |-> row'[i].who, what |-> row'[i].what]
      BY <2>2, <3>1 DEF Reading, Says
    <3> QED BY <2>2, <3>2, <3>3
  <2>6. \A q \in Ids \ {i} : Reading'[q] = Reading[q]
    <3> TAKE q \in Ids \ {i}
    <3>1. i \notin Versions(q) /\ Versions(q) \subseteq Ids
      BY <2>2 DEF Versions
    <3>2. \A j \in Versions(q) : row'[j] = row[j]
      BY <2>2, <3>1
    <3> QED BY <2>2, <3>2, <1>0, ReadingSame
  <2>7. Reading' = [Reading EXCEPT ![i] = e]
    BY <1>0, <2>5, <2>6
  <2>8. Book!Write(i, e)
    BY <2>3, <2>4, <2>7 DEF Book!Write
  <2> QED BY <2>8 DEF Book!Next, Book!Entry, Entry
<1>3. ASSUME NEW r \in Requests, NEW j \in Ids, CorrectCommit(r, j) PROVE Book!Next
  <2>1. PICK i : i = req[r].of
    OBVIOUS
  <2>2. PICK o : o = origin[i]
    OBVIOUS
  <2>3. /\ i \in Ids /\ o \in Ids /\ i # j /\ i \in Versions(o) /\ j \notin Versions(o)
        /\ Versions(o)' = Versions(o) \cup {j}
        /\ \A q \in Ids \ {o} : Versions(q)' = Versions(q) /\ j \notin Versions(q) /\ i \notin Versions(q)
        /\ \A k \in Ids \ {i, j} : row'[k] = row[k]
        /\ row[i].status = "ACTIVE" /\ row[i] \in Row
        /\ row'[j].status = "ACTIVE" /\ row'[j].who = row[i].who /\ row'[j].what = req[r].what
    BY <1>3, <2>1, <2>2, CorrectVersions
  <2>4. PICK what \in Facts : what = req[r].what
    BY <1>3, <1>0, CorrectEffect
  <2>5. PICK e : e = [who |-> row[i].who, what |-> what]
    OBVIOUS
  <2>6. e \in Entry /\ e.who = row[i].who
    BY <2>3, <2>5, RowSays DEF Entry
  <2>7. Reading[o] = Says(i) /\ Says(i) \in Entry
    <3>1. Reading[o] = Says(i)
      BY <2>3, <1>0, ReadingActive
    <3> QED BY <2>3, <3>1, RowSays DEF Says
  <2>8. Reading'[o] = e
    <3>1. j \in Versions(o)' /\ \A k \in Versions(o)' : row'[k].status = "ACTIVE" => k = j
      BY <1>0, <2>3 DEF OneVersionCounts
    <3>2. (CHOOSE k \in Versions(o)' : row'[k].status = "ACTIVE") = j
      BY <2>3, <3>1
    <3>3. Reading'[o] = [who |-> row'[j].who, what |-> row'[j].what]
      BY <2>3, <3>1, <3>2 DEF Reading, Says
    <3> QED BY <2>3, <2>4, <2>5, <3>3
  <2>9. \A q \in Ids \ {o} : Reading'[q] = Reading[q]
    <3> TAKE q \in Ids \ {o}
    <3>1. \A k \in Versions(q) : row'[k] = row[k]
      BY <2>3 DEF Versions
    <3> QED BY <2>3, <3>1, <1>0, ReadingSame
  <2>10. Reading' = [Reading EXCEPT ![o] = e]
    BY <1>0, <2>3, <2>8, <2>9
  <2>11. Book!Standing(e) => Reading[o] = e
    <3> SUFFICES ASSUME NEW q \in Ids, Reading[q] = e PROVE Reading[o] = e
      BY DEF Book!Standing
    <3>1. PICK k \in Versions(q) : row[k].status = "ACTIVE" /\ Reading[q] = Says(k)
      BY <2>6, StandingIsActive
    <3>2. k \in Ids /\ Free(e, i)
      BY <1>3, <2>1, <2>4, <2>5 DEF Versions, CorrectCommit
    <3>3. k = i
      BY <3>1, <3>2 DEF Free
    <3> QED BY <2>7, <3>1, <3>3
  <2>12. Reading[o].who = e.who
    BY <2>6, <2>7 DEF Says
  <2>13. Book!Correct(o, e)
    BY <2>7, <2>10, <2>11, <2>12 DEF Book!Correct, Book!Entry, Entry
  <2> QED BY <2>3, <2>6, <2>13 DEF Book!Next, Book!Entry, Entry
<1>4. ASSUME Reads PROVE UNCHANGED Reading
  BY <1>4, ReadsChangeNoRow DEF Reading, Versions, Says
<1> QED BY <1>1, <1>2, <1>3, <1>4, StepCases

\* What a reader of the chains sees is a book, however creations, corrections and
\* cancellations interleave.
THEOREM GraduationsImplementBook == Spec => ImplementsBook
<1>1. Init => Book!Init
  BY DEF Init, Book!Init, Reading, Versions
<1> QED BY <1>1, ChainsHold, BookStep, PTL DEF Spec, ImplementsBook, Book!Spec
=============================================================================
