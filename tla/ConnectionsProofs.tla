------------------------- MODULE ConnectionsProofs -------------------------
(***************************************************************************)
(* Proofs about Connections, for any organisations, installs, browsers,    *)
(* accounts and tabs and any number of starts: its types, DisconnectIsFinal *)
(* and SameBrowser.                                                        *)
(*                                                                         *)
(* Both rest on serial numbers.  A row is younger than the last deletion   *)
(* of its predecessor (RowIsAfterCut), a start is at least as young as the *)
(* row it was made for (FlowsInOrder), and a callback in its exchange      *)
(* still aims at the row its start was made for (CallsAim), so what it     *)
(* stores is younger than every deletion (TokensAreFresh).  That the       *)
(* browser is one that started a connect for the row follows from the      *)
(* cookie having been compared with the row's pending state on arrival     *)
(* (CookieIsStarters, PendingIsOfRow).                                     *)
(*                                                                         *)
(* The second part is about the companies themselves: Organisation.        *)
(***************************************************************************)
EXTENDS Connections, Organisation, TLAPS, FiniteSetTheorems

(* The parts of the invariant. *)
Used(n) == flows[n] # Unused

FlowsInOrder ==
    \A n \in Serials : Used(n) => n <= serial /\ flows[n].row <= n

AnswersAreWhole ==
    \A n \in Serials : flows[n].at = "answered" =>
        flows[n].by \in Browsers /\ flows[n].answer \in Accounts \cup {Denied}

RowIsAfterCut ==
    \A o \in Orgs :
        /\ cut[o] <= serial
        /\ rows[o] # NoRow => cut[o] < rows[o].id /\ rows[o].id <= serial

PendingIsOfRow ==
    \A o \in Orgs : rows[o] # NoRow /\ rows[o].pending # 0 =>
        Used(rows[o].pending) /\ flows[rows[o].pending].row = rows[o].id

CookieIsStarters ==
    \A b \in Browsers : cookie[b] # 0 =>
        Used(cookie[b]) /\ flows[cookie[b]].starter = b

(* A browser that started a connect for the row with this id. *)
Began(b, id) ==
    \E m \in Serials : Used(m) /\ flows[m].row = id /\ flows[m].starter = b

CallsAim ==
    \A n \in Serials, k \in Tabs : calls[n][k].pc = "exchanging" =>
        /\ flows[n].at = "answered" /\ flows[n].answer \in Accounts
        /\ calls[n][k].saw # NoRow /\ calls[n][k].saw.id = flows[n].row
        /\ Began(flows[n].by, flows[n].row)

TokensAreFresh ==
    \A o \in Orgs :
        rows[o] # NoRow /\ rows[o].token # NoOne /\ rows[o].token.flow # 0 =>
        rows[o].id <= rows[o].token.flow /\ Began(rows[o].token.by, rows[o].id)

ConnectionsInv ==
    /\ TypeOK /\ FlowsInOrder /\ AnswersAreWhole /\ RowIsAfterCut
    /\ PendingIsOfRow /\ CookieIsStarters /\ CallsAim /\ TokensAreFresh

(* What a step does to one organisation's row. *)
RowKept(o) == rows'[o] = rows[o] /\ cut'[o] = cut[o]
RowGone(o) == rows'[o] = NoRow /\ cut'[o] \in {cut[o], serial}
RowCleared(o) ==
    /\ rows[o] # NoRow /\ cut'[o] = cut[o]
    /\ rows'[o] = [rows[o] EXCEPT !.pending = 0]

(* What a step leaves of the starts: whatever has been used stays used, for *)
(* the same row and browser.                                               *)
FlowsStay ==
    \A n \in Serials : Used(n) =>
        /\ flows'[n] # Unused
        /\ flows'[n].row = flows[n].row /\ flows'[n].starter = flows[n].starter

-----------------------------------------------------------------------------
(* Types.                                                                  *)

USE ConnectionsAssumption DEF ConnectionsAssumption

LEMMA SerialsAreNat == Serials \subseteq Nat /\ 0..MaxSerial \subseteq Nat
  BY DEF Serials

LEMMA FlowKinds ==
    /\ Unused.at = "unused" /\ Unused \notin Flow
    /\ \A f \in Flow : f # Unused
  BY DEF Unused, Flow

LEMMA WriteTypes ==
    ASSUME TypeOK, NEW o \in Orgs, NEW row \in Row \cup {NoRow}, Write(o, row)
    PROVE  /\ rows' \in [Orgs -> Row \cup {NoRow}]
           /\ cut' \in [Orgs -> 0..MaxSerial]
           /\ rows'[o] = row
           /\ \A p \in Orgs \ {o} : RowKept(p)
           /\ cut'[o] = IF rows[o] # NoRow /\ row = NoRow THEN serial ELSE cut[o]
  BY DEF TypeOK, Write, RowKept

LEMMA AbortedTypes ==
    ASSUME TypeOK, NEW row \in Row
    PROVE  Aborted(row) \in Row \cup {NoRow}
  BY DEF Aborted, Connected, Row

LEMMA RowByIdIs ==
    ASSUME TypeOK, NEW o \in Orgs, NEW id \in Serials
    PROVE  /\ RowById(o, id) \in Row \cup {NoRow}
           /\ RowById(o, id) # NoRow =>
                 rows[o] \in Row /\ RowById(o, id) = rows[o] /\ rows[o].id = id
  BY DEF TypeOK, RowById

LEMMA BrowserStarted ==
    ASSUME TypeOK, NEW b, NEW id, Began(b, id)
    PROVE  b \in Browsers
  BY DEF Began, Used, TypeOK, Flow

LEMMA InitHolds ==
    ASSUME Init
    PROVE  ConnectionsInv
<1>1. TypeOK
  BY SerialsAreNat DEF Init, TypeOK, Idle, Call, Unused
<1>2. /\ FlowsInOrder /\ AnswersAreWhole /\ PendingIsOfRow /\ CookieIsStarters
      /\ CallsAim /\ TokensAreFresh
  BY FlowKinds DEF Init, FlowsInOrder, AnswersAreWhole, PendingIsOfRow, CookieIsStarters,
     CallsAim, TokensAreFresh, Used, Idle, Unused
<1>3. RowIsAfterCut
  <2> SUFFICES ASSUME NEW o \in Orgs
               PROVE  cut[o] <= serial /\ rows[o] = NoRow
    BY DEF RowIsAfterCut
  <2>1. cut[o] = 0 /\ serial = 0 /\ rows[o] = NoRow
    BY DEF Init
  <2>2. QED
    BY <2>1
<1>4. QED
  BY <1>1, <1>2, <1>3 DEF ConnectionsInv

-----------------------------------------------------------------------------
(* What each operation does, types included.                               *)

LEMMA StartDoes ==
    ASSUME TypeOK, FlowsInOrder, NEW o \in Orgs, NEW b \in Browsers, Start(o, b)
    PROVE  /\ TypeOK'
           /\ serial' = serial + 1 /\ serial' \in Serials /\ ~Used(serial')
           /\ FlowsStay
           /\ \A n \in Serials \ {serial'} : flows'[n] = flows[n]
           /\ flows'[serial'] \in Flow /\ flows'[serial'].at = "dialog"
           /\ flows'[serial'].starter = b /\ flows'[serial'].row = rows'[o].id
           /\ cookie' = [cookie EXCEPT ![b] = serial']
           /\ calls' = calls
           /\ \A p \in Orgs \ {o} : RowKept(p)
           /\ cut'[o] = cut[o] /\ rows'[o] # NoRow /\ rows'[o].pending = serial'
           /\ IF rows[o] = NoRow
              THEN rows'[o].id = serial' /\ rows'[o].token = NoOne
              ELSE rows'[o].id = rows[o].id /\ rows'[o].token = rows[o].token
<1> DEFINE n == serial + 1
           row == IF rows[o] = NoRow
                  THEN [id |-> n, ig |-> NoOne, token |-> NoOne, pending |-> n]
                  ELSE [rows[o] EXCEPT !.pending = n]
           flow == [at |-> "dialog", org |-> o, row |-> row.id, starter |-> b,
                    via |-> mode[Home[o]], by |-> NoOne, answer |-> NoOne, spent |-> FALSE]
<1>1. /\ serial' = n /\ n \in Serials /\ n \in 0..MaxSerial /\ Write(o, row)
      /\ cookie' = [cookie EXCEPT ![b] = n] /\ flows' = [flows EXCEPT ![n] = flow]
      /\ UNCHANGED <<calls, mode, route>>
  BY DEF Start, TypeOK, Serials
<1>2. row \in Row /\ row.pending = n
  <2>1. CASE rows[o] = NoRow
    BY <1>1, <2>1 DEF Row
  <2>2. CASE rows[o] # NoRow
    <3>1. rows[o] \in Row
      BY <2>2 DEF TypeOK
    <3>2. QED
      BY <1>1, <2>2, <3>1 DEF Row
  <2>3. QED
    BY <2>1, <2>2
<1>3. ~Used(n)
  BY <1>1 DEF FlowsInOrder, Used, TypeOK
<1>4. flow \in Flow
  BY <1>1, <1>2 DEF Flow, TypeOK, Row
<1>5. TypeOK'
  BY <1>1, <1>2, <1>4, WriteTypes DEF TypeOK
<1>6. /\ \A p \in Orgs \ {o} : RowKept(p)
      /\ rows'[o] = row /\ cut'[o] = cut[o] /\ row # NoRow
  BY <1>1, <1>2, WriteTypes
<1>7. /\ \A m \in Serials \ {n} : flows'[m] = flows[m]
      /\ flows'[n] = flow
  BY <1>1 DEF TypeOK
<1>8. FlowsStay
  BY <1>3, <1>7 DEF FlowsStay, Used
<1>9. IF rows[o] = NoRow THEN row.id = n /\ row.token = NoOne
      ELSE row.id = rows[o].id /\ row.token = rows[o].token
  BY DEF TypeOK, Row
<1>10. flow.at = "dialog" /\ flow.starter = b /\ flow.row = row.id
  OBVIOUS
<1>11. QED
  BY <1>1, <1>2, <1>3, <1>4, <1>5, <1>6, <1>7, <1>8, <1>9, <1>10

LEMMA PasteDoes ==
    ASSUME TypeOK, NEW o \in Orgs, NEW a \in Accounts, Paste(o, a)
    PROVE  /\ TypeOK'
           /\ serial' = serial + 1 /\ UNCHANGED <<flows, calls, cookie>>
           /\ \A p \in Orgs \ {o} : RowKept(p)
           /\ cut'[o] = cut[o] /\ rows'[o] # NoRow /\ rows'[o].token.flow = 0
           /\ IF rows[o] = NoRow
              THEN rows'[o].id = serial' /\ rows'[o].pending = 0
              ELSE rows'[o].id = rows[o].id /\ rows'[o].pending = rows[o].pending
<1> DEFINE n == serial + 1
           token == [acct |-> a, flow |-> 0, by |-> Manual]
           row == IF rows[o] = NoRow
                  THEN [id |-> n, ig |-> a, token |-> token, pending |-> 0]
                  ELSE [rows[o] EXCEPT !.ig = a, !.token = token]
<1>1. /\ serial' = n /\ n \in Serials /\ n \in 0..MaxSerial /\ Write(o, row)
      /\ UNCHANGED <<flows, calls, cookie, mode, route>>
  BY DEF Paste, TypeOK, Serials
<1>2. token \in Token
  BY DEF Token
<1>3. row \in Row /\ row.token.flow = 0
  <2>1. CASE rows[o] = NoRow
    BY <1>1, <1>2, <2>1 DEF Row
  <2>2. CASE rows[o] # NoRow
    <3>1. rows[o] \in Row
      BY <2>2 DEF TypeOK
    <3>2. QED
      BY <1>1, <1>2, <2>2, <3>1 DEF Row
  <2>3. QED
    BY <2>1, <2>2
<1>4. IF rows[o] = NoRow THEN row.id = n /\ row.pending = 0
      ELSE row.id = rows[o].id /\ row.pending = rows[o].pending
  BY DEF TypeOK, Row
<1>5. TypeOK'
  BY <1>1, <1>3, WriteTypes DEF TypeOK
<1>6. /\ \A p \in Orgs \ {o} : RowKept(p)
      /\ rows'[o] = row /\ cut'[o] = cut[o] /\ row # NoRow
  BY <1>1, <1>3, WriteTypes
<1>7. QED
  BY <1>1, <1>3, <1>4, <1>5, <1>6

LEMMA AnswerDoes ==
    ASSUME TypeOK, NEW n \in Serials, NEW b \in Browsers,
           NEW a \in Accounts \cup {Denied}, Answer(n, b, a)
    PROVE  /\ TypeOK' /\ FlowsStay
           /\ flows[n].at = "dialog" /\ flows'[n].by = b /\ flows'[n].answer = a
           /\ \A m \in Serials \ {n} : flows'[m] = flows[m]
           /\ \A m \in Serials : flows'[m] # Unused => Used(m)
<1>1. /\ flows[n].at = "dialog"
      /\ flows' = [flows EXCEPT ![n] = [flows[n] EXCEPT !.at = "answered", !.by = b, !.answer = a]]
      /\ UNCHANGED <<rows, calls, cookie, mode, serial, cut>>
  BY DEF Answer, TypeOK
<1>2. flows[n] \in Flow
  BY <1>1, FlowKinds DEF TypeOK
<1>3. flows'[n] = [flows[n] EXCEPT !.at = "answered", !.by = b, !.answer = a]
  BY <1>1 DEF TypeOK
<1>4. /\ flows'[n] \in Flow /\ flows'[n].by = b /\ flows'[n].answer = a
      /\ flows'[n].row = flows[n].row /\ flows'[n].starter = flows[n].starter
  BY <1>2, <1>3 DEF Flow
<1>5. \A m \in Serials \ {n} : flows'[m] = flows[m]
  BY <1>1 DEF TypeOK
<1>6. flows' \in [Serials -> Flow \cup {Unused}]
  BY <1>1, <1>4, <1>5 DEF TypeOK
<1>7. route' \in [Accounts -> Installs \cup {NoOne}]
  BY <1>2 DEF Answer, TypeOK, Flow
<1>8. TypeOK'
  BY <1>1, <1>6, <1>7 DEF TypeOK
<1>9. QED
  BY <1>1, <1>2, <1>4, <1>5, <1>8, FlowKinds DEF FlowsStay, Used

(* The other operations leave the starts, the serial and the cookies alone *)
(* and at most delete rows or end their pending state.                     *)
Quiet ==
    /\ TypeOK'
    /\ UNCHANGED <<flows, cookie, serial>>
    /\ \A o \in Orgs : RowKept(o) \/ RowGone(o) \/ RowCleared(o)

LEMMA CancelDoes ==
    ASSUME TypeOK, NEW o \in Orgs, Cancel(o)
    PROVE  Quiet /\ UNCHANGED calls
<1>1. rows[o] \in Row /\ Write(o, Aborted(rows[o]))
  BY DEF Cancel, TypeOK
<1>2. Aborted(rows[o]) \in Row \cup {NoRow}
  BY <1>1, AbortedTypes
<1>3. TypeOK'
  BY <1>1, <1>2, WriteTypes DEF TypeOK, Cancel
<1>4. RowGone(o) \/ RowCleared(o)
  BY <1>1, <1>2, WriteTypes DEF RowGone, RowCleared, Aborted
<1>5. QED
  BY <1>1, <1>2, <1>3, <1>4, WriteTypes DEF Quiet, Cancel

LEMMA DisconnectDoes ==
    ASSUME TypeOK, NEW o \in Orgs, Disconnect(o)
    PROVE  Quiet /\ UNCHANGED calls
<1>1. Write(o, NoRow) /\ rows[o] # NoRow
  BY DEF Disconnect
<1>2. TypeOK'
  BY <1>1, WriteTypes DEF TypeOK, Disconnect
<1>3. RowGone(o)
  BY <1>1, WriteTypes DEF RowGone
<1>4. QED
  BY <1>1, <1>2, <1>3, WriteTypes DEF Quiet, Disconnect

LEMMA DropDoes ==
    ASSUME TypeOK, NEW i \in Installs, NEW a \in Accounts, Drop(i, a)
    PROVE  /\ rows' \in [Orgs -> Row \cup {NoRow}] /\ cut' \in [Orgs -> 0..MaxSerial]
           /\ \A o \in Orgs : RowKept(o) \/ RowGone(o)
  BY DEF Drop, Without, TypeOK, RowKept, RowGone

LEMMA PlatformDoes ==
    ASSUME TypeOK,
           \/ \E i \in Installs, a \in Accounts : PlatformEvent(i, a)
           \/ \E a \in Accounts, up \in BOOLEAN : RelayDeauthorize(a, up)
           \/ \E a \in Accounts : RelayDeletion(a)
           \/ \E i \in Installs : SwitchMode(i)
    PROVE  Quiet /\ UNCHANGED calls
<1>1. ASSUME NEW i \in Installs, NEW a \in Accounts, PlatformEvent(i, a)
      PROVE  Quiet /\ UNCHANGED calls
  BY <1>1, DropDoes DEF PlatformEvent, Quiet, TypeOK
<1>2. ASSUME NEW a \in Accounts, NEW up \in BOOLEAN, RelayDeauthorize(a, up)
      PROVE  Quiet /\ UNCHANGED calls
  <2>1. /\ route' = [route EXCEPT ![a] = NoOne]
        /\ UNCHANGED <<flows, calls, cookie, mode, serial>>
    BY <1>2 DEF RelayDeauthorize
  <2>2. CASE Takes(a) /\ up
    <3>1. route[a] \in Installs /\ Drop(route[a], a)
      BY <1>2, <2>2 DEF RelayDeauthorize, Takes, TypeOK
    <3>2. QED
      BY <2>1, <3>1, DropDoes DEF Quiet, TypeOK
  <2>3. CASE ~(Takes(a) /\ up)
    BY <1>2, <2>1, <2>3 DEF RelayDeauthorize, Quiet, TypeOK, RowKept
  <2>4. QED
    BY <2>2, <2>3
<1>3. ASSUME NEW a \in Accounts, RelayDeletion(a)
      PROVE  Quiet /\ UNCHANGED calls
  <2>1. UNCHANGED <<flows, calls, cookie, mode, route, serial>>
    BY <1>3 DEF RelayDeletion
  <2>2. CASE Takes(a)
    <3>1. route[a] \in Installs /\ Drop(route[a], a)
      BY <1>3, <2>2 DEF RelayDeletion, Takes, TypeOK
    <3>2. QED
      BY <2>1, <3>1, DropDoes DEF Quiet, TypeOK
  <2>3. CASE ~Takes(a)
    BY <1>3, <2>1, <2>3 DEF RelayDeletion, Quiet, TypeOK, RowKept
  <2>4. QED
    BY <2>2, <2>3
<1>4. ASSUME NEW i \in Installs, SwitchMode(i)
      PROVE  Quiet /\ UNCHANGED calls
  BY <1>4 DEF SwitchMode, Quiet, TypeOK, RowKept
<1>5. QED
  BY <1>1, <1>2, <1>3, <1>4

LEMMA LandRefusedDoes ==
    ASSUME TypeOK, NEW n \in Serials, NEW k \in Tabs, LandRefused(n, k)
    PROVE  /\ Quiet
           /\ calls' = [calls EXCEPT ![n][k].pc = "ended"]
<1> DEFINE f == flows[n]
           row == RowById(f.org, f.row)
<1>1. f \in Flow
  BY FlowKinds DEF LandRefused, TypeOK
<1>2. /\ calls' = [calls EXCEPT ![n][k].pc = "ended"]
      /\ UNCHANGED <<flows, cookie, mode, route, serial>>
  BY DEF LandRefused
<1>3. calls' \in [Serials -> [Tabs -> Call]]
  <2>1. calls[n][k] \in Call
    BY DEF TypeOK
  <2>2. [calls[n][k] EXCEPT !.pc = "ended"] \in Call
    BY <2>1 DEF Call
  <2>3. QED
    BY <1>2, <2>2 DEF TypeOK
<1>4. f.org \in Orgs /\ f.row \in Serials
  BY <1>1 DEF Flow
<1>5. CASE row = NoRow
  BY <1>2, <1>3, <1>5 DEF LandRefused, Quiet, TypeOK, RowKept
<1>6. CASE row # NoRow
  <2>1. rows[f.org] \in Row /\ row = rows[f.org]
    BY <1>4, <1>6, RowByIdIs
  <2>2. Write(f.org, Aborted(rows[f.org]))
    BY <1>6, <2>1 DEF LandRefused
  <2>3. Aborted(rows[f.org]) \in Row \cup {NoRow}
    BY <2>1, AbortedTypes
  <2>4. RowGone(f.org) \/ RowCleared(f.org)
    BY <1>4, <2>1, <2>2, <2>3, WriteTypes DEF RowGone, RowCleared, Aborted
  <2>5. TypeOK'
    BY <1>2, <1>3, <1>4, <2>2, <2>3, WriteTypes DEF TypeOK
  <2>6. QED
    BY <1>2, <1>4, <2>2, <2>3, <2>4, <2>5, WriteTypes DEF Quiet
<1>7. QED
  BY <1>2, <1>5, <1>6

LEMMA LandDoes ==
    ASSUME TypeOK, NEW n \in Serials, NEW k \in Tabs, Land(n, k)
    PROVE  /\ Quiet
           /\ flows[n] \in Flow /\ flows[n].at = "answered" /\ flows[n].answer # Denied
           /\ rows[flows[n].org] \in Row /\ rows[flows[n].org].id = flows[n].row
           /\ rows[flows[n].org].pending # 0
           /\ rows[flows[n].org].pending = cookie[flows[n].by]
           /\ calls' = [calls EXCEPT ![n][k] =
                          [pc |-> "exchanging", saw |-> rows[flows[n].org]]]
<1> DEFINE f == flows[n]
           row == RowById(f.org, f.row)
<1>1. f \in Flow
  BY FlowKinds DEF Land, TypeOK
<1>2. f.org \in Orgs /\ f.row \in Serials
  BY <1>1 DEF Flow
<1>3. row # NoRow /\ row.pending # 0 /\ row.pending = cookie[f.by]
  BY DEF Land, Valid
<1>4. rows[f.org] \in Row /\ row = rows[f.org] /\ rows[f.org].id = f.row
  BY <1>2, <1>3, RowByIdIs
<1>5. /\ calls' = [calls EXCEPT ![n][k] = [pc |-> "exchanging", saw |-> rows[f.org]]]
      /\ UNCHANGED <<rows, flows, cookie, mode, route, serial, cut>>
      /\ f.at = "answered" /\ f.answer # Denied
  BY <1>4 DEF Land
<1>6. TypeOK'
  BY <1>4, <1>5 DEF TypeOK, Call
<1>7. QED
  BY <1>1, <1>3, <1>4, <1>5, <1>6 DEF Quiet, RowKept

LEMMA EndedTypes ==
    ASSUME TypeOK, NEW n \in Serials, NEW k \in Tabs
    PROVE  /\ Ended(n, k) \in [Serials -> [Tabs -> Call]]
           /\ \A m \in Serials, l \in Tabs :
                 Ended(n, k)[m][l].pc = "exchanging" => Ended(n, k)[m][l] = calls[m][l]
  BY DEF Ended, TypeOK, Call

LEMMA SpentTypes ==
    ASSUME TypeOK, NEW n \in Serials, flows[n] \in Flow,
           flows' = [flows EXCEPT ![n].spent = TRUE]
    PROVE  /\ flows' \in [Serials -> Flow \cup {Unused}] /\ FlowsStay
           /\ \A m \in Serials : /\ flows'[m] # Unused => Used(m)
                                 /\ flows'[m].at = flows[m].at
                                 /\ flows'[m].by = flows[m].by
                                 /\ flows'[m].row = flows[m].row
                                 /\ flows'[m].answer = flows[m].answer
<1>1. /\ \A m \in Serials \ {n} : flows'[m] = flows[m]
      /\ flows'[n] = [flows[n] EXCEPT !.spent = TRUE]
  BY DEF TypeOK
<1>2. /\ flows'[n] \in Flow /\ flows'[n].at = flows[n].at /\ flows'[n].by = flows[n].by
      /\ flows'[n].answer = flows[n].answer
      /\ flows'[n].row = flows[n].row /\ flows'[n].starter = flows[n].starter
  <2> DEFINE f == [flows[n] EXCEPT !.spent = TRUE]
  <2>1. flows'[n] = f
    BY <1>1
  <2>2. f \in Flow
    BY DEF Flow
  <2>3. /\ f.at = flows[n].at /\ f.by = flows[n].by /\ f.answer = flows[n].answer
        /\ f.row = flows[n].row /\ f.starter = flows[n].starter
    BY DEF Flow
  <2>4. QED
    BY <2>1, <2>2, <2>3
<1>3. flows' \in [Serials -> Flow \cup {Unused}]
  BY <1>1, <1>2 DEF TypeOK
<1>4. QED
  BY <1>1, <1>2, <1>3, FlowKinds DEF FlowsStay, Used
LEMMA ConnectDoes ==
    ASSUME TypeOK, CallsAim, NEW n \in Serials, NEW k \in Tabs, Connect(n, k)
    PROVE  /\ TypeOK' /\ FlowsStay /\ UNCHANGED <<cookie, serial>>
           /\ calls' = Ended(n, k)
           /\ flows[n] \in Flow /\ flows' = [flows EXCEPT ![n].spent = TRUE]
           /\ \A p \in Orgs \ {flows[n].org} : RowKept(p)
           /\ \/ RowKept(flows[n].org)
              \/ /\ rows[flows[n].org] # NoRow /\ rows'[flows[n].org] # NoRow
                 /\ cut'[flows[n].org] = cut[flows[n].org]
                 /\ rows[flows[n].org].id = flows[n].row
                 /\ rows'[flows[n].org].id = flows[n].row
                 /\ rows'[flows[n].org].pending = 0
                 /\ rows'[flows[n].org].token.flow = n
                 /\ rows'[flows[n].org].token.by = flows[n].by
<1> DEFINE o == flows[n].org
           saw == calls[n][k].saw
           token == [acct |-> flows[n].answer, flow |-> n, by |-> flows[n].by]
           row == Stored(o, saw, flows[n].answer, token)
<1>1. /\ calls[n][k].pc = "exchanging" /\ flows' = [flows EXCEPT ![n].spent = TRUE]
      /\ calls' = Ended(n, k) /\ Write(o, row)
      /\ UNCHANGED <<cookie, mode, route, serial>>
  BY DEF Connect
<1>2. /\ flows[n].at = "answered" /\ flows[n].answer \in Accounts
      /\ saw # NoRow /\ saw.id = flows[n].row /\ Began(flows[n].by, flows[n].row)
  BY <1>1 DEF CallsAim
<1>3. flows[n] \in Flow
  BY <1>2, FlowKinds DEF TypeOK
<1>4. /\ o \in Orgs /\ flows[n].row \in Serials
      /\ saw \in Row
  BY <1>2, <1>3 DEF Flow, TypeOK, Call
<1>5. flows[n].by \in Browsers
  BY <1>2, <1>3, BrowserStarted DEF Began
<1>6. token \in Token /\ token.flow = n /\ token.by = flows[n].by
  BY <1>2, <1>5 DEF Token, Serials
<1>7. CASE RowById(o, saw.id) = NoRow
  <2>1. row = rows[o] /\ row \in Row \cup {NoRow}
    BY <1>4, <1>7 DEF Stored, TypeOK
  <2>2. TypeOK'
    BY <1>1, <1>3, <1>4, <2>1, WriteTypes, EndedTypes, SpentTypes DEF TypeOK
  <2>3. RowKept(o)
    BY <1>1, <1>4, <2>1, WriteTypes DEF RowKept
  <2>4. QED
    BY <1>1, <1>3, <1>4, <2>1, <2>2, <2>3, WriteTypes, SpentTypes
<1>8. CASE RowById(o, saw.id) # NoRow
  <2>1. rows[o] \in Row /\ rows[o].id = flows[n].row /\ rows[o] # NoRow
    BY <1>2, <1>4, <1>8, RowByIdIs
  <2>2. row = [rows[o] EXCEPT !.ig = IF saw.ig = flows[n].answer THEN @ ELSE flows[n].answer,
                              !.token = token, !.pending = 0]
    BY <1>8 DEF Stored, Flushed
  <2> DEFINE ig == IF saw.ig = flows[n].answer THEN rows[o].ig ELSE flows[n].answer
             made == [rows[o] EXCEPT !.ig = ig, !.token = token, !.pending = 0]
  <2>2a. ig \in Accounts \cup {NoOne}
    BY <1>2, <2>1 DEF Row
  <2>2b. row = made
    BY <2>1, <2>2 DEF Row
  <2>2c. made \in Row /\ made.id = rows[o].id /\ made.pending = 0 /\ made.token = token
    <3> HIDE DEF ig, token
    <3>1. token \in Token \cup {NoOne} /\ 0 \in 0..MaxSerial
      BY <1>6
    <3>2. QED
      BY <2>1, <2>2a, <3>1 DEF Row
  <2>3. row \in Row /\ row.id = flows[n].row /\ row.pending = 0 /\ row.token = token
    BY <2>1, <2>2b, <2>2c
  <2>4. /\ rows'[o] = row /\ cut'[o] = cut[o] /\ row # NoRow
        /\ \A p \in Orgs \ {o} : RowKept(p)
        /\ rows' \in [Orgs -> Row \cup {NoRow}] /\ cut' \in [Orgs -> 0..MaxSerial]
    BY <1>1, <1>4, <2>3, WriteTypes
  <2>5. TypeOK'
    BY <1>1, <1>3, <2>4, EndedTypes, SpentTypes DEF TypeOK
  <2>6. QED
    BY <1>1, <1>3, <1>6, <2>1, <2>3, <2>4, <2>5, SpentTypes
<1>9. QED
  BY <1>7, <1>8

LEMMA ExchangeFailsDoes ==
    ASSUME TypeOK, CallsAim, NEW n \in Serials, NEW k \in Tabs, ExchangeFails(n, k)
    PROVE  /\ TypeOK' /\ FlowsStay /\ UNCHANGED <<cookie, serial>>
           /\ calls' = Ended(n, k)
           /\ flows[n] \in Flow /\ flows' = [flows EXCEPT ![n].spent = TRUE]
           /\ \A o \in Orgs : RowKept(o) \/ RowGone(o) \/ RowCleared(o)
<1> DEFINE o == flows[n].org
           saw == calls[n][k].saw
           row == IF Connected(saw) THEN [rows[o] EXCEPT !.pending = 0] ELSE NoRow
<1>1. /\ calls[n][k].pc = "exchanging" /\ flows' = [flows EXCEPT ![n].spent = TRUE]
      /\ calls' = Ended(n, k) /\ UNCHANGED <<cookie, mode, route, serial>>
  BY DEF ExchangeFails
<1>2. /\ flows[n].at = "answered" /\ saw # NoRow /\ saw.id = flows[n].row
  BY <1>1 DEF CallsAim
<1>3. flows[n] \in Flow
  BY <1>2, FlowKinds DEF TypeOK
<1>4. o \in Orgs /\ flows[n].row \in Serials
  BY <1>3 DEF Flow
<1>5. CASE RowById(o, saw.id) = NoRow
  <2>1. UNCHANGED <<rows, cut>>
    BY <1>5 DEF ExchangeFails
  <2>2. TypeOK'
    BY <1>1, <1>3, <2>1, EndedTypes, SpentTypes DEF TypeOK
  <2>3. QED
    BY <1>1, <1>3, <2>1, <2>2, SpentTypes DEF RowKept
<1>6. CASE RowById(o, saw.id) # NoRow
  <2>1. Write(o, row)
    BY <1>6 DEF ExchangeFails
  <2>2. rows[o] \in Row /\ rows[o] # NoRow
    BY <1>2, <1>4, <1>6, RowByIdIs
  <2>3. row \in Row \cup {NoRow}
    BY <2>2 DEF Row
  <2>4. RowGone(o) \/ RowCleared(o)
    BY <1>4, <2>1, <2>2, <2>3, WriteTypes DEF RowGone, RowCleared
  <2>5. TypeOK'
    BY <1>1, <1>3, <1>4, <2>1, <2>3, WriteTypes, EndedTypes, SpentTypes DEF TypeOK
  <2>6. QED
    BY <1>1, <1>3, <1>4, <2>1, <2>3, <2>4, <2>5, WriteTypes, SpentTypes
<1>7. QED
  BY <1>5, <1>6

-----------------------------------------------------------------------------
(* The invariant.                                                          *)

(* Steps that store nothing keep everything that is said about rows.       *)
LEMMA RowsStand ==
    ASSUME ConnectionsInv, TypeOK', FlowsStay, UNCHANGED <<cookie, serial>>,
           \A o \in Orgs : RowKept(o) \/ RowGone(o) \/ RowCleared(o)
    PROVE  RowIsAfterCut' /\ PendingIsOfRow' /\ CookieIsStarters' /\ TokensAreFresh'
<1>1. \A b \in Browsers, id \in Serials : Began(b, id) => Began(b, id)'
  BY DEF Began, FlowsStay, Used
<1>2. \A o \in Orgs : rows'[o] # NoRow =>
        /\ rows[o] \in Row /\ rows[o] # NoRow /\ cut'[o] = cut[o]
        /\ rows'[o].id = rows[o].id /\ rows'[o].token = rows[o].token
        /\ rows'[o].pending \in {0, rows[o].pending}
  BY DEF ConnectionsInv, TypeOK, RowKept, RowGone, RowCleared, Row
<1>3. RowIsAfterCut'
  BY <1>2, SerialsAreNat DEF ConnectionsInv, RowIsAfterCut, RowKept, RowGone, RowCleared, TypeOK
<1>4. PendingIsOfRow'
  <2> SUFFICES ASSUME NEW o \in Orgs, rows'[o] # NoRow, rows'[o].pending # 0
               PROVE  /\ Used(rows[o].pending)'
                      /\ flows'[rows'[o].pending].row = rows'[o].id
    BY DEF PendingIsOfRow
  <2>1. rows[o].pending \in Serials /\ rows'[o].pending = rows[o].pending
    BY <1>2 DEF Row, Serials, ConnectionsInv, TypeOK
  <2>2. Used(rows[o].pending) /\ flows[rows[o].pending].row = rows[o].id
    BY <1>2, <2>1 DEF ConnectionsInv, PendingIsOfRow, Serials
  <2>3. QED
    BY <1>2, <2>1, <2>2 DEF FlowsStay, Used
<1>5. CookieIsStarters'
  <2>1. \A b \in Browsers : cookie[b] # 0 => cookie[b] \in Serials
    BY DEF ConnectionsInv, TypeOK, Serials
  <2>2. QED
    BY <2>1 DEF ConnectionsInv, CookieIsStarters, FlowsStay, Used
<1>6. TokensAreFresh'
  <2> SUFFICES ASSUME NEW o \in Orgs, rows'[o] # NoRow, rows'[o].token # NoOne,
                      rows'[o].token.flow # 0
               PROVE  /\ rows'[o].id <= rows'[o].token.flow
                      /\ Began(rows[o].token.by, rows[o].id)'
    BY DEF TokensAreFresh
  <2>1. /\ rows[o].id <= rows[o].token.flow /\ Began(rows[o].token.by, rows[o].id)
        /\ rows[o].id \in Serials
    BY <1>2 DEF ConnectionsInv, TokensAreFresh, Row
  <2>2. rows[o].token.by \in Browsers
    BY <2>1, BrowserStarted DEF ConnectionsInv
  <2>3. QED
    BY <1>1, <1>2, <2>1, <2>2
<1>7. QED
  BY <1>3, <1>4, <1>5, <1>6
(* A start: its serial is new, so nobody has it in a cookie or a row yet.  *)
LEMMA StartKeeps ==
    ASSUME ConnectionsInv, NEW o \in Orgs, NEW b \in Browsers, Start(o, b)
    PROVE  ConnectionsInv'
<1> USE DEF ConnectionsInv
<1> DEFINE n == serial'
<1>1. /\ TypeOK' /\ FlowsStay
      /\ n = serial + 1 /\ n \in Serials /\ ~Used(n)
      /\ \A m \in Serials \ {n} : flows'[m] = flows[m]
      /\ flows'[n] \in Flow /\ flows'[n].at = "dialog"
      /\ flows'[n].starter = b /\ flows'[n].row = rows'[o].id
      /\ cookie' = [cookie EXCEPT ![b] = n] /\ calls' = calls
      /\ \A p \in Orgs \ {o} : RowKept(p)
      /\ cut'[o] = cut[o] /\ rows'[o] # NoRow /\ rows'[o].pending = n
      /\ IF rows[o] = NoRow
         THEN rows'[o].id = n /\ rows'[o].token = NoOne
         ELSE rows'[o].id = rows[o].id /\ rows'[o].token = rows[o].token
  BY StartDoes
<1> HIDE DEF n
<1>2. n \in Nat /\ serial \in Nat
  BY <1>1, SerialsAreNat DEF TypeOK
<1>3. RowIsAfterCut'
  <2>1. \A p \in Orgs : cut'[p] = cut[p] /\ cut[p] \in Nat /\ cut[p] <= serial
    BY <1>1, SerialsAreNat DEF RowIsAfterCut, RowKept, TypeOK
  <2>2. ASSUME NEW p \in Orgs, rows'[p] # NoRow
        PROVE  cut[p] < rows'[p].id /\ rows'[p].id <= n
    <3>1. CASE p # o \/ rows[o] # NoRow
      <4>1. rows[p] # NoRow /\ rows'[p].id = rows[p].id
        BY <1>1, <2>2, <3>1 DEF RowKept
      <4>2. cut[p] < rows[p].id /\ rows[p].id <= serial /\ rows[p].id \in Nat
        BY <4>1, SerialsAreNat DEF RowIsAfterCut, TypeOK, Row
      <4>3. QED
        BY <1>1, <1>2, <4>1, <4>2
    <3>2. CASE p = o /\ rows[o] = NoRow
      BY <1>1, <1>2, <2>1, <3>2
    <3>3. QED
      BY <3>1, <3>2
  <2>3. QED
    BY <1>1, <1>2, <2>1, <2>2 DEF RowIsAfterCut, n
<1>4. FlowsInOrder'
  <2>1. \A m \in Serials : Used(m) => m <= n
    BY <1>1, <1>2, SerialsAreNat DEF FlowsInOrder
  <2>2. flows'[n].row <= n
    BY <1>1, <1>3, SerialsAreNat DEF RowIsAfterCut, n
  <2>3. QED
    BY <1>1, <1>2, <2>1, <2>2 DEF FlowsInOrder, Used, n
<1>5. AnswersAreWhole'
  BY <1>1 DEF AnswersAreWhole
<1>6. PendingIsOfRow'
  <2> SUFFICES ASSUME NEW p \in Orgs, rows'[p] # NoRow, rows'[p].pending # 0
               PROVE  /\ Used(rows[p].pending)'
                      /\ flows'[rows'[p].pending].row = rows'[p].id
    BY DEF PendingIsOfRow
  <2>1. CASE p = o
    BY <1>1, <2>1, FlowKinds DEF Used
  <2>2. CASE p # o
    <3>1. rows'[p] = rows[p] /\ rows[p].pending \in Serials
      BY <1>1, <2>2 DEF RowKept, TypeOK, Row, Serials
    <3>2. Used(rows[p].pending) /\ flows[rows[p].pending].row = rows[p].id
      BY <3>1 DEF PendingIsOfRow
    <3>3. QED
      BY <1>1, <3>1, <3>2 DEF FlowsStay, Used
  <2>3. QED
    BY <2>1, <2>2
<1>7. CookieIsStarters'
  <2> SUFFICES ASSUME NEW c \in Browsers, cookie'[c] # 0
               PROVE  Used(cookie[c])' /\ flows'[cookie'[c]].starter = c
    BY DEF CookieIsStarters
  <2>1. CASE c = b
    BY <1>1, <2>1, FlowKinds DEF Used, TypeOK
  <2>2. CASE c # b
    <3>1. cookie'[c] = cookie[c] /\ cookie[c] \in Serials
      BY <1>1, <2>2 DEF TypeOK, Serials
    <3>2. Used(cookie[c]) /\ flows[cookie[c]].starter = c
      BY <3>1 DEF CookieIsStarters
    <3>3. QED
      BY <1>1, <3>1, <3>2 DEF FlowsStay, Used
  <2>3. QED
    BY <2>1, <2>2
<1>8. \A c \in Browsers, id \in Serials : Began(c, id) => Began(c, id)'
  BY <1>1 DEF Began, FlowsStay, Used
<1>9. CallsAim'
  <2> SUFFICES ASSUME NEW m \in Serials, NEW k \in Tabs, calls[m][k].pc = "exchanging"
               PROVE  /\ flows'[m].at = "answered" /\ flows'[m].answer \in Accounts
                      /\ calls[m][k].saw # NoRow /\ calls[m][k].saw.id = flows'[m].row
                      /\ Began(flows[m].by, flows[m].row)'
    BY <1>1 DEF CallsAim
  <2>1. /\ flows[m].at = "answered" /\ flows[m].answer \in Accounts
        /\ calls[m][k].saw # NoRow /\ calls[m][k].saw.id = flows[m].row
        /\ Began(flows[m].by, flows[m].row)
    BY DEF CallsAim
  <2>2. m # n /\ flows[m] \in Flow
    BY <1>1, <2>1, FlowKinds DEF Used, TypeOK
  <2>3. flows'[m] = flows[m] /\ flows[m].row \in Serials
    BY <1>1, <2>2 DEF Flow
  <2>4. flows[m].by \in Browsers
    BY <2>1, BrowserStarted
  <2>5. QED
    BY <1>8, <2>1, <2>3, <2>4
<1>10. TokensAreFresh'
  <2> SUFFICES ASSUME NEW p \in Orgs, rows'[p] # NoRow, rows'[p].token # NoOne,
                      rows'[p].token.flow # 0
               PROVE  /\ rows'[p].id <= rows'[p].token.flow
                      /\ Began(rows[p].token.by, rows[p].id)'
    BY DEF TokensAreFresh
  <2>1. rows[p] # NoRow /\ rows'[p].id = rows[p].id /\ rows'[p].token = rows[p].token
    BY <1>1 DEF RowKept
  <2>2. /\ rows[p].id <= rows[p].token.flow /\ Began(rows[p].token.by, rows[p].id)
        /\ rows[p].id \in Serials
    BY <2>1 DEF TokensAreFresh, TypeOK, Row
  <2>3. rows[p].token.by \in Browsers
    BY <2>2, BrowserStarted
  <2>4. QED
    BY <1>8, <2>1, <2>2, <2>3
<1>11. QED
  BY <1>1, <1>3, <1>4, <1>5, <1>6, <1>7, <1>9, <1>10

LEMMA PasteKeeps ==
    ASSUME ConnectionsInv, NEW o \in Orgs, NEW a \in Accounts, Paste(o, a)
    PROVE  ConnectionsInv'
<1> USE DEF ConnectionsInv
<1>1. /\ TypeOK' /\ serial' = serial + 1 /\ UNCHANGED <<flows, calls, cookie>>
      /\ \A p \in Orgs \ {o} : RowKept(p)
      /\ cut'[o] = cut[o] /\ rows'[o] # NoRow /\ rows'[o].token.flow = 0
      /\ IF rows[o] = NoRow
         THEN rows'[o].id = serial' /\ rows'[o].pending = 0
         ELSE rows'[o].id = rows[o].id /\ rows'[o].pending = rows[o].pending
  BY PasteDoes
<1>2. serial \in Nat /\ serial' \in Nat
  BY <1>1, SerialsAreNat DEF TypeOK
<1>3. RowIsAfterCut'
  <2>1. \A p \in Orgs : cut'[p] = cut[p] /\ cut[p] \in Nat /\ cut[p] <= serial
    BY <1>1, SerialsAreNat DEF RowIsAfterCut, RowKept, TypeOK
  <2>2. ASSUME NEW p \in Orgs, rows'[p] # NoRow
        PROVE  cut[p] < rows'[p].id /\ rows'[p].id <= serial'
    <3>1. CASE p # o \/ rows[o] # NoRow
      <4>1. rows[p] # NoRow /\ rows'[p].id = rows[p].id
        BY <1>1, <2>2, <3>1 DEF RowKept
      <4>2. cut[p] < rows[p].id /\ rows[p].id <= serial /\ rows[p].id \in Nat
        BY <4>1, SerialsAreNat DEF RowIsAfterCut, TypeOK, Row
      <4>3. QED
        BY <1>1, <1>2, <4>1, <4>2
    <3>2. CASE p = o /\ rows[o] = NoRow
      BY <1>1, <1>2, <2>1, <3>2
    <3>3. QED
      BY <3>1, <3>2
  <2>3. QED
    BY <1>1, <1>2, <2>1, <2>2 DEF RowIsAfterCut
<1>4. FlowsInOrder'
  BY <1>1, <1>2, SerialsAreNat DEF FlowsInOrder, Used
<1>5. AnswersAreWhole' /\ CookieIsStarters'
  BY <1>1 DEF AnswersAreWhole, CookieIsStarters, Used
<1>6. CallsAim'
  BY <1>1 DEF CallsAim, Began, Used
<1>7. PendingIsOfRow'
  <2>1. \A p \in Orgs : rows'[p] # NoRow /\ rows'[p].pending # 0 =>
          rows[p] # NoRow /\ rows'[p].pending = rows[p].pending /\ rows'[p].id = rows[p].id
    BY <1>1 DEF RowKept
  <2>2. QED
    BY <1>1, <2>1 DEF PendingIsOfRow, Used
<1>8. TokensAreFresh'
  <2>1. \A p \in Orgs : rows'[p] # NoRow /\ rows'[p].token.flow # 0 => rows'[p] = rows[p]
    BY <1>1 DEF RowKept
  <2>2. QED
    BY <1>1, <2>1 DEF TokensAreFresh, Began, Used
<1>9. QED
  BY <1>1, <1>3, <1>4, <1>5, <1>6, <1>7, <1>8

(* An answer changes nothing but how far its start is.                     *)
LEMMA AnswerKeeps ==
    ASSUME ConnectionsInv, NEW n \in Serials, NEW b \in Browsers,
           NEW a \in Accounts \cup {Denied}, Answer(n, b, a)
    PROVE  ConnectionsInv'
<1> USE DEF ConnectionsInv
<1>1. /\ TypeOK' /\ FlowsStay
      /\ flows[n].at = "dialog" /\ flows'[n].by = b /\ flows'[n].answer = a
      /\ \A m \in Serials \ {n} : flows'[m] = flows[m]
      /\ \A m \in Serials : flows'[m] # Unused => Used(m)
  BY AnswerDoes
<1>2. UNCHANGED <<rows, calls, cookie, serial, cut>>
  BY DEF Answer
<1>3. RowIsAfterCut' /\ PendingIsOfRow' /\ CookieIsStarters' /\ TokensAreFresh'
  BY <1>1, <1>2, RowsStand DEF RowKept
<1>4. FlowsInOrder'
  BY <1>1, <1>2 DEF FlowsInOrder, FlowsStay, Used
<1>5. AnswersAreWhole'
  BY <1>1 DEF AnswersAreWhole
<1>6. CallsAim'
  <2> SUFFICES ASSUME NEW m \in Serials, NEW k \in Tabs, calls[m][k].pc = "exchanging"
               PROVE  /\ flows'[m].at = "answered" /\ flows'[m].answer \in Accounts
                      /\ calls[m][k].saw # NoRow /\ calls[m][k].saw.id = flows'[m].row
                      /\ Began(flows[m].by, flows[m].row)'
    BY <1>2 DEF CallsAim
  <2>1. /\ flows[m].at = "answered" /\ flows[m].answer \in Accounts
        /\ calls[m][k].saw # NoRow /\ calls[m][k].saw.id = flows[m].row
        /\ Began(flows[m].by, flows[m].row)
    BY DEF CallsAim
  <2>2. flows'[m] = flows[m]
    BY <1>1, <2>1
  <2>3. Began(flows[m].by, flows[m].row)'
    BY <1>1, <2>1, <2>2 DEF Began, FlowsStay, Used
  <2>4. QED
    BY <2>1, <2>2, <2>3
<1>7. QED
  BY <1>1, <1>3, <1>4, <1>5, <1>6

(* What is left of the calls when a step starts none.                      *)
CallsStay ==
    \A n \in Serials, k \in Tabs :
        calls'[n][k].pc = "exchanging" => calls'[n][k] = calls[n][k]

LEMMA QuietKeeps ==
    ASSUME ConnectionsInv, Quiet, CallsStay
    PROVE  ConnectionsInv'
<1> USE DEF ConnectionsInv, Quiet
<1>1. FlowsStay
  BY DEF FlowsStay, Used
<1>2. RowIsAfterCut' /\ PendingIsOfRow' /\ CookieIsStarters' /\ TokensAreFresh'
  BY <1>1, RowsStand
<1>3. FlowsInOrder' /\ AnswersAreWhole'
  BY DEF FlowsInOrder, AnswersAreWhole, Used
<1>4. CallsAim'
  BY DEF CallsAim, CallsStay, Began, Used
<1>5. QED
  BY <1>2, <1>3, <1>4

(* The call that lands has compared the cookie with the pending state.     *)
LEMMA LandKeeps ==
    ASSUME ConnectionsInv, NEW n \in Serials, NEW k \in Tabs, Land(n, k)
    PROVE  ConnectionsInv'
<1> USE DEF ConnectionsInv
<1> DEFINE o == flows[n].org
<1>1. /\ Quiet
      /\ flows[n] \in Flow /\ flows[n].at = "answered" /\ flows[n].answer # Denied
      /\ rows[o] \in Row /\ rows[o].id = flows[n].row
      /\ rows[o].pending # 0 /\ rows[o].pending = cookie[flows[n].by]
      /\ calls' = [calls EXCEPT ![n][k] = [pc |-> "exchanging", saw |-> rows[o]]]
  BY LandDoes
<1>2. o \in Orgs /\ rows[o] # NoRow
  BY <1>1 DEF Flow
<1>3. flows[n].by \in Browsers /\ flows[n].answer \in Accounts
  BY <1>1 DEF AnswersAreWhole
<1>4. Began(flows[n].by, flows[n].row)
  <2>1. rows[o].pending \in Serials
    BY <1>1 DEF Row, Serials
  <2>2. Used(rows[o].pending) /\ flows[rows[o].pending].row = flows[n].row
    BY <1>1, <1>2 DEF PendingIsOfRow
  <2>3. flows[rows[o].pending].starter = flows[n].by
    BY <1>1, <1>3 DEF CookieIsStarters
  <2>4. QED
    BY <2>1, <2>2, <2>3 DEF Began
<1>5. FlowsStay
  BY <1>1 DEF FlowsStay, Used, Quiet
<1>6. RowIsAfterCut' /\ PendingIsOfRow' /\ CookieIsStarters' /\ TokensAreFresh'
  BY <1>1, <1>5, RowsStand DEF Quiet
<1>7. FlowsInOrder' /\ AnswersAreWhole'
  BY <1>1 DEF FlowsInOrder, AnswersAreWhole, Used, Quiet
<1>8. CallsAim'
  <2> SUFFICES ASSUME NEW m \in Serials, NEW l \in Tabs, calls'[m][l].pc = "exchanging"
               PROVE  /\ flows[m].at = "answered" /\ flows[m].answer \in Accounts
                      /\ calls'[m][l].saw # NoRow /\ calls'[m][l].saw.id = flows[m].row
                      /\ Began(flows[m].by, flows[m].row)
    BY <1>1 DEF CallsAim, Began, Used, Quiet
  <2>1. CASE m = n /\ l = k
    <3>1. calls'[m][l] = [pc |-> "exchanging", saw |-> rows[o]]
      BY <1>1, <2>1 DEF TypeOK
    <3>2. QED
      BY <1>1, <1>2, <1>3, <1>4, <2>1, <3>1
  <2>2. CASE ~(m = n /\ l = k)
    <3>1. calls'[m][l] = calls[m][l]
      BY <1>1, <2>2 DEF TypeOK
    <3>2. QED
      BY <3>1 DEF CallsAim
  <2>3. QED
    BY <2>1, <2>2
<1>9. QED
  BY <1>1, <1>6, <1>7, <1>8 DEF Quiet

(* The end of an exchange leaves every other call as it was.               *)
LEMMA SpentKeeps ==
    ASSUME ConnectionsInv, TypeOK', NEW n \in Serials, NEW k \in Tabs,
           flows[n] \in Flow, flows' = [flows EXCEPT ![n].spent = TRUE],
           calls' = Ended(n, k), serial' = serial
    PROVE  FlowsInOrder' /\ AnswersAreWhole' /\ CallsAim'
<1> USE DEF ConnectionsInv
<1>1. /\ FlowsStay
      /\ \A m \in Serials : /\ flows'[m] # Unused => Used(m)
                            /\ flows'[m].at = flows[m].at
                            /\ flows'[m].by = flows[m].by
                            /\ flows'[m].row = flows[m].row
                            /\ flows'[m].answer = flows[m].answer
  BY SpentTypes
<1>2. FlowsInOrder'
  BY <1>1 DEF FlowsInOrder, Used
<1>3. AnswersAreWhole'
  BY <1>1 DEF AnswersAreWhole
<1>4. CallsAim'
  <2> SUFFICES ASSUME NEW m \in Serials, NEW l \in Tabs, calls'[m][l].pc = "exchanging"
               PROVE  /\ flows'[m].at = "answered" /\ flows'[m].answer \in Accounts
                      /\ calls'[m][l].saw # NoRow /\ calls'[m][l].saw.id = flows'[m].row
                      /\ Began(flows[m].by, flows[m].row)'
    BY DEF CallsAim
  <2>1. calls'[m][l] = calls[m][l]
    BY EndedTypes
  <2>2. /\ flows[m].at = "answered" /\ flows[m].answer \in Accounts
        /\ calls[m][l].saw # NoRow /\ calls[m][l].saw.id = flows[m].row
        /\ Began(flows[m].by, flows[m].row)
    BY <2>1 DEF CallsAim
  <2>3. Began(flows[m].by, flows[m].row)'
    BY <1>1, <2>2 DEF Began, FlowsStay, Used
  <2>4. QED
    BY <1>1, <2>1, <2>2, <2>3
<1>5. QED
  BY <1>2, <1>3, <1>4

LEMMA ExchangeFailsKeeps ==
    ASSUME ConnectionsInv, NEW n \in Serials, NEW k \in Tabs, ExchangeFails(n, k)
    PROVE  ConnectionsInv'
<1> USE DEF ConnectionsInv
<1>1. /\ TypeOK' /\ FlowsStay /\ UNCHANGED <<cookie, serial>>
      /\ calls' = Ended(n, k)
      /\ flows[n] \in Flow /\ flows' = [flows EXCEPT ![n].spent = TRUE]
      /\ \A o \in Orgs : RowKept(o) \/ RowGone(o) \/ RowCleared(o)
  BY ExchangeFailsDoes
<1>2. RowIsAfterCut' /\ PendingIsOfRow' /\ CookieIsStarters' /\ TokensAreFresh'
  BY <1>1, RowsStand
<1>3. FlowsInOrder' /\ AnswersAreWhole' /\ CallsAim'
  BY <1>1, SpentKeeps
<1>4. QED
  BY <1>1, <1>2, <1>3

(* What is stored has the serial of a start that was made for this row, and *)
(* the browser is one that began a connect for it.                         *)
LEMMA ConnectKeeps ==
    ASSUME ConnectionsInv, NEW n \in Serials, NEW k \in Tabs, Connect(n, k)
    PROVE  ConnectionsInv'
<1> USE DEF ConnectionsInv
<1> DEFINE o == flows[n].org
<1>1. /\ TypeOK' /\ FlowsStay /\ UNCHANGED <<cookie, serial>>
      /\ calls' = Ended(n, k)
      /\ flows[n] \in Flow /\ flows' = [flows EXCEPT ![n].spent = TRUE]
      /\ \A p \in Orgs \ {o} : RowKept(p)
      /\ \/ RowKept(o)
         \/ /\ rows[o] # NoRow /\ rows'[o] # NoRow /\ cut'[o] = cut[o]
            /\ rows[o].id = flows[n].row /\ rows'[o].id = flows[n].row
            /\ rows'[o].pending = 0
            /\ rows'[o].token.flow = n /\ rows'[o].token.by = flows[n].by
  BY ConnectDoes
<1>2. FlowsInOrder' /\ AnswersAreWhole' /\ CallsAim'
  BY <1>1, SpentKeeps
<1>3. CASE RowKept(o)
  <2>1. RowIsAfterCut' /\ PendingIsOfRow' /\ CookieIsStarters' /\ TokensAreFresh'
    BY <1>1, <1>3, RowsStand
  <2>2. QED
    BY <1>1, <1>2, <2>1
<1>4. CASE /\ rows[o] # NoRow /\ rows'[o] # NoRow /\ cut'[o] = cut[o]
           /\ rows[o].id = flows[n].row /\ rows'[o].id = flows[n].row
           /\ rows'[o].pending = 0
           /\ rows'[o].token.flow = n /\ rows'[o].token.by = flows[n].by
  <2>1. /\ calls[n][k].pc = "exchanging"
        /\ o \in Orgs /\ Used(n) /\ n \in Nat /\ flows[n].row \in Nat
    BY <1>1, FlowKinds, SerialsAreNat DEF Connect, Flow, Used
  <2>2. Began(flows[n].by, flows[n].row) /\ flows[n].row <= n
    BY <2>1 DEF CallsAim, FlowsInOrder
  <2>3. RowIsAfterCut'
    BY <1>1, <1>4 DEF RowIsAfterCut, RowKept
  <2>4. PendingIsOfRow'
    <3> SUFFICES ASSUME NEW p \in Orgs, rows'[p] # NoRow, rows'[p].pending # 0
                 PROVE  /\ Used(rows[p].pending)'
                        /\ flows'[rows'[p].pending].row = rows'[p].id
      BY DEF PendingIsOfRow
    <3>1. rows'[p] = rows[p] /\ rows[p].pending \in Serials
      BY <1>1, <1>4 DEF RowKept, TypeOK, Row, Serials
    <3>2. Used(rows[p].pending) /\ flows[rows[p].pending].row = rows[p].id
      BY <3>1 DEF PendingIsOfRow
    <3>3. QED
      BY <1>1, <3>1, <3>2 DEF FlowsStay, Used
  <2>5. CookieIsStarters'
    <3>1. \A b \in Browsers : cookie[b] # 0 => cookie[b] \in Serials
      BY DEF TypeOK, Serials
    <3>2. QED
      BY <1>1, <3>1 DEF CookieIsStarters, FlowsStay, Used
  <2>6. TokensAreFresh'
    <3> SUFFICES ASSUME NEW p \in Orgs, rows'[p] # NoRow, rows'[p].token # NoOne,
                        rows'[p].token.flow # 0
                 PROVE  /\ rows'[p].id <= rows'[p].token.flow
                        /\ Began(rows[p].token.by, rows[p].id)'
      BY DEF TokensAreFresh
    <3>1. CASE p = o
      <4>1. Began(flows[n].by, flows[n].row)'
        BY <1>1, <2>2, SpentTypes DEF Began, FlowsStay, Used
      <4>2. rows'[p].token.by = flows[n].by /\ rows'[p].id = flows[n].row
        BY <1>4, <3>1
      <4>3. flows'[n].by = flows[n].by /\ flows'[n].row = flows[n].row
        BY <1>1, SpentTypes
      <4>4. Began(rows[p].token.by, rows[p].id)'
        BY <4>1, <4>2, <4>3
      <4>5. QED
        BY <1>4, <2>2, <3>1, <4>4
    <3>2. CASE p # o
      <4>1. rows'[p] = rows[p]
        BY <1>1, <3>2 DEF RowKept
      <4>2. /\ rows[p].id <= rows[p].token.flow /\ Began(rows[p].token.by, rows[p].id)
        BY <4>1 DEF TokensAreFresh
      <4>3. Began(rows[p].token.by, rows[p].id)'
        BY <1>1, <4>1, <4>2 DEF Began, FlowsStay, Used
      <4>4. QED
        BY <4>1, <4>2, <4>3
    <3>3. QED
      BY <3>1, <3>2
  <2>7. QED
    BY <1>1, <1>2, <2>3, <2>4, <2>5, <2>6
<1>5. QED
  BY <1>1, <1>3, <1>4

LEMMA NextKeeps ==
    ASSUME ConnectionsInv, Next
    PROVE  ConnectionsInv'
<1>1. ASSUME NEW o \in Orgs, NEW b \in Browsers, Start(o, b) PROVE ConnectionsInv'
  BY <1>1, StartKeeps
<1>2. ASSUME NEW o \in Orgs, Cancel(o) \/ Disconnect(o) PROVE ConnectionsInv'
  BY <1>2, CancelDoes, DisconnectDoes, QuietKeeps DEF ConnectionsInv, CallsStay
<1>3. ASSUME NEW o \in Orgs, NEW a \in Accounts, Paste(o, a) PROVE ConnectionsInv'
  BY <1>3, PasteKeeps
<1>4. ASSUME NEW n \in Serials, NEW b \in Browsers, NEW a \in Accounts \cup {Denied},
             Answer(n, b, a)
      PROVE  ConnectionsInv'
  BY <1>4, AnswerKeeps
<1>5. ASSUME NEW n \in Serials, NEW k \in Tabs, LandRefused(n, k) PROVE ConnectionsInv'
  <2>1. Quiet /\ calls' = [calls EXCEPT ![n][k].pc = "ended"]
    BY <1>5, LandRefusedDoes DEF ConnectionsInv
  <2>2. CallsStay
    <3> SUFFICES ASSUME NEW m \in Serials, NEW l \in Tabs, calls'[m][l].pc = "exchanging"
                 PROVE  calls'[m][l] = calls[m][l]
      BY DEF CallsStay
    <3>1. ~(m = n /\ l = k)
      BY <2>1 DEF ConnectionsInv, TypeOK, Call
    <3>2. QED
      BY <2>1, <3>1 DEF ConnectionsInv, TypeOK
  <2>3. QED
    BY <2>1, <2>2, QuietKeeps
<1>6. ASSUME NEW n \in Serials, NEW k \in Tabs,
             Land(n, k) \/ Connect(n, k) \/ ExchangeFails(n, k)
      PROVE  ConnectionsInv'
  BY <1>6, LandKeeps, ConnectKeeps, ExchangeFailsKeeps
<1>7. ASSUME \/ \E i \in Installs, a \in Accounts : PlatformEvent(i, a)
             \/ \E a \in Accounts, up \in BOOLEAN : RelayDeauthorize(a, up)
             \/ \E a \in Accounts : RelayDeletion(a)
             \/ \E i \in Installs : SwitchMode(i)
      PROVE  ConnectionsInv'
  BY <1>7, PlatformDoes, QuietKeeps DEF ConnectionsInv, CallsStay
<1>8. QED
  BY <1>1, <1>2, <1>3, <1>4, <1>5, <1>6, <1>7 DEF Next

(* The invariant holds in every reachable state, for any organisations,    *)
(* browsers and accounts and any number of starts.                         *)
THEOREM ConnectionsInvariant == Spec => []ConnectionsInv
<1>1. ConnectionsInv /\ [Next]_vars => ConnectionsInv'
  <2>1. ConnectionsInv /\ UNCHANGED vars => ConnectionsInv'
    BY DEF ConnectionsInv, TypeOK, FlowsInOrder, AnswersAreWhole, RowIsAfterCut, PendingIsOfRow,
       CookieIsStarters, CallsAim, TokensAreFresh, Began, Used, vars
  <2>2. QED
    BY <2>1, NextKeeps
<1>2. QED
  BY InitHolds, <1>1, PTL DEF Spec

(* Every variable keeps its kind.                                          *)
THEOREM TypeCorrect == Spec => []TypeOK
  BY ConnectionsInvariant, PTL DEF ConnectionsInv

(* Whatever a row's token came from was started after the organisation's   *)
(* last disconnect: callbacks that were under way then store nothing.      *)
THEOREM DisconnectsAreFinal == Spec => []DisconnectIsFinal
<1>1. ConnectionsInv => DisconnectIsFinal
  <2> SUFFICES ASSUME ConnectionsInv, NEW o \in Orgs,
                      rows[o] # NoRow, rows[o].token # NoOne, rows[o].token.flow # 0
               PROVE  rows[o].token.flow > cut[o]
    BY DEF DisconnectIsFinal
  <2>1. rows[o].id <= rows[o].token.flow /\ cut[o] < rows[o].id
    BY DEF ConnectionsInv, TokensAreFresh, RowIsAfterCut
  <2>2. rows[o].id \in Nat /\ cut[o] \in Nat /\ rows[o].token.flow \in Nat
    BY SerialsAreNat DEF ConnectionsInv, TypeOK, Row, Token
  <2>3. QED
    BY <2>1, <2>2
<1>2. QED
  BY ConnectionsInvariant, <1>1, PTL

(* The browser that finished a connect is one that started a connect for   *)
(* this row.                                                               *)
THEOREM BrowsersMatch == Spec => []SameBrowser
<1>1. ConnectionsInv => SameBrowser
  BY DEF ConnectionsInv, TokensAreFresh, Began, Used, SameBrowser
<1>2. QED
  BY ConnectionsInvariant, <1>1, PTL

----------------------------------------------------------------------------
(***************************************************************************)
(* Proofs about Organisation, for any people, invites, products and        *)
(* settings and finitely many requests: its types, OneOwner, TeamSurvives  *)
(* and SetupOnce.                                                          *)
(*                                                                         *)
(* Everything rests on what a request may have read before it writes.  A   *)
(* removal or a change of role has read rows of members who are not their  *)
(* company's founder, an accept only rows of the invited user              *)
(* (RequestsSound), and the keys it has read name those rows for good: a   *)
(* key is never used again while somebody holds it (NewRowIsMember).  So   *)
(* the row of a founder stays as long as the company (RowsInPlace).        *)
(***************************************************************************)
(* What a request has read, in each of its kinds. *)
MemberKey == [user : Users, org : Companies, id : Nat]
Given == {"admin", "member"}
Request ==
    [kind : {"idle"}]
    \cup [kind : {"missing", "claimed", "register"}, user : Users]
    \cup [kind : {"invite"}, org : Companies, user : Users, inv : Invites, role : Given]
    \cup [kind : {"revoke"}, inv : Invites]
    \cup [kind : {"accept"}, user : Users, inv : Invites, org : Companies, role : Given,
          rows : SUBSET MemberKey, moves : SUBSET Products]
    \cup [kind : {"remove"}, rows : SUBSET MemberKey]
    \cup [kind : {"role"}, rows : SUBSET MemberKey, role : Given]
    \cup [kind : {"profile"}, org : Companies, key : Settings, seen : Profile]
    \cup [kind : {"product"}, org : Companies, prod : Products]

HasRows(d) == d.kind \in {"accept", "remove", "role"}

(* A removal or a change of role names no founder's row, and an accepted   *)
(* invite only rows of the invited user.                                   *)
Sound(d) ==
    /\ d \in Request
    /\ HasRows(d) => IsFiniteSet(d.rows)
    /\ d.kind \in {"remove", "role"} => \A k \in d.rows : k.user # k.org
    /\ d.kind = "accept" => d.user \in users /\ \A k \in d.rows : k.user = d.user

RequestsSound == req \in [Reqs -> Request] /\ \A r \in Reqs : Sound(req[r])

(* An invite names a company and a person.                                 *)
InvitesWhole ==
    \A i \in Invites :
        invites[i].there => invites[i].org \in Companies /\ invites[i].to \in Users

(* Companies are never founded twice, nor without their founder. *)
RowsInPlace ==
    /\ orgs \subseteq users
    /\ IsFiniteSet(members)
    /\ \A m \in members : /\ m.org \in orgs /\ m.user \in users
                          /\ m.role = "owner" <=> m.user = m.org
    /\ \A m, n \in members : m.user = n.user /\ m.org = n.org => m = n
    /\ \A o \in orgs : \E m \in members : m.user = o /\ m.org = o

OrgInv == OrganisationTypeOK /\ RequestsSound /\ InvitesWhole /\ RowsInPlace

(* The rows that requests hold are finitely many.                          *)
LEMMA HeldIsFinite ==
    ASSUME OrgInv PROVE IsFiniteSet(Held)
<1> DEFINE R == {r \in Reqs : req[r].kind \in {"accept", "remove", "role"}}
           T == {req[r].rows : r \in R}
           f == [r \in R |-> req[r].rows]
<1>1. IsFiniteSet(R)
  BY FS_Subset, OrganisationAssumption DEF OrganisationAssumption
<1>2. f \in Surjection(R, T)
  BY DEF Surjection
<1>3. IsFiniteSet(T)
  BY <1>1, <1>2, FS_Surjection
<1>4. \A t \in T : IsFiniteSet(t)
  BY DEF OrgInv, RequestsSound, Sound, HasRows
<1>5. IsFiniteSet(UNION T)
  BY <1>3, <1>4, FS_UNION
<1> QED BY <1>5 DEF Held

(* A new row has a primary key of its own: requests hold finitely many.    *)
LEMMA NewRowIsMember ==
    ASSUME OrgInv, NEW u \in Users, NEW o \in Companies,
           NEW role \in Roles
    PROVE  /\ NewRow(u, o, role) \in Member
           /\ NewRow(u, o, role).user = u /\ NewRow(u, o, role).org = o
           /\ NewRow(u, o, role).role = role
<1> DEFINE c == Cardinality(Held)
           K(n) == [user |-> u, org |-> o, id |-> n]
           f == [n \in 0..c |-> K(n)]
<1>1. IsFiniteSet(Held) /\ c \in Nat
  BY HeldIsFinite, FS_CardinalityType
<1>2. IsFiniteSet(0..c) /\ Cardinality(0..c) = c + 1
  BY <1>1, FS_Interval
<1>3. \E n \in 0..c : K(n) \notin Held
  <2>1. SUFFICES ASSUME \A n \in 0..c : K(n) \in Held PROVE FALSE
    OBVIOUS
  <2>2. f \in [0..c -> Held]
    BY <2>1
  <2>3. \A x, y \in 0..c : f[x] = f[y] => x = y
    <3>1. SUFFICES ASSUME NEW x \in 0..c, NEW y \in 0..c, f[x] = f[y] PROVE x = y
      OBVIOUS
    <3>2. K(x).id = x /\ K(y).id = y /\ f[x] = K(x) /\ f[y] = K(y)
      OBVIOUS
    <3> QED BY <3>1, <3>2
  <2>4. c < Cardinality(0..c)
    BY <1>1, <1>2
  <2>5. \E x, y \in 0..c : x # y /\ f[x] = f[y]
    <3>1. IsFiniteSet(0..c) /\ IsFiniteSet(Held) /\ Cardinality(Held) < Cardinality(0..c)
      BY <1>1, <1>2, <2>4
    <3>2. f \in [0..c -> Held]
      BY <2>2
    <3> HIDE DEF f, c
    <3> QED BY <3>1, <3>2, FS_PigeonHole
  <2> QED BY <2>3, <2>5
<1>4. PICK n \in 0..c : n = (CHOOSE i \in 0..c : K(i) \notin Held)
  BY <1>3
<1>5. NewRow(u, o, role) = [user |-> u, org |-> o, role |-> role, id |-> n]
  BY <1>4 DEF NewRow
<1> QED BY <1>1, <1>5 DEF Member

(* A step that changes one request to something sound, and loses no user.  *)
LEMMA ReqIsSound ==
    ASSUME OrgInv, NEW r \in Reqs, NEW d, Sound(d), req' = [req EXCEPT ![r] = d],
           users \subseteq users'
    PROVE  RequestsSound'
<1>1. d \in Request /\ req \in [Reqs -> Request]
  BY DEF Sound, OrgInv, RequestsSound
<1>2. req' \in [Reqs -> Request]
  BY <1>1
<1>3. \A x \in Reqs : req'[x] = IF x = r THEN d ELSE req[x]
  BY <1>1
<1>4. \A x \in Reqs : Sound(req'[x])
  BY <1>3 DEF OrgInv, RequestsSound
<1>5. \A x \in Reqs : Sound(req[x])'
  BY <1>3, <1>4 DEF Sound
<1> QED BY <1>2, <1>5 DEF RequestsSound

(* A request that has ended holds nothing.                                 *)
LEMMA IdleIsSound == Sound(NoRequest)
<1>1. NoRequest \in Request
  BY DEF NoRequest, Request
<1>2. NoRequest.kind = "idle"
  BY DEF NoRequest
<1> QED BY <1>1, <1>2 DEF Sound, HasRows

(* A request that only reads.                                              *)
LEMMA KeepsReading ==
    ASSUME OrgInv, NEW r \in Reqs, NEW d, Sound(d), req' = [req EXCEPT ![r] = d],
           UNCHANGED <<people, members, invites, assets>>
    PROVE  OrgInv'
<1>1. RequestsSound'
  BY ReqIsSound DEF people
<1>2. OrganisationTypeOK'
  BY DEF OrgInv, OrganisationTypeOK, people, assets
<1>3. InvitesWhole' /\ RowsInPlace'
  BY DEF OrgInv, InvitesWhole, RowsInPlace, people
<1> QED BY <1>1, <1>2, <1>3 DEF OrgInv

(* A request that ends without having written.                             *)
LEMMA KeepsRefused ==
    ASSUME OrgInv, NEW r \in Reqs, Refused(r) PROVE OrgInv'
BY KeepsReading, IdleIsSound DEF Refused, End

(* A registration founds a company that has never been.                    *)
LEMMA KeepsRegistered ==
    ASSUME OrgInv, NEW r \in Reqs, NEW u \in Users, u \notin users,
           Registered(u), End(r), super' \subseteq super \cup {u},
           instance' \in {instance, "sealed"}, UNCHANGED <<seeded, invites, assets>>
    PROVE  OrgInv'
<1> DEFINE row == NewRow(u, u, "owner")
<1>1. /\ row \in Member /\ row.user = u /\ row.org = u /\ row.role = "owner"
  BY NewRowIsMember DEF Companies, Roles
<1>2. members' = members \cup {row} /\ users' = users \cup {u} /\ orgs' = orgs \cup {u}
  BY DEF Registered
<1> HIDE DEF row
<1>3. OrganisationTypeOK'
  BY <1>1, <1>2 DEF OrgInv, OrganisationTypeOK, assets, Companies
<1>4. RequestsSound'
  BY <1>2, ReqIsSound, IdleIsSound DEF End
<1>5. InvitesWhole'
  BY DEF OrgInv, InvitesWhole
<1>6. u \notin orgs /\ \A m \in members : m.user # u /\ m.org # u
  BY DEF OrgInv, RowsInPlace
<1>7. IsFiniteSet(members')
  BY <1>2, FS_AddElement DEF OrgInv, RowsInPlace
<1>8. /\ orgs' \subseteq users'
      /\ \A m \in members' : /\ m.org \in orgs' /\ m.user \in users'
                             /\ m.role = "owner" <=> m.user = m.org
      /\ \A m, n \in members' : m.user = n.user /\ m.org = n.org => m = n
      /\ \A o \in orgs' : \E m \in members' : m.user = o /\ m.org = o
  BY <1>1, <1>2, <1>6 DEF OrgInv, RowsInPlace
<1> QED BY <1>3, <1>4, <1>5, <1>7, <1>8 DEF OrgInv, RowsInPlace

(* Invites change in nothing that the rows depend on.                      *)
LEMMA KeepsInvites ==
    ASSUME OrgInv, RequestsSound', invites' \in [Invites -> Invite], InvitesWhole',
           UNCHANGED <<people, members, assets>>
    PROVE  OrgInv'
BY DEF OrgInv, OrganisationTypeOK, RowsInPlace, people, assets

(* The company an invite is accepted for is none of those that are left.   *)
LEMMA JoinsAnother ==
    ASSUME OrgInv, NEW r \in Reqs, Is(r, "accept"), MayJoin(r)
    PROVE  /\ req[r].org \in orgs \ Left(r)
           /\ req[r].user # req[r].org
           /\ req[r].user \in Users /\ req[r].role \in Given /\ req[r].inv \in Invites
           /\ req[r].org \in Companies
<1>1. Sound(req[r]) /\ req[r].kind = "accept"
  BY DEF OrgInv, RequestsSound, Is
<1>2. req[r] \in Request /\ \A k \in req[r].rows : k.user = req[r].user
  BY <1>1 DEF Sound
<1>3. req[r] \in [kind : {"accept"}, user : Users, inv : Invites, org : Companies, role : Given,
                 rows : SUBSET MemberKey, moves : SUBSET Products]
  BY <1>1, <1>2 DEF Request
<1>4. req[r].org \in orgs /\ RowOf(req[r].user, req[r].org) = {}
  BY DEF MayJoin
<1>5. PICK m \in members : m.user = req[r].org /\ m.org = req[r].org
  BY <1>4 DEF OrgInv, RowsInPlace
<1>6. req[r].user # req[r].org
  BY <1>4, <1>5 DEF RowOf
<1>7. ASSUME req[r].org \in Left(r) PROVE FALSE
  <2>1. Of(req[r].org) \subseteq Leaving(r)
    BY <1>7 DEF MayJoin, Childless
  <2>2. m \in Leaving(r)
    BY <1>5, <2>1 DEF Of
  <2>3. Key(m) \in req[r].rows /\ Key(m).user = m.user
    BY <2>2 DEF Leaving, Key
  <2> QED BY <1>2, <1>5, <1>6, <2>3
<1> QED BY <1>3, <1>4, <1>6, <1>7

(* The primary keys a request reads are finitely many.                     *)
LEMMA KeysAreFinite ==
    ASSUME OrgInv, NEW S \in SUBSET members
    PROVE  IsFiniteSet({Key(m) : m \in S}) /\ {Key(m) : m \in S} \in SUBSET MemberKey
<1> DEFINE T == {Key(m) : m \in S}
           f == [m \in S |-> Key(m)]
<1>1. IsFiniteSet(S)
  BY FS_Subset DEF OrgInv, RowsInPlace
<1>2. f \in Surjection(S, T)
  BY DEF Surjection
<1>3. IsFiniteSet(T)
  BY <1>1, <1>2, FS_Surjection
<1>4. \A m \in S : Key(m) \in MemberKey
  BY DEF OrgInv, OrganisationTypeOK, Member, Key, MemberKey
<1> QED BY <1>3, <1>4

(* The reads, one by one.                                                  *)
LEMMA KeepsReads ==
    ASSUME OrgInv, NEW r \in Reqs, Reads(r) PROVE OrgInv'
<1>1. ASSUME NEW u \in Users, SetupLooks(r, u) PROVE OrgInv'
  <2> DEFINE d == [kind |-> IF instance = "open" THEN "claimed" ELSE "missing", user |-> u]
  <2>1. d.kind \in {"claimed", "missing"} /\ d \in Request
    BY DEF Request
  <2>2. Sound(d)
    BY <2>1 DEF Sound, HasRows
  <2>3. req' = [req EXCEPT ![r] = d] /\ UNCHANGED <<people, members, invites, assets>>
    BY <1>1 DEF SetupLooks, SetupSees, Begin
  <2> QED BY <2>2, <2>3, KeepsReading
<1>2. ASSUME NEW u \in Users, RegisterReads(r, u) PROVE OrgInv'
  <2> DEFINE d == [kind |-> "register", user |-> u]
  <2>1. d.kind = "register" /\ d \in Request
    BY DEF Request
  <2>2. Sound(d)
    BY <2>1 DEF Sound, HasRows
  <2>3. req' = [req EXCEPT ![r] = d] /\ UNCHANGED <<people, members, invites, assets>>
    BY <1>2 DEF RegisterReads, Begin
  <2> QED BY <2>2, <2>3, KeepsReading
<1>3. ASSUME NEW by \in Users, NEW u \in Users, NEW i \in Invites, NEW role \in InviteRoles,
             InviteReads(r, by, u, i, role)
      PROVE  OrgInv'
  <2>1. PICK o \in orgs :
          req' = [req EXCEPT ![r] = [kind |-> "invite", org |-> o, user |-> u, inv |-> i,
                                     role |-> role]]
    BY <1>3 DEF InviteReads, Begin
  <2> DEFINE d == [kind |-> "invite", org |-> o, user |-> u, inv |-> i, role |-> role]
  <2>2. o \in Companies /\ role \in Given
    BY OrganisationAssumption DEF OrgInv, OrganisationTypeOK, OrganisationAssumption, Given
  <2>3. d.kind = "invite" /\ d \in Request
    BY <2>2 DEF Request
  <2>4. Sound(d)
    BY <2>3 DEF Sound, HasRows
  <2>5. UNCHANGED <<people, members, invites, assets>>
    BY <1>3 DEF InviteReads
  <2> QED BY <2>1, <2>4, <2>5, KeepsReading
<1>4. ASSUME NEW by \in Users, NEW i \in Invites, RevokeReads(r, by, i) PROVE OrgInv'
  <2> DEFINE d == [kind |-> "revoke", inv |-> i]
  <2>1. d.kind = "revoke" /\ d \in Request
    BY DEF Request
  <2>2. Sound(d)
    BY <2>1 DEF Sound, HasRows
  <2>3. req' = [req EXCEPT ![r] = d] /\ UNCHANGED <<people, members, invites, assets>>
    BY <1>4 DEF RevokeReads, Begin
  <2> QED BY <2>2, <2>3, KeepsReading
<1>5. ASSUME NEW i \in Invites, AcceptReads(r, i) PROVE OrgInv'
  <2> DEFINE u == invites[i].to
             K == {Key(m) : m \in Rows(u)}
             P == {p \in Products : \E m \in Rows(u) : products[p] = m.org}
             d == [kind |-> "accept", user |-> u, inv |-> i, org |-> invites[i].org,
                   role |-> invites[i].role, rows |-> K, moves |-> P]
  <2>1. /\ u \in Users /\ u \in users /\ invites[i].org \in Companies /\ invites[i].role \in Given
        /\ req' = [req EXCEPT ![r] = d] /\ UNCHANGED <<people, members, invites, assets>>
    BY <1>5 DEF AcceptReads, Acceptable, Pending, OrgInv, OrganisationTypeOK, InvitesWhole,
                Invite, Begin, Given
  <2>2. IsFiniteSet(K) /\ K \in SUBSET MemberKey
    <3>1. Rows(u) \in SUBSET members
      BY DEF Rows
    <3> QED BY <3>1, KeysAreFinite
  <2>3. \A k \in K : k.user = u
    BY DEF Rows, Key
  <2>4. d \in Request
    <3>1. P \in SUBSET Products
      OBVIOUS
    <3> HIDE DEF K, P, u
    <3> QED BY <2>1, <2>2, <3>1 DEF Request
  <2>5. d.kind = "accept" /\ d.rows = K /\ d.user = u
    OBVIOUS
  <2> HIDE DEF d, K, u
  <2>6. Sound(d)
    BY <2>1, <2>2, <2>3, <2>4, <2>5 DEF Sound, HasRows
  <2> QED BY <2>1, <2>6, KeepsReading
<1>6. ASSUME NEW by \in Users, NEW m \in members, RemoveReads(r, by, m) PROVE OrgInv'
  <2> DEFINE d == [kind |-> "remove", rows |-> {Key(m)}]
  <2>1. m.role # "owner" /\ m.user # m.org
    BY <1>6 DEF RemoveReads, Removable, OrgInv, RowsInPlace
  <2>2. Key(m) \in MemberKey /\ Key(m).user # Key(m).org
    BY <2>1 DEF Key, MemberKey, OrgInv, OrganisationTypeOK, Member
  <2>3. d.kind = "remove" /\ d.rows = {Key(m)} /\ d \in Request
    BY <2>2 DEF Request
  <2>f. IsFiniteSet({Key(m)})
    BY FS_Singleton
  <2> HIDE DEF d
  <2>4. Sound(d)
    BY <2>2, <2>3, <2>f DEF Sound, HasRows
  <2>5. req' = [req EXCEPT ![r] = d] /\ UNCHANGED <<people, members, invites, assets>>
    BY <1>6 DEF RemoveReads, Begin, d
  <2> QED BY <2>4, <2>5, KeepsReading
<1>7. ASSUME NEW by \in Users, NEW m \in members, NEW role \in {"admin", "member"},
             RoleReads(r, by, m, role)
      PROVE  OrgInv'
  <2> DEFINE d == [kind |-> "role", rows |-> {Key(m)}, role |-> role]
  <2>1. m.role # "owner" /\ m.user # m.org
    BY <1>7 DEF RoleReads, OrgInv, RowsInPlace
  <2>2. Key(m) \in MemberKey /\ Key(m).user # Key(m).org
    BY <2>1 DEF Key, MemberKey, OrgInv, OrganisationTypeOK, Member
  <2>3. d.kind = "role" /\ d.rows = {Key(m)} /\ d \in Request
    BY <2>2 DEF Request, Given
  <2>f. IsFiniteSet({Key(m)})
    BY FS_Singleton
  <2> HIDE DEF d
  <2>4. Sound(d)
    BY <2>2, <2>3, <2>f DEF Sound, HasRows
  <2>5. req' = [req EXCEPT ![r] = d] /\ UNCHANGED <<people, members, invites, assets>>
    BY <1>7 DEF RoleReads, Begin, d
  <2> QED BY <2>4, <2>5, KeepsReading
<1>8. ASSUME NEW by \in Users, NEW o \in Companies, NEW key \in Settings,
             ProfileReads(r, by, o, key)
      PROVE  OrgInv'
  <2> DEFINE d == [kind |-> "profile", org |-> o, key |-> key, seen |-> profile[o]]
  <2>1. profile[o] \in Profile
    BY DEF OrgInv, OrganisationTypeOK
  <2>2. d.kind = "profile" /\ d \in Request
    BY <2>1 DEF Request
  <2>3. Sound(d)
    BY <2>2 DEF Sound, HasRows
  <2>4. req' = [req EXCEPT ![r] = d] /\ UNCHANGED <<people, members, invites, assets>>
    BY <1>8 DEF ProfileReads, Begin
  <2> QED BY <2>3, <2>4, KeepsReading
<1>9. ASSUME NEW by \in Users, NEW o \in Companies, NEW p \in Products,
             ProductReads(r, by, o, p)
      PROVE  OrgInv'
  <2> DEFINE d == [kind |-> "product", org |-> o, prod |-> p]
  <2>1. d.kind = "product" /\ d \in Request
    BY DEF Request
  <2>2. Sound(d)
    BY <2>1 DEF Sound, HasRows
  <2>3. req' = [req EXCEPT ![r] = d] /\ UNCHANGED <<people, members, invites, assets>>
    BY <1>9 DEF ProductReads, Begin
  <2> QED BY <2>2, <2>3, KeepsReading
<1> QED BY <1>1, <1>2, <1>3, <1>4, <1>5, <1>6, <1>7, <1>8, <1>9 DEF Reads

(* upsert_instance_settings claims the row.                                *)
LEMMA KeepsSetupUpserts ==
    ASSUME OrgInv, NEW r \in Reqs, SetupUpserts(r) PROVE OrgInv'
<1> DEFINE d == [req[r] EXCEPT !.kind = "claimed"]
<1>1. req[r] \in Request /\ req[r].kind = "missing"
  BY DEF SetupUpserts, Is, OrgInv, RequestsSound, Sound
<1>2. req[r] \in [kind : {"missing", "claimed", "register"}, user : Users]
  BY <1>1 DEF Request
<1>3. d \in [kind : {"missing", "claimed", "register"}, user : Users] /\ d.kind = "claimed"
  BY <1>2
<1>4. Sound(d)
  BY <1>3 DEF Sound, HasRows, Request
<1>5. req' = [req EXCEPT ![r] = d]
  BY DEF SetupUpserts
<1>6. UNCHANGED <<people, members, invites, assets>>
  BY DEF SetupUpserts
<1> QED BY <1>4, <1>5, <1>6, KeepsReading

(* The setup seals the install and founds the first company.               *)
LEMMA KeepsSetupCommits ==
    ASSUME OrgInv, NEW r \in Reqs, SetupCommits(r) PROVE OrgInv'
<1>1. req[r] \in Request /\ req[r].kind = "claimed"
  BY DEF SetupCommits, Is, OrgInv, RequestsSound, Sound
<1>2. req[r].user \in Users
  BY <1>1 DEF Request
<1>3. CASE req[r].user \notin users
  BY <1>2, <1>3, KeepsRegistered DEF SetupCommits
<1>4. CASE req[r].user \in users
  BY <1>4, KeepsRefused DEF SetupCommits
<1> QED BY <1>3, <1>4

(* A registration commits.                                                 *)
LEMMA KeepsRegisterCommits ==
    ASSUME OrgInv, NEW r \in Reqs, RegisterCommits(r)
    PROVE  OrgInv'
<1>1. req[r] \in Request /\ req[r].kind = "register"
  BY DEF RegisterCommits, Is, OrgInv, RequestsSound, Sound
<1>2. req[r].user \in Users
  BY <1>1 DEF Request
<1>3. CASE req[r].user \notin users
  BY <1>2, <1>3, KeepsRegistered DEF RegisterCommits
<1>4. CASE req[r].user \in users
  BY <1>4, KeepsRefused DEF RegisterCommits
<1> QED BY <1>3, <1>4

(* An invite is written, to the company of somebody who may invite.        *)
LEMMA KeepsInviteCommits ==
    ASSUME OrgInv, NEW r \in Reqs, InviteCommits(r) PROVE OrgInv'
<1>1. CASE Refused(r)
  BY <1>1, KeepsRefused
<1>2. CASE ~Refused(r)
  <2> DEFINE inv == [NoInvite EXCEPT !.there = TRUE, !.org = req[r].org, !.to = req[r].user,
                                 !.role = req[r].role]
  <2>1. req[r] \in [kind : {"invite"}, org : Companies, user : Users, inv : Invites, role : Given]
    BY DEF InviteCommits, Is, OrgInv, RequestsSound, Sound, Request
  <2>2. inv \in Invite /\ inv.org \in Companies /\ inv.to \in Users
    BY <2>1 DEF Invite, NoInvite, Given
  <2>3. /\ invites' = [invites EXCEPT ![req[r].inv] = inv]
        /\ End(r) /\ UNCHANGED <<people, members, assets>>
    BY <1>2 DEF InviteCommits
  <2> HIDE DEF inv
  <2>4. invites' \in [Invites -> Invite] /\ InvitesWhole'
    BY <2>1, <2>2, <2>3 DEF OrgInv, OrganisationTypeOK, InvitesWhole
  <2>5. RequestsSound'
    BY <2>3, ReqIsSound, IdleIsSound DEF End, people
  <2> QED BY <2>3, <2>4, <2>5, KeepsInvites
<1> QED BY <1>1, <1>2

(* An invite that changes in its state only.                               *)
LEMMA InviteKeepsItsEnds ==
    ASSUME OrgInv, NEW i \in Invites, NEW v \in Invite,
           invites' = [invites EXCEPT ![i] = v],
           v.there = invites[i].there, v.org = invites[i].org, v.to = invites[i].to
    PROVE  invites' \in [Invites -> Invite] /\ InvitesWhole'
<1>1. invites \in [Invites -> Invite]
  BY DEF OrgInv, OrganisationTypeOK
<1>2. \A x \in Invites : invites'[x] = IF x = i THEN v ELSE invites[x]
  BY <1>1
<1> QED BY <1>1, <1>2 DEF OrgInv, InvitesWhole

(* An invite is revoked.                                                   *)
LEMMA KeepsRevokeCommits ==
    ASSUME OrgInv, NEW r \in Reqs, RevokeCommits(r) PROVE OrgInv'
<1>1. CASE Refused(r)
  BY <1>1, KeepsRefused
<1>2. CASE ~Refused(r)
  <2>1. req[r] \in [kind : {"revoke"}, inv : Invites]
    BY DEF RevokeCommits, Is, OrgInv, RequestsSound, Sound, Request
  <2> DEFINE v == [invites[req[r].inv] EXCEPT !.revoked = TRUE]
  <2>2. /\ invites' = [invites EXCEPT ![req[r].inv] = v]
        /\ End(r) /\ UNCHANGED <<people, members, assets>>
    BY <1>2 DEF RevokeCommits
  <2>v. /\ v \in Invite /\ v.there = invites[req[r].inv].there
        /\ v.org = invites[req[r].inv].org /\ v.to = invites[req[r].inv].to
    <3>1. invites[req[r].inv] \in Invite
      BY <2>1 DEF OrgInv, OrganisationTypeOK
    <3> QED BY <3>1 DEF Invite
  <2> HIDE DEF v
  <2>3. invites' \in [Invites -> Invite] /\ InvitesWhole'
    BY <2>1, <2>2, <2>v, InviteKeepsItsEnds
  <2>4. RequestsSound'
    BY <2>2, ReqIsSound, IdleIsSound DEF End, people
  <2> QED BY <2>2, <2>3, <2>4, KeepsInvites
<1> QED BY <1>1, <1>2

(* An invite expires.                                                      *)
LEMMA KeepsExpires ==
    ASSUME OrgInv, NEW i \in Invites, Expires(i) PROVE OrgInv'
<1> DEFINE v == [invites[i] EXCEPT !.expired = TRUE]
<1>1. invites' = [invites EXCEPT ![i] = v] /\ UNCHANGED <<people, members, assets, req>>
  BY DEF Expires
<1>v. /\ v \in Invite /\ v.there = invites[i].there
      /\ v.org = invites[i].org /\ v.to = invites[i].to
  <2>1. invites[i] \in Invite
    BY DEF OrgInv, OrganisationTypeOK
  <2> QED BY <2>1 DEF Invite
<1> HIDE DEF v
<1>2. invites' \in [Invites -> Invite] /\ InvitesWhole'
  BY <1>1, <1>v, InviteKeepsItsEnds
<1>3. RequestsSound'
  BY <1>1 DEF OrgInv, RequestsSound, Sound, people
<1> QED BY <1>1, <1>2, <1>3, KeepsInvites

(* An accepted invite: the rows that were read go, with the companies they *)
(* founded, and one row comes, in a company that stays.                    *)
LEMMA KeepsAcceptCommits ==
    ASSUME OrgInv, NEW r \in Reqs, AcceptCommits(r)
    PROVE  OrgInv'
<1>1. CASE Refused(r)
  BY <1>1, KeepsRefused
<1>2. CASE ~Refused(r)
  <2> DEFINE row == NewRow(req[r].user, req[r].org, req[r].role)
             v == [invites[req[r].inv] EXCEPT !.accepted = TRUE]
  <2>1. /\ MayJoin(r) /\ Is(r, "accept")
        /\ orgs' = orgs \ Left(r)
        /\ members' = (members \ Leaving(r)) \cup {row}
        /\ invites' = [invites EXCEPT ![req[r].inv] = v]
        /\ products' = Rehomed(r) /\ End(r)
        /\ UNCHANGED <<users, super, instance, seeded, profile>>
    BY <1>2 DEF AcceptCommits
  <2>2. /\ req[r].org \in orgs \ Left(r) /\ req[r].user # req[r].org
        /\ req[r].user \in Users /\ req[r].role \in Given /\ req[r].inv \in Invites
        /\ req[r].org \in Companies
    BY <2>1, JoinsAnother
  <2>3. /\ row \in Member /\ row.user = req[r].user /\ row.org = req[r].org
        /\ row.role = req[r].role
    BY <2>2, NewRowIsMember DEF Given, Roles
  <2>v. /\ v \in Invite /\ v.there = invites[req[r].inv].there
        /\ v.org = invites[req[r].inv].org /\ v.to = invites[req[r].inv].to
    <3>1. invites[req[r].inv] \in Invite
      BY <2>2 DEF OrgInv, OrganisationTypeOK
    <3> QED BY <3>1 DEF Invite
  <2> HIDE DEF row, v
  <2>6. invites' \in [Invites -> Invite] /\ InvitesWhole'
    BY <2>1, <2>2, <2>v, InviteKeepsItsEnds
  <2>4. OrganisationTypeOK'
    <3>1. products' \in [Products -> Companies \cup {Nobody}]
      BY <2>1, <2>2 DEF Rehomed, OrgInv, OrganisationTypeOK
    <3> QED BY <2>1, <2>3, <2>6, <3>1 DEF OrgInv, OrganisationTypeOK
  <2>5. RequestsSound'
    BY <2>1, ReqIsSound, IdleIsSound DEF End
  <2>7. RowsInPlace'
    <3>1. orgs' \subseteq users'
      BY <2>1 DEF OrgInv, RowsInPlace
    <3>2. IsFiniteSet(members')
      <4>1. members \ Leaving(r) \in SUBSET members
        OBVIOUS
      <4>2. IsFiniteSet(members \ Leaving(r))
        BY <4>1, FS_Subset DEF OrgInv, RowsInPlace
      <4> QED BY <2>1, <4>2, FS_AddElement
    <3>3. req[r].user \in users
      BY <2>1 DEF OrgInv, RequestsSound, Sound, Is
    <3>4. \A o \in orgs' : {m \in members : m.org = o} \cap Leaving(r) = {}
      BY <2>1 DEF Leaving, Left, Key
    <3>5. \A m \in members \ Leaving(r) : m.org \in orgs'
      <4>1. SUFFICES ASSUME NEW m \in members, m \notin Leaving(r), m.org \in Left(r)
                     PROVE  FALSE
        BY <2>1 DEF OrgInv, RowsInPlace
      <4>2. Of(m.org) \subseteq Leaving(r)
        BY <2>1, <4>1 DEF MayJoin, Childless
      <4> QED BY <4>1, <4>2 DEF Of
    <3>6. \A m \in members : ~(m.user = row.user /\ m.org = row.org)
      BY <2>1, <2>3 DEF MayJoin, RowOf
    <3>7. \A m \in members' : /\ m.org \in orgs' /\ m.user \in users'
                              /\ m.role = "owner" <=> m.user = m.org
      BY <2>1, <2>2, <2>3, <3>3, <3>5 DEF OrgInv, RowsInPlace, Given
    <3>8. \A m, n \in members' : m.user = n.user /\ m.org = n.org => m = n
      BY <2>1, <3>6 DEF OrgInv, RowsInPlace
    <3>9. \A o \in orgs' : \E m \in members' : m.user = o /\ m.org = o
      BY <2>1, <3>4 DEF OrgInv, RowsInPlace
    <3> QED BY <3>1, <3>2, <3>7, <3>8, <3>9 DEF RowsInPlace
  <2> QED BY <2>4, <2>5, <2>6, <2>7 DEF OrgInv
<1> QED BY <1>1, <1>2

(* A removal takes no founder's row.                                       *)
LEMMA KeepsRemoveCommits ==
    ASSUME OrgInv, NEW r \in Reqs, RemoveCommits(r) PROVE OrgInv'
<1>1. Sound(req[r]) /\ req[r].kind = "remove"
  BY DEF RemoveCommits, Is, OrgInv, RequestsSound
<1>2. \A k \in req[r].rows : k.user # k.org
  BY <1>1 DEF Sound
<1>3. members' = {m \in members : Key(m) \notin req[r].rows} /\ End(r)
      /\ UNCHANGED <<people, invites, assets>>
  BY DEF RemoveCommits
<1>4. OrganisationTypeOK' /\ InvitesWhole'
  BY <1>3 DEF OrgInv, OrganisationTypeOK, InvitesWhole, people, assets
<1>5. RequestsSound'
  BY <1>3, ReqIsSound, IdleIsSound DEF End, people
<1>6. IsFiniteSet(members')
  <2>1. members' \in SUBSET members
    BY <1>3
  <2> QED BY <2>1, FS_Subset DEF OrgInv, RowsInPlace
<1>7. \A m \in members : m.user = m.org => m \in members'
  BY <1>2, <1>3 DEF Key
<1>8. \A o \in orgs' : \E m \in members' : m.user = o /\ m.org = o
  BY <1>3, <1>7 DEF OrgInv, RowsInPlace, people
<1>9. \A m \in members' : m \in members
  BY <1>3
<1>10. RowsInPlace'
  BY <1>3, <1>6, <1>8, <1>9 DEF OrgInv, RowsInPlace, people
<1> QED BY <1>4, <1>5, <1>10 DEF OrgInv

(* A change of role touches no founder's row, and makes nobody an owner.   *)
LEMMA KeepsRoleCommits ==
    ASSUME OrgInv, NEW r \in Reqs, RoleCommits(r) PROVE OrgInv'
<1> DEFINE n(m) == IF Key(m) \in req[r].rows THEN [m EXCEPT !.role = req[r].role] ELSE m
           f == [m \in members |-> n(m)]
<1>1. Sound(req[r]) /\ req[r].kind = "role"
  BY DEF RoleCommits, Is, OrgInv, RequestsSound
<1>2. (\A k \in req[r].rows : k.user # k.org) /\ req[r].role \in Given
  BY <1>1 DEF Sound, Request
<1>3. /\ members' = {n(m) : m \in members} /\ End(r)
      /\ UNCHANGED <<people, invites, assets>>
  BY DEF RoleCommits
<1>4. \A m \in members :
         /\ n(m) \in Member /\ n(m).user = m.user /\ n(m).org = m.org
         /\ (n(m).role = m.role) \/ (m.user # m.org /\ n(m).role \in Given)
  <2>1. SUFFICES ASSUME NEW m \in members
                 PROVE  /\ n(m) \in Member /\ n(m).user = m.user /\ n(m).org = m.org
                        /\ (n(m).role = m.role) \/ (m.user # m.org /\ n(m).role \in Given)
    OBVIOUS
  <2>2. m \in Member
    BY DEF OrgInv, OrganisationTypeOK
  <2>3. CASE Key(m) \in req[r].rows
    <3>1. n(m) = [m EXCEPT !.role = req[r].role]
      BY <2>3
    <3>2. [m EXCEPT !.role = req[r].role] \in Member
      BY <2>2, <1>2 DEF Member, Roles, Given
    <3>3. m.user # m.org
      BY <1>2, <2>3 DEF Key
    <3> QED BY <1>2, <2>2, <3>1, <3>2, <3>3 DEF Member
  <2>4. CASE Key(m) \notin req[r].rows
    BY <2>2, <2>4
  <2> QED BY <2>3, <2>4
<1>5. IsFiniteSet(members')
  <2>1. f \in Surjection(members, members')
    BY <1>3 DEF Surjection
  <2>2. IsFiniteSet(members)
    BY DEF OrgInv, RowsInPlace
  <2> HIDE DEF f
  <2> QED BY <2>1, <2>2, FS_Surjection
<1> HIDE DEF n
<1>6. OrganisationTypeOK' /\ InvitesWhole'
  BY <1>3, <1>4 DEF OrgInv, OrganisationTypeOK, InvitesWhole, people, assets
<1>7. RequestsSound'
  BY <1>3, ReqIsSound, IdleIsSound DEF End, people
<1>8. orgs' = orgs /\ users' = users
  BY <1>3 DEF people
<1>9. \A m \in members' : /\ m.org \in orgs' /\ m.user \in users'
                          /\ m.role = "owner" <=> m.user = m.org
  BY <1>3, <1>4, <1>8 DEF OrgInv, RowsInPlace, Given
<1>10. \A x, y \in members' : x.user = y.user /\ x.org = y.org => x = y
  BY <1>3, <1>4 DEF OrgInv, RowsInPlace
<1>11. \A o \in orgs' : \E m \in members' : m.user = o /\ m.org = o
  <2>1. SUFFICES ASSUME NEW o \in orgs PROVE \E m \in members' : m.user = o /\ m.org = o
    BY <1>8
  <2>2. PICK m \in members : m.user = o /\ m.org = o
    BY DEF OrgInv, RowsInPlace
  <2>3. n(m) \in members' /\ n(m).user = o /\ n(m).org = o
    BY <1>3, <1>4, <2>2
  <2> QED BY <2>3
<1>12. orgs' \subseteq users'
  BY <1>8 DEF OrgInv, RowsInPlace
<1>13. RowsInPlace'
  BY <1>5, <1>9, <1>10, <1>11, <1>12 DEF RowsInPlace
<1> QED BY <1>6, <1>7, <1>13 DEF OrgInv

(* A profile is written back.                                              *)
LEMMA KeepsProfileCommits ==
    ASSUME OrgInv, NEW r \in Reqs, ProfileCommits(r) PROVE OrgInv'
<1>1. CASE Refused(r)
  BY <1>1, KeepsRefused
<1>2. CASE ~Refused(r)
  <2>1. req[r] \in [kind : {"profile"}, org : Companies, key : Settings, seen : Profile]
    BY DEF ProfileCommits, Is, OrgInv, RequestsSound, Sound, Request
  <2>2. Merged(req[r].seen, req[r].key) \in Profile
    <3>1. req[r].seen \in [Settings -> {0, 1}]
      BY <2>1 DEF Profile
    <3> QED BY <3>1 DEF Merged, Profile
  <2>3. /\ profile' = [profile EXCEPT ![req[r].org] = Merged(req[r].seen, req[r].key)]
        /\ End(r) /\ UNCHANGED <<people, members, invites, products>>
    BY <1>2 DEF ProfileCommits
  <2>4. profile' \in [Companies -> Profile]
    BY <2>1, <2>2, <2>3 DEF OrgInv, OrganisationTypeOK
  <2>5. OrganisationTypeOK' /\ InvitesWhole' /\ RowsInPlace'
    BY <2>3, <2>4 DEF OrgInv, OrganisationTypeOK, InvitesWhole, RowsInPlace, people
  <2>6. RequestsSound'
    BY <2>3, ReqIsSound, IdleIsSound DEF End, people
  <2> QED BY <2>5, <2>6 DEF OrgInv
<1> QED BY <1>1, <1>2

(* A product is added.                                                     *)
LEMMA KeepsProductCommits ==
    ASSUME OrgInv, NEW r \in Reqs, ProductCommits(r) PROVE OrgInv'
<1>1. CASE Refused(r)
  BY <1>1, KeepsRefused
<1>2. CASE ~Refused(r)
  <2>1. req[r] \in [kind : {"product"}, org : Companies, prod : Products]
    BY DEF ProductCommits, Is, OrgInv, RequestsSound, Sound, Request
  <2>2. /\ products' = [products EXCEPT ![req[r].prod] = req[r].org]
        /\ End(r) /\ UNCHANGED <<people, members, invites, profile>>
    BY <1>2 DEF ProductCommits
  <2>3. products' \in [Products -> Companies \cup {Nobody}]
    BY <2>1, <2>2 DEF OrgInv, OrganisationTypeOK
  <2>4. OrganisationTypeOK' /\ InvitesWhole' /\ RowsInPlace'
    BY <2>2, <2>3 DEF OrgInv, OrganisationTypeOK, InvitesWhole, RowsInPlace, people
  <2>5. RequestsSound'
    BY <2>2, ReqIsSound, IdleIsSound DEF End, people
  <2> QED BY <2>4, <2>5 DEF OrgInv
<1> QED BY <1>1, <1>2

(* The invariant holds initially ...                                       *)
LEMMA OrgInit == ASSUME OrganisationInit PROVE OrgInv
<1>1. OrganisationTypeOK
  <2>1. NoInvite \in Invite
    BY DEF NoInvite, Invite
  <2> QED BY <2>1, OrganisationAssumption
             DEF OrganisationInit, OrganisationAssumption, OrganisationTypeOK, Profile
<1>2. RequestsSound
  <2>1. req = [r \in Reqs |-> NoRequest]
    BY DEF OrganisationInit
  <2>2. NoRequest \in Request
    BY IdleIsSound DEF Sound
  <2> HIDE DEF Request
  <2> QED BY <2>1, <2>2, IdleIsSound DEF RequestsSound
<1>3. InvitesWhole
  BY DEF OrganisationInit, InvitesWhole, NoInvite
<1>4. RowsInPlace
  BY FS_EmptySet DEF OrganisationInit, RowsInPlace
<1> QED BY <1>1, <1>2, <1>3, <1>4 DEF OrgInv

(* ... and every step keeps it.                                            *)
LEMMA OrgStep == ASSUME OrgInv, [OrganisationNext]_organisationVars PROVE OrgInv'
<1>1. ASSUME NEW r \in Reqs, Reads(r) PROVE OrgInv'
  BY <1>1, KeepsReads
<1>2. ASSUME NEW r \in Reqs, Writes(r) PROVE OrgInv'
  <2>1. CASE SetupConflicts(r)
    BY <2>1, KeepsRefused DEF SetupConflicts
  <2> QED BY <1>2, <2>1, KeepsSetupUpserts, KeepsSetupCommits, KeepsRegisterCommits,
             KeepsInviteCommits, KeepsRevokeCommits, KeepsAcceptCommits, KeepsRemoveCommits,
             KeepsRoleCommits, KeepsProfileCommits, KeepsProductCommits DEF Writes
<1>3. ASSUME NEW i \in Invites, Expires(i) PROVE OrgInv'
  BY <1>3, KeepsExpires
<1>4. ASSUME UNCHANGED organisationVars PROVE OrgInv'
  BY <1>4 DEF organisationVars, OrgInv, OrganisationTypeOK, RequestsSound, Sound, InvitesWhole,
              RowsInPlace
<1> QED BY <1>1, <1>2, <1>3, <1>4 DEF OrganisationNext

(* The inductive invariant of Organisation.                                *)
THEOREM OrgInvariant == OrganisationSpec => []OrgInv
<1>1. OrganisationInit => OrgInv
  BY OrgInit
<1>2. OrgInv /\ [OrganisationNext]_organisationVars => OrgInv'
  BY OrgStep
<1> QED BY <1>1, <1>2, PTL DEF OrganisationSpec

(* Types of Organisation, for every step and any number of requests.       *)
THEOREM CompaniesTyped == OrganisationSpec => []OrganisationTypeOK
<1>1. OrgInv => OrganisationTypeOK
  BY DEF OrgInv
<1> QED BY <1>1, OrgInvariant, PTL

(* Whatever requests overlap, a company that exists has exactly one owner: *)
(* no accept, removal or change of role takes the owner away or makes a    *)
(* second one between its read and its write (companies.py, invites.py).   *)
THEOREM OneOwnerHolds == OrganisationSpec => []OneOwner
<1>1. OrgInv => OneOwner
  <2>1. SUFFICES ASSUME OrgInv, NEW o \in orgs
                 PROVE  Cardinality({m \in Of(o) : m.role = "owner"}) = 1
    BY DEF OneOwner
  <2>2. PICK f \in members : f.user = o /\ f.org = o
    BY <2>1 DEF OrgInv, RowsInPlace
  <2>3. {m \in Of(o) : m.role = "owner"} = {f}
    BY <2>1, <2>2 DEF OrgInv, RowsInPlace, Of
  <2> QED BY <2>3, FS_Singleton
<1> QED BY <1>1, OrgInvariant, PTL

(* Nothing but an accepted invite deletes a company.                       *)
LEMMA OnlyAcceptEndsCompanies ==
    ASSUME OrgInv, [OrganisationNext]_organisationVars, NEW o \in orgs \ orgs'
    PROVE  \E r \in Reqs : AcceptCommits(r) /\ ~Refused(r)
BY DEF OrganisationNext, organisationVars, Reads, Writes, SetupLooks, SetupSees,
       RegisterReads, InviteReads, RevokeReads, AcceptReads, RemoveReads,
       RoleReads, ProfileReads, ProductReads, SetupUpserts, SetupConflicts,
       SetupCommits, RegisterCommits, InviteCommits, RevokeCommits,
       RemoveCommits, RoleCommits, ProfileCommits, ProductCommits, Expires,
       Registered, Refused, people

(* The company an accepted invite deletes has had one member to the last:  *)
(* clear_bootstrap_solo_org (repos.py) decides on what it has read before, *)
(* but a row that anybody else has added since is not among the keys it    *)
(* deletes, and the accept fails. The user who leaves has a row in another *)
(* company.                                                                *)
THEOREM TeamsSurvive == OrganisationSpec => TeamSurvives
<1>1. ASSUME OrgInv, [OrganisationNext]_organisationVars, NEW o \in orgs \ orgs'
      PROVE  \E u \in Users : /\ Of(o) \subseteq RowOf(u, o)
                              /\ \E m \in members' : m.user = u /\ m.org \in orgs'
  <2>1. PICK r \in Reqs : AcceptCommits(r) /\ ~Refused(r)
    BY <1>1, OnlyAcceptEndsCompanies
  <2> DEFINE u == req[r].user
             row == NewRow(u, req[r].org, req[r].role)
  <2>2. /\ Is(r, "accept") /\ MayJoin(r) /\ orgs' = orgs \ Left(r)
        /\ members' = (members \ Leaving(r)) \cup {row}
    BY <2>1 DEF AcceptCommits
  <2>3. u \in Users /\ req[r].org \in orgs'
    BY <1>1, <2>2, JoinsAnother
  <2>4. Of(o) \subseteq Leaving(r)
    BY <1>1, <2>2 DEF MayJoin, Childless
  <2>5. \A k \in req[r].rows : k.user = u
    BY <1>1, <2>2 DEF OrgInv, RequestsSound, Sound, Is
  <2>6. \A m \in Leaving(r) : m.user = u
    BY <2>5 DEF Leaving, Key
  <2>7. Of(o) \subseteq RowOf(u, o)
    BY <2>4, <2>6 DEF Of, RowOf
  <2>8. row.user = u /\ row.org = req[r].org
    BY DEF NewRow
  <2> QED BY <2>2, <2>3, <2>7, <2>8
<1>2. OrgInv /\ [OrganisationNext]_organisationVars => [\A o \in orgs \ orgs' : \E u \in Users :
          /\ Of(o) \subseteq RowOf(u, o)
          /\ \E m \in members' : m.user = u /\ m.org \in orgs']_organisationVars
  BY <1>1
<1> QED BY <1>2, OrgInvariant, PTL DEF OrganisationSpec, TeamSurvives

(* What the first-run setup depends on once the boot has seeded its row. *)
SetupGuarded ==
    seeded =>
        /\ instance # "absent"
        /\ \A r \in Reqs : ~Is(r, "missing") /\ (Is(r, "claimed") => instance = "open")
        /\ \A r, s \in Reqs : Is(r, "claimed") /\ Is(s, "claimed") => r = s
        /\ IF instance = "sealed" THEN \E u \in Users : super = {u} ELSE super = {}

(* Whatever else a request reads or writes, it is no claim. *)
NoClaim(d) == d.kind \notin {"claimed", "missing"}

(* A step of a request that has nothing to do with the setup.              *)
LEMMA KeepsOtherRequest ==
    ASSUME OrgInv, SetupGuarded, NEW r \in Reqs, NEW d, NoClaim(d),
           req' = [req EXCEPT ![r] = d], UNCHANGED <<super, instance, seeded>>
    PROVE  SetupGuarded'
<1>1. req \in [Reqs -> Request]
  BY DEF OrgInv, RequestsSound
<1>2. \A x \in Reqs : req'[x] = IF x = r THEN d ELSE req[x]
  BY <1>1
<1>3. \A x \in Reqs : /\ Is(x, "missing")' => Is(x, "missing")
                      /\ Is(x, "claimed")' => Is(x, "claimed")
  BY <1>2 DEF Is, NoClaim
<1> QED BY <1>3 DEF SetupGuarded

(* A request that ends.                                                    *)
LEMMA KeepsEnded ==
    ASSUME OrgInv, SetupGuarded, NEW r \in Reqs, End(r),
           UNCHANGED <<super, instance, seeded>>
    PROVE  SetupGuarded'
BY KeepsOtherRequest DEF End, NoClaim, NoRequest

(* The setup reads the row of the install: FOR UPDATE when there is one.   *)
LEMMA KeepsSetupLooks ==
    ASSUME OrgInv, SetupGuarded, NEW r \in Reqs, NEW u \in Users, SetupLooks(r, u)
    PROVE  SetupGuarded'
<1>1. SUFFICES ASSUME seeded PROVE SetupGuarded'
  BY DEF SetupGuarded, SetupLooks, SetupSees, people
<1>2. instance = "open" /\ Holder = {}
  BY <1>1 DEF SetupLooks, SetupSees, SetupGuarded
<1>3. req \in [Reqs -> Request]
  BY DEF OrgInv, RequestsSound
<1>4. req' = [req EXCEPT ![r] = [kind |-> "claimed", user |-> u]]
  BY <1>2 DEF SetupLooks, SetupSees, Begin
<1>5. \A x \in Reqs : req'[x] = IF x = r THEN [kind |-> "claimed", user |-> u] ELSE req[x]
  BY <1>3, <1>4
<1>6. \A x \in Reqs : /\ Is(x, "claimed")' => x = r
                      /\ ~Is(x, "missing")'
  BY <1>1, <1>2, <1>5 DEF Is, Holder, SetupGuarded
<1>7. UNCHANGED <<super, instance, seeded>>
  BY DEF SetupLooks, SetupSees, people
<1> QED BY <1>1, <1>2, <1>6, <1>7 DEF SetupGuarded

(* The setup commits: it seals the row it has locked, once.                *)
LEMMA KeepsSealing ==
    ASSUME OrgInv, SetupGuarded, NEW r \in Reqs, SetupCommits(r) PROVE SetupGuarded'
<1>1. CASE Refused(r)
  BY <1>1, KeepsEnded DEF Refused, people
<1>2. CASE ~Refused(r)
  <2>1. SUFFICES ASSUME seeded PROVE SetupGuarded'
    BY <1>2 DEF SetupGuarded, SetupCommits
  <2>2. /\ super' = super \cup {req[r].user} /\ instance' = "sealed"
        /\ End(r) /\ seeded' = seeded
    BY <1>2 DEF SetupCommits
  <2>3. req[r].user \in Users
    BY DEF SetupCommits, Is, OrgInv, RequestsSound, Sound, Request
  <2>4. super = {}
    BY <2>1 DEF SetupCommits, SetupGuarded
  <2>5. req \in [Reqs -> Request]
    BY DEF OrgInv, RequestsSound
  <2>6. \A x \in Reqs : req'[x] = IF x = r THEN NoRequest ELSE req[x]
    BY <2>2, <2>5 DEF End
  <2>7. \A x \in Reqs : ~Is(x, "claimed")' /\ ~Is(x, "missing")'
    BY <2>1, <2>6 DEF SetupCommits, SetupGuarded, Is, NoRequest
  <2> QED BY <2>2, <2>3, <2>4, <2>7 DEF SetupGuarded
<1> QED BY <1>1, <1>2

(* Every step keeps the guard of the setup.                                *)
LEMMA SetupStep ==
    ASSUME OrgInv, SetupGuarded, [OrganisationNext]_organisationVars PROVE SetupGuarded'
<1>1. ASSUME NEW r \in Reqs, Reads(r), \A u \in Users : ~SetupLooks(r, u)
      PROVE  SetupGuarded'
  <2>1. UNCHANGED <<super, instance, seeded>>
    BY <1>1 DEF Reads, RegisterReads, InviteReads, RevokeReads,
                AcceptReads, RemoveReads, RoleReads, ProfileReads,
                ProductReads, people
  <2>2. PICK d : NoClaim(d) /\ req' = [req EXCEPT ![r] = d]
    BY <1>1 DEF Reads, RegisterReads, InviteReads, RevokeReads,
                AcceptReads, RemoveReads, RoleReads, ProfileReads,
                ProductReads, Begin, NoClaim
  <2> QED BY <2>1, <2>2, KeepsOtherRequest
<1>2. ASSUME NEW r \in Reqs, Writes(r) PROVE SetupGuarded'
  <2>1. CASE SetupUpserts(r)
    <3>1. SUFFICES ASSUME seeded PROVE FALSE
      BY <2>1 DEF SetupUpserts, SetupGuarded, people
    <3> QED BY <2>1, <3>1 DEF SetupUpserts, SetupGuarded
  <2>2. CASE SetupCommits(r)
    BY <2>2, KeepsSealing
  <2>3. CASE ~SetupUpserts(r) /\ ~SetupCommits(r)
    <3>1. End(r) /\ UNCHANGED <<super, instance, seeded>>
      BY <1>2, <2>3 DEF Writes, SetupConflicts, RegisterCommits, InviteCommits,
                        RevokeCommits, AcceptCommits, RemoveCommits,
                        RoleCommits, ProfileCommits, ProductCommits, Refused,
                        people
    <3> QED BY <3>1, KeepsEnded
  <2> QED BY <2>1, <2>2, <2>3
<1>3. ASSUME NEW i \in Invites, Expires(i) PROVE SetupGuarded'
  BY <1>3 DEF Expires, people, SetupGuarded, Is
<1>4. ASSUME UNCHANGED organisationVars PROVE SetupGuarded'
  BY <1>4 DEF organisationVars, SetupGuarded, Is
<1> QED BY <1>1, <1>2, <1>3, <1>4, KeepsSetupLooks DEF OrganisationNext

(* However many first-run setups overlap, an install whose boot has        *)
(* inserted the settings row gets one superuser, and is sealed exactly     *)
(* when it has one (setup.py).                                             *)
THEOREM SetupSealsOnce == OrganisationSpec => []SetupOnce
<1>1. OrganisationInit => SetupGuarded
  <2>1. SUFFICES ASSUME OrganisationInit, seeded PROVE SetupGuarded
    BY DEF SetupGuarded
  <2>2. instance # "absent" /\ instance # "sealed" /\ super = {}
    BY <2>1, OrganisationAssumption DEF OrganisationInit, OrganisationAssumption
  <2>3. \A r \in Reqs : req[r].kind = "idle"
    BY <2>1 DEF OrganisationInit, NoRequest
  <2> QED BY <2>2, <2>3 DEF SetupGuarded, Is
<1>2. OrgInv /\ SetupGuarded /\ [OrganisationNext]_organisationVars => SetupGuarded'
  BY SetupStep
<1>3. SetupGuarded => SetupOnce
  BY FS_Singleton, FS_EmptySet DEF SetupGuarded, SetupOnce
<1> QED BY <1>1, <1>2, <1>3, OrgInvariant, PTL DEF OrganisationSpec
=============================================================================
