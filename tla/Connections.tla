---------------------------- MODULE Connections ----------------------------
(***************************************************************************)
(* How an organisation's Instagram account is connected                    *)
(* (cmd/api/routes/social.py, internal/auth/meta_oauth.py), directly or    *)
(* through the vendor's relay (relay/src/index.ts).  A connect starts by    *)
(* leaving a pending state on the organisation's only row and a cookie in  *)
(* the browser; the user answers Instagram's dialog; the browser lands on  *)
(* the callback, which checks row and cookie, spends up to a minute and a  *)
(* half with Instagram (or redeems the relay's ticket) and then writes     *)
(* through the ORM object it read BEFORE that: only the columns that       *)
(* differ from what it read, by the row's id, failing when that row is     *)
(* gone.  Meanwhile editors start again, cancel, paste a token or          *)
(* disconnect, and Meta announces that a user removed the app or wants     *)
(* their data deleted.                                                     *)
(*                                                                         *)
(* A serial number stands for the random csrf token of a start and for the *)
(* id of a row: the number of the start or paste that made it.             *)
(***************************************************************************)
EXTENDS Naturals

CONSTANTS Orgs, Installs, Browsers, Accounts,
          Home,        \* [Orgs -> Installs]: the install an organisation lives on
          Tabs,        \* how often one callback URL is opened (reload, double click)
          MaxSerial,   \* how many starts and pastes happen
          NoRow, NoOne, Denied, Manual

Serials == 1..MaxSerial
Token == [acct : Accounts, flow : 0..MaxSerial, by : Browsers \cup {Manual}]
Row == [id : Serials, ig : Accounts \cup {NoOne}, token : Token \cup {NoOne},
        pending : 0..MaxSerial]

ASSUME ConnectionsAssumption ==
    /\ MaxSerial \in Nat
    /\ Home \in [Orgs -> Installs]
    /\ NoRow \notin Row
    /\ Denied \notin Accounts /\ NoOne \notin Accounts \cup Installs \cup Browsers

VARIABLES rows,    \* [Orgs -> row of social_accounts, or NoRow]
          flows,   \* [1..MaxSerial -> what became of a start's authorization URL]
          calls,   \* [1..MaxSerial -> [Tabs -> callback request]]
          cookie,  \* [Browsers -> serial in the csrf cookie, 0 when none]
          mode,    \* [Installs -> meta_oauth_mode]
          route,   \* [Accounts -> the install the relay has noted for it, or NoOne]
          serial,
          cut      \* history: [Orgs -> serial when the row was last deleted]

vars == <<rows, flows, calls, cookie, mode, route, serial, cut>>

Idle == [pc |-> "idle", saw |-> NoRow]
Unused == [at |-> "unused"]
Flow == [at : {"dialog", "answered"}, org : Orgs, row : Serials,
         starter : Browsers, via : {"byo", "relay"}, by : Browsers \cup {NoOne},
         answer : Accounts \cup {Denied, NoOne}, spent : BOOLEAN]
Call == [pc : {"idle", "exchanging", "ended"}, saw : Row \cup {NoRow}]

TypeOK ==
    /\ rows \in [Orgs -> Row \cup {NoRow}]
    /\ flows \in [Serials -> Flow \cup {Unused}]
    /\ calls \in [Serials -> [Tabs -> Call]]
    /\ cookie \in [Browsers -> 0..MaxSerial]
    /\ mode \in [Installs -> {"byo", "relay"}]
    /\ route \in [Accounts -> Installs \cup {NoOne}]
    /\ serial \in 0..MaxSerial
    /\ cut \in [Orgs -> 0..MaxSerial]

Init ==
    /\ rows = [o \in Orgs |-> NoRow]
    /\ flows = [n \in Serials |-> Unused]
    /\ calls = [n \in Serials |-> [k \in Tabs |-> Idle]]
    /\ cookie = [b \in Browsers |-> 0]
    /\ mode \in [Installs -> {"byo", "relay"}]
    /\ route = [a \in Accounts |-> NoOne]
    /\ serial = 0
    /\ cut = [o \in Orgs |-> 0]

-----------------------------------------------------------------------------
(* What the repository functions do to a row.                              *)

Connected(row) == row # NoRow /\ row.ig # NoOne

\* A failed or cancelled connect: a placeholder goes, a connected row stays.
AbortedClearing(row) == [row EXCEPT !.pending = 0]
Aborted(row) ==
    IF Connected(row) THEN [row EXCEPT !.pending = 0] ELSE NoRow

\* The organisation's row as the database holds it, if it still has that id.
RowById(o, id) == IF rows[o] # NoRow /\ rows[o].id = id THEN rows[o] ELSE NoRow

Write(o, row) ==
    /\ rows' = [rows EXCEPT ![o] = row]
    /\ cut' = [cut EXCEPT ![o] = IF rows[o] # NoRow /\ row = NoRow THEN serial ELSE @]

-----------------------------------------------------------------------------
(* The editors.                                                            *)

Start(o, b) ==
    LET n == serial + 1
        row == IF rows[o] = NoRow
               THEN [id |-> n, ig |-> NoOne, token |-> NoOne, pending |-> n]
               ELSE [rows[o] EXCEPT !.pending = n]
    IN /\ serial < MaxSerial
       /\ serial' = n
       /\ Write(o, row)
       /\ cookie' = [cookie EXCEPT ![b] = n]
       /\ flows' = [flows EXCEPT ![n] =
             [at |-> "dialog", org |-> o, row |-> row.id, starter |-> b,
              via |-> mode[Home[o]], by |-> NoOne, answer |-> NoOne, spent |-> FALSE]]
       /\ UNCHANGED <<calls, mode, route>>

\* Cancel, and the status poll once the pending state is ten minutes old.
Cancel(o) ==
    /\ rows[o] # NoRow
    /\ rows[o].pending # 0
    /\ Write(o, Aborted(rows[o]))
    /\ UNCHANGED <<flows, calls, cookie, mode, route, serial>>

\* An editor pastes an account and its token; a pending connect stays pending.
Paste(o, a) ==
    LET n == serial + 1
        token == [acct |-> a, flow |-> 0, by |-> Manual]
    IN /\ serial < MaxSerial
       /\ serial' = n
       /\ Write(o, IF rows[o] = NoRow
                   THEN [id |-> n, ig |-> a, token |-> token, pending |-> 0]
                   ELSE [rows[o] EXCEPT !.ig = a, !.token = token])
       /\ UNCHANGED <<flows, calls, cookie, mode, route>>

Disconnect(o) ==
    /\ rows[o] # NoRow
    /\ Write(o, NoRow)
    /\ UNCHANGED <<flows, calls, cookie, mode, route, serial>>

\* The administrator moves an install between its own Meta app and the relay.
SwitchMode(i) ==
    /\ mode' = [mode EXCEPT ![i] = IF @ = "byo" THEN "relay" ELSE "byo"]
    /\ UNCHANGED <<rows, flows, calls, cookie, route, serial, cut>>

-----------------------------------------------------------------------------
(* Instagram's dialog.  The URL may be answered in another browser than    *)
(* the one that asked for it.  Through the relay, the worker exchanges the *)
(* code at once, keeps a ticket and notes which install owns the account.  *)

Answer(n, b, a) ==
    /\ flows[n].at = "dialog"
    /\ flows' = [flows EXCEPT ![n] = [@ EXCEPT !.at = "answered", !.by = b, !.answer = a]]
    /\ route' = IF flows[n].via = "relay" /\ a \in Accounts
                THEN [route EXCEPT ![a] = Home[flows[n].org]] ELSE route
    /\ UNCHANGED <<rows, calls, cookie, mode, serial, cut>>

-----------------------------------------------------------------------------
(* The callback, and the relay's landing page.                             *)

\* Row there, connect pending, cookie equal to the token of the pending state.
ValidAnyBrowser(f) ==
    LET row == RowById(f.org, f.row) IN row # NoRow /\ row.pending # 0
Valid(f) ==
    LET row == RowById(f.org, f.row)
    IN row # NoRow /\ row.pending # 0 /\ row.pending = cookie[f.by]

\* Refused on arrival: denied, the wrong mode, or not the pending connect.
LandRefused(n, k) ==
    LET f == flows[n]
        row == RowById(f.org, f.row)
    IN /\ f.at = "answered"
       /\ calls[n][k].pc = "idle"
       /\ f.answer = Denied \/ f.via # mode[Home[f.org]] \/ ~Valid(f)
       /\ calls' = [calls EXCEPT ![n][k].pc = "ended"]
       /\ IF row = NoRow THEN UNCHANGED <<rows, cut>> ELSE Write(f.org, Aborted(row))
       /\ UNCHANGED <<flows, cookie, mode, route, serial>>

Land(n, k) ==
    LET f == flows[n]
    IN /\ f.at = "answered"
       /\ calls[n][k].pc = "idle"
       /\ f.answer # Denied /\ f.via = mode[Home[f.org]] /\ Valid(f)
       /\ calls' = [calls EXCEPT ![n][k] =
             [pc |-> "exchanging", saw |-> RowById(f.org, f.row)]]
       /\ UNCHANGED <<rows, flows, cookie, mode, route, serial, cut>>

\* What the flush makes of the database's row "now" after the object read as
\* "saw" got an account and a token: the account column is written only when it
\* differs from the one read; the pending state always goes.
Flushed(now, saw, a, token) ==
    [now EXCEPT !.ig = IF saw.ig = a THEN @ ELSE a, !.token = token, !.pending = 0]

\* The row the exchange's transaction leaves.  When the row read is gone, the
\* flush that clears its pending state matches nothing and everything rolls back,
\* a row inserted in its place included.
StoredByCompany(o, saw, a, token) ==
    IF rows[o] = NoRow
    THEN [id |-> saw.id, ig |-> a, token |-> token, pending |-> 0]
    ELSE Flushed(rows[o], saw, a, token)
Stored(o, saw, a, token) ==
    IF RowById(o, saw.id) = NoRow THEN rows[o] ELSE Flushed(rows[o], saw, a, token)

Ended(n, k) == [calls EXCEPT ![n][k] = [pc |-> "ended", saw |-> NoRow]]

\* The code (the ticket) is good: once.
Connect(n, k) ==
    LET f == flows[n]
        saw == calls[n][k].saw
        token == [acct |-> f.answer, flow |-> n, by |-> f.by]
    IN /\ calls[n][k].pc = "exchanging"
       /\ ~f.spent
       /\ flows' = [flows EXCEPT ![n].spent = TRUE]
       /\ calls' = Ended(n, k)
       /\ Write(f.org, Stored(f.org, saw, f.answer, token))
       /\ UNCHANGED <<cookie, mode, route, serial>>

\* Instagram or the relay says no, or the code was spent: the connect is aborted
\* as the object read before the exchange shows it.
ExchangeFails(n, k) ==
    LET f == flows[n]
        saw == calls[n][k].saw
    IN /\ calls[n][k].pc = "exchanging"
       /\ calls' = Ended(n, k)
       /\ IF RowById(f.org, saw.id) = NoRow
          THEN UNCHANGED <<rows, cut>>
          ELSE Write(f.org, IF Connected(saw) THEN [rows[f.org] EXCEPT !.pending = 0]
                            ELSE NoRow)
       /\ flows' = [flows EXCEPT ![n].spent = TRUE]
       /\ UNCHANGED <<cookie, mode, route, serial>>

-----------------------------------------------------------------------------
(* Meta's platform callbacks: every row of the account on the install goes. *)

Without(i, a) ==
    [o \in Orgs |-> IF Home[o] = i /\ rows[o] # NoRow /\ rows[o].ig = a
                    THEN NoRow ELSE rows[o]]

Drop(i, a) ==
    /\ rows' = Without(i, a)
    /\ cut' = [o \in Orgs |-> IF Without(i, a)[o] # rows[o] THEN serial ELSE cut[o]]

\* To an install with its own app, deauthorize and data deletion do the same.
PlatformEvent(i, a) ==
    /\ mode[i] = "byo"
    /\ Drop(i, a)
    /\ UNCHANGED <<flows, calls, cookie, mode, route, serial>>

\* An install takes a forwarded event only while it is in relay mode.
Takes(a) == route[a] # NoOne /\ mode[route[a]] = "relay"

\* To the vendor's app: forwarded once, best effort, and the note is dropped
\* whatever came of it.  "up" is whether the install could be reached.
RelayDeauthorize(a, up) ==
    /\ IF Takes(a) /\ up THEN Drop(route[a], a) ELSE UNCHANGED <<rows, cut>>
    /\ route' = [route EXCEPT ![a] = NoOne]
    /\ UNCHANGED <<flows, calls, cookie, mode, serial>>

\* Answered with the install's own answer, or by the relay itself when it has no
\* note; an install that does not answer makes it a 503, which changes nothing.
RelayDeletion(a) ==
    /\ route[a] # NoOne => Takes(a)
    /\ IF Takes(a) THEN Drop(route[a], a) ELSE UNCHANGED <<rows, cut>>
    /\ UNCHANGED <<flows, calls, cookie, mode, route, serial>>

Next ==
    \/ \E o \in Orgs, b \in Browsers : Start(o, b)
    \/ \E o \in Orgs : Cancel(o) \/ Disconnect(o)
    \/ \E o \in Orgs, a \in Accounts : Paste(o, a)
    \/ \E i \in Installs : SwitchMode(i)
    \/ \E n \in Serials, b \in Browsers, a \in Accounts \cup {Denied} : Answer(n, b, a)
    \/ \E n \in Serials, k \in Tabs :
          LandRefused(n, k) \/ Land(n, k) \/ Connect(n, k) \/ ExchangeFails(n, k)
    \/ \E i \in Installs, a \in Accounts : PlatformEvent(i, a)
    \/ \E a \in Accounts, up \in BOOLEAN : RelayDeauthorize(a, up)
    \/ \E a \in Accounts : RelayDeletion(a)

Spec == Init /\ [][Next]_vars

-----------------------------------------------------------------------------
(* Properties.                                                             *)

(* Every row is either connected or a connect's placeholder: cancelled,     *)
(* refused and failed connects, whatever ran beside them, never leave an   *)
(* empty row that nothing will clean up.                                   *)
PlaceholderIsPending ==
    \A o \in Orgs : rows[o] # NoRow => Connected(rows[o]) \/ rows[o].pending # 0

(* Disconnecting is final: after a row was deleted (by an editor, by Meta, *)
(* by a cancelled first connect) only a connect that was started later can *)
(* put a token there, however long an earlier one has been exchanging.     *)
DisconnectIsFinal ==
    \A o \in Orgs :
        rows[o] # NoRow /\ rows[o].token # NoOne /\ rows[o].token.flow # 0
        => rows[o].token.flow > cut[o]

(* A connect is finished in a browser that started one for this very row:  *)
(* an answer given in a browser without that start's cookie stores nothing,*)
(* even if its callback overlaps with others.                              *)
SameBrowser ==
    \A o \in Orgs :
        rows[o] # NoRow /\ rows[o].token # NoOne /\ rows[o].token.flow # 0
        => \E n \in Serials : /\ flows[n] # Unused
                              /\ flows[n].row = rows[o].id
                              /\ flows[n].starter = rows[o].token.by

(* A row's account and its token belong together.                          *)
TokenOfAccount ==
    \A o \in Orgs : Connected(rows[o]) => rows[o].token.acct = rows[o].ig

(* A callback that fails never disconnects an organisation that is         *)
(* connected ("Drop pending OAuth without disconnecting an already-linked   *)
(* account", repos.py).                                                    *)
AbortKeepsConnection ==
    [][\A n \in Serials, k \in Tabs :
          LandRefused(n, k) \/ ExchangeFails(n, k)
          => \A o \in Orgs : Connected(rows[o]) => Connected(rows'[o])]_vars

(* A token is stored only while a connect is pending: Cancel "aborts an     *)
(* in-flight Meta connect".                                                *)
CancelledIsOver ==
    [][\A n \in Serials, k \in Tabs :
          Connect(n, k) /\ rows' # rows => rows[flows[n].org].pending # 0]_vars

(* The relay has a note of every account a row was connected with through  *)
(* it, so that a data deletion it answers by itself ("the relay retains    *)
(* nothing", ADR 0034) concerns no install.                                *)
RelayKnows ==
    \A o \in Orgs :
        Connected(rows[o]) /\ rows[o].token.flow # 0
        => (flows[rows[o].token.flow].via = "relay" => route[rows[o].token.acct] # NoOne)
=============================================================================
