----------------------------- MODULE InboxProofs -----------------------------
(***************************************************************************)
(* Proofs about Inbox, for every set of requests and conversations and     *)
(* every number of messages, acknowledgements, faults and requests of the  *)
(* page.  First the server's side: what the status of a message is         *)
(* explained by.  The status that a row has may be another than the one    *)
(* whose event is being written, so Inv names the very status that each    *)
(* request still has to write.  Then the page: what the server answers     *)
(* with, which requests are in flight, and what the page makes of both.    *)
(***************************************************************************)
EXTENDS Inbox, FiniteSetTheorems, SequenceTheorems, TLAPS

\* Rows of the pipeline have no external id: no acknowledgement finds them.
Quiet(i, status) == rows[i].ext = 0 /\ rows[i].status = status

\* What each request has in hand, by its place.
HeldFits(t) ==
  /\ at[t] \in {"emit", "event", "mark", "notify", "insertReply", "logBoth", "emitBoth"}
       => held[t].id \in DOMAIN rows
  /\ at[t] \in {"logBoth", "emitBoth"} => held[t].reply \in DOMAIN rows
  /\ at[t] \in {"insertReply", "logBoth"} => Quiet(held[t].id, "DELIVERED")
  /\ at[t] = "logBoth" => Quiet(held[t].reply, "SENT")
  /\ at[t] = "logBoth" /\ Stray(t) => held[t].reply \in strays

\* Request t has still to write, or to fail to write, that row i came to have `status`.
Writes(t, i, status) ==
  \/ at[t] \in {"emit", "event", "mark"} /\ held[t].id = i /\ held[t].status = status
  \/ at[t] = "insertReply" /\ held[t].id = i
  \/ at[t] = "logBoth" /\ i \in {held[t].id, held[t].reply}

Explained(i) ==
  \/ i \in strays \/ rows[i].status \in timeline[i] \/ i \in unlogged
  \/ \E t \in Tasks : Writes(t, i, rows[i].status)

Hands == [conv : Convs, id : Nat, reply : Nat, ext : 0 .. MaxMessages, status : Statuses]

\* The server's variables without the bounds, which nothing here rests on.
Typed ==
  /\ rows \in Seq(Rows) /\ timeline \in Seq(SUBSET Statuses) /\ Len(timeline) = Len(rows)
  /\ unlogged \subseteq DOMAIN rows /\ strays \subseteq DOMAIN rows
  /\ sent \in 0 .. MaxMessages
  /\ at \in [Tasks -> Places]
  /\ held \in [Tasks -> Hands]
  /\ active \in Convs

Inv ==
  /\ Typed
  /\ \A t \in Tasks : HeldFits(t)
  /\ \A i \in DOMAIN rows : Explained(i)

OthersStay(t) == \A u \in Tasks \ {t} : at'[u] = at[u] /\ held'[u] = held[u]

----------------------------------------------------------------------------
LEMMA Bounds == /\ Before \in Nat /\ MaxMessages \in Nat /\ First \in Convs
                /\ AckStatuses \subseteq Statuses /\ SendStatuses \subseteq Statuses
BY InboxAssumption DEF Statuses

LEMMA NobodyTyped == Nobody \in Hands
BY Bounds DEF Nobody, Hands, Statuses

LEMMA HandRow ==
  ASSUME NEW h \in Hands, NEW n \in Nat
  PROVE  /\ [h EXCEPT !.id = n] \in Hands /\ [h EXCEPT !.id = n].id = n
         /\ [h EXCEPT !.id = n].status = h.status
BY DEF Hands

LEMMA HandReply ==
  ASSUME NEW h \in Hands, NEW n \in Nat
  PROVE  /\ [h EXCEPT !.reply = n] \in Hands /\ [h EXCEPT !.reply = n].reply = n
         /\ [h EXCEPT !.reply = n].id = h.id
BY DEF Hands

LEMMA HandStatus ==
  ASSUME NEW h \in Hands, NEW n \in Nat, NEW s \in Statuses
  PROVE  /\ [h EXCEPT !.id = n, !.status = s] \in Hands
         /\ [h EXCEPT !.id = n, !.status = s].id = n
         /\ [h EXCEPT !.id = n, !.status = s].status = s
BY DEF Hands

LEMMA HandReceived ==
  ASSUME NEW h \in Hands, NEW conv \in Convs, NEW n \in Nat
  PROVE  /\ [h EXCEPT !.conv = conv, !.id = n] \in Hands
         /\ [h EXCEPT !.conv = conv, !.id = n].id = n
BY DEF Hands

LEMMA HandSent ==
  ASSUME NEW h \in Hands, NEW conv \in Convs, NEW e \in 0 .. MaxMessages, NEW s \in Statuses
  PROVE  [h EXCEPT !.conv = conv, !.ext = e, !.status = s] \in Hands
BY DEF Hands

LEMMA GoFacts ==
  ASSUME Typed, NEW t \in Tasks, NEW place \in Places, NEW what \in Hands, Go(t, place, what)
  PROVE  /\ at' \in [Tasks -> Places] /\ held' \in [Tasks -> Hands]
         /\ at'[t] = place /\ held'[t] = (IF place = "idle" THEN Nobody ELSE what)
         /\ OthersStay(t)
BY NobodyTyped DEF Typed, Go, OthersStay

\* A new row stands below the others and changes none of them.
LEMMA CreateFacts ==
  ASSUME Typed, NEW conv \in Convs, NEW status \in Statuses, NEW ext \in 0 .. MaxMessages,
         createMessage(conv, status, ext)
  PROVE  LET i == Len(rows) + 1
         IN /\ rows' \in Seq(Rows) /\ timeline' \in Seq(SUBSET Statuses)
            /\ Len(rows') = i /\ Len(timeline') = Len(rows')
            /\ DOMAIN rows' = DOMAIN rows \cup {i} /\ i \notin DOMAIN rows /\ i \in Nat
            /\ rows'[i] = [conv |-> conv, status |-> status, ext |-> ext]
            /\ \A j \in DOMAIN rows : rows'[j] = rows[j] /\ timeline'[j] = timeline[j]
<1> DEFINE row == [conv |-> conv, status |-> status, ext |-> ext]
<1>1. row \in Rows
  BY DEF Rows
<1>2. rows' = Append(rows, row) /\ timeline' = Append(timeline, {})
  BY DEF createMessage
<1> HIDE DEF row
<1>3. rows \in Seq(Rows) /\ timeline \in Seq(SUBSET Statuses) /\ Len(timeline) = Len(rows)
  BY DEF Typed
<1>4. /\ rows' \in Seq(Rows) /\ Len(rows') = Len(rows) + 1 /\ rows'[Len(rows) + 1] = row
      /\ \A j \in 1 .. Len(rows) : rows'[j] = rows[j]
  BY <1>1, <1>2, <1>3
<1>5. /\ timeline' \in Seq(SUBSET Statuses) /\ Len(timeline') = Len(rows) + 1
      /\ \A j \in 1 .. Len(rows) : timeline'[j] = timeline[j]
  BY <1>2, <1>3
<1>6. DOMAIN rows = 1 .. Len(rows) /\ DOMAIN rows' = 1 .. Len(rows') /\ Len(rows) \in Nat
  BY <1>3, <1>4
<1> QED
  BY <1>4, <1>5, <1>6 DEF row

----------------------------------------------------------------------------
\* What a step of one request leaves of the others and of the rows.

Grows == DOMAIN rows \subseteq DOMAIN rows' /\ \A j \in DOMAIN rows : rows'[j] = rows[j]
StraysStay == \A j \in DOMAIN rows : j \in strays' <=> j \in strays

LEMMA OthersFit ==
  ASSUME Inv, NEW t \in Tasks, OthersStay(t), Grows, StraysStay, NEW u \in Tasks \ {t}
  PROVE  HeldFits(u)'
<1>1. HeldFits(u) /\ at'[u] = at[u] /\ held'[u] = held[u]
  BY DEF Inv, OthersStay
<1> QED
  BY <1>1 DEF Grows, StraysStay, HeldFits, Quiet, Stray

LEMMA StillExplained ==
  ASSUME Inv, NEW t \in Tasks, OthersStay(t), NEW i \in DOMAIN rows, rows'[i] = rows[i],
         timeline[i] \subseteq timeline'[i], unlogged \subseteq unlogged',
         i \in strays => i \in strays',
         Writes(t, i, rows[i].status) => Explained(i)'
  PROVE  Explained(i)'
<1>1. CASE \E u \in Tasks \ {t} : Writes(u, i, rows[i].status)
  <2>1. PICK u \in Tasks \ {t} : Writes(u, i, rows[i].status)
    BY <1>1
  <2>2. Writes(u, i, rows[i].status)'
    BY <2>1 DEF Writes, OthersStay
  <2> QED
    BY <2>2 DEF Explained
<1>2. CASE ~\E u \in Tasks \ {t} : Writes(u, i, rows[i].status)
  BY <1>2 DEF Inv, Explained
<1> QED
  BY <1>1, <1>2

\* A step that writes no row, and lets the timeline only grow.
LEMMA SameRows ==
  ASSUME Inv, NEW t \in Tasks, OthersStay(t), rows' = rows, strays' = strays,
         \A i \in DOMAIN rows : timeline[i] \subseteq timeline'[i],
         unlogged \subseteq unlogged', Typed', HeldFits(t)',
         \A i \in DOMAIN rows : Writes(t, i, rows[i].status) => Explained(i)'
  PROVE  Inv'
<1>1. Grows /\ StraysStay
  BY DEF Grows, StraysStay
<1> QED
  BY <1>1, OthersFit, StillExplained DEF Inv

\* An event is written for row i, or fails to be.
LEMMA LogFacts ==
  ASSUME Typed, NEW i \in DOMAIN rows, NEW s \in Statuses, Logged(i, s) \/ NotLogged(i)
  PROVE  /\ timeline' \in Seq(SUBSET Statuses) /\ Len(timeline') = Len(timeline)
         /\ \A j \in DOMAIN rows : timeline[j] \subseteq timeline'[j]
         /\ unlogged \subseteq unlogged' /\ unlogged' \subseteq DOMAIN rows
         /\ s \in timeline'[i] \/ i \in unlogged'
<1>1. DOMAIN timeline = DOMAIN rows /\ \A j \in DOMAIN rows : timeline[j] \in SUBSET Statuses
  BY DEF Typed
<1>2. CASE Logged(i, s)
  <2>1. timeline' = [timeline EXCEPT ![i] = timeline[i] \cup {s}] /\ unlogged' = unlogged
    BY <1>2 DEF Logged
  <2>2. timeline[i] \cup {s} \in SUBSET Statuses
    BY <1>1
  <2>3. timeline' \in Seq(SUBSET Statuses) /\ Len(timeline') = Len(timeline)
    BY <1>1, <2>1, <2>2 DEF Typed
  <2> QED
    BY <1>1, <2>1, <2>3 DEF Typed
<1>3. CASE NotLogged(i)
  BY <1>3 DEF NotLogged, Typed
<1> QED
  BY <1>2, <1>3

----------------------------------------------------------------------------
\* Operators' messages.

LEMMA SendInv ==
  ASSUME Inv, NEW t \in Tasks, NEW status \in SendStatuses, Send(t, status)
  PROVE  Inv'
<1> DEFINE what == [Nobody EXCEPT !.conv = active, !.ext = sent + 1, !.status = status]
<1>1. sent + 1 \in 0 .. MaxMessages /\ active \in Convs /\ status \in Statuses
  BY Bounds DEF Inv, Typed, Send
<1>2. what \in Hands
  BY <1>1, NobodyTyped, HandSent
<1>3. at[t] = "idle" /\ Go(t, "insert", what) /\ UNCHANGED <<rows, timeline, unlogged, strays, active>>
      /\ sent' = sent + 1
  BY DEF Send, view
<1> HIDE DEF what
<1>4. /\ at' \in [Tasks -> Places] /\ held' \in [Tasks -> Hands]
      /\ at'[t] = "insert" /\ OthersStay(t)
  BY <1>2, <1>3, GoFacts DEF Inv, Places
<1>5. Typed' /\ HeldFits(t)'
  BY <1>1, <1>3, <1>4 DEF Inv, Typed, HeldFits
<1>6. \A i \in DOMAIN rows : ~Writes(t, i, rows[i].status)
  BY <1>3 DEF Writes
<1> QED
  BY <1>3, <1>4, <1>5, <1>6, SameRows

LEMMA InsertSentInv ==
  ASSUME Inv, NEW t \in Tasks, InsertSent(t)
  PROVE  Inv'
<1>1. /\ at[t] = "insert" /\ held[t] \in Hands /\ Typed
      /\ UNCHANGED <<unlogged, strays, sent, active>>
  BY DEF InsertSent, Inv, Typed, view
<1>2. \A i \in DOMAIN rows : ~Writes(t, i, rows[i].status)
  BY <1>1 DEF Writes
<1>3. CASE Go(t, "idle", Nobody) /\ UNCHANGED <<rows, timeline>>
  <2>1. /\ at' \in [Tasks -> Places] /\ held' \in [Tasks -> Hands]
        /\ at'[t] = "idle" /\ OthersStay(t)
    BY <1>1, <1>3, NobodyTyped, GoFacts DEF Places
  <2>2. Typed' /\ HeldFits(t)'
    BY <1>1, <1>3, <2>1 DEF Typed, HeldFits
  <2> QED
    BY <1>1, <1>2, <1>3, <2>1, <2>2, SameRows
<1>4. CASE /\ createMessage(held[t].conv, held[t].status, held[t].ext)
           /\ Go(t, "emit", [held[t] EXCEPT !.id = Len(rows) + 1])
  <2>0. PICK n \in Nat : n = Len(rows) + 1
    BY <1>1 DEF Typed
  <2> DEFINE what == [held[t] EXCEPT !.id = n]
  <2>1. /\ held[t].conv \in Convs /\ held[t].status \in Statuses
        /\ held[t].ext \in 0 .. MaxMessages
    BY <1>1 DEF Hands
  <2>2. /\ rows' \in Seq(Rows) /\ timeline' \in Seq(SUBSET Statuses)
        /\ Len(timeline') = Len(rows')
        /\ DOMAIN rows' = DOMAIN rows \cup {n} /\ n \notin DOMAIN rows /\ n \in Nat
        /\ rows'[n] = [conv |-> held[t].conv, status |-> held[t].status, ext |-> held[t].ext]
        /\ \A j \in DOMAIN rows : rows'[j] = rows[j] /\ timeline'[j] = timeline[j]
    BY <1>1, <1>4, <2>0, <2>1, CreateFacts
  <2>3. what \in Hands /\ what.id = n /\ what.status = held[t].status
    BY <1>1, <2>2, HandRow
  <2>4. Go(t, "emit", what)
    BY <1>4, <2>0
  <2>5. rows'[n].status = held[t].status
    BY <2>2
  <2> HIDE DEF what
  <2>6. /\ at' \in [Tasks -> Places] /\ held' \in [Tasks -> Hands]
        /\ at'[t] = "emit" /\ held'[t] = what /\ OthersStay(t)
    BY <1>1, <2>3, <2>4, GoFacts DEF Places
  <2>7. Typed'
    BY <1>1, <2>2, <2>6 DEF Typed
  <2>8. HeldFits(t)'
    BY <2>2, <2>3, <2>6 DEF HeldFits
  <2>9. ASSUME NEW u \in Tasks \ {t} PROVE HeldFits(u)'
    BY <1>1, <2>2, <2>6, OthersFit DEF Grows, StraysStay
  <2>10. Explained(n)'
    BY <2>3, <2>5, <2>6 DEF Explained, Writes
  <2>11. ASSUME NEW i \in DOMAIN rows PROVE Explained(i)'
    BY <1>1, <1>2, <2>2, <2>6, StillExplained
  <2> QED
    BY <2>2, <2>7, <2>8, <2>9, <2>10, <2>11 DEF Inv
<1> QED
  BY <1>3, <1>4 DEF InsertSent

LEMMA EmitSentInv ==
  ASSUME Inv, NEW t \in Tasks, EmitSent(t)
  PROVE  Inv'
<1>1. /\ at[t] = "emit" /\ held[t] \in Hands /\ Typed /\ Go(t, "event", held[t])
      /\ UNCHANGED <<rows, timeline, unlogged, strays, sent, active>>
  BY DEF EmitSent, Inv, Typed, view, server
<1>2. /\ at' \in [Tasks -> Places] /\ held' \in [Tasks -> Hands]
      /\ at'[t] = "event" /\ held'[t] = held[t] /\ OthersStay(t)
  BY <1>1, GoFacts DEF Places
<1>3. Typed'
  BY <1>1, <1>2 DEF Typed
<1>4. HeldFits(t)'
  BY <1>1, <1>2 DEF Inv, HeldFits
<1>5. ASSUME NEW i \in DOMAIN rows, Writes(t, i, rows[i].status) PROVE Explained(i)'
  BY <1>1, <1>2, <1>5 DEF Writes, Explained
<1> QED
  BY <1>1, <1>2, <1>3, <1>4, <1>5, SameRows

LEMMA LogSentInv ==
  ASSUME Inv, NEW t \in Tasks, LogSent(t)
  PROVE  Inv'
<1>1. /\ at[t] = "event" /\ held[t] \in Hands /\ Typed /\ Go(t, "idle", Nobody)
      /\ UNCHANGED <<rows, strays, sent, active>>
      /\ Logged(held[t].id, held[t].status) \/ NotLogged(held[t].id)
  BY DEF LogSent, Inv, Typed, view
<1>2. held[t].id \in DOMAIN rows /\ held[t].status \in Statuses
  BY <1>1 DEF Inv, HeldFits, Hands
<1>3. /\ timeline' \in Seq(SUBSET Statuses) /\ Len(timeline') = Len(timeline)
      /\ \A j \in DOMAIN rows : timeline[j] \subseteq timeline'[j]
      /\ unlogged \subseteq unlogged' /\ unlogged' \subseteq DOMAIN rows
      /\ held[t].status \in timeline'[held[t].id] \/ held[t].id \in unlogged'
  BY <1>1, <1>2, LogFacts
<1>4. /\ at' \in [Tasks -> Places] /\ held' \in [Tasks -> Hands]
      /\ at'[t] = "idle" /\ OthersStay(t)
  BY <1>1, NobodyTyped, GoFacts DEF Places
<1>5. Typed' /\ HeldFits(t)'
  BY <1>1, <1>3, <1>4 DEF Typed, HeldFits
<1>6. ASSUME NEW i \in DOMAIN rows, Writes(t, i, rows[i].status) PROVE Explained(i)'
  BY <1>1, <1>3, <1>6 DEF Writes, Explained
<1> QED
  BY <1>1, <1>3, <1>4, <1>5, <1>6, SameRows

----------------------------------------------------------------------------
\* Acknowledgements.

LEMMA AcknowledgeInv ==
  ASSUME Inv, NEW t \in Tasks, NEW ext \in 1 .. sent, NEW status \in AckStatuses,
         Acknowledge(t, ext, status)
  PROVE  Inv'
<1>1. at[t] = "idle" /\ Typed /\ UNCHANGED <<timeline, unlogged, strays, sent, active>>
  BY DEF Acknowledge, Inv, view
<1>2. CASE UNCHANGED <<rows, at, held>>
  <2>1. OthersStay(t) /\ Typed' /\ HeldFits(t)'
    BY <1>1, <1>2 DEF OthersStay, Typed, Inv, HeldFits, Quiet
  <2>2. \A i \in DOMAIN rows : ~Writes(t, i, rows[i].status)
    BY <1>1 DEF Writes
  <2> QED
    BY <1>1, <1>2, <2>1, <2>2, SameRows
<1>3. CASE \E i \in {j \in DOMAIN rows : rows[j].ext = ext} :
             /\ rows' = [rows EXCEPT ![i].status = status]
             /\ Go(t, "mark", [Nobody EXCEPT !.id = i, !.status = status])
  <2>1. PICK i \in DOMAIN rows :
          /\ rows[i].ext = ext
          /\ rows' = [rows EXCEPT ![i].status = status]
          /\ Go(t, "mark", [Nobody EXCEPT !.id = i, !.status = status])
    BY <1>3
  <2> DEFINE what == [Nobody EXCEPT !.id = i, !.status = status]
  <2>2. status \in Statuses /\ rows \in Seq(Rows) /\ i \in Nat /\ rows[i] \in Rows
    BY <1>1, Bounds DEF Typed
  <2>3. what \in Hands /\ what.id = i /\ what.status = status
    <3>1. i \in Nat /\ status \in Statuses
      BY <2>2
    <3> QED
      BY <3>1, NobodyTyped DEF Hands
  <2>4. Go(t, "mark", what)
    BY <2>1
  <2> HIDE DEF what
  <2>5. /\ at' \in [Tasks -> Places] /\ held' \in [Tasks -> Hands]
        /\ at'[t] = "mark" /\ held'[t] = what /\ OthersStay(t)
    BY <1>1, <2>3, <2>4, GoFacts DEF Places
  <2>6. [rows[i] EXCEPT !.status = status] \in Rows
        /\ [rows[i] EXCEPT !.status = status].status = status
    BY <2>2 DEF Rows
  <2> DEFINE row == [rows[i] EXCEPT !.status = status]
  <2>7. rows' = [rows EXCEPT ![i] = row] /\ row \in Rows /\ row.status = status
    BY <2>1, <2>6
  <2> HIDE DEF row
  <2>8. /\ rows' \in Seq(Rows) /\ Len(rows') = Len(rows) /\ DOMAIN rows' = DOMAIN rows
        /\ rows'[i].status = status /\ \A j \in DOMAIN rows \ {i} : rows'[j] = rows[j]
    BY <2>2, <2>7
  <2>9. Typed'
    BY <1>1, <2>5, <2>8 DEF Typed
  <2>10. HeldFits(t)'
    BY <2>3, <2>5, <2>8 DEF HeldFits
  <2>11. ASSUME NEW u \in Tasks \ {t} PROVE HeldFits(u)'
    <3>1. HeldFits(u) /\ at'[u] = at[u] /\ held'[u] = held[u]
      BY <2>5 DEF Inv, OthersStay
    <3>2. \A s \in Statuses : ~Quiet(i, s)
      BY <2>1 DEF Quiet
    <3>3. \A j \in DOMAIN rows, s \in Statuses : Quiet(j, s) => rows'[j] = rows[j]
      BY <2>8, <3>2
    <3> QED
      BY <1>1, <2>8, <3>1, <3>3 DEF HeldFits, Quiet, Stray, Statuses
  <2>12. Explained(i)'
    BY <2>3, <2>5, <2>8 DEF Explained, Writes
  <2>13. ASSUME NEW j \in DOMAIN rows \ {i} PROVE Explained(j)'
    <3>1. ~Writes(t, j, rows[j].status)
      BY <1>1 DEF Writes
    <3> QED
      BY <1>1, <2>5, <2>8, <3>1, StillExplained
  <2> QED
    BY <2>8, <2>9, <2>10, <2>11, <2>12, <2>13 DEF Inv
<1> QED
  BY <1>2, <1>3 DEF Acknowledge

LEMMA LogAckInv ==
  ASSUME Inv, NEW t \in Tasks, LogAck(t)
  PROVE  Inv'
<1>1. /\ at[t] = "mark" /\ held[t] \in Hands /\ Typed /\ UNCHANGED <<rows, strays, sent, active>>
      /\ \/ Logged(held[t].id, held[t].status) /\ Go(t, "notify", held[t])
         \/ NotLogged(held[t].id) /\ Go(t, "idle", Nobody)
  BY DEF LogAck, Inv, Typed, view
<1>2. held[t].id \in DOMAIN rows /\ held[t].status \in Statuses
  BY <1>1 DEF Inv, HeldFits, Hands
<1>3. /\ timeline' \in Seq(SUBSET Statuses) /\ Len(timeline') = Len(timeline)
      /\ \A j \in DOMAIN rows : timeline[j] \subseteq timeline'[j]
      /\ unlogged \subseteq unlogged' /\ unlogged' \subseteq DOMAIN rows
      /\ held[t].status \in timeline'[held[t].id] \/ held[t].id \in unlogged'
  BY <1>1, <1>2, LogFacts
<1>4. /\ at' \in [Tasks -> Places] /\ held' \in [Tasks -> Hands] /\ OthersStay(t)
      /\ at'[t] = "idle" \/ (at'[t] = "notify" /\ held'[t] = held[t])
  <2>1. "idle" \in Places /\ "notify" \in Places
    BY DEF Places
  <2>2. CASE Go(t, "notify", held[t])
    BY <1>1, <2>1, <2>2, GoFacts
  <2>3. CASE Go(t, "idle", Nobody)
    BY <1>1, <2>1, <2>3, NobodyTyped, GoFacts
  <2> QED
    BY <1>1, <2>2, <2>3
<1>5. Typed' /\ HeldFits(t)'
  BY <1>1, <1>2, <1>3, <1>4 DEF Typed, HeldFits
<1>6. ASSUME NEW i \in DOMAIN rows, Writes(t, i, rows[i].status) PROVE Explained(i)'
  BY <1>1, <1>3, <1>6 DEF Writes, Explained
<1> QED
  BY <1>1, <1>3, <1>4, <1>5, <1>6, SameRows

\* The page is told, and the request is over: nothing was left to write.
LEMMA EndInv ==
  ASSUME Inv, NEW t \in Tasks, at[t] \in {"notify", "emitBoth"}, Go(t, "idle", Nobody),
         UNCHANGED <<rows, timeline, unlogged, strays, sent, active>>
  PROVE  Inv'
<1>1. /\ at' \in [Tasks -> Places] /\ held' \in [Tasks -> Hands]
      /\ at'[t] = "idle" /\ OthersStay(t)
  BY NobodyTyped, GoFacts DEF Inv, Places
<1>2. Typed' /\ HeldFits(t)'
  BY <1>1 DEF Inv, Typed, HeldFits
<1>3. \A i \in DOMAIN rows : ~Writes(t, i, rows[i].status)
  BY DEF Writes
<1> QED
  BY <1>1, <1>2, <1>3, SameRows

----------------------------------------------------------------------------
\* What a contact wrote and the reply.

LEMMA InsertReceivedInv ==
  ASSUME Inv, NEW t \in Tasks, NEW conv \in Convs, InsertReceived(t, conv)
  PROVE  Inv'
<1>1. /\ at[t] = "idle" /\ Typed /\ createMessage(conv, "DELIVERED", 0)
      /\ UNCHANGED <<unlogged, sent, active>>
      /\ strays \subseteq strays' /\ strays' \subseteq strays \cup {Len(rows) + 1}
      /\ Go(t, "insertReply", [Nobody EXCEPT !.conv = conv, !.id = Len(rows) + 1])
  BY DEF InsertReceived, Inv, view
<1>2. PICK n \in Nat : n = Len(rows) + 1
  BY <1>1 DEF Typed
<1> DEFINE what == [Nobody EXCEPT !.conv = conv, !.id = n]
<1>3. /\ rows' \in Seq(Rows) /\ timeline' \in Seq(SUBSET Statuses)
      /\ Len(timeline') = Len(rows')
      /\ DOMAIN rows' = DOMAIN rows \cup {n} /\ n \notin DOMAIN rows
      /\ rows'[n] = [conv |-> conv, status |-> "DELIVERED", ext |-> 0]
      /\ \A j \in DOMAIN rows : rows'[j] = rows[j] /\ timeline'[j] = timeline[j]
  <2>1. "DELIVERED" \in Statuses /\ 0 \in 0 .. MaxMessages
    BY Bounds DEF Statuses
  <2> QED
    BY <1>1, <1>2, <2>1, CreateFacts
<1>4. what \in Hands /\ what.id = n
  BY NobodyTyped, HandReceived
<1>5. Go(t, "insertReply", what)
  BY <1>1, <1>2
<1> HIDE DEF what
<1>12. strays \subseteq strays' /\ strays' \subseteq strays \cup {n}
  BY <1>1, <1>2
<1>6. /\ at' \in [Tasks -> Places] /\ held' \in [Tasks -> Hands]
      /\ at'[t] = "insertReply" /\ held'[t] = what /\ OthersStay(t)
  BY <1>1, <1>4, <1>5, GoFacts DEF Places
<1>7. Typed'
  BY <1>1, <1>3, <1>6, <1>12 DEF Typed
<1>8. HeldFits(t)'
  BY <1>3, <1>4, <1>6 DEF HeldFits, Quiet
<1>9. ASSUME NEW u \in Tasks \ {t} PROVE HeldFits(u)'
  BY <1>3, <1>6, <1>12, OthersFit DEF Grows, StraysStay
<1>10. Explained(n)'
  BY <1>4, <1>6 DEF Explained, Writes
<1>11. ASSUME NEW i \in DOMAIN rows PROVE Explained(i)'
  <2>1. ~Writes(t, i, rows[i].status)
    BY <1>1 DEF Writes
  <2> QED
    BY <1>1, <1>3, <1>6, <1>12, <2>1, StillExplained
<1> QED
  BY <1>3, <1>7, <1>8, <1>9, <1>10, <1>11 DEF Inv

LEMMA InsertReplyInv ==
  ASSUME Inv, NEW t \in Tasks, InsertReply(t)
  PROVE  Inv'
<1>1. /\ at[t] = "insertReply" /\ held[t] \in Hands /\ Typed /\ UNCHANGED <<sent, active>>
      /\ held[t].id \in DOMAIN rows /\ Quiet(held[t].id, "DELIVERED")
  BY DEF InsertReply, Inv, Typed, HeldFits, view
<1>2. CASE /\ Go(t, "idle", Nobody) /\ unlogged' = unlogged \cup {held[t].id}
           /\ UNCHANGED <<rows, timeline, strays>>
  <2>1. /\ at' \in [Tasks -> Places] /\ held' \in [Tasks -> Hands]
        /\ at'[t] = "idle" /\ OthersStay(t)
    BY <1>1, <1>2, NobodyTyped, GoFacts DEF Places
  <2>2. Typed' /\ HeldFits(t)'
    BY <1>1, <1>2, <2>1 DEF Typed, HeldFits
  <2>3. ASSUME NEW i \in DOMAIN rows, Writes(t, i, rows[i].status) PROVE Explained(i)'
    BY <1>1, <1>2, <2>3 DEF Writes, Explained
  <2> QED
    BY <1>1, <1>2, <2>1, <2>2, <2>3, SameRows
<1>3. CASE /\ createMessage(held[t].conv, "SENT", 0) /\ UNCHANGED unlogged
           /\ strays' = IF Stray(t) THEN strays \cup {Len(rows) + 1} ELSE strays
           /\ Go(t, "logBoth", [held[t] EXCEPT !.reply = Len(rows) + 1])
  <2>1. PICK n \in Nat : n = Len(rows) + 1
    BY <1>1 DEF Typed
  <2> DEFINE what == [held[t] EXCEPT !.reply = n]
  <2>2. held[t].conv \in Convs
    BY <1>1 DEF Hands
  <2>3. /\ rows' \in Seq(Rows) /\ timeline' \in Seq(SUBSET Statuses)
        /\ Len(timeline') = Len(rows')
        /\ DOMAIN rows' = DOMAIN rows \cup {n} /\ n \notin DOMAIN rows
        /\ rows'[n] = [conv |-> held[t].conv, status |-> "SENT", ext |-> 0]
        /\ \A j \in DOMAIN rows : rows'[j] = rows[j] /\ timeline'[j] = timeline[j]
    <3>1. "SENT" \in Statuses /\ 0 \in 0 .. MaxMessages
      BY Bounds DEF Statuses
    <3> QED
      BY <1>1, <1>3, <2>1, <2>2, <3>1, CreateFacts
  <2>4. what \in Hands /\ what.reply = n /\ what.id = held[t].id
    BY <1>1, HandReply
  <2>5. Go(t, "logBoth", what)
    BY <1>3, <2>1
  <2> HIDE DEF what
  <2>6. /\ at' \in [Tasks -> Places] /\ held' \in [Tasks -> Hands]
        /\ at'[t] = "logBoth" /\ held'[t] = what /\ OthersStay(t)
    BY <1>1, <2>4, <2>5, GoFacts DEF Places
  <2>12. /\ strays \subseteq strays' /\ strays' \subseteq strays \cup {n}
         /\ held[t].id \in strays' => n \in strays'
    BY <1>1, <1>3, <2>1, <2>3 DEF Typed, Stray
  <2>7. Typed'
    BY <1>1, <1>3, <2>3, <2>6, <2>12 DEF Typed
  <2>8. HeldFits(t)'
    BY <1>1, <2>3, <2>4, <2>6, <2>12 DEF HeldFits, Quiet, Stray
  <2>9. ASSUME NEW u \in Tasks \ {t} PROVE HeldFits(u)'
    BY <2>3, <2>6, <2>12, OthersFit DEF Grows, StraysStay
  <2>10. Explained(n)'
    BY <2>4, <2>6 DEF Explained, Writes
  <2>11. ASSUME NEW i \in DOMAIN rows PROVE Explained(i)'
    <3>1. Writes(t, i, rows[i].status) => Writes(t, i, rows[i].status)'
      BY <1>1, <2>4, <2>6 DEF Writes
    <3> QED
      BY <1>1, <1>3, <2>3, <2>6, <2>12, <3>1, StillExplained DEF Explained
  <2> QED
    BY <2>3, <2>7, <2>8, <2>9, <2>10, <2>11 DEF Inv
<1> QED
  BY <1>2, <1>3 DEF InsertReply

LEMMA LogBothInv ==
  ASSUME Inv, NEW t \in Tasks, LogBoth(t)
  PROVE  Inv'
<1>1. /\ at[t] = "logBoth" /\ held[t] \in Hands /\ Typed /\ Go(t, "emitBoth", held[t])
      /\ UNCHANGED <<rows, strays, sent, active>>
      /\ held[t].id \in DOMAIN rows /\ Quiet(held[t].id, "DELIVERED")
      /\ held[t].reply \in DOMAIN rows /\ Quiet(held[t].reply, "SENT")
      /\ Stray(t) => held[t].id \in strays /\ held[t].reply \in strays
  BY DEF LogBoth, Inv, Typed, HeldFits, Stray, view
<1>2. held[t].id # held[t].reply
  BY <1>1 DEF Quiet
<1>3. /\ timeline \in Seq(SUBSET Statuses) /\ DOMAIN timeline = DOMAIN rows
      /\ {"DELIVERED"} \in SUBSET Statuses /\ {"SENT"} \in SUBSET Statuses
  BY <1>1 DEF Typed, Statuses
<1>4. /\ timeline' \in Seq(SUBSET Statuses) /\ Len(timeline') = Len(timeline)
      /\ unlogged \subseteq unlogged' /\ unlogged' \subseteq DOMAIN rows
      /\ "DELIVERED" \in timeline'[held[t].id] \/ held[t].id \in unlogged' \cup strays
      /\ "SENT" \in timeline'[held[t].reply] \/ held[t].reply \in unlogged' \cup strays
      /\ \A j \in DOMAIN rows \ {held[t].id, held[t].reply} : timeline'[j] = timeline[j]
  <2>1. CASE /\ timeline' = [timeline EXCEPT ![held[t].id] = {"DELIVERED"},
                                            ![held[t].reply] = {"SENT"}]
             /\ UNCHANGED unlogged
    BY <1>1, <1>2, <1>3, <2>1 DEF Typed
  <2>2. CASE \E lost \in {{held[t].id, held[t].reply}, {held[t].reply}} :
               /\ unlogged' = unlogged \cup lost
               /\ timeline' = IF held[t].id \in lost THEN timeline
                              ELSE [timeline EXCEPT ![held[t].id] = {"DELIVERED"}]
    <3>1. CASE /\ unlogged' = unlogged \cup {held[t].id, held[t].reply} /\ timeline' = timeline
      BY <1>1, <1>3, <3>1 DEF Typed
    <3>2. CASE /\ unlogged' = unlogged \cup {held[t].reply}
               /\ timeline' = [timeline EXCEPT ![held[t].id] = {"DELIVERED"}]
      BY <1>1, <1>2, <1>3, <3>2 DEF Typed
    <3> QED
      BY <1>2, <2>2, <3>1, <3>2
  <2>3. CASE Stray(t) /\ UNCHANGED <<timeline, unlogged>>
    BY <1>1, <1>3, <2>3 DEF Typed
  <2> QED
    BY <2>1, <2>2, <2>3 DEF LogBoth
<1>5. /\ at' \in [Tasks -> Places] /\ held' \in [Tasks -> Hands]
      /\ at'[t] = "emitBoth" /\ held'[t] = held[t] /\ OthersStay(t)
  BY <1>1, GoFacts DEF Places
<1>6. Typed' /\ HeldFits(t)'
  BY <1>1, <1>4, <1>5 DEF Typed, HeldFits
<1>7. ASSUME NEW u \in Tasks \ {t} PROVE HeldFits(u)'
  BY <1>1, <1>5, OthersFit DEF Grows, StraysStay
<1>8. ASSUME NEW i \in DOMAIN rows \ {held[t].id, held[t].reply} PROVE Explained(i)'
  <2>1. ~Writes(t, i, rows[i].status)
    BY <1>1 DEF Writes
  <2> QED
    BY <1>1, <1>4, <1>5, <2>1, StillExplained
<1>9. ASSUME NEW i \in {held[t].id, held[t].reply} PROVE Explained(i)'
  BY <1>1, <1>4 DEF Explained, Quiet
<1> QED
  BY <1>1, <1>6, <1>7, <1>8, <1>9 DEF Inv

----------------------------------------------------------------------------
\* The page changes nothing of it.

LEMMA PageInv ==
  ASSUME Inv, UNCHANGED <<rows, timeline, unlogged, strays, sent, at, held>>, active' \in Convs
  PROVE  Inv'
BY DEF Inv, Typed, HeldFits, Quiet, Stray, Explained, Writes

LEMMA PageStep ==
  ASSUME Inv, Receive \/ Network \/ User \/ Connect \/ Break
              \/ (\E k \in 1 .. MaxAsked + 1 : Fail(k)) \/ UNCHANGED vars
  PROVE  UNCHANGED <<rows, timeline, unlogged, strays, sent, at, held>> /\ active' \in Convs
<1>1. active \in Convs
  BY DEF Inv, Typed
<1>2. CASE Receive
  BY <1>1, <1>2 DEF Receive, server
<1>3. ASSUME NEW k, Answer(k) \/ Arrive(k) \/ Fail(k)
      PROVE  UNCHANGED <<rows, timeline, unlogged, strays, sent, at, held, active>>
  BY <1>3 DEF Answer, Arrive, Fail, server, view
<1>4. CASE loadMoreMessages
  BY <1>1, <1>4 DEF loadMoreMessages, server
<1>5. ASSUME NEW c \in Convs, Select(c)
      PROVE  UNCHANGED <<rows, timeline, unlogged, strays, sent, at, held>> /\ active' = c
  BY <1>5 DEF Select, server
<1>6. CASE Connect \/ Break \/ UNCHANGED vars
  BY <1>1, <1>6 DEF Connect, Break, vars, server, view
<1> QED
  BY <1>1, <1>2, <1>3, <1>4, <1>5, <1>6 DEF Network, User

LEMMA InvStep == ASSUME Inv, [Next]_vars PROVE Inv'
<1>1. ASSUME NEW t \in Tasks, Begin(t) PROVE Inv'
  <2>1. ASSUME NEW ext \in 1 .. sent, NEW s \in AckStatuses, Acknowledge(t, ext, s) PROVE Inv'
    BY <2>1, AcknowledgeInv
  <2> QED
    BY <1>1, <2>1, SendInv, InsertReceivedInv DEF Begin
<1>2. ASSUME NEW t \in Tasks, Handle(t) PROVE Inv'
  <2>1. CASE EmitAck(t)
    BY <2>1, EndInv DEF EmitAck, server, view
  <2>2. CASE EmitBoth(t)
    BY <2>2, EndInv DEF EmitBoth, server, view
  <2> QED
    BY <1>2, <2>1, <2>2, InsertSentInv, EmitSentInv, LogSentInv, LogAckInv, InsertReplyInv,
       LogBothInv DEF Handle
<1>3. ASSUME Receive \/ Network \/ User \/ Connect \/ Break
             \/ (\E k \in 1 .. MaxAsked + 1 : Fail(k)) \/ UNCHANGED vars
      PROVE  Inv'
  BY <1>3, PageStep, PageInv
<1> QED
  BY <1>1, <1>2, <1>3 DEF Next

LEMMA InvInit == Init => Inv
<1> SUFFICES ASSUME Init PROVE Inv
  OBVIOUS
<1>1. active \in Convs /\ Before \in Nat
  BY Bounds DEF Init
<1>2. [conv |-> active, status |-> "SENT", ext |-> 0] \in Rows
  BY <1>1, Bounds DEF Rows, Statuses
<1>3. /\ rows \in Seq(Rows) /\ Len(rows) = Before
      /\ \A i \in DOMAIN rows : i \in 1 .. Before /\ rows[i].status = "SENT"
  BY <1>1, <1>2 DEF Init
<1>4. /\ timeline \in Seq(SUBSET Statuses) /\ Len(timeline) = Before
      /\ \A i \in 1 .. Before : timeline[i] = {"SENT"}
  BY <1>1 DEF Init, Statuses
<1>5. Typed
  BY <1>1, <1>3, <1>4, NobodyTyped, Bounds DEF Init, Typed, Places
<1>6. \A t \in Tasks : HeldFits(t)
  BY DEF Init, HeldFits
<1>7. \A i \in DOMAIN rows : Explained(i)
  BY <1>3, <1>4 DEF Explained
<1> QED
  BY <1>5, <1>6, <1>7 DEF Inv

----------------------------------------------------------------------------
\* The status of a message is the type of one of its events, or of one that a request
\* is about to write or failed to, in whatever order acknowledgements, operators'
\* messages and the pipeline meet (messages.routes.js, wahaWebhook.controller.js); only
\* rows that the pipeline wrote without a tenant, which have no timeline, are left out.
THEOREM TimelineKept == Spec => []TimelineExplains
<1>1. Inv => TimelineExplains
  BY DEF Inv, TimelineExplains, Explained, Writes
<1> QED
  BY <1>1, InvInit, InvStep, PTL DEF Spec

----------------------------------------------------------------------------
\* What the server answers with.  The n-th row of a conversation is there, since the
\* number of rows up to each of them grows from one to the next.

Rank(S, i) == Cardinality({j \in S : j <= i})

LEMMA RankGrows ==
  ASSUME NEW S \in SUBSET Nat, IsFiniteSet(S), NEW i \in S, NEW j \in S, i < j
  PROVE  Rank(S, i) < Rank(S, j)
<1> DEFINE A == {k \in S : k <= i}
           B == {k \in S : k <= j}
<1>1. IsFiniteSet(A) /\ IsFiniteSet(B) /\ Cardinality(A) \in Nat /\ Cardinality(B) \in Nat
  BY FS_Subset, FS_CardinalityType, A \in SUBSET S, B \in SUBSET S
<1>2. A \subseteq B /\ j \in B /\ j \notin A
  <2>1. i \in Nat /\ j \in Nat /\ \A k \in S : k \in Nat
    OBVIOUS
  <2>2. \A k \in S : k <= i => k <= j
    BY <2>1
  <2>3. j <= j /\ ~(j <= i)
    BY <2>1
  <2> QED
    BY <2>2, <2>3
<1> HIDE DEF A, B
<1>3. Cardinality(A) <= Cardinality(B) /\ Cardinality(A) # Cardinality(B)
  BY <1>1, <1>2, FS_Subset
<1>4. Cardinality(A) < Cardinality(B)
  BY <1>1, <1>3
<1> QED
  BY <1>4 DEF Rank, A, B

LEMMA RankReaches ==
  ASSUME NEW S \in SUBSET Nat, IsFiniteSet(S), NEW n \in 1 .. Cardinality(S)
  PROVE  \E i \in S : Rank(S, i) = n
<1> DEFINE c == Cardinality(S)
           f == [i \in S |-> Rank(S, i)]
<1>1. c \in Nat
  BY FS_CardinalityType
<1>2. ASSUME NEW i \in S PROVE Rank(S, i) \in 1 .. c
  <2> DEFINE A == {k \in S : k <= i}
  <2>1. A \in SUBSET S /\ i \in A
    OBVIOUS
  <2>2. IsFiniteSet(A) /\ Cardinality(A) \in Nat /\ Cardinality(A) <= c /\ A # {}
    BY <2>1, FS_Subset, FS_CardinalityType
  <2>3. Cardinality(A) # 0
    BY <2>2, FS_EmptySet
  <2> HIDE DEF A
  <2>4. Cardinality(A) \in 1 .. c
    BY <1>1, <2>2, <2>3
  <2> QED
    BY <2>4 DEF Rank, A
<1>3. f \in [S -> 1 .. c]
  BY <1>2
<1>4. ASSUME NEW i \in S, NEW j \in S, f[i] = f[j] PROVE i = j
  <2>1. CASE i < j
    BY <1>2, <1>4, <2>1, RankGrows
  <2>2. CASE j < i
    BY <1>2, <1>4, <2>2, RankGrows
  <2> QED
    BY <2>1, <2>2
<1>5. f \in Injection(S, 1 .. c)
  <2> HIDE DEF f
  <2> QED
    BY <1>3, <1>4 DEF Injection, IsInjective
<1>6. IsFiniteSet(1 .. c) /\ Cardinality(1 .. c) = c
  BY <1>1, FS_Interval
<1>7. f \in Surjection(S, 1 .. c)
  <2> HIDE DEF f
  <2> QED
    BY <1>5, <1>6, FS_Injection
<1>8. \A m \in 1 .. c : \E i \in S : f[i] = m
  <2> HIDE DEF f
  <2> QED
    BY <1>7 DEF Surjection
<1> QED
  BY <1>8

\* The rows of a conversation, in the order they were written.
LEMMA RowsOfFacts ==
  ASSUME rows \in Seq(Rows), NEW conv
  PROVE  /\ RowsOf(conv) \in Seq(DOMAIN rows)
         /\ \A n \in DOMAIN RowsOf(conv) : rows[RowsOf(conv)[n]].conv = conv
         /\ \A m, n \in DOMAIN RowsOf(conv) : m < n => RowsOf(conv)[m] < RowsOf(conv)[n]
<1> DEFINE mine == {i \in DOMAIN rows : rows[i].conv = conv}
           c == Cardinality(mine)
           r == RowsOf(conv)
<1>1. DOMAIN rows = 1 .. Len(rows) /\ Len(rows) \in Nat
  OBVIOUS
<1>2. IsFiniteSet(DOMAIN rows)
  BY <1>1, FS_Interval
<1>3. mine \in SUBSET Nat /\ IsFiniteSet(mine) /\ c \in Nat
  BY <1>1, <1>2, FS_Subset, FS_CardinalityType
<1>4. r = [n \in 1 .. c |-> CHOOSE i \in mine : Rank(mine, i) = n]
  BY DEF RowsOf, Rank
<1> HIDE DEF r, mine
<1>5. \A n \in 1 .. c : \E i \in mine : Rank(mine, i) = n
  BY <1>3, RankReaches
<1>6. \A n \in 1 .. c : r[n] \in mine /\ Rank(mine, r[n]) = n
  BY <1>4, <1>5
<1>7. r \in [1 .. c -> mine] /\ DOMAIN r = 1 .. c
  BY <1>4, <1>6
<1>8. mine \subseteq DOMAIN rows
  BY DEF mine
<1>9. r \in Seq(DOMAIN rows)
  <2>1. r \in [1 .. c -> DOMAIN rows]
    BY <1>4, <1>6, <1>8
  <2> QED
    BY <1>3, <2>1
<1>10. \A n \in 1 .. c : rows[r[n]].conv = conv
  BY <1>6 DEF mine
<1>11. ASSUME NEW m \in 1 .. c, NEW n \in 1 .. c, m < n PROVE r[m] < r[n]
  <2>1. r[m] \in mine /\ r[n] \in mine /\ Rank(mine, r[m]) = m /\ Rank(mine, r[n]) = n
        /\ r[m] \in Nat /\ r[n] \in Nat
    BY <1>3, <1>6
  <2>2. CASE r[n] < r[m]
    <3>1. Rank(mine, r[n]) < Rank(mine, r[m])
      BY <1>3, <2>1, <2>2, RankGrows
    <3> QED
      BY <1>11, <2>1, <3>1
  <2>3. CASE r[n] = r[m]
    BY <1>11, <2>1, <2>3
  <2> QED
    BY <2>1, <2>2, <2>3
<1> QED
  BY <1>7, <1>9, <1>10, <1>11 DEF r

\* A message is shown with the status its row has.
LEMMA ShowFacts ==
  ASSUME rows \in Seq(Rows), DOMAIN rows \subseteq Ids, NEW ids \in Seq(DOMAIN rows)
  PROVE  Show(ids) \in Seq(Shown) /\ Len(Show(ids)) = Len(ids)
<1>0. \A i \in DOMAIN rows : rows[i] \in Rows
  OBVIOUS
<1>1. \A k \in DOMAIN ids : ids[k] \in Ids /\ rows[ids[k]].status \in Statuses
  <2>1. \A k \in DOMAIN ids : ids[k] \in DOMAIN rows
    OBVIOUS
  <2> QED
    BY <1>0, <2>1 DEF Rows
<1>2. DOMAIN ids = 1 .. Len(ids) /\ Len(ids) \in Nat
  OBVIOUS
<1>3. Show(ids) \in [1 .. Len(ids) -> Shown]
  BY <1>1, <1>2 DEF Show, Shown
<1> QED
  BY <1>2, <1>3

\* An answer is a part of the conversation, and no longer than a page.
LEMMA AnswerFacts ==
  ASSUME rows \in Seq(Rows), DOMAIN rows \subseteq Ids, NEW conv, NEW from \in Nat
  PROVE  /\ listMessagesByConversation(conv, from) \in Seq(Shown)
         /\ Len(listMessagesByConversation(conv, from)) <= PageSize
<1> DEFINE ids == RowsOf(conv)
           last == IF from > Len(ids) THEN 0 ELSE Len(ids) - from
           first == IF last > PageSize THEN last - PageSize + 1 ELSE 1
<1>1. ids \in Seq(DOMAIN rows) /\ Len(ids) \in Nat /\ DOMAIN ids = 1 .. Len(ids)
      /\ PageSize \in Nat
  BY RowsOfFacts, InboxAssumption
<1> HIDE DEF ids
<1>2. last \in Nat /\ last <= Len(ids)
  BY <1>1
<1> HIDE DEF last
<1>3. first \in Nat \ {0} /\ last - first + 1 <= PageSize
  BY <1>1, <1>2
<1> HIDE DEF first
<1>4. \A i \in first .. last : ids[i] \in DOMAIN rows
  BY <1>1, <1>2, <1>3
<1>5. /\ SubSeq(ids, first, last) \in Seq(DOMAIN rows)
      /\ Len(SubSeq(ids, first, last)) = IF first <= last THEN last - first + 1 ELSE 0
  BY <1>2, <1>3, <1>4, SubSeqProperties
<1>6. Len(SubSeq(ids, first, last)) <= PageSize
  BY <1>1, <1>2, <1>3, <1>5
<1>7. listMessagesByConversation(conv, from) = Show(SubSeq(ids, first, last))
  BY DEF listMessagesByConversation, ids, last, first
<1> QED
  BY <1>5, <1>6, <1>7, ShowFacts

----------------------------------------------------------------------------
\* Room: a request that still has a row to write has its place among those the bound
\* allows, and what a request has in hand is a row or nothing.

Inserting == {t \in Tasks : at[t] \in {"insert", "insertReply"}}

Room ==
  /\ IsFiniteSet(Inserting)
  /\ Len(rows) + Cardinality(Inserting) <= Before + MaxMessages

HandsKnown == \A t \in Tasks : {held[t].id, held[t].reply} \subseteq {0} \cup DOMAIN rows

Placed == Room /\ HandsKnown

LEMMA InsertingMoves ==
  ASSUME Room, NEW t \in Tasks, OthersStay(t)
  PROVE  /\ IsFiniteSet(Inserting') /\ Cardinality(Inserting) \in Nat
         /\ t \in Inserting /\ t \notin Inserting'
              => Cardinality(Inserting') = Cardinality(Inserting) - 1
         /\ t \notin Inserting /\ t \in Inserting'
              => Cardinality(Inserting') = Cardinality(Inserting) + 1
         /\ (t \in Inserting <=> t \in Inserting') => Inserting' = Inserting
<1>1. \A u \in Tasks \ {t} : u \in Inserting' <=> u \in Inserting
  BY DEF OthersStay, Inserting
<1>2. Inserting \subseteq Tasks /\ Inserting' \subseteq Tasks
  BY DEF Inserting
<1>3. IsFiniteSet(Inserting) /\ Cardinality(Inserting) \in Nat
  BY FS_CardinalityType DEF Room
<1>4. CASE t \in Inserting /\ t \notin Inserting'
  <2>1. Inserting' = Inserting \ {t}
    BY <1>1, <1>2, <1>4
  <2> QED
    BY <1>3, <1>4, <2>1, FS_RemoveElement
<1>5. CASE t \notin Inserting /\ t \in Inserting'
  <2>1. Inserting' = Inserting \cup {t}
    BY <1>1, <1>2, <1>5
  <2> QED
    BY <1>3, <1>5, <2>1, FS_AddElement
<1>6. CASE t \in Inserting <=> t \in Inserting'
  <2>1. Inserting' = Inserting
    BY <1>1, <1>2, <1>6
  <2> QED
    BY <1>3, <1>6, <2>1
<1> QED
  BY <1>4, <1>5, <1>6

\* A request that had no row to write and has none now.
LEMMA RoomStays ==
  ASSUME Room, NEW t \in Tasks, OthersStay(t), t \notin Inserting, t \notin Inserting',
         Len(rows') = Len(rows)
  PROVE  Room'
<1>1. Inserting' = Inserting
  BY InsertingMoves
<1> QED
  BY <1>1 DEF Room

\* One that writes the row, or gives it up.
LEMMA RoomLeaves ==
  ASSUME Room, Typed, NEW t \in Tasks, OthersStay(t), t \in Inserting, t \notin Inserting',
         Len(rows') \in {Len(rows), Len(rows) + 1}
  PROVE  Room'
<1>1. /\ IsFiniteSet(Inserting') /\ Cardinality(Inserting) \in Nat
      /\ Cardinality(Inserting') = Cardinality(Inserting) - 1
  BY InsertingMoves
<1>2. Len(rows) \in Nat /\ Before \in Nat /\ MaxMessages \in Nat
      /\ Len(rows) + Cardinality(Inserting) <= Before + MaxMessages
  BY Bounds DEF Typed, Room
<1>3. Len(rows') + Cardinality(Inserting') <= Before + MaxMessages
  BY <1>1, <1>2
<1> QED
  BY <1>1, <1>3 DEF Room

\* One that is going to write a row, when it or the room for it was looked for.
LEMMA RoomEnters ==
  ASSUME Room, Typed, NEW t \in Tasks, OthersStay(t), t \notin Inserting, t \in Inserting',
         NEW n \in {1, 2}, RoomFor(n), Len(rows') = Len(rows) + n - 1
  PROVE  Room'
<1>1. /\ IsFiniteSet(Inserting') /\ Cardinality(Inserting) \in Nat
      /\ Cardinality(Inserting') = Cardinality(Inserting) + 1
  BY InsertingMoves
<1>2. Len(rows) \in Nat /\ Before \in Nat /\ MaxMessages \in Nat
      /\ Len(rows) + Cardinality(Inserting) + n <= Before + MaxMessages
  BY Bounds DEF Typed, RoomFor, Inserting
<1>3. Len(rows') + Cardinality(Inserting') <= Before + MaxMessages
  BY <1>1, <1>2
<1> QED
  BY <1>1, <1>3 DEF Room

LEMMA HandsStay ==
  ASSUME HandsKnown, NEW t \in Tasks, OthersStay(t), DOMAIN rows \subseteq DOMAIN rows',
         {held'[t].id, held'[t].reply} \subseteq {0} \cup DOMAIN rows'
  PROVE  HandsKnown'
<1>1. ASSUME NEW u \in Tasks \ {t}
      PROVE  {held'[u].id, held'[u].reply} \subseteq {0} \cup DOMAIN rows'
  BY DEF HandsKnown, OthersStay
<1> QED
  BY <1>1 DEF HandsKnown

LEMMA NobodyKnown == Nobody.id = 0 /\ Nobody.reply = 0
BY DEF Nobody

LEMMA SendPlaced ==
  ASSUME Typed, Placed, NEW t \in Tasks, NEW status \in SendStatuses, Send(t, status)
  PROVE  Placed' /\ Grows
<1> DEFINE what == [Nobody EXCEPT !.conv = active, !.ext = sent + 1, !.status = status]
<1>1. sent + 1 \in 0 .. MaxMessages /\ active \in Convs /\ status \in Statuses
  BY Bounds DEF Typed, Send
<1>2. what \in Hands /\ what.id = 0 /\ what.reply = 0
  BY <1>1, NobodyTyped, HandSent DEF Nobody
<1>3. at[t] = "idle" /\ Go(t, "insert", what) /\ rows' = rows /\ RoomFor(1)
  BY DEF Send
<1> HIDE DEF what
<1>4. at'[t] = "insert" /\ held'[t] = what /\ OthersStay(t)
  BY <1>2, <1>3, GoFacts DEF Places
<1>5. t \notin Inserting /\ t \in Inserting'
  BY <1>3, <1>4 DEF Inserting
<1>6. Len(rows') = Len(rows) + 1 - 1
  BY <1>3 DEF Typed
<1>7. Room'
  BY <1>3, <1>4, <1>5, <1>6, RoomEnters DEF Placed
<1>8. HandsKnown'
  BY <1>2, <1>3, <1>4, HandsStay DEF Placed
<1> QED
  BY <1>3, <1>7, <1>8 DEF Placed, Grows

LEMMA InsertSentPlaced ==
  ASSUME Typed, Placed, NEW t \in Tasks, InsertSent(t)
  PROVE  Placed' /\ Grows
<1>1. at[t] = "insert" /\ held[t] \in Hands /\ t \in Inserting
  BY DEF InsertSent, Typed, Inserting
<1>2. CASE Go(t, "idle", Nobody) /\ UNCHANGED rows
  <2>1. at'[t] = "idle" /\ held'[t] = Nobody /\ OthersStay(t)
    BY <1>2, NobodyTyped, GoFacts DEF Places
  <2>2. t \notin Inserting'
    BY <2>1 DEF Inserting
  <2>3. Room' /\ HandsKnown'
    BY <1>1, <1>2, <2>1, <2>2, RoomLeaves, HandsStay, NobodyKnown DEF Placed
  <2> QED
    BY <1>2, <2>3 DEF Placed, Grows
<1>3. CASE /\ createMessage(held[t].conv, held[t].status, held[t].ext)
           /\ Go(t, "emit", [held[t] EXCEPT !.id = Len(rows) + 1])
  <2>0. PICK n \in Nat : n = Len(rows) + 1
    BY DEF Typed
  <2> DEFINE what == [held[t] EXCEPT !.id = n]
  <2>1. /\ held[t].conv \in Convs /\ held[t].status \in Statuses
        /\ held[t].ext \in 0 .. MaxMessages
    BY <1>1 DEF Hands
  <2>2. /\ Len(rows') = n /\ DOMAIN rows' = DOMAIN rows \cup {n}
        /\ \A j \in DOMAIN rows : rows'[j] = rows[j]
    BY <1>3, <2>0, <2>1, CreateFacts
  <2>3. what \in Hands /\ what.id = n /\ what.reply = held[t].reply
    BY <1>1 DEF Hands
  <2>4. Go(t, "emit", what)
    BY <1>3, <2>0
  <2> HIDE DEF what
  <2>5. at'[t] = "emit" /\ held'[t] = what /\ OthersStay(t)
    BY <2>3, <2>4, GoFacts DEF Places
  <2>6. t \notin Inserting'
    BY <2>5 DEF Inserting
  <2>7. Room'
    BY <1>1, <2>0, <2>2, <2>5, <2>6, RoomLeaves DEF Placed
  <2>8. held[t].reply \in {0} \cup DOMAIN rows
    BY DEF Placed, HandsKnown
  <2>9. HandsKnown'
    BY <2>2, <2>3, <2>5, <2>8, HandsStay DEF Placed
  <2> QED
    BY <2>2, <2>7, <2>9 DEF Placed, Grows
<1> QED
  BY <1>2, <1>3 DEF InsertSent

LEMMA InsertReceivedPlaced ==
  ASSUME Typed, Placed, NEW t \in Tasks, NEW conv \in Convs, InsertReceived(t, conv)
  PROVE  Placed' /\ Grows
<1>1. /\ at[t] = "idle" /\ createMessage(conv, "DELIVERED", 0) /\ RoomFor(2)
      /\ Go(t, "insertReply", [Nobody EXCEPT !.conv = conv, !.id = Len(rows) + 1])
  BY DEF InsertReceived
<1>2. PICK n \in Nat : n = Len(rows) + 1
  BY DEF Typed
<1> DEFINE what == [Nobody EXCEPT !.conv = conv, !.id = n]
<1>3. "DELIVERED" \in Statuses /\ 0 \in 0 .. MaxMessages
  BY Bounds DEF Statuses
<1>4. /\ Len(rows') = n /\ DOMAIN rows' = DOMAIN rows \cup {n}
      /\ \A j \in DOMAIN rows : rows'[j] = rows[j]
  BY <1>1, <1>2, <1>3, CreateFacts
<1>5. what \in Hands /\ what.id = n /\ what.reply = 0
  BY NobodyTyped DEF Hands, Nobody
<1>6. Go(t, "insertReply", what)
  BY <1>1, <1>2
<1> HIDE DEF what
<1>7. at'[t] = "insertReply" /\ held'[t] = what /\ OthersStay(t)
  BY <1>5, <1>6, GoFacts DEF Places
<1>8. t \notin Inserting /\ t \in Inserting'
  BY <1>1, <1>7 DEF Inserting
<1>9. Len(rows') = Len(rows) + 2 - 1
  BY <1>2, <1>4 DEF Typed
<1>10. Room'
  BY <1>1, <1>7, <1>8, <1>9, RoomEnters DEF Placed
<1>11. HandsKnown'
  BY <1>4, <1>5, <1>7, HandsStay DEF Placed
<1> QED
  BY <1>4, <1>10, <1>11 DEF Placed, Grows

LEMMA InsertReplyPlaced ==
  ASSUME Typed, Placed, NEW t \in Tasks, InsertReply(t)
  PROVE  Placed' /\ Grows
<1>1. at[t] = "insertReply" /\ held[t] \in Hands /\ t \in Inserting
  BY DEF InsertReply, Typed, Inserting
<1>2. CASE Go(t, "idle", Nobody) /\ UNCHANGED rows
  <2>1. at'[t] = "idle" /\ held'[t] = Nobody /\ OthersStay(t)
    BY <1>2, NobodyTyped, GoFacts DEF Places
  <2>2. t \notin Inserting'
    BY <2>1 DEF Inserting
  <2>3. Room' /\ HandsKnown'
    BY <1>1, <1>2, <2>1, <2>2, RoomLeaves, HandsStay, NobodyKnown DEF Placed
  <2> QED
    BY <1>2, <2>3 DEF Placed, Grows
<1>3. CASE /\ createMessage(held[t].conv, "SENT", 0)
           /\ Go(t, "logBoth", [held[t] EXCEPT !.reply = Len(rows) + 1])
  <2>0. PICK n \in Nat : n = Len(rows) + 1
    BY DEF Typed
  <2> DEFINE what == [held[t] EXCEPT !.reply = n]
  <2>1. held[t].conv \in Convs /\ "SENT" \in Statuses /\ 0 \in 0 .. MaxMessages
    BY <1>1, Bounds DEF Hands, Statuses
  <2>2. /\ Len(rows') = n /\ DOMAIN rows' = DOMAIN rows \cup {n}
        /\ \A j \in DOMAIN rows : rows'[j] = rows[j]
    BY <1>3, <2>0, <2>1, CreateFacts
  <2>3. what \in Hands /\ what.reply = n /\ what.id = held[t].id
    BY <1>1, HandReply
  <2>4. Go(t, "logBoth", what)
    BY <1>3, <2>0
  <2> HIDE DEF what
  <2>5. at'[t] = "logBoth" /\ held'[t] = what /\ OthersStay(t)
    BY <2>3, <2>4, GoFacts DEF Places
  <2>6. t \notin Inserting'
    BY <2>5 DEF Inserting
  <2>7. Room'
    BY <1>1, <2>0, <2>2, <2>5, <2>6, RoomLeaves DEF Placed
  <2>8. held[t].id \in {0} \cup DOMAIN rows
    BY DEF Placed, HandsKnown
  <2>9. HandsKnown'
    BY <2>2, <2>3, <2>5, <2>8, HandsStay DEF Placed
  <2> QED
    BY <2>2, <2>7, <2>9 DEF Placed, Grows
<1> QED
  BY <1>2, <1>3 DEF InsertReply

\* Every other step of a request, which writes no row.
LEMMA OtherPlaced ==
  ASSUME Typed, Placed, NEW t \in Tasks, t \notin Inserting,
         NEW place \in Places \ {"insert", "insertReply"}, NEW what \in Hands,
         {what.id, what.reply} \subseteq {0} \cup DOMAIN rows,
         Go(t, place, what), DOMAIN rows' = DOMAIN rows, Len(rows') = Len(rows)
  PROVE  Placed'
<1>1. /\ at'[t] = place /\ held'[t] = (IF place = "idle" THEN Nobody ELSE what)
      /\ OthersStay(t)
  BY GoFacts
<1>2. t \notin Inserting'
  BY <1>1 DEF Inserting
<1>3. {held'[t].id, held'[t].reply} \subseteq {0} \cup DOMAIN rows'
  BY <1>1, NobodyKnown
<1> QED
  BY <1>1, <1>2, <1>3, RoomStays, HandsStay DEF Placed

LEMMA AcknowledgePlaced ==
  ASSUME Typed, Placed, NEW t \in Tasks, NEW ext, NEW status \in AckStatuses,
         Acknowledge(t, ext, status)
  PROVE  Placed' /\ DOMAIN rows' = DOMAIN rows
<1>1. at[t] = "idle" /\ t \notin Inserting
  BY DEF Acknowledge, Inserting
<1>2. CASE UNCHANGED <<rows, at, held>>
  BY <1>2 DEF Placed, Room, Inserting, HandsKnown
<1>3. CASE \E i \in {j \in DOMAIN rows : rows[j].ext = ext} :
             /\ rows' = [rows EXCEPT ![i].status = status]
             /\ Go(t, "mark", [Nobody EXCEPT !.id = i, !.status = status])
  <2>1. PICK i \in DOMAIN rows :
          /\ rows' = [rows EXCEPT ![i].status = status]
          /\ Go(t, "mark", [Nobody EXCEPT !.id = i, !.status = status])
    BY <1>3
  <2> DEFINE what == [Nobody EXCEPT !.id = i, !.status = status]
  <2>2. status \in Statuses /\ rows \in Seq(Rows) /\ i \in Nat
    BY Bounds DEF Typed
  <2>3. what \in Hands /\ what.id = i /\ what.reply = 0
    BY <2>2, NobodyTyped DEF Hands, Nobody
  <2>4. Go(t, "mark", what)
    BY <2>1
  <2> HIDE DEF what
  <2>5. DOMAIN rows' = DOMAIN rows /\ Len(rows') = Len(rows)
    BY <2>1, <2>2
  <2>6. "mark" \in Places \ {"insert", "insertReply"}
    BY DEF Places
  <2>7. Placed'
    BY <1>1, <2>3, <2>4, <2>5, <2>6, OtherPlaced
  <2> QED
    BY <2>5, <2>7
<1> QED
  BY <1>2, <1>3 DEF Acknowledge

LEMMA HandlePlaced ==
  ASSUME Typed, Placed, NEW t \in Tasks,
         EmitSent(t) \/ LogSent(t) \/ LogAck(t) \/ EmitAck(t) \/ LogBoth(t) \/ EmitBoth(t)
  PROVE  Placed' /\ rows' = rows
<1>1. held[t] \in Hands /\ {held[t].id, held[t].reply} \subseteq {0} \cup DOMAIN rows
  BY DEF Typed, Placed, HandsKnown
<1>2. t \notin Inserting /\ rows' = rows
  BY DEF EmitSent, LogSent, LogAck, EmitAck, LogBoth, EmitBoth, Inserting, server
<1>3. \/ Go(t, "idle", Nobody)
      \/ Go(t, "event", held[t]) \/ Go(t, "notify", held[t]) \/ Go(t, "emitBoth", held[t])
  BY DEF EmitSent, LogSent, LogAck, EmitAck, LogBoth, EmitBoth
<1>4. {"idle", "event", "notify", "emitBoth"} \subseteq Places \ {"insert", "insertReply"}
  BY DEF Places
<1>5. CASE Go(t, "idle", Nobody)
  <2>1. {Nobody.id, Nobody.reply} \subseteq {0} \cup DOMAIN rows
    BY NobodyKnown
  <2> QED
    BY <1>2, <1>4, <1>5, <2>1, NobodyTyped, OtherPlaced
<1>6. ASSUME NEW place \in {"event", "notify", "emitBoth"}, Go(t, place, held[t])
      PROVE  Placed'
  BY <1>1, <1>2, <1>4, <1>6, OtherPlaced
<1> QED
  BY <1>2, <1>3, <1>5, <1>6

----------------------------------------------------------------------------
\* The page.  At most one request for older messages is in flight, which is what makes
\* the flag of loadMoreMessages say of it whether there is one.

Events == [kind : {"new", "update"}, id : Nat, conv : Convs, status : Statuses]
Asked == [kind : {"conversations", "page", "older"}, conv : Convs, from : Nat,
          answered : BOOLEAN, rows : Seq(Shown), late : BOOLEAN]

OlderIn(s) == {k \in DOMAIN s : s[k].kind = "older"}
OneOlder(s) == \A j, k \in OlderIn(s) : j = k

WireFits == wire \in Seq(Events) /\ \A k \in DOMAIN wire : wire[k].id \in DOMAIN rows

AskedFits ==
  /\ asked \in Seq(Asked) /\ Len(asked) <= MaxAsked + 1
  /\ OneOlder(asked) /\ loadingMore \in BOOLEAN /\ loadingMore = (OlderIn(asked) # {})

ViewFits ==
  /\ up \in BOOLEAN /\ active \in Convs /\ list \in Seq(Shown)
  /\ offset \in Nat /\ hasMore \in BOOLEAN /\ missed \in BOOLEAN

PageFits == WireFits /\ AskedFits /\ ViewFits

LEMMA RequestTyped ==
  ASSUME active \in Convs, NEW kind \in {"conversations", "page", "older"}, NEW from \in Nat
  PROVE  Request(kind, from) \in Asked /\ Request(kind, from).kind = kind
BY DEF Request, Asked

\* What becomes of the requests for older messages when one request is added, answered
\* or taken out.
LEMMA OlderAdded ==
  ASSUME NEW s \in Seq(Asked), NEW r \in Asked, OneOlder(s), r.kind = "older" => OlderIn(s) = {}
  PROVE  /\ Append(s, r) \in Seq(Asked) /\ Len(Append(s, r)) = Len(s) + 1
         /\ OneOlder(Append(s, r))
         /\ (OlderIn(Append(s, r)) # {}) = (OlderIn(s) # {} \/ r.kind = "older")
<1> DEFINE a == Append(s, r)
<1>1. /\ a \in Seq(Asked) /\ Len(a) = Len(s) + 1 /\ DOMAIN a = DOMAIN s \cup {Len(s) + 1}
      /\ Len(s) + 1 \notin DOMAIN s /\ a[Len(s) + 1] = r /\ \A j \in DOMAIN s : a[j] = s[j]
  OBVIOUS
<1> HIDE DEF a
<1>2. OlderIn(a) = OlderIn(s) \cup (IF r.kind = "older" THEN {Len(s) + 1} ELSE {})
  BY <1>1 DEF OlderIn
<1>3. OneOlder(a) /\ (OlderIn(a) # {} <=> OlderIn(s) # {} \/ r.kind = "older")
  BY <1>2 DEF OneOlder
<1> QED
  BY <1>1, <1>3 DEF a

LEMMA OlderKept ==
  ASSUME NEW s \in Seq(Asked), NEW a \in Seq(Asked), OneOlder(s), Len(a) = Len(s),
         \A j \in DOMAIN s : a[j].kind = s[j].kind
  PROVE  OneOlder(a) /\ OlderIn(a) = OlderIn(s)
<1>1. DOMAIN a = DOMAIN s
  OBVIOUS
<1>2. OlderIn(a) = OlderIn(s)
  BY <1>1 DEF OlderIn
<1> QED
  BY <1>2 DEF OneOlder

LEMMA OlderTaken ==
  ASSUME NEW s \in Seq(Asked), NEW a \in Seq(Asked), NEW k \in DOMAIN s, OneOlder(s),
         Len(a) = Len(s) - 1, \A j \in 1 .. k - 1 : a[j].kind = s[j].kind,
         \A j \in k .. Len(s) - 1 : a[j].kind = s[j + 1].kind
  PROVE  /\ OneOlder(a)
         /\ s[k].kind = "older" => OlderIn(a) = {}
         /\ s[k].kind # "older" => (OlderIn(a) = {} <=> OlderIn(s) = {})
<1>1. /\ Len(s) \in Nat /\ DOMAIN s = 1 .. Len(s) /\ DOMAIN a = 1 .. Len(s) - 1
      /\ k \in 1 .. Len(s)
  OBVIOUS
<1>2. ASSUME NEW j \in OlderIn(a)
      PROVE  \/ j < k /\ j \in OlderIn(s)
             \/ j >= k /\ j + 1 \in OlderIn(s)
  BY <1>1 DEF OlderIn
<1>3. ASSUME NEW j \in OlderIn(s), j # k
      PROVE  \/ j < k /\ j \in OlderIn(a)
             \/ j > k /\ j - 1 \in OlderIn(a)
  BY <1>1, <1>3 DEF OlderIn
<1>4. OlderIn(a) \subseteq Nat /\ OlderIn(s) \subseteq Nat
  BY <1>1 DEF OlderIn
<1>5. OneOlder(a)
  <2> SUFFICES ASSUME NEW i \in OlderIn(a), NEW j \in OlderIn(a) PROVE i = j
    BY DEF OneOlder
  <2> QED
    BY <1>1, <1>2, <1>4 DEF OneOlder
<1>6. CASE s[k].kind = "older"
  <2>1. k \in OlderIn(s)
    BY <1>6 DEF OlderIn
  <2>2. \A j \in OlderIn(s) : j = k
    BY <2>1 DEF OneOlder
  <2>3. OlderIn(a) = {}
    BY <1>1, <1>2, <1>4, <2>2
  <2> QED
    BY <1>5, <1>6, <2>3
<1>7. CASE s[k].kind # "older"
  <2>1. k \notin OlderIn(s)
    BY <1>7 DEF OlderIn
  <2>2. OlderIn(a) = {} <=> OlderIn(s) = {}
    BY <1>2, <1>3, <2>1
  <2> QED
    BY <1>5, <1>7, <2>2
<1> QED
  BY <1>6, <1>7

LEMMA RemoveAtFacts ==
  ASSUME NEW s \in Seq(Asked), NEW k \in DOMAIN s
  PROVE  /\ RemoveAt(s, k) \in Seq(Asked) /\ Len(RemoveAt(s, k)) = Len(s) - 1
         /\ \A j \in 1 .. k - 1 : RemoveAt(s, k)[j] = s[j]
         /\ \A j \in k .. Len(s) - 1 : RemoveAt(s, k)[j] = s[j + 1]
<1> DEFINE p == SubSeq(s, 1, k - 1)
           q == SubSeq(s, k + 1, Len(s))
<1>1. Len(s) \in Nat /\ k \in 1 .. Len(s) /\ \A i \in 1 .. Len(s) : s[i] \in Asked
  OBVIOUS
<1>2. p \in Seq(Asked) /\ Len(p) = k - 1 /\ \A i \in 1 .. k - 1 : p[i] = s[i]
  BY <1>1, SubSeqProperties
<1>3. q \in Seq(Asked) /\ Len(q) = Len(s) - k /\ \A i \in 1 .. Len(s) - k : q[i] = s[k + i]
  BY <1>1, SubSeqProperties
<1> HIDE DEF p, q
<1>4. /\ p \o q \in Seq(Asked) /\ Len(p \o q) = Len(p) + Len(q)
      /\ \A i \in 1 .. Len(p) + Len(q) : (p \o q)[i] = IF i <= Len(p) THEN p[i] ELSE q[i - Len(p)]
  BY <1>2, <1>3, ConcatProperties
<1>5. RemoveAt(s, k) = p \o q
  BY DEF RemoveAt, p, q
<1>6. Len(p \o q) = Len(s) - 1
  BY <1>1, <1>2, <1>3, <1>4
<1>7. ASSUME NEW j \in 1 .. k - 1 PROVE (p \o q)[j] = s[j]
  BY <1>1, <1>2, <1>3, <1>4
<1>8. ASSUME NEW j \in k .. Len(s) - 1 PROVE (p \o q)[j] = s[j + 1]
  <2>1. k \in Int /\ j \in Int /\ Len(s) \in Int /\ 1 <= k /\ k <= j /\ j <= Len(s) - 1
    BY <1>1
  <2>2. Len(p) = k - 1 /\ Len(q) = Len(s) - k
    BY <1>2, <1>3
  <2>3. j \in 1 .. Len(p) + Len(q) /\ ~(j <= Len(p)) /\ j - Len(p) \in 1 .. Len(s) - k
        /\ k + (j - Len(p)) = j + 1
    BY <2>1, <2>2
  <2>4. (p \o q)[j] = q[j - Len(p)]
    BY <1>4, <2>3
  <2> QED
    BY <1>3, <2>3, <2>4
<1> QED
  BY <1>4, <1>5, <1>6, <1>7, <1>8

LEMMA WithoutFacts ==
  ASSUME asked \in Seq(Asked), NEW k \in DOMAIN asked
  PROVE  /\ Without(k) \in Seq(Asked) /\ Len(Without(k)) = Len(asked) - 1
         /\ \A j \in 1 .. k - 1 : Without(k)[j].kind = asked[j].kind
         /\ \A j \in k .. Len(asked) - 1 : Without(k)[j].kind = asked[j + 1].kind
<1> DEFINE w == Without(k)
           lated(j) == [asked[j] EXCEPT !.late = (@ \/ asked[j].kind # "conversations")]
<1>1. Len(asked) \in Nat /\ k \in 1 .. Len(asked) /\ \A i \in 1 .. Len(asked) : asked[i] \in Asked
  OBVIOUS
<1>2. ASSUME NEW j \in 1 .. Len(asked)
      PROVE  lated(j) \in Asked /\ lated(j).kind = asked[j].kind
  BY <1>1 DEF Asked
<1>3. w = [j \in 1 .. Len(asked) - 1 |-> IF j < k THEN lated(j) ELSE asked[j + 1]]
  BY DEF Without
<1> HIDE DEF w, lated
<1>4. ASSUME NEW j \in 1 .. Len(asked) - 1
      PROVE  /\ w[j] \in Asked
             /\ j < k => w[j].kind = asked[j].kind
             /\ ~(j < k) => w[j].kind = asked[j + 1].kind
  <2>1. j \in 1 .. Len(asked) /\ j + 1 \in 1 .. Len(asked)
    BY <1>1
  <2> QED
    BY <1>1, <1>2, <1>3, <2>1
<1>5. w \in [1 .. Len(asked) - 1 -> Asked] /\ Len(asked) - 1 \in Nat
  BY <1>1, <1>3, <1>4
<1>6. w \in Seq(Asked) /\ Len(w) = Len(asked) - 1
  BY <1>5
<1>7. \A j \in 1 .. k - 1 : w[j].kind = asked[j].kind
  BY <1>1, <1>4
<1>8. \A j \in k .. Len(asked) - 1 : w[j].kind = asked[j + 1].kind
  BY <1>1, <1>4
<1> QED
  BY <1>6, <1>7, <1>8 DEF w

----------------------------------------------------------------------------
\* Steps of the server, seen from the page: an event may be put on the wire.

LEMMA RowsInIds ==
  ASSUME Typed, Room
  PROVE  Len(rows) <= Before + MaxMessages /\ DOMAIN rows \subseteq Ids
<1>1. Len(rows) \in Nat /\ DOMAIN rows = 1 .. Len(rows) /\ Cardinality(Inserting) \in Nat
      /\ Before \in Nat /\ MaxMessages \in Nat
  BY Bounds, FS_CardinalityType DEF Typed, Room
<1>2. Len(rows) <= Before + MaxMessages
  BY <1>1 DEF Room
<1> QED
  BY <1>1, <1>2 DEF Ids

LEMMA EventFits ==
  ASSUME Typed, NEW kind \in {"new", "update"}, NEW i \in DOMAIN rows, NEW s \in Statuses
  PROVE  Event(kind, i, s) \in Events /\ Event(kind, i, s).id = i
<1>1. rows[i] \in Rows /\ i \in Nat
  BY DEF Typed
<1>2. rows[i].conv \in Convs
  BY <1>1 DEF Rows
<1> QED
  BY <1>1, <1>2 DEF Event, Events

\* What a step that puts events on the wire, or none, leaves of the page.
LEMMA PageTold ==
  ASSUME PageFits, DOMAIN rows \subseteq DOMAIN rows', UNCHANGED <<up, view, asked>>,
         missed' \in BOOLEAN,
         wire' \in Seq(Events), \A k \in DOMAIN wire' : wire'[k].id \in DOMAIN rows'
  PROVE  PageFits'
BY DEF PageFits, WireFits, AskedFits, ViewFits, view, OneOlder, OlderIn

LEMMA PageLeft ==
  ASSUME PageFits, DOMAIN rows \subseteq DOMAIN rows', UNCHANGED <<up, view, asked, wire>>,
         missed' \in BOOLEAN
  PROVE  PageFits'
BY PageTold DEF PageFits, WireFits

LEMMA EmitFits ==
  ASSUME PageFits, UNCHANGED <<rows, up, view, asked>>, NEW events \in Seq(Events),
         \A k \in DOMAIN events : events[k].id \in DOMAIN rows, Emit(events)
  PROVE  PageFits'
<1>1. wire \in Seq(Events) /\ \A k \in DOMAIN wire : wire[k].id \in DOMAIN rows
  BY DEF PageFits, WireFits
<1>2. /\ wire \o events \in Seq(Events) /\ Len(wire \o events) = Len(wire) + Len(events)
      /\ \A i \in 1 .. Len(wire) + Len(events) :
           (wire \o events)[i] = IF i <= Len(wire) THEN wire[i] ELSE events[i - Len(wire)]
  BY <1>1, ConcatProperties
<1>3. ASSUME NEW i \in DOMAIN (wire \o events)
      PROVE  (wire \o events)[i].id \in DOMAIN rows
  <2>1. /\ i \in 1 .. Len(wire) + Len(events) /\ Len(wire) \in Nat /\ Len(events) \in Nat
        /\ DOMAIN wire = 1 .. Len(wire) /\ DOMAIN events = 1 .. Len(events)
    BY <1>1, <1>2
  <2>2. CASE i <= Len(wire)
    BY <1>1, <1>2, <2>1, <2>2
  <2>3. CASE ~(i <= Len(wire))
    <3>1. i - Len(wire) \in DOMAIN events
      BY <2>1, <2>3
    <3> QED
      BY <1>2, <2>1, <2>3, <3>1
  <2> QED
    BY <2>2, <2>3
<1>4. missed' \in BOOLEAN
  BY DEF Emit
<1>5. wire' = wire \/ wire' = wire \o events
  BY DEF Emit
<1>6. wire' \in Seq(Events) /\ \A k \in DOMAIN wire' : wire'[k].id \in DOMAIN rows'
  BY <1>1, <1>2, <1>3, <1>5
<1> QED
  BY <1>4, <1>6, PageTold

LEMMA BeginPage ==
  ASSUME PageFits, (Placed' /\ Grows) \/ DOMAIN rows' = DOMAIN rows,
         UNCHANGED <<wire, up, view, asked, missed>>
  PROVE  PageFits'
BY PageLeft DEF Grows, PageFits, ViewFits

LEMMA HandlePage ==
  ASSUME Inv, PageFits, NEW t \in Tasks, Handle(t), DOMAIN rows \subseteq DOMAIN rows'
  PROVE  PageFits'
<1>1. held[t] \in Hands /\ held[t].status \in Statuses /\ Typed
      /\ "DELIVERED" \in Statuses /\ "SENT" \in Statuses
  BY DEF Inv, Typed, Hands, Statuses
<1>2. CASE EmitSent(t)
  <2> DEFINE e == Event("new", held[t].id, held[t].status)
  <2>1. held[t].id \in DOMAIN rows
    BY <1>2 DEF EmitSent, Inv, HeldFits
  <2>2. e \in Events /\ e.id \in DOMAIN rows
    BY <1>1, <2>1, EventFits
  <2>3. Emit(<<e>>) /\ UNCHANGED <<rows, up, view, asked>>
    BY <1>2 DEF EmitSent, server
  <2> HIDE DEF e
  <2>4. <<e>> \in Seq(Events) /\ \A k \in DOMAIN <<e>> : <<e>>[k] = e
    BY <2>2
  <2> QED
    BY <2>2, <2>3, <2>4, EmitFits
<1>3. CASE EmitAck(t)
  <2> DEFINE e == Event("update", held[t].id, held[t].status)
  <2>1. held[t].id \in DOMAIN rows
    BY <1>3 DEF EmitAck, Inv, HeldFits
  <2>2. e \in Events /\ e.id \in DOMAIN rows
    BY <1>1, <2>1, EventFits
  <2>3. Emit(<<e>>) /\ UNCHANGED <<rows, up, view, asked>>
    BY <1>3 DEF EmitAck, server
  <2> HIDE DEF e
  <2>4. <<e>> \in Seq(Events) /\ \A k \in DOMAIN <<e>> : <<e>>[k] = e
    BY <2>2
  <2> QED
    BY <2>2, <2>3, <2>4, EmitFits
<1>4. CASE EmitBoth(t)
  <2> DEFINE e == Event("new", held[t].id, "DELIVERED")
             f == Event("new", held[t].reply, "SENT")
  <2>1. held[t].id \in DOMAIN rows /\ held[t].reply \in DOMAIN rows
    BY <1>4 DEF EmitBoth, Inv, HeldFits
  <2>2. e \in Events /\ e.id \in DOMAIN rows /\ f \in Events /\ f.id \in DOMAIN rows
    BY <1>1, <2>1, EventFits
  <2>3. UNCHANGED <<rows, up, view, asked>>
        /\ (Emit(<<e, f>>) \/ (missed' = TRUE /\ UNCHANGED wire))
    BY <1>4 DEF EmitBoth, server
  <2> HIDE DEF e, f
  <2>4. <<e, f>> \in Seq(Events) /\ \A k \in DOMAIN <<e, f>> : <<e, f>>[k] \in {e, f}
    BY <2>2
  <2> QED
    BY <2>2, <2>3, <2>4, EmitFits, PageLeft
<1>5. CASE InsertSent(t) \/ LogSent(t) \/ LogAck(t) \/ InsertReply(t) \/ LogBoth(t)
  <2>1. UNCHANGED <<up, view, asked, wire>> /\ (missed' = missed \/ missed' = TRUE)
    BY <1>5 DEF InsertSent, LogSent, LogAck, InsertReply, LogBoth
  <2>2. missed' \in BOOLEAN
    BY <2>1 DEF PageFits, ViewFits
  <2> QED
    BY <2>1, <2>2, PageLeft
<1> QED
  BY <1>2, <1>3, <1>4, <1>5 DEF Handle

----------------------------------------------------------------------------
\* Steps of the page.

LEMMA AnswerPage ==
  ASSUME Typed, Room, PageFits, NEW k, Answer(k)
  PROVE  PageFits'
<1> DEFINE r == asked[k]
           a == [r EXCEPT !.answered = TRUE, !.rows = listMessagesByConversation(r.conv, r.from)]
<1>1. k \in DOMAIN asked /\ asked \in Seq(Asked) /\ r \in Asked
  BY DEF Answer, PageFits, AskedFits
<1>2. listMessagesByConversation(r.conv, r.from) \in Seq(Shown)
  BY <1>1, RowsInIds, AnswerFacts DEF Typed, Asked
<1>3. a \in Asked /\ a.kind = r.kind
  BY <1>1, <1>2 DEF Asked
<1>4. asked' = [asked EXCEPT ![k] = a]
      /\ UNCHANGED <<rows, wire, up, active, list, offset, hasMore, loadingMore, missed>>
  BY DEF Answer, server, view
<1> HIDE DEF a
<1>5. /\ asked' \in Seq(Asked) /\ Len(asked') = Len(asked)
      /\ \A j \in DOMAIN asked : asked'[j].kind = asked[j].kind
  BY <1>1, <1>3, <1>4
<1>6. OneOlder(asked') /\ OlderIn(asked') = OlderIn(asked)
  BY <1>1, <1>5, OlderKept DEF PageFits, AskedFits
<1>7. AskedFits'
  BY <1>4, <1>5, <1>6 DEF PageFits, AskedFits
<1> QED
  BY <1>4, <1>7 DEF PageFits, WireFits, ViewFits

LEMMA ReceivePage ==
  ASSUME Typed, Room, PageFits, Receive
  PROVE  PageFits'
<1> DEFINE e == Head(wire)
           m == [id |-> e.id, status |-> e.status]
<1>1. wire \in Seq(Events) /\ wire # <<>> /\ \A k \in DOMAIN wire : wire[k].id \in DOMAIN rows
  BY DEF Receive, PageFits, WireFits
<1>2. /\ e \in Events /\ e.id \in DOMAIN rows /\ Tail(wire) \in Seq(Events)
      /\ \A k \in DOMAIN Tail(wire) : Tail(wire)[k].id \in DOMAIN rows
  BY <1>1, HeadTailProperties
<1>3. m \in Shown
  <2>1. e.id \in Ids /\ e.status \in Statuses
    BY <1>2, RowsInIds DEF Events
  <2> QED
    BY <2>1 DEF Shown
<1>4. /\ wire' = Tail(wire) /\ Len(asked) < MaxAsked
      /\ UNCHANGED <<rows, up, active, offset, hasMore, loadingMore>>
      /\ OnNew(e) \/ OnUpdate(e)
  BY <1>2 DEF Receive, Events, server
<1>5. WireFits'
  BY <1>2, <1>4 DEF WireFits
<1>6. active \in Convs /\ list \in Seq(Shown) /\ asked \in Seq(Asked) /\ OneOlder(asked)
      /\ Len(asked) \in Nat /\ MaxAsked \in Nat
  BY InboxAssumption DEF PageFits, AskedFits, ViewFits
<1>7. ASSUME NEW kind \in {"conversations", "page"}, asked' = Append(asked, Request(kind, 0))
      PROVE  AskedFits'
  <2>1. Request(kind, 0) \in Asked /\ Request(kind, 0).kind # "older"
    BY <1>6, RequestTyped
  <2>2. /\ asked' \in Seq(Asked) /\ Len(asked') = Len(asked) + 1 /\ OneOlder(asked')
        /\ (OlderIn(asked') # {}) = (OlderIn(asked) # {})
    BY <1>6, <1>7, <2>1, OlderAdded
  <2> QED
    BY <1>4, <1>6, <2>2 DEF PageFits, AskedFits
<1>8. CASE OnNew(e)
  <2>1. CASE asked' = asked /\ list' = list /\ missed' = missed
    BY <1>4, <1>5, <2>1 DEF PageFits, AskedFits, ViewFits
  <2>2. CASE /\ list' = Append(list, m) /\ asked' = Append(asked, Request("page", 0))
             /\ missed' = FALSE
    <3>1. list' \in Seq(Shown)
      BY <1>3, <1>6, <2>2, AppendProperties
    <3>2. AskedFits'
      BY <1>7, <2>2
    <3> QED
      BY <1>4, <1>5, <2>2, <3>1, <3>2 DEF PageFits, ViewFits
  <2> QED
    BY <1>8, <2>1, <2>2 DEF OnNew, LoadPage
<1>9. CASE OnUpdate(e)
  <2>1. /\ list' = [k \in DOMAIN list |-> IF list[k].id = e.id
                                           THEN [list[k] EXCEPT !.status = e.status]
                                           ELSE list[k]]
        /\ asked' = Append(asked, Request("conversations", 0)) /\ missed' = missed
    BY <1>9 DEF OnUpdate
  <2>2. e.status \in Statuses
    BY <1>2 DEF Events
  <2>3. ASSUME NEW k \in DOMAIN list
        PROVE  list[k] \in Shown /\ [list[k] EXCEPT !.status = e.status] \in Shown
    <3>1. list[k] \in Shown
      BY <1>6
    <3> QED
      BY <2>2, <3>1 DEF Shown
  <2>4. DOMAIN list = 1 .. Len(list) /\ Len(list) \in Nat
    BY <1>6
  <2>5. list' \in [1 .. Len(list) -> Shown]
    BY <2>1, <2>3, <2>4
  <2>6. list' \in Seq(Shown)
    BY <2>4, <2>5
  <2>7. AskedFits'
    BY <1>7, <2>1
  <2> QED
    BY <1>4, <1>5, <2>1, <2>6, <2>7 DEF PageFits, ViewFits
<1> QED
  BY <1>4, <1>8, <1>9

LEMMA ArrivePage ==
  ASSUME PageFits, NEW k, Arrive(k)
  PROVE  PageFits'
<1> DEFINE r == asked[k]
<1>1. /\ k \in DOMAIN asked /\ asked \in Seq(Asked) /\ OneOlder(asked) /\ active \in Convs
      /\ UNCHANGED <<rows, wire, up, active>> /\ Len(asked) <= MaxAsked + 1
      /\ Len(asked) \in Nat /\ MaxAsked \in Nat
      /\ loadingMore = (OlderIn(asked) # {})
  BY InboxAssumption DEF Arrive, PageFits, AskedFits, ViewFits, server
<1>2. r \in Asked /\ r.rows \in Seq(Shown) /\ Len(r.rows) \in Nat
  <2>1. r \in Asked
    BY <1>1
  <2>2. r.rows \in Seq(Shown)
    BY <2>1 DEF Asked
  <2> QED
    BY <2>1, <2>2
<1>3. WireFits'
  BY <1>1 DEF PageFits, WireFits
<1>4. CASE ConversationsArrive(k)
  <2> DEFINE a == RemoveAt(asked, k)
             q == Request("page", 0)
  <2>1. /\ asked' = Append(a, q) /\ missed' = FALSE /\ r.kind = "conversations"
        /\ UNCHANGED <<list, offset, hasMore, loadingMore>>
    BY <1>4 DEF ConversationsArrive
  <2>2. q \in Asked /\ q.kind # "older"
    BY <1>1, RequestTyped
  <2>3. /\ a \in Seq(Asked) /\ Len(a) = Len(asked) - 1
        /\ \A j \in 1 .. k - 1 : a[j].kind = asked[j].kind
        /\ \A j \in k .. Len(asked) - 1 : a[j].kind = asked[j + 1].kind
    BY <1>1, RemoveAtFacts
  <2> HIDE DEF a, q
  <2>4. OneOlder(a) /\ (OlderIn(a) # {}) = (OlderIn(asked) # {})
    BY <1>1, <2>1, <2>3, OlderTaken
  <2>5. /\ asked' \in Seq(Asked) /\ Len(asked') = Len(a) + 1 /\ OneOlder(asked')
        /\ (OlderIn(asked') # {}) = (OlderIn(a) # {})
    BY <2>1, <2>2, <2>3, <2>4, OlderAdded
  <2>6. Len(asked') <= MaxAsked + 1
    BY <1>1, <2>3, <2>5
  <2>7. AskedFits'
    BY <2>1, <2>4, <2>5, <2>6 DEF PageFits, AskedFits
  <2> QED
    BY <1>1, <1>3, <2>1, <2>7 DEF PageFits, ViewFits
<1>5. /\ Without(k) \in Seq(Asked) /\ Len(Without(k)) = Len(asked) - 1
      /\ OneOlder(Without(k))
      /\ r.kind = "older" => OlderIn(Without(k)) = {}
      /\ r.kind # "older" => (OlderIn(Without(k)) = {} <=> OlderIn(asked) = {})
  <2>1. /\ Without(k) \in Seq(Asked) /\ Len(Without(k)) = Len(asked) - 1
        /\ \A j \in 1 .. k - 1 : Without(k)[j].kind = asked[j].kind
        /\ \A j \in k .. Len(asked) - 1 : Without(k)[j].kind = asked[j + 1].kind
    BY <1>1, WithoutFacts
  <2> DEFINE w == Without(k)
  <2> HIDE DEF w
  <2>2. /\ w \in Seq(Asked) /\ Len(w) = Len(asked) - 1
        /\ \A j \in 1 .. k - 1 : w[j].kind = asked[j].kind
        /\ \A j \in k .. Len(asked) - 1 : w[j].kind = asked[j + 1].kind
    BY <2>1 DEF w
  <2>3. /\ OneOlder(w)
        /\ r.kind = "older" => OlderIn(w) = {}
        /\ r.kind # "older" => (OlderIn(w) = {} <=> OlderIn(asked) = {})
    BY <1>1, <2>2, OlderTaken
  <2> QED
    BY <2>1, <2>3 DEF w
<1>6. Len(Without(k)) <= MaxAsked + 1
  BY <1>1, <1>5
<1>7. CASE PageArrives(k)
  <2>1. /\ asked' = Without(k) /\ r.kind = "page" /\ loadingMore' = loadingMore
        /\ list' = r.rows /\ offset' = Len(r.rows) /\ hasMore' \in BOOLEAN
        /\ missed' \in BOOLEAN
    BY <1>7 DEF PageArrives
  <2>2. AskedFits'
    BY <1>5, <1>6, <2>1 DEF PageFits, AskedFits
  <2> QED
    BY <1>1, <1>2, <1>3, <2>1, <2>2 DEF PageFits, ViewFits
<1>8. CASE OlderArrive(k)
  <2>1. /\ asked' = Without(k) /\ r.kind = "older" /\ loadingMore' = FALSE
        /\ list' = r.rows \o list /\ offset' = offset + Len(r.rows) /\ hasMore' \in BOOLEAN
        /\ missed' \in BOOLEAN
    BY <1>8 DEF OlderArrive, Finally
  <2>2. AskedFits'
    BY <1>5, <1>6, <2>1 DEF AskedFits
  <2>3. list' \in Seq(Shown) /\ offset' \in Nat
    BY <1>2, <2>1, ConcatProperties DEF PageFits, ViewFits
  <2> QED
    BY <1>1, <1>3, <2>1, <2>2, <2>3 DEF PageFits, ViewFits
<1> QED
  BY <1>4, <1>7, <1>8 DEF Arrive

LEMMA FailPage ==
  ASSUME PageFits, NEW k, Fail(k)
  PROVE  PageFits'
<1>1. /\ k \in DOMAIN asked /\ asked \in Seq(Asked) /\ OneOlder(asked)
      /\ UNCHANGED <<rows, wire, up, active, list, offset, hasMore>>
      /\ Len(asked) <= MaxAsked + 1 /\ Len(asked) \in Nat /\ MaxAsked \in Nat
      /\ loadingMore = (OlderIn(asked) # {})
      /\ asked' = RemoveAt(asked, k) /\ missed' = TRUE
      /\ loadingMore' = (loadingMore /\ asked[k].kind # "older")
  BY InboxAssumption DEF Fail, PageFits, AskedFits, server
<1> DEFINE a == RemoveAt(asked, k)
<1>2. /\ a \in Seq(Asked) /\ Len(a) = Len(asked) - 1
      /\ \A j \in 1 .. k - 1 : a[j].kind = asked[j].kind
      /\ \A j \in k .. Len(asked) - 1 : a[j].kind = asked[j + 1].kind
  BY <1>1, RemoveAtFacts
<1> HIDE DEF a
<1>3. /\ OneOlder(a) /\ asked' = a
      /\ asked[k].kind = "older" => OlderIn(a) = {}
      /\ asked[k].kind # "older" => (OlderIn(a) = {} <=> OlderIn(asked) = {})
  BY <1>1, <1>2, OlderTaken DEF a
<1>4. Len(asked') <= MaxAsked + 1
  BY <1>1, <1>2, <1>3
<1>5. loadingMore' \in BOOLEAN /\ loadingMore' = (OlderIn(asked') # {})
  BY <1>1, <1>3
<1>6. AskedFits'
  BY <1>2, <1>3, <1>4, <1>5 DEF AskedFits
<1> QED
  BY <1>1, <1>6 DEF PageFits, WireFits, ViewFits

LEMMA WireCut == ASSUME wire' = <<>> PROVE WireFits'
<1>1. DOMAIN wire' = {} /\ wire' \in Seq(Events)
  OBVIOUS
<1> QED
  BY <1>1 DEF WireFits

LEMMA UserPage ==
  ASSUME PageFits, User
  PROVE  PageFits'
<1>1. /\ asked \in Seq(Asked) /\ OneOlder(asked) /\ Len(asked) \in Nat /\ MaxAsked \in Nat
      /\ loadingMore \in BOOLEAN /\ loadingMore = (OlderIn(asked) # {})
      /\ active \in Convs /\ offset \in Nat
  BY InboxAssumption DEF PageFits, AskedFits, ViewFits
<1>2. CASE loadMoreMessages
  <2> DEFINE q == Request("older", offset)
  <2>1. /\ ~loadingMore /\ Len(asked) < MaxAsked /\ loadingMore' = TRUE
        /\ asked' = Append(asked, q)
        /\ UNCHANGED <<rows, wire, up, active, list, offset, hasMore, missed>>
    BY <1>2 DEF loadMoreMessages, server
  <2>2. q \in Asked /\ q.kind = "older"
    BY <1>1, RequestTyped
  <2> HIDE DEF q
  <2>3. OlderIn(asked) = {}
    BY <1>1, <2>1
  <2>4. /\ asked' \in Seq(Asked) /\ Len(asked') = Len(asked) + 1 /\ OneOlder(asked')
        /\ (OlderIn(asked') # {}) = TRUE
    BY <1>1, <2>1, <2>2, <2>3, OlderAdded
  <2>5. Len(asked') <= MaxAsked + 1
    BY <1>1, <2>1, <2>4
  <2>6. AskedFits'
    BY <2>1, <2>4, <2>5 DEF AskedFits
  <2> QED
    BY <2>1, <2>6 DEF PageFits, WireFits, ViewFits
<1>3. ASSUME NEW c \in Convs, Select(c) PROVE PageFits'
  <2> DEFINE p == [Request("conversations", 0) EXCEPT !.conv = c]
             q == [Request("page", 0) EXCEPT !.conv = c]
  <2>1. /\ Len(asked) < MaxAsked /\ asked' = asked \o <<p, q>>
        /\ active' = c /\ up' = FALSE /\ wire' = <<>> /\ missed' = FALSE
        /\ UNCHANGED <<rows, list, offset, hasMore, loadingMore>>
    BY <1>3 DEF Select, server
  <2>2. p \in Asked /\ p.kind # "older" /\ q \in Asked /\ q.kind # "older"
    <3>1. Request("conversations", 0) \in Asked /\ Request("page", 0) \in Asked
      BY <1>1, RequestTyped
    <3>2. Request("conversations", 0).kind # "older" /\ Request("page", 0).kind # "older"
      BY DEF Request
    <3> QED
      BY <3>1, <3>2 DEF Asked
  <2> HIDE DEF p, q
  <2>3. asked' = Append(Append(asked, p), q)
    BY <1>1, <2>1, <2>2
  <2>4. /\ Append(asked, p) \in Seq(Asked) /\ Len(Append(asked, p)) = Len(asked) + 1
        /\ OneOlder(Append(asked, p))
        /\ (OlderIn(Append(asked, p)) # {}) = (OlderIn(asked) # {})
    BY <1>1, <2>2, OlderAdded
  <2>5. /\ asked' \in Seq(Asked) /\ Len(asked') = Len(asked) + 1 + 1 /\ OneOlder(asked')
        /\ (OlderIn(asked') # {}) = (OlderIn(asked) # {})
    BY <2>2, <2>3, <2>4, OlderAdded
  <2>6. Len(asked') <= MaxAsked + 1
    BY <1>1, <2>1, <2>5
  <2>7. AskedFits'
    BY <1>1, <2>1, <2>5, <2>6 DEF AskedFits
  <2> QED
    BY <2>1, <2>7, WireCut DEF PageFits, ViewFits
<1> QED
  BY <1>2, <1>3 DEF User

LEMMA SocketPage ==
  ASSUME PageFits, Connect \/ Break \/ UNCHANGED vars
  PROVE  PageFits'
<1>1. CASE Connect
  BY <1>1 DEF Connect, PageFits, WireFits, AskedFits, ViewFits, server, view
<1>2. CASE Break
  <2>1. /\ up' = FALSE /\ wire' = <<>> /\ missed' \in BOOLEAN
        /\ UNCHANGED <<rows, asked, active, list, offset, hasMore, loadingMore>>
    BY <1>2 DEF Break, server, view
  <2> QED
    BY <2>1, WireCut DEF PageFits, AskedFits, ViewFits
<1>3. CASE UNCHANGED vars
  BY <1>3 DEF vars, PageFits, WireFits, AskedFits, ViewFits, server, view
<1> QED
  BY <1>1, <1>2, <1>3

----------------------------------------------------------------------------
AllFits == Inv /\ Placed /\ PageFits

LEMMA AllInit == Init => AllFits
<1> SUFFICES ASSUME Init PROVE AllFits
  OBVIOUS
<1>1. active \in Convs /\ Before \in Nat /\ MaxMessages \in Nat
  BY Bounds DEF Init
<1>2. Inserting = {}
  BY DEF Init, Inserting
<1>3. Len(rows) = Before
  BY <1>1 DEF Init
<1>4. Placed
  BY <1>1, <1>2, <1>3, FS_EmptySet, NobodyKnown DEF Init, Placed, Room, HandsKnown
<1> DEFINE q == Request("page", 0)
<1>5. q \in Asked /\ q.kind = "page" /\ asked = <<q>>
  BY <1>1, RequestTyped DEF Init
<1> HIDE DEF q
<1>6. asked \in Seq(Asked) /\ Len(asked) = 1 /\ OlderIn(asked) = {}
  BY <1>5 DEF OlderIn
<1>7. AskedFits
  <2>1. loadingMore \in BOOLEAN /\ loadingMore = (OlderIn(asked) # {})
    BY <1>6 DEF Init
  <2>2. Len(asked) <= MaxAsked + 1
    BY <1>6, InboxAssumption
  <2> QED
    BY <1>6, <2>1, <2>2 DEF AskedFits, OneOlder
<1>8. WireFits
  BY DEF Init, WireFits
<1>9. ViewFits
  <2>1. list \in Seq(Shown)
    BY DEF Init
  <2> QED
    BY <1>1, <2>1 DEF Init, ViewFits
<1> QED
  BY <1>4, <1>7, <1>8, <1>9, InvInit DEF AllFits, PageFits

LEMMA AllStep == ASSUME AllFits, [Next]_vars PROVE AllFits'
<1>1. Inv' /\ Typed /\ Inv /\ Placed /\ Room /\ PageFits
  BY InvStep DEF AllFits, Inv, Placed
<1>2. ASSUME NEW t \in Tasks, Begin(t) PROVE Placed' /\ PageFits'
  <2>1. ASSUME NEW ext \in 1 .. sent, NEW s \in AckStatuses, Acknowledge(t, ext, s)
        PROVE  Placed' /\ PageFits'
    <3>1. Placed' /\ DOMAIN rows' = DOMAIN rows
      BY <1>1, <2>1, AcknowledgePlaced
    <3>2. UNCHANGED <<wire, up, view, asked, missed>>
      BY <2>1 DEF Acknowledge
    <3> QED
      BY <1>1, <3>1, <3>2, BeginPage
  <2>2. ASSUME NEW s \in SendStatuses, Send(t, s) PROVE Placed' /\ PageFits'
    <3>1. Placed' /\ Grows
      BY <1>1, <2>2, SendPlaced
    <3>2. UNCHANGED <<wire, up, view, asked, missed>>
      BY <2>2 DEF Send
    <3> QED
      BY <1>1, <3>1, <3>2, BeginPage
  <2>3. ASSUME NEW conv \in Convs, InsertReceived(t, conv) PROVE Placed' /\ PageFits'
    <3>1. Placed' /\ Grows
      BY <1>1, <2>3, InsertReceivedPlaced
    <3>2. UNCHANGED <<wire, up, view, asked, missed>>
      BY <2>3 DEF InsertReceived
    <3> QED
      BY <1>1, <3>1, <3>2, BeginPage
  <2> QED
    BY <1>2, <2>1, <2>2, <2>3 DEF Begin
<1>3. ASSUME NEW t \in Tasks, Handle(t) PROVE Placed' /\ PageFits'
  <2>1. Placed' /\ DOMAIN rows \subseteq DOMAIN rows'
    <3>1. CASE InsertSent(t)
      BY <1>1, <3>1, InsertSentPlaced DEF Grows
    <3>2. CASE InsertReply(t)
      BY <1>1, <3>2, InsertReplyPlaced DEF Grows
    <3>3. CASE EmitSent(t) \/ LogSent(t) \/ LogAck(t) \/ EmitAck(t) \/ LogBoth(t) \/ EmitBoth(t)
      BY <1>1, <3>3, HandlePlaced
    <3> QED
      BY <1>3, <3>1, <3>2, <3>3 DEF Handle
  <2> QED
    BY <1>1, <1>3, <2>1, HandlePage
<1>4. ASSUME Receive \/ Network \/ User \/ Connect \/ Break
             \/ (\E k \in 1 .. MaxAsked + 1 : Fail(k)) \/ UNCHANGED vars
      PROVE  Placed' /\ PageFits'
  <2>1. UNCHANGED <<rows, at, held>>
    BY <1>1, <1>4, PageStep
  <2>2. Placed'
    BY <1>1, <2>1 DEF Placed, Room, Inserting, HandsKnown
  <2>3. CASE Receive
    BY <1>1, <2>2, <2>3, ReceivePage
  <2>4. ASSUME NEW k, Answer(k) \/ Arrive(k) PROVE PageFits'
    BY <1>1, <2>4, AnswerPage, ArrivePage
  <2>5. CASE Network
    BY <2>2, <2>4, <2>5 DEF Network
  <2>6. CASE User
    BY <1>1, <2>2, <2>6, UserPage
  <2>7. CASE Connect \/ Break \/ UNCHANGED vars
    BY <1>1, <2>2, <2>7, SocketPage
  <2>8. CASE \E k \in 1 .. MaxAsked + 1 : Fail(k)
    BY <1>1, <2>2, <2>8, FailPage
  <2> QED
    BY <1>4, <2>3, <2>5, <2>6, <2>7, <2>8
<1>5. Placed' /\ PageFits'
  BY <1>2, <1>3, <1>4 DEF Next
<1> QED
  BY <1>1, <1>5 DEF AllFits

\* Whatever is written, told, asked for and clicked, the tables, the requests in hand, the
\* wire and the page keep their types; the flag loadingMore is up exactly while a request
\* for older messages is in flight, so that it can neither stay up for ever nor admit a
\* second one (Inbox.jsx, loadMoreMessages).
THEOREM PageTypes == Spec => []TypeOK
<1>1. AllFits => TypeOK
  <2> SUFFICES ASSUME AllFits PROVE TypeOK
    OBVIOUS
  <2>1. Typed /\ Placed /\ PageFits
    BY DEF AllFits, Inv
  <2>2. Len(rows) <= Before + MaxMessages /\ DOMAIN rows \subseteq Ids
    BY <2>1, RowsInIds DEF Placed
  <2>3. held \in [Tasks -> Helds]
    <3>1. ASSUME NEW t \in Tasks PROVE held[t] \in Helds
      <4>1. held[t] \in Hands /\ held[t].id \in {0} \cup Ids /\ held[t].reply \in {0} \cup Ids
        BY <2>1, <2>2 DEF Typed, Placed, HandsKnown
      <4> QED
        BY <4>1 DEF Hands, Helds
    <3> QED
      BY <2>1, <3>1 DEF Typed
  <2>4. ServerTypeOK
    BY <2>1, <2>2, <2>3 DEF Typed, ServerTypeOK
  <2>5. \A k \in DOMAIN wire : wire[k].kind \in {"new", "update"} /\ wire[k].id \in DOMAIN rows
    <3>1. \A k \in DOMAIN wire : wire[k] \in Events /\ wire[k].id \in DOMAIN rows
      BY <2>1 DEF PageFits, WireFits
    <3> QED
      BY <3>1 DEF Events
  <2>6. MoreLoading /\ Len(asked) <= MaxAsked + 1 /\ loadingMore \in BOOLEAN
    BY <2>1 DEF PageFits, AskedFits, MoreLoading, OlderIn
  <2>7. \A k \in DOMAIN list : list[k] \in Shown
    BY <2>1 DEF PageFits, ViewFits
  <2> QED
    BY <2>1, <2>4, <2>5, <2>6, <2>7 DEF TypeOK, PageFits, ViewFits
<1> QED
  BY <1>1, AllInit, AllStep, PTL DEF Spec

=============================================================================
