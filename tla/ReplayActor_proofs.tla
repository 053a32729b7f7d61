-------------------------- MODULE ReplayActor_proofs --------------------------
(***************************************************************************)
(* What the replay actor promises its clients and its database, for any    *)
(* commands, dataset, queue and number of faults and restarts.             *)
(*                                                                         *)
(* ToldIsDurable is not inductive: a command may be answered only because  *)
(* it is not in the log when its transaction ends, and that rests on the   *)
(* mailbox holding no logged command that the actor has not decided.       *)
(* NobodyIsForgotten counts places of the mailbox.  SessionInv and         *)
(* RecoveryReproduces rest on PersistInv: each entry of the log follows    *)
(* from the one before, the row is where the log ends, and a transaction   *)
(* without a checkpoint can only append what follows from there.  The      *)
(* replay of the log is a recursive function; what it computes is found by *)
(* the least entry at which it would differ.                               *)
(***************************************************************************)
EXTENDS ReplayActor, FiniteNaturals, TLAPS

\* A state with a sequence number.
Counted(m) == "seq" \in DOMAIN m /\ m.seq \in Nat

\* Sequence numbers: memory is never behind the row, the row never behind a
\* subscriber; and only a shutdown ends the task behind its transaction.
SeqInv ==
  /\ shown \in Nat /\ row.seq \in Nat /\ shown <= row.seq
  /\ Up => Counted(mem) /\ row.seq <= mem.seq
  /\ pc = "commit" => /\ Counted(txn.base) /\ row.seq <= txn.base.seq
                      /\ txn.kind = "stop" \/ txn.next \in {"loop", "after"}

\* What an id may stand for.
ContentInv ==
  \A id \in Ids : \/ content[id] = NoCommand
                  \/ content[id] = Known /\ logged[id] # Unlogged
                  \/ content[id].type \in Types \cup {"sent"}

\* A logged command in the mailbox was decided by this actor; the one in the
\* open transaction is not logged.
MailInv ==
  /\ queue \in Seq({Read, Stop} \cup Ids)
  /\ \A i \in DOMAIN queue : queue[i] \in Ids =>
       /\ content[queue[i]] # NoCommand
       /\ logged[queue[i]] # Unlogged => queue[i] \in history
  /\ pc = "down" => queue = <<>>
  /\ pc = "commit" /\ txn.id # NoId =>
       txn.id \in Ids /\ logged[txn.id] = Unlogged /\ txn.answer # Unlogged

LogInv ==
  /\ DOMAIN told = Ids /\ DOMAIN logged = Ids /\ DOMAIN content = Ids
  /\ history \subseteq {id \in Ids : logged[id] # Unlogged}
  /\ \A id \in Ids : told[id] \subseteq {logged[id]} \ {Unlogged}

DurabilityInv == SeqInv /\ ContentInv /\ MailInv /\ LogInv

-----------------------------------------------------------------------------
(* Ids are numbers apart from what else the mailbox holds.                 *)
LEMMA IdsApart == Read \notin Ids /\ Stop \notin Ids /\ NoId \notin Ids
BY ReplayAssumption DEF ReplayAssumption, Ids, Read, Stop, NoId

(* Commands and events leave the sequence number to the frame.             *)
LEMMA EndedKeeps ==
  ASSUME NEW m, Counted(m)
  PROVE  Counted(Ended(m)) /\ Ended(m).seq = m.seq
BY DEF Counted, Ended

LEMMA ConsumedKeeps ==
  ASSUME NEW m, NEW src, Counted(m)
  PROVE  Counted(Consumed(m, src)) /\ Consumed(m, src).seq = m.seq
BY DEF Counted, Ended, Consumed

LEMMA MovedKeeps ==
  ASSUME NEW m, NEW target, Counted(m)
  PROVE  Counted(Moved(m, target)) /\ Moved(m, target).seq = m.seq
BY ConsumedKeeps DEF Counted, Moved

LEMMA ReleasedKeeps ==
  ASSUME NEW m, Counted(m)
  PROVE  Counted(Released(m)) /\ Released(m).seq = m.seq
BY DEF Counted, Released

LEMMA EffectKeeps ==
  ASSUME NEW m, NEW c, Counted(m), c.type \in Types
  PROVE  Counted(Effect(m, c)) /\ Effect(m, c).seq = m.seq
<1>1. CASE c.type = "ACQUIRE_CONTROLLER" BY <1>1 DEF Effect, Counted
<1>2. CASE c.type = "RELEASE_CONTROLLER" BY <1>2, ReleasedKeeps DEF Effect
<1>3. CASE c.type = "PLAY" BY <1>3 DEF Effect, Counted
<1>4. CASE c.type = "PAUSE" BY <1>4 DEF Effect, Counted
<1>5. CASE c.type = "SET_SPEED" BY <1>5 DEF Effect, Counted
<1>6. CASE c.type = "STEP" BY <1>6, ConsumedKeeps DEF Effect
<1>7. CASE c.type = "ADVANCE_BY" BY <1>7, MovedKeeps DEF Effect
<1>8. CASE c.type = "SEEK_TO" BY <1>8, MovedKeeps DEF Effect
<1>9. CASE c.type = "PLACE_ORDER" BY <1>9 DEF Effect, Counted
<1>10. CASE c.type = "ADD_JOURNAL_NOTE" BY <1>10 DEF Effect, Counted
<1>11. CASE c.type = "END_SESSION" BY <1>11 DEF Effect, Counted, Ended
<1>12. QED BY <1>1, <1>2, <1>3, <1>4, <1>5, <1>6, <1>7, <1>8, <1>9, <1>10, <1>11 DEF Types

(* A frame takes the next sequence number; the clock and the log leave it. *)
LEMMA FrameCounts ==
  ASSUME NEW m, Counted(m)
  PROVE  /\ Counted(Emitted(m)) /\ Emitted(m).seq = m.seq + 1
         /\ Counted(Revised(m)) /\ Revised(m).seq = m.seq + 1
BY DEF Counted, Emitted, Revised

LEMMA ClockKeeps ==
  ASSUME NEW m, NEW vt, Counted(m)
  PROVE  /\ Counted(At(m, vt)) /\ At(m, vt).seq = m.seq
         /\ Counted(Logged(m)) /\ Logged(m).seq = m.seq
BY DEF Counted, At, Logged

LEMMA RolledBackKeeps ==
  ASSUME Counted(txn.base)
  PROVE  Counted(RolledBack) /\ RolledBack.seq = txn.base.seq
BY DEF Counted, RolledBack

-----------------------------------------------------------------------------
(* The invariant is kept.                                                  *)

LEMMA InitDurable == Init => DurabilityInv
<1>1. SUFFICES ASSUME Init PROVE DurabilityInv
  OBVIOUS
<1>2. PICK s \in {"PAUSED", "PLAYING"} : mem = [Fresh EXCEPT !.ctl = Owner, !.state = s]
  BY <1>1 DEF Init
<1>3. Counted(mem) /\ mem.seq = 0
  BY <1>2 DEF Counted, Fresh
<1>4. SeqInv
  BY <1>1, <1>3 DEF Init, SeqInv, Row, Up
<1>5. ContentInv /\ MailInv /\ LogInv
  BY <1>1 DEF Init, ContentInv, MailInv, LogInv
<1>6. QED BY <1>4, <1>5 DEF DurabilityInv

(* What stays when an action leaves the database, the clients, the mailbox *)
(* and the decisions alone.                                                *)
LEMMA MailKept ==
  ASSUME DurabilityInv, logged' = logged, content' = content, told' = told, history' = history,
         queue' = queue \/ (queue' = Tail(queue) /\ queue # <<>>), pc' # "down",
         pc' = "commit" /\ txn'.id # NoId =>
           txn'.id \in Ids /\ logged[txn'.id] = Unlogged /\ txn'.answer # Unlogged
  PROVE  ContentInv' /\ MailInv' /\ LogInv'
<1>1. ContentInv' /\ LogInv'
  BY DEF DurabilityInv, ContentInv, LogInv
<1>2. queue' \in Seq({Read, Stop} \cup Ids) /\ \A i \in DOMAIN queue' : \E j \in DOMAIN queue : queue'[i] = queue[j]
  <2>1. CASE queue' = queue BY <2>1 DEF DurabilityInv, MailInv
  <2>2. CASE queue' = Tail(queue) /\ queue # <<>>
    BY <2>2 DEF DurabilityInv, MailInv
  <2>3. QED BY <2>1, <2>2
<1>3. MailInv'
  BY <1>2 DEF DurabilityInv, MailInv
<1>4. QED BY <1>1, <1>3

LEMMA AfterRequestRuns == AfterRequest \in {"loop", "after"}
BY DEF AfterRequest

(* The open transaction's candidate and what it returns to.                *)
LEMMA BeginCounts ==
  ASSUME DurabilityInv, NEW base, NEW kind, NEW id, NEW candidate, NEW checkpoint, NEW answer, NEW next,
         Begin(base, kind, id, candidate, checkpoint, answer, next),
         Counted(base), row.seq <= base.seq, Counted(candidate), row.seq <= candidate.seq,
         kind = "stop" \/ next \in {"loop", "after"},
         row' = row, shown' = shown
  PROVE  SeqInv' /\ pc' = "commit" /\ txn'.id = id /\ txn'.answer = answer
BY DEF Begin, DurabilityInv, SeqInv, Up

LEMMA PlayDurable ==
  ASSUME DurabilityInv, Up, NEW next, next \in {"waiting", "loop"}, Play(next), Idle
  PROVE  DurabilityInv'
<1>1. Counted(mem) /\ row.seq <= mem.seq /\ row.seq \in Nat
  BY DEF DurabilityInv, SeqInv
<1>2. PICK vt \in Materialised(mem) :
        IF Due(At(mem, vt)) THEN PlayEvent(At(mem, vt))
        ELSE pc' = next /\ mem' = At(mem, vt) /\ UNCHANGED txn
  BY DEF Play
<1>3. Counted(At(mem, vt)) /\ At(mem, vt).seq = mem.seq
  BY <1>1, ClockKeeps
<1>4. CASE Due(At(mem, vt))
  <2> DEFINE m == Emitted(Consumed(At(mem, vt), At(mem, vt).src + 1))
  <2>1. Counted(m) /\ row.seq <= m.seq
    <3>1. Counted(Consumed(At(mem, vt), At(mem, vt).src + 1))
          /\ Consumed(At(mem, vt), At(mem, vt).src + 1).seq = mem.seq
      BY <1>3, ConsumedKeeps
    <3>2. Counted(m) /\ m.seq = mem.seq + 1
      BY <3>1, FrameCounts
    <3>3. QED BY <1>1, <3>2 DEF Counted
  <2>2. PICK checkpoint : Begin(At(mem, vt), "source", NoId, m, checkpoint, Unlogged, "loop")
    BY <1>2, <1>4 DEF PlayEvent
  <2>3. SeqInv' /\ pc' = "commit" /\ txn'.id = NoId
    <3>1. row' = row /\ shown' = shown BY DEF Idle, diskVars
    <3>2. Counted(At(mem, vt)) /\ row.seq <= At(mem, vt).seq
      BY <1>1, <1>3
    <3> HIDE DEF m
    <3>3. QED BY <2>1, <2>2, <3>1, <3>2, BeginCounts, Zenon
  <2>4. ContentInv' /\ MailInv' /\ LogInv'
    BY <2>3, MailKept DEF Idle, diskVars, clientVars
  <2>5. QED BY <2>3, <2>4 DEF DurabilityInv
<1>5. CASE ~Due(At(mem, vt))
  <2>1. pc' = next /\ mem' = At(mem, vt) BY <1>2, <1>5
  <2>2. Counted(mem') /\ row.seq <= mem'.seq /\ pc' # "commit"
    BY <1>1, <1>3, <2>1
  <2>3. SeqInv'
    BY <2>2 DEF DurabilityInv, SeqInv, Up, Idle, diskVars
  <2>4. ContentInv' /\ MailInv' /\ LogInv'
    BY <2>1, <2>2, MailKept DEF Idle, diskVars, clientVars
  <2>5. QED BY <2>3, <2>4 DEF DurabilityInv
<1>6. QED BY <1>4, <1>5

LEMMA SeqKept ==
  ASSUME DurabilityInv, row' = row, shown' = shown, Counted(mem'), row.seq <= mem'.seq, pc' # "commit"
  PROVE  SeqInv'
BY DEF DurabilityInv, SeqInv, Up

(* The actor's steps without a request.                                    *)
LEMMA UnaskedDurable ==
  ASSUME DurabilityInv, Loop \/ AfterOne \/ Wake \/ Expire
  PROVE  DurabilityInv'
<1>1. Up BY DEF Loop, AfterOne, Wake, Expire, Up
<1>2. Counted(mem) /\ row.seq <= mem.seq /\ row.seq \in Nat
  BY <1>1 DEF DurabilityInv, SeqInv
<1>3. CASE (Loop /\ Play("waiting")) \/ (AfterOne /\ Play("loop"))
  BY <1>1, <1>3, PlayDurable DEF Loop, AfterOne
<1>4. CASE mem' = mem /\ pc' \in {"waiting", "loop"} /\ Idle
  <2>1. SeqInv'
    BY <1>2, <1>4, SeqKept DEF Idle, diskVars
  <2>2. ContentInv' /\ MailInv' /\ LogInv'
    BY <1>4, MailKept DEF Idle, diskVars, clientVars
  <2>3. QED BY <2>1, <2>2 DEF DurabilityInv
<1>5. CASE Expire
  <2>1. PICK vt : Begin(mem, "expired", NoId, Revised(Released(At(mem, vt))), TRUE, Unlogged, "loop")
    BY <1>5 DEF Expire
  <2> DEFINE m == Revised(Released(At(mem, vt)))
  <2>2. Counted(m) /\ row.seq <= m.seq
    <3>1. Counted(Released(At(mem, vt))) /\ Released(At(mem, vt)).seq = mem.seq
      BY <1>2, ClockKeeps, ReleasedKeeps
    <3>2. Counted(m) /\ m.seq = mem.seq + 1
      BY <3>1, FrameCounts
    <3>3. QED BY <1>2, <3>2 DEF Counted
  <2>3. row' = row /\ shown' = shown
    BY <1>5 DEF Expire, diskVars
  <2>4. SeqInv' /\ pc' = "commit" /\ txn'.id = NoId
    <3> HIDE DEF m
    <3>1. Begin(mem, "expired", NoId, m, TRUE, Unlogged, "loop") BY <2>1 DEF m
    <3>2. QED BY <1>2, <2>2, <2>3, <3>1, BeginCounts, Zenon
  <2>5. ContentInv' /\ MailInv' /\ LogInv'
    BY <1>5, <2>4, MailKept DEF Expire, diskVars, clientVars
  <2>6. QED BY <2>4, <2>5 DEF DurabilityInv
<1>6. QED BY <1>3, <1>4, <1>5 DEF Loop, AfterOne, Wake

(* A transaction that commits keeps the log and moves the row forward.     *)
LEMMA WriteKeeps ==
  ASSUME DurabilityInv, pc = "commit", Write
  PROVE  /\ row'.seq \in Nat /\ row.seq <= row'.seq /\ row'.seq = mem.seq
         /\ DOMAIN logged' = Ids
         /\ \A id \in Ids : logged[id] # Unlogged => logged'[id] = logged[id]
         /\ \A id \in Ids : id # txn.id => logged'[id] = logged[id]
         /\ txn.id # NoId => logged'[txn.id] = txn.answer
<1>1. Counted(mem) /\ row.seq <= mem.seq
  BY DEF DurabilityInv, SeqInv, Up
<1>2. row' = Row(mem)
      /\ logged' = IF txn.id = NoId THEN logged ELSE [logged EXCEPT ![txn.id] = txn.answer]
  BY DEF Write, DurabilityInv, MailInv
<1>3. DOMAIN logged = Ids /\ (txn.id # NoId => txn.id \in Ids /\ logged[txn.id] = Unlogged)
  BY DEF DurabilityInv, LogInv, MailInv
<1>4. row'.seq = mem.seq
  BY <1>2 DEF Row
<1>5. QED BY <1>1, <1>2, <1>3, <1>4 DEF Counted

(* The end of the task keeps what the database and the clients have.       *)
LEMMA ExitDurable ==
  ASSUME DurabilityInv, Exit, told' = told, content' = content,
         row'.seq \in Nat, shown' \in Nat, shown' <= row'.seq, DOMAIN logged' = Ids,
         \A id \in Ids : logged[id] # Unlogged => logged'[id] = logged[id]
  PROVE  DurabilityInv'
<1>1. pc' = "down" /\ queue' = <<>> /\ history' = {}
  BY DEF Exit
<1>2. SeqInv' /\ MailInv'
  BY <1>1 DEF SeqInv, MailInv, Up
<1>3. ContentInv' /\ LogInv'
  BY <1>1 DEF DurabilityInv, ContentInv, LogInv
<1>4. QED BY <1>2, <1>3 DEF DurabilityInv

LEMMA ExitsDurable ==
  ASSUME DurabilityInv, StopEnded \/ StopOk \/ StopFails \/ Crash
  PROVE  DurabilityInv'
<1>1. CASE Exit /\ UNCHANGED diskVars /\ UNCHANGED <<told, content, shown>>
  BY <1>1, ExitDurable DEF diskVars, DurabilityInv, SeqInv, LogInv
<1>2. CASE pc = "commit" /\ Write /\ Exit /\ UNCHANGED <<told, content>> /\ shown' \in {shown, mem.seq}
  <2>1. shown' \in Nat /\ shown' <= row'.seq
    BY <1>2, WriteKeeps DEF DurabilityInv, SeqInv, Up, Counted
  <2>2. QED BY <1>2, <2>1, WriteKeeps, ExitDurable
<1>3. QED BY <1>1, <1>2 DEF StopEnded, StopOk, StopFails, Crash


(* A client's request: a logged command that the actor has not decided is  *)
(* answered from the log and never enters the mailbox.                     *)
LEMMA AskedDurable ==
  ASSUME DurabilityInv, Ask \/ RequestStop \/ \E id \in Ids : Submit(id)
  PROVE  DurabilityInv'
<1>1. Up /\ UNCHANGED <<pc, mem, txn, history, row, logged, told, shown>>
  BY DEF Ask, RequestStop, Submit, Accepting, UntouchedActor, diskVars, clientVars
<1>2. SeqInv' /\ LogInv' /\ pc' # "down"
  <2>1. SeqInv' BY <1>1 DEF DurabilityInv, SeqInv, Up
  <2>2. DOMAIN content' = Ids BY DEF Ask, RequestStop, Submit, clientVars, DurabilityInv, LogInv
  <2>3. QED BY <1>1, <2>1, <2>2 DEF DurabilityInv, LogInv, Up
<1> DEFINE Sent == [NoCommand EXCEPT !.type = "sent", !.rev = row.rev]
<1>3. PICK r \in {Read, Stop} \cup Ids :
        /\ queue' = Append(queue, r)
        /\ (r \in Ids /\ Submit(r)) \/ (r \notin Ids /\ UNCHANGED content)
  BY IdsApart DEF Ask, RequestStop, Submit, clientVars
<1>s. Sent.type = "sent" /\ Sent # NoCommand
  BY DEF NoCommand
<1> HIDE DEF Sent
<1>t. r \in Ids => /\ (content' = [content EXCEPT ![r] = Sent]) \/ (content' = content /\ content[r] # NoCommand)
                  /\ ~Stored(r)
  BY <1>3 DEF Submit, Sent
<1>4. \A id \in Ids : content'[id] = content[id] \/ (id = r /\ content'[id].type = "sent" /\ content'[id] # NoCommand)
  <2>1. DOMAIN content = Ids BY DEF DurabilityInv, LogInv
  <2>2. QED BY <1>3, <1>s, <1>t, <2>1
<1>5. ContentInv'
  BY <1>1, <1>4 DEF DurabilityInv, ContentInv
<1>6. r \in Ids => content'[r] # NoCommand /\ (logged[r] # Unlogged => r \in history)
  <2>1. DOMAIN content = Ids BY DEF DurabilityInv, LogInv
  <2>2. QED BY <1>3, <1>s, <1>t, <2>1 DEF Stored
<1>7. MailInv'
  <2>1. queue \in Seq({Read, Stop} \cup Ids) BY DEF DurabilityInv, MailInv
  <2>2. queue' \in Seq({Read, Stop} \cup Ids) BY <1>3, <2>1
  <2>3. \A i \in DOMAIN queue' : queue'[i] = r \/ (i \in DOMAIN queue /\ queue'[i] = queue[i])
    BY <1>3, <2>1
  <2>4. \A id \in Ids : content[id] # NoCommand => content'[id] # NoCommand
    BY <1>4
  <2>5. QED BY <1>1, <1>2, <1>6, <2>2, <2>3, <2>4 DEF DurabilityInv, MailInv
<1>8. QED BY <1>2, <1>5, <1>7 DEF DurabilityInv


(* A client is told what is logged now.                                    *)
LEMMA ToldKeeps ==
  ASSUME DurabilityInv, NEW id \in Ids, NEW answer, Told(id, answer), answer # Unlogged,
         DOMAIN logged' = Ids, logged'[id] = answer,
         \A k \in Ids : logged[k] # Unlogged => logged'[k] = logged[k],
         history' \subseteq history \cup {id}
  PROVE  /\ ContentInv' /\ LogInv'
         /\ \A k \in Ids : content[k] # NoCommand => content'[k] # NoCommand
<1>1. Known # NoCommand
  BY DEF Known, NoCommand
<1>2. /\ DOMAIN content' = Ids /\ content'[id] = Known
      /\ \A k \in Ids : k # id => content'[k] = content[k]
  BY DEF Told, DurabilityInv, LogInv
<1>3. /\ DOMAIN told' = Ids /\ told'[id] = told[id] \cup {answer}
      /\ \A k \in Ids : k # id => told'[k] = told[k]
  BY DEF Told, DurabilityInv, LogInv
<1>4. ContentInv'
  BY <1>2 DEF DurabilityInv, ContentInv
<1>5. LogInv'
  BY <1>2, <1>3 DEF DurabilityInv, LogInv
<1>6. QED BY <1>1, <1>2, <1>4, <1>5

LEMMA AnsweredDurable ==
  ASSUME DurabilityInv, NEW id \in Ids, AnswerFromLog(id) \/ HandleRepeated(id)
  PROVE  DurabilityInv'
<1>1. /\ UNCHANGED <<txn, history, row, logged, shown>> /\ Told(id, logged[id]) /\ mem' = mem /\ Up
      /\ queue' = queue \/ (queue' = Tail(queue) /\ queue # <<>>)
      /\ pc' = pc \/ pc' \in {"loop", "after"}
  BY DEF AnswerFromLog, HandleRepeated, UntouchedActor, diskVars, Takes, Offered, AfterRequest, Up
<1>2. logged[id] # Unlogged
  BY DEF AnswerFromLog, HandleRepeated, Stored, DurabilityInv, LogInv
<1>3. /\ ContentInv' /\ LogInv'
      /\ \A k \in Ids : content[k] # NoCommand => content'[k] # NoCommand
  BY <1>1, <1>2, ToldKeeps DEF DurabilityInv, LogInv
<1>4. SeqInv'
  BY <1>1 DEF DurabilityInv, SeqInv, Up
<1>5. MailInv'
  <2>1. /\ queue' \in Seq({Read, Stop} \cup Ids)
        /\ \A i \in DOMAIN queue' : \E j \in DOMAIN queue : queue'[i] = queue[j]
    <3>1. queue \in Seq({Read, Stop} \cup Ids) BY DEF DurabilityInv, MailInv
    <3>2. CASE queue' = queue BY <3>1, <3>2
    <3>3. CASE queue' = Tail(queue) /\ queue # <<>> BY <3>1, <3>3
    <3>4. QED BY <1>1, <3>2, <3>3
  <2>2. QED BY <1>1, <1>3, <2>1 DEF DurabilityInv, MailInv, Up
<1>6. QED BY <1>3, <1>4, <1>5 DEF DurabilityInv

(* A request taken from the mailbox.                                       *)
LEMMA TakenCommand ==
  ASSUME DurabilityInv, NEW id \in Ids, Takes(id), id \notin history
  PROVE  /\ Up /\ pc # "commit" /\ logged[id] = Unlogged
         /\ content[id].type \in Types \cup {"sent"}
         /\ queue # <<>> /\ queue' = Tail(queue)
<1>1. pc \in {"loop", "waiting"} /\ queue # <<>> /\ Head(queue) = id /\ queue' = Tail(queue)
  BY DEF Takes, Offered
<1>2. 1 \in DOMAIN queue /\ queue[1] = id
  BY <1>1 DEF DurabilityInv, MailInv
<1>3. content[id] # NoCommand /\ logged[id] = Unlogged
  BY <1>2 DEF DurabilityInv, MailInv
<1>4. QED BY <1>1, <1>3 DEF DurabilityInv, ContentInv, Up

LEMMA CommandDurable ==
  ASSUME DurabilityInv, NEW id \in Ids, HandleCommand(id)
  PROVE  DurabilityInv'
<1>1. PICK c \in Meanings(content[id]) :
        /\ Takes(id) /\ id \notin history
        /\ content' = [content EXCEPT ![id] = c]
        /\ \/ /\ Allowed(mem, c)
              /\ \E vt \in IF c.type \in ReadsClock THEN Materialised(mem) ELSE {mem.vt} :
                   LET m == Logged(Revised(Effect(At(mem, vt), c)))
                   IN  Begin(mem, "accepted", id, m, TRUE, Answer("accepted", m.rev), AfterRequest)
           \/ /\ ~Allowed(mem, c)
              /\ Begin(mem, "rejected", id, Rejected(mem), FALSE, Answer("rejected", mem.rev),
                       AfterRequest)
        /\ UNCHANGED <<asks, told, retries, closing, history, degraded, lastCp, shown, restarts, faults>>
        /\ UNCHANGED diskVars
  BY DEF HandleCommand
<1>2. /\ Up /\ pc # "commit" /\ logged[id] = Unlogged
      /\ content[id].type \in Types \cup {"sent"}
      /\ queue # <<>> /\ queue' = Tail(queue)
  BY <1>1, TakenCommand
<1>3. c.type \in Types
  BY <1>2, ReplayAssumption DEF Meanings, ReplayAssumption
<1>4. Counted(mem) /\ row.seq <= mem.seq /\ row.seq \in Nat
  BY <1>2 DEF DurabilityInv, SeqInv
<1>5. row' = row /\ shown' = shown /\ logged' = logged /\ told' = told /\ history' = history
  BY <1>1 DEF diskVars
<1>6. SeqInv' /\ pc' = "commit" /\ txn'.id = id /\ txn'.answer # Unlogged
  <2>1. CASE ~Allowed(mem, c)
    <3>1. Begin(mem, "rejected", id, Rejected(mem), FALSE, Answer("rejected", mem.rev), AfterRequest)
      BY <1>1, <2>1
    <3>2. Counted(Rejected(mem)) /\ Rejected(mem).seq = mem.seq
      BY <1>4, ClockKeeps DEF Rejected
    <3>3. Answer("rejected", mem.rev) # Unlogged
      BY DEF Answer, Unlogged, NoTxn
    <3>4. QED BY <1>4, <1>5, <3>1, <3>2, <3>3, BeginCounts, AfterRequestRuns
  <2>2. CASE Allowed(mem, c)
    <3>1. PICK vt : LET m == Logged(Revised(Effect(At(mem, vt), c)))
                    IN  Begin(mem, "accepted", id, m, TRUE, Answer("accepted", m.rev), AfterRequest)
      BY <1>1, <2>2
    <3> DEFINE m == Logged(Revised(Effect(At(mem, vt), c)))
    <3>2. Counted(m) /\ row.seq <= m.seq
      <4>1. Counted(Effect(At(mem, vt), c)) /\ Effect(At(mem, vt), c).seq = mem.seq
        BY <1>3, <1>4, ClockKeeps, EffectKeeps
      <4>2. Counted(Revised(Effect(At(mem, vt), c))) /\ Revised(Effect(At(mem, vt), c)).seq = mem.seq + 1
        BY <4>1, FrameCounts
      <4>3. Counted(m) /\ m.seq = mem.seq + 1
        BY <4>2, ClockKeeps
      <4>4. QED BY <1>4, <4>3 DEF Counted
    <3>3. Begin(mem, "accepted", id, m, TRUE, Answer("accepted", m.rev), AfterRequest)
      BY <3>1
    <3>4. Answer("accepted", m.rev) # Unlogged
      BY DEF Answer, Unlogged, NoTxn
    <3> HIDE DEF m
    <3>5. SeqInv' /\ pc' = "commit" /\ txn'.id = id /\ txn'.answer = Answer("accepted", m.rev)
      BY <1>4, <1>5, <3>2, <3>3, BeginCounts, AfterRequestRuns, Zenon
    <3>6. QED BY <3>4, <3>5
  <2>3. QED BY <2>1, <2>2
<1>7. /\ DOMAIN content' = Ids /\ content'[id].type \in Types /\ content'[id] # NoCommand
      /\ \A k \in Ids : k # id => content'[k] = content[k]
  BY <1>1, <1>3 DEF DurabilityInv, LogInv, NoCommand, Types
<1>8. ContentInv' /\ LogInv'
  BY <1>5, <1>7 DEF DurabilityInv, ContentInv, LogInv
<1>9. MailInv'
  <2>1. queue \in Seq({Read, Stop} \cup Ids) BY DEF DurabilityInv, MailInv
  <2>2. /\ queue' \in Seq({Read, Stop} \cup Ids)
        /\ \A i \in DOMAIN queue' : \E j \in DOMAIN queue : queue'[i] = queue[j]
    BY <1>2, <2>1
  <2>3. QED BY <1>2, <1>5, <1>6, <1>7, <2>2 DEF DurabilityInv, MailInv
<1>10. QED BY <1>6, <1>8, <1>9 DEF DurabilityInv


LEMMA ReadAndStopDurable ==
  ASSUME DurabilityInv, HandleRead \/ HandleStop
  PROVE  DurabilityInv'
<1>1. /\ Up /\ queue # <<>> /\ queue' = Tail(queue)
      /\ UNCHANGED <<row, shown, logged, content, told, history>>
  BY DEF HandleRead, HandleStop, Takes, Offered, Up, diskVars, clientVars
<1>2. Counted(mem) /\ row.seq <= mem.seq /\ row.seq \in Nat
  BY <1>1 DEF DurabilityInv, SeqInv
<1>3. CASE HandleRead
  <2>1. PICK vt : mem' = At(mem, vt)
    BY <1>3 DEF HandleRead
  <2>2. pc' \in {"loop", "after"}
    BY <1>3 DEF HandleRead, AfterRequest
  <2>3. Counted(mem') /\ mem'.seq = mem.seq
    BY <1>2, <2>1, ClockKeeps
  <2>4. SeqInv'
    BY <1>1, <1>2, <2>2, <2>3, SeqKept
  <2>5. ContentInv' /\ MailInv' /\ LogInv'
    BY <1>1, <2>2, MailKept
  <2>6. QED BY <2>4, <2>5 DEF DurabilityInv
<1>4. CASE HandleStop
  <2>1. PICK vt : Begin(mem, "stop", NoId,
                        IF mem.state = "PLAYING" THEN Revised([At(mem, vt) EXCEPT !.state = "PAUSED"])
                        ELSE mem,
                        TRUE, Unlogged, "down")
    BY <1>4 DEF HandleStop
  <2> DEFINE paused == [At(mem, vt) EXCEPT !.state = "PAUSED"]
             m == IF mem.state = "PLAYING" THEN Revised(paused) ELSE mem
  <2>2. Counted(m) /\ row.seq <= m.seq
    <3>1. Counted(At(mem, vt)) /\ At(mem, vt).seq = mem.seq
      BY <1>2, ClockKeeps
    <3>2. Counted(paused) /\ paused.seq = mem.seq
      BY <3>1 DEF Counted
    <3> HIDE DEF paused
    <3>3. Counted(Revised(paused)) /\ Revised(paused).seq = mem.seq + 1
      BY <3>2, FrameCounts
    <3>4. QED BY <1>2, <3>3 DEF Counted
  <2>3. SeqInv' /\ pc' = "commit" /\ txn'.id = NoId
    <3>1. Begin(mem, "stop", NoId, m, TRUE, Unlogged, "down") BY <2>1
    <3> HIDE DEF m
    <3>2. QED BY <1>1, <1>2, <2>2, <3>1, BeginCounts, Zenon
  <2>4. ContentInv' /\ MailInv' /\ LogInv'
    BY <1>1, <2>3, MailKept
  <2>5. QED BY <2>3, <2>4 DEF DurabilityInv
<1>5. QED BY <1>3, <1>4


(* The actor decides and tells what the transaction has just logged.       *)
LEMMA CommitDurable ==
  ASSUME DurabilityInv, CommitOk
  PROVE  DurabilityInv'
<1>1. /\ pc = "commit" /\ Write /\ txn.kind # "stop" /\ pc' = txn.next /\ mem' = mem /\ queue' = queue
      /\ history' = IF txn.id = NoId THEN history ELSE history \cup {txn.id}
      /\ shown' \in {shown, mem.seq}
  BY DEF CommitOk
<1>2. pc' \in {"loop", "after"} /\ Counted(mem)
  BY <1>1 DEF DurabilityInv, SeqInv, Up
<1>3. /\ row'.seq \in Nat /\ row.seq <= row'.seq /\ row'.seq = mem.seq
      /\ DOMAIN logged' = Ids
      /\ \A id \in Ids : logged[id] # Unlogged => logged'[id] = logged[id]
      /\ \A id \in Ids : id # txn.id => logged'[id] = logged[id]
      /\ txn.id # NoId => logged'[txn.id] = txn.answer
  BY <1>1, WriteKeeps
<1>4. SeqInv'
  BY <1>1, <1>2, <1>3 DEF DurabilityInv, SeqInv, Up
<1>5. /\ ContentInv' /\ LogInv'
      /\ \A k \in Ids : content[k] # NoCommand => content'[k] # NoCommand
  <2>1. CASE txn.id = NoId
    <3>1. told' = told /\ content' = content BY <2>1 DEF CommitOk
    <3>2. \A id \in Ids : logged'[id] = logged[id] BY <1>3, <2>1, IdsApart
    <3>3. QED BY <1>1, <1>3, <2>1, <3>1, <3>2 DEF DurabilityInv, ContentInv, LogInv
  <2>2. CASE txn.id # NoId
    <3>1. Told(txn.id, txn.answer) BY <2>2 DEF CommitOk
    <3>2. txn.id \in Ids /\ txn.answer # Unlogged
      BY <1>1, <2>2 DEF DurabilityInv, MailInv
    <3>3. QED BY <1>1, <1>3, <2>2, <3>1, <3>2, ToldKeeps
  <2>3. QED BY <2>1, <2>2
<1>6. MailInv'
  <2>1. \A id \in Ids : logged'[id] # Unlogged => logged[id] # Unlogged \/ id \in history'
    BY <1>1, <1>3, IdsApart
  <2>2. history \subseteq history' BY <1>1
  <2>3. QED BY <1>1, <1>2, <1>5, <2>1, <2>2 DEF DurabilityInv, MailInv
<1>7. QED BY <1>4, <1>5, <1>6 DEF DurabilityInv

LEMMA FailureDurable ==
  ASSUME DurabilityInv, CommitFails
  PROVE  DurabilityInv'
<1>1. /\ pc = "commit" /\ txn.kind # "stop" /\ pc' = txn.next /\ mem' = RolledBack
      /\ UNCHANGED <<queue, row, shown, logged, content, told, history>>
  BY DEF CommitFails, diskVars
<1>2. pc' \in {"loop", "after"} /\ Counted(mem') /\ row.seq <= mem'.seq
  BY <1>1, RolledBackKeeps DEF DurabilityInv, SeqInv
<1>3. SeqInv'
  BY <1>1, <1>2, SeqKept
<1>4. ContentInv' /\ MailInv' /\ LogInv'
  BY <1>1, <1>2, MailKept
<1>5. QED BY <1>3, <1>4 DEF DurabilityInv

LEMMA RecoveryDurable ==
  ASSUME DurabilityInv, Recover \/ RecoveryFails
  PROVE  DurabilityInv'
<1>1. CASE Recover
  <2>1. /\ pc' = "loop" /\ UNCHANGED <<queue, row, shown, logged, content, told, history>>
        /\ Counted(mem') /\ mem'.seq = row.seq
    BY <1>1 DEF Recover, diskVars, clientVars, Counted, DurabilityInv, SeqInv
  <2>2. SeqInv'
    BY <2>1, SeqKept DEF DurabilityInv, SeqInv
  <2>3. ContentInv' /\ MailInv' /\ LogInv'
    BY <2>1, MailKept
  <2>4. QED BY <2>2, <2>3 DEF DurabilityInv
<1>2. CASE RecoveryFails
  <2>1. UNCHANGED <<pc, mem, txn, queue, history, shown, logged, content, told>>
        /\ row' = [row EXCEPT !.degraded = TRUE, !.state = "PAUSED"]
    BY <1>2 DEF RecoveryFails, actorVars, clientVars
  <2>2. pc = "down" BY <1>2 DEF RecoveryFails
  <2>3. row'.seq = row.seq
    BY <2>1
  <2>4. SeqInv'
    BY <2>1, <2>2, <2>3 DEF DurabilityInv, SeqInv, Up
  <2>5. ContentInv' /\ MailInv' /\ LogInv'
    BY <2>1 DEF DurabilityInv, ContentInv, MailInv, LogInv
  <2>6. QED BY <2>4, <2>5 DEF DurabilityInv
<1>3. QED BY <1>1, <1>2

LEMMA StepDurable == DurabilityInv /\ [Next]_vars => DurabilityInv'
<1>1. SUFFICES ASSUME DurabilityInv, [Next]_vars PROVE DurabilityInv'
  OBVIOUS
<1>2. CASE Loop \/ AfterOne \/ Wake \/ Expire
  BY <1>1, <1>2, UnaskedDurable
<1>3. CASE HandleRead \/ HandleStop
  BY <1>1, <1>3, ReadAndStopDurable
<1>4. CASE StopEnded \/ StopOk \/ StopFails \/ Crash
  BY <1>1, <1>4, ExitsDurable
<1>5. CASE \E id \in Ids : HandleRepeated(id) \/ AnswerFromLog(id)
  BY <1>1, <1>5, AnsweredDurable
<1>6. CASE \E id \in Ids : HandleCommand(id)
  BY <1>1, <1>6, CommandDurable
<1>7. CASE Ask \/ RequestStop \/ \E id \in Ids : Submit(id)
  BY <1>1, <1>7, AskedDurable
<1>8. CASE CommitOk \/ CommitFails
  BY <1>1, <1>8, CommitDurable, FailureDurable
<1>9. CASE Recover \/ RecoveryFails
  BY <1>1, <1>9, RecoveryDurable
<1>10. CASE UNCHANGED vars
  <2>1. UNCHANGED <<pc, mem, txn, queue, history, row, logged, content, told, shown>>
    BY <1>10 DEF vars, actorVars, diskVars, clientVars
  <2>2. QED BY <1>1, <2>1 DEF DurabilityInv, SeqInv, ContentInv, MailInv, LogInv, Up
<1>11. QED BY <1>1, <1>2, <1>3, <1>4, <1>5, <1>6, <1>7, <1>8, <1>9, <1>10 DEF Next, Run

-----------------------------------------------------------------------------
(* The inductive invariant of ReplaySessionActor's durability: sequence    *)
(* numbers, mailbox, command history and command log.                      *)
THEOREM DurabilityInvariance == Spec => []DurabilityInv
<1>1. QED BY InitDurable, StepDurable, PTL DEF Spec

(* An answer given to a client is what the command log holds, and a        *)
(* published sequence number is never ahead of the session row: through    *)
(* retries, failed transactions, shutdowns and crashes at any moment.      *)
THEOREM AnswersAreDurable == Spec => []ToldIsDurable
<1>1. DurabilityInv => ToldIsDurable
  BY DEF DurabilityInv, SeqInv, LogInv, ToldIsDurable
<1>2. QED BY <1>1, DurabilityInvariance, PTL

-----------------------------------------------------------------------------
(* Who waits is in the mailbox or in the open transaction.                 *)

Places(q, id) == {i \in DOMAIN q : q[i] = id}

WaitInv ==
  /\ asks \in [Ids -> Nat]
  /\ NobodyIsForgotten
  /\ pc # "commit" => txn.id = NoId

(* How the mailbox counts: a request is added at its end and taken at its  *)
(* head.                                                                   *)
LEMMA PlacesCounted ==
  ASSUME NEW S, NEW q \in Seq(S), NEW id
  PROVE  IsFiniteSet(Places(q, id)) /\ Cardinality(Places(q, id)) \in Nat
<1>1. IsFiniteSet(1..Len(q)) /\ Places(q, id) \in SUBSET (1..Len(q))
  BY FS_Interval DEF Places
<1>2. IsFiniteSet(Places(q, id))
  BY <1>1, FS_Subset
<1>3. QED BY <1>2, FS_CardinalityType

LEMMA AppendCounts ==
  ASSUME NEW S, NEW q \in Seq(S), NEW r \in S, NEW id
  PROVE  Cardinality(Places(Append(q, r), id))
           = Cardinality(Places(q, id)) + IF r = id THEN 1 ELSE 0
<1>1. IsFiniteSet(Places(q, id)) /\ Cardinality(Places(q, id)) \in Nat
  BY PlacesCounted
<1>2. Len(q) + 1 \notin Places(q, id)
  BY DEF Places
<1>3. CASE r = id
  <2>1. Places(Append(q, r), id) = Places(q, id) \cup {Len(q) + 1}
    BY <1>3 DEF Places
  <2>2. QED BY <1>1, <1>2, <1>3, <2>1, FS_AddElement
<1>4. CASE r # id
  <2>1. Places(Append(q, r), id) = Places(q, id)
    BY <1>4 DEF Places
  <2>2. QED BY <1>1, <1>4, <2>1
<1>5. QED BY <1>3, <1>4

LEMMA TailCounts ==
  ASSUME NEW S, NEW q \in Seq(S), q # <<>>, NEW id
  PROVE  Cardinality(Places(q, id))
           = Cardinality(Places(Tail(q), id)) + IF Head(q) = id THEN 1 ELSE 0
<1> DEFINE later == Places(q, id) \ {1}
           shifted == Places(Tail(q), id)
           Back == [i \in later |-> i - 1]
<1>1. IsFiniteSet(Places(q, id)) /\ Cardinality(Places(q, id)) \in Nat
  BY PlacesCounted
<1>2. IsFiniteSet(later)
      /\ Cardinality(later) = IF 1 \in Places(q, id) THEN Cardinality(Places(q, id)) - 1
                              ELSE Cardinality(Places(q, id))
  BY <1>1, FS_RemoveElement
<1>3. 1 \in Places(q, id) <=> Head(q) = id
  BY DEF Places
<1>4. Cardinality(shifted) = Cardinality(later)
  <2>1. \A i \in later : i \in 2..Len(q) /\ q[i] = id
    BY DEF Places
  <2>2. Len(Tail(q)) = Len(q) - 1 /\ DOMAIN Tail(q) = 1..(Len(q) - 1) /\ Len(q) \in Nat
    OBVIOUS
  <2>3. \A i \in 1..(Len(q) - 1) : Tail(q)[i] = q[i + 1]
    OBVIOUS
  <2>4. \A i \in later : i - 1 \in shifted
    BY <2>1, <2>2, <2>3 DEF Places
  <2>5. \A j \in shifted : j + 1 \in later /\ (j + 1) - 1 = j
    BY <2>2, <2>3 DEF Places
  <2>6. \A i, j \in later : i - 1 = j - 1 => i = j
    BY <2>1
  <2> HIDE DEF later, shifted
  <2>7. Back \in Bijection(later, shifted)
    <3>1. Back \in [later -> shifted] BY <2>4
    <3>2. \A i, j \in later : Back[i] = Back[j] => i = j BY <2>6
    <3>3. \A j \in shifted : Back[j + 1] = j /\ j + 1 \in later BY <2>5
    <3>4. Back \in Injection(later, shifted) BY <3>1, <3>2 DEF Injection, IsInjective
    <3>5. Back \in Surjection(later, shifted) BY <3>1, <3>3 DEF Surjection
    <3>6. QED BY <3>4, <3>5 DEF Bijection
  <2>8. ExistsBijection(later, shifted) BY <2>7 DEF ExistsBijection
  <2>9. QED BY <1>2, <2>8, FS_Bijection
<1>5. QED BY <1>1, <1>2, <1>3, <1>4

\* Nothing changes for those who wait.
LEMMA WaitKept ==
  ASSUME WaitInv, queue' = queue, asks' = asks, txn'.id = txn.id,
         pc' # "commit" => txn.id = NoId
  PROVE  WaitInv'
BY DEF WaitInv, NobodyIsForgotten

\* The actor takes a request that is no command.
LEMMA OtherTaken ==
  ASSUME WaitInv, DurabilityInv, queue # <<>>, Head(queue) \notin Ids, queue' = Tail(queue), asks' = asks,
         txn'.id = txn.id, pc' # "commit" => txn.id = NoId
  PROVE  WaitInv'
<1>1. queue \in Seq({Read, Stop} \cup Ids)
  BY DEF DurabilityInv, MailInv
<1>2. \A id \in Ids : Cardinality(Places(queue', id)) = Cardinality(Places(queue, id))
  <2>1. TAKE id \in Ids
  <2>2. Cardinality(Places(queue, id)) = Cardinality(Places(Tail(queue), id)) + 0
    BY <1>1, TailCounts
  <2>3. Tail(queue) \in Seq({Read, Stop} \cup Ids)
    BY <1>1
  <2>5. Cardinality(Places(Tail(queue), id)) \in Nat
    BY <2>3, PlacesCounted
  <2>4. QED BY <2>2, <2>5
<1>3. QED BY <1>2 DEF WaitInv, NobodyIsForgotten, Places

LEMMA InitWaits == Init => WaitInv
<1>1. SUFFICES ASSUME Init PROVE WaitInv
  OBVIOUS
<1>2. txn.id = NoId /\ queue = <<>> /\ asks = [id \in Ids |-> 0]
  BY <1>1 DEF Init, NoTxn
<1>3. \A id \in Ids : Cardinality(Places(queue, id)) = 0 /\ txn.id # id
  <2>1. \A id : Places(queue, id) = {} BY <1>2 DEF Places
  <2>2. QED BY <1>2, <2>1, FS_EmptySet, IdsApart
<1>4. QED BY <1>2, <1>3 DEF WaitInv, NobodyIsForgotten, Places

\* Nobody waits when the task ends.
LEMMA ExitWaits ==
  ASSUME Exit
  PROVE  WaitInv'
<1>1. txn'.id = NoId /\ queue' = <<>> /\ asks' = [id \in Ids |-> 0]
  BY DEF Exit, NoTxn, FailPending
<1>2. \A id \in Ids : Cardinality(Places(queue', id)) = 0 /\ txn'.id # id
  <2>1. \A id : Places(queue', id) = {} BY <1>1 DEF Places
  <2>2. QED BY <1>1, <2>1, FS_EmptySet, IdsApart
<1>3. QED BY <1>1, <1>2 DEF WaitInv, NobodyIsForgotten, Places

LEMMA PlayWaits ==
  ASSUME WaitInv, pc # "commit", NEW next, Play(next), Idle
  PROVE  WaitInv'
<1>1. txn'.id = NoId \/ txn' = txn
  BY DEF Play, PlayEvent, Begin
<1>2. txn.id = NoId /\ queue' = queue /\ asks' = asks
  BY DEF WaitInv, Idle, clientVars
<1>3. QED BY <1>1, <1>2, WaitKept

LEMMA UnaskedWaits ==
  ASSUME WaitInv, Loop \/ AfterOne \/ Wake \/ Expire
  PROVE  WaitInv'
<1>1. pc # "commit" /\ txn.id = NoId
  BY DEF Loop, AfterOne, Wake, Expire, WaitInv
<1>2. CASE (Loop /\ Play("waiting")) \/ (AfterOne /\ Play("loop"))
  BY <1>1, <1>2, PlayWaits DEF Loop, AfterOne
<1>3. CASE txn' = txn /\ Idle
  BY <1>1, <1>3, WaitKept DEF Idle, clientVars
<1>4. CASE Expire
  <2>1. txn'.id = NoId BY <1>4 DEF Expire, Begin
  <2>2. queue' = queue /\ asks' = asks BY <1>4 DEF Expire, clientVars
  <2>3. QED BY <1>1, <2>1, <2>2, WaitKept
<1>5. QED BY <1>2, <1>3, <1>4 DEF Loop, AfterOne, Wake

LEMMA AskedWaits ==
  ASSUME WaitInv, DurabilityInv, Ask \/ RequestStop \/ \E id \in Ids : Submit(id)
  PROVE  WaitInv'
<1>1. queue \in Seq({Read, Stop} \cup Ids)
  BY DEF DurabilityInv, MailInv
<1>2. PICK r \in {Read, Stop} \cup Ids :
        /\ queue' = Append(queue, r)
        /\ asks' = IF r \in Ids THEN [asks EXCEPT ![r] = @ + 1] ELSE asks
  BY IdsApart DEF Ask, RequestStop, Submit, clientVars
<1>3. txn' = txn /\ pc' = pc
  BY DEF Ask, RequestStop, Submit, UntouchedActor
<1>4. \A id \in Ids : Cardinality(Places(queue', id))
                        = Cardinality(Places(queue, id)) + IF r = id THEN 1 ELSE 0
  BY <1>1, <1>2, AppendCounts
<1>5. \A id \in Ids : Cardinality(Places(queue, id)) \in Nat
  BY <1>1, PlacesCounted
<1>6. asks \in [Ids -> Nat] /\ asks' \in [Ids -> Nat]
  BY <1>2 DEF WaitInv
<1>7. \A id \in Ids : asks'[id] = asks[id] + IF r = id THEN 1 ELSE 0
  BY <1>2, <1>6
<1>8. \A id \in Ids : asks[id] = Cardinality(Places(queue, id)) + IF txn.id = id THEN 1 ELSE 0
  BY DEF WaitInv, NobodyIsForgotten, Places
<1>9. \A id \in Ids : asks'[id] = Cardinality(Places(queue', id)) + IF txn'.id = id THEN 1 ELSE 0
  <2>1. TAKE id \in Ids
  <2>2. CASE txn.id = id BY <1>3, <1>4, <1>5, <1>7, <1>8, <2>2
  <2>3. CASE txn.id # id BY <1>3, <1>4, <1>5, <1>7, <1>8, <2>3
  <2>4. QED BY <2>2, <2>3
<1>10. QED BY <1>3, <1>6, <1>9 DEF WaitInv, NobodyIsForgotten, Places

LEMMA ReadAndStopWaits ==
  ASSUME WaitInv, DurabilityInv, HandleRead \/ HandleStop
  PROVE  WaitInv'
<1>1. /\ pc # "commit" /\ queue # <<>> /\ Head(queue) \notin Ids
      /\ queue' = Tail(queue) /\ asks' = asks
  BY IdsApart DEF HandleRead, HandleStop, Takes, Offered, clientVars
<1>2. txn.id = NoId BY <1>1 DEF WaitInv
<1>3. txn'.id = NoId
  <2>1. CASE HandleRead BY <1>2, <2>1 DEF HandleRead
  <2>2. CASE HandleStop BY <2>2 DEF HandleStop, Begin
  <2>3. QED BY <2>1, <2>2
<1>4. QED BY <1>1, <1>2, <1>3, OtherTaken

\* A command leaves the mailbox for its answer or for the transaction.
LEMMA CommandWaits ==
  ASSUME WaitInv, DurabilityInv, NEW id \in Ids, HandleRepeated(id) \/ HandleCommand(id)
  PROVE  WaitInv'
<1>1. /\ pc # "commit" /\ queue # <<>> /\ Head(queue) = id /\ queue' = Tail(queue)
      /\ queue \in Seq({Read, Stop} \cup Ids)
  BY DEF HandleRepeated, HandleCommand, Takes, Offered, DurabilityInv, MailInv
<1>2. /\ txn.id = NoId /\ asks \in [Ids -> Nat]
      /\ \A k \in Ids : asks[k] = Cardinality(Places(queue, k)) + 0
  BY <1>1, IdsApart DEF WaitInv, NobodyIsForgotten, Places
<1>3. \A k \in Ids : /\ Cardinality(Places(queue', k)) \in Nat
                     /\ Cardinality(Places(queue, k))
                          = Cardinality(Places(queue', k)) + IF id = k THEN 1 ELSE 0
  <2>1. queue' \in Seq({Read, Stop} \cup Ids)
    BY <1>1
  <2>2. \A k \in Ids : Cardinality(Places(queue', k)) \in Nat
    BY <2>1, PlacesCounted
  <2>3. \A k \in Ids : Cardinality(Places(queue, k))
                        = Cardinality(Places(queue', k)) + IF id = k THEN 1 ELSE 0
    BY <1>1, TailCounts
  <2>4. QED BY <2>2, <2>3
<1>4. \/ asks' = [asks EXCEPT ![id] = @ - 1] /\ txn' = txn
      \/ asks' = asks /\ txn'.id = id /\ pc' = "commit"
  BY DEF HandleRepeated, HandleCommand, Begin
<1>5. CASE asks' = [asks EXCEPT ![id] = @ - 1] /\ txn' = txn
  <2>1. \A k \in Ids : asks'[k] = Cardinality(Places(queue', k)) + 0
    <3>1. TAKE k \in Ids
    <3>2. CASE k = id BY <1>2, <1>3, <1>5, <3>2
    <3>3. CASE k # id BY <1>2, <1>3, <1>5, <3>3
    <3>4. QED BY <3>2, <3>3
  <2>2. asks' \in [Ids -> Nat]
    <3>1. asks' = [k \in Ids |-> asks'[k]] BY <1>2, <1>5
    <3>2. \A k \in Ids : asks'[k] \in Nat BY <1>3, <2>1
    <3>3. QED BY <3>1, <3>2
  <2>3. QED BY <1>2, <1>5, <2>1, <2>2, IdsApart DEF WaitInv, NobodyIsForgotten, Places
<1>6. CASE asks' = asks /\ txn'.id = id /\ pc' = "commit"
  <2>1. \A k \in Ids : asks'[k] = Cardinality(Places(queue', k)) + IF txn'.id = k THEN 1 ELSE 0
    <3>1. TAKE k \in Ids
    <3>2. CASE k = id BY <1>2, <1>3, <1>6, <3>2
    <3>3. CASE k # id BY <1>2, <1>3, <1>6, <3>3
    <3>4. QED BY <3>2, <3>3
  <2>2. QED BY <1>2, <1>6, <2>1 DEF WaitInv, NobodyIsForgotten, Places
<1>7. QED BY <1>4, <1>5, <1>6

\* The end of a transaction answers its command.
LEMMA EndWaits ==
  ASSUME WaitInv, DurabilityInv, CommitOk \/ CommitFails
  PROVE  WaitInv'
<1>1. /\ pc = "commit" /\ txn'.id = NoId /\ queue' = queue
      /\ asks' = IF txn.id = NoId THEN asks ELSE [asks EXCEPT ![txn.id] = @ - 1]
      /\ txn.id # NoId => txn.id \in Ids
      /\ queue \in Seq({Read, Stop} \cup Ids)
  BY DEF CommitOk, CommitFails, Replied, NoTxn, DurabilityInv, MailInv
<1>2. /\ asks \in [Ids -> Nat]
      /\ \A k \in Ids : asks[k] = Cardinality(Places(queue, k)) + IF txn.id = k THEN 1 ELSE 0
  BY DEF WaitInv, NobodyIsForgotten, Places
<1>3. \A k \in Ids : Cardinality(Places(queue, k)) \in Nat
  BY <1>1, PlacesCounted
<1>4. \A k \in Ids : asks'[k] = Cardinality(Places(queue, k)) + 0
  <2>1. TAKE k \in Ids
  <2>2. CASE txn.id = k BY <1>1, <1>2, <1>3, <2>2, IdsApart
  <2>3. CASE txn.id # k BY <1>1, <1>2, <1>3, <2>3
  <2>4. QED BY <2>2, <2>3
<1>5. asks' \in [Ids -> Nat]
  <2>1. asks' = [k \in Ids |-> asks'[k]] BY <1>1, <1>2
  <2>2. \A k \in Ids : asks'[k] \in Nat BY <1>3, <1>4
  <2>3. QED BY <2>1, <2>2
<1>6. QED BY <1>1, <1>4, <1>5, IdsApart DEF WaitInv, NobodyIsForgotten, Places

LEMMA StepWaits == WaitInv /\ DurabilityInv /\ [Next]_vars => WaitInv'
<1>1. SUFFICES ASSUME WaitInv, DurabilityInv, [Next]_vars PROVE WaitInv'
  OBVIOUS
<1>2. CASE Loop \/ AfterOne \/ Wake \/ Expire
  BY <1>1, <1>2, UnaskedWaits
<1>3. CASE HandleRead \/ HandleStop
  BY <1>1, <1>3, ReadAndStopWaits
<1>4. CASE StopEnded \/ StopOk \/ StopFails \/ Crash
  BY <1>4, ExitWaits DEF StopEnded, StopOk, StopFails, Crash
<1>5. CASE \E id \in Ids : HandleRepeated(id) \/ HandleCommand(id)
  BY <1>1, <1>5, CommandWaits
<1>6. CASE Ask \/ RequestStop \/ \E id \in Ids : Submit(id)
  BY <1>1, <1>6, AskedWaits
<1>7. CASE CommitOk \/ CommitFails
  BY <1>1, <1>7, EndWaits
<1>8. CASE (\E id \in Ids : AnswerFromLog(id)) \/ Recover \/ RecoveryFails \/ UNCHANGED vars
  <2>1. queue' = queue /\ asks' = asks /\ txn' = txn /\ (pc' = pc \/ pc = "down")
    BY <1>8 DEF AnswerFromLog, UntouchedActor, Recover, RecoveryFails, actorVars, clientVars, vars
  <2>2. QED BY <1>1, <2>1, WaitKept DEF WaitInv
<1>9. QED BY <1>1, <1>2, <1>3, <1>4, <1>5, <1>6, <1>7, <1>8 DEF Next, Run

(* Whoever waits for a command has a request in the mailbox or in the open *)
(* transaction: stops, crashes, failures and retries leave nobody waiting  *)
(* for an answer that no step of the actor will give.                      *)
THEOREM WaitersAreServed == Spec => []NobodyIsForgotten
<1>1. WaitInv => NobodyIsForgotten
  BY DEF WaitInv
<1>2. QED BY <1>1, InitWaits, StepWaits, DurabilityInvariance, PTL DEF Spec

-----------------------------------------------------------------------------
(* Memory, row and log: why a recovery finds the session again.            *)

Point(m) == [off |-> m.off, hash |-> Hash(m)]

Hashes == [src : 0..Events, vt : Times, pos : Nat, orders : SUBSET [src : 0..Events, vt : Times]]

\* Where the log stands before its entry i.
Before(i) == IF i = 1 THEN Point(newest) ELSE [off |-> tail[i - 1].off, hash |-> tail[i - 1].hash]

\* An entry of the log follows from the one before: it is an event that did not
\* end the session, or a rejected command, which records the clock it read.
Follows(before, record) ==
  /\ record.hash.pos = before.hash.pos /\ record.hash.orders = before.hash.orders
  /\ \/ /\ record.kind = "source" /\ record.off = before.off
        /\ record.hash.src = before.hash.src + 1 /\ record.hash.src < Events
        /\ record.hash.vt = Time(record.hash.src)
     \/ /\ record.kind = "rejected" /\ record.off = before.off + 1
        /\ record.hash.src = before.hash.src

\* The row is where the log ends, and stands at or before the next event.
DiskInv ==
  /\ newest \in Session /\ NoLookAhead(newest)
  /\ row \in [state : {"PAUSED", "PLAYING", "ENDED"}, rev : Nat, seq : Nat, off : Nat,
              hash : Hashes, degraded : BOOLEAN]
  /\ tail \in Seq([kind : {"source", "rejected"}, off : Nat, hash : Hashes])
  /\ \A i \in DOMAIN tail : Follows(Before(i), tail[i])
  /\ [off |-> row.off, hash |-> row.hash] = Before(Len(tail) + 1)
  /\ row.state = "ENDED" <=> newest.state = "ENDED"
  /\ NoLookAhead([src |-> row.hash.src, vt |-> row.hash.vt, state |-> row.state])

\* The agreement of MemoryIsRow, for any state of the session.
Agrees(m) ==
  /\ [rev |-> m.rev, seq |-> m.seq, off |-> m.off]
       = [rev |-> row.rev, seq |-> row.seq, off |-> row.off]
  /\ m.vt >= row.hash.vt
  /\ Hash(At(m, row.hash.vt)) = row.hash
  /\ m.notes = newest.notes /\ m.speed = newest.speed
  /\ m.state = row.state \/ (m.state = "PAUSED" /\ row.state = "PLAYING")

MemInv == mem \in Session /\ NoLookAhead(mem) /\ (Up => Agrees(Settled))

\* What the transaction will make durable, compared with what is.
TxnInv ==
  pc = "commit" =>
    /\ NoLookAhead(txn.base)
    /\ txn.kind \in {"source", "rejected"} \/ txn.checkpoint
    /\ txn.kind = "source" =>
         /\ txn.base.state = "PLAYING" /\ mem = Emitted(Consumed(txn.base, txn.base.src + 1))
         /\ mem.state = "ENDED" => txn.checkpoint
    /\ txn.kind = "rejected" => mem = Rejected(txn.base)

ControlInv ==
  /\ pc \in {"loop", "after", "waiting", "commit", "down"}
  /\ txn.base \in Session /\ txn.checkpoint \in BOOLEAN
  /\ closing \in BOOLEAN /\ degraded \in BOOLEAN

\* What a command asks, once it was read.
MeaningInv ==
  \A id \in Ids : content[id].type \in Types => content[id].client \in Clients /\ content[id].arg \in Nat

CoreInv == DiskInv /\ MemInv /\ TxnInv /\ ControlInv
PersistInv == CoreInv /\ MeaningInv

-----------------------------------------------------------------------------
(* The replay of the log, a recursive function, exists and unfolds.        *)

Replays(f, base, records, n) ==
  f = [i \in 0..n |-> IF i = 0 THEN base ELSE ReplayRecord(f[i - 1], records[i])]

LEMMA ReplayExists ==
  ASSUME NEW base, NEW records, NEW n \in Nat
  PROVE  \E f : Replays(f, base, records, n)
<1> DEFINE Part(k, f) == Replays(f, base, records, k)
           T == {k \in Nat : ~ \E f : Part(k, f)}
<1>1. SUFFICES ASSUME T # {} PROVE FALSE
  OBVIOUS
<1>2. PICK k \in T : \A j \in T : k <= j
  <2>1. T \in SUBSET Nat OBVIOUS
  <2> HIDE DEF T
  <2>2. QED BY <1>1, <2>1, MinExists
<1>3. k \in Nat /\ ~ \E f : Part(k, f)
  OBVIOUS
<1>4. CASE k = 0
  <2> DEFINE f == [i \in 0..0 |-> base]
  <2>1. Part(0, f)
    <3>1. \A i \in 0..0 : i = 0 OBVIOUS
    <3>2. QED BY <3>1 DEF Replays
  <2>2. QED BY <1>3, <1>4, <2>1
<1>5. CASE k # 0
  <2>1. k - 1 \in Nat /\ k - 1 \notin T
    <3> HIDE DEF T
    <3>1. \A j \in T : k <= j BY <1>2
    <3>2. QED BY <1>3, <1>5, <3>1
  <2>2. PICK f : Part(k - 1, f)
    BY <2>1
  <2> DEFINE g == [i \in 0..k |-> IF i = k THEN ReplayRecord(f[k - 1], records[k]) ELSE f[i]]
  <2>3. \A i \in 0..(k - 1) : g[i] = f[i] /\ i \in 0..k
    BY <1>3
  <2>4. g[k] = ReplayRecord(f[k - 1], records[k]) /\ k \in 0..k
    BY <1>3
  <2>5. \A i \in 0..k : i = k \/ i \in 0..(k - 1)
    BY <1>3
  <2>6. \A i \in 0..k : i # 0 => i - 1 \in 0..(k - 1)
    BY <1>3
  <2>7. \A i \in 0..(k - 1) : f[i] = IF i = 0 THEN base ELSE ReplayRecord(f[i - 1], records[i])
    BY <2>2 DEF Replays
  <2>8. DOMAIN g = 0..k /\ g = [i \in 0..k |-> g[i]]
    OBVIOUS
  <2> HIDE DEF g
  <2>9. \A i \in 0..k : g[i] = IF i = 0 THEN base ELSE ReplayRecord(g[i - 1], records[i])
    <3>1. TAKE i \in 0..k
    <3>2. CASE i = k
      BY <1>5, <2>3, <2>4, <2>6, <3>2
    <3>3. CASE i # k
      BY <2>3, <2>5, <2>6, <2>7, <3>3
    <3>4. QED BY <3>2, <3>3
  <2>10. Part(k, g)
    BY <2>8, <2>9 DEF Replays
  <2>11. QED BY <1>3, <2>10
<1>6. QED BY <1>4, <1>5

LEMMA ReplayUnfolds ==
  ASSUME Len(tail) \in Nat
  PROVE  /\ Replayed[0] = newest
         /\ \A i \in 1..Len(tail) : Replayed[i] = ReplayRecord(Replayed[i - 1], tail[i])
<1>1. \E f : Replays(f, newest, tail, Len(tail))
  BY ReplayExists
<1>2. Replayed = [i \in 0..Len(tail) |-> IF i = 0 THEN newest ELSE ReplayRecord(Replayed[i - 1], tail[i])]
  BY <1>1 DEF Replayed, Replays
<1>3. \A i \in 0..Len(tail) : Replayed[i] = IF i = 0 THEN newest ELSE ReplayRecord(Replayed[i - 1], tail[i])
  BY <1>2
<1>4. 0 \in 0..Len(tail) /\ \A i \in 1..Len(tail) : i \in 0..Len(tail) /\ i # 0
  OBVIOUS
<1>5. QED BY <1>3, <1>4

-----------------------------------------------------------------------------
(* The operations on a session keep its type and never look ahead.         *)

Sound(m) == m \in Session /\ NoLookAhead(m)

LEMMA EventsCounted == Events \in Nat /\ Events > 0
BY ReplayAssumption DEF ReplayAssumption

LEMMA FreshSound ==
  ASSUME NEW s \in {"PAUSED", "PLAYING"}
  PROVE  /\ Fresh \in Session
         /\ Sound([Fresh EXCEPT !.ctl = Owner, !.state = s])
         /\ Sound(Checkpoint([Fresh EXCEPT !.ctl = Owner, !.state = s]))
<1>1. Fresh \in Session
  BY EventsCounted DEF Fresh, Session, Times, Terminal, Speeds
<1> DEFINE m == [Fresh EXCEPT !.ctl = Owner, !.state = s]
<1>2. m \in Session /\ m.src = 0 /\ m.vt = 0
  BY <1>1, ReplayAssumption DEF ReplayAssumption, Session, Fresh
<1> HIDE DEF m
<1>3. Checkpoint(m) \in Session /\ Checkpoint(m).src = 0 /\ Checkpoint(m).vt = 0
  BY <1>2 DEF Checkpoint, Session
<1>4. 0 < Events /\ 0 <= Time(0 + 1) /\ ~(0 > 0)
  BY EventsCounted DEF Time
<1>5. Sound(m) /\ Sound(Checkpoint(m))
  BY <1>2, <1>3, <1>4 DEF Sound, NoLookAhead
<1>6. QED BY <1>1, <1>5 DEF m

\* What the clock may have made of a session.
Shifts(m) == {m} \cup {At(m, vt) : vt \in Materialised(m)}

LEMMA ShiftSound ==
  ASSUME NEW m, Sound(m), NEW base \in Shifts(m)
  PROVE  /\ Sound(base) /\ base.vt >= m.vt /\ base = [m EXCEPT !.vt = base.vt]
         /\ base.state = m.state
<1>1. m \in Session /\ m.vt \in Times /\ m.src \in 0..Events /\ m.vt \in Nat /\ m.src \in Nat
  BY EventsCounted DEF Sound, Session, Times, Terminal
<1>2. CASE base = m
  BY <1>1, <1>2 DEF Sound, Session
<1>3. CASE base # m
  <2>1. PICK vt \in Materialised(m) : base = At(m, vt)
    BY <1>3 DEF Shifts
  <2>2. /\ vt \in Times /\ vt >= m.vt /\ (m.src > 0 => Time(m.src) <= vt)
        /\ m.state # "ENDED" => m.src < Events /\ vt <= Time(m.src + 1)
    <3>1. CASE m.state = "PLAYING" /\ m.speed = "finite"
      <4>1. m.src < Events /\ m.vt <= Time(m.src + 1) /\ (m.src > 0 => Time(m.src) <= m.vt)
        BY <3>1 DEF Sound, NoLookAhead
      <4>2. vt \in m.vt..Time(m.src + 1)
        BY <3>1, <4>1 DEF Materialised, Boundary
      <4>3. QED BY <1>1, <4>1, <4>2, EventsCounted DEF Time, Times, Terminal
    <3>2. CASE ~(m.state = "PLAYING" /\ m.speed = "finite")
      <4>1. vt = m.vt BY <3>2 DEF Materialised
      <4>2. QED BY <1>1, <4>1 DEF Sound, NoLookAhead
    <3>3. QED BY <3>1, <3>2
  <2>3. base = [m EXCEPT !.vt = vt] /\ base.vt = vt /\ base \in Session
    BY <1>1, <2>1, <2>2 DEF At, Session
  <2>4. base.src = m.src /\ base.state = m.state
    BY <1>1, <2>3 DEF Session
  <2>5. NoLookAhead(base)
    BY <2>2, <2>3, <2>4 DEF NoLookAhead
  <2>6. QED BY <2>2, <2>3, <2>4, <2>5 DEF Sound
<1>4. QED BY <1>2, <1>3

LEMMA EndedSound ==
  ASSUME NEW m, Sound(m)
  PROVE  Sound(Ended(m)) /\ Ended(m).state = "ENDED"
BY DEF Sound, Session, NoLookAhead, Ended

LEMMA FrameSound ==
  ASSUME NEW m, Sound(m)
  PROVE  Sound(Emitted(m)) /\ Sound(Revised(m)) /\ Sound(Logged(m)) /\ Sound(Checkpoint(m))
<1>1. Sound(Emitted(m)) BY DEF Sound, Session, NoLookAhead, Emitted
<1> DEFINE r == [m EXCEPT !.rev = @ + 1]
<1>2. Sound(r) BY DEF Sound, Session, NoLookAhead
<1> HIDE DEF r
<1>3. Sound(Emitted(r)) BY <1>2 DEF Sound, Session, NoLookAhead, Emitted
<1>4. Sound(Revised(m)) BY <1>3 DEF Revised, r
<1>5. Sound(Logged(m)) BY DEF Sound, Session, NoLookAhead, Logged
<1>6. Sound(Checkpoint(m)) BY DEF Sound, Session, NoLookAhead, Checkpoint
<1>7. QED BY <1>1, <1>4, <1>5, <1>6

LEMMA ReleasedSound ==
  ASSUME NEW m, Sound(m)
  PROVE  Sound(Released(m))
BY DEF Sound, Session, NoLookAhead, Released

LEMMA ConsumedSound ==
  ASSUME NEW m, Sound(m), m.state # "ENDED", NEW src \in 0..Events
  PROVE  /\ Sound(Consumed(m, src))
         /\ src < Events => Consumed(m, src) = [m EXCEPT !.src = src, !.vt = Time(src)]
         /\ src = Events => Consumed(m, src).state = "ENDED"
<1>1. /\ Time(src) \in Times /\ Terminal \in Times /\ Time(Events) <= Terminal
      /\ Time(src) <= Time(src) /\ Time(src) <= Time(src + 1)
  BY EventsCounted DEF Time, Times, Terminal
<1>2. CASE src = Events
  <2> DEFINE last == [m EXCEPT !.src = src, !.vt = Terminal]
  <2>1. last \in Session /\ last.src = src /\ last.vt = Terminal
    BY <1>1 DEF Sound, Session
  <2> HIDE DEF last
  <2>2. Ended(last) \in Session /\ Ended(last).state = "ENDED"
        /\ Ended(last).src = src /\ Ended(last).vt = Terminal
    BY <2>1 DEF Session, Ended
  <2>3. Consumed(m, src) = Ended(last) BY <1>2 DEF Consumed, last
  <2>4. QED BY <1>1, <1>2, <2>2, <2>3, EventsCounted DEF Sound, NoLookAhead
<1>3. CASE src # Events
  <2>1. Consumed(m, src) = [m EXCEPT !.src = src, !.vt = Time(src)]
    BY <1>3 DEF Consumed
  <2> DEFINE next == [m EXCEPT !.src = src, !.vt = Time(src)]
  <2>2. next \in Session /\ next.src = src /\ next.vt = Time(src)
    BY <1>1 DEF Sound, Session
  <2>3. QED BY <1>1, <1>3, <2>1, <2>2, EventsCounted DEF Sound, NoLookAhead
<1>4. QED BY <1>2, <1>3, EventsCounted

LEMMA MovedSound ==
  ASSUME NEW m, Sound(m), m.state # "ENDED", NEW target \in Nat
  PROVE  Sound(Moved(m, target))
<1>1. Events \in 0..Events BY EventsCounted
<1>2. CASE LastBy(target) = Events
  BY <1>1, <1>2, ConsumedSound DEF Moved
<1>3. CASE LastBy(target) # Events
  <2> DEFINE q == target \div 2
  <2>1. q \in Nat /\ 2 * q <= target /\ target <= 2 * (q + 1)
    OBVIOUS
  <2>2. LastBy(target) = q /\ q < Events
    <3> HIDE DEF q
    <3>1. LastBy(target) = IF q <= Events THEN q ELSE Events BY DEF LastBy, q
    <3>2. QED BY <1>3, <2>1, <3>1, EventsCounted
  <2> HIDE DEF q
  <2>3. Moved(m, target) = [m EXCEPT !.src = q, !.vt = target]
    BY <1>3, <2>2 DEF Moved
  <2>4. target \in Times /\ q \in 0..Events /\ Time(q) <= target /\ target <= Time(q + 1)
    BY <2>1, <2>2, EventsCounted DEF Times, Terminal, Time
  <2>5. QED BY <2>2, <2>3, <2>4 DEF Sound, Session, NoLookAhead
<1>4. QED BY <1>2, <1>3

LEMMA EffectSound ==
  ASSUME NEW m, Sound(m), NEW c, c.type \in Types, c.client \in Clients, c.arg \in Nat,
         c.type \in {"PLAY", "STEP", "ADVANCE_BY", "SEEK_TO"} => m.state = "PAUSED",
         c.type = "PAUSE" => m.state = "PLAYING"
  PROVE  Sound(Effect(m, c))
<1>1. m \in Session /\ NoLookAhead(m) /\ m.src \in 0..Events /\ m.vt \in Nat
  BY EventsCounted DEF Sound, Session, Times, Terminal
<1>2. CASE c.type = "ACQUIRE_CONTROLLER"
  BY <1>1, <1>2 DEF Effect, Sound, Session, NoLookAhead
<1>3. CASE c.type = "RELEASE_CONTROLLER" BY <1>3, ReleasedSound DEF Effect
<1>4. CASE c.type = "PLAY" BY <1>1, <1>4 DEF Effect, Sound, Session, NoLookAhead
<1>5. CASE c.type = "PAUSE" BY <1>1, <1>5 DEF Effect, Sound, Session, NoLookAhead
<1>6. CASE c.type = "SET_SPEED" BY <1>1, <1>6 DEF Effect, Sound, Session, NoLookAhead, Speeds
<1>7. CASE c.type = "STEP"
  <2>1. m.src < Events /\ m.state # "ENDED" BY <1>1, <1>7 DEF NoLookAhead
  <2>2. m.src + 1 \in 0..Events BY <1>1, <2>1, EventsCounted
  <2>3. QED BY <1>7, <2>1, <2>2, ConsumedSound DEF Effect
<1>8. CASE c.type = "ADVANCE_BY"
  <2>1. m.vt + c.arg \in Nat /\ m.state # "ENDED" BY <1>1, <1>8
  <2>2. QED BY <1>8, <2>1, MovedSound DEF Effect
<1>9. CASE c.type = "SEEK_TO"
  <2>1. m.state # "ENDED" BY <1>9
  <2>2. QED BY <1>9, <2>1, MovedSound DEF Effect
<1>10. CASE c.type = "PLACE_ORDER"
  <2>1. /\ Effect(m, c) = [m EXCEPT !.pos = @ + 1, !.orders = @ \cup {[src |-> m.src, vt |-> m.vt]}]
        /\ [src |-> m.src, vt |-> m.vt] \in [src : 0..Events, vt : Times]
    BY <1>1, <1>10 DEF Effect, Session
  <2> DEFINE order == [src |-> m.src, vt |-> m.vt]
  <2>2. m.orders \cup {order} \in SUBSET [src : 0..Events, vt : Times] /\ m.pos + 1 \in Nat
    BY <1>1, <2>1 DEF Session
  <2> HIDE DEF order
  <2>3. Effect(m, c) = [m EXCEPT !.pos = m.pos + 1, !.orders = m.orders \cup {order}]
    BY <2>1 DEF order
  <2>4. Effect(m, c) \in Session BY <1>1, <2>2, <2>3 DEF Session
  <2>5. QED BY <1>1, <2>3, <2>4 DEF Sound, Session, NoLookAhead
<1>11. CASE c.type = "ADD_JOURNAL_NOTE"
  <2>1. Effect(m, c) = [m EXCEPT !.pos = m.pos + 1, !.notes = m.notes \cup {m.vt}]
    BY <1>11 DEF Effect
  <2>2. m.notes \cup {m.vt} \in SUBSET Times /\ m.pos + 1 \in Nat
    BY <1>1 DEF Session
  <2>3. Effect(m, c) \in Session BY <1>1, <2>1, <2>2 DEF Session
  <2>4. QED BY <1>1, <2>1, <2>3 DEF Sound, Session, NoLookAhead
<1>12. CASE c.type = "END_SESSION"
  <2>1. Sound([m EXCEPT !.pos = @ + 1]) BY <1>1 DEF Sound, Session, NoLookAhead
  <2>2. QED BY <1>12, <2>1, EndedSound DEF Effect
<1>13. QED BY <1>2, <1>3, <1>4, <1>5, <1>6, <1>7, <1>8, <1>9, <1>10, <1>11, <1>12 DEF Types

LEMMA HashTyped ==
  ASSUME NEW m \in Session
  PROVE  Hash(m) \in Hashes
BY DEF Hash, Hashes, Session

-----------------------------------------------------------------------------
(* The invariant holds at first.                                           *)

LEMMA InitPersists == Init => PersistInv
<1>1. SUFFICES ASSUME Init PROVE PersistInv
  OBVIOUS
<1>2. PICK s \in {"PAUSED", "PLAYING"} : mem = [Fresh EXCEPT !.ctl = Owner, !.state = s]
  BY <1>1 DEF Init
<1>3. /\ row = Row(mem) /\ newest = Checkpoint(mem) /\ tail = <<>> /\ pc = "loop" /\ txn = NoTxn
      /\ closing = FALSE /\ degraded = FALSE /\ content = [id \in Ids |-> NoCommand]
  BY <1>1 DEF Init
<1>4. Sound(mem) /\ Sound(newest) /\ Fresh \in Session
  BY <1>2, <1>3, FreshSound
<1>5. Hash(mem) \in Hashes
  BY <1>4, HashTyped DEF Sound
<1>6. /\ newest = [mem EXCEPT !.ctl = Nobody] /\ Hash(newest) = Hash(mem) /\ newest.off = mem.off
      /\ newest.notes = mem.notes /\ newest.speed = mem.speed /\ newest.state = mem.state
  BY <1>3, <1>4 DEF Checkpoint, Hash, Sound, Session
<1>7. row = [state |-> mem.state, rev |-> mem.rev, seq |-> mem.seq, off |-> mem.off, hash |-> Hash(mem),
             degraded |-> FALSE]
  BY <1>3 DEF Row
<1>8. DiskInv
  <2>1. row \in [state : {"PAUSED", "PLAYING", "ENDED"}, rev : Nat, seq : Nat, off : Nat,
                 hash : Hashes, degraded : BOOLEAN]
    BY <1>4, <1>5, <1>7 DEF Sound, Session
  <2>2. /\ tail \in Seq([kind : {"source", "rejected"}, off : Nat, hash : Hashes])
        /\ \A i \in DOMAIN tail : Follows(Before(i), tail[i])
    BY <1>3
  <2>3. [off |-> row.off, hash |-> row.hash] = Before(Len(tail) + 1)
    BY <1>3, <1>6, <1>7 DEF Before, Point
  <2>4. NoLookAhead([src |-> row.hash.src, vt |-> row.hash.vt, state |-> row.state])
    BY <1>4, <1>7 DEF Sound, NoLookAhead, Hash
  <2>5. row.state = "ENDED" <=> newest.state = "ENDED"
    BY <1>6, <1>7
  <2>6. QED BY <1>4, <2>1, <2>2, <2>3, <2>4, <2>5 DEF DiskInv, Sound
<1>9. MemInv
  <2>1. Settled = mem BY <1>3 DEF Settled
  <2>2. mem.vt \in Nat /\ row.hash.vt = mem.vt /\ At(mem, mem.vt) = mem
    BY <1>4, <1>7, EventsCounted DEF Sound, Session, Times, Terminal, Hash, At
  <2>3. mem.vt >= row.hash.vt BY <2>2
  <2>4. Agrees(mem) BY <1>6, <1>7, <2>2, <2>3 DEF Agrees
  <2>5. QED BY <1>4, <2>1, <2>4 DEF MemInv, Sound
<1>10. TxnInv /\ ControlInv
  BY <1>3, <1>4 DEF TxnInv, ControlInv, NoTxn
<1>11. MeaningInv
  BY <1>3 DEF MeaningInv, NoCommand, Types
<1>12. QED BY <1>8, <1>9, <1>10, <1>11 DEF PersistInv, CoreInv

-----------------------------------------------------------------------------
(* Steps by what they do to the session.                                   *)

LEMMA ShiftAgrees ==
  ASSUME DiskInv, NEW m, Sound(m), Agrees(m), NEW base \in Shifts(m)
  PROVE  Agrees(base)
<1>1. base.vt >= m.vt /\ base = [m EXCEPT !.vt = base.vt] /\ base \in Session /\ m \in Session
  BY ShiftSound DEF Sound
<1>2. base.vt \in Nat /\ m.vt \in Nat /\ row.hash.vt \in Nat
  BY <1>1, EventsCounted DEF Session, DiskInv, Hashes, Times, Terminal
<1>3. base.vt >= row.hash.vt
  BY <1>1, <1>2 DEF Agrees
<1>4. Hash(At(base, row.hash.vt)) = Hash(At(m, row.hash.vt))
  BY <1>1 DEF Hash, At, Session
<1>5. /\ base.rev = m.rev /\ base.seq = m.seq /\ base.off = m.off /\ base.notes = m.notes
      /\ base.speed = m.speed /\ base.state = m.state
  BY <1>1 DEF Session
<1>6. QED BY <1>3, <1>4, <1>5 DEF Agrees

\* The three tables stay as they are.
DiskSame == row' = row /\ newest' = newest /\ tail' = tail

LEMMA DiskKept ==
  ASSUME DiskInv, DiskSame
  PROVE  DiskInv'
BY DEF DiskInv, DiskSame, Before

LEMMA SettledSound ==
  ASSUME CoreInv, Up
  PROVE  Sound(Settled) /\ Agrees(Settled) /\ (pc # "commit" => Settled = mem)
<1>1. pc = "commit" => txn.base \in Session /\ NoLookAhead(txn.base)
  BY DEF CoreInv, TxnInv, ControlInv
<1>2. QED BY <1>1 DEF CoreInv, MemInv, Settled, Sound

\* No transaction is opened or closed; the clock may move.
LEMMA MoveKeeps ==
  ASSUME CoreInv, Up, pc # "commit", NEW base \in Shifts(mem), mem' = base, txn' = txn, DiskSame,
         closing' = closing, degraded' = degraded, pc' \in {"loop", "after", "waiting"}
  PROVE  CoreInv'
<1>1. Sound(mem) /\ Agrees(mem)
  BY SettledSound
<1>2. Sound(base) /\ Agrees(base)
  BY <1>1, ShiftSound, ShiftAgrees DEF CoreInv
<1>3. MemInv'
  <2>1. Settled' = base BY DEF Settled
  <2>2. Agrees(base)' BY <1>2 DEF Agrees, DiskSame
  <2>3. Agrees(Settled)' BY <2>1, <2>2 DEF Agrees
  <2>4. QED BY <1>2, <2>3 DEF MemInv, Sound
<1>4. DiskInv' BY DiskKept DEF CoreInv
<1>5. TxnInv' /\ ControlInv' BY DEF CoreInv, TxnInv, ControlInv
<1>6. QED BY <1>3, <1>4, <1>5 DEF CoreInv

\* A transaction is opened.
LEMMA BeginKeeps ==
  ASSUME CoreInv, Up, pc # "commit", NEW base \in Shifts(mem),
         NEW kind, NEW id, NEW candidate, NEW checkpoint \in BOOLEAN, NEW answer, NEW next,
         Begin(base, kind, id, candidate, checkpoint, answer, next),
         Sound(candidate), DiskSame, closing' = closing, degraded' = degraded,
         kind \in {"source", "rejected"} \/ checkpoint,
         kind = "source" => /\ base.state = "PLAYING" /\ candidate = Emitted(Consumed(base, base.src + 1))
                            /\ candidate.state = "ENDED" => checkpoint,
         kind = "rejected" => candidate = Rejected(base)
  PROVE  CoreInv'
<1>1. Sound(mem) /\ Agrees(mem)
  BY SettledSound
<1>2. Sound(base) /\ Agrees(base)
  BY <1>1, ShiftSound, ShiftAgrees DEF CoreInv
<1>3. /\ pc' = "commit" /\ mem' = candidate /\ txn'.base = base /\ txn'.kind = kind
      /\ txn'.checkpoint = checkpoint
  BY DEF Begin
<1>4. MemInv'
  <2>1. Settled' = base BY <1>3 DEF Settled
  <2>2. Agrees(base)' BY <1>2 DEF Agrees, DiskSame
  <2>3. Agrees(Settled)' BY <2>1, <2>2 DEF Agrees
  <2>4. QED BY <1>3, <2>3 DEF MemInv, Sound
<1>5. DiskInv' BY DiskKept DEF CoreInv
<1>6. TxnInv'
  BY <1>2, <1>3 DEF TxnInv, Sound
<1>7. ControlInv'
  BY <1>2, <1>3 DEF ControlInv, CoreInv, Sound
<1>8. QED BY <1>4, <1>5, <1>6, <1>7 DEF CoreInv

\* The session stands still.
LEMMA StillKeeps ==
  ASSUME CoreInv, mem' = mem, txn' = txn, pc' = pc, DiskSame, closing' \in BOOLEAN, degraded' = degraded
  PROVE  CoreInv'
<1>1. DiskInv' BY DiskKept DEF CoreInv
<1>2. MemInv' BY DEF CoreInv, MemInv, Agrees, Settled, Up, DiskSame
<1>3. TxnInv' /\ ControlInv' BY DEF CoreInv, TxnInv, ControlInv
<1>4. QED BY <1>1, <1>2, <1>3 DEF CoreInv

LEMMA ExitKeeps ==
  ASSUME CoreInv, DiskInv', Exit
  PROVE  CoreInv'
<1>1. pc' = "down" /\ mem' = newest' /\ txn' = NoTxn /\ closing' = FALSE /\ degraded' = FALSE
  BY DEF Exit
<1>2. MemInv' BY <1>1 DEF MemInv, DiskInv, Up
<1>3. Fresh \in Session BY FreshSound
<1>4. TxnInv' /\ ControlInv' BY <1>1, <1>3 DEF TxnInv, ControlInv, NoTxn
<1>5. QED BY <1>2, <1>4 DEF CoreInv

-----------------------------------------------------------------------------
(* The transaction.                                                        *)

Record(m) == [kind |-> txn.kind, off |-> m.off, hash |-> Hash(m)]

\* What Write does, for a command that is not in the log.
LEMMA WriteDoes ==
  ASSUME DurabilityInv, pc = "commit", Write
  PROVE  /\ row' = Row(mem)
         /\ newest' = IF txn.checkpoint THEN Checkpoint(mem) ELSE newest
         /\ tail' = IF txn.checkpoint THEN <<>> ELSE Append(tail, Record(mem))
BY DEF Write, DurabilityInv, MailInv, TailAfter, Record

LEMMA RowTyped ==
  ASSUME CoreInv, NEW m, Sound(m)
  PROVE  /\ Row(m) \in [state : {"PAUSED", "PLAYING", "ENDED"}, rev : Nat, seq : Nat, off : Nat,
                        hash : Hashes, degraded : BOOLEAN]
         /\ NoLookAhead([src |-> Row(m).hash.src, vt |-> Row(m).hash.vt, state |-> Row(m).state])
<1>1. Hash(m) \in Hashes
  BY HashTyped DEF Sound
<1>2. Row(m) \in [state : {"PAUSED", "PLAYING", "ENDED"}, rev : Nat, seq : Nat, off : Nat,
                  hash : Hashes, degraded : BOOLEAN]
  BY <1>1 DEF Row, CoreInv, ControlInv, Sound, Session
<1>3. NoLookAhead([src |-> Row(m).hash.src, vt |-> Row(m).hash.vt, state |-> Row(m).state])
  BY DEF Row, Hash, Sound, NoLookAhead
<1>4. QED BY <1>2, <1>3

\* The log grows by what follows from where it ends.
LEMMA LogGrows ==
  ASSUME CoreInv, NEW record \in [kind : {"source", "rejected"}, off : Nat, hash : Hashes],
         Follows([off |-> row.off, hash |-> row.hash], record),
         newest' = newest, tail' = Append(tail, record)
  PROVE  /\ tail' \in Seq([kind : {"source", "rejected"}, off : Nat, hash : Hashes])
         /\ \A i \in DOMAIN tail' : Follows(Before(i)', tail'[i])
         /\ Before(Len(tail) + 1)' = [off |-> record.off, hash |-> record.hash]
<1> DEFINE R == [kind : {"source", "rejected"}, off : Nat, hash : Hashes]
<1>1. /\ tail \in Seq(R) /\ \A i \in DOMAIN tail : Follows(Before(i), tail[i])
      /\ Before(Len(tail) + 1) = [off |-> row.off, hash |-> row.hash]
  BY DEF CoreInv, DiskInv
<1> HIDE DEF R
<1>2. /\ tail' \in Seq(R) /\ Len(tail) \in Nat /\ Len(tail') = Len(tail) + 1
      /\ DOMAIN tail' = 1..(Len(tail) + 1) /\ DOMAIN tail = 1..Len(tail)
      /\ \A i \in 1..Len(tail) : tail'[i] = tail[i]
      /\ tail'[Len(tail) + 1] = record
  <2>1. record \in R BY DEF R
  <2>2. QED BY <1>1, <2>1
<1>3. \A i \in 1..(Len(tail) + 1) : Before(i)' = Before(i)
  <2>1. TAKE i \in 1..(Len(tail) + 1)
  <2>2. CASE i = 1 BY <2>2 DEF Before
  <2>3. CASE i # 1
    <3>1. i - 1 \in 1..Len(tail) BY <1>2, <2>3
    <3>2. tail'[i - 1] = tail[i - 1] BY <1>2, <3>1
    <3>3. QED BY <2>3, <3>2 DEF Before
  <2>4. QED BY <2>2, <2>3
<1>4. \A i \in 1..(Len(tail) + 1) : Follows(Before(i), tail'[i])
  <2>1. TAKE i \in 1..(Len(tail) + 1)
  <2>2. CASE i = Len(tail) + 1 BY <1>1, <1>2, <2>2
  <2>3. CASE i # Len(tail) + 1
    <3>1. i \in 1..Len(tail) BY <1>2, <2>3
    <3>2. QED BY <1>1, <1>2, <3>1
  <2>4. QED BY <2>2, <2>3
<1>5. \A i \in DOMAIN tail' : Follows(Before(i)', tail'[i])
  BY <1>2, <1>3, <1>4
<1>6. Before(Len(tail) + 1)' = [off |-> record.off, hash |-> record.hash]
  <2>1. Len(tail') + 1 # 1 /\ (Len(tail') + 1) - 1 = Len(tail) + 1
    BY <1>2
  <2>2. QED BY <1>2, <2>1 DEF Before
<1>7. QED BY <1>2, <1>5, <1>6 DEF R

\* What follows: an event or a rejected command.
LEMMA BaseAtRow ==
  ASSUME CoreInv, pc = "commit"
  PROVE  /\ Sound(txn.base) /\ Sound(mem)
         /\ txn.base.off = row.off
         /\ txn.base.src = row.hash.src /\ txn.base.pos = row.hash.pos /\ txn.base.orders = row.hash.orders
         /\ txn.base.notes = newest.notes /\ txn.base.speed = newest.speed
         /\ txn.base.state = row.state \/ (txn.base.state = "PAUSED" /\ row.state = "PLAYING")
<1>1. Sound(txn.base) /\ Agrees(txn.base)
  BY SettledSound DEF Settled, Up
<1>2. Sound(mem) BY DEF CoreInv, MemInv, Sound
<1>3. row.hash \in Hashes BY DEF CoreInv, DiskInv
<1>4. row.hash = Hash(At(txn.base, row.hash.vt)) BY <1>1 DEF Agrees
<1>5. row.hash = [src |-> txn.base.src, vt |-> row.hash.vt, pos |-> txn.base.pos, orders |-> txn.base.orders]
  BY <1>1, <1>4 DEF Hash, At, Sound, Session
<1>6. txn.base.src = row.hash.src /\ txn.base.pos = row.hash.pos /\ txn.base.orders = row.hash.orders
  BY <1>5
<1>7. QED BY <1>1, <1>2, <1>6 DEF Agrees

LEMMA RecordFollows ==
  ASSUME CoreInv, pc = "commit", ~txn.checkpoint
  PROVE  /\ Record(mem) \in [kind : {"source", "rejected"}, off : Nat, hash : Hashes]
         /\ Follows([off |-> row.off, hash |-> row.hash], Record(mem))
         /\ mem.notes = newest.notes /\ mem.speed = newest.speed
         /\ mem.state = "ENDED" <=> newest.state = "ENDED"
<1>1. /\ Sound(txn.base) /\ Sound(mem) /\ txn.base.off = row.off
      /\ txn.base.src = row.hash.src /\ txn.base.pos = row.hash.pos /\ txn.base.orders = row.hash.orders
      /\ txn.base.notes = newest.notes /\ txn.base.speed = newest.speed
      /\ txn.base.state = row.state \/ (txn.base.state = "PAUSED" /\ row.state = "PLAYING")
  BY BaseAtRow
<1>2. /\ txn.kind \in {"source", "rejected"}
      /\ row.hash \in Hashes /\ (row.state = "ENDED" <=> newest.state = "ENDED")
  BY DEF CoreInv, TxnInv, DiskInv
<1>3. Record(mem) \in [kind : {"source", "rejected"}, off : Nat, hash : Hashes]
  <2>1. Hash(mem) \in Hashes BY <1>1, HashTyped DEF Sound
  <2>2. mem.off \in Nat BY <1>1 DEF Sound, Session
  <2>3. QED BY <1>2, <2>1, <2>2 DEF Record
<1>4. CASE txn.kind = "source"
  <2> DEFINE b == txn.base
             e == Consumed(b, b.src + 1)
  <2>1. /\ b.state = "PLAYING" /\ mem = Emitted(e) /\ mem.state # "ENDED"
    BY <1>4 DEF CoreInv, TxnInv
  <2>2. b \in Session /\ b.src < Events /\ b.src \in Nat /\ b.src + 1 \in 0..Events
    <3>1. b \in Session /\ b.src \in 0..Events BY <1>1 DEF Sound, Session
    <3>2. b.src < Events BY <1>1, <2>1 DEF Sound, NoLookAhead
    <3>3. QED BY <3>1, <3>2, EventsCounted
  <2> HIDE DEF b
  <2>3. /\ Sound(e) /\ (b.src + 1 < Events => e = [b EXCEPT !.src = b.src + 1, !.vt = Time(b.src + 1)])
        /\ (b.src + 1 = Events => e.state = "ENDED")
    <3>1. b.state # "ENDED" BY <2>1
    <3>2. Sound(b) BY <1>1 DEF b
    <3>3. QED BY <2>2, <3>1, <3>2, ConsumedSound
  <2> HIDE DEF e
  <2>4. mem = [e EXCEPT !.seq = e.seq + 1] /\ e \in Session
    BY <2>1, <2>3 DEF Emitted, Sound
  <2>5. mem.state = e.state /\ mem.off = e.off /\ mem.notes = e.notes /\ mem.speed = e.speed /\ Hash(mem) = Hash(e)
    BY <2>4 DEF Session, Hash
  <2>6. b.src + 1 < Events /\ e = [b EXCEPT !.src = b.src + 1, !.vt = Time(b.src + 1)]
    BY <2>1, <2>2, <2>3, <2>5, EventsCounted
  <2>7. /\ e.state = b.state /\ e.off = b.off /\ e.notes = b.notes /\ e.speed = b.speed
        /\ e.src = b.src + 1 /\ e.vt = Time(b.src + 1) /\ e.pos = b.pos /\ e.orders = b.orders
    BY <2>2, <2>6 DEF Session
  <2>8. /\ Hash(mem).src = row.hash.src + 1 /\ Hash(mem).vt = Time(Hash(mem).src)
        /\ Hash(mem).pos = row.hash.pos /\ Hash(mem).orders = row.hash.orders
    BY <1>1, <2>5, <2>7 DEF b, Hash
  <2>9. Hash(mem).src < Events
    BY <1>1, <2>6, <2>8 DEF b
  <2>10. Follows([off |-> row.off, hash |-> row.hash], Record(mem))
    BY <1>1, <1>4, <2>5, <2>7, <2>8, <2>9 DEF Follows, Record, b
  <2>11. mem.state # "ENDED" /\ newest.state # "ENDED"
    BY <1>1, <1>2, <2>1 DEF b
  <2>12. mem.notes = newest.notes /\ mem.speed = newest.speed
    BY <1>1, <2>5, <2>7 DEF b
  <2>13. QED BY <1>3, <2>10, <2>11, <2>12
<1>5. CASE txn.kind = "rejected"
  <2>1. mem = [txn.base EXCEPT !.off = txn.base.off + 1]
    BY <1>5 DEF CoreInv, TxnInv, Rejected, Logged
  <2>2. /\ mem.off = row.off + 1 /\ mem.state = txn.base.state
        /\ mem.notes = txn.base.notes /\ mem.speed = txn.base.speed /\ Hash(mem) = Hash(txn.base)
    BY <1>1, <2>1 DEF Sound, Session, Hash
  <2>3. /\ Hash(mem).src = row.hash.src /\ Hash(mem).pos = row.hash.pos
        /\ Hash(mem).orders = row.hash.orders
    BY <1>1, <2>2 DEF Hash
  <2>4. Follows([off |-> row.off, hash |-> row.hash], Record(mem))
    BY <1>5, <2>2, <2>3 DEF Follows, Record
  <2>5. mem.state = "ENDED" <=> newest.state = "ENDED"
    BY <1>1, <1>2, <2>2
  <2>6. QED BY <1>1, <1>3, <2>2, <2>4, <2>5
<1>6. QED BY <1>2, <1>4, <1>5

LEMMA WriteDisk ==
  ASSUME CoreInv, DurabilityInv, pc = "commit", Write
  PROVE  DiskInv' /\ (mem' = mem => Agrees(mem)')
<1>1. /\ row' = Row(mem)
      /\ newest' = IF txn.checkpoint THEN Checkpoint(mem) ELSE newest
      /\ tail' = IF txn.checkpoint THEN <<>> ELSE Append(tail, Record(mem))
  BY WriteDoes
<1>2. Sound(mem)
  BY DEF CoreInv, MemInv, Sound
<1>3. /\ row' \in [state : {"PAUSED", "PLAYING", "ENDED"}, rev : Nat, seq : Nat, off : Nat,
                   hash : Hashes, degraded : BOOLEAN]
      /\ NoLookAhead([src |-> row'.hash.src, vt |-> row'.hash.vt, state |-> row'.state])
  BY <1>1, <1>2, RowTyped
<1>4. row'.off = mem.off /\ row'.hash = Hash(mem) /\ row'.state = mem.state /\ row'.rev = mem.rev /\ row'.seq = mem.seq
  BY <1>1 DEF Row
<1>5. /\ Sound(newest') /\ (row'.state = "ENDED" <=> newest'.state = "ENDED")
      /\ newest'.notes = mem.notes /\ newest'.speed = mem.speed
      /\ tail' \in Seq([kind : {"source", "rejected"}, off : Nat, hash : Hashes])
      /\ \A i \in DOMAIN tail' : Follows(Before(i)', tail'[i])
      /\ Before(Len(tail) + 1)' = [off |-> mem.off, hash |-> Hash(mem)]
  <2>1. CASE txn.checkpoint
    <3>1. newest' = Checkpoint(mem) /\ tail' = <<>>
      BY <1>1, <2>1
    <3>2. Sound(newest') BY <1>2, <3>1, FrameSound
    <3>3. /\ newest'.state = mem.state /\ newest'.notes = mem.notes /\ newest'.speed = mem.speed
          /\ newest'.off = mem.off /\ Hash(newest') = Hash(mem)
      BY <1>2, <3>1 DEF Checkpoint, Sound, Session, Hash
    <3>4. /\ tail' \in Seq([kind : {"source", "rejected"}, off : Nat, hash : Hashes])
          /\ DOMAIN tail' = {} /\ Len(tail') + 1 = 1
      BY <3>1
    <3>5. Before(Len(tail) + 1)' = [off |-> mem.off, hash |-> Hash(mem)]
      BY <3>3, <3>4 DEF Before, Point
    <3>6. QED BY <1>4, <3>2, <3>3, <3>4, <3>5
  <2>2. CASE ~txn.checkpoint
    <3>1. newest' = newest /\ tail' = Append(tail, Record(mem))
      BY <1>1, <2>2
    <3>2. /\ Record(mem) \in [kind : {"source", "rejected"}, off : Nat, hash : Hashes]
          /\ Follows([off |-> row.off, hash |-> row.hash], Record(mem))
          /\ mem.notes = newest.notes /\ mem.speed = newest.speed
          /\ mem.state = "ENDED" <=> newest.state = "ENDED"
      BY <2>2, RecordFollows
    <3>3. Sound(newest) BY DEF CoreInv, DiskInv, Sound
    <3>4. /\ tail' \in Seq([kind : {"source", "rejected"}, off : Nat, hash : Hashes])
          /\ \A i \in DOMAIN tail' : Follows(Before(i)', tail'[i])
          /\ Before(Len(tail) + 1)' = [off |-> Record(mem).off, hash |-> Record(mem).hash]
      BY <3>1, <3>2, LogGrows, Zenon
    <3>5. Record(mem).off = mem.off /\ Record(mem).hash = Hash(mem)
      BY DEF Record
    <3>6. QED BY <1>4, <3>1, <3>2, <3>3, <3>4, <3>5
  <2>3. QED BY <2>1, <2>2
<1>6. DiskInv'
  BY <1>3, <1>4, <1>5 DEF DiskInv, Sound
<1>7. ASSUME mem' = mem PROVE Agrees(mem)'
  <2>1. mem.vt \in Nat /\ Hash(mem).vt = mem.vt /\ At(mem, mem.vt) = mem
    BY <1>2, EventsCounted DEF Sound, Session, Times, Terminal, Hash, At
  <2>2. mem.vt >= row'.hash.vt /\ Hash(At(mem, row'.hash.vt)) = row'.hash
    BY <1>4, <2>1
  <2>3. QED BY <1>4, <1>5, <1>7, <2>2 DEF Agrees
<1>8. QED BY <1>6, <1>7

-----------------------------------------------------------------------------
(* One lemma for each kind of action.                                      *)

LEMMA ReadClock ==
  ASSUME NEW m, Sound(m), NEW vt, vt \in Materialised(m) \/ vt = m.vt
  PROVE  At(m, vt) \in Shifts(m)
<1>1. m \in Session BY DEF Sound
<1>2. At(m, m.vt) = m BY <1>1 DEF At, Session
<1>3. QED BY <1>2 DEF Shifts

LEMMA MemShifts ==
  ASSUME CoreInv
  PROVE  Sound(mem) /\ mem \in Shifts(mem)
BY DEF CoreInv, MemInv, Sound, Shifts

\* A transaction that takes a checkpoint.
LEMMA CheckpointKeeps ==
  ASSUME CoreInv, Up, pc # "commit", NEW kind \in {"expired", "accepted", "stop"},
         NEW id, NEW candidate, NEW answer, NEW next,
         Begin(mem, kind, id, candidate, TRUE, answer, next),
         Sound(candidate), DiskSame, closing' = closing, degraded' = degraded
  PROVE  CoreInv'
<1>1. kind # "source" /\ kind # "rejected" /\ TRUE \in BOOLEAN
  OBVIOUS
<1>2. mem \in Shifts(mem) BY MemShifts
<1>3. QED BY <1>1, <1>2, BeginKeeps, Zenon

\* An event is played.
LEMMA EventKeeps ==
  ASSUME CoreInv, Up, pc # "commit", NEW base \in Shifts(mem), base.state = "PLAYING",
         NEW candidate, candidate = Emitted(Consumed(base, base.src + 1)), Sound(candidate),
         NEW checkpoint \in BOOLEAN, candidate.state = "ENDED" => checkpoint,
         Begin(base, "source", NoId, candidate, checkpoint, Unlogged, "loop"),
         DiskSame, closing' = closing, degraded' = degraded
  PROVE  CoreInv'
<1>1. "source" # "rejected" /\ "source" \in {"source", "rejected"}
  OBVIOUS
<1>2. QED BY <1>1, BeginKeeps, Zenon

LEMMA PlayKeeps ==
  ASSUME CoreInv, Up, pc # "commit", NEW next, next \in {"waiting", "loop"}, Play(next), Idle
  PROVE  CoreInv'
<1>1. DiskSame /\ closing' = closing /\ degraded' = degraded
  BY DEF Idle, diskVars, DiskSame
<1>2. PICK vt \in Materialised(mem) :
        IF Due(At(mem, vt)) THEN PlayEvent(At(mem, vt))
        ELSE pc' = next /\ mem' = At(mem, vt) /\ UNCHANGED txn
  BY DEF Play
<1> DEFINE base == At(mem, vt)
<1>3. Sound(mem) /\ base \in Shifts(mem)
  BY SettledSound DEF Shifts
<1>4. Sound(base) BY <1>3, ShiftSound
<1>5. CASE Due(base)
  <2> DEFINE e == Consumed(base, base.src + 1)
             m == Emitted(e)
  <2>1. PICK review \in BOOLEAN :
          Begin(base, "source", NoId, m, review \/ m.state = "ENDED" \/ CheckpointDue(m), Unlogged, "loop")
    BY <1>2, <1>5 DEF PlayEvent
  <2> HIDE DEF base
  <2>2. base.state = "PLAYING" /\ base.src + 1 \in 0..Events /\ base.state # "ENDED"
    BY <1>4, <1>5, EventsCounted DEF Due, Sound, Session
  <2>3. Sound(e) BY <1>4, <2>2, ConsumedSound
  <2>4. Sound(m) BY <2>3, FrameSound
  <2> DEFINE checkpoint == review \/ m.state = "ENDED" \/ CheckpointDue(m)
  <2>5. checkpoint \in BOOLEAN /\ (m.state = "ENDED" => checkpoint)
    OBVIOUS
  <2>6. m = Emitted(Consumed(base, base.src + 1)) OBVIOUS
  <2>7. Begin(base, "source", NoId, m, checkpoint, Unlogged, "loop") BY <2>1
  <2> HIDE DEF checkpoint, m
  <2>8. QED BY <1>1, <1>3, <2>2, <2>4, <2>5, <2>6, <2>7, EventKeeps, Zenon
<1>6. CASE ~Due(base)
  <2>1. pc' = next /\ mem' = base /\ txn' = txn BY <1>2, <1>6
  <2> HIDE DEF base
  <2>2. QED BY <1>1, <1>3, <2>1, MoveKeeps
<1>7. QED BY <1>5, <1>6

LEMMA UnaskedKeeps ==
  ASSUME CoreInv, Loop \/ AfterOne \/ Wake \/ Expire
  PROVE  CoreInv'
<1>1. Up /\ pc # "commit" BY DEF Loop, AfterOne, Wake, Expire, Up
<1>2. CASE (Loop /\ Play("waiting")) \/ (AfterOne /\ Play("loop"))
  BY <1>1, <1>2, PlayKeeps DEF Loop, AfterOne
<1>3. CASE mem' = mem /\ txn' = txn /\ pc' \in {"waiting", "loop"} /\ Idle
  BY <1>1, <1>3, MemShifts, MoveKeeps DEF Idle, diskVars, DiskSame
<1>4. CASE Expire
  <2>1. PICK vt : /\ vt \in Materialised(mem) \/ vt = mem.vt
                  /\ Begin(mem, "expired", NoId, Revised(Released(At(mem, vt))), TRUE, Unlogged, "loop")
    BY <1>4 DEF Expire
  <2>2. Sound(At(mem, vt)) BY <2>1, MemShifts, ReadClock, ShiftSound
  <2> DEFINE m == Revised(Released(At(mem, vt)))
  <2>3. Sound(m) BY <2>2, ReleasedSound, FrameSound
  <2>4. DiskSame /\ closing' = closing /\ degraded' = degraded
    BY <1>4 DEF Expire, diskVars, DiskSame
  <2>5. Begin(mem, "expired", NoId, m, TRUE, Unlogged, "loop") BY <2>1
  <2> HIDE DEF m
  <2>6. QED BY <1>1, <2>3, <2>4, <2>5, CheckpointKeeps
<1>5. QED BY <1>2, <1>3, <1>4 DEF Loop, AfterOne, Wake

LEMMA ReadAndStopKeeps ==
  ASSUME CoreInv, HandleRead \/ HandleStop
  PROVE  CoreInv'
<1>1. /\ Up /\ pc # "commit" /\ DiskSame /\ closing' = closing /\ degraded' = degraded
  BY DEF HandleRead, HandleStop, Takes, Offered, Up, diskVars, DiskSame
<1>2. CASE HandleRead
  <2>1. PICK vt \in Materialised(mem) : mem' = At(mem, vt)
    BY <1>2 DEF HandleRead
  <2>2. pc' \in {"loop", "after"} /\ txn' = txn
    BY <1>2, AfterRequestRuns DEF HandleRead
  <2>3. At(mem, vt) \in Shifts(mem) BY DEF Shifts
  <2>4. QED BY <1>1, <2>1, <2>2, <2>3, MoveKeeps
<1>3. CASE HandleStop
  <2>1. PICK vt \in Materialised(mem) :
          Begin(mem, "stop", NoId,
                IF mem.state = "PLAYING" THEN Revised([At(mem, vt) EXCEPT !.state = "PAUSED"])
                ELSE mem,
                TRUE, Unlogged, "down")
    BY <1>3 DEF HandleStop
  <2> DEFINE paused == [At(mem, vt) EXCEPT !.state = "PAUSED"]
             m == IF mem.state = "PLAYING" THEN Revised(paused) ELSE mem
  <2>2. Sound(m)
    <3>1. At(mem, vt) \in Shifts(mem) BY DEF Shifts
    <3>2. Sound(At(mem, vt)) /\ At(mem, vt).state = mem.state
      BY <3>1, MemShifts, ShiftSound
    <3>3. ASSUME mem.state = "PLAYING" PROVE Sound(paused)
      <4>1. paused \in Session /\ paused.src = At(mem, vt).src /\ paused.vt = At(mem, vt).vt
            /\ paused.state = "PAUSED"
        BY <3>2 DEF Sound, Session
      <4>2. QED BY <3>2, <3>3, <4>1 DEF Sound, NoLookAhead
    <3> HIDE DEF paused
    <3>4. QED BY <3>3, MemShifts, FrameSound
  <2>3. Begin(mem, "stop", NoId, m, TRUE, Unlogged, "down") BY <2>1
  <2> HIDE DEF m
  <2>4. QED BY <1>1, <2>2, <2>3, CheckpointKeeps
<1>4. QED BY <1>2, <1>3

LEMMA CommandKeeps ==
  ASSUME CoreInv, MeaningInv, DurabilityInv, NEW id \in Ids, HandleCommand(id)
  PROVE  CoreInv' /\ MeaningInv'
<1>1. PICK c \in Meanings(content[id]) :
        /\ Takes(id) /\ id \notin history
        /\ content' = [content EXCEPT ![id] = c]
        /\ \/ /\ Allowed(mem, c)
              /\ \E vt \in IF c.type \in ReadsClock THEN Materialised(mem) ELSE {mem.vt} :
                   LET m == Logged(Revised(Effect(At(mem, vt), c)))
                   IN  Begin(mem, "accepted", id, m, TRUE, Answer("accepted", m.rev), AfterRequest)
           \/ /\ ~Allowed(mem, c)
              /\ Begin(mem, "rejected", id, Rejected(mem), FALSE, Answer("rejected", mem.rev),
                       AfterRequest)
        /\ UNCHANGED <<asks, told, retries, closing, history, degraded, lastCp, shown, restarts, faults>>
        /\ UNCHANGED diskVars
  BY DEF HandleCommand
<1>2. /\ Up /\ pc # "commit" /\ content[id].type \in Types \cup {"sent"}
  BY <1>1, TakenCommand
<1>3. c.type \in Types /\ c.client \in Clients /\ c.arg \in Nat
  <2>1. CASE content[id].type = "sent"
    <3>1. PICK s \in Shapes : c = [type |-> s.type, client |-> s.client, arg |-> s.arg, rev |-> content[id].rev]
      BY <1>1, <2>1 DEF Meanings
    <3>2. s \in [type : Types, client : Clients, arg : Nat] BY ReplayAssumption DEF ReplayAssumption
    <3>3. QED BY <3>1, <3>2
  <2>2. CASE content[id].type # "sent"
    <3>1. c = content[id] BY <1>1, <2>2 DEF Meanings
    <3>2. QED BY <1>2, <2>2, <3>1 DEF MeaningInv
  <2>3. QED BY <2>1, <2>2
<1>4. DiskSame /\ closing' = closing /\ degraded' = degraded
  BY <1>1 DEF diskVars, DiskSame
<1>5. MeaningInv'
  <2>1. DOMAIN content = Ids BY DEF DurabilityInv, LogInv
  <2>2. \A k \in Ids : content'[k] = IF k = id THEN c ELSE content[k] BY <1>1, <2>1
  <2>3. QED BY <1>3, <2>2 DEF MeaningInv
<1>6. CASE ~Allowed(mem, c)
  <2>1. Begin(mem, "rejected", id, Rejected(mem), FALSE, Answer("rejected", mem.rev), AfterRequest)
    BY <1>1, <1>6
  <2>2. Sound(Rejected(mem)) BY MemShifts, FrameSound DEF Rejected
  <2>3. QED BY <1>2, <1>4, <1>5, <2>1, <2>2, MemShifts, BeginKeeps
<1>7. CASE Allowed(mem, c)
  <2>1. PICK vt : /\ vt \in Materialised(mem) \/ vt = mem.vt
                  /\ LET m == Logged(Revised(Effect(At(mem, vt), c)))
                     IN  Begin(mem, "accepted", id, m, TRUE, Answer("accepted", m.rev), AfterRequest)
    BY <1>1, <1>7
  <2> DEFINE m == Logged(Revised(Effect(At(mem, vt), c)))
  <2>2. Sound(At(mem, vt)) /\ At(mem, vt).state = mem.state
    BY <2>1, MemShifts, ReadClock, ShiftSound
  <2>3. /\ c.type \in {"PLAY", "STEP", "ADVANCE_BY", "SEEK_TO"} => mem.state = "PAUSED"
        /\ c.type = "PAUSE" => mem.state = "PLAYING"
    BY <1>7 DEF Allowed
  <2>4. Sound(Effect(At(mem, vt), c)) BY <1>3, <2>2, <2>3, EffectSound
  <2>5. Sound(m) BY <2>4, FrameSound
  <2>6. Begin(mem, "accepted", id, m, TRUE, Answer("accepted", m.rev), AfterRequest) BY <2>1
  <2> HIDE DEF m
  <2>7. QED BY <1>2, <1>4, <1>5, <2>5, <2>6, CheckpointKeeps
<1>8. QED BY <1>6, <1>7

(* The end of a transaction.                                               *)
LEMMA CommitKeeps ==
  ASSUME CoreInv, DurabilityInv, CommitOk
  PROVE  CoreInv'
<1>1. /\ pc = "commit" /\ Write /\ txn.kind # "stop" /\ pc' = txn.next /\ mem' = mem /\ txn' = NoTxn
      /\ closing' = closing /\ degraded' = degraded
  BY DEF CommitOk
<1>2. DiskInv' /\ Agrees(mem)'
  BY <1>1, WriteDisk
<1>3. pc' \in {"loop", "after"}
  BY <1>1 DEF DurabilityInv, SeqInv
<1>4. MemInv'
  BY <1>1, <1>2, <1>3 DEF MemInv, CoreInv, Settled, Agrees
<1>5. Fresh \in Session BY FreshSound
<1>6. TxnInv' /\ ControlInv'
  BY <1>1, <1>3, <1>5 DEF CoreInv, TxnInv, ControlInv, NoTxn
<1>7. QED BY <1>2, <1>4, <1>6 DEF CoreInv

LEMMA FailureKeeps ==
  ASSUME CoreInv, DurabilityInv, CommitFails
  PROVE  CoreInv'
<1>1. /\ pc = "commit" /\ txn.kind # "stop" /\ pc' = txn.next /\ mem' = RolledBack /\ txn' = NoTxn
      /\ closing' = closing /\ degraded' = TRUE /\ DiskSame
  BY DEF CommitFails, diskVars, DiskSame
<1>2. pc' \in {"loop", "after"}
  BY <1>1 DEF DurabilityInv, SeqInv
<1>3. DiskInv' BY <1>1, DiskKept DEF CoreInv
<1>4. Sound(txn.base) /\ Agrees(txn.base)
  BY <1>1, SettledSound DEF Settled, Up
<1> DEFINE b == txn.base
<1>5. /\ RolledBack \in Session /\ RolledBack.src = b.src /\ RolledBack.vt = b.vt /\ RolledBack.rev = b.rev
      /\ RolledBack.seq = b.seq /\ RolledBack.off = b.off /\ RolledBack.notes = b.notes
      /\ RolledBack.speed = b.speed /\ RolledBack.pos = b.pos /\ RolledBack.orders = b.orders
      /\ IF b.state = "ENDED" THEN RolledBack.state = "ENDED" ELSE RolledBack.state = "PAUSED"
  BY <1>4 DEF RolledBack, Sound, Session
<1>6. NoLookAhead(RolledBack)
  BY <1>4, <1>5 DEF Sound, NoLookAhead
<1>7. Agrees(RolledBack)
  <2>1. Hash(At(RolledBack, row.hash.vt)) = Hash(At(b, row.hash.vt))
    BY <1>4, <1>5 DEF Hash, At, Sound, Session
  <2>2. b.state \in {"PAUSED", "PLAYING", "ENDED"} /\ row.state \in {"PAUSED", "PLAYING", "ENDED"}
    BY <1>4 DEF Sound, Session, CoreInv, DiskInv
  <2>3. QED BY <1>4, <1>5, <2>1, <2>2 DEF Agrees
<1>8. MemInv'
  <2>1. mem' = RolledBack /\ pc' # "commit" BY <1>1, <1>2
  <2> DEFINE m == RolledBack
  <2>2. m \in Session /\ NoLookAhead(m) /\ Agrees(m) BY <1>5, <1>6, <1>7
  <2>3. mem' = m BY <2>1
  <2> HIDE DEF m
  <2>4. QED BY <1>1, <2>1, <2>2, <2>3 DEF MemInv, Settled, Agrees, DiskSame, NoLookAhead
<1>9. Fresh \in Session BY FreshSound
<1>10. TxnInv' /\ ControlInv'
  BY <1>1, <1>2, <1>9 DEF CoreInv, TxnInv, ControlInv, NoTxn
<1>11. QED BY <1>3, <1>8, <1>10 DEF CoreInv

LEMMA ExitsKeep ==
  ASSUME CoreInv, DurabilityInv, StopEnded \/ StopOk \/ StopFails \/ Crash
  PROVE  CoreInv'
<1>1. Exit /\ (DiskSame \/ (pc = "commit" /\ Write))
  BY DEF StopEnded, StopOk, StopFails, Crash, diskVars, DiskSame
<1>2. DiskInv' BY <1>1, DiskKept, WriteDisk DEF CoreInv
<1>3. QED BY <1>1, <1>2, ExitKeeps

-----------------------------------------------------------------------------
(* Recovery.                                                               *)

\* The replayed session at an entry of the log: all but the clock is recorded
\* there, and the clock too as long as no rejection moved it.
Reaches(m, i) ==
  /\ m \in Session /\ m.off = Before(i + 1).off
  /\ m.src = Before(i + 1).hash.src /\ m.pos = Before(i + 1).hash.pos
  /\ m.orders = Before(i + 1).hash.orders
  /\ m.notes = newest.notes /\ m.speed = newest.speed /\ m.state = newest.state
  /\ ClockUnmoved => m.vt = Before(i + 1).hash.vt

LEMMA ReplayStep ==
  ASSUME DiskInv, NEW i \in 1..Len(tail), NEW m, Reaches(m, i - 1)
  PROVE  Reaches(ReplayRecord(m, tail[i]), i)
<1> DEFINE b == Before(i)
           t == tail[i]
<1>1. /\ i \in Nat /\ i \in DOMAIN tail /\ (i - 1) + 1 = i /\ i + 1 # 1 /\ (i + 1) - 1 = i
      /\ t \in [kind : {"source", "rejected"}, off : Nat, hash : Hashes]
  <2> DEFINE R == [kind : {"source", "rejected"}, off : Nat, hash : Hashes]
  <2>1. tail \in Seq(R) BY DEF DiskInv
  <2> HIDE DEF R
  <2>2. Len(tail) \in Nat /\ DOMAIN tail = 1..Len(tail) /\ tail[i] \in R BY <2>1
  <2>3. i \in Nat /\ (i - 1) + 1 = i /\ i + 1 # 1 /\ (i + 1) - 1 = i BY <2>2
  <2>4. QED BY <2>2, <2>3 DEF R
<1>2. /\ m \in Session /\ m.off = b.off /\ m.src = b.hash.src /\ m.pos = b.hash.pos /\ m.orders = b.hash.orders
      /\ m.notes = newest.notes /\ m.speed = newest.speed /\ m.state = newest.state
      /\ ClockUnmoved => m.vt = b.hash.vt
  BY <1>1 DEF Reaches
<1>3. Before(i + 1).off = t.off /\ Before(i + 1).hash = t.hash
  BY <1>1 DEF Before
<1>4. Follows(b, t) BY <1>1 DEF DiskInv
<1>5. ClockUnmoved /\ t.kind = "rejected" => t.hash.vt = b.hash.vt
  <2>1. b.hash.vt = IF i = 1 THEN newest.vt ELSE tail[i - 1].hash.vt
    BY DEF Before, Point, Hash
  <2>2. QED BY <1>1, <2>1 DEF ClockUnmoved
<1> HIDE DEF b, t
<1>6. CASE t.kind = "source"
  <2>1. m.src + 1 = t.hash.src /\ m.src + 1 < Events /\ t.hash.vt = Time(m.src + 1) /\ t.off = m.off
        /\ t.hash.pos = m.pos /\ t.hash.orders = m.orders
    BY <1>2, <1>4, <1>6 DEF Follows
  <2>2. ReplayRecord(m, t) = [m EXCEPT !.src = m.src + 1, !.vt = Time(m.src + 1)]
    BY <1>2, <1>6, <2>1, EventsCounted DEF ReplayRecord, Consumed, Session
  <2>3. m.src + 1 \in 0..Events /\ Time(m.src + 1) \in Times
    <3>1. m.src \in Nat BY <1>2, EventsCounted DEF Session
    <3>2. QED BY <2>1, <3>1, EventsCounted DEF Times, Terminal, Time
  <2> DEFINE r == [m EXCEPT !.src = m.src + 1, !.vt = Time(m.src + 1)]
  <2>4. /\ r \in Session /\ r.off = m.off /\ r.src = m.src + 1 /\ r.vt = Time(m.src + 1) /\ r.pos = m.pos
        /\ r.orders = m.orders /\ r.notes = m.notes /\ r.speed = m.speed /\ r.state = m.state
    BY <1>2, <2>3 DEF Session
  <2> HIDE DEF r
  <2>5. Reaches(r, i) BY <1>2, <1>3, <2>1, <2>4 DEF Reaches
  <2>6. QED BY <2>2, <2>5 DEF r, t
<1>7. CASE t.kind = "rejected"
  <2>1. t.off = m.off + 1 /\ t.hash.src = m.src /\ t.hash.pos = m.pos /\ t.hash.orders = m.orders
    BY <1>2, <1>4, <1>7 DEF Follows
  <2>2. ReplayRecord(m, t) = [m EXCEPT !.off = m.off + 1]
    BY <1>7 DEF ReplayRecord, Logged
  <2> DEFINE r == [m EXCEPT !.off = m.off + 1]
  <2>3. /\ r \in Session /\ r.off = m.off + 1 /\ r.src = m.src /\ r.vt = m.vt /\ r.pos = m.pos
        /\ r.orders = m.orders /\ r.notes = m.notes /\ r.speed = m.speed /\ r.state = m.state
    BY <1>2 DEF Session
  <2> HIDE DEF r
  <2>4. Reaches(r, i) BY <1>2, <1>3, <1>5, <1>7, <2>1, <2>3 DEF Reaches
  <2>5. QED BY <2>2, <2>4 DEF r, t
<1>8. QED BY <1>1, <1>6, <1>7 

\* By the least entry at which the replay would differ.
LEMMA ReplayReaches ==
  ASSUME DiskInv
  PROVE  \A i \in 0..Len(tail) : Reaches(Replayed[i], i)
<1> DEFINE T == {i \in 0..Len(tail) : ~ Reaches(Replayed[i], i)}
<1>1. Len(tail) \in Nat BY DEF DiskInv
<1>2. /\ Replayed[0] = newest
      /\ \A i \in 1..Len(tail) : Replayed[i] = ReplayRecord(Replayed[i - 1], tail[i])
  BY <1>1, ReplayUnfolds
<1>3. SUFFICES ASSUME T # {} PROVE FALSE
  OBVIOUS
<1>4. PICK i \in T : \A j \in T : i <= j
  <2>1. T \in SUBSET Nat OBVIOUS
  <2> HIDE DEF T
  <2>2. QED BY <1>3, <2>1, MinExists
<1>5. CASE i = 0
  <2>1. Before(0 + 1) = Point(newest) BY DEF Before
  <2>2. Reaches(newest, 0)
    BY <2>1 DEF Reaches, Point, Hash, DiskInv
  <2>3. QED BY <1>2, <1>5, <2>2
<1>6. CASE i # 0
  <2>1. i \in 1..Len(tail) /\ i - 1 \in 0..Len(tail) /\ ~(i <= i - 1)
    BY <1>1, <1>6
  <2>2. i - 1 \notin T BY <1>4, <2>1
  <2>3. Reaches(Replayed[i - 1], i - 1) BY <2>1, <2>2
  <2>4. Reaches(ReplayRecord(Replayed[i - 1], tail[i]), i) BY <2>1, <2>3, ReplayStep
  <2>5. QED BY <1>2, <2>1, <2>4
<1>7. QED BY <1>5, <1>6

LEMMA RecordsReplay ==
  ASSUME DiskInv
  PROVE  RecoveryReproduces
<1>1. SUFFICES ASSUME ClockUnmoved PROVE Recoverable
  BY DEF RecoveryReproduces
<1>2. Len(tail) \in Nat /\ DOMAIN tail = 1..Len(tail)
      /\ tail \in Seq([kind : {"source", "rejected"}, off : Nat, hash : Hashes])
      /\ row.hash \in Hashes
  BY DEF DiskInv
<1>3. \A i \in 0..Len(tail) : Reaches(Replayed[i], i)
  BY ReplayReaches
<1>4. \A h \in Hashes : h = [src |-> h.src, vt |-> h.vt, pos |-> h.pos, orders |-> h.orders]
  BY DEF Hashes
<1>5. ASSUME NEW i \in DOMAIN tail
      PROVE  Replayed[i].off = tail[i].off /\ Hash(Replayed[i]) = tail[i].hash
  <2>1. i \in 0..Len(tail) /\ i + 1 # 1 /\ (i + 1) - 1 = i /\ tail[i].hash \in Hashes
    <3> DEFINE R == [kind : {"source", "rejected"}, off : Nat, hash : Hashes]
    <3>1. tail \in Seq(R) BY <1>2
    <3>2. \A r \in R : r.hash \in Hashes OBVIOUS
    <3> HIDE DEF R
    <3>3. tail[i] \in R BY <3>1
    <3>4. QED BY <1>2, <3>2, <3>3
  <2>2. Before(i + 1).off = tail[i].off /\ Before(i + 1).hash = tail[i].hash
    BY <2>1 DEF Before
  <2>3. /\ Replayed[i].off = tail[i].off
        /\ Replayed[i].src = tail[i].hash.src /\ Replayed[i].vt = tail[i].hash.vt
        /\ Replayed[i].pos = tail[i].hash.pos /\ Replayed[i].orders = tail[i].hash.orders
    BY <1>1, <1>3, <2>1, <2>2 DEF Reaches
  <2>4. QED BY <1>4, <2>1, <2>3 DEF Hash
<1>6. Hash(Replayed[Len(tail)]) = row.hash
  <2>1. Before(Len(tail) + 1).hash = row.hash
    <3>1. [off |-> row.off, hash |-> row.hash] = Before(Len(tail) + 1) BY DEF DiskInv
    <3>2. QED BY <3>1
  <2>2. Len(tail) \in 0..Len(tail) BY <1>2
  <2>3. /\ Replayed[Len(tail)].src = row.hash.src /\ Replayed[Len(tail)].vt = row.hash.vt
        /\ Replayed[Len(tail)].pos = row.hash.pos /\ Replayed[Len(tail)].orders = row.hash.orders
    BY <1>1, <1>3, <2>1, <2>2 DEF Reaches
  <2>4. QED BY <1>2, <1>4, <2>3 DEF Hash
<1>7. QED BY <1>5, <1>6 DEF Recoverable

LEMMA RecoveryKeeps ==
  ASSUME CoreInv, Recover
  PROVE  CoreInv'
<1> DEFINE m == Replayed[Len(tail)]
<1>1. /\ pc' = "loop" /\ DiskSame /\ txn' = txn /\ closing' = closing /\ degraded' = degraded
      /\ Hash(m) = row.hash
      /\ mem' = [state |-> IF m.state = "ENDED" THEN "ENDED" ELSE "PAUSED", ctl |-> Nobody,
                 rev |-> row.rev, seq |-> row.seq, off |-> row.off, src |-> m.src, vt |-> m.vt,
                 speed |-> m.speed, pos |-> m.pos, orders |-> m.orders, notes |-> m.notes]
  BY DEF Recover, Recoverable, diskVars, DiskSame
<1>2. Len(tail) \in 0..Len(tail)
  BY DEF CoreInv, DiskInv
<1>3. m \in Session /\ m.notes = newest.notes /\ m.speed = newest.speed /\ m.state = newest.state
  BY <1>2, ReplayReaches DEF Reaches, CoreInv
<1> HIDE DEF m
<1>4. m.src = row.hash.src /\ m.vt = row.hash.vt /\ row.hash = Hash(m)
  BY <1>1 DEF Hash
<1>5. /\ row.state \in {"PAUSED", "PLAYING", "ENDED"} /\ row.rev \in Nat /\ row.seq \in Nat /\ row.off \in Nat
      /\ row.state = "ENDED" <=> newest.state = "ENDED"
      /\ NoLookAhead([src |-> row.hash.src, vt |-> row.hash.vt, state |-> row.state])
  BY DEF CoreInv, DiskInv
<1> DEFINE r == [state |-> IF m.state = "ENDED" THEN "ENDED" ELSE "PAUSED", ctl |-> Nobody,
                 rev |-> row.rev, seq |-> row.seq, off |-> row.off, src |-> m.src, vt |-> m.vt,
                 speed |-> m.speed, pos |-> m.pos, orders |-> m.orders, notes |-> m.notes]
<1>6. r \in Session BY <1>3, <1>5 DEF Session
<1>7. /\ r.state = (IF row.state = "ENDED" THEN "ENDED" ELSE "PAUSED") /\ r.rev = row.rev /\ r.seq = row.seq /\ r.off = row.off
      /\ r.src = m.src /\ r.vt = m.vt /\ r.speed = m.speed /\ r.pos = m.pos /\ r.orders = m.orders /\ r.notes = m.notes
  BY <1>3, <1>5
<1>8. mem' = r BY <1>1
<1> HIDE DEF r
<1>9. NoLookAhead(r)
  BY <1>4, <1>5, <1>7 DEF NoLookAhead
<1>10. Agrees(r)
  <2>1. r.vt >= row.hash.vt
    BY <1>3, <1>4, <1>7, EventsCounted DEF Session, Times, Terminal
  <2>2. Hash(At(r, row.hash.vt)) = row.hash
    BY <1>4, <1>6, <1>7 DEF Hash, At, Session
  <2>3. QED BY <1>3, <1>5, <1>7, <2>1, <2>2 DEF Agrees
<1>11. MemInv'
  BY <1>1, <1>6, <1>8, <1>9, <1>10 DEF MemInv, Settled, Agrees, DiskSame, NoLookAhead
<1>12. DiskInv' BY <1>1, DiskKept DEF CoreInv
<1>13. TxnInv' /\ ControlInv' BY <1>1 DEF CoreInv, TxnInv, ControlInv
<1>14. QED BY <1>11, <1>12, <1>13 DEF CoreInv

LEMMA RecoveryFailureKeeps ==
  ASSUME CoreInv, RecoveryFails
  PROVE  CoreInv'
<1>1. /\ pc = "down" /\ pc' = pc /\ mem' = mem /\ txn' = txn /\ closing' = closing /\ degraded' = degraded
      /\ newest' = newest /\ tail' = tail /\ row.state # "ENDED"
      /\ row' = [row EXCEPT !.degraded = TRUE, !.state = "PAUSED"]
  BY DEF RecoveryFails, actorVars
<1> DEFINE R == [state : {"PAUSED", "PLAYING", "ENDED"}, rev : Nat, seq : Nat, off : Nat,
                 hash : Hashes, degraded : BOOLEAN]
<1>2. row \in R BY DEF CoreInv, DiskInv
<1>3. row' \in R /\ row'.off = row.off /\ row'.hash = row.hash /\ row'.state = "PAUSED"
  BY <1>1, <1>2
<1>4. NoLookAhead([src |-> row'.hash.src, vt |-> row'.hash.vt, state |-> row'.state])
  BY <1>1, <1>3 DEF CoreInv, DiskInv, NoLookAhead
<1>5. DiskInv'
  BY <1>1, <1>3, <1>4 DEF CoreInv, DiskInv, Before
<1>6. MemInv' BY <1>1 DEF CoreInv, MemInv, Up
<1>7. TxnInv' /\ ControlInv' BY <1>1 DEF CoreInv, TxnInv, ControlInv
<1>8. QED BY <1>5, <1>6, <1>7 DEF CoreInv

(* What a command asks is known once it was read.                          *)
LEMMA MeaningKept ==
  ASSUME MeaningInv, DurabilityInv,
         content' = content \/ (\E id \in Ids : Submit(id)) \/ (\E id \in Ids : \E answer : Told(id, answer))
  PROVE  MeaningInv'
<1>1. DOMAIN content = Ids BY DEF DurabilityInv, LogInv
<1>2. \A id \in Ids : \/ content'[id] = content[id]
                      \/ content'[id].type \notin Types
  <2>1. CASE content' = content BY <2>1
  <2>2. ASSUME NEW k \in Ids, Submit(k)
        PROVE  \A id \in Ids : content'[id] = content[id] \/ content'[id].type \notin Types
    <3> DEFINE sent == [NoCommand EXCEPT !.type = "sent", !.rev = row.rev]
    <3>1. sent.type \notin Types BY DEF NoCommand, Types
    <3>2. content' = content \/ content' = [content EXCEPT ![k] = sent] BY <2>2 DEF Submit
    <3> HIDE DEF sent
    <3>3. QED BY <1>1, <3>1, <3>2
  <2>3. ASSUME NEW k \in Ids, NEW answer, Told(k, answer)
        PROVE  \A id \in Ids : content'[id] = content[id] \/ content'[id].type \notin Types
    <3>1. Known.type \notin Types BY DEF Known, NoCommand, Types
    <3>2. content' = [content EXCEPT ![k] = Known] BY <2>3 DEF Told
    <3>3. QED BY <1>1, <3>1, <3>2
  <2>4. QED BY <2>1, <2>2, <2>3
<1>3. QED BY <1>2 DEF MeaningInv

LEMMA StepPersists == PersistInv /\ DurabilityInv /\ [Next]_vars => PersistInv'
<1>1. SUFFICES ASSUME PersistInv, DurabilityInv, [Next]_vars PROVE PersistInv'
  OBVIOUS
<1>a. CoreInv /\ MeaningInv BY <1>1 DEF PersistInv
<1>2. CASE Loop \/ AfterOne \/ Wake \/ Expire
  <2>1. content' = content BY <1>2 DEF Loop, AfterOne, Wake, Expire, Idle, clientVars
  <2>2. QED BY <1>1, <1>a, <1>2, <2>1, UnaskedKeeps, MeaningKept DEF PersistInv
<1>3. CASE HandleRead \/ HandleStop
  <2>1. content' = content BY <1>3 DEF HandleRead, HandleStop, clientVars
  <2>2. QED BY <1>1, <1>a, <1>3, <2>1, ReadAndStopKeeps, MeaningKept DEF PersistInv
<1>4. CASE StopEnded \/ StopOk \/ StopFails \/ Crash
  <2>1. content' = content BY <1>4 DEF StopEnded, StopOk, StopFails, Crash
  <2>2. QED BY <1>1, <1>a, <1>4, <2>1, ExitsKeep, MeaningKept DEF PersistInv
<1>5. CASE \E id \in Ids : HandleRepeated(id) \/ AnswerFromLog(id)
  <2>1. PICK id \in Ids : HandleRepeated(id) \/ AnswerFromLog(id) BY <1>5
  <2>2. Told(id, logged[id]) /\ mem' = mem /\ txn' = txn /\ DiskSame /\ closing' = closing /\ degraded' = degraded
    BY <2>1 DEF HandleRepeated, AnswerFromLog, UntouchedActor, diskVars, DiskSame
  <2>3. CoreInv'
    <3>1. CASE HandleRepeated(id)
      <4>1. Up /\ pc # "commit" /\ pc' \in {"loop", "after"}
        BY <3>1, AfterRequestRuns DEF HandleRepeated, Takes, Offered, Up
      <4>2. QED BY <1>a, <2>2, <4>1, MemShifts, MoveKeeps
    <3>2. CASE AnswerFromLog(id)
      <4>1. pc' = pc BY <3>2 DEF AnswerFromLog, UntouchedActor
      <4>2. closing' \in BOOLEAN BY <1>a, <2>2 DEF CoreInv, ControlInv
      <4>3. QED BY <1>a, <2>2, <4>1, <4>2, StillKeeps
    <3>3. QED BY <2>1, <3>1, <3>2
  <2>4. QED BY <1>1, <1>a, <2>2, <2>3, MeaningKept DEF PersistInv
<1>6. CASE \E id \in Ids : HandleCommand(id)
  BY <1>1, <1>a, <1>6, CommandKeeps DEF PersistInv
<1>7. CASE Ask \/ RequestStop \/ \E id \in Ids : Submit(id)
  <2>1. /\ mem' = mem /\ txn' = txn /\ pc' = pc /\ DiskSame /\ closing' \in {closing, TRUE} /\ degraded' = degraded
        /\ content' = content \/ \E id \in Ids : Submit(id)
    BY <1>7 DEF Ask, RequestStop, Submit, UntouchedActor, diskVars, clientVars, DiskSame
  <2>2. closing' \in BOOLEAN BY <1>a, <2>1 DEF CoreInv, ControlInv
  <2>3. CoreInv' BY <1>a, <2>1, <2>2, StillKeeps
  <2>4. QED BY <1>1, <1>a, <2>1, <2>3, MeaningKept DEF PersistInv
<1>8. CASE CommitOk \/ CommitFails
  <2>1. content' = content \/ \E id \in Ids : \E answer : Told(id, answer)
    <3>1. txn.id # NoId /\ pc = "commit" => txn.id \in Ids BY <1>1 DEF DurabilityInv, MailInv
    <3>2. CASE CommitFails BY <3>2 DEF CommitFails
    <3>3. CASE CommitOk
      <4>1. CASE txn.id = NoId BY <3>3, <4>1 DEF CommitOk
      <4>2. CASE txn.id # NoId
        <5>1. Told(txn.id, txn.answer) /\ txn.id \in Ids BY <3>1, <3>3, <4>2 DEF CommitOk
        <5>2. QED BY <5>1
      <4>3. QED BY <4>1, <4>2
    <3>4. QED BY <1>8, <3>2, <3>3
  <2>2. QED BY <1>1, <1>a, <1>8, <2>1, CommitKeeps, FailureKeeps, MeaningKept DEF PersistInv
<1>9. CASE Recover \/ RecoveryFails
  <2>1. content' = content BY <1>9 DEF Recover, RecoveryFails, clientVars
  <2>2. QED BY <1>1, <1>a, <1>9, <2>1, RecoveryKeeps, RecoveryFailureKeeps, MeaningKept DEF PersistInv
<1>10. CASE UNCHANGED vars
  <2>1. UNCHANGED <<pc, mem, txn, closing, degraded, content>> /\ DiskSame
    BY <1>10 DEF vars, actorVars, diskVars, clientVars, DiskSame
  <2>2. closing' \in BOOLEAN BY <1>a, <2>1 DEF CoreInv, ControlInv
  <2>3. CoreInv' BY <1>a, <2>1, <2>2, StillKeeps
  <2>4. QED BY <1>1, <1>a, <2>1, <2>3, MeaningKept DEF PersistInv
<1>11. QED BY <1>1, <1>2, <1>3, <1>4, <1>5, <1>6, <1>7, <1>8, <1>9, <1>10 DEF Next, Run

-----------------------------------------------------------------------------
(* The invariant of the session: the memory, the open transaction, the     *)
(* session row, the newest checkpoint and the log behind it belong to one  *)
(* history, and none of them looks ahead of the source.                    *)
THEOREM PersistInvariance == Spec => []PersistInv
<1>1. QED BY InitPersists, StepPersists, DurabilityInvariance, PTL DEF Spec

(* The virtual clock never passes an event that was not played, and the    *)
(* actor's memory is the durable session whenever no transaction is open,  *)
(* through rollbacks, retries, shutdowns and recoveries.                   *)
THEOREM MemoryIsDurable == Spec => []SessionInv
<1>1. PersistInv /\ DurabilityInv /\ WaitInv => SessionInv
  <2>1. SUFFICES ASSUME PersistInv, DurabilityInv, WaitInv PROVE SessionInv
    OBVIOUS
  <2>2. DiskInv /\ MemInv /\ ControlInv BY <2>1 DEF PersistInv, CoreInv
  <2>3. TypeOK
    <3>1. queue \in Seq({Read, Stop} \cup Ids) /\ history \subseteq Ids /\ asks \in [Ids -> Nat]
      BY <2>1 DEF DurabilityInv, MailInv, LogInv, WaitInv
    <3>2. row.degraded \in BOOLEAN BY <2>2 DEF DiskInv
    <3>3. QED BY <2>2, <3>1, <3>2 DEF TypeOK, DiskInv, MemInv, ControlInv
  <2>4. MemoryIsRow
    BY <2>2 DEF MemInv, MemoryIsRow, Agrees
  <2>5. QED BY <2>2, <2>3, <2>4 DEF SessionInv, DiskInv, MemInv
<1>2. Spec => []WaitInv
  BY InitWaits, StepWaits, DurabilityInvariance, PTL DEF Spec
<1>3. QED BY <1>1, <1>2, PersistInvariance, DurabilityInvariance, PTL

(* A crash at any moment leaves a checkpoint and a log that reproduce the  *)
(* recorded offsets and hashes, for logs of any length, unless a command   *)
(* was rejected after the clock had moved.                                 *)
THEOREM RecoveryIsExact == Spec => []RecoveryReproduces
<1>1. PersistInv => RecoveryReproduces
  BY RecordsReplay DEF PersistInv, CoreInv
<1>2. QED BY <1>1, PersistInvariance, PTL

===============================================================================
