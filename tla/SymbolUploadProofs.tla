------------------------ MODULE SymbolUploadProofs ------------------------
(* Proofs about SymbolUpload: what is published was verified and stays, and *)
(* the rows of a manifest are truthful, for any number of rows, artifacts,  *)
(* sessions and handlers.                                                   *)
EXTENDS SymbolUpload, TLAPS

Retiring == {"active", "completing", "aborted"}
Completing == {"claim", "head", "finish", "enqueue"}
WithSession == Completing \cup {"retiring", "abort", "insert", "undo", "cleanup", "drop"}

(* What the place of a handler says of its row, its artifact and its        *)
(* session.  A session that is about to be retired may be completed, and    *)
(* one that is being completed is not active again.                         *)
CallHolds(c) ==
    /\ c.pc # "idle" => c.row \in Rows /\ c.art \in Artifacts
    /\ c.pc \in {"lookup", "checksum", "available", "mismatch", "missing"} =>
          manifest[c.row].art # None
    /\ c.pc = "available" => c.art \in Files
    /\ c.pc \in WithSession => c.ses \in Sessions
    /\ c.pc = "retiring" => session[c.ses].row = c.row /\ session[c.ses].state \in Retiring
    /\ c.pc \in Completing => /\ session[c.ses].row = c.row
                              /\ session[c.ses].art = c.art
                              /\ session[c.ses].state # "absent"
    /\ c.pc \in {"head", "finish", "enqueue"} => session[c.ses].state # "active"
    /\ c.pc = "insert" => session[c.ses].state = "absent" /\ store[c.ses].upload # "none"

(* Nobody completes the object of a session that is about to be retired,    *)
(* and no two handlers insert the same session.                             *)
Compatible(c, d) ==
    /\ c.pc = "retiring" /\ d.pc \in {"finish", "enqueue"} => c.ses # d.ses
    /\ c.pc = "insert" /\ d.pc = "insert" => c.ses # d.ses

CallsHold ==
    /\ \A h \in Handlers : CallHolds(call[h])
    /\ \A g, h \in Handlers : g # h => Compatible(call[g], call[h])

(* A session, its job and its object. *)
SessionsHold ==
    \A s \in Sessions :
        /\ session[s].state # "absent" =>
              session[s].row \in Rows /\ session[s].art \in Artifacts /\ store[s].upload # "none"
        /\ session[s].state \in {"absent", "active", "completing"} => job[s] = "none"
        /\ session[s].state = "processing" => job[s] \in {"pending", "leased"}
        /\ store[s].object # None => store[s].upload = "closed"

(* What is published is not open to an upload, nor about to be discarded. *)
CanonicalHolds ==
    \A f \in Files : canonical[f] # None =>
        /\ session[canonical[f]].state = "completed"
        /\ store[canonical[f]].upload = "closed"
        /\ store[canonical[f]].object \in {f, None}
        /\ job[canonical[f]] # "discard"

IInv == TypeOK /\ CallsHold /\ SessionsHold /\ CanonicalHolds /\ RowIsTruthful

-----------------------------------------------------------------------------
(* One handler takes a step, the others stay where they are.                *)

Moves(h) ==
    /\ call' \in [Handlers -> Call]
    /\ \A g \in Handlers : g # h => call'[g] = call[g]

LEMMA IdleCall == Idle \in Call /\ CallHolds(Idle)
<1>1. Idle \in Call
    BY DEF Idle, Call, Steps
<1>2. Idle.pc = "idle"
    BY DEF Idle
<1> QED BY <1>1, <1>2 DEF CallHolds, WithSession, Completing

LEMMA RespondMoves ==
    ASSUME TypeOK, NEW h \in Handlers, Respond(h)
    PROVE  Moves(h) /\ call'[h] = Idle
<1>1. call \in [Handlers -> Call] /\ call' = [call EXCEPT ![h] = Idle]
    BY DEF TypeOK, Respond
<1> QED BY <1>1, IdleCall DEF Moves

LEMMA GotoMoves ==
    ASSUME TypeOK, NEW h \in Handlers, NEW pc \in Steps, Goto(h, pc)
    PROVE  /\ Moves(h)
           /\ call'[h].pc = pc
           /\ call'[h].row = call[h].row /\ call'[h].art = call[h].art
           /\ call'[h].ses = call[h].ses /\ call'[h].part = call[h].part
<1>1. call \in [Handlers -> Call] /\ call[h] \in Call
    BY DEF TypeOK
<1>2. call' = [call EXCEPT ![h] = [call[h] EXCEPT !.pc = pc]]
    BY <1>1 DEF Goto
<1> DEFINE new == [call[h] EXCEPT !.pc = pc]
<1>3. /\ new \in Call /\ new.pc = pc /\ new.row = call[h].row /\ new.art = call[h].art
      /\ new.ses = call[h].ses /\ new.part = call[h].part
    BY <1>1 DEF Call
<1> HIDE DEF new
<1> QED BY <1>1, <1>2, <1>3 DEF Moves, new

(* What the steps of others leave true of a handler g: artifacts are not    *)
(* undeclared, uploads not unmade, and sessions keep what they are for.     *)
Kept(g) ==
    /\ \A r \in Rows : manifest[r].art # None => manifest'[r].art # None
    /\ \A s \in Sessions : store[s].upload # "none" => store'[s].upload # "none"
    /\ \A s \in Sessions :
          /\ session[s].state # "absent" =>
                /\ session'[s].row = session[s].row /\ session'[s].art = session[s].art
                /\ session'[s].state # "absent"
                /\ session'[s].state = "active" => session[s].state = "active"
          /\ session[s].state = "absent" /\ call[g].pc = "insert" /\ call[g].ses = s =>
                session'[s].state = "absent"
          /\ session[s].state \in Retiring /\ call[g].pc = "retiring" /\ call[g].ses = s =>
                session'[s].state \in Retiring

LEMMA KeptHolds ==
    ASSUME NEW g \in Handlers, CallHolds(call[g]), call'[g] = call[g], Kept(g)
    PROVE  CallHolds(call[g])'
<1> DEFINE c == call[g]
<1>1. /\ c.pc # "idle" => c.row \in Rows /\ c.art \in Artifacts
      /\ c.pc \in WithSession => c.ses \in Sessions
    BY DEF CallHolds
<1>2. c.pc \in {"lookup", "checksum", "available", "mismatch", "missing"} => manifest'[c.row].art # None
    BY <1>1 DEF CallHolds, Kept
<1>3. c.pc = "retiring" => session'[c.ses].row = c.row /\ session'[c.ses].state \in Retiring
    BY <1>1 DEF CallHolds, Kept, Retiring, WithSession
<1>4. c.pc \in Completing => /\ session'[c.ses].row = c.row /\ session'[c.ses].art = c.art
                             /\ session'[c.ses].state # "absent"
    BY <1>1 DEF CallHolds, Kept, WithSession
<1>5. c.pc \in {"head", "finish", "enqueue"} => session'[c.ses].state # "active"
    BY <1>1 DEF CallHolds, Kept, WithSession, Completing
<1>6. c.pc = "insert" => session'[c.ses].state = "absent" /\ store'[c.ses].upload # "none"
    BY <1>1 DEF CallHolds, Kept, WithSession
<1>7. c.pc = "available" => c.art \in Files
    BY DEF CallHolds
<1> HIDE DEF c
<1>8. c = call'[g]
    BY DEF c
<1> QED BY <1>1, <1>2, <1>3, <1>4, <1>5, <1>6, <1>7, <1>8 DEF CallHolds

LEMMA CallsKeep ==
    ASSUME CallsHold, NEW h \in Handlers, Moves(h), CallHolds(call[h])',
           \A g \in Handlers : g # h =>
              Kept(g) /\ Compatible(call[g], call'[h]) /\ Compatible(call'[h], call[g])
    PROVE  CallsHold'
<1>1. ASSUME NEW g \in Handlers PROVE CallHolds(call[g])'
  <2>1. CASE g = h
      BY <2>1
  <2>2. CASE g # h
    <3>1. call'[g] = call[g] /\ CallHolds(call[g]) /\ Kept(g)
        BY <2>2 DEF Moves, CallsHold
    <3> QED BY <3>1, KeptHolds
  <2> QED BY <2>1, <2>2
<1>2. ASSUME NEW f \in Handlers, NEW g \in Handlers, f # g PROVE Compatible(call'[f], call'[g])
    BY <1>2 DEF Moves, CallsHold
<1>3. \A f, g \in Handlers : f # g => Compatible(call[f], call[g])'
    BY <1>2 DEF Compatible
<1> QED BY <1>1, <1>3 DEF CallsHold

LEMMA CallsSame ==
    ASSUME CallsHold, UNCHANGED call, \A g \in Handlers : Kept(g)
    PROVE  CallsHold'
<1>1. ASSUME NEW g \in Handlers PROVE CallHolds(call[g])'
  <2>1. call'[g] = call[g] /\ CallHolds(call[g]) /\ Kept(g)
      BY DEF CallsHold
  <2> QED BY <2>1, KeptHolds
<1> QED BY <1>1 DEF CallsHold, Compatible

(* Steps to a place where nothing is asked of the other handlers. *)
LEMMA Harmless ==
    ASSUME NEW c, NEW d, c.pc \notin {"retiring", "insert", "finish", "enqueue"}
    PROVE  Compatible(c, d) /\ Compatible(d, c)
BY DEF Compatible

(* Steps that change neither the database nor the store. *)
LEMMA CallStep ==
    ASSUME IInv, NEW h \in Handlers, UNCHANGED <<database, store>>, Moves(h), CallHolds(call'[h]),
           \A g \in Handlers : g # h => Compatible(call[g], call'[h]) /\ Compatible(call'[h], call[g])
    PROVE  IInv'
<1>1. UNCHANGED <<manifest, session, canonical, requested, job, store>>
    BY DEF database
<1>2. CallHolds(call[h])'
    BY <1>1 DEF CallHolds
<1>3. \A g \in Handlers : Kept(g)
    BY <1>1 DEF Kept
<1>4. CallsHold'
    BY <1>2, <1>3, CallsKeep DEF IInv
<1>5. TypeOK'
    BY <1>1 DEF IInv, TypeOK, Moves
<1>6. SessionsHold' /\ CanonicalHolds' /\ RowIsTruthful'
    BY <1>1 DEF IInv, SessionsHold, CanonicalHolds, RowIsTruthful, Of
<1> QED BY <1>4, <1>5, <1>6 DEF IInv

-----------------------------------------------------------------------------
(* Handlers that only read.                                                 *)

LEMMA RespondStep ==
    ASSUME IInv, NEW h \in Handlers, UNCHANGED <<database, store>>, Respond(h)
    PROVE  IInv'
<1>1. Moves(h) /\ call'[h] = Idle
    BY RespondMoves DEF IInv
<1>2. Idle.pc = "idle"
    BY DEF Idle
<1>3. \A g \in Handlers : g # h => Compatible(call[g], call'[h]) /\ Compatible(call'[h], call[g])
    BY <1>1, <1>2, Harmless
<1> QED BY <1>1, <1>3, IdleCall, CallStep

LEMMA GotoStep ==
    ASSUME IInv, NEW h \in Handlers, UNCHANGED <<database, store>>, NEW pc \in Steps, Goto(h, pc),
           pc \notin {"retiring", "insert", "finish", "enqueue"},
           call[h].pc # "idle",
           pc \in {"lookup", "checksum", "available", "mismatch", "missing"} =>
              manifest[call[h].row].art # None,
           pc = "available" => call[h].art \in Files,
           pc \in WithSession => call[h].ses \in Sessions,
           pc \notin Completing
    PROVE  IInv'
<1>1. /\ Moves(h) /\ call'[h].pc = pc
      /\ call'[h].row = call[h].row /\ call'[h].art = call[h].art
      /\ call'[h].ses = call[h].ses
    BY GotoMoves DEF IInv
<1>2. CallHolds(call[h])
    BY DEF IInv, CallsHold
<1>3. CallHolds(call'[h])
    BY <1>1, <1>2 DEF CallHolds, Completing
<1>4. \A g \in Handlers : g # h => Compatible(call[g], call'[h]) /\ Compatible(call'[h], call[g])
    BY <1>1, Harmless
<1> QED BY <1>1, <1>3, <1>4, CallStep

LEMMA ReadStep ==
    ASSUME IInv, NEW h \in Handlers,
           Lookup(h) \/ HasChecksum(h) \/ Check(h) \/ Find(h) \/ Cleanup(h) \/ Stop(h)
    PROVE  IInv'
<1>1. UNCHANGED <<database, store>>
    BY DEF Lookup, HasChecksum, Check, Find, Cleanup, Stop
<1>2. CallHolds(call[h])
    BY DEF IInv, CallsHold
<1>3. CASE Respond(h)
    BY <1>1, <1>3, RespondStep
<1>4. CASE Lookup(h)
  <2>1. PICK pc \in {"available", "checksum"} : Goto(h, pc) /\ (pc = "available" => call[h].art \in Files)
      BY <1>4 DEF Lookup
  <2>2. pc \in Steps /\ pc \notin Completing /\ pc \notin WithSession
      BY DEF Steps, Completing, WithSession
  <2>3. call[h].pc = "lookup"
      BY <1>4 DEF Lookup, At
  <2> QED BY <1>1, <1>2, <2>1, <2>2, <2>3, GotoStep DEF CallHolds
<1>5. CASE HasChecksum(h)
  <2>1. PICK pc \in {"mismatch", "missing"} : Goto(h, pc)
      BY <1>5 DEF HasChecksum
  <2>2. pc \in Steps /\ pc \notin Completing /\ pc \notin WithSession
      BY DEF Steps, Completing, WithSession
  <2>3. call[h].pc = "checksum"
      BY <1>5 DEF HasChecksum, At
  <2> QED BY <1>1, <1>2, <2>1, <2>2, <2>3, GotoStep DEF CallHolds
<1>6. CASE (Check(h) \/ Find(h)) /\ ~Respond(h)
  <2>1. PICK pc \in {"find", "create"} : Goto(h, pc)
      BY <1>6 DEF Check, Find
  <2>2. pc \in Steps /\ pc \notin Completing /\ pc \notin WithSession
      BY DEF Steps, Completing, WithSession
  <2>3. call[h].pc # "idle"
      BY <1>6 DEF Check, Find, At
  <2> QED BY <1>1, <2>1, <2>2, <2>3, GotoStep
<1>7. CASE Cleanup(h) /\ ~Respond(h)
  <2>1. Goto(h, "drop")
      BY <1>7 DEF Cleanup
  <2>2. "drop" \in Steps /\ "drop" \notin Completing
      BY DEF Steps, Completing
  <2>3. call[h].pc = "cleanup" /\ call[h].ses \in Sessions
      BY <1>2, <1>7 DEF Cleanup, At, CallHolds, WithSession
  <2> QED BY <1>1, <2>1, <2>2, <2>3, GotoStep
<1> QED BY <1>3, <1>4, <1>5, <1>6, <1>7 DEF Stop

LEMMA NegotiateIInv ==
    ASSUME IInv, NEW h \in Handlers, NEW r \in Rows, NEW a \in Artifacts, Negotiate(h, r, a)
    PROVE  IInv'
<1> DEFINE seen == Live(r) # {}
           new == [Idle EXCEPT !.pc = "upsert", !.row = r, !.art = a, !.seen = seen]
<1>1. UNCHANGED <<database, store>> /\ call' = [call EXCEPT ![h] = new]
    BY DEF Negotiate
<1>2. seen \in BOOLEAN
    OBVIOUS
<1> HIDE DEF seen
<1>3. new \in Call /\ new.pc = "upsert" /\ new.row = r /\ new.art = a
    BY <1>2, IdleCall DEF Call, Steps
<1> HIDE DEF new
<1>4. Moves(h) /\ call'[h] = new
    BY <1>1, <1>3 DEF Moves, IInv, TypeOK
<1>5. CallHolds(call'[h])
    BY <1>3, <1>4 DEF CallHolds, WithSession, Completing
<1>6. \A g \in Handlers : g # h => Compatible(call[g], call'[h]) /\ Compatible(call'[h], call[g])
    BY <1>3, <1>4, Harmless
<1> QED BY <1>1, <1>4, <1>5, <1>6, CallStep

LEMMA CompleteIInv ==
    ASSUME IInv, NEW h \in Handlers, NEW s \in Sessions, Complete(h, s)
    PROVE  IInv'
<1> DEFINE q == session[s]
           step == CASE q.state = "completed" -> "cleanup"
                     [] q.state = "failed" -> "drop"
                     [] q.state = "active" /\ ~q.expired /\ q.etag # None -> "claim"
                     [] q.state = "completing" -> "head"
                     [] OTHER -> "idle"
           new == [Idle EXCEPT !.pc = step, !.row = q.row, !.art = q.art, !.ses = s, !.part = q.etag]
<1>1. UNCHANGED <<database, store>> /\ call' = [call EXCEPT ![h] = new] /\ step # "idle"
    BY DEF Complete
<1>2. /\ step \in {"cleanup", "drop", "claim", "head"}
      /\ step = "head" => q.state # "active"
      /\ q.state # "absent"
    BY <1>1
<1>3. q \in Session /\ q.row \in Rows /\ q.art \in Artifacts
    BY <1>2 DEF IInv, TypeOK, SessionsHold
<1> HIDE DEF step
<1>4. new \in Call /\ new.pc = step /\ new.row = q.row /\ new.art = q.art /\ new.ses = s
    BY <1>2, <1>3, IdleCall DEF Call, Steps, Session
<1> HIDE DEF new
<1>5. Moves(h) /\ call'[h] = new
    BY <1>1, <1>4 DEF Moves, IInv, TypeOK
<1>6. CallHolds(call'[h])
    BY <1>2, <1>3, <1>4, <1>5 DEF CallHolds, WithSession, Completing
<1>7. \A g \in Handlers : g # h => Compatible(call[g], call'[h]) /\ Compatible(call'[h], call[g])
    BY <1>2, <1>4, <1>5, Harmless
<1> QED BY <1>1, <1>5, <1>6, <1>7, CallStep

LEMMA RetiredMoves ==
    ASSUME IInv, NEW h \in Handlers, Retired(h), call[h].pc # "idle"
    PROVE  Moves(h) /\ CallHolds(call[h])' /\ call'[h].pc \in {"check", "upsert"}
<1>1. call[h] \in Call /\ CallHolds(call[h]) /\ call \in [Handlers -> Call]
    BY DEF IInv, TypeOK, CallsHold
<1> DEFINE pc == IF call[h].staling THEN "check" ELSE "upsert"
           seen == ~call[h].staling /\ Live(call[h].row) # {}
           new == [call[h] EXCEPT !.pc = pc, !.ses = None, !.seen = seen]
<1>2. call' = [call EXCEPT ![h] = new]
    BY <1>1 DEF Retired
<1>3. pc \in {"check", "upsert"} /\ seen \in BOOLEAN
    OBVIOUS
<1> HIDE DEF pc, seen
<1>4. new \in Call /\ new.pc = pc /\ new.row = call[h].row /\ new.art = call[h].art
    BY <1>1, <1>3 DEF Call, Steps
<1> HIDE DEF new
<1>5. Moves(h) /\ call'[h] = new
    BY <1>1, <1>2, <1>4 DEF Moves
<1> QED BY <1>1, <1>3, <1>4, <1>5 DEF CallHolds, WithSession, Completing

(* A session that is read to be retired is not being completed yet. *)
LEMMA RetireReadIInv ==
    ASSUME IInv, NEW h \in Handlers, RetireRead(h)
    PROVE  IInv'
<1>1. UNCHANGED <<database, store>> /\ call[h].pc = "retire"
    BY DEF RetireRead, At
<1>2. call[h] \in Call /\ CallHolds(call[h]) /\ call \in [Handlers -> Call]
    BY DEF IInv, TypeOK, CallsHold
<1>3. CASE Retirable(h) = {}
  <2>1. Retired(h)
      BY <1>3 DEF RetireRead
  <2>2. Moves(h) /\ CallHolds(call[h])' /\ call'[h].pc \in {"check", "upsert"}
      BY <1>1, <2>1, RetiredMoves
  <2>3. CallHolds(call'[h])
      BY <1>1, <2>2 DEF CallHolds, database
  <2> QED BY <1>1, <2>2, <2>3, CallStep, Harmless
<1>4. CASE Retirable(h) # {}
  <2>1. PICK s \in Retirable(h) : call' = [call EXCEPT ![h].pc = "retiring", ![h].ses = s]
      BY <1>4 DEF RetireRead
  <2>2. s \in Sessions /\ session[s].row = call[h].row /\ session[s].state = "active"
      BY DEF Retirable, Of
  <2> DEFINE new == [call[h] EXCEPT !.pc = "retiring", !.ses = s]
  <2>3. call' = [call EXCEPT ![h] = new]
      BY <1>2, <2>1
  <2>4. /\ new \in Call /\ new.pc = "retiring" /\ new.row = call[h].row /\ new.art = call[h].art
        /\ new.ses = s
      BY <1>2, <2>2 DEF Call, Steps
  <2> HIDE DEF new
  <2>5. Moves(h) /\ call'[h] = new
      BY <1>2, <2>3, <2>4 DEF Moves
  <2>6. CallHolds(call'[h])
      BY <1>1, <1>2, <2>2, <2>4, <2>5 DEF CallHolds, WithSession, Completing, Retiring
  <2>7. ASSUME NEW g \in Handlers
        PROVE  Compatible(call[g], call'[h]) /\ Compatible(call'[h], call[g])
    <3>1. call[g].pc \in {"finish", "enqueue"} => call[g].ses # s
        BY <2>2 DEF IInv, CallsHold, CallHolds
    <3> QED BY <2>4, <2>5, <3>1 DEF Compatible
  <2> QED BY <1>1, <2>5, <2>6, <2>7, CallStep
<1> QED BY <1>3, <1>4

(* The head request waits for those that retire sessions of the row. *)
LEMMA HeadIInv ==
    ASSUME IInv, NEW h \in Handlers, Head(h)
    PROVE  IInv'
<1>1. UNCHANGED <<database, store>> /\ call[h].pc = "head" /\ ~Busy(call[h].row)
    BY DEF Head, At
<1>2. CallHolds(call[h])
    BY DEF IInv, CallsHold
<1>3. PICK pc \in {"enqueue", "finish"} : Goto(h, pc)
    BY DEF Head
<1>4. /\ Moves(h) /\ call'[h].pc = pc
      /\ call'[h].row = call[h].row /\ call'[h].art = call[h].art
      /\ call'[h].ses = call[h].ses
    BY <1>3, GotoMoves DEF IInv, Steps
<1>5. CallHolds(call'[h])
    BY <1>1, <1>2, <1>4 DEF CallHolds, Completing, WithSession
<1>6. ASSUME NEW g \in Handlers
      PROVE  Compatible(call[g], call'[h]) /\ Compatible(call'[h], call[g])
  <2>1. call[g].pc = "retiring" => call[g].ses # call[h].ses
    <3>1. call[g].pc = "retiring" => session[call[g].ses].row = call[g].row /\ call[g].row # call[h].row
        BY <1>1 DEF IInv, CallsHold, CallHolds, Busy
    <3>2. session[call[h].ses].row = call[h].row
        BY <1>1, <1>2 DEF CallHolds, Completing
    <3> QED BY <3>1, <3>2
  <2> QED BY <1>4, <2>1 DEF Compatible
<1> QED BY <1>1, <1>4, <1>5, <1>6, CallStep

-----------------------------------------------------------------------------
(* Handlers that write a row of the manifest.                               *)

LEMMA ManifestStep ==
    ASSUME IInv, NEW h \in Handlers, NEW r \in Rows, NEW m \in Row,
           manifest' = [manifest EXCEPT ![r] = m],
           m.image # None <=> m.state = "available",
           m.art = None => manifest[r].art = None,
           m.state = "processing" => manifest[r].state = "processing" /\ m.art = manifest[r].art,
           m.state = "available" => <<r, Checksum[m.art]>> \in requested',
           requested \subseteq requested', requested' \subseteq Rows \X Files,
           UNCHANGED <<session, canonical, job, store>>,
           Moves(h), CallHolds(call[h])',
           call'[h].pc \notin {"retiring", "insert", "finish", "enqueue"}
    PROVE  IInv'
<1>1. /\ manifest \in [Rows -> Row] /\ manifest' \in [Rows -> Row] /\ manifest'[r] = m
      /\ \A x \in Rows : x # r => manifest'[x] = manifest[x]
    BY DEF IInv, TypeOK
<1>2. \A g \in Handlers : Kept(g)
    BY <1>1 DEF Kept
<1>3. CallsHold'
    BY <1>2, CallsKeep, Harmless DEF IInv
<1>4. TypeOK'
    BY <1>1 DEF IInv, TypeOK, Moves
<1>5. SessionsHold' /\ CanonicalHolds'
    BY DEF IInv, SessionsHold, CanonicalHolds
<1>6. RowIsTruthful'
  <2> SUFFICES ASSUME NEW x \in Rows
               PROVE  /\ manifest'[x].state = "processing" =>
                            \E s \in Of(x, {"processing"}) :
                               session[s].art = manifest'[x].art /\ job[s] \in {"pending", "leased"}
                      /\ manifest'[x].state = "available" =>
                            <<x, Checksum[manifest'[x].art]>> \in requested'
      BY DEF RowIsTruthful, Of
  <2>1. CASE x = r
      BY <1>1, <2>1 DEF IInv, RowIsTruthful
  <2>2. CASE x # r
      BY <1>1, <2>2 DEF IInv, RowIsTruthful
  <2> QED BY <2>1, <2>2
<1> QED BY <1>3, <1>4, <1>5, <1>6 DEF IInv

LEMMA UpsertIInv ==
    ASSUME IInv, NEW h \in Handlers, Upsert(h)
    PROVE  IInv'
<1> DEFINE c == call[h]
           m == manifest[c.row]
           free == m.state = "absent" \/ ~c.seen \/ m.art = c.art
<1>1. c.pc = "upsert" /\ c \in Call /\ CallHolds(c) /\ call \in [Handlers -> Call]
    BY DEF Upsert, At, IInv, TypeOK, CallsHold
<1>2. c.row \in Rows /\ c.art \in Artifacts /\ m \in Row
    BY <1>1 DEF CallHolds, IInv, TypeOK
<1>3. CASE free /\ ~Refused(c.row)
  <2> DEFINE state == IF m.state = "processing" /\ m.art = c.art THEN "processing" ELSE "missing"
             row == [state |-> state, art |-> c.art, image |-> None]
             new == [c EXCEPT !.pc = "lookup", !.seen = FALSE]
  <2>1. manifest' = [manifest EXCEPT ![c.row] = row] /\ call' = [call EXCEPT ![h] = new]
      BY <1>1, <1>3 DEF Upsert
  <2>2. UNCHANGED <<session, canonical, requested, job, store>>
      BY DEF Upsert
  <2>3. /\ row \in Row /\ row.image = None /\ row.art = c.art /\ row.state \in {"processing", "missing"}
        /\ row.state = "processing" => m.state = "processing" /\ m.art = c.art
      BY <1>2 DEF Row
  <2>4. new \in Call /\ new.pc = "lookup" /\ new.row = c.row /\ new.art = c.art
      BY <1>1 DEF Call, Steps
  <2> HIDE DEF row, new
  <2>5. Moves(h) /\ call'[h] = new /\ manifest'[c.row] = row
      BY <1>1, <1>2, <2>1, <2>4 DEF Moves, IInv, TypeOK
  <2>6. c.art # None
      BY <1>2, UploadAssumption
  <2>7. CallHolds(call[h])'
      BY <1>2, <2>3, <2>4, <2>5, <2>6 DEF CallHolds, WithSession, Completing
  <2>8. requested \subseteq Rows \X Files
      BY DEF IInv, TypeOK
  <2> QED BY <1>2, <2>1, <2>2, <2>3, <2>4, <2>5, <2>6, <2>7, <2>8, ManifestStep
<1>4. CASE ~(free /\ ~Refused(c.row))
  <2>1. UNCHANGED <<database, store>>
      BY <1>4 DEF Upsert, database
  <2>2. CASE Respond(h)
      BY <2>1, <2>2, RespondStep
  <2>3. CASE ~Respond(h)
    <3> DEFINE new == [c EXCEPT !.pc = "retire", !.seen = FALSE, !.again = TRUE]
    <3>1. call' = [call EXCEPT ![h] = new]
        BY <1>1, <1>4, <2>3 DEF Upsert
    <3>2. new \in Call /\ new.pc = "retire" /\ new.row = c.row /\ new.art = c.art
        BY <1>1 DEF Call, Steps
    <3> HIDE DEF new
    <3>3. Moves(h) /\ call'[h] = new
        BY <1>1, <3>1, <3>2 DEF Moves
    <3>4. CallHolds(call'[h])
        BY <1>2, <3>2, <3>3 DEF CallHolds, WithSession, Completing
    <3> QED BY <2>1, <3>2, <3>3, <3>4, CallStep, Harmless
  <2> QED BY <2>2, <2>3
<1> QED BY <1>3, <1>4

LEMMA MarkIInv ==
    ASSUME IInv, NEW h \in Handlers, MarkAvailable(h) \/ MarkMismatch(h) \/ MarkMissing(h)
    PROVE  IInv'
<1> DEFINE c == call[h]
           m == manifest[c.row]
<1>1. /\ c.pc \in {"available", "mismatch", "missing"} /\ c \in Call /\ CallHolds(c)
      /\ call \in [Handlers -> Call] /\ manifest \in [Rows -> Row] /\ requested \subseteq Rows \X Files
    BY DEF MarkAvailable, MarkMismatch, MarkMissing, At, IInv, TypeOK, CallsHold
<1>2. c.row \in Rows /\ c.art \in Artifacts /\ m \in Row /\ m.art # None
    BY <1>1 DEF CallHolds
<1>3. UNCHANGED <<session, canonical, job, store>>
    BY DEF MarkAvailable, MarkMismatch, MarkMissing
<1>4. Respond(h) => Moves(h) /\ call'[h].pc = "idle" /\ CallHolds(call[h])'
  <2> HAVE Respond(h)
  <2>1. Moves(h) /\ call'[h] = Idle /\ Idle.pc = "idle"
      BY RespondMoves DEF IInv, Idle
  <2> QED BY <2>1 DEF CallHolds, WithSession, Completing
<1>5. CASE MarkAvailable(h)
  <2> DEFINE row == [m EXCEPT !.state = "available", !.image = c.art]
  <2>1. manifest' = [manifest EXCEPT ![c.row] = row] /\ Respond(h)
      BY <1>1, <1>2, <1>5 DEF MarkAvailable
  <2>2. c.art \in Files /\ c.art # None
      BY <1>1, <1>5, UploadAssumption DEF MarkAvailable, At, CallHolds
  <2>3. row \in Row /\ row.state = "available" /\ row.image = c.art /\ row.art = m.art
      BY <1>2, <2>2 DEF Row
  <2> HIDE DEF row
  <2>4. requested' = requested \cup {<<c.row, Checksum[m.art]>>}
      BY <1>5 DEF MarkAvailable, Request
  <2>5. Checksum[m.art] \in Files
      BY <1>2, UploadAssumption DEF Row
  <2>6. requested' \subseteq Rows \X Files /\ requested \subseteq requested'
      BY <1>1, <1>2, <2>4, <2>5
  <2> QED BY <1>2, <1>3, <1>4, <2>1, <2>2, <2>3, <2>4, <2>6, ManifestStep
<1>6. CASE Refused(c.row) /\ ~MarkAvailable(h)
  <2>1. UNCHANGED <<database, store>> /\ Respond(h)
      BY <1>6 DEF MarkMismatch, MarkMissing, database
  <2> QED BY <2>1, RespondStep
<1>7. CASE MarkMismatch(h) /\ ~Refused(c.row)
  <2> DEFINE row == [m EXCEPT !.state = "mismatch", !.image = None]
  <2>1. manifest' = [manifest EXCEPT ![c.row] = row] /\ Respond(h) /\ UNCHANGED requested
      BY <1>1, <1>2, <1>7 DEF MarkMismatch
  <2>2. row \in Row /\ row.state = "mismatch" /\ row.image = None /\ row.art = m.art
      BY <1>2 DEF Row
  <2> HIDE DEF row
  <2> QED BY <1>1, <1>2, <1>3, <1>4, <2>1, <2>2, ManifestStep
<1>8. CASE MarkMissing(h) /\ ~Refused(c.row)
  <2> DEFINE new == [c EXCEPT !.pc = "retire", !.staling = TRUE]
  <2>1. call' = [call EXCEPT ![h] = new] /\ UNCHANGED requested
      BY <1>1, <1>8 DEF MarkMissing
  <2>2. new \in Call /\ new.pc = "retire" /\ new.row = c.row /\ new.art = c.art
      BY <1>1 DEF Call, Steps
  <2> HIDE DEF new
  <2>3. Moves(h) /\ call'[h] = new
      BY <1>1, <2>1, <2>2 DEF Moves
  <2>4. CallHolds(call[h])'
      BY <1>2, <2>2, <2>3 DEF CallHolds, WithSession, Completing
  <2> DEFINE row == IF m.state = "processing" THEN m ELSE [m EXCEPT !.state = "missing", !.image = None]
  <2>5. manifest' = [manifest EXCEPT ![c.row] = row]
      BY <1>1, <1>2, <1>8 DEF MarkMissing
  <2>6. /\ row \in Row /\ row.art = m.art /\ row.image = None /\ row.state # "available"
        /\ row.state = "processing" => m.state = "processing"
      BY <1>2 DEF Row, IInv, TypeOK
  <2> HIDE DEF row
  <2> QED BY <1>1, <1>2, <1>3, <2>1, <2>2, <2>3, <2>4, <2>5, <2>6, ManifestStep
<1> QED BY <1>5, <1>6, <1>7, <1>8

-----------------------------------------------------------------------------
(* Calls to the object store.                                               *)

LEMMA StoreStep ==
    ASSUME IInv, NEW s \in Sessions, NEW d \in Store, store' = [store EXCEPT ![s] = d],
           d.upload # "none",
           d.object # None => d.upload = "closed",
           store[s].upload = "closed" => d.upload = "closed" /\ d.object \in {store[s].object, None},
           UNCHANGED database, call' \in [Handlers -> Call], CallsHold'
    PROVE  IInv'
<1>1. UNCHANGED <<manifest, session, canonical, requested, job>>
    BY DEF database
<1>2. /\ store' \in [Sessions -> Store] /\ store'[s] = d
      /\ \A x \in Sessions : x # s => store'[x] = store[x]
    BY DEF IInv, TypeOK
<1>3. TypeOK'
    BY <1>1, <1>2 DEF IInv, TypeOK
<1>4. SessionsHold'
    BY <1>1, <1>2 DEF IInv, SessionsHold
<1>5. CanonicalHolds'
  <2> SUFFICES ASSUME NEW f \in Files, canonical[f] # None
               PROVE  /\ session[canonical[f]].state = "completed"
                      /\ store'[canonical[f]].upload = "closed"
                      /\ store'[canonical[f]].object \in {f, None}
                      /\ job[canonical[f]] # "discard"
      BY <1>1 DEF CanonicalHolds
  <2>1. canonical[f] \in Sessions
      BY DEF IInv, TypeOK
  <2> QED BY <1>2, <2>1 DEF IInv, CanonicalHolds
<1>6. RowIsTruthful'
    BY <1>1 DEF IInv, RowIsTruthful, Of
<1> QED BY <1>3, <1>4, <1>5, <1>6 DEF IInv

(* A step of one handler on the store of one session. *)
LEMMA StoreCalls ==
    ASSUME IInv, NEW h \in Handlers, NEW s \in Sessions, NEW d \in Store,
           store' = [store EXCEPT ![s] = d], d.upload # "none", UNCHANGED database,
           Moves(h), CallHolds(call[h])',
           \A g \in Handlers : g # h => Compatible(call[g], call'[h]) /\ Compatible(call'[h], call[g])
    PROVE  CallsHold'
<1>1. \A x \in Sessions : store[x].upload # "none" => store'[x].upload # "none"
    BY DEF IInv, TypeOK
<1>2. \A g \in Handlers : Kept(g)
    BY <1>1 DEF Kept, database
<1> QED BY <1>2, CallsKeep DEF IInv

(* Closing an upload keeps its object. *)
LEMMA AbortShape ==
    ASSUME IInv, NEW s \in Sessions, AbortUpload(s)
    PROVE  \/ UNCHANGED store
           \/ \E d \in Store : /\ store' = [store EXCEPT ![s] = d]
                               /\ d.upload = "closed" /\ d.object = store[s].object
<1>1. store[s] \in Store
    BY DEF IInv, TypeOK
<1> DEFINE d == Closed(store[s].object)
<1>2. d \in Store /\ d.upload = "closed" /\ d.object = store[s].object
    BY <1>1 DEF Store, Closed
<1> HIDE DEF d
<1>3. UNCHANGED store \/ store' = [store EXCEPT ![s] = d]
    BY DEF AbortUpload, d
<1> QED BY <1>2, <1>3

LEMMA AbortIInv ==
    ASSUME IInv, NEW h \in Handlers, Abort(h) \/ Undo(h)
    PROVE  IInv'
<1> DEFINE s == call[h].ses
<1>1. UNCHANGED database /\ AbortUpload(s) /\ call[h].pc \in {"abort", "undo"}
    BY DEF Abort, Undo, At
<1>2. s \in Sessions
    BY <1>1 DEF IInv, CallsHold, CallHolds, WithSession
<1>3. Moves(h) /\ CallHolds(call[h])' /\ call'[h].pc \in {"check", "upsert", "idle"}
  <2>1. CASE Abort(h)
      BY <1>1, <2>1, RetiredMoves DEF Abort
  <2>2. CASE Undo(h)
    <3>1. Moves(h) /\ call'[h] = Idle /\ Idle.pc = "idle"
        BY <2>2, RespondMoves DEF IInv, Undo, Idle
    <3> QED BY <3>1 DEF CallHolds, WithSession, Completing
  <2> QED BY <2>1, <2>2
<1> HIDE DEF s
<1>4. CASE UNCHANGED store
  <2>1. CallHolds(call'[h])
      BY <1>1, <1>3, <1>4 DEF CallHolds, database
  <2> QED BY <1>1, <1>3, <1>4, <2>1, CallStep, Harmless
<1>5. ASSUME NEW d \in Store, store' = [store EXCEPT ![s] = d],
             d.upload = "closed", d.object = store[s].object
      PROVE  IInv'
  <2>1. CallsHold'
      BY <1>1, <1>2, <1>3, <1>5, StoreCalls, Harmless
  <2> QED BY <1>1, <1>2, <1>3, <1>5, <2>1, StoreStep DEF Moves
<1> QED BY <1>1, <1>2, <1>4, <1>5, AbortShape

LEMMA CreateIInv ==
    ASSUME IInv, NEW h \in Handlers, Create(h)
    PROVE  IInv'
<1>1. PICK s \in Sessions :
         /\ store[s].upload = "none"
         /\ store' = [store EXCEPT ![s].upload = "open"]
         /\ call' = [call EXCEPT ![h].pc = "insert", ![h].ses = s]
    BY DEF Create
<1>2. UNCHANGED database /\ call[h].pc = "create"
    BY DEF Create, At
<1>3. store[s] \in Store /\ store \in [Sessions -> Store] /\ call[h] \in Call /\ call \in [Handlers -> Call]
    BY DEF IInv, TypeOK
<1> DEFINE d == [store[s] EXCEPT !.upload = "open"]
           new == [call[h] EXCEPT !.pc = "insert", !.ses = s]
<1>4. store' = [store EXCEPT ![s] = d] /\ call' = [call EXCEPT ![h] = new]
    BY <1>1, <1>3
<1>5. d \in Store /\ d.upload = "open" /\ d.object = store[s].object
    BY <1>3 DEF Store
<1>6. /\ new \in Call /\ new.pc = "insert" /\ new.ses = s
      /\ new.row = call[h].row /\ new.art = call[h].art
    BY <1>3 DEF Call, Steps
<1> HIDE DEF d, new
<1>7. Moves(h) /\ call'[h] = new /\ store'[s] = d
    BY <1>3, <1>4, <1>6 DEF Moves
<1>8. session[s].state = "absent" /\ store[s].object = None
    BY <1>1 DEF IInv, SessionsHold
<1>9. CallHolds(call[h]) /\ session' = session
    BY <1>2 DEF IInv, CallsHold, database
<1>10. CallHolds(call[h])'
    BY <1>2, <1>5, <1>6, <1>7, <1>8, <1>9 DEF CallHolds, WithSession, Completing
<1>11. ASSUME NEW g \in Handlers
       PROVE  Compatible(call[g], call'[h]) /\ Compatible(call'[h], call[g])
  <2>1. call[g].pc = "insert" => call[g].ses # s
      BY <1>1 DEF IInv, CallsHold, CallHolds
  <2> QED BY <1>6, <1>7, <2>1 DEF Compatible
<1>12. CallsHold'
    BY <1>2, <1>4, <1>5, <1>7, <1>10, <1>11, StoreCalls
<1> QED BY <1>1, <1>2, <1>4, <1>5, <1>7, <1>8, <1>12, StoreStep DEF Moves

LEMMA FinishIInv ==
    ASSUME IInv, NEW h \in Handlers, Finish(h)
    PROVE  IInv'
<1> DEFINE s == call[h].ses
<1>1. UNCHANGED database /\ call[h].pc = "finish" /\ call[h] \in Call /\ CallHolds(call[h])
    BY DEF Finish, At, IInv, TypeOK, CallsHold
<1>2. s \in Sessions
    BY <1>1 DEF CallHolds, WithSession, Completing
<1>3. CASE store[s].upload = "open" /\ store[s].part = call[h].part
  <2> DEFINE d == Closed(call[h].part)
  <2>1. store' = [store EXCEPT ![s] = d] /\ (Goto(h, "enqueue") \/ Respond(h))
      BY <1>3 DEF Finish
  <2>2. d \in Store /\ d.upload = "closed"
      BY <1>1 DEF Call, Store, Closed
  <2> HIDE DEF d
  <2>3. Moves(h) /\ CallHolds(call[h])'
        /\ \A g \in Handlers : g # h => Compatible(call[g], call'[h]) /\ Compatible(call'[h], call[g])
    <3>1. CASE Respond(h)
      <4>1. Moves(h) /\ call'[h] = Idle /\ Idle.pc = "idle"
          BY <3>1, RespondMoves DEF IInv, Idle
      <4> QED BY <4>1, Harmless DEF CallHolds, WithSession, Completing
    <3>2. CASE Goto(h, "enqueue")
      <4>1. /\ Moves(h) /\ call'[h].pc = "enqueue" /\ call'[h].ses = s
            /\ call'[h].row = call[h].row /\ call'[h].art = call[h].art
          BY <3>2, GotoMoves DEF IInv, Steps
      <4>2. CallHolds(call[h])'
          BY <1>1, <4>1 DEF CallHolds, WithSession, Completing, database
      <4>3. ASSUME NEW g \in Handlers, g # h
            PROVE  Compatible(call[g], call'[h]) /\ Compatible(call'[h], call[g])
        <5>1. Compatible(call[g], call[h])
            BY <4>3 DEF IInv, CallsHold
        <5> QED BY <1>1, <4>1, <5>1 DEF Compatible
      <4> QED BY <4>1, <4>2, <4>3
    <3> QED BY <2>1, <3>1, <3>2
  <2> HIDE DEF s
  <2>4. CallsHold'
      BY <1>1, <1>2, <2>1, <2>2, <2>3, StoreCalls
  <2> QED BY <1>1, <1>2, <1>3, <2>1, <2>2, <2>3, <2>4, StoreStep DEF Moves
<1>4. CASE ~(store[s].upload = "open" /\ store[s].part = call[h].part)
  <2>1. UNCHANGED <<database, store>> /\ Respond(h)
      BY <1>4 DEF Finish
  <2> QED BY <2>1, RespondStep
<1> QED BY <1>3, <1>4

LEMMA DropObjectIInv ==
    ASSUME IInv, NEW h \in Handlers, DropObject(h)
    PROVE  IInv'
<1> DEFINE s == call[h].ses
           d == [store[s] EXCEPT !.object = None]
<1>1. UNCHANGED database /\ call[h].pc = "drop" /\ CallHolds(call[h]) /\ Respond(h)
    BY DEF DropObject, At, IInv, CallsHold
<1>2. s \in Sessions
    BY <1>1 DEF CallHolds, WithSession
<1>3. store[s] \in Store /\ store \in [Sessions -> Store]
    BY <1>2 DEF IInv, TypeOK
<1>4. store' = [store EXCEPT ![s] = d]
    BY <1>2, <1>3 DEF DropObject
<1>5. d \in Store /\ d.upload = store[s].upload /\ d.object = None
    BY <1>3 DEF Store
<1>6. Moves(h) /\ call'[h] = Idle /\ Idle.pc = "idle"
    BY <1>1, RespondMoves DEF IInv, Idle
<1>7. CallHolds(call[h])'
    BY <1>6 DEF CallHolds, WithSession, Completing
<1> HIDE DEF s, d
<1>8. CASE store[s].upload = "none"
  <2>1. store[s].object = None
      BY <1>2, <1>8 DEF IInv, SessionsHold
  <2>2. d = store[s]
      BY <1>3, <2>1 DEF d, Store
  <2>3. UNCHANGED store
      BY <1>3, <1>4, <2>2
  <2> QED BY <1>1, <2>3, RespondStep
<1>9. CASE store[s].upload # "none"
  <2>1. CallsHold'
      BY <1>1, <1>2, <1>4, <1>5, <1>6, <1>7, <1>9, StoreCalls, Harmless
  <2> QED BY <1>1, <1>2, <1>4, <1>5, <1>6, <1>9, <2>1, StoreStep DEF Moves
<1> QED BY <1>8, <1>9

LEMMA PutPartIInv ==
    ASSUME IInv, NEW s \in Sessions, NEW f \in Files, PutPart(s, f)
    PROVE  IInv'
<1> DEFINE d == [store[s] EXCEPT !.part = f]
<1>1. store[s] \in Store /\ store \in [Sessions -> Store] /\ call \in [Handlers -> Call]
    BY DEF IInv, TypeOK
<1>2. /\ store' = [store EXCEPT ![s] = d] /\ store[s].upload = "open"
      /\ UNCHANGED <<database, call>>
    BY <1>1 DEF PutPart
<1>3. d \in Store /\ d.upload = "open" /\ d.object = store[s].object
    BY <1>1, <1>2 DEF Store
<1> HIDE DEF d
<1>4. \A x \in Sessions : store[x].upload # "none" => store'[x].upload # "none"
    BY <1>1, <1>2, <1>3
<1>5. \A g \in Handlers : Kept(g)
    BY <1>2, <1>4 DEF Kept, database
<1>6. CallsHold'
    BY <1>2, <1>5, CallsSame DEF IInv
<1>7. store[s].object = None
    BY <1>2 DEF IInv, SessionsHold
<1> QED BY <1>1, <1>2, <1>3, <1>6, <1>7, StoreStep

-----------------------------------------------------------------------------
(* Sessions before their index job.                                         *)

LEMMA SessionStep ==
    ASSUME IInv, NEW s \in Sessions, NEW q \in Session, session' = [session EXCEPT ![s] = q],
           q.row \in Rows, q.art \in Artifacts, store[s].upload # "none",
           q.state \in Retiring, session[s].state \in Retiring \cup {"absent"},
           session[s].state = "aborted" => q.state = "aborted",
           UNCHANGED <<manifest, canonical, requested, job, store>>,
           call' \in [Handlers -> Call], CallsHold'
    PROVE  IInv'
<1>1. /\ session' \in [Sessions -> Session] /\ session'[s] = q
      /\ \A x \in Sessions : x # s => session'[x] = session[x]
    BY DEF IInv, TypeOK
<1>2. TypeOK'
    BY <1>1 DEF IInv, TypeOK
<1>3. SessionsHold'
    BY <1>1 DEF IInv, SessionsHold, Retiring
<1>4. CanonicalHolds'
    BY <1>1 DEF IInv, TypeOK, CanonicalHolds, Retiring
<1>5. RowIsTruthful'
  <2>1. ASSUME NEW r \in Rows PROVE Of(r, {"processing"})' = Of(r, {"processing"})
      BY <1>1 DEF Of, Retiring
  <2>2. \A r \in Rows : \A x \in Of(r, {"processing"}) : session'[x] = session[x]
      BY <1>1 DEF Of, Retiring
  <2> QED BY <2>1, <2>2 DEF IInv, RowIsTruthful
<1> QED BY <1>2, <1>3, <1>4, <1>5 DEF IInv

(* The effect on the handlers: none of those that complete it is past head  *)
(* when a session is retired.                                               *)
LEMMA SessionKept ==
    ASSUME IInv, NEW s \in Sessions, NEW q \in Session, session' = [session EXCEPT ![s] = q],
           q.row = session[s].row, q.art = session[s].art, session[s].state # "absent",
           q.state \in Retiring, q.state = "active" => session[s].state = "active",
           UNCHANGED <<manifest, store>>
    PROVE  \A g \in Handlers : Kept(g)
<1>1. /\ session'[s] = q
      /\ \A x \in Sessions : x # s => session'[x] = session[x]
    BY DEF IInv, TypeOK
<1>2. q.state # "absent"
    BY DEF Retiring
<1> QED BY <1>1, <1>2 DEF Kept

LEMMA RetireWriteIInv ==
    ASSUME IInv, NEW h \in Handlers, RetireWrite(h)
    PROVE  IInv'
<1> DEFINE s == call[h].ses
           q == Moved(session[s], "aborted")
<1>1. call[h].pc = "retiring" /\ CallHolds(call[h]) /\ Goto(h, "abort")
    BY DEF RetireWrite, At, IInv, CallsHold
<1>2. s \in Sessions /\ session[s].state \in Retiring
    BY <1>1 DEF CallHolds, WithSession
<1>3. session[s] \in Session /\ session[s].state # "absent"
    BY <1>2 DEF IInv, TypeOK, Retiring
<1>4. /\ session' = [session EXCEPT ![s] = q]
      /\ UNCHANGED <<manifest, canonical, requested, job, store>>
    BY <1>2, <1>3 DEF RetireWrite, IInv, TypeOK
<1>5. q \in Session /\ q.state = "aborted" /\ q.row = session[s].row /\ q.art = session[s].art
    BY <1>3 DEF Session, Moved
<1>6. q.row \in Rows /\ q.art \in Artifacts /\ store[s].upload # "none"
    BY <1>2, <1>3, <1>5 DEF IInv, SessionsHold
<1>7. /\ Moves(h) /\ call'[h].pc = "abort" /\ call'[h].ses = s
      /\ call'[h].row = call[h].row /\ call'[h].art = call[h].art
    BY <1>1, GotoMoves DEF IInv, Steps
<1> HIDE DEF s, q
<1>8. CallHolds(call[h])'
    BY <1>1, <1>2, <1>7 DEF CallHolds, WithSession, Completing
<1>9. \A g \in Handlers : Kept(g)
    BY <1>2, <1>3, <1>4, <1>5, SessionKept DEF Retiring
<1>10. CallsHold'
    BY <1>7, <1>8, <1>9, CallsKeep, Harmless DEF IInv
<1>11. q.state \in Retiring
    BY <1>5 DEF Retiring
<1> QED BY <1>2, <1>4, <1>5, <1>6, <1>7, <1>10, <1>11, SessionStep DEF Moves

LEMMA InsertIInv ==
    ASSUME IInv, NEW h \in Handlers, Insert(h)
    PROVE  IInv'
<1> DEFINE c == call[h]
           s == c.ses
           q == [state |-> "active", row |-> c.row, art |-> c.art, expired |-> FALSE, etag |-> None]
           new == manifest[c.row].art = c.art /\ Live(c.row) = {}
<1>1. c.pc = "insert" /\ CallHolds(c)
    BY DEF Insert, At, IInv, CallsHold
<1>2. /\ s \in Sessions /\ c.row \in Rows /\ c.art \in Artifacts
      /\ session[s].state = "absent" /\ store[s].upload # "none"
    BY <1>1 DEF CallHolds, WithSession
<1>3. CASE new
  <2>1. /\ session' = [session EXCEPT ![s] = q] /\ Respond(h)
        /\ UNCHANGED <<manifest, canonical, requested, job, store>>
      BY <1>3 DEF Insert
  <2>2. q \in Session /\ q.state = "active" /\ q.row \in Rows /\ q.art \in Artifacts
      BY <1>2 DEF Session, LiveStates
  <2>3. Moves(h) /\ call'[h] = Idle /\ Idle.pc = "idle"
      BY <2>1, RespondMoves DEF IInv, Idle
  <2>4. CallHolds(call[h])'
      BY <2>3 DEF CallHolds, WithSession, Completing
  <2>5. ASSUME NEW g \in Handlers, g # h PROVE Kept(g)
    <3>1. call[g].pc = "insert" => call[g].ses # s
        BY <1>1, <2>5 DEF IInv, CallsHold, Compatible
    <3>2. \A x \in Sessions : x # s => session'[x] = session[x]
        BY <2>1 DEF IInv, TypeOK
    <3> HIDE DEF q, s
    <3> QED BY <1>2, <2>1, <3>1, <3>2 DEF Kept, Retiring
  <2>6. CallsHold'
      BY <2>3, <2>4, <2>5, CallsKeep, Harmless DEF IInv
  <2> HIDE DEF q, s
  <2> QED BY <1>2, <2>1, <2>2, <2>3, <2>6, SessionStep DEF Retiring, Moves
<1>4. CASE ~new
  <2>1. UNCHANGED <<database, store>> /\ Goto(h, "undo")
      BY <1>4 DEF Insert, database
  <2>2. "undo" \in Steps /\ "undo" \notin Completing
      BY DEF Steps, Completing
  <2> QED BY <1>1, <1>2, <2>1, <2>2, GotoStep
<1> QED BY <1>3, <1>4

LEMMA ClaimIInv ==
    ASSUME IInv, NEW h \in Handlers, Claim(h)
    PROVE  IInv'
<1> DEFINE s == call[h].ses
           q == [session[s] EXCEPT !.state = "completing", !.expired = FALSE]
<1>1. call[h].pc = "claim" /\ CallHolds(call[h])
    BY DEF Claim, At, IInv, CallsHold
<1>2. s \in Sessions /\ session[s].row = call[h].row /\ session[s].art = call[h].art
    BY <1>1 DEF CallHolds, WithSession, Completing
<1>3. CASE session[s].state = "active"
  <2>1. session[s] \in Session
      BY <1>2 DEF IInv, TypeOK
  <2>2. /\ session' = [session EXCEPT ![s] = q] /\ Goto(h, "head")
        /\ UNCHANGED <<manifest, canonical, requested, job, store>>
      BY <1>2, <1>3, <2>1 DEF Claim, IInv, TypeOK
  <2>3. /\ q \in Session /\ q.state = "completing"
        /\ q.row = session[s].row /\ q.art = session[s].art
      BY <2>1 DEF Session, LiveStates
  <2>4. q.row \in Rows /\ q.art \in Artifacts /\ store[s].upload # "none"
      BY <1>2, <1>3, <2>3 DEF IInv, SessionsHold
  <2>5. /\ Moves(h) /\ call'[h].pc = "head" /\ call'[h].ses = s
        /\ call'[h].row = call[h].row /\ call'[h].art = call[h].art
      BY <2>2, GotoMoves DEF IInv, Steps
  <2> HIDE DEF s, q
  <2>6. session'[s] = q
      BY <1>2, <2>2 DEF IInv, TypeOK
  <2>7. CallHolds(call[h])'
      BY <1>2, <2>3, <2>4, <2>5, <2>6 DEF CallHolds, WithSession, Completing
  <2>8. \A g \in Handlers : Kept(g)
      BY <1>2, <1>3, <2>2, <2>3, SessionKept DEF Retiring
  <2>9. CallsHold'
      BY <2>5, <2>7, <2>8, CallsKeep, Harmless DEF IInv
  <2> QED BY <1>2, <1>3, <2>2, <2>3, <2>4, <2>5, <2>9, SessionStep DEF Retiring, Moves
<1>4. CASE session[s].state # "active"
  <2>1. UNCHANGED <<database, store>> /\ Respond(h)
      BY <1>4 DEF Claim, database
  <2> QED BY <2>1, RespondStep
<1> QED BY <1>3, <1>4

LEMMA ClientIInv ==
    ASSUME IInv, NEW s \in Sessions, Expire(s) \/ RecordPart(s)
    PROVE  IInv'
<1>1. session[s] \in Session /\ store[s] \in Store /\ session[s].state = "active"
    BY DEF IInv, TypeOK, Expire, RecordPart
<1>2. PICK q \in Session : /\ session' = [session EXCEPT ![s] = q] /\ q.state = "active"
                           /\ q.row = session[s].row /\ q.art = session[s].art
  <2>1. CASE Expire(s)
    <3> DEFINE q == [session[s] EXCEPT !.expired = TRUE]
    <3>1. /\ q \in Session /\ q.state = "active"
          /\ q.row = session[s].row /\ q.art = session[s].art
        BY <1>1 DEF Session
    <3>2. session' = [session EXCEPT ![s] = q]
        BY <2>1 DEF Expire, IInv, TypeOK
    <3> QED BY <3>1, <3>2
  <2>2. CASE RecordPart(s)
    <3> DEFINE q == [session[s] EXCEPT !.etag = store[s].part]
    <3>1. /\ q \in Session /\ q.state = "active"
          /\ q.row = session[s].row /\ q.art = session[s].art
        BY <1>1 DEF Session, Store
    <3>2. session' = [session EXCEPT ![s] = q]
        BY <2>2 DEF RecordPart, IInv, TypeOK
    <3> QED BY <3>1, <3>2
  <2> QED BY <2>1, <2>2
<1>3. UNCHANGED <<manifest, canonical, requested, job, store, call>>
    BY DEF Expire, RecordPart
<1>4. q.row \in Rows /\ q.art \in Artifacts /\ store[s].upload # "none"
    BY <1>1, <1>2 DEF IInv, SessionsHold
<1>5. \A g \in Handlers : Kept(g)
    BY <1>1, <1>2, <1>3, SessionKept DEF Retiring
<1>6. CallsHold' /\ call' \in [Handlers -> Call]
    BY <1>3, <1>5, CallsSame DEF IInv, TypeOK
<1> QED BY <1>1, <1>2, <1>3, <1>4, <1>6, SessionStep DEF Retiring

-----------------------------------------------------------------------------
(* The transactions on a session, its row and its job.                      *)

LEMMA Transaction ==
    ASSUME IInv, NEW s \in Sessions, NEW q \in Session, NEW m \in Row, NEW j \in Jobs,
           session' = [session EXCEPT ![s] = q],
           manifest' = [manifest EXCEPT ![session[s].row] = m],
           job' = [job EXCEPT ![s] = j],
           UNCHANGED store,
           session[s].state \in {"completing", "processing"},
           q.row = session[s].row, q.art = session[s].art,
           q.state \in {"processing", "completed", "failed"},
           q.state = "processing" => j \in {"pending", "leased"},
           m.image # None <=> m.state = "available",
           m.state = "processing" => q.state = "processing" /\ m.art = q.art,
           m.state = "available" => <<session[s].row, Checksum[m.art]>> \in requested',
           requested \subseteq requested', requested' \subseteq Rows \X Files,
           canonical' \in [Files -> Sessions \cup {None}],
           \A f \in Files : canonical'[f] # canonical[f] =>
              /\ canonical'[f] = s /\ q.state = "completed" /\ j # "discard"
              /\ store[s].upload = "closed" /\ store[s].object = f,
           call' \in [Handlers -> Call], CallsHold'
    PROVE  IInv'
<1> DEFINE r == session[s].row
<1>1. r \in Rows /\ q.art \in Artifacts /\ store[s].upload # "none"
    BY DEF IInv, SessionsHold
<1>2. /\ session' \in [Sessions -> Session] /\ session'[s] = q
      /\ \A x \in Sessions : x # s => session'[x] = session[x]
    BY DEF IInv, TypeOK
<1>3. /\ job' \in [Sessions -> Jobs] /\ job'[s] = j
      /\ \A x \in Sessions : x # s => job'[x] = job[x]
    BY DEF IInv, TypeOK
<1>4. /\ manifest' \in [Rows -> Row] /\ manifest'[r] = m
      /\ \A x \in Rows : x # r => manifest'[x] = manifest[x]
    BY <1>1 DEF IInv, TypeOK
<1>5. TypeOK'
    BY <1>1, <1>2, <1>3, <1>4 DEF IInv, TypeOK
<1>6. SessionsHold'
    BY <1>1, <1>2, <1>3 DEF IInv, SessionsHold
<1>7. CanonicalHolds'
  <2> SUFFICES ASSUME NEW f \in Files, canonical'[f] # None
               PROVE  /\ session'[canonical'[f]].state = "completed"
                      /\ store[canonical'[f]].upload = "closed"
                      /\ store[canonical'[f]].object \in {f, None}
                      /\ job'[canonical'[f]] # "discard"
      BY DEF CanonicalHolds
  <2>1. CASE canonical'[f] # canonical[f]
      BY <1>2, <1>3, <2>1
  <2>2. CASE canonical'[f] = canonical[f]
    <3>1. canonical[f] \in Sessions /\ canonical[f] # s
        BY <2>2 DEF IInv, TypeOK, CanonicalHolds
    <3> QED BY <1>2, <1>3, <2>2, <3>1 DEF IInv, CanonicalHolds
  <2> QED BY <2>1, <2>2
<1>8. RowIsTruthful'
  <2> SUFFICES ASSUME NEW x \in Rows
               PROVE  /\ manifest'[x].state = "processing" =>
                            \E y \in Sessions :
                               /\ session'[y].row = x /\ session'[y].state = "processing"
                               /\ session'[y].art = manifest'[x].art
                               /\ job'[y] \in {"pending", "leased"}
                      /\ manifest'[x].state = "available" =>
                            <<x, Checksum[manifest'[x].art]>> \in requested'
      BY DEF RowIsTruthful, Of
  <2>1. CASE x = r
      BY <1>2, <1>3, <1>4, <2>1
  <2>2. CASE x # r
    <3>1. manifest'[x] = manifest[x]
        BY <1>4, <2>2
    <3>2. manifest[x].state = "available" => <<x, Checksum[manifest[x].art]>> \in requested'
        BY DEF IInv, RowIsTruthful
    <3>3. ASSUME manifest[x].state = "processing"
          PROVE  \E y \in Sessions : /\ session'[y].row = x /\ session'[y].state = "processing"
                                     /\ session'[y].art = manifest[x].art
                                     /\ job'[y] \in {"pending", "leased"}
      <4>1. PICK y \in Of(x, {"processing"}) :
               session[y].art = manifest[x].art /\ job[y] \in {"pending", "leased"}
          BY <3>3 DEF IInv, RowIsTruthful
      <4>2. y \in Sessions /\ session[y].row = x /\ session[y].state = "processing" /\ y # s
          BY <2>2 DEF Of
      <4> QED BY <1>2, <1>3, <4>1, <4>2
    <3> QED BY <3>1, <3>2, <3>3
  <2> QED BY <2>1, <2>2
<1> QED BY <1>5, <1>6, <1>7, <1>8 DEF IInv

(* Nobody is about to retire a session whose object is complete. *)
LEMMA TransactionKept ==
    ASSUME IInv, NEW s \in Sessions, NEW q \in Session, NEW m \in Row,
           session' = [session EXCEPT ![s] = q],
           manifest' = [manifest EXCEPT ![session[s].row] = m],
           UNCHANGED store,
           session[s].state # "absent",
           q.row = session[s].row, q.art = session[s].art,
           q.state \in {"processing", "completed", "failed"},
           m.art = manifest[session[s].row].art,
           NEW g \in Handlers, session[s].state \in Retiring => call[g].pc # "retiring" \/ call[g].ses # s
    PROVE  Kept(g)
<1>1. /\ session'[s] = q
      /\ \A x \in Sessions : x # s => session'[x] = session[x]
    BY DEF IInv, TypeOK
<1>2. \A r \in Rows : manifest'[r].art = manifest[r].art
    BY DEF IInv, TypeOK
<1> QED BY <1>1, <1>2 DEF Kept

LEMMA EnqueueIInv ==
    ASSUME IInv, NEW h \in Handlers, Enqueue(h)
    PROVE  IInv'
<1> DEFINE c == call[h]
           s == c.ses
           q == Moved(session[s], "processing")
           m == [manifest[c.row] EXCEPT !.state = "processing", !.image = None]
<1>1. c.pc = "enqueue" /\ CallHolds(c) /\ Respond(h)
    BY DEF Enqueue, At, IInv, CallsHold
<1>2. /\ s \in Sessions /\ c.row \in Rows /\ c.art \in Artifacts
      /\ session[s].row = c.row /\ session[s].art = c.art
    BY <1>1 DEF CallHolds, WithSession, Completing
<1>3. CASE session[s].state = "completing" /\ manifest[c.row].art = c.art
  <2>1. session[s] \in Session /\ manifest[c.row] \in Row /\ job[s] = "none"
      BY <1>2, <1>3 DEF IInv, TypeOK, SessionsHold
  <2>2. /\ session' = [session EXCEPT ![s] = q]
        /\ manifest' = [manifest EXCEPT ![c.row] = m]
        /\ job' = [job EXCEPT ![s] = "pending"]
        /\ UNCHANGED <<canonical, requested, store>>
      BY <1>2, <1>3, <2>1 DEF Enqueue, IInv, TypeOK
  <2>3. /\ q \in Session /\ q.state = "processing"
        /\ q.row = session[s].row /\ q.art = session[s].art
      BY <2>1 DEF Session, Moved, LiveStates
  <2>4. /\ m \in Row /\ m.state = "processing" /\ m.image = None
        /\ m.art = manifest[c.row].art
      BY <2>1 DEF Row
  <2>5. Moves(h) /\ call'[h] = Idle /\ Idle.pc = "idle"
      BY <1>1, RespondMoves DEF IInv, Idle
  <2>6. CallHolds(call[h])'
      BY <2>5 DEF CallHolds, WithSession, Completing
  <2>7. ASSUME NEW g \in Handlers, g # h PROVE call[g].pc # "retiring" \/ call[g].ses # s
      BY <1>1, <2>7 DEF IInv, CallsHold, Compatible
  <2> HIDE DEF s, q, m
  <2>8. ASSUME NEW g \in Handlers, g # h PROVE Kept(g)
      BY <1>2, <1>3, <2>2, <2>3, <2>4, <2>7, <2>8, TransactionKept
  <2>9. CallsHold'
      BY <2>5, <2>6, <2>8, CallsKeep, Harmless DEF IInv
  <2>10. /\ canonical' \in [Files -> Sessions \cup {None}]
         /\ requested' \subseteq Rows \X Files /\ call' \in [Handlers -> Call]
      BY <2>2, <2>5 DEF IInv, TypeOK, Moves
  <2>11. "pending" \in Jobs
      BY DEF Jobs
  <2> QED BY <1>2, <1>3, <2>2, <2>3, <2>4, <2>9, <2>10, <2>11, Transaction
<1>4. CASE ~(session[s].state = "completing" /\ manifest[c.row].art = c.art)
  <2>1. UNCHANGED <<database, store>>
      BY <1>4 DEF Enqueue, database
  <2> QED BY <1>1, <2>1, RespondStep
<1> QED BY <1>3, <1>4

LEMMA IndexIInv ==
    ASSUME IInv, NEW s \in Sessions, Publish(s) \/ Reject(s) \/ Fail(s)
    PROVE  IInv'
<1> DEFINE r == session[s].row
<1>1. Owned(s) /\ UNCHANGED <<store, call>>
    BY DEF Publish, Reject, Fail
<1>2. /\ session[s].state = "processing" /\ session[s] \in Session /\ r \in Rows
      /\ session[s].art \in Artifacts /\ manifest[r] \in Row
      /\ session \in [Sessions -> Session] /\ manifest \in [Rows -> Row]
      /\ canonical \in [Files -> Sessions \cup {None}]
      /\ requested \subseteq Rows \X Files /\ call \in [Handlers -> Call]
    BY <1>1 DEF Owned, IInv, TypeOK, SessionsHold
<1>3. ASSUME NEW state \in {"completed", "failed"}, NEW verdict \in {"available", "mismatch", "quarantined"},
             NEW image \in Files \cup {None}, NEW j \in {"done", "discard"},
             session' = [session EXCEPT ![s].state = state],
             manifest' = [manifest EXCEPT ![r].state = verdict, ![r].image = image],
             job' = [job EXCEPT ![s] = j],
             image # None <=> verdict = "available",
             verdict = "available" => <<r, Checksum[manifest[r].art]>> \in requested',
             requested \subseteq requested', requested' \subseteq Rows \X Files,
             canonical' \in [Files -> Sessions \cup {None}],
             \A f \in Files : canonical'[f] # canonical[f] =>
                /\ canonical'[f] = s /\ state = "completed" /\ j # "discard"
                /\ store[s].upload = "closed" /\ store[s].object = f
      PROVE  IInv'
  <2> DEFINE q == [session[s] EXCEPT !.state = state]
             m == [manifest[r] EXCEPT !.state = verdict, !.image = image]
  <2>1. session' = [session EXCEPT ![s] = q] /\ manifest' = [manifest EXCEPT ![r] = m]
      BY <1>2, <1>3
  <2>2. /\ q \in Session /\ q.state = state
        /\ q.row = session[s].row /\ q.art = session[s].art
      BY <1>2 DEF Session
  <2>3. m \in Row /\ m.state = verdict /\ m.image = image /\ m.art = manifest[r].art
      BY <1>2 DEF Row
  <2> HIDE DEF q, m
  <2>4. ASSUME NEW g \in Handlers PROVE Kept(g)
      BY <1>1, <1>2, <2>1, <2>2, <2>3, TransactionKept DEF Retiring
  <2>5. CallsHold'
      BY <1>1, <2>4, CallsSame DEF IInv
  <2>6. j \in Jobs
      BY DEF Jobs
  <2>7. /\ session[s].state \in {"completing", "processing"}
        /\ q.state \in {"processing", "completed", "failed"}
        /\ q.state # "processing" /\ m.state # "processing"
        /\ m.image # None <=> m.state = "available"
        /\ m.state = "available" => <<r, Checksum[m.art]>> \in requested'
        /\ call' \in [Handlers -> Call]
      BY <1>1, <1>2, <1>3, <2>2, <2>3
  <2>8. \A f \in Files : canonical'[f] # canonical[f] =>
           /\ canonical'[f] = s /\ q.state = "completed" /\ j # "discard"
           /\ store[s].upload = "closed" /\ store[s].object = f
      BY <1>3, <2>2
  <2>9. /\ job' = [job EXCEPT ![s] = j] /\ UNCHANGED store
        /\ requested \subseteq requested' /\ requested' \subseteq Rows \X Files
        /\ canonical' \in [Files -> Sessions \cup {None}]
      BY <1>1, <1>3
  <2> QED BY <2>1, <2>2, <2>3, <2>5, <2>6, <2>7, <2>8, <2>9, Transaction
<1>4. CASE Publish(s)
  <2> DEFINE f == session[s].art
             j == AfterCommit(canonical'[f], s)
  <2>1. /\ manifest[r].art = f /\ store[s].object # None /\ store[s].object = f
        /\ canonical' = [canonical EXCEPT ![f] = IF @ = None THEN s ELSE @]
        /\ manifest' = [manifest EXCEPT ![r].state = "available", ![r].image = f]
        /\ session' = [session EXCEPT ![s].state = "completed"]
        /\ requested' = requested \cup {<<r, Checksum[manifest[r].art]>>}
        /\ job' = [job EXCEPT ![s] = j]
      BY <1>4 DEF Publish, Verified, Request
  <2>2. f \in Files /\ f # None /\ store[s].upload = "closed"
      BY <2>1 DEF IInv, TypeOK, Store, SessionsHold
  <2>3. Checksum[manifest[r].art] \in Files
      BY <1>2, <2>1, UploadAssumption
  <2>4. requested' \subseteq Rows \X Files
      BY <1>2, <2>1, <2>3
  <2>5. /\ canonical' \in [Files -> Sessions \cup {None}]
        /\ \A x \in Files : canonical'[x] # canonical[x] => x = f /\ canonical'[x] = s
      BY <1>2, <2>1, <2>2
  <2>6. j \in {"done", "discard"} /\ (canonical'[f] = s => j # "discard")
      BY DEF AfterCommit
  <2> HIDE DEF f, j, r
  <2>7. \A x \in Files : canonical'[x] # canonical[x] =>
           /\ canonical'[x] = s /\ j # "discard"
           /\ store[s].upload = "closed" /\ store[s].object = x
      BY <2>1, <2>2, <2>5, <2>6
  <2>8. <<r, Checksum[manifest[r].art]>> \in requested' /\ requested \subseteq requested'
      BY <2>1
  <2> QED BY <1>3, <2>1, <2>2, <2>4, <2>5, <2>6, <2>7, <2>8
<1>5. CASE Reject(s)
  <2>1. PICK verdict \in {"mismatch", "quarantined"} :
           manifest' = [manifest EXCEPT ![r].state = verdict, ![r].image = None]
      BY <1>5 DEF Reject
  <2>2. /\ session' = [session EXCEPT ![s].state = "failed"]
        /\ job' = [job EXCEPT ![s] = "discard"]
        /\ UNCHANGED <<canonical, requested>>
      BY <1>5 DEF Reject
  <2> HIDE DEF r
  <2> QED BY <1>2, <1>3, <2>1, <2>2
<1>6. CASE Fail(s)
  <2>1. /\ session' = [session EXCEPT ![s].state = "failed"]
        /\ manifest' = [manifest EXCEPT ![r].state = "quarantined", ![r].image = None]
        /\ job' = [job EXCEPT ![s] = "done"]
        /\ UNCHANGED <<canonical, requested>>
      BY <1>6 DEF Fail
  <2> HIDE DEF r
  <2> QED BY <1>2, <1>3, <2>1
<1> QED BY <1>4, <1>5, <1>6

LEMMA JobIInv ==
    ASSUME IInv, NEW s \in Sessions, Lease(s) \/ Release(s) \/ Discard(s)
    PROVE  IInv'
<1>1. UNCHANGED <<manifest, session, canonical, requested, call>>
    BY DEF Lease, Release, Discard
<1>2. PICK j \in Jobs : /\ job' = [job EXCEPT ![s] = j] /\ j # "discard" /\ job[s] # "none"
                        /\ job[s] \in {"pending", "leased"} => j \in {"pending", "leased"}
    BY DEF Lease, Release, Discard, Jobs
<1>3. PICK d \in Store : /\ store' = [store EXCEPT ![s] = d] /\ d.upload = store[s].upload
                         /\ d.object \in {store[s].object, None}
  <2>1. store[s] \in Store /\ store \in [Sessions -> Store]
      BY DEF IInv, TypeOK
  <2>2. CASE UNCHANGED store
      BY <2>1, <2>2
  <2>3. CASE store' = [store EXCEPT ![s].object = None]
    <3> DEFINE d == [store[s] EXCEPT !.object = None]
    <3>1. d \in Store /\ d.upload = store[s].upload /\ d.object = None
        BY <2>1 DEF Store
    <3>2. store' = [store EXCEPT ![s] = d]
        BY <2>1, <2>3
    <3> HIDE DEF d
    <3> QED BY <3>1, <3>2
  <2> QED BY <2>2, <2>3 DEF Lease, Release, Discard
<1>4. /\ job' \in [Sessions -> Jobs] /\ job'[s] = j
      /\ \A x \in Sessions : x # s => job'[x] = job[x]
    BY <1>2 DEF IInv, TypeOK
<1>5. /\ store' \in [Sessions -> Store] /\ store'[s] = d
      /\ \A x \in Sessions : x # s => store'[x] = store[x]
    BY <1>3 DEF IInv, TypeOK
<1>6. \A g \in Handlers : Kept(g)
    BY <1>1, <1>3, <1>5 DEF Kept
<1>7. CallsHold'
    BY <1>1, <1>6, CallsSame DEF IInv
<1>8. TypeOK'
    BY <1>1, <1>4, <1>5 DEF IInv, TypeOK
<1>9. SessionsHold'
    BY <1>1, <1>2, <1>3, <1>4, <1>5 DEF IInv, SessionsHold
<1>10. CanonicalHolds'
    BY <1>1, <1>2, <1>3, <1>4, <1>5 DEF IInv, TypeOK, CanonicalHolds
<1>11. RowIsTruthful'
    BY <1>1, <1>2, <1>4 DEF IInv, RowIsTruthful, Of
<1> QED BY <1>7, <1>8, <1>9, <1>10, <1>11 DEF IInv

-----------------------------------------------------------------------------

LEMMA InitIInv == Init => IInv
<1> HAVE Init
<1>1. TypeOK
  <2>1. /\ \A r \in Rows : manifest[r] = [state |-> "absent", art |-> None, image |-> None]
        /\ manifest \in [Rows -> Row]
      BY DEF Init, Row
  <2>2. session \in [Sessions -> Session] /\ store \in [Sessions -> Store] /\ job \in [Sessions -> Jobs]
      BY DEF Init, Session, Store, Jobs
  <2>3. call \in [Handlers -> Call] /\ canonical \in [Files -> Sessions \cup {None}]
      BY IdleCall DEF Init
  <2> QED BY <2>1, <2>2, <2>3 DEF Init, TypeOK
<1>2. CallsHold
  <2>1. \A h \in Handlers : call[h] = Idle /\ Idle.pc = "idle"
      BY DEF Init, Idle
  <2> QED BY <2>1, IdleCall, Harmless DEF CallsHold
<1>3. SessionsHold /\ CanonicalHolds
    BY DEF Init, SessionsHold, CanonicalHolds
<1>4. RowIsTruthful
    BY DEF Init, RowIsTruthful
<1> QED BY <1>1, <1>2, <1>3, <1>4 DEF IInv

LEMMA HandleIInv ==
    ASSUME IInv, NEW h \in Handlers, Handle(h)
    PROVE  IInv'
BY NegotiateIInv, CompleteIInv, UpsertIInv, RetireReadIInv, RetireWriteIInv, AbortIInv, ReadStep,
   MarkIInv, CreateIInv, InsertIInv, ClaimIInv, HeadIInv, FinishIInv, EnqueueIInv, DropObjectIInv
   DEF Handle

LEMMA NextIInv == IInv /\ [Next]_vars => IInv'
<1> SUFFICES ASSUME IInv, [Next]_vars PROVE IInv'
    OBVIOUS
<1>1. CASE UNCHANGED vars
  <2>1. CallsHold'
      BY <1>1, CallsSame DEF vars, IInv, Kept
  <2>2. TypeOK' /\ SessionsHold' /\ CanonicalHolds'
      BY <1>1 DEF vars, IInv, TypeOK, SessionsHold, CanonicalHolds
  <2>3. RowIsTruthful'
      BY <1>1 DEF vars, IInv, RowIsTruthful, Of
  <2> QED BY <2>1, <2>2, <2>3 DEF IInv
<1>2. ASSUME NEW h \in Handlers, Handle(h) PROVE IInv'
    BY <1>2, HandleIInv
<1>3. ASSUME NEW s \in Sessions, Expire(s) \/ RecordPart(s) \/ \E f \in Files : PutPart(s, f) PROVE IInv'
    BY <1>3, ClientIInv, PutPartIInv
<1>4. ASSUME NEW s \in Sessions, Index(s) PROVE IInv'
    BY <1>4, IndexIInv, JobIInv DEF Index
<1> QED BY <1>1, <1>2, <1>3, <1>4 DEF Next

(* The inductive invariant, of every behaviour. *)
THEOREM InductiveInvariant == Spec => []IInv
<1> QED BY InitIInv, NextIInv, PTL DEF Spec

(* Types; a row has a debug image exactly when it is available. *)
THEOREM TypeCorrect == Spec => []TypeOK
<1>1. IInv => TypeOK
    BY DEF IInv
<1> QED BY <1>1, InductiveInvariant, PTL

(* publish_artifact: what the organization shares for a checksum is of a    *)
(* completed session and is that file.                                      *)
THEOREM CanonicalIsVerifiedHolds == Spec => []CanonicalIsVerified
<1>1. IInv => CanonicalIsVerified
    BY DEF IInv, CanonicalHolds, CanonicalIsVerified
<1> QED BY <1>1, InductiveInvariant, PTL

(* A row in processing has an unfinished job for what it declares, and one  *)
(* that is available had a request for the checksum it declares.            *)
THEOREM RowIsTruthfulHolds == Spec => []RowIsTruthful
<1>1. IInv => RowIsTruthful
    BY DEF IInv
<1> QED BY <1>1, InductiveInvariant, PTL

-----------------------------------------------------------------------------

(* Nothing but a completion that drops its object takes a published one     *)
(* away: an index job discards only what it did not publish.                *)
THEOREM PublishedKeptHolds == Spec => PublishedKept
<1> DEFINE Step == \A f \in Files :
                      /\ canonical[f] # None
                      /\ store[canonical[f]].object # None
                      /\ store'[canonical[f]].object = None
                      => \E h \in Handlers : At(h, "drop") /\ call[h].ses = canonical[f]
<1>1. ASSUME IInv, Next PROVE Step
  <2> SUFFICES ASSUME NEW f \in Files, canonical[f] # None, store[canonical[f]].object # None,
                      store'[canonical[f]].object = None
               PROVE  \E h \in Handlers : At(h, "drop") /\ call[h].ses = canonical[f]
      OBVIOUS
  <2> DEFINE k == canonical[f]
  <2>1. /\ k \in Sessions /\ store[k].upload = "closed" /\ job[k] # "discard"
        /\ store \in [Sessions -> Store] /\ store[k] \in Store
      BY <1>1 DEF IInv, TypeOK, CanonicalHolds
  <2> HIDE DEF k
  <2>2. ASSUME NEW s \in Sessions, NEW d, store' = [store EXCEPT ![s] = d] PROVE s = k /\ d.object = None
    <3>1. s # k => store'[k] = store[k]
        BY <2>1, <2>2
    <3> QED BY <2>1, <2>2, <3>1 DEF k
  <2>3. ASSUME UNCHANGED store PROVE FALSE
      BY <2>3 DEF k
  <2>4. ASSUME NEW h \in Handlers, Handle(h) PROVE At(h, "drop") /\ call[h].ses = k
    <3>1. CallHolds(call[h])
        BY <1>1 DEF IInv, CallsHold
    <3>2. CASE Abort(h) \/ Undo(h)
      <4>1. call[h].ses \in Sessions /\ AbortUpload(call[h].ses)
          BY <3>1, <3>2 DEF Abort, Undo, At, CallHolds, WithSession
      <4>2. PICK d \in Store : store' = [store EXCEPT ![call[h].ses] = d] /\ d.object = store[call[h].ses].object
          BY <1>1, <2>3, <4>1, AbortShape
      <4>3. call[h].ses = k /\ d.object = None
          BY <2>2, <4>1, <4>2
      <4> QED BY <4>2, <4>3 DEF k
    <3>3. CASE Create(h)
      <4>1. PICK s \in Sessions : store[s].upload = "none" /\ store' = [store EXCEPT ![s].upload = "open"]
          BY <3>3 DEF Create
      <4>2. store' = [store EXCEPT ![s] = [store[s] EXCEPT !.upload = "open"]]
          BY <2>1, <4>1
      <4>3. s = k
          BY <2>2, <4>2
      <4> QED BY <2>1, <4>1, <4>3
    <3>4. CASE Finish(h)
      <4>1. call[h].ses \in Sessions
          BY <3>1, <3>4 DEF Finish, At, CallHolds, WithSession, Completing
      <4>2. /\ store[call[h].ses].upload = "open"
            /\ store' = [store EXCEPT ![call[h].ses] = Closed(call[h].part)]
          BY <2>3, <3>4 DEF Finish
      <4>3. call[h].ses = k
          BY <2>2, <4>1, <4>2
      <4> QED BY <2>1, <4>2, <4>3
    <3>5. CASE DropObject(h)
      <4>1. call[h].ses \in Sessions /\ At(h, "drop")
          BY <3>1, <3>5 DEF DropObject, At, CallHolds, WithSession
      <4>2. store' = [store EXCEPT ![call[h].ses] = [store[call[h].ses] EXCEPT !.object = None]]
          BY <2>1, <3>5, <4>1 DEF DropObject
      <4> QED BY <2>2, <4>1, <4>2
    <3>6. CASE UNCHANGED store
        BY <2>3, <3>6
    <3> QED BY <2>4, <3>2, <3>3, <3>4, <3>5, <3>6
            DEF Handle, Negotiate, Complete, Upsert, RetireRead, RetireWrite, Lookup, HasChecksum,
                MarkAvailable, MarkMismatch, MarkMissing, Check, Find, Insert, Claim, Head, Enqueue,
                Cleanup, Stop
  <2>5. ASSUME NEW s \in Sessions, Expire(s) \/ RecordPart(s) \/ \E x \in Files : PutPart(s, x)
        PROVE  FALSE
    <3>1. PICK x \in Files : PutPart(s, x)
        BY <2>3, <2>5 DEF Expire, RecordPart
    <3>2. store' = [store EXCEPT ![s] = [store[s] EXCEPT !.part = x]] /\ store[s].upload = "open"
        BY <2>1, <3>1 DEF PutPart
    <3> QED BY <2>1, <2>2, <3>2
  <2>6. ASSUME NEW s \in Sessions, Index(s) PROVE FALSE
    <3>1. Discard(s)
        BY <2>3, <2>6 DEF Index, Lease, Release, Publish, Reject, Fail
    <3>2. job[s] = "discard" /\ store' = [store EXCEPT ![s] = [store[s] EXCEPT !.object = None]]
        BY <2>1, <2>3, <3>1 DEF Discard
    <3> QED BY <2>1, <2>2, <3>2
  <2> QED BY <1>1, <2>4, <2>5, <2>6 DEF Next, k
<1>2. IInv /\ [Next]_vars => [Step]_vars
    BY <1>1
<1>3. Spec => [][Step]_vars
    BY <1>2, InductiveInvariant, PTL DEF Spec
<1> QED BY <1>3 DEF PublishedKept
=============================================================================
