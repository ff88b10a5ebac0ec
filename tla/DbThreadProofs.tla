---------------------------- MODULE DbThreadProofs ----------------------------
(***************************************************************************)
(* Every command of a database thread is answered once and in its order,   *)
(* and no write that was answered with success is lost, for any tables,    *)
(* requests, size of the cache and number of faults.                       *)
(***************************************************************************)
EXTENDS DbThread, SequenceTheorems, TLAPS

\* A command has its place in the order of all commands as its id; what waits
\* for the cache to be cleaned is no flush.
AnswerInv ==
  /\ \A i \in DOMAIN sent : sent[i].id = i
  /\ stage = "clean" => Command.op # "flush"

\* The inductive invariant.
Inv == TypeOK /\ AnswersInOrder /\ AnswerInv /\ NothingLost

-----------------------------------------------------------------------------
(* Statements and what becomes of them.                                    *)

Contents == [Rows -> Values \cup {0}]

\* A statement leaves the table as it is or leads to the given one, and it has
\* done so when it is answered with success.
LEMMA StatementFacts ==
  ASSUME TypeOK, NEW accepts \in BOOLEAN, NEW table \in Contents, NEW res \in Statement(accepts, table)
  PROVE  /\ res.db = db \/ res.db = table
         /\ res.code = "OK" => accepts /\ res.db = table
         /\ res.db \in Contents
         /\ res.code \in {"OK", "MysqlError"}
         /\ res.link \in {"open", "broken", "closed"}
         /\ res.faults \in 0 .. MaxFaults
<1>1. db \in Contents /\ link \in {"open", "broken", "closed"} /\ faults \in 0 .. MaxFaults /\ MaxFaults \in Nat
  BY DbAssumption DEF TypeOK, Contents
<1>2. faults # MaxFaults => faults + 1 \in 0 .. MaxFaults
  BY <1>1
<1>3. faults + 0 = faults
  BY <1>1
<1> QED
  BY <1>1, <1>2, <1>3 DEF Statement, Outcome

\* A write-back saves some of its rows, all of them when it succeeds.
LEMMA WriteBackFacts ==
  ASSUME TypeOK, NEW rows \in SUBSET Rows, NEW res \in WriteBack(rows)
  PROVE  /\ res.db \in [Rows -> {cache[r].val : r \in rows} \cup Values \cup {0}]
         /\ \A r \in Rows : res.db[r] = db[r] \/ (r \in rows /\ res.db[r] = cache[r].val)
         /\ res.code = "OK" => \A r \in rows : res.db[r] = cache[r].val
         /\ res.link \in {"open", "broken", "closed"}
         /\ res.faults \in 0 .. MaxFaults
<1>1. db \in Contents /\ link \in {"open", "broken", "closed"} /\ faults \in 0 .. MaxFaults /\ MaxFaults \in Nat
  BY DbAssumption DEF TypeOK, Contents
<1>2. faults # MaxFaults => faults + 1 \in 0 .. MaxFaults
  BY <1>1
<1>3. faults + 0 = faults
  BY <1>1
<1>4. ASSUME NEW part \in SUBSET rows
      PROVE  /\ Saved(part) \in [Rows -> {cache[r].val : r \in rows} \cup Values \cup {0}]
             /\ \A r \in Rows : Saved(part)[r] = db[r] \/ (r \in rows /\ Saved(part)[r] = cache[r].val)
             /\ \A r \in part : Saved(part)[r] = cache[r].val
  BY <1>1 DEF Saved, Contents
<1>0. \/ res = Outcome("MysqlError", db, link, 0)
      \/ res = Outcome("OK", Saved(rows), link, 0)
      \/ faults # MaxFaults /\ \E part \in SUBSET rows : res = Outcome("MysqlError", Saved(part), "broken", 1)
      \/ faults # MaxFaults /\ \E r \in rows : res = Outcome("MysqlError", Saved(rows \ {r}), link, 1)
  BY DEF WriteBack
<1>5. /\ \E part \in SUBSET rows :
           /\ (res.db = db /\ res.code = "MysqlError") \/ res.db = Saved(part)
           /\ res.code = "OK" => res.db = Saved(part) /\ part = rows
      /\ res.link \in {link, "broken"}
      /\ res.faults = faults + 0 \/ (faults # MaxFaults /\ res.faults = faults + 1)
  <2>1. ASSUME NEW code, NEW table, NEW l, NEW n, res = Outcome(code, table, l, n)
        PROVE  res.code = code /\ res.db = table /\ res.link = l /\ res.faults = faults + n
    BY <2>1 DEF Outcome
  <2>2. CASE res = Outcome("MysqlError", db, link, 0)
    BY <2>1, <2>2
  <2>3. CASE res = Outcome("OK", Saved(rows), link, 0)
    <3>1. rows \in SUBSET rows
      OBVIOUS
    <3> QED
      BY <2>1, <2>3, <3>1
  <2>4. ASSUME faults # MaxFaults, NEW part \in SUBSET rows,
               NEW l \in {link, "broken"}, res = Outcome("MysqlError", Saved(part), l, 1)
        PROVE  /\ res.db = Saved(part) /\ res.code = "MysqlError"
               /\ res.link \in {link, "broken"} /\ res.faults = faults + 1
    BY <2>1, <2>4
  <2>5. ASSUME NEW r \in rows PROVE rows \ {r} \in SUBSET rows
    OBVIOUS
  <2>6. CASE faults # MaxFaults /\ \E part \in SUBSET rows : res = Outcome("MysqlError", Saved(part), "broken", 1)
    BY <2>4, <2>6
  <2>7. CASE faults # MaxFaults /\ \E r \in rows : res = Outcome("MysqlError", Saved(rows \ {r}), link, 1)
    BY <2>4, <2>5, <2>7
  <2> QED
    BY <1>0, <2>2, <2>3, <2>6, <2>7
<1>6. res.link \in {"open", "broken", "closed"} /\ res.faults \in 0 .. MaxFaults
  BY <1>1, <1>2, <1>3, <1>5
<1>7. res.db \in [Rows -> {cache[r].val : r \in rows} \cup Values \cup {0}]
  BY <1>1, <1>4, <1>5 DEF Contents
<1> QED
  BY <1>4, <1>5, <1>6, <1>7

-----------------------------------------------------------------------------
(* The queues.                                                             *)

\* The command the thread is at, while it has one.
LEMMA CommandFacts ==
  ASSUME TypeOK, stage \in {"work", "clean"}
  PROVE  /\ batch \in Seq(Commands) /\ batch # <<>> /\ Len(batch) \in Nat \ {0} /\ batch[1] = Command
         /\ Command \in Commands /\ Command.id \in 1 .. MaxCommands
         /\ Row \in Rows /\ Val \in Values
         /\ Tail(batch) \in Seq(Commands) /\ (Len(batch) = 1 <=> Tail(batch) = <<>>)
<1>1. batch \in Seq(Commands) /\ batch # <<>>
  BY DEF TypeOK
<1>2. Head(batch) \in Commands /\ Tail(batch) \in Seq(Commands) /\ Len(batch) \in Nat \ {0} /\ batch[1] = Head(batch)
      /\ Len(Tail(batch)) = Len(batch) - 1
  BY <1>1
<1>3. Len(batch) = 1 <=> Tail(batch) = <<>>
  BY <1>2, EmptySeq
<1> QED
  BY <1>1, <1>2, <1>3 DEF Command, Row, Val, Commands

\* What the end of a command does to the types of the queues.
LEMMA DoneTypes ==
  ASSUME TypeOK, stage \in {"work", "clean"}, Done
  PROVE  /\ {queue', batch', sent'} \subseteq Seq(Commands) /\ heard' \in Seq(Results)
         /\ stage' \in {"loop", "work"} /\ quit' \in BOOLEAN
         /\ (stage' \in {"work", "clean"}) = (batch' # <<>>)
<1>1. /\ batch' = Tail(batch) /\ stage' = (IF Len(batch) = 1 THEN "loop" ELSE "work")
      /\ UNCHANGED <<queue, quit, heard, sent>>
  BY DEF Done
<1>2. Tail(batch) \in Seq(Commands) /\ (Len(batch) = 1 <=> Tail(batch) = <<>>)
  BY CommandFacts
<1>3. {queue, sent} \subseteq Seq(Commands) /\ heard \in Seq(Results) /\ quit \in BOOLEAN
  BY DEF TypeOK
<1> QED
  BY <1>1, <1>2, <1>3

Codes == {"OK", "MysqlError", "EmptyRecordset"}

\* A result is put at the end of the results.
LEMMA FinishTypes ==
  ASSUME TypeOK, stage \in {"work", "clean"}, NEW code \in Codes, Finish(code)
  PROVE  /\ {queue', batch', sent'} \subseteq Seq(Commands) /\ {results', heard'} \subseteq Seq(Results)
         /\ stage' \in {"loop", "work"} /\ quit' \in BOOLEAN
         /\ (stage' \in {"work", "clean"}) = (batch' # <<>>)
         /\ Done /\ results' = Append(results, [id |-> Command.id, code |-> code])
<1>1. Done /\ results' = results \o <<[id |-> Command.id, code |-> code]>>
  BY DEF Finish, ResultOf
<1>2. [id |-> Command.id, code |-> code] \in Results /\ results \in Seq(Results)
  BY CommandFacts DEF Results, Codes, TypeOK
<1>3. results' = Append(results, [id |-> Command.id, code |-> code]) /\ results' \in Seq(Results)
  BY <1>1, <1>2
<1> QED
  BY <1>1, <1>3, DoneTypes

\* A command that is done at once, or when the cache has been cleaned.
LEMMA FinishCleanTypes ==
  ASSUME TypeOK, stage = "work", FinishClean
  PROVE  /\ {queue', batch', sent'} \subseteq Seq(Commands) /\ {results', heard'} \subseteq Seq(Results)
         /\ stage' \in {"loop", "work", "clean"} /\ quit' \in BOOLEAN
         /\ (stage' \in {"work", "clean"}) = (batch' # <<>>)
         /\ \/ stage' = "clean" /\ UNCHANGED <<queue, batch, results, quit, heard, sent>>
            \/ Finish("OK")
<1>1. CASE Finish("OK")
  BY <1>1, FinishTypes DEF Codes
<1>2. CASE stage' = "clean" /\ UNCHANGED <<queue, batch, results, quit, heard, sent>>
  BY <1>2 DEF TypeOK
<1> QED
  BY <1>1, <1>2 DEF FinishClean

-----------------------------------------------------------------------------
(* Types.                                                                  *)

Cacheds == [val : Values \cup {0}, ticker : {"none", "on", "fired"}]

\* The types of what a command changes.
LEMMA CommandTypes ==
  ASSUME TypeOK, stage = "work", OnDbCommand
  PROVE  TypeOK'
<1>1. /\ Command \in Commands /\ Row \in Rows /\ Val \in Values
      /\ cache \in [Rows -> Cacheds] /\ size \in Int /\ db \in Contents /\ last \in Contents
      /\ results \in Seq(Results) /\ shaky \subseteq Rows
      /\ link \in {"open", "broken", "closed"} /\ faults \in 0 .. MaxFaults
  BY CommandFacts DEF TypeOK, Cacheds, Contents
<1>2. ASSUME NEW v \in Values \cup {0}
      PROVE  Entry(v) \in Cacheds /\ Changed(Row, v) \in Cacheds /\ NoEntry \in Cacheds
             /\ [db EXCEPT ![Row] = v] \in Contents /\ [last EXCEPT ![Row] = v] \in Contents
  BY <1>1 DEF Entry, Changed, NoEntry, Cacheds, Contents
<1>3. db[Row] \in Values \cup {0}
  BY <1>1 DEF Contents
<1>4. AllCached \in SUBSET Rows /\ \A r \in Rows : cache[r].val \in Values \cup {0}
  BY <1>1 DEF AllCached, Cacheds
<1>5. ASSUME NEW accepts \in BOOLEAN, NEW table \in Contents, NEW res \in Statement(accepts, table)
      PROVE  res.db \in Contents /\ res.code \in {"OK", "MysqlError"} /\ res.code \in Codes
             /\ res.link \in {"open", "broken", "closed"} /\ res.faults \in 0 .. MaxFaults
  BY <1>5, StatementFacts DEF Codes
<1>6. ASSUME NEW code, NEW v \in Values \cup {0}, Concluded(code, v)
      PROVE  last' \in Contents /\ shaky' \subseteq Rows
  BY <1>1, <1>2, <1>6 DEF Concluded
<1>7. ASSUME cache' \in [Rows -> Cacheds], size' \in Int, db' \in Contents, last' \in Contents,
             shaky' \subseteq Rows, link' \in {"open", "broken", "closed"}, faults' \in 0 .. MaxFaults,
             (\E code \in Codes : Finish(code)) \/ FinishClean \/ (Done /\ results' = results)
      PROVE  TypeOK'
  <2>1. /\ {queue', batch', sent'} \subseteq Seq(Commands) /\ {results', heard'} \subseteq Seq(Results)
        /\ stage' \in {"loop", "work", "clean"} /\ quit' \in BOOLEAN
        /\ (stage' \in {"work", "clean"}) = (batch' # <<>>)
    BY <1>1, <1>7, FinishTypes, FinishCleanTypes, DoneTypes
  <2> QED
    BY <1>7, <2>1 DEF TypeOK, Cacheds, Contents
<1>8. CASE SelectCached
  BY <1>1, <1>7, <1>8 DEF SelectCached, cacheVars, serverVars, Codes
<1>9. CASE SelectMissed
  <2>1. PICK res \in Statement(TRUE, db) :
          LET code == IF res.code = "OK" /\ db[Row] = 0 THEN "EmptyRecordset" ELSE res.code
          IN /\ Executed(res)
             /\ cache' = IF code = "OK" THEN [cache EXCEPT ![Row] = Entry(db[Row])] ELSE cache
             /\ Finish(code)
    BY <1>9 DEF SelectMissed
  <2>2. UNCHANGED <<size, last, shaky>>
    BY <1>9 DEF SelectMissed
  <2>3. cache' \in [Rows -> Cacheds] /\ \E code \in Codes : Finish(code)
    BY <1>1, <1>2, <1>3, <1>5, <2>1 DEF Codes
  <2> QED
    BY <1>1, <1>5, <1>7, <2>1, <2>2, <2>3 DEF Executed
<1>10. CASE UpdateCached
  BY <1>1, <1>2, <1>6, <1>7, <1>10 DEF UpdateCached, serverVars
<1>11. CASE UpdateMissed
  <2>1. PICK res \in Statement(TRUE, [db EXCEPT ![Row] = Val]) :
          Executed(res) /\ Finish(res.code) /\ Concluded(res.code, Val)
    BY <1>11 DEF UpdateMissed
  <2>2. cache' = [cache EXCEPT ![Row] = Entry(Val)] /\ size' = size
    BY <1>11 DEF UpdateMissed
  <2> QED
    BY <1>1, <1>2, <1>5, <1>6, <1>7, <2>1, <2>2 DEF Executed
<1>12. CASE Insert
  <2>1. PICK res \in Statement(db[Row] = 0, [db EXCEPT ![Row] = Val]) :
       /\ Executed(res)
       /\ \/ /\ res.code = "OK" /\ ~Cached(Row)
             /\ cache' = [cache EXCEPT ![Row] = Entry(Val)]
             /\ size' = size + 1
             /\ Concluded("OK", Val)
             /\ FinishClean
          \/ /\ res.code = "OK" /\ Cached(Row)
             /\ last' = [last EXCEPT ![Row] = Val] /\ shaky' = shaky \cup {Row}
             /\ Finish("OK") /\ UNCHANGED cacheVars
          \/ /\ res.code # "OK"
             /\ last' = last /\ shaky' = shaky \cup {r \in {Row} : res.db # db}
             /\ Finish(res.code) /\ UNCHANGED cacheVars
    BY <1>12 DEF Insert
  <2>2. /\ res.db \in Contents /\ res.code \in Codes
        /\ res.link \in {"open", "broken", "closed"} /\ res.faults \in 0 .. MaxFaults
    <3>1. (db[Row] = 0) \in BOOLEAN /\ [db EXCEPT ![Row] = Val] \in Contents
      BY <1>1, <1>2
    <3> QED
      BY <1>5, <3>1
  <2>3. CASE /\ cache' = [cache EXCEPT ![Row] = Entry(Val)] /\ size' = size + 1
             /\ Concluded("OK", Val) /\ FinishClean
    <3>1. cache' \in [Rows -> Cacheds] /\ size' \in Int /\ last' \in Contents /\ shaky' \subseteq Rows
      <4>1. Val \in Values \cup {0} /\ Entry(Val) \in Cacheds
        BY <1>1, <1>2
      <4>2. cache' \in [Rows -> Cacheds] /\ size' \in Int
        BY <1>1, <2>3, <4>1
      <4> QED
        BY <1>6, <2>3, <4>1, <4>2
    <3> QED
      BY <1>7, <2>1, <2>2, <2>3, <3>1 DEF Executed
  <2>4. CASE /\ last' = last \/ last' = [last EXCEPT ![Row] = Val]
             /\ shaky' = shaky \cup {Row} \/ shaky' = shaky \cup {r \in {Row} : res.db # db}
             /\ Finish("OK") \/ Finish(res.code)
             /\ UNCHANGED cacheVars
    <3>1. cache' \in [Rows -> Cacheds] /\ size' \in Int /\ last' \in Contents /\ shaky' \subseteq Rows
      BY <1>1, <1>2, <2>4 DEF cacheVars
    <3>2. \E code \in Codes : Finish(code)
      BY <2>2, <2>4 DEF Codes
    <3> QED
      BY <1>7, <2>1, <2>2, <3>1, <3>2 DEF Executed
  <2> QED
    BY <2>1, <2>3, <2>4
<1>13. CASE Delete
  <2>1. PICK res \in Statement(TRUE, [db EXCEPT ![Row] = 0]) :
          Executed(res) /\ Finish(res.code) /\ Concluded(res.code, 0)
    BY <1>13 DEF Delete
  <2>2. cache' \in [Rows -> Cacheds] /\ size' \in Int
    <3>1. NoEntry \in Cacheds
      BY DEF NoEntry, Cacheds
    <3> QED
      BY <1>1, <1>13, <3>1 DEF Delete, Uncached
  <2> QED
    BY <1>2, <1>5, <1>6, <1>7, <2>1, <2>2 DEF Executed
<1>14. CASE Call
  <2>1. PICK res \in Statement(TRUE, [db EXCEPT ![Row] = Val]) :
          /\ Executed(res) /\ Finish(res.code)
          /\ IF Cached(Row)
             THEN shaky' = shaky \cup {Row} /\ last' = IF res.code = "OK" THEN [last EXCEPT ![Row] = Val] ELSE last
             ELSE Concluded(res.code, Val)
    BY <1>14 DEF Call
  <2>2. cache' = cache /\ size' = size
    BY <1>14 DEF Call, cacheVars
  <2>3. last' \in Contents /\ shaky' \subseteq Rows
    BY <1>1, <1>2, <1>6, <2>1
  <2> QED
    BY <1>1, <1>2, <1>5, <1>7, <2>1, <2>2, <2>3 DEF Executed
<1>15. CASE QueryRows
  BY <1>1, <1>5, <1>7, <1>15 DEF QueryRows, Executed, cacheVars
<1>16. CASE Nop
  BY <1>1, <1>7, <1>16 DEF Nop, cacheVars, serverVars, Codes
<1>17. CASE Flush
  <2>1. PICK res \in WriteBack(AllCached) : Executed(res)
    BY <1>17 DEF Flush
  <2>2. results' = results /\ Done /\ UNCHANGED <<cache, size, last, shaky>>
    BY <1>17 DEF Flush, cacheVars
  <2>3. /\ res.db \in Contents /\ res.link \in {"open", "broken", "closed"} /\ res.faults \in 0 .. MaxFaults
    BY <1>4, WriteBackFacts DEF Contents
  <2> QED
    BY <1>1, <1>7, <2>1, <2>2, <2>3 DEF Executed
<1> QED
  BY <1>8, <1>9, <1>10, <1>11, <1>12, <1>13, <1>14, <1>15, <1>16, <1>17 DEF OnDbCommand

\* The types of what the service and the rest of the thread change.
LEMMA TypeStep == TypeOK /\ [Next]_vars => TypeOK'
<1> SUFFICES ASSUME TypeOK, [Next]_vars PROVE TypeOK'
  OBVIOUS
<1>1. /\ cache \in [Rows -> Cacheds] /\ size \in Int /\ db \in Contents /\ last \in Contents
      /\ results \in Seq(Results) /\ heard \in Seq(Results) /\ {queue, batch, sent} \subseteq Seq(Commands)
      /\ shaky \subseteq Rows /\ faults \in 0 .. MaxFaults /\ MaxFaults \in Nat /\ MaxCommands \in Nat
      /\ link \in {"open", "broken", "closed"} /\ quit \in BOOLEAN
      /\ (stage \in {"work", "clean"}) = (batch # <<>>)
  BY DbAssumption DEF TypeOK, Cacheds, Contents
<1>2. AllCached \in SUBSET Rows /\ \A r \in Rows : cache[r].val \in Values \cup {0}
  BY <1>1 DEF AllCached, Cacheds
<1>3. ASSUME NEW rows \in SUBSET Rows, NEW res \in WriteBack(rows)
      PROVE  res.db \in Contents /\ res.link \in {"open", "broken", "closed"} /\ res.faults \in 0 .. MaxFaults
  BY <1>2, <1>3, WriteBackFacts DEF Contents
<1>4. ASSUME NEW rows, NEW res, rows \subseteq Rows PROVE Missed(rows, res) \subseteq Rows
  BY <1>4 DEF Missed
<1>5. CASE \E req \in Requests : Query(req)
  <2>1. PICK req \in Requests : Query(req)
    BY <1>5
  <2> DEFINE command == [id |-> Len(sent) + 1, op |-> req.op, row |-> req.row, val |-> req.val]
  <2>2. command \in Commands
    <3>1. req.op \in Ops /\ req.row \in Rows /\ req.val \in Values
      BY <2>1, DbAssumption
    <3>2. Len(sent) + 1 \in 1 .. MaxCommands
      BY <1>1, <2>1 DEF Query
    <3> QED
      BY <3>1, <3>2 DEF Commands
  <2>3. queue' = Append(queue, command) /\ sent' = Append(sent, command)
    BY <2>1 DEF Query
  <2>4. UNCHANGED <<batch, stage, results, cache, size, db, link, faults, quit, heard, last, shaky>>
    BY <2>1 DEF Query, threadVars, cacheVars, serverVars
  <2>5. queue' \in Seq(Commands) /\ sent' \in Seq(Commands)
    BY <1>1, <2>2, <2>3
  <2> QED
    BY <2>4, <2>5 DEF TypeOK
<1>6. CASE \E r \in Rows : Tick(r)
  <2>1. PICK r \in Rows : Tick(r)
    BY <1>6
  <2>2. PICK res \in WriteBack(AllCached \cap {TickerContext}) : Executed(res)
    BY <2>1 DEF Tick
  <2>3. /\ cache' = [cache EXCEPT ![r].ticker = "fired"]
        /\ UNCHANGED <<queue, batch, stage, results, size, quit, heard, sent, last, shaky>>
    BY <2>1 DEF Tick, threadVars
  <2>4. cache' \in [Rows -> Cacheds]
    BY <1>1, <2>3 DEF Cacheds
  <2>5. res.db \in Contents /\ res.link \in {"open", "broken", "closed"} /\ res.faults \in 0 .. MaxFaults
    BY <1>2, <1>3
  <2> QED
    BY <2>2, <2>3, <2>4, <2>5 DEF TypeOK, Executed, Cacheds, Contents
<1>7. CASE Update
  <2>1. heard' = heard \o results /\ results' = <<>>
        /\ UNCHANGED <<queue, batch, stage, cache, size, db, link, faults, quit, sent, last, shaky>>
    BY <1>7 DEF Update, cacheVars, serverVars
  <2>2. heard' \in Seq(Results) /\ results' \in Seq(Results)
    BY <1>1, <2>1
  <2> QED
    BY <2>1, <2>2 DEF TypeOK
<1>8. CASE Release
  BY <1>8 DEF TypeOK, Release, threadVars, cacheVars, serverVars
<1>9. CASE Break
  <2>1. faults' \in 0 .. MaxFaults /\ link' \in {"open", "broken", "closed"}
        /\ UNCHANGED <<queue, batch, stage, results, cache, size, db, quit, heard, sent, last, shaky>>
    BY <1>1, <1>9 DEF Break, threadVars, cacheVars
  <2> QED
    BY <2>1 DEF TypeOK
<1>10. CASE Loop
  <2>1. batch = <<>> /\ stage' = "ping" /\ stage = "loop"
    BY <1>1, <1>10 DEF Loop, At
  <2>2. UNCHANGED <<queue, batch, results, cache, size, db, link, faults, quit, heard, sent, last, shaky>>
    BY <1>10 DEF Loop, cacheVars, serverVars
  <2> QED
    BY <2>1, <2>2 DEF TypeOK
<1>11. CASE Destroy
  <2>1. /\ stage = "loop" /\ stage' = "gone" /\ link' = "closed" /\ batch = <<>>
        /\ UNCHANGED <<queue, batch, results, cache, size, quit, heard, sent, last>>
    BY <1>1, <1>11 DEF Destroy, At, cacheVars
  <2>2. PICK res \in WriteBack(AllCached) :
          /\ db' = res.db /\ faults' = res.faults
          /\ shaky' = shaky \cup (IF res.code = "OK" THEN {} ELSE Missed(AllCached, res))
    BY <1>11 DEF Destroy, ToFlush
  <2>3. shaky' \subseteq Rows /\ db' \in Contents /\ faults' \in 0 .. MaxFaults
    BY <1>1, <1>2, <1>3, <1>4, <2>2
  <2> QED
    BY <2>1, <2>3 DEF TypeOK, Contents
<1>12. CASE Ping
  <2>1. batch = <<>> /\ stage' = "tickers" /\ stage = "ping" /\ link' = "open"
    BY <1>1, <1>12 DEF Ping, At
  <2>2. UNCHANGED <<queue, batch, results, cache, size, db, faults, quit, heard, sent, last, shaky>>
    BY <1>12 DEF Ping, cacheVars
  <2> QED
    BY <2>1, <2>2 DEF TypeOK
<1>13. CASE Take
  <2>1. /\ stage = "tickers" /\ stage' = (IF queue = <<>> THEN "loop" ELSE "work")
        /\ batch' = queue /\ queue' = <<>>
        /\ UNCHANGED <<results, cache, size, db, link, faults, quit, heard, sent, last, shaky>>
    BY <1>13 DEF Take, Taken, At, cacheVars, serverVars
  <2>2. queue' \in Seq(Commands) /\ batch' \in Seq(Commands)
    BY <1>1, <2>1
  <2>3. stage' \in {"loop", "work"} /\ (stage' \in {"work", "clean"}) = (batch' # <<>>)
    BY <2>1
  <2> QED
    BY <2>1, <2>2, <2>3 DEF TypeOK
<1>14. CASE OnDbCommand
  <2>1. stage = "work"
    BY <1>14 DEF OnDbCommand, SelectCached, SelectMissed, UpdateCached, UpdateMissed, Insert, Delete, Call,
                 QueryRows, Nop, Flush, Doing
  <2> QED
    BY <1>14, <2>1, CommandTypes
<1>15. CASE Clean
  <2>1. stage = "clean" /\ last' = last /\ Finish("OK")
    BY <1>15 DEF Clean
  <2>2. /\ {queue', batch', sent'} \subseteq Seq(Commands) /\ {results', heard'} \subseteq Seq(Results)
        /\ stage' \in {"loop", "work"} /\ quit' \in BOOLEAN
        /\ (stage' \in {"work", "clean"}) = (batch' # <<>>)
    BY <2>1, FinishTypes DEF Codes
  <2>3. cache' \in [Rows -> Cacheds] /\ size' \in Int
    <3>1. NoEntry \in Cacheds
      BY DEF NoEntry, Cacheds
    <3>2. \/ cache' = cache /\ size' = size
          \/ size' = size - 1 /\ \E r \in AllCached : cache' = [cache EXCEPT ![r] = NoEntry]
      BY <1>15 DEF Clean, cacheVars
    <3>3. size' \in Int
      BY <1>1, <3>2
    <3>4. cache' \in [Rows -> Cacheds]
      BY <1>1, <3>1, <3>2
    <3> QED
      BY <3>3, <3>4
  <2>4. /\ db' \in Contents /\ link' \in {"open", "broken", "closed"} /\ faults' \in 0 .. MaxFaults
        /\ shaky' \subseteq Rows
    <3>1. CASE UNCHANGED <<cacheVars, serverVars, shaky>>
      BY <1>1, <3>1 DEF serverVars
    <3>2. ASSUME NEW r \in AllCached, NEW res \in WriteBack({r}), Executed(res),
                 shaky' = shaky \cup (IF res.code = "OK" THEN {} ELSE Missed({r}, res))
          PROVE  /\ db' \in Contents /\ link' \in {"open", "broken", "closed"} /\ faults' \in 0 .. MaxFaults
                 /\ shaky' \subseteq Rows
      <4>1. {r} \in SUBSET Rows
        BY <1>2
      <4>2. Missed({r}, res) \subseteq Rows
        BY <1>4, <4>1
      <4> QED
        BY <1>1, <1>3, <3>2, <4>1, <4>2 DEF Executed
    <3>3. ASSUME NEW r \in AllCached, UNCHANGED serverVars,
                 shaky' = shaky \cup {x \in {r} : cache[x].ticker = "fired" /\ cache[x].val # db[x]}
          PROVE  /\ db' \in Contents /\ link' \in {"open", "broken", "closed"} /\ faults' \in 0 .. MaxFaults
                 /\ shaky' \subseteq Rows
      BY <1>1, <1>2, <3>3 DEF serverVars
    <3> QED
      BY <1>15, <3>1, <3>2, <3>3 DEF Clean
  <2> QED
    BY <1>1, <2>1, <2>2, <2>3, <2>4 DEF TypeOK, Cacheds, Contents
<1>16. CASE UNCHANGED vars
  BY <1>16 DEF TypeOK, vars, threadVars, cacheVars, serverVars
<1> QED
  BY <1>5, <1>6, <1>7, <1>8, <1>9, <1>10, <1>11, <1>12, <1>13, <1>14, <1>15, <1>16 DEF Next, Thread

-----------------------------------------------------------------------------
(* Answers.  a: the answers, r: the commands without one, s: all commands. *)

Numbered(s) == \A i \in DOMAIN s : s[i].id = i
IdsOf(a) == {a[i].id : i \in DOMAIN a}
DecidedIds(s, n) == {s[i].id : i \in {k \in 1 .. n : s[k].op # "flush"}}
InOrder(a, r, s) ==
  /\ Len(s) - Len(r) >= 0
  /\ \A i \in DOMAIN r : r[i] = s[(Len(s) - Len(r)) + i]
  /\ \A i, j \in DOMAIN a : i < j => a[i].id < a[j].id
  /\ IdsOf(a) = DecidedIds(s, Len(s) - Len(r))

\* The property says that they are in order.
LEMMA OrderIs ==
  /\ AnswersInOrder <=> InOrder(Answers, Rest, sent)
  /\ AnswersInOrder' <=> InOrder(Answers', Rest', sent')
BY DEF AnswersInOrder, InOrder, Decided, IdsOf, DecidedIds

\* What a decided command, and one that is next, look like.
LEMMA OrderFacts ==
  ASSUME NEW a \in Seq(Results), NEW r \in Seq(Commands), NEW s \in Seq(Commands),
         Numbered(s), InOrder(a, r, s)
  PROVE  /\ Len(s) - Len(r) \in Nat /\ Len(r) \in Nat /\ Len(s) \in Nat
         /\ \A i \in DOMAIN a : a[i].id \in 1 .. (Len(s) - Len(r))
         /\ r # <<>> => /\ Head(r) = s[Len(s) - Len(r) + 1] /\ Head(r).id = Len(s) - Len(r) + 1
                        /\ Len(r) > 0
<1> DEFINE n == Len(s) - Len(r)
<1>1. n \in Nat /\ Len(r) \in Nat /\ Len(s) \in Nat /\ DOMAIN s = 1 .. Len(s) /\ DOMAIN r = 1 .. Len(r)
  BY DEF InOrder
<1>2. \A k \in 1 .. n : s[k].id = k
  BY <1>1 DEF Numbered
<1>3. ASSUME NEW i \in DOMAIN a PROVE a[i].id \in 1 .. n
  <2>1. a[i].id \in DecidedIds(s, n)
    BY DEF InOrder, IdsOf
  <2> QED
    BY <1>2, <2>1 DEF DecidedIds
<1>4. ASSUME r # <<>> PROVE Head(r) = s[n + 1] /\ Head(r).id = n + 1 /\ Len(r) > 0
  <2>1. Len(r) > 0 /\ Head(r) = r[1] /\ 1 \in DOMAIN r /\ n + 1 \in DOMAIN s
    BY <1>1, <1>4
  <2> QED
    BY <1>1, <2>1 DEF InOrder, Numbered
<1> QED
  BY <1>1, <1>3, <1>4

\* A new command waits behind the others.
LEMMA OrderNew ==
  ASSUME NEW a \in Seq(Results), NEW r \in Seq(Commands), NEW s \in Seq(Commands),
         Numbered(s), InOrder(a, r, s), NEW m \in Commands, m.id = Len(s) + 1
  PROVE  Numbered(Append(s, m)) /\ InOrder(a, Append(r, m), Append(s, m))
<1> DEFINE n == Len(s) - Len(r)
<1>1. n \in Nat /\ Len(r) \in Nat /\ Len(s) \in Nat /\ DOMAIN s = 1 .. Len(s) /\ DOMAIN r = 1 .. Len(r)
  BY OrderFacts
<1>2. /\ Len(Append(s, m)) = Len(s) + 1 /\ Len(Append(r, m)) = Len(r) + 1
      /\ DOMAIN Append(s, m) = 1 .. Len(s) + 1 /\ DOMAIN Append(r, m) = 1 .. Len(r) + 1
      /\ \A i \in 1 .. Len(s) : Append(s, m)[i] = s[i]
      /\ \A i \in 1 .. Len(r) : Append(r, m)[i] = r[i]
      /\ Append(s, m)[Len(s) + 1] = m /\ Append(r, m)[Len(r) + 1] = m
  BY <1>1
<1>3. Numbered(Append(s, m))
  BY <1>1, <1>2 DEF Numbered
<1>4. Len(Append(s, m)) - Len(Append(r, m)) = n
  BY <1>1, <1>2
<1>5. ASSUME NEW i \in DOMAIN Append(r, m) PROVE Append(r, m)[i] = Append(s, m)[n + i]
  <2>1. CASE i \in 1 .. Len(r)
    <3>1. r[i] = s[n + i] /\ n + i \in 1 .. Len(s)
      BY <1>1, <2>1 DEF InOrder
    <3> QED
      BY <1>2, <2>1, <3>1
  <2>2. CASE i = Len(r) + 1
    BY <1>1, <1>2, <2>2
  <2> QED
    BY <1>1, <1>2, <2>1, <2>2
<1>6. IdsOf(a) = DecidedIds(Append(s, m), n)
  <2>1. \A k \in 1 .. n : Append(s, m)[k] = s[k]
    BY <1>1, <1>2
  <2>2. DecidedIds(Append(s, m), n) = DecidedIds(s, n)
    BY <2>1 DEF DecidedIds
  <2> QED
    BY <2>2 DEF InOrder
<1>7. \A i, j \in DOMAIN a : i < j => a[i].id < a[j].id
  BY DEF InOrder
<1> QED
  BY <1>1, <1>3, <1>4, <1>5, <1>6, <1>7 DEF InOrder

\* The next command is decided: with an answer, or a flush without one.
LEMMA OrderNext ==
  ASSUME NEW a \in Seq(Results), NEW r \in Seq(Commands), NEW s \in Seq(Commands),
         Numbered(s), InOrder(a, r, s), r # <<>>
  PROVE  /\ Head(r).op = "flush" => InOrder(a, Tail(r), s)
         /\ \A x \in Results : x.id = Head(r).id /\ Head(r).op # "flush" => InOrder(Append(a, x), Tail(r), s)
<1>0. PICK n \in Nat : n = Len(s) - Len(r)
  BY OrderFacts
<1>1. Len(r) \in Nat \ {0} /\ Len(s) \in Nat /\ DOMAIN s = 1 .. Len(s) /\ DOMAIN r = 1 .. Len(r)
      /\ Head(r) = s[n + 1] /\ Head(r).id = n + 1 /\ \A i \in DOMAIN a : a[i].id \in 1 .. n
  BY <1>0, OrderFacts
<1>2. PICK t \in Seq(Commands) :
        /\ t = Tail(r) /\ Len(t) = Len(r) - 1 /\ DOMAIN t = 1 .. Len(r) - 1
        /\ \A i \in 1 .. Len(r) - 1 : t[i] = r[i + 1]
  <2>1. /\ Tail(r) \in Seq(Commands) /\ Len(Tail(r)) = Len(r) - 1 /\ DOMAIN Tail(r) = 1 .. Len(r) - 1
        /\ \A i \in 1 .. Len(r) - 1 : Tail(r)[i] = r[i + 1]
    BY <1>1
  <2> QED
    BY <2>1
<1>3. Len(s) - Len(t) = n + 1 /\ n + 1 >= 0
  BY <1>0, <1>1, <1>2
<1>4. ASSUME NEW i \in DOMAIN t PROVE t[i] = s[(n + 1) + i]
  <2>1. i \in 1 .. Len(r) - 1
    BY <1>2
  <2>2. i + 1 \in 1 .. Len(r) /\ t[i] = r[i + 1] /\ n + (i + 1) = (n + 1) + i
    <3>1. PICK l \in Nat : l = Len(r)
      BY <1>1
    <3>2. i \in Int /\ i + 1 \in 1 .. l
      BY <2>1, <3>1
    <3> QED
      BY <1>2, <2>1, <3>1, <3>2
  <2>3. r[i + 1] = s[n + (i + 1)]
    BY <1>0, <1>1, <2>2 DEF InOrder
  <2> QED
    BY <2>2, <2>3
<1>5. \A k \in 1 .. n + 1 : k \in 1 .. n \/ k = n + 1
  <2>1. \A m \in Nat : \A k \in 1 .. m + 1 : k \in 1 .. m \/ k = m + 1
    OBVIOUS
  <2> QED
    BY <2>1
<1>6. IdsOf(a) = DecidedIds(s, n) /\ \A i, j \in DOMAIN a : i < j => a[i].id < a[j].id
  BY <1>0 DEF InOrder
<1>7. ASSUME Head(r).op = "flush" PROVE InOrder(a, Tail(r), s)
  <2>1. DecidedIds(s, n + 1) = DecidedIds(s, n)
    <3>1. \A k : k \in 1 .. n + 1 /\ s[k].op # "flush" <=> k \in 1 .. n /\ s[k].op # "flush"
      BY <1>1, <1>5, <1>7
    <3> QED
      BY <3>1 DEF DecidedIds
  <2> QED
    BY <1>2, <1>3, <1>4, <1>6, <2>1 DEF InOrder
<1>8. ASSUME NEW x \in Results, x.id = Head(r).id, Head(r).op # "flush"
      PROVE  InOrder(Append(a, x), Tail(r), s)
  <2>1. DecidedIds(s, n + 1) = DecidedIds(s, n) \cup {n + 1}
    <3>1. \A k : k \in 1 .. n + 1 /\ s[k].op # "flush" <=> (k \in 1 .. n /\ s[k].op # "flush") \/ k = n + 1
      BY <1>1, <1>5, <1>8
    <3>2. s[n + 1].id = n + 1
      BY <1>1
    <3> QED
      BY <3>1, <3>2 DEF DecidedIds
  <2>2. PICK b \in Seq(Results) :
        /\ b = Append(a, x) /\ Len(a) \in Nat /\ DOMAIN a = 1 .. Len(a) /\ DOMAIN b = 1 .. Len(a) + 1
        /\ \A i \in 1 .. Len(a) : b[i] = a[i]
        /\ b[Len(a) + 1] = x /\ x.id = n + 1
    <3>1. /\ Append(a, x) \in Seq(Results) /\ Len(a) \in Nat /\ DOMAIN a = 1 .. Len(a)
          /\ DOMAIN Append(a, x) = 1 .. Len(a) + 1 /\ \A i \in 1 .. Len(a) : Append(a, x)[i] = a[i]
          /\ Append(a, x)[Len(a) + 1] = x
      OBVIOUS
    <3> QED
      BY <1>1, <1>8, <3>1
  <2>0. \A i : i \in 1 .. Len(a) + 1 <=> i \in 1 .. Len(a) \/ i = Len(a) + 1
    BY <2>2
  <2>3. IdsOf(b) = IdsOf(a) \cup {n + 1}
    <3>1. ASSUME NEW z \in IdsOf(b) PROVE z \in IdsOf(a) \cup {n + 1}
      BY <2>0, <2>2 DEF IdsOf
    <3>2. ASSUME NEW z \in IdsOf(a) PROVE z \in IdsOf(b)
      BY <2>0, <2>2 DEF IdsOf
    <3>3. n + 1 \in IdsOf(b)
      BY <2>0, <2>2 DEF IdsOf
    <3> QED
      BY <3>1, <3>2, <3>3
  <2>4. ASSUME NEW i \in DOMAIN b, NEW j \in DOMAIN b, i < j
        PROVE  b[i].id < b[j].id
    <3>1. i \in 1 .. Len(a) /\ b[i] = a[i] /\ a[i].id \in 1 .. n
      BY <1>1, <2>2, <2>4
    <3>2. CASE j \in 1 .. Len(a)
      BY <1>6, <2>2, <2>4, <3>1, <3>2
    <3>3. CASE j = Len(a) + 1
      BY <1>1, <2>2, <3>1, <3>3
    <3> QED
      BY <2>2, <3>2, <3>3
  <2> QED
    BY <1>2, <1>3, <1>4, <1>6, <2>1, <2>2, <2>3, <2>4 DEF InOrder
<1> QED
  BY <1>7, <1>8

-----------------------------------------------------------------------------
(* The steps, for the answers.                                             *)

\* What is appended to the second of two queues is appended to both.
LEMMA AppendBehind ==
  ASSUME NEW S, NEW p \in Seq(S), NEW q \in Seq(S), NEW m \in S
  PROVE  p \o Append(q, m) = Append(p \o q, m)
<1>0. <<m>> \in Seq(S)
  OBVIOUS
<1>1. PICK u \in Seq(S) : u = <<m>>
  BY <1>0
<1>2. Append(q, m) = q \o u /\ Append(p \o q, m) = (p \o q) \o u
  BY <1>1, AppendIsConcat, ConcatProperties
<1>3. (p \o q) \o u = p \o (q \o u)
  BY ConcatAssociative
<1> QED
  BY <1>2, <1>3

\* The queues of the thread and of the service, joined, are sequences.
LEMMA QueueFacts ==
  ASSUME TypeOK
  PROVE  /\ Answers \in Seq(Results) /\ Rest \in Seq(Commands) /\ sent \in Seq(Commands)
         /\ {queue, batch} \subseteq Seq(Commands) /\ {results, heard} \subseteq Seq(Results)
BY DEF TypeOK, Answers, Rest

\* Taking the first command of the batch takes the first that has no answer.
LEMMA RestNext ==
  ASSUME TypeOK, batch # <<>>
  PROVE  Rest # <<>> /\ Head(Rest) = Command /\ Tail(batch) \o queue = Tail(Rest)
<1>1. batch \in Seq(Commands) /\ queue \in Seq(Commands) /\ Rest \in Seq(Commands)
  BY QueueFacts
<1>2. Len(batch) \in Nat /\ Len(batch) > 0 /\ Len(queue) \in Nat /\ Len(Rest) = Len(batch) + Len(queue)
  BY <1>1 DEF Rest
<1>3. Rest # <<>> /\ Head(Rest) = Head(batch)
  BY <1>1, <1>2 DEF Rest
<1>4. Tail(batch) \o queue = Tail(Rest)
  <2>1. /\ Tail(Rest) \in Seq(Commands) /\ Tail(batch) \o queue \in Seq(Commands)
        /\ Len(Tail(Rest)) = Len(Rest) - 1 /\ Len(Tail(batch) \o queue) = Len(Rest) - 1
    BY <1>1, <1>2, <1>3, HeadTailProperties, ConcatProperties
  <2>2. ASSUME NEW i \in 1 .. Len(Tail(Rest)) PROVE Tail(Rest)[i] = (Tail(batch) \o queue)[i]
    BY <1>1, <1>2, <1>3, <2>1 DEF Rest
  <2> QED
    BY <2>1, <2>2, SeqEqual
<1> QED
  BY <1>3, <1>4 DEF Command

\* A command is done: a flush without, any other one with an answer.
LEMMA DoneOrder ==
  ASSUME TypeOK, AnswersInOrder, Numbered(sent), stage \in {"work", "clean"}, Done,
         \/ Command.op = "flush" /\ results' = results
         \/ Command.op # "flush" /\ \E code \in Codes : results' = Append(results, [id |-> Command.id, code |-> code])
  PROVE  AnswersInOrder' /\ Numbered(sent')
<1>1. batch # <<>> /\ batch' = Tail(batch) /\ UNCHANGED <<queue, heard, sent>>
  BY CommandFacts DEF Done
<1>2. Rest # <<>> /\ Head(Rest) = Command /\ Rest' = Tail(Rest)
  BY <1>1, RestNext DEF Rest
<1>3. /\ Answers \in Seq(Results) /\ Rest \in Seq(Commands) /\ sent \in Seq(Commands)
      /\ {results, heard} \subseteq Seq(Results)
      /\ InOrder(Answers, Rest, sent)
  BY QueueFacts, OrderIs
<1>4. CASE Command.op = "flush" /\ results' = results
  <2>1. InOrder(Answers, Tail(Rest), sent)
    BY <1>2, <1>3, <1>4, OrderNext
  <2>2. Answers' = Answers
    BY <1>1, <1>4 DEF Answers
  <2>3. InOrder(Answers', Rest', sent')
    BY <1>1, <1>2, <2>1, <2>2
  <2> QED
    BY <1>1, <2>3, OrderIs
<1>5. ASSUME Command.op # "flush", NEW code \in Codes, results' = Append(results, [id |-> Command.id, code |-> code])
      PROVE  AnswersInOrder' /\ Numbered(sent')
  <2>1. PICK x \in Results : x = [id |-> Command.id, code |-> code]
    BY CommandFacts DEF Results, Codes
  <2>2. InOrder(Append(Answers, x), Tail(Rest), sent)
    BY <1>2, <1>3, <1>5, <2>1, OrderNext
  <2>3. Answers' = Append(Answers, x)
    <3>1. <<x>> \in Seq(Results)
      OBVIOUS
    <3>2. Append(results, x) = results \o <<x>> /\ Append(heard \o results, x) = (heard \o results) \o <<x>>
      BY <1>3, <3>1, AppendIsConcat, ConcatProperties
    <3>3. (heard \o results) \o <<x>> = heard \o (results \o <<x>>)
      BY <1>3, <3>1, ConcatAssociative
    <3> QED
      BY <1>1, <1>5, <2>1, <3>2, <3>3 DEF Answers
  <2>4. InOrder(Answers', Rest', sent')
    BY <1>1, <1>2, <2>2, <2>3
  <2> QED
    BY <1>1, <2>4, OrderIs
<1> QED
  BY <1>4, <1>5

\* Neither answers nor commands change places.
LEMMA SameOrder ==
  ASSUME AnswersInOrder, Numbered(sent), Answers' = Answers, Rest' = Rest, sent' = sent
  PROVE  AnswersInOrder' /\ Numbered(sent')
BY OrderIs

\* Every step keeps the answers in order.
LEMMA AnswerStep ==
  ASSUME TypeOK, AnswersInOrder, AnswerInv, [Next]_vars
  PROVE  AnswersInOrder' /\ AnswerInv'
<1>0. Numbered(sent) /\ (AnswerInv' <=> Numbered(sent') /\ (stage' = "clean" => Command'.op # "flush"))
  BY DEF AnswerInv, Numbered
<1>1. /\ Answers \in Seq(Results) /\ Rest \in Seq(Commands) /\ sent \in Seq(Commands)
      /\ {queue, batch} \subseteq Seq(Commands) /\ {results, heard} \subseteq Seq(Results)
  BY QueueFacts
<1>2. ASSUME UNCHANGED <<queue, batch, results, heard, sent>>,
             stage' # "clean" \/ stage' = stage \/ Command.op # "flush"
      PROVE  AnswersInOrder' /\ AnswerInv'
  <2>1. Answers' = Answers /\ Rest' = Rest /\ Command' = Command
    BY <1>2 DEF Answers, Rest, Command
  <2>2. stage' = "clean" => Command.op # "flush"
    BY <1>2 DEF AnswerInv
  <2> QED
    BY <1>0, <1>2, <2>1, <2>2, SameOrder
<1>3. ASSUME stage \in {"work", "clean"}, Command.op # "flush", NEW code \in Codes, Finish(code)
      PROVE  AnswersInOrder' /\ AnswerInv'
  <2>1. Done /\ results' = Append(results, [id |-> Command.id, code |-> code]) /\ stage' # "clean"
    BY <1>3, FinishTypes
  <2> QED
    BY <1>0, <1>3, <2>1, DoneOrder
<1>4. CASE \E req \in Requests : Query(req)
  <2>1. PICK req \in Requests : Query(req)
    BY <1>4
  <2>2. PICK m \in Commands : m = [id |-> Len(sent) + 1, op |-> req.op, row |-> req.row, val |-> req.val]
    <3>1. req.op \in Ops /\ req.row \in Rows /\ req.val \in Values
      BY <2>1, DbAssumption
    <3>2. Len(sent) + 1 \in 1 .. MaxCommands
      BY <1>1, <2>1, DbAssumption DEF Query
    <3> QED
      BY <3>1, <3>2 DEF Commands
  <2>3. /\ queue' = Append(queue, m) /\ sent' = Append(sent, m)
        /\ UNCHANGED <<batch, stage, results, heard>>
    BY <2>1, <2>2 DEF Query, threadVars
  <2>4. Rest' = Append(Rest, m)
    <3>1. batch \o Append(queue, m) = Append(batch \o queue, m)
      BY <1>1, AppendBehind
    <3> QED
      BY <2>3, <3>1 DEF Rest
  <2>5. Numbered(Append(sent, m)) /\ InOrder(Answers, Append(Rest, m), Append(sent, m))
    <3>1. m.id = Len(sent) + 1 /\ InOrder(Answers, Rest, sent)
      BY <2>2, OrderIs
    <3> QED
      BY <1>0, <1>1, <3>1, OrderNew
  <2>6. InOrder(Answers', Rest', sent') /\ Numbered(sent')
    BY <2>3, <2>4, <2>5 DEF Answers
  <2>7. stage' = "clean" => Command'.op # "flush"
    BY <2>3 DEF AnswerInv, Command
  <2> QED
    BY <1>0, <2>6, <2>7, OrderIs
<1>5. CASE Update
  <2>1. heard' = heard \o results /\ results' = <<>> /\ UNCHANGED <<queue, batch, stage, sent>>
    BY <1>5 DEF Update
  <2>2. Answers' = Answers /\ Rest' = Rest /\ Command' = Command
    BY <1>1, <2>1, ConcatEmptySeq DEF Answers, Rest, Command
  <2> QED
    BY <1>0, <2>1, <2>2, SameOrder DEF AnswerInv
<1>6. CASE Take
  <2>1. /\ stage = "tickers" /\ stage' \in {"loop", "work"} /\ batch' = queue /\ queue' = <<>>
        /\ UNCHANGED <<results, heard, sent>>
    BY <1>6 DEF Take, Taken, At
  <2>2. batch = <<>>
    BY <2>1 DEF TypeOK
  <2>3. Answers' = Answers /\ Rest' = Rest
    BY <1>1, <2>1, <2>2, ConcatEmptySeq DEF Answers, Rest
  <2> QED
    BY <1>0, <2>1, <2>3, SameOrder
<1>7. CASE (\E r \in Rows : Tick(r)) \/ Release \/ Break \/ Loop \/ Destroy \/ Ping \/ UNCHANGED vars
  BY <1>2, <1>7 DEF Tick, Release, Break, Loop, Destroy, Ping, At, vars, threadVars
<1>8. CASE Clean
  <2>1. stage = "clean" /\ Finish("OK") /\ Command.op # "flush"
    BY <1>8 DEF Clean, AnswerInv
  <2> QED
    BY <1>3, <2>1 DEF Codes
<1>9. CASE Flush
  <2>1. stage = "work" /\ Command.op = "flush" /\ results' = results /\ Done
    BY <1>9 DEF Flush, Doing
  <2>2. stage' # "clean"
    BY <2>1, DoneTypes
  <2> QED
    BY <1>0, <2>1, <2>2, DoneOrder
<1>10. CASE SelectCached \/ SelectMissed \/ UpdateCached \/ UpdateMissed \/ Insert \/ Delete \/ Call \/ QueryRows \/ Nop
  <2>1. stage = "work" /\ Command.op # "flush"
    BY <1>10 DEF SelectCached, SelectMissed, UpdateCached, UpdateMissed, Insert, Delete, Call, QueryRows, Nop, Doing
  <2>2. (\E code \in Codes : Finish(code)) \/ FinishClean
    <3>1. \A accepts \in BOOLEAN, table \in Contents : \A res \in Statement(accepts, table) : res.code \in Codes
      BY StatementFacts DEF Codes
    <3>2. db \in Contents /\ Row \in Rows /\ Val \in Values
      BY <2>1, CommandFacts DEF TypeOK, Contents
    <3>3. \A v \in Values \cup {0} : [db EXCEPT ![Row] = v] \in Contents
      BY <3>2 DEF Contents
    <3>4. {"OK", "EmptyRecordset"} \subseteq Codes
      BY DEF Codes
    <3>5. CASE SelectCached \/ Nop \/ UpdateCached
      BY <3>4, <3>5 DEF SelectCached, Nop, UpdateCached
    <3>6. CASE SelectMissed \/ QueryRows
      BY <3>1, <3>2, <3>4, <3>6 DEF SelectMissed, QueryRows
    <3>7. CASE UpdateMissed \/ Call \/ Delete
      BY <3>1, <3>2, <3>3, <3>7 DEF UpdateMissed, Call, Delete
    <3>8. CASE Insert
      <4>1. PICK res \in Statement(db[Row] = 0, [db EXCEPT ![Row] = Val]) :
              FinishClean \/ Finish("OK") \/ Finish(res.code)
        BY <3>8 DEF Insert
      <4>2. (db[Row] = 0) \in BOOLEAN /\ [db EXCEPT ![Row] = Val] \in Contents
        BY <3>2, <3>3
      <4> QED
        BY <3>1, <3>4, <4>1, <4>2
    <3> QED
      BY <1>10, <3>5, <3>6, <3>7, <3>8
  <2>3. CASE \E code \in Codes : Finish(code)
    BY <1>3, <2>1, <2>3
  <2>4. CASE FinishClean
    <3>1. \/ stage' = "clean" /\ UNCHANGED <<queue, batch, results, quit, heard, sent>>
          \/ Finish("OK")
      BY <2>4 DEF FinishClean
    <3> QED
      BY <1>2, <1>3, <2>1, <3>1 DEF Codes
  <2> QED
    BY <2>2, <2>3, <2>4
<1> QED
  BY <1>4, <1>5, <1>6, <1>7, <1>8, <1>9, <1>10 DEF Next, Thread, OnDbCommand

-----------------------------------------------------------------------------
(* The steps, for the writes.                                              *)

\* The cache or the table has the last value of a row; an entry without a ticker
\* agrees with the table.
Kept(r) ==
  /\ IF Cached(r) THEN cache[r].val = last[r] ELSE db[r] = last[r]
  /\ stage = "gone" \/ cache[r].ticker = "none" => db[r] = last[r]

\* NothingLost says of each row what Kept says of it.
LEMMA KeptIs ==
  /\ NothingLost <=> \A r \in Rows \ shaky : Kept(r)
  /\ NothingLost' <=> \A r \in Rows \ shaky' : Kept(r)'
BY DEF NothingLost, Kept

\* A row that a step leaves alone.
LEMMA KeptSame ==
  ASSUME NEW r, Kept(r), cache'[r] = cache[r], db'[r] = db[r], last'[r] = last[r],
         stage' # "gone" \/ stage' = stage
  PROVE  Kept(r)'
BY DEF Kept, Cached

\* A row that a step has saved, or would have if it is in the cache.
LEMMA KeptSaved ==
  ASSUME NEW r, Kept(r), cache'[r].val = cache[r].val, last'[r] = last[r],
         Cached(r) => (stage' = "gone" => db'[r] = cache[r].val),
         db'[r] = db[r] \/ (Cached(r) /\ db'[r] = cache[r].val),
         cache'[r].ticker = "none" => cache[r].ticker = "none"
  PROVE  Kept(r)'
BY DEF Kept, Cached

\* No command, done at once or not, ends the thread.
LEMMA StaysUp ==
  ASSUME TypeOK, stage \in {"work", "clean"},
         (\E code \in Codes : Finish(code)) \/ (stage = "work" /\ FinishClean) \/ Done
  PROVE  stage' # "gone" /\ stage # "gone"
BY FinishTypes, FinishCleanTypes, DoneTypes

\* A command loses nothing.
LEMMA CommandLoses ==
  ASSUME TypeOK, NothingLost, stage = "work", OnDbCommand
  PROVE  NothingLost'
<1> SUFFICES ASSUME NEW r \in Rows, r \notin shaky' PROVE Kept(r)'
  BY KeptIs
<1>1. /\ Command \in Commands /\ Row \in Rows /\ Val \in Values /\ 0 \notin Values
      /\ cache \in [Rows -> Cacheds] /\ db \in Contents /\ last \in Contents
  BY CommandFacts, DbAssumption DEF TypeOK, Cacheds, Contents
<1>2. r \notin shaky => Kept(r)
  BY KeptIs
<1>3. ASSUME NEW accepts \in BOOLEAN, NEW v \in Values \cup {0}, NEW res \in Statement(accepts, [db EXCEPT ![Row] = v])
      PROVE  /\ r # Row => res.db[r] = db[r]
             /\ res.code = "OK" => res.db[Row] = v
             /\ res.db = db \/ res.db = [db EXCEPT ![Row] = v]
             /\ res.code \in Codes
  <2>1. [db EXCEPT ![Row] = v] \in Contents
    BY <1>1 DEF Contents
  <2>2. (res.db = db \/ res.db = [db EXCEPT ![Row] = v]) /\ (res.code = "OK" => res.db = [db EXCEPT ![Row] = v])
        /\ res.code \in Codes
    BY <1>3, <2>1, StatementFacts DEF Codes
  <2> QED
    BY <1>1, <2>2 DEF Contents
<1>4. ASSUME NEW accepts \in BOOLEAN, NEW res \in Statement(accepts, db)
      PROVE  res.db = db /\ res.code \in Codes
  BY <1>1, <1>4, StatementFacts DEF Codes
<1>5. {"OK", "EmptyRecordset"} \subseteq Codes
  BY DEF Codes
<1>6. CASE SelectCached \/ QueryRows \/ Nop
  <2>1. db' = db
    BY <1>4, <1>6 DEF SelectCached, QueryRows, Nop, serverVars, Executed
  <2>2. UNCHANGED <<cache, last, shaky>> /\ \E code \in Codes : Finish(code)
    BY <1>4, <1>5, <1>6 DEF SelectCached, QueryRows, Nop, cacheVars
  <2> QED
    BY <1>2, <2>1, <2>2, KeptSame, StaysUp
<1>7. CASE SelectMissed
  <2>1. PICK res \in Statement(TRUE, db) :
          LET code == IF res.code = "OK" /\ db[Row] = 0 THEN "EmptyRecordset" ELSE res.code
          IN /\ Executed(res)
             /\ cache' = IF code = "OK" THEN [cache EXCEPT ![Row] = Entry(db[Row])] ELSE cache
             /\ Finish(code)
    BY <1>7 DEF SelectMissed
  <2>2. UNCHANGED <<size, last, shaky>> /\ ~Cached(Row)
    BY <1>7 DEF SelectMissed
  <2>3. db' = db /\ \E code \in Codes : Finish(code)
    BY <1>4, <1>5, <2>1 DEF Executed
  <2>4. stage' # "gone" /\ Kept(r)
    BY <1>2, <2>2, <2>3, StaysUp
  <2>5. CASE cache'[r] = cache[r]
    BY <2>2, <2>3, <2>4, <2>5, KeptSame
  <2>6. CASE r = Row /\ cache'[r] = Entry(db[Row])
    BY <2>2, <2>3, <2>4, <2>6 DEF Kept, Cached, Entry
  <2> QED
    BY <1>1, <2>1, <2>5, <2>6
<1>8. CASE UpdateCached
  <2>1. /\ cache' = [cache EXCEPT ![Row] = [val |-> Val, ticker |-> "on"]] /\ db' = db
        /\ last' = [last EXCEPT ![Row] = Val] /\ shaky' = shaky \ {Row} /\ FinishClean
    BY <1>8 DEF UpdateCached, Changed, Concluded, serverVars
  <2>2. stage' # "gone"
    BY <2>1, StaysUp
  <2>3. CASE r = Row
    BY <1>1, <2>1, <2>2, <2>3 DEF Kept, Cached, Contents
  <2>4. CASE r # Row
    BY <1>1, <1>2, <2>1, <2>2, <2>4, KeptSame DEF Contents
  <2> QED
    BY <2>3, <2>4
<1>9. ASSUME NEW v \in Values \cup {0}, NEW res \in Statement(TRUE, [db EXCEPT ![Row] = v]), Executed(res),
             Finish(res.code), Concluded(res.code, v),
             \A x \in Rows : x # Row => cache'[x] = cache[x],
             cache'[Row] = Entry(v) \/ (cache'[Row] = cache[Row] /\ ~Cached(Row)) \/ (v = 0 /\ cache'[Row] = NoEntry)
      PROVE  Kept(r)'
  <2>1. /\ r # Row => db'[r] = db[r]
        /\ res.code = "OK" => db'[Row] = v
        /\ stage' # "gone"
    BY <1>3, <1>9, StaysUp DEF Executed
  <2>2. CASE r # Row
    <3>1. r \notin shaky /\ last'[r] = last[r]
      BY <1>1, <1>9, <2>2 DEF Concluded, Contents
    <3> QED
      BY <1>2, <1>9, <2>1, <2>2, <3>1, KeptSame
  <2>3. CASE r = Row
    <3>1. res.code = "OK" /\ last'[r] = v
      BY <1>1, <1>9, <2>3 DEF Concluded, Contents
    <3> QED
      BY <1>9, <2>1, <2>3, <3>1 DEF Kept, Cached, Entry, NoEntry
  <2> QED
    BY <2>2, <2>3
<1>10. CASE UpdateMissed
  <2>1. \A x \in Rows : x # Row => cache'[x] = cache[x]
    BY <1>1, <1>10 DEF UpdateMissed
  <2>2. cache'[Row] = Entry(Val)
    BY <1>1, <1>10 DEF UpdateMissed
  <2> QED
    BY <1>1, <1>9, <1>10, <2>1, <2>2 DEF UpdateMissed
<1>11. CASE Insert
  <2>1. PICK res \in Statement(db[Row] = 0, [db EXCEPT ![Row] = Val]) :
       /\ Executed(res)
       /\ \/ /\ res.code = "OK" /\ ~Cached(Row)
             /\ cache' = [cache EXCEPT ![Row] = Entry(Val)]
             /\ size' = size + 1
             /\ Concluded("OK", Val)
             /\ FinishClean
          \/ /\ res.code = "OK" /\ Cached(Row)
             /\ last' = [last EXCEPT ![Row] = Val] /\ shaky' = shaky \cup {Row}
             /\ Finish("OK") /\ UNCHANGED cacheVars
          \/ /\ res.code # "OK"
             /\ last' = last /\ shaky' = shaky \cup {x \in {Row} : res.db # db}
             /\ Finish(res.code) /\ UNCHANGED cacheVars
    BY <1>11 DEF Insert
  <2>2. (db[Row] = 0) \in BOOLEAN /\ Val \in Values \cup {0}
    BY <1>1
  <2>3. /\ r # Row => db'[r] = db[r]
        /\ res.code = "OK" => db'[Row] = Val
        /\ res.code \in Codes /\ db' = res.db
    BY <1>3, <2>1, <2>2 DEF Executed
  <2>4. stage' # "gone"
    BY <1>5, <2>1, <2>3, StaysUp
  <2>5. CASE r # Row
    <3>1. r \notin shaky /\ last'[r] = last[r] /\ cache'[r] = cache[r]
      BY <1>1, <2>1, <2>5 DEF Concluded, Contents, cacheVars
    <3> QED
      BY <1>2, <2>3, <2>4, <2>5, <3>1, KeptSame
  <2>6. CASE r = Row /\ res.code = "OK"
    <3>1. cache'[r] = Entry(Val) /\ last'[r] = Val
      BY <1>1, <2>1, <2>6 DEF Concluded, Contents
    <3> QED
      BY <2>3, <2>4, <2>6, <3>1 DEF Kept, Cached, Entry
  <2>7. CASE r = Row /\ res.code # "OK"
    <3>1. db' = db /\ last' = last /\ cache' = cache /\ r \notin shaky
      BY <2>1, <2>3, <2>7 DEF cacheVars
    <3> QED
      BY <1>2, <2>4, <3>1, KeptSame
  <2> QED
    BY <2>5, <2>6, <2>7
<1>12. CASE Delete
  <2>1. (\A x \in Rows : x # Row => cache'[x] = cache[x]) /\ cache'[Row] = NoEntry
    BY <1>1, <1>12 DEF Delete, Uncached
  <2>2. 0 \in Values \cup {0}
    OBVIOUS
  <2> QED
    BY <1>9, <1>12, <2>1, <2>2 DEF Delete
<1>13. CASE Call
  <2>1. PICK res \in Statement(TRUE, [db EXCEPT ![Row] = Val]) :
          /\ Executed(res) /\ Finish(res.code)
          /\ IF Cached(Row)
             THEN shaky' = shaky \cup {Row} /\ last' = IF res.code = "OK" THEN [last EXCEPT ![Row] = Val] ELSE last
             ELSE Concluded(res.code, Val)
    BY <1>13 DEF Call
  <2>2. cache' = cache /\ Val \in Values \cup {0}
    BY <1>1, <1>13 DEF Call, cacheVars
  <2>3. CASE ~Cached(Row)
    BY <1>9, <2>1, <2>2, <2>3
  <2>4. CASE Cached(Row)
    <3>1. r # Row /\ r \notin shaky /\ last'[r] = last[r]
      BY <1>1, <2>1, <2>4 DEF Contents
    <3>2. db'[r] = db[r] /\ stage' # "gone"
      BY <1>3, <2>1, <2>2, <3>1, StaysUp DEF Executed
    <3> QED
      BY <1>2, <2>2, <3>1, <3>2, KeptSame
  <2> QED
    BY <2>3, <2>4
<1>14. CASE Flush
  <2>1. PICK res \in WriteBack(AllCached) : Executed(res)
    BY <1>14 DEF Flush
  <2>2. UNCHANGED <<cache, last, shaky>> /\ Done
    BY <1>14 DEF Flush, cacheVars
  <2>3. db'[r] = db[r] \/ (Cached(r) /\ db'[r] = cache[r].val)
    BY <2>1, WriteBackFacts DEF AllCached, Executed
  <2> QED
    BY <1>2, <2>2, <2>3, KeptSaved, StaysUp
<1> QED
  BY <1>6, <1>7, <1>8, <1>10, <1>11, <1>12, <1>13, <1>14 DEF OnDbCommand

\* No step loses anything.
LEMMA LostStep ==
  ASSUME TypeOK, NothingLost, [Next]_vars
  PROVE  NothingLost'
<1>1. CASE OnDbCommand
  <2>1. stage = "work"
    BY <1>1 DEF OnDbCommand, SelectCached, SelectMissed, UpdateCached, UpdateMissed, Insert, Delete, Call,
                QueryRows, Nop, Flush, Doing
  <2> QED
    BY <1>1, <2>1, CommandLoses
<1>2. ASSUME ~OnDbCommand PROVE NothingLost'
  <2> SUFFICES ASSUME NEW r \in Rows, r \notin shaky' PROVE Kept(r)'
    BY KeptIs
  <2>1. r \notin shaky => Kept(r)
    BY KeptIs
  <2>2. /\ cache \in [Rows -> Cacheds] /\ db \in Contents /\ last \in Contents
        /\ AllCached \in SUBSET Rows
    BY DEF TypeOK, Cacheds, Contents, AllCached
  <2>3. CASE \/ \E req \in Requests : Query(req)
             \/ Update \/ Release \/ Break \/ Loop \/ Ping \/ Take \/ UNCHANGED vars
    <3>1. UNCHANGED <<cache, db, last, shaky>> /\ (stage' # "gone" \/ stage' = stage)
      BY <2>3 DEF Query, Update, Release, Break, Loop, Ping, Take, At, vars, threadVars, cacheVars, serverVars
    <3> QED
      BY <2>1, <3>1, KeptSame
  <2>4. ASSUME NEW q \in Rows, Tick(q) PROVE Kept(r)'
    <3>1. PICK res \in WriteBack(AllCached \cap {TickerContext}) : Executed(res)
      BY <2>4 DEF Tick
    <3>2. /\ stage = "tickers" /\ Ticks(q) /\ cache' = [cache EXCEPT ![q].ticker = "fired"]
          /\ UNCHANGED <<stage, last, shaky>>
      BY <2>4 DEF Tick, threadVars
    <3>3. /\ cache'[r].val = cache[r].val
          /\ cache'[r].ticker = "none" => cache[r].ticker = "none"
      BY <2>2, <3>2 DEF Cacheds
    <3>4. db'[r] = db[r] \/ (Cached(r) /\ db'[r] = cache[r].val)
      BY <2>2, <3>1, WriteBackFacts DEF Executed, AllCached
    <3> QED
      BY <2>1, <3>2, <3>3, <3>4, KeptSaved
  <2>5. CASE Destroy
    <3>1. UNCHANGED <<cache, last>> /\ stage' = "gone"
      BY <2>5 DEF Destroy, At, cacheVars
    <3>2. PICK res \in WriteBack(AllCached) :
            /\ db' = res.db
            /\ shaky' = shaky \cup (IF res.code = "OK" THEN {} ELSE Missed(AllCached, res))
      BY <2>5 DEF Destroy, ToFlush
    <3>3. r \notin shaky
      BY <3>2
    <3>4. /\ db'[r] = db[r] \/ (Cached(r) /\ db'[r] = cache[r].val)
          /\ Cached(r) => db'[r] = cache[r].val
      BY <2>2, <3>2, WriteBackFacts DEF AllCached, Missed
    <3> QED
      BY <2>1, <3>1, <3>3, <3>4, KeptSaved
  <2>6. CASE Clean
    <3>1. last' = last /\ stage' # "gone" /\ stage = "clean"
      <4>1. stage = "clean" /\ Finish("OK") /\ last' = last
        BY <2>6 DEF Clean
      <4> QED
        BY <4>1, StaysUp DEF Codes
    <3>2. CASE UNCHANGED <<cacheVars, serverVars, shaky>>
      BY <2>1, <3>1, <3>2, KeptSame DEF cacheVars, serverVars
    <3>3. ASSUME NEW q \in AllCached, cache' = [cache EXCEPT ![q] = NoEntry],
                 IF SavesFirst(q)
                 THEN \E res \in WriteBack({q}) :
                        /\ Executed(res)
                        /\ shaky' = shaky \cup (IF res.code = "OK" THEN {} ELSE Missed({q}, res))
                 ELSE /\ UNCHANGED serverVars
                      /\ shaky' = shaky \cup {x \in {q} : cache[x].ticker = "fired" /\ cache[x].val # db[x]}
          PROVE  Kept(r)'
      <4>1. q \in Rows /\ Cached(q) /\ r \notin shaky
        BY <3>3 DEF AllCached
      <4>2. /\ r # q => db'[r] = db[r]
            /\ r = q => db'[r] = last[r]
        <5>1. CASE SavesFirst(q)
          <6>1. PICK res \in WriteBack({q}) :
                  /\ Executed(res)
                  /\ shaky' = shaky \cup (IF res.code = "OK" THEN {} ELSE Missed({q}, res))
            BY <3>3, <5>1
          <6>2. /\ db'[r] = db[r] \/ (r \in {q} /\ db'[r] = cache[r].val)
                /\ r = q => db'[r] = cache[r].val
            BY <4>1, <6>1, WriteBackFacts DEF Executed, Missed
          <6> QED
            BY <2>1, <4>1, <6>2 DEF Kept
        <5>2. CASE ~SavesFirst(q)
          <6>1. db' = db /\ shaky' = shaky \cup {x \in {q} : cache[x].ticker = "fired" /\ cache[x].val # db[x]}
            BY <3>3, <5>2 DEF serverVars
          <6>2. cache[q].ticker \in {"none", "fired"}
            BY <2>2, <4>1, <5>2 DEF SavesFirst, Ticks, Cacheds
          <6> QED
            BY <2>1, <4>1, <6>1, <6>2 DEF Kept
        <5> QED
          BY <5>1, <5>2
      <4>3. CASE r # q
        BY <2>1, <2>2, <3>1, <3>3, <4>1, <4>2, <4>3, KeptSame
      <4>4. CASE r = q
        <5>1. cache'[r] = NoEntry
          BY <2>2, <3>3, <4>4
        <5> QED
          BY <3>1, <4>2, <4>4, <5>1 DEF Kept, Cached, NoEntry
      <4> QED
        BY <4>3, <4>4
    <3> QED
      BY <2>6, <3>2, <3>3 DEF Clean
  <2> QED
    BY <1>2, <2>3, <2>4, <2>5, <2>6 DEF Next, Thread
<1> QED
  BY <1>1, <1>2

-----------------------------------------------------------------------------
(* Theorems.                                                               *)

\* At the start the queues are empty and the cache holds nothing the table lacks.
LEMMA InitInv == Init => Inv
<1> SUFFICES ASSUME Init PROVE Inv
  OBVIOUS
<1>1. /\ queue = <<>> /\ batch = <<>> /\ results = <<>> /\ heard = <<>> /\ sent = <<>>
      /\ cache = [r \in Rows |-> NoEntry] /\ size = 0 /\ db \in Contents /\ last = db
      /\ link = "open" /\ stage = "loop" /\ quit = FALSE /\ shaky = {} /\ faults = 0
  BY DbAssumption DEF Init, Contents
<1>2. TypeOK
  <2>1. cache \in [Rows -> Cacheds]
    BY <1>1 DEF NoEntry, Cacheds
  <2>2. <<>> \in Seq(Commands) /\ <<>> \in Seq(Results) /\ faults \in 0 .. MaxFaults
    BY <1>1, DbAssumption
  <2>3. {queue, batch, sent} \subseteq Seq(Commands) /\ {results, heard} \subseteq Seq(Results)
    BY <1>1, <2>2
  <2>4. (stage \in {"work", "clean"}) = (batch # <<>>)
    BY <1>1
  <2>5. {db, last} \subseteq Contents /\ shaky \subseteq Rows /\ size \in Int
    BY <1>1
  <2> QED
    BY <1>1, <2>1, <2>2, <2>3, <2>4, <2>5 DEF TypeOK, Cacheds, Contents
<1>3. AnswersInOrder
  <2>1. Answers = <<>> /\ Rest = <<>> /\ sent = <<>>
    BY <1>1, ConcatEmptySeq DEF Answers, Rest
  <2>2. IdsOf(<<>>) = {} /\ DecidedIds(<<>>, 0) = {}
    BY DEF IdsOf, DecidedIds
  <2>3. ASSUME NEW s, s = <<>> PROVE InOrder(s, s, s)
    <3>1. Len(s) = 0 /\ Len(s) - Len(s) = 0 /\ DOMAIN s = {}
      BY <2>3
    <3>2. IdsOf(s) = DecidedIds(s, Len(s) - Len(s))
      BY <2>2, <2>3, <3>1
    <3> QED
      BY <3>1, <3>2 DEF InOrder
  <2>4. InOrder(<<>>, <<>>, <<>>)
    BY <2>3
  <2> QED
    BY <2>1, <2>4, OrderIs
<1>4. AnswerInv
  BY <1>1 DEF AnswerInv
<1>5. NothingLost
  BY <1>1 DEF NothingLost, Cached, NoEntry
<1> QED
  BY <1>2, <1>3, <1>4, <1>5 DEF Inv

\* The inductive invariant holds in every reachable state.
LEMMA Invariance == Spec => []Inv
<1>1. Inv /\ [Next]_vars => Inv'
  BY TypeStep, AnswerStep, LostStep DEF Inv
<1> QED
  BY <1>1, InitInv, PTL DEF Spec

\* CDbThread::onProcess and CDbThreadMgr::update give every command but a flush
\* exactly one result, in the order of the commands.
THEOREM AnsweredOnce == Spec => []AnswersExact
<1>1. Inv => AnswersExact
  BY DEF Inv, AnswersExact
<1> QED
  BY <1>1, Invariance, PTL

\* What CDbCache and the table of the server hold together is what the commands
\* that succeeded have written, except for the rows the code gives up.
THEOREM WritesKept == Spec => []NothingLost
<1>1. Inv => NothingLost
  BY DEF Inv
<1> QED
  BY <1>1, Invariance, PTL
=============================================================================
