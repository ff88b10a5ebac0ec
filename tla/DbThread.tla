------------------------------ MODULE DbThread ------------------------------
(***************************************************************************)
(* A database thread of the database service: the queue of commands, the   *)
(* write-back cache of a table, the connection to the server and the list  *)
(* of results.  The service appends commands and collects results once per *)
(* frame; the thread takes the whole queue and works through it.  The      *)
(* server executes statements, refuses them, or is cut off before or after *)
(* it has executed one.                                                    *)
(*                                                                         *)
(* A row is a number, a value stands for the whole row (0: no row), and    *)
(* every row has the size 1.                                               *)
(*                                                                         *)
(* The client library reports a lost connection as 2006 or 2013, and the   *)
(* code compares with eMET_LostConnection, which is 1: a handler answers   *)
(* eDBRC_MysqlError, and the branch of onProcess that puts the commands    *)
(* back into the queue is never taken.                                     *)
(***************************************************************************)
EXTENDS Integers, Sequences, FiniteSets, SequencesExt

CONSTANTS Rows,        \* primary keys
          Values,      \* contents of a row
          Tables,      \* what the table may hold at the start
          Requests,    \* what the service asks for: records of op, row and val
          MaxCache,    \* m_nMaxCacheSize, in rows
          MaxCommands, \* bound: commands sent
          MaxFaults    \* bound: statements refused, connections broken

Ops == {"select", "update", "insert", "delete", "call", "query", "nop", "flush"}

ASSUME DbAssumption ==
  /\ Rows \subseteq Nat /\ IsFiniteSet(Rows)
  /\ Values \subseteq Nat \ {0}
  /\ Tables \subseteq [Rows -> Values \cup {0}]
  /\ Requests \subseteq [op : Ops, row : Rows, val : Values]
  /\ MaxCache \in Nat \ {0} /\ MaxCommands \in Nat /\ MaxFaults \in Nat

VARIABLES
  queue,   \* m_listCommand
  batch,   \* the commands the thread has taken and not done
  cache,   \* m_mapCacheInfo: per row its value and its write-back ticker
  size,    \* CDbCacheMgr::m_nDataSize
  db,      \* the table of the server
  link,    \* m_dbConnection: "open", "broken" and not yet noticed, or "closed"
  stage,   \* where the thread is
  quit,    \* the service has called release
  results, \* m_listResultInfo
  heard,   \* history: the results whose callbacks were called, in their order
  sent,    \* history: the commands sent, in their order
  last,    \* history: per row the value of the last command that succeeded
  shaky,   \* history: rows whose value the program may have lost, see below
  faults   \* history: number of faults so far

serverVars == <<db, link, faults>>
cacheVars == <<cache, size>>
threadVars == <<batch, stage, results>>
vars == <<queue, batch, cache, size, db, link, stage, quit, results, heard, sent, last, shaky,
          faults>>

NoEntry == [val |-> 0, ticker |-> "none"]
Entry(v) == [val |-> v, ticker |-> "none"]
Cached(r) == cache[r].val # 0
AllCached == {r \in Rows : Cached(r)}
\* ticker->isRegister()
Ticks(r) == cache[r].ticker = "on"

Init ==
  /\ queue = <<>> /\ batch = <<>>
  /\ cache = [r \in Rows |-> NoEntry] /\ size = 0
  /\ db \in Tables
  /\ link = "open" /\ stage = "loop" /\ quit = FALSE
  /\ results = <<>> /\ heard = <<>> /\ sent = <<>>
  /\ last = db /\ shaky = {} /\ faults = 0

-----------------------------------------------------------------------------
(* Mutants: the same steps with a bug such code could have.                *)

\* a change of a cached row is not marked for write-back
ChangedQuietly(r, v) == [cache[r] EXCEPT !.val = v]
\* an entry is dropped without a look at its ticker
NeverSaves(r) == FALSE
\* the thread ends without a flush
FlushesNothing == {}
\* a command the cache has served is done without a result
AnswersMisses(c, code) ==
  IF c.op = "update" /\ Cached(c.row) THEN <<>> ELSE <<[id |-> c.id, code |-> code]>>
\* only the first command is taken and the queue is cleared all the same
TakesOne == IF queue = <<>> THEN queue ELSE <<Head(queue)>>
\* the row goes from the table and stays in the cache
LeavesCached(r) == cache

-----------------------------------------------------------------------------
(* The service.                                                            *)

\* base::db::query: the request is copied into a command of the thread
Query(req) ==
  /\ ~quit /\ Len(sent) < MaxCommands
  /\ LET command == [id |-> Len(sent) + 1, op |-> req.op, row |-> req.row, val |-> req.val]
     IN queue' = Append(queue, command) /\ sent' = Append(sent, command)
  /\ UNCHANGED <<threadVars, cacheVars, serverVars, quit, heard, last, shaky>>

\* CDbThreadMgr::update, every frame and once more in release
Update ==
  /\ results # <<>>
  /\ heard' = heard \o results
  /\ results' = <<>>
  /\ UNCHANGED <<queue, batch, stage, cacheVars, serverVars, quit, sent, last, shaky>>

\* CDbThreadMgr::exit: quit, then join.  What is left in the queue is looked at
\* only if the connection is open, which onDestroy has closed.
Release ==
  /\ ~quit
  /\ quit' = TRUE
  /\ UNCHANGED <<queue, threadVars, cacheVars, serverVars, heard, sent, last, shaky>>

\* The connection breaks while nothing is executed
Break ==
  /\ link = "open" /\ faults < MaxFaults
  /\ link' = "broken"
  /\ faults' = faults + 1
  /\ UNCHANGED <<queue, threadVars, cacheVars, db, quit, heard, sent, last, shaky>>

-----------------------------------------------------------------------------
(* A statement and what becomes of it.                                     *)

Outcome(code, table, l, n) == [code |-> code, db |-> table, link |-> l, faults |-> faults + n]

\* CDbConnection::execute as the handlers translate it: a statement that leads
\* to the given table, if the server accepts it
Statement(accepts, table) ==
  IF link # "open" THEN {Outcome("MysqlError", db, link, 0)}
  ELSE {IF accepts THEN Outcome("OK", table, link, 0) ELSE Outcome("MysqlError", db, link, 0)}
       \cup (IF faults = MaxFaults THEN {}
             ELSE {Outcome("MysqlError", db, link, 1), Outcome("MysqlError", db, "broken", 1),
                   Outcome("MysqlError", table, "broken", 1)})

\* onBackup of some rows, in any order: a refused row is passed over, a broken
\* connection leaves the rest as it is
Saved(rows) == [r \in Rows |-> IF r \in rows THEN cache[r].val ELSE db[r]]
WriteBack(rows) ==
  IF link # "open" THEN {Outcome("MysqlError", db, link, 0)}
  ELSE {Outcome("OK", Saved(rows), link, 0)}
       \cup (IF faults = MaxFaults \/ rows = {} THEN {}
             ELSE {Outcome("MysqlError", Saved(part), "broken", 1) : part \in SUBSET rows}
                  \cup {Outcome("MysqlError", Saved(rows \ {r}), link, 1) : r \in rows})

Executed(res) == db' = res.db /\ link' = res.link /\ faults' = res.faults
\* Rows that should have been written and were not
Missed(rows, res) == {r \in rows : res.db[r] # cache[r].val}

-----------------------------------------------------------------------------
(* The thread between two batches.                                         *)

At(a, b) == stage = a /\ stage' = b

\* CThreadBase looks at its state before each onProcess
Loop ==
  /\ ~quit /\ At("loop", "ping")
  /\ UNCHANGED <<queue, batch, results, cacheVars, serverVars, quit, heard, sent, last, shaky>>

\* onDestroy: flush and close
ToFlush == AllCached
Destroy ==
  /\ quit /\ At("loop", "gone")
  /\ \E res \in WriteBack(ToFlush) :
       /\ db' = res.db /\ faults' = res.faults
       /\ shaky' = shaky \cup (IF res.code = "OK" THEN {} ELSE Missed(AllCached, res))
  /\ link' = "closed"
  /\ UNCHANGED <<queue, batch, results, cacheVars, quit, heard, sent, last>>

\* ping, and connectDb until it succeeds, whether quit or not
Ping ==
  /\ At("ping", "tickers")
  /\ link' = "open"
  /\ UNCHANGED <<queue, batch, results, cacheVars, db, faults, quit, heard, sent, last, shaky>>

\* CDbCacheMgr::update.  Every ticker is registered with the context 0: when one
\* is due it is the row 0 that is written back.
TickerContext == 0
Tick(r) ==
  /\ stage = "tickers" /\ Ticks(r)
  /\ cache' = [cache EXCEPT ![r].ticker = "fired"]
  /\ \E res \in WriteBack(AllCached \cap {TickerContext}) : Executed(res)
  /\ UNCHANGED <<queue, threadVars, size, quit, heard, sent, last, shaky>>

\* The whole queue, or after a second nothing
Taken == queue
Take ==
  /\ At("tickers", IF queue = <<>> THEN "loop" ELSE "work")
  /\ batch' = Taken
  /\ queue' = <<>>
  /\ UNCHANGED <<results, cacheVars, serverVars, quit, heard, sent, last, shaky>>

-----------------------------------------------------------------------------
(* A command: onPreCache, its statement, onPostCache, its result.          *)

Command == Head(batch)
Row == Command.row
Val == Command.val
Doing(op) == stage = "work" /\ Command.op = op

ResultOf(c, code) == <<[id |-> c.id, code |-> code]>>
Done ==
  /\ batch' = Tail(batch)
  /\ stage' = IF Len(batch) = 1 THEN "loop" ELSE "work"
  /\ UNCHANGED <<queue, quit, heard, sent>>
Finish(code) == results' = results \o ResultOf(Command, code) /\ Done

\* CDbCacheMgr: a table that has grown too large is cleaned before the answer
FinishClean ==
  IF size' > MaxCache
  THEN stage' = "clean" /\ UNCHANGED <<queue, batch, results, quit, heard, sent>>
  ELSE Finish("OK")

\* What a statement that writes v leaves to hope for: a failed one may have been
\* executed or be in the cache only
Concluded(code, v) ==
  IF code = "OK"
  THEN last' = [last EXCEPT ![Row] = v] /\ shaky' = shaky \ {Row}
  ELSE last' = last /\ shaky' = shaky \cup {Row}

SelectCached ==
  /\ Doing("select") /\ Cached(Row)
  /\ Finish("OK")
  /\ UNCHANGED <<cacheVars, serverVars, last, shaky>>

\* what was read is cached, and not counted
SelectMissed ==
  /\ Doing("select") /\ ~Cached(Row)
  /\ \E res \in Statement(TRUE, db) :
       LET code == IF res.code = "OK" /\ db[Row] = 0 THEN "EmptyRecordset" ELSE res.code
       IN /\ Executed(res)
          /\ cache' = IF code = "OK" THEN [cache EXCEPT ![Row] = Entry(db[Row])] ELSE cache
          /\ Finish(code)
  /\ UNCHANGED <<size, last, shaky>>

\* only the cache is changed, the ticker sees to the rest
Changed(r, v) == [val |-> v, ticker |-> "on"]
UpdateCached ==
  /\ Doing("update") /\ Cached(Row)
  /\ cache' = [cache EXCEPT ![Row] = Changed(Row, Val)]
  /\ size' = size
  /\ Concluded("OK", Val)
  /\ FinishClean
  /\ UNCHANGED serverVars

\* the new entry is made before the statement, not counted, and stays if that fails
UpdateMissed ==
  /\ Doing("update") /\ ~Cached(Row)
  /\ cache' = [cache EXCEPT ![Row] = Entry(Val)]
  /\ \E res \in Statement(TRUE, [db EXCEPT ![Row] = Val]) :
       Executed(res) /\ Finish(res.code) /\ Concluded(res.code, Val)
  /\ UNCHANGED size

\* inserted first, then cached, if there is no entry from a failed update
Insert ==
  /\ Doing("insert")
  /\ \E res \in Statement(db[Row] = 0, [db EXCEPT ![Row] = Val]) :
       /\ Executed(res)
       /\ \/ /\ res.code = "OK" /\ ~Cached(Row)
             /\ cache' = [cache EXCEPT ![Row] = Entry(Val)]
             /\ size' = size + 1
             /\ Concluded("OK", Val)
             /\ FinishClean
          \/ /\ res.code = "OK" /\ Cached(Row)
             /\ last' = [last EXCEPT ![Row] = Val] /\ shaky' = shaky \cup {Row}
             /\ Finish("OK") /\ UNCHANGED cacheVars
          \/ /\ res.code # "OK"
             /\ last' = last /\ shaky' = shaky \cup {r \in {Row} : res.db # db}
             /\ Finish(res.code) /\ UNCHANGED cacheVars

\* the entry goes first, whatever becomes of the statement
Uncached(r) == [cache EXCEPT ![r] = NoEntry]
Delete ==
  /\ Doing("delete")
  /\ cache' = Uncached(Row)
  /\ size' = IF Cached(Row) THEN size - 1 ELSE size
  /\ \E res \in Statement(TRUE, [db EXCEPT ![Row] = 0]) :
       Executed(res) /\ Finish(res.code) /\ Concluded(res.code, 0)

\* a statement of the caller's own, past the cache, which may hold the row
Call ==
  /\ Doing("call")
  /\ \E res \in Statement(TRUE, [db EXCEPT ![Row] = Val]) :
       /\ Executed(res) /\ Finish(res.code)
       /\ IF Cached(Row)
          THEN shaky' = shaky \cup {Row} /\ last' = IF res.code = "OK" THEN [last EXCEPT ![Row] = Val] ELSE last
          ELSE Concluded(res.code, Val)
  /\ UNCHANGED cacheVars

\* a select of many rows, past the cache
QueryRows ==
  /\ Doing("query")
  /\ \E res \in Statement(TRUE, db) : Executed(res) /\ Finish(res.code)
  /\ UNCHANGED <<cacheVars, last, shaky>>

Nop ==
  /\ Doing("nop")
  /\ Finish("OK")
  /\ UNCHANGED <<cacheVars, serverVars, last, shaky>>

\* the callback of a flush is never called
Flush ==
  /\ Doing("flush")
  /\ \E res \in WriteBack(AllCached) : Executed(res)
  /\ results' = results
  /\ Done
  /\ UNCHANGED <<cacheVars, last, shaky>>

\* cleanData: of five buckets taken at random all may be empty; else an entry
\* goes, written back if its ticker is registered
SavesFirst(r) == Ticks(r)
Clean ==
  /\ stage = "clean"
  /\ \/ UNCHANGED <<cacheVars, serverVars, shaky>>
     \/ \E r \in AllCached :
          /\ cache' = [cache EXCEPT ![r] = NoEntry]
          /\ size' = size - 1
          /\ IF SavesFirst(r)
             THEN \E res \in WriteBack({r}) :
                    /\ Executed(res)
                    /\ shaky' = shaky \cup (IF res.code = "OK" THEN {} ELSE Missed({r}, res))
             ELSE /\ UNCHANGED serverVars
                  /\ shaky' = shaky \cup {x \in {r} : cache[x].ticker = "fired" /\ cache[x].val # db[x]}
  /\ Finish("OK")
  /\ last' = last

-----------------------------------------------------------------------------
OnDbCommand ==
  \/ SelectCached \/ SelectMissed \/ UpdateCached \/ UpdateMissed \/ Insert \/ Delete
  \/ Call \/ QueryRows \/ Nop \/ Flush

Thread == Loop \/ Destroy \/ Ping \/ Take \/ OnDbCommand \/ Clean
Next ==
  \/ \E req \in Requests : Query(req)
  \/ \E r \in Rows : Tick(r)
  \/ Update \/ Release \/ Break \/ Thread

\* The thread runs, the service has its frames, and a server that is away comes
\* back: Ping stands for reconnecting until it works.
Spec == Init /\ [][Next]_vars /\ WF_vars(Thread) /\ WF_vars(Update)

-----------------------------------------------------------------------------
(* Properties.                                                             *)

Commands == [id : 1..MaxCommands, op : Ops, row : Rows, val : Values]
Results == [id : 1..MaxCommands, code : {"OK", "MysqlError", "EmptyRecordset"}]

\* The variables stay in their types; a thread that is in a batch has a command.
TypeOK ==
  /\ {queue, batch, sent} \subseteq Seq(Commands)
  /\ cache \in [Rows -> [val : Values \cup {0}, ticker : {"none", "on", "fired"}]]
  /\ size \in Int
  /\ {db, last} \subseteq [Rows -> Values \cup {0}]
  /\ link \in {"open", "broken", "closed"}
  /\ stage \in {"loop", "ping", "tickers", "work", "clean", "gone"}
  /\ (stage \in {"work", "clean"}) = (batch # <<>>)
  /\ quit \in BOOLEAN
  /\ {results, heard} \subseteq Seq(Results)
  /\ shaky \subseteq Rows
  /\ faults \in 0..MaxFaults

Ids(s) == [i \in DOMAIN s |-> s[i].id]
Answerable(s) == SelectSeq(s, LAMBDA c : c.op # "flush")

\* The answers given so far, the commands that wait for one, and how many do not
Answers == heard \o results
Rest == batch \o queue
Decided == Len(sent) - Len(Rest)

\* Every command but a flush is waiting, being done, or has exactly one result,
\* and the results come in the order of the commands, whether the cache, the
\* server or a broken connection has decided them.  (CDbThread::onProcess,
\* CDbThreadMgr::update.)
AnswersInOrder ==
  /\ Decided >= 0
  /\ \A i \in DOMAIN Rest : Rest[i] = sent[Decided + i]
  /\ \A i, j \in DOMAIN Answers : i < j => Answers[i].id < Answers[j].id
  /\ {Answers[i].id : i \in DOMAIN Answers}
       = {sent[i].id : i \in {k \in 1 .. Decided : sent[k].op # "flush"}}

AnswersExact == TypeOK /\ AnswersInOrder

\* A write that was answered with success is not lost and not undone: the cache
\* or the table has it, an entry without a ticker agrees with the table, and
\* when the thread has gone the table has it.  Excepted are rows whose statement
\* failed, a call past a cached row, and an entry dropped after its ticker has
\* written another row.  (CDbCache::setData, cleanData, flush.)
NothingLost ==
  \A r \in Rows \ shaky :
    /\ IF Cached(r) THEN cache[r].val = last[r] ELSE db[r] = last[r]
    /\ stage = "gone" \/ cache[r].ticker = "none" => db[r] = last[r]

\* The thread has ended, or nobody asks it to and every answer has been given
Settled ==
  \/ stage = "gone"
  \/ ~quit /\ Ids(heard) = Ids(Answerable(sent))

\* Every command but a flush is answered at last, through lost connections and a
\* full cache, unless the service quits, and a quit ends the thread.
\* (CDbThread::onProcess, connectDb, onDestroy.)
AllAnswered == []<>Settled
=============================================================================
