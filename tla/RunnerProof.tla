------------------------------ MODULE RunnerProof ------------------------------
(* Proofs for any number of lines and attempts: what the poller of a run knows   *)
(* fits what its process wrote, a run that is done was read to its end, and one  *)
(* that failed has its reason.                                                   *)
EXTENDS RunnerSession, AdapterWorkspace, SequenceTheorems, WellFoundedInduction, TLAPS

-------------------------------------------------------------------------------
(* The newest line of some kinds *)

\* Of finitely many places one is the last.
LEMMA LastExists ==
  ASSUME NEW n \in Nat, NEW S \in SUBSET (1 .. n), S # {}
  PROVE  \E i \in S : \A j \in S : j <= i
<1> DEFINE T == {n - i : i \in S}
<1>0. \A i \in S : i \in 1 .. n
  OBVIOUS
<1>1. T \subseteq Nat /\ T # {}
  <2>1. \A i \in S : n - i \in Nat
    BY <1>0
  <2> QED
    BY <2>1
<1>2. IsWellFoundedOn(OpToRel(<, Nat), Nat)
  BY NatLessThanWellFounded
<1>3. PICK x \in T : \A y \in T : ~ (<<y, x>> \in OpToRel(<, Nat))
  BY <1>1, <1>2, WFMin
<1>4. \A y \in T : ~ (y < x)
  BY <1>1, <1>3 DEF OpToRel
<1>5. PICK i \in S : x = n - i
  OBVIOUS
<1>6. \A j \in S : j <= i
  <2> SUFFICES ASSUME NEW j \in S PROVE j <= i
    OBVIOUS
  <2>1. n - j \in T
    OBVIOUS
  <2>2. ~ (n - j < n - i) /\ i \in Nat /\ j \in Nat
    BY <1>0, <1>4, <1>5, <2>1
  <2> QED
    BY <2>2
<1> QED
  BY <1>6

\* v is the newest of the first n lines of some kinds, "none" if there is none.
NewestIs(v, lines, n, kinds) ==
  \/ v = "none" /\ \A i \in 1 .. n : lines[i] \notin kinds
  \/ \E i \in 1 .. n : /\ v = lines[i] /\ v \in kinds
                       /\ \A j \in 1 .. n : j > i => lines[j] \notin kinds

LEMMA NewestFacts ==
  ASSUME NEW S, NEW lines \in Seq(S), NEW kinds, NEW old
  PROVE  IF Has(lines, kinds)
         THEN \E i \in 1 .. Len(lines) :
                /\ Newest(lines, kinds, old) = lines[i] /\ lines[i] \in kinds
                /\ \A j \in 1 .. Len(lines) : j > i => lines[j] \notin kinds
         ELSE Newest(lines, kinds, old) = old
<1>1. DOMAIN lines = 1 .. Len(lines) /\ Len(lines) \in Nat
  OBVIOUS
<1>2. CASE ~ Has(lines, kinds)
  BY <1>2 DEF Newest
<1>3. CASE Has(lines, kinds)
  <2> DEFINE places == {i \in 1 .. Len(lines) : lines[i] \in kinds}
  <2>1. places # {} /\ places \in SUBSET (1 .. Len(lines))
    BY <1>1, <1>3 DEF Has
  <2>2. PICK k \in places : \A j \in places : j <= k
    BY <1>1, <2>1, LastExists
  <2>3. /\ k \in DOMAIN lines /\ lines[k] \in kinds
        /\ \A j \in DOMAIN lines : j > k => lines[j] \notin kinds
    BY <1>1, <2>2
  <2> DEFINE last == CHOOSE i \in DOMAIN lines :
                       /\ lines[i] \in kinds
                       /\ \A j \in DOMAIN lines : j > i => lines[j] \notin kinds
  <2>4. /\ last \in DOMAIN lines /\ lines[last] \in kinds
        /\ \A j \in DOMAIN lines : j > last => lines[j] \notin kinds
    BY <2>3
  <2>5. Newest(lines, kinds, old) = lines[last]
    BY <1>3 DEF Newest
  <2> QED
    BY <1>1, <1>3, <2>4, <2>5
<1> QED
  BY <1>2, <1>3

\* Polling on from the cursor finds the newest of all lines.
LEMMA PollingOn ==
  ASSUME NEW S, NEW lines \in Seq(S), NEW n \in Nat, n <= Len(lines), NEW kinds, NEW v,
         NewestIs(v, lines, n, kinds)
  PROVE  NewestIs(Newest(SubSeq(lines, n + 1, Len(lines)), kinds, v), lines, Len(lines), kinds)
<1> DEFINE fresh == SubSeq(lines, n + 1, Len(lines))
           new == Newest(fresh, kinds, v)
<1> SUFFICES NewestIs(new, lines, Len(lines), kinds)
  OBVIOUS
<1>1. Len(lines) \in Nat
  OBVIOUS
<1>2. /\ fresh \in Seq(S) /\ Len(fresh) = Len(lines) - n
      /\ \A i \in 1 .. Len(fresh) : fresh[i] = lines[n + i]
  BY <1>1
<1> HIDE DEF fresh
<1>3. \A j \in 1 .. Len(lines) : j \in 1 .. n \/ (j - n \in 1 .. Len(fresh) /\ lines[j] = fresh[j - n])
  BY <1>1, <1>2
<1>4. CASE Has(fresh, kinds)
  <2>1. PICK i \in 1 .. Len(fresh) :
          /\ new = fresh[i] /\ fresh[i] \in kinds
          /\ \A j \in 1 .. Len(fresh) : j > i => fresh[j] \notin kinds
    BY <1>2, <1>4, NewestFacts
  <2>2. n + i \in 1 .. Len(lines) /\ lines[n + i] = new /\ new \in kinds
    BY <1>1, <1>2, <2>1
  <2>3. \A j \in 1 .. Len(lines) : j > n + i => lines[j] \notin kinds
    <3> SUFFICES ASSUME NEW j \in 1 .. Len(lines), j > n + i PROVE lines[j] \notin kinds
      OBVIOUS
    <3>1. j \notin 1 .. n /\ j - n > i
      BY <1>1, <2>1
    <3> QED
      BY <1>3, <2>1, <3>1
  <2> QED
    BY <2>2, <2>3 DEF NewestIs
<1>5. CASE ~ Has(fresh, kinds)
  <2>1. new = v /\ \A i \in 1 .. Len(fresh) : fresh[i] \notin kinds
    BY <1>2, <1>5, NewestFacts DEF Has
  <2>2. \A j \in 1 .. Len(lines) : j \in 1 .. n \/ lines[j] \notin kinds
    BY <1>3, <2>1
  <2>3. \A j \in 1 .. n : j \in 1 .. Len(lines)
    BY <1>1
  <2> QED
    BY <2>1, <2>2, <2>3 DEF NewestIs
<1> QED
  BY <1>4, <1>5

LEMMA NewestOfAll ==
  ASSUME NEW S, NEW lines \in Seq(S), NEW kinds, NEW v, NewestIs(v, lines, Len(lines), kinds)
  PROVE  /\ Newest(lines, kinds, "none") = v
         /\ Has(lines, kinds) => v \in kinds
<1>1. DOMAIN lines = 1 .. Len(lines) /\ Len(lines) \in Nat
  OBVIOUS
<1>2. CASE ~ Has(lines, kinds)
  <2>1. \A i \in 1 .. Len(lines) : lines[i] \notin kinds
    BY <1>1, <1>2 DEF Has
  <2>2. v = "none"
    BY <2>1 DEF NewestIs
  <2> QED
    BY <1>2, <2>2 DEF Newest
<1>3. CASE Has(lines, kinds)
  <2>1. PICK k \in 1 .. Len(lines) :
          /\ Newest(lines, kinds, "none") = lines[k] /\ lines[k] \in kinds
          /\ \A j \in 1 .. Len(lines) : j > k => lines[j] \notin kinds
    BY <1>3, NewestFacts
  <2>2. PICK i \in 1 .. Len(lines) :
          /\ v = lines[i] /\ v \in kinds
          /\ \A j \in 1 .. Len(lines) : j > i => lines[j] \notin kinds
    BY <2>1 DEF NewestIs
  <2>3. ~ (i > k) /\ ~ (k > i)
    BY <2>1, <2>2
  <2>4. i = k
    BY <1>1, <2>3
  <2> QED
    BY <2>1, <2>2, <2>4
<1> QED
  BY <1>2, <1>3

\* Only the first n lines matter.
LEMMA NewestOfPrefix ==
  ASSUME NEW v, NEW a, NEW b, NEW n, NEW kinds, \A i \in 1 .. n : a[i] = b[i],
         NewestIs(v, a, n, kinds)
  PROVE  NewestIs(v, b, n, kinds)
BY DEF NewestIs

-------------------------------------------------------------------------------
(* The status after a chunk *)

LEMMA StatusAfter ==
  ASSUME NEW S, NEW lines \in Seq(S), NEW status
  PROVE  /\ Has(lines, Turning) => AfterLines(status, lines) \in {"working", "error"}
         /\ ~ Has(lines, Turning) => AfterLines(status, lines) = status
<1>1. CASE Has(lines, Turning)
  <2>1. Newest(lines, Turning, "none") \in Turning
    BY <1>1, NewestFacts
  <2> QED
    BY <1>1, <2>1 DEF AfterLines, AfterLine, Turning
<1>2. CASE ~ Has(lines, Turning)
  BY <1>2 DEF AfterLines
<1> QED
  BY <1>1, <1>2

-------------------------------------------------------------------------------
(* The inductive invariant *)

\* What a poller looks for: results, and for a turn any message.
Kinds == IF client.kind = "monitor" THEN Structured ELSE Structured \union {"note"}

\* The events are the lines read so far, and at the end all lines, with the
\* failure envelope behind them if nothing else explains the end.
Ingested ==
  /\ ~ session.consumed =>
       /\ Len(session.events) = read
       /\ \A i \in 1 .. read : session.events[i] = proc.wrote[i]
  /\ session.consumed =>
       /\ ~ proc.running /\ read = Len(proc.wrote)
       /\ \/ session.events = proc.wrote
          \/ session.status # "done" /\ session.events = Append(proc.wrote, "failure")
       /\ session.status # "done" => Has(session.events, Structured)

StatusFits ==
  /\ session.status = "starting" => ~ Has(session.events, {"started"})
  /\ session.status = "done" => session.consumed
  /\ session.status = "done" /\ Has(proc.wrote, {"started"}) => Has(proc.wrote, {"result"})

\* What the poller holds is the newest of what it has polled; a verdict of done
\* means that it has polled everything.
ClientFits ==
  /\ client.phase \in {"polling", "finalizing"}
       => NewestIs(client.payload, session.events, session.cursor, Kinds)
  /\ client.kind = "turn" => client.phase \in {"polling", "finished"}
  /\ client.phase = "polling" => client.verdict = "none"
  /\ client.verdict = "done" => session.status = "done" /\ session.cursor = Len(session.events)
  /\ client.phase = "finished" /\ client.verdict = "done" =>
       IF client.kind = "turn"
       THEN NewestIs(client.payload, session.events, session.cursor, Kinds)
       ELSE Has(proc.wrote, {"started"}) => client.payload = "result"

\* An error that was polled with nothing behind it is the end of the run.
ErrorFits ==
  client.kind = "monitor" /\ client.verdict = "error" /\ session.cursor = Len(session.events) =>
    /\ session.status # "done"
    /\ ~ session.consumed => session.status \in {"error", "stopped"}
    /\ client.phase = "finished" /\ session.consumed => client.payload \in Structured
    /\ client.phase = "finished" /\ ~ session.consumed
         => NewestIs(client.payload, session.events, session.cursor, Structured)

SessionInv == SessionTypeOK /\ Ingested /\ StatusFits /\ ClientFits /\ ErrorFits

Event == Line \union {"failure"}

Status == Terminal \union {"starting", "working"}

ProcRow == [running : BOOLEAN, code : {0, 1}, signal : BOOLEAN, wrote : Seq(Line)]

SessionRow == [status : Status, consumed : BOOLEAN, cursor : Nat, events : Seq(Event)]

ClientRow == [kind : {"monitor", "turn"},
              phase : {"polling", "finalizing", "failing", "finished"},
              verdict : Terminal \union {"none", "rejected", "timeout", "stopped by user"},
              payload : Structured \union {"none", "note"},
              attempt : 0 .. MaxAttempts - 1]

LEMMA TypeParts ==
  SessionTypeOK <=> /\ proc \in ProcRow /\ session \in SessionRow /\ client \in ClientRow
                    /\ Len(proc.wrote) <= MaxLines /\ read \in 0 .. Len(proc.wrote)
                    /\ session.cursor <= Len(session.events)
BY DEF SessionTypeOK, ProcRow, SessionRow, ClientRow, Event, Status

LEMMA SessionFields ==
  ASSUME NEW r \in SessionRow
  PROVE  /\ r.status \in Status /\ r.consumed \in BOOLEAN /\ r.cursor \in Nat
         /\ r.events \in Seq(Event) /\ Len(r.events) \in Nat
BY DEF SessionRow

LEMMA ProcFields ==
  ASSUME NEW r \in ProcRow
  PROVE  /\ r.running \in BOOLEAN /\ r.wrote \in Seq(Line) /\ r.wrote \in Seq(Event)
         /\ Len(r.wrote) \in Nat
<1>1. r.running \in BOOLEAN /\ r.wrote \in Seq(Line)
  BY DEF ProcRow
<1>2. Line \subseteq Event
  BY DEF Event
<1>3. r.wrote \in Seq(Event)
  BY <1>1, <1>2
<1> QED
  BY <1>1, <1>3

LEMMA ProcWrite ==
  ASSUME NEW r \in ProcRow, NEW lines \in Seq(Line)
  PROVE  LET w == [r EXCEPT !.wrote = lines]
         IN w \in ProcRow /\ w.wrote = lines /\ w.running = r.running
BY DEF ProcRow

LEMMA Rows ==
  ASSUME SessionTypeOK
  PROVE  /\ proc \in ProcRow /\ session \in SessionRow /\ client \in ClientRow
         /\ session.events \in Seq(Event) /\ proc.wrote \in Seq(Line) /\ proc.wrote \in Seq(Event)
         /\ Len(session.events) \in Nat /\ Len(proc.wrote) \in Nat /\ read \in Nat
         /\ session.cursor \in Nat /\ session.cursor <= Len(session.events)
         /\ read <= Len(proc.wrote) /\ Len(proc.wrote) <= MaxLines
<1>1. /\ proc \in ProcRow /\ session \in SessionRow /\ client \in ClientRow
      /\ Len(proc.wrote) <= MaxLines /\ read \in 0 .. Len(proc.wrote)
      /\ session.cursor <= Len(session.events)
  BY TypeParts
<1>2. Len(proc.wrote) \in Nat
  BY <1>1, ProcFields
<1> QED
  BY <1>1, <1>2, ProcFields, SessionFields

\* Structured lines of the process are results.
LEMMA StructuredLines ==
  ASSUME NEW lines \in Seq(Line)
  PROVE  /\ Has(lines, Structured) => Has(lines, {"result"})
         /\ \A i \in 1 .. Len(lines) : lines[i] \in Structured => lines[i] = "result"
BY DEF Has, Structured, Line

-------------------------------------------------------------------------------
(* The process and its readers *)

LEMMA SessionInit == Init => SessionInv
<1> SUFFICES ASSUME Init PROVE SessionInv
  OBVIOUS
<1>1. SessionTypeOK
  BY SessionConstants DEF Init, SessionTypeOK, Line, Terminal, Structured
<1>2. Ingested /\ StatusFits /\ ErrorFits
  BY DEF Init, Ingested, StatusFits, ErrorFits, Has
<1>3. ClientFits
  BY DEF Init, ClientFits, NewestIs
<1> QED
  BY <1>1, <1>2, <1>3 DEF SessionInv

LEMMA WriteInv ==
  ASSUME SessionInv, NEW line \in Line, Write(line)
  PROVE  SessionInv'
<1>1. /\ proc.wrote \in Seq(Line) /\ Len(proc.wrote) \in Nat /\ read \in Nat
      /\ read <= Len(proc.wrote) /\ proc \in ProcRow
  BY Rows DEF SessionInv
<1>2. /\ proc' = [proc EXCEPT !.wrote = Append(proc.wrote, line)]
      /\ Append(proc.wrote, line) \in Seq(Line) /\ Len(proc.wrote) < MaxLines
  BY <1>1 DEF Write
<1>3. /\ proc' \in ProcRow /\ proc'.wrote = Append(proc.wrote, line)
      /\ proc'.running = proc.running
  BY <1>1, <1>2, ProcWrite
<1>4. UNCHANGED <<session, read, client>> /\ proc.running
  BY DEF Write
<1>5. /\ Len(proc'.wrote) = Len(proc.wrote) + 1
      /\ \A i \in 1 .. Len(proc.wrote) : proc'.wrote[i] = proc.wrote[i]
  BY <1>1, <1>3
<1>6. ~ session.consumed
  BY <1>4 DEF SessionInv, Ingested
<1>7. SessionTypeOK'
  <2>1. Len(proc'.wrote) <= MaxLines /\ read \in 0 .. Len(proc'.wrote)
    BY <1>1, <1>2, <1>5, SessionConstants
  <2> QED
    BY <1>3, <1>4, <2>1, TypeParts DEF SessionInv, SessionTypeOK, ProcRow
<1>8. Ingested'
  BY <1>1, <1>4, <1>5, <1>6 DEF SessionInv, Ingested
<1>9. StatusFits' /\ ClientFits' /\ ErrorFits'
  <2>1. session.status # "done" /\ client.verdict # "done"
    BY <1>6 DEF SessionInv, StatusFits, ClientFits
  <2> QED
    BY <1>4, <1>6, <2>1 DEF SessionInv, StatusFits, ClientFits, ErrorFits, Kinds
<1> QED
  BY <1>7, <1>8, <1>9 DEF SessionInv

LEMMA ExitInv ==
  ASSUME SessionInv, NEW code \in {0, 1}, Exit(code)
  PROVE  SessionInv'
<1>1. /\ proc \in ProcRow /\ UNCHANGED <<session, read, client>>
      /\ proc' = [proc EXCEPT !.running = FALSE, !.code = code]
  BY Rows DEF SessionInv, Exit
<1>2. proc' \in ProcRow /\ proc'.wrote = proc.wrote /\ ~ proc'.running
  BY <1>1 DEF ProcRow
<1>3. SessionTypeOK'
  BY <1>1, <1>2 DEF SessionInv, SessionTypeOK, ProcRow
<1>4. Ingested' /\ StatusFits' /\ ClientFits' /\ ErrorFits'
  BY <1>1, <1>2 DEF SessionInv, Ingested, StatusFits, ClientFits, ErrorFits, Kinds
<1> QED
  BY <1>3, <1>4 DEF SessionInv

LEMMA ReadInv ==
  ASSUME SessionInv, ReadChunk
  PROVE  SessionInv'
<1>1. PICK upto \in (read + 1) .. Len(proc.wrote) :
        /\ session' = [session EXCEPT
             !.status = AfterLines(@, SubSeq(proc.wrote, read + 1, upto)),
             !.events = @ \o SubSeq(proc.wrote, read + 1, upto)]
        /\ read' = upto
  BY DEF ReadChunk
<1> DEFINE chunk == SubSeq(proc.wrote, read + 1, upto)
           after == AfterLines(session.status, chunk)
<1>2. /\ session \in SessionRow /\ proc.wrote \in Seq(Line) /\ Len(proc.wrote) \in Nat
      /\ session.events \in Seq(Event) /\ read \in Nat /\ client \in ClientRow
  BY Rows DEF SessionInv
<1>3. ~ session.consumed /\ UNCHANGED <<proc, client>>
  BY DEF ReadChunk
<1>4. Len(session.events) = read /\ \A i \in 1 .. read : session.events[i] = proc.wrote[i]
  BY <1>3 DEF SessionInv, Ingested
<1>5. upto \in Nat /\ read < upto /\ upto <= Len(proc.wrote)
  BY <1>2
<1>6. /\ chunk \in Seq(Line) /\ Len(chunk) = upto - read
      /\ \A i \in 1 .. Len(chunk) : chunk[i] = proc.wrote[read + i]
  BY <1>2, <1>5
<1>7. chunk \in Seq(Event)
  BY <1>6 DEF Event
<1>8. session' = [session EXCEPT !.status = after, !.events = @ \o chunk]
  BY <1>1
<1> HIDE DEF chunk
<1>9. after \in Status
  BY <1>2, <1>6, StatusAfter, SessionFields DEF Status, Terminal
<1> HIDE DEF after
<1>10. /\ session' \in SessionRow /\ session'.status = after /\ ~ session'.consumed
       /\ session'.events = session.events \o chunk /\ session'.cursor = session.cursor
  <2> DEFINE lines == session.events \o chunk
  <2>1. lines \in Seq(Event)
    BY <1>2, <1>7
  <2>2. session' = [session EXCEPT !.status = after, !.events = lines]
    BY <1>8
  <2> HIDE DEF lines
  <2>3. /\ session' \in SessionRow /\ session'.status = after /\ session'.events = lines
        /\ session'.consumed = session.consumed /\ session'.cursor = session.cursor
    BY <1>2, <1>9, <2>1, <2>2 DEF SessionRow
  <2> QED
    BY <1>3, <2>3 DEF lines
<1>11. /\ session'.events \in Seq(Event) /\ Len(session'.events) = upto
       /\ \A i \in 1 .. read : session'.events[i] = session.events[i]
       /\ \A i \in 1 .. Len(chunk) : session'.events[read + i] = chunk[i]
  <2> DEFINE old == session.events
             all == old \o chunk
  <2>1. old \in Seq(Event) /\ chunk \in Seq(Event) /\ Len(old) = read
    BY <1>2, <1>4, <1>7
  <2> HIDE DEF old
  <2>2. /\ all \in Seq(Event) /\ Len(all) = Len(old) + Len(chunk)
        /\ \A i \in 1 .. Len(old) : all[i] = old[i]
        /\ \A i \in 1 .. Len(chunk) : all[Len(old) + i] = chunk[i]
    BY <2>1
  <2>3. session'.events = all
    BY <1>10 DEF old
  <2> HIDE DEF all
  <2>4. Len(all) = upto
    BY <1>2, <1>5, <1>6, <2>1, <2>2
  <2> QED
    BY <2>1, <2>2, <2>3, <2>4 DEF old
<1>12. \A i \in 1 .. upto : session'.events[i] = proc.wrote[i]
  <2> SUFFICES ASSUME NEW i \in 1 .. upto PROVE session'.events[i] = proc.wrote[i]
    OBVIOUS
  <2>1. CASE i \in 1 .. read
    BY <1>4, <1>11, <2>1
  <2>2. CASE i \notin 1 .. read
    <3>1. i - read \in 1 .. Len(chunk) /\ read + (i - read) = i
      BY <1>2, <1>5, <1>6, <2>2
    <3> QED
      BY <1>6, <1>11, <3>1
  <2> QED
    BY <2>1, <2>2
<1>13. /\ session.cursor \in Nat /\ session.cursor <= read
       /\ session'.cursor < Len(session'.events)
  BY <1>2, <1>4, <1>5, <1>10, <1>11, Rows DEF SessionInv
<1>14. SessionTypeOK'
  <2>1. read' \in 0 .. Len(proc.wrote)
    BY <1>1, <1>2, <1>5
  <2>3. session'.cursor <= Len(session'.events)
    BY <1>5, <1>10, <1>11, <1>13
  <2>4. Len(proc.wrote) <= MaxLines
    BY Rows DEF SessionInv
  <2>2. session' \in [status : Terminal \union {"starting", "working"}, consumed : BOOLEAN,
                     cursor : Nat, events : Seq(Line \union {"failure"})]
    BY <1>10 DEF SessionRow, Event, Status
  <2> QED
    BY <1>3, <2>1, <2>2, <2>3, <2>4 DEF SessionInv, SessionTypeOK
<1>15. Ingested'
  BY <1>1, <1>3, <1>10, <1>11, <1>12 DEF Ingested
<1>16. StatusFits'
  <2>1. session'.status # "done"
    BY <1>3, <1>6, <1>10, StatusAfter DEF SessionInv, StatusFits, after
  <2>2. session'.status = "starting" => ~ Has(session'.events, {"started"})
    <3> SUFFICES ASSUME after = "starting", NEW i \in 1 .. upto, session'.events[i] = "started"
                 PROVE  FALSE
      BY <1>10, <1>11 DEF Has
    <3>1. session.status = "starting" /\ ~ Has(chunk, Turning)
      BY <1>6, StatusAfter DEF after
    <3>2. CASE i \in 1 .. read
      <4>1. session.events[i] = "started" /\ i \in DOMAIN session.events
        BY <1>2, <1>4, <1>11, <3>2
      <4> QED
        BY <3>1, <4>1 DEF SessionInv, StatusFits, Has
    <3>3. CASE i \notin 1 .. read
      <4>1. i - read \in 1 .. Len(chunk) /\ read + (i - read) = i
        BY <1>2, <1>5, <1>6, <3>3
      <4>2. chunk[i - read] = "started" /\ i - read \in DOMAIN chunk
        BY <1>6, <1>11, <4>1
      <4> QED
        BY <3>1, <4>2 DEF Has, Turning
    <3> QED
      BY <3>2, <3>3
  <2> QED
    BY <2>1, <2>2 DEF StatusFits
<1>17. ClientFits'
  <2>1. \A i \in 1 .. session.cursor : session.events[i] = session'.events[i]
    BY <1>2, <1>11, <1>13
  <2>2. \A kinds : NewestIs(client.payload, session.events, session.cursor, kinds)
          => NewestIs(client.payload, session'.events, session'.cursor, kinds)
    BY <1>10, <2>1, NewestOfPrefix
  <2>3. client.verdict # "done"
    BY <1>3 DEF SessionInv, ClientFits, StatusFits
  <2> QED
    BY <1>3, <2>2, <2>3 DEF SessionInv, ClientFits, Kinds
<1>18. ErrorFits'
  BY <1>13 DEF ErrorFits
<1> QED
  BY <1>14, <1>15, <1>16, <1>17, <1>18 DEF SessionInv

\* What the end of the run makes of its status.
LEMMA ExitStatusIs ==
  ASSUME NEW status \in Status, NEW structured \in BOOLEAN, NEW code \in {0, 1}, status # "done"
  PROVE  LET new == ExitStatus(status, structured, code)
         IN /\ new \in Status /\ new # "starting"
            /\ new = "done" => status = "starting" \/ structured
            /\ status \in {"error", "stopped"} => new # "done"
<1> DEFINE new == ExitStatus(status, structured, code)
<1>1. CASE code # 0
  <2>1. new = IF status # "stopped" THEN "error" ELSE "stopped"
    BY <1>1 DEF ExitStatus
  <2> QED
    BY <2>1 DEF Status, Terminal
<1>2. CASE code = 0
  <2>1. CASE status = "starting"
    <3>1. new = "done"
      BY <1>2, <2>1 DEF ExitStatus
    <3> QED
      BY <2>1, <3>1 DEF Status, Terminal
  <2>2. CASE status = "working" /\ structured
    <3>1. new = "done"
      BY <1>2, <2>2 DEF ExitStatus
    <3> QED
      BY <2>2, <3>1 DEF Status, Terminal
  <2>3. CASE status # "starting" /\ ~ (status = "working" /\ structured)
    <3>1. new = status
      BY <1>2, <2>3 DEF ExitStatus
    <3> QED
      BY <2>3, <3>1
  <2> QED
    BY <2>1, <2>2, <2>3
<1> QED
  BY <1>1, <1>2

LEMMA ReapInv ==
  ASSUME SessionInv, Reap
  PROVE  SessionInv'
<1> DEFINE structured == Has(session.events, Structured)
           after == ExitStatus(session.status, structured, proc.code)
           behind == Synthetic(after, structured)
           lines == session.events \o behind
<1>1. /\ session' = [session EXCEPT !.status = after, !.consumed = TRUE, !.events = lines]
      /\ ~ session.consumed /\ ~ proc.running /\ read = Len(proc.wrote)
      /\ UNCHANGED <<proc, read, client>>
  BY DEF Reap, Eof
<1>2. /\ session \in SessionRow /\ session.events \in Seq(Event) /\ Len(session.events) \in Nat
      /\ proc.wrote \in Seq(Line) /\ proc.wrote \in Seq(Event) /\ Len(proc.wrote) \in Nat
      /\ session.cursor \in Nat /\ session.cursor <= Len(session.events)
  BY Rows DEF SessionInv
<1>3. session.events = proc.wrote
  <2>1. /\ Len(session.events) = Len(proc.wrote)
        /\ \A i \in 1 .. Len(session.events) : session.events[i] = proc.wrote[i]
    BY <1>1 DEF SessionInv, Ingested
  <2> QED
    BY <1>2, <2>1, SeqEqual
<1>4. session.status # "done" /\ client.verdict # "done"
  BY <1>1 DEF SessionInv, StatusFits, ClientFits
<1>5. /\ after \in Status /\ after # "starting"
      /\ after = "done" => session.status = "starting" \/ structured
      /\ session.status \in {"error", "stopped"} => after # "done"
  <2>1. session.status \in Status /\ proc.code \in {0, 1} /\ structured \in BOOLEAN
    BY <1>2, SessionFields DEF SessionInv, SessionTypeOK, Has
  <2> QED
    BY <1>4, <2>1, ExitStatusIs
<1>6. structured => Has(proc.wrote, {"result"})
  BY <1>2, <1>3, StructuredLines
<1> HIDE DEF structured, after
<1>7. behind = IF after # "done" /\ ~ structured THEN <<"failure">> ELSE <<>>
  BY DEF Synthetic
<1>8. /\ after # "done" /\ ~ structured => lines = Append(session.events, "failure")
      /\ after = "done" \/ structured => lines = session.events
  <2>1. session.events \o <<>> = session.events
    BY <1>2
  <2>2. session.events \o <<"failure">> = Append(session.events, "failure")
    BY <1>2
  <2>3. CASE after # "done" /\ ~ structured
    <3>1. behind = <<"failure">>
      BY <1>7, <2>3
    <3> QED
      BY <2>2, <2>3, <3>1
  <2>4. CASE ~ (after # "done" /\ ~ structured)
    <3>1. behind = <<>>
      BY <1>7, <2>4
    <3> QED
      BY <2>1, <2>4, <3>1
  <2> QED
    BY <2>3, <2>4
<1> HIDE DEF behind, lines
<1>9. lines \in Seq(Event) /\ (lines = session.events \/ lines = Append(session.events, "failure"))
  <2>1. lines = session.events \/ lines = Append(session.events, "failure")
    BY <1>8
  <2>2. "failure" \in Event
    BY DEF Event
  <2> QED
    BY <1>2, <2>1, <2>2
<1>10. /\ session' \in SessionRow /\ session'.status = after /\ session'.events = lines
       /\ session'.consumed /\ session'.cursor = session.cursor
  BY <1>1, <1>2, <1>5, <1>9 DEF SessionRow
<1>11. /\ Len(lines) \in Nat /\ Len(session.events) <= Len(lines)
       /\ \A i \in 1 .. Len(session.events) : lines[i] = session.events[i]
  BY <1>2, <1>9
<1>12. SessionTypeOK'
  <2>1. session'.cursor <= Len(session'.events)
    BY <1>2, <1>10, <1>11
  <2>2. session' \in [status : Terminal \union {"starting", "working"}, consumed : BOOLEAN,
                     cursor : Nat, events : Seq(Line \union {"failure"})]
    BY <1>10 DEF SessionRow, Event, Status
  <2> QED
    BY <1>1, <2>1, <2>2 DEF SessionInv, SessionTypeOK
<1>13. Ingested'
  <2>1. \/ lines = proc.wrote
        \/ after # "done" /\ lines = Append(proc.wrote, "failure")
    BY <1>3, <1>8
  <2>2. after # "done" => Has(lines, Structured)
    <3>1. CASE structured
      BY <1>8, <3>1 DEF structured
    <3>2. CASE after # "done" /\ ~ structured
      <4>1. lines[Len(session.events) + 1] = "failure" /\ Len(session.events) + 1 \in DOMAIN lines
        BY <1>2, <1>8, <3>2
      <4> QED
        BY <4>1 DEF Has, Structured
    <3> QED
      BY <3>1, <3>2
  <2> QED
    BY <1>1, <1>10, <2>1, <2>2 DEF Ingested
<1>14. StatusFits'
  <2>1. after = "done" /\ Has(proc.wrote, {"started"}) => Has(proc.wrote, {"result"})
    BY <1>3, <1>5, <1>6 DEF SessionInv, StatusFits
  <2> QED
    BY <1>1, <1>5, <1>10, <2>1 DEF StatusFits
<1>15. ClientFits'
  <2>1. \A i \in 1 .. session.cursor : session.events[i] = lines[i]
    BY <1>2, <1>11
  <2>2. \A kinds : NewestIs(client.payload, session.events, session.cursor, kinds)
          => NewestIs(client.payload, lines, session.cursor, kinds)
    BY <2>1, NewestOfPrefix
  <2> QED
    BY <1>1, <1>4, <1>10, <2>2 DEF SessionInv, ClientFits, Kinds
<1>16. ErrorFits'
  <2> SUFFICES ASSUME client.kind = "monitor", client.verdict = "error", session.cursor = Len(lines)
               PROVE  after # "done" /\ (client.phase = "finished" => client.payload \in Structured)
    BY <1>1, <1>10 DEF ErrorFits
  <2>1. session.cursor = Len(session.events)
    BY <1>2, <1>11
  <2>2. /\ session.status \in {"error", "stopped"}
        /\ client.phase = "finished" => NewestIs(client.payload, session.events, session.cursor, Structured)
    BY <1>1, <2>1 DEF SessionInv, ErrorFits
  <2>3. after # "done"
    BY <1>5, <2>2
  <2>4. structured
    <3>1. Len(lines) # Len(session.events) + 1
      BY <1>2, <2>1
    <3>2. Len(Append(session.events, "failure")) = Len(session.events) + 1
      BY <1>2
    <3> QED
      BY <1>8, <2>3, <3>1, <3>2
  <2>5. client.phase = "finished" => client.payload \in Structured
    BY <1>2, <2>1, <2>2, <2>4, NewestOfAll DEF structured
  <2> QED
    BY <2>3, <2>5
<1> QED
  BY <1>12, <1>13, <1>14, <1>15, <1>16 DEF SessionInv

-------------------------------------------------------------------------------
(* The pollers *)

\* Polling moves the cursor only.
LEMMA DrainedIs ==
  ASSUME SessionInv
  PROVE  /\ Drained \in SessionRow /\ Drained.status = session.status
         /\ Drained.consumed = session.consumed /\ Drained.events = session.events
         /\ Drained.cursor = Len(session.events)
<1>1. session \in SessionRow /\ Len(session.events) \in Nat
  BY Rows DEF SessionInv
<1> QED
  BY <1>1 DEF Drained, SessionRow

\* Stopping moves the status only, and only while the process is there.
LEMMA StoppedIs ==
  ASSUME NEW r \in SessionRow
  PROVE  /\ Stopped(r) \in SessionRow /\ Stopped(r).consumed = r.consumed
         /\ Stopped(r).events = r.events /\ Stopped(r).cursor = r.cursor
         /\ Stopped(r).status = IF session.consumed THEN r.status ELSE "stopped"
<1>1. CASE session.consumed
  BY <1>1 DEF Stopped, HasProcess
<1>2. CASE ~ session.consumed
  BY <1>2 DEF Stopped, HasProcess, SessionRow, Status, Terminal
<1> QED
  BY <1>1, <1>2

LEMMA SignalledIs ==
  ASSUME SessionInv
  PROVE  /\ Signalled(proc) \in ProcRow /\ Signalled(proc).wrote = proc.wrote
         /\ Signalled(proc).running = proc.running
<1>1. proc \in ProcRow
  BY Rows DEF SessionInv
<1> QED
  BY <1>1 DEF Signalled, ProcRow

\* What the poll brings.
LEMMA PolledPayload ==
  ASSUME SessionInv, client.phase = "polling"
  PROVE  NewestIs(Newest(Fresh, Kinds, client.payload), session.events, Len(session.events), Kinds)
<1>1. /\ session.events \in Seq(Event) /\ session.cursor \in Nat
      /\ session.cursor <= Len(session.events)
  BY Rows DEF SessionInv
<1>2. NewestIs(client.payload, session.events, session.cursor, Kinds)
  BY DEF SessionInv, ClientFits
<1> QED
  BY <1>1, <1>2, PollingOn DEF Fresh

\* A step of the poller leaves the events and what was read of them; it moves the
\* status only by stopping a run whose process is there.
PollerStep ==
  /\ session' \in SessionRow /\ session'.events = session.events
  /\ session'.consumed = session.consumed
  /\ session.consumed => session'.status = session.status
  /\ ~ session.consumed => session'.status \in {session.status, "stopped"}
  /\ session'.cursor \in {session.cursor, Len(session.events)}
  /\ proc' \in ProcRow /\ proc'.wrote = proc.wrote /\ proc'.running = proc.running
  /\ client' \in ClientRow /\ client'.kind = client.kind
  /\ UNCHANGED read

LEMMA PollerKeeps ==
  ASSUME SessionInv, PollerStep
  PROVE  SessionTypeOK' /\ Ingested' /\ StatusFits'
<1>1. /\ Len(session.events) \in Nat /\ session.cursor \in Nat
      /\ session.cursor <= Len(session.events) /\ Len(proc.wrote) <= MaxLines
      /\ read \in 0 .. Len(proc.wrote)
  BY Rows, TypeParts DEF SessionInv
<1>2. SessionTypeOK'
  <2>1. session'.cursor <= Len(session'.events)
    BY <1>1 DEF PollerStep
  <2>2. session' \in [status : Terminal \union {"starting", "working"}, consumed : BOOLEAN,
                     cursor : Nat, events : Seq(Line \union {"failure"})]
    BY DEF PollerStep, SessionRow, Event, Status
  <2>3. proc' \in [running : BOOLEAN, code : {0, 1}, signal : BOOLEAN, wrote : Seq(Line)]
    BY DEF PollerStep, ProcRow
  <2>4. client' \in [kind : {"monitor", "turn"},
              phase : {"polling", "finalizing", "failing", "finished"},
              verdict : Terminal \union {"none", "rejected", "timeout", "stopped by user"},
              payload : Structured \union {"none", "note"},
              attempt : 0 .. MaxAttempts - 1]
    BY DEF PollerStep, ClientRow
  <2>5. Len(proc'.wrote) <= MaxLines /\ read' \in 0 .. Len(proc'.wrote)
    BY <1>1 DEF PollerStep
  <2> QED
    BY <2>1, <2>2, <2>3, <2>4, <2>5 DEF SessionTypeOK
<1>3. Ingested'
  BY DEF SessionInv, Ingested, PollerStep
<1>4. StatusFits'
  <2>1. session'.status \in {session.status, "stopped"}
    BY DEF PollerStep
  <2>2. session'.consumed = session.consumed /\ session'.events = session.events
        /\ proc'.wrote = proc.wrote
    BY DEF PollerStep
  <2> QED
    BY <2>1, <2>2 DEF SessionInv, StatusFits
<1> QED
  BY <1>2, <1>3, <1>4

LEMMA ClientFields ==
  ASSUME NEW r \in ClientRow
  PROVE  /\ r.kind \in {"monitor", "turn"} /\ r.attempt \in 0 .. MaxAttempts - 1
         /\ r.phase \in {"polling", "finalizing", "failing", "finished"}
         /\ r.verdict \in Terminal \union {"none", "rejected", "timeout", "stopped by user"}
         /\ r.payload \in Structured \union {"none", "note"}
BY DEF ClientRow

LEMMA PollInv ==
  ASSUME SessionInv, Poll
  PROVE  SessionInv'
<1> DEFINE got == Newest(Fresh, Structured, client.payload)
           ended == session.status \in Terminal
<1>1. /\ client.kind = "monitor" /\ client.phase = "polling" /\ session' = Drained
      /\ UNCHANGED <<proc, read>> /\ client \in ClientRow /\ proc \in ProcRow
      /\ session \in SessionRow
  BY Rows DEF SessionInv, Poll
<1>2. client.verdict = "none"
  BY <1>1 DEF SessionInv, ClientFits
<1>3. NewestIs(got, session.events, Len(session.events), Structured)
  BY <1>1, PolledPayload DEF Kinds
<1>4. got \in Structured \union {"none", "note"}
  BY <1>3 DEF NewestIs
<1>5. client' = [client EXCEPT !.payload = got,
                   !.verdict = IF ended THEN session.status ELSE @,
                   !.phase = IF ended THEN "finalizing" ELSE @]
  BY DEF Poll
<1> HIDE DEF got
<1>6. /\ client' \in ClientRow /\ client'.kind = "monitor" /\ client'.payload = got
      /\ client'.verdict = IF ended THEN session.status ELSE "none"
      /\ client'.phase = IF ended THEN "finalizing" ELSE "polling"
  <2>1. CASE ended
    BY <1>1, <1>4, <1>5, <2>1 DEF ClientRow
  <2>2. CASE ~ ended
    BY <1>1, <1>2, <1>4, <1>5, <2>2 DEF ClientRow
  <2> QED
    BY <2>1, <2>2
<1>7. /\ session'.status = session.status /\ session'.events = session.events
      /\ session'.consumed = session.consumed /\ session'.cursor = Len(session.events)
      /\ session' \in SessionRow
  BY <1>1, DrainedIs
<1>8. SessionTypeOK' /\ Ingested' /\ StatusFits'
  BY <1>1, <1>6, <1>7, PollerKeeps DEF PollerStep
<1>9. ClientFits'
  BY <1>3, <1>6, <1>7 DEF ClientFits, Kinds, Terminal
<1>10. ErrorFits'
  BY <1>6, <1>7 DEF ErrorFits
<1> QED
  BY <1>8, <1>9, <1>10 DEF SessionInv

LEMMA PollFailsInv ==
  ASSUME SessionInv, PollFails
  PROVE  SessionInv'
<1>1. /\ client.kind = "monitor" /\ client.phase = "polling" /\ session' = Drained
      /\ UNCHANGED <<proc, read>> /\ client \in ClientRow /\ proc \in ProcRow
      /\ client' = [client EXCEPT !.phase = "failing"]
  BY Rows DEF SessionInv, PollFails
<1>2. client.verdict = "none"
  BY <1>1 DEF SessionInv, ClientFits
<1>3. /\ client' \in ClientRow /\ client'.kind = "monitor" /\ client'.phase = "failing"
      /\ client'.verdict = "none"
  BY <1>1, <1>2 DEF ClientRow
<1>4. /\ session'.status = session.status /\ session'.events = session.events
      /\ session'.consumed = session.consumed /\ session'.cursor = Len(session.events)
      /\ session' \in SessionRow
  BY <1>1, DrainedIs
<1>5. SessionTypeOK' /\ Ingested' /\ StatusFits'
  BY <1>1, <1>3, <1>4, PollerKeeps DEF PollerStep
<1>6. ClientFits' /\ ErrorFits'
  BY <1>3 DEF ClientFits, ErrorFits
<1> QED
  BY <1>5, <1>6 DEF SessionInv

\* What the monitor stores when it finishes a run it has polled to its end.
LEMMA RecoveredIs ==
  ASSUME SessionInv, client.kind = "monitor", client.phase = "finalizing",
         session.cursor = Len(session.events)
  PROVE  /\ Has(session.events, Structured) => client.payload \in Structured
         /\ client.payload \in Structured => Recovered = client.payload
         /\ ~ session.consumed => Recovered = client.payload
         /\ NewestIs(client.payload, session.events, session.cursor, Structured)
<1>1. NewestIs(client.payload, session.events, session.cursor, Structured)
  BY DEF SessionInv, ClientFits, Kinds
<1>2. session.events \in Seq(Event)
  BY Rows DEF SessionInv
<1>3. Has(session.events, Structured) => client.payload \in Structured
  BY <1>1, <1>2, NewestOfAll
<1> QED
  BY <1>1, <1>3 DEF Recovered, Structured

LEMMA FinalizeInv ==
  ASSUME SessionInv, Finalize
  PROVE  SessionInv'
<1>1. /\ client.phase = "finalizing" /\ UNCHANGED <<proc, session, read>>
      /\ client' = [client EXCEPT !.phase = "finished", !.payload = Recovered]
      /\ client \in ClientRow /\ proc \in ProcRow /\ session \in SessionRow
      /\ session.events \in Seq(Event) /\ proc.wrote \in Seq(Line)
  BY Rows DEF SessionInv, Finalize
<1>2. client.kind = "monitor"
  BY <1>1, ClientFields DEF SessionInv, ClientFits
<1>3. Recovered \in Structured \union {"none", "note"}
  <2>1. Newest(session.events, Structured, "none") \in Structured \union {"none"}
    BY <1>1, NewestFacts
  <2> QED
    BY <1>1, <2>1, ClientFields DEF Recovered
<1>4. /\ client' \in ClientRow /\ client'.kind = "monitor" /\ client'.phase = "finished"
      /\ client'.payload = Recovered /\ client'.verdict = client.verdict
  BY <1>1, <1>2, <1>3 DEF ClientRow
<1>5. SessionTypeOK' /\ Ingested' /\ StatusFits'
  BY <1>1, <1>2, <1>4, PollerKeeps DEF PollerStep
<1>6. ClientFits'
  <2>1. client.verdict = "done" => session.status = "done" /\ session.cursor = Len(session.events)
    BY DEF SessionInv, ClientFits
  <2>2. ASSUME client.verdict = "done", Has(proc.wrote, {"started"})
        PROVE  Recovered = "result"
    <3>1. Has(proc.wrote, {"result"}) /\ session.events = proc.wrote
      BY <2>1, <2>2 DEF SessionInv, StatusFits, Ingested
    <3>2. Has(session.events, Structured)
      BY <3>1 DEF Has, Structured
    <3>3. /\ client.payload \in Structured /\ Recovered = client.payload
          /\ NewestIs(client.payload, proc.wrote, Len(proc.wrote), Structured)
      BY <1>1, <1>2, <2>1, <2>2, <3>1, <3>2, RecoveredIs
    <3>4. \A i \in 1 .. Len(proc.wrote) : proc.wrote[i] \in Structured => proc.wrote[i] = "result"
      BY <1>1, StructuredLines
    <3> QED
      BY <3>3, <3>4 DEF NewestIs, Structured
  <2> QED
    BY <1>1, <1>4, <2>1, <2>2 DEF ClientFits
<1>7. ErrorFits'
  <2> SUFFICES ASSUME client.verdict = "error", session.cursor = Len(session.events)
               PROVE  /\ session.status # "done"
                      /\ ~ session.consumed => session.status \in {"error", "stopped"}
                      /\ session.consumed => Recovered \in Structured
                      /\ ~ session.consumed => NewestIs(Recovered, session.events, session.cursor, Structured)
    BY <1>1, <1>4 DEF ErrorFits
  <2>1. /\ session.status # "done"
        /\ ~ session.consumed => session.status \in {"error", "stopped"}
    BY <1>2 DEF SessionInv, ErrorFits
  <2>2. session.consumed => Has(session.events, Structured)
    BY <2>1 DEF SessionInv, Ingested
  <2> QED
    BY <1>1, <1>2, <2>1, <2>2, RecoveredIs
<1> QED
  BY <1>5, <1>6, <1>7 DEF SessionInv

LEMMA LockedInv ==
  ASSUME SessionInv, FinalizeLocked
  PROVE  SessionInv'
<1>1. /\ client.phase = "finalizing" /\ UNCHANGED <<proc, session, read>>
      /\ client \in ClientRow /\ proc \in ProcRow /\ session \in SessionRow
  BY Rows DEF SessionInv, FinalizeLocked
<1>2. client.kind = "monitor"
  BY <1>1, ClientFields DEF SessionInv, ClientFits
<1>3. CASE client.attempt < MaxAttempts - 1
  <2>1. client' = [client EXCEPT !.attempt = @ + 1]
    BY <1>3 DEF FinalizeLocked
  <2>2. client.attempt + 1 \in 0 .. MaxAttempts - 1
    <3>1. client.attempt \in 0 .. MaxAttempts - 1
      BY <1>1, ClientFields
    <3> QED
      BY <1>3, <3>1, SessionConstants
  <2>3. /\ client' \in ClientRow /\ client'.kind = client.kind /\ client'.phase = client.phase
        /\ client'.verdict = client.verdict /\ client'.payload = client.payload
    BY <1>1, <2>1, <2>2 DEF ClientRow
  <2>4. SessionTypeOK' /\ Ingested' /\ StatusFits'
    BY <1>1, <2>3, PollerKeeps DEF PollerStep
  <2>5. ClientFits' /\ ErrorFits'
    BY <1>1, <2>3 DEF SessionInv, ClientFits, ErrorFits, Kinds
  <2> QED
    BY <2>4, <2>5 DEF SessionInv
<1>4. CASE ~ (client.attempt < MaxAttempts - 1)
  <2>1. client' = [client EXCEPT !.phase = "failing"]
    BY <1>4 DEF FinalizeLocked
  <2>2. /\ client' \in ClientRow /\ client'.kind = client.kind /\ client'.phase = "failing"
        /\ client'.verdict = client.verdict
    BY <1>1, <2>1 DEF ClientRow
  <2>3. SessionTypeOK' /\ Ingested' /\ StatusFits'
    BY <1>1, <2>2, PollerKeeps DEF PollerStep
  <2>4. ClientFits' /\ ErrorFits'
    BY <1>1, <1>2, <2>2 DEF SessionInv, ClientFits, ErrorFits
  <2> QED
    BY <2>3, <2>4 DEF SessionInv
<1> QED
  BY <1>3, <1>4

\* The steps that finish the run with a verdict of their own.
LEMMA OwnVerdictInv ==
  ASSUME SessionInv, PollerStep, client'.phase = "finished",
         client'.verdict \in {"rejected", "timeout", "stopped by user"}
  PROVE  SessionInv'
<1>1. ClientFits' /\ ErrorFits'
  BY DEF ClientFits, ErrorFits, PollerStep
<1> QED
  BY <1>1, PollerKeeps DEF SessionInv

LEMMA FailureInv ==
  ASSUME SessionInv, MonitorFailure \/ TurnCancelled \/ CompleteTaskByUser
  PROVE  SessionInv'
<1>1. /\ UNCHANGED <<proc, session, read>> /\ client \in ClientRow /\ proc \in ProcRow
      /\ session \in SessionRow
  BY Rows DEF SessionInv, MonitorFailure, TurnCancelled, CompleteTaskByUser
<1>2. PICK verdict \in {"rejected", "timeout", "stopped by user"} :
        client' = [client EXCEPT !.phase = "finished", !.verdict = verdict]
  <2>1. CASE MonitorFailure
    BY <2>1 DEF MonitorFailure
  <2>2. CASE TurnCancelled
    <3>1. client' = [client EXCEPT !.phase = "finished", !.verdict = "timeout"]
      BY <1>1, <2>2 DEF TurnCancelled, ClientRow
    <3> QED
      BY <3>1
  <2>3. CASE CompleteTaskByUser
    BY <2>3 DEF CompleteTaskByUser
  <2> QED
    BY <2>1, <2>2, <2>3
<1>3. /\ client' \in ClientRow /\ client'.kind = client.kind /\ client'.phase = "finished"
      /\ client'.verdict = verdict
  BY <1>1, <1>2 DEF ClientRow
<1> QED
  BY <1>1, <1>3, OwnVerdictInv DEF PollerStep

LEMMA StopInv ==
  ASSUME SessionInv, StopAgent
  PROVE  SessionInv'
<1>1. /\ session' = Stopped(session) /\ proc' = Signalled(proc) /\ UNCHANGED read
      /\ client' = [client EXCEPT !.phase = "finished", !.verdict = "stopped by user"]
      /\ client \in ClientRow /\ session \in SessionRow
  BY Rows DEF SessionInv, StopAgent
<1>2. /\ client' \in ClientRow /\ client'.kind = client.kind /\ client'.phase = "finished"
      /\ client'.verdict = "stopped by user"
  BY <1>1 DEF ClientRow
<1>3. PollerStep
  BY <1>1, <1>2, StoppedIs, SignalledIs DEF PollerStep
<1> QED
  BY <1>2, <1>3, OwnVerdictInv

LEMMA PollTurnInv ==
  ASSUME SessionInv, PollTurn
  PROVE  SessionInv'
<1> DEFINE ended == session.status \in Terminal
<1>1. /\ client.kind = "turn" /\ client.phase = "polling" /\ session' = Drained
      /\ UNCHANGED <<proc, read>> /\ client \in ClientRow /\ proc \in ProcRow
      /\ client' = IF ended THEN [client EXCEPT !.payload = Answer, !.phase = "finished",
                                                !.verdict = session.status]
                            ELSE [client EXCEPT !.payload = Answer]
  BY Rows DEF SessionInv, PollTurn
<1>2. client.verdict = "none"
  BY <1>1 DEF SessionInv, ClientFits
<1>3. NewestIs(Answer, session.events, Len(session.events), Structured \union {"note"})
  BY <1>1, PolledPayload DEF Kinds, Answer
<1>4. Answer \in Structured \union {"none", "note"}
  BY <1>3 DEF NewestIs
<1>5. /\ client' \in ClientRow /\ client'.kind = "turn" /\ client'.payload = Answer
      /\ client'.verdict = IF ended THEN session.status ELSE "none"
      /\ client'.phase = IF ended THEN "finished" ELSE "polling"
  <2>1. CASE ended
    BY <1>1, <1>4, <2>1 DEF ClientRow
  <2>2. CASE ~ ended
    BY <1>1, <1>2, <1>4, <2>2 DEF ClientRow
  <2> QED
    BY <2>1, <2>2
<1>6. /\ session'.status = session.status /\ session'.events = session.events
      /\ session'.consumed = session.consumed /\ session'.cursor = Len(session.events)
      /\ session' \in SessionRow
  BY <1>1, DrainedIs
<1>7. SessionTypeOK' /\ Ingested' /\ StatusFits'
  BY <1>1, <1>5, <1>6, PollerKeeps DEF PollerStep
<1>8. ClientFits'
  BY <1>3, <1>5, <1>6 DEF ClientFits, Kinds, Terminal
<1>9. ErrorFits'
  BY <1>5 DEF ErrorFits
<1> QED
  BY <1>7, <1>8, <1>9 DEF SessionInv

LEMMA DeadlineInv ==
  ASSUME SessionInv, Deadline
  PROVE  SessionInv'
<1>1. /\ client.kind = "turn" /\ client.phase = "polling" /\ session' = Stopped(Drained)
      /\ proc' = Signalled(proc) /\ UNCHANGED read /\ client \in ClientRow
      /\ client' = [client EXCEPT !.payload = Answer, !.phase = "finished", !.verdict = "timeout"]
  BY Rows DEF SessionInv, Deadline
<1>2. NewestIs(Answer, session.events, Len(session.events), Structured \union {"note"})
  BY <1>1, PolledPayload DEF Kinds, Answer
<1>3. Answer \in Structured \union {"none", "note"}
  BY <1>2 DEF NewestIs
<1>4. /\ client' \in ClientRow /\ client'.kind = client.kind /\ client'.phase = "finished"
      /\ client'.verdict = "timeout"
  BY <1>1, <1>3 DEF ClientRow
<1>5. PollerStep
  <2>1. /\ Drained \in SessionRow /\ Drained.status = session.status
        /\ Drained.consumed = session.consumed /\ Drained.events = session.events
        /\ Drained.cursor = Len(session.events)
    BY DrainedIs
  <2>2. /\ session' \in SessionRow /\ session'.consumed = session.consumed
        /\ session'.events = session.events /\ session'.cursor = Len(session.events)
        /\ session'.status = IF session.consumed THEN session.status ELSE "stopped"
    BY <1>1, <2>1, StoppedIs
  <2> QED
    BY <1>1, <1>4, <2>2, SignalledIs DEF PollerStep
<1> QED
  BY <1>4, <1>5, OwnVerdictInv

-------------------------------------------------------------------------------
(* The theorems *)

LEMMA SessionStutter == SessionInv /\ UNCHANGED vars => SessionInv'
<1> SUFFICES ASSUME SessionInv, UNCHANGED vars PROVE SessionInv'
  OBVIOUS
<1>1. SessionTypeOK'
  <2>1. UNCHANGED proc /\ UNCHANGED session /\ UNCHANGED read /\ UNCHANGED client
    BY DEF vars
  <2>2. SessionTypeOK
    BY DEF SessionInv
  <2>3. proc' \in [running : BOOLEAN, code : {0, 1}, signal : BOOLEAN, wrote : Seq(Line)]
    BY <2>1, <2>2 DEF SessionTypeOK
  <2>4. session' \in [status : Terminal \union {"starting", "working"}, consumed : BOOLEAN,
                     cursor : Nat, events : Seq(Line \union {"failure"})]
    BY <2>1, <2>2 DEF SessionTypeOK
  <2>5. client' \in [kind : {"monitor", "turn"},
              phase : {"polling", "finalizing", "failing", "finished"},
              verdict : Terminal \union {"none", "rejected", "timeout", "stopped by user"},
              payload : Structured \union {"none", "note"},
              attempt : 0 .. MaxAttempts - 1]
    BY <2>1, <2>2 DEF SessionTypeOK
  <2>6. /\ Len(proc'.wrote) <= MaxLines /\ read' \in 0 .. Len(proc'.wrote)
        /\ session'.cursor <= Len(session'.events)
    BY <2>1, <2>2 DEF SessionTypeOK
  <2> QED
    BY <2>3, <2>4, <2>5, <2>6, Zenon DEF SessionTypeOK
<1>2. Ingested' /\ StatusFits'
  BY DEF vars, SessionInv, Ingested, StatusFits
<1>3. ClientFits' /\ ErrorFits'
  BY DEF vars, SessionInv, ClientFits, ErrorFits, Kinds
<1> QED
  BY <1>1, <1>2, <1>3 DEF SessionInv

LEMMA SessionNext == SessionInv /\ [Next]_vars => SessionInv'
<1> SUFFICES ASSUME SessionInv, [Next]_vars PROVE SessionInv'
  OBVIOUS
<1>1. CASE \E line \in Line : Write(line)
  BY <1>1, WriteInv
<1>2. CASE \E code \in {0, 1} : Exit(code)
  BY <1>2, ExitInv
<1>3. CASE ReadChunk
  BY <1>3, ReadInv
<1>4. CASE Reap
  BY <1>4, ReapInv
<1>5. CASE Poll
  BY <1>5, PollInv
<1>6. CASE PollTurn
  BY <1>6, PollTurnInv
<1>7. CASE Deadline
  BY <1>7, DeadlineInv
<1>8. CASE Finalize
  BY <1>8, FinalizeInv
<1>9. CASE FinalizeLocked
  BY <1>9, LockedInv
<1>10. CASE PollFails
  BY <1>10, PollFailsInv
<1>11. CASE StopAgent
  BY <1>11, StopInv
<1>12. CASE MonitorFailure \/ TurnCancelled \/ CompleteTaskByUser
  BY <1>12, FailureInv
<1>13. CASE UNCHANGED vars
  BY <1>13, SessionStutter
<1> QED
  BY <1>1, <1>2, <1>3, <1>4, <1>5, <1>6, <1>7, <1>8, <1>9, <1>10, <1>11, <1>12, <1>13
     DEF Next, Process, Client

LEMMA SessionInvariant == Spec => []SessionInv
BY SessionInit, SessionNext, PTL DEF Spec

\* The rows of a run keep their types, and what was read never outruns what was
\* written (CliRunState in cli_runner.py), whatever the process writes and when.
THEOREM SessionTypes == Spec => []SessionTypeOK
<1>1. SessionInv => SessionTypeOK
  BY DEF SessionInv
<1> QED
  BY <1>1, SessionInvariant, PTL

\* A run finished as done was read to the end of its pipe, and the result that counts
\* is the newest its process wrote (read_events, _consume_process, _monitor_run).
THEOREM DoneRunsAreComplete == Spec => []DoneIsComplete
<1>1. SessionInv => DoneIsComplete
  <2> SUFFICES ASSUME SessionInv, client.phase = "finished", client.verdict = "done"
               PROVE  /\ session.events = proc.wrote /\ session.cursor = Len(proc.wrote)
                      /\ client.kind = "monitor" /\ Has(proc.wrote, {"started"})
                           => client.payload = "result"
                      /\ client.kind = "turn" =>
                           client.payload = Newest(proc.wrote, Structured \union {"note"}, "none")
    BY DEF DoneIsComplete
  <2>1. session.status = "done" /\ session.cursor = Len(session.events)
    BY DEF SessionInv, ClientFits
  <2>2. session.events = proc.wrote
    BY <2>1 DEF SessionInv, StatusFits, Ingested
  <2>3. client.kind = "monitor" /\ Has(proc.wrote, {"started"}) => client.payload = "result"
    BY DEF SessionInv, ClientFits
  <2>4. ASSUME client.kind = "turn"
        PROVE  client.payload = Newest(proc.wrote, Structured \union {"note"}, "none")
    <3>1. NewestIs(client.payload, proc.wrote, Len(proc.wrote), Structured \union {"note"})
      BY <2>1, <2>2, <2>4 DEF SessionInv, ClientFits, Kinds
    <3>2. proc.wrote \in Seq(Line)
      BY Rows DEF SessionInv
    <3> QED
      BY <3>1, <3>2, NewestOfAll
  <2> QED
    BY <2>1, <2>2, <2>3, <2>4
<1> QED
  BY <1>1, SessionInvariant, PTL

\* A run that ended by itself and is finished as an error, polled after its end,
\* carries a structured payload: the reason is never lost (_consume_process).
THEOREM FailuresAreExplained == Spec => []FailureIsExplained
<1>1. SessionInv => FailureIsExplained
  BY DEF SessionInv, ErrorFits, FailureIsExplained
<1> QED
  BY <1>1, SessionInvariant, PTL

-------------------------------------------------------------------------------
(* The end of a run of the external adapter, in the workspace the runs share *)

\* An edit that is not admitted is not applied.
LEMMA ApplyIs ==
  ASSUME NEW r, NEW d, NEW edits, NEW p \in Paths
  PROVE  /\ Apply(r, d, edits)[p] = IF p \in Applied(r, d, edits) THEN edits[p] ELSE d[p]
         /\ ~ Admits(r, p) => Apply(r, d, edits)[p] = d[p]
BY DEF Apply, Applied

LEMMA RestoredIs ==
  ASSUME NEW r, NEW d, NEW p \in Paths, Scope(r) # {}
  PROVE  Restored(r, d)[p] = IF p \in Scope(r) THEN base[r][p]
                             ELSE IF repo THEN AtHead[p] ELSE d[p]
BY DEF Restored

\* Where a run may not write, the end of the run leaves the restored workspace,
\* whichever edits were applied, fallen back on or replayed.
LEMMA NotAdmitted ==
  ASSUME NEW r, NEW edits, NEW enforced, NEW p \in Paths, ~ Admits(r, p), Scope(r) # {}
  PROVE  Outcome(r, edits, enforced).disk[p] = Restored(r, disk)[p]
<1> DEFINE synth == Synthesized(r)
           clean == Restored(r, disk)
           effective == IF edits # <<>> THEN edits ELSE synth
           first == Apply(r, clean, effective)
           again(d) == Restored(r, d)
<1>1. first[p] = clean[p] /\ \A d : Apply(r, d, synth)[p] = d[p]
  BY ApplyIs
<1>2. \A d : d[p] = clean[p] => again(d)[p] = clean[p]
  BY RestoredIs
<1>3. \/ Outcome(r, edits, enforced).disk = first
      \/ Outcome(r, edits, enforced).disk = Apply(r, first, synth)
      \/ Outcome(r, edits, enforced).disk = Apply(r, again(first), synth)
      \/ Outcome(r, edits, enforced).disk = Apply(r, again(Apply(r, first, synth)), synth)
  BY DEF Outcome
<1>4. clean = Restored(r, disk)
  OBVIOUS
<1> HIDE DEF synth, clean, effective, first, again
<1> QED
  BY <1>1, <1>2, <1>3, <1>4

\* Edits that are there name a path.
LEMMA EditsName ==
  ASSUME NEW edits \in Edits, edits # <<>>
  PROVE  DOMAIN edits # {}
<1> SUFFICES ASSUME DOMAIN edits = {} PROVE FALSE
  OBVIOUS
<1>1. PICK ps \in SUBSET Paths : edits \in [ps -> {"edit", "stub"}]
  BY DEF Edits
<1>2. edits \in [{} -> {"edit", "stub"}]
  BY <1>1
<1>3. edits = <<>>
  BY <1>2
<1> QED
  BY <1>3

\* A report without an issue on a run that changed something: the files it names
\* are the files that differ from the baseline, all of them in the run's scope.
LEMMA FaithfulOutcome ==
  ASSUME NEW r \in Runs, NEW edits \in Edits, NEW enforced, protected[r] \subseteq Paths,
         ~ Outcome(r, edits, enforced).issue, Changed(r) # {}
  PROVE  /\ Outcome(r, edits, enforced).files # {}
         /\ Outcome(r, edits, enforced).files \subseteq Scope(r)
         /\ \A p \in Scope(r) : Outcome(r, edits, enforced).disk[p] # base[r][p]
                                  <=> p \in Outcome(r, edits, enforced).files
<1> DEFINE synth == Synthesized(r)
           clean == Restored(r, disk)
           effective == IF edits # <<>> THEN edits ELSE synth
           first == Apply(r, clean, effective)
           firstApplied == Applied(r, clean, effective)
           fallback == edits # <<>> /\ firstApplied = {} /\ synth # <<>>
           second == IF fallback THEN Apply(r, first, synth) ELSE first
           applied == IF fallback THEN Applied(r, first, synth) ELSE firstApplied
           used == fallback /\ applied # {}
           drift == /\ edits # <<>> /\ synth # <<>> /\ applied # {} /\ ~ used
                    /\ applied = DOMAIN synth /\ ~ enforced
                    /\ \E p \in DOMAIN synth : second[p] # synth[p]
           again == Restored(r, second)
           o == Outcome(r, edits, enforced)
\* The disk that the edits e are applied to holds the baseline in the scope.
<1> DEFINE Faithful(d, e) ==
             /\ \A p \in Scope(r) : d[p] = base[r][p]
             /\ Applied(r, d, e) = DOMAIN e /\ DOMAIN e # {} /\ DOMAIN e \subseteq Scope(r)
             /\ o.disk = Apply(r, d, e) /\ o.files = DOMAIN e
<1>1. /\ o.disk = IF drift THEN Apply(r, again, synth) ELSE second
      /\ o.files = applied
      /\ Changed(r) = Recoverable(r)
      /\ IF used THEN ~ Issue(r, first, synth) ELSE ~ Issue(r, clean, effective)
      /\ drift => ~ Issue(r, again, synth)
  BY DEF Outcome
<1>2. /\ DOMAIN synth = Changed(r) /\ DOMAIN synth # {} /\ DOMAIN synth \subseteq Scope(r)
      /\ \A p \in Changed(r) : p \notin protected[r]
  BY <1>1 DEF Synthesized, Recoverable, Changed
<1>3. Allowed[r] # {} /\ Scope(r) # {} /\ Scope(r) \subseteq Paths
  <2>1. Scope(r) \subseteq Paths
    BY WorkspaceConstants DEF Scope
  <2> QED
    BY <1>2, <2>1 DEF Scope, Changed
<1>4. \A d : \A p \in Scope(r) : Restored(r, d)[p] = base[r][p]
  BY <1>3, RestoredIs
<1>5. \A d, e : Applied(r, d, e) \subseteq Allowed[r] /\ Allowed[r] \subseteq Scope(r)
  BY <1>3 DEF Applied, Admits, Scope
<1>6. \A d, e : ~ Issue(r, d, e) => Applied(r, d, e) = DOMAIN e
  BY DEF Issue
<1> HIDE DEF o
<1>7. \E d, e : Faithful(d, e)
  <2>1. CASE drift
    <3>1. o.disk = Apply(r, again, synth) /\ o.files = DOMAIN synth
          /\ Applied(r, again, synth) = DOMAIN synth
      BY <1>1, <1>6, <2>1
    <3> QED
      BY <1>2, <1>4, <3>1
  <2>2. CASE ~ drift /\ fallback
    <3>1. \A p \in Scope(r) : first[p] = base[r][p]
      BY <1>3, <1>4, <2>2, ApplyIs
    <3>2. used
      <4> SUFFICES ASSUME ~ used PROVE FALSE
        OBVIOUS
      <4>1. Applied(r, clean, effective) = DOMAIN effective
        BY <1>1, <1>6
      <4>2. DOMAIN effective # {}
        BY <2>2, EditsName
      <4> QED
        BY <2>2, <4>1, <4>2
    <3>3. o.disk = Apply(r, first, synth) /\ o.files = DOMAIN synth
          /\ Applied(r, first, synth) = DOMAIN synth
      BY <1>1, <1>6, <2>2, <3>2
    <3> QED
      BY <1>2, <3>1, <3>3
  <2>3. CASE ~ drift /\ ~ fallback
    <3>1. o.disk = Apply(r, clean, effective) /\ o.files = DOMAIN effective
          /\ Applied(r, clean, effective) = DOMAIN effective
      BY <1>1, <1>6, <2>3
    <3>2. DOMAIN effective # {}
      BY <1>2, EditsName
    <3> QED
      BY <1>4, <1>5, <3>1, <3>2
  <2> QED
    BY <2>1, <2>2, <2>3
<1>8. PICK d, e : Faithful(d, e)
  BY <1>7
<1>9. \A p \in Scope(r) : o.disk[p] = IF p \in DOMAIN e THEN e[p] ELSE base[r][p]
  BY <1>3, <1>8, ApplyIs
<1>10. \A p \in DOMAIN e : e[p] # base[r][p]
  BY <1>8 DEF Applied
<1> QED
  BY <1>8, <1>9, <1>10 DEF o

-------------------------------------------------------------------------------
(* The types of the shared workspace, and the steps that report *)

\* A run that is on has not reported.
Unreported == \A r \in Runs : phase[r] = "running" => report[r].status = "none"

AdapterInv == AdapterTypeOK /\ Unreported

Report == [status : {"none", "done", "blocked", "needs_review"}, files : SUBSET Paths]

\* The workspace's types without the baselines' scope.
AdapterRows ==
  /\ repo \in BOOLEAN /\ disk \in [Paths -> Content]
  /\ phase \in [Runs -> {"idle", "running", "ended"}]
  /\ protected \in [Runs -> SUBSET Tests]
  /\ base \in [Runs -> [Paths -> Content]]
  /\ report \in [Runs -> Report]

BaseInScope ==
  \A r \in Runs : phase[r] = "running" => \A p \in Paths \ Scope(r) : base[r][p] = "none"

LEMMA AdapterParts == AdapterTypeOK <=> AdapterRows /\ BaseInScope
BY DEF AdapterTypeOK, AdapterRows, BaseInScope, Report

LEMMA AdapterInitInv == AdapterInit => AdapterInv
<1> SUFFICES ASSUME AdapterInit PROVE AdapterInv
  OBVIOUS
<1>1. AtHead \in [Paths -> Content]
  BY DEF AtHead, Content
<1>2. NoReport \in Report
  BY DEF NoReport, Report
<1>3. [p \in Paths |-> "none"] \in [Paths -> Content]
  BY DEF Content
<1>4. AdapterRows
  BY <1>1, <1>2, <1>3 DEF AdapterInit, AdapterRows
<1>5. BaseInScope /\ Unreported
  BY DEF AdapterInit, BaseInScope, Unreported
<1> QED
  BY <1>4, <1>5, AdapterParts DEF AdapterInv

LEMMA StartInv ==
  ASSUME AdapterInv, NEW r \in Runs, Start(r)
  PROVE  AdapterInv'
<1>1. AdapterRows /\ BaseInScope /\ Unreported
  BY AdapterParts DEF AdapterInv
<1>2. NoReport \in Report /\ NoReport.status = "none"
  BY DEF NoReport, Report
<1>3. Captured(r) \in [Paths -> Content]
  BY <1>1 DEF Captured, AdapterRows, Content
<1>4. AdapterRows'
  BY <1>1, <1>2, <1>3 DEF Start, AdapterRows
<1>5. BaseInScope'
  <2> SUFFICES ASSUME NEW s \in Runs, phase'[s] = "running",
                      NEW p \in Paths \ (Allowed[s] \union protected'[s])
               PROVE  base'[s][p] = "none"
    BY DEF BaseInScope, Scope
  <2>1. CASE s = r
    <3>1. base'[s] = Captured(r) /\ protected'[s] = Dirty \cap Tests
      BY <1>1, <2>1 DEF Start, AdapterRows
    <3> QED
      BY <3>1, <2>1 DEF Captured
  <2>2. CASE s # r
    <3>1. base'[s] = base[s] /\ protected'[s] = protected[s] /\ phase'[s] = phase[s]
      BY <1>1, <2>2 DEF Start, AdapterRows
    <3> QED
      BY <1>1, <3>1 DEF BaseInScope, Scope
  <2> QED
    BY <2>1, <2>2
<1>6. Unreported'
  <2> SUFFICES ASSUME NEW s \in Runs, phase'[s] = "running" PROVE report'[s].status = "none"
    BY DEF Unreported
  <2>1. CASE s = r
    BY <1>1, <1>2, <2>1 DEF Start, AdapterRows
  <2>2. CASE s # r
    BY <1>1, <2>2 DEF Start, AdapterRows, Unreported
  <2> QED
    BY <2>1, <2>2
<1> QED
  BY <1>4, <1>5, <1>6, AdapterParts DEF AdapterInv, AdapterTypeOK, AdapterRows, BaseInScope, Report

\* A step that touches neither the runs nor their baselines.
LEMMA DiskInv ==
  ASSUME AdapterInv, disk' \in [Paths -> Content], UNCHANGED <<repo, phase, protected, base, report>>
  PROVE  AdapterInv'
BY DEF AdapterInv, AdapterTypeOK, Unreported, Scope

LEMMA ScribbleInv ==
  ASSUME AdapterInv, NEW r \in Runs, NEW p \in Paths, NEW text \in {"none", "draft", "stub"},
         Scribble(r, p, text)
  PROVE  AdapterInv'
<1>1. disk \in [Paths -> Content] /\ text \in Content
  BY DEF AdapterInv, AdapterTypeOK, Content, New
<1>2. disk' \in [Paths -> Content] /\ UNCHANGED <<repo, phase, protected, base, report>>
  BY <1>1 DEF Scribble
<1> QED
  BY <1>2, DiskInv

LEMMA BoardInv ==
  ASSUME AdapterInv, WriteBoard
  PROVE  AdapterInv'
<1>1. disk \in [Paths -> Content]
  BY DEF AdapterInv, AdapterTypeOK
<1>2. disk' \in [Paths -> Content] /\ UNCHANGED <<repo, phase, protected, base, report>>
  BY <1>1 DEF WriteBoard, Content, New
<1> QED
  BY <1>2, DiskInv

\* A run that ends, with or without a report.
LEMMA EndInv ==
  ASSUME AdapterInv, NEW r \in Runs, disk' \in [Paths -> Content],
         phase' = [phase EXCEPT ![r] = "ended"],
         base' = [base EXCEPT ![r] = [p \in Paths |-> "none"]],
         NEW new \in Report, report' = [report EXCEPT ![r] = new],
         UNCHANGED <<repo, protected>>
  PROVE  AdapterInv'
<1>1. AdapterRows /\ BaseInScope /\ Unreported
  BY AdapterParts DEF AdapterInv
<1>2. [p \in Paths |-> "none"] \in [Paths -> Content]
  BY DEF Content
<1>3. AdapterRows'
  BY <1>1, <1>2 DEF AdapterRows
<1>4. \A s \in Runs : phase'[s] = "running" => /\ s # r /\ phase[s] = "running"
                                               /\ base'[s] = base[s] /\ report'[s] = report[s]
  BY <1>1 DEF AdapterRows
<1>5. BaseInScope' /\ Unreported'
  BY <1>1, <1>4 DEF BaseInScope, Unreported, Scope
<1> QED
  BY <1>3, <1>5 DEF AdapterInv, AdapterTypeOK, AdapterRows, BaseInScope, Report

LEMMA LeaveInv ==
  ASSUME AdapterInv, NEW r \in Runs, Leave(r)
  PROVE  AdapterInv'
<1>1. report \in [Runs -> Report] /\ disk \in [Paths -> Content]
  BY DEF AdapterInv, AdapterTypeOK, Report
<1> DEFINE new == report[r]
<1>2. new \in Report /\ report' = [report EXCEPT ![r] = new]
  BY <1>1 DEF Leave
<1> HIDE DEF new
<1> QED
  BY <1>1, <1>2, EndInv DEF Leave

\* Every text an edit writes, and every text of the workspace, is a content.
LEMMA OutcomeTyped ==
  ASSUME AdapterRows, NEW r \in Runs, NEW edits \in Edits, NEW enforced
  PROVE  /\ Outcome(r, edits, enforced).disk \in [Paths -> Content]
         /\ Outcome(r, edits, enforced).files \in SUBSET Paths
<1> DEFINE synth == Synthesized(r)
           effective == IF edits # <<>> THEN edits ELSE synth
           Texts(e) == \A p \in DOMAIN e : p \in Paths /\ e[p] \in Content
<1>1. Scope(r) \subseteq Paths
  BY WorkspaceConstants DEF Scope, AdapterRows
<1>2. Texts(synth)
  BY <1>1 DEF Synthesized, Recoverable, Changed, AdapterRows
<1>3. Texts(edits)
  <2>1. PICK ps \in SUBSET Paths : edits \in [ps -> {"edit", "stub"}]
    BY DEF Edits
  <2> QED
    BY <2>1 DEF Content, New
<1>4. Texts(effective)
  BY <1>2, <1>3
<1>5. \A d \in [Paths -> Content] : Restored(r, d) \in [Paths -> Content]
  BY DEF Restored, AdapterRows, AtHead, Content
<1>6. \A d \in [Paths -> Content] : \A e : Texts(e) => /\ Apply(r, d, e) \in [Paths -> Content]
                                                      /\ Applied(r, d, e) \subseteq Paths
  BY DEF Apply, Applied
<1> DEFINE clean == Restored(r, disk)
           first == Apply(r, clean, effective)
           second == Apply(r, first, synth)
<1>7. clean \in [Paths -> Content]
  BY <1>5 DEF AdapterRows
<1> HIDE DEF synth, effective, clean, Texts
<1>8. first \in [Paths -> Content] /\ Applied(r, clean, effective) \subseteq Paths
  BY <1>4, <1>6, <1>7
<1> HIDE DEF first
<1>9. second \in [Paths -> Content] /\ Applied(r, first, synth) \subseteq Paths
  BY <1>2, <1>6, <1>8
<1> HIDE DEF second
<1>10. /\ Apply(r, Restored(r, first), synth) \in [Paths -> Content]
       /\ Apply(r, Restored(r, second), synth) \in [Paths -> Content]
  BY <1>2, <1>5, <1>6, <1>8, <1>9
<1>11. /\ \/ Outcome(r, edits, enforced).disk \in {first, second}
          \/ Outcome(r, edits, enforced).disk = Apply(r, Restored(r, first), synth)
          \/ Outcome(r, edits, enforced).disk = Apply(r, Restored(r, second), synth)
       /\ Outcome(r, edits, enforced).files
            \in {Applied(r, clean, effective), Applied(r, first, synth)}
  BY DEF Outcome, synth, effective, clean, first, second
<1> QED
  BY <1>8, <1>9, <1>10, <1>11

\* What a finishing run reports.
ReportOf(r, edits, claims, status, enforced) ==
  LET o == Outcome(r, edits, enforced)
  IN [status |-> IF o.issue THEN "needs_review" ELSE status,
      files |-> IF o.files # {} \/ o.effective # <<>> \/ o.issue THEN o.files ELSE claims]

LEMMA FinishInv ==
  ASSUME AdapterInv, NEW r \in Runs, NEW edits \in Edits, NEW status \in {"done", "blocked"},
         NEW enforced \in BOOLEAN, NEW claims \in Claims(r, edits),
         Finish(r, edits, claims, status, enforced)
  PROVE  AdapterInv'
<1> DEFINE new == ReportOf(r, edits, claims, status, enforced)
<1>1. AdapterRows
  BY AdapterParts DEF AdapterInv
<1>2. /\ disk' = Outcome(r, edits, enforced).disk
      /\ report' = [report EXCEPT ![r] = new]
      /\ phase' = [phase EXCEPT ![r] = "ended"]
      /\ base' = [base EXCEPT ![r] = [p \in Paths |-> "none"]]
      /\ UNCHANGED <<repo, protected>>
  BY DEF Finish, ReportOf
<1>3. claims \subseteq Paths
  BY WorkspaceConstants DEF Claims
<1>4. new \in Report
  BY <1>1, <1>3, OutcomeTyped DEF ReportOf, Report
<1>5. disk' \in [Paths -> Content]
  BY <1>1, <1>2, OutcomeTyped
<1> HIDE DEF new
<1> QED
  BY <1>2, <1>4, <1>5, EndInv

LEMMA AdapterStutter == AdapterInv /\ UNCHANGED adapterVars => AdapterInv'
BY DEF adapterVars, AdapterInv, AdapterTypeOK, Unreported, Scope

LEMMA AdapterNextInv == AdapterInv /\ [AdapterNext]_adapterVars => AdapterInv'
<1> SUFFICES ASSUME AdapterInv, [AdapterNext]_adapterVars PROVE AdapterInv'
  OBVIOUS
<1>1. CASE WriteBoard
  BY <1>1, BoardInv
<1>2. ASSUME NEW r \in Runs, Start(r) PROVE AdapterInv'
  BY <1>2, StartInv
<1>3. ASSUME NEW r \in Runs, Leave(r) PROVE AdapterInv'
  BY <1>3, LeaveInv
<1>4. ASSUME NEW r \in Runs, NEW p \in Paths, NEW text \in {"none", "draft", "stub"},
             Scribble(r, p, text)
      PROVE  AdapterInv'
  BY <1>4, ScribbleInv
<1>5. ASSUME NEW r \in Runs, NEW edits \in Edits, NEW status \in {"done", "blocked"},
             NEW enforced \in BOOLEAN, NEW claims \in Claims(r, edits),
             Finish(r, edits, claims, status, enforced)
      PROVE  AdapterInv'
  BY <1>5, FinishInv
<1>6. CASE UNCHANGED adapterVars
  BY <1>6, AdapterStutter
<1> QED
  BY <1>1, <1>2, <1>3, <1>4, <1>5, <1>6 DEF AdapterNext

LEMMA AdapterInvariant == AdapterSpec => []AdapterInv
BY AdapterInitInv, AdapterNextInv, PTL DEF AdapterSpec

\* Of all steps only the end of a run reports on it.
LEMMA OnlyFinishReports ==
  ASSUME AdapterInv, AdapterNext, NEW r \in Runs, Reports(r)
  PROVE  \E edits \in Edits, status \in {"done", "blocked"}, enforced \in BOOLEAN :
           \E claims \in Claims(r, edits) : Finish(r, edits, claims, status, enforced)
<1>1. /\ phase[r] = "running" /\ report[r].status = "none" /\ report'[r].status # "none"
      /\ report \in [Runs -> Report]
  BY DEF AdapterInv, AdapterTypeOK, Unreported, Reports, Report
<1>2. report'[r] # report[r]
  BY <1>1
<1>3. ~ WriteBoard
  BY <1>2 DEF WriteBoard
<1>4. ASSUME NEW s \in Runs, Start(s) PROVE FALSE
  BY <1>1, <1>2, <1>4 DEF Start
<1>5. ASSUME NEW s \in Runs, Leave(s) PROVE FALSE
  BY <1>2, <1>5 DEF Leave
<1>6. ASSUME NEW s \in Runs, NEW p, NEW text, Scribble(s, p, text) PROVE FALSE
  BY <1>2, <1>6 DEF Scribble
<1>7. ASSUME NEW s \in Runs, NEW edits \in Edits, NEW status, NEW enforced, NEW claims,
             Finish(s, edits, claims, status, enforced), s # r
      PROVE  FALSE
  <2>1. PICK new : report' = [report EXCEPT ![s] = new]
    BY <1>7 DEF Finish
  <2> QED
    BY <1>1, <1>2, <1>7, <2>1
<1>8. PICK s \in Runs, edits \in Edits, status \in {"done", "blocked"}, enforced \in BOOLEAN :
        \E claims \in Claims(s, edits) : Finish(s, edits, claims, status, enforced)
  BY <1>3, <1>4, <1>5, <1>6 DEF AdapterNext
<1>9. s = r
  BY <1>7, <1>8
<1> QED
  BY <1>8, <1>9

LEMMA FinishedIs ==
  ASSUME AdapterInv, NEW r \in Runs, NEW edits, NEW claims, NEW status, NEW enforced,
         Finish(r, edits, claims, status, enforced)
  PROVE  /\ disk' = Outcome(r, edits, enforced).disk
         /\ report'[r] = ReportOf(r, edits, claims, status, enforced)
         /\ protected[r] \subseteq Paths
<1>1. report \in [Runs -> Report] /\ protected \in [Runs -> SUBSET Tests]
  BY DEF AdapterInv, AdapterTypeOK, Report
<1> DEFINE new == ReportOf(r, edits, claims, status, enforced)
<1>2. disk' = Outcome(r, edits, enforced).disk /\ report' = [report EXCEPT ![r] = new]
  BY DEF Finish, ReportOf
<1> HIDE DEF new
<1>3. report'[r] = new
  BY <1>1, <1>2
<1> QED
  BY <1>1, <1>2, <1>3, WorkspaceConstants DEF new

\* The workspace of the external adapter keeps its types, and a run's baseline holds
\* its scope only (scoped_workspace_baseline in external_adapter_runner.py).
THEOREM AdapterTypes == AdapterSpec => []AdapterTypeOK
<1>1. AdapterInv => AdapterTypeOK
  BY DEF AdapterInv
<1> QED
  BY <1>1, AdapterInvariant, PTL

\* In a repository nothing a worker's run changed outside its scope survives its
\* report (_restore_scoped_workspace_baseline, _apply_adapter_edits).
THEOREM ReportsDiscardStrayEdits == AdapterSpec => OutOfScopeIsDiscarded
<1>1. ASSUME AdapterInv, AdapterNext, NEW r \in Runs, Reports(r), repo, Allowed[r] # {},
             NEW p \in Paths \ Scope(r)
      PROVE  disk'[p] = AtHead[p]
  <2>1. PICK edits \in Edits, status \in {"done", "blocked"}, enforced \in BOOLEAN :
          \E claims \in Claims(r, edits) : Finish(r, edits, claims, status, enforced)
    BY <1>1, OnlyFinishReports
  <2>2. disk' = Outcome(r, edits, enforced).disk
    BY <1>1, <2>1, FinishedIs
  <2>3. ~ Admits(r, p) /\ Scope(r) # {}
    BY <1>1 DEF Admits, Scope
  <2>4. disk'[p] = Restored(r, disk)[p]
    BY <2>2, <2>3, NotAdmitted
  <2> QED
    BY <1>1, <2>3, <2>4, RestoredIs
<1>2. AdapterInv /\ [AdapterNext]_adapterVars
        => [\A r \in Runs : Reports(r) /\ repo /\ Allowed[r] # {} =>
              \A p \in Paths \ Scope(r) : disk'[p] = AtHead[p]]_adapterVars
  BY <1>1
<1> QED
  BY <1>2, AdapterInvariant, PTL DEF AdapterSpec, OutOfScopeIsDiscarded

\* A worker's run gives the tests that were dirty when it began back as they were
\* (protected_test_paths in external_adapter_runner.py).
THEOREM ReportsKeepProtectedTests == AdapterSpec => ProtectedAreKept
<1>1. ASSUME AdapterInv, AdapterNext, NEW r \in Runs, Reports(r), Allowed[r] # {},
             NEW p \in protected[r]
      PROVE  disk'[p] = base[r][p]
  <2>1. PICK edits \in Edits, status \in {"done", "blocked"}, enforced \in BOOLEAN :
          \E claims \in Claims(r, edits) : Finish(r, edits, claims, status, enforced)
    BY <1>1, OnlyFinishReports
  <2>2. disk' = Outcome(r, edits, enforced).disk /\ p \in Paths
    BY <1>1, <2>1, FinishedIs
  <2>3. ~ Admits(r, p) /\ p \in Scope(r)
    BY <1>1 DEF Admits, Scope
  <2>4. disk'[p] = Restored(r, disk)[p]
    BY <2>2, <2>3, NotAdmitted
  <2> QED
    BY <2>2, <2>3, <2>4, RestoredIs
<1>2. AdapterInv /\ [AdapterNext]_adapterVars
        => [\A r \in Runs : Reports(r) /\ Allowed[r] # {} =>
              \A p \in protected[r] : disk'[p] = base[r][p]]_adapterVars
  BY <1>1
<1> QED
  BY <1>2, AdapterInvariant, PTL DEF AdapterSpec, ProtectedAreKept

\* A report that stays done names exactly the files of the run's scope that differ
\* from what they held when it began, on every way the edits took (_consume_process).
THEOREM DoneReportsAreFaithful == AdapterSpec => DoneIsFaithful
<1>1. ASSUME AdapterInv, AdapterNext, NEW r \in Runs, Reports(r), report'[r].status = "done",
             Changed(r) # {}
      PROVE  /\ report'[r].files \subseteq Scope(r)
             /\ \A p \in Scope(r) : (disk'[p] # base[r][p]) <=> (p \in report'[r].files)
  <2>1. PICK edits \in Edits, status \in {"done", "blocked"}, enforced \in BOOLEAN :
          \E claims \in Claims(r, edits) : Finish(r, edits, claims, status, enforced)
    BY <1>1, OnlyFinishReports
  <2>2. PICK claims \in Claims(r, edits) : Finish(r, edits, claims, status, enforced)
    BY <2>1
  <2> DEFINE o == Outcome(r, edits, enforced)
  <2>3. /\ disk' = o.disk /\ protected[r] \subseteq Paths
        /\ report'[r] = ReportOf(r, edits, claims, status, enforced)
    BY <1>1, <2>2, FinishedIs
  <2>4. ~ o.issue
    BY <1>1, <2>3 DEF ReportOf
  <2>5. /\ o.files # {} /\ o.files \subseteq Scope(r)
        /\ \A p \in Scope(r) : o.disk[p] # base[r][p] <=> p \in o.files
    BY <1>1, <2>3, <2>4, FaithfulOutcome
  <2>6. report'[r].files = o.files
    BY <2>3, <2>5 DEF ReportOf
  <2> QED
    BY <2>3, <2>5, <2>6
<1>2. AdapterInv /\ [AdapterNext]_adapterVars
        => [\A r \in Runs : Reports(r) /\ report'[r].status = "done" /\ Changed(r) # {} =>
              /\ report'[r].files \subseteq Scope(r)
              /\ \A p \in Scope(r) :
                   (disk'[p] # base[r][p]) <=> (p \in report'[r].files)]_adapterVars
  BY <1>1
<1> QED
  BY <1>2, AdapterInvariant, PTL DEF AdapterSpec, DoneIsFaithful

=============================================================================
