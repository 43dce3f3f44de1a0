------------------------- MODULE AssociationProofs -------------------------
(***************************************************************************)
(* Proofs about the sessions that rows name, for any number of rows,       *)
(* submissions and models, any backends, and readers and steers at any     *)
(* time: a row names a session of its own, and a run that ended the one of *)
(* its last attempt.  And about the log of a session: the pages a caller   *)
(* reads of it add up, and so do the tokens of a row.                      *)
(*                                                                         *)
(* The argument: the nonces of any two attempts differ, since a job's      *)
(* nonce is of its row, a restart's extends the one of a row that ended,   *)
(* and a retry's ends in the attempt's number.  So a log that carries an   *)
(* attempt's nonce is the log of its session (MarkedIsOwn).  The rest of   *)
(* the invariant says that the consumer, which handles events after the    *)
(* chain went on, still counts the attempt that reports.                   *)
(*                                                                         *)
(* A log only grows, but for its last line where that makes nothing, and a *)
(* timeline grows with it, line by line (CurateGrows); of a row's start on *)
(* no line is of a turn before it.  The totals a log shows are those of    *)
(* the requests before, so that what moved them is one request's.          *)
(***************************************************************************)
EXTENDS Association, Timeline, ListProofs

-----------------------------------------------------------------------------
(* What the variables hold.                                                 *)
Nonces == Seq(Words) \cup {Nobody}
Sessions == Nat \X Nat
Maybe(S) == S \cup {Nobody}
Reports == [kind : {"started", "finished"}] \cup [kind : {"session"}, session : Sessions]

JobSet ==
  [kind : {"execute", "consult"}, backend : {"codex", "claude", "opencode", "agy"}, nonce : Nonces,
   resumed : Maybe(Sessions), parent : Maybe(Nat), restart : BOOLEAN]
RowSet == [active : BOOLEAN, nonce : Nonces, session : Maybe(Sessions)]
Attempts == [nonce : Nonces, pin : Maybe(Sessions), snapshot : SUBSET Sessions]
ChainSet ==
  [step : {"build", "running", "unspawned", "over"}, built : Seq(Attempts),
   wrote : BOOLEAN, token : BOOLEAN, verdict : BOOLEAN]
WatchSet ==
  [finished : Nat, on : {FALSE}]
    \cup [finished : Nat, on : {TRUE}, nonce : Nonces, snapshot : SUBSET Sessions]
LogSet == [session : Sessions, marker : Nonces]

RowsType ==
  /\ jobs \in Seq(JobSet) /\ rows \in Seq(RowSet) /\ chains \in Seq(ChainSet)
  /\ queues \in Seq(Seq(Reports)) /\ watches \in Seq(WatchSet)
  /\ Len(rows) = Len(jobs) /\ Len(chains) = Len(jobs) /\ Len(queues) = Len(jobs)
  /\ Len(watches) = Len(jobs)

\* A session that an attempt of a row opened.
Opened(s) == \E q \in Rows : \E i \in 1 .. Tries(q) : s = Fresh(q, i)

(* What a job is: its nonce is of its row, or a restart's extends the one   *)
(* of the row it replaces, which ended; and what it resumes is its parent's. *)
OwnNonce(r) ==
  \/ jobs[r].nonce = Nobody
  \/ jobs[r].nonce = <<r>> /\ ~jobs[r].restart
  \/ \E q \in 1 .. r - 1 : jobs[r].nonce = <<q>> \o <<"restart">> /\ jobs[r].restart /\ ~rows[q].active

JobRight(r) ==
  /\ OwnNonce(r)
  /\ jobs[r].kind = "consult" => jobs[r].nonce = Nobody /\ jobs[r].resumed = Nobody
  /\ jobs[r].kind = "execute" /\ jobs[r].resumed = Nobody => jobs[r].nonce # Nobody
  /\ jobs[r].resumed # Nobody => jobs[r].nonce = Nobody /\ Opened(jobs[r].resumed)
  /\ jobs[r].parent # Nobody => jobs[r].parent \in Rows /\ jobs[r].resumed \in OwnSessions(jobs[r].parent)

NoncesApart ==
  \A r, q \in Rows : jobs[r].nonce = jobs[q].nonce /\ jobs[r].nonce # Nobody => r = q

\* What was built, and what the row says of it.
Latest(r) == IF Tries(r) = 0 THEN 1 ELSE Tries(r)

AttemptsRight(r) ==
  /\ \A k \in 1 .. Tries(r) : /\ chains[r].built[k].nonce = AttemptNonce(r, k)
                              /\ chains[r].built[k].pin \in {Nobody, Fresh(r, k)}
  /\ chains[r].step = "build" => Tries(r) = 0
  /\ chains[r].step \in {"running", "unspawned"} => Tries(r) # 0
  /\ chains[r].verdict => jobs[r].kind = "execute" /\ ~jobs[r].restart /\ jobs[r].resumed = Nobody
  /\ rows[r].nonce = AttemptNonce(r, Latest(r))
  /\ jobs[r].kind = "execute" => rows[r].session \in Maybe(OwnSessions(r))
  /\ jobs[r].kind = "execute" /\ jobs[r].backend = "claude" /\ jobs[r].resumed = Nobody
       => rows[r].session \in {Nobody, Fresh(r, Tries(r))}

(* The consumer's count and what it did not handle yet add up to the        *)
(* attempts that ended: at most one of them is still in the queue, before   *)
(* the start of the next.                                                   *)
Past(r) ==
  CASE chains[r].step = "build" -> 0
    [] chains[r].step = "over" -> Latest(r)
    [] OTHER -> Tries(r) - 1

Is(r, k, kind) == queues[r][k].kind = kind

QueueRight(r) ==
  /\ chains[r].step = "build" => queues[r] = <<>>
  /\ \A k \in DOMAIN queues[r] : /\ Is(r, k, "session") => queues[r][k].session \in OwnSessions(r)
                                 /\ Is(r, k, "session") => jobs[r].backend \in {"opencode", "agy"}
                                 /\ Is(r, k, "started") => chains[r].step = "running"
  /\ \A k, l \in DOMAIN queues[r] : /\ Is(r, k, "finished") /\ Is(r, l, "finished") => k = l
                                    /\ Is(r, k, "finished") /\ Is(r, l, "started") => k < l
  /\ watches[r].finished + (IF \E k \in DOMAIN queues[r] : Is(r, k, "finished") THEN 1 ELSE 0) = Past(r)
  /\ watches[r].on => /\ jobs[r].backend = "codex"
                      /\ \E k \in 1 .. Tries(r) : watches[r].nonce = AttemptNonce(r, k)

\* The marker of a log is the one its attempt was given.
LogRight(l) ==
  \E q \in Rows : \E i \in 1 .. Tries(q) :
    l.session = Fresh(q, i) /\ l.marker \in {Nobody, Question, AttemptNonce(q, i)}

DiskRight == disk \in Seq(LogSet) /\ \A k \in DOMAIN disk : LogRight(disk[k])

\* What a reader holds was the row's; the session it resolved is one of the row's.
ReaderRight ==
  reader.pc # "idle" =>
    /\ reader.of \in Rows /\ jobs[reader.of].kind = "execute"
    /\ reader.row \in RowSet
    /\ \E k \in 1 .. Latest(reader.of) : reader.row.nonce = AttemptNonce(reader.of, k)
    /\ reader.row.session \in Maybe(OwnSessions(reader.of))
    /\ reader.pc # "read" => reader.session \in OwnSessions(reader.of)

AssociationInv ==
  /\ RowsType
  /\ \A r \in Rows : JobRight(r) /\ AttemptsRight(r) /\ QueueRight(r)
  /\ NoncesApart
  /\ DiskRight
  /\ ReaderRight

-----------------------------------------------------------------------------
(* Nonces of different attempts differ.                                     *)
LEMMA NobodyIsNone == Nobody \notin Nat /\ Nobody \notin Sessions /\ Nobody \notin Seq(Words)
  BY NobodyAssumption DEF Sessions, Words

LEMMA ShortNonces ==
    ASSUME NEW q \in Nat
    PROVE  /\ <<q>> \in Seq(Words) /\ Len(<<q>>) = 1 /\ <<q>>[1] = q
           /\ <<q>> \o <<"restart">> \in Seq(Words) /\ Len(<<q>> \o <<"restart">>) = 2
           /\ (<<q>> \o <<"restart">>)[1] = q
  <1>1. q \in Words /\ "restart" \in Words
    BY DEF Words
  <1>2. <<q>> \in Seq(Words) /\ Len(<<q>>) = 1 /\ <<q>>[1] = q
    BY <1>1
  <1>3. <<"restart">> \in Seq(Words) /\ Len(<<"restart">>) = 1
    BY <1>1
  <1>4. /\ <<q>> \o <<"restart">> \in Seq(Words)
        /\ Len(<<q>> \o <<"restart">>) = 2
        /\ (<<q>> \o <<"restart">>)[1] = <<q>>[1]
    BY <1>2, <1>3, ConcatProperties
  <1> QED
    BY <1>2, <1>4

LEMMA RetryNonces ==
    ASSUME NEW n \in Seq(Words), NEW i \in Nat
    PROVE  /\ n \o <<"retry", i>> \in Seq(Words) /\ Len(n \o <<"retry", i>>) = Len(n) + 2
           /\ \A k \in 1 .. Len(n) : (n \o <<"retry", i>>)[k] = n[k]
           /\ (n \o <<"retry", i>>)[Len(n) + 2] = i
  <1>1. i \in Words /\ "retry" \in Words
    BY DEF Words
  <1>2. <<"retry", i>> \in Seq(Words) /\ Len(<<"retry", i>>) = 2 /\ <<"retry", i>>[2] = i
    BY <1>1
  <1>3. Len(n) \in Nat
    BY LenProperties
  <1> QED
    BY <1>2, <1>3, ConcatProperties

\* A job's nonce is one or two words long, and starts with the number of a row.
LEMMA JobNonces ==
    ASSUME NEW r \in Rows, OwnNonce(r), jobs[r].nonce # Nobody
    PROVE  /\ jobs[r].nonce \in Seq(Words)
           /\ Len(jobs[r].nonce) \in {1, 2}
           /\ jobs[r].nonce[1] \in Nat \ {0}
  <1>1. r \in Nat \ {0}
    BY DEF Rows
  <1>2. CASE jobs[r].nonce = <<r>>
    BY <1>1, <1>2, ShortNonces
  <1>3. ASSUME NEW q \in 1 .. r - 1, jobs[r].nonce = <<q>> \o <<"restart">>
        PROVE  /\ jobs[r].nonce \in Seq(Words)
               /\ Len(jobs[r].nonce) \in {1, 2}
               /\ jobs[r].nonce[1] \in Nat \ {0}
    BY <1>1, <1>3, ShortNonces
  <1> QED
    BY <1>2, <1>3 DEF OwnNonce

LEMMA AttemptNonces ==
    ASSUME NEW r \in Rows, OwnNonce(r), NEW i \in Nat \ {0}
    PROVE  /\ jobs[r].nonce = Nobody => AttemptNonce(r, i) = Nobody
           /\ jobs[r].nonce # Nobody =>
                /\ AttemptNonce(r, i) \in Seq(Words) /\ AttemptNonce(r, i) # Nobody
                /\ AttemptNonce(r, i)[1] = jobs[r].nonce[1]
                /\ i = 1 => Len(AttemptNonce(r, i)) = Len(jobs[r].nonce)
                /\ i # 1 => /\ Len(AttemptNonce(r, i)) = Len(jobs[r].nonce) + 2
                            /\ AttemptNonce(r, i)[Len(jobs[r].nonce) + 2] = i
                /\ \A k \in 1 .. Len(jobs[r].nonce) : AttemptNonce(r, i)[k] = jobs[r].nonce[k]
  <1>1. CASE jobs[r].nonce = Nobody
    BY <1>1 DEF AttemptNonce
  <1>2. CASE jobs[r].nonce # Nobody
    <2>1. /\ jobs[r].nonce \in Seq(Words) /\ Len(jobs[r].nonce) \in {1, 2}
          /\ 1 \in 1 .. Len(jobs[r].nonce)
      BY <1>2, JobNonces
    <2>2. CASE i = 1
      BY <1>2, <2>1, <2>2 DEF AttemptNonce
    <2>3. CASE i # 1
      <3>1. AttemptNonce(r, i) = jobs[r].nonce \o <<"retry", i>>
        BY <1>2, <2>3 DEF AttemptNonce
      <3>2. /\ AttemptNonce(r, i) \in Seq(Words)
            /\ Len(AttemptNonce(r, i)) = Len(jobs[r].nonce) + 2
            /\ \A k \in 1 .. Len(jobs[r].nonce) : AttemptNonce(r, i)[k] = jobs[r].nonce[k]
            /\ AttemptNonce(r, i)[Len(jobs[r].nonce) + 2] = i
        BY <2>1, <3>1, RetryNonces
      <3> QED
        BY <1>2, <2>1, <2>3, <3>2, NobodyIsNone
    <2> QED
      BY <2>2, <2>3
  <1> QED
    BY <1>1, <1>2

LEMMA NoncesDiffer ==
    ASSUME NoncesApart, NEW r \in Rows, NEW q \in Rows, OwnNonce(r), OwnNonce(q),
           NEW i \in Nat \ {0}, NEW j \in Nat \ {0},
           AttemptNonce(r, i) = AttemptNonce(q, j), AttemptNonce(r, i) # Nobody
    PROVE  r = q /\ i = j
  <1>1. jobs[r].nonce # Nobody /\ jobs[q].nonce # Nobody
    BY AttemptNonces
  <1>2. PICK m, n, x, y : m = jobs[r].nonce /\ n = jobs[q].nonce /\ x = AttemptNonce(r, i) /\ y = AttemptNonce(q, j)
    OBVIOUS
  <1>3. /\ m \in Seq(Words) /\ n \in Seq(Words) /\ Len(m) \in {1, 2} /\ Len(n) \in {1, 2}
    BY <1>1, <1>2, JobNonces
  <1>4. /\ i = 1 => Len(x) = Len(m)
        /\ i # 1 => Len(x) = Len(m) + 2 /\ x[Len(m) + 2] = i
        /\ \A k \in 1 .. Len(m) : x[k] = m[k]
    BY <1>1, <1>2, AttemptNonces
  <1>5. /\ j = 1 => Len(y) = Len(n)
        /\ j # 1 => Len(y) = Len(n) + 2 /\ y[Len(n) + 2] = j
        /\ \A k \in 1 .. Len(n) : y[k] = n[k]
    BY <1>1, <1>2, AttemptNonces
  <1>6. x = y
    BY <1>2
  <1>7. Len(m) = Len(n) /\ (i = 1 <=> j = 1)
    <2>1. Len(x) = Len(y)
      BY <1>6
    <2>2. CASE i = 1 /\ j = 1
      BY <1>4, <1>5, <2>1, <2>2
    <2>3. /\ Len(m) \in Nat /\ 1 <= Len(m) /\ Len(m) <= 2
          /\ Len(n) \in Nat /\ 1 <= Len(n) /\ Len(n) <= 2
      <3>1. \A k \in {1, 2} : k \in Nat /\ 1 <= k /\ k <= 2
        OBVIOUS
      <3> QED
        BY ONLY <1>3, <3>1
    <2>4. CASE i = 1 /\ j # 1
      <3>1. Len(m) = Len(n) + 2
        BY <1>4, <1>5, <2>1, <2>4
      <3> QED
        BY ONLY <2>3, <3>1
    <2>5. CASE i # 1 /\ j = 1
      <3>1. Len(m) + 2 = Len(n)
        BY <1>4, <1>5, <2>1, <2>5
      <3> QED
        BY ONLY <2>3, <3>1
    <2>6. CASE i # 1 /\ j # 1
      <3>1. Len(m) \in Nat /\ Len(n) \in Nat /\ Len(m) + 2 = Len(n) + 2
        BY <1>3, <1>4, <1>5, <2>1, <2>6
      <3> QED
        BY <2>6, <3>1
    <2> QED
      BY <2>2, <2>4, <2>5, <2>6
  <1>8. i = j
    BY <1>4, <1>5, <1>6, <1>7
  <1>9. m = n
    <2>1. \A k \in 1 .. Len(m) : m[k] = n[k]
      BY <1>4, <1>5, <1>6, <1>7
    <2> QED
      BY <1>3, <1>7, <2>1, SeqEqual
  <1> QED
    BY <1>1, <1>2, <1>8, <1>9 DEF NoncesApart

\* No attempt is marked as the question of a consultation.
LEMMA NotTheQuestion ==
    ASSUME NEW r \in Rows, OwnNonce(r), NEW i \in Nat \ {0}
    PROVE  AttemptNonce(r, i) # Question
  <1>1. CASE jobs[r].nonce = Nobody
    <2>1. Question \in Seq(Words)
      BY ShortNonces DEF Question
    <2> QED
      BY <1>1, <2>1, AttemptNonces, NobodyIsNone
  <1>2. CASE jobs[r].nonce # Nobody
    <2>1. AttemptNonce(r, i)[1] \in Nat \ {0}
      BY <1>2, AttemptNonces, JobNonces
    <2>2. Question[1] = 0
      BY DEF Question
    <2> QED
      BY <2>1, <2>2
  <1> QED
    BY <1>1, <1>2

-----------------------------------------------------------------------------
(* Steps add rows and attempts and take none away.                          *)
LEMMA RowFacts ==
    ASSUME RowsType
    PROVE  /\ Len(jobs) \in Nat
           /\ DOMAIN jobs = Rows /\ DOMAIN rows = Rows /\ DOMAIN chains = Rows
           /\ DOMAIN queues = Rows /\ DOMAIN watches = Rows
           /\ \A r \in Rows : /\ jobs[r] \in JobSet /\ rows[r] \in RowSet /\ chains[r] \in ChainSet
                              /\ queues[r] \in Seq(Reports) /\ watches[r] \in WatchSet
                              /\ chains[r].built \in Seq(Attempts) /\ Tries(r) \in Nat
                              /\ DOMAIN queues[r] = 1 .. Len(queues[r]) /\ Len(queues[r]) \in Nat
                              /\ DOMAIN chains[r].built = 1 .. Tries(r)
  <1>1. /\ Len(jobs) \in Nat
        /\ DOMAIN jobs = Rows /\ DOMAIN rows = Rows /\ DOMAIN chains = Rows
        /\ DOMAIN queues = Rows /\ DOMAIN watches = Rows
    BY LenProperties DEF RowsType, Rows
  <1>2. ASSUME NEW r \in Rows
        PROVE  /\ jobs[r] \in JobSet /\ rows[r] \in RowSet /\ chains[r] \in ChainSet
               /\ queues[r] \in Seq(Reports) /\ watches[r] \in WatchSet
    BY ElementOfSeq DEF RowsType, Rows
  <1>3. ASSUME NEW r \in Rows
        PROVE  /\ chains[r].built \in Seq(Attempts) /\ Tries(r) \in Nat
               /\ DOMAIN queues[r] = 1 .. Len(queues[r]) /\ Len(queues[r]) \in Nat
               /\ DOMAIN chains[r].built = 1 .. Tries(r)
    <2>1. chains[r].built \in Seq(Attempts)
      BY <1>2 DEF ChainSet
    <2> QED
      BY <1>2, <2>1, LenProperties DEF Tries
  <1> QED
    BY <1>1, <1>2, <1>3

LEMMA TriesAreNumbers == RowsType => \A r \in Rows : Tries(r) \in Nat
  BY RowFacts

LEMMA TriesStayNumbers == RowsType' => \A r \in Rows' : Tries(r)' \in Nat
  <1>1. (RowsType => \A r \in Rows : Tries(r) \in Nat)'
    BY TriesAreNumbers, PTL
  <1> QED
    BY <1>1

Grows == \A r \in Rows : r \in Rows' /\ jobs'[r] = jobs[r] /\ Tries(r) <= Tries(r)'

LEMMA Growth ==
    ASSUME RowsType, RowsType', Grows
    PROVE  /\ \A r \in Rows : OwnSessions(r) \subseteq OwnSessions(r)'
           /\ \A r \in Rows : \A i : AttemptNonce(r, i)' = AttemptNonce(r, i)
           /\ \A r \in Rows : Latest(r) <= Latest(r)' /\ Latest(r) \in Nat /\ Latest(r)' \in Nat
           /\ \A s : Opened(s) => Opened(s)'
           /\ \A l : LogRight(l) => LogRight(l)'
  <1>1. \A r \in Rows : Tries(r) \in Nat /\ Tries(r)' \in Nat /\ Tries(r) <= Tries(r)'
    <2>1. \A r \in Rows' : Tries(r)' \in Nat
      BY TriesStayNumbers
    <2> QED
      BY <2>1, RowFacts DEF Grows
  <1>2. \A r \in Rows : 1 .. Tries(r) \subseteq 1 .. Tries(r)'
    BY <1>1
  <1>3. \A r \in Rows : OwnSessions(r) \subseteq OwnSessions(r)'
    BY <1>2 DEF Grows, OwnSessions, Fresh
  <1>4. \A r \in Rows : \A i : AttemptNonce(r, i)' = AttemptNonce(r, i)
    BY DEF Grows, AttemptNonce
  <1>5. \A r \in Rows : Latest(r) <= Latest(r)' /\ Latest(r) \in Nat /\ Latest(r)' \in Nat
    BY <1>1 DEF Latest
  <1>6. \A s : Opened(s) => Opened(s)'
    BY <1>2 DEF Grows, Opened, Fresh
  <1>7. ASSUME NEW l, LogRight(l) PROVE LogRight(l)'
    <2>1. PICK q \in Rows : \E i \in 1 .. Tries(q) :
            l.session = Fresh(q, i) /\ l.marker \in {Nobody, Question, AttemptNonce(q, i)}
      BY <1>7 DEF LogRight
    <2>2. PICK i \in 1 .. Tries(q) :
            l.session = Fresh(q, i) /\ l.marker \in {Nobody, Question, AttemptNonce(q, i)}
      BY <2>1
    <2>3. q \in Rows' /\ i \in 1 .. Tries(q)' /\ AttemptNonce(q, i)' = AttemptNonce(q, i)
      BY <1>2, <1>4 DEF Grows
    <2>4. l.session = Fresh(q, i)' /\ l.marker \in {Nobody, Question', AttemptNonce(q, i)'}
      BY <2>2, <2>3 DEF Fresh, Question
    <2> QED
      BY <2>3, <2>4 DEF LogRight
  <1> QED
    BY <1>3, <1>4, <1>5, <1>6, <1>7

LEMMA JobsStay ==
    ASSUME RowsType, RowsType', Grows, NEW r \in Rows, JobRight(r),
           \A q \in Rows : rows'[q].active => rows[q].active
    PROVE  JobRight(r)'
  <1>1. jobs'[r] = jobs[r] /\ \A q \in Rows : q \in Rows'
    BY DEF Grows
  <1>2. OwnNonce(r)'
    <2>1. \A q \in 1 .. r - 1 : q \in Rows
      BY RowFacts DEF Rows
    <2> QED
      BY <1>1, <2>1 DEF JobRight, OwnNonce
  <1>3. jobs'[r].resumed # Nobody => jobs'[r].nonce = Nobody /\ Opened(jobs[r].resumed)'
    BY <1>1, Growth DEF JobRight
  <1>4. jobs'[r].parent # Nobody => jobs'[r].parent \in Rows' /\ jobs'[r].resumed \in OwnSessions(jobs[r].parent)'
    BY <1>1, Growth DEF JobRight
  <1> QED
    BY <1>1, <1>2, <1>3, <1>4 DEF JobRight

LEMMA ReaderStays ==
    ASSUME RowsType, RowsType', Grows, ReaderRight, reader' = reader
    PROVE  ReaderRight'
  <1>1. ASSUME reader.pc # "idle" PROVE reader.of \in Rows
    BY <1>1 DEF ReaderRight
  <1>2. ASSUME reader.pc # "idle"
        PROVE  \E k \in 1 .. Latest(reader.of)' : reader.row.nonce = AttemptNonce(reader.of, k)'
    <2>1. PICK k \in 1 .. Latest(reader.of) : reader.row.nonce = AttemptNonce(reader.of, k)
      BY <1>2 DEF ReaderRight
    <2>2. Latest(reader.of) <= Latest(reader.of)' /\ Latest(reader.of) \in Nat /\ Latest(reader.of)' \in Nat
      BY <1>1, <1>2, Growth
    <2>3. k \in 1 .. Latest(reader.of)'
      BY <2>2
    <2> QED
      BY <1>1, <1>2, <2>1, <2>3, Growth
  <1>3. ASSUME reader.pc # "idle"
        PROVE  /\ reader.of \in Rows' /\ jobs'[reader.of].kind = "execute"
               /\ reader.row \in RowSet
               /\ reader.row.session \in Maybe(OwnSessions(reader.of)')
               /\ reader.pc # "read" => reader.session \in OwnSessions(reader.of)'
    BY <1>1, <1>3, Growth DEF ReaderRight, Grows, Maybe
  <1> QED
    BY <1>2, <1>3 DEF ReaderRight, Maybe

(* A step of row r alone: the rest of the invariant follows from growth.    *)
Elsewhere(r) ==
  \A q \in Rows \ {r} : /\ rows'[q] = rows[q] /\ chains'[q] = chains[q]
                        /\ queues'[q] = queues[q] /\ watches'[q] = watches[q]

RowRight(r) == JobRight(r) /\ AttemptsRight(r) /\ QueueRight(r)

\* A row whose state a step leaves alone stays right.
LEMMA RowStays ==
    ASSUME NEW q \in Rows, q \in Rows', AttemptsRight(q), QueueRight(q),
           jobs'[q] = jobs[q], rows'[q] = rows[q], chains'[q] = chains[q],
           queues'[q] = queues[q], watches'[q] = watches[q]
    PROVE  AttemptsRight(q)' /\ QueueRight(q)'
  <1>1. Tries(q)' = Tries(q) /\ Latest(q)' = Latest(q) /\ Past(q)' = Past(q)
    BY DEF Tries, Latest, Past
  <1>2. \A k : AttemptNonce(q, k)' = AttemptNonce(q, k) /\ Fresh(q, k)' = Fresh(q, k)
    BY DEF AttemptNonce, Fresh
  <1>3. OwnSessions(q)' = OwnSessions(q)
    BY <1>1 DEF OwnSessions, Fresh
  <1>4. AttemptsRight(q)'
    BY <1>1, <1>2, <1>3 DEF AttemptsRight, Maybe
  <1>5. \A k, kind : Is(q, k, kind)' <=> Is(q, k, kind)
    BY DEF Is
  <1>6. QueueRight(q)'
    BY <1>1, <1>2, <1>3, <1>5 DEF QueueRight
  <1> QED
    BY <1>4, <1>6

LEMMA OneRow ==
    ASSUME AssociationInv, RowsType', NEW r \in Rows, jobs' = jobs, Elsewhere(r),
           Tries(r) <= Tries(r)', rows'[r].active => rows[r].active,
           AttemptsRight(r)', QueueRight(r)'
    PROVE  /\ Grows /\ Rows' = Rows
           /\ \A q \in Rows' : RowRight(q)'
           /\ NoncesApart'
           /\ DiskRight /\ disk' = disk => DiskRight'
           /\ reader' = reader => ReaderRight'
  <1>1. Rows' = Rows
    BY DEF Rows
  <1>2. Grows
    <2>1. \A q \in Rows \ {r} : Tries(q)' = Tries(q)
      BY DEF Elsewhere, Tries
    <2>2. \A q \in Rows : Tries(q) \in Nat
      BY RowFacts DEF AssociationInv
    <2> QED
      BY <1>1, <2>1, <2>2 DEF Grows
  <1>3. \A q \in Rows : rows'[q].active => rows[q].active
    BY DEF Elsewhere
  <1>4. \A q \in Rows : JobRight(q)'
    BY <1>2, <1>3, JobsStay DEF AssociationInv
  <1>5. \A q \in Rows \ {r} : AttemptsRight(q)' /\ QueueRight(q)'
    BY <1>1, RowStays DEF AssociationInv, Elsewhere
  <1>6. NoncesApart'
    BY <1>1 DEF AssociationInv, NoncesApart
  <1>7. DiskRight /\ disk' = disk => DiskRight'
    <2>1. \A l : LogRight(l) => LogRight(l)'
      BY <1>2, Growth DEF AssociationInv
    <2> QED
      BY <2>1 DEF DiskRight
  <1>8. reader' = reader => ReaderRight'
    BY <1>2, ReaderStays DEF AssociationInv
  <1> QED
    BY <1>1, <1>2, <1>4, <1>5, <1>6, <1>7, <1>8 DEF RowRight

(* The heart of it: a log that carries the nonce of an attempt is the log   *)
(* of that attempt's session.                                               *)
LEMMA MarkedIsOwn ==
    ASSUME AssociationInv, NEW r \in Rows, NEW k \in Nat \ {0},
           AttemptNonce(r, k) # Nobody, NEW l \in Marked(AttemptNonce(r, k))
    PROVE  l.session = Fresh(r, k) /\ k \in 1 .. Tries(r)
  <1>1. l \in Logs /\ l.marker = AttemptNonce(r, k)
    BY DEF Marked
  <1>2. LogRight(l)
    BY <1>1 DEF AssociationInv, DiskRight, Logs, ToSet
  <1>3. PICK q \in Rows : \E i \in 1 .. Tries(q) :
          l.session = Fresh(q, i) /\ l.marker \in {Nobody, Question, AttemptNonce(q, i)}
    BY <1>2 DEF LogRight
  <1>4. PICK i \in 1 .. Tries(q) :
          l.session = Fresh(q, i) /\ l.marker \in {Nobody, Question, AttemptNonce(q, i)}
    BY <1>3
  <1>5. OwnNonce(r) /\ OwnNonce(q) /\ NoncesApart
    BY DEF AssociationInv, JobRight
  <1>6. i \in Nat \ {0}
    BY RowFacts DEF AssociationInv
  <1>7. AttemptNonce(r, k) = AttemptNonce(q, i)
    BY <1>1, <1>4, <1>5, NotTheQuestion
  <1>8. r = q /\ k = i
    BY <1>5, <1>6, <1>7, NoncesDiffer
  <1> QED
    BY <1>4, <1>8

\* What is located for a row is its own.
LEMMA NewestAreOf ==
    ASSUME NEW logs \in SUBSET Logs, NEW s \in Newest(logs)
    PROVE  \E l \in logs : s = l.session
  BY DEF Newest

-----------------------------------------------------------------------------
(* The steps of one row.                                                    *)
LEMMA RowChanges ==
    ASSUME AssociationInv, NEW r \in Rows, jobs' = jobs,
           NEW ro \in RowSet, rows' = [rows EXCEPT ![r] = ro],
           NEW ch \in ChainSet, chains' = [chains EXCEPT ![r] = ch],
           NEW qu \in Seq(Reports), queues' = [queues EXCEPT ![r] = qu],
           NEW wa \in WatchSet, watches' = [watches EXCEPT ![r] = wa]
    PROVE  /\ RowsType' /\ Elsewhere(r)
           /\ rows'[r] = ro /\ chains'[r] = ch /\ queues'[r] = qu /\ watches'[r] = wa
           /\ jobs'[r] = jobs[r]
  <1>1. /\ rows \in Seq(RowSet) /\ Rows = 1 .. Len(rows)
        /\ chains \in Seq(ChainSet) /\ Rows = 1 .. Len(chains)
        /\ queues \in Seq(Seq(Reports)) /\ Rows = 1 .. Len(queues)
        /\ watches \in Seq(WatchSet) /\ Rows = 1 .. Len(watches)
    BY DEF AssociationInv, RowsType, Rows
  <1>2. rows' \in Seq(RowSet) /\ Len(rows') = Len(rows)
        /\ \A q \in Rows : rows'[q] = IF q = r THEN ro ELSE rows[q]
    BY <1>1, ExceptSeq
  <1>3. chains' \in Seq(ChainSet) /\ Len(chains') = Len(chains)
        /\ \A q \in Rows : chains'[q] = IF q = r THEN ch ELSE chains[q]
    BY <1>1, ExceptSeq
  <1>4. queues' \in Seq(Seq(Reports)) /\ Len(queues') = Len(queues)
        /\ \A q \in Rows : queues'[q] = IF q = r THEN qu ELSE queues[q]
    BY <1>1, ExceptSeq
  <1>5. watches' \in Seq(WatchSet) /\ Len(watches') = Len(watches)
        /\ \A q \in Rows : watches'[q] = IF q = r THEN wa ELSE watches[q]
    BY <1>1, ExceptSeq
  <1>6. RowsType'
    BY <1>2, <1>3, <1>4, <1>5 DEF AssociationInv, RowsType
  <1>7. Elsewhere(r)
    BY <1>2, <1>3, <1>4, <1>5 DEF Elsewhere
  <1> QED
    BY <1>2, <1>3, <1>4, <1>5, <1>6, <1>7

\* What stays as it is may be written as a change to itself.
LEMMA RowIsItself ==
    ASSUME AssociationInv, NEW r \in Rows
    PROVE  /\ rows = [rows EXCEPT ![r] = rows[r]] /\ rows[r] \in RowSet
           /\ chains = [chains EXCEPT ![r] = chains[r]] /\ chains[r] \in ChainSet
           /\ queues = [queues EXCEPT ![r] = queues[r]] /\ queues[r] \in Seq(Reports)
           /\ watches = [watches EXCEPT ![r] = watches[r]] /\ watches[r] \in WatchSet
           /\ jobs[r] \in JobSet /\ Tries(r) \in Nat /\ chains[r].built \in Seq(Attempts)
           /\ Len(queues[r]) \in Nat /\ DOMAIN queues[r] = 1 .. Len(queues[r])
           /\ RowRight(r) /\ r \in Nat
  <1>1. /\ rows \in Seq(RowSet) /\ chains \in Seq(ChainSet) /\ queues \in Seq(Seq(Reports))
        /\ watches \in Seq(WatchSet) /\ RowsType
    BY DEF AssociationInv, RowsType
  <1>2. /\ rows = [q \in DOMAIN rows |-> rows[q]] /\ chains = [q \in DOMAIN chains |-> chains[q]]
        /\ queues = [q \in DOMAIN queues |-> queues[q]] /\ watches = [q \in DOMAIN watches |-> watches[q]]
    BY <1>1, LenProperties
  <1>3. r \in Nat
    BY DEF Rows
  <1> QED
    BY <1>1, <1>2, <1>3, RowFacts DEF AssociationInv, RowRight

\* What the steps of one row keep, from what they leave of it.
LEMMA RowKeepsInv ==
    ASSUME AssociationInv, RowsType', NEW r \in Rows, jobs' = jobs, Elsewhere(r),
           Tries(r) <= Tries(r)', rows'[r].active => rows[r].active,
           AttemptsRight(r)', QueueRight(r)', disk' = disk \/ DiskRight',
           reader' = reader \/ ReaderRight'
    PROVE  AssociationInv'
  BY OneRow DEF AssociationInv, RowRight

LEMMA OwnAreSessions ==
    ASSUME AssociationInv, NEW r \in Rows
    PROVE  /\ OwnSessions(r) \subseteq Sessions /\ Nobody \notin OwnSessions(r)
           /\ \A i \in Nat : Fresh(r, i) \in Sessions /\ Fresh(r, i) # Nobody
           /\ \A i \in Nat \ {0} : AttemptNonce(r, i) \in Nonces
           /\ Logs \subseteq LogSet
  <1>1. r \in Nat /\ jobs[r] \in JobSet /\ Tries(r) \in Nat /\ OwnNonce(r)
    BY RowIsItself DEF RowRight, JobRight
  <1>2. \A i \in Nat : Fresh(r, i) \in Sessions
    BY <1>1 DEF Fresh, Sessions
  <1>3. \A i \in Nat \ {0} : AttemptNonce(r, i) \in Nonces
    BY <1>1, AttemptNonces DEF Nonces
  <1>4. OwnSessions(r) \subseteq Sessions
    BY <1>1, <1>2 DEF OwnSessions, JobSet, Maybe
  <1>5. Logs \subseteq LogSet
    BY ElementOfSeq, LenProperties DEF AssociationInv, DiskRight, Logs, ToSet
  <1> QED
    BY <1>2, <1>3, <1>4, <1>5, NobodyIsNone

\* The queue after a step that appends at most two events to it.
LEMMA Sent ==
    ASSUME NEW q \in Seq(Reports), NEW x \in Reports, NEW y \in Reports
    PROVE  /\ q \o <<>> \o <<>> = q
           /\ q \o <<>> \o <<x>> \in Seq(Reports) /\ Len(q \o <<>> \o <<x>>) = Len(q) + 1
           /\ (q \o <<>> \o <<x>>)[Len(q) + 1] = x
           /\ \A k \in 1 .. Len(q) : (q \o <<>> \o <<x>>)[k] = q[k]
           /\ q \o <<x>> \o <<>> \in Seq(Reports) /\ Len(q \o <<x>> \o <<>>) = Len(q) + 1
           /\ (q \o <<x>> \o <<>>)[Len(q) + 1] = x
           /\ \A k \in 1 .. Len(q) : (q \o <<x>> \o <<>>)[k] = q[k]
           /\ q \o <<x>> \o <<y>> \in Seq(Reports) /\ Len(q \o <<x>> \o <<y>>) = Len(q) + 2
           /\ (q \o <<x>> \o <<y>>)[Len(q) + 1] = x /\ (q \o <<x>> \o <<y>>)[Len(q) + 2] = y
           /\ \A k \in 1 .. Len(q) : (q \o <<x>> \o <<y>>)[k] = q[k]
  <1>1. ASSUME NEW s \in Seq(Reports), NEW z \in Reports
        PROVE  /\ s \o <<z>> \in Seq(Reports) /\ Len(s \o <<z>>) = Len(s) + 1
               /\ (s \o <<z>>)[Len(s) + 1] = z
               /\ \A k \in 1 .. Len(s) : (s \o <<z>>)[k] = s[k]
    <2>1. <<z>> \in Seq(Reports) /\ Len(<<z>>) = 1 /\ <<z>>[1] = z /\ Len(s) \in Nat
      BY LenProperties
    <2> QED
      BY <2>1, ConcatProperties
  <1>2. \A s \in Seq(Reports) : s \o <<>> = s
    BY ConcatEmptySeq
  <1>3. Len(q) \in Nat
    BY LenProperties
  <1>4. PICK qx : qx = q \o <<x>>
    OBVIOUS
  <1>5. /\ qx \in Seq(Reports) /\ Len(qx) = Len(q) + 1
        /\ qx[Len(q) + 1] = x
        /\ \A k \in 1 .. Len(q) : qx[k] = q[k]
    BY <1>1, <1>4
  <1>6. /\ qx \o <<y>> \in Seq(Reports) /\ Len(qx \o <<y>>) = Len(q) + 2
        /\ (qx \o <<y>>)[Len(q) + 1] = x /\ (qx \o <<y>>)[Len(q) + 2] = y
        /\ \A k \in 1 .. Len(q) : (qx \o <<y>>)[k] = q[k]
    <2>1. /\ qx \o <<y>> \in Seq(Reports) /\ Len(qx \o <<y>>) = Len(qx) + 1
          /\ (qx \o <<y>>)[Len(qx) + 1] = y
          /\ \A k \in 1 .. Len(qx) : (qx \o <<y>>)[k] = qx[k]
      BY <1>1, <1>5
    <2> QED
      BY <1>3, <1>5, <2>1
  <1>7. q \o <<>> \o <<>> = q /\ q \o <<>> \o <<x>> = qx /\ q \o <<x>> \o <<>> = qx
    BY <1>2, <1>4, <1>5
  <1> QED
    BY <1>4, <1>5, <1>6, <1>7

LEMMA BuiltRight ==
    ASSUME AssociationInv, NEW r \in Rows, NEW i \in Nat \ {0}
    PROVE  /\ Built(r, i) \in Attempts
           /\ Built(r, i).nonce = AttemptNonce(r, i) /\ Built(r, i).pin \in {Nobody, Fresh(r, i)}
  <1>1. /\ AttemptNonce(r, i) \in Nonces /\ Fresh(r, i) \in Sessions /\ Logs \subseteq LogSet
    BY OwnAreSessions
  <1>2. {l.session : l \in Logs} \in SUBSET Sessions
    BY <1>1 DEF LogSet
  <1> QED
    BY <1>1, <1>2 DEF Built, Attempts, Maybe

(* The next attempt of a chain is built: the row takes its nonce, and what  *)
(* the attempt before it associated goes.                                   *)
LEMMA PrepareKeeps ==
    ASSUME AssociationInv, NEW r \in Rows, NEW first, Prepare(r, Tries(r) + 1, first),
           \/ chains[r].step = "build" /\ first = <<>>
           \/ /\ chains[r].step \in {"running", "unspawned"} /\ Delivered(r)
              /\ first = <<Event("finished")>>
    PROVE  AssociationInv'
  <1>1. PICK spawned \in BOOLEAN :
          /\ chains' = [chains EXCEPT ![r].built = Append(@, Built(r, Tries(r) + 1)),
                                      ![r].step = IF spawned THEN "running" ELSE "unspawned",
                                      ![r].wrote = FALSE]
          /\ queues' = [queues EXCEPT ![r] = @ \o first \o IF spawned THEN <<Event("started")>> ELSE <<>>]
    BY DEF Prepare
  <1>2. PICK i : i = Tries(r) + 1
    OBVIOUS
  <1>3. /\ rows[r] \in RowSet /\ chains[r] \in ChainSet /\ queues[r] \in Seq(Reports)
        /\ jobs[r] \in JobSet /\ Tries(r) \in Nat /\ chains[r].built \in Seq(Attempts) /\ RowRight(r)
        /\ Len(queues[r]) \in Nat /\ DOMAIN queues[r] = 1 .. Len(queues[r])
        /\ watches = [watches EXCEPT ![r] = watches[r]] /\ watches[r] \in WatchSet
        /\ rows = [rows EXCEPT ![r] = rows[r]] /\ r \in Nat
    BY RowIsItself
  <1>4. /\ i \in Nat \ {0} /\ Built(r, i) \in Attempts
        /\ Built(r, i).nonce = AttemptNonce(r, i) /\ Built(r, i).pin \in {Nobody, Fresh(r, i)}
        /\ AttemptNonce(r, i) \in Nonces
    BY <1>2, <1>3, BuiltRight, OwnAreSessions
  <1>5. PICK ch : ch = [chains[r] EXCEPT !.built = Append(@, Built(r, i)),
                                         !.step = IF spawned THEN "running" ELSE "unspawned",
                                         !.wrote = FALSE]
    OBVIOUS
  <1>6. Append(chains[r].built, Built(r, i)) \in Seq(Attempts)
        /\ Len(Append(chains[r].built, Built(r, i))) = i
        /\ Append(chains[r].built, Built(r, i))[i] = Built(r, i)
        /\ \A k \in 1 .. Tries(r) : Append(chains[r].built, Built(r, i))[k] = chains[r].built[k]
    BY <1>2, <1>3, <1>4, AppendProperties DEF Tries
  <1>7. /\ ch \in ChainSet /\ ch.verdict = chains[r].verdict
        /\ ch.built = Append(chains[r].built, Built(r, i))
        /\ ch.step = IF spawned THEN "running" ELSE "unspawned"
    BY <1>3, <1>5, <1>6 DEF ChainSet
  <1>8. chains' = [chains EXCEPT ![r] = ch]
    BY <1>1, <1>2, <1>5
  <1>9. PICK qu : qu = queues[r] \o first \o IF spawned THEN <<Event("started")>> ELSE <<>>
    OBVIOUS
  <1>10. PICK ro : ro = IF i = 1 \/ jobs[r].nonce = Nobody THEN rows[r]
                        ELSE [rows[r] EXCEPT !.nonce = AttemptNonce(r, i), !.session = Nobody]
    OBVIOUS
  <1>11. /\ ro \in RowSet /\ ro.active = rows[r].active
         /\ i = 1 \/ jobs[r].nonce = Nobody => ro = rows[r]
         /\ ~(i = 1 \/ jobs[r].nonce = Nobody) => ro.nonce = AttemptNonce(r, i) /\ ro.session = Nobody
    BY <1>3, <1>4, <1>10 DEF RowSet, Maybe
  <1>12. rows' = [rows EXCEPT ![r] = ro]
    <2>1. CASE i = 1 \/ jobs[r].nonce = Nobody
      BY <1>2, <1>3, <1>11, <2>1 DEF Prepare, Identity
    <2>2. CASE ~(i = 1 \/ jobs[r].nonce = Nobody)
      BY <1>2, <1>10, <2>2 DEF Prepare, Identity
    <2> QED
      BY <2>1, <2>2
  <1>13. queues' = [queues EXCEPT ![r] = qu]
    BY <1>1, <1>9
  <1>14. Event("finished") \in Reports /\ Event("started") \in Reports
    BY DEF Event, Reports
  <1>15. \A k \in 1 .. Len(queues[r]) : Is(r, k, "session")
    <2>1. CASE chains[r].step = "build"
      BY <1>3, <2>1 DEF RowRight, QueueRight
    <2>2. CASE Delivered(r)
      BY <1>3, <2>2 DEF Delivered, Is, ToSet
    <2>3. chains[r].step = "build" \/ Delivered(r)
      OBVIOUS
    <2> QED
      BY <2>1, <2>2, <2>3
  <1>16. PICK n : n = Len(queues[r])
    OBVIOUS
  <1>17. PICK retry \in BOOLEAN : retry = (first # <<>>)
    OBVIOUS
  <1>18. <<Event("finished")>> # <<>>
    OBVIOUS
  <1>19. /\ retry => first = <<Event("finished")>> /\ chains[r].step \in {"running", "unspawned"}
         /\ ~retry => first = <<>> /\ chains[r].step = "build"
    BY <1>17, <1>18
  <1>20. Event("finished").kind = "finished" /\ Event("started").kind = "started"
    BY DEF Event
  <1>21. /\ qu \in Seq(Reports) /\ DOMAIN qu = 1 .. Len(qu) /\ Len(qu) \in Nat /\ n \in Nat
         /\ \A k \in 1 .. n : qu[k] = queues[r][k]
         /\ \A k \in 1 .. Len(qu) :
              \/ k \in 1 .. n
              \/ k = n + 1 /\ retry /\ qu[k].kind = "finished"
              \/ k = n + 1 /\ ~retry /\ spawned /\ qu[k].kind = "started"
              \/ k = n + 2 /\ retry /\ spawned /\ qu[k].kind = "started"
         /\ retry => n + 1 \in 1 .. Len(qu) /\ qu[n + 1].kind = "finished"
    <2>1. CASE retry /\ spawned
      <3>1. qu = queues[r] \o <<Event("finished")>> \o <<Event("started")>>
        BY <1>9, <1>19, <2>1
      <3>2. /\ qu \in Seq(Reports) /\ Len(qu) = n + 2 /\ qu[n + 1] = Event("finished")
            /\ qu[n + 2] = Event("started") /\ \A k \in 1 .. n : qu[k] = queues[r][k]
        BY <1>3, <1>14, <1>16, <3>1, Sent
      <3> QED
        BY SMTT(30), <1>3, <1>16, <1>20, <2>1, <3>2
    <2>2. CASE retry /\ ~spawned
      <3>1. qu = queues[r] \o <<Event("finished")>> \o <<>>
        BY <1>9, <1>19, <2>2
      <3>2. /\ qu \in Seq(Reports) /\ Len(qu) = n + 1 /\ qu[n + 1] = Event("finished")
            /\ \A k \in 1 .. n : qu[k] = queues[r][k]
        BY <1>3, <1>14, <1>16, <3>1, Sent
      <3> QED
        BY <1>3, <1>16, <1>20, <2>2, <3>2
    <2>3. CASE ~retry /\ spawned
      <3>1. qu = queues[r] \o <<>> \o <<Event("started")>>
        BY <1>9, <1>19, <2>3
      <3>2. /\ qu \in Seq(Reports) /\ Len(qu) = n + 1 /\ qu[n + 1] = Event("started")
            /\ \A k \in 1 .. n : qu[k] = queues[r][k]
        BY <1>3, <1>14, <1>16, <3>1, Sent
      <3> QED
        BY <1>3, <1>16, <1>20, <2>3, <3>2
    <2>4. CASE ~retry /\ ~spawned
      <3>1. qu = queues[r] \o <<>> \o <<>>
        BY <1>9, <1>19, <2>4
      <3>2. qu = queues[r]
        BY <1>3, <1>14, <3>1, Sent
      <3> QED
        BY <1>3, <1>16, <2>4, <3>2
    <2> QED
      BY <2>1, <2>2, <2>3, <2>4
  <1>22. /\ RowsType' /\ Elsewhere(r)
         /\ rows'[r] = ro /\ chains'[r] = ch /\ queues'[r] = qu /\ watches'[r] = watches[r]
         /\ jobs'[r] = jobs[r] /\ jobs' = jobs
    <2>1. jobs' = jobs /\ watches' = watches
      BY DEF Prepare
    <2>2. /\ AssociationInv /\ r \in Rows /\ jobs' = jobs
          /\ ro \in RowSet /\ rows' = [rows EXCEPT ![r] = ro]
          /\ ch \in ChainSet /\ chains' = [chains EXCEPT ![r] = ch]
          /\ qu \in Seq(Reports) /\ queues' = [queues EXCEPT ![r] = qu]
          /\ watches[r] \in WatchSet /\ watches' = [watches EXCEPT ![r] = watches[r]]
      BY <1>3, <1>7, <1>8, <1>11, <1>12, <1>13, <1>21, <2>1
    <2> QED
      BY ONLY <2>2, RowChanges
  <1>23. Tries(r)' = i /\ Latest(r)' = i
    <2>1. Tries(r)' = i
      BY <1>6, <1>7, <1>22 DEF Tries
    <2> QED
      BY <1>4, <2>1 DEF Latest
  <1>24. \A k : AttemptNonce(r, k)' = AttemptNonce(r, k) /\ Fresh(r, k)' = Fresh(r, k)
    BY <1>22 DEF AttemptNonce, Fresh
  <1>25. OwnSessions(r) \subseteq OwnSessions(r)'
    <2>1. 1 .. Tries(r) \subseteq 1 .. i
      BY <1>2, <1>3
    <2> QED
      BY <1>22, <1>23, <2>1 DEF OwnSessions, Fresh
  <1>26. AttemptsRight(r)'
    <2>1. AttemptsRight(r) /\ JobRight(r)
      BY <1>3 DEF RowRight
    <2>2. ASSUME NEW k \in 1 .. i
          PROVE  ch.built[k].nonce = AttemptNonce(r, k) /\ ch.built[k].pin \in {Nobody, Fresh(r, k)}
      <3>1. CASE k = i
        BY <1>4, <1>6, <1>7, <3>1
      <3>2. CASE k # i
        <4>1. k \in 1 .. Tries(r)
          BY <1>2, <1>3, <3>2
        <4> QED
          BY <1>6, <1>7, <2>1, <4>1 DEF AttemptsRight
      <3> QED
        BY <3>1, <3>2
    <2>3. ch.step \in {"running", "unspawned"} /\ ch.step # "build" /\ i # 0
      BY <1>4, <1>7
    <2>4. ch.verdict => jobs[r].kind = "execute" /\ ~jobs[r].restart /\ jobs[r].resumed = Nobody
      BY <1>7, <2>1 DEF AttemptsRight
    <2>5. ro.nonce = AttemptNonce(r, i)
      <3>1. rows[r].nonce = AttemptNonce(r, Latest(r))
        BY <2>1 DEF AttemptsRight
      <3>2. CASE i = 1
        <4>1. Latest(r) = 1
          BY <1>2, <1>3, <3>2 DEF Latest
        <4> QED
          BY <1>11, <3>1, <3>2, <4>1
      <3>3. CASE jobs[r].nonce = Nobody
        BY <1>11, <3>1, <3>3 DEF AttemptNonce
      <3> QED
        BY <1>11, <3>2, <3>3
    <2>6. jobs[r].kind = "execute" => ro.session \in Maybe(OwnSessions(r)')
      BY <1>11, <1>25, <2>1 DEF AttemptsRight, Maybe
    <2>7. ASSUME jobs[r].kind = "execute", jobs[r].backend = "claude", jobs[r].resumed = Nobody
          PROVE  ro.session \in {Nobody, Fresh(r, i)}
      <3>1. CASE i = 1
        <4>1. 1 .. Tries(r) = {}
          BY <1>2, <1>3, <3>1
        <4>2. OwnSessions(r) = {}
          BY <2>7, <4>1 DEF OwnSessions
        <4>3. rows[r].session \in Maybe(OwnSessions(r))
          BY <2>1, <2>7 DEF AttemptsRight
        <4> QED
          BY <1>11, <3>1, <4>2, <4>3 DEF Maybe
      <3>2. CASE i # 1
        BY <1>11, <2>1, <2>7, <3>2 DEF JobRight
      <3> QED
        BY <3>1, <3>2
    <2>8. Maybe(OwnSessions(r))' = Maybe(OwnSessions(r)')
      BY DEF Maybe
    <2> QED
      BY <1>22, <1>23, <1>24, <2>2, <2>3, <2>4, <2>5, <2>6, <2>7, <2>8 DEF AttemptsRight

  <1>27. \A k \in 1 .. n : qu[k].kind = "session"
    BY <1>15, <1>16, <1>21 DEF Is
  <1>28. QueueRight(r)'
    <2>1. QueueRight(r)
      BY <1>3 DEF RowRight
    <2>2. \A k, kind : Is(r, k, kind)' <=> qu[k].kind = kind
      BY <1>22 DEF Is
    <2>3. ASSUME NEW k \in 1 .. Len(qu)
          PROVE  /\ qu[k].kind = "session" => qu[k].session \in OwnSessions(r)'
                 /\ qu[k].kind = "session" => jobs[r].backend \in {"opencode", "agy"}
                 /\ qu[k].kind = "started" => ch.step = "running"
      <3>1. CASE k \in 1 .. n
        BY <1>3, <1>15, <1>25, <1>16, <1>21, <1>27, <2>1, <3>1 DEF QueueRight
      <3>2. CASE k \notin 1 .. n
        BY <1>7, <1>21, <3>2
      <3> QED
        BY <3>1, <3>2
    <2>4. \A k, l \in 1 .. Len(qu) : /\ qu[k].kind = "finished" /\ qu[l].kind = "finished" => k = l
                                     /\ qu[k].kind = "finished" /\ qu[l].kind = "started" => k < l
      BY <1>21, <1>27
    <2>5. (\E k \in 1 .. Len(qu) : qu[k].kind = "finished") <=> retry
      BY <1>21, <1>27
    <2>6. watches[r].finished = Past(r) /\ watches[r].finished \in Nat
      <3>1. ~\E k \in DOMAIN queues[r] : Is(r, k, "finished")
        BY <1>3, <1>15 DEF Is
      <3>2. watches[r].finished + 0 = Past(r)
        BY <2>1, <3>1 DEF QueueRight
      <3>3. \A w \in WatchSet : w.finished \in Nat
        BY DEF WatchSet
      <3> QED
        BY <1>3, <3>2, <3>3
    <2>7. watches[r].finished + (IF retry THEN 1 ELSE 0) = i - 1
      <3>1. CASE retry
        BY <1>2, <1>3, <1>19, <2>6, <3>1 DEF Past
      <3>2. CASE ~retry
        <4>1. Tries(r) = 0 /\ Past(r) = 0
          BY <1>3, <1>19, <3>2 DEF RowRight, AttemptsRight, Past
        <4> QED
          BY <1>2, <2>6, <3>2, <4>1
      <3> QED
        BY <3>1, <3>2
    <2>8. Past(r)' = i - 1 /\ ch.step # "build"
      BY <1>7, <1>22, <1>23 DEF Past
    <2>9. watches[r].on => /\ jobs[r].backend = "codex"
                           /\ \E k \in 1 .. i : watches[r].nonce = AttemptNonce(r, k)
      BY <1>2, <1>3, <2>1 DEF QueueRight
    <2> QED
      BY <1>22, <1>23, <1>24, <1>21, <2>2, <2>3, <2>4, <2>5, <2>7, <2>8, <2>9 DEF QueueRight
  <1>29. Tries(r) <= Tries(r)' /\ disk' = disk /\ reader' = reader
    BY <1>2, <1>3, <1>23 DEF Prepare
  <1> QED
    BY <1>11, <1>22, <1>26, <1>28, <1>29, RowKeepsInv

-----------------------------------------------------------------------------
(* The steps of one row that build no attempt: what they have to keep.      *)
PastAt(r, step) ==
  CASE step = "build" -> 0
    [] step = "over" -> Latest(r)
    [] OTHER -> Tries(r) - 1

QueueFits(r, step, qu, finished) ==
  /\ step = "build" => qu = <<>>
  /\ \A k \in DOMAIN qu : /\ qu[k].kind = "session" => qu[k].session \in OwnSessions(r)
                          /\ qu[k].kind = "session" => jobs[r].backend \in {"opencode", "agy"}
                          /\ qu[k].kind = "started" => step = "running"
  /\ \A k, l \in DOMAIN qu : /\ qu[k].kind = "finished" /\ qu[l].kind = "finished" => k = l
                             /\ qu[k].kind = "finished" /\ qu[l].kind = "started" => k < l
  /\ finished + (IF \E k \in DOMAIN qu : qu[k].kind = "finished" THEN 1 ELSE 0) = PastAt(r, step)

WatchFits(r, wa) ==
  wa.on => /\ jobs[r].backend = "codex"
           /\ \E k \in 1 .. Tries(r) : wa.nonce = AttemptNonce(r, k)

SessionFits(r, s) ==
  /\ jobs[r].kind = "execute" => s \in Maybe(OwnSessions(r))
  /\ jobs[r].kind = "execute" /\ jobs[r].backend = "claude" /\ jobs[r].resumed = Nobody
       => s \in {Nobody, Fresh(r, Tries(r))}

ChainFits(r, ch) ==
  /\ ch.built = chains[r].built
  /\ ch.step # "over" => ch.step = chains[r].step
  /\ ch.verdict => jobs[r].kind = "execute" /\ ~jobs[r].restart /\ jobs[r].resumed = Nobody

LEMMA Fits ==
    ASSUME AssociationInv, NEW r \in Rows
    PROVE  /\ QueueFits(r, chains[r].step, queues[r], watches[r].finished)
           /\ WatchFits(r, watches[r]) /\ SessionFits(r, rows[r].session)
           /\ ChainFits(r, chains[r])
  <1>1. AttemptsRight(r) /\ QueueRight(r)
    BY DEF AssociationInv
  <1>2. Past(r) = PastAt(r, chains[r].step)
    BY DEF Past, PastAt
  <1>3. QueueFits(r, chains[r].step, queues[r], watches[r].finished)
    BY <1>1, <1>2 DEF QueueRight, QueueFits, Is
  <1> QED
    BY <1>1, <1>3 DEF QueueRight, AttemptsRight, WatchFits, SessionFits, ChainFits

LEMMA SameAttempts ==
    ASSUME AssociationInv, NEW r \in Rows, jobs' = jobs,
           NEW ro \in RowSet, rows' = [rows EXCEPT ![r] = ro],
           NEW ch \in ChainSet, chains' = [chains EXCEPT ![r] = ch],
           NEW qu \in Seq(Reports), queues' = [queues EXCEPT ![r] = qu],
           NEW wa \in WatchSet, watches' = [watches EXCEPT ![r] = wa],
           disk' = disk \/ DiskRight', reader' = reader \/ ReaderRight',
           ro.active => rows[r].active, ro.nonce = rows[r].nonce,
           SessionFits(r, ro.session), ChainFits(r, ch),
           QueueFits(r, ch.step, qu, wa.finished), WatchFits(r, wa)
    PROVE  AssociationInv'
  <1>1. /\ RowsType' /\ Elsewhere(r)
        /\ rows'[r] = ro /\ chains'[r] = ch /\ queues'[r] = qu /\ watches'[r] = wa
        /\ jobs'[r] = jobs[r]
    BY RowChanges
  <1>2. ch.built = chains[r].built
    BY DEF ChainFits
  <1>3. Tries(r)' = Tries(r) /\ Latest(r)' = Latest(r)
    BY <1>1, <1>2 DEF Tries, Latest
  <1>4. \A k : AttemptNonce(r, k)' = AttemptNonce(r, k) /\ Fresh(r, k)' = Fresh(r, k)
    BY <1>1 DEF AttemptNonce, Fresh
  <1>5. OwnSessions(r)' = OwnSessions(r) /\ Maybe(OwnSessions(r))' = Maybe(OwnSessions(r))
    BY <1>1, <1>3 DEF OwnSessions, Fresh, Maybe
  <1>6. AttemptsRight(r) /\ Tries(r) \in Nat
    BY RowIsItself DEF RowRight
  <1>7. AttemptsRight(r)'
    <2>1. /\ ch.step = "build" => Tries(r) = 0
          /\ ch.step \in {"running", "unspawned"} => Tries(r) # 0
          /\ ch.verdict => jobs[r].kind = "execute" /\ ~jobs[r].restart /\ jobs[r].resumed = Nobody
      BY <1>6 DEF ChainFits, AttemptsRight
    <2>2. \A k \in 1 .. Tries(r) : /\ ch.built[k].nonce = AttemptNonce(r, k)
                                   /\ ch.built[k].pin \in {Nobody, Fresh(r, k)}
      BY <1>2, <1>6 DEF AttemptsRight
    <2>3. ro.nonce = AttemptNonce(r, Latest(r))
      BY <1>6 DEF AttemptsRight
    <2> QED
      BY <1>1, <1>3, <1>4, <1>5, <2>1, <2>2, <2>3 DEF AttemptsRight, SessionFits
  <1>8. QueueRight(r)'
    <2>1. Past(r)' = PastAt(r, ch.step)
      BY <1>1, <1>3 DEF Past, PastAt
    <2>2. \A k, kind : Is(r, k, kind)' <=> qu[k].kind = kind
      BY <1>1 DEF Is
    <2> QED
      BY <1>1, <1>3, <1>4, <1>5, <2>1, <2>2 DEF QueueRight, QueueFits, WatchFits
  <1>9. Tries(r) <= Tries(r)' /\ (rows'[r].active => rows[r].active)
    BY <1>1, <1>3, <1>6
  <1> QED
    BY <1>1, <1>7, <1>8, <1>9, RowKeepsInv

LEMMA BeginKeeps ==
    ASSUME AssociationInv, NEW r \in Rows, Begin(r)
    PROVE  AssociationInv'
  <1>1. chains[r].step = "build" /\ Tries(r) = 0
    BY DEF Begin, AssociationInv, AttemptsRight
  <1>2. Prepare(r, Tries(r) + 1, <<>>)
    <2>1. Tries(r) + 1 = 1
      BY <1>1
    <2> QED
      BY <2>1 DEF Begin
  <1> QED
    BY <1>1, <1>2, PrepareKeeps

LEMMA RetryKeeps ==
    ASSUME AssociationInv, NEW r \in Rows, Retry(r)
    PROVE  AssociationInv'
  BY PrepareKeeps DEF Retry

LEMMA FinishAndCancelKeep ==
    ASSUME AssociationInv, NEW r \in Rows, Finish(r) \/ Cancel(r)
    PROVE  AssociationInv'
  <1>1. /\ rows = [rows EXCEPT ![r] = rows[r]] /\ rows[r] \in RowSet
        /\ chains = [chains EXCEPT ![r] = chains[r]] /\ chains[r] \in ChainSet
        /\ queues = [queues EXCEPT ![r] = queues[r]] /\ queues[r] \in Seq(Reports)
        /\ watches = [watches EXCEPT ![r] = watches[r]] /\ watches[r] \in WatchSet
    BY RowIsItself
  <1>2. /\ QueueFits(r, chains[r].step, queues[r], watches[r].finished)
        /\ WatchFits(r, watches[r]) /\ SessionFits(r, rows[r].session)
        /\ ChainFits(r, chains[r])
    BY Fits
  <1>3. CASE Finish(r)
    <2>1. PICK ro : ro = [rows[r] EXCEPT !.active = FALSE]
      OBVIOUS
    <2>2. ro \in RowSet /\ ~ro.active /\ ro.nonce = rows[r].nonce /\ ro.session = rows[r].session
      BY <1>1, <2>1 DEF RowSet
    <2>3. /\ rows' = [rows EXCEPT ![r] = ro] /\ jobs' = jobs /\ chains' = chains /\ queues' = queues
          /\ watches' = watches /\ disk' = disk /\ reader' = reader
      BY <1>3, <2>1 DEF Finish
    <2> QED
      BY <1>1, <1>2, <2>2, <2>3, SameAttempts
  <1>4. CASE Cancel(r)
    <2>1. PICK ch : ch = [chains[r] EXCEPT !.token = TRUE]
      OBVIOUS
    <2>2. ch \in ChainSet /\ ch.built = chains[r].built /\ ch.step = chains[r].step /\ ch.verdict = chains[r].verdict
      BY <1>1, <2>1 DEF ChainSet
    <2>3. /\ chains' = [chains EXCEPT ![r] = ch] /\ jobs' = jobs /\ rows' = rows /\ queues' = queues
          /\ watches' = watches /\ disk' = disk /\ reader' = reader
      BY <1>4, <2>1 DEF Cancel
    <2>4. ChainFits(r, ch)
      BY <1>2, <2>2 DEF ChainFits
    <2> QED
      BY <1>1, <1>2, <2>2, <2>3, <2>4, SameAttempts
  <1> QED
    BY <1>3, <1>4

LEMMA ChainEndsKeeps ==
    ASSUME AssociationInv, NEW r \in Rows, ChainEnds(r)
    PROVE  AssociationInv'
  <1>1. /\ rows = [rows EXCEPT ![r] = rows[r]] /\ rows[r] \in RowSet
        /\ chains[r] \in ChainSet /\ queues[r] \in Seq(Reports)
        /\ watches = [watches EXCEPT ![r] = watches[r]] /\ watches[r] \in WatchSet
        /\ Len(queues[r]) \in Nat /\ DOMAIN queues[r] = 1 .. Len(queues[r])
        /\ RowRight(r) /\ Tries(r) \in Nat
    BY RowIsItself
  <1>2. /\ QueueFits(r, chains[r].step, queues[r], watches[r].finished)
        /\ WatchFits(r, watches[r]) /\ SessionFits(r, rows[r].session)
        /\ ChainFits(r, chains[r])
    BY Fits
  <1>3. PICK n, x, qu : n = Len(queues[r]) /\ x = Event("finished") /\ qu = Append(queues[r], x)
    OBVIOUS
  <1>4. x \in Reports /\ x.kind = "finished"
    BY <1>3 DEF Reports, Event
  <1>5. /\ qu \in Seq(Reports) /\ n \in Nat /\ DOMAIN qu = 1 .. n + 1 /\ qu[n + 1].kind = "finished"
        /\ \A k \in 1 .. n : qu[k] = queues[r][k]
    BY <1>1, <1>3, <1>4, AppendProperties
  <1>6. PICK ch : ch = [chains[r] EXCEPT !.step = "over"]
    OBVIOUS
  <1>7. ch \in ChainSet /\ ch.built = chains[r].built /\ ch.step = "over" /\ ch.verdict = chains[r].verdict
    BY <1>1, <1>6 DEF ChainSet
  <1>8. ChainFits(r, ch)
    BY <1>2, <1>7 DEF ChainFits
  <1>9. \A k \in 1 .. n : queues[r][k].kind = "session"
    BY <1>1, <1>3 DEF ChainEnds, Delivered, ToSet
  <1>10. QueueFits(r, "over", qu, watches[r].finished)
    <2>1. \A k \in 1 .. n : /\ queues[r][k].session \in OwnSessions(r)
                            /\ jobs[r].backend \in {"opencode", "agy"}
      BY <1>1, <1>2, <1>3, <1>9 DEF QueueFits
    <2>2. \A k \in 1 .. n + 1 : k \in 1 .. n \/ k = n + 1
      BY <1>5
    <2>3. \A k \in DOMAIN qu : /\ qu[k].kind = "session" => qu[k].session \in OwnSessions(r)
                               /\ qu[k].kind = "session" => jobs[r].backend \in {"opencode", "agy"}
                               /\ qu[k].kind # "started"
      BY <1>5, <1>9, <2>1, <2>2
    <2>4. \A k, l \in DOMAIN qu : qu[k].kind = "finished" /\ qu[l].kind = "finished" => k = l
      BY <1>5, <1>9, <2>2
    <2>5. watches[r].finished + 1 = Latest(r)
      <3>1. watches[r].finished + 0 = PastAt(r, chains[r].step)
        BY <1>1, <1>2, <1>3, <1>9 DEF QueueFits
      <3>2. \A w \in WatchSet : w.finished \in Nat
        BY DEF WatchSet
      <3>3. CASE chains[r].step = "build"
        BY <1>1, <3>1, <3>2, <3>3 DEF PastAt, RowRight, AttemptsRight, Latest
      <3>4. CASE chains[r].step \in {"running", "unspawned"}
        <4>1. Tries(r) # 0
          BY <1>1, <3>4 DEF RowRight, AttemptsRight
        <4> QED
          BY <1>1, <3>1, <3>2, <3>4, <4>1 DEF PastAt, Latest
      <3> QED
        BY <3>3, <3>4 DEF ChainEnds
    <2>6. n + 1 \in DOMAIN qu /\ qu[n + 1].kind = "finished"
      BY <1>5
    <2>7. PastAt(r, "over") = Latest(r)
      BY DEF PastAt
    <2> QED
      BY <2>3, <2>4, <2>5, <2>6, <2>7 DEF QueueFits
  <1>11. /\ chains' = [chains EXCEPT ![r] = ch] /\ queues' = [queues EXCEPT ![r] = qu]
         /\ jobs' = jobs /\ rows' = rows /\ watches' = watches /\ disk' = disk /\ reader' = reader
    BY <1>3, <1>6 DEF ChainEnds
  <1> QED
    BY <1>1, <1>2, <1>5, <1>7, <1>8, <1>10, <1>11, SameAttempts

\* What the watch of a row finds is a session of that row.
LEMMA LocatedIsOwn ==
    ASSUME AssociationInv, NEW r \in Rows, watches[r].on, NEW s \in Locate(r)
    PROVE  s \in Sessions /\ SessionFits(r, s)
  <1>1. Logs \subseteq LogSet
    BY OwnAreSessions
  <1>2. WatchFits(r, watches[r]) /\ JobRight(r) /\ jobs[r] \in JobSet /\ Tries(r) \in Nat
    BY Fits, RowIsItself DEF RowRight
  <1>3. jobs[r].backend = "codex"
    BY <1>2 DEF WatchFits
  <1>4. \A m : Marked(m) \subseteq Logs
    BY DEF Marked
  <1>5. CASE jobs[r].kind = "consult"
    <2>1. PICK l \in Marked(Question) : s = l.session
      <3>1. Locate(r) = Newest(Marked(Question)) \ watches[r].snapshot
        BY <1>2, <1>5 DEF Locate, JobRight
      <3>2. s \in Newest(Marked(Question))
        BY <3>1
      <3> QED
        BY <1>4, <3>2, NewestAreOf
    <2> QED
      BY <1>1, <1>4, <1>5, <2>1 DEF SessionFits, LogSet
  <1>6. CASE jobs[r].kind # "consult" /\ jobs[r].resumed # Nobody
    <2>1. s = jobs[r].resumed
      BY <1>6 DEF Locate, OnDisk
    <2> QED
      BY <1>2, <1>3, <1>6, <2>1 DEF SessionFits, OwnSessions, Maybe, JobSet
  <1>7. CASE jobs[r].kind # "consult" /\ jobs[r].resumed = Nobody
    <2>1. PICK k \in 1 .. Tries(r) : watches[r].nonce = AttemptNonce(r, k)
      BY <1>2 DEF WatchFits
    <2>2. PICK l \in Marked(AttemptNonce(r, k)) : s = l.session
      BY <1>4, <1>7, <2>1, NewestAreOf DEF Locate
    <2>3. k \in Nat \ {0} /\ AttemptNonce(r, k) # Nobody
      <3>1. OwnNonce(r) /\ jobs[r].nonce # Nobody
        BY <1>2, <1>7 DEF JobRight, JobSet
      <3> QED
        BY <1>2, <3>1, AttemptNonces
    <2>4. s = Fresh(r, k)
      BY <2>2, <2>3, MarkedIsOwn
    <2>5. s \in OwnSessions(r)
      BY <2>4 DEF OwnSessions
    <2>6. s \in Sessions
      BY <2>5, OwnAreSessions
    <2> QED
      BY <1>3, <2>5, <2>6 DEF SessionFits, Maybe
  <1> QED
    BY <1>5, <1>6, <1>7

\* The watch of the attempt in flight ends.
LEMMA WatchOff ==
    ASSUME AssociationInv, NEW r \in Rows
    PROVE  /\ [finished |-> watches[r].finished, on |-> FALSE] \in WatchSet
           /\ WatchFits(r, [finished |-> watches[r].finished, on |-> FALSE])
           /\ [finished |-> watches[r].finished, on |-> FALSE].finished = watches[r].finished
  <1>1. \A w \in WatchSet : w.finished \in Nat
    BY DEF WatchSet
  <1>2. watches[r].finished \in Nat
    BY <1>1, RowIsItself
  <1> QED
    BY <1>2 DEF WatchSet, WatchFits

LEMMA WatchesKeep ==
    ASSUME AssociationInv, NEW r \in Rows, Watch(r) \/ WatchFires(r)
    PROVE  AssociationInv'
  <1>1. /\ rows = [rows EXCEPT ![r] = rows[r]] /\ rows[r] \in RowSet
        /\ chains = [chains EXCEPT ![r] = chains[r]] /\ chains[r] \in ChainSet
        /\ queues = [queues EXCEPT ![r] = queues[r]] /\ queues[r] \in Seq(Reports)
    BY RowIsItself
  <1>2. /\ QueueFits(r, chains[r].step, queues[r], watches[r].finished)
        /\ SessionFits(r, rows[r].session)
        /\ ChainFits(r, chains[r])
    BY Fits
  <1>3. PICK wa : wa = [finished |-> watches[r].finished, on |-> FALSE]
    OBVIOUS
  <1>4. wa \in WatchSet /\ WatchFits(r, wa) /\ wa.finished = watches[r].finished
    BY <1>3, WatchOff
  <1>5. CASE Watch(r)
    <2>1. /\ chains' = chains /\ queues' = queues /\ jobs' = jobs /\ disk' = disk /\ reader' = reader
          /\ watches' = [watches EXCEPT ![r] = wa] /\ watches[r].on
      BY <1>3, <1>5 DEF Watch
    <2>2. CASE rows' = rows
      BY <1>1, <1>2, <1>4, <2>1, <2>2, SameAttempts
    <2>3. ASSUME NEW s \in Locate(r), SetSession(r, s)
          PROVE  AssociationInv'
      <3>1. s \in Sessions /\ SessionFits(r, s)
        BY <2>1, LocatedIsOwn
      <3>2. PICK ro : ro = [rows[r] EXCEPT !.session = s]
        OBVIOUS
      <3>3. ro \in RowSet /\ ro.active = rows[r].active /\ ro.nonce = rows[r].nonce /\ ro.session = s
        BY <1>1, <3>1, <3>2 DEF RowSet, Maybe
      <3>4. rows' = [rows EXCEPT ![r] = ro]
        BY <2>3, <3>2 DEF SetSession
      <3> QED
        BY <1>1, <1>2, <1>4, <2>1, <3>1, <3>3, <3>4, SameAttempts
    <2> QED
      BY <1>5, <2>2, <2>3 DEF Watch
  <1>6. CASE WatchFires(r)
    <2>1. /\ rows' = rows /\ queues' = queues /\ jobs' = jobs /\ disk' = disk /\ reader' = reader
          /\ watches' = [watches EXCEPT ![r] = wa]
      BY <1>3, <1>6 DEF WatchFires
    <2>2. PICK ch : ch = [chains[r] EXCEPT !.verdict = TRUE]
      OBVIOUS
    <2>3. ch \in ChainSet /\ ch.built = chains[r].built /\ ch.step = chains[r].step
      BY <1>1, <2>2 DEF ChainSet
    <2>4. ChainFits(r, ch)
      BY <1>6, <2>3 DEF ChainFits, WatchFires
    <2>5. chains' = [chains EXCEPT ![r] = ch]
      BY <1>6, <2>2 DEF WatchFires
    <2> QED
      BY <1>1, <1>2, <1>4, <2>1, <2>3, <2>4, <2>5, SameAttempts
  <1> QED
    BY <1>5, <1>6

\* The queue without its first event.
LEMMA TailFits ==
    ASSUME AssociationInv, NEW r \in Rows, queues[r] # <<>>
    PROVE  /\ Head(queues[r]) \in Reports /\ Tail(queues[r]) \in Seq(Reports)
           /\ Head(queues[r]).kind = "started" =>
                /\ chains[r].step = "running" /\ watches[r].finished + 1 = Tries(r)
                /\ QueueFits(r, chains[r].step, Tail(queues[r]), watches[r].finished)
           /\ Head(queues[r]).kind = "finished" =>
                QueueFits(r, chains[r].step, Tail(queues[r]), watches[r].finished + 1)
           /\ Head(queues[r]).kind = "session" =>
                /\ Head(queues[r]).session \in OwnSessions(r) /\ jobs[r].backend \in {"opencode", "agy"}
                /\ QueueFits(r, chains[r].step, Tail(queues[r]), watches[r].finished)
  <1>1. /\ queues[r] \in Seq(Reports) /\ Len(queues[r]) \in Nat /\ DOMAIN queues[r] = 1 .. Len(queues[r])
        /\ Tries(r) \in Nat /\ watches[r] \in WatchSet
    BY RowIsItself
  <1>2. QueueFits(r, chains[r].step, queues[r], watches[r].finished)
    BY Fits
  <1>3. PICK q, t, n, f : q = queues[r] /\ t = Tail(q) /\ n = Len(q) /\ f = watches[r].finished
    OBVIOUS
  <1>4. /\ n \in Nat /\ n > 0 /\ Head(q) = q[1] /\ t \in Seq(Reports) /\ DOMAIN q = 1 .. n
        /\ DOMAIN t = 1 .. n - 1 /\ \A k \in 1 .. n - 1 : t[k] = q[k + 1]
    <2>1. q \in Seq(Reports) /\ q # <<>>
      BY <1>1, <1>3
    <2>2. t \in Seq(Reports) /\ Len(t) = n - 1 /\ Head(q) = q[1]
          /\ \A k \in 1 .. Len(t) : t[k] = q[k + 1]
      BY <1>3, <2>1, HeadTailProperties
    <2>3. n \in Nat /\ n > 0
      BY <1>1, <1>3, <2>1, EmptySeq
    <2> QED
      BY <1>1, <1>3, <2>2, <2>3, LenProperties
  <1>5. q[1] \in Reports
    BY <1>1, <1>3, <1>4, ElementOfSeq
  <1>6. f \in Nat
    <2>1. \A w \in WatchSet : w.finished \in Nat
      BY DEF WatchSet
    <2> QED
      BY <1>1, <1>3, <2>1
  <1>7. /\ \A k \in 1 .. n : /\ q[k].kind = "session" => q[k].session \in OwnSessions(r)
                             /\ q[k].kind = "session" => jobs[r].backend \in {"opencode", "agy"}
                             /\ q[k].kind = "started" => chains[r].step = "running"
        /\ \A k, l \in 1 .. n : /\ q[k].kind = "finished" /\ q[l].kind = "finished" => k = l
                                /\ q[k].kind = "finished" /\ q[l].kind = "started" => k < l
        /\ f + (IF \E k \in 1 .. n : q[k].kind = "finished" THEN 1 ELSE 0) = PastAt(r, chains[r].step)
    <2>1. QueueFits(r, chains[r].step, q, f) /\ DOMAIN q = 1 .. n
      BY <1>2, <1>3, <1>4
    <2> QED
      BY ONLY <2>1 DEF QueueFits
  <1>8. chains[r].step # "build"
    BY <1>2, <1>3 DEF QueueFits
  <1>9. \A k \in 1 .. n - 1 : k + 1 \in 1 .. n
    BY <1>4
  <1>10. ASSUME NEW g \in Nat,
                g + (IF \E k \in 1 .. n - 1 : q[k + 1].kind = "finished" THEN 1 ELSE 0)
                  = PastAt(r, chains[r].step)
         PROVE  QueueFits(r, chains[r].step, t, g)
    <2>1. \A k \in DOMAIN t : /\ t[k].kind = "session" => t[k].session \in OwnSessions(r)
                              /\ t[k].kind = "session" => jobs[r].backend \in {"opencode", "agy"}
                              /\ t[k].kind = "started" => chains[r].step = "running"
      BY <1>4, <1>7, <1>9
    <2>2. \A k, l \in DOMAIN t : /\ t[k].kind = "finished" /\ t[l].kind = "finished" => k = l
                                 /\ t[k].kind = "finished" /\ t[l].kind = "started" => k < l
      <3>1. ASSUME NEW k \in 1 .. n - 1, NEW l \in 1 .. n - 1
            PROVE  /\ t[k].kind = "finished" /\ t[l].kind = "finished" => k = l
                   /\ t[k].kind = "finished" /\ t[l].kind = "started" => k < l
        <4>1. /\ q[k + 1].kind = "finished" /\ q[l + 1].kind = "finished" => k + 1 = l + 1
              /\ q[k + 1].kind = "finished" /\ q[l + 1].kind = "started" => k + 1 < l + 1
          BY <1>7, <1>9
        <4> QED
          BY <1>4, <4>1
      <3> QED
        BY <1>4, <3>1
    <2>3. g + (IF \E k \in DOMAIN t : t[k].kind = "finished" THEN 1 ELSE 0) = PastAt(r, chains[r].step)
      BY <1>4, <1>10
    <2> QED
      BY <1>8, <2>1, <2>2, <2>3 DEF QueueFits
  <1>11. \A k \in 1 .. n : k = 1 \/ (k - 1 \in 1 .. n - 1 /\ k = (k - 1) + 1)
    BY <1>4
  <1>12. 1 \in 1 .. n
    BY <1>4
  <1>13. ASSUME q[1].kind # "finished"
         PROVE  QueueFits(r, chains[r].step, t, f)
    <2>1. (\E k \in 1 .. n : q[k].kind = "finished") <=> \E k \in 1 .. n - 1 : q[k + 1].kind = "finished"
      BY <1>9, <1>11, <1>13
    <2> QED
      BY <1>6, <1>7, <1>10, <2>1
  <1>14. ASSUME q[1].kind = "finished"
         PROVE  QueueFits(r, chains[r].step, t, f + 1)
    <2>1. \A k \in 1 .. n - 1 : q[k + 1].kind # "finished"
      <3>1. ASSUME NEW k \in 1 .. n - 1, q[k + 1].kind = "finished" PROVE FALSE
        <4>1. k + 1 = 1
          BY <1>7, <1>9, <1>12, <1>14, <3>1
        <4> QED
          BY <1>4, <4>1
      <3> QED
        BY <3>1
    <2>2. f + 1 = PastAt(r, chains[r].step)
      BY <1>7, <1>12, <1>14
    <2>3. f + 1 \in Nat /\ (f + 1) + 0 = f + 1
      BY <1>6
    <2> QED
      BY <1>10, <2>1, <2>2, <2>3
  <1>15. ASSUME q[1].kind = "started"
         PROVE  chains[r].step = "running" /\ f + 1 = Tries(r)
    <2>1. chains[r].step = "running"
      BY <1>7, <1>12, <1>15
    <2>2. \A k \in 1 .. n : q[k].kind # "finished"
      <3>1. ASSUME NEW k \in 1 .. n, q[k].kind = "finished" PROVE FALSE
        <4>1. k < 1
          BY <1>7, <1>12, <1>15, <3>1
        <4> QED
          BY <1>4, <4>1
      <3> QED
        BY <3>1
    <2>3. f = Tries(r) - 1
      BY <1>6, <1>7, <2>1, <2>2 DEF PastAt
    <2> QED
      BY <1>1, <2>1, <2>3
  <1> QED
    BY <1>3, <1>4, <1>5, <1>7, <1>12, <1>13, <1>14, <1>15

LEMMA OnEventKeeps ==
    ASSUME AssociationInv, NEW r \in Rows, OnEvent(r)
    PROVE  AssociationInv'
  <1>1. /\ rows = [rows EXCEPT ![r] = rows[r]] /\ rows[r] \in RowSet
        /\ chains = [chains EXCEPT ![r] = chains[r]] /\ chains[r] \in ChainSet
        /\ watches = [watches EXCEPT ![r] = watches[r]] /\ watches[r] \in WatchSet
        /\ Tries(r) \in Nat /\ chains[r].built \in Seq(Attempts) /\ RowRight(r)
    BY RowIsItself
  <1>2. /\ SessionFits(r, rows[r].session) /\ WatchFits(r, watches[r])
        /\ ChainFits(r, chains[r])
    BY Fits
  <1>3. PICK e, qu : e = Head(queues[r]) /\ qu = Tail(queues[r])
    OBVIOUS
  <1>4. /\ jobs' = jobs /\ chains' = chains /\ disk' = disk /\ reader' = reader
        /\ queues' = [queues EXCEPT ![r] = qu] /\ queues[r] # <<>>
    BY <1>3 DEF OnEvent
  <1>5. /\ e \in Reports /\ qu \in Seq(Reports)
        /\ e.kind = "started" =>
             /\ chains[r].step = "running" /\ watches[r].finished + 1 = Tries(r)
             /\ QueueFits(r, chains[r].step, qu, watches[r].finished)
        /\ e.kind = "finished" => QueueFits(r, chains[r].step, qu, watches[r].finished + 1)
        /\ e.kind = "session" => /\ e.session \in OwnSessions(r) /\ jobs[r].backend \in {"opencode", "agy"}
                                 /\ QueueFits(r, chains[r].step, qu, watches[r].finished)
    BY <1>3, <1>4, TailFits
  <1>6. CASE e.kind = "started"
    <2>1. OnStarted(r) /\ InFlight(r) = Tries(r)
      BY <1>3, <1>5, <1>6 DEF OnEvent, InFlight
    <2>2. Tries(r) \in 1 .. Tries(r) /\ Tries(r) # 0
      <3>1. Tries(r) # 0
        BY <1>1, <1>5, <1>6 DEF RowRight, AttemptsRight
      <3> QED
        BY <1>1, <3>1
    <2>3. PICK a : a = chains[r].built[Tries(r)]
      OBVIOUS
    <2>4. a \in Attempts /\ a.nonce = AttemptNonce(r, Tries(r)) /\ a.pin \in {Nobody, Fresh(r, Tries(r))}
      BY <1>1, <2>2, <2>3, ElementOfSeq DEF RowRight, AttemptsRight, Tries
    <2>5. PICK ro : ro = IF a.pin # Nobody THEN [rows[r] EXCEPT !.session = a.pin] ELSE rows[r]
      OBVIOUS
    <2>6. /\ ro \in RowSet /\ ro.active = rows[r].active /\ ro.nonce = rows[r].nonce
          /\ ro.session = IF a.pin # Nobody THEN a.pin ELSE rows[r].session
      BY <1>1, <2>4, <2>5 DEF RowSet, Attempts, Maybe
    <2>7. rows' = [rows EXCEPT ![r] = ro]
      BY <1>1, <2>1, <2>3, <2>5 DEF OnStarted, SetSession
    <2>8. SessionFits(r, ro.session)
      <3>1. Fresh(r, Tries(r)) \in OwnSessions(r)
        BY <2>2 DEF OwnSessions
      <3> QED
        BY <1>2, <2>4, <2>6, <3>1 DEF SessionFits, Maybe
    <2>9. PICK wa : wa = IF jobs[r].backend = "codex"
                         THEN [finished |-> watches[r].finished, on |-> TRUE,
                               nonce |-> a.nonce, snapshot |-> a.snapshot]
                         ELSE watches[r]
      OBVIOUS
    <2>10. watches' = [watches EXCEPT ![r] = wa]
      BY <1>1, <2>1, <2>3, <2>9 DEF OnStarted
    <2>11. wa \in WatchSet /\ wa.finished = watches[r].finished /\ WatchFits(r, wa)
      <3>1. CASE jobs[r].backend = "codex"
        <4>1. \A w \in WatchSet : w.finished \in Nat
          BY DEF WatchSet
        <4>2. watches[r].finished \in Nat
          BY <1>1, <4>1
        <4>3. /\ wa.finished = watches[r].finished /\ wa.nonce = a.nonce
              /\ wa \in [finished : Nat, on : {TRUE}, nonce : Nonces, snapshot : SUBSET Sessions]
          BY <2>4, <2>9, <3>1, <4>2 DEF Attempts
        <4> QED
          BY <2>2, <2>4, <3>1, <4>3 DEF WatchSet, WatchFits
      <3>2. CASE jobs[r].backend # "codex"
        BY <1>1, <1>2, <2>9, <3>2
      <3> QED
        BY <3>1, <3>2
    <2> QED
      BY <1>1, <1>2, <1>4, <1>5, <1>6, <2>6, <2>7, <2>8, <2>10, <2>11, SameAttempts
  <1>7. CASE e.kind = "finished"
    <2>1. OnFinished(r)
      BY <1>3, <1>7 DEF OnEvent
    <2>2. PICK wa : wa = [finished |-> watches[r].finished + 1, on |-> FALSE]
      OBVIOUS
    <2>3. \A w \in WatchSet : w.finished \in Nat
      BY DEF WatchSet
    <2>4. watches[r].finished \in Nat
      BY <1>1, <2>3
    <2>5. PICK f : f = watches[r].finished + 1
      OBVIOUS
    <2>6. f \in Nat /\ wa = [finished |-> f, on |-> FALSE]
      BY <2>2, <2>4, <2>5
    <2>7. wa \in WatchSet /\ wa.finished = f /\ ~wa.on
      BY ONLY <2>6 DEF WatchSet
    <2>8. wa \in WatchSet /\ wa.finished = watches[r].finished + 1 /\ WatchFits(r, wa)
      BY <2>5, <2>7 DEF WatchFits
    <2>9. watches' = [watches EXCEPT ![r] = wa] /\ rows' = rows
      BY <2>1, <2>2 DEF OnFinished
    <2> QED
      BY <1>1, <1>2, <1>4, <1>5, <1>7, <2>8, <2>9, SameAttempts
  <1>8. CASE e.kind = "session"
    <2>1. SetSession(r, e.session) /\ watches' = watches
      BY <1>3, <1>8 DEF OnEvent
    <2>2. PICK ro : ro = [rows[r] EXCEPT !.session = e.session]
      OBVIOUS
    <2>3. e.session \in Sessions
      BY <1>5, <1>8, OwnAreSessions
    <2>4. /\ ro \in RowSet /\ ro.active = rows[r].active /\ ro.nonce = rows[r].nonce
          /\ ro.session = e.session
      BY <1>1, <2>2, <2>3 DEF RowSet, Maybe
    <2>5. rows' = [rows EXCEPT ![r] = ro]
      BY <2>1, <2>2 DEF SetSession
    <2>6. SessionFits(r, ro.session)
      BY <1>5, <1>8, <2>4 DEF SessionFits, Maybe
    <2> QED
      BY <1>1, <1>2, <1>4, <1>5, <1>8, <2>1, <2>4, <2>5, <2>6, SameAttempts
  <1>9. e.kind \in {"started", "finished", "session"}
    BY <1>5 DEF Reports
  <1> QED
    BY <1>6, <1>7, <1>8, <1>9

LEMMA WrittenIsRight ==
    ASSUME AssociationInv, NEW r \in Rows, chains[r].step = "running"
    PROVE  /\ SessionOf(r) \in OwnSessions(r)
           /\ Log(SessionOf(r), Marker(r)) \in LogSet /\ LogRight(Log(SessionOf(r), Marker(r)))
  <1>1. /\ RowRight(r) /\ Tries(r) \in Nat /\ jobs[r] \in JobSet
    BY RowIsItself
  <1>2. Tries(r) \in 1 .. Tries(r) /\ Tries(r) # 0
    BY <1>1 DEF RowRight, AttemptsRight
  <1>3. PICK i : i = Tries(r)
    OBVIOUS
  <1>4. chains[r].built[i].nonce = AttemptNonce(r, i) /\ i \in 1 .. Tries(r) /\ i \in Nat \ {0}
    BY <1>1, <1>2, <1>3 DEF RowRight, AttemptsRight
  <1>5. Fresh(r, i) \in OwnSessions(r) /\ Fresh(r, i) \in Sessions /\ AttemptNonce(r, i) \in Nonces
    BY <1>4, OwnAreSessions DEF OwnSessions
  <1>6. SessionOf(r) \in OwnSessions(r)
    BY <1>3, <1>5 DEF SessionOf, OwnSessions
  <1>7. SessionOf(r) \in Sessions
    BY <1>6, OwnAreSessions
  <1>8. Question \in Nonces
    BY ShortNonces DEF Question, Nonces
  <1>9. Marker(r) \in Nonces
    BY <1>3, <1>4, <1>5, <1>8 DEF Marker
  <1>10. PICK l : l = Log(SessionOf(r), Marker(r))
    OBVIOUS
  <1>11. l.session = SessionOf(r) /\ l.marker = Marker(r) /\ l \in LogSet
    BY <1>7, <1>9, <1>10 DEF Log, LogSet
  <1>12. LogRight(l)
    <2>1. CASE SessionOf(r) = Fresh(r, i)
      BY <1>3, <1>4, <1>11, <2>1 DEF LogRight, Marker
    <2>2. CASE SessionOf(r) # Fresh(r, i)
      <3>1. SessionOf(r) = jobs[r].resumed /\ jobs[r].resumed # Nobody
        BY <1>3, <2>2 DEF SessionOf
      <3>2. Opened(jobs[r].resumed) /\ jobs[r].kind = "execute" /\ jobs[r].nonce = Nobody
        BY <1>1, <3>1 DEF RowRight, JobRight, JobSet
      <3>3. Marker(r) = Nobody
        BY <1>3, <1>4, <3>2 DEF Marker, AttemptNonce
      <3> QED
        BY <1>11, <3>1, <3>2, <3>3 DEF Opened, LogRight
    <2> QED
      BY <2>1, <2>2
  <1> QED
    BY <1>6, <1>10, <1>11, <1>12

\* A log that is written goes to the end; the others stay.
LEMMA TouchKeeps ==
    ASSUME AssociationInv, NEW rec \in LogSet, LogRight(rec), NEW r \in Rows, jobs' = jobs,
           NEW ch, chains' = [chains EXCEPT ![r] = ch], ch.built = chains[r].built,
           disk' = Touch(rec)
    PROVE  DiskRight'
  <1>1. DOMAIN chains = Rows /\ Rows' = Rows
    BY RowFacts DEF AssociationInv, Rows
  <1>2. \A q \in Rows : Tries(q)' = Tries(q)
    BY <1>1 DEF Tries
  <1>3. ASSUME NEW l, LogRight(l) PROVE LogRight(l)'
    <2>1. PICK q \in Rows : \E i \in 1 .. Tries(q) :
            l.session = Fresh(q, i) /\ l.marker \in {Nobody, Question, AttemptNonce(q, i)}
      BY <1>3 DEF LogRight
    <2>2. PICK i \in 1 .. Tries(q) :
            l.session = Fresh(q, i) /\ l.marker \in {Nobody, Question, AttemptNonce(q, i)}
      BY <2>1
    <2>3. q \in Rows' /\ i \in 1 .. Tries(q)' /\ AttemptNonce(q, i)' = AttemptNonce(q, i)
      BY <1>1, <1>2 DEF AttemptNonce
    <2> QED
      BY <2>2, <2>3 DEF LogRight, Fresh
  <1>4. disk \in Seq(LogSet) /\ \A k \in DOMAIN disk : LogRight(disk[k])
    BY DEF AssociationInv, DiskRight
  <1>5. PICK S, kept : S = {i \in DOMAIN disk : disk[i].session # rec.session} /\ kept = KeptAt(disk, S)
    OBVIOUS
  <1>6. S \subseteq DOMAIN disk
    BY <1>5
  <1>7. kept \in Seq(LogSet) /\ \A k \in DOMAIN kept : \E j \in S : kept[k] = disk[j]
    <2>1. /\ kept \in Seq(LogSet)
          /\ \A k \in 1 .. Len(kept) : Nth(S, k) \in S /\ kept[k] = disk[Nth(S, k)]
      BY <1>4, <1>5, <1>6, KeptAtFacts
    <2>2. DOMAIN kept = 1 .. Len(kept)
      BY <2>1, LenProperties
    <2> QED
      BY <2>1, <2>2
  <1>8. <<rec>> \in Seq(LogSet) /\ Len(<<rec>>) = 1 /\ <<rec>>[1] = rec
    OBVIOUS
  <1>9. disk' = kept \o <<rec>>
    BY <1>5 DEF Touch
  <1>10. /\ disk' \in Seq(LogSet) /\ Len(disk') = Len(kept) + 1 /\ Len(kept) \in Nat
         /\ \A k \in 1 .. Len(kept) : disk'[k] = kept[k]
         /\ disk'[Len(kept) + 1] = rec
    BY <1>7, <1>8, <1>9, ConcatProperties, LenProperties
  <1>11. ASSUME NEW k \in DOMAIN disk' PROVE LogRight(disk'[k])
    <2>1. k \in 1 .. Len(kept) \/ k = Len(kept) + 1
      BY <1>10, LenProperties
    <2>2. CASE k \in 1 .. Len(kept)
      <3>1. k \in DOMAIN kept
        BY <1>7, <2>2, LenProperties
      <3>2. PICK j \in S : kept[k] = disk[j]
        BY <1>7, <3>1
      <3> QED
        BY <1>4, <1>6, <1>10, <2>2, <3>2
    <2>3. CASE k = Len(kept) + 1
      BY <1>10, <2>3
    <2> QED
      BY <2>1, <2>2, <2>3
  <1> QED
    BY <1>3, <1>10, <1>11 DEF DiskRight

LEMMA WritesKeeps ==
    ASSUME AssociationInv, NEW r \in Rows, Writes(r)
    PROVE  AssociationInv'
  <1>1. /\ rows = [rows EXCEPT ![r] = rows[r]] /\ rows[r] \in RowSet /\ chains[r] \in ChainSet
        /\ queues = [queues EXCEPT ![r] = queues[r]] /\ queues[r] \in Seq(Reports)
        /\ watches = [watches EXCEPT ![r] = watches[r]] /\ watches[r] \in WatchSet
        /\ Len(queues[r]) \in Nat /\ DOMAIN queues[r] = 1 .. Len(queues[r])
    BY RowIsItself
  <1>2. /\ QueueFits(r, chains[r].step, queues[r], watches[r].finished)
        /\ WatchFits(r, watches[r]) /\ SessionFits(r, rows[r].session)
        /\ ChainFits(r, chains[r])
    BY Fits
  <1>3. PICK s, rec : /\ s = SessionOf(r)
                      /\ rec = IF OnDisk(s) = {} THEN Log(s, Marker(r))
                               ELSE CHOOSE l \in Logs : l.session = s
    OBVIOUS
  <1>4. /\ disk' = Touch(rec)
        /\ queues' = IF jobs[r].backend \in {"opencode", "agy"}
                     THEN [queues EXCEPT ![r] = Append(@, SessionEvent(s))] ELSE queues
        /\ jobs' = jobs /\ rows' = rows /\ watches' = watches /\ reader' = reader
        /\ chains[r].step = "running"
        /\ chains' = [chains EXCEPT ![r].wrote = TRUE]
    BY <1>3 DEF Writes
  <1>5. /\ s \in OwnSessions(r) /\ Log(s, Marker(r)) \in LogSet /\ LogRight(Log(s, Marker(r)))
    BY <1>3, <1>4, WrittenIsRight
  <1>6. rec \in LogSet /\ LogRight(rec)
    <2>1. CASE OnDisk(s) = {}
      BY <1>3, <1>5, <2>1
    <2>2. CASE OnDisk(s) # {}
      <3>1. \E l \in Logs : l.session = s
        BY <2>2 DEF OnDisk
      <3>2. rec \in Logs
        BY <1>3, <2>2, <3>1
      <3>3. Logs \subseteq LogSet /\ \A l \in Logs : LogRight(l)
        BY OwnAreSessions DEF AssociationInv, DiskRight, Logs, ToSet
      <3> QED
        BY <3>2, <3>3
    <2> QED
      BY <2>1, <2>2
  <1>7. PICK ch : ch = [chains[r] EXCEPT !.wrote = TRUE]
    OBVIOUS
  <1>8. /\ ch \in ChainSet /\ ch.built = chains[r].built /\ ch.step = chains[r].step
        /\ ch.verdict = chains[r].verdict /\ chains' = [chains EXCEPT ![r] = ch]
    BY <1>1, <1>4, <1>7 DEF ChainSet
  <1>9. DiskRight'
    BY <1>4, <1>6, <1>8, TouchKeeps
  <1>10. ChainFits(r, ch)
    BY <1>2, <1>8 DEF ChainFits
  <1>11. CASE jobs[r].backend \in {"opencode", "agy"}
    <2>1. PICK n, x, qu : n = Len(queues[r]) /\ x = SessionEvent(s) /\ qu = Append(queues[r], x)
      OBVIOUS
    <2>2. s \in Sessions
      BY <1>5, OwnAreSessions
    <2>3. x \in Reports /\ x.kind = "session" /\ x.session = s
      BY <2>1, <2>2 DEF SessionEvent, Reports
    <2>4. /\ qu \in Seq(Reports) /\ n \in Nat /\ DOMAIN qu = 1 .. n + 1 /\ qu[n + 1] = x
          /\ \A k \in 1 .. n : qu[k] = queues[r][k]
      BY <1>1, <2>1, <2>3, AppendProperties
    <2>5. \A k \in 1 .. n + 1 : k \in 1 .. n \/ k = n + 1
      BY <2>4
    <2>6. PICK f, b : f = watches[r].finished /\ b = chains[r].step
      OBVIOUS
    <2>7. /\ \A k \in 1 .. n :
               /\ queues[r][k].kind = "session" => queues[r][k].session \in OwnSessions(r)
               /\ queues[r][k].kind = "started" => b = "running"
          /\ \A k, l \in 1 .. n :
               /\ queues[r][k].kind = "finished" /\ queues[r][l].kind = "finished" => k = l
               /\ queues[r][k].kind = "finished" /\ queues[r][l].kind = "started" => k < l
          /\ f + (IF \E k \in 1 .. n : queues[r][k].kind = "finished" THEN 1 ELSE 0) = PastAt(r, b)
      <3>1. QueueFits(r, b, queues[r], f) /\ DOMAIN queues[r] = 1 .. n
        BY <1>1, <1>2, <2>1, <2>6
      <3> QED
        BY ONLY <3>1 DEF QueueFits
    <2>8. (\E k \in 1 .. n + 1 : qu[k].kind = "finished") <=> \E k \in 1 .. n : queues[r][k].kind = "finished"
      <3>1. 1 .. n \subseteq 1 .. n + 1
        BY <2>4
      <3> QED
        BY <2>3, <2>4, <2>5, <3>1
    <2>9. QueueFits(r, b, qu, f)
      <3>1. \A k \in 1 .. n + 1 :
              /\ qu[k].kind = "session" => qu[k].session \in OwnSessions(r)
              /\ qu[k].kind = "session" => jobs[r].backend \in {"opencode", "agy"}
              /\ qu[k].kind = "started" => b = "running"
        BY <1>5, <1>11, <2>3, <2>4, <2>5, <2>7
      <3>2. \A k, l \in 1 .. n + 1 :
              /\ qu[k].kind = "finished" /\ qu[l].kind = "finished" => k = l
              /\ qu[k].kind = "finished" /\ qu[l].kind = "started" => k < l
        BY <2>3, <2>4, <2>5, <2>7
      <3>3. f + (IF \E k \in 1 .. n + 1 : qu[k].kind = "finished" THEN 1 ELSE 0) = PastAt(r, b)
        BY <2>7, <2>8
      <3>4. b # "build" /\ DOMAIN qu = 1 .. n + 1
        BY <1>4, <2>4, <2>6
      <3> QED
        BY ONLY <3>1, <3>2, <3>3, <3>4 DEF QueueFits
    <2>10. queues' = [queues EXCEPT ![r] = qu]
      BY <1>4, <1>11, <2>1
    <2> QED
      BY <1>1, <1>2, <1>4, <1>8, <1>9, <1>10, <2>4, <2>6, <2>9, <2>10, SameAttempts
  <1>12. CASE jobs[r].backend \notin {"opencode", "agy"}
    BY <1>1, <1>2, <1>4, <1>8, <1>9, <1>10, <1>12, SameAttempts
  <1> QED
    BY <1>11, <1>12

-----------------------------------------------------------------------------
(* Readers: what they resolve, and set on the row again, is the row's own.  *)
LEMMA ReaderFacts ==
    ASSUME AssociationInv, reader.pc # "idle"
    PROVE  /\ reader.of \in Rows /\ jobs[reader.of].kind = "execute" /\ reader.row \in RowSet
           /\ \E k \in 1 .. Latest(reader.of) : reader.row.nonce = AttemptNonce(reader.of, k)
           /\ reader.row.session \in Maybe(OwnSessions(reader.of))
           /\ reader.pc # "read" => reader.session \in OwnSessions(reader.of)
  BY DEF AssociationInv, ReaderRight

LEMMA MarkedForReader ==
    ASSUME AssociationInv, reader.pc # "idle", reader.row.nonce # Nobody,
           NEW l \in Marked(reader.row.nonce)
    PROVE  l.session \in OwnSessions(reader.of)
  <1>1. PICK k \in 1 .. Latest(reader.of) : reader.row.nonce = AttemptNonce(reader.of, k)
    BY ReaderFacts
  <1>2. reader.of \in Rows
    BY ReaderFacts
  <1>3. k \in Nat \ {0}
    <2>1. Tries(reader.of) \in Nat
      BY <1>2, RowIsItself
    <2> QED
      BY <2>1 DEF Latest
  <1>4. l.session = Fresh(reader.of, k) /\ k \in 1 .. Tries(reader.of)
    BY <1>1, <1>2, <1>3, MarkedIsOwn
  <1> QED
    BY <1>4 DEF OwnSessions

LEMMA ValidatedAreOwn ==
    ASSUME AssociationInv, reader.pc # "idle", NEW s \in LocateValidated(reader.of, reader.row)
    PROVE  /\ s \in OwnSessions(reader.of)
           /\ ~Ours(reader.of, reader.row) => jobs[reader.of].backend = "codex"
  <1>1. CASE jobs[reader.of].backend \in {"codex", "opencode"} /\ reader.row.nonce # Nobody
    <2>1. jobs[reader.of].backend = "codex" /\ s \in Newest(Marked(reader.row.nonce))
      BY <1>1 DEF LocateValidated
    <2>2. Marked(reader.row.nonce) \subseteq Logs
      BY DEF Marked
    <2>3. PICK l \in Marked(reader.row.nonce) : s = l.session
      BY <2>1, <2>2, NewestAreOf
    <2> QED
      BY <1>1, <2>1, <2>3, MarkedForReader
  <1>2. CASE ~(jobs[reader.of].backend \in {"codex", "opencode"} /\ reader.row.nonce # Nobody)
    <2>1. reader.row.session # Nobody /\ s \in OnDisk(reader.row.session)
      BY <1>2 DEF LocateValidated
    <2>2. s = reader.row.session
      BY <2>1 DEF OnDisk
    <2>3. Ours(reader.of, reader.row)
      BY <1>2, <2>1 DEF Ours
    <2> QED
      BY <2>1, <2>2, <2>3, ReaderFacts DEF Maybe
  <1> QED
    BY <1>1, <1>2

LEMMA ResolvedAreOwn ==
    ASSUME AssociationInv, reader.pc # "idle"
    PROVE  Resolved(reader.of, reader.row) \subseteq OwnSessions(reader.of)
  BY ValidatedAreOwn, ReaderFacts DEF Resolved, Ours, Maybe

LEMMA HealedRow ==
    ASSUME AssociationInv, reader.pc # "idle"
    PROVE  \E ro \in RowSet : /\ Healed(reader.of, reader.row) = [rows EXCEPT ![reader.of] = ro]
                              /\ ro.active = rows[reader.of].active
                              /\ ro.nonce = rows[reader.of].nonce
                              /\ SessionFits(reader.of, ro.session)
  <1>1. PICK r : r = reader.of
    OBVIOUS
  <1>2. r \in Rows
    BY <1>1, ReaderFacts
  <1>3. rows[r] \in RowSet /\ rows = [rows EXCEPT ![r] = rows[r]] /\ SessionFits(r, rows[r].session)
    BY <1>2, RowIsItself, Fits
  <1>4. CASE Ours(r, reader.row) \/ LocateValidated(r, reader.row) = {}
    BY <1>1, <1>3, <1>4 DEF Healed
  <1>5. CASE ~(Ours(r, reader.row) \/ LocateValidated(r, reader.row) = {})
    <2>1. PICK s : s = CHOOSE x \in LocateValidated(r, reader.row) : TRUE
      OBVIOUS
    <2>2. s \in LocateValidated(r, reader.row)
      BY <1>5, <2>1
    <2>3. s \in OwnSessions(r) /\ jobs[r].backend = "codex"
      BY <1>1, <1>5, <2>2, ValidatedAreOwn
    <2>4. s \in Sessions
      BY <1>2, <2>3, OwnAreSessions
    <2>5. PICK ro : ro = [rows[r] EXCEPT !.session = s]
      OBVIOUS
    <2>6. ro \in RowSet /\ ro.active = rows[r].active /\ ro.nonce = rows[r].nonce /\ ro.session = s
      BY <1>3, <2>4, <2>5 DEF RowSet, Maybe
    <2>7. SessionFits(r, ro.session)
      BY <2>3, <2>6 DEF SessionFits, Maybe
    <2>8. Healed(r, reader.row) = [rows EXCEPT ![r] = ro]
      BY <1>5, <2>1, <2>5 DEF Healed
    <2> QED
      BY <1>1, <2>6, <2>7, <2>8
  <1> QED
    BY <1>4, <1>5

LEMMA ReadersKeep ==
    ASSUME AssociationInv,
           (\E r \in Rows : CallReads(r)) \/ LogsResolve \/ SteerResolve \/ SteerGivesUp
    PROVE  AssociationInv'
  <1>1. ASSUME NEW r \in Rows, CallReads(r) PROVE AssociationInv'
    <2>1. ReaderRight'
      <3>1. /\ reader' = [pc |-> "read", of |-> r, row |-> rows[r]] /\ jobs[r].kind = "execute"
            /\ jobs' = jobs /\ rows' = rows /\ chains' = chains
        BY <1>1 DEF CallReads
      <3>2. /\ reader'.pc = "read" /\ reader'.of = r /\ reader'.row = rows[r]
        BY <3>1
      <3>3. /\ Rows' = Rows /\ Latest(r)' = Latest(r) /\ OwnSessions(r)' = OwnSessions(r)
            /\ \A k : AttemptNonce(r, k)' = AttemptNonce(r, k)
        BY <3>1 DEF Rows, Latest, Tries, OwnSessions, Fresh, AttemptNonce
      <3>4. /\ rows[r] \in RowSet /\ Tries(r) \in Nat /\ AttemptsRight(r)
        BY RowIsItself DEF RowRight
      <3>5. Latest(r) \in 1 .. Latest(r)
        BY <3>4 DEF Latest
      <3>6. rows[r].nonce = AttemptNonce(r, Latest(r)) /\ rows[r].session \in Maybe(OwnSessions(r))
        BY <3>1, <3>4 DEF AttemptsRight
      <3> QED
        BY <3>1, <3>2, <3>3, <3>4, <3>5, <3>6 DEF ReaderRight, Maybe
    <2>2. /\ jobs' = jobs /\ rows' = rows /\ chains' = chains /\ queues' = queues
          /\ watches' = watches /\ disk' = disk
      BY <1>1 DEF CallReads
    <2> QED
      BY <2>1, <2>2, RowIsItself, Fits, SameAttempts
  <1>2. CASE SteerGivesUp
    <2>1. reader.of \in Rows
      BY <1>2, ReaderFacts DEF SteerGivesUp
    <2>2. ReaderRight'
      BY <1>2 DEF ReaderRight, SteerGivesUp, Idle
    <2>3. /\ jobs' = jobs /\ rows' = rows /\ chains' = chains /\ queues' = queues
          /\ watches' = watches /\ disk' = disk
      BY <1>2 DEF SteerGivesUp
    <2> QED
      BY <2>1, <2>2, <2>3, RowIsItself, Fits, SameAttempts
  <1>3. CASE LogsResolve
    <2>1. PICK r : r = reader.of
      OBVIOUS
    <2>2. r \in Rows
      BY <1>3, <2>1, ReaderFacts DEF LogsResolve
    <2>3. PICK ro \in RowSet : /\ Healed(r, reader.row) = [rows EXCEPT ![r] = ro]
                               /\ ro.active = rows[r].active /\ ro.nonce = rows[r].nonce
                               /\ SessionFits(r, ro.session)
      BY <1>3, <2>1, HealedRow DEF LogsResolve
    <2>4. ReaderRight'
      BY <1>3 DEF ReaderRight, LogsResolve, Idle
    <2>5. /\ jobs' = jobs /\ rows' = [rows EXCEPT ![r] = ro] /\ chains' = chains /\ queues' = queues
          /\ watches' = watches /\ disk' = disk
      BY <1>3, <2>1, <2>3 DEF LogsResolve
    <2> QED
      BY <2>2, <2>3, <2>4, <2>5, RowIsItself, Fits, SameAttempts
  <1>4. CASE SteerResolve
    <2>1. PICK r : r = reader.of
      OBVIOUS
    <2>2. r \in Rows /\ reader.pc # "idle"
      BY <1>4, <2>1, ReaderFacts DEF SteerResolve
    <2>3. PICK ro \in RowSet : /\ Healed(r, reader.row) = [rows EXCEPT ![r] = ro]
                               /\ ro.active = rows[r].active /\ ro.nonce = rows[r].nonce
                               /\ SessionFits(r, ro.session)
      BY <2>1, <2>2, HealedRow
    <2>4. PICK s \in Resolved(r, reader.row) :
            reader' = [pc |-> "waiting", of |-> r, row |-> reader.row, session |-> s]
      BY <1>4, <2>1 DEF SteerResolve
    <2>5. PICK ch : ch = [chains[r] EXCEPT !.token = @ \/ reader.row.active]
      OBVIOUS
    <2>6. /\ chains' = [chains EXCEPT ![r] = ch] /\ rows' = [rows EXCEPT ![r] = ro]
          /\ jobs' = jobs /\ queues' = queues /\ watches' = watches /\ disk' = disk
      BY <1>4, <2>1, <2>3, <2>5 DEF SteerResolve
    <2>7. /\ ch \in ChainSet /\ ch.built = chains[r].built /\ ch.step = chains[r].step
          /\ ch.verdict = chains[r].verdict
      <3>1. reader.row.active \in BOOLEAN /\ chains[r].token \in BOOLEAN
        BY <2>2, ReaderFacts, RowIsItself DEF RowSet, ChainSet
      <3> QED
        BY <2>2, <2>5, <3>1, RowIsItself DEF ChainSet
    <2>8. ChainFits(r, ch)
      BY <2>2, <2>7, Fits DEF ChainFits
    <2>9. ReaderRight'
      <3>1. /\ reader'.pc = "waiting" /\ reader'.of = r /\ reader'.row = reader.row /\ reader'.session = s
        BY <2>4
      <3>2. /\ r \in Rows /\ jobs[r].kind = "execute" /\ reader.row \in RowSet
            /\ \E k \in 1 .. Latest(r) : reader.row.nonce = AttemptNonce(r, k)
            /\ reader.row.session \in Maybe(OwnSessions(r))
        BY <2>1, <2>2, ReaderFacts
      <3>3. s \in OwnSessions(r)
        BY <2>1, <2>2, <2>4, ResolvedAreOwn
      <3>4. DOMAIN chains = Rows
        BY RowFacts DEF AssociationInv
      <3>5. Tries(r)' = Tries(r)
        BY <2>6, <2>7, <3>2, <3>4 DEF Tries
      <3>6. /\ Rows' = Rows /\ Latest(r)' = Latest(r) /\ OwnSessions(r)' = OwnSessions(r)
            /\ \A k : AttemptNonce(r, k)' = AttemptNonce(r, k)
        BY <2>6, <3>5 DEF Rows, Latest, OwnSessions, Fresh, AttemptNonce
      <3> QED
        BY <2>6, <3>1, <3>2, <3>3, <3>6 DEF ReaderRight, Maybe
    <2> QED
      BY <2>2, <2>3, <2>6, <2>7, <2>8, <2>9, RowIsItself, Fits, SameAttempts
  <1> QED
    BY <1>1, <1>2, <1>3, <1>4

-----------------------------------------------------------------------------
(* A row is added.                                                          *)
LEMMA RowMayTakeSession ==
    ASSUME AssociationInv, NEW q \in Rows, jobs'[q] = jobs[q], chains'[q] = chains[q],
           queues'[q] = queues[q], watches'[q] = watches[q],
           rows'[q].nonce = rows[q].nonce, SessionFits(q, rows'[q].session)
    PROVE  AttemptsRight(q)' /\ QueueRight(q)'
  <1>1. Tries(q)' = Tries(q) /\ Latest(q)' = Latest(q) /\ Past(q)' = Past(q)
    BY DEF Tries, Latest, Past
  <1>2. \A k : AttemptNonce(q, k)' = AttemptNonce(q, k) /\ Fresh(q, k)' = Fresh(q, k)
    BY DEF AttemptNonce, Fresh
  <1>3. OwnSessions(q)' = OwnSessions(q)
    BY <1>1 DEF OwnSessions, Fresh
  <1>4. AttemptsRight(q) /\ QueueRight(q)
    BY DEF AssociationInv
  <1>5. AttemptsRight(q)'
    BY <1>1, <1>2, <1>3, <1>4 DEF AttemptsRight, SessionFits, Maybe
  <1>6. \A k, kind : Is(q, k, kind)' <=> Is(q, k, kind)
    BY DEF Is
  <1>7. QueueRight(q)'
    BY <1>1, <1>2, <1>3, <1>4, <1>6 DEF QueueRight
  <1> QED
    BY <1>5, <1>7

NewChain == [step |-> "build", built |-> <<>>, wrote |-> FALSE, token |-> FALSE, verdict |-> FALSE]

\* What a step leaves of the rows that were there, and what it adds.
OldRowsRight(others) ==
  /\ others \in Seq(RowSet) /\ Len(others) = Len(jobs)
  /\ \A q \in Rows : /\ others[q].nonce = rows[q].nonce
                      /\ others[q].active \in {FALSE, rows[q].active}
                      /\ SessionFits(q, others[q].session)

NewJobRight(job, session, others) ==
  /\ job \in JobSet /\ session \in Maybe(Sessions)
  /\ \A q \in Rows : job.nonce # Nobody => jobs[q].nonce # job.nonce
  /\ \/ job.nonce = Nobody
     \/ job.nonce = <<Len(jobs) + 1>> /\ ~job.restart
     \/ \E q \in Rows : job.nonce = <<q>> \o <<"restart">> /\ job.restart /\ ~others[q].active
  /\ job.kind = "consult" => job.nonce = Nobody /\ job.resumed = Nobody
  /\ job.kind = "execute" /\ job.resumed = Nobody => job.nonce # Nobody /\ session = Nobody
  /\ job.resumed # Nobody => /\ job.nonce = Nobody /\ Opened(job.resumed)
                             /\ session \in {Nobody, job.resumed}
  /\ job.parent # Nobody => job.parent \in Rows /\ job.resumed \in OwnSessions(job.parent)

LEMMA NewRow ==
    ASSUME AssociationInv, NEW job, NEW session, NEW others, Add(job, session, others),
           OldRowsRight(others), NewJobRight(job, session, others),
           disk' = disk, reader' = reader \/ reader' = Idle
    PROVE  AssociationInv'
  <1> USE DEF OldRowsRight, NewJobRight
  <1>1. PICK n : n = Len(jobs) + 1
    OBVIOUS
  <1>2. PICK row : row = [active |-> TRUE, nonce |-> job.nonce, session |-> session]
    OBVIOUS
  <1>3. /\ jobs' = Append(jobs, job) /\ rows' = Append(others, row) /\ chains' = Append(chains, NewChain)
        /\ queues' = Append(queues, <<>>) /\ watches' = Append(watches, [finished |-> 0, on |-> FALSE])
    BY <1>2 DEF Add, NewChain
  <1>4. /\ row \in RowSet /\ row.active /\ row.nonce = job.nonce /\ row.session = session
    BY <1>2 DEF RowSet, JobSet
  <1>5. <<>> \in Seq(Attempts) /\ <<>> \in Seq(Reports) /\ Len(<<>>) = 0
    OBVIOUS
  <1>6. NewChain \in ChainSet /\ NewChain.step = "build" /\ NewChain.built = <<>> /\ ~NewChain.verdict
    BY <1>5 DEF NewChain, ChainSet
  <1>7. [finished |-> 0, on |-> FALSE] \in WatchSet
    BY DEF WatchSet
  <1>8. /\ jobs \in Seq(JobSet) /\ chains \in Seq(ChainSet) /\ queues \in Seq(Seq(Reports)) /\ watches \in Seq(WatchSet)
        /\ Len(chains) = Len(jobs) /\ Len(queues) = Len(jobs) /\ Len(watches) = Len(jobs)
        /\ Len(jobs) \in Nat
    BY LenProperties DEF AssociationInv, RowsType
  <1>9. /\ jobs' \in Seq(JobSet) /\ Len(jobs') = n /\ jobs'[n] = job
        /\ \A q \in 1 .. Len(jobs) : jobs'[q] = jobs[q]
    BY <1>1, <1>3, <1>8, AppendProperties
  <1>10. /\ rows' \in Seq(RowSet) /\ Len(rows') = n /\ rows'[n] = row
         /\ \A q \in 1 .. Len(jobs) : rows'[q] = others[q]
    BY <1>1, <1>3, <1>4, AppendProperties
  <1>11. /\ chains' \in Seq(ChainSet) /\ Len(chains') = n /\ chains'[n] = NewChain
         /\ \A q \in 1 .. Len(jobs) : chains'[q] = chains[q]
    BY <1>1, <1>3, <1>6, <1>8, AppendProperties
  <1>12. /\ queues' \in Seq(Seq(Reports)) /\ Len(queues') = n /\ queues'[n] = <<>>
         /\ \A q \in 1 .. Len(jobs) : queues'[q] = queues[q]
    BY <1>1, <1>3, <1>5, <1>8, AppendProperties
  <1>13. /\ watches' \in Seq(WatchSet) /\ Len(watches') = n /\ watches'[n] = [finished |-> 0, on |-> FALSE]
         /\ \A q \in 1 .. Len(jobs) : watches'[q] = watches[q]
    BY <1>1, <1>3, <1>7, <1>8, AppendProperties
  <1>14. RowsType'
    BY <1>9, <1>10, <1>11, <1>12, <1>13 DEF RowsType
  <1>15. /\ Rows = 1 .. Len(jobs) /\ Rows' = 1 .. n /\ n \in Rows' /\ n \in Nat \ {0}
         /\ Rows \subseteq Rows' /\ \A q \in Rows' : q \in Rows \/ q = n
    BY <1>1, <1>8, <1>9 DEF Rows
  <1>16. RowsType
    BY DEF AssociationInv
  <1>17. Grows
    <2>1. \A q \in Rows : Tries(q)' = Tries(q)
      BY <1>11, <1>15 DEF Tries
    <2>2. \A q \in Rows : Tries(q) \in Nat
      BY <1>16, TriesAreNumbers
    <2> QED
      BY <1>9, <1>15, <2>1, <2>2 DEF Grows
  <1>18. \A q \in Rows : /\ others[q].nonce = rows[q].nonce
                         /\ others[q].active \in {FALSE, rows[q].active}
                         /\ SessionFits(q, others[q].session)
    BY DEF OldRowsRight
  <1>19. ASSUME NEW q \in Rows PROVE RowRight(q)'
    <2>1. JobRight(q)'
      <3>1. ASSUME NEW p \in Rows PROVE rows'[p].active => rows[p].active
        <4>1. rows'[p] = others[p]
          BY <1>10, <1>15
        <4>2. others[p].active \in {FALSE, rows[p].active}
          BY <1>18
        <4> QED
          BY ONLY <4>1, <4>2
      <3>2. JobRight(q)
        BY DEF AssociationInv
      <3> QED
        BY <1>14, <1>16, <1>17, <3>1, <3>2, JobsStay
    <2>2. AttemptsRight(q)' /\ QueueRight(q)'
      <3>1. /\ jobs'[q] = jobs[q] /\ chains'[q] = chains[q] /\ queues'[q] = queues[q]
            /\ watches'[q] = watches[q] /\ rows'[q] = others[q]
        BY <1>9, <1>10, <1>11, <1>12, <1>13, <1>15
      <3>2. rows'[q].nonce = rows[q].nonce /\ SessionFits(q, rows'[q].session)
        BY <1>18, <3>1
      <3> QED
        BY <3>1, <3>2, RowMayTakeSession
    <2> QED
      BY <2>1, <2>2 DEF RowRight
  <1>20. Tries(n)' = 0 /\ Latest(n)' = 1 /\ Past(n)' = 0
    <2>1. Tries(n)' = 0
      BY <1>5, <1>6, <1>11 DEF Tries
    <2> QED
      BY <1>6, <1>11, <2>1 DEF Latest, Past
  <1>21. \A q \in 1 .. n - 1 : q \in Rows /\ rows'[q] = others[q]
    BY <1>1, <1>8, <1>10, <1>15
  <1>22. JobRight(n)'
    <2>1. OwnNonce(n)'
      <3>1. CASE job.nonce = Nobody
        BY <1>9, <3>1 DEF OwnNonce
      <3>2. CASE job.nonce = <<Len(jobs) + 1>> /\ ~job.restart
        BY <1>1, <1>9, <3>2 DEF OwnNonce
      <3>3. ASSUME NEW q \in Rows, job.nonce = <<q>> \o <<"restart">>, job.restart, ~others[q].active
            PROVE  OwnNonce(n)'
        <4>1. q \in 1 .. n - 1
          BY <1>1, <1>8, <1>15
        <4> QED
          BY <1>9, <1>21, <3>3, <4>1 DEF OwnNonce
      <3> QED
        BY <3>1, <3>2, <3>3
    <2>2. job.resumed # Nobody => Opened(job.resumed)'
      BY <1>14, <1>16, <1>17, Growth
    <2>3. job.parent # Nobody => job.parent \in Rows' /\ job.resumed \in OwnSessions(job.parent)'
      BY <1>14, <1>15, <1>16, <1>17, Growth
    <2> QED
      BY <1>9, <2>1, <2>2, <2>3 DEF JobRight
  <1>23. AttemptsRight(n)'
    <2>1. OwnSessions(n)' = {job.resumed} \ {Nobody}
      <3>1. 1 .. Tries(n)' = {}
        BY <1>20
      <3> QED
        BY <1>9, <3>1 DEF OwnSessions
    <2>2. job.kind = "execute" => session \in {Nobody} \cup ({job.resumed} \ {Nobody})
      BY DEF JobSet
    <2>3. AttemptNonce(n, 1)' = job.nonce
      BY <1>9 DEF AttemptNonce
    <2>4. job.kind = "execute" => session \in Maybe(OwnSessions(n))'
      BY <2>1, <2>2 DEF Maybe
    <2>5. 1 .. Tries(n)' = {}
      BY <1>20
    <2>6. /\ jobs'[n] = job /\ rows'[n].nonce = job.nonce /\ rows'[n].session = session
          /\ chains'[n].step = "build" /\ ~chains'[n].verdict
      BY <1>4, <1>6, <1>9, <1>10, <1>11
    <2> QED
      BY <1>20, <2>3, <2>4, <2>5, <2>6 DEF AttemptsRight
  <1>24. QueueRight(n)'
    <2>1. queues'[n] = <<>> /\ DOMAIN queues'[n] = {}
      BY <1>12
    <2>2. watches'[n].finished = 0 /\ ~watches'[n].on
      BY <1>13
    <2> QED
      BY <1>20, <2>1, <2>2 DEF QueueRight
  <1>25. \A q \in Rows' : JobRight(q)' /\ AttemptsRight(q)' /\ QueueRight(q)'
    BY <1>15, <1>19, <1>22, <1>23, <1>24 DEF RowRight
  <1>26. NoncesApart'
    <2>1. NoncesApart
      BY DEF AssociationInv
    <2>2. ASSUME NEW q \in Rows', NEW p \in Rows', jobs'[q].nonce = jobs'[p].nonce, jobs'[q].nonce # Nobody
          PROVE  q = p
      <3>1. CASE q \in Rows /\ p \in Rows
        BY <1>9, <1>15, <2>1, <2>2, <3>1 DEF NoncesApart
      <3>2. CASE q \in Rows /\ p = n
        BY <1>9, <1>15, <2>2, <3>2
      <3>3. CASE q = n /\ p \in Rows
        BY <1>9, <1>15, <2>2, <3>3
      <3> QED
        BY <1>15, <3>1, <3>2, <3>3
    <2> QED
      BY <2>2 DEF NoncesApart
  <1>27. DiskRight'
    <2>1. \A l : LogRight(l) => LogRight(l)'
      BY <1>14, <1>16, <1>17, Growth
    <2> QED
      BY <2>1 DEF AssociationInv, DiskRight
  <1>28. ReaderRight'
    <2>1. CASE reader' = reader
      BY <1>14, <1>16, <1>17, <2>1, ReaderStays DEF AssociationInv
    <2>2. CASE reader' = Idle
      BY <2>2 DEF ReaderRight, Idle
    <2> QED
      BY <2>1, <2>2
  <1> QED
    BY <1>14, <1>25, <1>26, <1>27, <1>28 DEF AssociationInv

\* What a job is named after.
LEMMA NonceShapes ==
    ASSUME AssociationInv, NEW q \in Rows, NEW n \in Nat, jobs[q].nonce # Nobody
    PROVE  /\ jobs[q].nonce = <<n>> => q = n
           /\ jobs[q].nonce = <<n>> \o <<"restart">> => ~rows[n].active
  <1>1. OwnNonce(q) /\ q \in Nat
    BY DEF AssociationInv, JobRight, Rows
  <1>2. \A k \in Nat : /\ Len(<<k>>) = 1 /\ <<k>>[1] = k
                       /\ Len(<<k>> \o <<"restart">>) = 2 /\ (<<k>> \o <<"restart">>)[1] = k
    BY ShortNonces
  <1>3. CASE jobs[q].nonce = <<q>>
    BY <1>1, <1>2, <1>3
  <1>4. ASSUME NEW p \in 1 .. q - 1, jobs[q].nonce = <<p>> \o <<"restart">>, ~rows[p].active
        PROVE  /\ jobs[q].nonce = <<n>> => q = n
               /\ jobs[q].nonce = <<n>> \o <<"restart">> => ~rows[n].active
    <2>1. p \in Nat
      BY <1>1
    <2>2. jobs[q].nonce = <<n>> \o <<"restart">> => p = n
      BY <1>2, <1>4, <2>1
    <2>3. jobs[q].nonce # <<n>>
      BY <1>2, <1>4, <2>1
    <2> QED
      BY <1>4, <2>2, <2>3
  <1> QED
    BY <1>1, <1>3, <1>4 DEF OwnNonce

LEMMA RowsStayForNewRow ==
    ASSUME AssociationInv
    PROVE  /\ rows \in Seq(RowSet) /\ Len(rows) = Len(jobs) /\ Len(jobs) \in Nat /\ Rows = 1 .. Len(jobs)
           /\ \A q \in Rows : SessionFits(q, rows[q].session)
  <1>1. RowsType
    BY DEF AssociationInv
  <1>2. \A q \in Rows : SessionFits(q, rows[q].session)
    BY Fits
  <1> QED
    BY <1>1, <1>2, RowFacts DEF RowsType, Rows

LEMMA SubmitKeeps ==
    ASSUME AssociationInv, NEW kind \in Kinds, NEW b \in Backends, Submit(kind, b)
    PROVE  AssociationInv'
  <1>1. PICK n, m, job : /\ n = Len(jobs) + 1 /\ m = IF kind = "execute" THEN <<n>> ELSE Nobody
                         /\ job = Job(kind, b, m)
    OBVIOUS
  <1>2. n \in Nat /\ Len(jobs) \in Nat /\ Rows = 1 .. Len(jobs)
    BY <1>1, RowsStayForNewRow
  <1>3. m \in Nonces /\ (kind = "execute" => m = <<n>> /\ m # Nobody) /\ (kind # "execute" => m = Nobody)
    BY <1>1, <1>2, ShortNonces, NobodyIsNone DEF Nonces
  <1>4. kind \in {"execute", "consult"} /\ b \in {"codex", "claude", "opencode", "agy"}
    BY AssociationAssumption
  <1>5. /\ job.kind = kind /\ job.nonce = m /\ job.resumed = Nobody /\ job.parent = Nobody
        /\ ~job.restart
    BY <1>1 DEF Job
  <1>6. job \in JobSet
    BY <1>1, <1>3, <1>4 DEF Job, JobSet, Maybe
  <1>7. Add(job, Nobody, rows) /\ disk' = disk /\ reader' = reader
    BY <1>1 DEF Submit
  <1>8. \A q \in Rows : job.nonce # Nobody => jobs[q].nonce # job.nonce
    <2>1. ASSUME NEW q \in Rows, job.nonce # Nobody, jobs[q].nonce = job.nonce PROVE FALSE
      <3>1. jobs[q].nonce = <<n>> /\ jobs[q].nonce # Nobody
        BY <1>3, <1>4, <1>5, <2>1
      <3>2. q = n
        BY <1>2, <3>1, NonceShapes
      <3> QED
        BY <1>1, <1>2, <3>2
    <2> QED
      BY <2>1
  <1>9. Nobody \in Maybe(Sessions)
    BY DEF Maybe
  <1>10. job.nonce = Nobody \/ (job.nonce = <<Len(jobs) + 1>> /\ ~job.restart)
    BY <1>1, <1>3, <1>4, <1>5
  <1>11. /\ rows \in Seq(RowSet) /\ Len(rows) = Len(jobs)
         /\ \A q \in Rows : SessionFits(q, rows[q].session)
    BY RowsStayForNewRow
  <1>12. /\ job.kind = "consult" => job.nonce = Nobody
         /\ job.kind = "execute" => job.nonce # Nobody
    BY <1>3, <1>5
  <1> QED
    <2>1. OldRowsRight(rows)
      BY <1>11 DEF OldRowsRight
    <2>2. NewJobRight(job, Nobody, rows)
      BY <1>5, <1>6, <1>8, <1>9, <1>10, <1>12 DEF NewJobRight
    <2> QED
      BY <1>7, <2>1, <2>2, NewRow

LEMMA RestartKeeps ==
    ASSUME AssociationInv, NEW r \in Rows, Restart(r)
    PROVE  AssociationInv'
  <1>1. PICK ro, others : /\ ro = [rows[r] EXCEPT !.active = FALSE]
                          /\ others = [rows EXCEPT ![r] = ro]
    OBVIOUS
  <1>2. /\ RowRight(r) /\ rows[r] \in RowSet /\ r \in Nat /\ chains[r].verdict /\ rows[r].active
    BY RowIsItself DEF Restart, Over
  <1>3. /\ jobs[r].kind = "execute" /\ ~jobs[r].restart /\ jobs[r].resumed = Nobody
    BY <1>2 DEF RowRight, AttemptsRight
  <1>4. jobs[r].nonce = <<r>>
    BY <1>2, <1>3 DEF RowRight, JobRight, OwnNonce
  <1>5. PICK m, job : /\ m = <<r>> \o <<"restart">>
                      /\ job = [Job("execute", "codex", m) EXCEPT !.restart = TRUE]
    OBVIOUS
  <1>6. m \in Nonces /\ m # Nobody
    BY <1>2, <1>5, ShortNonces, NobodyIsNone DEF Nonces
  <1>7. /\ job.kind = "execute" /\ job.nonce = m /\ job.resumed = Nobody /\ job.parent = Nobody
        /\ job.restart
    BY <1>5 DEF Job
  <1>8. job \in JobSet
    BY <1>5, <1>6 DEF Job, JobSet, Maybe
  <1>9. Add(job, Nobody, others) /\ disk' = disk /\ reader' = reader
    BY <1>1, <1>4, <1>5 DEF Restart
  <1>10. /\ rows \in Seq(RowSet) /\ Len(rows) = Len(jobs) /\ Rows = 1 .. Len(rows)
         /\ \A q \in Rows : SessionFits(q, rows[q].session)
    BY RowsStayForNewRow
  <1>11. ro \in RowSet /\ ~ro.active /\ ro.nonce = rows[r].nonce /\ ro.session = rows[r].session
    BY <1>1, <1>2 DEF RowSet
  <1>12. ro.active = FALSE
    BY <1>1, <1>2 DEF RowSet
  <1>13. /\ others \in Seq(RowSet) /\ Len(others) = Len(jobs)
         /\ \A q \in Rows : others[q] = IF q = r THEN ro ELSE rows[q]
    BY <1>1, <1>10, <1>11, ExceptSeq
  <1>14. \A q \in Rows : /\ others[q].nonce = rows[q].nonce /\ others[q].active \in {FALSE, rows[q].active}
                         /\ SessionFits(q, others[q].session)
    BY <1>10, <1>11, <1>13, <1>12
  <1>15. \A q \in Rows : jobs[q].nonce # job.nonce
    <2>1. ASSUME NEW q \in Rows, jobs[q].nonce = job.nonce PROVE FALSE
      <3>1. jobs[q].nonce = <<r>> \o <<"restart">> /\ jobs[q].nonce # Nobody
        BY <1>5, <1>6, <1>7, <2>1
      <3>2. ~rows[r].active
        BY <1>2, <3>1, NonceShapes
      <3> QED
        BY <1>2, <3>2
    <2> QED
      BY <2>1
  <1>16. job.nonce = <<r>> \o <<"restart">> /\ job.restart /\ ~others[r].active
    BY <1>5, <1>7, <1>11, <1>13
  <1>17. Nobody \in Maybe(Sessions)
    BY DEF Maybe
  <1> QED
    <2>1. OldRowsRight(others)
      BY <1>13, <1>14 DEF OldRowsRight
    <2>2. NewJobRight(job, Nobody, others)
      BY <1>6, <1>7, <1>8, <1>15, <1>16, <1>17 DEF NewJobRight
    <2> QED
      BY <1>9, <2>1, <2>2, NewRow

LEMMA SteerInsertKeeps ==
    ASSUME AssociationInv, SteerInsert
    PROVE  AssociationInv'
  <1>1. reader.pc = "waiting"
    BY DEF SteerInsert
  <1>2. PICK r, s : r = reader.of /\ s = reader.session
    OBVIOUS
  <1>3. r \in Rows /\ s \in OwnSessions(r) /\ jobs[r].kind = "execute"
    BY <1>1, <1>2, ReaderFacts
  <1>4. s \in Sessions /\ s # Nobody
    BY <1>3, OwnAreSessions
  <1>5. Opened(s)
    <2>1. CASE s \in {Fresh(r, i) : i \in 1 .. Tries(r)}
      BY <1>3, <2>1 DEF Opened
    <2>2. CASE s = jobs[r].resumed
      BY <1>3, <1>4, <2>2 DEF AssociationInv, JobRight
    <2> QED
      BY <1>3, <2>1, <2>2 DEF OwnSessions
  <1>6. PICK ro \in RowSet : /\ Healed(r, reader.row) = [rows EXCEPT ![r] = ro]
                             /\ ro.active = rows[r].active /\ ro.nonce = rows[r].nonce
                             /\ SessionFits(r, ro.session)
    BY <1>1, <1>2, HealedRow
  <1>7. PICK others : others = [rows EXCEPT ![r] = ro]
    OBVIOUS
  <1>8. /\ rows \in Seq(RowSet) /\ Len(rows) = Len(jobs) /\ Rows = 1 .. Len(rows)
        /\ \A q \in Rows : SessionFits(q, rows[q].session)
    BY RowsStayForNewRow
  <1>9. /\ others \in Seq(RowSet) /\ Len(others) = Len(jobs)
        /\ \A q \in Rows : others[q] = IF q = r THEN ro ELSE rows[q]
    BY <1>3, <1>6, <1>7, <1>8, ExceptSeq
  <1>10. \A q \in Rows : /\ others[q].nonce = rows[q].nonce /\ others[q].active \in {FALSE, rows[q].active}
                         /\ SessionFits(q, others[q].session)
    BY <1>6, <1>8, <1>9
  <1>11. PICK job : job = [Job("execute", jobs[r].backend, Nobody) EXCEPT !.resumed = s, !.parent = r]
    OBVIOUS
  <1>12. jobs[r] \in JobSet /\ r \in Nat
    BY <1>3, RowIsItself
  <1>13. /\ job.kind = "execute" /\ job.nonce = Nobody /\ job.resumed = s /\ job.parent = r
         /\ ~job.restart
    BY <1>11 DEF Job
  <1>14. job \in JobSet
    BY <1>4, <1>11, <1>12 DEF Job, JobSet, Maybe, Nonces
  <1>15. PICK session \in {Nobody, s} : Add(job, session, others)
    BY <1>2, <1>6, <1>7, <1>11 DEF SteerInsert
  <1>16. session \in Maybe(Sessions)
    BY <1>4, <1>15 DEF Maybe
  <1>17. disk' = disk /\ reader' = Idle
    BY DEF SteerInsert
  <1> QED
    <2>1. OldRowsRight(others)
      BY <1>9, <1>10 DEF OldRowsRight
    <2>2. NewJobRight(job, session, others)
      BY <1>3, <1>4, <1>5, <1>13, <1>14, <1>15, <1>16 DEF NewJobRight
    <2> QED
      BY <1>15, <1>17, <2>1, <2>2, NewRow

-----------------------------------------------------------------------------
(* The invariant holds from the start, and every action keeps it.           *)
LEMMA AssociationInvStarts == AssociationInit => AssociationInv
  <1>1. ASSUME AssociationInit PROVE AssociationInv
    <2>1. Rows = {}
      BY <1>1 DEF AssociationInit, Rows
    <2>2. RowsType
      BY <1>1 DEF AssociationInit, RowsType
    <2>3. DiskRight
      BY <1>1 DEF AssociationInit, DiskRight
    <2>4. ReaderRight
      BY <1>1 DEF AssociationInit, ReaderRight, Idle
    <2> QED
      BY <2>1, <2>2, <2>3, <2>4 DEF AssociationInv, NoncesApart
  <1> QED
    BY <1>1

LEMMA AssociationInvKept == AssociationInv /\ [AssociationNext]_agentVars => AssociationInv'
  <1> SUFFICES ASSUME AssociationInv, [AssociationNext]_agentVars
               PROVE  AssociationInv'
    OBVIOUS
  <1>1. ASSUME NEW kind \in Kinds, NEW b \in Backends, Submit(kind, b) PROVE AssociationInv'
    BY <1>1, SubmitKeeps
  <1>2. ASSUME NEW r \in Rows, Begin(r) PROVE AssociationInv'
    BY <1>2, BeginKeeps
  <1>3. ASSUME NEW r \in Rows, Retry(r) PROVE AssociationInv'
    BY <1>3, RetryKeeps
  <1>4. ASSUME NEW r \in Rows, ChainEnds(r) PROVE AssociationInv'
    BY <1>4, ChainEndsKeeps
  <1>5. ASSUME NEW r \in Rows, Writes(r) PROVE AssociationInv'
    BY <1>5, WritesKeeps
  <1>6. ASSUME NEW r \in Rows, OnEvent(r) PROVE AssociationInv'
    BY <1>6, OnEventKeeps
  <1>7. ASSUME NEW r \in Rows, Watch(r) \/ WatchFires(r) PROVE AssociationInv'
    BY <1>7, WatchesKeep
  <1>8. ASSUME NEW r \in Rows, Finish(r) \/ Cancel(r) PROVE AssociationInv'
    BY <1>8, FinishAndCancelKeep
  <1>9. ASSUME NEW r \in Rows, Restart(r) PROVE AssociationInv'
    BY <1>9, RestartKeeps
  <1>10. ASSUME NEW r \in Rows, CallReads(r) PROVE AssociationInv'
    BY <1>10, ReadersKeep
  <1>11. CASE LogsResolve \/ SteerResolve \/ SteerGivesUp
    BY <1>11, ReadersKeep
  <1>12. CASE SteerInsert
    BY <1>12, SteerInsertKeeps
  <1>13. CASE UNCHANGED agentVars
    <2>1. /\ jobs' = jobs /\ rows' = rows /\ chains' = chains /\ queues' = queues /\ watches' = watches
          /\ disk' = disk /\ reader' = reader
      BY <1>13 DEF agentVars
    <2>2. RowsType' /\ Rows' = Rows
      BY <2>1 DEF AssociationInv, RowsType, Rows
    <2>3. Grows
      BY <2>1, <2>2, TriesAreNumbers DEF AssociationInv, Grows, Tries
    <2>4. \A r \in Rows : JobRight(r)'
      BY <2>1, <2>2, <2>3, JobsStay DEF AssociationInv
    <2>5. \A r \in Rows : AttemptsRight(r)' /\ QueueRight(r)'
      BY <2>1, <2>2, RowStays DEF AssociationInv
    <2>6. ReaderRight'
      BY <2>1, <2>2, <2>3, ReaderStays DEF AssociationInv
    <2>7. DiskRight'
      BY <2>1, <2>2, <2>3, Growth DEF AssociationInv, DiskRight
    <2>8. NoncesApart'
      BY <2>1, <2>2 DEF AssociationInv, NoncesApart
    <2> QED
      BY <2>2, <2>4, <2>5, <2>6, <2>7, <2>8 DEF AssociationInv
  <1> QED
    BY <1>1, <1>2, <1>3, <1>4, <1>5, <1>6, <1>7, <1>8, <1>9, <1>10, <1>11, <1>12, <1>13
    DEF AssociationNext

LEMMA AssociationInvAlways == AssociationSpec => []AssociationInv
  BY AssociationInvStarts, AssociationInvKept, PTL DEF AssociationSpec

(* What a row names, and a steered run resumes, is a session that an        *)
(* attempt of that row opened or the one it resumed (resolve_session_id).   *)
THEOREM AssociationSessionIsOwn == AssociationSpec => []SessionIsOwn
  <1>1. AssociationInv => SessionIsOwn
    BY DEF AssociationInv, AttemptsRight, JobRight, SessionIsOwn, Maybe
  <1> QED
    BY <1>1, AssociationInvAlways, PTL

(* A run that ended names the session of its last attempt, as far as what   *)
(* it names is found to be its own (Attempt, AttemptBuilder).               *)
THEOREM AssociationEndedRowNamesLast == AssociationSpec => []EndedRowNamesLast
  <1>1. ASSUME AssociationInv PROVE EndedRowNamesLast
    <2>1. ASSUME NEW r \in EndedFresh, jobs[r].backend # "agy", Ours(r, rows[r])
          PROVE  rows[r].session = Fresh(r, Tries(r))
      <3>1. r \in Rows /\ jobs[r].kind = "execute" /\ jobs[r].resumed = Nobody
        BY DEF EndedFresh
      <3>2. /\ AttemptsRight(r) /\ OwnNonce(r) /\ jobs[r].nonce # Nobody /\ jobs[r] \in JobSet
            /\ Tries(r) \in Nat
        BY <1>1, <3>1, RowIsItself DEF RowRight, JobRight
      <3>3. rows[r].session # Nobody
        BY <2>1 DEF Ours
      <3>4. CASE jobs[r].backend \in {"codex", "opencode"}
        <4>1. rows[r].nonce = AttemptNonce(r, Latest(r)) /\ Latest(r) \in Nat \ {0}
          BY <3>2 DEF AttemptsRight, Latest
        <4>2. rows[r].nonce # Nobody
          BY <3>1, <3>2, <4>1, AttemptNonces
        <4>3. PICK l \in Marked(rows[r].nonce) : l.session = rows[r].session
          BY <2>1, <3>4, <4>2 DEF Ours
        <4>4. l.session = Fresh(r, Latest(r)) /\ Latest(r) \in 1 .. Tries(r)
          BY <1>1, <3>1, <4>1, <4>2, <4>3, MarkedIsOwn
        <4>5. Latest(r) = Tries(r)
          BY <3>2, <4>4 DEF Latest
        <4> QED
          BY <4>3, <4>4, <4>5
      <3>5. CASE jobs[r].backend = "claude"
        BY <3>1, <3>2, <3>3, <3>5 DEF AttemptsRight
      <3> QED
        BY <2>1, <3>2, <3>4, <3>5 DEF JobSet
    <2> QED
      BY <2>1 DEF EndedRowNamesLast
  <1> QED
    BY <1>1, AssociationInvAlways, PTL

-----------------------------------------------------------------------------
\* A list, whatever it holds.
IsList(s) == Len(s) \in Nat /\ s = [i \in 1 .. Len(s) |-> s[i]]

\* Lists and the sequences of the library are the same.
LEMMA SeqIsList ==
  ASSUME NEW S, NEW s \in Seq(S)
  PROVE  IsList(s) /\ DOMAIN s = 1 .. Len(s)
<1>1. Len(s) \in Nat /\ DOMAIN s = 1 .. Len(s)
  BY LenProperties
<1>2. s = [i \in DOMAIN s |-> s[i]]
  BY SeqDef
<1> QED BY <1>1, <1>2 DEF IsList

LEMMA ListIsSeq ==
  ASSUME NEW s, IsList(s)
  PROVE  s \in Seq({s[i] : i \in 1 .. Len(s)}) /\ DOMAIN s = 1 .. Len(s)
<1> DEFINE S == {s[i] : i \in 1 .. Len(s)}
           n == Len(s)
<1>1. n \in Nat /\ s = [i \in 1 .. n |-> s[i]] /\ \A i \in 1 .. n : s[i] \in S
  BY DEF IsList
<1> HIDE DEF S, n
<1>2. s \in Seq(S)
  BY <1>1, ListOf
<1>3. DOMAIN s = 1 .. n
  BY <1>1
<1> QED BY <1>2, <1>3 DEF S, n

LEMMA AppendedList ==
  ASSUME NEW s, NEW e, IsList(s)
  PROVE  /\ IsList(Append(s, e)) /\ Len(Append(s, e)) = Len(s) + 1
         /\ \A i \in 1 .. Len(s) : Append(s, e)[i] = s[i]
         /\ Append(s, e)[Len(s) + 1] = e
<1> DEFINE S == {s[i] : i \in 1 .. Len(s)} \cup {e}
<1>1. Len(s) \in Nat /\ s = [i \in 1 .. Len(s) |-> s[i]] /\ \A i \in 1 .. Len(s) : s[i] \in S
  BY DEF IsList
<1>2. e \in S
  OBVIOUS
<1> HIDE DEF S
<1>3. s \in Seq(S)
  BY <1>1, ListOf
<1>4. /\ Append(s, e) \in Seq(S) /\ Len(Append(s, e)) = Len(s) + 1
      /\ \A i \in 1 .. Len(s) : Append(s, e)[i] = s[i]
      /\ Append(s, e)[Len(s) + 1] = e
  BY <1>2, <1>3, AppendProperties
<1>5. IsList(Append(s, e))
  BY <1>4, SeqIsList
<1> QED BY <1>4, <1>5

-----------------------------------------------------------------------------
(***************************************************************************)
(* Curation: what an event adds to a timeline.                             *)
(***************************************************************************)
\* A timeline that grew: each line stayed or is a later state of its part.
Later(l, m) == m = l \/ (m.part # "" /\ m.part = l.part)
Grown(a, b) == Len(a) <= Len(b) /\ \A n \in 1 .. Len(a) : Later(a[n], b[n])
NotBefore(lines, r) == \A n \in 1 .. Len(lines) : lines[n].turn >= r

LEMMA GrownTransitive ==
  ASSUME NEW a, NEW b, NEW c, IsList(a), IsList(b), IsList(c), Grown(a, b), Grown(b, c)
  PROVE  Grown(a, c)
<1>1. Len(a) \in Nat /\ Len(b) \in Nat /\ Len(c) \in Nat
  BY DEF IsList
<1>2. ASSUME NEW n \in 1 .. Len(a) PROVE Later(a[n], c[n])
  <2>1. n \in 1 .. Len(b)
    BY <1>1 DEF Grown
  <2>2. Later(a[n], b[n]) /\ Later(b[n], c[n])
    BY <2>1 DEF Grown
  <2> QED BY <2>2 DEF Later
<1> QED BY <1>1, <1>2 DEF Grown

LEMMA GrownReflexive == ASSUME NEW a, IsList(a) PROVE Grown(a, a)
BY DEF Grown, Later, IsList

\* A line placed in a timeline: at the end, or where its part is.
LEMMA PlacedFacts ==
  ASSUME NEW lines, NEW line, IsList(lines)
  PROVE  /\ IsList(Placed(lines, line)) /\ Grown(lines, Placed(lines, line))
         /\ \A r : NotBefore(lines, r) /\ line.turn >= r => NotBefore(Placed(lines, line), r)
<1>1. Len(lines) \in Nat /\ DOMAIN lines = 1 .. Len(lines)
  BY ListIsSeq DEF IsList
<1>2. CASE line.part # "" /\ \E n \in DOMAIN lines : lines[n].part = line.part
  <2> DEFINE p == [n \in 1 .. Len(lines) |-> IF lines[n].part = line.part THEN line ELSE lines[n]]
  <2>1. Placed(lines, line) = p
    BY <1>1, <1>2 DEF Placed
  <2>2. Len(p) = Len(lines)
    <3>1. p = [n \in 1 .. Len(lines) |-> p[n]] /\ \A n \in 1 .. Len(lines) : p[n] \in {p[k] : k \in 1 .. Len(lines)}
      OBVIOUS
    <3> HIDE DEF p
    <3> QED BY <1>1, <3>1, ListOf
  <2>3. IsList(p)
    BY <1>1, <2>2 DEF IsList
  <2>4. Grown(lines, p)
    <3>1. ASSUME NEW n \in 1 .. Len(lines) PROVE Later(lines[n], p[n])
      BY <1>2 DEF Later
    <3> HIDE DEF p
    <3> QED BY <1>1, <2>2, <3>1 DEF Grown
  <2>5. ASSUME NEW r, NotBefore(lines, r), line.turn >= r PROVE NotBefore(p, r)
    <3>1. ASSUME NEW n \in 1 .. Len(lines) PROVE p[n].turn >= r
      <4>1. lines[n].turn >= r
        BY <2>5 DEF NotBefore
      <4>2. p[n] = line \/ p[n] = lines[n]
        OBVIOUS
      <4> HIDE DEF p
      <4> QED BY <2>5, <4>1, <4>2
    <3> HIDE DEF p
    <3> QED BY <2>2, <3>1 DEF NotBefore
  <2> QED BY <2>1, <2>3, <2>4, <2>5
<1>3. CASE ~(line.part # "" /\ \E n \in DOMAIN lines : lines[n].part = line.part)
  <2>1. Placed(lines, line) = Append(lines, line)
    BY <1>3 DEF Placed
  <2> DEFINE p == Append(lines, line)
  <2>2. /\ IsList(p) /\ Len(p) = Len(lines) + 1
        /\ \A i \in 1 .. Len(lines) : p[i] = lines[i]
        /\ p[Len(lines) + 1] = line
    BY AppendedList
  <2> HIDE DEF p
  <2>3. Grown(lines, p)
    <3>1. \A n \in 1 .. Len(lines) : Later(lines[n], p[n])
      BY <2>2 DEF Later
    <3>2. Len(lines) <= Len(p)
      BY <1>1, <2>2
    <3> QED BY <3>1, <3>2 DEF Grown
  <2>4. ASSUME NEW r, NotBefore(lines, r), line.turn >= r PROVE NotBefore(p, r)
    <3>1. ASSUME NEW n \in 1 .. Len(p) PROVE p[n].turn >= r
      <4>1. CASE n \in 1 .. Len(lines)
        BY <2>2, <2>4, <4>1 DEF NotBefore
      <4>2. CASE n \notin 1 .. Len(lines)
        <5>1. n = Len(lines) + 1
          BY <1>1, <2>2, <4>2
        <5> QED BY <2>2, <2>4, <5>1
      <4> QED BY <4>1, <4>2
    <3> QED BY <3>1 DEF NotBefore
  <2> QED BY <2>1, <2>2, <2>3, <2>4 DEF p
<1> QED BY <1>2, <1>3

\* What curation makes of acc and a line, or of acc and an event, of turn t.
Extends(acc, next, t) ==
  /\ IsList(next.lines) /\ Grown(acc.lines, next.lines)
  /\ \A r : NotBefore(acc.lines, r) /\ t >= r => NotBefore(next.lines, r)

LEMMA CuratedFacts ==
  ASSUME NEW acc, NEW line, IsList(acc.lines), NEW t, line.turn = t,
         line = [kind |-> line.kind, text |-> line.text, part |-> line.part, turn |-> t, echo |-> line.echo]
  PROVE  Extends(acc, Curated(acc, line), t)
<1> DEFINE placed == IF line.echo THEN [line EXCEPT !.text = "elided"] ELSE line
<1>1. placed.turn = t
  OBVIOUS
<1> HIDE DEF placed
<1>2. CASE line.echo /\ acc.elided
  BY <1>2, GrownReflexive DEF Curated, Extends
<1>3. CASE ~(line.echo /\ acc.elided)
  <2>1. Curated(acc, line).lines = Placed(acc.lines, placed)
    BY <1>3 DEF Curated, placed
  <2> QED BY <1>1, <2>1, PlacedFacts DEF Extends
<1> QED BY <1>2, <1>3

\* The steps of AddEvent and of Curate, one after the other.
AddBlock(a, fmt, asked, ev, j, elide) ==
  IF LinesOf(fmt, ev)[j].kind \notin asked THEN a
  ELSE Curated(a, [LinesOf(fmt, ev)[j] EXCEPT !.echo = @ /\ elide])
Blocks(g, acc, fmt, asked, ev, elide) ==
  g = [j \in 0 .. Len(ev.blocks) |->
        IF j = 0 THEN acc ELSE AddBlock(g[j - 1], fmt, asked, ev, j, elide)]

LEMMA AddEventFacts ==
  ASSUME NEW acc, NEW fmt, NEW asked, NEW ev, NEW elide, Len(ev.blocks) \in Nat
  PROVE  \E g : Blocks(g, acc, fmt, asked, ev, elide) /\ AddEvent(acc, fmt, asked, ev, elide) = g[Len(ev.blocks)]
<1> DEFINE n == Len(ev.blocks)
           To(g, m) == g = [j \in 0 .. m |-> IF j = 0 THEN acc ELSE AddBlock(g[j - 1], fmt, asked, ev, j, elide)]
           T == {m \in 0 .. n : \E g : To(g, m)}
<1>0. n \in Nat
  OBVIOUS
<1>1. 0 \in T
  <2> DEFINE g == [k \in 0 .. 0 |-> acc]
  <2>1. g = [j \in 0 .. 0 |-> IF j = 0 THEN acc ELSE AddBlock(g[j - 1], fmt, asked, ev, j, elide)]
    <3>1. \A k \in 0 .. 0 : k = 0
      OBVIOUS
    <3> QED BY <3>1
  <2>2. To(g, 0) /\ 0 \in 0 .. n
    BY <2>1
  <2> HIDE DEF g, To
  <2> QED BY <2>2
<1>2. ASSUME NEW m \in 1 .. n, m - 1 \in T PROVE m \in T
  <2>1. PICK g : To(g, m - 1)
    BY <1>2
  <2> DEFINE h == [k \in 0 .. m |-> IF k = m THEN AddBlock(g[m - 1], fmt, asked, ev, m, elide) ELSE g[k]]
  <2>2. ASSUME NEW k \in 0 .. m
        PROVE  h[k] = IF k = 0 THEN acc ELSE AddBlock(h[k - 1], fmt, asked, ev, k, elide)
    <3>1. CASE k = m
      <4>1. m - 1 \in 0 .. m /\ m - 1 # m /\ m # 0
        OBVIOUS
      <4> QED BY <3>1, <4>1
    <3>2. CASE k # m
      <4>1. k \in 0 .. m - 1 /\ (k # 0 => k - 1 \in 0 .. m /\ k - 1 # m)
        BY <3>2
      <4>2. g[k] = IF k = 0 THEN acc ELSE AddBlock(g[k - 1], fmt, asked, ev, k, elide)
        BY <2>1, <4>1
      <4> QED BY <3>2, <4>1, <4>2
    <3> QED BY <3>1, <3>2
  <2>3. To(h, m)
    BY <2>2
  <2>4. m \in 0 .. n
    OBVIOUS
  <2> HIDE DEF h, To
  <2> QED BY <2>3, <2>4
<1>3. n \in T
  <2>1. \A m \in 1 .. n : m - 1 \in T => m \in T
    BY <1>2
  <2> HIDE DEF T, n
  <2>2. \A m \in 0 .. n : m \in T
    BY <1>0, <1>1, <2>1, SetInduction
  <2> QED BY <1>0, <2>2
<1>4. \E g : Blocks(g, acc, fmt, asked, ev, elide)
  BY <1>3 DEF T, Blocks
<1> DEFINE steps == CHOOSE g : Blocks(g, acc, fmt, asked, ev, elide)
<1>5. Blocks(steps, acc, fmt, asked, ev, elide)
  BY <1>4
<1>6. AddEvent(acc, fmt, asked, ev, elide) = steps[n]
  BY DEF AddEvent, Blocks, AddBlock
<1> QED BY <1>5, <1>6

\* An event of turn t that makes no line changes nothing, and any other extends the timeline.
LEMMA AddEventExtends ==
  ASSUME NEW acc, NEW fmt, NEW asked, NEW ev, NEW elide, IsList(acc.lines), IsList(ev.blocks)
  PROVE  /\ Extends(acc, AddEvent(acc, fmt, asked, ev, elide), ev.turn)
         /\ ev.blocks = <<>> => AddEvent(acc, fmt, asked, ev, elide) = acc
<1> DEFINE n == Len(ev.blocks)
           t == ev.turn
<1>0. n \in Nat /\ DOMAIN ev.blocks = 1 .. n
  BY ListIsSeq DEF IsList
<1>1. PICK g : Blocks(g, acc, fmt, asked, ev, elide) /\ AddEvent(acc, fmt, asked, ev, elide) = g[n]
  BY <1>0, AddEventFacts
<1>2. g[0] = acc
  BY <1>0, <1>1 DEF Blocks
<1>3. ASSUME NEW j \in 1 .. n, Extends(acc, g[j - 1], t)
      PROVE  Extends(acc, g[j], t)
  <2> DEFINE line == [LinesOf(fmt, ev)[j] EXCEPT !.echo = @ /\ elide]
  <2>1. g[j] = IF LinesOf(fmt, ev)[j].kind \notin asked THEN g[j - 1] ELSE Curated(g[j - 1], line)
    <3>1. j \in 0 .. n /\ j # 0
      BY <1>0
    <3> QED BY <1>1, <3>1 DEF Blocks, AddBlock
  <2>2. line = [kind |-> line.kind, text |-> line.text, part |-> line.part, turn |-> t, echo |-> line.echo]
    BY <1>0 DEF LinesOf
  <2> HIDE DEF line, t
  <2>3. line.turn = t
    BY <2>2
  <2>4. Extends(g[j - 1], Curated(g[j - 1], line), t)
    BY <1>3, <2>2, <2>3, CuratedFacts DEF Extends
  <2>5. ASSUME NEW c, Extends(g[j - 1], c, t) PROVE Extends(acc, c, t)
    BY <1>3, <2>5, GrownTransitive DEF Extends
  <2> QED BY <1>3, <2>1, <2>4, <2>5
<1>4. Extends(acc, g[0], t)
  BY <1>2, GrownReflexive DEF Extends
<1>5. Extends(acc, g[n], t)
  <2> DEFINE T == {k \in 0 .. n : Extends(acc, g[k], t)}
  <2>1. 0 \in T
    BY <1>0, <1>4
  <2>2. \A j \in 1 .. n : j - 1 \in T => j \in T
    BY <1>3
  <2> HIDE DEF T, n
  <2>3. \A k \in 0 .. n : k \in T
    BY <1>0, <2>1, <2>2, SetInduction
  <2> QED BY <1>0, <2>3 DEF T
<1>6. ASSUME ev.blocks = <<>> PROVE AddEvent(acc, fmt, asked, ev, elide) = acc
  <2>1. n = 0
    BY <1>6
  <2> QED BY <1>1, <1>2, <2>1
<1> QED BY <1>1, <1>5, <1>6

\* The steps of a curation.
EventsTo(g, fmt, asked, events, elide) ==
  g = [n \in 0 .. Len(events) |->
        IF n = 0 THEN [elided |-> FALSE, lines |-> <<>>]
        ELSE AddEvent(g[n - 1], fmt, asked, events[n], elide)]

LEMMA CurateFacts ==
  ASSUME NEW fmt, NEW asked, NEW events, NEW elide, Len(events) \in Nat
  PROVE  \E g : EventsTo(g, fmt, asked, events, elide) /\ Curate(fmt, asked, events, elide) = g[Len(events)].lines
<1> DEFINE n == Len(events)
           none == [elided |-> FALSE, lines |-> <<>>]
           To(g, m) == g = [j \in 0 .. m |-> IF j = 0 THEN none ELSE AddEvent(g[j - 1], fmt, asked, events[j], elide)]
           T == {m \in 0 .. n : \E g : To(g, m)}
<1>0. n \in Nat
  OBVIOUS
<1>1. 0 \in T
  <2> DEFINE g == [k \in 0 .. 0 |-> none]
  <2>1. g = [j \in 0 .. 0 |-> IF j = 0 THEN none ELSE AddEvent(g[j - 1], fmt, asked, events[j], elide)]
    <3>1. \A k \in 0 .. 0 : k = 0
      OBVIOUS
    <3> QED BY <3>1
  <2>2. To(g, 0) /\ 0 \in 0 .. n
    BY <2>1
  <2> HIDE DEF g, To
  <2> QED BY <2>2
<1>2. ASSUME NEW m \in 1 .. n, m - 1 \in T PROVE m \in T
  <2>1. PICK g : To(g, m - 1)
    BY <1>2
  <2> DEFINE h == [k \in 0 .. m |-> IF k = m THEN AddEvent(g[m - 1], fmt, asked, events[m], elide) ELSE g[k]]
  <2>2. ASSUME NEW k \in 0 .. m
        PROVE  h[k] = IF k = 0 THEN none ELSE AddEvent(h[k - 1], fmt, asked, events[k], elide)
    <3>1. CASE k = m
      <4>1. m - 1 \in 0 .. m /\ m - 1 # m /\ m # 0
        OBVIOUS
      <4> QED BY <3>1, <4>1
    <3>2. CASE k # m
      <4>1. k \in 0 .. m - 1 /\ (k # 0 => k - 1 \in 0 .. m /\ k - 1 # m)
        BY <3>2
      <4>2. g[k] = IF k = 0 THEN none ELSE AddEvent(g[k - 1], fmt, asked, events[k], elide)
        BY <2>1, <4>1
      <4> QED BY <3>2, <4>1, <4>2
    <3> QED BY <3>1, <3>2
  <2>3. To(h, m)
    BY <2>2
  <2>4. m \in 0 .. n
    OBVIOUS
  <2> HIDE DEF h, To
  <2> QED BY <2>3, <2>4
<1>3. n \in T
  <2> HIDE DEF T, n
  <2> QED BY <1>0, <1>1, <1>2, SetInduction
<1>4. \E g : EventsTo(g, fmt, asked, events, elide)
  BY <1>3 DEF T, EventsTo
<1> DEFINE steps == CHOOSE g : EventsTo(g, fmt, asked, events, elide)
<1>5. EventsTo(steps, fmt, asked, events, elide)
  BY <1>4
<1>6. Curate(fmt, asked, events, elide) = steps[n].lines
  BY DEF Curate, EventsTo
<1> QED BY <1>5, <1>6

\* What a curation has made of the first m events.
LEMMA CurateSteps ==
  ASSUME NEW fmt, NEW asked, NEW events, NEW elide, IsList(events), \A i \in 1 .. Len(events) : IsList(events[i].blocks),
         NEW g, EventsTo(g, fmt, asked, events, elide)
  PROVE  /\ \A m \in 0 .. Len(events) : IsList(g[m].lines)
         /\ \A k, m \in 0 .. Len(events) : k <= m => Grown(g[k].lines, g[m].lines)
         /\ \A r : (\A i \in 1 .. Len(events) : events[i].turn >= r \/ events[i].blocks = <<>>)
                    => NotBefore(g[Len(events)].lines, r)
<1> DEFINE n == Len(events)
<1>0. n \in Nat
  BY DEF IsList
<1>1. g[0] = [elided |-> FALSE, lines |-> <<>>]
  BY <1>0 DEF EventsTo
<1>2. ASSUME NEW m \in 1 .. n PROVE g[m] = AddEvent(g[m - 1], fmt, asked, events[m], elide)
  <2>1. m \in 0 .. n /\ m # 0
    BY <1>0
  <2> QED BY <2>1 DEF EventsTo
<1>3. IsList(<<>>) /\ \A r : NotBefore(<<>>, r)
  BY DEF IsList, NotBefore
<1>4. ASSUME NEW m \in 1 .. n, IsList(g[m - 1].lines)
      PROVE  Extends(g[m - 1], g[m], events[m].turn) /\ (events[m].blocks = <<>> => g[m] = g[m - 1])
  BY <1>2, <1>4, AddEventExtends
<1>5. \A m \in 0 .. n : IsList(g[m].lines)
  <2> DEFINE T == {m \in 0 .. n : IsList(g[m].lines)}
  <2>1. 0 \in T
    BY <1>0, <1>1, <1>3
  <2>2. \A m \in 1 .. n : m - 1 \in T => m \in T
    BY <1>4 DEF Extends
  <2> HIDE DEF T, n
  <2>3. \A k \in 0 .. n : k \in T
    BY <1>0, <2>1, <2>2, SetInduction
  <2> QED BY <2>3 DEF T
<1>6. ASSUME NEW k \in 0 .. n PROVE \A m \in 0 .. n : k <= m => Grown(g[k].lines, g[m].lines)
  <2> DEFINE T == {m \in 0 .. n : k <= m => Grown(g[k].lines, g[m].lines)}
  <2>1. 0 \in T
    BY <1>0, <1>5, GrownReflexive
  <2>2. ASSUME NEW m \in 1 .. n, m - 1 \in T PROVE m \in T
    <3>1. m - 1 \in 0 .. n /\ m \in 0 .. n
      BY <1>0
    <3>2. CASE k <= m - 1
      <4>1. Grown(g[k].lines, g[m - 1].lines) /\ Grown(g[m - 1].lines, g[m].lines)
        BY <1>4, <1>5, <2>2, <3>1, <3>2 DEF Extends
      <4> QED BY <1>5, <3>1, <4>1, GrownTransitive
    <3>3. CASE k = m
      BY <1>5, <3>1, <3>3, GrownReflexive
    <3>4. CASE k > m
      BY <1>0, <3>1, <3>4
    <3> QED BY <1>0, <3>2, <3>3, <3>4
  <2> HIDE DEF T, n
  <2>3. \A j \in 0 .. n : j \in T
    BY <1>0, <2>1, <2>2, SetInduction
  <2> QED BY <2>3 DEF T
<1>7. ASSUME NEW r, \A i \in 1 .. n : events[i].turn >= r \/ events[i].blocks = <<>>
      PROVE  NotBefore(g[n].lines, r)
  <2> DEFINE T == {m \in 0 .. n : NotBefore(g[m].lines, r)}
  <2>1. 0 \in T
    BY <1>0, <1>1, <1>3
  <2>2. ASSUME NEW m \in 1 .. n, m - 1 \in T PROVE m \in T
    <3>1. IsList(g[m - 1].lines) /\ NotBefore(g[m - 1].lines, r) /\ m \in 0 .. n
      BY <1>0, <1>5, <2>2
    <3>2. CASE events[m].turn >= r
      BY <1>4, <3>1, <3>2 DEF Extends
    <3>3. CASE events[m].blocks = <<>>
      BY <1>4, <3>1, <3>3
    <3> QED BY <1>7, <3>2, <3>3
  <2> HIDE DEF T, n
  <2>3. \A j \in 0 .. n : j \in T
    BY <1>0, <2>1, <2>2, SetInduction
  <2> QED BY <1>0, <2>3 DEF T
<1> QED BY <1>5, <1>6, <1>7

\* A log that grew, its last line perhaps replaced where it made nothing.
Continues(old, new) ==
  /\ Len(old) <= Len(new)
  /\ \A i \in 1 .. Len(old) : new[i] = old[i] \/ (i = Len(old) /\ old[i].blocks = <<>>)
WellFormed(events) == IsList(events) /\ \A i \in 1 .. Len(events) : IsList(events[i].blocks)

(* The numbers of a timeline stay: that of a log that grew extends it.      *)
LEMMA CurateGrows ==
  ASSUME NEW fmt, NEW asked, NEW old, NEW new, NEW elide, WellFormed(old), WellFormed(new), Continues(old, new)
  PROVE  /\ IsList(Curate(fmt, asked, old, elide)) /\ IsList(Curate(fmt, asked, new, elide))
         /\ Grown(Curate(fmt, asked, old, elide), Curate(fmt, asked, new, elide))
<1> DEFINE n == Len(old)
<1>0. n \in Nat /\ Len(new) \in Nat /\ n <= Len(new)
  BY DEF WellFormed, IsList, Continues
<1>1. PICK g : EventsTo(g, fmt, asked, old, elide) /\ Curate(fmt, asked, old, elide) = g[n].lines
  BY <1>0, CurateFacts
<1>2. PICK h : EventsTo(h, fmt, asked, new, elide) /\ Curate(fmt, asked, new, elide) = h[Len(new)].lines
  BY <1>0, CurateFacts
<1>3. \A m \in 0 .. n : IsList(g[m].lines)
  BY <1>1, CurateSteps DEF WellFormed
<1>4. /\ \A m \in 0 .. Len(new) : IsList(h[m].lines)
      /\ \A k, m \in 0 .. Len(new) : k <= m => Grown(h[k].lines, h[m].lines)
  BY <1>2, CurateSteps DEF WellFormed
<1>5. g[0] = h[0] /\ \A m \in 1 .. n : g[m] = AddEvent(g[m - 1], fmt, asked, old[m], elide)
                    /\ h[m] = AddEvent(h[m - 1], fmt, asked, new[m], elide)
  <2>1. g[0] = h[0]
    BY <1>0, <1>1, <1>2 DEF EventsTo
  <2>2. ASSUME NEW m \in 1 .. n
        PROVE  g[m] = AddEvent(g[m - 1], fmt, asked, old[m], elide) /\ h[m] = AddEvent(h[m - 1], fmt, asked, new[m], elide)
    <3>1. m \in 0 .. n /\ m \in 0 .. Len(new) /\ m # 0
      BY <1>0
    <3> QED BY <1>1, <1>2, <3>1 DEF EventsTo
  <2> QED BY <2>1, <2>2
<1>6. ASSUME NEW m \in 0 .. n, m < n \/ n = 0 PROVE g[m] = h[m]
  <2> DEFINE T == {k \in 0 .. n : k < n \/ n = 0 => g[k] = h[k]}
  <2>1. 0 \in T
    BY <1>0, <1>5
  <2>2. ASSUME NEW k \in 1 .. n, k - 1 \in T PROVE k \in T
    <3>1. k \in 0 .. n /\ k - 1 < n /\ n # 0
      BY <1>0
    <3>2. g[k - 1] = h[k - 1]
      BY <2>2, <3>1
    <3>3. k < n => new[k] = old[k]
      BY <1>0 DEF Continues
    <3> QED BY <1>5, <3>1, <3>2, <3>3
  <2> HIDE DEF T, n
  <2>3. \A j \in 0 .. n : j \in T
    BY <1>0, <2>1, <2>2, SetInduction
  <2> QED BY <1>6, <2>3 DEF T
<1>7. Grown(g[n].lines, h[n].lines)
  <2>1. CASE n = 0
    BY <1>0, <1>3, <1>6, <2>1, GrownReflexive
  <2>2. CASE n # 0
    <3>1. n \in 1 .. n /\ n - 1 \in 0 .. n /\ n - 1 < n /\ n - 1 <= n
          /\ n \in 0 .. Len(new) /\ n - 1 \in 0 .. Len(new)
      BY <1>0, <2>2
    <3>2. g[n - 1] = h[n - 1]
      BY <1>6, <3>1
    <3>3. CASE new[n] = old[n]
      <4>1. g[n] = h[n]
        BY <1>5, <3>1, <3>2, <3>3
      <4> QED BY <1>3, <3>1, <4>1, GrownReflexive
    <3>4. CASE old[n].blocks = <<>>
      <4>1. g[n] = g[n - 1]
        <5>1. IsList(old[n].blocks) /\ IsList(g[n - 1].lines)
          BY <1>3, <3>1 DEF WellFormed
        <5> QED BY <1>5, <3>1, <3>4, <5>1, AddEventExtends
      <4>2. Grown(h[n - 1].lines, h[n].lines)
        BY <1>4, <3>1
      <4> QED BY <3>2, <4>1, <4>2
    <3> QED BY <3>1, <3>3, <3>4 DEF Continues
  <2> QED BY <2>1, <2>2
<1>8. n \in 0 .. n /\ n \in 0 .. Len(new) /\ Len(new) \in 0 .. Len(new)
  BY <1>0
<1>9. Grown(h[n].lines, h[Len(new)].lines)
  BY <1>0, <1>4, <1>8
<1> QED BY <1>1, <1>2, <1>3, <1>4, <1>7, <1>8, <1>9, GrownTransitive

-----------------------------------------------------------------------------
(***************************************************************************)
(* The log, the rows that start in it, and the pages of one of them.       *)
(***************************************************************************)
\* The lines after a start.
LEMMA FromStart ==
  ASSUME NEW events, IsList(events), NEW start \in 0 .. Len(events)
  PROVE  /\ IsList(SubSeq(events, start + 1, Len(events)))
         /\ Len(SubSeq(events, start + 1, Len(events))) = Len(events) - start
         /\ \A i \in 1 .. Len(events) - start :
              start + i \in 1 .. Len(events) /\ SubSeq(events, start + 1, Len(events))[i] = events[start + i]
<1> DEFINE S == {events[i] : i \in 1 .. Len(events)}
           n == Len(events)
           rest == SubSeq(events, start + 1, n)
<1>1. n \in Nat /\ events \in Seq(S) /\ \A i \in 1 .. n : events[i] \in S
  BY ListIsSeq DEF IsList
<1> HIDE DEF S, n
<1>2. start + 1 \in Int /\ n \in Int /\ start \in Nat /\ start <= n
  BY <1>1 DEF n
<1>3. \A i \in start + 1 .. n : events[i] \in S
  BY <1>1, <1>2
<1>4. /\ rest \in Seq(S) /\ Len(rest) = IF start + 1 <= n THEN n - (start + 1) + 1 ELSE 0
      /\ \A i \in 1 .. n - (start + 1) + 1 : rest[i] = events[start + 1 + i - 1]
  BY <1>1, <1>2, <1>3, SubSeqProperties
<1>5. IsList(rest)
  BY <1>4, SeqIsList
<1> HIDE DEF rest
<1>6. Len(rest) = n - start
  BY <1>1, <1>2, <1>4
<1>7. ASSUME NEW i \in 1 .. n - start PROVE start + i \in 1 .. n /\ rest[i] = events[start + i]
  <2>1. i \in 1 .. n - (start + 1) + 1 /\ start + 1 + i - 1 = start + i /\ start + i \in 1 .. n
    BY <1>1, <1>2
  <2> QED BY <1>4, <2>1
<1> QED BY <1>5, <1>6, <1>7 DEF rest, n

\* Half a line makes nothing, and the lines from a row's start on are of no turn before it.
LogOfEvents ==
  \A i \in 1 .. Len(log) :
    /\ IsList(log[i].blocks)
    /\ log[i].name = "half" => log[i].blocks = <<>>
    /\ \A r \in 1 .. Row : i > starts[r] => log[i].turn >= r \/ log[i].blocks = <<>>

\* What a caller was shown of a row is in the row's timeline.
InTimeline(row, lines, now) ==
  \A n \in DOMAIN lines : n \in 1 .. Len(now) /\ Later(lines[n], now[n]) /\ now[n].turn >= row

RowsOfLog ==
  /\ IsList(log) /\ starts \in Seq(Nat) /\ Row \in Nat \ {0}
  /\ \A r \in 1 .. Row : starts[r] \in 0 .. Len(log)
  /\ seen = [row |-> seen.row, lines |-> seen.lines] /\ seen.row \in 1 .. Row

TimelineInv ==
  /\ format \in DOMAIN Events \cup {"tokens"}
  /\ RowsOfLog
  /\ format # "tokens" => LogOfEvents /\ InTimeline(seen.row, seen.lines, TimelineOf(seen.row))

\* The timeline of the lines after a start has no line of a turn before.
LEMMA CuratedFromStart ==
  ASSUME NEW events, IsList(events), NEW s \in 0 .. Len(events), NEW row,
         \A i \in 1 .. Len(events) :
           /\ IsList(events[i].blocks)
           /\ i > s => events[i].turn >= row \/ events[i].blocks = <<>>,
         NEW fmt, NEW asked, NEW elide
  PROVE  /\ WellFormed(SubSeq(events, s + 1, Len(events)))
         /\ IsList(Curate(fmt, asked, SubSeq(events, s + 1, Len(events)), elide))
         /\ NotBefore(Curate(fmt, asked, SubSeq(events, s + 1, Len(events)), elide), row)
<1> DEFINE rest == SubSeq(events, s + 1, Len(events))
<1>2. /\ IsList(rest) /\ Len(rest) = Len(events) - s
      /\ \A i \in 1 .. Len(events) - s : s + i \in 1 .. Len(events) /\ rest[i] = events[s + i]
  BY FromStart
<1> HIDE DEF rest
<1>3. ASSUME NEW i \in 1 .. Len(rest)
      PROVE  IsList(rest[i].blocks) /\ (rest[i].turn >= row \/ rest[i].blocks = <<>>)
  <2>1. s + i \in 1 .. Len(events) /\ rest[i] = events[s + i]
    BY <1>2
  <2>2. s + i > s
    BY <1>2 DEF IsList
  <2>3. /\ IsList(events[s + i].blocks)
        /\ s + i > s => events[s + i].turn >= row \/ events[s + i].blocks = <<>>
    BY <2>1
  <2> QED BY <2>1, <2>2, <2>3
<1>4. WellFormed(rest)
  BY <1>2, <1>3 DEF WellFormed
<1>5. PICK g : EventsTo(g, fmt, asked, rest, elide) /\ Curate(fmt, asked, rest, elide) = g[Len(rest)].lines
  BY <1>2, CurateFacts DEF IsList
<1>6. /\ \A m \in 0 .. Len(rest) : IsList(g[m].lines)
      /\ NotBefore(g[Len(rest)].lines, row)
  BY <1>3, <1>4, <1>5, CurateSteps DEF WellFormed
<1>7. Len(rest) \in 0 .. Len(rest)
  BY <1>2 DEF IsList
<1>8. IsList(Curate(fmt, asked, rest, elide)) /\ NotBefore(Curate(fmt, asked, rest, elide), row)
  BY <1>5, <1>6, <1>7
<1> QED BY <1>4, <1>8 DEF rest

LEMMA TimelineIsList ==
  ASSUME NEW row \in 1 .. Row, RowsOfLog, LogOfEvents
  PROVE  /\ IsList(TimelineOf(row)) /\ DOMAIN TimelineOf(row) = 1 .. Len(TimelineOf(row))
         /\ WellFormed(TrimToStartLine(starts[row]))
         /\ NotBefore(TimelineOf(row), row)
<1>1. IsList(log) /\ starts[row] \in 0 .. Len(log)
  BY DEF RowsOfLog
<1>2. \A i \in 1 .. Len(log) :
        /\ IsList(log[i].blocks)
        /\ i > starts[row] => log[i].turn >= row \/ log[i].blocks = <<>>
  BY DEF LogOfEvents
<1>3. /\ IsList(TimelineOf(row)) /\ WellFormed(TrimToStartLine(starts[row]))
      /\ NotBefore(TimelineOf(row), row)
  <2> DEFINE s == starts[row]
             rest == SubSeq(log, s + 1, Len(log))
  <2>1. TimelineOf(row) = Curate(format, kinds, rest, row = 1) /\ TrimToStartLine(s) = rest
    BY DEF TimelineOf, TrimToStartLine
  <2>2. /\ WellFormed(rest) /\ IsList(Curate(format, kinds, rest, row = 1))
        /\ NotBefore(Curate(format, kinds, rest, row = 1), row)
    <3> HIDE DEF s
    <3> QED BY <1>1, <1>2, CuratedFromStart DEF s
  <2> QED BY <2>1, <2>2
<1> QED BY <1>3, ListIsSeq

LEMMA InvShowsPages == ASSUME TimelineInv PROVE PagesAddUp
<1> SUFFICES ASSUME format # "tokens" PROVE
      LET now == TimelineOf(seen.row) IN \A n \in DOMAIN seen.lines :
        /\ n \in DOMAIN now
        /\ now[n] = seen.lines[n] \/ (now[n].part # "" /\ now[n].part = seen.lines[n].part)
        /\ now[n].turn >= seen.row
  BY DEF PagesAddUp
<1>1. DOMAIN TimelineOf(seen.row) = 1 .. Len(TimelineOf(seen.row))
  BY TimelineIsList DEF TimelineInv, RowsOfLog
<1> QED BY <1>1 DEF TimelineInv, InTimeline, Later

LEMMA TimelineStarts == ASSUME TimelineInit PROVE TimelineInv
<1>1. log = <<>> /\ starts = <<0>> /\ seen = [row |-> 1, lines |-> <<>>]
  BY DEF TimelineInit
<1>2. RowsOfLog
  <2>1. IsList(log) /\ Len(log) = 0
    BY <1>1 DEF IsList
  <2>2. starts \in Seq(Nat) /\ Row = 1 /\ starts[1] = 0
    BY <1>1 DEF Row
  <2> QED BY <1>1, <2>1, <2>2 DEF RowsOfLog
<1>3. LogOfEvents
  BY <1>1 DEF LogOfEvents
<1>4. InTimeline(seen.row, seen.lines, TimelineOf(seen.row))
  BY <1>1 DEF InTimeline
<1> QED BY <1>2, <1>3, <1>4 DEF TimelineInit, TimelineInv

(* A log that grows, in the rows there are, moves nothing that was shown.   *)
LEMMA LogGrows ==
  ASSUME TimelineInv, format # "tokens", UNCHANGED <<format, kinds, starts, seen>>,
         IsList(log'), Continues(log, log'), LogOfEvents'
  PROVE  TimelineInv'
<1> DEFINE row == seen.row
           s == starts[row]
           old == SubSeq(log, s + 1, Len(log))
           new == SubSeq(log', s + 1, Len(log'))
<1>0. RowsOfLog /\ LogOfEvents /\ InTimeline(row, seen.lines, TimelineOf(row)) /\ row \in 1 .. Row
  BY DEF TimelineInv, RowsOfLog
<1>1. IsList(log) /\ Len(log) \in Nat /\ Len(log') \in Nat /\ Len(log) <= Len(log') /\ s \in 0 .. Len(log)
  BY <1>0 DEF RowsOfLog, IsList, Continues
<1>2. RowsOfLog'
  <2>1. \A r \in 1 .. Row : starts[r] \in 0 .. Len(log')
    BY <1>0, <1>1 DEF RowsOfLog
  <2> QED BY <1>0, <2>1 DEF RowsOfLog, Row
<1>3. s \in 0 .. Len(log')
  BY <1>1
<1>4. /\ IsList(old) /\ Len(old) = Len(log) - s
      /\ \A i \in 1 .. Len(log) - s : s + i \in 1 .. Len(log) /\ old[i] = log[s + i]
  BY <1>1, FromStart
<1>5. /\ IsList(new) /\ Len(new) = Len(log') - s
      /\ \A i \in 1 .. Len(log') - s : s + i \in 1 .. Len(log') /\ new[i] = log'[s + i]
  BY <1>3, FromStart
<1>6. WellFormed(old)
  BY <1>0, TimelineIsList DEF TrimToStartLine
<1>7. WellFormed(new) /\ NotBefore(TimelineOf(row)', row) /\ IsList(TimelineOf(row)')
  <2>1. \A i \in 1 .. Len(log') :
          /\ IsList(log'[i].blocks)
          /\ i > s => log'[i].turn >= row \/ log'[i].blocks = <<>>
    BY <1>0 DEF LogOfEvents, Row
  <2>2. TimelineOf(row)' = Curate(format, kinds, new, row = 1)
    BY DEF TimelineOf, TrimToStartLine
  <2>3. /\ WellFormed(new) /\ IsList(Curate(format, kinds, new, row = 1))
        /\ NotBefore(Curate(format, kinds, new, row = 1), row)
    <3> HIDE DEF s, row
    <3> QED BY <1>3, <2>1, CuratedFromStart
  <2> QED BY <2>2, <2>3
<1> HIDE DEF old, new
<1>8. Continues(old, new)
  <2>1. ASSUME NEW i \in 1 .. Len(old) PROVE new[i] = old[i] \/ (i = Len(old) /\ old[i].blocks = <<>>)
    <3>1. i \in 1 .. Len(log) - s /\ i \in 1 .. Len(log') - s /\ (s + i = Len(log) => i = Len(log) - s)
      BY <1>1, <1>4
    <3>2. s + i \in 1 .. Len(log) /\ old[i] = log[s + i] /\ new[i] = log'[s + i]
      BY <1>4, <1>5, <3>1
    <3>3. log'[s + i] = log[s + i] \/ (s + i = Len(log) /\ log[s + i].blocks = <<>>)
      BY <3>2 DEF Continues
    <3> QED BY <1>4, <3>1, <3>2, <3>3
  <2>2. Len(old) <= Len(new)
    BY <1>1, <1>4, <1>5
  <2> QED BY <2>1, <2>2 DEF Continues
<1>9. TimelineOf(row) = Curate(format, kinds, old, row = 1) /\ TimelineOf(row)' = Curate(format, kinds, new, row = 1)
  BY DEF TimelineOf, TrimToStartLine, old, new
<1>10. Grown(TimelineOf(row), TimelineOf(row)') /\ IsList(TimelineOf(row))
  BY <1>6, <1>7, <1>8, <1>9, CurateGrows
<1>11. InTimeline(row, seen.lines, TimelineOf(row)')
  <2> DEFINE now == TimelineOf(row)
             later == TimelineOf(row)'
  <2>1. ASSUME NEW n \in DOMAIN seen.lines
        PROVE  n \in 1 .. Len(later) /\ Later(seen.lines[n], later[n]) /\ later[n].turn >= row
    <3>1. n \in 1 .. Len(now) /\ Later(seen.lines[n], now[n])
      BY <1>0 DEF InTimeline
    <3>2. n \in 1 .. Len(later) /\ Later(now[n], later[n])
      BY <1>7, <1>10, <3>1 DEF Grown, IsList
    <3>3. later[n].turn >= row
      BY <1>7, <3>2 DEF NotBefore
    <3> QED BY <3>1, <3>2, <3>3 DEF Later
  <2> QED BY <2>1 DEF InTimeline
<1> QED BY <1>2, <1>11 DEF TimelineInv

WithLast(s, e) == [s EXCEPT ![Len(s)] = e]

LEMMA ReplacedLast ==
  ASSUME NEW s, NEW e, IsList(s), Len(s) # 0, NEW t, t = WithLast(s, e)
  PROVE  /\ IsList(t) /\ Len(t) = Len(s) /\ t[Len(s)] = e
         /\ \A i \in 1 .. Len(s) : i # Len(s) => t[i] = s[i]
<1> DEFINE n == Len(s)
<1>0. t = [s EXCEPT ![n] = e]
  BY DEF WithLast
<1>1. n \in Nat /\ s = [i \in 1 .. n |-> s[i]] /\ n \in 1 .. n
  BY DEF IsList
<1> HIDE DEF n
<1>2. t = [i \in 1 .. n |-> IF i = n THEN e ELSE s[i]]
  BY <1>0, <1>1
<1>3. t = [i \in 1 .. n |-> t[i]] /\ \A i \in 1 .. n : t[i] \in {t[k] : k \in 1 .. n}
  BY <1>2
<1>4. t[n] = e /\ \A i \in 1 .. n : i # n => t[i] = s[i]
  BY <1>1, <1>2
<1>5. Len(t) = n
  BY <1>1, <1>3, ListOf
<1> QED BY <1>1, <1>3, <1>4, <1>5 DEF IsList, n

\* A line the backend may add or make whole: nothing, or an event of the row that runs.
Written(line) ==
  /\ IsList(line.blocks) /\ (line.name = "half" => line.blocks = <<>>)
  /\ line.turn = Row \/ line.blocks = <<>>

LEMMA WholeIsWritten ==
  ASSUME format \in DOMAIN Events, NEW ev \in Events[format]
  PROVE  Written(Whole(ev))
<1>1. ev.name # "half" /\ ev.blocks \in Seq(Range(ev.blocks))
  BY EventsAssumption
<1>2. IsList(ev.blocks)
  BY <1>1, SeqIsList
<1> QED BY <1>1, <1>2 DEF Written, Whole

LEMMA EmptyIsList == IsList(<<>>)
BY DEF IsList

LEMMA HalfIsWritten == Written(Half) /\ Written([Half EXCEPT !.name = "garbled"])
BY EmptyIsList DEF Written, Half

LEMMA WriteKeeps ==
  ASSUME TimelineInv, Write
  PROVE  TimelineInv'
<1>1. format # "tokens" /\ format \in DOMAIN Events /\ RowsOfLog /\ LogOfEvents
  BY DEF Write, TimelineInv
<1>2. PICK line : log' = Append(log, line) /\ Written(line)
  BY <1>1, WholeIsWritten, HalfIsWritten DEF Write
<1>3. UNCHANGED <<format, kinds, starts, seen>>
  BY DEF Write
<1>4. /\ IsList(log') /\ Len(log') = Len(log) + 1 /\ Len(log) \in Nat
      /\ \A i \in 1 .. Len(log) : log'[i] = log[i]
      /\ log'[Len(log) + 1] = line
  BY <1>1, <1>2, AppendedList DEF RowsOfLog, IsList
<1>5. Continues(log, log')
  BY <1>4 DEF Continues
<1>6. LogOfEvents'
  <2> SUFFICES ASSUME NEW i \in 1 .. Len(log')
               PROVE  /\ IsList(log'[i].blocks)
                      /\ log'[i].name = "half" => log'[i].blocks = <<>>
                      /\ \A r \in 1 .. Row : i > starts[r] => log'[i].turn >= r \/ log'[i].blocks = <<>>
    BY <1>3 DEF LogOfEvents, Row
  <2>1. CASE i \in 1 .. Len(log)
    BY <1>1, <1>4, <2>1 DEF LogOfEvents
  <2>2. CASE i \notin 1 .. Len(log)
    <3>1. log'[i] = line
      BY <1>4, <2>2
    <3>2. \A r \in 1 .. Row : Row >= r
      BY <1>1 DEF RowsOfLog
    <3> QED BY <1>2, <3>1, <3>2 DEF Written
  <2> QED BY <2>1, <2>2
<1> QED BY <1>1, <1>3, <1>4, <1>5, <1>6, LogGrows

LEMMA WriteOnKeeps ==
  ASSUME TimelineInv, WriteOn
  PROVE  TimelineInv'
<1>1. format # "tokens" /\ format \in DOMAIN Events /\ RowsOfLog /\ LogOfEvents
  BY DEF WriteOn, TimelineInv
<1>2. PICK line : log' = [log EXCEPT ![Len(log)] = line] /\ Written(line)
  BY <1>1, WholeIsWritten, HalfIsWritten DEF WriteOn
<1>3. UNCHANGED <<format, kinds, starts, seen>>
  BY DEF WriteOn
<1>4. IsList(log) /\ Len(log) \in Nat /\ Len(log) # 0 /\ log[Len(log)].name = "half"
  <2>1. log # <<>> /\ log[Len(log)].name = "half"
    BY DEF WriteOn, Torn, Last
  <2>2. IsList(log) /\ Len(log) \in Nat
    BY <1>1 DEF RowsOfLog, IsList
  <2>3. Len(log) # 0
    <3> SUFFICES ASSUME Len(log) = 0 PROVE FALSE
      OBVIOUS
    <3>1. log \in Seq({log[i] : i \in 1 .. Len(log)})
      BY <2>2, ListIsSeq
    <3> QED BY <2>1, <3>1, EmptySeq
  <2> QED BY <2>1, <2>2, <2>3
<1>5. log[Len(log)].blocks = <<>> /\ Len(log) \in 1 .. Len(log)
  BY <1>1, <1>4 DEF LogOfEvents
<1>6. /\ IsList(log') /\ Len(log') = Len(log) /\ log'[Len(log)] = line
      /\ \A i \in 1 .. Len(log) : i # Len(log) => log'[i] = log[i]
  <2>1. log' = WithLast(log, line)
    BY <1>2 DEF WithLast
  <2> QED BY <1>4, <2>1, ReplacedLast
<1>7. Continues(log, log')
  BY <1>4, <1>5, <1>6 DEF Continues
<1>8. LogOfEvents'
  <2> SUFFICES ASSUME NEW i \in 1 .. Len(log)
               PROVE  /\ IsList(log'[i].blocks)
                      /\ log'[i].name = "half" => log'[i].blocks = <<>>
                      /\ \A r \in 1 .. Row : i > starts[r] => log'[i].turn >= r \/ log'[i].blocks = <<>>
    BY <1>3, <1>6 DEF LogOfEvents, Row
  <2>1. CASE i # Len(log)
    BY <1>1, <1>6, <2>1 DEF LogOfEvents
  <2>2. CASE i = Len(log)
    <3>1. log'[i] = line
      BY <1>6, <2>2
    <3>2. \A r \in 1 .. Row : Row >= r
      BY <1>1 DEF RowsOfLog
    <3> QED BY <1>2, <3>1, <3>2 DEF Written
  <2> QED BY <2>1, <2>2
<1> QED BY <1>1, <1>3, <1>6, <1>7, <1>8, LogGrows

LEMMA SteerKeepsRows ==
  ASSUME RowsOfLog, Steer
  PROVE  /\ RowsOfLog' /\ Row' = Row + 1 /\ starts'[Row + 1] = Len(log)
         /\ \A r \in 1 .. Row : starts'[r] = starts[r]
         /\ seen' = seen \/ seen'.lines = <<>>
<1>1. starts \in Seq(Nat) /\ Row \in Nat \ {0} /\ Row = Len(starts) /\ Len(log) \in Nat
  BY DEF RowsOfLog, Row, IsList
<1>2. /\ starts' \in Seq(Nat) /\ Row' = Row + 1 /\ starts'[Row + 1] = Len(log)
      /\ \A r \in 1 .. Row : starts'[r] = starts[r]
  BY <1>1, AppendProperties DEF Steer, Row
<1>3. \A r \in 1 .. Row + 1 : starts'[r] \in 0 .. Len(log)
  <2> SUFFICES ASSUME NEW r \in 1 .. Row + 1 PROVE starts'[r] \in 0 .. Len(log)
    OBVIOUS
  <2>1. CASE r \in 1 .. Row
    BY <1>2, <2>1 DEF RowsOfLog
  <2>2. CASE r = Row + 1
    BY <1>1, <1>2, <2>2
  <2> QED BY <1>1, <2>1, <2>2
<1>4. /\ seen' = [row |-> seen'.row, lines |-> seen'.lines] /\ seen'.row \in 1 .. Row + 1
      /\ seen' = seen \/ seen'.lines = <<>>
  <2>1. seen' = seen \/ seen' = [row |-> Row + 1, lines |-> <<>>]
    BY DEF Steer
  <2>2. CASE seen' = seen
    BY <1>1, <2>2 DEF RowsOfLog
  <2>3. CASE seen' = [row |-> Row + 1, lines |-> <<>>]
    BY <1>1, <2>3
  <2> QED BY <2>1, <2>2, <2>3
<1>5. UNCHANGED log
  BY DEF Steer
<1> QED BY <1>1, <1>2, <1>3, <1>4, <1>5 DEF RowsOfLog

LEMMA SteerKeeps ==
  ASSUME TimelineInv, Steer
  PROVE  TimelineInv'
<1>1. RowsOfLog
  BY DEF TimelineInv
<1>2. /\ RowsOfLog' /\ Row' = Row + 1 /\ starts'[Row + 1] = Len(log)
      /\ \A r \in 1 .. Row : starts'[r] = starts[r]
      /\ seen' = seen \/ seen'.lines = <<>>
  BY <1>1, SteerKeepsRows
<1>3. UNCHANGED <<format, kinds, log, spent>>
  BY DEF Steer
<1>4. ASSUME format # "tokens" PROVE LogOfEvents'
  <2> SUFFICES ASSUME NEW i \in 1 .. Len(log), NEW r \in 1 .. Row + 1, i > starts'[r]
               PROVE  log[i].turn >= r \/ log[i].blocks = <<>>
    BY <1>2, <1>3, <1>4 DEF LogOfEvents, TimelineInv
  <2>1. r \in 1 .. Row
    <3>1. Row \in Nat /\ Len(log) \in Nat
      BY <1>1 DEF RowsOfLog, IsList
    <3> QED BY <1>2, <3>1
  <2> QED BY <1>2, <1>4, <2>1 DEF LogOfEvents, TimelineInv
<1>5. ASSUME format # "tokens" PROVE InTimeline(seen.row, seen.lines, TimelineOf(seen.row))'
  <2>1. CASE seen' = seen
    <3>1. TimelineOf(seen.row)' = TimelineOf(seen.row)
      BY <1>1, <1>2, <1>3, <2>1 DEF TimelineOf, TrimToStartLine, RowsOfLog
    <3> QED BY <1>5, <2>1, <3>1 DEF InTimeline, TimelineInv
  <2>2. CASE seen'.lines = <<>>
    BY <2>2 DEF InTimeline
  <2> QED BY <1>2, <2>1, <2>2
<1> QED BY <1>2, <1>3, <1>4, <1>5 DEF TimelineInv

\* A page is lines of the timeline, under their numbers.
LEMMA WindowFacts ==
  ASSUME NEW lines, IsList(lines), NEW from \in Nat, NEW to \in Nat
  PROVE  \A n \in DOMAIN Window(lines, from, to) :
           n \in 1 .. Len(lines) /\ Window(lines, from, to)[n] = lines[n]
<1> DEFINE total == Len(lines)
           first == FirstShown(from, to, total)
           last == LastShown(from, to, total)
<1>1. CASE lines = <<>> \/ (last > first /\ Size(SubSeq(lines, first, last)) > ByteCap)
  BY <1>1 DEF Window
<1>2. CASE ~(lines = <<>> \/ (last > first /\ Size(SubSeq(lines, first, last)) > ByteCap))
  <2>1. Window(lines, from, to) = [n \in first .. last |-> lines[n]]
    BY <1>2 DEF Window
  <2>2. total \in Nat /\ total # 0
    <3>1. lines \in Seq({lines[i] : i \in 1 .. Len(lines)}) /\ Len(lines) \in Nat
      BY ListIsSeq DEF IsList
    <3> QED BY <1>2, <3>1, EmptySeq
  <2>3. first \in 1 .. total
    <3>1. TailLines \in Nat
      BY TimelineAssumption
    <3> HIDE DEF total
    <3> QED BY <2>2, <3>1 DEF FirstShown, Clamp
  <2>4. last \in first .. total
    <3> HIDE DEF total, first
    <3>1. last = Clamp(IF to # 0 THEN to ELSE total, first, total)
      BY DEF LastShown, first
    <3> HIDE DEF last
    <3> QED BY <2>2, <2>3, <3>1 DEF Clamp
  <2> HIDE DEF first, last
  <2> QED BY <2>1, <2>2, <2>3, <2>4
<1> QED BY <1>1, <1>2

LEMMA PageKeeps ==
  ASSUME TimelineInv, Page
  PROVE  TimelineInv'
<1> DEFINE now == TimelineOf(seen.row)
<1>1. format # "tokens" /\ RowsOfLog /\ LogOfEvents /\ InTimeline(seen.row, seen.lines, now)
  BY DEF Page, TimelineInv
<1>2. PICK from \in 0 .. MaxLog, to \in 0 .. MaxLog :
        seen' = [seen EXCEPT !.lines = Together(Window(now, from, to), @)]
  BY DEF Page
<1>3. UNCHANGED <<format, kinds, log, starts, spent>>
  BY DEF Page
<1> DEFINE page == Window(now, from, to)
<1>4. seen.row \in 1 .. Row /\ seen = [row |-> seen.row, lines |-> seen.lines]
  BY <1>1 DEF RowsOfLog
<1>5. seen' = [row |-> seen.row, lines |-> Together(page, seen.lines)]
  BY <1>2, <1>4
<1>6. IsList(now) /\ NotBefore(now, seen.row)
  BY <1>1, <1>4, TimelineIsList
<1>7. \A n \in DOMAIN page : n \in 1 .. Len(now) /\ page[n] = now[n]
  BY <1>6, WindowFacts
<1>8. TimelineOf(seen.row)' = now
  BY <1>3, <1>5 DEF TimelineOf, TrimToStartLine
<1> HIDE DEF page, now
<1>9. InTimeline(seen.row, Together(page, seen.lines), now)
  <2> SUFFICES ASSUME NEW n \in DOMAIN page \cup DOMAIN seen.lines
               PROVE  LET l == IF n \in DOMAIN page THEN page[n] ELSE seen.lines[n] IN
                      n \in 1 .. Len(now) /\ Later(l, now[n]) /\ now[n].turn >= seen.row
    BY DEF InTimeline, Together
  <2>1. CASE n \in DOMAIN page
    BY <1>6, <1>7, <2>1 DEF NotBefore, Later
  <2>2. CASE n \notin DOMAIN page
    BY <1>1, <2>2 DEF InTimeline
  <2> QED BY <2>1, <2>2
<1>10. LogOfEvents' /\ RowsOfLog'
  BY <1>1, <1>3, <1>4, <1>5 DEF LogOfEvents, RowsOfLog, Row
<1>11. format' # "tokens" /\ format' \in DOMAIN Events \cup {"tokens"}
  BY <1>1, <1>3 DEF TimelineInv
<1>12. InTimeline(seen.row, seen.lines, TimelineOf(seen.row))'
  BY <1>5, <1>8, <1>9 DEF InTimeline
<1> QED BY <1>10, <1>11, <1>12 DEF TimelineInv

LEMMA TokenLineKeeps ==
  ASSUME TimelineInv, TokenCount \/ OtherLine
  PROVE  TimelineInv'
<1>1. format = "tokens" /\ RowsOfLog
  BY DEF TimelineInv, TokenCount, OtherLine
<1>2. UNCHANGED <<format, kinds, starts, seen>>
  BY DEF TokenCount, OtherLine
<1>3. PICK line : log' = Append(log, line)
  BY DEF TokenCount, OtherLine
<1>4. IsList(log') /\ Len(log') = Len(log) + 1 /\ Len(log) \in Nat
  BY <1>1, <1>3, AppendedList DEF RowsOfLog, IsList
<1>5. \A r \in 1 .. Row : starts[r] \in 0 .. Len(log) + 1
  BY <1>1, <1>4 DEF RowsOfLog
<1>6. RowsOfLog'
  BY <1>1, <1>2, <1>4, <1>5 DEF RowsOfLog, Row
<1> QED BY <1>1, <1>2, <1>6 DEF TimelineInv

LEMMA TimelineNextKeeps ==
  ASSUME TimelineInv, [TimelineNext]_timelineVars
  PROVE  TimelineInv'
<1>1. CASE Write
  BY <1>1, WriteKeeps
<1>2. CASE WriteOn
  BY <1>2, WriteOnKeeps
<1>3. CASE TokenCount \/ OtherLine
  BY <1>3, TokenLineKeeps
<1>4. CASE Steer
  BY <1>4, SteerKeeps
<1>5. CASE Page
  BY <1>5, PageKeeps
<1>6. CASE UNCHANGED timelineVars
  <2>1. UNCHANGED <<format, kinds, log, starts, seen, spent>>
    BY <1>6 DEF timelineVars
  <2>2. TimelineOf(seen.row)' = TimelineOf(seen.row)
    BY <2>1 DEF TimelineOf, TrimToStartLine
  <2> QED BY <2>1, <2>2 DEF TimelineInv, RowsOfLog, LogOfEvents, InTimeline, Row
<1> QED BY <1>1, <1>2, <1>3, <1>4, <1>5, <1>6 DEF TimelineNext

\* A caller that pages through a row's timeline while it grows can put the pages
\* together, whatever the events, the kinds asked for and the caps of a page:
\* dispatch_logs moves no line it has shown.
THEOREM TimelinePages == TimelineSpec => []PagesAddUp
<1>1. TimelineInit => TimelineInv
  BY TimelineStarts
<1>2. TimelineInv /\ [TimelineNext]_timelineVars => TimelineInv'
  BY TimelineNextKeeps
<1>3. TimelineInv => PagesAddUp
  BY InvShowsPages
<1> QED BY <1>1, <1>2, <1>3, PTL DEF TimelineSpec

-----------------------------------------------------------------------------
(***************************************************************************)
(* Counts: what is unknown stays unknown, and what is known is right.      *)
(***************************************************************************)
IsKnown(a) == a = {} \/ \E n \in Nat : a = {n}
Fields == {"input", "cached", "write", "output"}
IsCounts(c) == DOMAIN c = Fields /\ \A f \in Fields : IsKnown(c[f])
AllKnown(c) == \A f \in Fields : c[f] # {}
\* a is b, or unknown.
Within(a, b) == a = b \/ a = {}
UsageFields == {"uncached", "read", "write", "output"}

LEMMA AddKnown ==
  ASSUME NEW a, NEW b, IsKnown(a), IsKnown(b)
  PROVE  /\ IsKnown(AddCounts(a, b))
         /\ AddCounts(a, b) # {} => a # {} /\ b # {}
<1>1. CASE a = {} \/ b = {}
  BY <1>1 DEF AddCounts, IsKnown
<1>2. CASE a # {} /\ b # {}
  <2>1. PICK x \in Nat : a = {x}
    BY <1>2 DEF IsKnown
  <2>2. PICK y \in Nat : b = {y}
    BY <1>2 DEF IsKnown
  <2>3. AddCounts(a, b) = {x + y} /\ x + y \in Nat
    BY <2>1, <2>2 DEF AddCounts
  <2> QED BY <1>2, <2>3 DEF IsKnown
<1> QED BY <1>1, <1>2

\* By how much a request moved the totals.
LEMMA MovedByRequest ==
  ASSUME NEW a, NEW b, IsKnown(a), IsKnown(b)
  PROVE  /\ Within(Minus(AddCounts(a, b), a), b)
         /\ a # {} => Minus(AddCounts(a, b), a) = b
<1>1. CASE a = {} \/ b = {}
  BY <1>1 DEF AddCounts, Minus, Within
<1>2. CASE a # {} /\ b # {}
  <2>1. PICK x \in Nat : a = {x}
    BY <1>2 DEF IsKnown
  <2>2. PICK y \in Nat : b = {y}
    BY <1>2 DEF IsKnown
  <2>3. AddCounts(a, b) = {x + y}
    BY <2>1, <2>2 DEF AddCounts
  <2>4. Minus({x + y}, {x}) = {IF x + y > x THEN x + y - x ELSE 0}
    BY DEF Minus
  <2>5. (IF x + y > x THEN x + y - x ELSE 0) = y
    OBVIOUS
  <2> QED BY <2>1, <2>2, <2>3, <2>4, <2>5 DEF Within
<1> QED BY <1>1, <1>2

LEMMA AddWithin ==
  ASSUME NEW a, NEW b, NEW c, NEW d, Within(a, b), Within(c, d)
  PROVE  Within(AddCounts(a, c), AddCounts(b, d))
BY DEF Within, AddCounts

LEMMA MinusWithin ==
  ASSUME NEW a, NEW b, NEW c, NEW d, Within(a, b), Within(c, d)
  PROVE  Within(Minus(a, c), Minus(b, d))
BY DEF Within, Minus

LEMMA LesserWithin ==
  ASSUME NEW a, NEW b, NEW c, NEW d, Within(a, b), Within(c, d)
  PROVE  Within(Lesser(a, c), Lesser(b, d))
BY DEF Within, Lesser

LEMMA PlusCounts ==
  ASSUME NEW c, NEW d, IsCounts(c), IsCounts(d)
  PROVE  /\ IsCounts(Plus(c, d))
         /\ \A f \in Fields : Plus(c, d)[f] = AddCounts(c[f], d[f])
         /\ AllKnown(Plus(c, d)) => AllKnown(c)
<1>1. DOMAIN Plus(c, d) = Fields /\ \A f \in Fields : Plus(c, d)[f] = AddCounts(c[f], d[f])
  BY DEF Plus, IsCounts
<1>2. ASSUME NEW f \in Fields
      PROVE  IsKnown(Plus(c, d)[f]) /\ (Plus(c, d)[f] # {} => c[f] # {})
  BY <1>1, AddKnown DEF IsCounts
<1> QED BY <1>1, <1>2 DEF IsCounts, AllKnown

LEMMA ZeroIsCounts == IsCounts(Zero)
<1>1. DOMAIN Zero = Fields /\ \A f \in Fields : Zero[f] = {0}
  BY DEF Zero, Fields
<1> QED BY <1>1 DEF IsCounts, IsKnown

LEMMA RequestIsCounts == ASSUME NEW request \in Requests PROVE IsCounts(request)
<1>1. DOMAIN request = Fields
  BY CountsAssumption DEF Fields
<1>2. ASSUME NEW f \in Fields PROVE IsKnown(request[f])
  BY <1>1, CountsAssumption DEF IsKnown
<1> QED BY <1>1, <1>2 DEF IsCounts

\* A usage of which nothing but what is unknown differs.
UsageWithin(x, y) ==
  /\ DOMAIN x = UsageFields /\ DOMAIN y = UsageFields
  /\ \A f \in UsageFields : Within(x[f], y[f])

LEMMA ToUsageWithin ==
  ASSUME NEW c, NEW d, \A f \in Fields : Within(c[f], d[f])
  PROVE  /\ UsageWithin(ToUsage(c), ToUsage(d))
         /\ (\A f \in Fields : c[f] = d[f]) => ToUsage(c) = ToUsage(d)
<1> DEFINE uc == Minus(c.input, c.cached)
           ud == Minus(d.input, d.cached)
           wc == Lesser(c.write, uc)
           wd == Lesser(d.write, ud)
<1>1. /\ Within(c.input, d.input) /\ Within(c.cached, d.cached)
      /\ Within(c.write, d.write) /\ Within(c.output, d.output)
  BY DEF Fields
<1>2. Within(uc, ud)
  BY <1>1, MinusWithin
<1>3. /\ DOMAIN ToUsage(c) = UsageFields /\ DOMAIN ToUsage(d) = UsageFields
      /\ ToUsage(c)["uncached"] = Minus(uc, wc) /\ ToUsage(d)["uncached"] = Minus(ud, wd)
      /\ ToUsage(c)["read"] = c.cached /\ ToUsage(d)["read"] = d.cached
      /\ ToUsage(c)["write"] = wc /\ ToUsage(d)["write"] = wd
      /\ ToUsage(c)["output"] = c.output /\ ToUsage(d)["output"] = d.output
  <2>1. /\ DOMAIN ToUsage(c) = UsageFields /\ ToUsage(c)["uncached"] = Minus(uc, wc)
        /\ ToUsage(c)["read"] = c.cached /\ ToUsage(c)["write"] = wc /\ ToUsage(c)["output"] = c.output
    BY DEF ToUsage, UsageFields
  <2>2. /\ DOMAIN ToUsage(d) = UsageFields /\ ToUsage(d)["uncached"] = Minus(ud, wd)
        /\ ToUsage(d)["read"] = d.cached /\ ToUsage(d)["write"] = wd /\ ToUsage(d)["output"] = d.output
    BY DEF ToUsage, UsageFields
  <2> HIDE DEF uc, ud, wc, wd
  <2> QED BY <2>1, <2>2
<1> HIDE DEF uc, ud
<1>4. Within(wc, wd)
  BY <1>1, <1>2, LesserWithin
<1> HIDE DEF wc, wd
<1>5. Within(Minus(uc, wc), Minus(ud, wd))
  BY <1>2, <1>4, MinusWithin
<1>6. \A f \in UsageFields : Within(ToUsage(c)[f], ToUsage(d)[f])
  BY <1>1, <1>3, <1>4, <1>5 DEF UsageFields
<1>7. ASSUME \A f \in Fields : c[f] = d[f] PROVE ToUsage(c) = ToUsage(d)
  <2>1. c.input = d.input /\ c.cached = d.cached /\ c.write = d.write /\ c.output = d.output
    BY <1>7 DEF Fields
  <2> QED BY <2>1 DEF ToUsage
<1> QED BY <1>3, <1>6, <1>7 DEF UsageWithin

LEMMA PlusWithin ==
  ASSUME NEW x, NEW y, NEW v, NEW w, UsageWithin(x, y), UsageWithin(v, w)
  PROVE  UsageWithin(Plus(x, v), Plus(y, w))
<1>1. /\ DOMAIN Plus(x, v) = UsageFields /\ DOMAIN Plus(y, w) = UsageFields
      /\ \A f \in UsageFields : /\ Plus(x, v)[f] = AddCounts(x[f], v[f])
                                /\ Plus(y, w)[f] = AddCounts(y[f], w[f])
  BY DEF Plus, UsageWithin
<1>2. ASSUME NEW f \in UsageFields PROVE Within(Plus(x, v)[f], Plus(y, w)[f])
  BY <1>1, AddWithin DEF UsageWithin
<1> QED BY <1>1, <1>2 DEF UsageWithin

\* What a rollout says of a row next to what the row cost.
Agree(used, cost, known) ==
  \/ used = {} /\ cost = {}
  \/ \E x, y : used = {x} /\ cost = {y} /\ UsageWithin(x, y) /\ (known => x = y)

\* A usage more on both sides.
LEMMA BothAgree ==
  ASSUME NEW used, NEW cost, NEW known, Agree(used, cost, known),
         NEW v, NEW w, UsageWithin(v, w), known => v = w
  PROVE  Agree(Both(used, {v}), Both(cost, {w}), known)
<1>1. CASE used = {} /\ cost = {}
  BY <1>1 DEF Agree, Both
<1>2. ASSUME NEW x, NEW y, used = {x}, cost = {y}, UsageWithin(x, y), known => x = y
      PROVE  Agree(Both(used, {v}), Both(cost, {w}), known)
  <2>1. Both(used, {v}) = {Plus(x, v)} /\ Both(cost, {w}) = {Plus(y, w)}
    BY <1>2 DEF Both
  <2>2. UsageWithin(Plus(x, v), Plus(y, w))
    BY <1>2, PlusWithin
  <2>3. known => Plus(x, v) = Plus(y, w)
    BY <1>2
  <2> QED BY <2>1, <2>2, <2>3 DEF Agree
<1> QED BY <1>1, <1>2 DEF Agree

LEMMA AgreeLess ==
  ASSUME NEW used, NEW cost, NEW known, NEW less, Agree(used, cost, known), less => known
  PROVE  Agree(used, cost, less)
BY DEF Agree

-----------------------------------------------------------------------------
(***************************************************************************)
(* The rollout of a session that counts tokens: t holds what the session   *)
(* had cost at each line.                                                  *)
(***************************************************************************)
Original(l, n) == l[n].name = "token_count" /\ l[n].at = n - 1
NoToken(l, n) == \A m \in 1 .. n : l[m].name # "token_count"
LastToken(l, p, n) ==
  \E k \in 1 .. n : l[k].name = "token_count" /\ p = l[k] /\ \A m \in k + 1 .. n : l[m].name # "token_count"

Counts(l, t, n) ==
  /\ l[n].request \in Requests /\ t[n] = Plus(t[n - 1], l[n].request)
  /\ l[n].last \in {{}, {l[n].request}} /\ l[n].total \in {{}, {t[n]}}
  /\ l[n].last # {} \/ l[n].total # {}
TokenLine(l, t, n) ==
  /\ l[n].name = "token_count" => l[n].at \in Nat /\ l[n].at <= n - 1
  /\ Original(l, n) => Counts(l, t, n)
  /\ ~Original(l, n) => t[n] = t[n - 1]
  /\ l[n].name = "token_count" /\ ~Original(l, n) => LastToken(l, l[n], n - 1)
TokenLog(l, t) == IsList(l) /\ t[0] = Zero /\ \A n \in 1 .. Len(l) : TokenLine(l, t, n)

\* What became unknown stays so.
LEMMA LogCounts ==
  ASSUME NEW l, NEW t, TokenLog(l, t)
  PROVE  /\ \A n \in 0 .. Len(l) : IsCounts(t[n])
         /\ \A n \in 1 .. Len(l) : AllKnown(t[n]) => AllKnown(t[n - 1])
<1>1. Len(l) \in Nat
  BY DEF TokenLog, IsList
<1>2. ASSUME NEW n \in 1 .. Len(l), IsCounts(t[n - 1])
      PROVE  IsCounts(t[n]) /\ (AllKnown(t[n]) => AllKnown(t[n - 1]))
  <2>1. CASE Original(l, n)
    <3>1. l[n].request \in Requests /\ t[n] = Plus(t[n - 1], l[n].request)
      BY <2>1 DEF TokenLog, TokenLine, Counts
    <3> QED BY <1>2, <3>1, RequestIsCounts, PlusCounts
  <2>2. CASE ~Original(l, n)
    BY <1>2, <2>2 DEF TokenLog, TokenLine
  <2> QED BY <2>1, <2>2
<1>3. \A n \in 0 .. Len(l) : IsCounts(t[n])
  <2> DEFINE m == Len(l)
             T == {n \in 0 .. m : IsCounts(t[n])}
  <2>1. 0 \in T
    BY <1>1, ZeroIsCounts DEF TokenLog
  <2>2. \A n \in 1 .. m : n - 1 \in T => n \in T
    BY <1>2
  <2>3. m \in Nat
    BY <1>1
  <2> HIDE DEF T, m
  <2>4. \A n \in 0 .. m : n \in T
    BY <2>1, <2>2, <2>3, SetInduction
  <2> QED BY <2>4 DEF T, m
<1>4. ASSUME NEW n \in 1 .. Len(l) PROVE AllKnown(t[n]) => AllKnown(t[n - 1])
  <2>1. n - 1 \in 0 .. Len(l)
    BY <1>1
  <2> QED BY <1>2, <1>3, <2>1
<1> QED BY <1>3, <1>4

LEMMA KnownBefore ==
  ASSUME NEW l, NEW t, TokenLog(l, t), NEW e \in 0 .. Len(l)
  PROVE  AllKnown(t[Len(l)]) => AllKnown(t[e])
<1> DEFINE m == Len(l)
           T == {n \in 0 .. m : n >= e /\ AllKnown(t[n]) => AllKnown(t[e])}
<1>0. m \in Nat /\ e \in 0 .. m
  BY DEF TokenLog, IsList
<1>1. 0 \in T
  <2>1. 0 >= e => e = 0
    BY <1>0
  <2> QED BY <1>0, <2>1
<1>2. ASSUME NEW n \in 1 .. m, n - 1 \in T PROVE n \in T
  <2>1. AllKnown(t[n]) => AllKnown(t[n - 1])
    BY LogCounts
  <2>2. n >= e => n - 1 >= e \/ n = e
    BY <1>0
  <2>3. n \in 0 .. m
    BY <1>0
  <2> QED BY <1>2, <2>1, <2>2, <2>3
<1>3. m \in T
  <2> HIDE DEF T, m
  <2>1. \A n \in 0 .. m : n \in T
    BY <1>0, <1>1, <1>2, SetInduction
  <2> QED BY <1>0, <2>1
<1> QED BY <1>0, <1>3

\* There is one last event.
LEMMA LastTokenUnique ==
  ASSUME NEW l, NEW n \in Nat, NEW p, NEW q, LastToken(l, p, n)
  PROVE  ~NoToken(l, n) /\ (LastToken(l, q, n) => p = q)
<1>1. PICK j \in 1 .. n : l[j].name = "token_count" /\ p = l[j] /\ \A m \in j + 1 .. n : l[m].name # "token_count"
  BY DEF LastToken
<1>2. ASSUME LastToken(l, q, n) PROVE p = q
  <2>1. PICK k \in 1 .. n : l[k].name = "token_count" /\ q = l[k] /\ \A m \in k + 1 .. n : l[m].name # "token_count"
    BY <1>2 DEF LastToken
  <2>2. k \notin j + 1 .. n /\ j \notin k + 1 .. n
    BY <1>1, <2>1
  <2>3. j = k
    BY <2>2
  <2> QED BY <1>1, <2>1, <2>3
<1> QED BY <1>1, <1>2 DEF NoToken

\* What an event adds to the tokens, next to the request it is of.
LEMMA DeltaFacts ==
  ASSUME NEW l, NEW t, NEW n, Counts(l, t, n), IsCounts(t[n - 1])
  PROVE  /\ TotalOf(t[n - 1], l[n]) = t[n]
         /\ \E d : /\ DeltaOf(t[n - 1], l[n]) = {d}
                   /\ \A f \in Fields : Within(d[f], l[n].request[f])
                   /\ AllKnown(t[n - 1]) => \A f \in Fields : d[f] = l[n].request[f]
<1> DEFINE request == l[n].request
           before == t[n - 1]
<1>1. /\ request \in Requests /\ t[n] = Plus(before, request)
      /\ l[n].last = {} \/ l[n].last = {request}
      /\ l[n].total = {} \/ l[n].total = {t[n]}
      /\ l[n].last # {} \/ l[n].total # {}
  BY DEF Counts
<1>2. IsCounts(request) /\ IsCounts(before) /\ IsCounts(t[n])
  BY <1>1, RequestIsCounts, PlusCounts
<1>3. \A f \in Fields : t[n][f] = AddCounts(before[f], request[f])
  BY <1>1, <1>2, PlusCounts
<1> HIDE DEF request, before
<1>4. TotalOf(before, l[n]) = t[n]
  <2>1. (IF l[n].total # {} THEN l[n].total ELSE {Plus(before, d) : d \in l[n].last}) = {t[n]}
    <3>1. CASE l[n].total # {}
      BY <1>1, <3>1
    <3>2. CASE l[n].total = {}
      <4>1. l[n].last = {request}
        BY <1>1, <3>2
      <4>2. {Plus(before, d) : d \in {request}} = {Plus(before, request)}
        OBVIOUS
      <4> QED BY <1>1, <3>2, <4>1, <4>2
    <3> QED BY <3>1, <3>2
  <2> QED BY <2>1 DEF TotalOf
<1>5. CASE l[n].last # {}
  <2>1. DeltaOf(before, l[n]) = {request}
    BY <1>1, <1>5 DEF DeltaOf
  <2>2. \A f \in Fields : Within(request[f], request[f])
    BY DEF Within
  <2> QED BY <1>4, <2>1, <2>2 DEF request, before
<1>6. CASE l[n].last = {}
  <2> DEFINE d == Since(t[n], before)
  <2>1. DeltaOf(before, l[n]) = {d}
    <3>1. DeltaOf(before, l[n]) = {Since(x, before) : x \in {t[n]}}
      BY <1>1, <1>6 DEF DeltaOf
    <3> QED BY <3>1
  <2>2. ASSUME NEW f \in Fields
        PROVE  Within(d[f], request[f]) /\ (before[f] # {} => d[f] = request[f])
    <3>1. d[f] = Minus(AddCounts(before[f], request[f]), before[f])
      BY <1>2, <1>3 DEF Since, IsCounts
    <3> HIDE DEF d
    <3>2. IsKnown(before[f]) /\ IsKnown(request[f])
      BY <1>2 DEF IsCounts
    <3> QED BY <3>1, <3>2, MovedByRequest
  <2> HIDE DEF d
  <2> QED BY <1>4, <2>1, <2>2 DEF request, before, AllKnown
<1> QED BY <1>5, <1>6

\* The rollout after n lines: the totals, the event it compares the next with, and the tokens.
Follows(l, t, a, cost, n) ==
  /\ a.total = t[n]
  /\ \/ a.previous = Half /\ NoToken(l, n)
     \/ LastToken(l, a.previous, n)
  /\ Agree(a.used, cost, AllKnown(t[n]))

\* A row of which the original lines are those after line s, up to line e.
Turns(l, row, s, e) ==
  \A n \in 1 .. Len(l) : Original(l, n) => (l[n].turn = row <=> s < n /\ n <= e)
CostAfter(cost, l, row, n) ==
  IF Original(l, n) /\ l[n].turn = row THEN Both(cost, {ToUsage(l[n].request)}) ELSE cost

(* A line counted: a repeated one is the event before, an original one adds *)
(* what its request cost, if it is of the row.                              *)
LEMMA TokenStep ==
  ASSUME NEW l, NEW t, TokenLog(l, t), NEW n \in 1 .. Len(l), NEW row, NEW s \in Nat, NEW e \in Nat,
         Turns(l, row, s, e), n <= e,
         NEW a, NEW cost, Follows(l, t, a, cost, n - 1)
  PROVE  Follows(l, t, Counted(a, s, n, l[n]), CostAfter(cost, l, row, n), n)
<1> DEFINE line == l[n]
           next == Counted(a, s, n, line)
           paid == CostAfter(cost, l, row, n)
<1>0. n \in Nat /\ n - 1 \in Nat /\ Len(l) \in Nat /\ n - 1 \in 0 .. Len(l)
  BY DEF TokenLog, IsList
<1>1. TokenLine(l, t, n) /\ IsCounts(t[n - 1]) /\ (AllKnown(t[n]) => AllKnown(t[n - 1]))
  BY <1>0, LogCounts DEF TokenLog
<1>2. CASE line.name # "token_count"
  <2>1. next = a /\ paid = cost /\ t[n] = t[n - 1]
    BY <1>1, <1>2 DEF Counted, CostAfter, Original, TokenLine
  <2>2. NoToken(l, n - 1) => NoToken(l, n)
    <3>1. \A m \in 1 .. n : m = n \/ m \in 1 .. n - 1
      BY <1>0
    <3> QED BY <1>2, <3>1 DEF NoToken
  <2>3. ASSUME NEW p, LastToken(l, p, n - 1) PROVE LastToken(l, p, n)
    <3>1. PICK k \in 1 .. n - 1 : /\ l[k].name = "token_count" /\ p = l[k]
                                  /\ \A m \in k + 1 .. n - 1 : l[m].name # "token_count"
      BY <2>3 DEF LastToken
    <3>2. k \in 1 .. n /\ \A m \in k + 1 .. n : m = n \/ m \in k + 1 .. n - 1
      BY <1>0
    <3> QED BY <1>2, <3>1, <3>2 DEF LastToken
  <2> QED BY <2>1, <2>2, <2>3 DEF Follows
<1>3. ASSUME line.name = "token_count" PROVE LastToken(l, line, n)
  <2>1. n \in 1 .. n /\ \A m \in n + 1 .. n : FALSE
    BY <1>0
  <2> QED BY <1>3, <2>1 DEF LastToken
<1>4. CASE line.name = "token_count" /\ ~Original(l, n)
  <2>1. LastToken(l, line, n - 1) /\ t[n] = t[n - 1]
    BY <1>1, <1>4 DEF TokenLine
  <2>2. a.previous = line
    BY <1>0, <2>1, LastTokenUnique DEF Follows
  <2>3. next = a /\ paid = cost
    BY <1>4, <2>2 DEF Counted, CostAfter
  <2> QED BY <1>3, <1>4, <2>1, <2>2, <2>3 DEF Follows
<1>5. CASE Original(l, n)
  <2>1. line.name = "token_count" /\ line.at = n - 1 /\ Counts(l, t, n)
    BY <1>1, <1>5 DEF Original, TokenLine
  <2>2. line # a.previous
    <3>1. CASE a.previous = Half
      <4>1. Half.name = "half"
        BY DEF Half
      <4> QED BY <2>1, <3>1, <4>1
    <3>2. CASE LastToken(l, a.previous, n - 1)
      <4>1. PICK k \in 1 .. n - 1 : l[k].name = "token_count" /\ a.previous = l[k]
        BY <3>2 DEF LastToken
      <4>2. k \in 1 .. Len(l) /\ k - 1 < n - 1 /\ k \in Nat
        BY <1>0
      <4>3. l[k].at \in Nat /\ l[k].at <= k - 1
        BY <4>1, <4>2 DEF TokenLog, TokenLine
      <4> QED BY <1>0, <2>1, <4>1, <4>2, <4>3
    <3> QED BY <3>1, <3>2 DEF Follows
  <2>3. next = [previous |-> line, total |-> TotalOf(a.total, line),
                used |-> IF n <= s THEN a.used
                         ELSE Both(a.used, {ToUsage(d) : d \in DeltaOf(a.total, line)})]
    BY <2>1, <2>2 DEF Counted
  <2>4. a.total = t[n - 1] /\ TotalOf(t[n - 1], line) = t[n]
    BY <1>1, <2>1, DeltaFacts DEF Follows
  <2>5. next.previous = line /\ next.total = t[n]
    BY <2>3, <2>4
  <2>6. Agree(a.used, cost, AllKnown(t[n]))
    BY <1>1, AgreeLess DEF Follows
  <2>7. Agree(next.used, paid, AllKnown(t[n]))
    <3>1. CASE n <= s
      <4>1. line.turn # row
        BY <1>0, <1>5, <3>1 DEF Turns
      <4> QED BY <2>3, <2>6, <3>1, <4>1 DEF CostAfter
    <3>2. CASE ~(n <= s)
      <4>1. line.turn = row
        BY <1>0, <1>5, <3>2 DEF Turns
      <4>2. paid = Both(cost, {ToUsage(line.request)})
        BY <1>5, <4>1 DEF CostAfter
      <4>3. PICK d : /\ DeltaOf(t[n - 1], line) = {d}
                     /\ \A f \in Fields : Within(d[f], line.request[f])
                     /\ AllKnown(t[n - 1]) => \A f \in Fields : d[f] = line.request[f]
        BY <1>1, <2>1, DeltaFacts
      <4>4. next.used = Both(a.used, {ToUsage(d)})
        <5>1. next.used = Both(a.used, {ToUsage(x) : x \in {d}})
          BY <2>3, <2>4, <3>2, <4>3
        <5>2. {ToUsage(x) : x \in {d}} = {ToUsage(d)}
          OBVIOUS
        <5> QED BY <5>1, <5>2
      <4>5. UsageWithin(ToUsage(d), ToUsage(line.request))
            /\ (AllKnown(t[n]) => ToUsage(d) = ToUsage(line.request))
        BY <1>1, <4>3, ToUsageWithin
      <4> HIDE DEF next, paid
      <4> QED BY <2>6, <4>2, <4>4, <4>5, BothAgree
    <3> QED BY <3>1, <3>2
  <2> HIDE DEF next, paid
  <2> QED BY <1>3, <2>1, <2>5, <2>7 DEF Follows, next, paid
<1> QED BY <1>2, <1>4, <1>5 DEF Original

\* The steps of a rollout and of a row's cost.
Start == [previous |-> Half, total |-> Zero, used |-> {}]
RolloutTo(g, lines, s) ==
  g = [n \in 0 .. Len(lines) |-> IF n = 0 THEN Start ELSE Counted(g[n - 1], s, n, lines[n])]
CostTo(g, row) ==
  g = [n \in 0 .. Len(log) |->
        IF n = 0 THEN {}
        ELSE IF Billed(n, row) THEN Both(g[n - 1], {ToUsage(log[n].request)})
        ELSE g[n - 1]]

LEMMA RolloutFacts ==
  ASSUME NEW lines, NEW s, Len(lines) \in Nat
  PROVE  \E g : RolloutTo(g, lines, s) /\ CodexRollout(lines, s) = g[Len(lines)].used
<1> DEFINE n == Len(lines)
           To(g, m) == g = [j \in 0 .. m |-> IF j = 0 THEN Start ELSE Counted(g[j - 1], s, j, lines[j])]
           T == {m \in 0 .. n : \E g : To(g, m)}
<1>0. n \in Nat
  OBVIOUS
<1>1. 0 \in T
  <2> DEFINE g == [k \in 0 .. 0 |-> Start]
  <2>1. g = [j \in 0 .. 0 |-> IF j = 0 THEN Start ELSE Counted(g[j - 1], s, j, lines[j])]
    <3>1. \A k \in 0 .. 0 : k = 0
      OBVIOUS
    <3> QED BY <3>1
  <2>2. To(g, 0) /\ 0 \in 0 .. n
    BY <2>1
  <2> HIDE DEF g, To
  <2> QED BY <2>2
<1>2. ASSUME NEW m \in 1 .. n, m - 1 \in T PROVE m \in T
  <2>1. PICK g : To(g, m - 1)
    BY <1>2
  <2> DEFINE h == [k \in 0 .. m |-> IF k = m THEN Counted(g[m - 1], s, m, lines[m]) ELSE g[k]]
  <2>2. ASSUME NEW k \in 0 .. m
        PROVE  h[k] = IF k = 0 THEN Start ELSE Counted(h[k - 1], s, k, lines[k])
    <3>1. CASE k = m
      <4>1. m - 1 \in 0 .. m /\ m - 1 # m /\ m # 0
        OBVIOUS
      <4> QED BY <3>1, <4>1
    <3>2. CASE k # m
      <4>1. k \in 0 .. m - 1 /\ (k # 0 => k - 1 \in 0 .. m /\ k - 1 # m)
        BY <3>2
      <4>2. g[k] = IF k = 0 THEN Start ELSE Counted(g[k - 1], s, k, lines[k])
        BY <2>1, <4>1
      <4> QED BY <3>2, <4>1, <4>2
    <3> QED BY <3>1, <3>2
  <2>3. To(h, m)
    BY <2>2
  <2>4. m \in 0 .. n
    OBVIOUS
  <2> HIDE DEF h, To
  <2> QED BY <2>3, <2>4
<1>3. n \in T
  <2>1. \A m \in 1 .. n : m - 1 \in T => m \in T
    BY <1>2
  <2> HIDE DEF T, n
  <2>2. \A m \in 0 .. n : m \in T
    BY <1>0, <1>1, <2>1, SetInduction
  <2> QED BY <1>0, <2>2
<1>4. \E g : RolloutTo(g, lines, s)
  BY <1>3 DEF T, RolloutTo
<1> DEFINE steps == CHOOSE g : RolloutTo(g, lines, s)
<1>5. RolloutTo(steps, lines, s)
  BY <1>4
<1>6. CodexRollout(lines, s) = steps[n].used
  BY DEF CodexRollout, RolloutTo, Start
<1> QED BY <1>5, <1>6

LEMMA CostFacts ==
  ASSUME NEW row, Len(log) \in Nat
  PROVE  \E g : CostTo(g, row) /\ CostOf(row) = g[Len(log)]
<1> DEFINE n == Len(log)
           Next(c, j) == IF Billed(j, row) THEN Both(c, {ToUsage(log[j].request)}) ELSE c
           To(g, m) == g = [j \in 0 .. m |-> IF j = 0 THEN {} ELSE Next(g[j - 1], j)]
           T == {m \in 0 .. n : \E g : To(g, m)}
<1>0. n \in Nat
  OBVIOUS
<1>1. 0 \in T
  <2> DEFINE g == [k \in 0 .. 0 |-> {}]
  <2>1. g = [j \in 0 .. 0 |-> IF j = 0 THEN {} ELSE Next(g[j - 1], j)]
    <3>1. \A k \in 0 .. 0 : k = 0
      OBVIOUS
    <3> HIDE DEF Next
    <3> QED BY <3>1
  <2>2. To(g, 0) /\ 0 \in 0 .. n
    BY <2>1
  <2> HIDE DEF g, To
  <2> QED BY <2>2
<1>2. ASSUME NEW m \in 1 .. n, m - 1 \in T PROVE m \in T
  <2>1. PICK g : To(g, m - 1)
    BY <1>2
  <2> DEFINE h == [k \in 0 .. m |-> IF k = m THEN Next(g[m - 1], m) ELSE g[k]]
  <2>2. ASSUME NEW k \in 0 .. m
        PROVE  h[k] = IF k = 0 THEN {} ELSE Next(h[k - 1], k)
    <3> HIDE DEF Next
    <3>1. CASE k = m
      <4>1. m - 1 \in 0 .. m /\ m - 1 # m /\ m # 0
        OBVIOUS
      <4> QED BY <3>1, <4>1
    <3>2. CASE k # m
      <4>1. k \in 0 .. m - 1 /\ (k # 0 => k - 1 \in 0 .. m /\ k - 1 # m)
        BY <3>2
      <4>2. g[k] = IF k = 0 THEN {} ELSE Next(g[k - 1], k)
        BY <2>1, <4>1
      <4> QED BY <3>2, <4>1, <4>2
    <3> QED BY <3>1, <3>2
  <2>3. To(h, m)
    BY <2>2
  <2>4. m \in 0 .. n
    OBVIOUS
  <2> HIDE DEF h, To
  <2> QED BY <2>3, <2>4
<1>3. n \in T
  <2>1. \A m \in 1 .. n : m - 1 \in T => m \in T
    BY <1>2
  <2> HIDE DEF T, n
  <2>2. \A m \in 0 .. n : m \in T
    BY <1>0, <1>1, <2>1, SetInduction
  <2> QED BY <1>0, <2>2
<1>4. \E g : CostTo(g, row)
  BY <1>3 DEF T, CostTo
<1> DEFINE steps == CHOOSE g : CostTo(g, row)
<1>5. CostTo(steps, row)
  BY <1>4
<1>6. CostOf(row) = steps[n]
  BY DEF CostOf, CostTo
<1> QED BY <1>5, <1>6

\* Requests are logged in the turn of the row that runs.
TokensInv ==
  format = "tokens" =>
    /\ \E t : TokenLog(log, t) /\ t[Len(log)] = spent
    /\ \A r \in 1 .. Row : Turns(log, r, starts[r], EndOf(r))
    /\ \A n \in 1 .. Len(log) : Original(log, n) => log[n].turn \in 1 .. Row

LEMMA EndFacts ==
  ASSUME RowsOfLog, NEW r \in 1 .. Row
  PROVE  EndOf(r) \in 0 .. Len(log)
<1>1. Row \in Nat /\ Len(log) \in Nat
  BY DEF RowsOfLog, IsList
<1>2. CASE r = Row
  BY <1>1, <1>2 DEF EndOf
<1>3. CASE r # Row
  <2>1. r + 1 \in 1 .. Row
    BY <1>1, <1>3
  <2> QED BY <1>3, <2>1 DEF EndOf, RowsOfLog
<1> QED BY <1>2, <1>3

LEMMA UpTo ==
  ASSUME NEW l, IsList(l), NEW e \in 0 .. Len(l)
  PROVE  Len(SubSeq(l, 1, e)) = e /\ \A i \in 1 .. e : SubSeq(l, 1, e)[i] = l[i]
<1> DEFINE S == {l[i] : i \in 1 .. Len(l)}
           front == SubSeq(l, 1, e)
<1>1. l \in Seq(S) /\ Len(l) \in Nat /\ \A i \in 1 .. Len(l) : l[i] \in S
  BY ListIsSeq DEF IsList
<1> HIDE DEF S
<1>2. 1 \in Int /\ e \in Int /\ \A i \in 1 .. e : l[i] \in S
  BY <1>1
<1>3. /\ Len(front) = IF 1 <= e THEN e - 1 + 1 ELSE 0
      /\ \A i \in 1 .. e - 1 + 1 : front[i] = l[1 + i - 1]
  BY <1>1, <1>2, SubSeqProperties
<1> HIDE DEF front
<1>4. e \in Nat /\ e - 1 + 1 = e /\ \A i \in 1 .. e : 1 + i - 1 = i
  BY <1>1
<1>5. Len(front) = e
  BY <1>3, <1>4
<1>6. \A i \in 1 .. e : front[i] = l[i]
  BY <1>3, <1>4
<1> QED BY <1>5, <1>6 DEF front

\* A row is counted up to its end, and nothing after it is of its turn.
LEMMA RowCounted ==
  ASSUME RowsOfLog, TokensInv, format = "tokens", NEW row \in 1 .. Row,
         NEW t, TokenLog(log, t)
  PROVE  Agree(CodexRollout(SubSeq(log, 1, EndOf(row)), starts[row]), CostOf(row), AllKnown(t[EndOf(row)]))
<1> DEFINE e == EndOf(row)
           s == starts[row]
           lines == SubSeq(log, 1, e)
           m == Len(log)
<1>1. e \in 0 .. m /\ s \in Nat /\ m \in Nat /\ IsList(log) /\ e \in Nat /\ e <= m
  <2>1. e \in 0 .. m /\ m \in Nat /\ IsList(log)
    BY EndFacts DEF RowsOfLog, IsList
  <2>2. s \in 0 .. m
    BY DEF RowsOfLog
  <2> HIDE DEF e, s, m
  <2> QED BY <2>1, <2>2
<1>2. Turns(log, row, s, e)
  BY DEF TokensInv
<1>3. Len(lines) = e /\ \A i \in 1 .. e : lines[i] = log[i]
  BY <1>1, UpTo
<1>4. PICK g : RolloutTo(g, lines, s) /\ CodexRollout(lines, s) = g[e].used
  BY <1>1, <1>3, RolloutFacts
<1>5. PICK c : CostTo(c, row) /\ CostOf(row) = c[m]
  BY <1>1, CostFacts
<1> HIDE DEF e, s, lines, m
<1>6. g[0] = Start /\ \A n \in 1 .. e : g[n] = Counted(g[n - 1], s, n, log[n])
  <2>1. g[0] = Start
    BY <1>1, <1>3, <1>4 DEF RolloutTo
  <2>2. ASSUME NEW n \in 1 .. e PROVE g[n] = Counted(g[n - 1], s, n, log[n])
    <3>1. n \in 0 .. e /\ n # 0
      BY <1>1
    <3> QED BY <1>3, <1>4, <3>1 DEF RolloutTo
  <2> QED BY <2>1, <2>2
<1>7. c[0] = {} /\ \A n \in 1 .. m : c[n] = CostAfter(c[n - 1], log, row, n)
  <2>1. c[0] = {}
    BY <1>1, <1>5 DEF CostTo, m
  <2>2. ASSUME NEW n \in 1 .. m PROVE c[n] = CostAfter(c[n - 1], log, row, n)
    <3>1. n \in 0 .. m /\ n # 0
      BY <1>1
    <3>2. c[n] = IF Billed(n, row) THEN Both(c[n - 1], {ToUsage(log[n].request)}) ELSE c[n - 1]
      BY <1>5, <3>1 DEF CostTo, m
    <3> QED BY <3>2 DEF CostAfter, Billed, Original
  <2> QED BY <2>1, <2>2
<1>8. \A n \in 0 .. e : Follows(log, t, g[n], c[n], n)
  <2> DEFINE T == {n \in 0 .. e : Follows(log, t, g[n], c[n], n)}
  <2>1. 0 \in T
    <3>1. g[0].total = t[0] /\ g[0].previous = Half /\ g[0].used = {}
      BY <1>6 DEF Start, TokenLog
    <3>2. NoToken(log, 0)
      BY DEF NoToken
    <3> QED BY <1>1, <1>7, <3>1, <3>2 DEF Follows, Agree
  <2>2. ASSUME NEW n \in 1 .. e, n - 1 \in T PROVE n \in T
    <3>1. n \in 1 .. m /\ n <= e /\ n \in 0 .. e
      BY <1>1
    <3>2. Follows(log, t, g[n - 1], c[n - 1], n - 1)
      BY <2>2
    <3>3. Follows(log, t, Counted(g[n - 1], s, n, log[n]), CostAfter(c[n - 1], log, row, n), n)
      BY <1>1, <1>2, <3>1, <3>2, TokenStep DEF m
    <3> QED BY <1>6, <1>7, <3>1, <3>3
  <2> HIDE DEF T
  <2>3. \A n \in 0 .. e : n \in T
    BY <1>1, <2>1, <2>2, SetInduction
  <2> QED BY <2>3 DEF T
<1>9. c[m] = c[e]
  <2> DEFINE T == {n \in 0 .. m : n >= e => c[n] = c[e]}
  <2>1. 0 \in T
    <3>1. 0 >= e => e = 0
      BY <1>1
    <3> QED BY <1>1, <3>1
  <2>2. ASSUME NEW n \in 1 .. m, n - 1 \in T PROVE n \in T
    <3>1. n \in 0 .. m /\ (n >= e => n = e \/ (n - 1 >= e /\ ~(n <= e)))
      BY <1>1
    <3>2. ~(n <= e) => c[n] = c[n - 1]
      BY <1>2, <1>7 DEF CostAfter, Turns, m
    <3> QED BY <2>2, <3>1, <3>2
  <2> HIDE DEF T
  <2>3. \A n \in 0 .. m : n \in T
    BY <1>1, <2>1, <2>2, SetInduction
  <2>4. m \in 0 .. m /\ m >= e
    BY <1>1
  <2> QED BY <2>3, <2>4 DEF T
<1>10. e \in 0 .. e
  BY <1>1
<1>11. Agree(g[e].used, c[e], AllKnown(t[e]))
  BY <1>8, <1>10 DEF Follows
<1> QED BY <1>4, <1>5, <1>9, <1>11 DEF e, s, lines, m

LEMMA InvShowsUsage == ASSUME RowsOfLog, TokensInv PROVE UsageAddsUp
<1> SUFFICES ASSUME format = "tokens", NEW row \in DOMAIN starts
             PROVE  LET used == CodexRollout(SubSeq(log, 1, EndOf(row)), starts[row])
                        cost == CostOf(row)
                    IN /\ used = {} <=> cost = {}
                       /\ \A u \in used, c \in cost : \A f \in DOMAIN c : u[f] \in {c[f], {}}
                       /\ (\A f \in DOMAIN spent : spent[f] # {}) => used = cost
  BY DEF UsageAddsUp
<1> DEFINE used == CodexRollout(SubSeq(log, 1, EndOf(row)), starts[row])
           cost == CostOf(row)
<1>1. row \in 1 .. Row
  <2>1. starts \in Seq(Nat)
    BY DEF RowsOfLog
  <2> QED BY <2>1, LenProperties DEF Row
<1>2. PICK t : TokenLog(log, t) /\ t[Len(log)] = spent
  BY DEF TokensInv
<1>3. Agree(used, cost, AllKnown(t[EndOf(row)]))
  BY <1>1, <1>2, RowCounted
<1>4. (\A f \in DOMAIN spent : spent[f] # {}) => AllKnown(t[EndOf(row)])
  <2>1. EndOf(row) \in 0 .. Len(log) /\ Len(log) \in 0 .. Len(log)
    BY <1>1, EndFacts DEF RowsOfLog, IsList
  <2>2. IsCounts(spent)
    BY <1>2, <2>1, LogCounts
  <2>3. (\A f \in DOMAIN spent : spent[f] # {}) => AllKnown(spent)
    BY <2>2 DEF IsCounts, AllKnown
  <2> QED BY <1>2, <2>1, <2>3, KnownBefore
<1> HIDE DEF used, cost
<1>5. ASSUME NEW x, NEW y, used = {x}, cost = {y}, UsageWithin(x, y)
      PROVE  \A u \in used, c \in cost : \A f \in DOMAIN c : u[f] \in {c[f], {}}
  BY <1>5 DEF UsageWithin, Within
<1>6. (used = {} <=> cost = {}) /\ (AllKnown(t[EndOf(row)]) => used = cost)
  BY <1>3 DEF Agree
<1>7. \A u \in used, c \in cost : \A f \in DOMAIN c : u[f] \in {c[f], {}}
  BY <1>3, <1>5 DEF Agree
<1> QED BY <1>4, <1>6, <1>7 DEF used, cost

OneMore(l, m) == IsList(m) /\ Len(m) = Len(l) + 1 /\ \A i \in 1 .. Len(l) : m[i] = l[i]
Carries(l, t, m, v) ==
  \E u : /\ u[Len(m)] = v /\ u[Len(l)] = t[Len(l)]
         /\ TokenLine(m, u, Len(m)) => TokenLog(m, u)

(* A line more: the lines before it count what they did.                    *)
LEMMA TokenLogGrows ==
  ASSUME NEW l, NEW t, TokenLog(l, t), NEW m, OneMore(l, m), NEW v
  PROVE  Carries(l, t, m, v)
<1> DEFINE n == Len(l)
           u == [k \in 0 .. n + 1 |-> IF k = n + 1 THEN v ELSE t[k]]
<1>1. n \in Nat /\ Len(m) = n + 1
  BY DEF TokenLog, IsList, OneMore
<1>2. u[n + 1] = v /\ \A k \in 0 .. n : u[k] = t[k]
  <2> HIDE DEF n
  <2> QED BY <1>1
<1> HIDE DEF u, n
<1>3. ASSUME NEW p, NEW k \in 0 .. n, LastToken(l, p, k) PROVE LastToken(m, p, k)
  <2>1. PICK j \in 1 .. k : /\ l[j].name = "token_count" /\ p = l[j]
                            /\ \A i \in j + 1 .. k : l[i].name # "token_count"
    BY <1>3 DEF LastToken
  <2>2. \A i \in 1 .. k : m[i] = l[i]
    BY <1>1 DEF n, OneMore
  <2>3. \A i \in j + 1 .. k : i \in 1 .. k
    BY <1>1
  <2> QED BY <2>1, <2>2, <2>3 DEF LastToken
<1>4. ASSUME NEW k \in 1 .. n PROVE TokenLine(m, u, k)
  <2>1. TokenLine(l, t, k)
    BY DEF TokenLog, n
  <2>2. m[k] = l[k] /\ u[k] = t[k] /\ u[k - 1] = t[k - 1] /\ k - 1 \in 0 .. n
    <3>1. k \in 0 .. n /\ k - 1 \in 0 .. n
      BY <1>1
    <3> QED BY <1>2, <3>1 DEF n, OneMore
  <2>3. LastToken(l, l[k], k - 1) => LastToken(m, m[k], k - 1)
    BY <1>3, <2>2
  <2> QED BY <2>1, <2>2, <2>3 DEF TokenLine, Original, Counts
<1>5. ASSUME TokenLine(m, u, n + 1) PROVE TokenLog(m, u)
  <2>1. \A k \in 1 .. n + 1 : k = n + 1 \/ k \in 1 .. n
    BY <1>1
  <2>2. u[0] = Zero
    BY <1>1, <1>2 DEF TokenLog
  <2> QED BY <1>1, <1>4, <1>5, <2>1, <2>2 DEF TokenLog, OneMore
<1>6. n \in 0 .. n
  BY <1>1
<1> QED BY <1>1, <1>2, <1>5, <1>6 DEF n, Carries

LEMMA TokensStart == ASSUME TimelineInit PROVE TokensInv
<1>1. log = <<>> /\ starts = <<0>> /\ spent = Zero
  BY DEF TimelineInit
<1> DEFINE t == [n \in 0 .. 0 |-> Zero]
<1>2. t[0] = Zero /\ Len(log) = 0 /\ IsList(log)
  BY <1>1, EmptyIsList
<1> HIDE DEF t
<1>3. TokenLog(log, t) /\ t[Len(log)] = spent
  BY <1>1, <1>2 DEF TokenLog
<1>4. \A r \in 1 .. Row : Turns(log, r, starts[r], EndOf(r))
  BY <1>2 DEF Turns
<1> QED BY <1>2, <1>3, <1>4 DEF TokensInv

\* An original line is of the row that runs, and ends no row before it.
LEMMA TurnsGrow ==
  ASSUME RowsOfLog, TokensInv, format = "tokens", UNCHANGED <<format, starts>>,
         IsList(log'), Len(log') = Len(log) + 1, \A i \in 1 .. Len(log) : log'[i] = log[i],
         Original(log', Len(log) + 1) => log'[Len(log) + 1].turn = Row
  PROVE  /\ \A r \in 1 .. Row : Turns(log', r, starts[r], EndOf(r)')
         /\ \A n \in 1 .. Len(log') : Original(log', n) => log'[n].turn \in 1 .. Row
<1>1. Len(log) \in Nat /\ Row \in Nat /\ Row \in 1 .. Row
  BY DEF RowsOfLog, IsList
<1>2. \A n \in 1 .. Len(log') : n = Len(log) + 1 \/ n \in 1 .. Len(log)
  BY <1>1
<1>3. \A n \in 1 .. Len(log) : Original(log', n) <=> Original(log, n)
  BY DEF Original
<1>4. ASSUME NEW r \in 1 .. Row, NEW n \in 1 .. Len(log'), Original(log', n)
      PROVE  log'[n].turn = r <=> starts[r] < n /\ n <= EndOf(r)'
  <2>0. starts[r] \in Nat /\ starts[r] <= Len(log)
    BY DEF RowsOfLog
  <2>1. CASE r = Row
    <3>1. EndOf(r)' = Len(log) + 1 /\ EndOf(r) = Len(log)
      BY <2>1 DEF EndOf, Row
    <3>2. CASE n \in 1 .. Len(log)
      <4>1. log[n].turn = r <=> starts[r] < n /\ n <= Len(log)
        BY <1>3, <1>4, <3>1, <3>2 DEF TokensInv, Turns
      <4>2. n <= Len(log) /\ n <= Len(log) + 1
        BY <1>1, <3>2
      <4> QED BY <3>1, <3>2, <4>1, <4>2
    <3>3. CASE n = Len(log) + 1
      <4>1. log'[n].turn = r
        BY <1>4, <2>1, <3>3
      <4>2. starts[r] < n /\ n <= Len(log) + 1
        BY <1>1, <2>0, <3>3
      <4> QED BY <3>1, <4>1, <4>2
    <3> QED BY <1>2, <3>2, <3>3
  <2>2. CASE r # Row
    <3>1. EndOf(r)' = EndOf(r) /\ EndOf(r) \in 0 .. Len(log)
      BY <2>2, EndFacts DEF EndOf, Row
    <3>2. CASE n \in 1 .. Len(log)
      <4>1. log[n].turn = r <=> starts[r] < n /\ n <= EndOf(r)
        BY <1>3, <1>4, <3>2 DEF TokensInv, Turns
      <4> QED BY <3>1, <3>2, <4>1
    <3>3. CASE n = Len(log) + 1
      <4>1. log'[n].turn = Row
        BY <1>4, <3>3
      <4>2. ~(n <= EndOf(r))
        BY <1>1, <3>1, <3>3
      <4> QED BY <2>2, <3>1, <4>1, <4>2
    <3> QED BY <1>2, <3>2, <3>3
  <2> QED BY <2>1, <2>2
<1>5. ASSUME NEW n \in 1 .. Len(log'), Original(log', n) PROVE log'[n].turn \in 1 .. Row
  <2>1. CASE n \in 1 .. Len(log)
    BY <1>3, <1>5, <2>1 DEF TokensInv
  <2>2. CASE n = Len(log) + 1
    BY <1>1, <1>5, <2>2
  <2> QED BY <1>2, <2>1, <2>2
<1> QED BY <1>4, <1>5 DEF Turns

LEMMA TokenCountKeeps ==
  ASSUME RowsOfLog, TokensInv, TokenCount
  PROVE  TokensInv'
<1>1. format = "tokens" /\ UNCHANGED <<format, kinds, starts, seen>>
  BY DEF TokenCount
<1>2. PICK request, last, total :
        /\ request \in Requests /\ spent' = Plus(spent, request)
        /\ last \in {{}, {request}} /\ total \in {{}, {spent'}}
        /\ last # {} \/ total # {}
        /\ log' = Append(log, [name |-> "token_count", last |-> last, total |-> total,
                              turn |-> Row, at |-> Len(log), request |-> request])
  BY DEF TokenCount
<1> DEFINE line == [name |-> "token_count", last |-> last, total |-> total,
                    turn |-> Row, at |-> Len(log), request |-> request]
<1>3. /\ line.name = "token_count" /\ line.last = last /\ line.total = total
      /\ line.turn = Row /\ line.at = Len(log) /\ line.request = request
  OBVIOUS
<1> HIDE DEF line
<1>4. /\ IsList(log') /\ Len(log') = Len(log) + 1 /\ Len(log) \in Nat
      /\ \A i \in 1 .. Len(log) : log'[i] = log[i]
      /\ log'[Len(log) + 1] = line
  BY <1>2, AppendedList DEF RowsOfLog, IsList, line
<1>5. PICK t : TokenLog(log, t) /\ t[Len(log)] = spent
  BY <1>1 DEF TokensInv
<1>6. PICK u : /\ u[Len(log')] = spent' /\ u[Len(log)] = t[Len(log)]
               /\ TokenLine(log', u, Len(log')) => TokenLog(log', u)
  <2>1. OneMore(log, log')
    BY <1>4, <1>5 DEF OneMore
  <2>2. Carries(log, t, log', spent')
    BY <1>4, <1>5, <2>1, TokenLogGrows
  <2> QED BY <2>2 DEF Carries
<1>7. Original(log', Len(log')) /\ Len(log') - 1 = Len(log)
  BY <1>3, <1>4 DEF Original
<1>8. TokenLine(log', u, Len(log'))
  <2>1. Counts(log', u, Len(log'))
    BY <1>2, <1>3, <1>4, <1>5, <1>6, <1>7 DEF Counts
  <2> QED BY <1>3, <1>4, <1>7, <2>1 DEF TokenLine
<1>9. /\ \A r \in 1 .. Row : Turns(log', r, starts[r], EndOf(r)')
      /\ \A n \in 1 .. Len(log') : Original(log', n) => log'[n].turn \in 1 .. Row
  BY <1>1, <1>3, <1>4, TurnsGrow
<1> QED BY <1>1, <1>6, <1>8, <1>9 DEF TokensInv, Row

LEMMA OtherLineKeeps ==
  ASSUME RowsOfLog, TokensInv, OtherLine
  PROVE  TokensInv'
<1>1. format = "tokens" /\ UNCHANGED <<format, kinds, starts, seen, spent>>
  BY DEF OtherLine
<1>2. PICK t : TokenLog(log, t) /\ t[Len(log)] = spent
  BY <1>1 DEF TokensInv
<1>3. Len(log) \in Nat /\ IsList(log)
  BY DEF RowsOfLog, IsList
<1>4. PICK line : /\ log' = Append(log, line)
                  /\ line.name = "token_count" =>
                       /\ LastToken(log, line, Len(log))
                       /\ line.at \in Nat /\ line.at < Len(log)
  <2>1. CASE log' = Append(log, Half)
    <3>1. Half.name # "token_count"
      BY DEF Half
    <3> QED BY <2>1, <3>1
  <2>2. ASSUME NEW n \in DOMAIN log, log[n].name = "token_count",
               \A m \in n + 1 .. Len(log) : log[m].name # "token_count", log' = Append(log, log[n])
        PROVE  /\ LastToken(log, log[n], Len(log))
               /\ log[n].at \in Nat /\ log[n].at < Len(log)
    <3>1. n \in 1 .. Len(log)
      BY <1>3, ListIsSeq
    <3>2. LastToken(log, log[n], Len(log))
      BY <2>2, <3>1 DEF LastToken
    <3>3. log[n].at \in Nat /\ log[n].at <= n - 1
      BY <1>2, <2>2, <3>1 DEF TokenLog, TokenLine
    <3> QED BY <1>3, <3>1, <3>2, <3>3
  <2> QED BY <2>1, <2>2 DEF OtherLine
<1>5. /\ IsList(log') /\ Len(log') = Len(log) + 1
      /\ \A i \in 1 .. Len(log) : log'[i] = log[i]
      /\ log'[Len(log) + 1] = line
  BY <1>3, <1>4, AppendedList
<1>6. PICK u : /\ u[Len(log')] = spent /\ u[Len(log)] = t[Len(log)]
               /\ TokenLine(log', u, Len(log')) => TokenLog(log', u)
  <2>1. OneMore(log, log')
    BY <1>2, <1>5 DEF OneMore
  <2>2. Carries(log, t, log', spent)
    BY <1>2, <1>5, <2>1, TokenLogGrows
  <2> QED BY <2>2 DEF Carries
<1>7. ~Original(log', Len(log')) /\ Len(log') - 1 = Len(log)
  BY <1>3, <1>4, <1>5 DEF Original
<1>8. ASSUME line.name = "token_count" PROVE LastToken(log', line, Len(log))
  <2>1. PICK k \in 1 .. Len(log) : /\ log[k].name = "token_count" /\ line = log[k]
                                   /\ \A i \in k + 1 .. Len(log) : log[i].name # "token_count"
    BY <1>4, <1>8 DEF LastToken
  <2>2. \A i \in k + 1 .. Len(log) : i \in 1 .. Len(log)
    BY <1>3
  <2> QED BY <1>5, <2>1, <2>2 DEF LastToken
<1>9. TokenLine(log', u, Len(log'))
  <2>1. line.name = "token_count" => line.at \in Nat /\ line.at <= Len(log)
    BY <1>3, <1>4
  <2> QED BY <1>2, <1>5, <1>6, <1>7, <1>8, <2>1 DEF TokenLine
<1>10. /\ \A r \in 1 .. Row : Turns(log', r, starts[r], EndOf(r)')
       /\ \A n \in 1 .. Len(log') : Original(log', n) => log'[n].turn \in 1 .. Row
  BY <1>1, <1>5, <1>7, TurnsGrow
<1> QED BY <1>1, <1>6, <1>9, <1>10 DEF TokensInv, Row

LEMMA SteerKeepsTokens ==
  ASSUME RowsOfLog, TokensInv, Steer
  PROVE  TokensInv'
<1>1. UNCHANGED <<format, kinds, log, spent>>
  BY DEF Steer
<1>2. /\ Row' = Row + 1 /\ starts'[Row + 1] = Len(log)
      /\ \A r \in 1 .. Row : starts'[r] = starts[r]
  BY SteerKeepsRows
<1>3. Row \in Nat \ {0} /\ Len(log) \in Nat
  BY DEF RowsOfLog, IsList
<1>4. ASSUME format = "tokens", NEW n \in 1 .. Len(log), Original(log, n) PROVE log[n].turn \in 1 .. Row
  BY <1>4 DEF TokensInv
<1>5. ASSUME format = "tokens", NEW r \in 1 .. Row + 1 PROVE Turns(log, r, starts'[r], EndOf(r)')
  <2>1. CASE r = Row + 1
    <3>1. EndOf(r)' = Len(log)
      BY <1>1, <1>2, <2>1 DEF EndOf
    <3>2. \A n \in 1 .. Len(log) : Original(log, n) => log[n].turn # r /\ ~(Len(log) < n)
      BY <1>3, <1>4, <1>5, <2>1
    <3> QED BY <1>2, <2>1, <3>1, <3>2 DEF Turns
  <2>2. CASE r = Row
    <3>1. EndOf(r)' = Len(log) /\ EndOf(r) = Len(log)
      BY <1>1, <1>2, <1>3, <2>2 DEF EndOf
    <3>2. r \in 1 .. Row
      BY <1>3, <2>2
    <3> QED BY <1>2, <1>5, <3>1, <3>2 DEF TokensInv
  <2>3. CASE r # Row /\ r # Row + 1
    <3>1. r \in 1 .. Row /\ r + 1 \in 1 .. Row
      BY <1>3, <2>3
    <3>2. EndOf(r)' = starts'[r + 1] /\ EndOf(r) = starts[r + 1]
      BY <1>2, <2>3 DEF EndOf
    <3> QED BY <1>2, <1>5, <3>1, <3>2 DEF TokensInv
  <2> QED BY <2>1, <2>2, <2>3
<1>6. ASSUME NEW n \in 1 .. Len(log), log[n].turn \in 1 .. Row PROVE log[n].turn \in 1 .. Row + 1
  BY <1>3, <1>6
<1> QED BY <1>1, <1>2, <1>4, <1>5, <1>6 DEF TokensInv

LEMMA TokensNextKeeps ==
  ASSUME RowsOfLog, TokensInv, [TimelineNext]_timelineVars
  PROVE  TokensInv'
<1>1. CASE Write \/ WriteOn \/ Page
  BY <1>1 DEF Write, WriteOn, Page, TokensInv
<1>2. CASE TokenCount
  BY <1>2, TokenCountKeeps
<1>3. CASE OtherLine
  BY <1>3, OtherLineKeeps
<1>4. CASE Steer
  BY <1>4, SteerKeepsTokens
<1>5. CASE UNCHANGED timelineVars
  BY <1>5 DEF timelineVars, TokensInv, Row, EndOf
<1> QED BY <1>1, <1>2, <1>3, <1>4, <1>5 DEF TimelineNext

\* The tokens codex_rollout_text counts of a row are what the requests of its
\* turn cost, whichever counts codex logged of them, and none of those before.
THEOREM TimelineUsage == TimelineSpec => []UsageAddsUp
<1>1. TimelineInit => TimelineInv /\ TokensInv
  BY TimelineStarts, TokensStart
<1>2. TimelineInv /\ TokensInv /\ [TimelineNext]_timelineVars => TimelineInv' /\ TokensInv'
  BY TimelineNextKeeps, TokensNextKeeps DEF TimelineInv
<1>3. TimelineInv /\ TokensInv => UsageAddsUp
  BY InvShowsUsage DEF TimelineInv
<1> QED BY <1>1, <1>2, <1>3, PTL DEF TimelineSpec
=============================================================================
